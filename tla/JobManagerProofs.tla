-------------------------- MODULE JobManagerProofs --------------------------
(***************************************************************************)
(* For every tree of managers, set of jobs and order of events: launchd's  *)
(* counts of the jobs that hold their peers in on-demand mode are right,   *)
(* managers exist and shut down with those above them, no process is left  *)
(* behind by a job that was freed, no job is left dead that has a reason   *)
(* to run, and a shutdown stops the jobs in the right order.               *)
(***************************************************************************)
EXTENDS JobManager, FiniteSetTheorems, TLAPS

Forced == "forced_peers_to_demand_mode"

MgrInt == [exists : BOOLEAN, shutting_down : BOOLEAN, req_port : BOOLEAN,
           shutdown_jobs_dirtied : BOOLEAN, shutdown_jobs_cleaned : BOOLEAN,
           global_on_demand_cnt : Int]

St    == [job : [Jobs -> Job], mgr : [Mgrs -> Mgr], list : SUBSET (Jobs \X Jobs),
          monitor : Jobs \cup {NoJob}, stale : BOOLEAN]
StInt == [job : [Jobs -> Job], mgr : [Mgrs -> MgrInt], list : SUBSET (Jobs \X Jobs),
          monitor : Jobs \cup {NoJob}, stale : BOOLEAN]

\* The jobs that hold the others of m in on-demand mode
Holders(s, m) == {j \in Jobs : Home[j] = m /\ Has(s, j, Forced)}

Counted(s) == \A m \in Mgrs : s.mgr[m].global_on_demand_cnt = Cardinality(Holders(s, m))

\* Nothing is set for a job that is not loaded, and a job that is has a manager
Housed(s) ==
  \A j \in Jobs :
    /\ ~s.job[j].loaded => s.job[j].flags = {} /\ ~s.job[j].timer
    /\ s.job[j].loaded => s.mgr[Home[j]].exists

\* One job at most is the monitor, and it is not freed while it is: it is
\* removed only when its process has gone, which ends its part
Monitored(s) ==
  \A j \in Jobs :
    /\ Has(s, j, "shutdown_monitor") <=> s.monitor = j
    /\ s.monitor = j => Home[j] = Root /\ (Has(s, j, "removal_pending") => Has(s, j, "p"))

\* What is never set: what nobody asks for, and most of a legacy server
Limited(s) ==
  \A j \in Jobs :
    /\ Has(s, j, Forced) => "globalOnDemand" \in Stimuli
    /\ Has(s, j, "removal_pending") => "remove" \in Stimuli
    /\ "legacy_mach_job" \in Traits[j] => s.job[j].flags \subseteq {"priv_port_has_senders"}

\* A manager has a manager above it, and shuts down with it
Rooted(s) ==
  \A m \in Mgrs \ {Root} : s.mgr[m].exists =>
    /\ s.mgr[Parent[m]].exists
    /\ s.mgr[Parent[m]].shutting_down => s.mgr[m].shutting_down

\* The two requests that together can leave a process behind do not both occur
Apart == ~({"globalOnDemand", "remove"} \subseteq Stimuli)

\* launchd has a pid for every process
Tidy(s) == Apart => \A j \in Jobs : s.job[j].child # "none" => Has(s, j, "p")

Sound(s) ==
  s \in St /\ Counted(s) /\ Housed(s) /\ Monitored(s) /\ Limited(s) /\ Rooted(s) /\ Tidy(s)

-----------------------------------------------------------------------------
(* Changes of jobs that keep the state sound.                              *)

\* From r to q, job j keeps its part
Keeps(j, r, q) ==
  /\ q.loaded = r.loaded
  /\ \A f \in {Forced, "removal_pending", "shutdown_monitor"} : f \in q.flags <=> f \in r.flags
  /\ "p" \in r.flags => "p" \in q.flags
  /\ ~r.loaded => q.flags = {} /\ ~q.timer
  /\ "legacy_mach_job" \in Traits[j] => q.flags \subseteq {"priv_port_has_senders"}
  /\ q.child # r.child => "p" \in q.flags \/ q.child = "none"

\* job_active() of a job's record
Act(r) == r.flags \cap {"p", "priv_port_has_senders", "isActive"} # {}

\* Of the managers, only the counts may change
SameMgrs(s, t) ==
  \A m \in Mgrs : /\ t.mgr[m].exists = s.mgr[m].exists
                  /\ t.mgr[m].shutting_down = s.mgr[m].shutting_down

\* Table() is the identity.
LEMMA TableIs == \A f : Table(f) = f
  BY DEF Table

\* Holders are finitely many.
LEMMA HoldersFinite ==
  ASSUME NEW s, NEW m
  PROVE  IsFiniteSet(Holders(s, m)) /\ Cardinality(Holders(s, m)) \in Nat
  <1>1. Holders(s, m) \in SUBSET Jobs
    BY DEF Holders
  <1>2. IsFiniteSet(Holders(s, m))
    BY <1>1, FiniteAssumption, FS_Subset
  <1> QED
    BY <1>2, FS_CardinalityType

\* The jobs F are freed and the others keep their part.
LEMMA JobsChange ==
  ASSUME NEW s, Sound(s), NEW t \in StInt, NEW F \in SUBSET Jobs,
         \A j \in F : t.job[j] = freed(s.job[j]) /\ ~Has(s, j, "p") /\ s.monitor # j,
         \A j \in Jobs \ F : Keeps(j, s.job[j], t.job[j]),
         \A m \in Mgrs : t.mgr[m].global_on_demand_cnt =
           s.mgr[m].global_on_demand_cnt - Cardinality({j \in F : Home[j] = m /\ Has(s, j, Forced)}),
         SameMgrs(s, t), t.monitor = s.monitor
  PROVE  Sound(t)
  <1> USE DEF Sound
  <1>1. \A j \in F : /\ t.job[j].flags = {} /\ ~t.job[j].loaded /\ ~t.job[j].timer
                     /\ t.job[j].child = s.job[j].child
    BY DEF freed, NotLoaded
  <1>2. Counted(t)
    <2> SUFFICES ASSUME NEW m \in Mgrs
                 PROVE  t.mgr[m].global_on_demand_cnt = Cardinality(Holders(t, m))
      BY DEF Counted
    <2> DEFINE H == Holders(s, m)
               G == {j \in F : Home[j] = m /\ Has(s, j, Forced)}
    <2>1. H \cap F = G
      BY DEF Holders
    <2>2. Holders(t, m) = H \ F
      BY <1>1 DEF Holders, Has, Keeps
    <2>3. Cardinality(H \ F) = Cardinality(H) - Cardinality(H \cap F)
      BY HoldersFinite, FS_Difference
    <2> QED
      BY <2>1, <2>2, <2>3 DEF Counted
  <1>3. t \in St
    <2>1. \A m \in Mgrs : t.mgr[m] \in MgrInt /\ t.mgr[m].global_on_demand_cnt \in Nat
      BY <1>2, HoldersFinite DEF Counted, StInt
    <2>2. \A m \in Mgrs : t.mgr[m] \in Mgr
      BY <2>1 DEF MgrInt, Mgr
    <2>3. t.mgr \in [Mgrs -> Mgr]
      BY <2>2 DEF StInt
    <2> QED
      BY <2>3 DEF St, StInt
  <1>4. Housed(t)
    BY <1>1, HomeAssumption DEF Housed, Keeps, SameMgrs
  <1>5. Monitored(t)
    BY <1>1 DEF Monitored, Keeps, Has
  <1>6. Limited(t)
    BY <1>1 DEF Limited, Keeps, Has
  <1>7. Rooted(t)
    BY ParentAssumption DEF Rooted, SameMgrs
  <1>8. Tidy(t)
    BY <1>1 DEF Tidy, Keeps, Has
  <1> QED
    BY <1>2, <1>3, <1>4, <1>5, <1>6, <1>7, <1>8

-----------------------------------------------------------------------------
(* Dispatching.                                                            *)

\* What Sound() says of one job.
LEMMA JobFacts ==
  ASSUME NEW s, Sound(s), NEW j \in Jobs
  PROVE  /\ s.job[j] \in Job
         /\ s.job[j].flags # {} \/ s.job[j].timer => s.job[j].loaded
         /\ "legacy_mach_job" \in Traits[j] => s.job[j].flags \subseteq {"priv_port_has_senders"}
  BY DEF Sound, St, Housed, Limited

\* job_dispatch() frees a job that has no process, or leaves it its part.
LEMMA DispatchedOne ==
  ASSUME NEW s, Sound(s), NEW j \in Jobs, s.job[j].loaded, NEW kickstart, NEW late
  PROVE  LET q == dispatched(s, j, kickstart, late)
         IN  /\ q \in Job
             /\ \/ /\ q = freed(s.job[j]) /\ ~q.loaded
                   /\ ~Has(s, j, "p") /\ s.monitor # j
                \/ Keeps(j, s.job[j], q)
  <1> DEFINE r == s.job[j]
             q == dispatched(s, j, kickstart, late)
  <1>1. r \in Job
    BY JobFacts
  <1>2. CASE q = r
    BY <1>1, <1>2, JobFacts DEF Keeps
  <1>3. CASE ~job_active(s, j) /\ job_useless(s, j)
    <2>1. q = freed(r)
      BY <1>3 DEF dispatched
    <2>2. ~Has(s, j, "p")
      BY <1>3 DEF job_active, Has
    <2>3. s.monitor # j
      BY <1>3, <2>2 DEF job_useless, Sound, Monitored, Limited, Has
    <2>4. freed(r) \in Job /\ ~freed(r).loaded
      BY <1>1 DEF freed, NotLoaded, Job
    <2> QED
      BY <2>1, <2>2, <2>3, <2>4
  <1>4. CASE ~job_active(s, j) /\ ~job_useless(s, j) /\ q = started(r, j \in late)
    <2>1. "legacy_mach_job" \notin Traits[j]
      BY <1>4, JobFacts DEF job_useless, Has
    <2>2. CASE j \in late
      <3>1. q = [r EXCEPT !.timer = TRUE]
        BY <1>4, <2>2 DEF started
      <3> QED
        BY <1>1, <2>1, <3>1 DEF Keeps, Job
    <2>3. CASE j \notin late
      <3>1. q = [r EXCEPT !.flags = (r.flags \ {"stopped"}) \cup {"p"}, !.child = "up"]
        BY <1>4, <2>3 DEF started
      <3>2. q \in Job
        BY <1>1, <3>1 DEF Job, Flag
      <3> QED
        BY <1>1, <2>1, <3>1, <3>2 DEF Keeps, Forced, Job
    <2> QED
      BY <2>2, <2>3
  <1> QED
    BY <1>2, <1>3, <1>4 DEF dispatched

\* The managers once jobs are freed: only the counts differ.
LEMMA ReleasedIs ==
  ASSUME NEW s, Sound(s), NEW F \in SUBSET Jobs
  PROVE  /\ released(s, F) \in [Mgrs -> MgrInt]
         /\ \A m \in Mgrs :
              /\ released(s, F)[m].exists = s.mgr[m].exists
              /\ released(s, F)[m].shutting_down = s.mgr[m].shutting_down
              /\ released(s, F)[m].global_on_demand_cnt =
                   s.mgr[m].global_on_demand_cnt
                     - Cardinality({j \in F : Home[j] = m /\ Has(s, j, Forced)})
  <1> DEFINE G(m) == {j \in F : Home[j] = m /\ Has(s, j, Forced)}
  <1>1. released(s, F) =
          [m \in Mgrs |-> [s.mgr[m] EXCEPT !.global_on_demand_cnt = @ - Cardinality(G(m))]]
    BY TableIs DEF released, Forced
  <1>2. \A m \in Mgrs : Cardinality(G(m)) \in Nat
    <2> TAKE m \in Mgrs
    <2>1. G(m) \in SUBSET Jobs
      OBVIOUS
    <2>2. IsFiniteSet(G(m))
      BY <2>1, FiniteAssumption, FS_Subset
    <2> QED
      BY <2>2, FS_CardinalityType
  <1>3. \A m \in Mgrs : s.mgr[m] \in Mgr
    BY DEF Sound, St
  <1> HIDE DEF G
  <1>4. ASSUME NEW m \in Mgrs
        PROVE  LET q == [s.mgr[m] EXCEPT !.global_on_demand_cnt = @ - Cardinality(G(m))]
               IN  /\ q \in MgrInt /\ q.exists = s.mgr[m].exists
                   /\ q.shutting_down = s.mgr[m].shutting_down
                   /\ q.global_on_demand_cnt = s.mgr[m].global_on_demand_cnt - Cardinality(G(m))
    BY <1>2, <1>3 DEF Mgr, MgrInt
  <1>5. released(s, F) \in [Mgrs -> MgrInt]
    BY <1>1, <1>4
  <1>6. \A m \in Mgrs :
           /\ released(s, F)[m].exists = s.mgr[m].exists
           /\ released(s, F)[m].shutting_down = s.mgr[m].shutting_down
           /\ released(s, F)[m].global_on_demand_cnt =
                s.mgr[m].global_on_demand_cnt - Cardinality(G(m))
    BY <1>1, <1>4
  <1> QED
    BY <1>5, <1>6 DEF G

\* From s to t jobs were dispatched: none but those of K changed, and the
\* managers keep their state.
Dispatches(s, t, K) ==
  /\ SameMgrs(s, t) /\ t.monitor = s.monitor /\ t.stale = s.stale
  /\ \A j \in Jobs \ K : t.job[j] = s.job[j]
  /\ \A j \in Jobs : Has(t, j, Forced) => Has(s, j, Forced)

\* Dispatching several jobs.
LEMMA DispatchJobsSound ==
  ASSUME NEW s, Sound(s), NEW K \in SUBSET Loaded(s), NEW late
  PROVE  Sound(DispatchJobs(s, K, late)) /\ Dispatches(s, DispatchJobs(s, K, late), K)
  <1> DEFINE js == [k \in Jobs |-> IF k \in K THEN dispatched(s, k, FALSE, late)
                                   ELSE s.job[k]]
             F  == {k \in K : ~js[k].loaded}
             t  == DispatchJobs(s, K, late)
  <1>1. t = [s EXCEPT !.job = js, !.list = Among(@, {k \in Jobs : js[k].loaded}),
                      !.mgr = released(s, F)]
    BY DEF DispatchJobs, Table
  <1>2. \A k \in K : k \in Jobs /\ s.job[k].loaded
    BY DEF Loaded
  <1>3. \A k \in K :
          /\ js[k] \in Job
          /\ \/ js[k] = freed(s.job[k]) /\ ~js[k].loaded /\ ~Has(s, k, "p") /\ s.monitor # k
             \/ Keeps(k, s.job[k], js[k])
    BY <1>2, DispatchedOne
  <1>4. \A k \in Jobs \ K : js[k] = s.job[k] /\ js[k] \in Job
    BY JobFacts
  <1>5. js \in [Jobs -> Job]
    BY <1>3, <1>4
  <1> HIDE DEF js
  <1>6. F \in SUBSET Jobs
    BY <1>2
  <1>7. \A k \in F : js[k] = freed(s.job[k]) /\ ~Has(s, k, "p") /\ s.monitor # k
    BY <1>2, <1>3 DEF Keeps
  <1>8. \A k \in Jobs \ F : Keeps(k, s.job[k], js[k])
    <2> TAKE k \in Jobs \ F
    <2>1. CASE k \in K
      BY <1>3, <2>1
    <2>2. CASE k \notin K
      BY <1>4, <2>2, JobFacts DEF Keeps
    <2> QED
      BY <2>1, <2>2
  <1> HIDE DEF F
  <1>9. /\ s \in St /\ t.job = js /\ t.mgr = released(s, F) /\ t.monitor = s.monitor
        /\ t.stale = s.stale /\ t.list = Among(s.list, {k \in Jobs : js[k].loaded})
        /\ t = [job |-> t.job, mgr |-> t.mgr, list |-> t.list, monitor |-> t.monitor,
                stale |-> t.stale]
    BY <1>1 DEF Sound, St
  <1> HIDE DEF t
  <1>10. t \in StInt
    <2>1. t.mgr \in [Mgrs -> MgrInt]
      BY <1>6, <1>9, ReleasedIs
    <2>2. t.list \in SUBSET (Jobs \X Jobs)
      BY <1>9 DEF Among, St
    <2> QED
      BY <1>5, <1>9, <2>1, <2>2 DEF St, StInt
  <1>11. SameMgrs(s, t)
    <2>1. \A m \in Mgrs : /\ released(s, F)[m].exists = s.mgr[m].exists
                          /\ released(s, F)[m].shutting_down = s.mgr[m].shutting_down
      BY <1>6, ReleasedIs
    <2> QED
      BY <1>9, <2>1 DEF SameMgrs
  <1>12. \A m \in Mgrs : t.mgr[m].global_on_demand_cnt =
           s.mgr[m].global_on_demand_cnt - Cardinality({j \in F : Home[j] = m /\ Has(s, j, Forced)})
    BY <1>6, <1>9, ReleasedIs
  <1>13. Sound(t)
    BY <1>6, <1>7, <1>8, <1>9, <1>10, <1>11, <1>12, JobsChange
  <1>14. \A j \in Jobs : Has(t, j, Forced) => Has(s, j, Forced)
    <2> TAKE j \in Jobs
    <2>1. CASE j \in F
      <3>1. t.job[j].flags = {}
        BY <1>7, <1>9, <2>1 DEF freed, NotLoaded
      <3> QED
        BY <3>1 DEF Has
    <2>2. CASE j \notin F
      BY <1>8, <1>9, <2>2 DEF Has, Keeps
    <2> QED
      BY <2>1, <2>2
  <1> QED
    BY <1>4, <1>9, <1>11, <1>13, <1>14 DEF t, Dispatches

-----------------------------------------------------------------------------
(* On-demand mode and removal.                                             *)

\* Each field of a state is in its set, and a state is its fields.
LEMMA StateFields ==
  ASSUME NEW s, Sound(s)
  PROVE  /\ s.job \in [Jobs -> Job] /\ s.mgr \in [Mgrs -> Mgr]
         /\ s.list \in SUBSET (Jobs \X Jobs)
         /\ s.monitor \in Jobs \cup {NoJob} /\ s.stale \in BOOLEAN
         /\ s = [job |-> s.job, mgr |-> s.mgr, list |-> s.list, monitor |-> s.monitor,
                 stale |-> s.stale]
  BY DEF Sound, St

\* Only job j changed, in a way that leaves everything else sound.
LEMMA OneJob ==
  ASSUME NEW s, Sound(s), NEW t, NEW j \in Jobs, NEW q \in Job,
         t.job = [s.job EXCEPT ![j] = q], t.mgr = s.mgr,
         t.list \in SUBSET (Jobs \X Jobs), t.stale \in BOOLEAN,
         t = [job |-> t.job, mgr |-> t.mgr, list |-> t.list, monitor |-> t.monitor,
              stale |-> t.stale],
         Forced \in q.flags <=> Has(s, j, Forced),
         q.loaded => s.job[j].loaded,
         ~q.loaded => q.flags = {} /\ ~q.timer,
         t.monitor = (IF s.monitor = j /\ "shutdown_monitor" \notin q.flags THEN NoJob
                      ELSE s.monitor),
         "shutdown_monitor" \in q.flags => Has(s, j, "shutdown_monitor"),
         {"shutdown_monitor", "removal_pending"} \subseteq q.flags => "p" \in q.flags,
         "removal_pending" \in q.flags => "remove" \in Stimuli,
         "legacy_mach_job" \in Traits[j] => q.flags \subseteq {"priv_port_has_senders"},
         Apart => (q.child # "none" => "p" \in q.flags)
  PROVE  Sound(t)
  <1>1. /\ s.job \in [Jobs -> Job] /\ s.mgr \in [Mgrs -> Mgr]
        /\ s.monitor \in Jobs \cup {NoJob}
    BY StateFields
  <1>2. t.job[j] = q /\ \A k \in Jobs \ {j} : t.job[k] = s.job[k]
    BY <1>1
  <1>3. t \in St
    BY <1>1 DEF St
  <1>4. Counted(t)
    <2>1. \A m \in Mgrs : Holders(t, m) = Holders(s, m)
      BY <1>2 DEF Holders, Has
    <2> QED
      BY <2>1 DEF Sound, Counted
  <1>5. Housed(t)
    BY <1>2 DEF Sound, Housed
  <1>6. Monitored(t)
    BY <1>1, <1>2, RootAssumption DEF Sound, Monitored, Has
  <1>7. Limited(t)
    BY <1>2 DEF Sound, Limited, Has
  <1>8. Rooted(t) /\ Tidy(t)
    BY <1>2 DEF Sound, Rooted, Tidy, Has
  <1> QED
    BY <1>3, <1>4, <1>5, <1>6, <1>7, <1>8 DEF Sound

\* A manager is among those above it and itself.
LEMMA UpReflexive ==
  ASSUME NEW m \in Mgrs
  PROVE  m \in Up[m]
  BY DEF Up

\* A manager whose parent is below m is below m.
LEMMA UpParent ==
  ASSUME NEW k \in Mgrs \ {Root}, NEW m \in Mgrs, Parent[k] \in Down(m)
  PROVE  k \in Down(m)
  <1>1. m \in Up[Parent[k]] /\ Parent[k] \in Mgrs
    BY ParentAssumption DEF Down
  <1>2. ASSUME NEW C \in SUBSET Mgrs, k \in C, \A n \in C \ {Root} : Parent[n] \in C
        PROVE  m \in C
    <2>1. Parent[k] \in C
      BY <1>2
    <2> QED
      BY <1>1, <1>2, <2>1 DEF Up
  <1> QED
    BY <1>2 DEF Down, Up

\* The flag and the count change together.
LEMMA ModeChange ==
  ASSUME NEW s, Sound(s), NEW j \in Jobs, NEW val \in BOOLEAN, NEW t,
         Has(s, j, Forced) # val, s.job[j].loaded,
         val => "globalOnDemand" \in Stimuli /\ Has(s, j, "p"),
         t = [s EXCEPT !.mgr[Home[j]].global_on_demand_cnt = IF val THEN @ + 1 ELSE @ - 1,
                       !.job[j].flags = IF val THEN @ \cup {Forced} ELSE @ \ {Forced}]
  PROVE  Sound(t)
  <1> DEFINE h == Home[j]
             F == IF val THEN s.job[j].flags \cup {Forced} ELSE s.job[j].flags \ {Forced}
             c == IF val THEN s.mgr[h].global_on_demand_cnt + 1
                         ELSE s.mgr[h].global_on_demand_cnt - 1
             q == [s.job[j] EXCEPT !.flags = F]
             u == [s.mgr[h] EXCEPT !.global_on_demand_cnt = c]
  <1>1. /\ s.job \in [Jobs -> Job] /\ s.mgr \in [Mgrs -> Mgr] /\ h \in Mgrs /\ j \in Jobs
        /\ s.list \in SUBSET (Jobs \X Jobs)
        /\ s.monitor \in Jobs \cup {NoJob} /\ s.stale \in BOOLEAN
        /\ s = [job |-> s.job, mgr |-> s.mgr, list |-> s.list, monitor |-> s.monitor,
                stale |-> s.stale]
    BY StateFields, HomeAssumption
  <1>2. /\ t = [job |-> t.job, mgr |-> t.mgr, list |-> s.list, monitor |-> s.monitor,
                stale |-> s.stale]
        /\ t.job = [s.job EXCEPT ![j] = q] /\ t.mgr = [s.mgr EXCEPT ![h] = u]
    BY <1>1
  <1>3. /\ s.job[j] \in Job /\ s.mgr[h] \in Mgr
        /\ t.job[j] = q /\ \A k \in Jobs \ {j} : t.job[k] = s.job[k]
        /\ t.mgr[h] = u /\ \A m \in Mgrs \ {h} : t.mgr[m] = s.mgr[m]
    BY <1>1, <1>2
  <1>4. q \in Job /\ q.flags = F /\ q.loaded /\ q.child = s.job[j].child
    BY <1>3 DEF Job, Flag, Forced
  <1>5. /\ u.exists = s.mgr[h].exists /\ u.shutting_down = s.mgr[h].shutting_down
        /\ u.global_on_demand_cnt = c
    BY <1>3 DEF Mgr
  <1>6. /\ \A f \in Flag \ {Forced} : f \in F <=> f \in s.job[j].flags
        /\ F \subseteq s.job[j].flags \cup {Forced}
        /\ Forced \in F <=> val
    BY DEF F
  <1> HIDE DEF q, u, F
  <1>7. Counted(t)
    <2> DEFINE H == Holders(s, h)
    <2>1. \A m \in Mgrs \ {h} : Holders(t, m) = Holders(s, m)
      BY <1>3 DEF Holders, Has
    <2>2. IsFiniteSet(H) /\ Cardinality(H) \in Nat /\ s.mgr[h].global_on_demand_cnt = Cardinality(H)
      BY <1>1, HoldersFinite DEF Sound, Counted
    <2>3. /\ \A k \in Jobs \ {j} : Has(t, k, Forced) <=> Has(s, k, Forced)
          /\ Has(t, j, Forced) <=> val
          /\ Has(s, j, Forced) <=> ~val
      BY <1>3, <1>4, <1>6 DEF Has
    <2>4. Cardinality(Holders(t, h)) = c
      <3>1. CASE val
        <4>1. Holders(t, h) = H \cup {j} /\ j \notin H
          BY ONLY <1>1, <2>3, <3>1 DEF Holders, h
        <4> QED
          BY <2>2, <3>1, <4>1, FS_AddElement
      <3>2. CASE ~val
        <4>1. Holders(t, h) = H \ {j} /\ j \in H
          BY ONLY <1>1, <2>3, <3>2 DEF Holders, h
        <4> QED
          BY <2>2, <3>2, <4>1, FS_RemoveElement
      <3> QED
        BY <3>1, <3>2
    <2>5. \A m \in Mgrs \ {h} : t.mgr[m].global_on_demand_cnt = Cardinality(Holders(t, m))
      BY <1>3, <2>1 DEF Sound, Counted
    <2>6. t.mgr[h].global_on_demand_cnt = Cardinality(Holders(t, h))
      BY <1>3, <1>5, <2>4
    <2> QED
      BY <2>5, <2>6 DEF Counted
  <1>8. u \in Mgr
    <2>1. c \in Nat
      BY <1>1, <1>3, <1>5, <1>7, HoldersFinite DEF Counted
    <2> HIDE DEF c
    <2> QED
      BY <1>3, <2>1 DEF Mgr, u
  <1> HIDE DEF c
  <1>9. t \in St
    <2>1. t.job \in [Jobs -> Job]
      BY ONLY <1>1, <1>2, <1>4
    <2>2. t.mgr \in [Mgrs -> Mgr]
      BY ONLY <1>1, <1>2, <1>8
    <2> QED
      BY ONLY <1>1, <1>2, <2>1, <2>2 DEF St
  <1>10. \A m \in Mgrs : /\ t.mgr[m].exists = s.mgr[m].exists
                        /\ t.mgr[m].shutting_down = s.mgr[m].shutting_down
    BY <1>3, <1>5
  <1>11. Housed(t)
    BY <1>3, <1>4, <1>10, HomeAssumption DEF Sound, Housed
  <1>12. Monitored(t)
    <2>1. \A f \in {"shutdown_monitor", "removal_pending", "p"} : f \in Flag \ {Forced}
      BY DEF Flag, Forced
    <2>2. t.monitor = s.monitor
      BY <1>2
    <2> QED
      BY <1>3, <1>4, <1>6, <2>1, <2>2 DEF Sound, Monitored, Has
  <1>13. Limited(t)
    <2>1. \A f \in {"removal_pending"} : f \in Flag \ {Forced}
      BY DEF Flag, Forced
    <2>2. val => "legacy_mach_job" \notin Traits[j]
      BY DEF Sound, Limited, Has
    <2>3. "legacy_mach_job" \in Traits[j] => F \subseteq {"priv_port_has_senders"}
      BY <1>6, <2>2, JobFacts
    <2> QED
      BY <1>3, <1>4, <1>6, <2>1, <2>3 DEF Sound, Limited, Has
  <1>14. Rooted(t)
    BY <1>10, ParentAssumption DEF Sound, Rooted
  <1>15. Tidy(t)
    <2>1. "p" \in Flag \ {Forced}
      BY DEF Flag, Forced
    <2> QED
      BY <1>3, <1>4, <1>6, <2>1 DEF Sound, Tidy, Has
  <1> QED
    BY <1>7, <1>9, <1>11, <1>12, <1>13, <1>14, <1>15 DEF Sound

\* job_dispatch_curious_jobs().
LEMMA CuriousSound ==
  ASSUME NEW s, Sound(s), NEW j \in Jobs, NEW late
  PROVE  LET t == job_dispatch_curious_jobs(s, j, late)
         IN  Sound(t) /\ Dispatches(s, t, Jobs \ {j})
  <1>1. Curious(s, j) \in SUBSET Loaded(s) /\ j \notin Curious(s, j)
    BY DEF Curious
  <1>2. /\ Sound(DispatchJobs(s, Curious(s, j), late))
        /\ Dispatches(s, DispatchJobs(s, Curious(s, j), late), Curious(s, j))
    BY <1>1, DispatchJobsSound
  <1> QED
    BY <1>1, <1>2 DEF job_dispatch_curious_jobs, Dispatches

\* job_set_global_on_demand().  In a root manager that is shutting down it
\* dispatches nobody.
LEMMA SetModeSound ==
  ASSUME NEW s, Sound(s), NEW j \in Jobs, s.job[j].loaded, NEW val \in BOOLEAN, NEW late,
         val => "globalOnDemand" \in Stimuli /\ Has(s, j, "p")
  PROVE  LET t == job_set_global_on_demand(s, j, val, late)
         IN  /\ Sound(t) /\ t.monitor = s.monitor
             /\ ~val => ~Has(t, j, Forced)
             /\ \/ Has(s, j, Forced) /\ ~(Home[j] = Root /\ s.mgr[Root].shutting_down)
                \/ val
                \/ Has(s, j, "p") <=> Has(t, j, "p")
  <1> DEFINE m == Home[j]
             c == IF val THEN s.mgr[m].global_on_demand_cnt + 1
                         ELSE s.mgr[m].global_on_demand_cnt - 1
             u == [s EXCEPT !.mgr[m].global_on_demand_cnt = c,
                            !.job[j].flags = IF val THEN @ \cup {Forced} ELSE @ \ {Forced}]
             v == [s EXCEPT !.mgr[m].global_on_demand_cnt = IF val THEN @ + 1 ELSE @ - 1,
                            !.job[j].flags = IF val THEN @ \cup {Forced} ELSE @ \ {Forced}]
             K == {k \in Loaded(u) : /\ Home[k] \in Down(m)
                                     /\ \A n \in Up[Home[k]] \cap Down(m) :
                                          ~u.mgr[n].shutting_down}
             t == job_set_global_on_demand(s, j, val, late)
  <1>1. CASE Has(s, j, Forced) = val
    BY <1>1 DEF job_set_global_on_demand, Forced
  <1>2. CASE Has(s, j, Forced) # val
    <2>1. t = IF c = 0 THEN DispatchJobs(u, K, late) ELSE u
      BY <1>2 DEF job_set_global_on_demand, force_peers, jobmgr_dispatch_all, Forced
    <2>2. u = v
      OBVIOUS
    <2>3. Sound(v)
      BY <1>2, ModeChange
    <2>4. Sound(u)
      BY <2>2, <2>3
    <2>5. /\ u.monitor = s.monitor
          /\ ~val => ~Has(u, j, Forced)
          /\ ~val => (Has(s, j, "p") <=> Has(u, j, "p"))
          /\ u.mgr[Root].shutting_down = s.mgr[Root].shutting_down
      <3>1. /\ s.job \in [Jobs -> Job] /\ s.mgr \in [Mgrs -> Mgr] /\ m \in Mgrs
            /\ s = [job |-> s.job, mgr |-> s.mgr, list |-> s.list, monitor |-> s.monitor,
                    stale |-> s.stale]
        BY StateFields, HomeAssumption
      <3>2. /\ u.monitor = s.monitor
            /\ u.job[j] = [s.job[j] EXCEPT !.flags = IF val THEN @ \cup {Forced} ELSE @ \ {Forced}]
            /\ u.mgr = [s.mgr EXCEPT ![m] = [s.mgr[m] EXCEPT !.global_on_demand_cnt = c]]
        BY <3>1
      <3>3. s.job[j] \in Job /\ s.mgr[m] \in Mgr /\ s.mgr[Root] \in Mgr
        BY <3>1, RootAssumption
      <3>4. ~val => u.job[j].flags = s.job[j].flags \ {Forced}
        BY <3>2, <3>3 DEF Job
      <3>5. u.mgr[Root].shutting_down = s.mgr[Root].shutting_down
        BY <3>1, <3>2, <3>3, RootAssumption DEF Mgr
      <3> QED
        BY <3>2, <3>4, <3>5 DEF Has, Forced
    <2> HIDE DEF u, v, c
    <2>6. K \in SUBSET Loaded(u)
      OBVIOUS
    <2>7. m = Root /\ s.mgr[Root].shutting_down => K = {}
      BY <2>5, UpReflexive, RootAssumption DEF Down
    <2> HIDE DEF K
    <2>8. Sound(DispatchJobs(u, K, late)) /\ Dispatches(u, DispatchJobs(u, K, late), K)
      BY <2>4, <2>6, DispatchJobsSound
    <2>9. CASE c = 0
      <3>1. t = DispatchJobs(u, K, late)
        BY <2>1, <2>9
      <3> HIDE DEF t
      <3>2. Sound(t) /\ Dispatches(u, t, K)
        BY <2>8, <3>1
      <3>3. t.monitor = s.monitor /\ (~val => ~Has(t, j, Forced))
        BY <2>5, <3>2 DEF Dispatches
      <3>4. m = Root /\ s.mgr[Root].shutting_down /\ ~val => (Has(s, j, "p") <=> Has(t, j, "p"))
        BY <2>5, <2>7, <3>2 DEF Dispatches, Has
      <3>5. val \/ Has(s, j, Forced)
        BY <1>2 DEF Has
      <3>6. t = job_set_global_on_demand(s, j, val, late)
        BY DEF t
      <3> QED
        BY <3>2, <3>3, <3>4, <3>5, <3>6
    <2>10. CASE c # 0
      BY <2>1, <2>4, <2>5, <2>10
    <2> QED
      BY <2>9, <2>10
  <1> QED
    BY <1>1, <1>2

\* The second half of job_remove().
LEMMA FreeSound ==
  ASSUME NEW s, Sound(s), NEW j \in Jobs, ~Has(s, j, Forced), Apart => ~Has(s, j, "p")
  PROVE  Sound(job_free(s, j))
  <1> DEFINE t == job_free(s, j)
             q == freed(s.job[j])
  <1>1. /\ s.job \in [Jobs -> Job] /\ s.list \in SUBSET (Jobs \X Jobs) /\ s.stale \in BOOLEAN
        /\ s.job[j] \in Job
        /\ s = [job |-> s.job, mgr |-> s.mgr, list |-> s.list, monitor |-> s.monitor,
                stale |-> s.stale]
    BY StateFields
  <1>2. /\ t.job = [s.job EXCEPT ![j] = q] /\ t.mgr = s.mgr
        /\ t.list = Among(s.list, Jobs \ {j})
        /\ t.monitor = (IF s.monitor = j THEN NoJob ELSE s.monitor)
        /\ t.stale \in BOOLEAN
        /\ t = [job |-> t.job, mgr |-> t.mgr, list |-> t.list, monitor |-> t.monitor,
                stale |-> t.stale]
    <2> DEFINE z == s.stale \/ ~s.job[j].loaded
    <2>1. z \in BOOLEAN
      OBVIOUS
    <2> HIDE DEF z
    <2>2. t = [s EXCEPT !.job[j] = q, !.list = Among(s.list, Jobs \ {j}),
                        !.monitor = IF s.monitor = j THEN NoJob ELSE s.monitor,
                        !.stale = z]
      BY DEF job_free, z
    <2> HIDE DEF t, q
    <2> QED
      BY <1>1, <2>1, <2>2
  <1> HIDE DEF t
  <1>3. q \in Job /\ q.flags = {} /\ ~q.loaded /\ ~q.timer /\ q.child = s.job[j].child
    BY <1>1 DEF freed, NotLoaded, Job
  <1>4. Apart => q.child = "none"
    BY <1>3 DEF Sound, Tidy
  <1>5. t.list \in SUBSET (Jobs \X Jobs)
    BY <1>1, <1>2 DEF Among
  <1> HIDE DEF q
  <1> QED
    BY <1>2, <1>3, <1>4, <1>5, OneJob DEF t

\* job_remove() of a job that has a process.
LEMMA RemoveRunning ==
  ASSUME NEW s, Sound(s), NEW j \in Jobs, Has(s, j, "p"), NEW late
  PROVE  job_remove(s, j, late) =
           [s EXCEPT !.job[j] = [s.job[j] EXCEPT !.flags = @ \cup {"removal_pending", "stopped"}]]
  <1> DEFINE r == [s.job[j] EXCEPT !.flags = @ \cup {"removal_pending"}]
             q == [s.job[j] EXCEPT !.flags = @ \cup {"removal_pending", "stopped"}]
  <1>1. /\ s.job \in [Jobs -> Job] /\ s.job[j] \in Job
        /\ s = [job |-> s.job, mgr |-> s.mgr, list |-> s.list, monitor |-> s.monitor,
                stale |-> s.stale]
    BY StateFields
  <1>2. job_remove(s, j, late) = [Set(s, j, "removal_pending") EXCEPT !.job[j] = job_stop(@)]
    BY DEF job_remove
  <1>3. Set(s, j, "removal_pending") = [s EXCEPT !.job[j] = r]
    BY <1>1 DEF Set
  <1>4. r \in Job /\ "p" \in r.flags /\ r.flags = s.job[j].flags \cup {"removal_pending"}
    BY <1>1 DEF Has, Job, Flag
  <1>5. job_stop(r) = q
    BY <1>1, <1>4 DEF job_stop, Job
  <1> HIDE DEF r, q
  <1>6. job_remove(s, j, late) = [s EXCEPT !.job[j] = q]
    BY <1>1, <1>2, <1>3, <1>5
  <1> QED
    BY <1>6 DEF q

\* job_remove().
LEMMA RemoveSound ==
  ASSUME NEW s, Sound(s), NEW j \in Jobs, s.job[j].loaded, NEW late,
         Has(s, j, "p") => "remove" \in Stimuli,
         Apart /\ Has(s, j, Forced) /\ ~Has(s, j, "p")
           => Home[j] = Root /\ s.mgr[Root].shutting_down
  PROVE  Sound(job_remove(s, j, late))
  <1>1. CASE Has(s, j, "p")
    <2> DEFINE q == [s.job[j] EXCEPT !.flags = @ \cup {"removal_pending", "stopped"}]
               t == [s EXCEPT !.job[j] = q]
    <2>1. /\ s.job \in [Jobs -> Job] /\ s.job[j] \in Job
          /\ s.list \in SUBSET (Jobs \X Jobs) /\ s.stale \in BOOLEAN
          /\ s = [job |-> s.job, mgr |-> s.mgr, list |-> s.list, monitor |-> s.monitor,
                  stale |-> s.stale]
      BY StateFields
    <2>2. job_remove(s, j, late) = t
      BY <1>1, RemoveRunning
    <2>3. /\ q \in Job /\ q.loaded = s.job[j].loaded /\ q.child = s.job[j].child
          /\ q.flags = s.job[j].flags \cup {"removal_pending", "stopped"}
      BY <2>1 DEF Job, Flag
    <2> HIDE DEF q
    <2>4. /\ t.job = [s.job EXCEPT ![j] = q] /\ t.mgr = s.mgr /\ t.list = s.list
          /\ t.monitor = s.monitor /\ t.stale = s.stale
          /\ t = [job |-> t.job, mgr |-> t.mgr, list |-> t.list, monitor |-> t.monitor,
                  stale |-> t.stale]
      BY <2>1
    <2> HIDE DEF t
    <2>5. /\ Forced \in q.flags <=> Has(s, j, Forced)
          /\ "p" \in q.flags
          /\ "shutdown_monitor" \in q.flags <=> Has(s, j, "shutdown_monitor")
          /\ q.loaded
      BY <1>1, <2>3 DEF Has, Forced
    <2>6. "legacy_mach_job" \notin Traits[j]
      BY <1>1, JobFacts DEF Has
    <2>7. "remove" \in Stimuli
      BY <1>1
    <2>8. s.monitor = j => "shutdown_monitor" \in q.flags
      BY <2>5 DEF Sound, Monitored
    <2>9. Sound(t)
      BY <2>1, <2>3, <2>4, <2>5, <2>6, <2>7, <2>8, OneJob
    <2> QED
      BY <2>2, <2>9
  <1>2. CASE ~Has(s, j, "p")
    <2> DEFINE t == job_dispatch_curious_jobs(s, j, late)
               u == job_set_global_on_demand(t, j, FALSE, late)
    <2>1. job_remove(s, j, late) = job_free(u, j)
      BY <1>2 DEF job_remove
    <2>2. Sound(t) /\ Dispatches(s, t, Jobs \ {j})
      BY CuriousSound
    <2>3. t.job[j] = s.job[j] /\ t.mgr[Root].shutting_down = s.mgr[Root].shutting_down
      BY <2>2, RootAssumption DEF Dispatches, SameMgrs
    <2> HIDE DEF t
    <2>4. /\ Sound(u) /\ ~Has(u, j, Forced)
          /\ \/ Has(t, j, Forced) /\ ~(Home[j] = Root /\ t.mgr[Root].shutting_down)
             \/ Has(t, j, "p") <=> Has(u, j, "p")
      BY <2>2, <2>3, SetModeSound
    <2> HIDE DEF u
    <2>5. Apart => ~Has(u, j, "p")
      BY <1>2, <2>3, <2>4 DEF Has
    <2>6. Sound(job_free(u, j))
      BY <2>4, <2>5, FreeSound
    <2> QED
      BY <2>1, <2>6
  <1> QED
    BY <1>1, <1>2

\* Only job j changed, and it keeps its part.
LEMMA KeepsSound ==
  ASSUME NEW s, Sound(s), NEW t, NEW j \in Jobs, NEW q \in Job, Keeps(j, s.job[j], q),
         t.job = [s.job EXCEPT ![j] = q], t.mgr = s.mgr,
         t.list = s.list, t.monitor = s.monitor, t.stale = s.stale,
         t = [job |-> t.job, mgr |-> t.mgr, list |-> t.list, monitor |-> t.monitor,
              stale |-> t.stale]
  PROVE  Sound(t)
  <1>1. t.list \in SUBSET (Jobs \X Jobs) /\ t.stale \in BOOLEAN
    BY StateFields
  <1>2. /\ Forced \in q.flags <=> Has(s, j, Forced)
        /\ q.loaded <=> s.job[j].loaded
        /\ "shutdown_monitor" \in q.flags <=> Has(s, j, "shutdown_monitor")
        /\ "legacy_mach_job" \in Traits[j] => q.flags \subseteq {"priv_port_has_senders"}
    BY DEF Keeps, Has
  <1>3. ~q.loaded => q.flags = {} /\ ~q.timer
    BY DEF Keeps
  <1>4. {"shutdown_monitor", "removal_pending"} \subseteq q.flags => "p" \in q.flags
    BY DEF Keeps, Sound, Monitored, Has
  <1>5. "removal_pending" \in q.flags => "remove" \in Stimuli
    BY DEF Keeps, Sound, Limited, Has
  <1>6. Apart => (q.child # "none" => "p" \in q.flags)
    BY DEF Keeps, Sound, Tidy, Has
  <1>7. t.monitor = (IF s.monitor = j /\ "shutdown_monitor" \notin q.flags THEN NoJob
                     ELSE s.monitor)
    BY <1>2 DEF Sound, Monitored
  <1> QED
    BY <1>1, <1>2, <1>3, <1>4, <1>5, <1>6, <1>7, OneJob

\* job_dispatch().
LEMMA DispatchSound ==
  ASSUME NEW s, Sound(s), NEW j \in Jobs, s.job[j].loaded, NEW kickstart, NEW late
  PROVE  Sound(job_dispatch(s, j, kickstart, late))
  <1>1. CASE ~job_active(s, j) /\ job_useless(s, j)
    <2>1. ~Has(s, j, "p")
      BY <1>1 DEF job_active, Has
    <2>2. Apart /\ Has(s, j, Forced) => Home[j] = Root /\ s.mgr[Root].shutting_down
      <3>1. Apart /\ Has(s, j, Forced) => ~Has(s, j, "removal_pending")
        BY DEF Sound, Limited, Apart
      <3>2. Has(s, j, Forced) => "legacy_mach_job" \notin Traits[j]
        BY JobFacts DEF Has, Forced
      <3> QED
        BY <1>1, <3>1, <3>2 DEF job_useless, ShuttingDown
    <2>3. Sound(job_remove(s, j, late))
      BY <2>1, <2>2, RemoveSound
    <2> QED
      BY <1>1, <2>3 DEF job_dispatch
  <1>2. CASE job_active(s, j) \/ ~job_useless(s, j)
    <2> DEFINE q == dispatched(s, j, kickstart, late)
               t == [s EXCEPT !.job[j] = q]
    <2>1. job_dispatch(s, j, kickstart, late) = t
      BY <1>2 DEF job_dispatch
    <2>2. q.loaded
      <3>1. s.job[j] \in Job
        BY JobFacts
      <3>2. q \in {s.job[j], started(s.job[j], j \in late)}
        BY <1>2 DEF dispatched
      <3>3. started(s.job[j], j \in late).loaded
        BY <3>1 DEF started, Job
      <3> QED
        BY <3>2, <3>3
    <2>3. q \in Job /\ Keeps(j, s.job[j], q)
      BY <2>2, DispatchedOne
    <2> HIDE DEF q
    <2>4. /\ s.job \in [Jobs -> Job] /\ s.mgr \in [Mgrs -> Mgr]
          /\ s.list \in SUBSET (Jobs \X Jobs) /\ s.stale \in BOOLEAN
          /\ s = [job |-> s.job, mgr |-> s.mgr, list |-> s.list, monitor |-> s.monitor,
                  stale |-> s.stale]
      BY StateFields
    <2>5. /\ t.job = [s.job EXCEPT ![j] = q] /\ t.mgr = s.mgr /\ t.list = s.list
          /\ t.monitor = s.monitor /\ t.stale = s.stale
          /\ t = [job |-> t.job, mgr |-> t.mgr, list |-> t.list, monitor |-> t.monitor,
                  stale |-> t.stale]
      BY <2>4
    <2> HIDE DEF t
    <2>6. Sound(t)
      BY <2>3, <2>4, <2>5, KeepsSound
    <2> QED
      BY <2>1, <2>6
  <1> QED
    BY <1>1, <1>2

-----------------------------------------------------------------------------
(* Shutdown.                                                               *)

\* A job that is told to stop, with or without a transaction held over the
\* shutdown, keeps its part.
LEMMA StopKeeps ==
  ASSUME NEW s, Sound(s), NEW j \in Jobs, s.job[j].loaded
  PROVE  /\ job_stop(s.job[j]) \in Job /\ Keeps(j, s.job[j], job_stop(s.job[j]))
         /\ job_stop(opened(s, j)) \in Job /\ Keeps(j, s.job[j], job_stop(opened(s, j)))
  <1> DEFINE r == s.job[j]
  <1>1. /\ r \in Job /\ r.loaded
        /\ "legacy_mach_job" \in Traits[j] => r.flags \subseteq {"priv_port_has_senders"}
    BY JobFacts
  <1>2. ASSUME NEW o \in Job, o.loaded, o.child = r.child,
               o.flags \in {r.flags, r.flags \ {"dirty_at_shutdown"}}
        PROVE  job_stop(o) \in Job /\ Keeps(j, r, job_stop(o))
    <2>1. CASE "p" \in o.flags
      <3>1. job_stop(o) = [o EXCEPT !.flags = @ \cup {"stopped"}]
        BY <2>1 DEF job_stop
      <3> DEFINE q == job_stop(o)
      <3>2. /\ q \in Job /\ q.loaded /\ q.child = r.child
            /\ q.flags = o.flags \cup {"stopped"}
        BY <1>2, <3>1 DEF Job, Flag
      <3>3. "legacy_mach_job" \notin Traits[j]
        BY <1>1, <1>2, <2>1
      <3> HIDE DEF q
      <3>4. Keeps(j, r, q)
        BY <1>1, <1>2, <3>2, <3>3 DEF Keeps, Forced
      <3> QED
        BY <3>2, <3>4 DEF q
    <2>2. CASE "p" \notin o.flags
      <3>1. job_stop(o) = o
        BY <2>2 DEF job_stop
      <3>2. Keeps(j, r, o)
        BY <1>1, <1>2 DEF Keeps, Forced
      <3> QED
        BY <3>1, <3>2
    <2> QED
      BY <2>1, <2>2
  <1> DEFINE o == opened(s, j)
  <1>3. /\ o \in Job /\ o.loaded /\ o.child = r.child
        /\ o.flags \in {r.flags, r.flags \ {"dirty_at_shutdown"}}
    <2>1. o \in {r, [r EXCEPT !.txn = TRUE],
                 [r EXCEPT !.flags = r.flags \ {"dirty_at_shutdown"}]}
      BY DEF opened
    <2> HIDE DEF o
    <2> QED
      BY <1>1, <2>1 DEF Job
  <1> HIDE DEF o
  <1>4. job_stop(o) \in Job /\ Keeps(j, r, job_stop(o))
    BY <1>2, <1>3
  <1>5. job_stop(r) \in Job /\ Keeps(j, r, job_stop(r))
    BY <1>1, <1>2
  <1> QED
    BY <1>4, <1>5 DEF o

\* Being told to stop, and a transaction, leave a job as active as it was.
LEMMA StopCalm ==
  ASSUME NEW s, Sound(s), NEW j \in Jobs
  PROVE  /\ Act(s.job[j]) => Act(job_stop(s.job[j])) /\ Act(job_stop(opened(s, j)))
         /\ job_stop(s.job[j]).timer = s.job[j].timer
         /\ job_stop(opened(s, j)).timer = s.job[j].timer
  <1> DEFINE r == s.job[j]
             o == opened(s, j)
  <1>1. r \in Job
    BY JobFacts
  <1>2. ASSUME NEW x \in Job
        PROVE  job_stop(x).timer = x.timer /\ (Act(x) => Act(job_stop(x)))
    <2>1. job_stop(x) = x \/ job_stop(x) = [x EXCEPT !.flags = @ \cup {"stopped"}]
      BY DEF job_stop
    <2>2. job_stop(x).timer = x.timer /\ x.flags \subseteq job_stop(x).flags
      BY <2>1 DEF Job
    <2> QED
      BY <2>2 DEF Act
  <1>3. o \in Job /\ o.timer = r.timer /\ r.flags \ {"dirty_at_shutdown"} \subseteq o.flags
    <2>1. o \in {r, [r EXCEPT !.txn = TRUE],
                 [r EXCEPT !.flags = r.flags \ {"dirty_at_shutdown"}]}
      BY DEF opened
    <2> HIDE DEF o
    <2> QED
      BY <1>1, <2>1 DEF Job
  <1> HIDE DEF o
  <1>4. Act(r) => Act(o)
    BY <1>3 DEF Act
  <1>5. /\ job_stop(r).timer = r.timer /\ (Act(r) => Act(job_stop(r)))
        /\ job_stop(o).timer = o.timer /\ (Act(o) => Act(job_stop(o)))
    BY <1>1, <1>2, <1>3
  <1> QED
    BY <1>3, <1>4, <1>5 DEF o

\* From s to t, jobs of the managers T were freed or told to stop
Swept(s, t, T) ==
  /\ SameMgrs(s, t)
  /\ \A j \in Jobs : t.job[j].loaded =>
       /\ Keeps(j, s.job[j], t.job[j])
       /\ Act(s.job[j]) => Act(t.job[j])
       /\ t.job[j].timer = s.job[j].timer
       /\ \/ t.job[j] = s.job[j] /\ (Home[j] \notin T \/ Has(s, j, "shutdown_monitor"))
          \/ /\ t.job[j] = job_stop(opened(s, j)) /\ Act(s.job[j])
             /\ Home[j] \in T /\ ~Has(s, j, "shutdown_monitor")
  /\ \A m \in Mgrs \ T :
       t.mgr[m].global_on_demand_cnt = s.mgr[m].global_on_demand_cnt

\* The loop of the collection over the jobs: those of T change or are freed,
\* and then jobs C, curious about them, are dispatched.
LEMMA CollectIs ==
  ASSUME NEW s, Sound(s), NEW T \in SUBSET Mgrs, NEW late
  PROVE  \E t, C : /\ Sound(t) /\ Swept(s, t, T) /\ C \in SUBSET Loaded(t)
                   /\ collect_jobs(s, T, late) = DispatchJobs(t, C, late)
  <1> DEFINE K    == UNION {Collected(s, m) : m \in T}
             Idle == {j \in K : ~job_active(s, j)}
             js   == [j \in Jobs |-> IF j \in Idle THEN freed(s.job[j])
                                     ELSE IF j \in K THEN job_stop(opened(s, j))
                                     ELSE s.job[j]]
             ms   == [m \in Mgrs |->
                       [released(s, Idle)[m] EXCEPT !.shutdown_jobs_dirtied = @ \/ m \in T]]
             z    == s.stale \/ \E j \in Idle : NextFreed(s, j, Idle)
             L    == Among(s.list, {j \in Jobs : js[j].loaded})
             t    == [s EXCEPT !.job = js, !.list = L, !.stale = z, !.mgr = ms]
             C    == UNION {Curious(t, j) : j \in Idle}
  <1>1. collect_jobs(s, T, late) = DispatchJobs(t, C, late)
    BY DEF collect_jobs, Table
  <1>2. K \in SUBSET Jobs /\ \A j \in K : s.job[j].loaded /\ ~Has(s, j, "shutdown_monitor")
    BY DEF Collected, Loaded
  <1> HIDE DEF K
  <1>3. Idle \in SUBSET Jobs /\ \A j \in Idle : ~Has(s, j, "p") /\ s.monitor # j
    BY <1>2 DEF job_active, Has, Sound, Monitored
  <1> HIDE DEF Idle
  <1>4. \A j \in Jobs : s.job[j] \in Job /\ freed(s.job[j]) \in Job
    BY JobFacts DEF freed, NotLoaded, Job
  <1>5. \A j \in Jobs : js[j] \in Job
    BY <1>2, <1>4, StopKeeps
  <1>6. \A j \in Jobs \ Idle : Keeps(j, s.job[j], js[j])
    <2> TAKE j \in Jobs \ Idle
    <2>1. CASE j \in K
      BY <1>2, <2>1, StopKeeps
    <2>2. CASE j \notin K
      BY <2>2, JobFacts DEF Keeps
    <2> QED
      BY <2>1, <2>2
  <1>7. js \in [Jobs -> Job] /\ \A j \in Idle : js[j] = freed(s.job[j])
    BY <1>3, <1>5
  <1> HIDE DEF js
  <1>8. z \in BOOLEAN
    OBVIOUS
  <1> HIDE DEF z
  <1>9. /\ ms \in [Mgrs -> MgrInt]
        /\ \A m \in Mgrs :
             /\ ms[m].exists = s.mgr[m].exists
             /\ ms[m].shutting_down = s.mgr[m].shutting_down
             /\ ms[m].global_on_demand_cnt =
                  s.mgr[m].global_on_demand_cnt
                    - Cardinality({j \in Idle : Home[j] = m /\ Has(s, j, Forced)})
    <2> DEFINE R == released(s, Idle)
    <2>1. /\ R \in [Mgrs -> MgrInt]
          /\ \A m \in Mgrs :
               /\ R[m].exists = s.mgr[m].exists
               /\ R[m].shutting_down = s.mgr[m].shutting_down
               /\ R[m].global_on_demand_cnt =
                    s.mgr[m].global_on_demand_cnt
                      - Cardinality({j \in Idle : Home[j] = m /\ Has(s, j, Forced)})
      BY <1>3, ReleasedIs
    <2> HIDE DEF R
    <2>2. ASSUME NEW m \in Mgrs
          PROVE  /\ ms[m] \in MgrInt /\ ms[m].exists = R[m].exists
                 /\ ms[m].shutting_down = R[m].shutting_down
                 /\ ms[m].global_on_demand_cnt = R[m].global_on_demand_cnt
      <3>1. R[m] \in MgrInt
        BY <2>1
      <3> DEFINE d == R[m].shutdown_jobs_dirtied \/ m \in T
      <3>2. d \in BOOLEAN
        OBVIOUS
      <3>3. ms[m] = [R[m] EXCEPT !.shutdown_jobs_dirtied = d]
        BY DEF R
      <3> HIDE DEF d, ms
      <3> QED
        BY <3>1, <3>2, <3>3 DEF MgrInt
    <2>3. ms \in [Mgrs -> MgrInt]
      BY <2>2
    <2> HIDE DEF ms
    <2> QED
      BY <2>1, <2>2, <2>3
  <1> HIDE DEF ms
  <1>10. /\ s.list \in SUBSET (Jobs \X Jobs) /\ s.monitor \in Jobs \cup {NoJob}
         /\ s = [job |-> s.job, mgr |-> s.mgr, list |-> s.list, monitor |-> s.monitor,
                 stale |-> s.stale]
    BY StateFields
  <1>11. /\ t.job = js /\ t.mgr = ms /\ t.monitor = s.monitor /\ t.stale = z
         /\ t.list = L
         /\ t = [job |-> t.job, mgr |-> t.mgr, list |-> t.list, monitor |-> t.monitor,
                 stale |-> t.stale]
    <2> HIDE DEF L
    <2>1. s \in St
      BY DEF Sound
    <2>2. t = [s EXCEPT !.job = js, !.list = L, !.stale = z, !.mgr = ms]
      OBVIOUS
    <2> HIDE DEF t
    <2>3. /\ t.job = js /\ t.mgr = ms /\ t.monitor = s.monitor /\ t.stale = z
          /\ t.list = L
      BY ONLY <2>1, <2>2 DEF St
    <2>4. t = [job |-> t.job, mgr |-> t.mgr, list |-> t.list, monitor |-> t.monitor,
               stale |-> t.stale]
      BY ONLY <2>1, <2>2 DEF St
    <2> QED
      BY <2>3, <2>4
  <1> HIDE DEF t
  <1>12. t \in StInt
    <2>1. t.list \in SUBSET (Jobs \X Jobs)
      BY <1>10, <1>11 DEF Among
    <2> QED
      BY <1>7, <1>8, <1>9, <1>10, <1>11, <2>1 DEF StInt
  <1>13. SameMgrs(s, t)
    BY <1>9, <1>11 DEF SameMgrs
  <1>14. Sound(t)
    BY <1>3, <1>6, <1>7, <1>9, <1>11, <1>12, <1>13, JobsChange
  <1>15. C \in SUBSET Loaded(t)
    BY DEF Curious
  <1>16. \A j \in Jobs : t.job[j].loaded =>
           /\ Keeps(j, s.job[j], t.job[j])
           /\ Act(s.job[j]) => Act(t.job[j])
           /\ t.job[j].timer = s.job[j].timer
    <2> SUFFICES ASSUME NEW j \in Jobs, t.job[j].loaded
                 PROVE  /\ Keeps(j, s.job[j], js[j])
                        /\ Act(s.job[j]) => Act(js[j])
                        /\ js[j].timer = s.job[j].timer
      BY <1>11
    <2>1. j \notin Idle
      BY <1>7, <1>11 DEF freed, NotLoaded
    <2>2. CASE j \in K
      BY <1>6, <2>1, <2>2, StopCalm DEF js
    <2>3. CASE j \notin K
      BY <1>6, <2>1, <2>3 DEF js
    <2> QED
      BY <2>2, <2>3
  <1>17. \A j \in Jobs : t.job[j].loaded =>
           \/ t.job[j] = s.job[j] /\ (Home[j] \notin T \/ Has(s, j, "shutdown_monitor"))
           \/ /\ t.job[j] = job_stop(opened(s, j)) /\ Act(s.job[j])
              /\ Home[j] \in T /\ ~Has(s, j, "shutdown_monitor")
    <2> TAKE j \in Jobs
    <2> HAVE t.job[j].loaded
    <2>1. j \notin Idle
      BY <1>7, <1>11 DEF freed, NotLoaded
    <2>2. CASE j \in K
      <3>1. t.job[j] = job_stop(opened(s, j))
        BY <1>11, <2>1, <2>2 DEF js
      <3>2. Act(s.job[j])
        BY <2>1, <2>2 DEF Idle, job_active, Act
      <3>3. Home[j] \in T
        BY <2>2 DEF K, Collected
      <3> QED
        BY <1>2, <2>2, <3>1, <3>2, <3>3
    <2>3. CASE j \notin K
      <3>1. t.job[j] = s.job[j]
        BY <1>11, <2>1, <2>3 DEF js
      <3>2. s.job[j].loaded
        BY <3>1
      <3>3. Home[j] \notin T \/ Has(s, j, "shutdown_monitor")
        BY <2>3, <3>2 DEF K, Collected, Loaded
      <3> QED
        BY <3>1, <3>3
    <2> QED
      BY <2>2, <2>3
  <1>18. \A m \in Mgrs \ T : t.mgr[m].global_on_demand_cnt = s.mgr[m].global_on_demand_cnt
    <2> SUFFICES ASSUME NEW m \in Mgrs \ T
                 PROVE  ms[m].global_on_demand_cnt = s.mgr[m].global_on_demand_cnt
      BY <1>11
    <2> DEFINE G == {j \in Idle : Home[j] = m /\ Has(s, j, Forced)}
    <2>1. G = {}
      BY DEF Idle, K, Collected
    <2>2. Cardinality(G) = 0 /\ s.mgr[m].global_on_demand_cnt \in Nat
      BY <2>1, FS_EmptySet, StateFields DEF Mgr
    <2>3. ms[m].global_on_demand_cnt = s.mgr[m].global_on_demand_cnt - Cardinality(G)
      BY <1>9
    <2> HIDE DEF G
    <2> QED
      BY <2>2, <2>3
  <1> HIDE DEF C
  <1>19. Swept(s, t, T)
    BY <1>13, <1>16, <1>18, <1>17 DEF Swept
  <1> QED
    BY <1>1, <1>14, <1>15, <1>19

\* The loop of the collection over the jobs.
LEMMA CollectSound ==
  ASSUME NEW s, Sound(s), NEW T \in SUBSET Mgrs, NEW late
  PROVE  Sound(collect_jobs(s, T, late))
  <1>1. PICK t, C : /\ Sound(t) /\ Swept(s, t, T) /\ C \in SUBSET Loaded(t)
                    /\ collect_jobs(s, T, late) = DispatchJobs(t, C, late)
    BY CollectIs
  <1> QED
    BY <1>1, DispatchJobsSound

\* Closing the transactions.
LEMMA CleanSound ==
  ASSUME NEW s, Sound(s), NEW T \in SUBSET Mgrs
  PROVE  Sound(clean_jobs(s, T))
  <1> DEFINE P(j) == /\ Home[j] \in T /\ Cleans(s, Home[j])
                     /\ j \in Collected(s, Home[j]) /\ job_active(s, j)
                     /\ Has(s, j, "dirty_at_shutdown")
             js == [j \in Jobs |-> IF P(j) THEN closed(s.job[j]) ELSE s.job[j]]
             ms == [m \in Mgrs |-> IF m \in T /\ Cleans(s, m)
                                   THEN [s.mgr[m] EXCEPT !.shutdown_jobs_cleaned = TRUE]
                                   ELSE s.mgr[m]]
             t  == clean_jobs(s, T)
  <1>1. t = [s EXCEPT !.job = js, !.mgr = ms]
    BY DEF clean_jobs, Table
  <1> HIDE DEF P
  <1>2. /\ s.job \in [Jobs -> Job] /\ s.mgr \in [Mgrs -> Mgr]
        /\ s.list \in SUBSET (Jobs \X Jobs) /\ s.monitor \in Jobs \cup {NoJob}
        /\ s.stale \in BOOLEAN
        /\ s = [job |-> s.job, mgr |-> s.mgr, list |-> s.list, monitor |-> s.monitor,
                stale |-> s.stale]
    BY StateFields
  <1>3. \A j \in Jobs : js[j] \in Job /\ Keeps(j, s.job[j], js[j])
    <2> TAKE j \in Jobs
    <2>1. CASE P(j)
      <3> DEFINE q == closed(s.job[j])
      <3>1. /\ q \in Job /\ q.loaded = s.job[j].loaded /\ q.child = s.job[j].child
            /\ q.flags = s.job[j].flags \ {"dirty_at_shutdown"} /\ q.timer = s.job[j].timer
        BY <1>2 DEF closed, Job
      <3>2. js[j] = q
        BY <2>1
      <3> HIDE DEF q, js
      <3> QED
        BY <3>1, <3>2, JobFacts DEF Keeps, Forced
    <2>2. CASE ~P(j)
      BY <2>2, JobFacts DEF Keeps
    <2> QED
      BY <2>1, <2>2
  <1>4. \A m \in Mgrs : /\ ms[m] \in MgrInt /\ ms[m].exists = s.mgr[m].exists
                        /\ ms[m].shutting_down = s.mgr[m].shutting_down
                        /\ ms[m].global_on_demand_cnt = s.mgr[m].global_on_demand_cnt
    <2> TAKE m \in Mgrs
    <2>1. s.mgr[m] \in Mgr
      BY <1>2
    <2>2. \/ ms[m] = s.mgr[m]
          \/ ms[m] = [s.mgr[m] EXCEPT !.shutdown_jobs_cleaned = TRUE]
      OBVIOUS
    <2> HIDE DEF ms
    <2>3. CASE ms[m] = s.mgr[m]
      BY <2>1, <2>3 DEF Mgr, MgrInt
    <2>4. CASE ms[m] = [s.mgr[m] EXCEPT !.shutdown_jobs_cleaned = TRUE]
      <3> DEFINE r == s.mgr[m]
                 q == ms[m]
      <3>1. r \in Mgr /\ q = [r EXCEPT !.shutdown_jobs_cleaned = TRUE]
        BY <2>1, <2>4
      <3> HIDE DEF r, q
      <3>2. q \in Mgr
        BY ONLY <3>1 DEF Mgr
      <3>3. q \in MgrInt
        BY ONLY <3>2 DEF Mgr, MgrInt
      <3>4. /\ q.exists = r.exists /\ q.shutting_down = r.shutting_down
            /\ q.global_on_demand_cnt = r.global_on_demand_cnt
        BY ONLY <3>1 DEF Mgr
      <3> QED
        BY <3>3, <3>4 DEF r, q
    <2> QED
      BY <2>2, <2>3, <2>4
  <1>5. js \in [Jobs -> Job] /\ ms \in [Mgrs -> MgrInt]
    BY <1>3, <1>4
  <1> HIDE DEF js, ms, t
  <1>6. /\ t.job = js /\ t.mgr = ms /\ t.monitor = s.monitor /\ t.stale = s.stale
        /\ t.list = s.list
        /\ t = [job |-> t.job, mgr |-> t.mgr, list |-> t.list, monitor |-> t.monitor,
                stale |-> t.stale]
    BY <1>1, <1>2
  <1>7. t \in StInt
    BY <1>2, <1>5, <1>6 DEF StInt
  <1>8. SameMgrs(s, t)
    BY <1>4, <1>6 DEF SameMgrs
  <1>9. \A m \in Mgrs : t.mgr[m].global_on_demand_cnt =
          s.mgr[m].global_on_demand_cnt
            - Cardinality({j \in {} : Home[j] = m /\ Has(s, j, Forced)})
    <2>1. \A m \in Mgrs : Cardinality({j \in {} : Home[j] = m /\ Has(s, j, Forced)}) = 0
      BY FS_EmptySet
    <2>2. \A m \in Mgrs : s.mgr[m].global_on_demand_cnt \in Nat
      BY <1>2 DEF Mgr
    <2> QED
      BY <1>4, <1>6, <2>1, <2>2
  <1>10. Sound(t)
    BY <1>3, <1>6, <1>7, <1>8, <1>9, JobsChange
  <1> QED
    BY <1>10 DEF t

\* What Removable() chose to remove is quiet, like all below it.
LEMMA RemovableIs ==
  ASSUME NEW s, NEW T
  PROVE  /\ Removable(s, T) \subseteq T
         /\ \A m \in Removable(s, T) : /\ Quiet(s, m) /\ Children(s, m) \subseteq Removable(s, T)
                                       /\ m = Root => s.monitor = NoJob
  <1> DEFINE G(S) == \A m \in S : /\ Quiet(s, m) /\ Children(s, m) \subseteq S
                                  /\ m = Root => s.monitor = NoJob
  <1>1. Removable(s, T) = UNION {S \in SUBSET T : G(S)}
    BY DEF Removable
  <1>2. ASSUME NEW m \in Removable(s, T)
        PROVE  /\ m \in T /\ Quiet(s, m) /\ Children(s, m) \subseteq Removable(s, T)
               /\ m = Root => s.monitor = NoJob
    <2>1. PICK S \in SUBSET T : m \in S /\ G(S)
      BY <1>1
    <2>2. S \subseteq Removable(s, T)
      BY <1>1, <2>1
    <2> QED
      BY <2>1, <2>2
  <1> QED
    BY <1>2

\* jobmgr_remove(), of managers whose jobs are all inactive.
LEMMA RemoveManagersSound ==
  ASSUME NEW s, Sound(s), NEW R \in SUBSET Mgrs,
         \A m \in R : /\ Quiet(s, m) /\ Children(s, m) \subseteq R
                      /\ m = Root => s.monitor = NoJob
  PROVE  Sound(remove_managers(s, R))
  <1> DEFINE js == [j \in Jobs |-> IF s.job[j].loaded /\ Home[j] \in R
                                   THEN freed(s.job[j]) ELSE s.job[j]]
             u  == [jobmgr_new EXCEPT !.exists = FALSE]
             ms == [m \in Mgrs |-> IF m \in R THEN u ELSE s.mgr[m]]
             L  == Among(s.list, {j \in Jobs : Home[j] \notin R})
             t  == remove_managers(s, R)
  <1>1. t = [s EXCEPT !.job = js, !.list = L, !.mgr = ms]
    BY DEF remove_managers, Table
  <1>2. /\ s.job \in [Jobs -> Job] /\ s.mgr \in [Mgrs -> Mgr]
        /\ s.list \in SUBSET (Jobs \X Jobs) /\ s.monitor \in Jobs \cup {NoJob}
        /\ s.stale \in BOOLEAN
    BY StateFields
  <1>3. u \in Mgr /\ ~u.exists /\ u.global_on_demand_cnt = 0
    BY DEF jobmgr_new, Mgr
  <1>4. \A j \in Jobs : /\ freed(s.job[j]) \in Job /\ freed(s.job[j]).flags = {}
                        /\ ~freed(s.job[j]).loaded /\ ~freed(s.job[j]).timer
                        /\ freed(s.job[j]).child = s.job[j].child
    BY <1>2 DEF freed, NotLoaded, Job
  <1>5. ASSUME NEW j \in Jobs, Home[j] \in R
        PROVE  ~Has(s, j, "p") /\ s.monitor # j
    <2>1. s.monitor # j
      BY <1>5, RootAssumption DEF Sound, Monitored
    <2>2. ~s.job[j].loaded => ~Has(s, j, "p")
      BY JobFacts DEF Has
    <2>3. s.job[j].loaded => j \in Collected(s, Home[j])
      BY <2>1 DEF Collected, Loaded, Sound, Monitored
    <2>4. s.job[j].loaded => ~Has(s, j, "p")
      BY <1>5, <2>3 DEF Quiet, job_active, Has
    <2> QED
      BY <2>1, <2>2, <2>4
  <1>6. /\ \A j \in Jobs : Home[j] \notin R => js[j] = s.job[j]
        /\ \A j \in Jobs : Home[j] \in R =>
             /\ js[j].flags = {} /\ ~js[j].loaded /\ ~js[j].timer
             /\ js[j].child = s.job[j].child
    BY <1>4 DEF Sound, Housed
  <1>7. js \in [Jobs -> Job]
    BY <1>2, <1>4
  <1> HIDE DEF u
  <1>8. ms \in [Mgrs -> Mgr] /\ (\A m \in R : ms[m] = u) /\ (\A m \in Mgrs \ R : ms[m] = s.mgr[m])
    BY <1>2, <1>3
  <1>9. L \in SUBSET (Jobs \X Jobs)
    BY <1>2 DEF Among
  <1> HIDE DEF js, ms, L, t
  <1>10. /\ t.job = js /\ t.mgr = ms /\ t.list = L /\ t.monitor = s.monitor /\ t.stale = s.stale
         /\ t = [job |-> t.job, mgr |-> t.mgr, list |-> t.list, monitor |-> t.monitor,
                 stale |-> t.stale]
    <2>1. s \in St
      BY DEF Sound
    <2>2. /\ t.job = js /\ t.mgr = ms /\ t.list = L /\ t.monitor = s.monitor
          /\ t.stale = s.stale
      BY ONLY <1>1, <2>1 DEF St
    <2>3. t = [job |-> t.job, mgr |-> t.mgr, list |-> t.list, monitor |-> t.monitor,
               stale |-> t.stale]
      BY ONLY <1>1, <2>1 DEF St
    <2> QED
      BY <2>2, <2>3
  <1>11. t \in St
    BY <1>2, <1>7, <1>8, <1>9, <1>10 DEF St
  <1>12. Counted(t)
    <2>1. ASSUME NEW m \in R
          PROVE  t.mgr[m].global_on_demand_cnt = Cardinality(Holders(t, m))
      <3>1. Holders(t, m) = {}
        BY <1>6, <1>10 DEF Holders, Has
      <3> QED
        BY <1>3, <1>8, <1>10, <3>1, FS_EmptySet
    <2>2. ASSUME NEW m \in Mgrs \ R
          PROVE  t.mgr[m].global_on_demand_cnt = Cardinality(Holders(t, m))
      <3>1. Holders(t, m) = Holders(s, m)
        BY <1>6, <1>10 DEF Holders, Has
      <3> QED
        BY <1>8, <1>10, <3>1 DEF Sound, Counted
    <2> QED
      BY <2>1, <2>2 DEF Counted
  <1>13. Housed(t)
    <2> SUFFICES ASSUME NEW j \in Jobs
                 PROVE  /\ ~t.job[j].loaded => t.job[j].flags = {} /\ ~t.job[j].timer
                        /\ t.job[j].loaded => t.mgr[Home[j]].exists
      BY DEF Housed
    <2>1. CASE Home[j] \in R
      BY <1>6, <1>10, <2>1
    <2>2. CASE Home[j] \notin R
      BY <1>6, <1>8, <1>10, <2>2, HomeAssumption DEF Sound, Housed
    <2> QED
      BY <2>1, <2>2
  <1>14. Monitored(t)
    BY <1>5, <1>6, <1>10 DEF Sound, Monitored, Has
  <1>15. Limited(t)
    BY <1>6, <1>10 DEF Sound, Limited, Has
  <1>16. Rooted(t)
    <2> SUFFICES ASSUME NEW m \in Mgrs \ {Root}, t.mgr[m].exists
                 PROVE  /\ t.mgr[Parent[m]].exists
                        /\ t.mgr[Parent[m]].shutting_down => t.mgr[m].shutting_down
      BY DEF Rooted
    <2>1. m \notin R /\ Parent[m] \in Mgrs
      BY <1>3, <1>8, <1>10, ParentAssumption
    <2>2. t.mgr[m] = s.mgr[m]
      BY <1>8, <1>10, <2>1
    <2>3. Parent[m] \notin R
      BY <2>1, <2>2 DEF Children
    <2> QED
      BY <1>8, <1>10, <2>1, <2>2, <2>3 DEF Sound, Rooted
  <1>17. Tidy(t)
    <2>1. ASSUME Apart, NEW j \in Jobs, t.job[j].child # "none"
          PROVE  Has(t, j, "p")
      <3>1. t.job[j].child = s.job[j].child
        BY <1>6, <1>10
      <3>2. Has(s, j, "p")
        BY <2>1, <3>1 DEF Sound, Tidy
      <3> QED
        BY <1>5, <1>6, <1>10, <3>2 DEF Has
    <2> QED
      BY <2>1 DEF Tidy
  <1>18. Sound(t)
    BY <1>11, <1>12, <1>13, <1>14, <1>15, <1>16, <1>17 DEF Sound
  <1> QED
    BY <1>18 DEF t

\* The monitor becomes a normal job.
LEMMA StopMonitorSound ==
  ASSUME NEW s, Sound(s), NEW T
  PROVE  Sound(stop_monitor(s, T))
  <1>1. CASE stop_monitor(s, T) = s
    BY <1>1
  <1>2. CASE /\ s.monitor # NoJob
             /\ stop_monitor(s, T) =
                  [s EXCEPT !.job[s.monitor] =
                              job_stop([s.job[s.monitor] EXCEPT
                                          !.flags = @ \ {"shutdown_monitor"}]),
                            !.monitor = NoJob]
    <2> DEFINE j == s.monitor
               o == [s.job[j] EXCEPT !.flags = @ \ {"shutdown_monitor"}]
               q == job_stop(o)
               t == stop_monitor(s, T)
    <2>1. /\ j \in Jobs /\ s.job \in [Jobs -> Job] /\ s.job[j] \in Job
          /\ s.list \in SUBSET (Jobs \X Jobs) /\ s.stale \in BOOLEAN
          /\ s = [job |-> s.job, mgr |-> s.mgr, list |-> s.list, monitor |-> s.monitor,
                  stale |-> s.stale]
      BY <1>2, StateFields
    <2>2. t = [s EXCEPT !.job[j] = q, !.monitor = NoJob]
      BY <1>2
    <2>3. s.job[j].loaded /\ "legacy_mach_job" \notin Traits[j]
      BY <2>1, JobFacts DEF Sound, Monitored, Has
    <2>4. /\ o \in Job /\ o.flags = s.job[j].flags \ {"shutdown_monitor"}
          /\ o.loaded /\ o.child = s.job[j].child
      BY <2>1, <2>3 DEF Job
    <2> HIDE DEF o
    <2>5. /\ q \in Job /\ q.loaded /\ q.child = s.job[j].child
          /\ q.flags \in {o.flags, o.flags \cup {"stopped"}}
      BY <2>4 DEF job_stop, Job, Flag
    <2> HIDE DEF q, t
    <2>6. /\ t.job = [s.job EXCEPT ![j] = q] /\ t.mgr = s.mgr /\ t.list = s.list
          /\ t.monitor = NoJob /\ t.stale = s.stale
          /\ t = [job |-> t.job, mgr |-> t.mgr, list |-> t.list, monitor |-> t.monitor,
                  stale |-> t.stale]
      BY <2>1, <2>2
    <2> HIDE DEF j
    <2>7. /\ Forced \in q.flags <=> Has(s, j, Forced)
          /\ "shutdown_monitor" \notin q.flags
          /\ "p" \in q.flags <=> Has(s, j, "p")
          /\ "removal_pending" \in q.flags <=> Has(s, j, "removal_pending")
      BY <2>4, <2>5 DEF Has, Forced
    <2>8. "removal_pending" \in q.flags => "remove" \in Stimuli
      BY <2>1, <2>7 DEF Sound, Limited
    <2>9. Apart => (q.child # "none" => "p" \in q.flags)
      BY <2>1, <2>5, <2>7 DEF Sound, Tidy
    <2>10. s.monitor = j
      BY DEF j
    <2>11. Sound(t)
      BY <2>1, <2>3, <2>5, <2>6, <2>7, <2>8, <2>9, <2>10, OneJob
    <2> QED
      BY <2>11 DEF t
  <1> QED
    BY <1>1, <1>2 DEF stop_monitor

\* jobmgr_do_garbage_collection().
LEMMA GarbageCollectionSound ==
  ASSUME NEW s, Sound(s), NEW D \in SUBSET Mgrs, NEW late
  PROVE  Sound(jobmgr_do_garbage_collection(s, D, late))
  <1> DEFINE T == {m \in D : s.mgr[m].exists /\ s.mgr[m].shutting_down}
             t == clean_jobs(collect_jobs(s, T, late), T)
             R == Removable(t, T)
             u == remove_managers(t, R)
  <1>1. jobmgr_do_garbage_collection(s, D, late) = stop_monitor(u, T)
    BY DEF jobmgr_do_garbage_collection
  <1>2. T \in SUBSET Mgrs
    OBVIOUS
  <1> HIDE DEF T
  <1>3. Sound(collect_jobs(s, T, late))
    BY <1>2, CollectSound
  <1>4. Sound(t)
    BY <1>2, <1>3, CleanSound
  <1> HIDE DEF t
  <1>5. R \in SUBSET Mgrs /\ \A m \in R : /\ Quiet(t, m) /\ Children(t, m) \subseteq R
                                          /\ m = Root => t.monitor = NoJob
    BY <1>2, RemovableIs
  <1> HIDE DEF R
  <1>6. Sound(u)
    BY <1>4, <1>5, RemoveManagersSound
  <1> HIDE DEF u
  <1> QED
    BY <1>1, <1>6, StopMonitorSound

\* Managers change, but not what they hold their jobs in.
LEMMA ManagersChange ==
  ASSUME NEW s, Sound(s), NEW t, NEW M \in [Mgrs -> Mgr], t = [s EXCEPT !.mgr = M],
         \A m \in Mgrs : /\ M[m].global_on_demand_cnt = s.mgr[m].global_on_demand_cnt
                         /\ s.mgr[m].exists => M[m].exists,
         \A m \in Mgrs \ {Root} : M[m].exists =>
           /\ M[Parent[m]].exists
           /\ M[Parent[m]].shutting_down => M[m].shutting_down
  PROVE  Sound(t)
  <1>1. /\ t.job = s.job /\ t.mgr = M /\ t.list = s.list /\ t.monitor = s.monitor
        /\ t.stale = s.stale /\ t \in St
    BY DEF Sound, St
  <1>2. Counted(t)
    <2>1. \A m \in Mgrs : Holders(t, m) = Holders(s, m)
      BY <1>1 DEF Holders, Has
    <2> QED
      BY <1>1, <2>1 DEF Sound, Counted
  <1>3. Housed(t)
    BY <1>1, HomeAssumption DEF Sound, Housed
  <1>4. Monitored(t) /\ Limited(t) /\ Tidy(t)
    BY <1>1 DEF Sound, Monitored, Limited, Tidy, Has
  <1>5. Rooted(t)
    BY <1>1 DEF Rooted
  <1> QED
    BY <1>1, <1>2, <1>3, <1>4, <1>5 DEF Sound

-----------------------------------------------------------------------------
(* No handler leaves a job dead that has a reason to run.                  *)

Count(s, j) == s.mgr[Home[j]].global_on_demand_cnt

\* A job that is idle and has a reason to run
Due(s, j) ==
  /\ s.job[j].loaded /\ ~Act(s.job[j]) /\ ~ShuttingDown(s, j) /\ Count(s, j) = 0
  /\ "KeepAlive" \in Traits[j] \/ \E k \in OtherEnabled[j] : job_find(s, k)

\* All but X that are due wait for a delayed start
Kept(s, X) == \A j \in Jobs \ X : Due(s, j) => s.job[j].timer

\* All but X that are to be removed, and all legacy servers, are active: the
\* dispatch that finds them inactive removes them
Leaving(s, X) ==
  \A j \in Jobs \ X :
    s.job[j].loaded /\ (Has(s, j, "removal_pending") \/ "legacy_mach_job" \in Traits[j])
      => Act(s.job[j])

\* From s to t, j itself is not given a reason to run or to be removed
CalmJob(s, t, j) ==
  t.job[j].loaded =>
    /\ s.job[j].loaded
    /\ Act(s.job[j]) => Act(t.job[j])
    /\ s.job[j].timer => t.job[j].timer \/ Act(t.job[j])
    /\ Has(t, j, "removal_pending") => Has(s, j, "removal_pending") \/ Act(t.job[j])

\* And neither is it by its manager
CalmMgr(s, t, j) ==
  t.job[j].loaded /\ ~ShuttingDown(t, j) /\ Count(t, j) = 0
    => ~ShuttingDown(s, j) /\ Count(s, j) = 0

\* From s to t, no label appears that another job may look for
NoNews(s, t) == \A k \in Jobs : job_find(t, k) => job_find(s, k)

\* What is calm stays as it is.
LEMMA CalmKept ==
  ASSUME NEW s, NEW t, NEW X, \A j \in Jobs \ X : CalmJob(s, t, j)
  PROVE  /\ Leaving(s, X) => Leaving(t, X)
         /\ NoNews(s, t) /\ (\A j \in Jobs \ X : CalmMgr(s, t, j)) /\ Kept(s, X) => Kept(t, X)
  <1>1. ASSUME NoNews(s, t), \A j \in Jobs \ X : CalmMgr(s, t, j), Kept(s, X),
               NEW j \in Jobs \ X, Due(t, j)
        PROVE  t.job[j].timer
    <2>1. Due(s, j)
      BY <1>1, OtherAssumption DEF Due, CalmJob, CalmMgr, NoNews
    <2> QED
      BY <1>1, <2>1 DEF Kept, Due, CalmJob
  <1>2. ASSUME Leaving(s, X), NEW j \in Jobs \ X, t.job[j].loaded,
               Has(t, j, "removal_pending") \/ "legacy_mach_job" \in Traits[j]
        PROVE  Act(t.job[j])
    BY <1>2 DEF Leaving, CalmJob
  <1>3. Leaving(s, X) => Leaving(t, X)
    BY <1>2 DEF Leaving
  <1> QED
    BY <1>1, <1>3 DEF Kept

\* Fewer jobs, or others that are not loaded.
LEMMA KeptFewer ==
  ASSUME NEW s, NEW X, NEW Y, \A j \in (X \ Y) \cap Jobs : ~s.job[j].loaded
  PROVE  (Kept(s, X) => Kept(s, Y)) /\ (Leaving(s, X) => Leaving(s, Y))
  BY DEF Kept, Leaving, Due

\* Job j is now q, and nothing else changed.
LEMMA OneJobKept ==
  ASSUME NEW s, Sound(s), NEW t, NEW j \in Jobs, NEW q, NEW X,
         t.job = [s.job EXCEPT ![j] = q], t.mgr = s.mgr,
         q.loaded => /\ s.job[j].loaded
                     /\ Has(s, j, "removal_pending") => "removal_pending" \in q.flags,
         \/ j \in X \/ ~q.loaded
         \/ /\ Act(s.job[j]) => Act(q)
            /\ s.job[j].timer => q.timer \/ Act(q)
            /\ "removal_pending" \in q.flags => Has(s, j, "removal_pending") \/ Act(q)
  PROVE  (Kept(s, X) => Kept(t, X)) /\ (Leaving(s, X) => Leaving(t, X))
  <1>1. t.job[j] = q /\ \A k \in Jobs \ {j} : t.job[k] = s.job[k]
    BY StateFields
  <1>2. NoNews(s, t)
    BY <1>1 DEF NoNews, job_find, Has, ShuttingDown
  <1>3. \A k \in Jobs \ X : CalmJob(s, t, k)
    BY <1>1 DEF CalmJob, Has
  <1>4. \A k \in Jobs \ X : CalmMgr(s, t, k)
    BY DEF CalmMgr, ShuttingDown, Count
  <1> QED
    BY <1>2, <1>3, <1>4, CalmKept

\* A job that job_dispatch() looked at is active, waits for a delayed start, has
\* no reason to run or is gone.
LEMMA DispatchedSettles ==
  ASSUME NEW s, Sound(s), NEW j \in Jobs, s.job[j].loaded, NEW kickstart, NEW late,
         LET q == dispatched(s, j, kickstart, late) IN q.loaded
  PROVE  LET q == dispatched(s, j, kickstart, late)
         IN  /\ Act(q) \/ q.timer \/ ~job_keepalive(s, j)
             /\ Has(s, j, "removal_pending") \/ "legacy_mach_job" \in Traits[j] => Act(q)
             /\ "removal_pending" \in q.flags <=> Has(s, j, "removal_pending")
             /\ Act(s.job[j]) => q = s.job[j]
             /\ s.job[j].timer => q.timer \/ Act(q)
  <1> DEFINE r == s.job[j]
             q == dispatched(s, j, kickstart, late)
  <1>1. r \in Job
    BY JobFacts
  <1>2. job_active(s, j) <=> Act(r)
    BY DEF job_active, Act
  <1>3. CASE Act(r)
    <2>1. q = r
      BY <1>2, <1>3 DEF dispatched
    <2> QED
      BY <1>3, <2>1 DEF Has
  <1>4. CASE ~Act(r) /\ job_useless(s, j)
    <2>1. q = freed(r)
      BY <1>2, <1>4 DEF dispatched
    <2>2. ~q.loaded
      BY <2>1 DEF freed, NotLoaded
    <2> QED
      BY <2>2
  <1>5. CASE ~Act(r) /\ ~job_useless(s, j)
    <2>1. ~Has(s, j, "removal_pending") /\ "legacy_mach_job" \notin Traits[j]
      BY <1>5, JobFacts DEF job_useless, Has
    <2>2. CASE kickstart \/ job_keepalive(s, j)
      <3>1. q = started(r, j \in late)
        BY <1>2, <1>5, <2>2 DEF dispatched
      <3>2. CASE j \in late
        <4>1. q = [r EXCEPT !.timer = TRUE]
          BY <3>1, <3>2 DEF started
        <4>2. q.timer /\ q.flags = r.flags
          BY <1>1, <4>1 DEF Job
        <4> QED
          BY <1>5, <2>1, <4>2 DEF Has
      <3>3. CASE j \notin late
        <4>1. q = [r EXCEPT !.flags = (r.flags \ {"stopped"}) \cup {"p"}, !.child = "up"]
          BY <3>1, <3>3 DEF started
        <4>2. q.flags = (r.flags \ {"stopped"}) \cup {"p"}
          BY <1>1, <4>1 DEF Job
        <4> HIDE DEF q
        <4>3. Act(q) /\ ("removal_pending" \in q.flags <=> "removal_pending" \in r.flags)
          BY <4>2 DEF Act
        <4> QED
          BY <1>5, <4>3 DEF Has, q
      <3> QED
        BY <3>2, <3>3
    <2>3. CASE ~(kickstart \/ job_keepalive(s, j))
      <3>1. q = r
        BY <1>2, <1>5, <2>3 DEF dispatched
      <3> QED
        BY <1>5, <2>1, <2>3, <3>1 DEF Has
    <2> QED
      BY <2>2, <2>3
  <1> QED
    BY <1>3, <1>4, <1>5

\* The jobs of K that a dispatch frees
Freed(s, K, late) == {k \in K : ~dispatched(s, k, FALSE, late).loaded}

\* The jobs and the managers once the jobs K were dispatched.
LEMMA DispatchJobsIs ==
  ASSUME NEW s, Sound(s), NEW K \in SUBSET Loaded(s), NEW late
  PROVE  /\ \A k \in K : DispatchJobs(s, K, late).job[k] = dispatched(s, k, FALSE, late)
         /\ \A k \in Jobs \ K : DispatchJobs(s, K, late).job[k] = s.job[k]
         /\ DispatchJobs(s, K, late).mgr = released(s, Freed(s, K, late))
  <1> DEFINE t  == DispatchJobs(s, K, late)
             js == [k \in Jobs |-> IF k \in K THEN dispatched(s, k, FALSE, late)
                                   ELSE s.job[k]]
             L  == Among(s.list, {k \in Jobs : js[k].loaded})
             G  == {k \in K : ~js[k].loaded}
  <1>1. t = [s EXCEPT !.job = js, !.list = L, !.mgr = released(s, G)]
    BY DEF DispatchJobs, Table
  <1>2. s \in St /\ K \subseteq Jobs
    BY DEF Sound, Loaded
  <1>3. Freed(s, K, late) = G
    BY <1>2 DEF Freed
  <1>4. /\ \A k \in K : js[k] = dispatched(s, k, FALSE, late)
        /\ \A k \in Jobs \ K : js[k] = s.job[k]
    BY <1>2
  <1> HIDE DEF js, L, G, t
  <1>5. t.job = js /\ t.mgr = released(s, G)
    BY ONLY <1>1, <1>2 DEF St
  <1>6. /\ \A k \in K : t.job[k] = dispatched(s, k, FALSE, late)
        /\ \A k \in Jobs \ K : t.job[k] = s.job[k]
        /\ t.mgr = released(s, Freed(s, K, late))
    BY <1>3, <1>4, <1>5
  <1> QED
    BY <1>6 DEF t

\* Dispatching the jobs K: each of them is kept.
LEMMA DispatchJobsKept ==
  ASSUME NEW s, Sound(s), NEW K \in SUBSET Loaded(s), NEW late,
         NEW X, NEW Y, Kept(s, X), Leaving(s, Y), \A j \in Y \cap K : ~Has(s, j, Forced)
  PROVE  LET t == DispatchJobs(s, K, late)
         IN  Kept(t, X \ K) /\ Leaving(t, Y \ K)
  <1> DEFINE t == DispatchJobs(s, K, late)
             q(k) == dispatched(s, k, FALSE, late)
             F == Freed(s, K, late)
  <1>1. /\ \A k \in K : t.job[k] = q(k)
        /\ \A k \in Jobs \ K : t.job[k] = s.job[k]
        /\ t.mgr = released(s, F)
    BY DispatchJobsIs
  <1>2. Sound(t) /\ SameMgrs(s, t)
    BY DispatchJobsSound DEF Dispatches
  <1>3. \A k \in K : k \in Jobs /\ s.job[k].loaded
    BY DEF Loaded
  <1>4. \A k \in K : q(k).loaded =>
          /\ Act(q(k)) \/ q(k).timer \/ ~job_keepalive(s, k)
          /\ Has(s, k, "removal_pending") \/ "legacy_mach_job" \in Traits[k] => Act(q(k))
          /\ "removal_pending" \in q(k).flags <=> Has(s, k, "removal_pending")
    BY <1>3, DispatchedSettles
  <1>5. \A k \in F : k \in K /\ ~Act(s.job[k]) /\ job_useless(s, k)
    <2> TAKE k \in F
    <2>1. k \in K /\ k \in Jobs /\ s.job[k].loaded /\ s.job[k] \in Job
      BY <1>3, JobFacts DEF Freed
    <2>2. ~dispatched(s, k, FALSE, late).loaded
      BY DEF Freed
    <2>3. started(s.job[k], k \in late).loaded
      BY <2>1 DEF started, Job
    <2> QED
      BY <2>1, <2>2, <2>3 DEF dispatched, job_active, Act
  <1> HIDE DEF t
  <1>6. \A m \in Mgrs : ~s.mgr[m].shutting_down =>
          t.mgr[m].global_on_demand_cnt = s.mgr[m].global_on_demand_cnt
    <2> SUFFICES ASSUME NEW m \in Mgrs, ~s.mgr[m].shutting_down
                 PROVE  t.mgr[m].global_on_demand_cnt = s.mgr[m].global_on_demand_cnt
      OBVIOUS
    <2> DEFINE G == {j \in F : Home[j] = m /\ Has(s, j, Forced)}
    <2>1. F \in SUBSET Jobs
      BY <1>3, <1>5
    <2>2. t.mgr[m].global_on_demand_cnt = s.mgr[m].global_on_demand_cnt - Cardinality(G)
      <3> HIDE DEF F
      <3>1. released(s, F)[m].global_on_demand_cnt =
              s.mgr[m].global_on_demand_cnt - Cardinality(G)
        BY <2>1, ReleasedIs
      <3> QED
        BY <1>1, <3>1
    <2>3. G = {}
      <3> SUFFICES ASSUME NEW j \in F, Home[j] = m, Has(s, j, Forced)
                   PROVE  FALSE
        OBVIOUS
      <3>1. j \in Jobs /\ j \in K /\ s.job[j].loaded /\ ~Act(s.job[j]) /\ job_useless(s, j)
        BY <1>3, <1>5
      <3>2. j \notin Y
        BY <3>1
      <3>3. ~Has(s, j, "removal_pending") /\ "legacy_mach_job" \notin Traits[j]
        BY <3>1, <3>2 DEF Leaving
      <3> QED
        BY <3>1, <3>3 DEF job_useless, ShuttingDown
    <2>4. s.mgr[m].global_on_demand_cnt \in Nat /\ Cardinality(G) = 0
      BY <2>3, FS_EmptySet, StateFields DEF Mgr
    <2> HIDE DEF G
    <2> QED
      BY <2>2, <2>4
  <1> HIDE DEF F, q
  <1>7. \A j \in Jobs : /\ Home[j] \in Mgrs /\ (ShuttingDown(t, j) <=> ShuttingDown(s, j))
                        /\ ~ShuttingDown(s, j) => Count(t, j) = Count(s, j)
    BY <1>2, <1>6, HomeAssumption DEF SameMgrs, ShuttingDown, Count
  <1>8. NoNews(s, t)
    <2> SUFFICES ASSUME NEW k \in Jobs, job_find(t, k)
                 PROVE  job_find(s, k)
      BY DEF NoNews
    <2>1. CASE k \in K
      BY <1>1, <1>3, <1>4, <1>7, <2>1 DEF job_find, Has
    <2>2. CASE k \notin K
      BY <1>1, <1>7, <2>2 DEF job_find, Has
    <2> QED
      BY <2>1, <2>2
  <1>9. ASSUME NEW j \in Jobs \ (X \ K), Due(t, j)
        PROVE  t.job[j].timer
    <2>1. /\ ~ShuttingDown(s, j) /\ Count(s, j) = 0
          /\ "KeepAlive" \in Traits[j] \/ \E k \in OtherEnabled[j] : job_find(s, k)
      BY <1>7, <1>8, <1>9, OtherAssumption DEF Due, NoNews
    <2>2. CASE j \in K
      <3>1. job_keepalive(s, j)
        BY <2>1 DEF job_keepalive, Count
      <3> QED
        BY <1>1, <1>4, <1>9, <2>2, <3>1 DEF Due
    <2>3. CASE j \notin K
      <3>1. Due(s, j)
        BY <1>1, <1>9, <2>1, <2>3 DEF Due
      <3> QED
        BY <1>1, <1>9, <2>3, <3>1 DEF Kept
    <2> QED
      BY <2>2, <2>3
  <1>10. ASSUME NEW j \in Jobs \ (Y \ K), t.job[j].loaded,
                Has(t, j, "removal_pending") \/ "legacy_mach_job" \in Traits[j]
         PROVE  Act(t.job[j])
    <2>1. CASE j \in K
      BY <1>1, <1>4, <1>10, <2>1 DEF Has
    <2>2. CASE j \notin K
      BY <1>1, <1>10, <2>2 DEF Leaving, Has
    <2> QED
      BY <2>1, <2>2
  <1>11. Kept(t, X \ K) /\ Leaving(t, Y \ K)
    BY <1>9, <1>10 DEF Kept, Leaving
  <1> QED
    BY <1>11 DEF t

\* job_dispatch_curious_jobs().
LEMMA CuriousKept ==
  ASSUME NEW s, Sound(s), NEW j \in Jobs, NEW late, NEW X, NEW Y,
         Kept(s, X), Leaving(s, Y), Y \subseteq {j}
  PROVE  LET t == job_dispatch_curious_jobs(s, j, late)
         IN  Kept(t, X \ Curious(s, j)) /\ Leaving(t, Y)
  <1> DEFINE K == Curious(s, j)
             t == job_dispatch_curious_jobs(s, j, late)
  <1>1. t = DispatchJobs(s, K, late)
    BY DEF job_dispatch_curious_jobs
  <1>2. K \in SUBSET Loaded(s) /\ Y \cap K = {} /\ Y \ K = Y
    BY DEF Curious
  <1> HIDE DEF K
  <1>3. Kept(DispatchJobs(s, K, late), X \ K) /\ Leaving(DispatchJobs(s, K, late), Y \ K)
    BY <1>2, DispatchJobsKept
  <1> QED
    BY <1>1, <1>2, <1>3 DEF K

\* The managers above one that exists do, and it shuts down with them.
LEMMA UpShutsDown ==
  ASSUME NEW s, Sound(s), NEW m \in Mgrs, s.mgr[m].exists, ~s.mgr[m].shutting_down,
         NEW n \in Up[m]
  PROVE  ~s.mgr[n].shutting_down
  <1> DEFINE C == {k \in Mgrs : s.mgr[k].exists /\ ~s.mgr[k].shutting_down}
  <1>1. m \in C /\ C \in SUBSET Mgrs
    OBVIOUS
  <1>2. \A k \in C \ {Root} : Parent[k] \in C
    BY ParentAssumption DEF Sound, Rooted
  <1> HIDE DEF C
  <1>3. n \in C
    BY <1>1, <1>2 DEF Up
  <1> QED
    BY <1>3 DEF C

\* job_set_global_on_demand(): when the mode ends, all jobs of the manager are
\* dispatched.
LEMMA SetModeKept ==
  ASSUME NEW s, Sound(s), NEW j \in Jobs, s.job[j].loaded, NEW val \in BOOLEAN, NEW late,
         val => "globalOnDemand" \in Stimuli /\ Has(s, j, "p"),
         NEW X, X \subseteq {j}, val => X = {}, Kept(s, X), Leaving(s, X)
  PROVE  LET t == job_set_global_on_demand(s, j, val, late)
         IN  Kept(t, X) /\ Leaving(t, X)
  <1> DEFINE m == Home[j]
             c == IF val THEN s.mgr[m].global_on_demand_cnt + 1
                         ELSE s.mgr[m].global_on_demand_cnt - 1
             u == [s EXCEPT !.mgr[m].global_on_demand_cnt = c,
                            !.job[j].flags = IF val THEN @ \cup {Forced} ELSE @ \ {Forced}]
             v == [s EXCEPT !.mgr[m].global_on_demand_cnt = IF val THEN @ + 1 ELSE @ - 1,
                            !.job[j].flags = IF val THEN @ \cup {Forced} ELSE @ \ {Forced}]
             K == {k \in Loaded(u) : /\ Home[k] \in Down(m)
                                     /\ \A n \in Up[Home[k]] \cap Down(m) :
                                          ~u.mgr[n].shutting_down}
             t == job_set_global_on_demand(s, j, val, late)
  <1>1. CASE Has(s, j, Forced) = val
    BY <1>1 DEF job_set_global_on_demand, Forced
  <1>2. CASE Has(s, j, Forced) # val
    <2>1. t = IF c = 0 THEN DispatchJobs(u, K, late) ELSE u
      BY <1>2 DEF job_set_global_on_demand, force_peers, jobmgr_dispatch_all, Forced
    <2>2. Sound(u)
      <3>1. u = v
        OBVIOUS
      <3>2. Sound(v)
        BY <1>2, ModeChange
      <3> QED
        BY <3>1, <3>2
    <2>3. /\ s.job \in [Jobs -> Job] /\ s.mgr \in [Mgrs -> Mgr] /\ m \in Mgrs
          /\ s.job[j] \in Job /\ s.mgr[m] \in Mgr
          /\ s = [job |-> s.job, mgr |-> s.mgr, list |-> s.list, monitor |-> s.monitor,
                  stale |-> s.stale]
      BY StateFields, HomeAssumption
    <2>4. /\ \A k \in Jobs \ {j} : u.job[k] = s.job[k]
          /\ u.job[j].loaded = s.job[j].loaded /\ u.job[j].timer = s.job[j].timer
          /\ u.job[j].flags = IF val THEN s.job[j].flags \cup {Forced}
                                     ELSE s.job[j].flags \ {Forced}
      <3> DEFINE q == [s.job[j] EXCEPT !.flags = IF val THEN @ \cup {Forced} ELSE @ \ {Forced}]
      <3>1. u.job = [s.job EXCEPT ![j] = q]
        BY <2>3
      <3>2. /\ q.loaded = s.job[j].loaded /\ q.timer = s.job[j].timer
            /\ q.flags = IF val THEN s.job[j].flags \cup {Forced} ELSE s.job[j].flags \ {Forced}
        BY <2>3 DEF Job
      <3> HIDE DEF q, u
      <3> QED
        BY <2>3, <3>1, <3>2
    <2>5. /\ \A n \in Mgrs \ {m} : u.mgr[n] = s.mgr[n]
          /\ u.mgr[m].shutting_down = s.mgr[m].shutting_down
          /\ u.mgr[m].exists = s.mgr[m].exists
          /\ u.mgr[m].global_on_demand_cnt = c
      <3> DEFINE q == [s.mgr[m] EXCEPT !.global_on_demand_cnt = c]
      <3>1. u.mgr = [s.mgr EXCEPT ![m] = q]
        BY <2>3
      <3> HIDE DEF c
      <3>2. /\ q.shutting_down = s.mgr[m].shutting_down /\ q.exists = s.mgr[m].exists
            /\ q.global_on_demand_cnt = c
        BY <2>3 DEF Mgr
      <3> HIDE DEF q, u
      <3> QED
        BY <2>3, <3>1, <3>2
    <2>6. s.mgr[m].global_on_demand_cnt \in Nat /\ (c = 0 => ~val)
      BY <2>3 DEF Mgr
    <2>7. K \in SUBSET Loaded(u)
      OBVIOUS
    <2>8. s.mgr[m].exists
      BY DEF Sound, Housed
    <2>9. ~u.mgr[m].shutting_down => \A k \in Loaded(u) : Home[k] = m => k \in K
      <3> SUFFICES ASSUME ~u.mgr[m].shutting_down, NEW k \in Loaded(u), Home[k] = m
                   PROVE  k \in K
        OBVIOUS
      <3> HIDE DEF u
      <3>1. m \in Down(m)
        BY <2>3, UpReflexive DEF Down
      <3>2. \A n \in Up[m] : ~u.mgr[n].shutting_down
        BY <2>2, <2>3, <2>5, <2>8, UpShutsDown
      <3> QED
        BY <3>1, <3>2
    <2> HIDE DEF u, v, c, K, t, m
    <2>10. NoNews(s, u) /\ \A k \in Jobs : CalmJob(s, u, k)
      <3>1. \A f \in {"p", "priv_port_has_senders", "isActive", "removal_pending"} :
              Has(u, j, f) <=> Has(s, j, f)
        BY <2>4 DEF Has, Forced
      <3>2. Act(u.job[j]) <=> Act(s.job[j])
        BY <3>1 DEF Act, Has
      <3>3. \A k \in Jobs : ShuttingDown(u, k) <=> ShuttingDown(s, k)
        BY <2>5, HomeAssumption DEF ShuttingDown
      <3>4. NoNews(s, u)
        BY <2>4, <3>1, <3>3 DEF NoNews, job_find, Has
      <3>5. \A k \in Jobs : CalmJob(s, u, k)
        BY <2>4, <3>1, <3>2 DEF CalmJob, Has
      <3> QED
        BY <3>4, <3>5
    <2>11. Leaving(u, X)
      BY <2>10, CalmKept
    <2>12. ASSUME NEW k \in Jobs, Home[k] # m \/ c # 0 \/ u.mgr[m].shutting_down
           PROVE  CalmMgr(s, u, k)
      BY <2>5, <2>12, HomeAssumption DEF CalmMgr, ShuttingDown, Count
    <2>13. CASE c # 0
      <3>1. Kept(u, X)
        BY <2>10, <2>12, <2>13, CalmKept
      <3> QED
        BY <2>1, <2>11, <2>13, <3>1 DEF t
    <2>14. CASE c = 0
      <3> DEFINE Z == X \cup {k \in Loaded(u) : Home[k] = m /\ ~u.mgr[m].shutting_down}
      <3>1. Kept(u, Z)
        <4>1. Kept(s, Z)
          BY KeptFewer DEF Kept
        <4>2. \A k \in Jobs \ Z : CalmMgr(s, u, k)
          BY <2>12 DEF CalmMgr, Loaded
        <4> HIDE DEF Z
        <4> QED
          BY <2>10, <4>1, <4>2, CalmKept
      <3>2. \A k \in X \cap K : ~Has(u, k, Forced)
        BY <2>4, <2>6, <2>14 DEF Has
      <3>3. Z \ K \subseteq X
        BY <2>9
      <3> HIDE DEF Z
      <3> DEFINE d == DispatchJobs(u, K, late)
      <3>4. Kept(d, Z \ K) /\ Leaving(d, X \ K)
        BY <2>2, <2>7, <2>11, <3>1, <3>2, DispatchJobsKept
      <3> HIDE DEF d
      <3>5. Kept(d, X) /\ Leaving(d, X)
        BY <3>3, <3>4 DEF Kept, Leaving
      <3> QED
        BY <2>1, <2>14, <3>5 DEF d, t
    <2> QED
      BY <2>13, <2>14
  <1> QED
    BY <1>1, <1>2

\* job_remove().
LEMMA RemoveKept ==
  ASSUME NEW s, Sound(s), NEW j \in Jobs, s.job[j].loaded, NEW late,
         NEW X, X \subseteq {j}, Has(s, j, "p") => X = {}, Kept(s, X), Leaving(s, X)
  PROVE  LET t == job_remove(s, j, late)
         IN  Kept(t, {}) /\ Leaving(t, {})
  <1>0. /\ s.job \in [Jobs -> Job] /\ s.job[j] \in Job
        /\ s = [job |-> s.job, mgr |-> s.mgr, list |-> s.list, monitor |-> s.monitor,
                stale |-> s.stale]
    BY StateFields
  <1>1. CASE Has(s, j, "p")
    <2> DEFINE q == [s.job[j] EXCEPT !.flags = @ \cup {"removal_pending", "stopped"}]
               t == job_remove(s, j, late)
    <2>1. t = [s EXCEPT !.job[j] = q]
      BY <1>1, RemoveRunning
    <2>2. q.loaded = s.job[j].loaded /\ q.flags = s.job[j].flags \cup {"removal_pending", "stopped"}
      BY <1>0 DEF Job
    <2> HIDE DEF q, t
    <2>3. t.job = [s.job EXCEPT ![j] = q] /\ t.mgr = s.mgr
      BY <1>0, <2>1
    <2>4. Act(q) /\ "removal_pending" \in q.flags
      BY <1>1, <2>2 DEF Act, Has
    <2> QED
      BY <1>1, <2>2, <2>3, <2>4, OneJobKept DEF t
  <1>2. CASE ~Has(s, j, "p")
    <2> DEFINE t == job_dispatch_curious_jobs(s, j, late)
               u == job_set_global_on_demand(t, j, FALSE, late)
               v == job_free(u, j)
               q == freed(u.job[j])
    <2>1. job_remove(s, j, late) = v
      BY <1>2 DEF job_remove
    <2>2. Sound(t) /\ t.job[j].loaded
      BY CuriousSound DEF Dispatches
    <2>3. Kept(s, {j}) /\ Leaving(s, {j})
      BY DEF Kept, Leaving
    <2>4. Kept(t, {j}) /\ Leaving(t, {j})
      <3>1. {j} \ Curious(s, j) = {j}
        BY DEF Curious
      <3>2. Kept(t, {j} \ Curious(s, j)) /\ Leaving(t, {j})
        BY <2>3, CuriousKept
      <3> QED
        BY <3>1, <3>2
    <2> HIDE DEF t
    <2>5. Kept(u, {j}) /\ Leaving(u, {j}) /\ Sound(u)
      BY <2>2, <2>4, SetModeKept, SetModeSound
    <2> HIDE DEF u
    <2>6. /\ u.job \in [Jobs -> Job]
          /\ u = [job |-> u.job, mgr |-> u.mgr, list |-> u.list, monitor |-> u.monitor,
                  stale |-> u.stale]
      BY <2>5, StateFields
    <2>7. v.job = [u.job EXCEPT ![j] = q] /\ v.mgr = u.mgr
      BY <2>6 DEF job_free
    <2>8. ~q.loaded
      BY DEF freed, NotLoaded
    <2> HIDE DEF v, q
    <2>9. Kept(v, {j}) /\ Leaving(v, {j})
      BY <2>5, <2>7, <2>8, OneJobKept
    <2>10. ~v.job[j].loaded
      BY <2>6, <2>7, <2>8
    <2>11. Kept(v, {}) /\ Leaving(v, {})
      BY <2>9, <2>10, KeptFewer
    <2> QED
      BY <2>1, <2>11
  <1> QED
    BY <1>1, <1>2

\* job_dispatch() looks after a job to which anything happened.
LEMMA DispatchKept ==
  ASSUME NEW s, Sound(s), NEW j \in Jobs, s.job[j].loaded, NEW kickstart, NEW late,
         Kept(s, {j}), Leaving(s, {j})
  PROVE  LET t == job_dispatch(s, j, kickstart, late)
         IN  Kept(t, {}) /\ Leaving(t, {})
  <1>1. CASE ~job_active(s, j) /\ job_useless(s, j)
    <2>1. ~Has(s, j, "p")
      BY <1>1 DEF job_active, Has
    <2> QED
      BY <1>1, <2>1, RemoveKept DEF job_dispatch
  <1>2. CASE job_active(s, j) \/ ~job_useless(s, j)
    <2> DEFINE q == dispatched(s, j, kickstart, late)
               t == job_dispatch(s, j, kickstart, late)
    <2>0. /\ s.job \in [Jobs -> Job] /\ s.job[j] \in Job
          /\ s = [job |-> s.job, mgr |-> s.mgr, list |-> s.list, monitor |-> s.monitor,
                  stale |-> s.stale]
      BY StateFields
    <2>1. t = [s EXCEPT !.job[j] = q]
      BY <1>2 DEF job_dispatch
    <2>2. q.loaded
      <3>1. q \in {s.job[j], started(s.job[j], j \in late)}
        BY <1>2 DEF dispatched
      <3>2. started(s.job[j], j \in late).loaded
        BY <2>0 DEF started, Job
      <3> QED
        BY <3>1, <3>2
    <2>3. /\ Act(q) \/ q.timer \/ ~job_keepalive(s, j)
          /\ Has(s, j, "removal_pending") \/ "legacy_mach_job" \in Traits[j] => Act(q)
          /\ "removal_pending" \in q.flags <=> Has(s, j, "removal_pending")
      BY <2>2, DispatchedSettles
    <2> HIDE DEF q, t
    <2>4. t.job = [s.job EXCEPT ![j] = q] /\ t.mgr = s.mgr
      BY <2>0, <2>1
    <2>5. t.job[j] = q /\ \A k \in Jobs \ {j} : t.job[k] = s.job[k]
      BY <2>0, <2>4
    <2>6. Kept(t, {j}) /\ Leaving(t, {j})
      BY <2>2, <2>3, <2>4, OneJobKept
    <2>7. \A k \in Jobs : job_find(t, k) => job_find(s, k)
      BY <2>3, <2>4, <2>5 DEF job_find, Has, ShuttingDown
    <2>8. Due(t, j) => job_keepalive(s, j)
      BY <2>4, <2>7, OtherAssumption DEF Due, job_keepalive, ShuttingDown, Count
    <2>9. Due(t, j) => t.job[j].timer
      BY <2>3, <2>5, <2>8 DEF Due
    <2>10. Has(t, j, "removal_pending") \/ "legacy_mach_job" \in Traits[j] => Act(t.job[j])
      BY <2>3, <2>5 DEF Has
    <2>11. Kept(t, {}) /\ Leaving(t, {})
      BY <2>6, <2>9, <2>10 DEF Kept, Leaving
    <2> QED
      BY <2>11 DEF t
  <1> QED
    BY <1>1, <1>2

-----------------------------------------------------------------------------
(* A shutdown gives no job a reason to run.                                *)

\* The loop of the collection over the jobs.
LEMMA CollectKept ==
  ASSUME NEW s, Sound(s), NEW T \in SUBSET Mgrs, NEW late,
         \A m \in T : s.mgr[m].shutting_down, Kept(s, {}), Leaving(s, {})
  PROVE  LET u == collect_jobs(s, T, late)
         IN  Kept(u, {}) /\ Leaving(u, {})
  <1>0. PICK t, C : /\ Sound(t) /\ Swept(s, t, T) /\ C \in SUBSET Loaded(t)
                    /\ collect_jobs(s, T, late) = DispatchJobs(t, C, late)
    BY CollectIs
  <1>1. /\ SameMgrs(s, t)
        /\ \A j \in Jobs : t.job[j].loaded =>
             /\ Keeps(j, s.job[j], t.job[j])
             /\ Act(s.job[j]) => Act(t.job[j])
             /\ t.job[j].timer = s.job[j].timer
        /\ \A m \in Mgrs \ T :
             t.mgr[m].global_on_demand_cnt = s.mgr[m].global_on_demand_cnt
    BY <1>0 DEF Swept
  <1>2. \A j \in Jobs : Home[j] \in Mgrs /\ (ShuttingDown(t, j) <=> ShuttingDown(s, j))
    BY <1>1, HomeAssumption DEF SameMgrs, ShuttingDown
  <1>3. NoNews(s, t) /\ \A j \in Jobs : CalmJob(s, t, j)
    <2>1. \A j \in Jobs : t.job[j].loaded =>
            s.job[j].loaded /\ (Has(t, j, "removal_pending") <=> Has(s, j, "removal_pending"))
      BY <1>1 DEF Keeps, Has
    <2> QED
      BY <1>1, <1>2, <2>1 DEF NoNews, CalmJob, job_find
  <1>4. \A j \in Jobs : CalmMgr(s, t, j)
    BY <1>1, <1>2 DEF CalmMgr, ShuttingDown, Count
  <1>5. Kept(t, {}) /\ Leaving(t, {})
    BY <1>3, <1>4, CalmKept
  <1>6. {} \ C = {}
    OBVIOUS
  <1>7. Kept(DispatchJobs(t, C, late), {} \ C) /\ Leaving(DispatchJobs(t, C, late), {} \ C)
    BY <1>0, <1>5, DispatchJobsKept
  <1> QED
    BY <1>0, <1>6, <1>7

\* Closing the transactions.
LEMMA CleanKept ==
  ASSUME NEW s, Sound(s), NEW T \in SUBSET Mgrs, Kept(s, {}), Leaving(s, {})
  PROVE  LET t == clean_jobs(s, T)
         IN  Kept(t, {}) /\ Leaving(t, {})
  <1> DEFINE P(j) == /\ Home[j] \in T /\ Cleans(s, Home[j])
                     /\ j \in Collected(s, Home[j]) /\ job_active(s, j)
                     /\ Has(s, j, "dirty_at_shutdown")
             js == [j \in Jobs |-> IF P(j) THEN closed(s.job[j]) ELSE s.job[j]]
             ms == [m \in Mgrs |-> IF m \in T /\ Cleans(s, m)
                                   THEN [s.mgr[m] EXCEPT !.shutdown_jobs_cleaned = TRUE]
                                   ELSE s.mgr[m]]
             t  == clean_jobs(s, T)
  <1>1. t = [s EXCEPT !.job = js, !.mgr = ms]
    BY DEF clean_jobs, Table
  <1> HIDE DEF P
  <1>2. s \in St /\ s.job \in [Jobs -> Job] /\ s.mgr \in [Mgrs -> Mgr]
    BY StateFields DEF Sound
  <1>3. \A j \in Jobs : /\ js[j].loaded = s.job[j].loaded /\ js[j].timer = s.job[j].timer
                        /\ js[j].flags \in {s.job[j].flags, s.job[j].flags \ {"dirty_at_shutdown"}}
    <2> TAKE j \in Jobs
    <2>1. s.job[j] \in Job /\ js[j] \in {s.job[j], closed(s.job[j])}
      BY <1>2
    <2> HIDE DEF js
    <2> QED
      BY <2>1 DEF closed, Job
  <1>4. \A m \in Mgrs : /\ ms[m].shutting_down = s.mgr[m].shutting_down
                        /\ ms[m].global_on_demand_cnt = s.mgr[m].global_on_demand_cnt
    <2> TAKE m \in Mgrs
    <2>1. /\ s.mgr[m] \in Mgr
          /\ ms[m] = s.mgr[m] \/ ms[m] = [s.mgr[m] EXCEPT !.shutdown_jobs_cleaned = TRUE]
      BY <1>2
    <2> HIDE DEF ms
    <2> QED
      BY <2>1 DEF Mgr
  <1> HIDE DEF js, ms, t
  <1>5. t.job = js /\ t.mgr = ms
    BY ONLY <1>1, <1>2 DEF St
  <1>6. \A j \in Jobs : /\ ShuttingDown(t, j) = ShuttingDown(s, j) /\ Count(t, j) = Count(s, j)
                        /\ Has(t, j, "removal_pending") <=> Has(s, j, "removal_pending")
                        /\ Act(s.job[j]) => Act(t.job[j])
    BY <1>3, <1>4, <1>5, HomeAssumption DEF ShuttingDown, Count, Has, Act
  <1>7. NoNews(s, t) /\ \A j \in Jobs : CalmJob(s, t, j) /\ CalmMgr(s, t, j)
    BY <1>3, <1>5, <1>6 DEF NoNews, job_find, CalmJob, CalmMgr
  <1>8. Kept(t, {}) /\ Leaving(t, {})
    BY <1>7, CalmKept
  <1> QED
    BY <1>8 DEF t

\* jobmgr_remove(): no job is left in the managers that are gone.
LEMMA RemoveManagersKept ==
  ASSUME NEW s, Sound(s), NEW R \in SUBSET Mgrs, Kept(s, {}), Leaving(s, {})
  PROVE  LET t == remove_managers(s, R)
         IN  Kept(t, {}) /\ Leaving(t, {})
  <1> DEFINE js == [j \in Jobs |-> IF s.job[j].loaded /\ Home[j] \in R
                                   THEN freed(s.job[j]) ELSE s.job[j]]
             ms == [m \in Mgrs |-> IF m \in R THEN [jobmgr_new EXCEPT !.exists = FALSE]
                                   ELSE s.mgr[m]]
             L  == Among(s.list, {j \in Jobs : Home[j] \notin R})
             t  == remove_managers(s, R)
  <1>1. t = [s EXCEPT !.job = js, !.list = L, !.mgr = ms]
    BY DEF remove_managers, Table
  <1>2. \A j \in Jobs : js[j].loaded => js[j] = s.job[j] /\ ms[Home[j]] = s.mgr[Home[j]]
    BY HomeAssumption DEF freed, NotLoaded
  <1>3. s \in St
    BY DEF Sound
  <1> HIDE DEF js, ms, L, t
  <1>4. t.job = js /\ t.mgr = ms
    BY ONLY <1>1, <1>3 DEF St
  <1>5. \A j \in Jobs : t.job[j].loaded => /\ t.job[j] = s.job[j]
                                           /\ ShuttingDown(t, j) = ShuttingDown(s, j)
                                           /\ Count(t, j) = Count(s, j)
    BY <1>2, <1>4 DEF ShuttingDown, Count
  <1>6. NoNews(s, t) /\ \A j \in Jobs : CalmJob(s, t, j) /\ CalmMgr(s, t, j)
    BY <1>5 DEF NoNews, job_find, CalmJob, CalmMgr, Has
  <1>7. Kept(t, {}) /\ Leaving(t, {})
    BY <1>6, CalmKept
  <1> QED
    BY <1>7 DEF t

\* The monitor becomes a normal job.
LEMMA StopMonitorKept ==
  ASSUME NEW s, Sound(s), NEW T, Kept(s, {}), Leaving(s, {})
  PROVE  LET t == stop_monitor(s, T)
         IN  Kept(t, {}) /\ Leaving(t, {})
  <1>1. CASE stop_monitor(s, T) = s
    BY <1>1
  <1>2. CASE /\ s.monitor # NoJob
             /\ stop_monitor(s, T) =
                  [s EXCEPT !.job[s.monitor] =
                              job_stop([s.job[s.monitor] EXCEPT
                                          !.flags = @ \ {"shutdown_monitor"}]),
                            !.monitor = NoJob]
    <2> DEFINE j == s.monitor
               o == [s.job[j] EXCEPT !.flags = @ \ {"shutdown_monitor"}]
               q == job_stop(o)
               t == stop_monitor(s, T)
    <2>1. /\ j \in Jobs /\ s.job \in [Jobs -> Job] /\ s.job[j] \in Job
          /\ s = [job |-> s.job, mgr |-> s.mgr, list |-> s.list, monitor |-> s.monitor,
                  stale |-> s.stale]
      BY <1>2, StateFields
    <2>2. t = [s EXCEPT !.job[j] = q, !.monitor = NoJob]
      BY <1>2
    <2>3. s.job[j].loaded
      BY <2>1, JobFacts DEF Sound, Monitored, Has
    <2>4. /\ o \in Job /\ o.flags = s.job[j].flags \ {"shutdown_monitor"}
          /\ o.loaded = s.job[j].loaded /\ o.timer = s.job[j].timer
      BY <2>1 DEF Job
    <2> HIDE DEF o
    <2>5. /\ q.loaded = o.loaded /\ q.timer = o.timer
          /\ q.flags \in {o.flags, o.flags \cup {"stopped"}}
      BY <2>4 DEF job_stop, Job
    <2> HIDE DEF q, t
    <2>6. t.job = [s.job EXCEPT ![j] = q] /\ t.mgr = s.mgr
      BY <2>1, <2>2
    <2>7. /\ "removal_pending" \in q.flags <=> Has(s, j, "removal_pending")
          /\ Act(s.job[j]) => Act(q)
      BY <2>4, <2>5 DEF Has, Act
    <2> HIDE DEF j
    <2>8. Kept(t, {}) /\ Leaving(t, {})
      BY <2>1, <2>3, <2>4, <2>5, <2>6, <2>7, OneJobKept
    <2> QED
      BY <2>8 DEF t
  <1> QED
    BY <1>1, <1>2 DEF stop_monitor

\* jobmgr_do_garbage_collection().
LEMMA GarbageCollectionKept ==
  ASSUME NEW s, Sound(s), NEW D \in SUBSET Mgrs, NEW late, Kept(s, {}), Leaving(s, {})
  PROVE  LET t == jobmgr_do_garbage_collection(s, D, late)
         IN  Kept(t, {}) /\ Leaving(t, {})
  <1> DEFINE T == {m \in D : s.mgr[m].exists /\ s.mgr[m].shutting_down}
             c == collect_jobs(s, T, late)
             t == clean_jobs(c, T)
             R == Removable(t, T)
             u == remove_managers(t, R)
  <1>1. jobmgr_do_garbage_collection(s, D, late) = stop_monitor(u, T)
    BY DEF jobmgr_do_garbage_collection
  <1>2. T \in SUBSET Mgrs /\ \A m \in T : s.mgr[m].shutting_down
    OBVIOUS
  <1> HIDE DEF T
  <1>3. Sound(c) /\ Kept(c, {}) /\ Leaving(c, {})
    BY <1>2, CollectSound, CollectKept
  <1> HIDE DEF c
  <1>4. Sound(t) /\ Kept(t, {}) /\ Leaving(t, {})
    BY <1>2, <1>3, CleanSound, CleanKept
  <1> HIDE DEF t
  <1>5. R \in SUBSET Mgrs /\ \A m \in R : /\ Quiet(t, m) /\ Children(t, m) \subseteq R
                                          /\ m = Root => t.monitor = NoJob
    BY <1>2, RemovableIs
  <1> HIDE DEF R
  <1>6. Sound(u) /\ Kept(u, {}) /\ Leaving(u, {})
    BY <1>4, <1>5, RemoveManagersSound, RemoveManagersKept
  <1> HIDE DEF u
  <1> QED
    BY <1>1, <1>6, StopMonitorKept

\* Every job that is due waits for a delayed start, and what is to be removed
\* is active
Steady(s) == Kept(s, {}) /\ Leaving(s, {})

\* Managers change, but give no job a reason to run.
LEMMA ManagersSteady ==
  ASSUME NEW s, Sound(s), NEW t, NEW M, t = [s EXCEPT !.mgr = M], Steady(s),
         \A m \in Mgrs : s.mgr[m].exists =>
           /\ s.mgr[m].shutting_down => M[m].shutting_down
           /\ M[m].global_on_demand_cnt = s.mgr[m].global_on_demand_cnt
  PROVE  Steady(t)
  <1>1. t.job = s.job /\ t.mgr = M
    BY DEF Sound, St
  <1>2. \A j \in Jobs : t.job[j].loaded =>
          /\ ShuttingDown(s, j) => ShuttingDown(t, j)
          /\ Count(t, j) = Count(s, j)
    BY <1>1, HomeAssumption DEF Sound, Housed, ShuttingDown, Count
  <1>3. NoNews(s, t) /\ \A j \in Jobs : CalmJob(s, t, j) /\ CalmMgr(s, t, j)
    BY <1>1, <1>2 DEF NoNews, job_find, CalmJob, CalmMgr, Has
  <1> QED
    BY <1>3, CalmKept DEF Steady

\* The request port of a manager is gone.
LEMMA PortGone ==
  ASSUME NEW s, Sound(s), Steady(s), NEW m \in Mgrs
  PROVE  LET t == [s EXCEPT !.mgr[m].req_port = FALSE]
         IN  /\ Sound(t) /\ Steady(t) /\ t.job = s.job
             /\ \A n \in Mgrs : t.mgr[n].exists => s.mgr[n].exists
  <1> DEFINE q == [s.mgr[m] EXCEPT !.req_port = FALSE]
             M == [s.mgr EXCEPT ![m] = q]
             t == [s EXCEPT !.mgr = M]
  <1>1. s.mgr \in [Mgrs -> Mgr] /\ s \in St /\ s.mgr[m] \in Mgr
    BY StateFields DEF Sound
  <1>2. [s EXCEPT !.mgr[m].req_port = FALSE] = t
    BY <1>1
  <1>3. /\ q \in Mgr /\ q.exists = s.mgr[m].exists
        /\ q.shutting_down = s.mgr[m].shutting_down
        /\ q.global_on_demand_cnt = s.mgr[m].global_on_demand_cnt
    BY ONLY <1>1 DEF Mgr
  <1> HIDE DEF q
  <1>4. M \in [Mgrs -> Mgr] /\ M[m] = q /\ \A n \in Mgrs \ {m} : M[n] = s.mgr[n]
    BY <1>1, <1>3
  <1> HIDE DEF M
  <1>5. \A n \in Mgrs : /\ M[n].global_on_demand_cnt = s.mgr[n].global_on_demand_cnt
                        /\ M[n].exists = s.mgr[n].exists
                        /\ M[n].shutting_down = s.mgr[n].shutting_down
    BY <1>3, <1>4
  <1>6. \A n \in Mgrs \ {Root} : M[n].exists =>
          /\ M[Parent[n]].exists
          /\ M[Parent[n]].shutting_down => M[n].shutting_down
    BY <1>5, ParentAssumption DEF Sound, Rooted
  <1>7. Sound(t) /\ Steady(t)
    BY <1>4, <1>5, <1>6, ManagersChange, ManagersSteady
  <1>8. t.job = s.job /\ t.mgr = M
    BY <1>1 DEF St
  <1>9. \A n \in Mgrs : t.mgr[n].exists => s.mgr[n].exists
    BY <1>5, <1>8
  <1> HIDE DEF t
  <1> QED
    BY <1>2, <1>7, <1>8, <1>9

\* The managers below m are told that they shut down.
LEMMA ShutsDown ==
  ASSUME NEW s, Sound(s), NEW m \in Mgrs
  PROVE  LET M == [n \in Mgrs |-> IF n \in Down(m) /\ s.mgr[n].exists
                                  THEN [s.mgr[n] EXCEPT !.shutting_down = TRUE]
                                  ELSE s.mgr[n]]
             t == [s EXCEPT !.mgr = M]
         IN  /\ Sound(t) /\ (Steady(s) => Steady(t)) /\ t.job = s.job
             /\ \A n \in Mgrs : t.mgr[n].exists => s.mgr[n].exists
  <1> DEFINE M == [n \in Mgrs |-> IF n \in Down(m) /\ s.mgr[n].exists
                                  THEN [s.mgr[n] EXCEPT !.shutting_down = TRUE]
                                  ELSE s.mgr[n]]
             t == [s EXCEPT !.mgr = M]
  <1>1. \A n \in Mgrs : s.mgr[n] \in Mgr
    BY StateFields
  <1>2. ASSUME NEW n \in Mgrs
        PROVE  /\ M[n] \in Mgr /\ M[n].exists = s.mgr[n].exists
               /\ M[n].global_on_demand_cnt = s.mgr[n].global_on_demand_cnt
               /\ M[n].shutting_down <=>
                    s.mgr[n].shutting_down \/ (n \in Down(m) /\ s.mgr[n].exists)
    <2>1. CASE n \in Down(m) /\ s.mgr[n].exists
      <3> DEFINE q == M[n]
      <3>1. q = [s.mgr[n] EXCEPT !.shutting_down = TRUE]
        BY <2>1
      <3>2. s.mgr[n] \in Mgr
        BY <1>1
      <3> HIDE DEF q
      <3>3. q \in Mgr
        BY ONLY <3>1, <3>2 DEF Mgr
      <3>4. /\ q.exists = s.mgr[n].exists /\ q.shutting_down
            /\ q.global_on_demand_cnt = s.mgr[n].global_on_demand_cnt
        BY ONLY <3>1, <3>2 DEF Mgr
      <3> QED
        BY <2>1, <3>3, <3>4 DEF q
    <2>2. CASE ~(n \in Down(m) /\ s.mgr[n].exists)
      BY <1>1, <2>2
    <2> QED
      BY <2>1, <2>2
  <1>3. M \in [Mgrs -> Mgr]
    BY <1>2
  <1> HIDE DEF M
  <1>4. \A n \in Mgrs \ {Root} : M[n].exists =>
          /\ M[Parent[n]].exists
          /\ M[Parent[n]].shutting_down => M[n].shutting_down
    <2> SUFFICES ASSUME NEW n \in Mgrs \ {Root}, M[n].exists
                 PROVE  /\ M[Parent[n]].exists
                        /\ M[Parent[n]].shutting_down => M[n].shutting_down
      OBVIOUS
    <2>1. Parent[n] \in Mgrs
      BY ParentAssumption
    <2>2. /\ s.mgr[n].exists /\ s.mgr[Parent[n]].exists
          /\ s.mgr[Parent[n]].shutting_down => s.mgr[n].shutting_down
      BY <1>2 DEF Sound, Rooted
    <2>3. Parent[n] \in Down(m) => n \in Down(m)
      BY UpParent
    <2> QED
      BY <1>2, <2>1, <2>2, <2>3
  <1>5. Sound(t) /\ (Steady(s) => Steady(t))
    BY <1>2, <1>3, <1>4, ManagersChange, ManagersSteady
  <1>6. t.job = s.job /\ t.mgr = M
    BY DEF Sound, St
  <1>7. \A n \in Mgrs : t.mgr[n].exists => s.mgr[n].exists
    BY <1>2, <1>6
  <1> QED
    BY <1>5, <1>6, <1>7 DEF M

\* jobmgr_shutdown().
LEMMA ShutdownGood ==
  ASSUME NEW s, Sound(s), Steady(s), NEW m \in Mgrs, NEW late
  PROVE  Sound(jobmgr_shutdown(s, m, late)) /\ Steady(jobmgr_shutdown(s, m, late))
  <1> DEFINE M == [n \in Mgrs |-> IF n \in Down(m) /\ s.mgr[n].exists
                                  THEN [s.mgr[n] EXCEPT !.shutting_down = TRUE]
                                  ELSE s.mgr[n]]
             down == [s EXCEPT !.mgr = M]
             subs == jobmgr_do_garbage_collection(down, Down(m) \ {m}, late)
             mon  == IF m = Root /\ subs.monitor # NoJob
                     THEN job_dispatch(subs, subs.monitor, TRUE, late) ELSE subs
  <1>1. jobmgr_shutdown(s, m, late) = jobmgr_do_garbage_collection(mon, Down(m), late)
    BY DEF jobmgr_shutdown, Table
  <1>2. Sound(down) /\ Steady(down)
    BY ShutsDown
  <1> HIDE DEF down
  <1>3. Down(m) \in SUBSET Mgrs /\ Down(m) \ {m} \in SUBSET Mgrs
    BY DEF Down
  <1>4. Sound(subs) /\ Steady(subs)
    BY <1>2, <1>3, GarbageCollectionSound, GarbageCollectionKept DEF Steady
  <1> HIDE DEF subs
  <1>5. Sound(mon) /\ Steady(mon)
    <2>1. CASE m = Root /\ subs.monitor # NoJob
      <3>1. subs.monitor \in Jobs
        BY <1>4, <2>1, StateFields
      <3>2. Has(subs, subs.monitor, "shutdown_monitor")
        BY <1>4, <3>1 DEF Sound, Monitored
      <3>3. subs.job[subs.monitor].loaded
        BY <1>4, <3>1, <3>2, JobFacts DEF Has
      <3>4. Kept(subs, {subs.monitor}) /\ Leaving(subs, {subs.monitor})
        BY <1>4 DEF Steady, Kept, Leaving
      <3> QED
        BY <1>4, <2>1, <3>1, <3>3, <3>4, DispatchSound, DispatchKept DEF Steady
    <2>2. CASE ~(m = Root /\ subs.monitor # NoJob)
      BY <1>4, <2>2
    <2> QED
      BY <2>1, <2>2
  <1> HIDE DEF mon
  <1> QED
    BY <1>1, <1>3, <1>5, GarbageCollectionSound, GarbageCollectionKept DEF Steady

-----------------------------------------------------------------------------
(* Handlers.                                                               *)

\* The job once its process is gone, and with it its part as the monitor
Reaped(r) == [r EXCEPT !.flags = @ \ {"p", "shutdown_monitor"}, !.child = "none", !.txn = FALSE]

\* From s to t only job j changed, into q, and it is not the monitor any more
Reaps(s, t, j, q) ==
  /\ t.job = [s.job EXCEPT ![j] = q] /\ t.mgr = s.mgr /\ t.list = s.list
  /\ t.monitor = (IF Has(s, j, "shutdown_monitor") THEN NoJob ELSE s.monitor)
  /\ t.stale = s.stale
  /\ t = [job |-> t.job, mgr |-> t.mgr, list |-> t.list, monitor |-> t.monitor,
          stale |-> t.stale]
  /\ q \in Job /\ q.flags = s.job[j].flags \ {"p", "shutdown_monitor"}
  /\ q.loaded /\ q.child = "none"

\* job_reap() does just that.
LEMMA ReapIs ==
  ASSUME NEW s, Sound(s), NEW j \in Jobs, s.job[j].loaded
  PROVE  Reaps(s, job_reap(s, j), j, Reaped(s.job[j]))
  <1> DEFINE q == Reaped(s.job[j])
             t == job_reap(s, j)
  <1>1. /\ s.job \in [Jobs -> Job] /\ s.mgr \in [Mgrs -> Mgr] /\ s.job[j] \in Job
        /\ s.list \in SUBSET (Jobs \X Jobs) /\ s.stale \in BOOLEAN
        /\ s = [job |-> s.job, mgr |-> s.mgr, list |-> s.list, monitor |-> s.monitor,
                stale |-> s.stale]
    BY StateFields
  <1>2. /\ t.job = [s.job EXCEPT ![j] = q] /\ t.mgr = s.mgr /\ t.list = s.list
        /\ t.monitor = (IF Has(s, j, "shutdown_monitor") THEN NoJob ELSE s.monitor)
        /\ t.stale = s.stale
        /\ t = [job |-> t.job, mgr |-> t.mgr, list |-> t.list, monitor |-> t.monitor,
                stale |-> t.stale]
    <2> DEFINE n == IF Has(s, j, "shutdown_monitor") THEN NoJob ELSE s.monitor
               J == [s.job EXCEPT ![j].flags = @ \ {"p", "shutdown_monitor"},
                                  ![j].child = "none", ![j].txn = FALSE]
    <2>0. t = [s EXCEPT !.job = J, !.monitor = n]
      BY <1>1 DEF job_reap
    <2> HIDE DEF n, J, t
    <2>1. /\ t.mgr = s.mgr /\ t.list = s.list /\ t.monitor = n /\ t.stale = s.stale /\ t.job = J
          /\ t = [job |-> t.job, mgr |-> t.mgr, list |-> t.list, monitor |-> t.monitor,
                  stale |-> t.stale]
      BY <1>1, <2>0
    <2>2. t.job = [s.job EXCEPT ![j].flags = @ \ {"p", "shutdown_monitor"},
                                ![j].child = "none", ![j].txn = FALSE]
      BY <2>1 DEF J
    <2>3. t.job = [s.job EXCEPT ![j] = q]
      BY <1>1, <2>2 DEF Reaped
    <2> QED
      BY <2>1, <2>3 DEF n
  <1>3. /\ q \in Job /\ q.flags = s.job[j].flags \ {"p", "shutdown_monitor"}
        /\ q.loaded /\ q.child = "none"
    BY <1>1 DEF Job, Reaped
  <1> QED
    BY <1>2, <1>3 DEF Reaps

\* job_reap().
LEMMA ReapGood ==
  ASSUME NEW s, Sound(s), NEW j \in Jobs, s.job[j].loaded
  PROVE  LET t == job_reap(s, j)
         IN  /\ Sound(t) /\ t.job[j].loaded
             /\ Steady(s) => Kept(t, {j}) /\ Leaving(t, {j})
  <1> DEFINE q == Reaped(s.job[j])
             t == job_reap(s, j)
  <1>1. /\ s.job \in [Jobs -> Job] /\ s.mgr \in [Mgrs -> Mgr] /\ s.job[j] \in Job
        /\ s.list \in SUBSET (Jobs \X Jobs) /\ s.stale \in BOOLEAN
        /\ s = [job |-> s.job, mgr |-> s.mgr, list |-> s.list, monitor |-> s.monitor,
                stale |-> s.stale]
    BY StateFields
  <1> HIDE DEF q
  <1>2. Reaps(s, t, j, q)
    BY ReapIs DEF q
  <1> HIDE DEF t
  <1>3. Forced \in q.flags <=> Has(s, j, Forced)
    BY <1>2 DEF Reaps, Has, Forced
  <1>4. "removal_pending" \in q.flags => "remove" \in Stimuli
    BY <1>2 DEF Reaps, Sound, Limited, Has
  <1>5. "legacy_mach_job" \in Traits[j] => q.flags \subseteq {"priv_port_has_senders"}
    BY <1>2, JobFacts DEF Reaps
  <1>6. /\ t.monitor = (IF s.monitor = j THEN NoJob ELSE s.monitor)
        /\ "shutdown_monitor" \notin q.flags
    BY <1>2 DEF Reaps, Sound, Monitored
  <1>7. Sound(t)
    BY <1>1, <1>2, <1>3, <1>4, <1>5, <1>6, OneJob DEF Reaps
  <1>8. Has(s, j, "removal_pending") => "removal_pending" \in q.flags
    BY <1>2 DEF Reaps, Has
  <1>9. Steady(s) => Kept(s, {j}) /\ Leaving(s, {j})
    BY DEF Steady, Kept, Leaving
  <1>10. Steady(s) => Kept(t, {j}) /\ Leaving(t, {j})
    BY <1>2, <1>8, <1>9, OneJobKept DEF Reaps
  <1> QED
    BY <1>1, <1>2, <1>7, <1>10 DEF t, Reaps

\* A handler that changes one job, which keeps its part.
LEMMA JobStep ==
  ASSUME NEW s, Sound(s), NEW j \in Jobs, NEW q \in Job, Keeps(j, s.job[j], q)
  PROVE  LET t == [s EXCEPT !.job[j] = q]
         IN  /\ Sound(t) /\ t.job[j] = q
             /\ Steady(s) => Kept(t, {j}) /\ Leaving(t, {j})
             /\ /\ Steady(s) /\ (Act(s.job[j]) => Act(q))
                /\ s.job[j].timer => q.timer \/ Act(q)
                => Steady(t)
  <1> DEFINE t == [s EXCEPT !.job[j] = q]
  <1>1. s \in St /\ s.job \in [Jobs -> Job]
    BY DEF Sound, St
  <1>2. /\ t.job = [s.job EXCEPT ![j] = q] /\ t.mgr = s.mgr /\ t.list = s.list
        /\ t.monitor = s.monitor /\ t.stale = s.stale
        /\ t = [job |-> t.job, mgr |-> t.mgr, list |-> t.list, monitor |-> t.monitor,
                stale |-> t.stale]
    BY ONLY <1>1 DEF St
  <1> HIDE DEF t
  <1>3. Sound(t) /\ t.job[j] = q
    BY <1>1, <1>2, KeepsSound
  <1>4. q.loaded = s.job[j].loaded /\ (Has(s, j, "removal_pending") <=> "removal_pending" \in q.flags)
    BY DEF Keeps, Has
  <1>5. Steady(s) => Kept(s, {j}) /\ Leaving(s, {j})
    BY DEF Steady, Kept, Leaving
  <1>6. Steady(s) => Kept(t, {j}) /\ Leaving(t, {j})
    BY <1>2, <1>4, <1>5, OneJobKept
  <1>7. /\ Steady(s) /\ (Act(s.job[j]) => Act(q))
        /\ s.job[j].timer => q.timer \/ Act(q)
        => Steady(t)
    BY <1>2, <1>4, OneJobKept DEF Steady
  <1> QED
    BY <1>3, <1>6, <1>7 DEF t

\* The state in which job j was imported
Imported(j) ==
  [sys EXCEPT !.job[j]  = job_new(sys, j),
              !.list    = @ \cup ({j} \X Loaded(sys)),
              !.monitor = IF "shutdown_monitor" \in job_new(sys, j).flags THEN j ELSE @]

\* job_import(), before the job and those curious about it are dispatched.
LEMMA ImportedSound ==
  ASSUME Sound(sys), NEW j \in Jobs, ~sys.job[j].loaded, sys.mgr[Home[j]].exists
  PROVE  LET q   == job_new(sys, j)
             new == Imported(j)
         IN  /\ q \in Job /\ q.loaded /\ q.child = "none"
             /\ q.flags \subseteq {"priv_port_has_senders", "dirty_at_shutdown", "shutdown_monitor"}
             /\ "shutdown_monitor" \in q.flags => "ShutdownMonitor" \in Traits[j]
             /\ "dirty_at_shutdown" \in q.flags => "BeginTransactionAtShutdown" \in Traits[j]
             /\ "legacy_mach_job" \in Traits[j] => q.flags = {"priv_port_has_senders"}
             /\ Sound(new) /\ new.mgr = sys.mgr /\ new.job[j] = q
             /\ \A k \in Jobs \ {j} : new.job[k] = sys.job[k]
  <1> DEFINE q   == job_new(sys, j)
             n   == IF "shutdown_monitor" \in q.flags THEN j ELSE sys.monitor
             L   == sys.list \cup ({j} \X Loaded(sys))
             new == Imported(j)
  <1>1. /\ sys.job \in [Jobs -> Job] /\ sys.mgr \in [Mgrs -> Mgr]
        /\ sys.list \in SUBSET (Jobs \X Jobs) /\ sys.monitor \in Jobs \cup {NoJob}
        /\ sys.stale \in BOOLEAN /\ sys \in St
    BY StateFields DEF Sound
  <1>2. /\ q \in Job /\ q.loaded /\ q.child = "none"
        /\ q.flags \subseteq {"priv_port_has_senders", "dirty_at_shutdown", "shutdown_monitor"}
        /\ "shutdown_monitor" \in q.flags
             => "ShutdownMonitor" \in Traits[j] /\ sys.monitor = NoJob
        /\ "dirty_at_shutdown" \in q.flags => "BeginTransactionAtShutdown" \in Traits[j]
        /\ "legacy_mach_job" \in Traits[j] => q.flags = {"priv_port_has_senders"}
    <2> DEFINE F == {f \in {"priv_port_has_senders", "dirty_at_shutdown", "shutdown_monitor"} :
                       \/ f = "priv_port_has_senders" /\ "legacy_mach_job" \in Traits[j]
                       \/ f = "dirty_at_shutdown" /\ "BeginTransactionAtShutdown" \in Traits[j]
                       \/ f = "shutdown_monitor" /\ "ShutdownMonitor" \in Traits[j]
                          /\ sys.monitor = NoJob}
    <2>1. /\ F \subseteq {"priv_port_has_senders", "dirty_at_shutdown", "shutdown_monitor"}
          /\ "shutdown_monitor" \in F => "ShutdownMonitor" \in Traits[j] /\ sys.monitor = NoJob
          /\ "dirty_at_shutdown" \in F => "BeginTransactionAtShutdown" \in Traits[j]
      OBVIOUS
    <2>2. "legacy_mach_job" \in Traits[j] => F = {"priv_port_has_senders"}
      BY LegacyAssumption
    <2>3. F \in SUBSET Flag
      BY <2>1 DEF Flag
    <2>4. q = [NotLoaded EXCEPT !.loaded = TRUE, !.flags = F]
      BY DEF job_new
    <2> HIDE DEF F, q
    <2>5. q = [loaded |-> TRUE, flags |-> F, child |-> "none", timer |-> FALSE, txn |-> FALSE]
      BY <2>4 DEF NotLoaded
    <2>6. q \in Job /\ q.loaded /\ q.child = "none" /\ q.flags = F
      BY <2>3, <2>5 DEF Job
    <2> QED
      BY <2>1, <2>2, <2>6
  <1> HIDE DEF q
  <1>3. L \in SUBSET (Jobs \X Jobs)
    BY <1>1 DEF Loaded
  <1>4. n \in Jobs \cup {NoJob}
    BY <1>1
  <1> HIDE DEF L
  <1>5. /\ new.job = [sys.job EXCEPT ![j] = q] /\ new.mgr = sys.mgr /\ new.list = L
        /\ new.monitor = n /\ new.stale = sys.stale
        /\ new = [job |-> new.job, mgr |-> new.mgr, list |-> new.list,
                  monitor |-> new.monitor, stale |-> new.stale]
    <2> HIDE DEF n
    <2> DEFINE J == [sys.job EXCEPT ![j] = q]
    <2>1. new = [sys EXCEPT !.job = J, !.list = L, !.monitor = n] /\ sys \in St
      BY <1>1 DEF Imported, L, n, q
    <2> HIDE DEF J, new
    <2>2. /\ new.job = J /\ new.mgr = sys.mgr /\ new.list = L
          /\ new.monitor = n /\ new.stale = sys.stale
      BY ONLY <2>1 DEF St
    <2>3. new = [job |-> new.job, mgr |-> new.mgr, list |-> new.list,
                 monitor |-> new.monitor, stale |-> new.stale]
      BY ONLY <2>1 DEF St
    <2> QED
      BY <2>2, <2>3 DEF J
  <1> HIDE DEF new
  <1>6. new.job[j] = q /\ \A k \in Jobs \ {j} : new.job[k] = sys.job[k]
    BY <1>1, <1>5
  <1>7. sys.job[j].flags = {} /\ sys.monitor # j
    BY DEF Sound, Housed, Monitored, Has
  <1>8. Sound(new)
    <2>1. new \in St
      BY <1>1, <1>2, <1>3, <1>4, <1>5 DEF St
    <2>2. Counted(new)
      <3>1. Forced \notin q.flags
        BY <1>2 DEF Forced
      <3>2. \A m \in Mgrs : Holders(new, m) = Holders(sys, m)
        BY <1>6, <1>7, <3>1 DEF Holders, Has
      <3> QED
        BY <1>5, <3>2 DEF Sound, Counted
    <2>3. Housed(new)
      BY <1>2, <1>5, <1>6 DEF Sound, Housed
    <2>4. Monitored(new)
      <3>1. "removal_pending" \notin q.flags
        BY <1>2
      <3>2. CASE "shutdown_monitor" \in q.flags
        <4>1. new.monitor = j /\ Home[j] = Root /\ sys.monitor = NoJob
          BY <1>2, <1>5, <3>2, MonitorAssumption
        <4>2. \A k \in Jobs \ {j} : ~Has(sys, k, "shutdown_monitor")
          BY <4>1, RootAssumption DEF Sound, Monitored
        <4> QED
          BY <1>6, <3>1, <3>2, <4>1, <4>2 DEF Monitored, Has
      <3>3. CASE "shutdown_monitor" \notin q.flags
        <4>1. new.monitor = sys.monitor
          BY <1>5, <3>3
        <4> QED
          BY <1>6, <1>7, <3>3, <4>1 DEF Sound, Monitored, Has
      <3> QED
        BY <3>2, <3>3
    <2>5. Limited(new)
      BY <1>2, <1>6 DEF Sound, Limited, Has, Forced
    <2>6. Rooted(new)
      BY <1>5 DEF Sound, Rooted
    <2>7. Tidy(new)
      BY <1>2, <1>6 DEF Sound, Tidy, Has
    <2> QED
      BY <2>1, <2>2, <2>3, <2>4, <2>5, <2>6, <2>7 DEF Sound
  <1> QED
    BY <1>2, <1>5, <1>6, <1>8 DEF q, new

\* job_import().
LEMMA ImportGood ==
  ASSUME Sound(sys), Steady(sys), NEW j \in Jobs, NEW late, Import(j, late)
  PROVE  Sound(sys') /\ Steady(sys')
  <1> DEFINE q   == job_new(sys, j)
             new == Imported(j)
  <1>1. /\ q \in Job /\ q.loaded /\ q.child = "none"
        /\ q.flags \subseteq {"priv_port_has_senders", "dirty_at_shutdown", "shutdown_monitor"}
        /\ "shutdown_monitor" \in q.flags => "ShutdownMonitor" \in Traits[j]
        /\ "dirty_at_shutdown" \in q.flags => "BeginTransactionAtShutdown" \in Traits[j]
        /\ "legacy_mach_job" \in Traits[j] => q.flags = {"priv_port_has_senders"}
        /\ Sound(new) /\ new.mgr = sys.mgr /\ new.job[j] = q
        /\ \A k \in Jobs \ {j} : new.job[k] = sys.job[k]
    BY ImportedSound DEF Import
  <1>2. sys' = IF "legacy_mach_job" \in Traits[j] THEN new
               ELSE job_dispatch(job_dispatch_curious_jobs(new, j, late), j, FALSE, late)
    BY DEF Import, Imported
  <1> HIDE DEF q, new
  <1> DEFINE K == IF "legacy_mach_job" \in Traits[j] THEN {} ELSE {j} \cup Curious(new, j)
  <1>3. Kept(new, K)
    <2> SUFFICES ASSUME NEW k \in Jobs \ K, Due(new, k)
                 PROVE  new.job[k].timer
      BY DEF Kept
    <2>1. k # j
      <3>1. "legacy_mach_job" \in Traits[j] => Act(q)
        BY <1>1 DEF Act
      <3> QED
        BY <1>1, <3>1 DEF Due
    <2>2. j \notin OtherEnabled[k]
      BY <2>1, LabelAssumption DEF Curious, Loaded, Due
    <2>3. \A i \in Jobs \ {j} : job_find(new, i) <=> job_find(sys, i)
      BY <1>1 DEF job_find, Has, ShuttingDown
    <2>4. OtherEnabled[k] \subseteq Jobs
      BY OtherAssumption
    <2>5. Due(sys, k)
      BY <1>1, <2>1, <2>2, <2>3, <2>4 DEF Due, ShuttingDown, Count
    <2> QED
      BY <1>1, <2>1, <2>5 DEF Steady, Kept
  <1>4. Leaving(new, {})
    <2> SUFFICES ASSUME NEW k \in Jobs, new.job[k].loaded,
                        Has(new, k, "removal_pending") \/ "legacy_mach_job" \in Traits[k]
                 PROVE  Act(new.job[k])
      BY DEF Leaving
    <2>1. CASE k = j
      BY <1>1, <2>1 DEF Has, Act
    <2>2. CASE k # j
      BY <1>1, <2>2 DEF Steady, Leaving, Has
    <2> QED
      BY <2>1, <2>2
  <1>5. CASE "legacy_mach_job" \in Traits[j]
    BY <1>1, <1>2, <1>3, <1>4, <1>5 DEF Steady
  <1>6. CASE "legacy_mach_job" \notin Traits[j]
    <2> DEFINE t == job_dispatch_curious_jobs(new, j, late)
    <2>1. Sound(t) /\ Dispatches(new, t, Jobs \ {j})
      BY <1>1, CuriousSound
    <2>2. t.job[j].loaded
      BY <1>1, <2>1 DEF Dispatches
    <2>3. Kept(t, {j}) /\ Leaving(t, {j})
      <3>1. K \ Curious(new, j) = {j} /\ {} \subseteq {j}
        BY <1>6 DEF Curious
      <3> HIDE DEF K
      <3>2. Kept(t, K \ Curious(new, j)) /\ Leaving(t, {})
        BY <1>1, <1>3, <1>4, <3>1, CuriousKept
      <3> QED
        BY <3>1, <3>2 DEF Kept, Leaving
    <2> HIDE DEF t
    <2>4. Sound(job_dispatch(t, j, FALSE, late)) /\ Steady(job_dispatch(t, j, FALSE, late))
      BY <2>1, <2>2, <2>3, DispatchSound, DispatchKept DEF Steady
    <2> QED
      BY <1>2, <1>6, <2>4 DEF t
  <1> QED
    BY <1>5, <1>6

\* job_mig_subset() keeps the state sound: there is nothing yet below a
\* manager that does not exist, nor a job in it.
LEMMA SubsetGood ==
  ASSUME Sound(sys), Steady(sys), NEW m \in Mgrs, Subset(m)
  PROVE  Sound(sys') /\ Steady(sys')
  <1> DEFINE M == [sys.mgr EXCEPT ![m] = jobmgr_new]
  <1>1. /\ m # Root /\ ~sys.mgr[m].exists /\ sys.mgr[Parent[m]].exists
        /\ ~sys.mgr[Parent[m]].shutting_down /\ Parent[m] \in Mgrs
        /\ sys' = [sys EXCEPT !.mgr[m] = jobmgr_new]
    BY ParentAssumption DEF Subset
  <1>2. sys' = [sys EXCEPT !.mgr = M]
    BY <1>1
  <1>3. sys.mgr \in [Mgrs -> Mgr]
    BY StateFields
  <1>4. /\ jobmgr_new \in Mgr /\ jobmgr_new.exists /\ ~jobmgr_new.shutting_down
        /\ jobmgr_new.global_on_demand_cnt = 0
    BY DEF jobmgr_new, Mgr
  <1>5. /\ M \in [Mgrs -> Mgr] /\ M[m] = jobmgr_new
        /\ \A n \in Mgrs \ {m} : M[n] = sys.mgr[n]
    BY <1>3, <1>4
  <1>6. sys.mgr[m].global_on_demand_cnt = 0
    <2>1. Holders(sys, m) = {}
      <3> SUFFICES ASSUME NEW j \in Jobs, Home[j] = m, Has(sys, j, Forced)
                   PROVE  FALSE
        BY DEF Holders
      <3>1. sys.job[j].loaded
        BY JobFacts DEF Has
      <3> QED
        BY <1>1, <3>1 DEF Sound, Housed
    <2> QED
      BY <2>1, FS_EmptySet DEF Sound, Counted
  <1> HIDE DEF M
  <1>7. \A n \in Mgrs : /\ M[n].global_on_demand_cnt = sys.mgr[n].global_on_demand_cnt
                        /\ sys.mgr[n].exists => M[n].exists
    BY <1>4, <1>5, <1>6
  <1>8. ASSUME NEW n \in Mgrs \ {Root}, M[n].exists
        PROVE  /\ M[Parent[n]].exists
               /\ M[Parent[n]].shutting_down => M[n].shutting_down
    <2>1. CASE n = m
      BY <1>1, <1>5, <2>1
    <2>2. CASE n # m
      <3>1. /\ sys.mgr[n].exists /\ sys.mgr[Parent[n]].exists
            /\ sys.mgr[Parent[n]].shutting_down => sys.mgr[n].shutting_down
        BY <1>5, <1>8, <2>2 DEF Sound, Rooted
      <3>2. Parent[n] \in Mgrs \ {m}
        BY <1>1, <3>1, ParentAssumption
      <3> QED
        BY <1>5, <2>2, <3>1, <3>2
    <2> QED
      BY <2>1, <2>2
  <1>9. Sound(sys')
    BY <1>2, <1>5, <1>7, <1>8, ManagersChange
  <1>10. Steady(sys')
    <2>1. \A n \in Mgrs : sys.mgr[n].exists =>
            /\ sys.mgr[n].shutting_down => M[n].shutting_down
            /\ M[n].global_on_demand_cnt = sys.mgr[n].global_on_demand_cnt
      BY <1>1, <1>5, <1>7
    <2> QED
      BY <1>2, <2>1, ManagersSteady
  <1> QED
    BY <1>9, <1>10

\* The state of job j with some flags dropped keeps its part.
LEMMA DropFlags ==
  ASSUME NEW s, Sound(s), NEW j \in Jobs, s.job[j].loaded, NEW q,
         \/ q = [s.job[j] EXCEPT !.flags = @ \ {"isActive"}]
         \/ q = [s.job[j] EXCEPT !.flags = @ \ {"priv_port_has_senders"}]
         \/ q = [s.job[j] EXCEPT !.timer = FALSE]
  PROVE  q \in Job /\ q.loaded /\ Keeps(j, s.job[j], q)
  <1>1. /\ s.job[j] \in Job
        /\ "legacy_mach_job" \in Traits[j] => s.job[j].flags \subseteq {"priv_port_has_senders"}
    BY JobFacts
  <1>2. CASE q = [s.job[j] EXCEPT !.flags = @ \ {"isActive"}]
    <2>1. q \in Job /\ q.loaded /\ q.child = s.job[j].child /\ q.flags = s.job[j].flags \ {"isActive"}
      BY <1>1, <1>2 DEF Job
    <2> QED
      BY <1>1, <2>1 DEF Keeps, Forced
  <1>3. CASE q = [s.job[j] EXCEPT !.flags = @ \ {"priv_port_has_senders"}]
    <2>1. /\ q \in Job /\ q.loaded /\ q.child = s.job[j].child
          /\ q.flags = s.job[j].flags \ {"priv_port_has_senders"}
      BY <1>1, <1>3 DEF Job
    <2> QED
      BY <1>1, <2>1 DEF Keeps, Forced
  <1>4. CASE q = [s.job[j] EXCEPT !.timer = FALSE]
    <2>1. q \in Job /\ q.loaded /\ q.child = s.job[j].child /\ q.flags = s.job[j].flags
      BY <1>1, <1>4 DEF Job
    <2> QED
      BY <1>1, <2>1 DEF Keeps, Forced
  <1> QED
    BY <1>2, <1>3, <1>4

\* The handlers of events.
LEMMA EventGood ==
  ASSUME Sound(sys), Steady(sys), NEW j \in Jobs, NEW late,
         \/ ProcEvent(j, late) \/ PortDestroyed(j, late) \/ NoSenders(j, late)
         \/ JobTimer(j, late)
  PROVE  Sound(sys') /\ Steady(sys')
  <1>1. sys.job \in [Jobs -> Job] /\ sys \in St
    BY StateFields DEF Sound
  <1>2. ASSUME NEW s, Sound(s), Steady(s)
        PROVE  Sound(GarbageCollected(s, late)) /\ Steady(GarbageCollected(s, late))
    BY <1>2, GarbageCollectionSound, GarbageCollectionKept DEF GarbageCollected, Steady
  <1>3. CASE ProcEvent(j, late)
    <2> DEFINE r == job_reap(sys, j)
    <2>1. sys.job[j].loaded
      BY <1>3, JobFacts DEF ProcEvent, Exited, Has
    <2>2. Sound(r) /\ r.job[j].loaded /\ Kept(r, {j}) /\ Leaving(r, {j})
      BY <2>1, ReapGood
    <2> HIDE DEF r
    <2>3. Sound(job_dispatch(r, j, FALSE, late)) /\ Steady(job_dispatch(r, j, FALSE, late))
      BY <2>2, DispatchSound, DispatchKept DEF Steady
    <2>4. sys' = GarbageCollected(job_dispatch(r, j, FALSE, late), late)
      BY <1>3 DEF ProcEvent, r
    <2> QED
      BY <1>2, <2>3, <2>4
  <1>4. CASE PortDestroyed(j, late)
    <2> DEFINE q == [sys.job[j] EXCEPT !.flags = @ \ {"isActive"}]
               t == [sys EXCEPT !.job[j] = q]
    <2>1. sys.job[j].loaded
      BY <1>4, JobFacts DEF PortDestroyed, RightAway, Has
    <2>2. q \in Job /\ q.loaded /\ Keeps(j, sys.job[j], q)
      BY <2>1, DropFlags
    <2>3. sys' = GarbageCollected(job_dispatch(t, j, FALSE, late), late)
      <3>1. [sys EXCEPT !.job[j].flags = @ \ {"isActive"}] = t
        BY <1>1
      <3> QED
        BY <1>4, <3>1 DEF PortDestroyed
    <2> HIDE DEF q
    <2>4. Sound(t) /\ t.job[j].loaded /\ Kept(t, {j}) /\ Leaving(t, {j})
      BY <2>2, JobStep
    <2> HIDE DEF t
    <2>5. Sound(job_dispatch(t, j, FALSE, late)) /\ Steady(job_dispatch(t, j, FALSE, late))
      BY <2>4, DispatchSound, DispatchKept DEF Steady
    <2> QED
      BY <1>2, <2>3, <2>5
  <1>5. CASE NoSenders(j, late)
    <2> DEFINE q == [sys.job[j] EXCEPT !.flags = @ \ {"priv_port_has_senders"}]
               t == [sys EXCEPT !.job[j] = q]
    <2>1. sys.job[j].loaded
      BY <1>5, JobFacts DEF NoSenders, Unsent, Has
    <2>2. q \in Job /\ q.loaded /\ Keeps(j, sys.job[j], q)
      BY <2>1, DropFlags
    <2>3. sys' = job_dispatch(t, j, FALSE, late)
      <3>1. [sys EXCEPT !.job[j].flags = @ \ {"priv_port_has_senders"}] = t
        BY <1>1
      <3> QED
        BY <1>5, <3>1 DEF NoSenders
    <2> HIDE DEF q
    <2>4. Sound(t) /\ t.job[j].loaded /\ Kept(t, {j}) /\ Leaving(t, {j})
      BY <2>2, JobStep
    <2> HIDE DEF t
    <2> QED
      BY <2>3, <2>4, DispatchSound, DispatchKept DEF Steady
  <1>6. CASE JobTimer(j, late)
    <2> DEFINE q == [sys.job[j] EXCEPT !.timer = FALSE]
               t == [sys EXCEPT !.job[j] = q]
    <2>1. sys.job[j].loaded
      BY <1>6, JobFacts DEF JobTimer, TimerArmed
    <2>2. q \in Job /\ q.loaded /\ Keeps(j, sys.job[j], q)
      BY <2>1, DropFlags
    <2>3. sys' = job_dispatch(t, j, TRUE, late)
      <3>1. [sys EXCEPT !.job[j].timer = FALSE] = t
        BY <1>1
      <3> QED
        BY <1>6, <3>1 DEF JobTimer
    <2> HIDE DEF q
    <2>4. Sound(t) /\ t.job[j].loaded /\ Kept(t, {j}) /\ Leaving(t, {j})
      BY <2>2, JobStep
    <2> HIDE DEF t
    <2> QED
      BY <2>3, <2>4, DispatchSound, DispatchKept DEF Steady
  <1> QED
    BY <1>3, <1>4, <1>5, <1>6

\* The handlers of requests, and what processes do.
LEMMA RequestGood ==
  ASSUME Sound(sys), Steady(sys), NEW j \in Jobs, NEW late, NEW val \in BOOLEAN,
         \/ StartCommand(j, late) \/ StopCommand(j) \/ RemoveCommand(j, late)
         \/ SwapGlobalOnDemand(j, val, late) \/ CheckIn(j) \/ ChildExits(j)
  PROVE  Sound(sys') /\ Steady(sys')
  <1>1. sys.job \in [Jobs -> Job] /\ sys \in St /\ sys.job[j] \in Job
    BY StateFields DEF Sound
  <1>2. CASE StartCommand(j, late)
    <2>1. sys.job[j].loaded /\ sys' = job_dispatch(sys, j, TRUE, late)
      BY <1>2 DEF StartCommand, job_find
    <2>2. Kept(sys, {j}) /\ Leaving(sys, {j})
      BY DEF Steady, Kept, Leaving
    <2> QED
      BY <2>1, <2>2, DispatchSound, DispatchKept DEF Steady
  <1>3. CASE StopCommand(j)
    <2>1. sys.job[j].loaded /\ sys' = [sys EXCEPT !.job[j] = job_stop(sys.job[j])]
      BY <1>3 DEF StopCommand, job_find
    <2>2. job_stop(sys.job[j]) \in Job /\ Keeps(j, sys.job[j], job_stop(sys.job[j]))
      BY <2>1, StopKeeps
    <2>3. /\ Act(sys.job[j]) => Act(job_stop(sys.job[j]))
          /\ job_stop(sys.job[j]).timer = sys.job[j].timer
      BY StopCalm
    <2> QED
      BY <2>1, <2>2, <2>3, JobStep
  <1>4. CASE RemoveCommand(j, late)
    <2>1. /\ sys.job[j].loaded /\ "remove" \in Stimuli
          /\ sys' = job_remove(sys, j, late)
      BY <1>4 DEF RemoveCommand, job_find
    <2>2. ~(Apart /\ Has(sys, j, Forced))
      BY <2>1 DEF Apart, Sound, Limited
    <2> QED
      BY <2>1, <2>2, RemoveSound, RemoveKept DEF Steady
  <1>5. CASE SwapGlobalOnDemand(j, val, late)
    <2>1. /\ "globalOnDemand" \in Stimuli /\ Has(sys, j, "p")
          /\ sys' = job_set_global_on_demand(sys, j, val, late)
      BY <1>5 DEF SwapGlobalOnDemand
    <2>2. sys.job[j].loaded
      BY <2>1, JobFacts DEF Has
    <2> QED
      BY <2>1, <2>2, SetModeSound, SetModeKept DEF Steady
  <1>6. CASE CheckIn(j)
    <2> DEFINE q == [sys.job[j] EXCEPT !.flags = @ \cup {"isActive"}]
    <2>1. sys' = [sys EXCEPT !.job[j] = q] /\ Has(sys, j, "p")
      <3>1. Set(sys, j, "isActive") = [sys EXCEPT !.job[j] = q]
        BY <1>1 DEF Set
      <3> QED
        BY <1>6, <3>1 DEF CheckIn
    <2>2. "legacy_mach_job" \notin Traits[j] /\ sys.job[j].loaded
      BY <2>1, JobFacts DEF Has
    <2>3. /\ q \in Job /\ q.loaded = sys.job[j].loaded /\ q.child = sys.job[j].child
          /\ q.flags = sys.job[j].flags \cup {"isActive"} /\ q.timer = sys.job[j].timer
      BY <1>1 DEF Job, Flag
    <2> HIDE DEF q
    <2>4. Keeps(j, sys.job[j], q)
      BY <2>2, <2>3 DEF Keeps, Forced
    <2>5. Act(q)
      BY <2>3 DEF Act
    <2> QED
      BY <2>1, <2>3, <2>4, <2>5, JobStep
  <1>7. CASE ChildExits(j)
    <2> DEFINE c == IF Has(sys, j, "p") THEN "zombie" ELSE "none"
               q == [sys.job[j] EXCEPT !.child = c]
    <2>1. sys' = [sys EXCEPT !.job[j] = q]
      <3>1. [sys EXCEPT !.job[j].child = c] = [sys EXCEPT !.job[j] = q]
        BY <1>1
      <3> QED
        BY <1>7, <3>1 DEF ChildExits
    <2>2. /\ q \in Job /\ q.loaded = sys.job[j].loaded /\ q.child = c
          /\ q.flags = sys.job[j].flags /\ q.timer = sys.job[j].timer
      BY <1>1 DEF Job
    <2>3. c # "none" => "p" \in sys.job[j].flags
      BY DEF Has
    <2> HIDE DEF q, c
    <2>4. Keeps(j, sys.job[j], q)
      BY <2>2, <2>3, JobFacts DEF Keeps
    <2>5. Act(sys.job[j]) => Act(q)
      BY <2>2 DEF Act
    <2> QED
      BY <2>1, <2>2, <2>4, <2>5, JobStep
  <1> QED
    BY <1>2, <1>3, <1>4, <1>5, <1>6, <1>7

-----------------------------------------------------------------------------
(* The theorems.                                                           *)

\* launchd starts with the root manager and no jobs.
LEMMA InitGood == Init => Sound(sys) /\ Steady(sys)
  <1> SUFFICES ASSUME Init PROVE Sound(sys) /\ Steady(sys)
    OBVIOUS
  <1>1. /\ sys.job = [j \in Jobs |-> NotLoaded]
        /\ sys.mgr = [m \in Mgrs |-> [jobmgr_new EXCEPT !.exists = (m = Root)]]
        /\ sys.list = {} /\ sys.monitor = NoJob /\ sys.stale = FALSE
        /\ sys = [job |-> sys.job, mgr |-> sys.mgr, list |-> sys.list,
                  monitor |-> sys.monitor, stale |-> sys.stale]
    BY DEF Init
  <1>2. /\ NotLoaded \in Job /\ NotLoaded.flags = {} /\ ~NotLoaded.loaded
        /\ ~NotLoaded.timer /\ NotLoaded.child = "none"
    BY DEF NotLoaded, Job
  <1>3. \A m \in Mgrs : /\ sys.mgr[m] \in Mgr /\ (sys.mgr[m].exists <=> m = Root)
                        /\ sys.mgr[m].global_on_demand_cnt = 0
    <2> TAKE m \in Mgrs
    <2> DEFINE e == (m = Root)
    <2>1. e \in BOOLEAN
      OBVIOUS
    <2>2. sys.mgr[m] = [jobmgr_new EXCEPT !.exists = e]
      BY <1>1
    <2> DEFINE q == sys.mgr[m]
    <2> HIDE DEF e, q
    <2>3. /\ jobmgr_new \in Mgr /\ jobmgr_new.global_on_demand_cnt = 0
          /\ q = [jobmgr_new EXCEPT !.exists = e]
      BY <2>2 DEF jobmgr_new, Mgr, q
    <2>4. q \in Mgr /\ q.exists = e /\ q.global_on_demand_cnt = 0
      BY ONLY <2>1, <2>3 DEF Mgr
    <2> QED
      BY <2>4 DEF e, q
  <1>4. sys \in St
    <2>1. sys.job \in [Jobs -> Job] /\ sys.mgr \in [Mgrs -> Mgr]
      BY <1>1, <1>2, <1>3
    <2> QED
      BY <1>1, <2>1 DEF St
  <1>5. Counted(sys)
    <2>1. \A m \in Mgrs : Holders(sys, m) = {}
      BY <1>1, <1>2 DEF Holders, Has
    <2> QED
      BY <1>3, <2>1, FS_EmptySet DEF Counted
  <1>6. Housed(sys) /\ Limited(sys) /\ Tidy(sys)
    BY <1>1, <1>2 DEF Housed, Limited, Tidy, Has
  <1>7. Monitored(sys)
    BY <1>1, <1>2, RootAssumption DEF Monitored, Has
  <1>8. Rooted(sys)
    BY <1>3 DEF Rooted
  <1>9. Steady(sys)
    BY <1>1, <1>2 DEF Steady, Kept, Leaving, Due
  <1> QED
    BY <1>4, <1>5, <1>6, <1>7, <1>8, <1>9 DEF Sound

\* Every handler keeps the state sound and steady.
LEMMA NextGood == Sound(sys) /\ Steady(sys) /\ [Next]_sys => Sound(sys') /\ Steady(sys')
  <1> SUFFICES ASSUME Sound(sys), Steady(sys), [Next]_sys
               PROVE  Sound(sys') /\ Steady(sys')
    OBVIOUS
  <1>1. ASSUME NEW late \in SUBSET Later, Shutdown(late)
        PROVE  Sound(sys') /\ Steady(sys')
    BY <1>1, ShutdownGood, RootAssumption DEF Shutdown
  <1>2. ASSUME NEW m \in Mgrs, NEW late \in SUBSET Later, RequestPortDied(m, late)
        PROVE  Sound(sys') /\ Steady(sys')
    <2> DEFINE t == [sys EXCEPT !.mgr[m].req_port = FALSE]
    <2>1. Sound(t) /\ Steady(t)
      BY PortGone
    <2>2. sys' = jobmgr_shutdown(t, m, late)
      BY <1>2 DEF RequestPortDied
    <2> HIDE DEF t
    <2> QED
      BY <2>1, <2>2, ShutdownGood
  <1>3. ASSUME NEW j \in Jobs, NEW late \in SUBSET Later, NEW val \in BOOLEAN,
               \/ StartCommand(j, late) \/ RemoveCommand(j, late)
               \/ SwapGlobalOnDemand(j, val, late)
        PROVE  Sound(sys') /\ Steady(sys')
    BY <1>3, RequestGood
  <1>4. ASSUME NEW j \in Jobs, StopCommand(j) \/ CheckIn(j) \/ ChildExits(j)
        PROVE  Sound(sys') /\ Steady(sys')
    BY <1>4, RequestGood
  <1>5. CASE UNCHANGED sys
    <2> DEFINE s == sys
               t == sys'
    <2>1. s = t /\ Sound(s) /\ Steady(s)
      BY <1>5
    <2> HIDE DEF s, t
    <2>2. Sound(t) /\ Steady(t)
      BY <2>1
    <2> QED
      BY <2>2 DEF t
  <1> QED
    BY <1>1, <1>2, <1>3, <1>4, <1>5, ImportGood, EventGood, SubsetGood DEF Next

\* The inductive invariant: the state is sound and steady.
IInv == Sound(sys) /\ Steady(sys)

\* The state is always sound and steady.
LEMMA AlwaysGood == Spec => []IInv
  <1>1. Init => IInv
    BY InitGood DEF IInv
  <1>2. IInv /\ [Next]_sys => IInv'
    BY NextGood DEF IInv
  <1> QED
    BY <1>1, <1>2, PTL DEF Spec

\* Whatever is asked for twice, removed, collected or restarted, launchd's
\* count of the jobs that hold their peers in on-demand mode is right
\* (job_set_global_on_demand, job_remove, jobmgr_remove).
THEOREM ModesAlwaysCounted == Spec => []ModesCounted
  <1>1. IInv => ModesCounted
    <2> SUFFICES ASSUME Sound(sys) PROVE ModesCounted
      BY DEF IInv
    <2>1. TypeOK
      BY DEF Sound, St, TypeOK
    <2>2. CountsAgree
      <3>1. \A m \in Mgrs : Holders(sys, m) = {j \in Loaded(sys) : Home[j] = m /\ Has(sys, j, Forced)}
        BY JobFacts DEF Holders, Loaded, Has
      <3> QED
        BY <3>1 DEF Sound, Counted, CountsAgree, Forced
    <2> QED
      BY <2>1, <2>2 DEF ModesCounted
  <1> QED
    BY <1>1, AlwaysGood, PTL

\* Managers exist and shut down with those above them, and jobs have a manager
\* (jobmgr_shutdown, job_mig_subset, jobmgr_remove).
THEOREM TreeAlwaysStands == Spec => []TreeShutsDown
  <1>1. IInv => TreeShutsDown
    BY DEF IInv, Sound, Rooted, Housed, TreeShutsDown, Loaded
  <1> QED
    BY <1>1, AlwaysGood, PTL

\* A job that is gone left no process behind, and a manager that is gone no
\* manager, as long as jobs are not both removed and allowed to hold their
\* peers in on-demand mode: a removal that ends the mode may restart the very
\* job it removes (job_remove, job_set_global_on_demand, jobmgr_dispatch_all).
THEOREM NothingEverLeftBehind ==
  ASSUME Apart
  PROVE  Spec => []NothingLeftBehind
  <1>1. IInv => NothingLeftBehind
    <2> SUFFICES ASSUME Sound(sys) PROVE NothingLeftBehind
      BY DEF IInv
    <2>1. FreedHasNoProcess
      BY JobFacts DEF Sound, Tidy, FreedHasNoProcess, Has
    <2>2. TreeShutsDown
      BY DEF Sound, Rooted, Housed, TreeShutsDown, Loaded
    <2> QED
      BY <2>1, <2>2 DEF NothingLeftBehind
  <1> QED
    BY <1>1, AlwaysGood, PTL

\* No handler leaves a job dead that has a reason to run: a KeepAlive job
\* after on-demand mode, or one whose OtherJobEnabled job was loaded, is active
\* or waits for a delayed start, whatever was imported, removed, reaped or shut
\* down (job_dispatch, jobmgr_dispatch_all, job_dispatch_curious_jobs).
THEOREM AlwaysKeptAlive == Spec => []KeptAlive
  <1>1. IInv => KeptAlive
    <2> SUFFICES ASSUME Kept(sys, {}), NEW j \in Loaded(sys),
                        ~job_active(sys, j), ~ShuttingDown(sys, j),
                        sys.mgr[Home[j]].global_on_demand_cnt = 0,
                        "KeepAlive" \in Traits[j] \/ \E k \in OtherEnabled[j] : job_find(sys, k)
                 PROVE  sys.job[j].timer
      BY DEF IInv, Steady, KeptAlive
    <2>1. j \in Jobs /\ Due(sys, j)
      BY DEF Due, Count, Act, job_active, Loaded
    <2> QED
      BY <2>1 DEF Kept
  <1> QED
    BY <1>1, AlwaysGood, PTL

-----------------------------------------------------------------------------
(* The order in which a shutdown stops the jobs.                           *)

Dirty(s, j) == Has(s, j, "dirty_at_shutdown")
Mon(s, j)   == Has(s, j, "shutdown_monitor")
Live(s, j)  == Has(s, j, "p") /\ s.job[j].child = "up"

\* All normal jobs of j's manager have exited
Last(s, j) ==
  \A k \in Loaded(s) \ {j} :
    /\ Home[k] = Home[j]
    /\ {"BeginTransactionAtShutdown", "ShutdownMonitor"} \cap Traits[k] = {}
    => ~job_active(s, k)

\* Job j is all that is left
Alone(s, j) == Loaded(s) = {j} /\ \A m \in Mgrs \ {Root} : ~s.mgr[m].exists

\* From s to t, job j is not given what it did not have, and as its manager
\* shuts down it is not started
Fades(s, t, j) ==
  /\ t.job[j].loaded => s.job[j].loaded
  /\ Dirty(t, j) => Dirty(s, j)
  /\ Mon(t, j) => Mon(s, j)
  /\ ShuttingDown(s, j) /\ t.job[j].loaded =>
       /\ ShuttingDown(t, j)
       /\ ~Mon(s, j) => /\ Act(t.job[j]) => Act(s.job[j])
                        /\ Has(t, j, "p") => Has(s, j, "p")
                        /\ Live(t, j) => Live(s, j)
                        /\ Has(t, j, "stopped") => Has(s, j, "stopped") \/ Has(s, j, "p")

\* A transaction held over the shutdown that is closed is one of the last
Closes(s, t, j) ==
  Dirty(s, j) /\ ~Dirty(t, j) /\ t.job[j].loaded =>
    /\ ShuttingDown(t, j) /\ ~Mon(t, j)
    /\ Live(t, j) /\ "InstantOff" \in Traits[j] => Last(t, j)

\* The monitor is not stopped
Waits(s, t, j) ==
  Mon(s, j) /\ t.job[j].loaded =>
    Mon(t, j) /\ (Has(t, j, "stopped") => Has(s, j, "stopped"))

Settles(s, t) ==
  /\ \A j \in Jobs : Fades(s, t, j) /\ Closes(s, t, j)
  /\ \A m \in Mgrs : t.mgr[m].exists => s.mgr[m].exists
  /\ \A m \in Mgrs : t.mgr[m].shutting_down => s.mgr[m].shutting_down

AllWait(s, t) == \A j \in Jobs : Waits(s, t, j)

\* What job flags and managers come from
Descended(s) ==
  /\ \A j \in Jobs : /\ Dirty(s, j) => "BeginTransactionAtShutdown" \in Traits[j]
                     /\ Mon(s, j) => "ShutdownMonitor" \in Traits[j]
  /\ \A m \in Mgrs : s.mgr[m].exists => Root \in Up[m]

\* Steps that settle, one after the other.
LEMMA SettlesDescended ==
  ASSUME NEW s, NEW t, Settles(s, t), Descended(s)
  PROVE  Descended(t)
  BY DEF Settles, Fades, Descended

LEMMA SettlesTwice ==
  ASSUME NEW s, NEW t, NEW u, Settles(s, t), Settles(t, u), Descended(s)
  PROVE  Settles(s, u)
  <1>1. Descended(t)
    BY SettlesDescended
  <1>2. ASSUME NEW j \in Jobs PROVE Fades(s, u, j)
    BY <1>2 DEF Settles, Fades
  <1>3. ASSUME NEW j \in Jobs PROVE Closes(s, u, j)
    <2> SUFFICES ASSUME Dirty(s, j), ~Dirty(u, j), u.job[j].loaded
                 PROVE  /\ ShuttingDown(u, j) /\ ~Mon(u, j)
                        /\ Live(u, j) /\ "InstantOff" \in Traits[j] => Last(u, j)
      BY DEF Closes
    <2>0. Fades(t, u, j) /\ Closes(t, u, j) /\ Closes(s, t, j)
      BY <1>3 DEF Settles
    <2>1. CASE Dirty(t, j)
      BY <2>0, <2>1 DEF Closes
    <2>2. CASE ~Dirty(t, j)
      <3>1. /\ t.job[j].loaded /\ ShuttingDown(t, j) /\ ~Mon(t, j)
            /\ Live(t, j) /\ "InstantOff" \in Traits[j] => Last(t, j)
        BY <2>0, <2>2 DEF Fades, Closes
      <3>2. ShuttingDown(u, j) /\ ~Mon(u, j) /\ (Live(u, j) => Live(t, j))
        BY <2>0, <3>1 DEF Fades
      <3>3. ASSUME Last(t, j), NEW k \in Loaded(u) \ {j}, Home[k] = Home[j],
                   {"BeginTransactionAtShutdown", "ShutdownMonitor"} \cap Traits[k] = {}
            PROVE  ~job_active(u, k)
        <4>1. k \in Jobs /\ Fades(t, u, k) /\ u.job[k].loaded
          BY <3>3 DEF Loaded, Settles
        <4>2. ShuttingDown(t, k) /\ ~Mon(t, k)
          BY <1>1, <3>1, <3>3, <4>1 DEF ShuttingDown, Descended
        <4>3. k \in Loaded(t) /\ (Act(u.job[k]) => Act(t.job[k]))
          BY <4>1, <4>2 DEF Fades, Loaded
        <4> QED
          BY <3>3, <4>3 DEF Last, job_active, Act
      <3> QED
        BY <3>1, <3>2, <3>3 DEF Last
    <2> QED
      BY <2>1, <2>2
  <1>4. /\ \A m \in Mgrs : u.mgr[m].exists => s.mgr[m].exists
        /\ \A m \in Mgrs : u.mgr[m].shutting_down => s.mgr[m].shutting_down
    BY DEF Settles
  <1> QED
    BY <1>2, <1>3, <1>4 DEF Settles

LEMMA WaitsTwice ==
  ASSUME NEW s, NEW t, NEW u, Settles(t, u), AllWait(s, t), AllWait(t, u)
  PROVE  AllWait(s, u)
  BY DEF Settles, Fades, AllWait, Waits

\* Job j becomes q and fades, and its transaction is not closed
Dims(s, j, q) ==
  /\ q.loaded => s.job[j].loaded
  /\ "dirty_at_shutdown" \in q.flags => Dirty(s, j)
  /\ "shutdown_monitor" \in q.flags => Mon(s, j)
  /\ Dirty(s, j) /\ q.loaded => "dirty_at_shutdown" \in q.flags
  /\ ShuttingDown(s, j) /\ q.loaded /\ ~Mon(s, j) =>
       /\ Act(q) => Act(s.job[j])
       /\ "p" \in q.flags => Has(s, j, "p")
       /\ "p" \in q.flags /\ q.child = "up" => Live(s, j)
       /\ "stopped" \in q.flags => Has(s, j, "stopped") \/ Has(s, j, "p")

\* It is not stopped if it is the monitor
Holds(s, j, q) ==
  Mon(s, j) /\ q.loaded =>
    "shutdown_monitor" \in q.flags /\ ("stopped" \in q.flags => Has(s, j, "stopped"))

\* Jobs dim, and managers keep what matters.
LEMMA JobsSettle ==
  ASSUME NEW s, NEW t, \A j \in Jobs : Dims(s, j, t.job[j]),
         \A j \in Jobs : t.job[j].loaded /\ ShuttingDown(s, j) => ShuttingDown(t, j),
         \A m \in Mgrs : t.mgr[m].exists => s.mgr[m].exists,
         \A m \in Mgrs : t.mgr[m].shutting_down => s.mgr[m].shutting_down
  PROVE  Settles(s, t)
  <1>1. ASSUME NEW j \in Jobs
        PROVE  Fades(s, t, j) /\ Closes(s, t, j)
    <2>1. Dims(s, j, t.job[j])
      OBVIOUS
    <2>2. t.job[j].loaded /\ ShuttingDown(s, j) => ShuttingDown(t, j)
      OBVIOUS
    <2> QED
      BY <2>1, <2>2 DEF Dims, Fades, Closes, Dirty, Mon, Live, Has
  <1> QED
    BY <1>1 DEF Settles

\* A job that stays as it is.
LEMMA SameDims ==
  ASSUME NEW s, NEW j
  PROVE  Dims(s, j, s.job[j]) /\ Holds(s, j, s.job[j])
  BY DEF Dims, Holds, Dirty, Mon, Live, Has

\* Only job j changed.
LEMMA OneJobSettles ==
  ASSUME NEW s, Sound(s), NEW t, NEW j \in Jobs, NEW q, Dims(s, j, q),
         t.job = [s.job EXCEPT ![j] = q], t.mgr = s.mgr
  PROVE  Settles(s, t) /\ (Holds(s, j, q) => AllWait(s, t))
  <1>1. t.job[j] = q /\ \A k \in Jobs \ {j} : t.job[k] = s.job[k]
    BY StateFields
  <1>2. \A k \in Jobs : Dims(s, k, t.job[k])
    BY <1>1, SameDims
  <1>3. \A k \in Jobs : ShuttingDown(t, k) = ShuttingDown(s, k)
    BY DEF ShuttingDown
  <1>4. Settles(s, t)
    BY <1>2, <1>3, JobsSettle
  <1>5. ASSUME Holds(s, j, q)
        PROVE  AllWait(s, t)
    <2>1. \A k \in Jobs : Holds(s, k, t.job[k])
      BY <1>1, <1>5, SameDims
    <2> QED
      BY <2>1 DEF AllWait, Waits, Holds, Mon, Has
  <1> QED
    BY <1>4, <1>5

\* job_dispatch() of one job that is not to be removed.
LEMMA DispatchedDims ==
  ASSUME NEW s, Sound(s), NEW j \in Jobs, s.job[j].loaded, NEW kickstart, NEW late,
         kickstart => ~ShuttingDown(s, j) \/ Mon(s, j)
  PROVE  LET q == dispatched(s, j, kickstart, late)
         IN  Dims(s, j, q) /\ Holds(s, j, q)
  <1> DEFINE r == s.job[j]
             q == dispatched(s, j, kickstart, late)
  <1>1. r \in Job
    BY JobFacts
  <1>2. CASE q = r
    BY <1>2, SameDims
  <1>3. CASE q = freed(r)
    <2>1. ~q.loaded /\ q.flags = {}
      BY <1>3 DEF freed, NotLoaded
    <2> QED
      BY <2>1 DEF Dims, Holds
  <1>4. CASE q = started(r, j \in late) /\ (kickstart \/ job_keepalive(s, j))
    <2>1. ~ShuttingDown(s, j) \/ Mon(s, j)
      BY <1>4 DEF job_keepalive
    <2>2. /\ q.loaded = r.loaded
          /\ q.flags = r.flags \/ q.flags = (r.flags \ {"stopped"}) \cup {"p"}
      <3>1. q \in {[r EXCEPT !.timer = TRUE],
                   [r EXCEPT !.flags = (r.flags \ {"stopped"}) \cup {"p"}, !.child = "up"]}
        BY <1>4 DEF started
      <3> HIDE DEF q
      <3> QED
        BY <1>1, <3>1 DEF Job
    <2> HIDE DEF q
    <2>3. /\ "dirty_at_shutdown" \in q.flags <=> Dirty(s, j)
          /\ "shutdown_monitor" \in q.flags <=> Mon(s, j)
          /\ "stopped" \in q.flags => Has(s, j, "stopped")
      BY <2>2 DEF Dirty, Mon, Has
    <2>4. q.loaded => s.job[j].loaded
      BY <2>2
    <2>5. Dims(s, j, q)
      BY <2>1, <2>3, <2>4 DEF Dims
    <2>6. Holds(s, j, q)
      BY <2>3 DEF Holds
    <2> QED
      BY <2>5, <2>6 DEF q
  <1>5. q = r \/ q = freed(r) \/ (q = started(r, j \in late) /\ (kickstart \/ job_keepalive(s, j)))
    BY DEF dispatched
  <1> QED
    BY <1>2, <1>3, <1>4, <1>5

\* Dispatching several jobs.
LEMMA DispatchJobsSettles ==
  ASSUME NEW s, Sound(s), NEW K \in SUBSET Loaded(s), NEW late
  PROVE  LET t == DispatchJobs(s, K, late)
         IN  Settles(s, t) /\ AllWait(s, t)
  <1> DEFINE t == DispatchJobs(s, K, late)
  <1>1. /\ \A k \in K : t.job[k] = dispatched(s, k, FALSE, late)
        /\ \A k \in Jobs \ K : t.job[k] = s.job[k]
    BY DispatchJobsIs
  <1>2. SameMgrs(s, t)
    BY DispatchJobsSound DEF Dispatches
  <1> HIDE DEF t
  <1>3. \A k \in K : k \in Jobs /\ s.job[k].loaded
    BY DEF Loaded
  <1>4. \A k \in Jobs : Dims(s, k, t.job[k]) /\ Holds(s, k, t.job[k])
    <2> TAKE k \in Jobs
    <2>1. CASE k \in K
      <3>1. LET q == dispatched(s, k, FALSE, late)
            IN  Dims(s, k, q) /\ Holds(s, k, q)
        BY <1>3, <2>1, DispatchedDims
      <3> QED
        BY <1>1, <2>1, <3>1
    <2>2. CASE k \notin K
      BY <1>1, <2>2, SameDims
    <2> QED
      BY <2>1, <2>2
  <1>5. Settles(s, t)
    BY <1>2, <1>4, JobsSettle, HomeAssumption DEF SameMgrs, ShuttingDown
  <1>6. AllWait(s, t)
    BY <1>4 DEF AllWait, Waits, Holds, Mon, Has
  <1> QED
    BY <1>5, <1>6 DEF t

\* From s to u, only the on-demand mode changed that job j asks for
Moded(s, u, j) ==
  /\ \A k \in Jobs \ {j} : u.job[k] = s.job[k]
  /\ u.job[j].loaded = s.job[j].loaded /\ u.job[j].child = s.job[j].child
  /\ \A f \in Flag \ {Forced} : Has(u, j, f) <=> Has(s, j, f)
  /\ SameMgrs(s, u)

\* and in t jobs were dispatched as well
ModeSet(s, t, j, late) ==
  \E u, K : /\ Sound(u) /\ Moded(s, u, j) /\ K \in SUBSET Loaded(u)
            /\ t = u \/ t = DispatchJobs(u, K, late)

\* job_set_global_on_demand(): the mode changes, and jobs may be dispatched.
LEMMA SetModeIs ==
  ASSUME NEW s, Sound(s), NEW j \in Jobs, s.job[j].loaded, NEW val \in BOOLEAN, NEW late,
         val => "globalOnDemand" \in Stimuli /\ Has(s, j, "p")
  PROVE  ModeSet(s, job_set_global_on_demand(s, j, val, late), j, late)
  <1> DEFINE m == Home[j]
             c == IF val THEN s.mgr[m].global_on_demand_cnt + 1
                         ELSE s.mgr[m].global_on_demand_cnt - 1
             u == [s EXCEPT !.mgr[m].global_on_demand_cnt = c,
                            !.job[j].flags = IF val THEN @ \cup {Forced} ELSE @ \ {Forced}]
             v == [s EXCEPT !.mgr[m].global_on_demand_cnt = IF val THEN @ + 1 ELSE @ - 1,
                            !.job[j].flags = IF val THEN @ \cup {Forced} ELSE @ \ {Forced}]
             K == {k \in Loaded(u) : /\ Home[k] \in Down(m)
                                     /\ \A n \in Up[Home[k]] \cap Down(m) :
                                          ~u.mgr[n].shutting_down}
             t == job_set_global_on_demand(s, j, val, late)
  <1>1. CASE Has(s, j, Forced) = val
    <2>1. t = s
      BY <1>1 DEF job_set_global_on_demand, Forced
    <2>2. Moded(s, s, j)
      BY DEF Moded, SameMgrs
    <2>3. {} \in SUBSET Loaded(s)
      OBVIOUS
    <2> QED
      BY <2>1, <2>2, <2>3 DEF ModeSet
  <1>2. CASE Has(s, j, Forced) # val
    <2>1. t = IF c = 0 THEN DispatchJobs(u, K, late) ELSE u
      BY <1>2 DEF job_set_global_on_demand, force_peers, jobmgr_dispatch_all, Forced
    <2>2. Sound(u)
      <3>1. u = v
        OBVIOUS
      <3>2. Sound(v)
        BY <1>2, ModeChange
      <3> QED
        BY <3>1, <3>2
    <2>3. /\ s.job \in [Jobs -> Job] /\ s.mgr \in [Mgrs -> Mgr] /\ m \in Mgrs
          /\ s.job[j] \in Job /\ s.mgr[m] \in Mgr
          /\ s = [job |-> s.job, mgr |-> s.mgr, list |-> s.list, monitor |-> s.monitor,
                  stale |-> s.stale]
      BY StateFields, HomeAssumption
    <2>4. /\ \A k \in Jobs \ {j} : u.job[k] = s.job[k]
          /\ u.job[j].loaded = s.job[j].loaded /\ u.job[j].child = s.job[j].child
          /\ u.job[j].flags = IF val THEN s.job[j].flags \cup {Forced}
                                     ELSE s.job[j].flags \ {Forced}
      <3> DEFINE q == [s.job[j] EXCEPT !.flags = IF val THEN @ \cup {Forced} ELSE @ \ {Forced}]
      <3>1. u.job = [s.job EXCEPT ![j] = q]
        BY <2>3
      <3>2. /\ q.loaded = s.job[j].loaded /\ q.child = s.job[j].child
            /\ q.flags = IF val THEN s.job[j].flags \cup {Forced} ELSE s.job[j].flags \ {Forced}
        BY <2>3 DEF Job
      <3> HIDE DEF q, u
      <3> QED
        BY <2>3, <3>1, <3>2
    <2>5. SameMgrs(s, u)
      <3> DEFINE q == [s.mgr[m] EXCEPT !.global_on_demand_cnt = c]
      <3>1. u.mgr = [s.mgr EXCEPT ![m] = q]
        BY <2>3
      <3> HIDE DEF c
      <3>2. q.shutting_down = s.mgr[m].shutting_down /\ q.exists = s.mgr[m].exists
        BY <2>3 DEF Mgr
      <3> HIDE DEF q, u
      <3> QED
        BY <2>3, <3>1, <3>2 DEF SameMgrs
    <2>6. K \in SUBSET Loaded(u)
      OBVIOUS
    <2> HIDE DEF u, K, c, t
    <2>7. Moded(s, u, j)
      BY <2>4, <2>5 DEF Moded, Has
    <2>8. t = u \/ t = DispatchJobs(u, K, late)
      BY <2>1
    <2> QED
      BY <2>2, <2>6, <2>7, <2>8 DEF t, ModeSet
  <1> QED
    BY <1>1, <1>2

\* job_set_global_on_demand().
LEMMA SetModeSettles ==
  ASSUME NEW s, Sound(s), Descended(s), NEW j \in Jobs, s.job[j].loaded,
         NEW val \in BOOLEAN, NEW late,
         val => "globalOnDemand" \in Stimuli /\ Has(s, j, "p")
  PROVE  LET t == job_set_global_on_demand(s, j, val, late)
         IN  Settles(s, t) /\ AllWait(s, t)
  <1> DEFINE t == job_set_global_on_demand(s, j, val, late)
  <1>0. ModeSet(s, t, j, late)
    BY SetModeIs
  <1>1. PICK u, K : /\ Sound(u) /\ Moded(s, u, j) /\ K \in SUBSET Loaded(u)
                    /\ t = u \/ t = DispatchJobs(u, K, late)
    BY <1>0 DEF ModeSet
  <1> HIDE DEF t
  <1>2. Dims(s, j, u.job[j]) /\ Holds(s, j, u.job[j])
    <2>1. \A f \in {"p", "priv_port_has_senders", "isActive", "stopped", "dirty_at_shutdown",
                    "shutdown_monitor"} : f \in u.job[j].flags <=> f \in s.job[j].flags
      BY <1>1 DEF Moded, Flag, Forced, Has
    <2>2. Act(u.job[j]) <=> Act(s.job[j])
      BY <2>1 DEF Act
    <2>3. u.job[j].loaded = s.job[j].loaded /\ u.job[j].child = s.job[j].child
      BY <1>1 DEF Moded
    <2> QED
      BY <2>1, <2>2, <2>3 DEF Dims, Holds, Dirty, Mon, Live, Has
  <1>3. \A k \in Jobs : Dims(s, k, u.job[k]) /\ Holds(s, k, u.job[k])
    BY <1>1, <1>2, SameDims DEF Moded
  <1>4. Settles(s, u)
    BY <1>1, <1>3, JobsSettle, HomeAssumption DEF Moded, SameMgrs, ShuttingDown
  <1>5. AllWait(s, u)
    BY <1>3 DEF AllWait, Waits, Holds, Mon, Has
  <1>6. CASE t = u
    BY <1>4, <1>5, <1>6 DEF t
  <1>7. CASE t = DispatchJobs(u, K, late)
    <2>1. Settles(u, t) /\ AllWait(u, t)
      BY <1>1, <1>7, DispatchJobsSettles
    <2>2. Settles(s, t) /\ AllWait(s, t)
      BY <1>4, <1>5, <2>1, SettlesTwice, WaitsTwice
    <2> QED
      BY <2>2 DEF t
  <1> QED
    BY <1>1, <1>6, <1>7

\* job_remove().  (It tells a job to stop that has a process.)
LEMMA RemoveSettles ==
  ASSUME NEW s, Sound(s), Descended(s), NEW j \in Jobs, s.job[j].loaded, NEW late
  PROVE  LET t == job_remove(s, j, late)
         IN  Settles(s, t) /\ (~Has(s, j, "p") => AllWait(s, t))
  <1>1. CASE Has(s, j, "p")
    <2> DEFINE q == [s.job[j] EXCEPT !.flags = @ \cup {"removal_pending", "stopped"}]
               t == job_remove(s, j, late)
    <2>1. /\ s.job \in [Jobs -> Job] /\ s.job[j] \in Job
          /\ s = [job |-> s.job, mgr |-> s.mgr, list |-> s.list, monitor |-> s.monitor,
                  stale |-> s.stale]
      BY StateFields
    <2>2. t = [s EXCEPT !.job[j] = q]
      BY <1>1, RemoveRunning
    <2>3. /\ q.loaded = s.job[j].loaded /\ q.child = s.job[j].child
          /\ q.flags = s.job[j].flags \cup {"removal_pending", "stopped"}
      BY <2>1 DEF Job
    <2> HIDE DEF q, t
    <2>4. t.job = [s.job EXCEPT ![j] = q] /\ t.mgr = s.mgr
      BY <2>1, <2>2
    <2>5. Act(s.job[j])
      BY <1>1 DEF Act, Has
    <2>6. Dims(s, j, q)
      BY <1>1, <2>3, <2>5 DEF Dims, Dirty, Mon, Live, Has
    <2>7. Settles(s, t)
      BY <2>4, <2>6, OneJobSettles
    <2> QED
      BY <1>1, <2>7 DEF t
  <1>2. CASE ~Has(s, j, "p")
    <2> DEFINE t == job_dispatch_curious_jobs(s, j, late)
               u == job_set_global_on_demand(t, j, FALSE, late)
               v == job_free(u, j)
               q == freed(u.job[j])
    <2>1. job_remove(s, j, late) = v
      BY <1>2 DEF job_remove
    <2>2. Sound(t) /\ t.job[j].loaded
      BY CuriousSound DEF Dispatches
    <2>3. Settles(s, t) /\ AllWait(s, t)
      <3>1. Curious(s, j) \in SUBSET Loaded(s)
        BY DEF Curious
      <3> QED
        BY <3>1, DispatchJobsSettles DEF job_dispatch_curious_jobs
    <2> HIDE DEF t
    <2>4. Descended(t)
      BY <2>3, SettlesDescended
    <2>5. Settles(t, u) /\ AllWait(t, u) /\ Sound(u)
      BY <2>2, <2>4, SetModeSettles, SetModeSound
    <2> HIDE DEF u
    <2>6. /\ u.job \in [Jobs -> Job]
          /\ u = [job |-> u.job, mgr |-> u.mgr, list |-> u.list, monitor |-> u.monitor,
                  stale |-> u.stale]
      BY <2>5, StateFields
    <2>7. v.job = [u.job EXCEPT ![j] = q] /\ v.mgr = u.mgr
      BY <2>6 DEF job_free
    <2>8. ~q.loaded /\ q.flags = {}
      BY DEF freed, NotLoaded
    <2> HIDE DEF v, q
    <2>9. Settles(u, v) /\ AllWait(u, v)
      <3>1. Dims(u, j, q) /\ Holds(u, j, q)
        BY <2>8 DEF Dims, Holds
      <3> QED
        BY <2>5, <2>7, <3>1, OneJobSettles
    <2>10. Settles(t, v) /\ AllWait(t, v)
      BY <2>4, <2>5, <2>9, SettlesTwice, WaitsTwice
    <2>11. Settles(s, v) /\ AllWait(s, v)
      BY <2>3, <2>10, SettlesTwice, WaitsTwice
    <2> QED
      BY <2>1, <2>11
  <1> QED
    BY <1>1, <1>2

\* job_dispatch(), unless it starts a job of a manager that is shutting down.
LEMMA DispatchSettles ==
  ASSUME NEW s, Sound(s), Descended(s), NEW j \in Jobs, s.job[j].loaded,
         NEW kickstart, NEW late, kickstart => ~ShuttingDown(s, j) \/ Mon(s, j)
  PROVE  LET t == job_dispatch(s, j, kickstart, late)
         IN  Settles(s, t) /\ AllWait(s, t)
  <1>1. CASE ~job_active(s, j) /\ job_useless(s, j)
    <2>1. ~Has(s, j, "p")
      BY <1>1 DEF job_active, Has
    <2> QED
      BY <1>1, <2>1, RemoveSettles DEF job_dispatch
  <1>2. CASE job_active(s, j) \/ ~job_useless(s, j)
    <2> DEFINE q == dispatched(s, j, kickstart, late)
               t == job_dispatch(s, j, kickstart, late)
    <2>1. t = [s EXCEPT !.job[j] = q]
      BY <1>2 DEF job_dispatch
    <2>2. Dims(s, j, q) /\ Holds(s, j, q)
      BY DispatchedDims
    <2> HIDE DEF q, t
    <2>3. t.job = [s.job EXCEPT ![j] = q] /\ t.mgr = s.mgr
      BY <2>1, StateFields
    <2>4. Settles(s, t) /\ AllWait(s, t)
      BY <2>2, <2>3, OneJobSettles
    <2> QED
      BY <2>4 DEF t
  <1> QED
    BY <1>1, <1>2

\* A job that is collected: it is told to stop, and its transaction is given
\* up only if launchd cannot hold it.
LEMMA OpenedIs ==
  ASSUME NEW s, Sound(s), NEW j \in Jobs, NEW q, q = job_stop(opened(s, j))
  PROVE  /\ q.loaded = s.job[j].loaded /\ q.child = s.job[j].child
         /\ \A f \in {"p", "priv_port_has_senders", "isActive", "shutdown_monitor"} :
              f \in q.flags <=> f \in s.job[j].flags
         /\ "dirty_at_shutdown" \in q.flags => Dirty(s, j)
         /\ Dirty(s, j) /\ "dirty_at_shutdown" \notin q.flags =>
              ~(Live(s, j) /\ "InstantOff" \in Traits[j])
         /\ "stopped" \in q.flags => Has(s, j, "stopped") \/ Has(s, j, "p")
  <1> DEFINE r == s.job[j]
             o == opened(s, j)
  <1>1. r \in Job
    BY JobFacts
  <1>2. \/ o = r
        \/ o = [r EXCEPT !.txn = TRUE]
        \/ /\ o = [r EXCEPT !.flags = r.flags \ {"dirty_at_shutdown"}]
           /\ ~(Live(s, j) /\ "InstantOff" \in Traits[j])
    BY DEF opened, Live
  <1> HIDE DEF o
  <1>3. /\ o \in Job /\ o.loaded = r.loaded /\ o.child = r.child
        /\ \/ o.flags = r.flags
           \/ /\ o.flags = r.flags \ {"dirty_at_shutdown"}
              /\ ~(Live(s, j) /\ "InstantOff" \in Traits[j])
    BY <1>1, <1>2 DEF Job
  <1>4. \/ q = o
        \/ q = [o EXCEPT !.flags = o.flags \cup {"stopped"}] /\ "p" \in o.flags
    BY DEF job_stop, o
  <1>5. /\ q.loaded = r.loaded /\ q.child = r.child
        /\ q.flags = o.flags \/ (q.flags = o.flags \cup {"stopped"} /\ "p" \in o.flags)
    BY <1>3, <1>4 DEF Job
  <1> QED
    BY <1>3, <1>5 DEF Dirty, Has

\* The jobs of the managers T, but for the monitor, are active
Busy(s, T) ==
  \A j \in Jobs : s.job[j].loaded /\ Home[j] \in T /\ ~Mon(s, j) => Act(s.job[j])

\* The loop of the collection over the jobs.
LEMMA CollectSettles ==
  ASSUME NEW s, Sound(s), Descended(s), NEW T \in SUBSET Mgrs, NEW late,
         \A m \in T : s.mgr[m].shutting_down
  PROVE  LET u == collect_jobs(s, T, late)
         IN  Settles(s, u) /\ AllWait(s, u) /\ Busy(u, T) /\ SameMgrs(s, u)
  <1> DEFINE u == collect_jobs(s, T, late)
  <1>1. PICK t, C : /\ Sound(t) /\ Swept(s, t, T) /\ C \in SUBSET Loaded(t)
                    /\ u = DispatchJobs(t, C, late)
    BY CollectIs
  <1> HIDE DEF u
  <1>2. ASSUME NEW j \in Jobs, t.job[j].loaded
        PROVE  \/ t.job[j] = s.job[j] /\ (Home[j] \notin T \/ Mon(s, j))
               \/ /\ t.job[j] = job_stop(opened(s, j)) /\ Act(s.job[j])
                  /\ Home[j] \in T /\ ~Mon(s, j)
    BY <1>1, <1>2 DEF Swept, Mon
  <1>3. \A j \in Jobs : ShuttingDown(t, j) = ShuttingDown(s, j)
    BY <1>1, HomeAssumption DEF Swept, SameMgrs, ShuttingDown
  <1>4. ASSUME NEW j \in Jobs
        PROVE  Fades(s, t, j) /\ Closes(s, t, j) /\ Waits(s, t, j)
    <2>1. CASE ~t.job[j].loaded
      <3>1. t.job[j].flags = {}
        BY <1>1, <2>1, JobFacts
      <3> QED
        BY <2>1, <3>1 DEF Fades, Closes, Waits, Dirty, Mon, Has
    <2>2. CASE t.job[j].loaded /\ t.job[j] = s.job[j]
      BY <1>3, <2>2 DEF Fades, Closes, Waits, Dirty, Mon, Live, Has
    <2>3. CASE /\ t.job[j].loaded
               /\ t.job[j] = job_stop(opened(s, j)) /\ Act(s.job[j])
               /\ Home[j] \in T /\ ~Mon(s, j)
      <3> DEFINE q == t.job[j]
      <3>1. /\ q.loaded = s.job[j].loaded /\ q.child = s.job[j].child
            /\ \A f \in {"p", "priv_port_has_senders", "isActive", "shutdown_monitor"} :
                 f \in q.flags <=> f \in s.job[j].flags
            /\ "dirty_at_shutdown" \in q.flags => Dirty(s, j)
            /\ Dirty(s, j) /\ "dirty_at_shutdown" \notin q.flags =>
                 ~(Live(s, j) /\ "InstantOff" \in Traits[j])
            /\ "stopped" \in q.flags => Has(s, j, "stopped") \/ Has(s, j, "p")
        BY <2>3, OpenedIs
      <3>2. ShuttingDown(t, j)
        BY <1>3, <2>3 DEF ShuttingDown
      <3>3. Act(q) <=> Act(s.job[j])
        BY <3>1 DEF Act
      <3>4. Fades(s, t, j)
        BY <3>1, <3>2, <3>3 DEF Fades, Dirty, Mon, Live, Has
      <3>5. Closes(s, t, j)
        BY <2>3, <3>1, <3>2 DEF Closes, Dirty, Mon, Live, Has
      <3>6. Waits(s, t, j)
        BY <2>3 DEF Waits
      <3> QED
        BY <3>4, <3>5, <3>6
    <2> QED
      BY <1>2, <2>1, <2>2, <2>3
  <1>5. Settles(s, t) /\ AllWait(s, t)
    BY <1>1, <1>4 DEF Settles, AllWait, Swept, SameMgrs
  <1>6. Settles(t, u) /\ AllWait(t, u)
    BY <1>1, DispatchJobsSettles
  <1>7. Settles(s, u) /\ AllWait(s, u)
    BY <1>5, <1>6, SettlesTwice, WaitsTwice
  <1>8. Busy(u, T)
    <2> SUFFICES ASSUME NEW j \in Jobs, u.job[j].loaded, Home[j] \in T, ~Mon(u, j)
                 PROVE  Act(u.job[j])
      BY DEF Busy
    <2>1. t.job[j].loaded /\ ~Mon(t, j)
      BY <1>6 DEF Settles, Fades, AllWait, Waits
    <2>2. ~Mon(s, j)
      BY <1>4, <2>1 DEF Waits
    <2>3. t.job[j] = job_stop(opened(s, j)) /\ Act(s.job[j])
      BY <1>2, <2>1, <2>2
    <2>4. Act(t.job[j])
      BY <1>1, <2>1, <2>3 DEF Swept
    <2>5. u.job[j] = t.job[j]
      <3>0. /\ \A k \in C : u.job[k] = dispatched(t, k, FALSE, late)
            /\ \A k \in Jobs \ C : u.job[k] = t.job[k]
        BY <1>1, DispatchJobsIs
      <3>1. CASE j \in C
        <4>1. u.job[j] = dispatched(t, j, FALSE, late)
          BY <3>0, <3>1
        <4> QED
          BY <2>4, <4>1 DEF dispatched, job_active, Act
      <3>2. CASE j \notin C
        BY <3>0, <3>2
      <3> QED
        BY <3>1, <3>2
    <2> QED
      BY <2>4, <2>5
  <1>9. SameMgrs(s, u)
    BY <1>1, DispatchJobsSound DEF Swept, SameMgrs, Dispatches
  <1> QED
    BY <1>7, <1>8, <1>9 DEF u

\* Closing the transactions: those of managers whose normal jobs have exited.
LEMMA CleanSettles ==
  ASSUME NEW s, Sound(s), Descended(s), NEW T \in SUBSET Mgrs, Busy(s, T),
         \A m \in T : s.mgr[m].shutting_down
  PROVE  LET t == clean_jobs(s, T)
         IN  Settles(s, t) /\ AllWait(s, t) /\ Busy(t, T)
  <1> DEFINE P(j) == /\ Home[j] \in T /\ Cleans(s, Home[j])
                     /\ j \in Collected(s, Home[j]) /\ job_active(s, j)
                     /\ Has(s, j, "dirty_at_shutdown")
             js == [j \in Jobs |-> IF P(j) THEN closed(s.job[j]) ELSE s.job[j]]
             ms == [m \in Mgrs |-> IF m \in T /\ Cleans(s, m)
                                   THEN [s.mgr[m] EXCEPT !.shutdown_jobs_cleaned = TRUE]
                                   ELSE s.mgr[m]]
             t  == clean_jobs(s, T)
  <1>1. t = [s EXCEPT !.job = js, !.mgr = ms]
    BY DEF clean_jobs, Table
  <1> HIDE DEF P
  <1>2. /\ s.job \in [Jobs -> Job] /\ s.mgr \in [Mgrs -> Mgr]
        /\ s = [job |-> s.job, mgr |-> s.mgr, list |-> s.list, monitor |-> s.monitor,
                stale |-> s.stale]
    BY StateFields
  <1>3. ASSUME NEW j \in Jobs, P(j)
        PROVE  /\ js[j].loaded = s.job[j].loaded /\ js[j].child = s.job[j].child
               /\ js[j].flags = s.job[j].flags \ {"dirty_at_shutdown"}
    <2>1. js[j] = closed(s.job[j]) /\ s.job[j] \in Job
      BY <1>2, <1>3
    <2> HIDE DEF js
    <2> QED
      BY <2>1 DEF closed, Job
  <1>4. \A j \in Jobs : ~P(j) => js[j] = s.job[j]
    OBVIOUS
  <1>5. \A m \in Mgrs : /\ ms[m].exists = s.mgr[m].exists
                        /\ ms[m].shutting_down = s.mgr[m].shutting_down
    <2> TAKE m \in Mgrs
    <2> DEFINE r == s.mgr[m]
               q == ms[m]
    <2>1. r \in Mgr /\ (q = r \/ q = [r EXCEPT !.shutdown_jobs_cleaned = TRUE])
      BY <1>2
    <2> HIDE DEF r, q
    <2>2. q.exists = r.exists /\ q.shutting_down = r.shutting_down
      BY ONLY <2>1 DEF Mgr
    <2> QED
      BY <2>2 DEF r, q
  <1> HIDE DEF js, ms, t
  <1>6. t.job = js /\ t.mgr = ms
    BY <1>1, <1>2
  <1>7. /\ \A j \in Jobs : ShuttingDown(t, j) = ShuttingDown(s, j)
        /\ \A m \in Mgrs : t.mgr[m].exists => s.mgr[m].exists
        /\ \A m \in Mgrs : t.mgr[m].shutting_down => s.mgr[m].shutting_down
    BY <1>5, <1>6, HomeAssumption DEF ShuttingDown
  <1>8. \A j \in Jobs : /\ t.job[j].loaded = s.job[j].loaded /\ t.job[j].child = s.job[j].child
                        /\ \A f \in {"p", "priv_port_has_senders", "isActive", "stopped",
                                     "shutdown_monitor"} : Has(t, j, f) <=> Has(s, j, f)
                        /\ Dirty(t, j) => Dirty(s, j)
    BY <1>3, <1>4, <1>6 DEF Has, Dirty
  <1>9. \A j \in Jobs : Act(t.job[j]) <=> Act(s.job[j])
    BY <1>8 DEF Act, Has
  <1>10. ASSUME NEW j \in Jobs
         PROVE  Fades(s, t, j)
    BY <1>7, <1>8, <1>9, <1>10 DEF Fades, Mon, Live
  <1>11. ASSUME NEW j \in Jobs
         PROVE  Closes(s, t, j)
    <2> SUFFICES ASSUME Dirty(s, j), ~Dirty(t, j), t.job[j].loaded
                 PROVE  ShuttingDown(t, j) /\ ~Mon(t, j) /\ Last(t, j)
      BY DEF Closes
    <2>1. P(j)
      BY <1>4, <1>6 DEF Dirty, Has
    <2>2. ShuttingDown(t, j)
      BY <1>7, <2>1 DEF P, ShuttingDown
    <2>3. ~Mon(t, j)
      BY <1>8, <2>1 DEF P, Collected, Mon
    <2>4. ASSUME NEW k \in Loaded(t) \ {j}, Home[k] = Home[j],
                 {"BeginTransactionAtShutdown", "ShutdownMonitor"} \cap Traits[k] = {},
                 job_active(t, k)
          PROVE  FALSE
      <3>1. k \in Jobs /\ s.job[k].loaded
        BY <1>8, <2>4 DEF Loaded
      <3>2. job_active(s, k)
        BY <1>9, <2>4, <3>1 DEF job_active, Act
      <3>3. ~Dirty(s, k) /\ ~Mon(s, k)
        BY <2>4, <3>1 DEF Descended
      <3>4. k \in Actives(s, Home[j])
        BY <2>4, <3>1, <3>2, <3>3 DEF Actives, Collected, Loaded, Dirty, Mon
      <3> QED
        BY <2>1, <3>4 DEF P, Cleans
    <2> QED
      BY <2>2, <2>3, <2>4 DEF Last
  <1>12. Settles(s, t)
    BY <1>7, <1>10, <1>11 DEF Settles
  <1>13. AllWait(s, t)
    BY <1>8 DEF AllWait, Waits, Mon
  <1>14. Busy(t, T)
    BY <1>8, <1>9 DEF Busy, Mon
  <1> QED
    BY <1>12, <1>13, <1>14 DEF t

\* jobmgr_remove().
LEMMA RemoveManagersSettles ==
  ASSUME NEW s, Sound(s), NEW T, NEW R \in SUBSET Mgrs, Busy(s, T)
  PROVE  LET t == remove_managers(s, R)
         IN  Settles(s, t) /\ AllWait(s, t) /\ Busy(t, T)
  <1> DEFINE js == [j \in Jobs |-> IF s.job[j].loaded /\ Home[j] \in R
                                   THEN freed(s.job[j]) ELSE s.job[j]]
             u  == [jobmgr_new EXCEPT !.exists = FALSE]
             ms == [m \in Mgrs |-> IF m \in R THEN u ELSE s.mgr[m]]
             L  == Among(s.list, {j \in Jobs : Home[j] \notin R})
             t  == remove_managers(s, R)
  <1>1. t = [s EXCEPT !.job = js, !.list = L, !.mgr = ms]
    BY DEF remove_managers, Table
  <1>2. ~u.exists /\ ~u.shutting_down
    BY DEF jobmgr_new
  <1>3. \A j \in Jobs : \/ js[j] = s.job[j] /\ (js[j].loaded => Home[j] \notin R)
                        \/ ~js[j].loaded /\ js[j].flags = {}
    BY DEF freed, NotLoaded
  <1> HIDE DEF u
  <1>4. (\A m \in R : ms[m] = u) /\ (\A m \in Mgrs \ R : ms[m] = s.mgr[m])
    OBVIOUS
  <1> HIDE DEF js, ms, L, t
  <1>5. t.job = js /\ t.mgr = ms
    <2>1. s \in St
      BY DEF Sound
    <2> QED
      BY ONLY <1>1, <2>1 DEF St
  <1>6. \A j \in Jobs : Dims(s, j, t.job[j]) /\ Holds(s, j, t.job[j])
    <2> TAKE j \in Jobs
    <2>1. CASE js[j] = s.job[j]
      BY <1>5, <2>1, SameDims
    <2>2. CASE ~js[j].loaded /\ js[j].flags = {}
      BY <1>5, <2>2 DEF Dims, Holds
    <2> QED
      BY <1>3, <2>1, <2>2
  <1>7. /\ \A m \in Mgrs : t.mgr[m].exists => s.mgr[m].exists
        /\ \A m \in Mgrs : t.mgr[m].shutting_down => s.mgr[m].shutting_down
    BY <1>2, <1>4, <1>5
  <1>8. \A j \in Jobs : t.job[j].loaded /\ ShuttingDown(s, j) => ShuttingDown(t, j)
    BY <1>3, <1>4, <1>5, HomeAssumption DEF ShuttingDown
  <1>9. Settles(s, t)
    BY <1>6, <1>7, <1>8, JobsSettle
  <1>10. AllWait(s, t)
    BY <1>6 DEF AllWait, Waits, Holds, Mon, Has
  <1>11. Busy(t, T)
    BY <1>3, <1>5 DEF Busy, Mon, Has
  <1> QED
    BY <1>9, <1>10, <1>11 DEF t

\* From s to t the monitor is not stopped, unless it is alone
Ends(s, t) ==
  \A j \in Jobs : Mon(s, j) /\ Has(t, j, "stopped") /\ ~Has(s, j, "stopped") => Alone(t, j)

\* Nothing changes.
LEMMA SettlesSame ==
  ASSUME NEW s
  PROVE  Settles(s, s) /\ AllWait(s, s) /\ Ends(s, s)
  <1>1. \A j \in Jobs : Dims(s, j, s.job[j])
    BY SameDims
  <1>2. Settles(s, s)
    BY <1>1, JobsSettle
  <1> QED
    BY <1>2 DEF AllWait, Waits, Ends

\* The monitor is stopped when it is all that is left.
LEMMA StopMonitorSettles ==
  ASSUME NEW s, Sound(s), Descended(s), NEW T, Busy(s, T)
  PROVE  LET t == stop_monitor(s, T)
         IN  Settles(s, t) /\ Ends(s, t) /\ (Root \notin T => AllWait(s, t))
  <1> DEFINE t == stop_monitor(s, T)
  <1>1. CASE t = s
    BY <1>1, SettlesSame
  <1>2. CASE /\ Root \in T /\ Quiet(s, Root) /\ Children(s, Root) = {} /\ s.monitor # NoJob
             /\ t = [s EXCEPT !.job[s.monitor] =
                                job_stop([s.job[s.monitor] EXCEPT
                                            !.flags = @ \ {"shutdown_monitor"}]),
                              !.monitor = NoJob]
    <2> DEFINE j == s.monitor
               o == [s.job[j] EXCEPT !.flags = @ \ {"shutdown_monitor"}]
               q == job_stop(o)
    <2>1. /\ j \in Jobs /\ s.job \in [Jobs -> Job] /\ s.job[j] \in Job
          /\ s = [job |-> s.job, mgr |-> s.mgr, list |-> s.list, monitor |-> s.monitor,
                  stale |-> s.stale]
      BY <1>2, StateFields
    <2>2. t = [s EXCEPT !.job[j] = q, !.monitor = NoJob]
      BY <1>2
    <2>3. s.job[j].loaded /\ Mon(s, j) /\ \A k \in Jobs \ {j} : ~Mon(s, k)
      BY <2>1, JobFacts DEF Sound, Monitored, Has, Mon
    <2>4. /\ o \in Job /\ o.flags = s.job[j].flags \ {"shutdown_monitor"}
          /\ o.loaded /\ o.child = s.job[j].child
      BY <2>1, <2>3 DEF Job
    <2> HIDE DEF o
    <2>5. /\ q.loaded /\ q.child = s.job[j].child
          /\ q.flags \in {o.flags, o.flags \cup {"stopped"}}
      BY <2>4 DEF job_stop, Job, Flag
    <2> HIDE DEF q, t
    <2>6. t.job = [s.job EXCEPT ![j] = q] /\ t.mgr = s.mgr
      BY <2>1, <2>2
    <2> HIDE DEF j
    <2>7. /\ "dirty_at_shutdown" \in q.flags <=> Dirty(s, j)
          /\ "shutdown_monitor" \notin q.flags
      BY <2>4, <2>5 DEF Has, Dirty
    <2>8. Dims(s, j, q)
      BY <2>3, <2>5, <2>7 DEF Dims
    <2>9. Settles(s, t)
      BY <2>1, <2>6, <2>8, OneJobSettles
    <2>10. \A m \in Mgrs \ {Root} : ~s.mgr[m].exists
      <3> SUFFICES ASSUME NEW m \in Mgrs \ {Root}, s.mgr[m].exists
                   PROVE  FALSE
        OBVIOUS
      <3> DEFINE C == {k \in Mgrs \ {Root} : s.mgr[k].exists}
      <3>1. m \in C /\ C \in SUBSET Mgrs /\ Root \notin C
        OBVIOUS
      <3>2. \A k \in C \ {Root} : Parent[k] \in C
        BY <1>2, ParentAssumption DEF Sound, Rooted, Children
      <3>3. Root \in Up[m]
        BY DEF Descended
      <3> HIDE DEF C
      <3> QED
        BY <3>1, <3>2, <3>3 DEF Up
    <2>11. ASSUME NEW k \in Jobs \ {j}
           PROVE  ~s.job[k].loaded
      <3> SUFFICES ASSUME s.job[k].loaded PROVE FALSE
        OBVIOUS
      <3>1. Home[k] = Root
        BY <2>10, HomeAssumption DEF Sound, Housed
      <3>2. Act(s.job[k])
        BY <1>2, <2>3, <3>1 DEF Busy
      <3>3. k \in Collected(s, Root)
        BY <2>3, <3>1 DEF Collected, Loaded, Mon
      <3> QED
        BY <1>2, <3>2, <3>3 DEF Quiet, job_active, Act
    <2>12. t.job[j] = q /\ \A k \in Jobs \ {j} : t.job[k] = s.job[k]
      BY <2>1, <2>6
    <2>13. Alone(t, j)
      BY <2>1, <2>5, <2>6, <2>10, <2>11, <2>12 DEF Alone, Loaded
    <2>14. Ends(s, t)
      BY <2>3, <2>13 DEF Ends
    <2> QED
      BY <1>2, <2>9, <2>14 DEF t
  <1> QED
    BY <1>1, <1>2 DEF stop_monitor

\* Steps that leave the monitor alone, before one that may stop it.
LEMMA EndsAfter ==
  ASSUME NEW s, NEW t, NEW u, AllWait(s, t), Settles(t, u), Ends(t, u), Sound(u)
  PROVE  Ends(s, u)
  <1> SUFFICES ASSUME NEW j \in Jobs, Mon(s, j), Has(u, j, "stopped"), ~Has(s, j, "stopped")
               PROVE  Alone(u, j)
    BY DEF Ends
  <1>1. u.job[j].loaded
    BY JobFacts DEF Has
  <1>2. t.job[j].loaded
    BY <1>1 DEF Settles, Fades
  <1>3. Mon(t, j) /\ ~Has(t, j, "stopped")
    BY <1>2 DEF AllWait, Waits
  <1> QED
    BY <1>3 DEF Ends

\* jobmgr_do_garbage_collection().
LEMMA GarbageCollectionSettles ==
  ASSUME NEW s, Sound(s), Descended(s), NEW D \in SUBSET Mgrs, NEW late
  PROVE  LET g == jobmgr_do_garbage_collection(s, D, late)
         IN  Settles(s, g) /\ Ends(s, g) /\ (Root \notin D => AllWait(s, g))
  <1> DEFINE T == {m \in D : s.mgr[m].exists /\ s.mgr[m].shutting_down}
             c == collect_jobs(s, T, late)
             t == clean_jobs(c, T)
             R == Removable(t, T)
             u == remove_managers(t, R)
             g == stop_monitor(u, T)
  <1>1. jobmgr_do_garbage_collection(s, D, late) = g
    BY DEF jobmgr_do_garbage_collection
  <1>2. T \in SUBSET Mgrs /\ T \subseteq D /\ \A m \in T : s.mgr[m].shutting_down
    OBVIOUS
  <1> HIDE DEF T
  <1>3. Settles(s, c) /\ AllWait(s, c) /\ Busy(c, T) /\ SameMgrs(s, c)
    BY <1>2, CollectSettles
  <1>4. Sound(c)
    BY <1>2, CollectSound
  <1> HIDE DEF c
  <1>5. Descended(c) /\ \A m \in T : c.mgr[m].shutting_down
    BY <1>2, <1>3, SettlesDescended DEF SameMgrs
  <1>6. Settles(c, t) /\ AllWait(c, t) /\ Busy(t, T)
    BY <1>2, <1>3, <1>4, <1>5, CleanSettles
  <1>7. Sound(t)
    BY <1>2, <1>4, CleanSound
  <1> HIDE DEF t
  <1>8. Settles(s, t) /\ AllWait(s, t) /\ Descended(t)
    BY <1>3, <1>5, <1>6, SettlesTwice, WaitsTwice, SettlesDescended
  <1>9. R \in SUBSET Mgrs /\ \A m \in R : /\ Quiet(t, m) /\ Children(t, m) \subseteq R
                                          /\ m = Root => t.monitor = NoJob
    BY <1>2, RemovableIs
  <1> HIDE DEF R
  <1>10. Sound(u) /\ Settles(t, u) /\ AllWait(t, u) /\ Busy(u, T)
    BY <1>6, <1>7, <1>9, RemoveManagersSound, RemoveManagersSettles
  <1> HIDE DEF u
  <1>11. Settles(s, u) /\ AllWait(s, u) /\ Descended(u)
    BY <1>8, <1>10, SettlesTwice, WaitsTwice, SettlesDescended
  <1>12. Settles(u, g) /\ Ends(u, g) /\ (Root \notin T => AllWait(u, g))
    BY <1>10, <1>11, StopMonitorSettles
  <1>13. Sound(g)
    BY <1>10, StopMonitorSound
  <1> HIDE DEF g
  <1>14. Settles(s, g)
    BY <1>11, <1>12, SettlesTwice
  <1>15. Ends(s, g)
    BY <1>11, <1>12, <1>13, EndsAfter
  <1>16. Root \notin D => AllWait(s, g)
    BY <1>2, <1>11, <1>12, WaitsTwice
  <1> QED
    BY <1>1, <1>14, <1>15, <1>16

\* What a step may do to the order in which jobs are stopped
Ordered(s, t) ==
  /\ \A j \in Jobs :
       Mon(s, j) /\ t.mgr[Root].shutting_down /\ Has(t, j, "stopped") /\ ~Has(s, j, "stopped")
         => Alone(t, j)
  /\ \A j \in Jobs :
       Dirty(s, j) /\ ~Dirty(t, j) /\ Live(t, j) /\ "InstantOff" \in Traits[j] => Last(t, j)

\* A handler that settles the jobs is in order.
LEMMA SettlesOrdered ==
  ASSUME NEW s, NEW t, Sound(t), Settles(s, t), Ends(s, t) \/ AllWait(s, t)
  PROVE  Ordered(s, t)
  <1>1. \A j \in Jobs : \A f : Has(t, j, f) => t.job[j].loaded
    BY JobFacts DEF Has
  <1>2. Ends(s, t)
    BY <1>1 DEF Ends, AllWait, Waits
  <1>3. ASSUME NEW j \in Jobs, Dirty(s, j), ~Dirty(t, j), Live(t, j), "InstantOff" \in Traits[j]
        PROVE  Last(t, j)
    <2>1. t.job[j].loaded
      BY <1>1, <1>3 DEF Live
    <2> QED
      BY <1>3, <2>1 DEF Settles, Closes
  <1> QED
    BY <1>2, <1>3 DEF Ordered, Ends

\* From r to s, no job changed in what matters for the order.
LEMMA SameJobsOrdered ==
  ASSUME NEW r, NEW s, NEW t, Ordered(s, t),
         \A j \in Jobs : /\ Mon(r, j) => Mon(s, j)
                         /\ Has(s, j, "stopped") => Has(r, j, "stopped")
                         /\ Dirty(r, j) => Dirty(s, j)
  PROVE  Ordered(r, t)
  BY DEF Ordered

\* Only the root is above the root.
LEMMA UpRoot ==
  ASSUME NEW m \in Mgrs, Root \in Down(m)
  PROVE  m = Root
  <1>1. m \in Up[Root] /\ Root \in Mgrs
    BY RootAssumption DEF Down
  <1>2. {Root} \in SUBSET Mgrs /\ Root \in {Root} /\ \A k \in {Root} \ {Root} : Parent[k] \in {Root}
    BY RootAssumption
  <1>3. m \in {Root}
    BY <1>1, <1>2 DEF Up
  <1> QED
    BY <1>3

\* jobmgr_shutdown().
LEMMA ShutdownOrdered ==
  ASSUME NEW s, Sound(s), Steady(s), Descended(s), NEW m \in Mgrs, NEW late
  PROVE  LET t == jobmgr_shutdown(s, m, late)
         IN  Ordered(s, t) /\ Descended(t)
  <1> DEFINE M == [n \in Mgrs |-> IF n \in Down(m) /\ s.mgr[n].exists
                                  THEN [s.mgr[n] EXCEPT !.shutting_down = TRUE]
                                  ELSE s.mgr[n]]
             down == [s EXCEPT !.mgr = M]
             subs == jobmgr_do_garbage_collection(down, Down(m) \ {m}, late)
             mon  == IF m = Root /\ subs.monitor # NoJob
                     THEN job_dispatch(subs, subs.monitor, TRUE, late) ELSE subs
             t    == jobmgr_do_garbage_collection(mon, Down(m), late)
  <1>1. jobmgr_shutdown(s, m, late) = t
    BY DEF jobmgr_shutdown, Table
  <1>2. Sound(down) /\ down.job = s.job /\ \A n \in Mgrs : down.mgr[n].exists => s.mgr[n].exists
    BY ShutsDown
  <1> HIDE DEF down
  <1>3. Descended(down)
    BY <1>2 DEF Descended, Dirty, Mon, Has
  <1>4. Down(m) \in SUBSET Mgrs /\ Down(m) \ {m} \in SUBSET Mgrs /\ Root \notin Down(m) \ {m}
    BY UpRoot DEF Down
  <1>5. Sound(subs) /\ Settles(down, subs) /\ AllWait(down, subs)
    BY <1>2, <1>3, <1>4, GarbageCollectionSound, GarbageCollectionSettles
  <1> HIDE DEF subs
  <1>6. Descended(subs)
    BY <1>3, <1>5, SettlesDescended
  <1>7. Sound(mon) /\ Settles(subs, mon) /\ AllWait(subs, mon)
    <2>1. CASE m = Root /\ subs.monitor # NoJob
      <3>1. subs.monitor \in Jobs
        BY <1>5, <2>1, StateFields
      <3>2. Mon(subs, subs.monitor)
        BY <1>5, <3>1 DEF Sound, Monitored, Mon
      <3>3. subs.job[subs.monitor].loaded
        BY <1>5, <3>1, <3>2, JobFacts DEF Has, Mon
      <3> QED
        BY <1>5, <1>6, <2>1, <3>1, <3>2, <3>3, DispatchSound, DispatchSettles
    <2>2. CASE ~(m = Root /\ subs.monitor # NoJob)
      BY <1>5, <2>2, SettlesSame
    <2> QED
      BY <2>1, <2>2
  <1> HIDE DEF mon
  <1>8. Settles(down, mon) /\ AllWait(down, mon) /\ Descended(mon)
    BY <1>3, <1>5, <1>6, <1>7, SettlesTwice, WaitsTwice, SettlesDescended
  <1>9. Sound(t) /\ Settles(mon, t) /\ Ends(mon, t)
    BY <1>4, <1>7, <1>8, GarbageCollectionSound, GarbageCollectionSettles
  <1> HIDE DEF t
  <1>10. Settles(down, t) /\ Ends(down, t)
    BY <1>3, <1>8, <1>9, SettlesTwice, EndsAfter
  <1>11. Ordered(down, t) /\ Descended(t)
    BY <1>3, <1>9, <1>10, SettlesOrdered, SettlesDescended
  <1>12. Ordered(s, t)
    BY <1>2, <1>11, SameJobsOrdered DEF Mon, Dirty, Has
  <1> QED
    BY <1>1, <1>11, <1>12

\* Only job j changed, and is not stopped as the monitor of a shutdown.
LEMMA OneJobOrdered ==
  ASSUME NEW s, Sound(s), Descended(s), NEW t, NEW j \in Jobs, NEW q,
         t.job = [s.job EXCEPT ![j] = q], t.mgr = s.mgr,
         "dirty_at_shutdown" \in q.flags <=> Dirty(s, j),
         "shutdown_monitor" \in q.flags => Mon(s, j),
         "stopped" \in q.flags => Has(s, j, "stopped") \/ ~Mon(s, j) \/ ~ShuttingDown(s, j)
  PROVE  Ordered(s, t) /\ Descended(t)
  <1>1. t.job[j] = q /\ \A k \in Jobs \ {j} : t.job[k] = s.job[k]
    BY StateFields
  <1>2. \A k \in Jobs : (Dirty(t, k) <=> Dirty(s, k)) /\ (Mon(t, k) => Mon(s, k))
    BY <1>1 DEF Dirty, Mon, Has
  <1>3. ASSUME NEW k \in Jobs, Mon(s, k), t.mgr[Root].shutting_down,
               Has(t, k, "stopped"), ~Has(s, k, "stopped")
        PROVE  FALSE
    <2>1. k = j
      BY <1>1, <1>3 DEF Has
    <2>2. Home[j] = Root
      BY <1>3, <2>1 DEF Sound, Monitored, Mon
    <2> QED
      BY <1>1, <1>3, <2>1, <2>2 DEF Has, ShuttingDown
  <1>4. Ordered(s, t)
    BY <1>2, <1>3 DEF Ordered
  <1>5. Descended(t)
    BY <1>2 DEF Descended
  <1> QED
    BY <1>4, <1>5

\* job_dispatch(), whatever it starts.
LEMMA DispatchOrdered ==
  ASSUME NEW s, Sound(s), Descended(s), NEW j \in Jobs, s.job[j].loaded, NEW kickstart, NEW late
  PROVE  LET t == job_dispatch(s, j, kickstart, late)
         IN  Ordered(s, t) /\ Descended(t)
  <1> DEFINE t == job_dispatch(s, j, kickstart, late)
  <1>1. CASE ~job_active(s, j) /\ job_useless(s, j)
    <2>1. ~Has(s, j, "p") /\ t = job_remove(s, j, late) /\ Sound(t)
      BY <1>1, DispatchSound DEF job_active, Has, job_dispatch
    <2>2. Settles(s, t) /\ AllWait(s, t)
      BY <2>1, RemoveSettles
    <2> HIDE DEF t
    <2>3. Ordered(s, t) /\ Descended(t)
      BY <2>1, <2>2, SettlesOrdered, SettlesDescended
    <2> QED
      BY <2>3 DEF t
  <1>2. CASE job_active(s, j) \/ ~job_useless(s, j)
    <2> DEFINE r == s.job[j]
               q == dispatched(s, j, kickstart, late)
    <2>1. t = [s EXCEPT !.job[j] = q]
      BY <1>2 DEF job_dispatch
    <2>2. q \in {r, started(r, j \in late)}
      BY <1>2 DEF dispatched
    <2>3. r \in Job
      BY JobFacts
    <2>4. q \in {r, [r EXCEPT !.timer = TRUE],
                 [r EXCEPT !.flags = (r.flags \ {"stopped"}) \cup {"p"}, !.child = "up"]}
      BY <2>2 DEF started
    <2> HIDE DEF q
    <2>5. q.flags = r.flags \/ q.flags = (r.flags \ {"stopped"}) \cup {"p"}
      BY <2>3, <2>4 DEF Job
    <2>6. /\ "dirty_at_shutdown" \in q.flags <=> Dirty(s, j)
          /\ "shutdown_monitor" \in q.flags => Mon(s, j)
          /\ "stopped" \in q.flags => Has(s, j, "stopped")
      BY <2>5 DEF Dirty, Mon, Has
    <2> HIDE DEF t
    <2>7. t.job = [s.job EXCEPT ![j] = q] /\ t.mgr = s.mgr
      BY <2>1, StateFields
    <2>8. Ordered(s, t) /\ Descended(t)
      BY <2>6, <2>7, OneJobOrdered
    <2> QED
      BY <2>8 DEF t
  <1> QED
    BY <1>1, <1>2

\* A dispatch, and the collection that follows it.
LEMMA DispatchCollected ==
  ASSUME NEW s, Sound(s), Descended(s), NEW j \in Jobs, s.job[j].loaded, NEW late
  PROVE  LET t == GarbageCollected(job_dispatch(s, j, FALSE, late), late)
         IN  Sound(t) /\ Settles(s, t) /\ Ends(s, t)
  <1> DEFINE d == job_dispatch(s, j, FALSE, late)
             t == GarbageCollected(d, late)
  <1>1. Sound(d) /\ Settles(s, d) /\ AllWait(s, d)
    BY DispatchSound, DispatchSettles
  <1> HIDE DEF d
  <1>2. Descended(d)
    BY <1>1, SettlesDescended
  <1>3. Sound(t) /\ Settles(d, t) /\ Ends(d, t)
    BY <1>1, <1>2, GarbageCollectionSound, GarbageCollectionSettles DEF GarbageCollected
  <1> HIDE DEF t
  <1>4. Settles(s, t) /\ Ends(s, t)
    BY <1>1, <1>3, SettlesTwice, EndsAfter
  <1> QED
    BY <1>3, <1>4 DEF d, t

\* A flag or a timer is taken back.
LEMMA DropOrdered ==
  ASSUME NEW s, Sound(s), Descended(s), NEW j \in Jobs, s.job[j].loaded, NEW q,
         \/ q = [s.job[j] EXCEPT !.flags = @ \ {"isActive"}]
         \/ q = [s.job[j] EXCEPT !.flags = @ \ {"priv_port_has_senders"}]
         \/ q = [s.job[j] EXCEPT !.timer = FALSE]
  PROVE  LET t == [s EXCEPT !.job[j] = q]
         IN  /\ Sound(t) /\ t.job[j].loaded /\ Descended(t)
             /\ \A u : Ordered(t, u) => Ordered(s, u)
  <1> DEFINE t == [s EXCEPT !.job[j] = q]
  <1>1. q \in Job /\ q.loaded /\ Keeps(j, s.job[j], q)
    BY DropFlags
  <1>2. s.job[j] \in Job
    BY JobFacts
  <1>3. \A f \in {"stopped", "dirty_at_shutdown", "shutdown_monitor"} :
          f \in q.flags <=> f \in s.job[j].flags
    BY <1>2 DEF Job
  <1>4. Sound(t) /\ t.job[j] = q
    <2>1. Sound(s) /\ j \in Jobs /\ q \in Job /\ Keeps(j, s.job[j], q)
      BY <1>1
    <2> QED
      BY ONLY <2>1, JobStep
  <1>5. t.job = [s.job EXCEPT ![j] = q] /\ t.mgr = s.mgr
    BY StateFields
  <1> HIDE DEF t
  <1>6. \A k \in Jobs \ {j} : t.job[k] = s.job[k]
    BY <1>5, StateFields
  <1>7. \A k \in Jobs : /\ Mon(s, k) <=> Mon(t, k)
                        /\ Has(t, k, "stopped") <=> Has(s, k, "stopped")
                        /\ Dirty(s, k) <=> Dirty(t, k)
    BY <1>3, <1>4, <1>6 DEF Mon, Dirty, Has
  <1>8. Descended(t)
    BY <1>5, <1>7 DEF Descended
  <1>9. \A u : Ordered(t, u) => Ordered(s, u)
    BY <1>7, SameJobsOrdered
  <1> QED
    BY <1>1, <1>4, <1>8, <1>9 DEF t

\* The handlers of events stop jobs in order.
LEMMA EventOrdered ==
  ASSUME Sound(sys), Descended(sys), NEW j \in Jobs, NEW late,
         \/ ProcEvent(j, late) \/ PortDestroyed(j, late) \/ NoSenders(j, late)
         \/ JobTimer(j, late)
  PROVE  Ordered(sys, sys') /\ Descended(sys')
  <1>1. sys.job \in [Jobs -> Job] /\ sys \in St
    BY StateFields DEF Sound
  <1>2. CASE ProcEvent(j, late)
    <2> DEFINE r == job_reap(sys, j)
               q == Reaped(sys.job[j])
               u == GarbageCollected(job_dispatch(r, j, FALSE, late), late)
    <2>1. sys.job[j].loaded
      BY <1>2, JobFacts DEF ProcEvent, Exited, Has
    <2>2. Sound(r) /\ r.job[j].loaded
      BY <2>1, ReapGood
    <2>3. Reaps(sys, r, j, q)
      BY <2>1, ReapIs
    <2>4. sys' = u
      BY <1>2 DEF ProcEvent
    <2> HIDE DEF r, q
    <2>5. r.job[j] = q /\ (\A k \in Jobs \ {j} : r.job[k] = sys.job[k]) /\ r.mgr = sys.mgr
      BY <1>1, <2>3 DEF Reaps
    <2>6. q.flags = sys.job[j].flags \ {"p", "shutdown_monitor"}
      BY <2>3 DEF Reaps
    <2>7. /\ \A k \in Jobs : /\ Dirty(r, k) <=> Dirty(sys, k)
                             /\ Has(r, k, "stopped") <=> Has(sys, k, "stopped")
                             /\ Mon(r, k) => Mon(sys, k)
          /\ \A k \in Jobs \ {j} : Mon(sys, k) => Mon(r, k)
          /\ ~Mon(r, j) /\ ~Has(r, j, "p")
      BY <2>5, <2>6 DEF Dirty, Mon, Has
    <2>8. Descended(r)
      BY <2>5, <2>7 DEF Descended
    <2>9. Sound(u) /\ Settles(r, u) /\ Ends(r, u)
      BY <2>2, <2>8, DispatchCollected
    <2> HIDE DEF u
    <2>10. Ordered(r, u) /\ Descended(u)
      BY <2>8, <2>9, SettlesOrdered, SettlesDescended
    <2>11. ASSUME NEW k \in Jobs, Mon(sys, k), u.mgr[Root].shutting_down,
                  Has(u, k, "stopped"), ~Has(sys, k, "stopped")
           PROVE  Alone(u, k)
      <3>1. CASE k # j
        BY <2>7, <2>9, <2>11, <3>1 DEF Ends
      <3>2. CASE k = j
        <4>1. Home[j] = Root
          BY <2>11, <3>2 DEF Sound, Monitored, Mon
        <4>2. ShuttingDown(r, j)
          BY <2>9, <2>11, <4>1, RootAssumption DEF Settles, ShuttingDown
        <4>3. u.job[j].loaded
          BY <2>9, <2>11, <3>2, JobFacts DEF Has
        <4>4. Fades(r, u, j)
          BY <2>9 DEF Settles
        <4>5. Has(r, j, "stopped") \/ Has(r, j, "p")
          BY <2>7, <2>11, <3>2, <4>2, <4>3, <4>4 DEF Fades
        <4> QED
          BY <2>7, <2>11, <3>2, <4>5
      <3> QED
        BY <3>1, <3>2
    <2>12. Ordered(sys, u)
      BY <2>7, <2>10, <2>11 DEF Ordered
    <2> QED
      BY <2>4, <2>10, <2>12
  <1>3. CASE PortDestroyed(j, late)
    <2> DEFINE q == [sys.job[j] EXCEPT !.flags = @ \ {"isActive"}]
               t == [sys EXCEPT !.job[j] = q]
               u == GarbageCollected(job_dispatch(t, j, FALSE, late), late)
    <2>1. sys.job[j].loaded
      BY <1>3, JobFacts DEF PortDestroyed, RightAway, Has
    <2>2. sys' = u
      <3>1. [sys EXCEPT !.job[j].flags = @ \ {"isActive"}] = t
        BY <1>1
      <3> QED
        BY <1>3, <3>1 DEF PortDestroyed
    <2>3. q = [sys.job[j] EXCEPT !.flags = @ \ {"isActive"}]
      OBVIOUS
    <2> HIDE DEF q
    <2>4. /\ Sound(t) /\ t.job[j].loaded /\ Descended(t)
          /\ \A x : Ordered(t, x) => Ordered(sys, x)
      BY <2>1, <2>3, DropOrdered
    <2> HIDE DEF t
    <2>5. Sound(u) /\ Settles(t, u) /\ Ends(t, u)
      BY <2>4, DispatchCollected
    <2> HIDE DEF u
    <2>6. Ordered(t, u) /\ Descended(u)
      BY <2>4, <2>5, SettlesOrdered, SettlesDescended
    <2> QED
      BY <2>2, <2>4, <2>6
  <1>4. CASE NoSenders(j, late)
    <2> DEFINE q == [sys.job[j] EXCEPT !.flags = @ \ {"priv_port_has_senders"}]
               t == [sys EXCEPT !.job[j] = q]
    <2>1. sys.job[j].loaded
      BY <1>4, JobFacts DEF NoSenders, Unsent, Has
    <2>2. sys' = job_dispatch(t, j, FALSE, late)
      <3>1. [sys EXCEPT !.job[j].flags = @ \ {"priv_port_has_senders"}] = t
        BY <1>1
      <3> QED
        BY <1>4, <3>1 DEF NoSenders
    <2>3. q = [sys.job[j] EXCEPT !.flags = @ \ {"priv_port_has_senders"}]
      OBVIOUS
    <2> HIDE DEF q
    <2>4. /\ Sound(t) /\ t.job[j].loaded /\ Descended(t)
          /\ \A x : Ordered(t, x) => Ordered(sys, x)
      BY <2>1, <2>3, DropOrdered
    <2> HIDE DEF t
    <2> QED
      BY <2>2, <2>4, DispatchOrdered
  <1>5. CASE JobTimer(j, late)
    <2> DEFINE q == [sys.job[j] EXCEPT !.timer = FALSE]
               t == [sys EXCEPT !.job[j] = q]
    <2>1. sys.job[j].loaded
      BY <1>5, JobFacts DEF JobTimer, TimerArmed
    <2>2. sys' = job_dispatch(t, j, TRUE, late)
      <3>1. [sys EXCEPT !.job[j].timer = FALSE] = t
        BY <1>1
      <3> QED
        BY <1>5, <3>1 DEF JobTimer
    <2>3. q = [sys.job[j] EXCEPT !.timer = FALSE]
      OBVIOUS
    <2> HIDE DEF q
    <2>4. /\ Sound(t) /\ t.job[j].loaded /\ Descended(t)
          /\ \A x : Ordered(t, x) => Ordered(sys, x)
      BY <2>1, <2>3, DropOrdered
    <2> HIDE DEF t
    <2> QED
      BY <2>2, <2>4, DispatchOrdered
  <1> QED
    BY <1>2, <1>3, <1>4, <1>5

\* The handlers of requests stop jobs in order, and what processes do.
LEMMA RequestOrdered ==
  ASSUME Sound(sys), Descended(sys), Sound(sys'), NEW j \in Jobs, NEW late, NEW val \in BOOLEAN,
         \/ StartCommand(j, late) \/ StopCommand(j) \/ RemoveCommand(j, late)
         \/ SwapGlobalOnDemand(j, val, late) \/ CheckIn(j) \/ ChildExits(j)
  PROVE  Ordered(sys, sys') /\ Descended(sys')
  <1> DEFINE t == sys'
             r == sys.job[j]
  <1>1. /\ sys.job \in [Jobs -> Job] /\ r \in Job
        /\ sys = [job |-> sys.job, mgr |-> sys.mgr, list |-> sys.list, monitor |-> sys.monitor,
                  stale |-> sys.stale]
    BY StateFields
  <1>2. CASE StartCommand(j, late)
    BY <1>2, DispatchOrdered DEF StartCommand, job_find
  <1>3. CASE SwapGlobalOnDemand(j, val, late)
    <2>1. /\ "globalOnDemand" \in Stimuli /\ Has(sys, j, "p")
          /\ t = job_set_global_on_demand(sys, j, val, late)
      BY <1>3 DEF SwapGlobalOnDemand
    <2>2. sys.job[j].loaded
      BY <2>1, JobFacts DEF Has
    <2>3. Settles(sys, t) /\ AllWait(sys, t)
      BY <2>1, <2>2, SetModeSettles
    <2> HIDE DEF t
    <2>4. Ordered(sys, t) /\ Descended(t)
      BY <2>3, SettlesOrdered, SettlesDescended DEF t
    <2> QED
      BY <2>4 DEF t
  <1>4. CASE RemoveCommand(j, late) /\ ~Has(sys, j, "p")
    <2>1. sys.job[j].loaded /\ t = job_remove(sys, j, late)
      BY <1>4 DEF RemoveCommand, job_find
    <2>2. Settles(sys, t) /\ AllWait(sys, t)
      BY <1>4, <2>1, RemoveSettles
    <2> HIDE DEF t
    <2>3. Ordered(sys, t) /\ Descended(t)
      BY <2>2, SettlesOrdered, SettlesDescended DEF t
    <2> QED
      BY <2>3 DEF t
  <1>5. ASSUME NEW q, t = [sys EXCEPT !.job[j] = q],
               "dirty_at_shutdown" \in q.flags <=> Dirty(sys, j),
               "shutdown_monitor" \in q.flags => Mon(sys, j),
               "stopped" \in q.flags => Has(sys, j, "stopped") \/ ~ShuttingDown(sys, j)
        PROVE  Ordered(sys, t) /\ Descended(t)
    <2> HIDE DEF t
    <2>1. t.job = [sys.job EXCEPT ![j] = q] /\ t.mgr = sys.mgr
      BY <1>1, <1>5
    <2> QED
      BY <1>5, <2>1, OneJobOrdered
  <1>6. CASE RemoveCommand(j, late) /\ Has(sys, j, "p")
    <2> DEFINE q == [r EXCEPT !.flags = @ \cup {"removal_pending", "stopped"}]
    <2>1. sys.job[j].loaded /\ ~ShuttingDown(sys, j) /\ t = job_remove(sys, j, late)
      BY <1>6 DEF RemoveCommand, job_find
    <2>2. t = [sys EXCEPT !.job[j] = q]
      BY <1>6, <2>1, RemoveRunning
    <2>3. q.flags = r.flags \cup {"removal_pending", "stopped"}
      BY <1>1 DEF Job
    <2> HIDE DEF q, t
    <2>4. /\ "dirty_at_shutdown" \in q.flags <=> Dirty(sys, j)
          /\ "shutdown_monitor" \in q.flags => Mon(sys, j)
      BY <2>3 DEF Dirty, Mon, Has
    <2>5. Ordered(sys, t) /\ Descended(t)
      BY <1>5, <2>1, <2>2, <2>4
    <2> QED
      BY <2>5 DEF t
  <1>7. CASE StopCommand(j)
    <2> DEFINE q == job_stop(r)
    <2>1. ~ShuttingDown(sys, j) /\ t = [sys EXCEPT !.job[j] = q]
      BY <1>7 DEF StopCommand, job_find
    <2>2. q.flags = r.flags \/ q.flags = r.flags \cup {"stopped"}
      BY <1>1 DEF job_stop, Job
    <2> HIDE DEF q, t
    <2>3. /\ "dirty_at_shutdown" \in q.flags <=> Dirty(sys, j)
          /\ "shutdown_monitor" \in q.flags => Mon(sys, j)
      BY <2>2 DEF Dirty, Mon, Has
    <2>4. Ordered(sys, t) /\ Descended(t)
      BY <1>5, <2>1, <2>3
    <2> QED
      BY <2>4 DEF t
  <1>8. CASE CheckIn(j)
    <2> DEFINE q == [r EXCEPT !.flags = @ \cup {"isActive"}]
    <2>1. t = [sys EXCEPT !.job[j] = q]
      <3>1. Set(sys, j, "isActive") = [sys EXCEPT !.job[j] = q]
        BY <1>1 DEF Set
      <3> QED
        BY <1>8, <3>1 DEF CheckIn
    <2>2. q.flags = r.flags \cup {"isActive"}
      BY <1>1 DEF Job
    <2> HIDE DEF q, t
    <2>3. /\ "dirty_at_shutdown" \in q.flags <=> Dirty(sys, j)
          /\ "shutdown_monitor" \in q.flags => Mon(sys, j)
          /\ "stopped" \in q.flags => Has(sys, j, "stopped")
      BY <2>2 DEF Dirty, Mon, Has
    <2>4. Ordered(sys, t) /\ Descended(t)
      BY <1>5, <2>1, <2>3
    <2> QED
      BY <2>4 DEF t
  <1>9. CASE ChildExits(j)
    <2> DEFINE c == IF Has(sys, j, "p") THEN "zombie" ELSE "none"
               q == [r EXCEPT !.child = c]
    <2>1. t = [sys EXCEPT !.job[j] = q]
      <3>1. [sys EXCEPT !.job[j].child = c] = [sys EXCEPT !.job[j] = q]
        BY <1>1
      <3> QED
        BY <1>9, <3>1 DEF ChildExits
    <2>2. q.flags = r.flags
      BY <1>1 DEF Job
    <2> HIDE DEF q, t
    <2>3. /\ "dirty_at_shutdown" \in q.flags <=> Dirty(sys, j)
          /\ "shutdown_monitor" \in q.flags => Mon(sys, j)
          /\ "stopped" \in q.flags => Has(sys, j, "stopped")
      BY <2>2 DEF Dirty, Mon, Has
    <2>4. Ordered(sys, t) /\ Descended(t)
      BY <1>5, <2>1, <2>3
    <2> QED
      BY <2>4 DEF t
  <1> QED
    BY <1>2, <1>3, <1>4, <1>6, <1>7, <1>8, <1>9

\* job_import() stops no job.
LEMMA ImportOrdered ==
  ASSUME Sound(sys), Descended(sys), Sound(sys'), NEW j \in Jobs, NEW late, Import(j, late)
  PROVE  Ordered(sys, sys') /\ Descended(sys')
  <1> DEFINE q   == job_new(sys, j)
             new == Imported(j)
             t   == job_dispatch_curious_jobs(new, j, late)
             u   == job_dispatch(t, j, FALSE, late)
  <1>1. /\ q.loaded
        /\ "shutdown_monitor" \in q.flags => "ShutdownMonitor" \in Traits[j]
        /\ "dirty_at_shutdown" \in q.flags => "BeginTransactionAtShutdown" \in Traits[j]
        /\ q.flags \subseteq {"priv_port_has_senders", "dirty_at_shutdown", "shutdown_monitor"}
        /\ Sound(new) /\ new.mgr = sys.mgr /\ new.job[j] = q
        /\ \A k \in Jobs \ {j} : new.job[k] = sys.job[k]
    BY ImportedSound DEF Import
  <1>2. sys' = IF "legacy_mach_job" \in Traits[j] THEN new ELSE u
    BY DEF Import, Imported
  <1>3. sys.job[j].flags = {}
    BY DEF Import, Sound, Housed
  <1> HIDE DEF q, new
  <1>4. \A k \in Jobs : /\ Mon(sys, k) => Mon(new, k)
                        /\ Has(new, k, "stopped") => Has(sys, k, "stopped")
                        /\ Dirty(sys, k) => Dirty(new, k)
    BY <1>1, <1>3 DEF Mon, Dirty, Has
  <1>5. Descended(new)
    BY <1>1 DEF Descended, Mon, Dirty, Has
  <1>6. Settles(new, new) /\ AllWait(new, new)
    BY SettlesSame
  <1>7. Settles(new, u) /\ AllWait(new, u) /\ Sound(u)
    <2>1. Sound(t) /\ t.job[j].loaded
      BY <1>1, CuriousSound DEF Dispatches
    <2>2. Settles(new, t) /\ AllWait(new, t)
      <3>1. Curious(new, j) \in SUBSET Loaded(new)
        BY DEF Curious
      <3> QED
        BY <1>1, <3>1, DispatchJobsSettles DEF job_dispatch_curious_jobs
    <2> HIDE DEF t
    <2>3. Descended(t)
      BY <1>5, <2>2, SettlesDescended
    <2>4. Settles(t, u) /\ AllWait(t, u) /\ Sound(u)
      BY <2>1, <2>3, DispatchSettles, DispatchSound
    <2> HIDE DEF u
    <2> QED
      BY <1>5, <2>2, <2>4, SettlesTwice, WaitsTwice
  <1> HIDE DEF u
  <1>8. Ordered(new, new) /\ Ordered(new, u) /\ Descended(u)
    BY <1>1, <1>5, <1>6, <1>7, SettlesOrdered, SettlesDescended
  <1>9. Ordered(sys, new) /\ Ordered(sys, u)
    BY <1>4, <1>8, SameJobsOrdered
  <1> QED
    BY <1>2, <1>5, <1>8, <1>9

\* job_mig_subset() stops no job, and the new manager is below the root.
LEMMA SubsetOrdered ==
  ASSUME Sound(sys), Descended(sys), NEW m \in Mgrs, Subset(m)
  PROVE  Ordered(sys, sys') /\ Descended(sys')
  <1> DEFINE t == sys'
  <1>1. /\ m # Root /\ sys.mgr[Parent[m]].exists /\ Parent[m] \in Mgrs
        /\ t = [sys EXCEPT !.mgr[m] = jobmgr_new]
    BY ParentAssumption DEF Subset
  <1> HIDE DEF t
  <1>2. t.job = sys.job /\ t.mgr = [sys.mgr EXCEPT ![m] = jobmgr_new] /\ sys.mgr \in [Mgrs -> Mgr]
    BY <1>1, StateFields
  <1>3. \A k \in Jobs : /\ Dirty(t, k) <=> Dirty(sys, k)
                        /\ Mon(t, k) <=> Mon(sys, k)
                        /\ Has(t, k, "stopped") <=> Has(sys, k, "stopped")
    BY <1>2 DEF Dirty, Mon, Has
  <1>4. Root \in Up[m]
    <2>1. Parent[m] \in Down(Root)
      BY <1>1 DEF Descended, Down
    <2>2. m \in Down(Root)
      BY <1>1, <2>1, UpParent, RootAssumption
    <2> QED
      BY <2>2 DEF Down
  <1>5. Descended(t)
    BY <1>2, <1>3, <1>4 DEF Descended
  <1>6. Ordered(sys, t)
    BY <1>3 DEF Ordered
  <1> QED
    BY <1>5, <1>6 DEF t

\* Every handler stops jobs in order.
LEMMA NextOrdered ==
  IInv /\ IInv' /\ Descended(sys) /\ [Next]_sys => Ordered(sys, sys') /\ Descended(sys')
  <1> SUFFICES ASSUME Sound(sys), Steady(sys), Sound(sys'), Descended(sys), [Next]_sys
               PROVE  Ordered(sys, sys') /\ Descended(sys')
    BY DEF IInv
  <1>1. ASSUME NEW late \in SUBSET Later, Shutdown(late)
        PROVE  Ordered(sys, sys') /\ Descended(sys')
    BY <1>1, ShutdownOrdered, RootAssumption DEF Shutdown
  <1>2. ASSUME NEW m \in Mgrs, NEW late \in SUBSET Later, RequestPortDied(m, late)
        PROVE  Ordered(sys, sys') /\ Descended(sys')
    <2> DEFINE t == [sys EXCEPT !.mgr[m].req_port = FALSE]
               u == jobmgr_shutdown(t, m, late)
    <2>1. /\ Sound(t) /\ Steady(t) /\ t.job = sys.job
          /\ \A n \in Mgrs : t.mgr[n].exists => sys.mgr[n].exists
      BY PortGone
    <2>2. sys' = u
      BY <1>2 DEF RequestPortDied
    <2> HIDE DEF t
    <2>3. \A k \in Jobs : /\ Dirty(t, k) <=> Dirty(sys, k)
                          /\ Mon(t, k) <=> Mon(sys, k)
                          /\ Has(t, k, "stopped") <=> Has(sys, k, "stopped")
      BY <2>1 DEF Dirty, Mon, Has
    <2>4. Descended(t)
      BY <2>1, <2>3 DEF Descended
    <2>5. Ordered(t, u) /\ Descended(u)
      BY <2>1, <2>4, ShutdownOrdered
    <2> HIDE DEF u
    <2>6. Ordered(sys, u)
      BY <2>3, <2>5, SameJobsOrdered
    <2> QED
      BY <2>2, <2>5, <2>6
  <1>3. ASSUME NEW j \in Jobs, NEW late \in SUBSET Later, NEW val \in BOOLEAN,
               \/ StartCommand(j, late) \/ RemoveCommand(j, late)
               \/ SwapGlobalOnDemand(j, val, late)
        PROVE  Ordered(sys, sys') /\ Descended(sys')
    BY <1>3, RequestOrdered
  <1>4. ASSUME NEW j \in Jobs, StopCommand(j) \/ CheckIn(j) \/ ChildExits(j)
        PROVE  Ordered(sys, sys') /\ Descended(sys')
    BY <1>4, RequestOrdered
  <1>5. CASE UNCHANGED sys
    <2> DEFINE t == sys'
    <2>1. t = sys
      BY <1>5
    <2> HIDE DEF t
    <2>2. Ordered(sys, t) /\ Descended(t)
      BY <2>1 DEF Ordered
    <2> QED
      BY <2>2 DEF t
  <1> QED
    BY <1>1, <1>2, <1>3, <1>4, <1>5, ImportOrdered, EventOrdered, SubsetOrdered DEF Next

\* launchd starts with the root manager and no jobs.
LEMMA InitDescended == Init => Descended(sys)
  <1> SUFFICES ASSUME Init PROVE Descended(sys)
    OBVIOUS
  <1>1. \A j \in Jobs : sys.job[j].flags = {}
    BY DEF Init, NotLoaded
  <1>2. ASSUME NEW m \in Mgrs, sys.mgr[m].exists
        PROVE  m = Root
    <2> DEFINE e == (m = Root)
    <2>1. sys.mgr[m] = [jobmgr_new EXCEPT !.exists = e]
      BY DEF Init
    <2> HIDE DEF e
    <2>2. sys.mgr[m].exists = e
      BY <2>1 DEF jobmgr_new
    <2> QED
      BY <1>2, <2>2 DEF e
  <1>3. Root \in Up[Root]
    BY UpReflexive, RootAssumption
  <1> QED
    BY <1>1, <1>2, <1>3 DEF Descended, Dirty, Mon, Has

\* A shutdown stops the monitor only when no other job and no other manager is
\* left, and holds the processes dirty that can be held so until the normal
\* jobs of their manager have exited, whatever is imported, started, removed or
\* exits meanwhile (jobmgr_do_garbage_collection, job_open_shutdown_transaction,
\* jobmgr_shutdown).
THEOREM StopsInOrder == Spec => StopOrder
  <1> DEFINE Stop == \A j \in Jobs :
                        /\ Has(sys, j, "shutdown_monitor") /\ sys'.mgr[Root].shutting_down
                        /\ Has(sys', j, "stopped") /\ ~Has(sys, j, "stopped")
                        => /\ Loaded(sys') = {j}
                           /\ \A m \in Mgrs \ {Root} : ~sys'.mgr[m].exists
             Close == \A j \in Jobs :
                        /\ Has(sys, j, "dirty_at_shutdown") /\ ~Has(sys', j, "dirty_at_shutdown")
                        /\ Has(sys', j, "p") /\ sys'.job[j].child = "up" /\ "InstantOff" \in Traits[j]
                        => \A k \in Loaded(sys') \ {j} :
                             /\ Home[k] = Home[j]
                             /\ {"BeginTransactionAtShutdown", "ShutdownMonitor"} \cap Traits[k] = {}
                             => ~job_active(sys', k)
  <1>1. Init => Descended(sys)
    BY InitDescended
  <1>2. IInv /\ IInv' /\ Descended(sys) /\ [Next]_sys => Descended(sys)'
    BY NextOrdered
  <1>3. IInv /\ IInv' /\ Descended(sys) /\ [Next]_sys => [Stop]_sys /\ [Close]_sys
    <2>1. Ordered(sys, sys') => Stop /\ Close
      BY DEF Ordered, Alone, Last, Mon, Dirty, Live
    <2> QED
      BY <2>1, NextOrdered
  <1>4. MonitorLast <=> [][Stop]_sys
    BY PTL DEF MonitorLast
  <1>5. DirtyLast <=> [][Close]_sys
    BY PTL DEF DirtyLast
  <1> QED
    BY <1>1, <1>2, <1>3, <1>4, <1>5, AlwaysGood, PTL DEF Spec, StopOrder
=============================================================================
