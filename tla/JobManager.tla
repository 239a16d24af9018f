----------------------------- MODULE JobManager -----------------------------
(***************************************************************************)
(* The tree of job managers of launchd (src/src/core.c) and what jobs do   *)
(* to each other: shutdown and its garbage collection, transactions held   *)
(* over the shutdown, the shutdown monitor, OtherJobEnabled conditions,    *)
(* global on-demand mode and removal.                                      *)
(*                                                                         *)
(* A job is reduced to what others see of it; JobLifecycle has the rest.   *)
(* As there, a handler is one action, and a C function is an operator, now *)
(* from the whole state s to the next one.  late is the set of jobs whose  *)
(* start is put off (a throttled respawn or a failed fork).                *)
(***************************************************************************)
EXTENDS Integers, FiniteSets

CONSTANTS
  Jobs, Mgrs, Root,
  NoJob,          \* NULL
  Parent,         \* the parent of each manager but the root
  Home,           \* the manager each job is imported into
  Traits,         \* the keys of each job
  OtherEnabled,   \* the labels in its OtherJobEnabled whose value is true
  OtherDisabled,  \* and those whose value is false
  Later,          \* bound: the jobs whose start may be put off
  Stimuli         \* bound: the requests and outside events that occur

AllTraits ==
  {"KeepAlive", "MachServices", "legacy_mach_job", "ShutdownMonitor",
   "BeginTransactionAtShutdown",
   "InstantOff"}   \* proc_set_dirty() works on its process

AllStimuli ==
  {"start", "stop", "remove", "globalOnDemand", "subset", "logout", "shutdown"}

ASSUME RootAssumption    == Root \in Mgrs /\ NoJob \notin Jobs
ASSUME FiniteAssumption  == IsFiniteSet(Jobs)
ASSUME ParentAssumption  == Parent \in [Mgrs \ {Root} -> Mgrs]
ASSUME HomeAssumption    == Home \in [Jobs -> Mgrs]
ASSUME TraitsAssumption  == Traits \in [Jobs -> SUBSET AllTraits]
ASSUME OtherAssumption   == /\ OtherEnabled  \in [Jobs -> SUBSET Jobs]
                            /\ OtherDisabled \in [Jobs -> SUBSET Jobs]
ASSUME LaterAssumption   == Later \subseteq Jobs
ASSUME StimuliAssumption == Stimuli \subseteq AllStimuli
\* Only a job of the system's root manager monitors the shutdown
ASSUME MonitorAssumption ==
  \A j \in Jobs : "ShutdownMonitor" \in Traits[j] => Home[j] = Root

\* Bound: a legacy server declares no services
ASSUME LegacyAssumption ==
  \A j \in Jobs : "legacy_mach_job" \in Traits[j] => Traits[j] = {"legacy_mach_job"}
\* launchd picks the label of a legacy server (AUTO_PICK_LEGACY_LABEL, with an
\* address in it), which no property list names
ASSUME LabelAssumption ==
  \A j \in Jobs : \A k \in OtherEnabled[j] \cup OtherDisabled[j] :
    "legacy_mach_job" \notin Traits[k]
\* Bound: only jobs of the root manager are curious about others
ASSUME CuriousAssumption ==
  \A j \in Jobs : Home[j] # Root => OtherEnabled[j] = {} /\ OtherDisabled[j] = {}

VARIABLE sys   \* jobs, managers and launchd's globals

\* The managers above m and itself, and those below m and itself
Up ==
  [m \in Mgrs |-> {n \in Mgrs : \A C \in SUBSET Mgrs :
                    m \in C /\ (\A k \in C \ {Root} : Parent[k] \in C) => n \in C}]
Down(m) == {n \in Mgrs : m \in Up[n]}

\* The function f.  (TLC tabulates a function that it compares; it would
\* otherwise evaluate it anew at each application.)
Table(f) == IF f = f THEN f ELSE f

-----------------------------------------------------------------------------
(* The state.                                                              *)

Flag ==
  {"p",                       \* the pid is not zero
   "priv_port_has_senders",
   "isActive",                \* of its service: the receive right is away
   "stopped", "removal_pending",
   "forced_peers_to_demand_mode", "dirty_at_shutdown", "shutdown_monitor"}

Job == [loaded : BOOLEAN,                     \* on its manager's list
        flags  : SUBSET Flag,
        child  : {"none", "up", "zombie"},
        timer  : BOOLEAN,                     \* EVFILT_TIMER on the job
        txn    : BOOLEAN]                     \* launchd holds its process dirty

Mgr == [exists : BOOLEAN, shutting_down : BOOLEAN, req_port : BOOLEAN,
        shutdown_jobs_dirtied : BOOLEAN, shutdown_jobs_cleaned : BOOLEAN,
        global_on_demand_cnt : Nat]

Has(s, j, f) == f \in s.job[j].flags
Set(s, j, f) == [s EXCEPT !.job[j].flags = @ \cup {f}]
Loaded(s)    == {j \in Jobs : s.job[j].loaded}
Among(l, K)  == l \cap (K \X K)      \* the list once only the jobs K are on it
ShuttingDown(s, j) == s.mgr[Home[j]].shutting_down

NotLoaded ==
  [loaded |-> FALSE, flags |-> {}, child |-> "none", timer |-> FALSE, txn |-> FALSE]

\* job_new() and the import of the keys; "Only one job may monitor shutdown"
job_new(s, j) ==
  [NotLoaded EXCEPT
     !.loaded = TRUE,
     !.flags  = {f \in {"priv_port_has_senders", "dirty_at_shutdown", "shutdown_monitor"} :
                   \/ f = "priv_port_has_senders" /\ "legacy_mach_job" \in Traits[j]
                   \/ f = "dirty_at_shutdown" /\ "BeginTransactionAtShutdown" \in Traits[j]
                   \/ f = "shutdown_monitor" /\ "ShutdownMonitor" \in Traits[j]
                      /\ s.monitor = NoJob}]

jobmgr_new ==
  [exists |-> TRUE, shutting_down |-> FALSE, req_port |-> TRUE,
   shutdown_jobs_dirtied |-> FALSE, shutdown_jobs_cleaned |-> FALSE,
   global_on_demand_cnt |-> 0]

-----------------------------------------------------------------------------
(* Predicates of core.c.                                                   *)

job_active(s, j) ==
  s.job[j].flags \cap {"p", "priv_port_has_senders", "isActive"} # {}

job_useless(s, j) ==
  \/ Has(s, j, "removal_pending")
  \/ /\ ~Has(s, j, "shutdown_monitor")
     /\ \/ ShuttingDown(s, j) /\ Home[j] = Root
        \/ "legacy_mach_job" \in Traits[j]

job_find(s, j) ==
  s.job[j].loaded /\ ~Has(s, j, "removal_pending") /\ ~ShuttingDown(s, j)

job_keepalive(s, j) ==
  /\ ~ShuttingDown(s, j)
  /\ s.mgr[Home[j]].global_on_demand_cnt = 0
  /\ \/ "KeepAlive" \in Traits[j]
     \/ \E k \in OtherEnabled[j]  : job_find(s, k)
     \/ \E k \in OtherDisabled[j] : ~job_find(s, k)

-----------------------------------------------------------------------------
(* One job.                                                                *)

freed(r) == [NotLoaded EXCEPT !.child = r.child]

started(r, late) ==
  IF late THEN [r EXCEPT !.timer = TRUE]
  ELSE [r EXCEPT !.flags = (@ \ {"stopped"}) \cup {"p"}, !.child = "up"]

job_stop(r) ==
  IF "p" \in r.flags THEN [r EXCEPT !.flags = @ \cup {"stopped"}] ELSE r

\* job_dispatch() on a job that holds nobody in on-demand mode
dispatched(s, j, kickstart, late) ==
  IF job_active(s, j) THEN s.job[j]
  ELSE IF job_useless(s, j) THEN freed(s.job[j])
  ELSE IF kickstart \/ job_keepalive(s, j) THEN started(s.job[j], j \in late)
  ELSE s.job[j]

-----------------------------------------------------------------------------
(* Jobs and their peers.                                                   *)

\* The managers once the jobs F are freed: each gives up the on-demand mode it
\* asked for (in a manager shutting down, which dispatches nobody for it)
released(s, F) ==
  Table([m \in Mgrs |-> [s.mgr[m] EXCEPT !.global_on_demand_cnt = @ - Cardinality(
           {j \in F : Home[j] = m /\ Has(s, j, "forced_peers_to_demand_mode")})]])

\* The jobs of K dispatched one after the other: none looks at another's pid
DispatchJobs(s, K, late) ==
  LET js == Table([k \in Jobs |-> IF k \in K THEN dispatched(s, k, FALSE, late)
                                  ELSE s.job[k]])
  IN  [s EXCEPT !.job  = js,
                !.list = Among(@, {k \in Jobs : js[k].loaded}),
                !.mgr  = released(s, {k \in K : ~js[k].loaded})]

Curious(s, j) == {k \in Loaded(s) \ {j} : j \in OtherEnabled[k] \cup OtherDisabled[k]}

\* (mutant) nobody is told
job_dispatch_curious_jobs_silent(s, j, late) == s

job_dispatch_curious_jobs(s, j, late) == DispatchJobs(s, Curious(s, j), late)

\* A manager shutting down, and what is below it, is left alone
jobmgr_dispatch_all(s, m, late) ==
  DispatchJobs(s, {k \in Loaded(s) : /\ Home[k] \in Down(m)
                                     /\ \A n \in Up[Home[k]] \cap Down(m) :
                                          ~s.mgr[n].shutting_down}, late)

\* The mode of the manager, for val: when nobody asks for it any more all
\* jobs are dispatched
force_peers(s, j, val, late) ==
  LET m   == Home[j]
      cnt == IF val THEN s.mgr[m].global_on_demand_cnt + 1
                    ELSE s.mgr[m].global_on_demand_cnt - 1
      t   == [s EXCEPT !.mgr[m].global_on_demand_cnt = cnt,
                       !.job[j].flags = IF val THEN @ \cup {"forced_peers_to_demand_mode"}
                                        ELSE @ \ {"forced_peers_to_demand_mode"}]
  IN  IF cnt = 0 THEN jobmgr_dispatch_all(t, m, late) ELSE t

job_set_global_on_demand(s, j, val, late) ==
  IF Has(s, j, "forced_peers_to_demand_mode") = val THEN s
  ELSE force_peers(s, j, val, late)

\* The second half of job_remove().  The job may have been freed meanwhile,
\* by a dispatch of all jobs that this removal caused.
job_free(s, j) ==
  [s EXCEPT !.job[j]  = freed(@),
            !.list    = Among(@, Jobs \ {j}),
            !.monitor = IF @ = j THEN NoJob ELSE @,
            !.stale   = @ \/ ~s.job[j].loaded]

\* (mutant) the peers stay in on-demand mode
job_remove_keeps_mode(s, j, late) ==
  IF ~Has(s, j, "p") THEN job_free(job_dispatch_curious_jobs(s, j, late), j)
  ELSE [Set(s, j, "removal_pending") EXCEPT !.job[j] = job_stop(@)]

job_remove(s, j, late) ==
  IF Has(s, j, "p")
  THEN [Set(s, j, "removal_pending") EXCEPT !.job[j] = job_stop(@)]
  ELSE LET told == job_dispatch_curious_jobs(s, j, late)
       IN  job_free(job_set_global_on_demand(told, j, FALSE, late), j)

job_dispatch(s, j, kickstart, late) ==
  IF ~job_active(s, j) /\ job_useless(s, j) THEN job_remove(s, j, late)
  ELSE [s EXCEPT !.job[j] = dispatched(s, j, kickstart, late)]

job_reap(s, j) ==
  [s EXCEPT !.job[j].flags = @ \ {"p", "shutdown_monitor"},
            !.job[j].child = "none",
            !.job[j].txn   = FALSE,
            !.monitor      = IF Has(s, j, "shutdown_monitor") THEN NoJob ELSE @]

-----------------------------------------------------------------------------
(* Shutdown.                                                               *)

\* job_open_shutdown_transaction(), on the first pass of a manager
opened(s, j) ==
  LET r == s.job[j] IN
  IF ~Has(s, j, "dirty_at_shutdown") \/ s.mgr[Home[j]].shutdown_jobs_dirtied THEN r
  ELSE IF Has(s, j, "p") /\ r.child = "up" /\ "InstantOff" \in Traits[j]
       THEN [r EXCEPT !.txn = TRUE]
  ELSE [r EXCEPT !.flags = @ \ {"dirty_at_shutdown"}]

\* job_close_shutdown_transaction()
closed(r) == [r EXCEPT !.txn = FALSE, !.flags = @ \ {"dirty_at_shutdown"}]

\* The jobs of m that a collection looks at
Collected(s, m) == {j \in Loaded(s) : Home[j] = m /\ ~Has(s, j, "shutdown_monitor")}

\* Was the job that follows j on its manager's list, where the loop has already
\* taken a pointer to it, freed because it was curious about j?
NextFreed(s, j, Idle) ==
  LET l == Among(s.list, {k \in Jobs : Home[k] = Root})
  IN  \E k \in Idle \cap Curious(s, j) :
        <<j, k>> \in l /\ ~(\E i \in Jobs : {<<j, i>>, <<i, k>>} \subseteq l)

\* The loop over the jobs of the managers T: inactive ones are removed, and
\* the others told to stop
collect_jobs(s, T, late) ==
  LET K    == UNION {Collected(s, m) : m \in T}
      Idle == {j \in K : ~job_active(s, j)}
      js   == Table([j \in Jobs |-> IF j \in Idle THEN freed(s.job[j])
                                    ELSE IF j \in K THEN job_stop(opened(s, j))
                                    ELSE s.job[j]])
      t    == [s EXCEPT
                 !.job   = js,
                 !.list  = Among(@, {j \in Jobs : js[j].loaded}),
                 !.stale = @ \/ \E j \in Idle : NextFreed(s, j, Idle),
                 !.mgr   = Table([m \in Mgrs |->
                    [released(s, Idle)[m] EXCEPT !.shutdown_jobs_dirtied = @ \/ m \in T]])]
  IN  DispatchJobs(t, UNION {Curious(t, j) : j \in Idle}, late)

Actives(s, m) ==
  {j \in Collected(s, m) : job_active(s, j) /\ ~Has(s, j, "dirty_at_shutdown")}

\* (mutant) the transactions are closed on the first pass
Cleans_at_once(s, m) == ~s.mgr[m].shutdown_jobs_cleaned

\* Once its normal jobs have exited a manager closes the transactions of the
\* dirty ones
Cleans(s, m) == Actives(s, m) = {} /\ ~s.mgr[m].shutdown_jobs_cleaned

clean_jobs(s, T) ==
  [s EXCEPT
     !.job = Table([j \in Jobs |->
                IF /\ Home[j] \in T /\ Cleans(s, Home[j])
                   /\ j \in Collected(s, Home[j]) /\ job_active(s, j)
                   /\ Has(s, j, "dirty_at_shutdown")
                THEN closed(@[j]) ELSE @[j]]),
     !.mgr = Table([m \in Mgrs |->
                IF m \in T /\ Cleans(s, m)
                THEN [@[m] EXCEPT !.shutdown_jobs_cleaned = TRUE] ELSE @[m]])]

\* No job of m is active any more, dirty ones included
Quiet(s, m) == \A j \in Collected(s, m) : ~job_active(s, j)

Children(s, m) == {n \in Mgrs \ {Root} : s.mgr[n].exists /\ Parent[n] = m}

\* The managers that the collection removes, leaves first: those that are
\* quiet, like all managers below them
Removable(s, T) ==
  UNION {S \in SUBSET T :
           \A m \in S : /\ Quiet(s, m) /\ Children(s, m) \subseteq S
                        /\ m = Root => s.monitor = NoJob}

\* jobmgr_remove()
remove_managers(s, R) ==
  [s EXCEPT !.job  = Table([j \in Jobs |-> IF @[j].loaded /\ Home[j] \in R
                                           THEN freed(@[j]) ELSE @[j]]),
            !.list = Among(@, {j \in Jobs : Home[j] \notin R}),
            !.mgr  = Table([m \in Mgrs |-> IF m \in R
                                           THEN [jobmgr_new EXCEPT !.exists = FALSE]
                                           ELSE @[m]])]

\* When nobody else is left the monitor becomes a normal job and is stopped
stop_monitor(s, T) ==
  IF Root \in T /\ Quiet(s, Root) /\ Children(s, Root) = {} /\ s.monitor # NoJob
  THEN LET normal == [s.job[s.monitor] EXCEPT !.flags = @ \ {"shutdown_monitor"}]
       IN  [s EXCEPT !.job[s.monitor] = job_stop(normal), !.monitor = NoJob]
  ELSE s

\* The root, looked at last, is not removed on the pass that stops the monitor
jobmgr_do_garbage_collection(s, D, late) ==
  LET T   == {m \in D : s.mgr[m].exists /\ s.mgr[m].shutting_down}
      t   == clean_jobs(collect_jobs(s, T, late), T)
  IN  stop_monitor(remove_managers(t, Removable(t, T)), T)

jobmgr_shutdown(s, m, late) ==
  LET down == [s EXCEPT !.mgr = Table([n \in Mgrs |->
                  IF n \in Down(m) /\ @[n].exists
                  THEN [@[n] EXCEPT !.shutting_down = TRUE] ELSE @[n]])]
      subs == jobmgr_do_garbage_collection(down, Down(m) \ {m}, late)
      mon  == IF m = Root /\ subs.monitor # NoJob
              THEN job_dispatch(subs, subs.monitor, TRUE, late) ELSE subs
  IN  jobmgr_do_garbage_collection(mon, Down(m), late)

-----------------------------------------------------------------------------
(* Handlers.                                                               *)

Init ==
  sys = [job     |-> [j \in Jobs |-> NotLoaded],
         mgr     |-> [m \in Mgrs |-> [jobmgr_new EXCEPT !.exists = (m = Root)]],
         list    |-> {},        \* <<j, k>>: j was imported after k, and is before it on a list
         monitor |-> NoJob,     \* _launchd_shutdown_monitor
         stale   |-> FALSE]     \* freed memory was used

\* launchd has not rebooted or exited, nor used freed memory, after which
\* nothing is said of it
Running == sys.mgr[Root].exists /\ ~sys.stale

\* What the handlers of events wait for
Exited(j)     == Running /\ Has(sys, j, "p") /\ sys.job[j].child = "zombie"
RightAway(j)  == Running /\ Has(sys, j, "isActive")
Unsent(j)     == Running /\ Has(sys, j, "priv_port_has_senders")
TimerArmed(j) == Running /\ sys.job[j].timer
Alive(j)      == Running /\ sys.job[j].child = "up"

GarbageCollected(s, late) == jobmgr_do_garbage_collection(s, Mgrs, late)

\* job_import(), or bootstrap_create_server() for a legacy server.  (Bound: not
\* again while a process it left behind is alive.)
Import(j, late) ==
  /\ Running
  /\ ~sys.job[j].loaded /\ sys.job[j].child = "none"
  /\ sys.mgr[Home[j]].exists /\ ~ShuttingDown(sys, j)
  /\ LET new == [sys EXCEPT !.job[j]  = job_new(sys, j),
                            !.list    = @ \cup ({j} \X Loaded(sys)),
                            !.monitor = IF "shutdown_monitor" \in job_new(sys, j).flags
                                        THEN j ELSE @]
     IN  sys' = IF "legacy_mach_job" \in Traits[j] THEN new
                ELSE job_dispatch(job_dispatch_curious_jobs(new, j, late), j, FALSE, late)

StartCommand(j, late) ==
  /\ "start" \in Stimuli
  /\ Running /\ job_find(sys, j)
  /\ sys' = job_dispatch(sys, j, TRUE, late)

StopCommand(j) ==
  /\ "stop" \in Stimuli
  /\ Running /\ job_find(sys, j)
  /\ sys' = [sys EXCEPT !.job[j] = job_stop(@)]

RemoveCommand(j, late) ==
  /\ "remove" \in Stimuli
  /\ Running /\ job_find(sys, j)
  /\ sys' = job_remove(sys, j, late)

\* (mutant) no collection follows
ProcEvent_only(j, late) ==
  /\ Exited(j)
  /\ sys' = job_dispatch(job_reap(sys, j), j, FALSE, late)

\* NOTE_EXIT: job_callback_proc(), then the collection
ProcEvent(j, late) ==
  /\ Exited(j)
  /\ sys' = GarbageCollected(job_dispatch(job_reap(sys, j), j, FALSE, late), late)

\* job_ack_port_destruction()
PortDestroyed(j, late) ==
  /\ RightAway(j)
  /\ LET back == [sys EXCEPT !.job[j].flags = @ \ {"isActive"}]
     IN  sys' = GarbageCollected(job_dispatch(back, j, FALSE, late), late)

\* job_ack_no_senders(), which does not collect
NoSenders(j, late) ==
  /\ Unsent(j)
  /\ LET gone == [sys EXCEPT !.job[j].flags = @ \ {"priv_port_has_senders"}]
     IN  sys' = job_dispatch(gone, j, FALSE, late)

\* The delay of a throttled or failed start is over
JobTimer(j, late) ==
  /\ TimerArmed(j)
  /\ sys' = job_dispatch([sys EXCEPT !.job[j].timer = FALSE], j, TRUE, late)

\* VPROC_GSK_GLOBAL_ON_DEMAND, swapped by the job's own process
SwapGlobalOnDemand(j, val, late) ==
  /\ "globalOnDemand" \in Stimuli
  /\ Alive(j) /\ Has(sys, j, "p")
  /\ sys' = job_set_global_on_demand(sys, j, val, late)

CheckIn(j) ==
  /\ Alive(j) /\ Has(sys, j, "p")
  /\ "MachServices" \in Traits[j] /\ ~Has(sys, j, "isActive")
  /\ sys' = Set(sys, j, "isActive")

\* (mutant) managers may be created under one that is shutting down
Subset_any(m) ==
  /\ "subset" \in Stimuli
  /\ Running /\ m # Root /\ ~sys.mgr[m].exists
  /\ sys.mgr[Parent[m]].exists
  /\ sys' = [sys EXCEPT !.mgr[m] = jobmgr_new]

\* job_mig_subset()
Subset(m) ==
  /\ "subset" \in Stimuli
  /\ Running /\ m # Root /\ ~sys.mgr[m].exists
  /\ sys.mgr[Parent[m]].exists /\ ~sys.mgr[Parent[m]].shutting_down
  /\ sys' = [sys EXCEPT !.mgr[m] = jobmgr_new]

\* jobmgr_delete_anything_with_port(): the request port of a manager died
RequestPortDied(m, late) ==
  /\ "logout" \in Stimuli
  /\ Running /\ m # Root /\ sys.mgr[m].exists /\ sys.mgr[m].req_port
  /\ sys' = jobmgr_shutdown([sys EXCEPT !.mgr[m].req_port = FALSE], m, late)

\* launchd_shutdown()
Shutdown(late) ==
  /\ "shutdown" \in Stimuli
  /\ Running /\ ~sys.mgr[Root].shutting_down
  /\ sys' = jobmgr_shutdown(sys, Root, late)

ChildExits(j) ==
  /\ Alive(j)
  /\ sys' = [sys EXCEPT !.job[j].child = IF Has(sys, j, "p") THEN "zombie" ELSE "none"]

Next ==
  \/ \E late \in SUBSET Later :
       \/ Shutdown(late)
       \/ \E m \in Mgrs : RequestPortDied(m, late)
       \/ \E j \in Jobs :
            \/ Import(j, late) \/ StartCommand(j, late) \/ RemoveCommand(j, late)
            \/ ProcEvent(j, late) \/ PortDestroyed(j, late) \/ NoSenders(j, late)
            \/ JobTimer(j, late)
            \/ \E val \in BOOLEAN : SwapGlobalOnDemand(j, val, late)
  \/ \E m \in Mgrs : Subset(m)
  \/ \E j \in Jobs : StopCommand(j) \/ CheckIn(j) \/ ChildExits(j)

Spec == Init /\ [][Next]_sys

\* The run loop serves every event, and a start is not put off for ever.  (As
\* weak fairness of ProcEvent, PortDestroyed and NoSenders, which end what they
\* wait for; but TLC would compute ENABLED of whole handlers.)  A process that
\* was told to stop exits (JobLifecycle, StopCompletes) once launchd does not
\* hold it dirty; the creator of a legacy server ends as well.
Fairness ==
  \A j \in Jobs :
    /\ []<>~Exited(j)
    /\ []<>~(RightAway(j) /\ sys.job[j].child # "up")
    /\ []<>~Unsent(j)
    /\ []<>~TimerArmed(j)
    /\ WF_sys(Has(sys, j, "stopped") /\ ~sys.job[j].txn /\ ChildExits(j))

FairSpec == Spec /\ Fairness

-----------------------------------------------------------------------------
(* Properties.                                                             *)

\* The values the state takes.
TypeOK ==
  /\ sys.job \in [Jobs -> Job] /\ sys.mgr \in [Mgrs -> Mgr]
  /\ sys.list \subseteq Jobs \X Jobs
  /\ sys.monitor \in Jobs \cup {NoJob} /\ sys.stale \in BOOLEAN

\* launchd's count of the jobs that hold their peers in on-demand mode is
\* right, whatever is asked for twice, removed or collected
\* (job_set_global_on_demand).
CountsAgree ==
  \A m \in Mgrs :
    sys.mgr[m].exists =>
      sys.mgr[m].global_on_demand_cnt =
        Cardinality({j \in Loaded(sys) : /\ Home[j] = m
                                         /\ Has(sys, j, "forced_peers_to_demand_mode")})

\* The types, and the counts.
ModesCounted == TypeOK /\ CountsAgree

\* "A job was asked to be unloaded/removed while running, we'll remove it
\* after it exits" (struct job_s): a job that is gone left no process behind.
FreedHasNoProcess ==
  Running => \A j \in Jobs : ~sys.job[j].loaded => sys.job[j].child = "none"

\* Dispatching a job may delete it: nobody up the stack uses it afterwards
\* (job_dispatch).
NoStalePointer == ~sys.stale

\* A manager exists only below managers that exist, and is shutting down if
\* one of them is; jobs have a manager (jobmgr_shutdown, job_mig_subset).
TreeShutsDown ==
  Running =>
    /\ \A m \in Mgrs \ {Root} : sys.mgr[m].exists =>
         /\ sys.mgr[Parent[m]].exists
         /\ sys.mgr[Parent[m]].shutting_down => sys.mgr[m].shutting_down
    /\ \A j \in Loaded(sys) : sys.mgr[Home[j]].exists

\* Neither a process nor a manager is left behind by what was removed.
NothingLeftBehind == FreedHasNoProcess /\ TreeShutsDown

\* No handler leaves a job dead that has a reason to run: a KeepAlive job
\* after on-demand mode, or one whose OtherJobEnabled job was loaded
\* (jobmgr_dispatch_all, job_dispatch_curious_jobs).
KeptAlive ==
  \A j \in Loaded(sys) :
    /\ ~job_active(sys, j) /\ ~ShuttingDown(sys, j)
    /\ sys.mgr[Home[j]].global_on_demand_cnt = 0
    /\ "KeepAlive" \in Traits[j] \/ \E k \in OtherEnabled[j] : job_find(sys, k)
    => sys.job[j].timer

\* "If the value is false, then this job is kept alive as long as the other
\* job is disabled" (launchd.plist.5, OtherJobEnabled).
KeptAliveByDisabled ==
  \A j \in Loaded(sys) :
    /\ ~job_active(sys, j) /\ ~ShuttingDown(sys, j)
    /\ sys.mgr[Home[j]].global_on_demand_cnt = 0
    /\ \E k \in OtherDisabled[j] : ~sys.job[k].loaded
    => sys.job[j].timer

\* "Let the shutdown monitor be up until the very end": a shutdown stops it
\* only when no other job and no other manager is left.
MonitorLast ==
  [][\A j \in Jobs :
       /\ Has(sys, j, "shutdown_monitor") /\ sys'.mgr[Root].shutting_down
       /\ Has(sys', j, "stopped") /\ ~Has(sys, j, "stopped")
       => /\ Loaded(sys') = {j}
          /\ \A m \in Mgrs \ {Root} : ~sys'.mgr[m].exists]_sys

\* "We'll close these transactions once the jobs that do not need to be
\* dirty at shutdown have all exited" (jobmgr_do_garbage_collection): a live
\* process that can be held dirty is held until then.
DirtyLast ==
  [][\A j \in Jobs :
       /\ Has(sys, j, "dirty_at_shutdown") /\ ~Has(sys', j, "dirty_at_shutdown")
       /\ Has(sys', j, "p") /\ sys'.job[j].child = "up" /\ "InstantOff" \in Traits[j]
       => \A k \in Loaded(sys') \ {j} :
            /\ Home[k] = Home[j]
            /\ {"BeginTransactionAtShutdown", "ShutdownMonitor"} \cap Traits[k] = {}
            => ~job_active(sys', k)]_sys

\* The order in which a shutdown stops the jobs.
StopOrder == MonitorLast /\ DirtyLast

\* The managers of a session that ends go away, those below it first, and
\* shutdown removes all of them: launchd reboots or exits.
ShutdownCompletes ==
  \A m \in Mgrs : (sys.mgr[m].exists /\ sys.mgr[m].shutting_down) ~> ~sys.mgr[m].exists
=============================================================================
