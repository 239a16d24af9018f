-------------------------- MODULE JobLifecycleProofs --------------------------
(***************************************************************************)
(* For every configuration of a job: its record has the right type and     *)
(* agrees with the kernel about the process and the receive right.  Then   *)
(* what job_dispatch() promises its callers: the job it leaves behind is   *)
(* settled, that is, not dead with a reason to run and not loaded with a   *)
(* removal pending; and every handler ends settled.  Then why no wakeup    *)
(* is lost, and last why nothing of one life of a job reaches into the     *)
(* next and a job that is started has its receive rights back.             *)
(***************************************************************************)
EXTENDS JobLifecycle, TLAPS

\* What every C function keeps true of the job record it is given.
Consistent(j) ==
  /\ Has(j, "p") <=> j.child # "none"
  /\ j.exists => (Has(j, "isActive") <=> j.right # "launchd")

Sound(j) == j \in Job /\ Consistent(j)

\* Flags other than those of the pid and the right may be set and cleared.
LEMMA SetSound ==
  ASSUME NEW j, Sound(j), NEW F \in SUBSET (Flag \ {"p", "isActive"})
  PROVE  Sound(Set(j, F)) /\ Sound(Clear(j, F))
<1>1. Set(j, F) \in Job /\ Clear(j, F) \in Job
  BY DEF Set, Clear, Job, Sound
<1>2. Consistent(Set(j, F)) /\ Consistent(Clear(j, F))
  BY DEF Set, Clear, Sound, Consistent, Has, Job
<1> QED
  BY <1>1, <1>2 DEF Sound

\* job_ignore() keeps the record sound.
LEMMA IgnoreSound ==
  ASSUME NEW j, Sound(j)
  PROVE  Sound(job_ignore(j))
<1> DEFINE k == Set(j, {"currently_ignored"})
<1>1. Sound(k)
  BY SetSound DEF Flag
<1> HIDE DEF k
<1>2. [k EXCEPT !.inset = FALSE] \in Job
  BY <1>1 DEF Job, Sound
<1>3. Consistent([k EXCEPT !.inset = FALSE])
  BY <1>1 DEF Job, Sound, Consistent, Has
<1> QED
  BY <1>2, <1>3 DEF job_ignore, Sound, k

\* job_watch() keeps the record sound.
LEMMA WatchSound ==
  ASSUME NEW j, Sound(j)
  PROVE  Sound(machservice_watch(j)) /\ Sound(job_watch(j))
<1>1. \A k : Sound(k) => Sound([k EXCEPT !.inset = TRUE])
  BY DEF Job, Sound, Consistent, Has
<1>2. \A k : Sound(k) => Sound(Set(k, {"recv_race_hack"})) /\ Sound(Clear(k, {"currently_ignored"}))
  BY SetSound DEF Flag
<1>3. \A k : Sound(k) => Sound(machservice_watch(k))
  BY <1>1, <1>2 DEF machservice_watch
<1> QED
  BY <1>2, <1>3 DEF job_watch

\* job_stop() keeps the record sound.
LEMMA StopSound ==
  ASSUME NEW j, Sound(j), NEW m \in Mgr, NEW s \in {"TERM", "KILL", "none"}
  PROVE  Sound(job_stop(j, m, s))
<1>1. stop_flags(j, s) \in SUBSET Flag
  BY DEF stop_flags, When, Job, Flag, Sound
<1>2. stop_timers(j, m, s) \in SUBSET Timer
  BY DEF stop_timers, When, Job, Timer, Sound
<1>3. signalled(j, s) \in {"none", "TERM", "KILL"}
  BY DEF signalled, Job, Sound
<1>4. \A f \in {"p", "isActive"} : f \in stop_flags(j, s) <=> f \in j.flags
  BY DEF stop_flags, When
<1> DEFINE k == [j EXCEPT !.sig = signalled(j, s), !.flags = stop_flags(j, s),
                          !.timers = stop_timers(j, m, s)]
<1>5. k \in Job
  BY <1>1, <1>2, <1>3 DEF Job, Sound
<1>6. Consistent(k)
  BY <1>4 DEF Job, Sound, Consistent, Has
<1> QED
  BY <1>5, <1>6 DEF job_stop, Sound

\* What a reap leaves of the kernel's side.
LEMMA ReapedKernel ==
  ASSUME NEW j \in Job
  PROVE  /\ reaped_kernel(j) \in Job
         /\ reaped_kernel(j).child = "none"
         /\ reaped_kernel(j).exists = j.exists
         /\ reaped_kernel(j).right # "launchd" <=> j.right # "launchd"
<1> DEFINE o == j.orphan \/ (Has(j, "workaround9359725") /\ j.child # "zombie")
           r == IF j.right = "child" THEN "orphan" ELSE j.right
<1>2. o \in BOOLEAN
  BY Zenon
<1>3. r \in {"launchd", "child", "orphan", "returning"} /\ (r # "launchd" <=> j.right # "launchd")
  BY DEF Job
<1>4. reaped_kernel(j) = [j EXCEPT !.child = "none", !.fate = "ok", !.notes = {},
                                !.sig = "none", !.orphan = o, !.right = r, !.wanted = FALSE]
  BY Zenon DEF reaped_kernel
<1>5. "ok" \in Outcomes
  BY DEF Outcomes
<1> HIDE DEF o, r
<1> QED
  BY <1>2, <1>3, <1>4, <1>5 DEF Job

\* Draining and resetting the port keep the record sound.
LEMMA DrainSound ==
  ASSUME NEW j, Sound(j)
  PROVE  Sound(machservice_drain_port(j)) /\ Sound(machservice_resetport(j))
<1> DEFINE n == IF Key("DrainAll") \/ j.msgs = 0 THEN 0 ELSE j.msgs - 1
<1>1. n \in 0..MaxMsgs /\ 0 \in 0..MaxMsgs
  BY MaxMsgsAssumption DEF Sound, Job
<1>2. machservice_drain_port(j) = [j EXCEPT !.undrained = FALSE, !.msgs = n]
  BY DEF machservice_drain_port
<1> HIDE DEF n
<1>3. [j EXCEPT !.undrained = FALSE, !.msgs = n] \in Job
  BY <1>1 DEF Sound, Job
<1>4. [j EXCEPT !.msgs = 0, !.inset = FALSE] \in Job
  BY <1>1 DEF Sound, Job
<1>5. /\ Consistent([j EXCEPT !.undrained = FALSE, !.msgs = n])
      /\ Consistent([j EXCEPT !.msgs = 0, !.inset = FALSE])
  BY DEF Sound, Job, Consistent, Has
<1> QED
  BY <1>2, <1>3, <1>4, <1>5 DEF Sound, machservice_resetport

\* job_reap() keeps the record sound.
LEMMA ReapSound ==
  ASSUME NEW j \in Job, j.exists => (Has(j, "isActive") <=> j.right # "launchd")
  PROVE  Sound(job_reap(j))
<1> DEFINE rk == reaped_kernel(j)
           st == reaped_status(j)
           fl == reaped_flags(j)
           tm == reaped_timers(j)
           u == "crashed" \in reaped_flags(j) /\ Key("MachServices") /\ Drains
           k == [rk EXCEPT !.status = st, !.flags = fl, !.undrained = u, !.timers = tm]
<1>1. /\ rk \in Job
      /\ rk.child = "none"
      /\ rk.exists = j.exists
      /\ rk.right # "launchd" <=> j.right # "launchd"
  BY ReapedKernel
<1>2. st \in Outcomes
  BY DEF reaped_status, Job, Outcomes
<1>3. fl \in SUBSET Flag
  BY DEF reaped_flags, When, Job, Flag
<1>4. tm \in SUBSET Timer
  BY DEF reaped_timers, Job
<1>5. /\ "p" \notin fl
      /\ "isActive" \in fl <=> "isActive" \in j.flags
  BY DEF reaped_flags, When
<1>6. u \in BOOLEAN
  BY Zenon
<1>7. job_reap(j) = reap_reset(reap_drain(k))
  BY Zenon DEF job_reap
<1> HIDE DEF u, rk, st, fl, tm
<1>8. k \in Job /\ k.flags = fl /\ k.exists = rk.exists /\ k.child = rk.child /\ k.right = rk.right
  BY <1>1, <1>2, <1>3, <1>4, <1>6 DEF Job
<1> HIDE DEF k
<1>9. Sound(k)
  BY <1>1, <1>5, <1>8 DEF Sound, Consistent, Has
<1> QED
  BY <1>7, <1>9, DrainSound DEF reap_reset, reap_drain

\* A new job is sound.
LEMMA NewSound ==
  ASSUME NEW c \in SUBSET Keys
  PROVE  Sound(job_new(c)) /\ job_new(c).exists
<1>1. job_new(c).flags \in SUBSET (Flag \ {"p", "isActive"})
  BY DEF job_new, When, Flag
<1>2. job_new(c).timers \in SUBSET Timer
  BY DEF job_new, When, Timer
<1>3. "ok" \in Outcomes /\ 0 \in 0..MaxMsgs
  BY MaxMsgsAssumption DEF Outcomes
<1> DEFINE fl == job_new(c).flags
           tm == job_new(c).timers
           k  == [exists |-> TRUE, flags |-> fl, status |-> "ok", timers |-> tm,
                  child |-> "none", fate |-> "ok", sig |-> "none", notes |-> {},
                  right |-> "launchd", inset |-> FALSE, msgs |-> 0, orphan |-> FALSE,
                  young |-> FALSE, wanted |-> FALSE, undrained |-> FALSE]
<1>4. job_new(c) = k
  BY DEF job_new
<1> HIDE DEF fl, tm
<1>5. k \in Job
  BY <1>1, <1>2, <1>3 DEF Job, fl, tm
<1>6. Consistent(k) /\ k.exists
  BY <1>1 DEF Consistent, Has, fl
<1> QED
  BY <1>4, <1>5, <1>6 DEF Sound

\* Freeing the job keeps the record sound.
LEMMA FreeSound ==
  ASSUME NEW j, Sound(j), cfg \in SUBSET Keys
  PROVE  Sound(job_free(j)) /\ ~job_free(j).exists
<1> DEFINE n  == job_new(cfg)
           tm == j.timers \cap When(~Key("ExitTimeOut"), {"exit"})
<1>1. n \in Job /\ n.child = "none"
  BY NewSound DEF Sound, job_new
<1>2. tm \in SUBSET Timer
  BY DEF Sound, Job
<1>3. job_free(j) = [n EXCEPT !.exists = FALSE, !.flags = {}, !.timers = tm]
  BY DEF job_free
<1> HIDE DEF n, tm
<1> DEFINE k == [n EXCEPT !.exists = FALSE, !.flags = {}, !.timers = tm]
<1>4. k \in Job
  BY <1>1, <1>2 DEF Job
<1>5. ~k.exists /\ k.flags = {} /\ k.child = "none"
  BY <1>1 DEF Job
<1> QED
  BY <1>3, <1>4, <1>5 DEF Sound, Consistent, Has

\* A fork that succeeds keeps the record sound.
LEMMA ForkedSound ==
  ASSUME NEW j, Sound(j)
  PROVE  Sound(forked(j))
<1>1. forked_flags(j) \in SUBSET Flag
  BY DEF forked_flags, Sound, Job, Flag
<1>2. /\ "p" \in forked_flags(j)
      /\ "isActive" \in forked_flags(j) <=> "isActive" \in j.flags
  BY DEF forked_flags, When
<1>3. forked(j) \in Job
  BY <1>1 DEF forked, Sound, Job
<1>4. Consistent(forked(j))
  BY <1>2 DEF forked, Sound, Job, Consistent, Has
<1> QED
  BY <1>3, <1>4 DEF Sound

\* job_start() keeps the record sound.
LEMMA StartSound ==
  ASSUME NEW j, Sound(j), NEW f
  PROVE  Sound(job_start(j, f))
<1>1. Sound(job_ignore([j EXCEPT !.timers = (@ \ {"due"}) \cup {"job"}]))
  <2> DEFINE k == [j EXCEPT !.timers = (@ \ {"due"}) \cup {"job"}]
  <2>1. (j.timers \ {"due"}) \cup {"job"} \in SUBSET Timer
    BY DEF Sound, Job, Timer
  <2>2. k \in Job /\ Consistent(k)
    BY <2>1 DEF Sound, Job, Consistent, Has
  <2> QED
    BY <2>2, IgnoreSound DEF Sound
<1>2. Sound(job_ignore([j EXCEPT !.timers = (@ \ {"job"}) \cup {"due"}]))
  <2> DEFINE k == [j EXCEPT !.timers = (@ \ {"job"}) \cup {"due"}]
  <2>1. (j.timers \ {"job"}) \cup {"due"} \in SUBSET Timer
    BY DEF Sound, Job, Timer
  <2>2. k \in Job /\ Consistent(k)
    BY <2>1 DEF Sound, Job, Consistent, Has
  <2> QED
    BY <2>2, IgnoreSound DEF Sound
<1>3. Sound(job_watch(job_reap([forked(j) EXCEPT !.child = "zombie", !.fate = "killed"])))
  <2> DEFINE z == [forked(j) EXCEPT !.child = "zombie", !.fate = "killed"]
  <2>1. forked(j) \in Job /\ Consistent(forked(j))
    BY ForkedSound DEF Sound
  <2>2. "killed" \in Outcomes
    BY DEF Outcomes
  <2>3. z \in Job /\ z.flags = forked(j).flags /\ z.exists = forked(j).exists
        /\ z.right = forked(j).right
    BY <2>1, <2>2 DEF Job
  <2> HIDE DEF z
  <2>4. Sound(job_reap(z))
    BY <2>1, <2>3, ReapSound DEF Consistent, Has
  <2> QED
    BY <2>4, WatchSound DEF z
<1>4. Sound(job_ignore(forked(j)))
  BY ForkedSound, IgnoreSound
<1> QED
  BY <1>1, <1>2, <1>3, <1>4 DEF job_start

\* job_dispatch() keeps the record sound.
LEMMA DispatchSound ==
  ASSUME NEW j, Sound(j), NEW m \in Mgr, NEW kick \in BOOLEAN, NEW f, cfg \in SUBSET Keys
  PROVE  Sound(job_dispatch(j, m, kick, f))
<1> DEFINE w == j.wanted \/ job_keepalive(j, m)
           k == [j EXCEPT !.wanted = w]
<1>1. w \in BOOLEAN
  BY Zenon
<1> HIDE DEF w
<1>2. k \in Job /\ Consistent(k)
  BY <1>1 DEF Sound, Job, Consistent, Has
<1>3. Sound(k)
  BY <1>2 DEF Sound
<1>4. Sound(job_start(k, f))
  BY <1>3, StartSound
<1> HIDE DEF k
<1>5. job_dispatch(j, m, kick, f) \in {j, job_free(j), job_start(k, f), job_watch(j)}
  BY Zenon DEF job_dispatch, k, w
<1> QED
  BY <1>4, <1>5, FreeSound, WatchSound

\* The collection keeps the record sound.
LEMMA CollectSound ==
  ASSUME NEW j, Sound(j), NEW m \in Mgr, NEW s \in {"TERM", "KILL", "none"}, cfg \in SUBSET Keys
  PROVE  Sound(garbage_collection(j, m, s)) /\ Sound(job_remove(j, m, s))
<1>1. Sound(Set(j, {"removal_pending"}))
  BY SetSound DEF Flag
<1> QED
  BY <1>1, StopSound, FreeSound DEF garbage_collection, job_remove

\* Kicking the job keeps the record sound.
LEMMA KickedSound ==
  ASSUME NEW j, Sound(j)
  PROVE  Sound(Kicked(j))
BY DEF Kicked, Sound, Job, Consistent, Has

\* The receive right comes back to a job, whose port may be drained and reset.
LEMMA ReturnSound ==
  ASSUME NEW j, Sound(j)
  PROVE  LET back  == [j EXCEPT !.right = "launchd"]
             drain == IF Drains /\ {"crashed", "reaped"} \subseteq j.flags
                      THEN machservice_drain_port(back) ELSE back
             idle  == Clear(drain, {"isActive"})
         IN  Sound(IF Key("ResetAtClose") THEN machservice_resetport(idle) ELSE idle)
<1> DEFINE back  == [j EXCEPT !.right = "launchd"]
           drain == IF Drains /\ {"crashed", "reaped"} \subseteq j.flags
                    THEN machservice_drain_port(back) ELSE back
           idle  == Clear(drain, {"isActive"})
<1>1. \A k \in Job : (Has(k, "p") <=> k.child # "none") /\ k.right = "launchd"
                       => Sound(Clear(k, {"isActive"}))
  BY DEF Clear, Sound, Job, Consistent, Has
<1>2. /\ back \in Job /\ (Has(back, "p") <=> back.child # "none")
      /\ back.right = "launchd"
  BY DEF Sound, Job, Consistent, Has
<1>3. /\ drain \in Job /\ (Has(drain, "p") <=> drain.child # "none")
      /\ drain.right = "launchd"
  <2> HIDE DEF back
  <2> DEFINE n == IF Key("DrainAll") \/ back.msgs = 0 THEN 0 ELSE back.msgs - 1
  <2>1. n \in 0..MaxMsgs
    BY <1>2, MaxMsgsAssumption DEF Job
  <2>2. machservice_drain_port(back) = [back EXCEPT !.undrained = FALSE, !.msgs = n]
    BY DEF machservice_drain_port
  <2> HIDE DEF n
  <2> QED
    BY <1>2, <2>1, <2>2 DEF Job, Has
<1>4. Sound(idle)
  BY <1>1, <1>3
<1> HIDE DEF idle
<1>5. Sound(IF Key("ResetAtClose") THEN machservice_resetport(idle) ELSE idle)
  BY <1>4, DrainSound
<1> QED
  BY <1>5 DEF idle

\* The inductive invariant: types, and the two bookkeeping facts.
SoundInv == cfg \in Configs /\ mgr \in Mgr /\ Sound(job)

\* The record is sound at first.
LEMMA SoundInit == Init => SoundInv
<1> SUFFICES ASSUME Init PROVE SoundInv
  OBVIOUS
<1>1. cfg \in Configs /\ cfg \in SUBSET Keys
  BY ConfigsAssumption DEF Init
<1>2. mgr \in Mgr
  BY DEF Init, Mgr
<1>3. Sound(job_new(cfg))
  BY <1>1, NewSound
<1>4. \A f : Sound(job_dispatch(job_new(cfg), mgr, FALSE, f))
  BY <1>1, <1>2, <1>3, DispatchSound
<1>5. Sound(job)
  BY <1>3, <1>4 DEF Init
<1> QED
  BY <1>1, <1>2, <1>5 DEF SoundInv

\* Every handler keeps the record sound.
LEMMA SoundNext == SoundInv /\ [Next]_vars => SoundInv'
<1> SUFFICES ASSUME SoundInv, [Next]_vars PROVE SoundInv'
  OBVIOUS
<1> DEFINE Preserved == cfg' = cfg /\ mgr' \in Mgr /\ Sound(job')
<1>1. cfg \in Configs /\ cfg \in SUBSET Keys /\ mgr \in Mgr /\ Sound(job)
  BY ConfigsAssumption DEF SoundInv
<1>2. \A s \in TermSignals : s \in {"TERM", "KILL", "none"}
  BY SignalsAssumption DEF TermSignals
<1>3. ASSUME NEW k, Sound(k), NEW f
      PROVE  Sound(job_dispatch(k, mgr, TRUE, f)) /\ Sound(job_dispatch(k, mgr, FALSE, f))
  BY <1>1, <1>3, DispatchSound
<1>4. ASSUME NEW k, Sound(k), NEW s \in TermSignals
      PROVE  Sound(garbage_collection(k, mgr, s)) /\ Sound(job_remove(k, mgr, s))
  BY <1>1, <1>2, <1>4, CollectSound
<1>5. ASSUME NEW f \in ForkOutcomes, NEW s \in TermSignals, ProcEvent(f, s)
      PROVE  Preserved
  <2> DEFINE execd == Set([job EXCEPT !.notes = {}], When("EXEC" \in job.notes, {"did_exec"}))
             ended == Set(execd, When(job.fate \in {"jetClean", "jetDirty"}, {"jettisoned"}))
  <2>1. Sound([job EXCEPT !.notes = {}])
    BY <1>1 DEF Sound, Job, Consistent, Has
  <2>2. Sound(execd) /\ Sound(ended)
    BY <2>1, SetSound DEF When, Flag
  <2>3. Sound(job_reap(ended))
    BY <2>2, ReapSound DEF Sound, Consistent
  <2>4. Sound(job_dispatch(job_reap(ended), mgr, FALSE, f))
    BY <2>3, <1>3
  <2> QED
    BY <1>1, <1>4, <1>5, <2>2, <2>4 DEF ProcEvent
<1>6. ASSUME NEW f \in ForkOutcomes, NEW s \in TermSignals, ExitTimer(f, s)
      PROVE  Preserved
  <2> DEFINE fired == [job EXCEPT !.timers = @ \ {"exit"}]
             sim   == Set(fired, {"workaround9359725"})
  <2>1. Sound(fired)
    BY <1>1 DEF Sound, Job, Consistent, Has
  <2>2. Sound(sim)
    BY <2>1, SetSound DEF Flag
  <2>3. Sound(job_kill(fired, s))
    <3> HIDE DEF fired
    <3>1. /\ signalled(fired, "KILL") \in {"none", "TERM", "KILL"}
          /\ signalled(fired, "none") \in {"none", "TERM", "KILL"}
      BY <2>1 DEF signalled, Sound, Job
    <3>2. fired.flags \cup {"sent_sigkill"} \in SUBSET Flag
          /\ fired.timers \cup {"exit"} \in SUBSET Timer
      BY <2>1 DEF Sound, Job, Flag, Timer
    <3> QED
      BY <2>1, <3>1, <3>2 DEF job_kill, Sound, Job, Consistent, Has
  <2>4. Sound(job_reap(sim))
    BY <2>2, ReapSound DEF Sound, Consistent
  <2>5. Sound(job_dispatch(job_reap(sim), mgr, FALSE, f))
    BY <2>4, <1>3
  <2> QED
    BY <1>1, <1>4, <1>6, <2>1, <2>3, <2>5 DEF ExitTimer
<1>7. ASSUME NEW f \in ForkOutcomes, NEW s \in TermSignals, PortDestroyed(f, s)
      PROVE  Preserved
  <2> DEFINE back    == [job EXCEPT !.right = "launchd"]
             drain   == IF Drains /\ {"crashed", "reaped"} \subseteq job.flags
                        THEN machservice_drain_port(back) ELSE back
             idle    == Clear(drain, {"isActive"})
             reset   == IF Key("ResetAtClose") THEN machservice_resetport(idle) ELSE idle
             run     == job_dispatch(reset, mgr, FALSE, f)
             watched == IF Has(run, "recv_race_hack")
                        THEN machservice_watch(Clear(run, {"recv_race_hack"}))
                        ELSE run
  <2>1. Sound(reset)
    BY <1>1, ReturnSound
  <2>2. Sound(run)
    BY <2>1, <1>3
  <2>3. Sound(watched)
    <3> HIDE DEF run
    <3>1. Sound(Clear(run, {"recv_race_hack"}))
      BY <2>2, SetSound DEF Flag
    <3> QED
      BY <2>2, <3>1, WatchSound
  <2> QED
    BY <1>1, <1>4, <1>7, <2>3 DEF PortDestroyed
<1>8. ASSUME NEW f \in ForkOutcomes,
             \/ StartCommand(f) \/ JobTimer(f) \/ IntervalTimer(f) \/ MachDemand(f)
             \/ NoSenders(f) \/ ProviderReady(f)
      PROVE  Preserved
  <2>1. Sound(Kicked(job)) /\ Sound(Set(job, {"start_pending"}))
        /\ Sound(Clear(job, {"priv_port_has_senders"})) /\ Sound(Clear(job, {"waiting4ok"}))
    BY <1>1, KickedSound, SetSound DEF Flag
  <2>2. Sound([job EXCEPT !.timers = @ \ {"due"}])
    BY <1>1 DEF Sound, Job, Consistent, Has
  <2> QED
    BY <1>1, <1>3, <1>8, <2>1, <2>2
       DEF StartCommand, JobTimer, IntervalTimer, MachDemand, NoSenders, ProviderReady
<1>9. ASSUME NEW f \in ForkOutcomes, VolumeMounted(f)
      PROVE  Preserved
  <2> DEFINE mount == Set(job, When(Key("StartOnMount"), {"start_pending"}))
             all   == IF mgr.shutting_down THEN job ELSE job_dispatch(mount, mgr, FALSE, f)
  <2>1. Sound(mount)
    BY <1>1, SetSound DEF When, Flag
  <2>2. Sound(all) /\ Sound(job_dispatch(all, mgr, FALSE, f))
    BY <1>1, <1>3, <2>1
  <2> QED
    BY <1>1, <1>9, <2>2 DEF VolumeMounted
<1>10. ASSUME NEW f \in ForkOutcomes, GlobalOnDemand(f) \/ NetworkChange(f)
       PROVE  Preserved
  <2>1. mgr' \in Mgr /\ cfg' = cfg
    BY <1>1, <1>10 DEF GlobalOnDemand, NetworkChange, Mgr
  <2>2. Sound(job_dispatch(job, mgr', FALSE, f))
    BY <1>1, <2>1, DispatchSound
  <2> QED
    BY <1>1, <1>10, <2>1, <2>2 DEF GlobalOnDemand, NetworkChange
<1>11. ASSUME NEW s \in TermSignals, StopCommand(s)
       PROVE  Preserved
  BY <1>1, <1>2, <1>11, StopSound DEF StopCommand
<1>12. ASSUME NEW s \in TermSignals, NEW b \in BOOLEAN, RemoveCommand(s, b)
       PROVE  Preserved
  <2>1. Sound(job_remove(job, mgr, s))
    BY <1>1, <1>4
  <2>2. Sound(Set(job_remove(job, mgr, s), {"removal_watcher"}))
    BY <2>1, SetSound DEF Flag
  <2> QED
    BY <1>1, <1>12, <2>1, <2>2 DEF RemoveCommand
<1>13. ASSUME NEW s \in TermSignals, Shutdown(s)
       PROVE  Preserved
  <2>1. mgr' \in Mgr
    BY <1>1, <1>13 DEF Shutdown, Mgr
  <2>2. Sound(garbage_collection(job, mgr', s))
    BY <1>1, <1>2, <2>1, CollectSound
  <2> QED
    BY <1>1, <1>13, <2>1, <2>2 DEF Shutdown
<1>14. ASSUME CheckIn
       PROVE  Preserved
  <2> DEFINE k == Set(job, {"isActive", "checkedin"})
  <2>1. k \in Job /\ (Has(k, "p") <=> k.child # "none") /\ Has(k, "isActive")
    BY <1>1 DEF Set, Sound, Job, Consistent, Has, Flag
  <2> HIDE DEF k
  <2>2. Sound([k EXCEPT !.right = "child", !.inset = FALSE])
    BY <2>1 DEF Sound, Job, Consistent, Has
  <2> QED
    BY <1>1, <1>14, <2>2 DEF CheckIn, k
<1>15. ASSUME NEW v \in BOOLEAN, SwapKeepAlive(v)
       PROVE  Preserved
  <2>1. Sound(Clear(job, {"ondemand"})) /\ Sound(Set(job, {"ondemand"}))
    BY <1>1, SetSound DEF Flag
  <2> QED
    BY <1>1, <1>15, <2>1 DEF SwapKeepAlive
<1>16. ASSUME ChildExec \/ OrphanExit \/ DropRight
       PROVE  Preserved
  <2>1. CASE ChildExec
    BY <1>1, <2>1 DEF ChildExec, Sound, Job, Consistent, Has
  <2>2. CASE OrphanExit
    BY <1>1, <2>2 DEF OrphanExit, Sound, Job, Consistent, Has
  <2>3. CASE DropRight
    BY <1>1, <2>3 DEF DropRight, Sound, Job, Consistent, Has
  <2> QED
    BY <1>16, <2>1, <2>2, <2>3
<1>17. ASSUME NEW o \in ExitOutcomes, ChildExit(o)
       PROVE  Preserved
  <2>1. o \in Outcomes
    BY ExitAssumption
  <2> QED
    BY <1>1, <1>17, <2>1 DEF ChildExit, Sound, Job, Consistent, Has
<1>18. ASSUME ClientSends \/ ChildReceives
       PROVE  Preserved
  <2>1. job'.msgs \in 0..MaxMsgs
    BY <1>1, <1>18, MaxMsgsAssumption DEF ClientSends, ChildReceives, Sound, Job
  <2> QED
    BY <1>1, <1>18, <2>1 DEF ClientSends, ChildReceives, Sound, Job, Consistent, Has
<1>19. ASSUME TimePasses
       PROVE  Preserved
  <2> DEFINE tm == IF "job" \in job.timers THEN (job.timers \ {"job"}) \cup {"due"}
                   ELSE job.timers
  <2>1. tm \in SUBSET Timer
    BY <1>1 DEF Sound, Job, Timer
  <2>2. job' = [job EXCEPT !.young = FALSE, !.timers = tm]
    BY <1>19 DEF TimePasses
  <2> HIDE DEF tm
  <2>3. Sound([job EXCEPT !.young = FALSE, !.timers = tm])
    BY <1>1, <2>1 DEF Sound, Job, Consistent, Has
  <2> QED
    BY <1>1, <1>19, <2>2, <2>3 DEF TimePasses
<1>20. ASSUME UNCHANGED vars
       PROVE  Preserved
  BY <1>1, <1>20 DEF vars
<1>21. Preserved
  <2> HIDE DEF Preserved
  <2>1. CASE \E f \in ForkOutcomes, s \in TermSignals :
               ProcEvent(f, s) \/ ExitTimer(f, s) \/ PortDestroyed(f, s)
    BY <1>5, <1>6, <1>7, <2>1
  <2>2. CASE \E f \in ForkOutcomes :
               \/ StartCommand(f) \/ JobTimer(f) \/ IntervalTimer(f) \/ MachDemand(f)
               \/ NoSenders(f) \/ ProviderReady(f) \/ VolumeMounted(f)
               \/ GlobalOnDemand(f) \/ NetworkChange(f)
    BY <1>8, <1>9, <1>10, <2>2
  <2>3. CASE \E s \in TermSignals :
               StopCommand(s) \/ Shutdown(s) \/ \E b \in BOOLEAN : RemoveCommand(s, b)
    BY <1>11, <1>12, <1>13, <2>3
  <2>4. CASE CheckIn \/ \E v \in BOOLEAN : SwapKeepAlive(v)
    BY <1>14, <1>15, <2>4
  <2>5. CASE \/ ChildExec \/ (\E o \in ExitOutcomes : ChildExit(o))
             \/ OrphanExit \/ DropRight \/ ClientSends \/ ChildReceives \/ TimePasses
    BY <1>16, <1>17, <1>18, <1>19, <2>5
  <2>6. Next \/ UNCHANGED vars
    OBVIOUS
  <2> QED
    BY <1>20, <2>1, <2>2, <2>3, <2>4, <2>5, <2>6 DEF Next
<1> QED
  BY <1>1, <1>21 DEF SoundInv, Sound, Consistent, Has

\* The record is always sound.
LEMMA SoundAlways == Spec => []SoundInv
BY SoundInit, SoundNext, PTL DEF Spec

-----------------------------------------------------------------------------
(* Theorems.                                                               *)

\* Every variable keeps its type, whatever the job's keys, the outcomes of
\* fork() and of the child, and the number of queued messages.
THEOREM TypeCorrect == Spec => []TypeOK
<1>1. SoundInv => TypeOK
  BY DEF SoundInv, Sound, TypeOK
<1> QED
  BY SoundAlways, <1>1, PTL

\* launchd has a pid for the job exactly while the kernel has a child of it:
\* job_start() never forgets a live child, job_reap() leaves no zombie.
THEOREM PidAgrees == Spec => []PidMatchesChild
<1>1. SoundInv => PidMatchesChild
  BY DEF SoundInv, Sound, Consistent, PidMatchesChild
<1> QED
  BY SoundAlways, <1>1, PTL

\* isActive says where the receive right is, in every order of NOTE_EXIT,
\* port-destroyed notification, simulated exit and restart.
THEOREM RightsAgree == Spec => []RightsAccounted
<1>1. SoundInv => RightsAccounted
  BY DEF SoundInv, Sound, Consistent, RightsAccounted
<1> QED
  BY SoundAlways, <1>1, PTL

\* launchd's bookkeeping of the child and of the receive right is the
\* kernel's, for every configuration and in every order of events.
THEOREM KernelAgreement == Spec => []KernelAgrees
<1>1. TypeOK /\ PidMatchesChild /\ RightsAccounted => KernelAgrees
  BY DEF KernelAgrees
<1> QED
  BY TypeCorrect, PidAgrees, RightsAgree, <1>1, PTL
-----------------------------------------------------------------------------
(* Dispatching.                                                            *)

Idle(j) == ~job_active(j) /\ ~Has(j, "waiting4ok")

TimerSet(j) == j.timers \cap {"job", "due"} # {}

\* RemovalWaitsForExit of any job record, and KeptAlive of any record and
\* manager if the kevent can always be attached to the child
Settled(j, m) ==
  /\ Has(j, "removal_pending") => ~Idle(j)
  /\ "noattach" \notin ForkOutcomes /\ j.exists /\ Idle(j)
     /\ may_keepalive(j, m) /\ standing_reason(j, m) => TimerSet(j)

\* The flags that Settled looks at
Telling ==
  {"p", "priv_port_has_senders", "workaround9359725", "isActive", "waiting4ok",
   "removal_pending", "needs_kickoff", "start_pending", "ondemand", "crashed"}

\* k is as settled as j
Agree(j, k) ==
  /\ k.exists = j.exists /\ k.status = j.status
  /\ TimerSet(j) => TimerSet(k)
  /\ \A x \in Telling : x \in k.flags <=> x \in j.flags

\* What agrees with a settled job on what the decision looks at is settled.
LEMMA AgreeSettled ==
  ASSUME NEW j, NEW k, NEW m, Agree(j, k), Settled(j, m)
  PROVE  Settled(k, m)
<1>1. /\ Has(k, "p") <=> Has(j, "p")
      /\ Has(k, "priv_port_has_senders") <=> Has(j, "priv_port_has_senders")
      /\ Has(k, "workaround9359725") <=> Has(j, "workaround9359725")
      /\ Has(k, "isActive") <=> Has(j, "isActive")
      /\ Has(k, "waiting4ok") <=> Has(j, "waiting4ok")
      /\ Has(k, "removal_pending") <=> Has(j, "removal_pending")
      /\ Has(k, "needs_kickoff") <=> Has(j, "needs_kickoff")
      /\ Has(k, "start_pending") <=> Has(j, "start_pending")
      /\ Has(k, "ondemand") <=> Has(j, "ondemand")
      /\ Has(k, "crashed") <=> Has(j, "crashed")
  BY Zenon DEF Agree, Telling, Has
<1>2. Idle(k) <=> Idle(j)
  BY <1>1 DEF Idle, job_active
<1>3. may_keepalive(k, m) <=> may_keepalive(j, m)
  BY <1>1 DEF may_keepalive
<1>4. standing_reason(k, m) <=> standing_reason(j, m)
  BY <1>1 DEF standing_reason, semaphore_wanted, Agree
<1> QED
  BY <1>1, <1>2, <1>3, <1>4 DEF Settled, Agree

\* A job with a pid, or one that is gone, is settled.
LEMMA RunningSettled ==
  ASSUME NEW j, NEW m, Has(j, "p") \/ (~j.exists /\ j.flags = {})
  PROVE  Settled(j, m)
BY DEF Settled, Idle, job_active, Has

\* A job that is gone is settled.
LEMMA FreeSettled ==
  ASSUME NEW j, NEW m
  PROVE  Settled(job_free(j), m)
<1>1. ~job_free(j).exists /\ job_free(j).flags = {}
  BY DEF job_free, job_new
<1> QED
  BY <1>1, RunningSettled

\* Adding and removing flags that Settled does not look at
LEMMA OtherFlagsAgree ==
  ASSUME NEW j \in Job, NEW F, F \cap Telling = {}
  PROVE  Agree(j, Set(j, F)) /\ Agree(j, Clear(j, F))
BY DEF Agree, Set, Clear, Job, TimerSet

\* job_ignore() changes nothing the decision looks at.
LEMMA IgnoreAgrees ==
  ASSUME NEW j \in Job
  PROVE  Agree(j, job_ignore(j))
<1>1. Agree(j, Set(j, {"currently_ignored"})) /\ Set(j, {"currently_ignored"}) \in Job
  BY OtherFlagsAgree DEF Telling, Set, Job, Flag
<1>2. ASSUME NEW k \in Job, Agree(j, k)
      PROVE  Agree(j, [k EXCEPT !.inset = FALSE])
  BY <1>2 DEF Agree, TimerSet, Job
<1>3. Agree(j, j)
  BY DEF Agree
<1> QED
  BY <1>1, <1>2, <1>3 DEF job_ignore

\* job_watch() changes nothing the decision looks at.
LEMMA WatchAgrees ==
  ASSUME NEW j \in Job
  PROVE  Agree(j, machservice_watch(j)) /\ Agree(j, job_watch(j))
<1>1. \A k \in Job : Agree(k, machservice_watch(k))
  <2> TAKE k \in Job
  <2>1. Agree(k, k) /\ Agree(k, [k EXCEPT !.inset = TRUE])
    BY DEF Agree, TimerSet, Job
  <2>2. Agree(k, Set(k, {"recv_race_hack"}))
    BY OtherFlagsAgree DEF Telling
  <2> QED
    BY <2>1, <2>2 DEF machservice_watch
<1> DEFINE c == Clear(j, {"currently_ignored"})
<1>2. Agree(j, c) /\ c \in Job
  BY OtherFlagsAgree DEF Telling, Clear, Job
<1> HIDE DEF c
<1>3. Agree(c, machservice_watch(c))
  BY <1>1, <1>2
<1>4. Agree(j, machservice_watch(c)) /\ Agree(j, j)
  BY <1>2, <1>3 DEF Agree
<1> QED
  BY <1>1, <1>4 DEF job_watch, c

\* job_stop() changes nothing the decision looks at.
LEMMA StopAgrees ==
  ASSUME NEW j \in Job, NEW m, NEW s
  PROVE  Agree(j, job_stop(j, m, s))
<1> DEFINE sg == signalled(j, s)
           fl == stop_flags(j, s)
           tm == stop_timers(j, m, s)
           k  == [j EXCEPT !.sig = sg, !.flags = fl, !.timers = tm]
<1>1. \A x \in Telling : x \in fl <=> x \in j.flags
  BY DEF stop_flags, When, Telling
<1>2. j.timers \subseteq tm
  BY DEF stop_timers
<1>3. job_stop(j, m, s) \in {j, k}
  BY DEF job_stop
<1> HIDE DEF sg, fl, tm
<1>4. k.exists = j.exists /\ k.status = j.status /\ k.flags = fl /\ k.timers = tm
  BY DEF Job
<1> HIDE DEF k
<1>5. Agree(j, k) /\ Agree(j, j)
  BY <1>1, <1>2, <1>4 DEF Agree, TimerSet
<1> QED
  BY <1>3, <1>5

\* The collection leaves the job settled.
LEMMA CollectSettles ==
  ASSUME NEW j \in Job, NEW m, NEW s, Settled(j, m)
  PROVE  Settled(garbage_collection(j, m, s), m)
<1>1. Settled(job_stop(j, m, s), m)
  BY StopAgrees, AgreeSettled
<1> QED
  BY <1>1, FreeSettled DEF garbage_collection

\* The flags a reap leaves alone
LEMMA ReapedFlags ==
  ASSUME NEW j \in Job
  PROVE  job_reap(j).flags = reaped_flags(j)
<1> DEFINE rk == reaped_kernel(j)
           st == reaped_status(j)
           fl == reaped_flags(j)
           tm == reaped_timers(j)
           u  == "crashed" \in reaped_flags(j) /\ Key("MachServices") /\ Drains
           k  == [rk EXCEPT !.status = st, !.flags = fl, !.undrained = u, !.timers = tm]
<1>1. rk \in Job
  BY ReapedKernel
<1>2. job_reap(j) = reap_reset(reap_drain(k))
  BY Zenon DEF job_reap
<1> HIDE DEF rk, st, fl, tm, u
<1>3. k = [rk EXCEPT !.status = st, !.flags = fl, !.undrained = u, !.timers = tm]
      /\ k.flags = fl /\ DOMAIN k = DOMAIN rk
  BY <1>1 DEF Job
<1> HIDE DEF k
<1>4. reap_drain(k).flags = fl /\ DOMAIN reap_drain(k) = DOMAIN rk
  BY <1>3 DEF reap_drain, machservice_drain_port
<1>5. reap_reset(reap_drain(k)).flags = fl
  <2> DEFINE d == reap_drain(k)
  <2> HIDE DEF d
  <2>1. reap_reset(d).flags = d.flags
    BY DEF reap_reset, machservice_resetport
  <2> QED
    BY <1>4, <2>1 DEF d
<1> QED
  BY <1>2, <1>5 DEF fl

\* A started job has a pid or a timer, and its removal is not pending.
LEMMA StartSettles ==
  ASSUME NEW j, Sound(j), NEW m, NEW f \in ForkOutcomes, ~Has(j, "removal_pending")
  PROVE  Settled(job_start(j, f), m) \/ job_active(j)
<1> SUFFICES ASSUME ~job_active(j) PROVE Settled(job_start(j, f), m)
  OBVIOUS
<1>1. ASSUME NEW k \in Job, TimerSet(k), ~Has(k, "removal_pending")
      PROVE  Settled(job_ignore(k), m)
  BY <1>1, IgnoreAgrees, AgreeSettled DEF Settled
<1>2. CASE throttled(j)
  <2> DEFINE tm == (j.timers \ {"due"}) \cup {"job"}
             k  == [j EXCEPT !.timers = tm]
  <2>1. tm \in SUBSET Timer /\ "job" \in tm
    BY DEF Sound, Job, Timer
  <2>2. job_start(j, f) = job_ignore(k)
    BY <1>2 DEF job_start
  <2> HIDE DEF tm
  <2>3. k \in Job /\ TimerSet(k) /\ ~Has(k, "removal_pending")
    BY <2>1 DEF Sound, Job, TimerSet, Has
  <2> QED
    BY <1>1, <2>2, <2>3
<1>3. CASE ~throttled(j) /\ f = "forkfail"
  <2> DEFINE tm == (j.timers \ {"job"}) \cup {"due"}
             k  == [j EXCEPT !.timers = tm]
  <2>1. tm \in SUBSET Timer /\ "due" \in tm
    BY DEF Sound, Job, Timer
  <2>2. job_start(j, f) = job_ignore(k)
    BY <1>3 DEF job_start
  <2> HIDE DEF tm
  <2>3. k \in Job /\ TimerSet(k) /\ ~Has(k, "removal_pending")
    BY <2>1 DEF Sound, Job, TimerSet, Has
  <2> QED
    BY <1>1, <2>2, <2>3
<1>4. CASE ~throttled(j) /\ f = "noattach"
  <2> DEFINE z == [forked(j) EXCEPT !.child = "zombie", !.fate = "killed"]
             r == job_reap(z)
  <2>1. job_start(j, f) = job_watch(r)
    BY <1>4 DEF job_start
  <2>2. Sound(forked(j)) /\ "removal_pending" \notin forked(j).flags
    <3>1. Sound(forked(j)) /\ forked(j).flags = forked_flags(j)
      BY ForkedSound DEF forked, Sound, Job
    <3> QED
      BY <3>1 DEF forked_flags, Has
  <2>3. z \in Job /\ "removal_pending" \notin z.flags
        /\ (z.exists => (Has(z, "isActive") <=> z.right # "launchd"))
    <3> DEFINE y == forked(j)
    <3>1. y \in Job /\ "removal_pending" \notin y.flags
          /\ (y.exists => (Has(y, "isActive") <=> y.right # "launchd"))
      BY <2>2 DEF Sound, Consistent
    <3>2. z = [y EXCEPT !.child = "zombie", !.fate = "killed"]
      OBVIOUS
    <3> HIDE DEF y, z
    <3>3. z \in Job
      BY <3>1, <3>2 DEF Job, Outcomes
    <3>4. z.flags = y.flags /\ z.exists = y.exists /\ z.right = y.right
      BY <3>1, <3>2 DEF Job
    <3> QED
      BY <3>1, <3>3, <3>4 DEF Has
  <2> HIDE DEF z
  <2>4. r \in Job /\ "removal_pending" \notin r.flags
    <3>1. "removal_pending" \notin reaped_flags(z)
      BY <2>3 DEF reaped_flags, When
    <3> QED
      BY <2>3, <3>1, ReapSound, ReapedFlags DEF Sound
  <2> HIDE DEF r
  <2>5. Settled(r, m)
    BY <1>4, <2>4 DEF Settled, Has
  <2> QED
    BY <2>1, <2>4, <2>5, WatchAgrees, AgreeSettled
<1>5. CASE ~throttled(j) /\ f = "ok"
  <2>1. job_start(j, f) = job_ignore(forked(j))
    BY <1>5 DEF job_start
  <2>2. forked(j) \in Job /\ "p" \in forked(j).flags
    <3>1. Sound(forked(j)) /\ forked(j).flags = forked_flags(j)
      BY ForkedSound DEF forked, Sound, Job
    <3> QED
      BY <3>1 DEF forked_flags, Sound
  <2>3. Settled(forked(j), m)
    BY <2>2, RunningSettled DEF Has
  <2> QED
    BY <2>1, <2>2, <2>3, IgnoreAgrees, AgreeSettled
<1> QED
  BY <1>2, <1>3, <1>4, <1>5, ForkAssumption

\* What job_dispatch() promises.
LEMMA DispatchSettles ==
  ASSUME NEW j, Sound(j), NEW m \in Mgr, NEW kick \in BOOLEAN, NEW f \in ForkOutcomes
  PROVE  Settled(job_dispatch(j, m, kick, f), m)
<1>1. CASE Has(j, "waiting4ok") \/ job_active(j)
  <2>1. job_dispatch(j, m, kick, f) = j
    BY <1>1 DEF job_dispatch
  <2> QED
    BY <1>1, <2>1 DEF Settled, Idle
<1>2. CASE Idle(j) /\ job_useless(j, m)
  <2>1. job_dispatch(j, m, kick, f) = job_free(j)
    BY <1>2 DEF job_dispatch, Idle
  <2> QED
    BY <2>1, FreeSettled
<1>3. CASE Idle(j) /\ ~job_useless(j, m) /\ (kick \/ job_keepalive(j, m))
  <2> DEFINE w == j.wanted \/ job_keepalive(j, m)
             k == [j EXCEPT !.wanted = w]
  <2>1. w \in BOOLEAN
    BY Zenon
  <2>2. job_dispatch(j, m, kick, f) = job_start(k, f)
    BY <1>3 DEF job_dispatch, Idle
  <2>3. ~Has(j, "removal_pending")
    BY <1>3 DEF job_useless
  <2> HIDE DEF w
  <2>4. k \in Job /\ Consistent(k) /\ k.flags = j.flags
    BY <2>1 DEF Sound, Job, Consistent, Has
  <2> HIDE DEF k
  <2>5. ~job_active(k) /\ ~Has(k, "removal_pending")
    BY <1>3, <2>3, <2>4 DEF Idle, job_active, Has
  <2> QED
    BY <2>2, <2>4, <2>5, StartSettles DEF Sound
<1>4. CASE Idle(j) /\ ~job_useless(j, m) /\ ~(kick \/ job_keepalive(j, m))
  <2>1. job_dispatch(j, m, kick, f) = job_watch(j)
    BY <1>4 DEF job_dispatch, Idle
  <2>2. Settled(j, m)
    BY <1>4 DEF Settled, job_useless, job_keepalive
  <2> QED
    BY <2>1, <2>2, WatchAgrees, AgreeSettled DEF Sound
<1> QED
  BY <1>1, <1>2, <1>3, <1>4 DEF Idle

-----------------------------------------------------------------------------
(* Every handler leaves the job settled.                                   *)

SettledInv == SoundInv /\ Settled(job, mgr)

\* A job that was just imported is settled.
LEMMA SettledInit == Init => SettledInv
<1> SUFFICES ASSUME Init PROVE Settled(job, mgr)
  BY SoundInit DEF SettledInv
<1>1. cfg \in SUBSET Keys /\ mgr \in Mgr
  BY ConfigsAssumption, SoundInit DEF SoundInv, Init
<1>2. Sound(job_new(cfg)) /\ ~Has(job_new(cfg), "removal_pending")
  BY <1>1, NewSound DEF job_new, Has, When
<1>3. CASE Key("legacy_mach_job")
  <2>1. job = job_new(cfg)
    BY <1>3 DEF Init
  <2>2. Has(job_new(cfg), "priv_port_has_senders")
    BY <1>3 DEF job_new, Has, When, Key
  <2> QED
    BY <1>2, <2>1, <2>2 DEF Settled, Idle, job_active
<1>4. CASE ~Key("legacy_mach_job")
  <2>1. PICK f \in ForkOutcomes : job = job_dispatch(job_new(cfg), mgr, FALSE, f)
    BY <1>4 DEF Init
  <2> QED
    BY <1>1, <1>2, <2>1, DispatchSettles
<1> QED
  BY <1>3, <1>4

\* Every handler leaves the job settled.
LEMMA SettledNext == SettledInv /\ [Next]_vars => SettledInv'
<1> SUFFICES ASSUME SettledInv, [Next]_vars PROVE SettledInv'
  OBVIOUS
<1> DEFINE Preserved == cfg' = cfg /\ Settled(job', mgr')
<1>1. /\ cfg \in SUBSET Keys /\ mgr \in Mgr /\ Sound(job) /\ job \in Job
      /\ Settled(job, mgr)
  BY ConfigsAssumption DEF SettledInv, SoundInv, Sound
<1>2. ASSUME NEW k, Sound(k), NEW f \in ForkOutcomes, NEW b \in BOOLEAN
      PROVE  /\ Sound(job_dispatch(k, mgr, b, f))
             /\ job_dispatch(k, mgr, b, f) \in Job
             /\ Settled(job_dispatch(k, mgr, b, f), mgr)
  BY <1>1, <1>2, DispatchSound, DispatchSettles DEF Sound
<1>3. ASSUME NEW k, Sound(k), Agree(job, k)
      PROVE  Settled(k, mgr)
  BY <1>1, <1>3, AgreeSettled
<1>4. ASSUME NEW f \in ForkOutcomes, NEW s \in TermSignals, ProcEvent(f, s)
      PROVE  Preserved
  <2> DEFINE execd == Set([job EXCEPT !.notes = {}], When("EXEC" \in job.notes, {"did_exec"}))
             ended == Set(execd, When(job.fate \in {"jetClean", "jetDirty"}, {"jettisoned"}))
  <2>1. Sound([job EXCEPT !.notes = {}])
    BY <1>1 DEF Sound, Job, Consistent, Has
  <2>2. Sound(execd) /\ Sound(ended)
    BY <2>1, SetSound DEF When, Flag
  <2>3. Has(execd, "p")
    BY <1>1, <1>4 DEF ProcEvent, Set, Has, Job
  <2>4. Sound(job_reap(ended))
    BY <2>2, ReapSound DEF Sound, Consistent
  <2> DEFINE d == job_dispatch(job_reap(ended), mgr, FALSE, f)
  <2>5. d \in Job /\ Settled(d, mgr)
    BY <2>4, <1>2
  <2>6. execd \in Job /\ Settled(execd, mgr)
    BY <2>2, <2>3, RunningSettled DEF Sound
  <2>7. /\ cfg' = cfg /\ mgr' = mgr
        /\ job' \in {garbage_collection(d, mgr, s), garbage_collection(execd, mgr, s)}
    BY <1>4 DEF ProcEvent
  <2> HIDE DEF d, execd
  <2> QED
    BY <2>5, <2>6, <2>7, CollectSettles
<1>5. ASSUME NEW f \in ForkOutcomes, NEW s \in TermSignals, ExitTimer(f, s)
      PROVE  Preserved
  <2> DEFINE fired == [job EXCEPT !.timers = @ \ {"exit"}]
             sim   == Set(fired, {"workaround9359725"})
             d     == job_dispatch(job_reap(sim), mgr, FALSE, f)
  <2>1. Sound(fired) /\ Agree(job, fired) /\ fired.flags = job.flags
    BY <1>1 DEF Sound, Job, Consistent, Has, Agree, TimerSet
  <2>2. Sound(sim)
    BY <2>1, SetSound DEF Flag
  <2>3. Sound(job_reap(sim))
    BY <2>2, ReapSound DEF Sound, Consistent
  <2>4. Settled(garbage_collection(d, mgr, s), mgr)
    BY <2>3, <1>2, CollectSettles
  <2>5. Has(job, "p") => Has(job_kill(fired, s), "p")
    BY <2>1 DEF job_kill, Has, Sound, Job
  <2>6. Settled(fired, mgr) /\ (Has(job, "p") => Settled(job_kill(fired, s), mgr))
    BY <1>3, <2>1, <2>5, RunningSettled
  <2> HIDE DEF fired, sim, d
  <2> QED
    BY <1>5, <2>4, <2>6 DEF ExitTimer, fired, sim, d
<1>6. ASSUME NEW f \in ForkOutcomes, NEW s \in TermSignals, PortDestroyed(f, s)
      PROVE  Preserved
  <2> DEFINE back    == [job EXCEPT !.right = "launchd"]
             drain   == IF Drains /\ {"crashed", "reaped"} \subseteq job.flags
                        THEN machservice_drain_port(back) ELSE back
             idle    == Clear(drain, {"isActive"})
             reset   == IF Key("ResetAtClose") THEN machservice_resetport(idle) ELSE idle
             run     == job_dispatch(reset, mgr, FALSE, f)
             watched == IF Has(run, "recv_race_hack")
                        THEN machservice_watch(Clear(run, {"recv_race_hack"}))
                        ELSE run
  <2>1. Sound(reset)
    BY <1>1, ReturnSound
  <2>2. Sound(run) /\ run \in Job /\ Settled(run, mgr)
    BY <2>1, <1>2
  <2> HIDE DEF run
  <2>3. Settled(watched, mgr) /\ watched \in Job
    <3> DEFINE c == Clear(run, {"recv_race_hack"})
    <3>1. Sound(c) /\ Settled(c, mgr) /\ c \in Job
      BY <2>2, SetSound, OtherFlagsAgree, AgreeSettled DEF Flag, Telling, Sound
    <3> HIDE DEF c
    <3>2. Settled(machservice_watch(c), mgr) /\ machservice_watch(c) \in Job
      BY <3>1, WatchSound, WatchAgrees, AgreeSettled DEF Sound
    <3> QED
      BY <2>2, <3>2 DEF c
  <2>4. cfg' = cfg /\ mgr' = mgr /\ job' = garbage_collection(watched, mgr, s)
    BY <1>6 DEF PortDestroyed, run
  <2> HIDE DEF watched
  <2> QED
    BY <2>3, <2>4, CollectSettles
<1>7. ASSUME NEW f \in ForkOutcomes,
             \/ StartCommand(f) \/ JobTimer(f) \/ IntervalTimer(f) \/ MachDemand(f)
             \/ NoSenders(f) \/ ProviderReady(f)
      PROVE  Preserved
  <2>1. Sound(Kicked(job)) /\ Sound(Set(job, {"start_pending"}))
        /\ Sound(Clear(job, {"priv_port_has_senders"})) /\ Sound(Clear(job, {"waiting4ok"}))
    BY <1>1, KickedSound, SetSound DEF Flag
  <2>2. Sound([job EXCEPT !.timers = @ \ {"due"}])
    BY <1>1 DEF Sound, Job, Consistent, Has
  <2> QED
    BY <1>2, <1>7, <2>1, <2>2
       DEF StartCommand, JobTimer, IntervalTimer, MachDemand, NoSenders, ProviderReady
<1>8. ASSUME NEW f \in ForkOutcomes, VolumeMounted(f)
      PROVE  Preserved
  <2> DEFINE mount == Set(job, When(Key("StartOnMount"), {"start_pending"}))
             all   == IF mgr.shutting_down THEN job ELSE job_dispatch(mount, mgr, FALSE, f)
  <2>1. Sound(mount)
    BY <1>1, SetSound DEF When, Flag
  <2>2. Sound(all) /\ Settled(all, mgr)
    BY <1>1, <1>2, <2>1
  <2>3. Settled(job_dispatch(all, mgr, FALSE, f), mgr)
    BY <1>2, <2>2
  <2> QED
    BY <1>8, <2>2, <2>3 DEF VolumeMounted
<1>9. ASSUME NEW f \in ForkOutcomes, GlobalOnDemand(f) \/ NetworkChange(f)
      PROVE  Preserved
  <2>1. mgr' \in Mgr /\ cfg' = cfg
    BY <1>1, <1>9 DEF GlobalOnDemand, NetworkChange, Mgr
  <2>2. Settled(job_dispatch(job, mgr', FALSE, f), mgr')
    BY <1>1, <2>1, DispatchSettles
  <2>3. CASE job' = job_dispatch(job, mgr', FALSE, f)
    BY <2>1, <2>2, <2>3
  <2>4. CASE job' = job /\ ~job.exists
    BY <1>1, <2>1, <2>4 DEF Settled
  <2>5. CASE job' = job /\ (mgr'.shutting_down \/ mgr'.global_on_demand)
    BY <1>1, <2>1, <2>5 DEF Settled, may_keepalive
  <2> QED
    BY <1>1, <1>9, <2>3, <2>4, <2>5 DEF GlobalOnDemand, NetworkChange, Mgr
<1>10. ASSUME NEW s \in TermSignals, StopCommand(s)
       PROVE  Preserved
  BY <1>1, <1>10, StopAgrees, AgreeSettled DEF StopCommand
<1>11. ASSUME NEW s \in TermSignals, NEW b \in BOOLEAN, RemoveCommand(s, b)
       PROVE  Preserved
  <2> DEFINE r == job_remove(job, mgr, s)
             k == Set(job, {"removal_pending"})
  <2>1. CASE ~Has(job, "p")
    <3>1. job' = job_free(job)
      BY <1>11, <2>1 DEF RemoveCommand, job_remove
    <3> QED
      BY <1>11, <3>1, FreeSettled DEF RemoveCommand
  <2>2. CASE Has(job, "p")
    <3>1. k \in Job /\ Has(k, "p")
      BY <1>1, <2>2 DEF Set, Job, Has, Flag
    <3> HIDE DEF k
    <3>2. Has(job_stop(k, mgr, s), "p")
      BY <3>1, StopAgrees DEF Agree, Telling, Has
    <3>3. r \in {job, job_stop(k, mgr, s)}
      BY <2>2 DEF job_remove, k
    <3>4. Has(r, "p")
      BY <2>2, <3>2, <3>3
    <3>5. r \in Job
      BY <1>1, SignalsAssumption, CollectSound DEF TermSignals, Sound
    <3> HIDE DEF r
    <3>6. Has(Set(r, {"removal_watcher"}), "p")
      BY <3>4, <3>5 DEF Set, Has, Job
    <3>7. cfg' = cfg /\ mgr' = mgr /\ job' \in {r, Set(r, {"removal_watcher"})}
      BY <1>11 DEF RemoveCommand, r
    <3> QED
      BY <3>4, <3>6, <3>7, RunningSettled
  <2> QED
    BY <2>1, <2>2
<1>12. ASSUME NEW s \in TermSignals, Shutdown(s)
       PROVE  Preserved
  <2>1. mgr' \in Mgr /\ mgr'.shutting_down /\ cfg' = cfg
    BY <1>1, <1>12 DEF Shutdown, Mgr
  <2>2. Settled(job, mgr')
    BY <1>1, <2>1 DEF Settled, may_keepalive
  <2> QED
    BY <1>1, <1>12, <2>1, <2>2, CollectSettles DEF Shutdown
<1>13. ASSUME CheckIn \/ \E v \in BOOLEAN : SwapKeepAlive(v)
       PROVE  Preserved
  <2>1. CASE CheckIn
    <3> DEFINE k == Set(job, {"isActive", "checkedin"})
    <3>1. k \in Job /\ Has(k, "p")
      BY <1>1, <2>1 DEF CheckIn, Set, Job, Has, Flag
    <3> HIDE DEF k
    <3>2. Has([k EXCEPT !.right = "child", !.inset = FALSE], "p")
      BY <3>1 DEF Has, Job
    <3> QED
      BY <2>1, <3>2, RunningSettled DEF CheckIn, k
  <2>2. CASE \E v \in BOOLEAN : SwapKeepAlive(v)
    <3>1. Has(job, "p") /\ cfg' = cfg /\ mgr' = mgr
          /\ job' \in {Clear(job, {"ondemand"}), Set(job, {"ondemand"})}
      BY <2>2 DEF SwapKeepAlive
    <3>2. Has(Clear(job, {"ondemand"}), "p") /\ Has(Set(job, {"ondemand"}), "p")
      BY <1>1, <3>1 DEF Clear, Set, Has, Job
    <3> QED
      BY <3>1, <3>2, RunningSettled
  <2> QED
    BY <1>13, <2>1, <2>2
<1>14. ASSUME \/ ChildExec \/ (\E o \in ExitOutcomes : ChildExit(o))
              \/ OrphanExit \/ DropRight \/ ClientSends \/ ChildReceives
       PROVE  Preserved
  <2>1. cfg' = cfg /\ mgr' = mgr
    BY <1>14 DEF ChildExec, ChildExit, OrphanExit, DropRight, ClientSends, ChildReceives
  <2>2. /\ job'.exists = job.exists /\ job'.status = job.status
        /\ job'.timers = job.timers /\ job'.flags = job.flags
    BY <1>1, <1>14
       DEF ChildExec, ChildExit, OrphanExit, DropRight, ClientSends, ChildReceives, Job
  <2>3. Agree(job, job')
    BY <2>2 DEF Agree, TimerSet
  <2> QED
    BY <1>1, <2>1, <2>3, AgreeSettled
<1>15. ASSUME TimePasses
       PROVE  Preserved
  <2> DEFINE tm == IF "job" \in job.timers THEN (job.timers \ {"job"}) \cup {"due"}
                   ELSE job.timers
  <2>1. TimerSet(job) => tm \cap {"job", "due"} # {}
    BY DEF TimerSet
  <2>2. cfg' = cfg /\ mgr' = mgr /\ job' = [job EXCEPT !.young = FALSE, !.timers = tm]
    BY <1>15 DEF TimePasses
  <2> HIDE DEF tm
  <2>3. Agree(job, [job EXCEPT !.young = FALSE, !.timers = tm])
    BY <1>1, <2>1 DEF Agree, TimerSet, Job
  <2> QED
    BY <1>1, <2>2, <2>3, AgreeSettled
<1>16. ASSUME UNCHANGED vars
       PROVE  Preserved
  BY <1>1, <1>16 DEF vars
<1>17. Preserved
  <2> HIDE DEF Preserved
  <2>1. CASE \E f \in ForkOutcomes, s \in TermSignals :
               ProcEvent(f, s) \/ ExitTimer(f, s) \/ PortDestroyed(f, s)
    BY <1>4, <1>5, <1>6, <2>1
  <2>2. CASE \E f \in ForkOutcomes :
               \/ StartCommand(f) \/ JobTimer(f) \/ IntervalTimer(f) \/ MachDemand(f)
               \/ NoSenders(f) \/ ProviderReady(f) \/ VolumeMounted(f)
               \/ GlobalOnDemand(f) \/ NetworkChange(f)
    BY <1>7, <1>8, <1>9, <2>2
  <2>3. CASE \E s \in TermSignals :
               StopCommand(s) \/ Shutdown(s) \/ \E b \in BOOLEAN : RemoveCommand(s, b)
    BY <1>10, <1>11, <1>12, <2>3
  <2>4. CASE \/ CheckIn \/ (\E v \in BOOLEAN : SwapKeepAlive(v))
             \/ ChildExec \/ (\E o \in ExitOutcomes : ChildExit(o))
             \/ OrphanExit \/ DropRight \/ ClientSends \/ ChildReceives \/ TimePasses
    BY <1>13, <1>14, <1>15, <2>4
  <2>5. Next \/ UNCHANGED vars
    OBVIOUS
  <2> QED
    BY <1>16, <2>1, <2>2, <2>3, <2>4, <2>5 DEF Next
<1>18. SoundInv'
  BY SoundNext DEF SettledInv
<1> QED
  BY <1>17, <1>18
     DEF SettledInv, Settled, Idle, job_active, TimerSet, may_keepalive, standing_reason,
         semaphore_wanted, Has, Key

\* A job is always settled.
LEMMA SettledAlways == Spec => []SettledInv
BY SettledInit, SettledNext, PTL DEF Spec

\* A removal that is pending waits for a process, or for the rights or the
\* event that process left behind: no handler forgets a removal.
THEOREM RemovalSettled == Spec => []RemovalWaitsForExit
<1>1. SettledInv => RemovalWaitsForExit
  BY DEF SettledInv, Settled, Idle, RemovalWaitsForExit
<1> QED
  BY SettledAlways, <1>1, PTL

\* If the kevent can always be attached to the child, no handler leaves a
\* job dead that job_keepalive() has a reason to run: not even a failing
\* fork(), a crash, a change of the network or the end of on-demand mode.
THEOREM KeepAliveSettled ==
  ASSUME "noattach" \notin ForkOutcomes
  PROVE  Spec => []KeptAlive
<1>1. SettledInv => KeptAlive
  BY DEF SettledInv, Settled, Idle, TimerSet, KeptAlive
<1> QED
  BY SettledAlways, <1>1, PTL

-----------------------------------------------------------------------------
(* Wakeups: an invariant that ties currently_ignored to the demand set, if *)
(* the kevent can always be attached to the child.  It is needed: a job    *)
(* whose child could not be attached to is watched without having been     *)
(* ignored, which does nothing.                                            *)

Ignored(j) == Has(j, "currently_ignored")

\* What a handler may rely on when it dispatches the job, even between the
\* return of the receive right and the watch that recv_race_hack asks for
Hearing(j) ==
  j.exists /\ Key("MachServices") =>
    /\ Has(j, "p") => Ignored(j)
    /\ ~Ignored(j) => j.inset \/ Has(j, "recv_race_hack")

\* A job that is not ignored has its port in the set, or remembers to add it
\* when the right is back
Watching(j) ==
  j.exists /\ Key("MachServices") /\ ~Ignored(j) =>
    IF j.right = "launchd" THEN j.inset ELSE Has(j, "recv_race_hack")

\* A job that is ignored has someone to dispatch it later
Reachable(j) ==
  j.exists /\ Key("MachServices") /\ Ignored(j) => ~Idle(j) \/ TimerSet(j)

Heard(j) == Hearing(j) /\ Watching(j) /\ Reachable(j)

\* k is as well heard as j
SameWatch(j, k) ==
  /\ Agree(j, k)
  /\ k.inset = j.inset /\ k.right = j.right
  /\ Ignored(k) <=> Ignored(j)
  /\ Has(k, "recv_race_hack") <=> Has(j, "recv_race_hack")

\* What is watched alike is heard alike.
LEMMA SameWatchHeard ==
  ASSUME NEW j, NEW k, SameWatch(j, k)
  PROVE  /\ Hearing(j) => Hearing(k)
         /\ Watching(j) => Watching(k)
         /\ Reachable(j) => Reachable(k)
<1>1. Idle(k) <=> Idle(j)
  BY Zenon DEF SameWatch, Agree, Telling, Idle, job_active, Has
<1>2. (Has(k, "p") <=> Has(j, "p")) /\ k.exists = j.exists /\ (TimerSet(j) => TimerSet(k))
  BY DEF SameWatch, Agree, Telling, Has
<1> QED
  BY <1>1, <1>2 DEF SameWatch, Hearing, Watching, Reachable

\* A job that runs is ignored, and heard as such.
LEMMA RunningHeard ==
  ASSUME NEW j, Has(j, "p"), Key("MachServices") => Ignored(j)
  PROVE  Heard(j)
BY DEF Heard, Hearing, Watching, Reachable, Idle, job_active

\* A job that is gone or has no service has nothing to hear.
LEMMA GoneHeard ==
  ASSUME NEW j, ~j.exists \/ ~Key("MachServices")
  PROVE  Heard(j)
BY DEF Heard, Hearing, Watching, Reachable

\* A job that is freed has nothing to hear.
LEMMA FreeHeard ==
  ASSUME NEW j
  PROVE  Heard(job_free(j))
<1>1. ~job_free(j).exists
  BY DEF job_free, job_new
<1> QED
  BY <1>1, GoneHeard

\* job_stop() changes nothing of what is watched.
LEMMA StopSameWatch ==
  ASSUME NEW j \in Job, NEW m, NEW s
  PROVE  SameWatch(j, job_stop(j, m, s))
<1> DEFINE sg == signalled(j, s)
           fl == stop_flags(j, s)
           tm == stop_timers(j, m, s)
           k  == [j EXCEPT !.sig = sg, !.flags = fl, !.timers = tm]
<1>1. /\ "currently_ignored" \in fl <=> "currently_ignored" \in j.flags
      /\ "recv_race_hack" \in fl <=> "recv_race_hack" \in j.flags
  BY DEF stop_flags, When
<1>2. job_stop(j, m, s) \in {j, k}
  BY DEF job_stop
<1> HIDE DEF sg, fl, tm
<1>3. k.inset = j.inset /\ k.right = j.right /\ k.flags = fl
  BY DEF Job
<1> HIDE DEF k
<1> QED
  BY <1>1, <1>2, <1>3, StopAgrees DEF SameWatch, Ignored, Has

\* The collection leaves the job heard.
LEMMA CollectHeard ==
  ASSUME NEW j \in Job, NEW m, NEW s, Heard(j)
  PROVE  Heard(garbage_collection(j, m, s))
<1>1. Heard(job_stop(j, m, s))
  BY StopSameWatch, SameWatchHeard DEF Heard
<1> QED
  BY <1>1, FreeHeard DEF garbage_collection

\* job_ignore() makes the job ignored.
LEMMA IgnoreHeard ==
  ASSUME NEW j \in Job, ~Idle(j) \/ TimerSet(j)
  PROVE  Heard(job_ignore(j)) /\ job_ignore(j).right = j.right
<1> DEFINE k == job_ignore(j)
<1>1. Ignored(k) /\ k.right = j.right
  BY DEF job_ignore, Set, Ignored, Has, Job
<1>2. Agree(j, k)
  BY IgnoreAgrees
<1> HIDE DEF k
<1>3. (Idle(k) <=> Idle(j)) /\ (TimerSet(j) => TimerSet(k))
  BY <1>2, Zenon DEF Agree, Telling, Idle, job_active, Has
<1> QED
  BY <1>1, <1>3 DEF Heard, Hearing, Watching, Reachable, k

\* job_start() leaves the job heard.
LEMMA StartHeard ==
  ASSUME NEW j, Sound(j), NEW f \in ForkOutcomes, "noattach" \notin ForkOutcomes,
         ~job_active(j)
  PROVE  Heard(job_start(j, f)) /\ job_start(j, f).right = j.right
<1>1. CASE throttled(j)
  <2> DEFINE tm == (j.timers \ {"due"}) \cup {"job"}
             k  == [j EXCEPT !.timers = tm]
  <2>1. tm \in SUBSET Timer /\ "job" \in tm
    BY DEF Sound, Job, Timer
  <2>2. job_start(j, f) = job_ignore(k)
    BY <1>1 DEF job_start
  <2> HIDE DEF tm
  <2>3. k \in Job /\ TimerSet(k) /\ k.right = j.right
    BY <2>1 DEF Sound, Job, TimerSet
  <2> QED
    BY <2>2, <2>3, IgnoreHeard
<1>2. CASE ~throttled(j) /\ f = "forkfail"
  <2> DEFINE tm == (j.timers \ {"job"}) \cup {"due"}
             k  == [j EXCEPT !.timers = tm]
  <2>1. tm \in SUBSET Timer /\ "due" \in tm
    BY DEF Sound, Job, Timer
  <2>2. job_start(j, f) = job_ignore(k)
    BY <1>2 DEF job_start
  <2> HIDE DEF tm
  <2>3. k \in Job /\ TimerSet(k) /\ k.right = j.right
    BY <2>1 DEF Sound, Job, TimerSet
  <2> QED
    BY <2>2, <2>3, IgnoreHeard
<1>3. CASE ~throttled(j) /\ f = "ok"
  <2>1. job_start(j, f) = job_ignore(forked(j))
    BY <1>3 DEF job_start
  <2>2. Sound(forked(j)) /\ forked(j).flags = forked_flags(j) /\ forked(j).right = j.right
    BY ForkedSound DEF forked, Sound, Job
  <2>3. ~Idle(forked(j))
    BY <2>2 DEF forked_flags, Idle, job_active, Has
  <2> QED
    BY <2>1, <2>2, <2>3, IgnoreHeard DEF Sound
<1> QED
  BY <1>1, <1>2, <1>3, ForkAssumption

\* job_watch() makes the job heard.
LEMMA WatchHeard ==
  ASSUME NEW j \in Job, Idle(j), Hearing(j)
  PROVE  /\ Hearing(job_watch(j)) /\ Reachable(job_watch(j))
         /\ Watching(j) => Watching(job_watch(j))
         /\ job_watch(j).right = j.right
<1>1. CASE ~Ignored(j)
  <2>1. job_watch(j) = j
    BY <1>1 DEF job_watch, Ignored
  <2> QED
    BY <1>1, <2>1 DEF Reachable
<1>2. CASE Ignored(j)
  <2> DEFINE c == Clear(j, {"currently_ignored"})
             w == machservice_watch(c)
  <2>1. c \in Job /\ c.right = j.right /\ ~Ignored(c) /\ ~Has(c, "p")
    BY DEF Clear, Job, Ignored, Has, Idle, job_active
  <2>2. job_watch(j) = w
    BY <1>2 DEF job_watch, Ignored
  <2> HIDE DEF c
  <2>3. CASE ~Key("MachServices")
    <3>1. w = c
      BY <2>3 DEF machservice_watch
    <3> QED
      BY <2>1, <2>2, <2>3, <3>1 DEF Hearing, Reachable, Watching
  <2>4. CASE Key("MachServices") /\ c.right = "launchd"
    <3>1. w = [c EXCEPT !.inset = TRUE]
      BY <2>4 DEF machservice_watch
    <3>2. w.inset /\ w.right = c.right /\ w.flags = c.flags
      BY <2>1, <3>1 DEF Job
    <3> HIDE DEF w
    <3> QED
      BY <2>1, <2>2, <3>2, <2>4 DEF Hearing, Reachable, Watching, Ignored, Has
  <2>5. CASE Key("MachServices") /\ c.right # "launchd"
    <3>1. w = Set(c, {"recv_race_hack"})
      BY <2>5 DEF machservice_watch
    <3>2. w.right = c.right /\ Has(w, "recv_race_hack") /\ ~Ignored(w) /\ ~Has(w, "p")
      BY <2>1, <3>1 DEF Job, Set, Has, Ignored
    <3> HIDE DEF w
    <3> QED
      BY <2>1, <2>2, <3>2, <2>5 DEF Hearing, Reachable, Watching
  <2> QED
    BY <2>3, <2>4, <2>5
<1> QED
  BY <1>1, <1>2

\* job_dispatch() leaves the job heard.
LEMMA DispatchHeard ==
  ASSUME NEW j, Sound(j), NEW m \in Mgr, NEW kick \in BOOLEAN, NEW f \in ForkOutcomes,
         "noattach" \notin ForkOutcomes, Hearing(j)
  PROVE  LET d == job_dispatch(j, m, kick, f)
         IN  /\ Hearing(d) /\ Reachable(d)
             /\ Watching(j) => Watching(d)
             /\ d.exists => d.right = j.right
<1>1. CASE Has(j, "waiting4ok") \/ job_active(j)
  <2>1. job_dispatch(j, m, kick, f) = j
    BY <1>1 DEF job_dispatch
  <2> QED
    BY <1>1, <2>1 DEF Reachable, Idle
<1>2. CASE Idle(j) /\ job_useless(j, m)
  <2>1. job_dispatch(j, m, kick, f) = job_free(j)
    BY <1>2 DEF job_dispatch, Idle
  <2>2. ~job_free(j).exists
    BY DEF job_free, job_new
  <2> QED
    BY <2>1, <2>2, FreeHeard DEF Heard
<1>3. CASE Idle(j) /\ ~job_useless(j, m) /\ (kick \/ job_keepalive(j, m))
  <2> DEFINE w == j.wanted \/ job_keepalive(j, m)
             k == [j EXCEPT !.wanted = w]
  <2>1. w \in BOOLEAN
    BY Zenon
  <2>2. job_dispatch(j, m, kick, f) = job_start(k, f)
    BY <1>3 DEF job_dispatch, Idle
  <2> HIDE DEF w
  <2>3. k \in Job /\ Consistent(k) /\ k.flags = j.flags /\ k.right = j.right
    BY <2>1 DEF Sound, Job, Consistent, Has
  <2> HIDE DEF k
  <2>4. ~job_active(k)
    BY <1>3, <2>3 DEF Idle, job_active, Has
  <2> QED
    BY <2>2, <2>3, <2>4, StartHeard DEF Sound, Heard
<1>4. CASE Idle(j) /\ ~job_useless(j, m) /\ ~(kick \/ job_keepalive(j, m))
  <2>1. job_dispatch(j, m, kick, f) = job_watch(j)
    BY <1>4 DEF job_dispatch, Idle
  <2> QED
    BY <1>4, <2>1, WatchHeard DEF Sound
<1> QED
  BY <1>1, <1>2, <1>3, <1>4 DEF Idle

\* A reap keeps the job ignored.
LEMMA ReapHeard ==
  ASSUME NEW j \in Job, j.exists => (Has(j, "isActive") <=> j.right # "launchd"),
         Key("MachServices") => Ignored(j)
  PROVE  Hearing(job_reap(j)) /\ Watching(job_reap(j))
<1>1. Key("MachServices") => Ignored(job_reap(j))
  BY ReapedFlags DEF Ignored, Has, reaped_flags
<1> QED
  BY <1>1 DEF Hearing, Watching

-----------------------------------------------------------------------------
(* Every handler leaves the job heard.                                     *)

HeardInv == SoundInv /\ Heard(job)

\* The job is heard at first.
LEMMA HeardInit ==
  ASSUME "noattach" \notin ForkOutcomes
  PROVE  Init => HeardInv
<1> SUFFICES ASSUME Init PROVE Heard(job)
  BY SoundInit DEF HeardInv
<1>1. cfg \in SUBSET Keys /\ mgr \in Mgr
  BY ConfigsAssumption, SoundInit DEF SoundInv, Init
<1>2. Sound(job_new(cfg)) /\ Ignored(job_new(cfg))
  BY <1>1, NewSound DEF job_new, Has, When, Ignored
<1>3. Hearing(job_new(cfg)) /\ Watching(job_new(cfg))
  BY <1>2 DEF Hearing, Watching
<1>4. CASE Key("legacy_mach_job")
  <2>1. job = job_new(cfg)
    BY <1>4 DEF Init
  <2>2. Has(job_new(cfg), "priv_port_has_senders")
    BY <1>4 DEF job_new, Has, When, Key
  <2> QED
    BY <1>3, <2>1, <2>2 DEF Heard, Reachable, Idle, job_active
<1>5. CASE ~Key("legacy_mach_job")
  <2>1. PICK f \in ForkOutcomes : job = job_dispatch(job_new(cfg), mgr, FALSE, f)
    BY <1>5 DEF Init
  <2> QED
    BY <1>1, <1>2, <1>3, <2>1, DispatchHeard DEF Heard
<1> QED
  BY <1>4, <1>5

\* Every handler leaves the job heard if attaching cannot fail.
LEMMA HeardNext ==
  ASSUME "noattach" \notin ForkOutcomes
  PROVE  HeardInv /\ [Next]_vars => HeardInv'
<1> SUFFICES ASSUME HeardInv, [Next]_vars PROVE HeardInv'
  OBVIOUS
<1> DEFINE Preserved == cfg' = cfg /\ Heard(job')
<1>1. /\ cfg \in SUBSET Keys /\ mgr \in Mgr /\ Sound(job) /\ job \in Job
      /\ Heard(job) /\ Hearing(job) /\ Watching(job)
  BY ConfigsAssumption DEF HeardInv, SoundInv, Sound, Heard
<1>2. ASSUME NEW k, Sound(k), Hearing(k), Watching(k), NEW m \in Mgr,
             NEW f \in ForkOutcomes, NEW b \in BOOLEAN
      PROVE  /\ Sound(job_dispatch(k, m, b, f))
             /\ job_dispatch(k, m, b, f) \in Job
             /\ Heard(job_dispatch(k, m, b, f))
  BY <1>1, <1>2, DispatchSound, DispatchHeard DEF Sound, Heard
<1>3. ASSUME NEW k, SameWatch(job, k)
      PROVE  Heard(k)
  BY <1>1, <1>3, SameWatchHeard DEF Heard
<1>4. ASSUME NEW k, k.flags = job.flags, k.exists = job.exists, k.inset = job.inset,
             k.right = job.right
      PROVE  Hearing(k) /\ Watching(k)
  BY <1>1, <1>4 DEF Hearing, Watching, Ignored, Has
<1>5. ASSUME NEW F, F \cap {"p", "currently_ignored", "recv_race_hack"} = {}
      PROVE  /\ Hearing(Set(job, F)) /\ Watching(Set(job, F))
             /\ Hearing(Clear(job, F)) /\ Watching(Clear(job, F))
  <2>1. ASSUME NEW k, k.exists = job.exists, k.inset = job.inset, k.right = job.right,
               \A x \in {"p", "currently_ignored", "recv_race_hack"} :
                 x \in k.flags <=> x \in job.flags
        PROVE  Hearing(k) /\ Watching(k)
    BY <1>1, <2>1 DEF Hearing, Watching, Ignored, Has
  <2>2. /\ Set(job, F).exists = job.exists /\ Set(job, F).inset = job.inset
        /\ Set(job, F).right = job.right /\ Set(job, F).flags = job.flags \cup F
        /\ Clear(job, F).exists = job.exists /\ Clear(job, F).inset = job.inset
        /\ Clear(job, F).right = job.right /\ Clear(job, F).flags = job.flags \ F
    BY <1>1 DEF Set, Clear, Job
  <2> QED
    BY <1>5, <2>1, <2>2
<1>6. ASSUME NEW f \in ForkOutcomes, NEW s \in TermSignals, ProcEvent(f, s)
      PROVE  Preserved
  <2> DEFINE execd == Set([job EXCEPT !.notes = {}], When("EXEC" \in job.notes, {"did_exec"}))
             ended == Set(execd, When(job.fate \in {"jetClean", "jetDirty"}, {"jettisoned"}))
  <2>1. Sound([job EXCEPT !.notes = {}])
    BY <1>1 DEF Sound, Job, Consistent, Has
  <2>2. Sound(execd) /\ Sound(ended)
    BY <2>1, SetSound DEF When, Flag
  <2>3. /\ job.flags \subseteq execd.flags /\ job.flags \subseteq ended.flags
        /\ job.exists
    BY <1>1, <1>6 DEF ProcEvent, Set, Job
  <2> HIDE DEF execd, ended
  <2>4. /\ Has(execd, "p")
        /\ Key("MachServices") => Ignored(execd) /\ Ignored(ended)
    BY <1>1, <1>6, <2>3 DEF ProcEvent, Hearing, Ignored, Has
  <2> DEFINE d == job_dispatch(job_reap(ended), mgr, FALSE, f)
  <2>5. d \in Job /\ Heard(d)
    BY <1>1, <1>2, <2>2, <2>4, ReapSound, ReapHeard DEF Sound, Consistent
  <2>6. execd \in Job /\ Heard(execd)
    BY <2>2, <2>4, RunningHeard DEF Sound
  <2>7. /\ cfg' = cfg
        /\ job' \in {garbage_collection(d, mgr, s), garbage_collection(execd, mgr, s)}
    BY <1>6 DEF ProcEvent, execd, ended
  <2> HIDE DEF d
  <2> QED
    BY <2>5, <2>6, <2>7, CollectHeard
<1>7. ASSUME NEW f \in ForkOutcomes, NEW s \in TermSignals, ExitTimer(f, s)
      PROVE  Preserved
  <2> DEFINE fired == [job EXCEPT !.timers = @ \ {"exit"}]
             sim   == Set(fired, {"workaround9359725"})
             d     == job_dispatch(job_reap(sim), mgr, FALSE, f)
  <2>1. Sound(fired) /\ SameWatch(job, fired) /\ fired.flags = job.flags
    BY <1>1 DEF Sound, Job, Consistent, Has, Agree, TimerSet, SameWatch, Ignored
  <2>2. Sound(sim) /\ job.flags \subseteq sim.flags
    <3>1. Sound(sim)
      BY <2>1, SetSound DEF Flag
    <3>2. fired \in Job /\ fired.flags = job.flags
      BY <2>1 DEF Sound
    <3> HIDE DEF fired
    <3>3. job.flags \subseteq sim.flags
      BY <3>2 DEF Set, Job
    <3> QED
      BY <3>1, <3>3
  <2>3. Has(job, "p") /\ Key("MachServices") => Ignored(job) /\ Ignored(sim)
    BY <1>1, <1>7, <2>2 DEF ExitTimer, Hearing, Ignored, Has
  <2>4. Has(job, "p") => Heard(garbage_collection(d, mgr, s))
    <3> SUFFICES ASSUME Has(job, "p") PROVE Heard(garbage_collection(d, mgr, s))
      OBVIOUS
    <3> HIDE DEF sim
    <3>1. Sound(job_reap(sim)) /\ Hearing(job_reap(sim)) /\ Watching(job_reap(sim))
      BY <2>2, <2>3, ReapSound, ReapHeard DEF Sound, Consistent
    <3> QED
      BY <1>1, <1>2, <3>1, CollectHeard
  <2>5. Has(job, "p") => Heard(job_kill(fired, s))
    <3>1. job.flags \subseteq job_kill(fired, s).flags
      BY <2>1 DEF job_kill, Sound, Job
    <3> QED
      BY <2>3, <3>1, RunningHeard DEF Has, Ignored
  <2>6. Heard(fired)
    BY <1>3, <2>1
  <2> HIDE DEF fired, sim, d
  <2> QED
    BY <1>7, <2>4, <2>5, <2>6 DEF ExitTimer, fired, sim, d
<1>8. ASSUME NEW f \in ForkOutcomes, NEW s \in TermSignals, PortDestroyed(f, s)
      PROVE  Preserved
  <2> DEFINE back    == [job EXCEPT !.right = "launchd"]
             drain   == IF Drains /\ {"crashed", "reaped"} \subseteq job.flags
                        THEN machservice_drain_port(back) ELSE back
             idle    == Clear(drain, {"isActive"})
             reset   == IF Key("ResetAtClose") THEN machservice_resetport(idle) ELSE idle
             run     == job_dispatch(reset, mgr, FALSE, f)
             watched == IF Has(run, "recv_race_hack")
                        THEN machservice_watch(Clear(run, {"recv_race_hack"}))
                        ELSE run
  <2>1. Sound(reset)
    BY <1>1, ReturnSound
  <2>2. /\ reset.exists = job.exists /\ reset.right = "launchd"
        /\ reset.flags = job.flags \ {"isActive"}
    <3>1. back \in Job /\ back.exists = job.exists /\ back.right = "launchd"
          /\ back.flags = job.flags
      BY <1>1 DEF Job
    <3> HIDE DEF back
    <3>2. DOMAIN drain = DOMAIN back /\ drain.exists = job.exists
          /\ drain.right = "launchd" /\ drain.flags = job.flags
      BY <3>1 DEF machservice_drain_port, Job
    <3>3. DOMAIN back = {"exists", "flags", "status", "timers", "child", "fate", "sig",
                         "notes", "right", "inset", "msgs", "orphan", "young", "wanted",
                         "undrained"}
      BY <3>1 DEF Job
    <3> HIDE DEF drain
    <3>4. DOMAIN idle = DOMAIN back /\ idle.exists = job.exists
          /\ idle.right = "launchd" /\ idle.flags = job.flags \ {"isActive"}
      BY <3>2, <3>3 DEF Clear
    <3> HIDE DEF idle
    <3> QED
      BY <3>3, <3>4 DEF machservice_resetport
  <2>3. Hearing(reset)
    BY <1>1, <1>8, <2>2 DEF PortDestroyed, Hearing, Watching, Ignored, Has
  <2> HIDE DEF reset
  <2>4. /\ Sound(run) /\ run \in Job /\ Hearing(run) /\ Reachable(run)
        /\ run.exists => run.right = "launchd"
    BY <1>1, <2>1, <2>2, <2>3, DispatchSound, DispatchHeard DEF Sound
  <2> HIDE DEF run
  <2>5. Heard(watched) /\ watched \in Job
    <3>1. CASE ~run.exists \/ ~Key("MachServices")
      <4>1. watched.exists = run.exists /\ watched \in Job
        <5> DEFINE c == Clear(run, {"recv_race_hack"})
        <5>1. Sound(c) /\ c.exists = run.exists
          BY <2>4, SetSound DEF Flag, Clear, Job
        <5> HIDE DEF c
        <5>2. machservice_watch(c).exists = c.exists /\ machservice_watch(c) \in Job
          BY <5>1, WatchSound, WatchAgrees DEF Sound, Agree
        <5> QED
          BY <2>4, <5>1, <5>2 DEF c
      <4> QED
        BY <3>1, <4>1, GoneHeard
    <3>2. CASE run.exists /\ Key("MachServices") /\ ~Has(run, "recv_race_hack")
      BY <2>4, <3>2 DEF Heard, Hearing, Watching
    <3>3. CASE run.exists /\ Key("MachServices") /\ Has(run, "recv_race_hack")
      <4> DEFINE c == Clear(run, {"recv_race_hack"})
                 w == [c EXCEPT !.inset = TRUE]
      <4>1. Sound(c) /\ c \in Job /\ c.right = "launchd" /\ c.exists
            /\ c.flags = run.flags \ {"recv_race_hack"} /\ Agree(run, c)
        <5>1. Sound(c) /\ c \in Job
          BY <2>4, SetSound DEF Flag, Sound
        <5>2. Agree(run, c)
          BY <2>4, OtherFlagsAgree DEF Telling
        <5>3. c.right = run.right /\ c.exists = run.exists
              /\ c.flags = run.flags \ {"recv_race_hack"}
          BY <2>4 DEF Clear, Job
        <5> QED
          BY <2>4, <3>3, <5>1, <5>2, <5>3
      <4> HIDE DEF c
      <4>2. watched = w
        BY <3>3, <4>1 DEF machservice_watch, c
      <4>3. w \in Job /\ w.inset /\ w.flags = c.flags /\ w.exists = c.exists
            /\ w.timers = c.timers /\ w.right = "launchd"
        BY <4>1 DEF Job
      <4> HIDE DEF w
      <4>4. Agree(run, w)
        BY <4>1, <4>3, WatchAgrees, <4>2 DEF Agree, TimerSet, w, Job
      <4>5. Idle(w) <=> Idle(run)
        BY <4>4, Zenon DEF Agree, Telling, Idle, job_active, Has
      <4>6. TimerSet(run) => TimerSet(w)
        BY <4>4 DEF Agree
      <4>7. /\ Ignored(w) <=> Ignored(run)
            /\ Has(w, "p") <=> Has(run, "p")
        BY <4>1, <4>3 DEF Ignored, Has
      <4> QED
        BY <2>4, <3>3, <4>1, <4>2, <4>3, <4>5, <4>6, <4>7
           DEF Heard, Hearing, Watching, Reachable
    <3> QED
      BY <3>1, <3>2, <3>3
  <2>6. cfg' = cfg /\ job' = garbage_collection(watched, mgr, s)
    BY <1>8 DEF PortDestroyed, run, reset
  <2> HIDE DEF watched
  <2> QED
    BY <2>5, <2>6, CollectHeard
<1>9. ASSUME NEW f \in ForkOutcomes,
             \/ StartCommand(f) \/ JobTimer(f) \/ IntervalTimer(f) \/ MachDemand(f)
             \/ NoSenders(f) \/ ProviderReady(f)
      PROVE  Preserved
  <2>1. Sound(Kicked(job)) /\ Sound(Set(job, {"start_pending"}))
        /\ Sound(Clear(job, {"priv_port_has_senders"})) /\ Sound(Clear(job, {"waiting4ok"}))
    BY <1>1, KickedSound, SetSound DEF Flag
  <2>2. /\ Hearing(Set(job, {"start_pending"})) /\ Watching(Set(job, {"start_pending"}))
        /\ Hearing(Clear(job, {"priv_port_has_senders"}))
        /\ Watching(Clear(job, {"priv_port_has_senders"}))
        /\ Hearing(Clear(job, {"waiting4ok"})) /\ Watching(Clear(job, {"waiting4ok"}))
    BY <1>5
  <2>3. Hearing(Kicked(job)) /\ Watching(Kicked(job))
    BY <1>1, <1>4 DEF Kicked, Job
  <2>4. Sound([job EXCEPT !.timers = @ \ {"due"}])
    BY <1>1 DEF Sound, Job, Consistent, Has
  <2>5. /\ Hearing([job EXCEPT !.timers = @ \ {"due"}])
        /\ Watching([job EXCEPT !.timers = @ \ {"due"}])
    BY <1>1, <1>4 DEF Job
  <2> QED
    BY <1>1, <1>2, <1>9, <2>1, <2>2, <2>3, <2>4, <2>5
       DEF StartCommand, JobTimer, IntervalTimer, MachDemand, NoSenders, ProviderReady
<1>10. ASSUME NEW f \in ForkOutcomes, VolumeMounted(f)
       PROVE  Preserved
  <2> DEFINE mount == Set(job, When(Key("StartOnMount"), {"start_pending"}))
             all   == IF mgr.shutting_down THEN job ELSE job_dispatch(mount, mgr, FALSE, f)
  <2>1. Sound(mount) /\ Hearing(mount) /\ Watching(mount)
    BY <1>1, <1>5, SetSound DEF When, Flag
  <2>2. Sound(all) /\ Heard(all)
    BY <1>1, <1>2, <2>1
  <2>3. Heard(job_dispatch(all, mgr, FALSE, f))
    BY <1>1, <1>2, <2>2 DEF Heard
  <2> QED
    BY <1>10, <2>2, <2>3 DEF VolumeMounted
<1>11. ASSUME NEW f \in ForkOutcomes, GlobalOnDemand(f) \/ NetworkChange(f)
       PROVE  Preserved
  <2>1. mgr' \in Mgr /\ cfg' = cfg
    BY <1>1, <1>11 DEF GlobalOnDemand, NetworkChange, Mgr
  <2>2. Heard(job_dispatch(job, mgr', FALSE, f))
    BY <1>1, <1>2, <2>1
  <2> QED
    BY <1>1, <1>11, <2>1, <2>2 DEF GlobalOnDemand, NetworkChange
<1>12. ASSUME NEW s \in TermSignals, StopCommand(s)
       PROVE  Preserved
  BY <1>1, <1>3, <1>12, StopSameWatch DEF StopCommand
<1>13. ASSUME NEW s \in TermSignals, NEW b \in BOOLEAN, RemoveCommand(s, b)
       PROVE  Preserved
  <2> DEFINE r == job_remove(job, mgr, s)
             k == Set(job, {"removal_pending"})
  <2>1. CASE ~Has(job, "p")
    <3>1. job' = job_free(job)
      BY <1>13, <2>1 DEF RemoveCommand, job_remove
    <3> QED
      BY <1>13, <3>1, FreeHeard DEF RemoveCommand
  <2>2. CASE Has(job, "p")
    <3>1. k \in Job /\ Has(k, "p") /\ (Ignored(k) <=> Ignored(job))
      BY <1>1, <2>2 DEF Set, Job, Has, Flag, Ignored
    <3> HIDE DEF k
    <3>2. Has(job_stop(k, mgr, s), "p") /\ (Ignored(job_stop(k, mgr, s)) <=> Ignored(job))
      BY <3>1, StopSameWatch DEF SameWatch, Agree, Telling, Has
    <3>3. r \in {job, job_stop(k, mgr, s)}
      BY <2>2 DEF job_remove, k
    <3>4. Has(r, "p") /\ (Ignored(r) <=> Ignored(job))
      BY <2>2, <3>2, <3>3
    <3>5. r \in Job
      BY <1>1, SignalsAssumption, CollectSound DEF TermSignals, Sound
    <3> HIDE DEF r
    <3>6. /\ Has(Set(r, {"removal_watcher"}), "p")
          /\ Ignored(Set(r, {"removal_watcher"})) <=> Ignored(r)
      BY <3>4, <3>5 DEF Set, Has, Job, Ignored
    <3>7. cfg' = cfg /\ job' \in {r, Set(r, {"removal_watcher"})}
      BY <1>13 DEF RemoveCommand, r
    <3>8. Key("MachServices") => Ignored(job)
      BY <1>1, <1>13, <2>2 DEF Hearing, RemoveCommand, Findable
    <3> QED
      BY <3>4, <3>6, <3>7, <3>8, RunningHeard
  <2> QED
    BY <2>1, <2>2
<1>14. ASSUME NEW s \in TermSignals, Shutdown(s)
       PROVE  Preserved
  BY <1>1, <1>14, CollectHeard DEF Shutdown
<1>15. ASSUME CheckIn \/ \E v \in BOOLEAN : SwapKeepAlive(v)
       PROVE  Preserved
  <2>1. Has(job, "p") /\ (Key("MachServices") => Ignored(job)) /\ cfg' = cfg
    BY <1>1, <1>15 DEF Hearing, CheckIn, SwapKeepAlive
  <2>2. Has(job', "p") /\ (Ignored(job) => Ignored(job'))
    <3>1. CASE CheckIn
      <4> DEFINE k == Set(job, {"isActive", "checkedin"})
      <4>1. k \in Job /\ job.flags \subseteq k.flags
        BY <1>1 DEF Set, Job, Flag
      <4>2. job' = [k EXCEPT !.right = "child", !.inset = FALSE]
        BY <3>1 DEF CheckIn
      <4> HIDE DEF k
      <4>3. job.flags \subseteq job'.flags
        BY <4>1, <4>2 DEF Job
      <4> QED
        BY <2>1, <4>3 DEF Has, Ignored
    <3>2. CASE \E v \in BOOLEAN : SwapKeepAlive(v)
      <4>1. job' \in {Clear(job, {"ondemand"}), Set(job, {"ondemand"})}
        BY <3>2 DEF SwapKeepAlive
      <4>2. job.flags \ {"ondemand"} \subseteq job'.flags
        BY <1>1, <4>1 DEF Clear, Set, Job
      <4> QED
        BY <2>1, <4>2 DEF Has, Ignored
    <3> QED
      BY <1>15, <3>1, <3>2
  <2> QED
    BY <2>1, <2>2, RunningHeard
<1>16. ASSUME ChildExec \/ (\E o \in ExitOutcomes : ChildExit(o)) \/ DropRight
       PROVE  Preserved
  <2>1. /\ cfg' = cfg /\ job'.flags = job.flags /\ job'.exists = job.exists
        /\ job.child # "none"
    BY <1>1, <1>16 DEF ChildExec, ChildExit, DropRight, Job
  <2>2. Has(job, "p")
    BY <1>1, <2>1 DEF Sound, Consistent
  <2>3. CASE job.exists
    BY <1>1, <2>1, <2>2, <2>3, RunningHeard DEF Hearing, Ignored, Has
  <2>4. CASE ~job.exists
    BY <2>1, <2>4, GoneHeard
  <2> QED
    BY <2>3, <2>4
<1>17. ASSUME OrphanExit
       PROVE  Preserved
  <2>1. /\ cfg' = cfg /\ job'.flags = job.flags /\ job'.exists = job.exists
        /\ job'.inset = job.inset /\ job'.timers = job.timers
        /\ job'.right = "launchd" <=> job.right = "launchd"
    BY <1>1, <1>17 DEF OrphanExit, Job
  <2>2. Idle(job') <=> Idle(job)
    BY <2>1 DEF Idle, job_active, Has
  <2> QED
    BY <1>1, <2>1, <2>2 DEF Heard, Hearing, Watching, Reachable, Ignored, Has, TimerSet
<1>18. ASSUME ClientSends \/ ChildReceives \/ TimePasses
       PROVE  Preserved
  <2>1. CASE ClientSends \/ ChildReceives
    <3>1. cfg' = cfg /\ SameWatch(job, job')
      BY <1>1, <2>1 DEF ClientSends, ChildReceives, SameWatch, Agree, TimerSet, Has,
                        Ignored, Job
    <3> QED
      BY <1>3, <3>1
  <2>2. CASE TimePasses
    <3> DEFINE tm == IF "job" \in job.timers THEN (job.timers \ {"job"}) \cup {"due"}
                     ELSE job.timers
    <3>1. TimerSet(job) => tm \cap {"job", "due"} # {}
      BY DEF TimerSet
    <3>2. cfg' = cfg /\ job' = [job EXCEPT !.young = FALSE, !.timers = tm]
      BY <2>2 DEF TimePasses
    <3> HIDE DEF tm
    <3>3. SameWatch(job, [job EXCEPT !.young = FALSE, !.timers = tm])
      BY <1>1, <3>1 DEF SameWatch, Agree, TimerSet, Has, Ignored, Job
    <3> QED
      BY <1>3, <3>2, <3>3
  <2> QED
    BY <1>18, <2>1, <2>2
<1>19. ASSUME UNCHANGED vars
       PROVE  Preserved
  BY <1>1, <1>19 DEF vars
<1>20. Preserved
  <2> HIDE DEF Preserved
  <2>1. CASE \E f \in ForkOutcomes, s \in TermSignals :
               ProcEvent(f, s) \/ ExitTimer(f, s) \/ PortDestroyed(f, s)
    BY <1>6, <1>7, <1>8, <2>1
  <2>2. CASE \E f \in ForkOutcomes :
               \/ StartCommand(f) \/ JobTimer(f) \/ IntervalTimer(f) \/ MachDemand(f)
               \/ NoSenders(f) \/ ProviderReady(f) \/ VolumeMounted(f)
               \/ GlobalOnDemand(f) \/ NetworkChange(f)
    BY <1>9, <1>10, <1>11, <2>2
  <2>3. CASE \E s \in TermSignals :
               StopCommand(s) \/ Shutdown(s) \/ \E b \in BOOLEAN : RemoveCommand(s, b)
    BY <1>12, <1>13, <1>14, <2>3
  <2>4. CASE \/ CheckIn \/ (\E v \in BOOLEAN : SwapKeepAlive(v))
             \/ ChildExec \/ (\E o \in ExitOutcomes : ChildExit(o))
             \/ OrphanExit \/ DropRight \/ ClientSends \/ ChildReceives \/ TimePasses
    BY <1>15, <1>16, <1>17, <1>18, <2>4
  <2>5. Next \/ UNCHANGED vars
    OBVIOUS
  <2> QED
    BY <1>19, <2>1, <2>2, <2>3, <2>4, <2>5 DEF Next
<1>21. SoundInv'
  BY SoundNext DEF HeardInv
<1> QED
  BY <1>20, <1>21
     DEF HeardInv, Heard, Hearing, Watching, Reachable, Ignored, Idle, job_active,
         TimerSet, Has, Key

\* If the kevent can always be attached to the child, a service whose right
\* launchd holds and whose job is idle is in the demand set, or a timer will
\* dispatch its job: no order of exits, returning rights, resets, simulated
\* exits, failed forks and commands makes launchd deaf to a message.
THEOREM NoWakeupLost ==
  ASSUME "noattach" \notin ForkOutcomes
  PROVE  Spec => []NoLostWakeup
<1>1. HeardInv => NoLostWakeup
  BY DEF HeardInv, Heard, Watching, Reachable, Ignored, Idle, TimerSet, NoLostWakeup
<1>2. Init => HeardInv
  BY HeardInit
<1>3. HeardInv /\ [Next]_vars => HeardInv'
  BY HeardNext
<1> QED
  BY <1>1, <1>2, <1>3, PTL DEF Spec

-----------------------------------------------------------------------------
(* The lives of a job: an invariant that ties the exit timer to the        *)
(* process that was told to stop, and a drain that is due to the receive   *)
(* right that has not come back, for every set of configurations with an   *)
(* ExitTimeOut that is not 0 (the one job_reap() takes its timer back      *)
(* for).                                                                   *)

\* The flags that the invariant looks at
LifeFlags == {"p", "stopped", "crashed", "reaped", "isActive", "workaround9359725"}

\* The exit timer runs for a process that was told to stop
TimerOwned(j) == "exit" \in j.timers => Has(j, "p") /\ Has(j, "stopped")

\* A process starts with a clean record: no crash, no simulated exit
Fresh(j) == Has(j, "p") => ~Has(j, "crashed") /\ ~Has(j, "workaround9359725")

\* A drain is due only while the right is away, which keeps the job from
\* being started; its return finds all that the drain is conditional on
DrainOwed(j) ==
  j.undrained => /\ ~Has(j, "p") /\ ~Has(j, "workaround9359725")
                 /\ Has(j, "isActive") /\ Has(j, "crashed") /\ Has(j, "reaped")
                 /\ Key("MachServices") /\ Drains

Apart(j) == TimerOwned(j) /\ Fresh(j) /\ DrainOwed(j)

\* k is at the same point of its life as j
SameLife(j, k) ==
  /\ \A x \in LifeFlags : x \in k.flags <=> x \in j.flags
  /\ "exit" \in k.timers => "exit" \in j.timers
  /\ k.undrained => j.undrained

\* What has the same life is as much apart.
LEMMA SameLifeApart ==
  ASSUME NEW j, NEW k, SameLife(j, k), Apart(j)
  PROVE  Apart(k)
<1>1. \A x \in LifeFlags : Has(k, x) <=> Has(j, x)
  BY DEF SameLife, Has
<1> QED
  BY <1>1 DEF SameLife, Apart, TimerOwned, Fresh, DrainOwed, LifeFlags

\* Other flags are not part of a life.
LEMMA OtherFlagsSameLife ==
  ASSUME NEW j \in Job, NEW F, F \cap LifeFlags = {}
  PROVE  SameLife(j, Set(j, F)) /\ SameLife(j, Clear(j, F))
BY DEF SameLife, Set, Clear, Job

\* Freeing the job keeps the lives apart.
LEMMA FreeApart ==
  ASSUME NEW j, Key("ExitTimeOut")
  PROVE  Apart(job_free(j))
<1>1. /\ job_free(j).flags = {} /\ ~job_free(j).undrained
      /\ "exit" \notin job_free(j).timers
  BY DEF job_free, job_new, When
<1> QED
  BY <1>1 DEF Apart, TimerOwned, Fresh, DrainOwed, Has

\* job_stop() keeps the lives apart.
LEMMA StopApart ==
  ASSUME NEW j \in Job, NEW m, NEW s, Apart(j)
  PROVE  Apart(job_stop(j, m, s))
<1> DEFINE sg == signalled(j, s)
           fl == stop_flags(j, s)
           tm == stop_timers(j, m, s)
           k  == [j EXCEPT !.sig = sg, !.flags = fl, !.timers = tm]
<1>1. CASE ~Has(j, "p") \/ Has(j, "stopped")
  BY <1>1 DEF job_stop
<1>2. CASE Has(j, "p") /\ ~Has(j, "stopped")
  <2>1. /\ "stopped" \in fl
        /\ \A x \in LifeFlags \ {"stopped"} : x \in fl <=> x \in j.flags
    BY DEF stop_flags, When, LifeFlags
  <2>2. job_stop(j, m, s) = k
    BY <1>2 DEF job_stop
  <2> HIDE DEF sg, fl, tm
  <2>3. k.flags = fl /\ k.timers = tm /\ k.undrained = j.undrained
    BY DEF Job
  <2> HIDE DEF k
  <2> QED
    BY <1>2, <2>1, <2>2, <2>3 DEF Apart, TimerOwned, Fresh, DrainOwed, Has, LifeFlags
<1> QED
  BY <1>1, <1>2

\* The collection keeps the lives apart.
LEMMA CollectApart ==
  ASSUME NEW j \in Job, NEW m, NEW s, Apart(j), Key("ExitTimeOut")
  PROVE  Apart(garbage_collection(j, m, s))
BY StopApart, FreeApart DEF garbage_collection

\* job_ignore() changes nothing of a life.
LEMMA IgnoreSameLife ==
  ASSUME NEW j \in Job
  PROVE  SameLife(j, job_ignore(j))
<1> DEFINE k == Set(j, {"currently_ignored"})
<1>1. SameLife(j, j)
  BY DEF SameLife
<1>2. k \in Job /\ SameLife(j, k)
  BY OtherFlagsSameLife DEF Set, Job, Flag, LifeFlags
<1> HIDE DEF k
<1>3. SameLife(j, [k EXCEPT !.inset = FALSE])
  BY <1>2 DEF SameLife, Job
<1> QED
  BY <1>1, <1>3 DEF job_ignore, k

\* job_watch() changes nothing of a life.
LEMMA WatchSameLife ==
  ASSUME NEW j \in Job
  PROVE  SameLife(j, machservice_watch(j)) /\ SameLife(j, job_watch(j))
<1>1. \A k \in Job : SameLife(k, k) /\ SameLife(k, [k EXCEPT !.inset = TRUE])
  BY DEF SameLife, Job
<1>2. \A k \in Job : SameLife(k, Set(k, {"recv_race_hack"}))
  BY OtherFlagsSameLife DEF LifeFlags
<1>3. \A k \in Job : SameLife(k, machservice_watch(k))
  BY <1>1, <1>2 DEF machservice_watch
<1> DEFINE c == Clear(j, {"currently_ignored"})
<1>4. c \in Job /\ SameLife(j, c)
  BY OtherFlagsSameLife DEF Clear, Job, LifeFlags
<1> HIDE DEF c
<1>5. SameLife(j, machservice_watch(c))
  BY <1>3, <1>4 DEF SameLife
<1> QED
  BY <1>1, <1>3, <1>5 DEF job_watch, c

\* The exit of a process, real or simulated, after a record that was fresh.
LEMMA ReapApart ==
  ASSUME NEW j \in Job, Key("ExitTimeOut"), ~Has(j, "crashed"),
         Has(j, "workaround9359725") => Has(j, "stopped")
  PROVE  Apart(job_reap(j))
<1> DEFINE rk == reaped_kernel(j)
           st == reaped_status(j)
           fl == reaped_flags(j)
           tm == reaped_timers(j)
           u  == "crashed" \in reaped_flags(j) /\ Key("MachServices") /\ Drains
           k  == [rk EXCEPT !.status = st, !.flags = fl, !.undrained = u, !.timers = tm]
           d  == reap_drain(k)
           r  == reap_reset(d)
<1>1. rk \in Job
  BY ReapedKernel
<1>2. job_reap(j) = r
  BY Zenon DEF job_reap
<1>3. /\ "p" \notin fl /\ "reaped" \in fl
      /\ "workaround9359725" \in fl <=> "workaround9359725" \in j.flags
      /\ "crashed" \in fl => "stopped" \notin j.flags
  BY DEF reaped_flags, When, Has
<1>4. "exit" \notin tm
  BY DEF reaped_timers, When
<1>5. u => "crashed" \in fl /\ Key("MachServices") /\ Drains
  OBVIOUS
<1> HIDE DEF rk, st, fl, tm, u
<1>6. k.flags = fl /\ k.timers = tm /\ k.undrained = u /\ DOMAIN k = DOMAIN rk
  BY <1>1 DEF Job
<1> HIDE DEF k
<1>7. /\ d.flags = fl /\ d.timers = tm /\ DOMAIN d = DOMAIN rk
      /\ d.undrained => u /\ "isActive" \in fl
  BY <1>1, <1>6 DEF reap_drain, machservice_drain_port, Has, Job
<1> HIDE DEF d
<1>8. r.flags = fl /\ r.timers = tm /\ r.undrained = d.undrained
  BY <1>1, <1>7 DEF reap_reset, machservice_resetport, Job
<1> HIDE DEF r
<1> QED
  BY <1>2, <1>3, <1>4, <1>5, <1>7, <1>8 DEF Apart, TimerOwned, Fresh, DrainOwed, Has

\* A fork that succeeds begins a life that is apart.
LEMMA ForkedApart ==
  ASSUME NEW j \in Job, Apart(j), ~job_active(j)
  PROVE  Apart(forked(j)) /\ ~Has(forked(j), "crashed") /\ ~Has(forked(j), "workaround9359725")
<1>1. forked(j).flags = forked_flags(j) /\ forked(j).timers = j.timers
      /\ forked(j).undrained = j.undrained
  BY DEF forked, Job
<1>2. "crashed" \notin forked_flags(j) /\ "workaround9359725" \notin forked_flags(j)
  BY DEF forked_flags
<1>3. "exit" \notin j.timers /\ ~j.undrained
  BY DEF Apart, TimerOwned, DrainOwed, job_active
<1> QED
  BY <1>1, <1>2, <1>3 DEF Apart, TimerOwned, Fresh, DrainOwed, Has

\* job_start() keeps the lives apart.
LEMMA StartApart ==
  ASSUME NEW j, Sound(j), Apart(j), NEW f, Key("ExitTimeOut")
  PROVE  Apart(job_start(j, f))
<1> SUFFICES ASSUME ~job_active(j) PROVE Apart(job_start(j, f))
  BY DEF job_start
<1>1. j \in Job
  BY DEF Sound
<1>2. ASSUME NEW T \in SUBSET Timer, "exit" \notin T
      PROVE  Apart(job_ignore([j EXCEPT !.timers = T]))
  <2> DEFINE k == [j EXCEPT !.timers = T]
  <2>1. k \in Job /\ SameLife(j, k)
    BY <1>1, <1>2 DEF Job, SameLife
  <2> HIDE DEF k
  <2>2. Apart(job_ignore(k))
    BY <2>1, SameLifeApart, IgnoreSameLife
  <2> QED
    BY <2>2 DEF k
<1>3. "exit" \notin j.timers
  BY DEF Apart, TimerOwned, job_active
<1>4. CASE throttled(j)
  <2> DEFINE T == (j.timers \ {"due"}) \cup {"job"}
  <2>1. T \in SUBSET Timer /\ "exit" \notin T
    BY <1>1, <1>3 DEF Job, Timer
  <2>2. job_start(j, f) = job_ignore([j EXCEPT !.timers = T])
    BY <1>4 DEF job_start
  <2> QED
    BY <1>2, <2>1, <2>2
<1>5. CASE ~throttled(j) /\ f = "forkfail"
  <2> DEFINE T == (j.timers \ {"job"}) \cup {"due"}
  <2>1. T \in SUBSET Timer /\ "exit" \notin T
    BY <1>1, <1>3 DEF Job, Timer
  <2>2. job_start(j, f) = job_ignore([j EXCEPT !.timers = T])
    BY <1>5 DEF job_start
  <2> QED
    BY <1>2, <2>1, <2>2
<1>6. CASE ~throttled(j) /\ f = "noattach"
  <2> DEFINE z == [forked(j) EXCEPT !.child = "zombie", !.fate = "killed"]
  <2>1. forked(j) \in Job /\ ~Has(forked(j), "crashed") /\ ~Has(forked(j), "workaround9359725")
    BY <1>1, ForkedSound, ForkedApart DEF Sound
  <2>2. "killed" \in Outcomes
    BY DEF Outcomes
  <2>3. z \in Job /\ z.flags = forked(j).flags /\ z.exists = forked(j).exists
        /\ z.right = forked(j).right
    BY <2>1, <2>2 DEF Job
  <2>4. job_start(j, f) = job_watch(job_reap(z))
    BY <1>6 DEF job_start
  <2> HIDE DEF z
  <2>5. Apart(job_reap(z))
    BY <2>1, <2>3, ReapApart DEF Has
  <2>6. job_reap(z) \in Job
    BY <2>1, <2>3, ReapSound, ForkedSound DEF Sound, Consistent, Has
  <2> QED
    BY <2>4, <2>5, <2>6, WatchSameLife, SameLifeApart
<1>7. CASE ~throttled(j) /\ f \notin {"forkfail", "noattach"}
  <2>1. job_start(j, f) = job_ignore(forked(j))
    BY <1>7 DEF job_start
  <2>2. forked(j) \in Job /\ Apart(forked(j))
    BY <1>1, ForkedSound, ForkedApart DEF Sound
  <2> QED
    BY <2>1, <2>2, IgnoreSameLife, SameLifeApart
<1> QED
  BY <1>4, <1>5, <1>6, <1>7

\* job_dispatch() keeps the lives apart.
LEMMA DispatchApart ==
  ASSUME NEW j, Sound(j), Apart(j), NEW m \in Mgr, NEW kick \in BOOLEAN, NEW f,
         Key("ExitTimeOut")
  PROVE  Apart(job_dispatch(j, m, kick, f))
<1> DEFINE w == j.wanted \/ job_keepalive(j, m)
           k == [j EXCEPT !.wanted = w]
<1>1. w \in BOOLEAN
  BY Zenon
<1> HIDE DEF w
<1>2. k \in Job /\ Consistent(k) /\ SameLife(j, k)
  BY <1>1 DEF Sound, Job, Consistent, Has, SameLife
<1> HIDE DEF k
<1>3. Apart(job_start(k, f))
  BY <1>2, SameLifeApart, StartApart DEF Sound
<1>4. Apart(job_watch(j))
  BY WatchSameLife, SameLifeApart DEF Sound
<1>5. job_dispatch(j, m, kick, f) \in {j, job_free(j), job_start(k, f), job_watch(j)}
  BY Zenon DEF job_dispatch, k, w
<1> QED
  BY <1>3, <1>4, <1>5, FreeApart

ApartInv == SoundInv /\ Apart(job)

\* The lives are apart at first.
LEMMA ApartInit ==
  ASSUME \A c \in Configs : "ExitTimeOut" \in c
  PROVE  Init => ApartInv
<1> SUFFICES ASSUME Init PROVE Apart(job)
  BY SoundInit DEF ApartInv
<1>1. cfg \in SUBSET Keys /\ mgr \in Mgr /\ Key("ExitTimeOut")
  BY ConfigsAssumption, SoundInit DEF SoundInv, Init, Key
<1>2. Sound(job_new(cfg))
  BY <1>1, NewSound
<1>3. Apart(job_new(cfg))
  <2>1. /\ "p" \notin job_new(cfg).flags /\ "exit" \notin job_new(cfg).timers
        /\ ~job_new(cfg).undrained
    BY DEF job_new, When
  <2> QED
    BY <2>1 DEF Apart, TimerOwned, Fresh, DrainOwed, Has
<1>4. \A f : Apart(job_dispatch(job_new(cfg), mgr, FALSE, f))
  BY <1>1, <1>2, <1>3, DispatchApart
<1> QED
  BY <1>3, <1>4 DEF Init

\* The right comes back: what the drain was waiting for is all there.
LEMMA ReturnApart ==
  ASSUME NEW j \in Job, Apart(j)
  PROVE  LET back  == [j EXCEPT !.right = "launchd"]
             drain == IF Drains /\ {"crashed", "reaped"} \subseteq j.flags
                      THEN machservice_drain_port(back) ELSE back
             idle  == Clear(drain, {"isActive"})
         IN  Apart(IF Key("ResetAtClose") THEN machservice_resetport(idle) ELSE idle)
<1> DEFINE back  == [j EXCEPT !.right = "launchd"]
           drain == IF Drains /\ {"crashed", "reaped"} \subseteq j.flags
                    THEN machservice_drain_port(back) ELSE back
           idle  == Clear(drain, {"isActive"})
           reset == IF Key("ResetAtClose") THEN machservice_resetport(idle) ELSE idle
<1>1. back \in Job /\ back.flags = j.flags /\ back.timers = j.timers
      /\ back.undrained = j.undrained
  BY DEF Job
<1> HIDE DEF back
<1>2. /\ DOMAIN drain = DOMAIN back /\ drain.flags = j.flags /\ drain.timers = j.timers
      /\ ~drain.undrained
  BY <1>1 DEF machservice_drain_port, Job, Apart, DrainOwed, Has
<1>3. DOMAIN back = {"exists", "flags", "status", "timers", "child", "fate", "sig",
                     "notes", "right", "inset", "msgs", "orphan", "young", "wanted",
                     "undrained"}
  BY <1>1 DEF Job
<1> HIDE DEF drain
<1>4. /\ DOMAIN idle = DOMAIN back /\ idle.flags = j.flags \ {"isActive"}
      /\ idle.timers = j.timers /\ ~idle.undrained
  BY <1>2, <1>3 DEF Clear
<1> HIDE DEF idle
<1>5. /\ reset.flags = j.flags \ {"isActive"} /\ reset.timers = j.timers
      /\ ~reset.undrained
  BY <1>3, <1>4 DEF machservice_resetport
<1> HIDE DEF reset
<1>6. Apart(reset)
  BY <1>5 DEF Apart, TimerOwned, Fresh, DrainOwed, Has
<1> QED
  BY <1>6 DEF reset, idle, drain, back

\* Every handler keeps the lives apart.
LEMMA ApartNext ==
  ASSUME \A c \in Configs : "ExitTimeOut" \in c
  PROVE  ApartInv /\ [Next]_vars => ApartInv'
<1> SUFFICES ASSUME ApartInv, [Next]_vars PROVE ApartInv'
  OBVIOUS
<1> DEFINE Preserved == cfg' = cfg /\ Apart(job')
<1>1. /\ cfg \in SUBSET Keys /\ mgr \in Mgr /\ Sound(job) /\ job \in Job
      /\ Apart(job) /\ Key("ExitTimeOut")
  BY ConfigsAssumption DEF ApartInv, SoundInv, Sound, Key
<1>2. ASSUME NEW k, Sound(k), Apart(k), NEW m \in Mgr, NEW f \in ForkOutcomes,
             NEW b \in BOOLEAN
      PROVE  /\ Sound(job_dispatch(k, m, b, f)) /\ job_dispatch(k, m, b, f) \in Job
             /\ Apart(job_dispatch(k, m, b, f))
  BY <1>1, <1>2, DispatchSound, DispatchApart DEF Sound
<1>3. ASSUME NEW k, SameLife(job, k)
      PROVE  Apart(k)
  BY <1>1, <1>3, SameLifeApart
<1>4. ASSUME NEW F, F \cap LifeFlags = {}
      PROVE  Apart(Set(job, F)) /\ Apart(Clear(job, F))
  BY <1>1, <1>3, <1>4, OtherFlagsSameLife
<1>5. ASSUME NEW f \in ForkOutcomes, NEW s \in TermSignals, ProcEvent(f, s)
      PROVE  Preserved
  <2> DEFINE quiet == [job EXCEPT !.notes = {}]
             execd == Set(quiet, When("EXEC" \in job.notes, {"did_exec"}))
             ended == Set(execd, When(job.fate \in {"jetClean", "jetDirty"}, {"jettisoned"}))
  <2>1. Sound(quiet) /\ SameLife(job, quiet) /\ quiet.flags = job.flags
    BY <1>1 DEF Sound, Job, Consistent, Has, SameLife
  <2>2. Sound(execd) /\ Sound(ended)
    BY <2>1, SetSound DEF When, Flag
  <2>3. SameLife(quiet, execd) /\ SameLife(execd, ended)
    BY <2>1, <2>2, OtherFlagsSameLife DEF When, LifeFlags, Sound
  <2>4. job.flags \subseteq ended.flags
    BY <2>1, <2>2 DEF Set, Sound, Job
  <2> HIDE DEF quiet, execd, ended
  <2>5. Apart(execd) /\ Apart(ended) /\ Has(ended, "p")
    BY <1>3, <1>5, <2>1, <2>3, <2>4, SameLifeApart DEF ProcEvent, Has
  <2> DEFINE d == job_dispatch(job_reap(ended), mgr, FALSE, f)
  <2>6. Sound(job_reap(ended)) /\ Apart(job_reap(ended))
    BY <1>1, <2>2, <2>5, ReapSound, ReapApart DEF Sound, Consistent, Apart, Fresh
  <2>7. d \in Job /\ Apart(d)
    BY <1>1, <1>2, <2>6
  <2>8. /\ cfg' = cfg
        /\ job' \in {garbage_collection(d, mgr, s), garbage_collection(execd, mgr, s)}
    BY <1>5 DEF ProcEvent, quiet, execd, ended
  <2> HIDE DEF d
  <2> QED
    BY <1>1, <2>2, <2>5, <2>7, <2>8, CollectApart DEF Sound
<1>6. ASSUME NEW f \in ForkOutcomes, NEW s \in TermSignals, ExitTimer(f, s)
      PROVE  Preserved
  <2> DEFINE fired == [job EXCEPT !.timers = @ \ {"exit"}]
             sim   == Set(fired, {"workaround9359725"})
             d     == job_dispatch(job_reap(sim), mgr, FALSE, f)
  <2>1. Sound(fired) /\ SameLife(job, fired) /\ fired.flags = job.flags
        /\ fired \in Job /\ fired.undrained = job.undrained
    BY <1>1 DEF Sound, Job, Consistent, Has, SameLife
  <2>2. Has(job, "p") /\ Has(job, "stopped") /\ ~Has(job, "crashed")
        /\ ~Has(job, "workaround9359725") /\ ~job.undrained
    BY <1>1, <1>6 DEF ExitTimer, Apart, TimerOwned, Fresh, DrainOwed
  <2> HIDE DEF fired
  <2>3. Sound(sim) /\ sim.flags = job.flags \cup {"workaround9359725"}
    BY <2>1, SetSound DEF Flag, Set, Job
  <2>4. Apart(job_kill(fired, s))
    <3>1. /\ job_kill(fired, s).flags = job.flags \cup {"sent_sigkill"}
          /\ ~job_kill(fired, s).undrained
      BY <2>1, <2>2 DEF job_kill, Job
    <3> QED
      BY <2>2, <3>1 DEF Apart, TimerOwned, Fresh, DrainOwed, Has
  <2> HIDE DEF sim
  <2>5. Sound(job_reap(sim)) /\ Apart(job_reap(sim))
    <3>1. Has(sim, "p") /\ Has(sim, "stopped") /\ ~Has(sim, "crashed") /\ sim \in Job
      BY <2>2, <2>3 DEF Has, Sound
    <3> QED
      BY <1>1, <2>3, <3>1, ReapSound, ReapApart DEF Sound, Consistent
  <2>6. Apart(garbage_collection(d, mgr, s))
    BY <1>1, <1>2, <2>5, CollectApart
  <2> HIDE DEF d
  <2> QED
    BY <1>6, <2>2, <2>4, <2>6 DEF ExitTimer, fired, sim, d
<1>7. ASSUME NEW f \in ForkOutcomes, NEW s \in TermSignals, PortDestroyed(f, s)
      PROVE  Preserved
  <2> DEFINE back    == [job EXCEPT !.right = "launchd"]
             drain   == IF Drains /\ {"crashed", "reaped"} \subseteq job.flags
                        THEN machservice_drain_port(back) ELSE back
             idle    == Clear(drain, {"isActive"})
             reset   == IF Key("ResetAtClose") THEN machservice_resetport(idle) ELSE idle
             run     == job_dispatch(reset, mgr, FALSE, f)
             clr     == Clear(run, {"recv_race_hack"})
             watched == IF Has(run, "recv_race_hack") THEN machservice_watch(clr) ELSE run
  <2>1. Sound(reset) /\ Apart(reset)
    BY <1>1, ReturnSound, ReturnApart
  <2> HIDE DEF reset
  <2>2. Sound(run) /\ run \in Job /\ Apart(run)
    BY <1>1, <1>2, <2>1
  <2> HIDE DEF run
  <2>3. Sound(clr) /\ clr \in Job /\ SameLife(run, clr)
    BY <2>2, SetSound, OtherFlagsSameLife DEF Flag, LifeFlags, Sound
  <2> HIDE DEF clr
  <2>4. watched \in Job /\ Apart(watched)
    <3>1. Apart(machservice_watch(clr))
      BY <2>2, <2>3, SameLifeApart, WatchSameLife
    <3>2. machservice_watch(clr) \in Job
      BY <2>3, WatchSound DEF Sound
    <3> QED
      BY <2>2, <3>1, <3>2
  <2>5. cfg' = cfg /\ job' = garbage_collection(watched, mgr, s)
    BY <1>7 DEF PortDestroyed, clr, run, reset
  <2> HIDE DEF watched
  <2> QED
    BY <1>1, <2>4, <2>5, CollectApart
<1>8. ASSUME NEW f \in ForkOutcomes,
             \/ StartCommand(f) \/ JobTimer(f) \/ IntervalTimer(f) \/ MachDemand(f)
             \/ NoSenders(f) \/ ProviderReady(f)
      PROVE  Preserved
  <2>1. Sound(Kicked(job)) /\ Sound(Set(job, {"start_pending"}))
        /\ Sound(Clear(job, {"priv_port_has_senders"})) /\ Sound(Clear(job, {"waiting4ok"}))
    BY <1>1, KickedSound, SetSound DEF Flag
  <2>2. Apart(Set(job, {"start_pending"})) /\ Apart(Clear(job, {"priv_port_has_senders"}))
        /\ Apart(Clear(job, {"waiting4ok"}))
    BY <1>4 DEF LifeFlags
  <2>3. SameLife(job, Kicked(job)) /\ SameLife(job, [job EXCEPT !.timers = @ \ {"due"}])
    BY <1>1 DEF SameLife, Kicked, Job
  <2>4. Sound([job EXCEPT !.timers = @ \ {"due"}])
    BY <1>1 DEF Sound, Job, Consistent, Has
  <2> QED
    BY <1>1, <1>2, <1>3, <1>8, <2>1, <2>2, <2>3, <2>4
       DEF StartCommand, JobTimer, IntervalTimer, MachDemand, NoSenders, ProviderReady
<1>9. ASSUME NEW f \in ForkOutcomes, VolumeMounted(f)
       PROVE  Preserved
  <2> DEFINE mount == Set(job, When(Key("StartOnMount"), {"start_pending"}))
             all   == IF mgr.shutting_down THEN job ELSE job_dispatch(mount, mgr, FALSE, f)
  <2>1. Sound(mount) /\ Apart(mount)
    BY <1>1, <1>4, SetSound DEF When, Flag, LifeFlags
  <2>2. Sound(all) /\ Apart(all)
    BY <1>1, <1>2, <2>1
  <2>3. Apart(job_dispatch(all, mgr, FALSE, f))
    BY <1>1, <1>2, <2>2
  <2> QED
    BY <1>9, <2>2, <2>3 DEF VolumeMounted
<1>10. ASSUME NEW f \in ForkOutcomes, GlobalOnDemand(f) \/ NetworkChange(f)
       PROVE  Preserved
  <2>1. mgr' \in Mgr /\ cfg' = cfg
    BY <1>1, <1>10 DEF GlobalOnDemand, NetworkChange, Mgr
  <2>2. Apart(job_dispatch(job, mgr', FALSE, f))
    BY <1>1, <1>2, <2>1
  <2> QED
    BY <1>1, <1>10, <2>1, <2>2 DEF GlobalOnDemand, NetworkChange
<1>11. ASSUME NEW s \in TermSignals, StopCommand(s) \/ Shutdown(s)
       PROVE  Preserved
  BY <1>1, <1>11, StopApart, CollectApart DEF StopCommand, Shutdown
<1>12. ASSUME NEW s \in TermSignals, NEW b \in BOOLEAN, RemoveCommand(s, b)
       PROVE  Preserved
  <2> DEFINE r == job_remove(job, mgr, s)
             k == Set(job, {"removal_pending"})
  <2>1. k \in Job /\ Apart(k)
    BY <1>1, <1>4 DEF Set, Job, Flag, LifeFlags
  <2> HIDE DEF k
  <2>2. r \in {job, job_free(job), job_stop(k, mgr, s)}
    BY DEF job_remove, k
  <2>3. Apart(r)
    BY <1>1, <2>1, <2>2, FreeApart, StopApart
  <2>4. r \in Job
    BY <1>1, SignalsAssumption, CollectSound DEF TermSignals, Sound
  <2> HIDE DEF r
  <2>5. Apart(Set(r, {"removal_watcher"}))
    BY <2>3, <2>4, OtherFlagsSameLife, SameLifeApart DEF LifeFlags
  <2> QED
    BY <1>12, <2>3, <2>5 DEF RemoveCommand, r
<1>13. ASSUME CheckIn \/ \E v \in BOOLEAN : SwapKeepAlive(v)
       PROVE  Preserved
  <2>1. CASE CheckIn
    <3> DEFINE k == Set(job, {"isActive", "checkedin"})
    <3>1. k \in Job /\ k.flags = job.flags \cup {"isActive", "checkedin"}
          /\ k.timers = job.timers /\ k.undrained = job.undrained
      BY <1>1 DEF Set, Job, Flag
    <3>2. cfg' = cfg /\ Has(job, "p") /\ job' = [k EXCEPT !.right = "child", !.inset = FALSE]
      BY <2>1 DEF CheckIn
    <3> HIDE DEF k
    <3>3. job'.flags = k.flags /\ job'.timers = k.timers /\ job'.undrained = k.undrained
      BY <3>1, <3>2 DEF Job
    <3> QED
      BY <1>1, <3>1, <3>2, <3>3 DEF Apart, TimerOwned, Fresh, DrainOwed, Has
  <2>2. CASE \E v \in BOOLEAN : SwapKeepAlive(v)
    <3>1. cfg' = cfg /\ job' \in {Clear(job, {"ondemand"}), Set(job, {"ondemand"})}
      BY <2>2 DEF SwapKeepAlive
    <3> QED
      BY <1>4, <3>1 DEF LifeFlags
  <2> QED
    BY <1>13, <2>1, <2>2
<1>14. ASSUME \/ ChildExec \/ (\E o \in ExitOutcomes : ChildExit(o)) \/ OrphanExit
              \/ DropRight \/ ClientSends \/ ChildReceives
       PROVE  Preserved
  <2>1. /\ cfg' = cfg /\ job'.flags = job.flags /\ job'.timers = job.timers
        /\ job'.undrained = job.undrained
    BY <1>1, <1>14 DEF ChildExec, ChildExit, OrphanExit, DropRight, ClientSends,
                       ChildReceives, Job
  <2> QED
    BY <1>3, <2>1 DEF SameLife
<1>15. ASSUME TimePasses
       PROVE  Preserved
  <2>1. /\ cfg' = cfg /\ job'.flags = job.flags /\ job'.undrained = job.undrained
        /\ "exit" \in job'.timers => "exit" \in job.timers
    BY <1>1, <1>15 DEF TimePasses, Job
  <2> QED
    BY <1>3, <2>1 DEF SameLife
<1>16. ASSUME UNCHANGED vars
       PROVE  Preserved
  BY <1>1, <1>16 DEF vars
<1>17. Preserved
  <2> HIDE DEF Preserved
  <2>1. CASE \E f \in ForkOutcomes, s \in TermSignals :
               ProcEvent(f, s) \/ ExitTimer(f, s) \/ PortDestroyed(f, s)
    BY <1>5, <1>6, <1>7, <2>1
  <2>2. CASE \E f \in ForkOutcomes :
               \/ StartCommand(f) \/ JobTimer(f) \/ IntervalTimer(f) \/ MachDemand(f)
               \/ NoSenders(f) \/ ProviderReady(f) \/ VolumeMounted(f)
               \/ GlobalOnDemand(f) \/ NetworkChange(f)
    BY <1>8, <1>9, <1>10, <2>2
  <2>3. CASE \E s \in TermSignals :
               StopCommand(s) \/ Shutdown(s) \/ \E b \in BOOLEAN : RemoveCommand(s, b)
    BY <1>11, <1>12, <2>3
  <2>4. CASE \/ CheckIn \/ (\E v \in BOOLEAN : SwapKeepAlive(v))
             \/ ChildExec \/ (\E o \in ExitOutcomes : ChildExit(o))
             \/ OrphanExit \/ DropRight \/ ClientSends \/ ChildReceives \/ TimePasses
    BY <1>13, <1>14, <1>15, <2>4
  <2>5. Next \/ UNCHANGED vars
    OBVIOUS
  <2> QED
    BY <1>16, <2>1, <2>2, <2>3, <2>4, <2>5 DEF Next
<1>18. SoundInv'
  BY SoundNext DEF ApartInv
<1> QED
  BY <1>17, <1>18
     DEF ApartInv, Apart, TimerOwned, Fresh, DrainOwed, Drains, Has, Key

\* With an exit timeout that is not 0, no life of a job reaches into the
\* next: the exit timer is gone with the process it was set for, and what the
\* job crashed on is drained before job_start() forks again, in whatever
\* order the exit, a simulated exit and the return of the right arrive.
THEOREM LivesStayApart ==
  ASSUME \A c \in Configs : "ExitTimeOut" \in c
  PROVE  Spec => []LivesApart
<1>1. ApartInv => LivesApart
  BY DEF ApartInv, Apart, TimerOwned, DrainOwed, LivesApart, ExitTimerHasProcess,
         DrainedBeforeRespawn
<1>2. Init => ApartInv
  BY ApartInit
<1>3. ApartInv /\ [Next]_vars => ApartInv'
  BY ApartNext
<1> QED
  BY <1>1, <1>2, <1>3, PTL DEF Spec
-----------------------------------------------------------------------------
(* A job that is started owns its receive rights, unless its last exit was *)
(* simulated.                                                              *)

\* job_active() looks away only after a simulated exit, a right that is away
\* is one it looks at otherwise, and a new process finds the rights with
\* launchd
Owned(j) ==
  /\ Has(j, "workaround9359725") => Has(j, "simulated")
  /\ j.right # "launchd" => Key("MachServices") /\ Has(j, "isActive")
  /\ j.child = "forked" => j.right = "launchd" \/ Has(j, "simulated")

\* k and j agree on who holds the right
SameHold(j, k) ==
  /\ \A x \in {"isActive", "workaround9359725", "simulated"} : Has(k, x) <=> Has(j, x)
  /\ k.right = j.right /\ k.child = j.child

\* What holds the same rights owns them as well.
LEMMA SameHoldOwned ==
  ASSUME NEW j, NEW k, SameHold(j, k), Owned(j)
  PROVE  Owned(k)
BY DEF SameHold, Owned

\* Other flags say nothing of the right.
LEMMA OtherFlagsSameHold ==
  ASSUME NEW j \in Job, NEW F, F \cap {"isActive", "workaround9359725", "simulated"} = {}
  PROVE  SameHold(j, Set(j, F)) /\ SameHold(j, Clear(j, F))
BY DEF SameHold, Set, Clear, Has, Job

\* Freeing the job keeps the rights owned.
LEMMA FreeOwned ==
  ASSUME NEW j
  PROVE  Owned(job_free(j))
<1>1. /\ job_free(j).flags = {} /\ job_free(j).right = "launchd"
  BY DEF job_free, job_new
<1> QED
  BY <1>1 DEF Owned, Has

\* job_stop() keeps the rights owned.
LEMMA StopOwned ==
  ASSUME NEW j \in Job, NEW m, NEW s, Owned(j)
  PROVE  Owned(job_stop(j, m, s))
<1> DEFINE sg == signalled(j, s)
           fl == stop_flags(j, s)
           tm == stop_timers(j, m, s)
           k  == [j EXCEPT !.sig = sg, !.flags = fl, !.timers = tm]
<1>1. \A x \in {"isActive", "workaround9359725", "simulated"} : x \in fl <=> x \in j.flags
  BY DEF stop_flags, When
<1>2. job_stop(j, m, s) \in {j, k}
  BY DEF job_stop
<1> HIDE DEF sg, fl, tm
<1>3. k.flags = fl /\ k.right = j.right /\ k.child = j.child
  BY DEF Job
<1> HIDE DEF k
<1>4. SameHold(j, k)
  BY <1>1, <1>3 DEF SameHold, Has
<1> QED
  BY <1>2, <1>4, SameHoldOwned

\* The collection keeps the rights owned.
LEMMA CollectOwned ==
  ASSUME NEW j \in Job, NEW m, NEW s, Owned(j)
  PROVE  Owned(garbage_collection(j, m, s))
BY StopOwned, FreeOwned DEF garbage_collection

\* job_ignore() leaves the right where it is.
LEMMA IgnoreSameHold ==
  ASSUME NEW j \in Job
  PROVE  SameHold(j, job_ignore(j))
<1> DEFINE k == Set(j, {"currently_ignored"})
<1>1. SameHold(j, j)
  BY DEF SameHold
<1>2. k \in Job /\ SameHold(j, k)
  BY OtherFlagsSameHold DEF Set, Job, Flag
<1> HIDE DEF k
<1>3. SameHold(j, [k EXCEPT !.inset = FALSE])
  BY <1>2 DEF SameHold, Has, Job
<1> QED
  BY <1>1, <1>3 DEF job_ignore, k

\* job_watch() leaves the right where it is.
LEMMA WatchSameHold ==
  ASSUME NEW j \in Job
  PROVE  SameHold(j, machservice_watch(j)) /\ SameHold(j, job_watch(j))
<1>1. \A k \in Job : SameHold(k, k) /\ SameHold(k, [k EXCEPT !.inset = TRUE])
  BY DEF SameHold, Has, Job
<1>2. \A k \in Job : SameHold(k, Set(k, {"recv_race_hack"}))
  BY OtherFlagsSameHold
<1>3. \A k \in Job : SameHold(k, machservice_watch(k))
  BY <1>1, <1>2, Zenon DEF machservice_watch
<1> DEFINE c == Clear(j, {"currently_ignored"})
<1>4. c \in Job /\ SameHold(j, c)
  BY OtherFlagsSameHold DEF Clear, Job
<1> HIDE DEF c
<1>5. SameHold(j, machservice_watch(c))
  BY <1>3, <1>4 DEF SameHold
<1> QED
  BY <1>1, <1>3, <1>5 DEF job_watch, c

\* job_reap() keeps the rights owned.
LEMMA ReapOwned ==
  ASSUME NEW j \in Job,
         j.right # "launchd" => Key("MachServices") /\ Has(j, "isActive")
  PROVE  Owned(job_reap(j))
<1> DEFINE rk == reaped_kernel(j)
           st == reaped_status(j)
           fl == reaped_flags(j)
           tm == reaped_timers(j)
           u  == "crashed" \in reaped_flags(j) /\ Key("MachServices") /\ Drains
           k  == [rk EXCEPT !.status = st, !.flags = fl, !.undrained = u, !.timers = tm]
           d  == reap_drain(k)
           r  == reap_reset(d)
<1>1. /\ rk \in Job /\ rk.child = "none"
      /\ rk.right # "launchd" <=> j.right # "launchd"
  BY ReapedKernel
<1>2. job_reap(j) = r
  BY Zenon DEF job_reap
<1>3. /\ "workaround9359725" \in fl => "simulated" \in fl
      /\ "isActive" \in fl <=> "isActive" \in j.flags
  BY DEF reaped_flags, When, Has
<1> HIDE DEF rk, st, fl, tm, u
<1>4. k.flags = fl /\ k.child = rk.child /\ k.right = rk.right /\ DOMAIN k = DOMAIN rk
  BY <1>1 DEF Job
<1> HIDE DEF k
<1>5. d.flags = fl /\ d.child = rk.child /\ d.right = rk.right /\ DOMAIN d = DOMAIN rk
  BY <1>1, <1>4 DEF reap_drain, machservice_drain_port, Job
<1> HIDE DEF d
<1>6. r.flags = fl /\ r.child = rk.child /\ r.right = rk.right
  BY <1>1, <1>5 DEF reap_reset, machservice_resetport, Job
<1> HIDE DEF r
<1> QED
  BY <1>1, <1>2, <1>3, <1>6 DEF Owned, Has

\* job_active() keeps a job without its rights from being started.
LEMMA StartOwned ==
  ASSUME NEW j, Sound(j), Owned(j), NEW f
  PROVE  Owned(job_start(j, f))
<1> SUFFICES ASSUME ~job_active(j) PROVE Owned(job_start(j, f))
  BY DEF job_start
<1>1. j \in Job /\ (j.right = "launchd" \/ Has(j, "simulated"))
      /\ (j.right # "launchd" => Key("MachServices") /\ Has(j, "isActive"))
  BY DEF Sound, Owned, job_active
<1>2. \A T \in SUBSET Timer : Owned(job_ignore([j EXCEPT !.timers = T]))
  <2> TAKE T \in SUBSET Timer
  <2> DEFINE k == [j EXCEPT !.timers = T]
  <2>1. k \in Job /\ SameHold(j, k)
    BY <1>1 DEF Job, SameHold, Has
  <2> HIDE DEF k
  <2>2. Owned(job_ignore(k))
    BY <2>1, SameHoldOwned, IgnoreSameHold
  <2> QED
    BY <2>2 DEF k
<1>3. /\ (j.timers \ {"due"}) \cup {"job"} \in SUBSET Timer
      /\ (j.timers \ {"job"}) \cup {"due"} \in SUBSET Timer
  BY <1>1 DEF Job, Timer
<1>4. /\ forked(j) \in Job /\ ~Has(forked(j), "workaround9359725")
      /\ forked(j).right = "launchd" \/ Has(forked(j), "simulated")
      /\ forked(j).right # "launchd" => Key("MachServices") /\ Has(forked(j), "isActive")
  <2>1. /\ "workaround9359725" \notin forked_flags(j)
        /\ "simulated" \in j.flags => "simulated" \in forked_flags(j)
        /\ "isActive" \in j.flags => "isActive" \in forked_flags(j)
    BY DEF forked_flags, When
  <2>2. forked(j).flags = forked_flags(j) /\ forked(j).right = j.right
    BY <1>1 DEF forked, Job
  <2> QED
    BY <1>1, <2>1, <2>2, ForkedSound DEF Sound, Has
<1> DEFINE z == [forked(j) EXCEPT !.child = "zombie", !.fate = "killed"]
<1>5. z \in Job /\ z.flags = forked(j).flags /\ z.exists = forked(j).exists
      /\ z.right = forked(j).right
  BY <1>4 DEF Job, Outcomes
<1>6. job_start(j, f) \in {job_ignore([j EXCEPT !.timers = (j.timers \ {"due"}) \cup {"job"}]),
                           job_ignore([j EXCEPT !.timers = (j.timers \ {"job"}) \cup {"due"}]),
                           job_watch(job_reap(z)), job_ignore(forked(j))}
  BY DEF job_start
<1> HIDE DEF z
<1>7. Owned(job_reap(z))
  BY <1>4, <1>5, ReapOwned DEF Has
<1>8. job_reap(z) \in Job
  BY <1>4, <1>5, ReapSound, ForkedSound DEF Sound, Consistent, Has
<1>9. Owned(job_watch(job_reap(z)))
  BY <1>7, <1>8, WatchSameHold, SameHoldOwned
<1>10. Owned(forked(j))
  BY <1>4 DEF Owned
<1>11. Owned(job_ignore(forked(j)))
  BY <1>4, <1>10, IgnoreSameHold, SameHoldOwned
<1> QED
  BY <1>2, <1>3, <1>6, <1>9, <1>11

\* job_dispatch() keeps the rights owned.
LEMMA DispatchOwned ==
  ASSUME NEW j, Sound(j), Owned(j), NEW m \in Mgr, NEW kick \in BOOLEAN, NEW f
  PROVE  Owned(job_dispatch(j, m, kick, f))
<1> DEFINE w == j.wanted \/ job_keepalive(j, m)
           k == [j EXCEPT !.wanted = w]
<1>1. w \in BOOLEAN
  BY Zenon
<1> HIDE DEF w
<1>2. k \in Job /\ Consistent(k) /\ SameHold(j, k)
  BY <1>1 DEF Sound, Job, Consistent, Has, SameHold
<1> HIDE DEF k
<1>3. Owned(job_start(k, f))
  BY <1>2, SameHoldOwned, StartOwned DEF Sound
<1>4. Owned(job_watch(j))
  BY WatchSameHold, SameHoldOwned DEF Sound
<1>5. job_dispatch(j, m, kick, f) \in {j, job_free(j), job_start(k, f), job_watch(j)}
  BY Zenon DEF job_dispatch, k, w
<1> QED
  BY <1>3, <1>4, <1>5, FreeOwned

OwnedInv == SoundInv /\ Owned(job)

\* The rights are owned at first.
LEMMA OwnedInit == Init => OwnedInv
<1> SUFFICES ASSUME Init PROVE Owned(job)
  BY SoundInit DEF OwnedInv
<1>1. cfg \in SUBSET Keys /\ mgr \in Mgr
  BY ConfigsAssumption, SoundInit DEF SoundInv, Init
<1>2. Sound(job_new(cfg))
  BY <1>1, NewSound
<1>3. Owned(job_new(cfg))
  <2>1. /\ "workaround9359725" \notin job_new(cfg).flags
        /\ job_new(cfg).right = "launchd"
    BY DEF job_new, When
  <2> QED
    BY <2>1 DEF Owned, Has
<1>4. \A f : Owned(job_dispatch(job_new(cfg), mgr, FALSE, f))
  BY <1>1, <1>2, <1>3, DispatchOwned
<1> QED
  BY <1>3, <1>4 DEF Init

\* The return of a right keeps the rights owned.
LEMMA ReturnOwned ==
  ASSUME NEW j \in Job, Owned(j)
  PROVE  LET back  == [j EXCEPT !.right = "launchd"]
             drain == IF Drains /\ {"crashed", "reaped"} \subseteq j.flags
                      THEN machservice_drain_port(back) ELSE back
             idle  == Clear(drain, {"isActive"})
         IN  Owned(IF Key("ResetAtClose") THEN machservice_resetport(idle) ELSE idle)
<1> DEFINE back  == [j EXCEPT !.right = "launchd"]
           drain == IF Drains /\ {"crashed", "reaped"} \subseteq j.flags
                    THEN machservice_drain_port(back) ELSE back
           idle  == Clear(drain, {"isActive"})
           reset == IF Key("ResetAtClose") THEN machservice_resetport(idle) ELSE idle
<1>1. back \in Job /\ back.flags = j.flags /\ back.right = "launchd"
  BY DEF Job
<1> HIDE DEF back
<1>2. DOMAIN drain = DOMAIN back /\ drain.flags = j.flags /\ drain.right = "launchd"
  BY <1>1 DEF machservice_drain_port, Job
<1>3. DOMAIN back = {"exists", "flags", "status", "timers", "child", "fate", "sig",
                     "notes", "right", "inset", "msgs", "orphan", "young", "wanted",
                     "undrained"}
  BY <1>1 DEF Job
<1> HIDE DEF drain
<1>4. /\ DOMAIN idle = DOMAIN back /\ idle.flags = j.flags \ {"isActive"}
      /\ idle.right = "launchd"
  BY <1>2, <1>3 DEF Clear
<1> HIDE DEF idle
<1>5. reset.flags = j.flags \ {"isActive"} /\ reset.right = "launchd"
  BY <1>3, <1>4 DEF machservice_resetport
<1> HIDE DEF reset
<1>6. Owned(reset)
  BY <1>5 DEF Owned, Has
<1> QED
  BY <1>6 DEF reset, idle, drain, back

\* Every handler keeps the rights owned.
LEMMA OwnedNext == OwnedInv /\ [Next]_vars => OwnedInv'
<1> SUFFICES ASSUME OwnedInv, [Next]_vars PROVE OwnedInv'
  OBVIOUS
<1> DEFINE Preserved == cfg' = cfg /\ Owned(job')
<1>1. cfg \in SUBSET Keys /\ mgr \in Mgr /\ Sound(job) /\ job \in Job /\ Owned(job)
  BY ConfigsAssumption DEF OwnedInv, SoundInv, Sound
<1>2. ASSUME NEW k, Sound(k), Owned(k), NEW m \in Mgr, NEW f \in ForkOutcomes,
             NEW b \in BOOLEAN
      PROVE  /\ Sound(job_dispatch(k, m, b, f)) /\ job_dispatch(k, m, b, f) \in Job
             /\ Owned(job_dispatch(k, m, b, f))
  BY <1>1, <1>2, DispatchSound, DispatchOwned DEF Sound
<1>3. ASSUME NEW k, SameHold(job, k)
      PROVE  Owned(k)
  BY <1>1, <1>3, SameHoldOwned
<1>4. ASSUME NEW F, F \cap {"isActive", "workaround9359725", "simulated"} = {}
      PROVE  Owned(Set(job, F)) /\ Owned(Clear(job, F))
  BY <1>1, <1>3, <1>4, OtherFlagsSameHold
<1>5. ASSUME NEW f \in ForkOutcomes, NEW s \in TermSignals, ProcEvent(f, s)
      PROVE  Preserved
  <2> DEFINE quiet == [job EXCEPT !.notes = {}]
             execd == Set(quiet, When("EXEC" \in job.notes, {"did_exec"}))
             ended == Set(execd, When(job.fate \in {"jetClean", "jetDirty"}, {"jettisoned"}))
  <2>1. Sound(quiet) /\ SameHold(job, quiet)
    BY <1>1 DEF Sound, Job, Consistent, Has, SameHold
  <2>2. Sound(execd) /\ Sound(ended)
    BY <2>1, SetSound DEF When, Flag
  <2>3. SameHold(quiet, execd) /\ SameHold(execd, ended)
    BY <2>1, <2>2, OtherFlagsSameHold DEF When, Sound
  <2> HIDE DEF quiet, execd, ended
  <2>4. Owned(execd) /\ Owned(ended)
    BY <1>3, <2>1, <2>3, SameHoldOwned
  <2> DEFINE d == job_dispatch(job_reap(ended), mgr, FALSE, f)
  <2>5. Sound(job_reap(ended)) /\ Owned(job_reap(ended))
    BY <1>1, <2>2, <2>4, ReapSound, ReapOwned DEF Sound, Consistent, Owned
  <2>6. d \in Job /\ Owned(d)
    BY <1>1, <1>2, <2>5
  <2>7. /\ cfg' = cfg
        /\ job' \in {garbage_collection(d, mgr, s), garbage_collection(execd, mgr, s)}
    BY <1>5 DEF ProcEvent, quiet, execd, ended
  <2> HIDE DEF d
  <2> QED
    BY <1>1, <2>2, <2>4, <2>6, <2>7, CollectOwned DEF Sound
<1>6. ASSUME NEW f \in ForkOutcomes, NEW s \in TermSignals, ExitTimer(f, s)
      PROVE  Preserved
  <2> DEFINE fired == [job EXCEPT !.timers = @ \ {"exit"}]
             sim   == Set(fired, {"workaround9359725"})
             d     == job_dispatch(job_reap(sim), mgr, FALSE, f)
  <2>1. SameHold(job, fired) /\ fired \in Job /\ Sound(fired)
    BY <1>1 DEF Job, Has, SameHold, Sound, Consistent
  <2>2. cfg' = cfg /\ job' \in {fired, job_kill(fired, s), garbage_collection(d, mgr, s)}
    BY <1>6 DEF ExitTimer
  <2> HIDE DEF fired
  <2>3. Sound(sim) /\ sim.right = fired.right /\ (Has(fired, "isActive") => Has(sim, "isActive"))
    <3>1. Sound(sim)
      BY <2>1, SetSound DEF Flag
    <3> QED
      BY <2>1, <3>1 DEF Set, Has, Job
  <2> HIDE DEF sim
  <2>4. Sound(job_reap(sim)) /\ Owned(job_reap(sim))
    BY <1>1, <1>3, <2>1, <2>3, ReapSound, ReapOwned DEF Sound, Consistent, Owned
  <2>5. d \in Job /\ Owned(d)
    BY <1>1, <1>2, <2>4
  <2> HIDE DEF d
  <2>6. Owned(garbage_collection(d, mgr, s))
    BY <2>5, CollectOwned
  <2>7. SameHold(fired, job_kill(fired, s))
    <3>1. /\ job_kill(fired, s).flags = fired.flags \cup {"sent_sigkill"}
          /\ job_kill(fired, s).right = fired.right /\ job_kill(fired, s).child = fired.child
      BY <2>1 DEF job_kill, Job
    <3> QED
      BY <3>1 DEF SameHold, Has
  <2> QED
    BY <1>3, <2>1, <2>2, <2>7, <2>6, SameHoldOwned
<1>7. ASSUME NEW f \in ForkOutcomes, NEW s \in TermSignals, PortDestroyed(f, s)
      PROVE  Preserved
  <2> DEFINE back    == [job EXCEPT !.right = "launchd"]
             drain   == IF Drains /\ {"crashed", "reaped"} \subseteq job.flags
                        THEN machservice_drain_port(back) ELSE back
             idle    == Clear(drain, {"isActive"})
             reset   == IF Key("ResetAtClose") THEN machservice_resetport(idle) ELSE idle
             run     == job_dispatch(reset, mgr, FALSE, f)
             clr     == Clear(run, {"recv_race_hack"})
             watched == IF Has(run, "recv_race_hack") THEN machservice_watch(clr) ELSE run
  <2>1. Sound(reset) /\ Owned(reset)
    BY <1>1, ReturnSound, ReturnOwned
  <2> HIDE DEF reset
  <2>2. Sound(run) /\ run \in Job /\ Owned(run)
    BY <1>1, <1>2, <2>1
  <2> HIDE DEF run
  <2>3. Sound(clr) /\ clr \in Job /\ SameHold(run, clr)
    BY <2>2, SetSound, OtherFlagsSameHold DEF Flag, Sound
  <2> HIDE DEF clr
  <2>4. watched \in Job /\ Owned(watched)
    <3>1. Owned(machservice_watch(clr))
      BY <2>2, <2>3, SameHoldOwned, WatchSameHold
    <3>2. machservice_watch(clr) \in Job
      BY <2>3, WatchSound DEF Sound
    <3> QED
      BY <2>2, <3>1, <3>2
  <2>5. cfg' = cfg /\ job' = garbage_collection(watched, mgr, s)
    BY <1>7 DEF PortDestroyed, clr, run, reset
  <2> HIDE DEF watched
  <2> QED
    BY <1>1, <2>4, <2>5, CollectOwned
<1>8. ASSUME NEW f \in ForkOutcomes,
             \/ StartCommand(f) \/ JobTimer(f) \/ IntervalTimer(f) \/ MachDemand(f)
             \/ NoSenders(f) \/ ProviderReady(f)
      PROVE  Preserved
  <2>1. Sound(Kicked(job)) /\ Sound(Set(job, {"start_pending"}))
        /\ Sound(Clear(job, {"priv_port_has_senders"})) /\ Sound(Clear(job, {"waiting4ok"}))
    BY <1>1, KickedSound, SetSound DEF Flag
  <2>2. Owned(Set(job, {"start_pending"})) /\ Owned(Clear(job, {"priv_port_has_senders"}))
        /\ Owned(Clear(job, {"waiting4ok"}))
    BY <1>4
  <2>3. SameHold(job, Kicked(job)) /\ SameHold(job, [job EXCEPT !.timers = @ \ {"due"}])
    BY <1>1 DEF SameHold, Has, Kicked, Job
  <2>4. Sound([job EXCEPT !.timers = @ \ {"due"}])
    BY <1>1 DEF Sound, Job, Consistent, Has
  <2> QED
    BY <1>1, <1>2, <1>3, <1>8, <2>1, <2>2, <2>3, <2>4
       DEF StartCommand, JobTimer, IntervalTimer, MachDemand, NoSenders, ProviderReady
<1>9. ASSUME NEW f \in ForkOutcomes, VolumeMounted(f)
       PROVE  Preserved
  <2> DEFINE mount == Set(job, When(Key("StartOnMount"), {"start_pending"}))
             all   == IF mgr.shutting_down THEN job ELSE job_dispatch(mount, mgr, FALSE, f)
  <2>1. Sound(mount) /\ Owned(mount)
    BY <1>1, <1>4, SetSound DEF When, Flag
  <2>2. Sound(all) /\ Owned(all)
    BY <1>1, <1>2, <2>1
  <2>3. Owned(job_dispatch(all, mgr, FALSE, f))
    BY <1>1, <1>2, <2>2
  <2> QED
    BY <1>9, <2>2, <2>3 DEF VolumeMounted
<1>10. ASSUME NEW f \in ForkOutcomes, GlobalOnDemand(f) \/ NetworkChange(f)
       PROVE  Preserved
  <2>1. mgr' \in Mgr /\ cfg' = cfg
    BY <1>1, <1>10 DEF GlobalOnDemand, NetworkChange, Mgr
  <2>2. Owned(job_dispatch(job, mgr', FALSE, f))
    BY <1>1, <1>2, <2>1
  <2> QED
    BY <1>1, <1>10, <2>1, <2>2 DEF GlobalOnDemand, NetworkChange
<1>11. ASSUME NEW s \in TermSignals, StopCommand(s) \/ Shutdown(s)
       PROVE  Preserved
  BY <1>1, <1>11, StopOwned, CollectOwned DEF StopCommand, Shutdown
<1>12. ASSUME NEW s \in TermSignals, NEW b \in BOOLEAN, RemoveCommand(s, b)
       PROVE  Preserved
  <2> DEFINE r == job_remove(job, mgr, s)
             k == Set(job, {"removal_pending"})
  <2>1. k \in Job /\ Owned(k)
    BY <1>1, <1>4 DEF Set, Job, Flag
  <2> HIDE DEF k
  <2>2. r \in {job, job_free(job), job_stop(k, mgr, s)}
    BY DEF job_remove, k
  <2>3. Owned(r)
    BY <1>1, <2>1, <2>2, FreeOwned, StopOwned
  <2>4. r \in Job
    BY <1>1, SignalsAssumption, CollectSound DEF TermSignals, Sound
  <2> HIDE DEF r
  <2>5. Owned(Set(r, {"removal_watcher"}))
    BY <2>3, <2>4, OtherFlagsSameHold, SameHoldOwned
  <2> QED
    BY <1>12, <2>3, <2>5 DEF RemoveCommand, r
<1>13. ASSUME CheckIn \/ \E v \in BOOLEAN : SwapKeepAlive(v)
       PROVE  Preserved
  <2>1. CASE CheckIn
    <3> DEFINE k == Set(job, {"isActive", "checkedin"})
    <3>1. k \in Job /\ k.flags = job.flags \cup {"isActive", "checkedin"}
          /\ k.child = "running"
      BY <1>1, <2>1 DEF CheckIn, Set, Job, Flag
    <3>2. cfg' = cfg /\ Key("MachServices") /\ job' = [k EXCEPT !.right = "child", !.inset = FALSE]
      BY <2>1 DEF CheckIn
    <3> HIDE DEF k
    <3>3. job'.flags = k.flags /\ job'.child = k.child
      BY <3>1, <3>2 DEF Job
    <3> QED
      BY <1>1, <3>1, <3>2, <3>3 DEF Owned, Has
  <2>2. CASE \E v \in BOOLEAN : SwapKeepAlive(v)
    <3>1. cfg' = cfg /\ job' \in {Clear(job, {"ondemand"}), Set(job, {"ondemand"})}
      BY <2>2 DEF SwapKeepAlive
    <3> QED
      BY <1>4, <3>1
  <2> QED
    BY <1>13, <2>1, <2>2
<1>14. ASSUME \/ ChildExec \/ (\E o \in ExitOutcomes : ChildExit(o)) \/ OrphanExit
              \/ DropRight
       PROVE  Preserved
  <2>1. /\ cfg' = cfg /\ job'.flags = job.flags
        /\ job'.right # "launchd" => job.right # "launchd"
        /\ job'.child = "forked" => job.child = "forked"
    <3>1. CASE ChildExec \/ OrphanExit \/ DropRight
      BY <1>1, <3>1 DEF ChildExec, OrphanExit, DropRight, Job
    <3>2. CASE \E o \in ExitOutcomes : ChildExit(o)
      BY <1>1, <3>2 DEF ChildExit, Job
    <3> QED
      BY <1>14, <3>1, <3>2
  <2> QED
    BY <1>1, <2>1 DEF Owned, Has
<1>15. ASSUME ClientSends \/ ChildReceives \/ TimePasses \/ UNCHANGED vars
       PROVE  Preserved
  <2>1. cfg' = cfg /\ job'.flags = job.flags /\ job'.right = job.right /\ job'.child = job.child
    BY <1>1, <1>15 DEF ClientSends, ChildReceives, TimePasses, vars, Job
  <2> QED
    BY <1>3, <2>1 DEF SameHold, Has
<1>16. Preserved
  <2> HIDE DEF Preserved
  <2>1. CASE \E f \in ForkOutcomes, s \in TermSignals :
               ProcEvent(f, s) \/ ExitTimer(f, s) \/ PortDestroyed(f, s)
    BY <1>5, <1>6, <1>7, <2>1
  <2>2. CASE \E f \in ForkOutcomes :
               \/ StartCommand(f) \/ JobTimer(f) \/ IntervalTimer(f) \/ MachDemand(f)
               \/ NoSenders(f) \/ ProviderReady(f) \/ VolumeMounted(f)
               \/ GlobalOnDemand(f) \/ NetworkChange(f)
    BY <1>8, <1>9, <1>10, <2>2
  <2>3. CASE \E s \in TermSignals :
               StopCommand(s) \/ Shutdown(s) \/ \E b \in BOOLEAN : RemoveCommand(s, b)
    BY <1>11, <1>12, <2>3
  <2>4. CASE \/ CheckIn \/ (\E v \in BOOLEAN : SwapKeepAlive(v))
             \/ ChildExec \/ (\E o \in ExitOutcomes : ChildExit(o))
             \/ OrphanExit \/ DropRight \/ ClientSends \/ ChildReceives \/ TimePasses
    BY <1>13, <1>14, <1>15, <2>4
  <2>5. Next \/ UNCHANGED vars
    OBVIOUS
  <2> QED
    BY <1>15, <2>1, <2>2, <2>3, <2>4, <2>5 DEF Next
<1>17. SoundInv'
  BY SoundNext DEF OwnedInv
<1> QED
  BY <1>16, <1>17 DEF OwnedInv, Owned, Has, Key

\* job_start() forks only when launchd has the receive right of the job's
\* service, or when the last exit was one that job_callback_timer() simulated:
\* a predecessor that keeps the right, or whose right is on its way back, even
\* one abandoned two lives ago, holds the start up, for every set of
\* configurations and outcomes, also when processes outlive their SIGKILL.
THEOREM RespawnSafe == Spec => []RespawnOwnsRights
<1>1. OwnedInv => RespawnOwnsRights
  BY DEF OwnedInv, Owned, RespawnOwnsRights
<1>2. Init => OwnedInv
  BY OwnedInit
<1>3. OwnedInv /\ [Next]_vars => OwnedInv'
  BY OwnedNext
<1> QED
  BY <1>1, <1>2, <1>3, PTL DEF Spec
=============================================================================
