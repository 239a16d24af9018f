---------------------------- MODULE JobLifecycle ----------------------------
(***************************************************************************)
(* The life of one job_t of launchd (src/src/core.c): demand, dispatch,    *)
(* fork, exit notification, reaping, throttled respawn, stop, removal and  *)
(* shutdown, with the Mach service the job may advertise.                  *)
(*                                                                         *)
(* launchd's core is single threaded: every kevent, MIG message and socket *)
(* command runs one handler to completion on the main thread.  Each        *)
(* handler is therefore one action here, and each C function a handler     *)
(* calls is an operator from job record to job record, so that an action   *)
(* composes its calls in the order the code makes them.  What interleaves  *)
(* with the handlers is the child process and the kernel.                  *)
(***************************************************************************)
EXTENDS Naturals

CONSTANTS
  Configs,       \* the sets of plist keys a job may be configured with
  ForkOutcomes,  \* what runtime_fork() and attaching the kevent may yield
  ExitOutcomes,  \* the ways a child may end
  Signals,       \* the signals proc_terminate() may choose to send; "none"
                 \* when both it and the kill2() after it fail
  MayWedge,      \* may a process outlive its SIGKILL by LAUNCHD_SIGKILL_TIMER?
  MaxMsgs,       \* bound: the Mach messages queued on the service's port
  Stimuli        \* bound: the requests and outside events that occur

Keys ==
  {"MachServices", "ResetAtClose", "DrainOne", "DrainAll",  \* its service
   "KeepAlive", "RunAtLoad", "AfterInitialDemand", "StartInterval",
   "StartOnMount", "LaunchOnlyOnce",
   "ExitTimeOut",       \* exit_timeout # 0
   "SuccessfulExit", "FailedExit", "Crashed", "DidNotCrash",
   "NetworkUp", "NetworkDown",
   "legacy_mach_job",   \* made by bootstrap_create_server(), not by a plist
   "root_jobmgr",       \* its manager has no parent
   "support_system"}    \* an event provider for exec failures checked in

Semaphores ==
  {"SuccessfulExit", "FailedExit", "Crashed", "DidNotCrash",
   "NetworkUp", "NetworkDown"}

Outcomes ==
  {"ok", "fail",               \* exit(0), exit(n)
   "crash", "killed",          \* died of a crash signal, of another one
   "enoent", "ebadarch",       \* the exec failed: exit(ENOENT), (EBADARCH)
   "jetClean", "jetDirty"}     \* an idle-exit job killed for its memory

AllStimuli ==
  {"start", "stop", "remove", "shutdown", "mount", "network", "globalOnDemand",
   "swapKeepAlive", "send"}

ASSUME ConfigsAssumption  == Configs \subseteq SUBSET Keys
ASSUME ForkAssumption     == ForkOutcomes \subseteq {"ok", "forkfail", "noattach"}
                             /\ "ok" \in ForkOutcomes
ASSUME ExitAssumption     == ExitOutcomes \subseteq Outcomes /\ "killed" \in ExitOutcomes
ASSUME SignalsAssumption  == Signals \subseteq {"TERM", "KILL", "none"} /\ Signals # {}
ASSUME MayWedgeAssumption == MayWedge \in BOOLEAN
ASSUME MaxMsgsAssumption  == MaxMsgs \in Nat
ASSUME StimuliAssumption  == Stimuli \subseteq AllStimuli

VARIABLES
  cfg,   \* the keys the job was imported with
  job,   \* the job_t, its machservice and the kernel objects they name
  mgr    \* the bits of its jobmgr_t, and network_up

vars == <<cfg, job, mgr>>

-----------------------------------------------------------------------------
(* The job record.                                                         *)

Flag ==                     \* bits of struct job_s and struct machservice
  {"p", "start_time",       \* non-zero
   "ondemand", "needs_kickoff", "start_pending", "unthrottle",
   "currently_ignored", "checkedin", "priv_port_has_senders",
   "did_exec", "jettisoned", "reaped", "crashed", "waiting4ok",
   "stopped", "sent_sigkill", "clean_kill", "workaround9359725",
   "removal_pending", "removal_watcher",
   "isActive", "recv_race_hack",
   "simulated"}             \* history: the last exit of the job was simulated

Timer == {"job",            \* EVFILT_TIMER on j, the delay still running
          "due",            \* EVFILT_TIMER on j, the delay over
          "exit",           \* EVFILT_TIMER on &j->exit_timeout
          "interval"}       \* EVFILT_TIMER on &j->start_interval

Job ==
  [exists : BOOLEAN,
   flags  : SUBSET Flag,
   status : Outcomes,                              \* last_exit_status
   timers : SUBSET Timer,
   child  : {"none", "forked", "running", "zombie"},
   fate   : Outcomes,                              \* how the zombie ended
   sig    : {"none", "TERM", "KILL"},              \* sent to the child
   notes  : SUBSET {"EXEC", "EXIT"},               \* pending EVFILT_PROC
   right  : {"launchd", "child", "orphan", "returning"},
   inset  : BOOLEAN,                               \* port in demand_port_set
   msgs   : 0..MaxMsgs,
   orphan : BOOLEAN,                               \* an abandoned process lives
   young  : BOOLEAN,                               \* min_run_time not over
   wanted : BOOLEAN,                               \* a demand since the last reap
   undrained : BOOLEAN]                            \* a crash asked for a drain

Mgr == [shutting_down : BOOLEAN, global_on_demand : BOOLEAN, network_up : BOOLEAN]

Has(j, f)    == f \in j.flags
Set(j, F)    == [j EXCEPT !.flags = @ \cup F]
Clear(j, F)  == [j EXCEPT !.flags = @ \ F]
When(b, S)   == IF b THEN S ELSE {}
Key(k)       == k \in cfg

\* job_new() followed by the import of the plist's keys
job_new(c) ==
  [exists |-> TRUE,
   flags  |-> {"currently_ignored", "checkedin"}
              \cup When("KeepAlive" \notin c, {"ondemand"})
              \cup When(c \cap {"RunAtLoad", "SuccessfulExit", "FailedExit",
                                "Crashed", "DidNotCrash"} # {}, {"start_pending"})
              \cup When("AfterInitialDemand" \in c, {"needs_kickoff"})
              \cup When("legacy_mach_job" \in c, {"priv_port_has_senders"}),
   status |-> "ok", timers |-> When("StartInterval" \in c, {"interval"}),
   child  |-> "none", fate |-> "ok", sig |-> "none", notes |-> {},
   right  |-> "launchd", inset |-> FALSE, msgs |-> 0, orphan |-> FALSE,
   young  |-> FALSE, wanted |-> FALSE, undrained |-> FALSE]

-----------------------------------------------------------------------------
(* Predicates of core.c.                                                   *)

\* (mutant) a reaped job is taken to have its receive rights back
job_active_forgets_rights(j) == Has(j, "p") \/ Has(j, "priv_port_has_senders")

\* Why launchd will not start the job: its pid, a sender on its privileged
\* port, or a receive right it has not got back
job_active(j) ==
  \/ Has(j, "p")
  \/ Has(j, "priv_port_has_senders")
  \/ /\ Key("MachServices")
     /\ ~Has(j, "workaround9359725")
     /\ Has(j, "isActive")

\* (mutant) a pending removal is not looked at again
job_useless_forgets_removal(j, m) ==
  \/ Key("LaunchOnlyOnce") /\ Has(j, "start_time")
  \/ m.shutting_down /\ Key("root_jobmgr")

job_useless(j, m) ==
  \/ Key("LaunchOnlyOnce") /\ Has(j, "start_time")
  \/ Has(j, "removal_pending")
  \/ m.shutting_down /\ Key("root_jobmgr")
  \/ /\ Key("legacy_mach_job")
     /\ ~Key("MachServices") \/ ~Has(j, "checkedin")
  \/ /\ ~Key("legacy_mach_job")
     /\ ~Has(j, "did_exec")
     /\ j.status = "ebadarch"

semaphore_wanted(j, m) ==
  \/ Key("NetworkUp")      /\ m.network_up
  \/ Key("NetworkDown")    /\ ~m.network_up
  \/ Key("SuccessfulExit") /\ j.status = "ok"
  \/ Key("FailedExit")     /\ j.status # "ok"
  \/ Key("Crashed")        /\ Has(j, "crashed")
  \/ Key("DidNotCrash")    /\ ~Has(j, "crashed")

\* The reasons to run that no queued message is part of
standing_reason(j, m) ==
  \/ Has(j, "start_pending")
  \/ ~Has(j, "ondemand")
  \/ semaphore_wanted(j, m)

\* launchd counts the messages of ports whose receive right it holds
queued_messages(j) == Key("MachServices") /\ j.right = "launchd" /\ j.msgs > 0

may_keepalive(j, m) ==
  ~m.shutting_down /\ ~m.global_on_demand /\ ~Has(j, "needs_kickoff")

job_keepalive(j, m) ==
  may_keepalive(j, m) /\ (standing_reason(j, m) \/ queued_messages(j))

-----------------------------------------------------------------------------
(* Functions of core.c, from job record to job record.                     *)

job_ignore(j) ==
  IF Has(j, "currently_ignored") THEN j
  ELSE [Set(j, {"currently_ignored"}) EXCEPT !.inset = FALSE]

\* KERN_INVALID_RIGHT, when the right is out, is remembered as recv_race_hack
machservice_watch(j) ==
  IF ~Key("MachServices") THEN j
  ELSE IF j.right = "launchd" THEN [j EXCEPT !.inset = TRUE]
  ELSE Set(j, {"recv_race_hack"})

\* (mutant) the service's port is not added to the demand set
job_watch_skips_port(j) == Clear(j, {"currently_ignored"})

job_watch(j) ==
  IF Has(j, "currently_ignored")
  THEN machservice_watch(Clear(j, {"currently_ignored"}))
  ELSE j

\* The new port is empty and no member of the demand set
machservice_resetport(j) == [j EXCEPT !.msgs = 0, !.inset = FALSE]

machservice_drain_port(j) ==
  [j EXCEPT !.undrained = FALSE,
            !.msgs = IF Key("DrainAll") \/ @ = 0 THEN 0 ELSE @ - 1]

Drains == Key("DrainOne") \/ Key("DrainAll")

\* s: the signal that proc_terminate() chose, SIGKILL for a clean process.
\* Only a shutdown may simulate the exit of a process killed cleanly.  When
\* no signal could be sent the job still counts as stopped, without a timer.
stop_timers(j, m, s) ==
  j.timers \cup When(\/ s = "KILL" /\ m.shutting_down
                     \/ s = "TERM" /\ Key("ExitTimeOut"), {"exit"})

stop_flags(j, s) ==
  j.flags \cup {"stopped"} \cup When(s = "KILL", {"sent_sigkill", "clean_kill"})

signalled(j, s) == IF j.child = "zombie" \/ s = "none" THEN j.sig ELSE s

job_stop(j, m, s) ==
  IF ~Has(j, "p") \/ Has(j, "stopped") THEN j
  ELSE [j EXCEPT !.sig    = signalled(j, s),
                 !.flags  = stop_flags(j, s),
                 !.timers = stop_timers(j, m, s)]

\* s: "none" when the kill2() fails, which is only logged
job_kill(j, s) ==
  [j EXCEPT !.sig    = signalled(j, IF s = "none" THEN "none" ELSE "KILL"),
            !.flags  = @ \cup {"sent_sigkill"},
            !.timers = @ \cup {"exit"}]

\* job_remove() once the job has no process: everything it owns is released
\* and the callers waiting for the removal are answered
job_free(j) ==
  [job_new(cfg) EXCEPT
     !.exists = FALSE, !.flags = {},
     !.timers = j.timers \cap When(~Key("ExitTimeOut"), {"exit"})]

\* (mutant) the removal waits for an exit nobody asks for
job_remove_passive(j, m, s) ==
  IF ~Has(j, "p") THEN job_free(j) ELSE Set(j, {"removal_pending"})

job_remove(j, m, s) ==
  IF ~Has(j, "p") THEN job_free(j)
  ELSE IF Has(j, "removal_pending") THEN j
  ELSE job_stop(Set(j, {"removal_pending"}), m, s)

\* wait4()'s status; a simulated exit is taken for a SIGSEGV
reaped_status(j) ==
  IF Has(j, "workaround9359725") THEN "crash"
  ELSE IF j.fate \in {"jetClean", "jetDirty"} THEN "ok"
  ELSE j.fate

\* (mutant) the exit is taken to return the receive right
reaped_flags_take_rights(j) == (j.flags \ {"p", "isActive"}) \cup {"reaped"}

\* Why the reaped job's flags are what they are
reaped_flags(j) ==
  LET st == reaped_status(j) IN
  (j.flags \ {"p", "sent_sigkill", "clean_kill", "simulated"})
    \cup {"reaped"}
    \cup When(Has(j, "workaround9359725"), {"simulated"})
    \cup When(Has(j, "jettisoned"), {"unthrottle"})
    \cup When(Has(j, "jettisoned") /\ j.fate = "jetDirty", {"start_pending"})
    \cup When(st = "enoent" /\ ~Has(j, "did_exec") /\ Key("support_system"),
              {"waiting4ok"})
    \cup When(/\ st = "crash"
              /\ j.flags \cap {"stopped", "clean_kill", "jettisoned"} = {},
              {"crashed"})

reaped_timers(j) == j.timers \ When(Key("ExitTimeOut"), {"exit"})

\* The child's kernel objects once it is reaped: waited for, or abandoned
\* to the dispatch source that reaps it whenever it exits
reaped_kernel(j) ==
  [j EXCEPT !.child = "none", !.fate = "ok", !.notes = {}, !.sig = "none",
            !.orphan = @ \/ (Has(j, "workaround9359725") /\ j.child # "zombie"),
            !.right  = IF @ = "child" THEN "orphan" ELSE @,
            !.wanted = FALSE]

\* (mutant) the drain is left to the port-destroyed notification
reap_drain_never(j) == j

reap_drain(j) ==
  IF j.undrained /\ ~Has(j, "isActive") THEN machservice_drain_port(j) ELSE j

reap_reset(j) ==
  IF /\ Key("MachServices") /\ Key("ResetAtClose")
     /\ ~Has(j, "did_exec") /\ ~Has(j, "isActive")
  THEN machservice_resetport(j) ELSE j

job_reap(j) ==
  reap_reset(reap_drain(
    [reaped_kernel(j) EXCEPT
       !.status = reaped_status(j),
       !.flags  = reaped_flags(j),
       !.undrained = "crashed" \in reaped_flags(j) /\ Key("MachServices") /\ Drains,
       !.timers = reaped_timers(j)]))

throttled(j) ==
  /\ Has(j, "start_time") /\ j.young
  /\ ~Key("legacy_mach_job") /\ ~Has(j, "unthrottle")

\* The parent's side of a fork() that succeeded.  The first start of a job
\* with AfterInitialDemand makes it a kept-alive one.
forked_flags(j) ==
  (j.flags \ ({"did_exec", "jettisoned", "checkedin", "start_pending",
               "reaped", "crashed", "stopped", "workaround9359725",
               "unthrottle", "needs_kickoff"}
              \cup When(Has(j, "needs_kickoff") /\ cfg \cap Semaphores = {},
                        {"ondemand"})))
    \cup {"p", "start_time"}

forked(j) ==
  [j EXCEPT !.flags = forked_flags(j), !.child = "forked", !.notes = {},
            !.sig = "none", !.young = TRUE]

\* f: what fork() and the kevent_mod() on the child yield
job_start(j, f) ==
  IF job_active(j) THEN j
  ELSE IF throttled(j) THEN
    job_ignore([j EXCEPT !.timers = (@ \ {"due"}) \cup {"job"}])
  ELSE IF f = "forkfail" THEN
    job_ignore([j EXCEPT !.timers = (@ \ {"job"}) \cup {"due"}])
  ELSE IF f = "noattach" THEN
    job_watch(job_reap([forked(j) EXCEPT !.child = "zombie", !.fate = "killed"]))
  ELSE job_ignore(forked(j))

job_dispatch(j, m, kickstart, f) ==
  IF Has(j, "waiting4ok") \/ job_active(j) THEN j
  ELSE IF job_useless(j, m) THEN job_free(j)
  ELSE IF kickstart \/ job_keepalive(j, m)
  THEN job_start([j EXCEPT !.wanted = @ \/ job_keepalive(j, m)], f)
  ELSE job_watch(j)

\* jobmgr_do_garbage_collection(), for this job of a manager shutting down
garbage_collection(j, m, s) ==
  IF ~m.shutting_down \/ ~j.exists THEN j
  ELSE IF job_active(j) THEN job_stop(j, m, s)
  ELSE job_free(j)

-----------------------------------------------------------------------------
(* Initial states: the job has just been imported.  A plist job has been   *)
(* dispatched by job_import(); a legacy server waits for its creator.      *)

Init ==
  /\ cfg \in Configs
  /\ mgr \in [shutting_down : {FALSE}, global_on_demand : {FALSE},
              network_up : IF cfg \cap Semaphores = {} THEN {TRUE} ELSE BOOLEAN]
  /\ \E f \in ForkOutcomes :
       job = IF Key("legacy_mach_job") THEN job_new(cfg)
             ELSE job_dispatch(job_new(cfg), mgr, FALSE, f)

-----------------------------------------------------------------------------
(* Handlers of launchd.                                                    *)

\* job_find(): commands do not see jobs being removed or shut down
Findable == job.exists /\ ~Has(job, "removal_pending") /\ ~mgr.shutting_down

\* A zombie cannot be clean: kill2() reports success for its SIGTERM
TermSignals == IF job.child = "zombie" THEN {"TERM"} ELSE Signals

Kicked(j) == [j EXCEPT !.wanted = TRUE]

\* "StartJob" and job_mig_kickstart()
StartCommand(f) ==
  /\ "start" \in Stimuli
  /\ Findable
  /\ job' = job_dispatch(Kicked(job), mgr, TRUE, f)
  /\ UNCHANGED <<cfg, mgr>>

\* "StopJob"
StopCommand(s) ==
  /\ "stop" \in Stimuli
  /\ Findable
  /\ job' = job_stop(job, mgr, s)
  /\ UNCHANGED <<cfg, mgr>>

\* "RemoveJob", and job_mig_send_signal() with the unload signal, whose
\* caller is answered when the job is gone
RemoveCommand(s, blocking) ==
  /\ "remove" \in Stimuli
  /\ Findable
  /\ job' = LET j == job_remove(job, mgr, s)
            IN  IF blocking /\ Has(job, "p") THEN Set(j, {"removal_watcher"}) ELSE j
  /\ UNCHANGED <<cfg, mgr>>

\* EVFILT_PROC: job_callback_proc() on the pending notes, then collection
ProcEvent(f, s) ==
  /\ job.exists /\ Has(job, "p") /\ job.notes # {}
  /\ LET execd == Set([job EXCEPT !.notes = {}],
                      When("EXEC" \in job.notes, {"did_exec"}))
         ended == Set(execd, When(job.fate \in {"jetClean", "jetDirty"},
                                  {"jettisoned"}))
     IN  job' = garbage_collection(
                  IF "EXIT" \in job.notes
                  THEN job_dispatch(job_reap(ended), mgr, FALSE, f)
                  ELSE execd,
                  mgr, s)
  /\ UNCHANGED <<cfg, mgr>>

\* EVFILT_TIMER on j: the throttle or the retry of a failed fork is over
JobTimer(f) ==
  /\ job.exists /\ "due" \in job.timers
  /\ job' = job_dispatch([job EXCEPT !.timers = @ \ {"due"}], mgr, TRUE, f)
  /\ UNCHANGED <<cfg, mgr>>

\* EVFILT_TIMER on &j->exit_timeout: kill, or simulate the exit
ExitTimer(f, s) ==
  /\ job.exists /\ "exit" \in job.timers
  /\ Has(job, "sent_sigkill") => MayWedge
  /\ LET fired == [job EXCEPT !.timers = @ \ {"exit"}]
     IN  job' = IF ~Has(job, "p") THEN fired
                ELSE IF ~Has(job, "sent_sigkill") THEN job_kill(fired, s)
                ELSE garbage_collection(
                       job_dispatch(job_reap(Set(fired, {"workaround9359725"})),
                                    mgr, FALSE, f),
                       mgr, s)
  /\ UNCHANGED <<cfg, mgr>>

\* EVFILT_TIMER on &j->start_interval, which is periodic
IntervalTimer(f) ==
  /\ job.exists /\ "interval" \in job.timers
  /\ job' = job_dispatch(Set(job, {"start_pending"}), mgr, FALSE, f)
  /\ UNCHANGED <<cfg, mgr>>

\* mportset_callback() and job_callback(): a message on a watched port
MachDemand(f) ==
  /\ job.exists /\ job.inset /\ queued_messages(job)
  /\ job' = job_dispatch(Kicked(job), mgr, TRUE, f)
  /\ UNCHANGED <<cfg, mgr>>

\* job_mig_check_in2(): the receive right moves to the child
CheckIn ==
  /\ job.exists /\ job.child = "running" /\ Has(job, "p")
  /\ Key("MachServices") /\ ~Has(job, "isActive")
  /\ job' = [Set(job, {"isActive", "checkedin"}) EXCEPT !.right = "child",
                                                        !.inset = FALSE]
  /\ UNCHANGED <<cfg, mgr>>

\* job_ack_port_destruction(): the receive right came back
PortDestroyed(f, s) ==
  /\ job.exists /\ job.right = "returning"
  /\ LET back    == [job EXCEPT !.right = "launchd"]
         drain   == IF Drains /\ {"crashed", "reaped"} \subseteq job.flags
                    THEN machservice_drain_port(back) ELSE back
         idle    == Clear(drain, {"isActive"})
         reset   == IF Key("ResetAtClose") THEN machservice_resetport(idle) ELSE idle
         run     == job_dispatch(reset, mgr, FALSE, f)
         watched == IF Has(run, "recv_race_hack")
                    THEN machservice_watch(Clear(run, {"recv_race_hack"}))
                    ELSE run
     IN  job' = garbage_collection(watched, mgr, s)
  /\ UNCHANGED <<cfg, mgr>>

\* job_ack_no_senders(): the creator of a legacy server let go of it
NoSenders(f) ==
  /\ job.exists /\ Has(job, "priv_port_has_senders")
  /\ job' = job_dispatch(Clear(job, {"priv_port_has_senders"}), mgr, FALSE, f)
  /\ UNCHANGED <<cfg, mgr>>

\* xpc_event_provider_set_state() on the event that waits for the program
ProviderReady(f) ==
  /\ job.exists /\ Has(job, "waiting4ok")
  /\ job' = job_dispatch(Clear(job, {"waiting4ok"}), mgr, FALSE, f)
  /\ UNCHANGED <<cfg, mgr>>

\* VPROC_GSK_BASIC_KEEPALIVE, swapped by the job's own process
SwapKeepAlive(v) ==
  /\ "swapKeepAlive" \in Stimuli
  /\ job.exists /\ job.child = "running" /\ Has(job, "p")
  /\ job' = IF v THEN Clear(job, {"ondemand"}) ELSE Set(job, {"ondemand"})
  /\ UNCHANGED <<cfg, mgr>>

\* EVFILT_FS: jobmgr_dispatch_all() with the mount hack, and the semaphores
VolumeMounted(f) ==
  /\ "mount" \in Stimuli
  /\ job.exists
  /\ LET all == IF mgr.shutting_down THEN job
                ELSE job_dispatch(Set(job, When(Key("StartOnMount"), {"start_pending"})),
                                  mgr, FALSE, f)
     IN  job' = IF all.exists /\ cfg \cap Semaphores # {}
                THEN job_dispatch(all, mgr, FALSE, f) ELSE all
  /\ UNCHANGED <<cfg, mgr>>

\* (mutant) the jobs held back are not dispatched when it ends
GlobalOnDemand_silent(f) ==
  /\ "globalOnDemand" \in Stimuli
  /\ mgr' = [mgr EXCEPT !.global_on_demand = ~@]
  /\ UNCHANGED <<cfg, job>>

\* job_set_global_on_demand() by a peer; jobmgr_dispatch_all() when it ends
GlobalOnDemand(f) ==
  /\ "globalOnDemand" \in Stimuli
  /\ mgr' = [mgr EXCEPT !.global_on_demand = ~@]
  /\ job' = IF job.exists /\ mgr.global_on_demand /\ ~mgr.shutting_down
            THEN job_dispatch(job, mgr', FALSE, f) ELSE job
  /\ UNCHANGED cfg

\* (mutant) the jobs are not told of the change
NetworkChange_silent(f) ==
  /\ "network" \in Stimuli
  /\ cfg \cap Semaphores # {}
  /\ mgr' = [mgr EXCEPT !.network_up = ~@]
  /\ UNCHANGED <<cfg, job>>

\* pfsystem_callback(): the network changed; jobs with semaphores look again
NetworkChange(f) ==
  /\ "network" \in Stimuli
  /\ cfg \cap Semaphores # {}
  /\ mgr' = [mgr EXCEPT !.network_up = ~@]
  /\ job' = IF job.exists THEN job_dispatch(job, mgr', FALSE, f) ELSE job
  /\ UNCHANGED cfg

\* jobmgr_shutdown()
Shutdown(s) ==
  /\ "shutdown" \in Stimuli
  /\ ~mgr.shutting_down
  /\ mgr' = [mgr EXCEPT !.shutting_down = TRUE]
  /\ job' = garbage_collection(job, mgr', s)
  /\ UNCHANGED cfg

-----------------------------------------------------------------------------
(* The child, its clients and the clock.                                   *)

ChildExec ==
  /\ job.child = "forked" /\ job.sig # "KILL"
  /\ job' = [job EXCEPT !.child = "running", !.notes = @ \cup {"EXEC"}]
  /\ UNCHANGED <<cfg, mgr>>

\* The ways the child may end now: exec failures come before the exec, and
\* a process that was sent SIGKILL dies of it
MayEnd(o) ==
  /\ o \in {"enoent", "ebadarch"} => job.child = "forked"
  /\ o \in {"ok", "crash", "jetClean", "jetDirty"} => job.child = "running"
  /\ job.sig = "KILL" => o = "killed"

\* The kernel takes the right from a dying process and notifies launchd
ChildExit(o) ==
  /\ job.child \in {"forked", "running"} /\ MayEnd(o)
  /\ job' = [job EXCEPT !.child = "zombie", !.fate = o, !.notes = @ \cup {"EXIT"},
                        !.right = IF @ = "child" THEN "returning" ELSE @]
  /\ UNCHANGED <<cfg, mgr>>

\* A process that gets its SIGKILL and never exits can still be abandoned
OrphanExit ==
  /\ job.orphan
  /\ job' = [job EXCEPT !.orphan = FALSE,
                        !.right = IF @ = "orphan" THEN "returning" ELSE @]
  /\ UNCHANGED <<cfg, mgr>>

\* The holder closes its receive right, which returns to launchd
DropRight ==
  /\ job.right = "child" /\ job.child = "running"
  /\ job' = [job EXCEPT !.right = "returning"]
  /\ UNCHANGED <<cfg, mgr>>

ClientSends ==
  /\ "send" \in Stimuli
  /\ job.exists /\ Key("MachServices") /\ job.msgs < MaxMsgs
  /\ job' = [job EXCEPT !.msgs = @ + 1]
  /\ UNCHANGED <<cfg, mgr>>

ChildReceives ==
  /\ job.exists /\ job.right = "child" /\ job.child = "running" /\ job.msgs > 0
  /\ job' = [job EXCEPT !.msgs = @ - 1]
  /\ UNCHANGED <<cfg, mgr>>

\* min_run_time has passed since the last start: the throttle timer, which
\* was set for the rest of it, is due
TimePasses ==
  /\ job.exists /\ job.young /\ "due" \notin job.timers
  /\ job' = [job EXCEPT !.young = FALSE,
                        !.timers = IF "job" \in @ THEN (@ \ {"job"}) \cup {"due"}
                                   ELSE @]
  /\ UNCHANGED <<cfg, mgr>>

-----------------------------------------------------------------------------

Next ==
  \/ \E f \in ForkOutcomes, s \in TermSignals :
       ProcEvent(f, s) \/ ExitTimer(f, s) \/ PortDestroyed(f, s)
  \/ \E f \in ForkOutcomes :
       \/ StartCommand(f) \/ JobTimer(f) \/ IntervalTimer(f) \/ MachDemand(f)
       \/ NoSenders(f) \/ ProviderReady(f) \/ VolumeMounted(f)
       \/ GlobalOnDemand(f) \/ NetworkChange(f)
  \/ \E s \in TermSignals :
       StopCommand(s) \/ Shutdown(s) \/ \E b \in BOOLEAN : RemoveCommand(s, b)
  \/ CheckIn \/ \E v \in BOOLEAN : SwapKeepAlive(v)
  \/ ChildExec \/ (\E o \in ExitOutcomes : ChildExit(o))
  \/ OrphanExit \/ DropRight \/ ClientSends \/ ChildReceives \/ TimePasses

Spec == Init /\ [][Next]_vars

\* launchd's run loop serves every event it is told of; a process that was
\* sent SIGKILL dies unless it may wedge; fork() does not fail for ever.
\* ProcEvent and PortDestroyed always leave nothing of their event, so weak
\* fairness of them says that the event does not stay for ever.
Fairness ==
  /\ []<>~(job.exists /\ Has(job, "p") /\ job.notes # {})
  /\ []<>~(job.exists /\ job.right = "returning")
  /\ WF_vars(\E f \in ForkOutcomes, s \in TermSignals : ExitTimer(f, s))
  /\ WF_vars(\E f \in ForkOutcomes : MachDemand(f))
  /\ SF_vars(JobTimer("ok"))
  /\ WF_vars(TimePasses)
  /\ ~MayWedge => WF_vars(job.sig = "KILL" /\ ChildExit("killed"))

FairSpec == Spec /\ Fairness

-----------------------------------------------------------------------------
(* Properties.                                                             *)

\* The values each variable takes.
TypeOK == cfg \in Configs /\ job \in Job /\ mgr \in Mgr

\* launchd's pid agrees with the kernel: the job has a pid exactly while a
\* child of it is running or waits to be reaped, so no start forgets a live
\* child and no exit leaves a zombie behind (job_start, job_reap).
PidMatchesChild == Has(job, "p") <=> job.child # "none"

\* ms->isActive is true exactly while the service's receive right is away
\* from launchd, whatever the order of NOTE_EXIT, the port-destroyed
\* notification, resets, simulated exits and restarts.
RightsAccounted ==
  job.exists => (Has(job, "isActive") <=> job.right # "launchd")

\* launchd's idea of the child and of the receive right is the kernel's.
KernelAgrees == TypeOK /\ PidMatchesChild /\ RightsAccounted

\* A job that is idle and may be demanded has its port in the demand set,
\* or a timer that will dispatch it: no interleaving loses the wakeup
\* (job_watch, job_ignore, recv_race_hack).
NoLostWakeup ==
  /\ job.exists /\ ~job_active(job) /\ ~Has(job, "waiting4ok")
  /\ Key("MachServices") /\ job.right = "launchd"
  => job.inset \/ job.timers \cap {"job", "due"} # {}

\* A job with a reason to run is running, throttled, or waiting for its
\* receive right, its creator or its program: no handler leaves a KeepAlive
\* job dead (job_dispatch after every change that job_keepalive looks at).
KeptAlive ==
  /\ job.exists /\ ~job_active(job) /\ ~Has(job, "waiting4ok")
  /\ may_keepalive(job, mgr) /\ standing_reason(job, mgr)
  => job.timers \cap {"job", "due"} # {}

\* A job whose removal is pending still has its process, or waits for the
\* rights or the event that process left behind.
RemovalWaitsForExit ==
  Has(job, "removal_pending") => job_active(job) \/ Has(job, "waiting4ok")

\* The exit timer belongs to a process: job_callback_timer() asserts
\* job_assumes(j, j->p != 0) when it fires.
ExitTimerHasProcess == "exit" \in job.timers => Has(job, "p")

\* "We cannot safely respawn it" without its receive rights (job_stop): the
\* process being started finds them with launchd, not with a predecessor,
\* in any order of exit, return and restart, unless the last exit of the job
\* was one job_callback_timer() simulated.
RespawnOwnsRights ==
  job.child = "forked" => job.right = "launchd" \/ Has(job, "simulated")

\* What the comment in job_stop() takes to follow from arming the timer after
\* a SIGKILL in a shutdown only: no process is ever started without the
\* rights.  job_kill() arms it in a normal run too.
NeverWithoutRights == job.child = "forked" => job.right = "launchd"

\* A job that crashed and asked for it has had its queue drained before it
\* runs again, whichever of NOTE_EXIT and the right's return came first
\* (job_reap, job_ack_port_destruction).
DrainedBeforeRespawn == Has(job, "p") => ~job.undrained

\* Nothing of one life of the job reaches into the next: not its exit timer,
\* not the messages it crashed on.
LivesApart == ExitTimerHasProcess /\ DrainedBeforeRespawn

\* Only demand starts a job that is not kept alive: every running instance
\* answers a demand or a reason to run that came after the previous one
\* was reaped.
OnlyDemandStarts == Has(job, "p") => job.wanted

\* A stopped process is reaped: SIGTERM, the exit timer and SIGKILL see to it.
StopCompletes ==
  (Has(job, "p") /\ Has(job, "stopped")) ~> ~(Has(job, "p") /\ Has(job, "stopped"))

\* Shutdown gets rid of the job.
ShutdownCompletes == mgr.shutting_down ~> ~job.exists

\* A caller blocked in an unload is answered, unless the program is missing.
RemovalAnswered ==
  Has(job, "removal_watcher") ~> (~Has(job, "removal_watcher") \/ Has(job, "waiting4ok"))

\* Stop, shutdown and unload come to an end.
EndingsComplete == StopCompletes /\ ShutdownCompletes /\ RemovalAnswered

\* A job kept alive runs again unless something holds it back.
KeepAliveRestarts ==
  (job.exists /\ ~Has(job, "ondemand"))
    ~> \/ Has(job, "p") \/ ~job.exists \/ Has(job, "ondemand")
       \/ Has(job, "waiting4ok") \/ ~may_keepalive(job, mgr)

\* A message sent to an idle job's service gets it running.
DemandServed ==
  (job.exists /\ job.msgs > 0)
    ~> (Has(job, "p") \/ job.msgs = 0 \/ ~job.exists \/ Has(job, "waiting4ok"))
=============================================================================
