------------------------------ MODULE LoadJobs ------------------------------
(***************************************************************************)
(* How jobs get into launchd: launchctl load and unload read property      *)
(* lists and the database of overrides, liblaunch submits the jobs and     *)
(* then hands over the security session they wait for, and launchd         *)
(* imports and dispatches them.  Several launchctl processes, one of them  *)
(* perhaps an interactive one that runs several commands, do so at once.   *)
(***************************************************************************)
EXTENDS Integers, FiniteSets, Sequences, Functions

CONSTANTS
  Clients,    \* launchctl processes
  Manager,    \* client -> the session of its bootstrap port
  Managers,   \* the sessions this launchd has
  RootMgr,    \* root_jobmgr's
  Labels,
  Files,      \* the property list files, and what is in them:
  Plist,      \* file -> [label, keys, disabled, sessions, fits, trusted]
  Scripts,    \* the commands the clients may be given: client -> sequence
  ReadOnly,   \* whether the overrides database may be on a read-only file system
  MaxJobs,    \* bound on the jobs ever imported
  MayDie      \* clients that may be killed at any time

Commands ==
  [op : {"load", "unload", "submit", "start", "remove"}, w : BOOLEAN, F : BOOLEAN, S : STRING,
   boot : BOOLEAN, paths : Seq(Files)]

\* Commands name files, and those for one job name one
ASSUME LoadJobsAssumption ==
  /\ MaxJobs \in Nat /\ ReadOnly \subseteq BOOLEAN /\ "nobody" \notin Clients
  /\ \A f \in Files : Plist[f].label \in Labels
  /\ \A s \in Scripts : s \in [Clients -> Seq(Commands)]
  /\ \A s \in Scripts : \A c \in Clients : \A k \in 1..Len(s[c]) :
       s[c][k].op \in {"submit", "start", "remove"} => s[c][k].paths # <<>>

NoJob == 0
NullUuid == <<"null", 0>>
NoUuid == <<"none", 0>>
Nobody == "nobody"

VARIABLES
  script,     \* client -> the commands it is to run, one for a non-interactive one
  cl,         \* client -> the state of its process
  lock,       \* the process that holds the lock on the overrides database
  db,         \* the overrides database on disk: label -> "none", "yes" or "no" (Disabled)
  rofs,       \* the database is on a read-only file system
  key,        \* file -> its Disabled key
  job,        \* launchd's jobs: id -> record
  next,       \* the next id
  mgrjobs,    \* manager -> jm->jobs, newest first
  s_needing_sessions, \* newest first
  errno,      \* launchd's
  _launchd_event_monitor,
  wanted      \* what the -w options of finished commands say: label -> as db;
              \* a write that was cut off has taken back all that was said before

launchd == <<job, next, mgrjobs, s_needing_sessions, errno, _launchd_event_monitor>>
vars == <<script, cl, lock, db, rofs, key, launchd, wanted>>

Ids == 1..MaxJobs
Present == {i \in Ids : job[i].there}
Absent == [there |-> FALSE, label |-> "none", mgr |-> RootMgr, keys |-> {}, ondemand |-> TRUE,
           start_pending |-> FALSE, uuid |-> NullUuid, monitor |-> FALSE, running |-> FALSE,
           removal_pending |-> FALSE]

Cmd(c) == script[c][cl[c].cmd]

-----------------------------------------------------------------------------
(* launchctl: reading the files.                                           *)

\* Below, g is what a command has gathered so far: odb, the database in memory
\* (without a meaning when there is none), changed, the files as edited, the
\* Disabled key of the file being read and pass1, the jobs to submit or unload

\* An entry of the database overrides the Disabled key
effective(g, f) ==
  LET l == Plist[f].label IN IF ~rofs /\ g.odb[l] # "none" THEN g.odb[l] ELSE key[f]

\* With -w the answer is stored: in the database or, without one, in the file
read_plist_file(g, f, cmd) ==
  LET l == Plist[f].label
      d == IF cmd.op = "load" THEN "no" ELSE "yes"
  IN  CASE ~cmd.w         -> [g EXCEPT !.disabled = effective(g, f)]
        [] cmd.w /\ ~rofs -> [g EXCEPT !.odb[l] = d, !.changed = TRUE, !.disabled = d]
        [] cmd.w /\ rofs  -> [g EXCEPT !.key[f] = IF cmd.op = "load" THEN "none" ELSE "yes",
                                       !.disabled = IF cmd.op = "load" THEN "none" ELSE "yes"]

\* lus->session_type: Aqua is the default within Aqua
SessionType(c, cmd) ==
  IF cmd.S = "none" /\ Manager[c] = "Aqua" THEN "Aqua" ELSE cmd.S

\* The sessions the job is limited to: Aqua, if a session is asked for and it does not say
AllowedSessions(c, f, cmd) ==
  IF SessionType(c, cmd) # "none" /\ Plist[f].sessions = {} THEN {"Aqua"} ELSE Plist[f].sessions

SessionFits(c, f, cmd) ==
  LET a == AllowedSessions(c, f, cmd)
  IN  \/ a = {}
      \/ SessionType(c, cmd) \in a
      \/ SessionType(c, cmd) = "none" /\ Manager[c] = "System" /\ a = {"System"}

path_goodness_check(f, cmd) == cmd.F \/ Plist[f].trusted

\* The job that is submitted: the session it goes to and the UUID it is given.
\* The bootstrapper of launchd's own session gives its jobs the null UUID
Descr(c, f, cmd) ==
  [file |-> f, mgr |-> IF AllowedSessions(c, f, cmd) = {} THEN "none"
                       ELSE IF SessionType(c, cmd) # "none" THEN SessionType(c, cmd) ELSE "System",
   uuid |-> IF cmd.boot THEN NullUuid ELSE NoUuid,
   keys |-> Plist[f].keys]

\* "none" is a job without the key
job_disabled_logic(disabled) == disabled = "yes"

readfile(c, g, f, cmd) ==
  LET h == read_plist_file(g, f, cmd)
      skip == \/ ~Plist[f].fits
              \/ ~SessionFits(c, f, cmd)
              \/ job_disabled_logic(h.disabled) /\ ~cmd.F /\ cmd.op = "load"
  IN  IF skip THEN h ELSE [h EXCEPT !.pass1 = Append(@, Descr(c, f, cmd))]

readpath(c, g, f, cmd) == IF path_goodness_check(f, cmd) THEN readfile(c, g, f, cmd) ELSE g

Gathered(c) ==
  LET cmd == Cmd(c)
      g[k \in 0..Len(cmd.paths)] ==
        IF k = 0 THEN [odb |-> cl[c].odb, changed |-> cl[c].changed, key |-> key, disabled |-> "none",
                       pass1 |-> <<>>]
        ELSE readpath(c, g[k - 1], cmd.paths[k], cmd)
  IN  g[Len(cmd.paths)]

\* launchctl bootstrap: a load of what is there for a session.  The jobs of
\* System and Background are to stay in launchd's own security session
bootstrap_cmd(S, paths) ==
  [op |-> "load", w |-> FALSE, F |-> FALSE, S |-> S, boot |-> S \in {"System", "Background"},
   paths |-> paths]

-----------------------------------------------------------------------------
(* launchd: import, dispatch and removal, on a record of its state.        *)

Launchd == [job |-> job, next |-> next, mgrjobs |-> mgrjobs, needing |-> s_needing_sessions,
            errno |-> errno, monitor |-> _launchd_event_monitor]

LaunchdBecomes(s) ==
  /\ job' = s.job /\ next' = s.next /\ mgrjobs' = s.mgrjobs /\ s_needing_sessions' = s.needing
  /\ errno' = s.errno /\ _launchd_event_monitor' = s.monitor

\* A job that waits for its session is not dispatched; of the conditions of
\* job_keepalive() those that hold at once are kept
dispatched(j, kickstart) ==
  IF /\ j.uuid = NullUuid /\ ~j.removal_pending
     /\ kickstart \/ j.start_pending \/ ~j.ondemand
  THEN [j EXCEPT !.running = TRUE, !.start_pending = FALSE] ELSE j

job_dispatch(s, i, kickstart) == [s EXCEPT !.job[i] = dispatched(@, kickstart)]

eventsystem_ping(s) ==
  IF s.monitor = NoJob \/ s.job[s.monitor].running THEN s ELSE job_dispatch(s, s.monitor, TRUE)

\* The Boolean keys that matter here.  The event monitor is the first that asks
job_import_bool(j, i, s) ==
  [j EXCEPT !.ondemand = "KeepAlive" \notin j.keys,
            !.start_pending = "RunAtLoad" \in j.keys,
            !.monitor = "EventMonitor" \in j.keys /\ s.monitor = NoJob]

job_import_opaque(j, uuid) == [j EXCEPT !.uuid = uuid]

job_import_keys(s, i, uuid) ==
  LET j == job_import_opaque(job_import_bool(s.job[i], i, s), uuid)
  IN  [s EXCEPT !.job[i] = j, !.monitor = IF j.monitor THEN i ELSE @]

job_find(s, l) == {i \in Ids : s.job[i].there /\ ~s.job[i].removal_pending /\ s.job[i].label = l}

job_new(s, l, m, keys) ==
  [s EXCEPT !.job[s.next] = [Absent EXCEPT !.there = TRUE, !.label = l, !.mgr = m, !.keys = keys],
            !.mgrjobs[m] = <<s.next>> \o @, !.next = @ + 1]

\* A new job or an errno; labels are unique in all managers together
jobmgr_import2(s, d) ==
  LET l == Plist[d.file].label
      m == IF d.mgr = "none" THEN RootMgr ELSE d.mgr
      i == s.next
      t == job_import_keys(job_new(s, l, m, d.keys), i, d.uuid)
      u == IF d.uuid = NullUuid THEN t ELSE [t EXCEPT !.needing = <<i>> \o @, !.errno = "ENEEDAUTH"]
  IN  CASE m \notin Managers -> [s EXCEPT !.errno = "EINVAL"]
        [] m \in Managers /\ job_find(s, l) # {} -> [s EXCEPT !.errno = "EEXIST"]
        [] OTHER -> IF u.job[i].monitor THEN eventsystem_ping(u) ELSE u

\* The import of the next job: a.s is the state, a.resp the answers and a.ids the
\* jobs so far.  errno is only cleared when it is not ENEEDAUTH
import_next(a, d) ==
  LET s == jobmgr_import2(a.s, d)
      new == s.next # a.s.next
      e == IF new /\ s.errno # "ENEEDAUTH" THEN "0" ELSE s.errno
  IN  [s |-> [s EXCEPT !.errno = e], resp |-> Append(a.resp, e),
       ids |-> IF new THEN a.ids \cup {a.s.next} ELSE a.ids]

\* The loop over the new jobs, which do not see each other: none of them is useless
\* before it has run, and their conditions do not name other jobs, so that a
\* dispatch frees none and the walk of the curious ones finds nothing to start
dispatch_all(a) ==
  [a EXCEPT !.s.job = [i \in Ids |-> IF i \in a.ids THEN dispatched(@[i], FALSE) ELSE @[i]]]

\* All jobs are imported before the first is dispatched
job_import_bulk(s0, ds) ==
  LET a[k \in 0..Len(ds)] ==
        IF k = 0 THEN [s |-> s0, resp |-> <<>>, ids |-> {}] ELSE import_next(a[k - 1], ds[k])
  IN  dispatch_all(a[Len(ds)])

\* A list in which a job is at most once
LIST_REMOVE(q, i) ==
  LET n == CHOOSE n \in 1..Len(q) : q[n] = i
  IN  IF i \notin Range(q) THEN q ELSE [k \in 1..(Len(q) - 1) |-> IF k < n THEN q[k] ELSE q[k + 1]]

\* (mutant) a job that goes stays on the list of those that wait for a session
job_removed_stays(s, i) ==
  [s EXCEPT !.job[i] = Absent,
            !.mgrjobs[s.job[i].mgr] = LIST_REMOVE(@, i),
            !.monitor = IF s.job[i].monitor THEN NoJob ELSE @]

\* The job is taken off every list and freed
job_removed(s, i) ==
  [s EXCEPT !.job[i] = Absent,
            !.mgrjobs[s.job[i].mgr] = LIST_REMOVE(@, i),
            !.needing = LIST_REMOVE(@, i),
            !.monitor = IF s.job[i].monitor THEN NoJob ELSE @]

\* A running job is stopped first
job_remove(s, i) ==
  IF s.job[i].running THEN [s EXCEPT !.job[i].removal_pending = TRUE] ELSE job_removed(s, i)

\* The jobs the walk of job_mig_set_security_session() sees: it starts at the
\* head of s_needing_sessions and goes on along the field that links the jobs
\* of that job's manager
SessionWalk(s) ==
  IF s.needing = <<>> THEN <<>>
  ELSE LET q == s.mgrjobs[s.job[s.needing[1]].mgr]
       IN  SubSeq(q, CHOOSE n \in 1..Len(q) : q[n] = s.needing[1], Len(q))

\* A job that waited for this session is dispatched
set_session(s, i, uuid) ==
  LET u == [s EXCEPT !.job[i].uuid = NullUuid, !.needing = LIST_REMOVE(@, i)]
  IN  IF s.job[i].uuid # uuid THEN s
      ELSE IF u.job[i].monitor THEN eventsystem_ping(u) ELSE job_dispatch(u, i, FALSE)

\* (mutant) the walk ends after the first job
job_mig_set_security_session_first(s, uuid) ==
  IF SessionWalk(s) = <<>> THEN s ELSE set_session(s, SessionWalk(s)[1], uuid)

job_mig_set_security_session(s, uuid) ==
  LET walk == SessionWalk(s)
      t[k \in 0..Len(walk)] == IF k = 0 THEN s ELSE set_session(t[k - 1], walk[k], uuid)
  IN  t[Len(walk)]

-----------------------------------------------------------------------------
(* The steps of a launchctl process.                                       *)

Proc == [pc |-> "ready", cmd |-> 1, odb |-> [l \in Labels |-> "none"], changed |-> FALSE,
         pass1 |-> <<>>, resp |-> <<>>, ids |-> {}, waits |-> NoJob]

Init ==
  /\ script \in Scripts
  /\ cl = [c \in Clients |-> [Proc EXCEPT !.pc = IF script[c] = <<>> THEN "exited" ELSE "ready"]]
  /\ lock = Nobody
  /\ db \in [Labels -> {"none", "yes"}]
  /\ rofs \in ReadOnly
  /\ key = [f \in Files |-> Plist[f].disabled]
  /\ job = [i \in Ids |-> Absent]
  /\ next = 1
  /\ mgrjobs = [m \in Managers |-> <<>>]
  /\ s_needing_sessions = <<>>
  /\ errno = "0"
  /\ _launchd_event_monitor = NoJob
  /\ wanted = db

\* The command returns: the next line of an interactive launchctl, or the end
\* of the process, at which the kernel drops its locks
Returned(c, p) ==
  IF p.cmd < Len(script[c]) THEN [p EXCEPT !.pc = "ready", !.cmd = @ + 1] ELSE [p EXCEPT !.pc = "exited"]

\* (mutant) the database is opened without O_EXLOCK
OpenDb_unlocked(c) ==
  /\ cl[c].pc = "ready" /\ Cmd(c).op \in {"load", "unload"}
  /\ cl' = [cl EXCEPT ![c].pc = "reading", ![c].odb = db]
  /\ UNCHANGED <<script, lock, db, rofs, key, launchd, wanted>>

\* open(O_EXLOCK) of the database waits for whoever has it open, then it is read
OpenDb(c) ==
  /\ cl[c].pc = "ready" /\ Cmd(c).op \in {"load", "unload"}
  /\ lock = Nobody \/ rofs
  /\ lock' = IF rofs THEN lock ELSE c
  /\ cl' = [cl EXCEPT ![c].pc = "reading", ![c].odb = db]
  /\ UNCHANGED <<script, db, rofs, key, launchd, wanted>>

\* Nothing found to load: the command ends without writing or closing the database
ReadNothing(c) ==
  /\ cl[c].pc = "reading" /\ Gathered(c).pass1 = <<>>
  /\ LET g == Gathered(c)
         p == Returned(c, [cl[c] EXCEPT !.changed = g.changed])
     IN  /\ cl' = [cl EXCEPT ![c] = p]
         /\ key' = g.key
         /\ lock' = IF p.pc = "exited" /\ lock = c THEN Nobody ELSE lock
  /\ UNCHANGED <<script, db, rofs, launchd, wanted>>

ReadPaths(c) ==
  /\ cl[c].pc = "reading" /\ Gathered(c).pass1 # <<>>
  /\ LET g == Gathered(c)
     IN  /\ cl' = [cl EXCEPT ![c].pc = IF Cmd(c).op = "load" THEN "submit" ELSE "unload", ![c].odb = g.odb,
                             ![c].changed = g.changed, ![c].pass1 = g.pass1]
         /\ key' = g.key
  /\ UNCHANGED <<script, lock, db, rofs, launchd, wanted>>

\* The UUID that launch_msg() makes for this call
Uuid(c) == <<c, cl[c].cmd>>

\* launch_msg() marks the jobs that bring no UUID and sends them; launchd
\* imports them and answers
SubmitJobs(c) ==
  /\ cl[c].pc = "submit" /\ next + Len(cl[c].pass1) <= MaxJobs + 1
  /\ \E e \in {errno, "0"} :
       LET ds == [k \in 1..Len(cl[c].pass1) |->
                    IF cl[c].pass1[k].uuid = NoUuid THEN [cl[c].pass1[k] EXCEPT !.uuid = Uuid(c)]
                                                    ELSE cl[c].pass1[k]]
           r == job_import_bulk([Launchd EXCEPT !.errno = e], ds)
       IN  /\ LaunchdBecomes(r.s)
           /\ cl' = [cl EXCEPT ![c].pc = "answered", ![c].resp = r.resp, ![c].ids = r.ids]
  /\ UNCHANGED <<script, lock, db, rofs, key, wanted>>

\* launchctl submit: one job, kept alive, for the root manager, and no database
submit_cmd(c) ==
  /\ cl[c].pc = "ready" /\ Cmd(c).op = "submit" /\ next <= MaxJobs
  /\ \E e \in {errno, "0"} :
       LET d == [file |-> Cmd(c).paths[1], mgr |-> "none", uuid |-> Uuid(c), keys |-> {"KeepAlive"}]
           s == jobmgr_import2([Launchd EXCEPT !.errno = e], d)
           new == s.next # next
       IN  /\ LaunchdBecomes(IF new THEN job_dispatch(s, next, FALSE) ELSE s)
           /\ cl' = [cl EXCEPT ![c].pc = IF s.errno = "ENEEDAUTH" THEN "answered" ELSE "done",
                               ![c].pass1 = <<[d EXCEPT !.uuid = NoUuid]>>,
                               ![c].resp = <<s.errno>>, ![c].ids = IF new THEN {next} ELSE {}]
  /\ UNCHANGED <<script, lock, db, rofs, key, wanted>>

\* launchctl start and remove
start_stop_remove_cmd(c) ==
  /\ cl[c].pc = "ready" /\ Cmd(c).op \in {"start", "remove"}
  /\ LET found == job_find(Launchd, Plist[Cmd(c).paths[1]].label)
         i == CHOOSE k \in found : TRUE
     IN  IF found = {} THEN UNCHANGED launchd
         ELSE LaunchdBecomes(IF Cmd(c).op = "start" THEN job_dispatch(Launchd, i, TRUE) ELSE job_remove(Launchd, i))
  /\ cl' = [cl EXCEPT ![c].pc = "done", ![c].ids = {}]
  /\ UNCHANGED <<script, lock, db, rofs, key, wanted>>

Answered(c) == IF Cmd(c).op = "load" THEN "save" ELSE "done"

\* Still in launch_msg(): the session is handed over if some job needs one
SetSession(c) ==
  /\ cl[c].pc = "answered"
  /\ \E d \in Range(cl[c].pass1) : d.uuid = NoUuid
  /\ LaunchdBecomes(job_mig_set_security_session(Launchd, Uuid(c)))
  /\ cl' = [cl EXCEPT ![c].pc = Answered(c),
               ![c].resp = [k \in DOMAIN @ |-> IF @[k] = "ENEEDAUTH" THEN "0" ELSE @[k]]]
  /\ UNCHANGED <<script, lock, db, rofs, key, wanted>>

\* The call fails: launchd has no job for the caller or no memory, or does not get
\* the message.  The jobs wait on and the answers stay as they are
SetSessionFails(c) ==
  /\ cl[c].pc = "answered"
  /\ \E d \in Range(cl[c].pass1) : d.uuid = NoUuid
  /\ cl' = [cl EXCEPT ![c].pc = Answered(c)]
  /\ UNCHANGED <<script, lock, db, rofs, key, launchd, wanted>>

NoSession(c) ==
  /\ cl[c].pc = "answered"
  /\ \A d \in Range(cl[c].pass1) : d.uuid # NoUuid
  /\ cl' = [cl EXCEPT ![c].pc = Answered(c)]
  /\ UNCHANGED <<script, lock, db, rofs, key, launchd, wanted>>

\* A command without a database returns
CommandEnds(c) ==
  /\ cl[c].pc = "done"
  /\ LET p == Returned(c, cl[c])
     IN  cl' = [cl EXCEPT ![c] = p] /\ lock' = IF p.pc = "exited" /\ lock = c THEN Nobody ELSE lock
  /\ UNCHANGED <<script, db, rofs, key, launchd, wanted>>

\* The unload signal for the next label; the reply is held back while the job runs
unloadjob(c) ==
  /\ cl[c].pc = "unload"
  /\ LET found == job_find(Launchd, Plist[Head(cl[c].pass1).file].label)
         i == CHOOSE k \in found : TRUE
         rest == [cl[c] EXCEPT !.pass1 = Tail(@), !.pc = IF Len(cl[c].pass1) > 1 THEN "unload" ELSE "save"]
     IN  IF found = {} THEN cl' = [cl EXCEPT ![c] = rest] /\ UNCHANGED launchd
         ELSE /\ LaunchdBecomes(job_remove(Launchd, i))
              /\ cl' = [cl EXCEPT ![c] = IF job[i].running THEN [rest EXCEPT !.pc = "blocked", !.waits = i]
                                         ELSE rest]
  /\ UNCHANGED <<script, lock, db, rofs, key, wanted>>

\* The process of a job that is being removed ends, and whoever waits is answered
JobExits(i) ==
  /\ job[i].there /\ job[i].removal_pending
  /\ LaunchdBecomes(job_removed(Launchd, i))
  /\ cl' = [c \in Clients |->
              IF cl[c].pc = "blocked" /\ cl[c].waits = i
              THEN [cl[c] EXCEPT !.pc = IF cl[c].pass1 # <<>> THEN "unload" ELSE "save"] ELSE cl[c]]
  /\ UNCHANGED <<script, lock, db, rofs, key, wanted>>

\* The labels whose override this command has edited
Edited(c) == IF Cmd(c).w /\ ~rofs
             THEN {Plist[f].label : f \in {f \in Range(Cmd(c).paths) : path_goodness_check(f, Cmd(c))}} ELSE {}

\* (mutant) the database stays open
CloseDb_open(c) ==
  /\ wanted' = [l \in Labels |-> IF l \in Edited(c) THEN (IF Cmd(c).op = "load" THEN "no" ELSE "yes") ELSE wanted[l]]
  /\ LET p == Returned(c, cl[c])
     IN  cl' = [cl EXCEPT ![c] = p] /\ lock' = IF p.pc = "exited" /\ lock = c THEN Nobody ELSE lock
  /\ UNCHANGED <<script, rofs, key, launchd>>

\* flock(LOCK_UN) and close()
CloseDb(c) ==
  /\ wanted' = [l \in Labels |-> IF l \in Edited(c) THEN (IF Cmd(c).op = "load" THEN "no" ELSE "yes") ELSE wanted[l]]
  /\ lock' = IF lock = c THEN Nobody ELSE lock
  /\ cl' = [cl EXCEPT ![c] = Returned(c, cl[c])]
  /\ UNCHANGED <<script, rofs, key, launchd>>

\* There is nothing to write
SaveNothing(c) == cl[c].pc = "save" /\ ~cl[c].changed /\ UNCHANGED db /\ CloseDb(c)

\* What a reader makes of an empty file, or of a part of one
NoOverrides == [l \in Labels |-> "none"]

\* WriteMyPropertyListToFile() cuts the file off
TruncateDb(c) ==
  /\ cl[c].pc = "save" /\ cl[c].changed
  /\ db' = NoOverrides
  /\ cl' = [cl EXCEPT ![c].pc = "writing"]
  /\ UNCHANGED <<script, lock, rofs, key, launchd, wanted>>

\* and writes it anew
WriteDb(c) == cl[c].pc = "writing" /\ db' = cl[c].odb /\ CloseDb(c)

\* The process is killed
Die(c) ==
  /\ c \in MayDie /\ cl[c].pc \notin {"exited", "dead"}
  /\ cl' = [cl EXCEPT ![c].pc = "dead"]
  /\ lock' = IF lock = c THEN Nobody ELSE lock
  /\ wanted' = IF cl[c].pc = "writing" THEN NoOverrides ELSE wanted
  /\ UNCHANGED <<script, db, rofs, key, launchd>>

Next ==
  \/ \E c \in Clients : OpenDb(c)
  \/ \E c \in Clients : ReadNothing(c)
  \/ \E c \in Clients : ReadPaths(c)
  \/ \E c \in Clients : SubmitJobs(c)
  \/ \E c \in Clients : SetSession(c)
  \/ \E c \in Clients : SetSessionFails(c)
  \/ \E c \in Clients : NoSession(c)
  \/ \E c \in Clients : submit_cmd(c)
  \/ \E c \in Clients : start_stop_remove_cmd(c)
  \/ \E c \in Clients : CommandEnds(c)
  \/ \E c \in Clients : unloadjob(c)
  \/ \E c \in Clients : SaveNothing(c)
  \/ \E c \in Clients : TruncateDb(c)
  \/ \E c \in Clients : WriteDb(c)
  \/ \E c \in Clients : Die(c)
  \/ \E i \in Ids : JobExits(i)

Spec == Init /\ [][Next]_vars

\* A process can go on: it neither waits for the database nor for an unload
CanStep(c) ==
  \/ cl[c].pc \in {"reading", "submit", "answered", "unload", "save", "writing", "done"}
  \/ cl[c].pc = "ready" /\ (lock = Nobody \/ rofs \/ Cmd(c).op \notin {"load", "unload"})

\* Processes run, launchd answers them, and a job that is asked to go goes.
\* There are finitely many steps, so weak fairness of a step says that it is
\* disabled again and again
FairSpec ==
  /\ Spec
  /\ \A c \in Clients : []<>~CanStep(c)
  /\ \A i \in Ids : []<>~(job[i].there /\ job[i].removal_pending)

-----------------------------------------------------------------------------
(* Properties.                                                             *)

\* The values the variables take.
TypeOK ==
  /\ lock \in Clients \cup {Nobody} /\ next \in 1..(MaxJobs + 1)
  /\ \A c \in Clients : cl[c].pc \in {"ready", "reading", "submit", "answered", "unload", "blocked",
                                       "save", "writing", "done", "exited", "dead"}
  /\ {db, wanted} \subseteq [Labels -> {"none", "yes", "no"}]
  /\ \A i \in Ids : job[i].there => i < next /\ job[i].mgr \in Managers
  /\ _launchd_event_monitor \in Ids \cup {NoJob}

\* "Jobs that are not on-demand will be started as soon as possible": when a
\* load returns, none of its jobs waits for a session or for its first start,
\* unless launchctl is told that the session could not be set
StartedWhenLoaded ==
  \A c \in Clients : cl[c].pc \in {"save", "writing", "done"} =>
    \A i \in cl[c].ids \cap Present :
      \/ job[i].uuid # NullUuid /\ "ENEEDAUTH" \in Range(cl[c].resp)
      \/ /\ job[i].uuid = NullUuid /\ ~job[i].start_pending
         /\ ~job[i].ondemand => job[i].running

\* s_needing_sessions holds exactly the jobs that wait for a session, and each
\* job is on the list of its manager: nothing on a list has been freed
ListsAgree ==
  /\ Range(s_needing_sessions) = {i \in Present : job[i].uuid # NullUuid}
  /\ \A m \in Managers : Range(mgrjobs[m]) = {i \in Present : job[i].mgr = m}
  /\ \A i, j \in Present :
       i # j /\ ~job[i].removal_pending /\ ~job[j].removal_pending => job[i].label # job[j].label

\* The event monitor is a job that launchd has, and the only one that was given the part
OneMonitor == {i \in Present : job[i].monitor} = {_launchd_event_monitor} \ {NoJob}

\* launchd's lists and pointers are those of the jobs it has.
JobsListed == TypeOK /\ ListsAgree /\ OneMonitor

\* The database says for every label what the last completed load -w or unload
\* -w said, whichever processes ran at the same time.  While it is written it says
\* nothing, and a process killed then has lost all the edits of everybody, but
\* not those that follow
EditsKept == (\A c \in Clients : cl[c].pc # "writing") => db = wanted

\* In this step jobs are imported only by a submit, or by a load for which they
\* are enabled or which overrides that
ImportsEnabled ==
  \A i \in Ids : ~job[i].there /\ job'[i].there /\ ~rofs =>
    \E c \in Clients : /\ cl'[c].pc # cl[c].pc
                       /\ \/ cl[c].pc = "ready" /\ Cmd(c).op = "submit"
                          \/ cl[c].pc = "submit" /\ (Cmd(c).F \/ Cmd(c).w)
                          \/ cl[c].pc = "submit" /\ \E d \in Range(cl[c].pass1) :
                               /\ Plist[d.file].label = job'[i].label
                               /\ "yes" # IF db[job'[i].label] # "none" THEN db[job'[i].label]
                                                                       ELSE key[d.file]

\* A job is imported only if it is enabled at that moment, not just when its
\* file was read, unless the command overrides that
EnabledWhenLoaded == [][ImportsEnabled]_vars

\* The overrides database keeps what it was told and is obeyed.
OverridesObeyed == []EditsKept /\ EnabledWhenLoaded

\* Every launchctl ends: nobody waits for the database or for an unload for ever
Served == \A c \in Clients : <>(cl[c].pc \in {"exited", "dead"})
=============================================================================
