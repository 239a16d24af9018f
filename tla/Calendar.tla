------------------------------ MODULE Calendar ------------------------------
(***************************************************************************)
(* StartCalendarInterval: the sorted list of next times, the one kernel    *)
(* timer armed for its head, and the jobs the callback dispatches          *)
(* (core.c).  Time is counted in minutes, the granularity of cronemu();    *)
(* what a plist asks for and when that is next is a parameter here, and    *)
(* module Cron what the code makes of it.                                  *)
(***************************************************************************)
EXTENDS Integers, Sequences, FiniteSets, Functions

CONSTANTS
  Jobs,            \* the jobs that may be loaded
  Once,            \* those with LaunchOnlyOnce
  Plists,          \* possible plists: job -> its StartCalendarInterval dictionaries
  Whens(_),        \* the intervals that come of such dictionaries
  Later(_, _),     \* when an interval fires next, after a time
  MaxIntervals,    \* bound on the intervals of a job
  Ticks,           \* the minutes that may pass at once
  MaxTime,         \* bound on the clock
  EndOfTime        \* and on the times it is set for

\* An interval fires later than the time it is set at
Timely(whens) ==
  /\ Len(whens) \in 0..MaxIntervals /\ DOMAIN whens = 1..Len(whens)
  /\ \A i \in DOMAIN whens : \A t \in 0..MaxTime : Later(whens[i], t) \in (t + 1)..EndOfTime

ASSUME CalendarAssumption ==
  /\ Once \subseteq Jobs /\ {MaxTime, MaxIntervals, EndOfTime} \cup Ticks \subseteq Nat /\ MaxTime <= EndOfTime
  /\ \A p \in Plists : \A j \in Jobs : Timely(Whens(p[j]))

VARIABLES
  plist,    \* the plist files: one of Plists
  now,      \* the wall clock
  job,      \* job -> its state, bits and intervals (cal_intervals)
  list,     \* sorted_calendar_events: intervals <<job, index>> by when_next
  next,     \* interval -> when_next
  timer,    \* deadline of the kernel timer, or None
  usr1,     \* SIGUSR1 raised and not yet delivered
  stale     \* history: a walk has used an interval that was freed

vars == <<plist, now, job, list, next, timer, usr1, stale>>

None == -1
Intervals == Jobs \X (1..MaxIntervals)

-----------------------------------------------------------------------------
(* The list, its timer and the jobs.  The state of a handler is a record   *)
(* s of the variables.                                                     *)

State == [job |-> job, list |-> list, next |-> next, timer |-> timer,
          stale |-> stale]

Becomes(s) ==
  /\ job' = s.job /\ list' = s.list /\ next' = s.next
  /\ timer' = s.timer /\ stale' = s.stale

Interval(s, ci) == s.job[ci[1]].whens[ci[2]]

\* LIST_INSERT_BEFORE and LIST_INSERT_AFTER: place n becomes x's
LIST_INSERT(q, n, x) ==
  [i \in 1..(Len(q) + 1) |-> IF i < n THEN q[i] ELSE IF i = n THEN x ELSE q[i - 1]]

LIST_REMOVE(q, x) ==
  LET n == CHOOSE n \in 1..Len(q) : q[n] = x
  IN  IF x \notin Range(q) THEN q ELSE [i \in 1..(Len(q) - 1) |-> IF i < n THEN q[i] ELSE q[i + 1]]

\* The interval goes before the first one that is later, or to the end
Place(s, at) ==
  CHOOSE n \in 1..(Len(s.list) + 1) :
    /\ \A i \in 1..(n - 1) : s.next[s.list[i]] <= at
    /\ n <= Len(s.list) => s.next[s.list[n]] > at

Insert(s, ci, at) ==
  [s EXCEPT !.list = LIST_INSERT(@, Place(s, at), ci), !.next[ci] = at]

\* (mutant) the timer is armed for the new interval
calendarinterval_setalarm_own(s, ci, t) ==
  [Insert(s, ci, Later(Interval(s, ci), t)) EXCEPT
     !.timer = Later(Interval(s, ci), t)]

\* The timer is armed for the head
Armed(s) == [s EXCEPT !.timer = s.next[Head(s.list)]]

calendarinterval_setalarm(s, ci, t) == Armed(Insert(s, ci, Later(Interval(s, ci), t)))

\* The timer stays
calendarinterval_delete(s, ci) ==
  [s EXCEPT !.list = LIST_REMOVE(@, ci), !.next[ci] = 0]

\* job_remove() deletes every interval
DeleteAll(s, j) ==
  LET t[k \in 0..Len(s.job[j].whens)] ==
        IF k = 0 THEN s ELSE calendarinterval_delete(t[k - 1], <<j, k>>)
  IN  t[Len(s.job[j].whens)]

NoJob == [state |-> "none", pending |-> FALSE, removing |-> FALSE, ran |-> FALSE,
          whens |-> <<>>]

\* job_remove(): a running job is stopped first
job_remove(s, j) ==
  IF s.job[j].state = "running"
  THEN [s EXCEPT !.job[j].removing = TRUE]
  ELSE [DeleteAll(s, j) EXCEPT !.job[j] = NoJob]

job_useless(s, j) == s.job[j].removing \/ (j \in Once /\ s.job[j].ran)

\* job_dispatch(): start_pending is a reason to run; job_start() starts the
\* job, or arms its own timer when it ran too recently (j \in slow)
job_dispatch(s, j, slow) ==
  CASE s.job[j].state = "running" -> s
    [] s.job[j].state # "running" /\ job_useless(s, j) -> job_remove(s, j)
    [] s.job[j].state # "running" /\ ~job_useless(s, j) /\ s.job[j].pending ->
         IF j \in slow THEN [s EXCEPT !.job[j].state = "throttled"]
         ELSE [s EXCEPT !.job[j].state = "running", !.job[j].pending = FALSE,
                        !.job[j].ran = TRUE]
    [] OTHER -> s

\* One turn of the callback's loop, at the interval w.ci: LIST_FOREACH_SAFE
\* holds the next interval while the job of this one is dispatched
visit(w, slow) ==
  LET ci == w.ci
      q  == w.s.list
      i  == CHOOSE n \in 1..Len(q) : q[n] = ci
      follows == IF i < Len(q) THEN q[i + 1] ELSE ci
      moved   == calendarinterval_setalarm([w.s EXCEPT !.list = LIST_REMOVE(@, ci)], ci, now)
      done    == job_dispatch([moved EXCEPT !.job[ci[1]].pending = TRUE], ci[1], slow)
      freed   == follows \notin Range(done.list)
  IN  IF ~w.more \/ w.s.next[ci] > now THEN [w EXCEPT !.more = FALSE]
      ELSE [s |-> IF follows # ci /\ freed THEN [done EXCEPT !.stale = TRUE] ELSE done,
            ci |-> follows, more |-> follows # ci /\ ~freed]

\* (mutant) only the head is looked at
calendarinterval_callback_head(s, slow) ==
  IF s.list = <<>> THEN s
  ELSE LET ci    == Head(s.list)
           moved == calendarinterval_setalarm([s EXCEPT !.list = Tail(@)], ci, now)
       IN  IF s.next[ci] > now THEN s
           ELSE job_dispatch([moved EXCEPT !.job[ci[1]].pending = TRUE], ci[1], slow)

\* What is set again is set for later, so that a turn for each interval is enough
calendarinterval_callback(s, slow) ==
  LET w[k \in 0..Len(s.list)] ==
        IF k = 0 THEN [s |-> s, ci |-> s.list[1], more |-> TRUE] ELSE visit(w[k - 1], slow)
  IN  IF s.list = <<>> THEN s ELSE w[Len(s.list)].s

-----------------------------------------------------------------------------
(* Actions.                                                                *)

Init ==
  /\ plist \in Plists /\ now = 0
  /\ job = [j \in Jobs |-> NoJob]
  /\ list = <<>> /\ next = [ci \in Intervals |-> 0]
  /\ timer = None /\ usr1 = FALSE /\ stale = FALSE

\* calendarinterval_new() for each interval
AddAll(s, j) ==
  LET t[k \in 0..Len(s.job[j].whens)] ==
        IF k = 0 THEN s ELSE calendarinterval_setalarm(t[k - 1], <<j, k>>, now)
  IN  t[Len(s.job[j].whens)]

\* jobmgr_import2()
Load(j) ==
  /\ job[j].state = "none" /\ plist[j] # <<>>
  /\ Becomes(AddAll([State EXCEPT !.job[j] = [NoJob EXCEPT !.state = "idle", !.whens = Whens(plist[j])]], j))
  /\ UNCHANGED <<plist, now, usr1>>

\* The timer's event, once its deadline has passed; NOTE_ABSOLUTE fires once
TimerFires(slow) ==
  /\ timer # None /\ timer <= now
  /\ Becomes(calendarinterval_callback([State EXCEPT !.timer = None], slow))
  /\ UNCHANGED <<plist, now, usr1>>

\* SIGUSR1 in jobmgr_callback()
Signalled(slow) ==
  /\ usr1
  /\ usr1' = FALSE
  /\ Becomes(calendarinterval_callback(State, slow))
  /\ UNCHANGED <<plist, now>>

\* calendarinterval_sanity_check() at the end of a MIG call
MigReturn ==
  /\ usr1' = (usr1 \/ (list # <<>> /\ next[Head(list)] < now))
  /\ UNCHANGED <<plist, now, job, list, next, timer, stale>>

\* (mutant) the job is reaped and not dispatched
Exit_reaps(j, slow) ==
  /\ job[j].state = "running"
  /\ Becomes([State EXCEPT !.job[j].state = "idle"])
  /\ UNCHANGED <<plist, now, usr1>>

\* The process of a job exits: job_reap() and job_dispatch()
Exit(j, slow) ==
  /\ job[j].state = "running"
  /\ Becomes(job_dispatch([State EXCEPT !.job[j].state = "idle"], j, slow))
  /\ UNCHANGED <<plist, now, usr1>>

\* The job's own timer, after the throttle
Throttled(j) ==
  /\ job[j].state = "throttled"
  /\ Becomes(job_dispatch([State EXCEPT !.job[j].state = "idle"], j, {}))
  /\ UNCHANGED <<plist, now, usr1>>

Unload(j) ==
  /\ job[j].state # "none"
  /\ Becomes(job_remove(State, j))
  /\ UNCHANGED <<plist, now, usr1>>

\* Minutes pass, several at once while the machine sleeps
Tick(d) ==
  /\ now + d <= MaxTime
  /\ now' = now + d
  /\ UNCHANGED <<plist, job, list, next, timer, usr1, stale>>

Slow == SUBSET Jobs

Next ==
  \/ \E j \in Jobs : Load(j) \/ Throttled(j) \/ Unload(j)
  \/ \E slow \in Slow : \/ TimerFires(slow) \/ Signalled(slow)
                        \/ \E j \in Jobs : Exit(j, slow)
  \/ MigReturn
  \/ \E d \in Ticks : Tick(d)

Spec == Init /\ [][Next]_vars

-----------------------------------------------------------------------------
(* Properties.                                                             *)

Time == 0..EndOfTime

\* The values the variables take.
TypeOK ==
  /\ now \in Time /\ timer \in Time \cup {None}
  /\ usr1 \in BOOLEAN /\ stale \in BOOLEAN
  /\ next \in [Intervals -> Time]
  /\ list \in Seq(Intervals)
  /\ \A j \in Jobs : job[j].state \in {"none", "idle", "throttled", "running"}

\* The list is sorted and holds exactly the intervals of the jobs that are
\* loaded, each once: what the timer and the callback's early exit rely on.
ListAgrees ==
  /\ \A i \in 2..Len(list) : next[list[i - 1]] <= next[list[i]]
  /\ IsInjective(list)
  /\ Range(list) = UNION {{j} \X DOMAIN job[j].whens : j \in Jobs}

\* A callback never follows a pointer to an interval that a dispatch freed:
\* a job that a dispatch would remove is gone before its next interval is due
\* (calendarinterval_callback, job_reap).
WalkIsSafe == ~stale

\* A callback leaves nothing due behind, and every job that was due runs, is
\* throttled, or will be started when its present process exits.
DueServed ==
  [][(\E slow \in Slow : TimerFires(slow) \/ Signalled(slow)) =>
       \A i \in DOMAIN list :
         next[list[i]] <= now =>
           /\ next'[list[i]] > now
           /\ LET j == list[i][1] IN job'[j].state = "running" \/ job'[j].pending]_vars

\* The timer, while it is armed, is never later than the head of the list.
AlarmInTime == timer # None /\ list # <<>> => timer <= next[Head(list)]

\* The list and its timer fit together.
AlarmsAgree == TypeOK /\ ListAgrees /\ AlarmInTime
=============================================================================
