------------------------------ MODULE RunLoop ------------------------------
(***************************************************************************)
(* The kqueue half of the run loop (runtime.c): kevents are taken from the *)
(* kernel in batches and their callbacks called one after the other.  A    *)
(* callback may free the object another kevent of the batch points to, or  *)
(* close and reuse its descriptor.  The busy count decides when a per-user *)
(* launchd exits.                                                          *)
(***************************************************************************)
EXTENDS Integers, FiniteSets, Sequences, Functions

CONSTANTS
  Objs,       \* jobs and connections: what the udata of a kevent points to
  Untimed,    \* the jobs with ExitTimeOut 0
  Fds,        \* descriptor numbers, reused once closed
  BulkMax,    \* BULK_KEV_MAX
  Root        \* root_jobmgr, the udata of the idle exit timer

ASSUME RunLoopAssumption ==
  BulkMax \in Nat \ {0} /\ Root \notin Objs \cup Fds /\ Untimed \subseteq Objs

VARIABLES
  alive,      \* the objects that are allocated
  fd,         \* descriptor -> the object that opened it, Root if closed
  watched,    \* descriptors with an EVFILT_READ knote
  armed,      \* armed timers: an object, or Root for the idle exit timer
  gen,        \* timer -> which arming of it is the last
  fired,      \* kernel: the active knotes
  batch,      \* bulk_kev
  bulk_kev_i, \* index of the kevent being served, 0 outside x_handle_kqueue()
  held,       \* objects that hold a reference: running jobs, holds_ref
  runtime_busy_cnt,
  exiting     \* launchd_shutdown() was called

kernel  == <<fd, watched, armed, gen, fired>>
vars == <<alive, kernel, batch, bulk_kev_i, held, runtime_busy_cnt, exiting>>

Kevent == [filter : {"none", "READ", "TIMER"}, ident : Fds \cup Objs \cup {Root},
           udata : Objs \cup {Root}, gen : 0..1]

\* The pending kevents of the batch
Pending == {i \in 1..Len(batch) : i > bulk_kev_i /\ batch[i].filter # "none"}

State == [alive |-> alive, fd |-> fd, watched |-> watched, armed |-> armed, gen |-> gen,
          fired |-> fired, batch |-> batch, held |-> held, busy |-> runtime_busy_cnt]

Becomes(s) ==
  /\ alive' = s.alive /\ fd' = s.fd /\ watched' = s.watched /\ armed' = s.armed
  /\ gen' = s.gen /\ fired' = s.fired /\ batch' = s.batch /\ held' = s.held
  /\ runtime_busy_cnt' = s.busy

-----------------------------------------------------------------------------
(* Calls on the kqueue.                                                    *)

\* (mutant) the rest of the batch is left alone
prune_nothing(s, filter, idents) == s

\* Kevents that follow the one being served are struck out
prune(s, filter, idents) ==
  [s EXCEPT !.batch = [i \in 1..Len(s.batch) |->
     IF i > bulk_kev_i /\ s.batch[i].filter = filter /\ s.batch[i].ident \in idents
     THEN [s.batch[i] EXCEPT !.filter = "none"] ELSE s.batch[i]]]

\* The kernel forgets knotes, fired or not
forget(s, filter, idents) ==
  [s EXCEPT !.fired = {k \in @ : ~(k.filter = filter /\ k.ident \in idents)}]

\* kevent_mod(ident, EVFILT_TIMER, EV_DELETE)
delete_timer(s, t) ==
  [forget(prune(s, "TIMER", {t}), "TIMER", {t}) EXCEPT !.armed = @ \ {t}]

\* kevent_mod(ident, EVFILT_TIMER, EV_ADD): the old timer is deleted first
set_timer(s, t) ==
  LET off == delete_timer(s, t)
  IN  [off EXCEPT !.armed = @ \cup {t}, !.gen[t] = 1 - @]

\* Of one descriptor or of all that an object has.  close() is left to the
\* kernel, which forgets the knotes of the descriptor.
runtime_close(s, F) ==
  [forget(prune(s, "READ", F), "READ", F) EXCEPT
     !.fd = [f \in Fds |-> IF f \in F THEN Root ELSE @[f]], !.watched = @ \ F]

\* kevent_bulk_mod() does not look at the batch
socketgroup_kevent_mod(s, f, add) ==
  IF add THEN [s EXCEPT !.watched = @ \cup {f}]
  ELSE [forget(s, "READ", {f}) EXCEPT !.watched = @ \ {f}]

-----------------------------------------------------------------------------
(* References and the idle exit timer.                                     *)

\* (mutant) the timer is left armed
runtime_add_ref_only(s, o) == [s EXCEPT !.held = @ \cup {o}, !.busy = @ + 1]

runtime_add_ref(s, o) ==
  delete_timer([s EXCEPT !.held = @ \cup {o}, !.busy = @ + 1], Root)

\* (mutant) the timer is not set again
runtime_del_ref_only(s, o) == [s EXCEPT !.held = @ \ {o}, !.busy = @ - 1]

runtime_del_ref(s, o) ==
  LET t == [s EXCEPT !.held = @ \ {o}, !.busy = @ - 1]
  IN  IF t.busy = 0 THEN set_timer(t, Root) ELSE t

\* job_remove() and job_reap(), ipc_close(): descriptors are closed, timers
\* deleted, the reference is dropped.  &exit_timeout is deleted only if it is
\* not 0, although job_stop() and job_kill() arm it after SIGKILL all the same
remove_object(s, o) ==
  LET closed == runtime_close(s, {f \in Fds : s.fd[f] = o})
      off    == IF o \in Untimed THEN closed ELSE delete_timer(closed, o)
      freed  == [off EXCEPT !.alive = @ \ {o}]
  IN  IF o \in s.held THEN runtime_del_ref(freed, o) ELSE freed

-----------------------------------------------------------------------------
Init ==
  /\ alive = {} /\ fd = [f \in Fds |-> Root] /\ watched = {}
  /\ armed = {} /\ gen = [t \in Objs \cup {Root} |-> 0]
  /\ fired = {} /\ batch = <<>> /\ bulk_kev_i = 0
  /\ held = {} /\ runtime_busy_cnt = 0 /\ exiting = FALSE

\* The kernel activates a knote
Fires(k) ==
  /\ k \notin fired
  /\ fired' = fired \cup {k}
  /\ UNCHANGED <<alive, fd, watched, armed, gen, batch, bulk_kev_i, held, runtime_busy_cnt, exiting>>

Readable(f) ==
  /\ f \in watched
  /\ Fires([filter |-> "READ", ident |-> f, udata |-> fd[f], gen |-> 0])

Expires(t) ==
  /\ t \in armed
  /\ Fires([filter |-> "TIMER", ident |-> t, udata |-> t, gen |-> gen[t]])

\* x_handle_kqueue(): kevents are fetched, in an order that is the kernel's
x_handle_kqueue ==
  /\ bulk_kev_i = 0 /\ ~exiting
  /\ \E n \in 1..BulkMax : batch' \in Injection(1..n, fired)
  /\ fired' = fired \ Range(batch')
  /\ bulk_kev_i' = 1
  /\ exiting' = (batch'[1].udata = Root /\ runtime_busy_cnt = 0)
  /\ UNCHANGED <<alive, fd, watched, armed, gen, held, runtime_busy_cnt>>

\* The callback of a kevent returned: the next one is served; the idle exit
\* timer's is jobmgr_callback()
NextKevent ==
  /\ bulk_kev_i # 0
  /\ LET i == bulk_kev_i + 1
     IN  IF i <= Len(batch)
         THEN /\ bulk_kev_i' = i
              /\ exiting' = (exiting \/ (batch[i].filter = "TIMER" /\ batch[i].ident = Root
                                          /\ runtime_busy_cnt = 0))
              /\ UNCHANGED batch
         ELSE bulk_kev_i' = 0 /\ batch' = <<>> /\ UNCHANGED exiting
  /\ UNCHANGED <<alive, kernel, held, runtime_busy_cnt>>

\* What a callback, or the handler of a message, does to an object
job_new(o)    == o \notin alive /\ Becomes([State EXCEPT !.alive = @ \cup {o}])
job_remove(o) == o \in alive /\ Becomes(remove_object(State, o))
SetTimer(o)   == o \in alive /\ Becomes(set_timer(State, o))
DropTimer(o)  == o \in alive \cap armed /\ Becomes(delete_timer(State, o))
job_start(o)  == o \in alive \ held /\ Becomes(runtime_add_ref(State, o))
job_reap(o)   == o \in held /\ Becomes(runtime_del_ref(State, o))

\* ipc_open(), a socket of a job: the lowest free number is taken
OpenFd(o) ==
  \E f \in Fds : /\ o \in alive /\ fd[f] = Root
                 /\ Becomes([State EXCEPT !.fd[f] = o, !.watched = @ \cup {f}])

CloseFd(o)  == \E f \in Fds : fd[f] = o /\ Becomes(runtime_close(State, {f}))

\* job_watch() and job_ignore() of a job with sockets
SwitchFd(o) == \E f \in Fds : fd[f] = o /\ Becomes(socketgroup_kevent_mod(State, f, f \notin watched))

Work(o) ==
  /\ ~exiting /\ UNCHANGED <<bulk_kev_i, exiting>>
  /\ \/ job_new(o) \/ job_remove(o) \/ SetTimer(o) \/ DropTimer(o)
     \/ job_start(o) \/ job_reap(o) \/ OpenFd(o) \/ CloseFd(o) \/ SwitchFd(o)

Next ==
  \/ x_handle_kqueue \/ NextKevent
  \/ \E o \in Objs : Work(o)
  \/ \E f \in Fds : Readable(f)
  \/ \E t \in Objs \cup {Root} : Expires(t)

Spec == Init /\ [][Next]_vars

\* Timers go off, callbacks return, select() wakes the helper thread as long
\* as there is an active knote, and the kernel delivers each in its turn
FairSpec ==
  /\ Spec
  /\ WF_vars(NextKevent) /\ WF_vars(Expires(Root))
  /\ SF_vars(x_handle_kqueue /\ Root \in {k.udata : k \in Range(batch')})

-----------------------------------------------------------------------------
(* Properties.                                                             *)

\* The values the variables take.
TypeOK ==
  /\ alive \subseteq Objs /\ held \subseteq alive
  /\ fd \in [Fds -> Objs \cup {Root}] /\ watched \subseteq Fds
  /\ armed \subseteq Objs \cup {Root} /\ gen \in [Objs \cup {Root} -> 0..1]
  /\ fired \subseteq Kevent /\ batch \in Seq(Kevent)
  /\ bulk_kev_i \in 0..Len(batch) /\ runtime_busy_cnt \in Nat

\* Whatever the callbacks of a batch remove, no later kevent of the batch
\* points to a freed object (kevent_mod() and runtime_close() strike it out).
\* The exception is the exit timer of a job with ExitTimeOut 0, which
\* job_remove() does not delete.
NoStaleKevent ==
  \A i \in Pending :
    \/ batch[i].udata \in alive \cup {Root}
    \/ batch[i].filter = "TIMER" /\ batch[i].udata \in Untimed

\* A kevent that waits in the batch is for the owner of the descriptor, also
\* when its number was closed and opened again by another callback, and an
\* expiry is of the last arming of its timer.
RightReceiver ==
  \A i \in Pending :
    LET k == batch[i]
    IN  IF k.filter = "READ" THEN fd[k.ident] = k.udata
        ELSE k.ident \in armed /\ k.gen = gen[k.ident]

\* Every kevent left in the batch is for a live object and still true.
BatchSound == NoStaleKevent /\ RightReceiver

\* The busy count is the number of objects with a reference, however they
\* lose it: otherwise launchd exits under its jobs or never
\* (runtime_add_ref(), runtime_del_ref()).
BusyAgrees == runtime_busy_cnt = Cardinality(held)

\* The idle exit timer neither runs nor waits to be served while a reference
\* is held: the reference may have been taken by an earlier kevent of the
\* same batch (runtime_remove_timer()).
IdleWhenArmed ==
  held # {} => /\ Root \notin armed
               /\ \A i \in Pending : batch[i].ident # Root

\* The busy count and the idle exit timer say whether launchd is in use.
BusySound == TypeOK /\ BusyAgrees /\ IdleWhenArmed

\* Once the last reference is dropped and none is taken again, launchd exits
\* (runtime_install_timer(), jobmgr_callback()).
ExitsWhenIdle == \A o \in Objs : [](o \in held /\ <>[](held = {}) => <>exiting)
=============================================================================
