---------------------------- MODULE Transactions ----------------------------
(***************************************************************************)
(* The transactions of a process (liblaunch/libvproc.c).  A process that   *)
(* promised to use them brackets work that must not be lost between        *)
(* vproc_transaction_begin() and vproc_transaction_end(); the library      *)
(* counts the open ones and keeps the kernel's dirty bit of the process in *)
(* step with the count, so that launchd and the kernel may SIGKILL the     *)
(* process whenever it is clean.                                           *)
(*                                                                         *)
(* The count is only changed on a serial dispatch queue.  What runs there  *)
(* is two steps where it also makes a system call after the change, since  *)
(* the kernel may act in between; "owner" is the one who is between them.  *)
(* Each transaction is driven by a thread of its own.                      *)
(***************************************************************************)
EXTENDS Integers, FiniteSets

CONSTANTS
    Handles,    \* the transactions that may be open at once
    Enabler,    \* the thread that calls _vproc_transactions_enable()
    Flusher,    \* the queue that runs the clean callback
    Exiter,     \* the thread that calls _vproc_transaction_try_exit()
    None        \* nobody owns the queue

ASSUME HandlesFinite == IsFiniteSet(Handles)

ASSUME ActorsDistinct ==
    /\ {Enabler, Flusher, Exiter, None} \cap Handles = {}
    /\ Enabler # Flusher /\ Enabler # Exiter /\ Flusher # Exiter
    /\ None \notin {Enabler, Flusher, Exiter}

VARIABLES
    once,       \* _vproc_transaction_once has been done
    enabled,    \* _vproc_transaction_enabled
    cnt,        \* _vproc_transaction_cnt
    callout,    \* _vproc_gone2zero_callout is set
    queued,     \* blocks put on _vproc_gone2zero_queue and not yet started
    owner,      \* who is inside _vproc_transaction_queue, before its system call
    pc,         \* where each actor is
    tracked,    \* the kernel: PROC_DIRTY_TRACKED
    dirty,      \* the kernel: PROC_DIRTY_IS_DIRTY
    dead        \* how the process ended, or "no"

lib == <<once, enabled, cnt, callout, queued>>
kernel == <<tracked, dirty, dead>>
vars == <<lib, owner, pc, kernel>>

Actors == Handles \cup {Enabler, Flusher, Exiter}

Moves(a, to) == pc' = [pc EXCEPT ![a] = to]

(* The transactions the count includes: those that have been counted in and *)
(* not yet counted out.                                                     *)
CountedIn == {h \in Handles : pc[h] \in {"dirtying", "open", "end"}}

(* The clean callback has been dispatched and its flush is not done: the   *)
(* end of the last transaction is put off until then.                      *)
CalloutPending == queued > 0 \/ pc[Flusher] = "flush"

Init ==
    /\ once = FALSE /\ enabled = FALSE /\ cnt = 0
    /\ callout = FALSE /\ queued = 0
    /\ owner = None
    /\ pc = [a \in Actors |-> "idle"]
    /\ tracked = FALSE /\ dirty = FALSE /\ dead = "no"

-----------------------------------------------------------------------------
(* vproc_transaction_begin() and vproc_transaction_end() are called.       *)
CallBegin(h) ==
    /\ dead = "no" /\ pc[h] = "idle"
    /\ Moves(h, "begin")
    /\ UNCHANGED <<lib, owner, kernel>>

CallEnd(h) ==
    /\ dead = "no" /\ pc[h] = "open"
    /\ Moves(h, "end")
    /\ UNCHANGED <<lib, owner, kernel>>

CallEnable ==
    /\ dead = "no" /\ pc[Enabler] = "idle"
    /\ Moves(Enabler, "enable")
    /\ UNCHANGED <<lib, owner, kernel>>

(* dispatch_once_f(): the first caller asks launchd whether its job has    *)
(* EnableTransactions (an answer that does not come is a no), the others   *)
(* wait for it.                                                            *)
init_once(a) ==
    /\ dead = "no" /\ ~once /\ pc[a] \in {"begin", "enable"}
    /\ once' = TRUE
    /\ \E enable_transactions \in BOOLEAN :
          /\ enabled' = enable_transactions
          /\ tracked' = enable_transactions
    /\ UNCHANGED <<cnt, callout, queued, owner, pc, dirty, dead>>

(* What runs on the serial queue. *)
OnQueue == dead = "no" /\ once /\ owner = None

enable_internal ==
    /\ OnQueue /\ pc[Enabler] = "enable"
    /\ enabled' = TRUE
    /\ tracked' = (tracked \/ ~enabled)
    /\ IF cnt > 0
       THEN Moves(Enabler, "dirtying") /\ owner' = Enabler
       ELSE Moves(Enabler, "idle") /\ UNCHANGED owner
    /\ UNCHANGED <<once, cnt, callout, queued, dirty, dead>>

(* _vproc_transaction_begin_internal(). *)
begin_internal(h) ==
    /\ OnQueue /\ pc[h] = "begin"
    /\ cnt' = cnt + 1
    /\ IF ~enabled \/ cnt' > 1
       THEN Moves(h, "open") /\ UNCHANGED owner
       ELSE Moves(h, "dirtying") /\ owner' = h
    /\ dead' = IF enabled /\ cnt' < 1 THEN "abort" ELSE dead
    /\ UNCHANGED <<once, enabled, callout, queued, tracked, dirty>>

(* (mutant) the count is not held up while the callback runs *)
end_internal_unheld(a, flush) ==
    /\ OnQueue
    /\ cnt' = cnt - 1
    /\ \/ /\ ~enabled \/ cnt' > 0
          /\ Moves(a, "idle") /\ UNCHANGED <<queued, owner>>
       \/ /\ enabled /\ cnt' <= 0 /\ callout /\ ~flush
          /\ queued' = queued + 1 /\ Moves(a, "idle") /\ UNCHANGED owner
       \/ /\ enabled /\ cnt' <= 0 /\ (~callout \/ flush)
          /\ Moves(a, "cleaning") /\ owner' = a /\ UNCHANGED queued
    /\ dead' = IF enabled /\ cnt' < 0 THEN "abort" ELSE dead
    /\ UNCHANGED <<once, enabled, callout, tracked, dirty>>

(* (mutant) the callback is waited for on the queue its flush needs *)
end_internal_sync(a, flush) ==
    /\ OnQueue
    /\ LET new == cnt - 1
       IN /\ \/ /\ ~enabled \/ new > 0
                /\ cnt' = new /\ Moves(a, "idle") /\ UNCHANGED <<queued, owner>>
             \/ /\ enabled /\ new <= 0 /\ callout /\ ~flush
                /\ cnt' = 1 /\ queued' = queued + 1 /\ owner' = a /\ UNCHANGED pc
             \/ /\ enabled /\ new <= 0 /\ (~callout \/ flush)
                /\ cnt' = new /\ Moves(a, "cleaning") /\ owner' = a
                /\ UNCHANGED queued
          /\ dead' = IF enabled /\ new < 0 THEN "abort" ELSE dead
    /\ UNCHANGED <<once, enabled, callout, tracked, dirty>>

(* _vproc_transaction_end_internal(): "flush" is its argument, non-null    *)
(* when it is called after the clean callback.                             *)
end_internal(a, flush) ==
    /\ OnQueue
    /\ LET new == cnt - 1
       IN /\ \/ /\ ~enabled \/ new > 0
                /\ cnt' = new /\ Moves(a, "idle") /\ UNCHANGED <<queued, owner>>
             \/ /\ enabled /\ new <= 0 /\ callout /\ ~flush
                /\ cnt' = 1 /\ queued' = queued + 1
                /\ Moves(a, "idle") /\ UNCHANGED owner
             \/ /\ enabled /\ new <= 0 /\ (~callout \/ flush)
                /\ cnt' = new /\ Moves(a, "cleaning") /\ owner' = a
                /\ UNCHANGED queued
          /\ dead' = IF enabled /\ new < 0 THEN "abort" ELSE dead
    /\ UNCHANGED <<once, enabled, callout, tracked, dirty>>

End(h) == pc[h] = "end" /\ end_internal(h, FALSE)

(* _vproc_transaction_end_internal2(): the callback is run, and then ...   *)
end_internal2 ==
    /\ dead = "no" /\ queued > 0 /\ pc[Flusher] = "idle"
    /\ queued' = queued - 1
    /\ Moves(Flusher, "flush")
    /\ UNCHANGED <<once, enabled, cnt, callout, owner, kernel>>

(* ... _vproc_transaction_end_flush(): it is over. *)
end_flush == pc[Flusher] = "flush" /\ end_internal(Flusher, TRUE)

(* proc_set_dirty(getpid(), true), and what remains to do on the queue. *)
SetDirty(a) ==
    /\ dead = "no" /\ pc[a] = "dirtying"
    /\ dirty' = TRUE
    /\ Moves(a, IF a = Enabler THEN "idle" ELSE "open")
    /\ owner' = None
    /\ UNCHANGED <<lib, tracked, dead>>

(* (mutant) the queue is left before the process is marked clean *)
SetClean_unowned(a) ==
    /\ dead = "no" /\ pc[a] = "cleaning"
    /\ \/ /\ owner = a /\ owner' = None /\ UNCHANGED <<pc, dirty>>
       \/ /\ owner # a /\ dirty' = FALSE /\ Moves(a, "idle") /\ UNCHANGED owner
    /\ UNCHANGED <<lib, tracked, dead>>

(* proc_set_dirty(getpid(), false). *)
SetClean(a) ==
    /\ dead = "no" /\ pc[a] = "cleaning"
    /\ dirty' = FALSE
    /\ Moves(a, "idle")
    /\ owner' = None
    /\ UNCHANGED <<lib, tracked, dead>>

set_clean_callback ==
    /\ dead = "no" /\ ~callout
    /\ callout' = TRUE
    /\ UNCHANGED <<once, enabled, cnt, queued, owner, pc, kernel>>

(* _vproc_transaction_try_exit() reads the count, on no queue, and exits.  *)
try_exit ==
    /\ dead = "no" /\ pc[Exiter] = "idle" /\ cnt = 0
    /\ Moves(Exiter, "exit")
    /\ UNCHANGED <<lib, owner, kernel>>

Exit ==
    /\ dead = "no" /\ pc[Exiter] = "exit"
    /\ dead' = "exit"
    /\ UNCHANGED <<lib, owner, pc, tracked, dirty>>

(* proc_terminate() by job_stop() in launchd, or the kernel in need of     *)
(* memory: a process that is tracked and clean is killed without a warning.*)
Kill ==
    /\ dead = "no" /\ tracked /\ ~dirty
    /\ dead' = "killed"
    /\ UNCHANGED <<lib, owner, pc, tracked, dirty>>

-----------------------------------------------------------------------------
Steps(h) == begin_internal(h) \/ End(h) \/ SetDirty(h) \/ SetClean(h)

Enabling == enable_internal \/ SetDirty(Enabler)

Flushing == end_internal2 \/ end_flush \/ SetClean(Flusher)

Next ==
    \/ \E h \in Handles : CallBegin(h) \/ CallEnd(h) \/ Steps(h)
    \/ \E a \in Handles \cup {Enabler} : init_once(a)
    \/ CallEnable \/ Enabling \/ Flushing
    \/ set_clean_callback \/ try_exit \/ Exit \/ Kill

Spec == Init /\ [][Next]_vars

(* The threads run, launchd answers, and the queues are first in first out: *)
(* a call that waits for its turn is not overtaken for ever.                *)
Fairness ==
    /\ \A h \in Handles : WF_vars(init_once(h)) /\ SF_vars(Steps(h))
    /\ WF_vars(init_once(Enabler)) /\ SF_vars(Enabling)
    /\ SF_vars(Flushing)

FairSpec == Spec /\ Fairness

-----------------------------------------------------------------------------
(* Properties.                                                             *)

\* The values the variables take.
TypeOK ==
    /\ once \in BOOLEAN /\ enabled \in BOOLEAN /\ callout \in BOOLEAN
    /\ cnt \in Nat /\ queued \in Nat
    /\ owner \in Actors \cup {None}
    /\ pc \in [Actors -> {"idle", "begin", "enable", "dirtying", "open", "end",
                          "cleaning", "flush", "exit"}]
    /\ tracked \in BOOLEAN /\ dirty \in BOOLEAN
    /\ dead \in {"no", "exit", "killed", "abort"}

(* The count is the number of transactions begun and not ended, plus the   *)
(* one that _vproc_transaction_end_internal() holds back while the clean   *)
(* callback has not returned, of which there is never more than one.       *)
Counted ==
    /\ queued + (IF pc[Flusher] = "flush" THEN 1 ELSE 0) <= 1
    /\ cnt = Cardinality(CountedIn) + (IF CalloutPending THEN 1 ELSE 0)

(* The count never underflows: neither abort() of libvproc.c is reached by *)
(* callers that end what they began.                                       *)
NeverAborts == dead # "abort"

(* The count is right and never underflows.                                *)
Accounted == TypeOK /\ Counted /\ NeverAborts

(* Once transactions are enabled the process is dirty for as long as one   *)
(* is open, and until the clean callback has run; the exception is inside  *)
(* _vproc_transactions_enable_internal(), which tracks the process before  *)
(* it marks it dirty for what is open already.                             *)
DirtyWhileOpen ==
    enabled /\ (CalloutPending \/ \E h \in Handles : pc[h] = "open")
        => dirty \/ pc[Enabler] = "dirtying"

(* A process is not killed as clean while it has a transaction open or its *)
(* clean callback outstanding, save in that same window.                   *)
KilledClean ==
    dead = "killed" =>
        \/ ~CalloutPending /\ \A h \in Handles : pc[h] # "open"
        \/ pc[Enabler] = "dirtying"

(* A process with work to do is dirty, and is not killed as clean.         *)
DirtyKept == DirtyWhileOpen /\ KilledClean

(* A process that stops opening transactions becomes clean and can be      *)
(* killed, the clean callback included.                                    *)
BecomesClean ==
    <>[](\A h \in Handles : pc[h] = "idle") => <>[](dead # "no" \/ ~dirty)

(* Every call returns: no thread waits for ever on the queue that another  *)
(* one is on.                                                              *)
CallsReturn ==
    /\ \A h \in Handles :
          /\ pc[h] = "begin" ~> (pc[h] = "open" \/ dead # "no")
          /\ pc[h] = "end" ~> (pc[h] = "idle" \/ dead # "no")
    /\ pc[Enabler] = "enable" ~> (pc[Enabler] = "idle" \/ dead # "no")

(* Calls return, and what they leave behind comes to rest.                 *)
ComesToRest == BecomesClean /\ CallsReturn
=============================================================================
