------------------------- MODULE TransactionsProofs -------------------------
(***************************************************************************)
(* For any number of transactions: the count is right, the process is      *)
(* dirty for as long as a transaction is open or the clean callback is     *)
(* outstanding, and it is therefore neither aborted nor killed then.       *)
(***************************************************************************)
EXTENDS Transactions, FiniteSetTheorems, TLAPS

Types ==
    /\ once \in BOOLEAN /\ enabled \in BOOLEAN /\ callout \in BOOLEAN
    /\ cnt \in Int /\ queued \in Nat
    /\ owner \in Actors \cup {None}
    /\ pc \in [Actors -> {"idle", "begin", "enable", "dirtying", "open", "end",
                          "cleaning", "flush", "exit"}]
    /\ tracked \in BOOLEAN /\ dirty \in BOOLEAN
    /\ dead \in {"no", "exit", "killed", "abort"}

(* Which states each actor may be in. *)
Places ==
    /\ \A h \in Handles :
          pc[h] \in {"idle", "begin", "dirtying", "open", "end", "cleaning"}
    /\ pc[Enabler] \in {"idle", "enable", "dirtying"}
    /\ pc[Flusher] \in {"idle", "flush", "cleaning"}
    /\ pc[Exiter] \in {"idle", "exit"}

(* Who is between the change of the count and the system call owns the queue. *)
Ownership ==
    \A a \in Actors : pc[a] \in {"dirtying", "cleaning"} => owner = a

(* What the callback holds back of the count. *)
Held == queued + (IF pc[Flusher] = "flush" THEN 1 ELSE 0)

Account ==
    /\ Held <= 1
    /\ Held = 1 => enabled
    /\ cnt = Cardinality(CountedIn) + Held

(* What the owner of the queue knows of the count. *)
OwnerKnows ==
    /\ \A a \in Actors : pc[a] = "cleaning" => cnt = 0
    /\ \A h \in Handles : pc[h] = "dirtying" => cnt = 1

(* The dirty bit follows the count whenever nobody is about to change it. *)
InStep ==
    /\ ~once => ~enabled /\ cnt = 0
    /\ tracked => enabled
    /\ enabled /\ cnt > 0 /\ owner = None => dirty
    /\ owner # None => pc[owner] \in {"dirtying", "cleaning"}

Shape == Types /\ Places /\ Ownership

IInv == Shape /\ Account /\ OwnerKnows /\ InStep /\ NeverAborts /\ KilledClean

(* CountedIn is finite, and what its size says of its members. *)
LEMMA CountedFacts ==
    /\ IsFiniteSet(CountedIn)
    /\ Cardinality(CountedIn) \in Nat
    /\ \A h \in CountedIn : Cardinality(CountedIn) > 0
    /\ \A h \in CountedIn :
          Cardinality(CountedIn) = 1 => \A g \in CountedIn : g = h
<1>1. IsFiniteSet(CountedIn)
  BY HandlesFinite, FS_Subset DEF CountedIn
<1>2. Cardinality(CountedIn) \in Nat
  BY <1>1, FS_CardinalityType
<1>3. ASSUME NEW h \in CountedIn
      PROVE  /\ Cardinality(CountedIn) > 0
             /\ Cardinality(CountedIn) = 1 => \A g \in CountedIn : g = h
  <2>1. /\ IsFiniteSet(CountedIn \ {h})
        /\ Cardinality(CountedIn \ {h}) = Cardinality(CountedIn) - 1
    BY <1>1, FS_RemoveElement
  <2>2. Cardinality(CountedIn \ {h}) \in Nat
    BY <2>1, FS_CardinalityType
  <2>3. Cardinality(CountedIn) > 0
    BY <2>1, <2>2, <1>2
  <2>4. Cardinality(CountedIn) = 1 => CountedIn \ {h} = {}
    BY <2>1, <1>2, FS_EmptySet
  <2>5. QED
    BY <2>3, <2>4
<1>4. QED
  BY <1>1, <1>2, <1>3

(* A step that moves one transaction adds it to the counted ones, takes it *)
(* out, or leaves them alone.                                              *)
LEMMA CountedMoves ==
    ASSUME Types, NEW a \in Actors, NEW to, Moves(a, to)
    PROVE  /\ a \notin Handles => CountedIn' = CountedIn
           /\ /\ a \in Handles
              /\ a \in CountedIn <=> to \in {"dirtying", "open", "end"}
              => CountedIn' = CountedIn
           /\ /\ a \in Handles /\ a \notin CountedIn
              /\ to \in {"dirtying", "open", "end"}
              => Cardinality(CountedIn') = Cardinality(CountedIn) + 1
           /\ /\ a \in CountedIn /\ to \notin {"dirtying", "open", "end"}
              => Cardinality(CountedIn') = Cardinality(CountedIn) - 1
<1>1. \A b \in Actors : pc'[b] = IF b = a THEN to ELSE pc[b]
  BY DEF Types, Moves
<1>2. Handles \subseteq Actors
  BY DEF Actors
<1>3. a \notin Handles => CountedIn' = CountedIn
  BY <1>1, <1>2 DEF CountedIn
<1>4. a \in Handles /\ (a \in CountedIn <=> to \in {"dirtying", "open", "end"})
        => CountedIn' = CountedIn
  BY <1>1, <1>2 DEF CountedIn
<1>5. a \in Handles /\ a \notin CountedIn /\ to \in {"dirtying", "open", "end"}
        => CountedIn' = CountedIn \cup {a}
  BY <1>1, <1>2 DEF CountedIn
<1>6. a \in CountedIn /\ to \notin {"dirtying", "open", "end"}
        => CountedIn' = CountedIn \ {a}
  BY <1>1, <1>2 DEF CountedIn
<1>7. QED
  BY <1>3, <1>4, <1>5, <1>6, CountedFacts, FS_AddElement, FS_RemoveElement

(* The initial states. *)
LEMMA InitIInv == Init => IInv
<1> SUFFICES ASSUME Init PROVE IInv
  OBVIOUS
<1>1. CountedIn = {}
  BY DEF Init, CountedIn, Actors
<1>2. Cardinality(CountedIn) = 0
  BY <1>1, FS_EmptySet
<1>3. Held = 0
  BY DEF Init, Held, Actors
<1>4. Types /\ Places /\ Ownership
  <2>1. \A a \in Actors : pc[a] = "idle"
    BY DEF Init
  <2>2. Types
    <3>1. pc \in [Actors -> {"idle"}]
      BY DEF Init
    <3>2. once \in BOOLEAN /\ enabled \in BOOLEAN /\ callout \in BOOLEAN
          /\ tracked \in BOOLEAN /\ dirty \in BOOLEAN
      BY Zenon DEF Init
    <3>3. cnt \in Int /\ queued \in Nat
      BY DEF Init
    <3>4. QED
      BY <3>1, <3>2, <3>3 DEF Init, Types
  <2>3. QED
    BY <2>1, <2>2 DEF Places, Ownership, Actors
<1>5. Account
  BY <1>2, <1>3 DEF Init, Account
<1>6. OwnerKnows /\ InStep
  BY DEF Init, OwnerKnows, InStep, Actors
<1>7. NeverAborts /\ KilledClean
  BY DEF Init, NeverAborts, KilledClean
<1>8. QED
  BY <1>4, <1>5, <1>6, <1>7 DEF IInv, Shape

(* A transaction that is counted in, and a callback that is outstanding,    *)
(* keep the count above zero.                                               *)
LEMMA CountPositive ==
    ASSUME Types, Account
    PROVE  /\ cnt \in Nat
           /\ \A h \in CountedIn : cnt > 0
           /\ Held \in Nat
           /\ Held = 1 => cnt > 0
           /\ CalloutPending <=> Held = 1
<1>1. Held \in Nat
  BY DEF Held, Types
<1>2. CalloutPending <=> Held = 1
  BY DEF Held, Types, CalloutPending, Account
<1>3. QED
  BY <1>1, <1>2, CountedFacts DEF Account

(* Once enabled, an open transaction or an outstanding callback means that  *)
(* the process is dirty: whoever owns the queue has the count at zero, or   *)
(* is the one transaction counted and is not open yet, or is the enabler.   *)
LEMMA IInvDirty == IInv => DirtyWhileOpen
<1> SUFFICES ASSUME IInv, enabled, CalloutPending \/ \E h \in Handles : pc[h] = "open",
                    pc[Enabler] # "dirtying"
             PROVE  dirty
  BY DEF DirtyWhileOpen
<1> USE DEF IInv, Shape
<1>1. cnt > 0 /\ cnt \in Nat
  <2>1. CASE CalloutPending
    BY <2>1, CountPositive
  <2>2. CASE \E h \in Handles : pc[h] = "open"
    BY <2>2, CountPositive DEF CountedIn
  <2>3. QED
    BY <2>1, <2>2
<1>2. owner = None
  <2> SUFFICES ASSUME owner # None PROVE FALSE
    OBVIOUS
  <2>1. owner \in Actors /\ pc[owner] \in {"dirtying", "cleaning"}
    BY DEF Types, InStep
  <2>2. pc[owner] = "dirtying"
    BY <2>1, <1>1 DEF OwnerKnows
  <2>3. owner \in Handles
    BY <2>1, <2>2 DEF Places, Actors, Types, Ownership, OwnerKnows, InStep
  <2>4. cnt = 1 /\ owner \in CountedIn
    BY <2>2, <2>3 DEF OwnerKnows, CountedIn
  <2>5. Cardinality(CountedIn) = 1 /\ Held = 0
    BY <2>4, CountedFacts, CountPositive DEF Account
  <2>6. ~CalloutPending
    BY <2>5, CountPositive
  <2>7. PICK h \in Handles : pc[h] = "open"
    BY <2>6
  <2>8. h \in CountedIn
    BY <2>7 DEF CountedIn
  <2>9. h = owner
    BY <2>8, <2>4, <2>5, CountedFacts
  <2>10. QED
    BY <2>9, <2>7, <2>2
<1>3. QED
  BY <1>1, <1>2 DEF InStep

(* Steps that only move an actor outside the queue. *)
LEMMA CallsKeep ==
    ASSUME IInv,
           \/ \E h \in Handles : CallBegin(h) \/ CallEnd(h)
           \/ CallEnable \/ try_exit
    PROVE  IInv'
<1> USE DEF IInv, Shape
<1>1. ASSUME NEW a \in Actors, NEW to,
             \/ a \in Handles /\ pc[a] = "idle" /\ to = "begin"
             \/ a \in Handles /\ pc[a] = "open" /\ to = "end"
             \/ a = Enabler /\ pc[a] = "idle" /\ to = "enable"
             \/ a = Exiter /\ pc[a] = "idle" /\ to = "exit",
             dead = "no", Moves(a, to), UNCHANGED <<lib, owner, kernel>>
      PROVE  IInv'
  <2> USE DEF lib, kernel
  <2>1. \A b \in Actors : pc'[b] = IF b = a THEN to ELSE pc[b]
    BY <1>1 DEF Types, Moves
  <2>2. CountedIn' = CountedIn
    BY <1>1, CountedMoves, ActorsDistinct DEF CountedIn
  <2>3. Held' = Held
    BY <1>1, <2>1, ActorsDistinct DEF Held, Actors
  <2>4. Types'
    BY <1>1 DEF Types, Moves
  <2>5. Places'
    BY <1>1, <2>1, ActorsDistinct DEF Places, Actors
  <2>6. Ownership'
    BY <1>1, <2>1 DEF Ownership
  <2>7. Account'
    BY <1>1, <2>2, <2>3 DEF Account
  <2>8. OwnerKnows'
    BY <1>1, <2>1 DEF OwnerKnows, Actors
  <2>9. InStep'
    BY <1>1, <2>1, ActorsDistinct DEF InStep, Types
  <2>10. (NeverAborts /\ KilledClean)'
    BY <1>1 DEF NeverAborts, KilledClean
  <2>11. QED
    BY <2>4, <2>5, <2>6, <2>7, <2>8, <2>9, <2>10
<1>2. CASE \E h \in Handles : CallBegin(h) \/ CallEnd(h)
  BY <1>1, <1>2 DEF CallBegin, CallEnd, Actors
<1>3. CASE CallEnable \/ try_exit
  BY <1>1, <1>3 DEF CallEnable, try_exit, Actors
<1>4. QED
  BY <1>2, <1>3

(* Steps that move nobody: the first call's question to launchd, the        *)
(* registration of the callback, and the ends of the process.               *)
LEMMA StillKeep ==
    ASSUME IInv,
           \/ \E a \in Handles \cup {Enabler} : init_once(a)
           \/ set_clean_callback \/ Exit \/ Kill
    PROVE  IInv'
<1> USE DEF IInv, Shape
<1>1. /\ UNCHANGED <<cnt, queued, owner, pc, dirty>>
      /\ dead = "no"
  BY DEF init_once, set_clean_callback, Exit, Kill, lib, kernel
<1>2. CountedIn' = CountedIn /\ Held' = Held /\ CalloutPending' = CalloutPending
  BY <1>1 DEF CountedIn, Held, CalloutPending
<1>3. Types'
  BY <1>1 DEF Types, init_once, set_clean_callback, Exit, Kill, lib, kernel
<1>4. Places' /\ Ownership' /\ OwnerKnows'
  BY <1>1 DEF Places, Ownership, OwnerKnows
<1>5. dead' # "abort"
  BY DEF init_once, set_clean_callback, Exit, Kill, lib, kernel, NeverAborts
<1>6. Account' /\ InStep' /\ (dead' = "killed" => KilledClean')
  <2>1. CASE set_clean_callback \/ Exit
    BY <2>1, <1>1, <1>2 DEF set_clean_callback, Exit, Account, InStep, lib, kernel,
       KilledClean
  <2>2. CASE \E a \in Handles \cup {Enabler} : init_once(a)
    BY <2>2, <1>1, <1>2 DEF init_once, Account, InStep
  <2>3. CASE Kill
    <3>1. DirtyWhileOpen
      BY IInvDirty
    <3>2. enabled /\ ~dirty
      BY <2>3 DEF Kill, InStep
    <3>3. KilledClean'
      BY <3>1, <3>2, <1>1, <1>2 DEF KilledClean, DirtyWhileOpen
    <3>4. QED
      BY <2>3, <3>3, <1>1, <1>2 DEF Kill, Account, InStep, lib
  <2>4. QED
    BY <2>1, <2>2, <2>3
<1>7. QED
  BY <1>3, <1>4, <1>5, <1>6 DEF NeverAborts, KilledClean

(* proc_set_dirty() by the owner of the queue. *)
LEMMA SystemCallsKeep ==
    ASSUME IInv,
           \/ \E a \in Handles \cup {Enabler} : SetDirty(a)
           \/ \E a \in Handles \cup {Flusher} : SetClean(a)
    PROVE  IInv'
<1> USE DEF IInv, Shape, lib, kernel
<1>1. ASSUME NEW a \in Actors, NEW to,
             \/ a \in Handles /\ pc[a] = "dirtying" /\ to = "open" /\ dirty' = TRUE
             \/ a = Enabler /\ pc[a] = "dirtying" /\ to = "idle" /\ dirty' = TRUE
             \/ /\ a \in Handles \cup {Flusher} /\ pc[a] = "cleaning"
                /\ to = "idle" /\ dirty' = FALSE,
             dead = "no", Moves(a, to), owner' = None,
             UNCHANGED <<lib, tracked, dead>>
      PROVE  IInv'
  <2>1. \A b \in Actors : pc'[b] = IF b = a THEN to ELSE pc[b]
    BY <1>1 DEF Types, Moves
  <2>2. CountedIn' = CountedIn
    BY <1>1, CountedMoves, ActorsDistinct DEF CountedIn
  <2>3. Held' = Held
    BY <1>1, <2>1, ActorsDistinct DEF Held, Actors
  <2>4. Types'
    BY <1>1 DEF Types, Moves
  <2>5. Places'
    BY <1>1, <2>1, ActorsDistinct DEF Places, Actors
  <2>6. owner = a
    BY <1>1 DEF Ownership
  <2>7. \A b \in Actors : pc'[b] \notin {"dirtying", "cleaning"}
    BY <1>1, <2>1, <2>6 DEF Ownership
  <2>8. Ownership' /\ OwnerKnows'
    BY <2>7 DEF Ownership, OwnerKnows, Actors
  <2>9. Account'
    BY <1>1, <2>2, <2>3 DEF Account
  <2>10. InStep'
    BY <1>1 DEF InStep, OwnerKnows
  <2>11. (NeverAborts /\ KilledClean)'
    BY <1>1 DEF NeverAborts, KilledClean
  <2>12. QED
    BY <2>4, <2>5, <2>8, <2>9, <2>10, <2>11
<1>2. CASE \E a \in Handles \cup {Enabler} : SetDirty(a)
  <2>1. PICK a \in Handles \cup {Enabler} : SetDirty(a)
    BY <1>2
  <2>2. CASE a = Enabler
    BY <1>1, <2>1, <2>2 DEF SetDirty, Actors
  <2>3. CASE a \in Handles
    BY <1>1, <2>1, <2>3, ActorsDistinct DEF SetDirty, Actors
  <2>4. QED
    BY <2>2, <2>3
<1>3. CASE \E a \in Handles \cup {Flusher} : SetClean(a)
  BY <1>1, <1>3 DEF SetClean, Actors
<1>4. QED
  BY <1>2, <1>3

(* _vproc_transactions_enable_internal(). *)
LEMMA EnableKeeps == IInv /\ enable_internal => IInv'
<1> SUFFICES ASSUME IInv, enable_internal PROVE IInv'
  OBVIOUS
<1> USE DEF IInv, Shape, enable_internal, OnQueue
<1> DEFINE to == IF cnt > 0 THEN "dirtying" ELSE "idle"
<1>1. Enabler \in Actors /\ Moves(Enabler, to)
  BY DEF Actors
<1>2. \A b \in Actors : pc'[b] = IF b = Enabler THEN to ELSE pc[b]
  BY <1>1 DEF Types, Moves
<1>3. CountedIn' = CountedIn
  BY <1>1, CountedMoves, ActorsDistinct
<1>4. Held' = Held
  BY <1>2, ActorsDistinct DEF Held, Actors
<1>5. owner' = IF cnt > 0 THEN Enabler ELSE None
  OBVIOUS
<1>6. Types'
  BY <1>1, <1>5 DEF Types, Moves
<1>7. Places'
  BY <1>2, ActorsDistinct DEF Places, Actors
<1>8. \A b \in Actors : pc[b] \notin {"dirtying", "cleaning"}
  BY ActorsDistinct DEF Ownership, Actors
<1>9. Ownership' /\ OwnerKnows'
  BY <1>2, <1>5, <1>8, ActorsDistinct DEF Ownership, OwnerKnows, Actors
<1>10. Account'
  BY <1>3, <1>4 DEF Account
<1>11. InStep'
  BY <1>1, <1>2, <1>5, ActorsDistinct DEF InStep, Types
<1>12. (NeverAborts /\ KilledClean)'
  BY DEF NeverAborts, KilledClean
<1>13. QED
  BY <1>6, <1>7, <1>9, <1>10, <1>11, <1>12

(* _vproc_transaction_begin_internal(). *)
LEMMA BeginKeeps == ASSUME IInv, NEW h \in Handles, begin_internal(h) PROVE IInv'
<1> USE DEF IInv, Shape, begin_internal, OnQueue
<1>1. cnt \in Nat
  BY CountPositive
<1> DEFINE first == enabled /\ cnt = 0
           to == IF first THEN "dirtying" ELSE "open"
<1>2. h \in Actors /\ Moves(h, to) /\ dead' = dead
      /\ owner' = IF first THEN h ELSE None
  BY <1>1 DEF Actors, Types
<1>3. \A b \in Actors : pc'[b] = IF b = h THEN to ELSE pc[b]
  BY <1>2 DEF Types, Moves
<1>4. Cardinality(CountedIn') = Cardinality(CountedIn) + 1
  BY <1>2, CountedMoves, ActorsDistinct DEF CountedIn
<1>5. Held' = Held
  BY <1>3, ActorsDistinct DEF Held, Actors
<1>6. Types'
  BY <1>1, <1>2 DEF Types, Moves
<1>7. Places'
  BY <1>3, ActorsDistinct DEF Places, Actors
<1>8. \A b \in Actors : pc[b] \notin {"dirtying", "cleaning"}
  BY ActorsDistinct DEF Ownership, Actors
<1>9. Ownership' /\ OwnerKnows'
  BY <1>1, <1>2, <1>3, <1>8 DEF Ownership, OwnerKnows, Actors
<1>10. Account'
  BY <1>4, <1>5, CountedFacts, CountPositive DEF Account
<1>11. InStep'
  BY <1>1, <1>2, <1>3, ActorsDistinct DEF InStep, Types
<1>12. (NeverAborts /\ KilledClean)'
  BY <1>2 DEF NeverAborts, KilledClean
<1>13. QED
  BY <1>6, <1>7, <1>9, <1>10, <1>11, <1>12

(* The clean callback is taken up: it is held back all the same. *)
LEMMA CalloutKeeps == IInv /\ end_internal2 => IInv'
<1> SUFFICES ASSUME IInv, end_internal2 PROVE IInv'
  OBVIOUS
<1> USE DEF IInv, Shape, end_internal2, kernel
<1>1. Flusher \in Actors /\ Moves(Flusher, "flush")
  BY DEF Actors
<1>2. \A b \in Actors : pc'[b] = IF b = Flusher THEN "flush" ELSE pc[b]
  BY <1>1 DEF Types, Moves
<1>3. CountedIn' = CountedIn
  BY <1>1, CountedMoves, ActorsDistinct
<1>4. Held' = Held
  BY <1>1, <1>2 DEF Held, Types
<1>5. Types'
  BY <1>1 DEF Types, Moves
<1>6. Places' /\ Ownership' /\ OwnerKnows'
  BY <1>2, ActorsDistinct DEF Places, Ownership, OwnerKnows, Actors
<1>7. Account'
  BY <1>3, <1>4 DEF Account
<1>8. InStep'
  BY <1>2, ActorsDistinct DEF InStep, Types
<1>9. (NeverAborts /\ KilledClean)'
  BY DEF NeverAborts, KilledClean
<1>10. QED
  BY <1>5, <1>6, <1>7, <1>8, <1>9

(* _vproc_transaction_end_internal(), called by a transaction that ends or *)
(* after the callback.                                                     *)
LEMMA EndKeeps ==
    ASSUME IInv,
           NEW a \in Handles \cup {Flusher}, NEW flush \in BOOLEAN,
           \/ a \in Handles /\ pc[a] = "end" /\ flush = FALSE
           \/ a = Flusher /\ pc[a] = "flush" /\ flush = TRUE,
           end_internal(a, flush)
    PROVE  IInv'
<1> USE DEF IInv, Shape, OnQueue
<1>1. a \in Actors /\ Flusher \in Actors /\ Flusher \notin Handles
  BY ActorsDistinct DEF Actors
<1>2. cnt \in Nat /\ cnt > 0 /\ Held \in Nat /\ Held <= 1
  BY CountPositive, <1>1 DEF CountedIn, Held, Types, Account
<1>3. dead = "no" /\ dead' = dead /\ owner = None /\ once
      /\ UNCHANGED <<once, enabled, callout, tracked, dirty>>
  BY <1>2 DEF end_internal
<1>4. \A b \in Actors : pc[b] \notin {"dirtying", "cleaning"}
  BY <1>3, ActorsDistinct DEF Ownership, Actors
<1>5. \/ /\ ~enabled \/ cnt > 1
         /\ cnt' = cnt - 1 /\ Moves(a, "idle")
         /\ queued' = queued /\ owner' = owner
      \/ /\ enabled /\ cnt = 1 /\ a \in Handles
         /\ cnt' = 1 /\ queued' = queued + 1
         /\ Moves(a, "idle") /\ owner' = owner
      \/ /\ enabled /\ cnt = 1
         /\ cnt' = 0 /\ Moves(a, "cleaning") /\ owner' = a
         /\ queued' = queued
  BY <1>2 DEF end_internal, Types
<1>6. PICK to \in {"idle", "cleaning"} :
         /\ Moves(a, to)
         /\ to = "cleaning" => cnt' = 0 /\ owner' = a
         /\ to = "idle" => owner' = None
  BY <1>5, <1>3
<1>7. \A b \in Actors : pc'[b] = IF b = a THEN to ELSE pc[b]
  BY <1>1, <1>6 DEF Types, Moves
<1>8. Types'
  BY <1>1, <1>2, <1>3, <1>5, <1>6 DEF Types, Moves
<1>9. Places'
  BY <1>1, <1>7, ActorsDistinct DEF Places, Actors
<1>10. Ownership' /\ OwnerKnows'
  BY <1>4, <1>6, <1>7 DEF Ownership, OwnerKnows, Actors
<1>11. Account'
  <2>1. CASE a \in Handles
    <3>1. Cardinality(CountedIn') = Cardinality(CountedIn) - 1
      BY <2>1, <1>1, <1>6, CountedMoves DEF CountedIn
    <3>2. Held' = IF queued' = queued THEN Held ELSE Held + 1
      BY <2>1, <1>1, <1>5, <1>7 DEF Held, Types
    <3>3. queued' # queued => cnt = 1 /\ cnt' = 1 /\ enabled
      BY <1>5
    <3>4. Cardinality(CountedIn) \in Nat /\ Cardinality(CountedIn) > 0
      <4>1. a \in CountedIn
        BY <2>1, <1>1 DEF CountedIn
      <4>2. QED
        BY <4>1, CountedFacts
    <3>5. queued' # queued => Held = 0
      BY <3>3, <3>4, <1>2 DEF Account
    <3>6. CASE queued' = queued
      <4>1. cnt' = cnt - 1
        BY <3>6, <1>5, <1>2 DEF Types
      <4>2. QED
        BY <4>1, <3>1, <3>2, <3>4, <3>6, <1>2, <1>3 DEF Account
    <3>7. CASE queued' # queued
      BY <3>1, <3>2, <3>3, <3>4, <3>5, <3>7, <1>2, <1>3 DEF Account
    <3>8. QED
      BY <3>6, <3>7
  <2>2. CASE a = Flusher
    <3>1. CountedIn' = CountedIn
      BY <2>2, <1>1, <1>6, CountedMoves
    <3>2. queued' = queued /\ cnt' = cnt - 1
      BY <2>2, <1>1, <1>5
    <3>3. pc[Flusher] = "flush" /\ pc'[Flusher] # "flush"
      BY <2>2, <1>1, <1>7
    <3>4. Held' = Held - 1 /\ Held = 1
      BY <3>2, <3>3, <1>2 DEF Held, Types
    <3>5. QED
      BY <3>1, <3>2, <3>4, <1>2, CountedFacts DEF Account
  <2>3. QED
    BY <2>1, <2>2
<1>12. InStep'
  BY <1>1, <1>2, <1>3, <1>5, <1>6, <1>7 DEF InStep, Types
<1>13. (NeverAborts /\ KilledClean)'
  BY <1>3 DEF NeverAborts, KilledClean
<1>14. QED
  BY <1>8, <1>9, <1>10, <1>11, <1>12, <1>13

(* Every step keeps the inductive invariant. *)
LEMMA NextIInv == IInv /\ [Next]_vars => IInv'
<1> SUFFICES ASSUME IInv, [Next]_vars PROVE IInv'
  OBVIOUS
<1>1. CASE \E h \in Handles : CallBegin(h) \/ CallEnd(h)
  BY <1>1, CallsKeep
<1>2. CASE \E h \in Handles : Steps(h)
  <2>1. PICK h \in Handles : Steps(h)
    BY <1>2
  <2>2. CASE begin_internal(h)
    BY <2>2, BeginKeeps
  <2>3. CASE End(h)
    BY <2>3, EndKeeps DEF End
  <2>4. CASE SetDirty(h) \/ SetClean(h)
    BY <2>4, SystemCallsKeep
  <2>5. QED
    BY <2>1, <2>2, <2>3, <2>4 DEF Steps
<1>3. CASE \E a \in Handles \cup {Enabler} : init_once(a)
  BY <1>3, StillKeep
<1>4. CASE CallEnable \/ try_exit
  BY <1>4, CallsKeep
<1>5. CASE Enabling
  BY <1>5, EnableKeeps, SystemCallsKeep DEF Enabling
<1>6. CASE Flushing
  <2>1. CASE end_flush
    BY <2>1, EndKeeps DEF end_flush
  <2>2. QED
    BY <1>6, <2>1, CalloutKeeps, SystemCallsKeep DEF Flushing
<1>7. CASE set_clean_callback \/ Exit \/ Kill
  BY <1>7, StillKeep
<1>8. CASE UNCHANGED vars
  <2> USE <1>8 DEF vars, lib, kernel
  <2>1. CountedIn' = CountedIn /\ Held' = Held /\ CalloutPending' = CalloutPending
    BY DEF CountedIn, Held, CalloutPending
  <2>2. (Types /\ Places /\ Ownership /\ OwnerKnows /\ InStep)'
    BY DEF IInv, Shape, Types, Places, Ownership, OwnerKnows, InStep
  <2>3. (Account /\ NeverAborts /\ KilledClean)'
    BY <2>1 DEF IInv, Account, NeverAborts, KilledClean
  <2>4. QED
    BY <2>2, <2>3 DEF IInv, Shape
<1>9. QED
  BY <1>1, <1>2, <1>3, <1>4, <1>5, <1>6, <1>7, <1>8 DEF Next

(* The inductive invariant implies what the run checks. *)
LEMMA IInvImplies == IInv => TypeOK /\ Counted
<1> SUFFICES ASSUME IInv PROVE TypeOK /\ Counted
  OBVIOUS
<1>1. TypeOK
  BY CountPositive DEF IInv, Shape, Types, TypeOK
<1>2. Counted
  BY CountPositive DEF IInv, Shape, Account, Counted, Held
<1>3. QED
  BY <1>1, <1>2

(* The inductive invariant holds in every reachable state. *)
THEOREM Invariance == Spec => []IInv
<1>1. Init => IInv
  BY InitIInv
<1>2. IInv /\ [Next]_vars => IInv'
  BY NextIInv
<1>3. QED
  BY <1>1, <1>2, PTL DEF Spec

(* However many transactions overlap, and whenever transactions are enabled *)
(* or the callback is set, _vproc_transaction_cnt stays a natural number    *)
(* and every actor is in a state of its own.                                *)
THEOREM TypeCorrect == Spec => []TypeOK
BY Invariance, IInvImplies, PTL

(* _vproc_transaction_cnt is the number of transactions begun and not       *)
(* ended, plus one while the clean callback is outstanding.                 *)
THEOREM CountRight == Spec => []Counted
BY Invariance, IInvImplies, PTL

(* Neither abort() of libvproc.c is reached. *)
THEOREM NoUnderflow == Spec => []NeverAborts
<1>1. IInv => NeverAborts
  BY DEF IInv
<1>2. QED
  BY <1>1, Invariance, PTL

(* The process is dirty as long as a transaction is open. *)
THEOREM OpenIsDirty == Spec => []DirtyWhileOpen
BY Invariance, IInvDirty, PTL

(* The process is never killed as clean with a transaction open. *)
THEOREM NotKilledOpen == Spec => []KilledClean
<1>1. IInv => KilledClean
  BY DEF IInv
<1>2. QED
  BY <1>1, Invariance, PTL

(* The count is right, whoever begins and ends what and when the callback   *)
(* returns, and no abort() is reached.                                      *)
THEOREM CountKept == Spec => []Accounted
<1>1. TypeOK /\ Counted /\ NeverAborts => Accounted
  BY DEF Accounted
<1>2. QED
  BY TypeCorrect, CountRight, NoUnderflow, <1>1, PTL

(* A process with a transaction open or its clean callback outstanding is   *)
(* dirty and is not killed as clean, save inside the enabling.              *)
THEOREM DirtyAlways == Spec => []DirtyKept
<1>1. DirtyWhileOpen /\ KilledClean => DirtyKept
  BY DEF DirtyKept
<1>2. QED
  BY OpenIsDirty, NotKilledOpen, <1>1, PTL
=============================================================================
