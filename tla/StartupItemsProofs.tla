------------------------- MODULE StartupItemsProofs -------------------------
(***************************************************************************)
(* For every contents of the disk: the scripts SystemStarter runs are the  *)
(* ones it counts, they follow the dependencies, what a run leaves on the  *)
(* list is blocked, and no script is started twice.                        *)
(***************************************************************************)
EXTENDS StartupItems, FiniteSetTheorems, WellFoundedInduction, TLAPS

Running == {i \in Ids : pid[i] \in Lasting}

Types ==
  /\ disk \in Disks
  /\ phase \in {"loop", "idle", "off"} /\ booted \in {"no", "up", "stopping", "down"}
  /\ anAction \in {"start", "stop", "restart"}
  /\ aWaitingList \in Seq(Ids) /\ aFailedList \in Seq(Ids)
  /\ aStatusDict \in [Services -> {"none", "success", "failure"}]
  /\ pid \in [Ids -> Lasting \cup {"none", "minus1", "reaped"}]
  /\ tried \subseteq Ids
  /\ commands \in 0..MaxCommands /\ late \subseteq Ids

\* Only items that can be read are run: whatever is up or on the list is on the
\* list a command would work on
Known == up \cup Range(aWaitingList) \subseteq Range(CommandList)

\* An item on the list has not run or runs, and one that was tried is not tried again
Waiting ==
  /\ \A i \in Range(aWaitingList) : pid[i] \in Lasting \cup {"none"}
  /\ \A i \in tried \cap Range(aWaitingList) : pid[i] # "none"

\* The run is over only when no script runs
Over == phase # "loop" => aRunningCount = 0

\* A service that a start has recorded is provided, and what runs has its requirements
Started ==
  anAction = "start" =>
    /\ \A s \in Services : aStatusDict[s] = "success" => \E j \in up : s \in Provides(j)
    /\ \A i \in Running : \A s \in Requires(i) : aStatusDict[s] = "success"

\* What requires an item that is to be stopped is to be stopped too, and before
\* it, unless the shutdown does not see it
Stopping ==
  anAction = "stop" =>
    /\ \A j \in up : Seen(j) =>
         \/ j \in Range(aWaitingList)
         \/ \A k \in Range(aWaitingList) : Requires(j) \cap Provides(k) = {}
    /\ \A i \in Running, j \in Range(aWaitingList) : Requires(j) \cap Provides(i) = {}

IInv ==
  /\ Types /\ Known /\ Waiting /\ Accounts /\ Over /\ OneProvider
  /\ Started /\ Stopping /\ UsesFirst /\ RequirementsUp /\ LeftBehind

-----------------------------------------------------------------------------
(* The disk and the lists.                                                 *)

\* What the assumption says of the disk in use.
LEMMA DiskFacts ==
  ASSUME disk \in Disks
  PROVE  /\ Ids \subseteq Nat \ {NoItem} /\ IsFiniteSet(Ids) /\ Cardinality(Ids) \in 0..NItems
         /\ \E n \in Nat : Ids = 1..n
         /\ \A i \in Ids :
              /\ IsFiniteSet(Provides(i)) /\ Cardinality(Provides(i)) * NItems < INT_MAX
              /\ IsFiniteSet(disk[i].uses) /\ Cardinality(disk[i].uses) < INT_MAX
              /\ IsFiniteSet(disk[i].requires)
              /\ disk[i].domain \in Nat
              /\ Provides(i) \cup Requires(i) \cup Uses(i) \subseteq Services
  <1>1. PICK n \in 0..NItems :
          /\ Ids = 1..n
          /\ \A i \in 1..n :
               /\ IsFiniteSet(disk[i].provides) /\ Cardinality(disk[i].provides) * NItems < INT_MAX
               /\ IsFiniteSet(disk[i].uses) /\ Cardinality(disk[i].uses) < INT_MAX
               /\ IsFiniteSet(disk[i].requires)
               /\ disk[i].domain \in Nat
    BY DisksAssumption DEF Ids
  <1>2. NItems \in Nat /\ n \in Nat /\ n \in Int /\ 1 \in Int
    BY DisksAssumption
  <1>3. IsFiniteSet(1..n) /\ Cardinality(1..n) = IF 1 > n THEN 0 ELSE n - 1 + 1
    BY <1>2, FS_Interval
  <1>4. Cardinality(Ids) \in 0..NItems
    BY <1>1, <1>2, <1>3
  <1>5. \A i \in Ids : Provides(i) \cup Requires(i) \cup Uses(i) \subseteq Services
    BY DEF Services, Provides, Requires, Uses
  <1> QED
    BY <1>1, <1>2, <1>3, <1>4, <1>5 DEF Provides, NoItem

\* Min() finds the least of a set of numbers.
LEMMA MinOfNat ==
  ASSUME NEW S \in SUBSET Nat, S # {}
  PROVE  Min(S) \in S /\ \A y \in S : Min(S) <= y
  <1> DEFINE R == OpToRel(<, Nat)
  <1>1. IsWellFoundedOn(R, Nat)
    BY NatLessThanWellFounded, Zenon
  <1>2. \A x, y \in Nat : y < x => <<y, x>> \in R
    BY Zenon DEF OpToRel
  <1> HIDE DEF R
  <1>3. PICK x \in S : \A y \in S : ~(<<y, x>> \in R)
    BY <1>1, WFMin
  <1>4. \A y \in S : ~(y < x)
    BY <1>2, <1>3, Zenon
  <1>5. \A y \in S : x <= y
    BY <1>4
  <1> QED
    BY <1>5 DEF Min

\* Sublist() keeps the members of S on the list and nothing else.
LEMMA SublistRange ==
  ASSUME NEW T, NEW q \in Seq(T), NEW S
  PROVE  Sublist(q, S) \in Seq(T) /\ Range(Sublist(q, S)) = Range(q) \cap S
  <1> DEFINE places == {n \in DOMAIN q : q[n] \in S}
             upTo(n) == {m \in places : m <= n}
             rank == [n \in places |-> Cardinality(upTo(n))]
             K == Cardinality(places)
             place(k) == CHOOSE n \in places : Cardinality({m \in places : m <= n}) = k
  <1>1. DOMAIN q = 1..Len(q) /\ Len(q) \in Nat /\ \A n \in DOMAIN q : q[n] \in T
    OBVIOUS
  <1>2. IsFiniteSet(1..Len(q))
    BY <1>1, FS_Interval
  <1>3. IsFiniteSet(places) /\ K \in Nat /\ places \subseteq Nat
    <2>1. places \in SUBSET (1..Len(q))
      BY <1>1
    <2>2. IsFiniteSet(places)
      BY <1>2, <2>1, FS_Subset
    <2> QED
      BY <2>1, <2>2, FS_CardinalityType
  <1>4. ASSUME NEW n \in places
        PROVE  IsFiniteSet(upTo(n)) /\ Cardinality(upTo(n)) \in 1..K
    <2>1. upTo(n) \in SUBSET places /\ n \in upTo(n)
      BY <1>3
    <2>2. IsFiniteSet(upTo(n)) /\ Cardinality(upTo(n)) <= K
      BY <1>3, <2>1, FS_Subset
    <2>3. Cardinality(upTo(n)) \in Nat /\ Cardinality(upTo(n)) # 0
      BY <2>1, <2>2, FS_CardinalityType, FS_EmptySet
    <2> QED
      BY <1>3, <2>2, <2>3
  <1>5. ASSUME NEW m \in places, NEW n \in places, m < n
        PROVE  Cardinality(upTo(m)) # Cardinality(upTo(n))
    <2>1. upTo(m) \in SUBSET upTo(n) /\ upTo(m) # upTo(n)
      BY <1>3, <1>5
    <2>2. IsFiniteSet(upTo(n))
      BY <1>4
    <2> QED
      BY <2>1, <2>2, FS_Subset
  <1>6. rank \in Injection(places, 1..K)
    <2>1. rank \in [places -> 1..K]
      BY <1>4
    <2>2. \A m, n \in places : rank[m] = rank[n] => m = n
      <3> SUFFICES ASSUME NEW m \in places, NEW n \in places, m # n
                   PROVE  Cardinality(upTo(m)) # Cardinality(upTo(n))
        OBVIOUS
      <3>1. m < n \/ n < m
        BY <1>3
      <3> QED
        BY <3>1, <1>5
    <2> QED
      BY <2>1, <2>2 DEF Injection, IsInjective
  <1>7. rank \in Surjection(places, 1..K)
    <2>1. IsFiniteSet(1..K) /\ Cardinality(1..K) = K
      BY <1>3, FS_Interval
    <2> QED
      BY <1>3, <1>6, <2>1, FS_Injection
  <1>8. \A k \in 1..K : place(k) \in places /\ Cardinality(upTo(place(k))) = k
    <2> SUFFICES ASSUME NEW k \in 1..K
                 PROVE  \E n \in places : Cardinality(upTo(n)) = k
      OBVIOUS
    <2> QED
      BY <1>7 DEF Surjection
  <1>9. \A n \in places : place(Cardinality(upTo(n))) = n
    <2> SUFFICES ASSUME NEW n \in places
                 PROVE  place(Cardinality(upTo(n))) = n
      OBVIOUS
    <2> DEFINE k == Cardinality(upTo(n))
               m == place(k)
    <2>1. k \in 1..K
      BY <1>4
    <2>2. m \in places /\ Cardinality(upTo(m)) = k
      BY <1>8, <2>1
    <2>3. ~(m < n) /\ ~(n < m)
      BY <1>5, <2>2
    <2> QED
      BY <1>3, <2>2, <2>3
  <1>10. Sublist(q, S) = [k \in 1..K |-> q[place(k)]]
    BY DEF Sublist
  <1> HIDE DEF place, upTo, rank, K
  <1>11. Sublist(q, S) \in [1..K -> T] /\ DOMAIN Sublist(q, S) = 1..K
    BY <1>1, <1>8, <1>10
  <1>12. Sublist(q, S) \in Seq(T)
    BY <1>3, <1>11
  <1>13. Range(Sublist(q, S)) \subseteq Range(q) \cap S
    BY <1>8, <1>10 DEF Range
  <1>14. ASSUME NEW n \in places
         PROVE  \E k \in 1..K : Sublist(q, S)[k] = q[n]
    <2>1. Cardinality(upTo(n)) \in 1..K
      BY <1>4
    <2> QED
      BY <1>9, <1>10, <2>1
  <1>15. Range(q) \cap S \subseteq Range(Sublist(q, S))
    BY <1>11, <1>14 DEF Range
  <1> QED
    BY <1>12, <1>13, <1>15

\* The item can be read, and a command does so
Readable(i) ==
  OnDisk(i) /\ disk[i].state # "disabled" /\ disk[i].state # "untrusted" /\ StartupItemValidate(i)

\* The list of a command, and the one of the boot and of the shutdown, which has
\* of it what has not changed.
LEMMA ListedIds ==
  ASSUME disk \in Disks
  PROVE  /\ CommandList \in Seq(Ids) /\ Range(CommandList) = {i \in Ids : Readable(i)}
         /\ BootList \in Seq(Ids) /\ Range(BootList) = Range(CommandList) \ late
  <1> DEFINE all == [i \in Ids |-> i]
             C == {i \in Ids : Readable(i)}
             B == {i \in Ids : Readable(i) /\ i \notin late}
  <1>1. PICK n \in Nat : Ids = 1..n
    BY DiskFacts
  <1>2. all \in Seq(Ids) /\ Range(all) = Ids
    BY <1>1 DEF Range
  <1>3. CommandList = Sublist(all, C)
    <2>1. C = {i \in Ids : /\ OnDisk(i) /\ disk[i].state # "disabled"
                           /\ StartupItemSecurityCheck(i, FALSE) /\ StartupItemValidate(i)}
      BY DEF Readable, StartupItemSecurityCheck
    <2> QED
      BY <2>1 DEF CommandList, StartupItemListCreateWithMask
  <1>4. BootList = Sublist(all, B)
    <2>1. B = {i \in Ids : /\ OnDisk(i) /\ disk[i].state # "disabled"
                           /\ StartupItemSecurityCheck(i, TRUE) /\ StartupItemValidate(i)}
      BY DEF Readable, StartupItemSecurityCheck
    <2> QED
      BY <2>1 DEF BootList, StartupItemListCreateWithMask
  <1> HIDE DEF all
  <1>5. CommandList \in Seq(Ids) /\ Range(CommandList) = Ids \cap C
    BY <1>2, <1>3, SublistRange
  <1>6. BootList \in Seq(Ids) /\ Range(BootList) = Ids \cap B
    BY <1>2, <1>4, SublistRange
  <1> QED
    BY <1>5, <1>6

-----------------------------------------------------------------------------
(* Choosing what to run next.                                              *)

\* An item has no unmet requirement when the count says so.
LEMMA UnmetCount ==
  ASSUME Types, NEW S, IsFiniteSet(S)
  PROVE  /\ countUnmetRequirements(S) \in 0..Cardinality(S)
         /\ countUnmetRequirements(S) = 0 <=> \A s \in S : aStatusDict[s] = "success"
  <1> DEFINE U == {s \in S : aStatusDict[s] # "success"}
  <1>1. IsFiniteSet(U) /\ Cardinality(U) <= Cardinality(S)
    BY FS_Subset
  <1>2. Cardinality(U) \in Nat /\ Cardinality(S) \in Nat /\ (Cardinality(U) = 0 <=> U = {})
    BY <1>1, FS_CardinalityType, FS_EmptySet
  <1> QED
    BY <1>1, <1>2 DEF countUnmetRequirements

\* The items on the list that name a service are counted.
LEMMA PresentCount ==
  ASSUME Types, NEW i \in Ids, NEW aKey
  PROVE  /\ countDependantsPresent(Provides(i), aKey) \in Nat
         /\ countDependantsPresent(Provides(i), aKey) < INT_MAX
         /\ countDependantsPresent(Provides(i), aKey) = 0
              <=> \A s \in Provides(i), j \in Range(aWaitingList) : s \notin ValueOf(j, aKey)
  <1> DEFINE L == Range(aWaitingList)
             M == {m \in Provides(i) \X L : m[2] \in startupItemListCopyMatches(aWaitingList, aKey, m[1])}
  <1>1. /\ IsFiniteSet(Ids) /\ Cardinality(Ids) \in 0..NItems /\ NItems \in Nat
        /\ IsFiniteSet(Provides(i)) /\ Cardinality(Provides(i)) * NItems < INT_MAX
    BY DiskFacts, DisksAssumption DEF Types
  <1>2. L \in SUBSET Ids
    BY DEF Types, Range
  <1>3. IsFiniteSet(L) /\ Cardinality(L) <= Cardinality(Ids) /\ Cardinality(L) \in Nat
    BY <1>1, <1>2, FS_Subset, FS_CardinalityType
  <1>4. Cardinality(Provides(i)) \in Nat
    BY <1>1, FS_CardinalityType
  <1>5. /\ IsFiniteSet(Provides(i) \X L)
        /\ Cardinality(Provides(i) \X L) = Cardinality(Provides(i)) * Cardinality(L)
    BY <1>1, <1>3, FS_Product
  <1>6. /\ IsFiniteSet(M) /\ Cardinality(M) <= Cardinality(Provides(i) \X L)
        /\ Cardinality(M) \in Nat /\ (Cardinality(M) = 0 <=> M = {})
    <2>1. M \in SUBSET (Provides(i) \X L)
      OBVIOUS
    <2>2. IsFiniteSet(M) /\ Cardinality(M) <= Cardinality(Provides(i) \X L)
      BY <1>5, <2>1, FS_Subset
    <2> QED
      BY <2>2, FS_CardinalityType, FS_EmptySet
  <1>7. \A a, b, c \in Nat : b <= c => a * b <= a * c
    OBVIOUS
  <1>8. Cardinality(Provides(i)) * Cardinality(L) <= Cardinality(Provides(i)) * NItems
    BY <1>1, <1>3, <1>4, <1>7
  <1>9. Cardinality(M) < INT_MAX
    <2> DEFINE x == Cardinality(Provides(i)) * NItems
               y == Cardinality(Provides(i)) * Cardinality(L)
    <2>1. x \in Nat /\ y \in Nat /\ INT_MAX \in Nat
      BY <1>1, <1>3, <1>4 DEF INT_MAX
    <2>2. y <= x /\ x < INT_MAX /\ Cardinality(M) <= y
      BY <1>1, <1>5, <1>6, <1>8
    <2> HIDE DEF x, y, M
    <2> QED
      BY <1>6, <2>1, <2>2
  <1>10. M = {} <=> \A s \in Provides(i), j \in L : s \notin ValueOf(j, aKey)
    <2>1. \A s \in Provides(i), j \in L : <<s, j>> \in M <=> s \in ValueOf(j, aKey)
      BY DEF startupItemListCopyMatches
    <2> QED
      BY <2>1
  <1>11. countDependantsPresent(Provides(i), aKey) = Cardinality(M)
    BY DEF countDependantsPresent
  <1> QED
    BY <1>6, <1>9, <1>10, <1>11

\* Unmet soft dependencies are counted, and the count is below INT_MAX.
LEMMA SoftCount ==
  ASSUME Types, NEW i \in Ids
  PROVE  /\ Soft(i) \in Nat /\ Soft(i) < INT_MAX
         /\ anAction = "start" =>
              (Soft(i) = 0 <=> \A s \in Uses(i) : aStatusDict[s] = "success")
  <1>1. IsFiniteSet(disk[i].uses) /\ Cardinality(disk[i].uses) < INT_MAX
    BY DiskFacts DEF Types
  <1>2. IsFiniteSet(Uses(i)) /\ Cardinality(Uses(i)) <= Cardinality(disk[i].uses)
    BY <1>1, FS_Subset DEF Uses
  <1>3. Cardinality(Uses(i)) \in Nat /\ Cardinality(disk[i].uses) \in Nat /\ INT_MAX \in Nat
    BY <1>1, <1>2, FS_CardinalityType DEF INT_MAX
  <1>4. CASE anAction = "start"
    <2>1. Soft(i) = countUnmetRequirements(Uses(i))
      BY <1>4 DEF Soft
    <2> QED
      BY <1>1, <1>2, <1>3, <2>1, UnmetCount
  <1>5. CASE anAction = "stop"
    <2>1. Soft(i) = countDependantsPresent(Provides(i), "Uses")
      BY <1>5 DEF Soft
    <2> QED
      BY <1>5, <2>1, PresentCount
  <1>6. CASE anAction = "restart"
    BY <1>6 DEF Soft, INT_MAX
  <1> QED
    BY <1>4, <1>5, <1>6 DEF Types

\* StartupItemListGetNext() returns a ready item of the list, and NULL only if
\* there is none.
LEMMA GetNext ==
  ASSUME Types
  PROVE  /\ StartupItemListGetNext # NoItem =>
              StartupItemListGetNext \in Range(aWaitingList) /\ Ready(StartupItemListGetNext)
         /\ StartupItemListGetNext = NoItem => \A i \in Range(aWaitingList) : ~Ready(i)
  <1> DEFINE W == aWaitingList
             places == {n \in DOMAIN W : Ready(W[n]) /\ Soft(W[n]) < INT_MAX}
             softs == {Soft(W[n]) : n \in places}
             firsts == {n \in places : Soft(W[n]) = Min(softs)}
  <1>1. /\ DOMAIN W = 1..Len(W) /\ Len(W) \in Nat
        /\ \A n \in DOMAIN W : W[n] \in Ids /\ W[n] \in Range(W) /\ W[n] # NoItem
    BY DiskFacts DEF Types, Range
  <1>2. StartupItemListGetNext = IF places = {} THEN NoItem ELSE W[Min(firsts)]
    BY DEF StartupItemListGetNext, BestBelow
  <1>3. \A n \in DOMAIN W : Soft(W[n]) \in Nat /\ Soft(W[n]) < INT_MAX
    BY <1>1, SoftCount
  <1>4. CASE places = {}
    <2>1. \A i \in Range(W) : ~Ready(i)
      BY <1>3, <1>4 DEF Range
    <2> QED
      BY <1>2, <1>4, <2>1
  <1>5. CASE places # {}
    <2>1. softs \in SUBSET Nat /\ softs # {}
      BY <1>3, <1>5
    <2>2. Min(softs) \in softs
      BY <2>1, MinOfNat
    <2>3. firsts \in SUBSET Nat /\ firsts # {}
      <3>1. PICK n \in places : Soft(W[n]) = Min(softs)
        BY <2>2
      <3>2. n \in firsts
        BY <3>1
      <3>3. places \in SUBSET Nat
        BY <1>1
      <3> QED
        BY <3>2, <3>3
    <2>4. Min(firsts) \in firsts
      BY <2>3, MinOfNat
    <2>5. Min(firsts) \in DOMAIN W /\ Ready(W[Min(firsts)])
      BY <2>4
    <2>6. StartupItemListGetNext = W[Min(firsts)]
      BY <1>2, <1>5
    <2> HIDE DEF firsts
    <2> QED
      BY <1>1, <2>5, <2>6
  <1> QED
    BY <1>4, <1>5

\* When an item is started its requirements are met, and when it is stopped
\* nothing on the list requires it
Clear(i) ==
  /\ anAction = "start" => \A s \in Requires(i) : aStatusDict[s] = "success"
  /\ anAction = "stop"  => \A j \in Range(aWaitingList) : Requires(j) \cap Provides(i) = {}

\* What a ready item may rely on: it is clear, nothing that runs provides its
\* services, and what it uses is settled or is provided by nothing on the list.
LEMMA ReadyMeans ==
  ASSUME Types, NEW i \in Range(aWaitingList), Ready(i)
  PROVE  /\ i \in Ids /\ pid[i] = "none" /\ Clear(i)
         /\ \A j \in Range(aWaitingList) : pid[j] # "none" => Provides(i) \cap Provides(j) = {}
         /\ anAction = "start" =>
              \A s \in Uses(i) : aStatusDict[s] = "none" =>
                \A j \in Range(aWaitingList) : s \notin Provides(j)
  <1>1. i \in Ids /\ Range(aWaitingList) \subseteq Ids
    BY DEF Types, Range
  <1>2. pid[i] = "none"
    BY DEF Ready, HasPID
  <1>3. \A j \in Range(aWaitingList) : pid[j] # "none" => Provides(i) \cap Provides(j) = {}
    BY DEF Ready, checkForDuplicates, startupItemListCopyMatches, ValueOf, HasPID
  <1>4. ASSUME anAction = "start"
        PROVE  \A s \in Requires(i) : aStatusDict[s] = "success"
    <2>1. IsFiniteSet(Requires(i))
      BY <1>1, DiskFacts, FS_Subset DEF Types, Requires
    <2>2. countUnmetRequirements(Requires(i)) = 0
      BY <1>4 DEF Ready
    <2> QED
      BY <2>1, <2>2, UnmetCount
  <1>5. ASSUME anAction = "stop"
        PROVE  \A j \in Range(aWaitingList) : Requires(j) \cap Provides(i) = {}
    <2>1. countDependantsPresent(Provides(i), "Requires") = 0
      BY <1>5 DEF Ready
    <2>2. \A s \in Provides(i), j \in Range(aWaitingList) : s \notin ValueOf(j, "Requires")
      BY <1>1, <2>1, PresentCount
    <2>3. \A j : ValueOf(j, "Requires") = Requires(j)
      BY DEF ValueOf
    <2> QED
      BY <2>2, <2>3
  <1>6. ASSUME anAction = "start", NEW s \in Uses(i), aStatusDict[s] = "none",
               NEW j \in Range(aWaitingList)
        PROVE  s \notin Provides(j)
    <2>1. Soft(i) \in Nat /\ Soft(i) # 0
      BY <1>1, <1>6, SoftCount
    <2>2. ~pendingAntecedents(Uses(i))
      BY <1>6, <2>1 DEF Ready
    <2> QED
      BY <1>6, <2>2 DEF pendingAntecedents, startupItemListCopyMatches, ValueOf
  <1> QED
    BY <1>1, <1>2, <1>3, <1>4, <1>5, <1>6 DEF Clear

\* Why an item that nothing runs beside is not ready.
LEMMA NotReadyMeans ==
  ASSUME Types, NEW i \in Range(aWaitingList), ~Ready(i),
         \A j \in Range(aWaitingList) : pid[j] = "none"
  PROVE  \/ \E s \in Provides(i) : aStatusDict[s] = "success"
         \/ anAction = "start" /\ \E s \in Requires(i) : aStatusDict[s] # "success"
         \/ \E j \in Range(aWaitingList) :
              \/ disk[j].domain < disk[i].domain /\ Provides(j) \cap Provides(i) # {}
              \/ anAction = "start" /\ Uses(i) \cap Provides(j) # {}
              \/ anAction = "stop" /\ Provides(i) \cap (Uses(j) \cup Requires(j)) # {}
  <1>1. i \in Ids /\ Range(aWaitingList) \subseteq Ids
    BY DEF Types, Range
  <1>2. \A j : /\ ValueOf(j, "Provides") = Provides(j)
               /\ ValueOf(j, "Requires") = Requires(j)
               /\ ValueOf(j, "Uses") = Uses(j)
    BY DEF ValueOf
  <1>3. CASE checkForDuplicates(i)
    <2>1. PICK s \in Provides(i) :
            \/ aStatusDict[s] = "success"
            \/ \E j \in startupItemListCopyMatches(aWaitingList, "Provides", s) :
                 HasPID(j) \/ disk[i].domain > disk[j].domain
      BY <1>3 DEF checkForDuplicates
    <2>2. CASE aStatusDict[s] = "success"
      BY <2>2
    <2>3. CASE \E j \in startupItemListCopyMatches(aWaitingList, "Provides", s) :
                 HasPID(j) \/ disk[i].domain > disk[j].domain
      <3>1. PICK j \in Range(aWaitingList) : s \in Provides(j) /\ disk[i].domain > disk[j].domain
        BY <1>2, <2>3 DEF startupItemListCopyMatches, HasPID
      <3>2. disk[j].domain < disk[i].domain
        BY <1>1, <3>1, DiskFacts DEF Types
      <3> QED
        BY <3>1, <3>2
    <2> QED
      BY <2>1, <2>2, <2>3
  <1>4. CASE anAction = "start" /\ countUnmetRequirements(Requires(i)) # 0
    <2>1. IsFiniteSet(Requires(i))
      BY <1>1, DiskFacts, FS_Subset DEF Types, Requires
    <2> QED
      BY <1>4, <2>1, UnmetCount
  <1>5. CASE anAction = "stop" /\ countDependantsPresent(Provides(i), "Requires") # 0
    <2>1. PICK s \in Provides(i), j \in Range(aWaitingList) : s \in ValueOf(j, "Requires")
      BY <1>1, <1>5, PresentCount
    <2> QED
      BY <1>2, <1>5, <2>1
  <1>6. CASE Soft(i) > 0 /\ pendingAntecedents(IF anAction = "start" THEN Uses(i) ELSE Provides(i))
    <2>1. CASE anAction = "start"
      <3>1. \E s \in Uses(i) : \E j \in Range(aWaitingList) : s \in ValueOf(j, "Provides")
        BY <1>6, <2>1 DEF pendingAntecedents, startupItemListCopyMatches
      <3> QED
        BY <1>2, <2>1, <3>1
    <2>2. CASE anAction = "stop"
      <3>1. \E s \in Provides(i) : \E j \in Range(aWaitingList) : s \in ValueOf(j, "Uses")
        BY <1>6, <2>2 DEF pendingAntecedents, startupItemListCopyMatches
      <3> QED
        BY <1>2, <2>2, <3>1
    <2>3. CASE anAction = "restart"
      BY <1>6, <2>3 DEF Soft
    <2> QED
      BY <2>1, <2>2, <2>3 DEF Types
  <1>7. ~HasPID(i)
    BY DEF HasPID
  <1> QED
    BY <1>3, <1>4, <1>5, <1>6, <1>7 DEF Ready

-----------------------------------------------------------------------------
(* The steps.                                                              *)

\* What is said of the items is the same before and after a step, but that more
\* of them may be there to be read and the shutdown may see less
SameDisk ==
  /\ Ids' = Ids /\ Services' = Services
  /\ \A i : /\ Provides(i)' = Provides(i) /\ Requires(i)' = Requires(i) /\ Uses(i)' = Uses(i)
  /\ Range(CommandList) \subseteq Range(CommandList')
  /\ \A i : Seen(i)' => Seen(i)

\* The plists do not change while the system is up, a change is not undone, and
\* after the shutdown nothing follows.
LEMMA DiskStays ==
  ASSUME disk \in Disks, disk' = disk, late \subseteq late',
         booted \in {"stopping", "down"} => booted' \in {"stopping", "down"}
  PROVE  SameDisk
  <1>1. Ids' = Ids /\ \A i : Provides(i)' = Provides(i) /\ Requires(i)' = Requires(i) /\ Uses(i)' = Uses(i)
    BY DEF Ids, Provides, Requires, Uses
  <1>2. Services' = Services
    BY <1>1 DEF Services, Ids
  <1>3. Range(CommandList) \subseteq Range(CommandList')
    <2> DEFINE all == [i \in Ids |-> i]
               C == {i \in Ids : Readable(i)'}
    <2>1. PICK n \in Nat : Ids = 1..n
      BY DiskFacts
    <2>2. all \in Seq(Ids) /\ Range(all) = Ids
      BY <2>1 DEF Range
    <2>3. CommandList' = Sublist(all, C)
      <3>1. C = {i \in Ids : /\ OnDisk(i)' /\ disk[i].state # "disabled"
                             /\ StartupItemSecurityCheck(i, FALSE)' /\ StartupItemValidate(i)'}
        BY DEF Readable, StartupItemSecurityCheck
      <3> QED
        BY <1>1, <3>1 DEF CommandList, StartupItemListCreateWithMask
    <2>4. Range(CommandList') = Ids \cap C
      <3> HIDE DEF all, C
      <3> QED
        BY <2>2, <2>3, SublistRange
    <2>5. \A i : Readable(i) => Readable(i)'
      BY DEF Readable, OnDisk, StartupItemValidate
    <2> QED
      BY <2>4, <2>5, ListedIds
  <1>4. \A i : Seen(i)' => Seen(i)
    BY DEF Seen
  <1> QED
    BY <1>1, <1>2, <1>3, <1>4 DEF SameDisk

\* The running items are finitely many.
LEMMA RunningFinite ==
  ASSUME Types
  PROVE  IsFiniteSet(Running) /\ Cardinality(Running) \in 0..NItems
  <1>1. IsFiniteSet(Ids) /\ Cardinality(Ids) \in 0..NItems /\ NItems \in Nat
    BY DiskFacts, DisksAssumption DEF Types
  <1>2. IsFiniteSet(Running) /\ Cardinality(Running) <= Cardinality(Ids)
    BY <1>1, FS_Subset DEF Running
  <1> QED
    BY <1>1, <1>2, FS_CardinalityType

\* An item leaves the list: it could not be run, or its script was collected.
LEMMA ItemLeaves ==
  ASSUME IInv, NEW i \in Range(aWaitingList), Clear(i), phase = "loop",
         NEW v \in {"none", "minus1", "reaped"}, NEW won \in BOOLEAN, NEW done \in BOOLEAN,
         anAction = "start" => won = done,
         UNCHANGED <<disk, phase, anAction, commands, booted, late>>,
         pid' = [pid EXCEPT ![i] = v],
         aStatusDict' = StartupItemExit(aStatusDict, i, won),
         aWaitingList' = RemoveItemFromWaitingList(i),
         aFailedList' \in {aFailedList, Append(aFailedList, i)},
         up' = Effect(i, done),
         aRunningCount' = Cardinality(Running \ {i}),
         tried' \in {tried, tried \cup {i}}
  PROVE  IInv'
  <1> USE DEF IInv
  <1>1. SameDisk
    BY DiskStays DEF Types
  <1>2. i \in Ids /\ Range(aWaitingList) \subseteq Ids
    BY DEF Types, Range
  <1>3. aWaitingList' \in Seq(Ids) /\ Range(aWaitingList') = Range(aWaitingList) \ {i}
    <2>1. aWaitingList \in Seq(Ids)
      BY DEF Types
    <2> QED
      BY <1>2, <2>1, SublistRange DEF RemoveItemFromWaitingList
  <1>4. /\ pid' \in [Ids -> Lasting \cup {"none", "minus1", "reaped"}]
        /\ pid'[i] \notin Lasting
        /\ \A k \in Ids \ {i} : pid'[k] = pid[k]
    BY <1>2 DEF Types, Lasting
  <1>5. /\ aStatusDict' \in [Services -> {"none", "success", "failure"}]
        /\ \A s \in Services :
             /\ aStatusDict[s] # "none" => aStatusDict'[s] = aStatusDict[s]
             /\ aStatusDict'[s] = "success" /\ aStatusDict[s] # "success" => s \in Provides(i) /\ won
    BY DEF Types, StartupItemExit
  <1>6. Running' = Running \ {i} /\ i \notin Running'
    BY <1>1, <1>4 DEF Running, SameDisk
  <1>7. /\ anAction = "start" => up' = IF done THEN up \cup {i} ELSE up
        /\ anAction = "stop" => up' = up \ {i}
        /\ anAction = "restart" => up' = up
    BY DEF Effect
  <1>8. up \subseteq Ids /\ Running \subseteq Ids
    BY ListedIds DEF Types, Known, Running
  <1>9. Types'
    <2>1. aFailedList' \in Seq(Ids)
      <3>1. aFailedList \in Seq(Ids)
        BY DEF Types
      <3>2. Append(aFailedList, i) \in Seq(Ids)
        BY ONLY <1>2, <3>1
      <3> QED
        BY <3>1, <3>2
    <2> QED
      BY <1>1, <1>2, <1>3, <1>4, <1>5, <2>1 DEF Types, SameDisk
  <1>10. Known'
    <2>1. up' \subseteq up \cup {i}
      BY <1>7 DEF Types
    <2> QED
      BY <1>1, <1>3, <2>1 DEF Known, SameDisk
  <1>11. Waiting'
    BY <1>2, <1>3, <1>4 DEF Waiting
  <1>12. Accounts'
    BY <1>3, <1>6 DEF Accounts, Running
  <1>13. Over' /\ LeftBehind'
    BY DEF Over, LeftBehind
  <1>14. OneProvider'
    BY <1>1, <1>4 DEF OneProvider, SameDisk
  <1>15. Started'
    <2> SUFFICES ASSUME anAction = "start"
                 PROVE  /\ \A s \in Services : aStatusDict'[s] = "success" => \E j \in up' : s \in Provides(j)
                        /\ \A k \in Running' : \A s \in Requires(k) : aStatusDict'[s] = "success"
      BY <1>1 DEF Started, SameDisk
    <2>1. ASSUME NEW s \in Services, aStatusDict'[s] = "success"
          PROVE  \E j \in up' : s \in Provides(j)
      BY <1>5, <1>7, <2>1 DEF Started
    <2>2. ASSUME NEW k \in Running', NEW s \in Requires(k)
          PROVE  aStatusDict'[s] = "success"
      <3>1. s \in Services
        BY <1>6, <1>8, DiskFacts DEF Types
      <3> QED
        BY <1>5, <1>6, <3>1 DEF Started
    <2> QED
      BY <2>1, <2>2
  <1>16. Stopping'
    BY <1>1, <1>3, <1>6, <1>7 DEF Stopping, SameDisk
  <1>17. UsesFirst'
    BY <1>1, <1>3, <1>4, <1>5 DEF UsesFirst, SameDisk
  <1>18. RequirementsUp'
    <2> SUFFICES ASSUME NEW k \in up', Seen(k), NEW s \in Requires(k)
                 PROVE  \E j \in up' : s \in Provides(j)
      BY <1>1 DEF RequirementsUp, SameDisk
    <2>1. CASE k \in up
      <3>1. PICK j \in up : s \in Provides(j)
        BY <2>1 DEF RequirementsUp
      <3>2. CASE j \in up'
        BY <3>1, <3>2
      <3>3. CASE j \notin up'
        <4>1. anAction = "stop" /\ j = i
          BY <1>7, <3>3 DEF Types
        <4> QED
          BY <2>1, <3>1, <4>1 DEF Stopping, Clear
      <3> QED
        BY <3>2, <3>3
    <2>2. CASE k \notin up
      <3>1. anAction = "start" /\ k = i /\ up \subseteq up'
        BY <1>7, <2>2 DEF Types
      <3>2. s \in Services
        BY <1>2, <3>1, DiskFacts DEF Types
      <3> QED
        BY <3>1, <3>2 DEF Started, Clear
    <2> QED
      BY <2>1, <2>2
  <1> QED
    BY <1>9, <1>10, <1>11, <1>12, <1>13, <1>14, <1>15, <1>16, <1>17, <1>18

\* A script is started.
LEMMA ItemStarts ==
  ASSUME IInv, NEW i \in Range(aWaitingList), Ready(i), phase = "loop",
         UNCHANGED <<disk, phase, anAction, commands, booted, late>>,
         MonitorStartupItem(i), tried' = tried \cup {i}
  PROVE  IInv'
  <1> USE DEF IInv
  <1>1. SameDisk
    BY DiskStays DEF Types
  <1>2. /\ i \in Ids /\ pid[i] = "none" /\ Clear(i)
        /\ \A j \in Range(aWaitingList) : pid[j] # "none" => Provides(i) \cap Provides(j) = {}
        /\ anAction = "start" =>
             \A s \in Uses(i) : aStatusDict[s] = "none" =>
               \A j \in Range(aWaitingList) : s \notin Provides(j)
    BY ReadyMeans
  <1>3. UNCHANGED <<aStatusDict, aFailedList, aWaitingList, up>>
    BY DEF MonitorStartupItem
  <1>4. /\ pid' \in [Ids -> Lasting \cup {"none", "minus1", "reaped"}]
        /\ pid'[i] = "live" /\ "live" \in Lasting
        /\ \A k \in Ids \ {i} : pid'[k] = pid[k]
    BY <1>2 DEF Types, Lasting, MonitorStartupItem
  <1>5. Running' = Running \cup {i} /\ i \notin Running
    BY <1>1, <1>2, <1>4 DEF Running, SameDisk, Lasting
  <1>6. Range(aWaitingList) \subseteq Ids /\ Running \subseteq Range(aWaitingList)
    BY DEF Types, Range, Accounts, Running
  <1>7. Types' /\ Known'
    BY <1>1, <1>2, <1>3, <1>4 DEF Types, Known, SameDisk
  <1>8. Waiting'
    BY <1>2, <1>3, <1>4, <1>6 DEF Waiting
  <1>9. Accounts'
    <2>1. aRunningCount' = Cardinality(Running) + 1
      BY DEF MonitorStartupItem, Accounts, Running
    <2>2. Cardinality(Running \cup {i}) = Cardinality(Running) + 1
      BY <1>5, RunningFinite, FS_AddElement
    <2> QED
      BY <1>3, <1>5, <1>6, <2>1, <2>2 DEF Accounts, Running
  <1>10. Over' /\ LeftBehind'
    BY DEF Over, LeftBehind
  <1>11. OneProvider'
    <2> SUFFICES ASSUME NEW j \in Ids, NEW k \in Ids, j # k, {pid'[j], pid'[k]} \subseteq Lasting
                 PROVE  Provides(j) \cap Provides(k) = {}
      BY <1>1 DEF OneProvider, SameDisk
    <2>1. CASE j # i /\ k # i
      BY <1>4, <2>1 DEF OneProvider
    <2>2. \A m \in Ids \ {i} : pid'[m] \in Lasting => Provides(m) \cap Provides(i) = {}
      BY <1>2, <1>4, <1>6 DEF Running, Lasting
    <2> QED
      BY <2>1, <2>2
  <1>12. Started'
    BY <1>1, <1>2, <1>3, <1>5 DEF Started, SameDisk, Clear
  <1>13. Stopping'
    BY <1>1, <1>2, <1>3, <1>5 DEF Stopping, SameDisk, Clear
  <1>14. UsesFirst'
    BY <1>1, <1>2, <1>3, <1>4 DEF UsesFirst, SameDisk
  <1>15. RequirementsUp'
    BY <1>1, <1>3 DEF RequirementsUp, SameDisk
  <1> QED
    BY <1>7, <1>8, <1>9, <1>10, <1>11, <1>12, <1>13, <1>14, <1>15

\* One turn of the loop.
LEMMA RunNextKeeps ==
  ASSUME IInv, RunNext
  PROVE  IInv'
  <1> DEFINE i == StartupItemListGetNext
  <1>1. /\ i \in Range(aWaitingList) /\ Ready(i) /\ phase = "loop"
        /\ tried' = tried \cup {i}
        /\ UNCHANGED <<disk, phase, anAction, commands, booted, late>>
    BY GetNext DEF IInv, RunNext
  <1>2. /\ i \in Ids /\ pid[i] = "none" /\ Clear(i)
    BY <1>1, ReadyMeans DEF IInv
  <1>3. /\ aRunningCount = Cardinality(Running) /\ Running \ {i} = Running
        /\ Cardinality(Running) \in Nat /\ anAction \in {"start", "stop", "restart"}
    BY <1>2, RunningFinite DEF IInv, Accounts, Running, Lasting, Types
  <1>4. \/ StartupItemRun_stub(i)
        \/ StartupItemRun_noexec(i)
        \/ StartupItemRun_forkfails(i)
        \/ MonitorStartupItem(i)
        \/ \E success \in BOOLEAN : MonitorStartupItem_bad(i, success)
    BY DEF RunNext
  <1> HIDE DEF i
  <1>5. CASE StartupItemRun_stub(i)
    <2>1. anAction = "stop" /\ NotRun(i, "minus1", TRUE)
      BY <1>5 DEF StartupItemRun_stub, StubStop
    <2> QED
      BY <1>1, <1>2, <1>3, <2>1, ItemLeaves DEF NotRun
  <1>6. CASE StartupItemRun_noexec(i)
    BY <1>1, <1>2, <1>3, <1>6, ItemLeaves DEF NotRun, StartupItemRun_noexec
  <1>7. CASE StartupItemRun_forkfails(i)
    BY <1>1, <1>2, <1>3, <1>7, ItemLeaves DEF NotRun, StartupItemRun_forkfails
  <1>8. CASE MonitorStartupItem(i)
    BY <1>1, <1>8, ItemStarts
  <1>9. ASSUME NEW success \in BOOLEAN, MonitorStartupItem_bad(i, success)
        PROVE  IInv'
    <2>1. startupItemTerminated(i, success, aRunningCount + 1)
      BY <1>9 DEF MonitorStartupItem_bad
    <2>2. aRunningCount' = Cardinality(Running \ {i})
      <3>1. aRunningCount \in Nat
        BY <1>3
      <3>2. aRunningCount' = aRunningCount
        BY <2>1, <3>1 DEF startupItemTerminated
      <3> QED
        BY <1>3, <3>2
    <2>3. aFailedList' \in {aFailedList, Append(aFailedList, i)}
      BY <2>1 DEF startupItemTerminated
    <2> QED
      BY <1>1, <1>2, <2>1, <2>2, <2>3, ItemLeaves DEF startupItemTerminated
  <1> QED
    BY <1>4, <1>5, <1>6, <1>7, <1>8, <1>9

\* The end of a script is collected.
LEMMA TerminatedKeeps ==
  ASSUME IInv, NEW i \in Ids, Terminated(i)
  PROVE  IInv'
  <1> DEFINE success == pid[i] = "ok"
  <1>1. i \in Running /\ i \in Range(aWaitingList)
    BY DEF IInv, Terminated, Running, Lasting, Accounts
  <1>2. Clear(i)
    BY <1>1 DEF IInv, Clear, Started, Stopping
  <1>3. startupItemTerminated(i, success, aRunningCount)
    BY DEF Terminated
  <1>4. aRunningCount' = Cardinality(Running \ {i})
    <2>1. Cardinality(Running \ {i}) = Cardinality(Running) - 1
      BY <1>1, RunningFinite, FS_RemoveElement DEF IInv
    <2>2. aRunningCount = Cardinality(Running)
      BY DEF IInv, Accounts, Running
    <2>3. aRunningCount' = aRunningCount - 1
      BY <1>3 DEF startupItemTerminated
    <2> QED
      BY <2>1, <2>2, <2>3
  <1>5. aFailedList' \in {aFailedList, Append(aFailedList, i)} /\ success \in BOOLEAN
    BY <1>3 DEF startupItemTerminated
  <1>6. phase = "loop" /\ UNCHANGED <<disk, phase, anAction, commands, booted, late>> /\ tried' = tried
    BY DEF Terminated
  <1> HIDE DEF success
  <1> QED
    BY <1>1, <1>2, <1>3, <1>4, <1>5, <1>6, ItemLeaves DEF startupItemTerminated

\* A script ends.
LEMMA ScriptEndsKeeps ==
  ASSUME IInv, NEW i \in Ids, ScriptEnds(i)
  PROVE  IInv'
  <1> USE DEF IInv
  <1>1. SameDisk
    BY DiskStays DEF ScriptEnds, Types
  <1>2. /\ pid' \in [Ids -> Lasting \cup {"none", "minus1", "reaped"}]
        /\ \A k \in Ids : pid'[k] \in Lasting <=> pid[k] \in Lasting
        /\ \A k \in Ids : pid'[k] = "none" <=> pid[k] = "none"
    BY DEF ScriptEnds, Types, Lasting
  <1>3. UNCHANGED <<disk, phase, anAction, aWaitingList, aStatusDict, aFailedList, aRunningCount,
                    up, tried, commands, booted, late>>
    BY DEF ScriptEnds
  <1>4. Running' = Running /\ Range(aWaitingList) \subseteq Ids
    BY <1>1, <1>2 DEF Running, SameDisk, Types, Range
  <1>5. Types' /\ Known'
    BY <1>1, <1>2, <1>3 DEF Types, Known, SameDisk
  <1>6. Waiting'
    BY <1>2, <1>3, <1>4 DEF Waiting
  <1>7. Accounts' /\ Over'
    BY <1>3, <1>4 DEF Accounts, Over, Running
  <1>8. OneProvider'
    BY <1>1, <1>2 DEF OneProvider, SameDisk
  <1>9. Started' /\ Stopping'
    BY <1>1, <1>3, <1>4 DEF Started, Stopping, SameDisk
  <1>10. UsesFirst'
    BY <1>1, <1>2, <1>3 DEF UsesFirst, SameDisk
  <1>11. RequirementsUp'
    BY <1>1, <1>3 DEF RequirementsUp, SameDisk
  <1>12. LeftBehind'
    BY <1>1, <1>3 DEF LeftBehind, SameDisk
  <1> QED
    BY <1>5, <1>6, <1>7, <1>8, <1>9, <1>10, <1>11, <1>12

\* The run ends: what is left on the list is not ready.
LEMMA FinishKeeps ==
  ASSUME IInv, Finish
  PROVE  IInv'
  <1> USE DEF IInv
  <1>1. /\ UNCHANGED <<disk, context, up, commands, late>> /\ StartupItemListGetNext = NoItem
        /\ aRunningCount = 0 /\ phase' \in {"idle", "off"} /\ booted' \in {"no", "up", "stopping", "down"}
        /\ booted \in {"stopping", "down"} => booted' \in {"stopping", "down"}
    BY DEF Finish, Types
  <1>2. UNCHANGED <<anAction, aWaitingList, aStatusDict, aFailedList, aRunningCount, pid, tried>>
    BY <1>1 DEF context
  <1>3. SameDisk
    BY <1>1, DiskStays DEF Types
  <1>4. Running = {}
    BY <1>1, RunningFinite, FS_EmptySet DEF Accounts, Running
  <1>5. \A j \in Range(aWaitingList) : pid[j] = "none"
    BY <1>4 DEF Waiting, Running, Types, Range
  <1>6. \A i \in Range(aWaitingList) : ~Ready(i)
    BY <1>1, GetNext
  <1>7. LeftBehind'
    BY <1>1, <1>2, <1>3, <1>5, <1>6, NotReadyMeans DEF LeftBehind, SameDisk
  <1>8. Types' /\ Known'
    BY <1>1, <1>2, <1>3 DEF Types, Known, SameDisk
  <1>9. Waiting' /\ Accounts' /\ Over'
    BY <1>1, <1>2, <1>3 DEF Waiting, Accounts, Over, SameDisk
  <1>10. OneProvider' /\ UsesFirst' /\ RequirementsUp'
    BY <1>1, <1>2, <1>3 DEF OneProvider, UsesFirst, RequirementsUp, SameDisk
  <1>11. Started' /\ Stopping'
    BY <1>1, <1>2, <1>3 DEF Started, Stopping, Running, SameDisk
  <1> QED
    BY <1>7, <1>8, <1>9, <1>10, <1>11

\* A new run over a list that, if it is to be stopped, has all that requires its items.
LEMMA NewRun ==
  ASSUME IInv, NEW a \in {"start", "stop", "restart"}, NEW list \in Seq(Ids),
         Range(list) \subseteq Range(CommandList),
         a = "stop" => \A j \in up : Seen(j)' =>
                         \/ j \in Range(list)
                         \/ \A k \in Range(list) : Requires(j) \cap Provides(k) = {},
         NewContext(a, list), UNCHANGED <<disk, up, late>>, commands' \in 0..MaxCommands,
         booted' \in {"no", "up", "stopping", "down"},
         booted \in {"stopping", "down"} => booted' \in {"stopping", "down"}
  PROVE  IInv'
  <1>1. SameDisk
    BY DiskStays DEF IInv, Types
  <1>2. /\ anAction' = a /\ aWaitingList' = list /\ aStatusDict' = [s \in Services |-> "none"]
        /\ aFailedList' = <<>> /\ aRunningCount' = 0 /\ pid' = [i \in Ids |-> "none"]
        /\ tried' = {} /\ phase' = "loop"
    BY DEF NewContext
  <1>3. Running' = {}
    BY <1>1, <1>2 DEF Running, SameDisk, Lasting
  <1>4. Types'
    BY <1>1, <1>2 DEF IInv, Types, SameDisk
  <1>5. Known'
    BY <1>1, <1>2 DEF IInv, Known, SameDisk
  <1>6. Waiting'
    BY <1>2 DEF Waiting, Range
  <1>7. Accounts'
    BY <1>2, <1>3, FS_EmptySet DEF Accounts, Running
  <1>8. Over' /\ LeftBehind'
    BY <1>2 DEF Over, LeftBehind
  <1>9. OneProvider'
    BY <1>1, <1>2 DEF OneProvider, SameDisk, Lasting
  <1>10. Started'
    BY <1>1, <1>2, <1>3 DEF Started, SameDisk
  <1>11. Stopping'
    BY <1>1, <1>2, <1>3 DEF Stopping, SameDisk
  <1>12. UsesFirst'
    BY <1>1, <1>2 DEF UsesFirst, SameDisk, Lasting
  <1>13. RequirementsUp'
    BY <1>1 DEF IInv, RequirementsUp, SameDisk
  <1> QED
    BY <1>4, <1>5, <1>6, <1>7, <1>8, <1>9, <1>10, <1>11, <1>12, <1>13 DEF IInv

\* The items a command works on were read, and with an item to be stopped come
\* those that require it.
LEMMA DependentsList ==
  ASSUME disk \in Disks, NEW s, NEW a \in {"start", "stop", "restart"},
         NEW q \in StartupItemListCreateDependentsList(CommandList, s, a)
  PROVE  /\ q \in Seq(Ids) /\ Range(q) \subseteq Range(CommandList)
         /\ a = "stop" => \A j \in Range(CommandList), k \in Range(q) :
                            Requires(j) \cap Provides(k) # {} => j \in Range(q)
  <1> DEFINE p == StartupItemListGetProvider(CommandList, s)
             deps == appendDependents(CommandList, p, a)
  <1>1. q \in Bijection(1..Cardinality(deps), deps)
    BY DEF StartupItemListCreateDependentsList
  <1>2. deps \subseteq Range(CommandList) /\ Range(CommandList) \subseteq Ids /\ IsFiniteSet(Ids)
    BY ListedIds, DiskFacts DEF appendDependents
  <1>3. Cardinality(deps) \in Nat
    <2>1. deps \in SUBSET Ids
      BY <1>2
    <2>2. IsFiniteSet(deps)
      BY ONLY <1>2, <2>1, FS_Subset
    <2> QED
      BY ONLY <2>2, FS_CardinalityType
  <1>4. a = "stop" => \A j \in Range(CommandList), k \in deps :
                        Requires(j) \cap Provides(k) # {} => j \in deps
    BY DEF appendDependents
  <1> HIDE DEF deps
  <1>5. q \in [1..Cardinality(deps) -> deps] /\ Range(q) = deps
    BY <1>1 DEF Bijection, Surjection, Injection, Range
  <1>6. q \in Seq(Ids)
    BY <1>2, <1>3, <1>5
  <1> QED
    BY <1>2, <1>4, <1>5, <1>6

\* A command.
LEMMA CommandKeeps ==
  ASSUME IInv, NEW a \in {"start", "stop", "restart"}, NEW s, Command(a, s)
  PROVE  IInv'
  <1>1. PICK q \in StartupItemListCreateDependentsList(CommandList, s, a) : NewContext(a, q)
    BY DEF Command
  <1>2. disk \in Disks /\ up \subseteq Range(CommandList)
    BY DEF IInv, Types, Known
  <1>3. /\ q \in Seq(Ids) /\ Range(q) \subseteq Range(CommandList)
        /\ a = "stop" => \A j \in Range(CommandList), k \in Range(q) :
                           Requires(j) \cap Provides(k) # {} => j \in Range(q)
    BY <1>2, DependentsList
  <1>4. commands' \in 0..MaxCommands
    BY DisksAssumption DEF Command, IInv, Types
  <1>5. UNCHANGED <<disk, up, booted, late>> /\ booted' \in {"no", "up", "stopping", "down"}
    BY DEF Command, IInv, Types
  <1> QED
    BY <1>1, <1>2, <1>3, <1>4, <1>5, NewRun

\* The shutdown.
LEMMA ShutdownKeeps ==
  ASSUME IInv, Shutdown
  PROVE  IInv'
  <1>1. /\ BootList \in Seq(Ids) /\ up \subseteq Range(CommandList)
        /\ Range(BootList) = Range(CommandList) \ late
    BY ListedIds DEF IInv, Types, Known
  <1>2. NewContext("stop", BootList) /\ UNCHANGED <<disk, up, late>>
    BY DEF Shutdown
  <1>3. booted' = "stopping" /\ commands' \in 0..MaxCommands
    BY DEF Shutdown, IInv, Types
  <1>4. \A j \in up : Seen(j)' => j \in Range(BootList)
    BY <1>1, <1>2, <1>3 DEF Seen
  <1> QED
    BY <1>1, <1>2, <1>3, <1>4, NewRun

\* A step that changes at most the number of commands and what is as old as the boot.
LEMMA IdleKeeps ==
  ASSUME IInv, UNCHANGED <<disk, phase, context, up, booted>>, commands' \in 0..MaxCommands,
         late \subseteq late', late' \subseteq Ids
  PROVE  IInv'
  <1>1. SameDisk
    BY DiskStays DEF IInv, Types
  <1>2. UNCHANGED <<anAction, aWaitingList, aStatusDict, aFailedList, aRunningCount, pid, tried>>
    BY DEF context
  <1>3. Types' /\ Known'
    BY <1>1, <1>2 DEF IInv, Types, Known, SameDisk
  <1>4. Waiting' /\ Accounts' /\ Over'
    BY <1>1, <1>2 DEF IInv, Waiting, Accounts, Over, SameDisk
  <1>5. OneProvider' /\ UsesFirst' /\ RequirementsUp'
    BY <1>1, <1>2 DEF IInv, OneProvider, UsesFirst, RequirementsUp, SameDisk
  <1>6. Started' /\ Stopping'
    BY <1>1, <1>2 DEF IInv, Started, Stopping, Running, SameDisk
  <1>7. LeftBehind'
    BY <1>1, <1>2 DEF IInv, LeftBehind, SameDisk
  <1> QED
    BY <1>3, <1>4, <1>5, <1>6, <1>7 DEF IInv

-----------------------------------------------------------------------------
(* Theorems.                                                               *)

\* IInv holds when the machine boots.
LEMMA InitSound ==
  ASSUME Init
  PROVE  IInv
  <1>1. /\ BootList \in Seq(Ids) /\ disk \in Disks /\ aWaitingList = BootList
        /\ Range(BootList) \subseteq Range(CommandList)
    BY ListedIds DEF Init
  <1>2. Running = {}
    BY DEF Init, Running, Lasting
  <1>3. Types
    BY <1>1, DisksAssumption DEF Init, Types
  <1>4. Known
    BY <1>1 DEF Init, Known
  <1>5. Waiting
    BY <1>1 DEF Init, Waiting, Range
  <1>6. Accounts
    BY <1>2, FS_EmptySet DEF Init, Accounts, Running
  <1>7. Over /\ LeftBehind /\ OneProvider /\ UsesFirst
    BY DEF Init, Over, LeftBehind, OneProvider, UsesFirst, Lasting
  <1>8. Started /\ Stopping /\ RequirementsUp
    BY <1>2 DEF Init, Started, Stopping, RequirementsUp
  <1> QED
    BY <1>3, <1>4, <1>5, <1>6, <1>7, <1>8 DEF IInv

\* Every step of SystemStarter, of its scripts and of the system keeps IInv.
LEMMA StepSound ==
  ASSUME IInv, [Next]_vars
  PROVE  IInv'
  <1>1. CASE RunNext
    BY <1>1, RunNextKeeps
  <1>2. ASSUME NEW i \in Ids, ScriptEnds(i)
        PROVE  IInv'
    BY <1>2, ScriptEndsKeeps
  <1>3. ASSUME NEW i \in Ids, Terminated(i)
        PROVE  IInv'
    BY <1>3, TerminatedKeeps
  <1>4. CASE Finish
    BY <1>4, FinishKeeps
  <1>5. ASSUME NEW a \in {"start", "stop", "restart"}, NEW s \in Services, Command(a, s)
        PROVE  IInv'
    BY <1>5, CommandKeeps
  <1>6. ASSUME NEW a \in {"start", "stop", "restart"}, NEW s \in Services, CommandUnknown(a, s)
        PROVE  IInv'
    <2>1. /\ UNCHANGED <<disk, phase, context, up, booted, late>> /\ commands' \in 0..MaxCommands
          /\ late' \subseteq Ids
      BY <1>6, DisksAssumption DEF CommandUnknown, IInv, Types
    <2> QED
      BY <2>1, IdleKeeps
  <1>7. CASE Shutdown
    BY <1>7, ShutdownKeeps
  <1>8. CASE UNCHANGED vars
    <2>1. /\ UNCHANGED <<disk, phase, context, up, booted, late>> /\ commands' \in 0..MaxCommands
          /\ late' \subseteq Ids
      BY <1>8 DEF vars, IInv, Types
    <2> QED
      BY <2>1, IdleKeeps
  <1>9. ASSUME NEW i \in Ids, Change(i)
        PROVE  IInv'
    <2>1. /\ UNCHANGED <<disk, phase, context, up, booted>> /\ commands' \in 0..MaxCommands
          /\ late \subseteq late' /\ late' \subseteq Ids
      BY <1>9 DEF Change, IInv, Types
    <2> QED
      BY <2>1, IdleKeeps
  <1> QED
    BY <1>1, <1>2, <1>3, <1>4, <1>5, <1>6, <1>7, <1>8, <1>9 DEF Next

\* IInv is an invariant.
LEMMA AlwaysSound == Spec => []IInv
  <1>1. Init => IInv
    BY InitSound
  <1>2. IInv /\ [Next]_vars => IInv'
    BY StepSound
  <1> QED
    BY <1>1, <1>2, PTL DEF Spec

\* The running count is the number of scripts to be collected, all of them on the
\* waiting list, and no two run for one service, whatever is on the disk.
THEOREM AlwaysCounted == Spec => []ScriptsCounted
  <1>1. ASSUME IInv
        PROVE  ScriptsCounted
    <2>1. aRunningCount = Cardinality(Running) /\ Cardinality(Running) \in 0..NItems
      BY <1>1, RunningFinite DEF IInv, Accounts, Running
    <2>2. aRunningCount \in 0..NItems
      BY <2>1
    <2>3. up \subseteq Ids /\ Range(aWaitingList) \subseteq Ids /\ Range(aFailedList) \subseteq Ids
      BY <1>1, ListedIds DEF IInv, Types, Known, Range
    <2>4. TypeOK
      BY <1>1, <2>2, <2>3 DEF IInv, Types, TypeOK
    <2> QED
      BY <1>1, <2>4 DEF IInv, ScriptsCounted
  <1> QED
    BY <1>1, AlwaysSound, PTL

\* What is up has its requirements up, nothing is stopped under what requires it,
\* and an item waits for the providers of what it uses, in whatever order boot,
\* commands, changes to the items and shutdown come and whichever scripts fail.
\* From the shutdown's beginning the first two are said of the items that have
\* not changed since the boot, the ones it has read; before, of all that are up.
THEOREM OrderKept == Spec => []DependencyOrder
  <1>1. ASSUME IInv
        PROVE  DependencyOrder
    <2>1. OrderlyStop
      <3> SUFFICES ASSUME anAction = "stop", NEW i \in Ids, NEW j \in up, pid[i] \in Lasting, j # i,
                          Seen(j)
                   PROVE  Requires(j) \cap Provides(i) = {}
        BY DEF OrderlyStop
      <3>1. i \in Running /\ i \in Range(aWaitingList)
        BY <1>1 DEF IInv, Accounts, Running
      <3> QED
        BY <1>1, <3>1 DEF IInv, Stopping
    <2> QED
      BY <1>1, <2>1 DEF IInv, DependencyOrder
  <1> QED
    BY <1>1, AlwaysSound, PTL

\* A run ends only when each item left on its list is blocked by the final results
\* or by another one that was left.
THEOREM NothingReadyLeft == Spec => []LeftBehind
  <1>1. IInv => LeftBehind
    BY DEF IInv
  <1> QED
    BY <1>1, AlwaysSound, PTL

\* No script is started twice in a run, even if fork failed or the script did.
THEOREM StartedOnce == Spec => RunOnce
  <1> DEFINE Once == \A i \in Ids : pid[i] # "live" /\ pid'[i] = "live" => i \notin tried
  <1>1. ASSUME IInv, [Next]_vars
        PROVE  [Once]_vars
    <2> SUFFICES ASSUME NEW i \in Ids, pid[i] # "live", pid'[i] = "live"
                 PROVE  i \notin tried
      OBVIOUS
    <2>1. CASE RunNext
      <3> DEFINE n == StartupItemListGetNext
      <3>1. n \in Range(aWaitingList) /\ Ready(n)
        BY <1>1, <2>1, GetNext DEF IInv, RunNext
      <3>2. n \notin tried
        BY <1>1, <3>1 DEF IInv, Waiting, Ready, HasPID
      <3>3. \E v : pid' = [pid EXCEPT ![n] = v]
        BY <2>1 DEF RunNext, StartupItemRun_stub, StartupItemRun_noexec, StartupItemRun_forkfails,
                    MonitorStartupItem, MonitorStartupItem_bad, NotRun, startupItemTerminated
      <3> HIDE DEF n
      <3>4. i = n
        BY <1>1, <3>3 DEF IInv, Types
      <3> QED
        BY <3>2, <3>4
    <2>2. ASSUME NEW k \in Ids, ScriptEnds(k) \/ Terminated(k)
          PROVE  i \notin tried
      BY <1>1, <2>2 DEF IInv, Types, ScriptEnds, Terminated, startupItemTerminated
    <2>3. CASE UNCHANGED pid
      BY <2>3
    <2>4. CASE pid' = [k \in Ids |-> "none"]
      BY <2>4
    <2>5. Finish \/ UNCHANGED vars => UNCHANGED pid
      BY DEF Finish, vars, context
    <2>6. \A a, s : CommandUnknown(a, s) => UNCHANGED pid
      BY DEF CommandUnknown, context
    <2>7. \A a, s : Command(a, s) => pid' = [k \in Ids |-> "none"]
      BY DEF Command, NewContext
    <2>8. Shutdown => pid' = [k \in Ids |-> "none"]
      BY DEF Shutdown, NewContext
    <2>9. \A k : Change(k) => UNCHANGED pid
      BY DEF Change, context
    <2> QED
      BY <1>1, <2>1, <2>2, <2>3, <2>4, <2>5, <2>6, <2>7, <2>8, <2>9 DEF Next
  <1> QED
    BY <1>1, AlwaysSound, PTL DEF Spec, RunOnce
=============================================================================
