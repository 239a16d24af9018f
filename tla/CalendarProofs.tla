--------------------------- MODULE CalendarProofs ---------------------------
(***************************************************************************)
(* For every set of jobs and plists, and whatever an interval means as     *)
(* long as it fires later than the time it is set at: the list of          *)
(* calendar intervals is sorted and is that of the jobs, its timer is in   *)
(* time for it, a walk over it uses nothing that was freed, and leaves     *)
(* nothing due behind.                                                     *)
(***************************************************************************)
EXTENDS Calendar, WellFoundedInduction, TLAPS

Modes     == {"none", "idle", "throttled", "running"}
WhensSets == {Whens(p[j]) : p \in Plists, j \in Jobs} \cup {<<>>}

JobRec ==
  [state : Modes, pending : BOOLEAN, removing : BOOLEAN, ran : BOOLEAN, whens : WhensSets]

Table == [Jobs -> JobRec]

St ==
  [job : Table, list : Seq(Intervals), next : [Intervals -> Time], timer : Time \cup {None},
   stale : BOOLEAN]

Distinct(q)   == \A a, b \in 1..Len(q) : q[a] = q[b] => a = b
Sorted(q, nx) == \A a, b \in 1..Len(q) : a <= b => nx[q[a]] <= nx[q[b]]

\* The timer, while it is armed, is not too late for any interval
OnTime(s) == s.timer # None => \A n \in 1..Len(s.list) : s.timer <= s.next[s.list[n]]

Lined(s) == s \in St /\ Distinct(s.list) /\ Sorted(s.list, s.next)

\* The intervals of the jobs that are loaded
Mine(jo) == {ci \in Intervals : ci[2] \in 1..Len(jo[ci[1]].whens)}

\* A job that does not run is not one that a dispatch would remove, and one
\* that is not loaded has no intervals
JobSound(j, r) ==
  /\ r.state \in {"idle", "throttled"} => ~r.removing /\ ~(j \in Once /\ r.ran)
  /\ r.state = "none" => r.whens = <<>>

JobsSound(jo) == \A j \in Jobs : JobSound(j, jo[j])

\* What the intervals of a job mean, is as CalendarAssumption has it.
LEMMA AllTimely ==
  ASSUME NEW w \in WhensSets
  PROVE  Timely(w)
  <1>1. CASE w = <<>>
    <2>1. Len(w) = 0 /\ DOMAIN w = {}
      BY <1>1
    <2> QED
      BY <2>1, CalendarAssumption DEF Timely
  <1>2. CASE w # <<>>
    <2>1. PICK p \in Plists, j \in Jobs : w = Whens(p[j])
      BY <1>2 DEF WhensSets
    <2>2. Timely(Whens(p[j]))
      BY CalendarAssumption, Zenon
    <2> QED
      BY <2>1, <2>2, Zenon
  <1> QED
    BY <1>1, <1>2

-----------------------------------------------------------------------------
(* Lists.                                                                  *)

\* A list is a sequence, and its members are what it has at its places.
LEMMA InRange ==
  ASSUME NEW S, NEW q \in Seq(S)
  PROVE  /\ \A x : x \in Range(q) <=> \E n \in 1..Len(q) : q[n] = x
         /\ \A n \in 1..Len(q) : q[n] \in S
         /\ Len(q) \in Nat /\ Range(q) \subseteq S
  BY DEF Range

\* What LIST_REMOVE does to the places of a list.
LEMMA Unlinked ==
  ASSUME NEW S, NEW q \in Seq(S), NEW n \in 1..Len(q), Distinct(q)
  PROVE  LET r == LIST_REMOVE(q, q[n])
         IN  r \in Seq(S) /\ Len(r) = Len(q) - 1 /\ \A k \in 1..Len(r) : r[k] = IF k < n THEN q[k] ELSE q[k + 1]
  <1> DEFINE x == q[n]
             m == CHOOSE k \in 1..Len(q) : q[k] = x
             short == [k \in 1..(Len(q) - 1) |-> IF k < m THEN q[k] ELSE q[k + 1]]
  <1>1. x \in Range(q)
    BY InRange
  <1>2. LIST_REMOVE(q, x) = short
    BY <1>1, Zenon DEF LIST_REMOVE
  <1>3. m \in 1..Len(q) /\ q[m] = x
    OBVIOUS
  <1> HIDE DEF m
  <1>4. m = n
    BY <1>3 DEF Distinct
  <1>5. Len(q) \in Nat /\ (\A k \in 1..Len(q) : q[k] \in S) /\ Len(q) - 1 \in Nat
    BY InRange
  <1>6. \A k \in 1..(Len(q) - 1) : k \in 1..Len(q) /\ k + 1 \in 1..Len(q) /\ short[k] \in S
    BY <1>5
  <1>7. short \in Seq(S) /\ Len(short) = Len(q) - 1
    BY <1>5, <1>6
  <1>8. \A k \in 1..Len(short) : short[k] = IF k < n THEN q[k] ELSE q[k + 1]
    BY <1>4, <1>7
  <1> HIDE DEF short
  <1> QED
    BY <1>2, <1>7, <1>8

\* A list that loses one interval loses no other and stays in order.
LEMMA Removed ==
  ASSUME NEW q \in Seq(Intervals), NEW ci \in Intervals, Distinct(q),
         NEW nx \in [Intervals -> Time], Sorted(q, nx)
  PROVE  LET r == LIST_REMOVE(q, ci)
         IN  /\ r \in Seq(Intervals) /\ Distinct(r) /\ Sorted(r, nx)
             /\ \A x : x \in Range(r) <=> x # ci /\ x \in Range(q)
  <1> DEFINE r == LIST_REMOVE(q, ci)
  <1>1. CASE ci \notin Range(q)
    <2>1. r = q
      BY <1>1 DEF LIST_REMOVE
    <2> QED
      BY <1>1, <2>1
  <1>2. CASE ci \in Range(q)
    <2>1. PICK n \in 1..Len(q) : q[n] = ci
      BY <1>2, InRange
    <2>2. /\ r \in Seq(Intervals) /\ Len(r) = Len(q) - 1
          /\ \A k \in 1..Len(r) : r[k] = IF k < n THEN q[k] ELSE q[k + 1]
      BY <2>1, Unlinked
    <2> HIDE DEF r
    <2>3. Len(q) \in Nat
      OBVIOUS
    <2> DEFINE at(k) == IF k < n THEN k ELSE k + 1
    <2>4. \A k \in 1..Len(r) : at(k) \in 1..Len(q) /\ r[k] = q[at(k)] /\ at(k) # n
      BY <2>2, <2>3
    <2>5. \A a, b \in 1..Len(r) : (a <= b => at(a) <= at(b)) /\ (at(a) = at(b) => a = b)
      BY <2>2, <2>3
    <2>6. \A k \in 1..Len(q) : k # n => \E a \in 1..Len(r) : at(a) = k
      <3> SUFFICES ASSUME NEW k \in 1..Len(q), k # n PROVE \E a \in 1..Len(r) : at(a) = k
        OBVIOUS
      <3>1. CASE k < n
        <4>1. k \in 1..Len(r) /\ at(k) = k
          BY <2>2, <2>3, <3>1
        <4> QED
          BY <4>1
      <3>2. CASE k > n
        <4>1. k - 1 \in 1..Len(r) /\ at(k - 1) = k
          BY <2>2, <2>3, <3>2
        <4> QED
          BY <4>1
      <3> QED
        BY <3>1, <3>2
    <2> HIDE DEF at
    <2>7. Distinct(r)
      BY <2>4, <2>5 DEF Distinct
    <2>8. Sorted(r, nx)
      BY <2>4, <2>5 DEF Sorted
    <2>9. ASSUME NEW x PROVE x \in Range(r) <=> x # ci /\ x \in Range(q)
      <3>1. x \in Range(r) <=> \E k \in 1..Len(r) : r[k] = x
        BY <2>2, InRange
      <3>2. x \in Range(q) <=> \E k \in 1..Len(q) : q[k] = x
        BY InRange
      <3>3. ASSUME NEW k \in 1..Len(r), r[k] = x PROVE x # ci /\ x \in Range(q)
        BY <2>1, <2>4, <3>2, <3>3 DEF Distinct
      <3>4. ASSUME x # ci, NEW k \in 1..Len(q), q[k] = x PROVE \E a \in 1..Len(r) : r[a] = x
        <4>1. PICK a \in 1..Len(r) : at(a) = k
          BY <2>1, <2>6, <3>4
        <4> QED
          BY <2>4, <3>4, <4>1
      <3> QED
        BY <3>1, <3>2, <3>3, <3>4
    <2> QED
      BY <2>2, <2>7, <2>8, <2>9 DEF r
  <1> QED
    BY <1>1, <1>2

\* A set of numbers that is not empty has a least one.
LEMMA Least ==
  ASSUME NEW T \in SUBSET Nat, T # {}
  PROVE  \E x \in T : \A y \in T : x <= y
  <1> DEFINE R == OpToRel(<, Nat)
  <1>1. IsWellFoundedOn(R, Nat)
    BY NatLessThanWellFounded, Zenon
  <1>2. \A x, y \in Nat : y < x => <<y, x>> \in R
    BY Zenon DEF OpToRel
  <1> HIDE DEF R
  <1>3. PICK x \in T : \A y \in T : ~(<<y, x>> \in R)
    BY <1>1, WFMin
  <1>4. \A y \in T : ~(y < x)
    BY <1>2, <1>3
  <1> QED
    BY <1>4

\* A set with 0 and the successors of its members has every number.
LEMMA EveryNumber ==
  ASSUME NEW S \in SUBSET Nat, 0 \in S, \A n \in S : n + 1 \in S
  PROVE  S = Nat
  <1> SUFFICES ASSUME Nat \ S # {} PROVE FALSE
    OBVIOUS
  <1>1. PICK x \in Nat \ S : \A y \in Nat \ S : x <= y
    BY Least
  <1>2. x # 0 /\ x - 1 \in Nat /\ (x - 1) + 1 = x /\ ~(x <= x - 1)
    OBVIOUS
  <1>3. x - 1 \in S
    BY <1>1, <1>2
  <1> QED
    BY <1>2, <1>3

\* What LIST_INSERT does to the places of a list.
LEMMA Linked ==
  ASSUME NEW S, NEW q \in Seq(S), NEW n \in 1..(Len(q) + 1), NEW x \in S
  PROVE  LET r == LIST_INSERT(q, n, x)
         IN  /\ r \in Seq(S) /\ Len(r) = Len(q) + 1
             /\ \A k \in 1..Len(r) : r[k] = IF k < n THEN q[k] ELSE IF k = n THEN x ELSE q[k - 1]
  <1> DEFINE r == [k \in 1..(Len(q) + 1) |-> IF k < n THEN q[k] ELSE IF k = n THEN x ELSE q[k - 1]]
  <1>1. LIST_INSERT(q, n, x) = r
    BY Zenon DEF LIST_INSERT
  <1>2. Len(q) \in Nat /\ (\A k \in 1..Len(q) : q[k] \in S) /\ Len(q) + 1 \in Nat
    BY InRange
  <1>3. \A k \in 1..(Len(q) + 1) : /\ k < n => k \in 1..Len(q)
                                   /\ k > n => k - 1 \in 1..Len(q)
    BY <1>2
  <1>4. \A k \in 1..(Len(q) + 1) : r[k] \in S
    BY <1>2, <1>3
  <1>5. r \in Seq(S) /\ Len(r) = Len(q) + 1
    BY <1>2, <1>4
  <1>6. \A k \in 1..Len(r) : r[k] = IF k < n THEN q[k] ELSE IF k = n THEN x ELSE q[k - 1]
    BY <1>5
  <1> HIDE DEF r
  <1> QED
    BY <1>1, <1>5, <1>6

\* The place of an interval is after those that are not later.
LEMMA Placed ==
  ASSUME NEW s, Lined(s), NEW at \in Time
  PROVE  /\ Place(s, at) \in 1..(Len(s.list) + 1)
         /\ \A i \in 1..Len(s.list) : i < Place(s, at) => s.next[s.list[i]] <= at
         /\ \A i \in 1..Len(s.list) : i >= Place(s, at) => at < s.next[s.list[i]]
  <1> DEFINE L == Len(s.list)
             T == {n \in 1..(L + 1) : n <= L => at < s.next[s.list[n]]}
             Right(n) == /\ \A i \in 1..(n - 1) : s.next[s.list[i]] <= at
                         /\ n <= Len(s.list) => s.next[s.list[n]] > at
  <1>1. s.list \in Seq(Intervals) /\ s.next \in [Intervals -> Time]
    BY DEF Lined, St
  <1>2. L \in Nat /\ \A i \in 1..L : s.next[s.list[i]] \in Nat
    <2>1. L \in Nat /\ \A i \in 1..L : s.list[i] \in Intervals
      BY <1>1, InRange
    <2> QED
      BY <1>1, <2>1 DEF Time
  <1>3. at \in Nat
    BY DEF Time
  <1>4. L + 1 \in T /\ T \in SUBSET Nat
    BY <1>2
  <1>5. PICK n \in T : \A y \in T : n <= y
    BY <1>4, Least
  <1>6. n \in 1..(L + 1) /\ Right(n)
    <2>1. n \in 1..(L + 1) /\ (n <= L => s.next[s.list[n]] > at)
      BY <1>2, <1>3, <1>5
    <2>2. ASSUME NEW i \in 1..(n - 1) PROVE s.next[s.list[i]] <= at
      <3>1. i \in 1..L /\ ~(n <= i)
        BY <1>2, <2>1
      <3>2. ~(at < s.next[s.list[i]])
        BY <1>5, <1>2, <3>1
      <3> QED
        BY <1>2, <1>3, <3>1, <3>2
    <2> QED
      BY <2>1, <2>2
  <1> DEFINE p == CHOOSE m \in 1..(L + 1) : Right(m)
  <1>7. Place(s, at) = p
    BY Zenon DEF Place
  <1>8. p \in 1..(L + 1) /\ Right(p)
    BY <1>6, Zenon
  <1> HIDE DEF p
  <1>9. \A i \in 1..L : i < p => s.next[s.list[i]] <= at
    BY <1>2, <1>8
  <1>10. ASSUME NEW i \in 1..L, i >= p PROVE at < s.next[s.list[i]]
    <2>1. p \in 1..L /\ p <= i
      BY <1>2, <1>8, <1>10
    <2>2. s.next[s.list[p]] > at
      BY <1>8, <2>1
    <2>3. s.next[s.list[p]] <= s.next[s.list[i]]
      BY <2>1 DEF Lined, Sorted
    <2> QED
      BY <1>2, <1>3, <2>1, <2>2, <2>3
  <1> QED
    BY <1>7, <1>8, <1>9, <1>10

\* An interval goes to its place and moves no other.
LEMMA Inserted ==
  ASSUME NEW s, Lined(s), NEW ci \in Intervals, ci \notin Range(s.list), NEW at \in Time
  PROVE  LET r == Insert(s, ci, at)
         IN  /\ Lined(r) /\ r.job = s.job /\ r.timer = s.timer /\ r.stale = s.stale
             /\ r.next = [s.next EXCEPT ![ci] = at]
             /\ Len(r.list) = Len(s.list) + 1
             /\ \A x : x \in Range(r.list) <=> x = ci \/ x \in Range(s.list)
             /\ \A k \in 1..Len(r.list) : r.list[k] = IF k < Place(s, at) THEN s.list[k]
                                                     ELSE IF k = Place(s, at) THEN ci ELSE s.list[k - 1]
  <1> DEFINE p  == Place(s, at)
             q  == s.list
             l  == LIST_INSERT(q, p, ci)
             nx == [s.next EXCEPT ![ci] = at]
             r  == Insert(s, ci, at)
  <1>1. s \in St /\ q \in Seq(Intervals) /\ s.next \in [Intervals -> Time]
    BY DEF Lined, St
  <1>2. /\ p \in 1..(Len(q) + 1)
        /\ \A i \in 1..Len(q) : i < p => s.next[q[i]] <= at
        /\ \A i \in 1..Len(q) : i >= p => at < s.next[q[i]]
    BY Placed
  <1>20. ci \notin Range(q) /\ Distinct(q) /\ Sorted(q, s.next)
    BY DEF Lined
  <1> HIDE DEF p, q
  <1>3. /\ l \in Seq(Intervals) /\ Len(l) = Len(q) + 1
        /\ \A k \in 1..Len(l) : l[k] = IF k < p THEN q[k] ELSE IF k = p THEN ci ELSE q[k - 1]
    BY <1>1, <1>2, Linked
  <1> HIDE DEF l
  <1>4. nx \in [Intervals -> Time] /\ nx[ci] = at /\ \A x \in Intervals : x # ci => nx[x] = s.next[x]
    BY <1>1
  <1>5. r = [s EXCEPT !.list = l, !.next = nx]
    BY DEF Insert, l, p, q
  <1> HIDE DEF nx
  <1>6. r \in St /\ r.list = l /\ r.next = nx /\ r.job = s.job /\ r.timer = s.timer /\ r.stale = s.stale
    BY <1>1, <1>3, <1>4, <1>5 DEF St
  <1> HIDE DEF r
  <1>7. /\ Len(q) \in Nat /\ \A i \in 1..Len(q) : q[i] \in Intervals /\ q[i] # ci
        /\ \A x : x \in Range(q) <=> \E n \in 1..Len(q) : q[n] = x
    BY <1>1, <1>20, InRange
  <1>21. p \in Nat
    BY <1>2, <1>7
  <1>8. \A k \in 1..Len(l) : \/ k < p /\ k \in 1..Len(q) /\ l[k] = q[k]
                             \/ k = p /\ l[k] = ci
                             \/ k > p /\ k - 1 \in 1..Len(q) /\ k - 1 >= p /\ l[k] = q[k - 1]
    BY <1>2, <1>3, <1>7
  <1>9. Distinct(l)
    <2> SUFFICES ASSUME NEW a \in 1..Len(l), NEW b \in 1..Len(l), l[a] = l[b] PROVE a = b
      BY DEF Distinct
    <2>1. CASE a = p \/ b = p
      BY <1>7, <1>8, <2>1
    <2>2. CASE a # p /\ b # p
      <3> DEFINE at1(k) == IF k < p THEN k ELSE k - 1
      <3>1. at1(a) \in 1..Len(q) /\ at1(b) \in 1..Len(q) /\ q[at1(a)] = q[at1(b)]
        BY <1>3, <1>7, <1>8, <1>21, <2>2
      <3>2. at1(a) = at1(b)
        BY <1>20, <3>1 DEF Distinct
      <3> QED
        BY <1>3, <1>7, <1>21, <2>2, <3>2
    <2> QED
      BY <2>1, <2>2
  <1>10. Sorted(l, nx)
    <2> SUFFICES ASSUME NEW a \in 1..Len(l), NEW b \in 1..Len(l), a <= b PROVE nx[l[a]] <= nx[l[b]]
      BY DEF Sorted
    <2>1. \A i, j \in 1..Len(q) : i <= j => s.next[q[i]] <= s.next[q[j]]
      BY <1>20 DEF Sorted
    <2>2. \A i \in 1..Len(q) : nx[q[i]] = s.next[q[i]] /\ s.next[q[i]] \in Nat
      BY <1>1, <1>4, <1>7 DEF Time
    <2>3. at \in Nat
      BY DEF Time
    <2>4. CASE a = p
      <3>1. nx[l[a]] = at
        BY <1>4, <1>8, <2>4
      <3>2. CASE b = p
        BY <2>3, <2>4, <3>1, <3>2
      <3>3. CASE b # p
        <4>1. b - 1 \in 1..Len(q) /\ b - 1 >= p /\ l[b] = q[b - 1]
          BY <1>3, <1>7, <1>8, <1>21, <2>4, <3>3
        <4>2. at < s.next[q[b - 1]]
          BY <1>2, <4>1
        <4> QED
          BY <2>2, <2>3, <3>1, <4>1, <4>2
      <3> QED
        BY <3>2, <3>3
    <2>5. CASE b = p
      <3>1. nx[l[b]] = at
        BY <1>4, <1>8, <2>5
      <3>2. CASE a = p
        BY <2>3, <2>5, <3>1, <3>2
      <3>3. CASE a # p
        <4>1. a < p /\ a \in 1..Len(q) /\ l[a] = q[a]
          BY <1>3, <1>7, <1>8, <1>21, <2>5, <3>3
        <4>2. s.next[q[a]] <= at
          BY <1>2, <4>1
        <4> QED
          BY <2>2, <2>3, <3>1, <4>1, <4>2
      <3> QED
        BY <3>2, <3>3
    <2>6. CASE a # p /\ b # p
      <3> DEFINE at1(k) == IF k < p THEN k ELSE k - 1
      <3>1. at1(a) \in 1..Len(q) /\ at1(b) \in 1..Len(q) /\ l[a] = q[at1(a)] /\ l[b] = q[at1(b)]
        BY <1>3, <1>7, <1>8, <1>21, <2>6
      <3>2. at1(a) <= at1(b)
        BY <1>3, <1>7, <1>21, <2>6
      <3> HIDE DEF at1
      <3> QED
        BY <2>1, <2>2, <3>1, <3>2
    <2> QED
      BY <2>4, <2>5, <2>6
  <1>11. ASSUME NEW x PROVE x \in Range(l) <=> x = ci \/ x \in Range(q)
    <2>1. x \in Range(l) <=> \E n \in 1..Len(l) : l[n] = x
      BY <1>3, InRange
    <2>2. p \in 1..Len(l) /\ l[p] = ci
      BY <1>2, <1>3, <1>7
    <2>3. ASSUME NEW n \in 1..Len(q) PROVE \E k \in 1..Len(l) : l[k] = q[n]
      <3>1. CASE n < p
        <4>1. n \in 1..Len(l) /\ l[n] = q[n]
          BY <1>3, <1>7, <3>1
        <4> QED
          BY <4>1
      <3>2. CASE n >= p
        <4>1. n + 1 \in 1..Len(l) /\ l[n + 1] = q[n]
          BY <1>2, <1>3, <1>7, <3>2
        <4> QED
          BY <4>1
      <3> QED
        BY <1>2, <3>1, <3>2
    <2>4. \A n \in 1..Len(l) : l[n] = ci \/ \E k \in 1..Len(q) : l[n] = q[k]
      BY <1>8
    <2> QED
      BY <1>7, <2>1, <2>2, <2>3, <2>4
  <1>12. Lined(r)
    BY <1>6, <1>9, <1>10 DEF Lined
  <1> QED
    BY <1>3, <1>6, <1>11, <1>12 DEF nx, q, r, p

-----------------------------------------------------------------------------
(* One interval.                                                           *)

\* The intervals of a job are numbered as the constants allow.
LEMMA Numbered ==
  ASSUME NEW jo \in Table, NEW j \in Jobs
  PROVE  /\ Len(jo[j].whens) \in Nat
         /\ \A k \in 1..Len(jo[j].whens) : <<j, k>> \in Intervals /\ <<j, k>> \in Mine(jo)
  <1>1. jo[j].whens \in WhensSets
    BY DEF Table, JobRec
  <1>2. Len(jo[j].whens) \in 0..MaxIntervals
    BY <1>1, AllTimely DEF Timely
  <1>3. MaxIntervals \in Nat
    BY CalendarAssumption
  <1>4. Len(jo[j].whens) \in Nat /\ \A k \in 1..Len(jo[j].whens) : k \in 1..MaxIntervals
    BY <1>2, <1>3
  <1>5. ASSUME NEW k \in 1..Len(jo[j].whens) PROVE <<j, k>> \in Intervals /\ <<j, k>> \in Mine(jo)
    <2>1. <<j, k>> \in Intervals
      BY <1>4 DEF Intervals
    <2> QED
      BY <2>1 DEF Mine
  <1> QED
    BY <1>4, <1>5

\* An interval fires later than now.
LEMMA FiresLater ==
  ASSUME NEW s, s.job \in Table, NEW ci \in Mine(s.job), now \in 0..MaxTime
  PROVE  Later(Interval(s, ci), now) \in Time /\ now < Later(Interval(s, ci), now)
  <1>1. ci \in Intervals /\ ci[1] \in Jobs /\ ci[2] \in 1..Len(s.job[ci[1]].whens)
    BY DEF Mine, Intervals
  <1> DEFINE w == s.job[ci[1]].whens
  <1>2. w \in WhensSets
    BY <1>1 DEF Table, JobRec
  <1>3. Timely(w)
    BY <1>2, AllTimely
  <1> HIDE DEF w
  <1>4. ci[2] \in DOMAIN w
    BY <1>1, <1>3 DEF Timely, w
  <1> DEFINE at == Later(w[ci[2]], now)
  <1>5. at \in (now + 1)..EndOfTime
    BY <1>3, <1>4, Zenon DEF Timely
  <1>6. Interval(s, ci) = w[ci[2]]
    BY DEF Interval, w
  <1>7. now \in Nat /\ EndOfTime \in Nat
    BY CalendarAssumption
  <1> HIDE DEF at
  <1>8. at \in Time /\ now < at
    BY <1>5, <1>7 DEF Time
  <1>9. Later(Interval(s, ci), now) = at
    BY <1>6, Zenon DEF at
  <1> QED
    BY <1>8, <1>9, Zenon

\* calendarinterval_setalarm(): the interval is in its place and the timer armed
\* for the head.
LEMMA Alarmed ==
  ASSUME NEW s, Lined(s), NEW ci \in Mine(s.job), ci \notin Range(s.list), now \in 0..MaxTime
  PROVE  LET at == Later(Interval(s, ci), now)
             r  == calendarinterval_setalarm(s, ci, now)
         IN  /\ Lined(r) /\ OnTime(r) /\ r.job = s.job /\ r.stale = s.stale
             /\ r.next = [s.next EXCEPT ![ci] = at]
             /\ Len(r.list) = Len(s.list) + 1
             /\ \A x : x \in Range(r.list) <=> x = ci \/ x \in Range(s.list)
             /\ \A k \in 1..Len(r.list) : r.list[k] = IF k < Place(s, at) THEN s.list[k]
                                                     ELSE IF k = Place(s, at) THEN ci ELSE s.list[k - 1]
  <1> DEFINE at == Later(Interval(s, ci), now)
             p  == Place(s, at)
             i  == Insert(s, ci, at)
             r  == calendarinterval_setalarm(s, ci, now)
             e  == i.next[Head(i.list)]
  <1>1. s.job \in Table /\ ci \in Intervals
    BY DEF Lined, St, Mine
  <1>2. at \in Time
    BY <1>1, FiresLater
  <1>3. r = [i EXCEPT !.timer = e]
    BY Zenon DEF calendarinterval_setalarm, Armed
  <1> HIDE DEF at
  <1>4. /\ Lined(i) /\ i.job = s.job /\ i.timer = s.timer /\ i.stale = s.stale
        /\ i.next = [s.next EXCEPT ![ci] = at]
        /\ Len(i.list) = Len(s.list) + 1
        /\ \A x : x \in Range(i.list) <=> x = ci \/ x \in Range(s.list)
        /\ \A k \in 1..Len(i.list) : i.list[k] = IF k < p THEN s.list[k]
                                                ELSE IF k = p THEN ci ELSE s.list[k - 1]
    BY <1>1, <1>2, Inserted
  <1> HIDE DEF i, p
  <1>5. i \in St /\ i.list \in Seq(Intervals) /\ i.next \in [Intervals -> Time]
    BY <1>4 DEF Lined, St
  <1>6. Len(i.list) \in Nat /\ Len(i.list) # 0
    <2>1. Len(s.list) \in Nat
      BY DEF Lined, St
    <2> QED
      BY <1>4, <2>1
  <1>7. Head(i.list) = i.list[1] /\ 1 \in 1..Len(i.list) /\ i.list[1] \in Intervals
    BY <1>5, <1>6
  <1>8. e \in Time
    BY <1>5, <1>7
  <1>9. e = i.next[i.list[1]]
    BY <1>7
  <1> HIDE DEF e
  <1>10. r \in St /\ r.job = i.job /\ r.list = i.list /\ r.next = i.next /\ r.stale = i.stale /\ r.timer = e
    BY <1>3, <1>5, <1>8 DEF St
  <1> HIDE DEF r
  <1>11. Lined(r)
    BY <1>4, <1>10 DEF Lined
  <1>12. OnTime(r)
    <2>1. \A n \in 1..Len(i.list) : i.next[i.list[1]] <= i.next[i.list[n]]
      BY <1>4, <1>6, <1>7 DEF Lined, Sorted
    <2> QED
      BY <1>9, <1>10, <2>1 DEF OnTime
  <1>13. r.job = s.job /\ r.stale = s.stale /\ r.next = [s.next EXCEPT ![ci] = at] /\ Len(r.list) = Len(s.list) + 1
    BY <1>4, <1>10
  <1>14. \A x : x \in Range(r.list) <=> x = ci \/ x \in Range(s.list)
    BY <1>4, <1>10
  <1>15. \A k \in 1..Len(r.list) : r.list[k] = IF k < p THEN s.list[k]
                                              ELSE IF k = p THEN ci ELSE s.list[k - 1]
    BY <1>4, <1>10
  <1> QED
    BY <1>11, <1>12, <1>13, <1>14, <1>15 DEF r, p, at

\* The times of the list are the same, so it is as sorted and the timer as good.
LEMMA SameTimes ==
  ASSUME NEW s, NEW r, s \in St, r \in St, OnTime(s), r.timer = s.timer,
         \A x : x \in Range(r.list) => x \in Range(s.list) /\ r.next[x] = s.next[x]
  PROVE  OnTime(r)
  <1> SUFFICES ASSUME r.timer # None, NEW n \in 1..Len(r.list) PROVE r.timer <= r.next[r.list[n]]
    BY DEF OnTime
  <1>1. s.list \in Seq(Intervals) /\ r.list \in Seq(Intervals)
    BY DEF St
  <1>2. r.list[n] \in Range(r.list)
    BY <1>1, InRange
  <1>3. r.list[n] \in Range(s.list) /\ r.next[r.list[n]] = s.next[r.list[n]]
    BY <1>2
  <1>4. PICK m \in 1..Len(s.list) : s.list[m] = r.list[n]
    BY <1>1, <1>3, InRange
  <1>5. s.timer <= s.next[s.list[m]]
    BY DEF OnTime
  <1> QED
    BY <1>3, <1>4, <1>5

\* calendarinterval_delete(): the timer stays and is still in time.
LEMMA Deleted ==
  ASSUME NEW s, Lined(s), OnTime(s), NEW ci \in Intervals
  PROVE  LET r == calendarinterval_delete(s, ci)
         IN  /\ Lined(r) /\ OnTime(r) /\ r.job = s.job /\ r.stale = s.stale
             /\ \A x : x \in Range(r.list) <=> x # ci /\ x \in Range(s.list)
  <1> DEFINE l  == LIST_REMOVE(s.list, ci)
             nx == [s.next EXCEPT ![ci] = 0]
             r  == calendarinterval_delete(s, ci)
  <1>1. s \in St /\ s.list \in Seq(Intervals) /\ s.next \in [Intervals -> Time]
    BY DEF Lined, St
  <1>2. /\ l \in Seq(Intervals) /\ Distinct(l) /\ Sorted(l, s.next)
        /\ \A x : x \in Range(l) <=> x # ci /\ x \in Range(s.list)
    BY <1>1, Removed DEF Lined
  <1>3. r = [s EXCEPT !.list = l, !.next = nx]
    BY DEF calendarinterval_delete
  <1> HIDE DEF l
  <1>4. 0 \in Time
    BY CalendarAssumption DEF Time
  <1>5. nx \in [Intervals -> Time] /\ \A x \in Intervals : x # ci => nx[x] = s.next[x]
    BY <1>1, <1>4
  <1> HIDE DEF nx
  <1>6. r \in St /\ r.list = l /\ r.next = nx /\ r.job = s.job /\ r.timer = s.timer /\ r.stale = s.stale
    BY <1>1, <1>2, <1>3, <1>5 DEF St
  <1> HIDE DEF r
  <1>7. \A n \in 1..Len(l) : l[n] \in Range(l) /\ l[n] \in Intervals
    BY <1>2, InRange
  <1>8. Sorted(l, nx)
    BY <1>2, <1>5, <1>7 DEF Sorted
  <1>9. Lined(r)
    BY <1>2, <1>6, <1>8 DEF Lined
  <1>10. \A x : x \in Range(r.list) => x \in Range(s.list) /\ r.next[x] = s.next[x]
    <2>1. \A x : x \in Range(l) => x \in Intervals
      BY <1>2, InRange
    <2> QED
      BY <1>2, <1>5, <1>6, <2>1
  <1>11. OnTime(r)
    BY <1>1, <1>6, <1>10, SameTimes
  <1> QED
    BY <1>2, <1>6, <1>9, <1>11 DEF r

-----------------------------------------------------------------------------
(* Loops.                                                                  *)

\* job_remove()'s loop, one interval after the other.
LEMMA DeleteRuns ==
  ASSUME NEW s, NEW j, Len(s.job[j].whens) \in Nat
  PROVE  \E r : /\ r[0] = s
                /\ \A i \in 1..Len(s.job[j].whens) : r[i] = calendarinterval_delete(r[i - 1], <<j, i>>)
                /\ DeleteAll(s, j) = r[Len(s.job[j].whens)]
  <1> DEFINE N == Len(s.job[j].whens)
             start == s
             step(x, i) == calendarinterval_delete(x, <<j, i>>)
             Body(g) == [i \in 0..N |-> IF i = 0 THEN start ELSE step(g[i - 1], i)]
             Run(g, n) == g = [i \in 0..n |-> g[i]] /\ g[0] = start /\ \A i \in 1..n : g[i] = step(g[i - 1], i)
             r == CHOOSE g : g = Body(g)
  <1>1. DeleteAll(s, j) = r[Len(s.job[j].whens)]
    BY DEF DeleteAll
  <1>2. N \in Nat
    OBVIOUS
  <1> HIDE DEF N, start, step
  <1>3. \A n \in Nat : \E g : Run(g, n)
    <2> DEFINE S == {n \in Nat : \E g : Run(g, n)}
    <2>1. 0 \in S
      <3>1. Run([i \in 0..0 |-> start], 0)
        OBVIOUS
      <3> QED
        BY <3>1
    <2>2. ASSUME NEW n \in S PROVE n + 1 \in S
      <3>1. PICK g : Run(g, n)
        OBVIOUS
      <3> DEFINE h == [i \in 0..(n + 1) |-> IF i = n + 1 THEN step(g[n], n + 1) ELSE g[i]]
      <3>2. n \in Nat
        OBVIOUS
      <3>3. h = [i \in 0..(n + 1) |-> h[i]] /\ h[0] = start
        BY <3>1, <3>2
      <3>4. \A i \in 1..(n + 1) : h[i] = step(h[i - 1], i)
        <4> SUFFICES ASSUME NEW i \in 1..(n + 1) PROVE h[i] = step(h[i - 1], i)
          OBVIOUS
        <4>1. CASE i = n + 1
          <5>1. i - 1 = n /\ i - 1 \in 0..(n + 1) /\ i - 1 # n + 1 /\ i \in 0..(n + 1)
            BY <3>2, <4>1
          <5>2. h[i - 1] = g[n] /\ h[i] = step(g[n], n + 1)
            BY <5>1, <4>1
          <5> QED
            BY <5>2, <4>1, Zenon
        <4>2. CASE i # n + 1
          <5>1. i \in 1..n /\ i \in 0..(n + 1) /\ i - 1 \in 0..(n + 1) /\ i - 1 # n + 1
            BY <3>2, <4>2
          <5>2. h[i - 1] = g[i - 1] /\ h[i] = g[i]
            BY <5>1, <4>2
          <5>3. g[i] = step(g[i - 1], i)
            BY <3>1, <5>1
          <5> QED
            BY <5>2, <5>3, Zenon
        <4> QED
          BY <4>1, <4>2
      <3>5. Run(h, n + 1)
        BY <3>3, <3>4, Zenon
      <3> HIDE DEF Run
      <3> QED
        BY <3>2, <3>5
    <2> HIDE DEF S
    <2>3. S = Nat
      <3>1. S \in SUBSET Nat
        BY DEF S
      <3> QED
        BY <2>1, <2>2, <3>1, EveryNumber
    <2> QED
      BY <2>3, Zenon DEF S
  <1>4. r = Body(r)
    <2>1. PICK g : Run(g, N)
      BY <1>2, <1>3
    <2>2. g = [i \in 0..N |-> g[i]]
      BY <2>1
    <2>3. ASSUME NEW i \in 0..N PROVE g[i] = Body(g)[i]
      <3>1. Body(g)[i] = IF i = 0 THEN start ELSE step(g[i - 1], i)
        OBVIOUS
      <3>2. CASE i = 0
        BY <2>1, <3>1, <3>2
      <3>3. CASE i # 0
        <4>1. i \in 1..N
          BY <1>2, <3>3
        <4>2. g[i] = step(g[i - 1], i)
          BY <2>1, <4>1
        <4> QED
          BY <3>1, <3>3, <4>2, Zenon
      <3> QED
        BY <3>2, <3>3
    <2>4. [i \in 0..N |-> g[i]] = Body(g)
      BY <2>3
    <2>5. g = Body(g)
      BY <2>2, <2>4, Zenon
    <2> QED
      BY <2>5, Zenon
  <1> HIDE DEF r
  <1>5. r[0] = start /\ \A i \in 1..N : r[i] = step(r[i - 1], i)
    BY <1>2, <1>4
  <1> QED
    BY <1>1, <1>5 DEF N, start, step

\* The import of a job's intervals, one after the other.
LEMMA AddRuns ==
  ASSUME NEW s, NEW j, Len(s.job[j].whens) \in Nat
  PROVE  \E r : /\ r[0] = s
                /\ \A i \in 1..Len(s.job[j].whens) : r[i] = calendarinterval_setalarm(r[i - 1], <<j, i>>, now)
                /\ AddAll(s, j) = r[Len(s.job[j].whens)]
  <1> DEFINE N == Len(s.job[j].whens)
             start == s
             step(x, i) == calendarinterval_setalarm(x, <<j, i>>, now)
             Body(g) == [i \in 0..N |-> IF i = 0 THEN start ELSE step(g[i - 1], i)]
             Run(g, n) == g = [i \in 0..n |-> g[i]] /\ g[0] = start /\ \A i \in 1..n : g[i] = step(g[i - 1], i)
             r == CHOOSE g : g = Body(g)
  <1>1. AddAll(s, j) = r[Len(s.job[j].whens)]
    BY DEF AddAll
  <1>2. N \in Nat
    OBVIOUS
  <1> HIDE DEF N, start, step
  <1>3. \A n \in Nat : \E g : Run(g, n)
    <2> DEFINE S == {n \in Nat : \E g : Run(g, n)}
    <2>1. 0 \in S
      <3>1. Run([i \in 0..0 |-> start], 0)
        OBVIOUS
      <3> QED
        BY <3>1
    <2>2. ASSUME NEW n \in S PROVE n + 1 \in S
      <3>1. PICK g : Run(g, n)
        OBVIOUS
      <3> DEFINE h == [i \in 0..(n + 1) |-> IF i = n + 1 THEN step(g[n], n + 1) ELSE g[i]]
      <3>2. n \in Nat
        OBVIOUS
      <3>3. h = [i \in 0..(n + 1) |-> h[i]] /\ h[0] = start
        BY <3>1, <3>2
      <3>4. \A i \in 1..(n + 1) : h[i] = step(h[i - 1], i)
        <4> SUFFICES ASSUME NEW i \in 1..(n + 1) PROVE h[i] = step(h[i - 1], i)
          OBVIOUS
        <4>1. CASE i = n + 1
          <5>1. i - 1 = n /\ i - 1 \in 0..(n + 1) /\ i - 1 # n + 1 /\ i \in 0..(n + 1)
            BY <3>2, <4>1
          <5>2. h[i - 1] = g[n] /\ h[i] = step(g[n], n + 1)
            BY <5>1, <4>1
          <5> QED
            BY <5>2, <4>1, Zenon
        <4>2. CASE i # n + 1
          <5>1. i \in 1..n /\ i \in 0..(n + 1) /\ i - 1 \in 0..(n + 1) /\ i - 1 # n + 1
            BY <3>2, <4>2
          <5>2. h[i - 1] = g[i - 1] /\ h[i] = g[i]
            BY <5>1, <4>2
          <5>3. g[i] = step(g[i - 1], i)
            BY <3>1, <5>1
          <5> QED
            BY <5>2, <5>3, Zenon
        <4> QED
          BY <4>1, <4>2
      <3>5. Run(h, n + 1)
        BY <3>3, <3>4, Zenon
      <3> HIDE DEF Run
      <3> QED
        BY <3>2, <3>5
    <2> HIDE DEF S
    <2>3. S = Nat
      <3>1. S \in SUBSET Nat
        BY DEF S
      <3> QED
        BY <2>1, <2>2, <3>1, EveryNumber
    <2> QED
      BY <2>3, Zenon DEF S
  <1>4. r = Body(r)
    <2>1. PICK g : Run(g, N)
      BY <1>2, <1>3
    <2>2. g = [i \in 0..N |-> g[i]]
      BY <2>1
    <2>3. ASSUME NEW i \in 0..N PROVE g[i] = Body(g)[i]
      <3>1. Body(g)[i] = IF i = 0 THEN start ELSE step(g[i - 1], i)
        OBVIOUS
      <3>2. CASE i = 0
        BY <2>1, <3>1, <3>2
      <3>3. CASE i # 0
        <4>1. i \in 1..N
          BY <1>2, <3>3
        <4>2. g[i] = step(g[i - 1], i)
          BY <2>1, <4>1
        <4> QED
          BY <3>1, <3>3, <4>2, Zenon
      <3> QED
        BY <3>2, <3>3
    <2>4. [i \in 0..N |-> g[i]] = Body(g)
      BY <2>3
    <2>5. g = Body(g)
      BY <2>2, <2>4, Zenon
    <2> QED
      BY <2>5, Zenon
  <1> HIDE DEF r
  <1>5. r[0] = start /\ \A i \in 1..N : r[i] = step(r[i - 1], i)
    BY <1>2, <1>4
  <1> QED
    BY <1>1, <1>5 DEF N, start, step

\* The turns of the callback.
LEMMA CallbackRuns ==
  ASSUME NEW s, NEW slow, Len(s.list) \in Nat, s.list # <<>>
  PROVE  \E r : /\ r[0] = [s |-> s, ci |-> s.list[1], more |-> TRUE]
                /\ \A i \in 1..Len(s.list) : r[i] = visit(r[i - 1], slow)
                /\ calendarinterval_callback(s, slow) = r[Len(s.list)].s
  <1> DEFINE N == Len(s.list)
             start == [s |-> s, ci |-> s.list[1], more |-> TRUE]
             step(x, i) == visit(x, slow)
             Body(g) == [i \in 0..N |-> IF i = 0 THEN start ELSE step(g[i - 1], i)]
             Run(g, n) == g = [i \in 0..n |-> g[i]] /\ g[0] = start /\ \A i \in 1..n : g[i] = step(g[i - 1], i)
             r == CHOOSE g : g = Body(g)
  <1>1. calendarinterval_callback(s, slow) = r[Len(s.list)].s
    BY DEF calendarinterval_callback
  <1>2. N \in Nat
    OBVIOUS
  <1> HIDE DEF N, start, step
  <1>3. \A n \in Nat : \E g : Run(g, n)
    <2> DEFINE S == {n \in Nat : \E g : Run(g, n)}
    <2>1. 0 \in S
      <3>1. Run([i \in 0..0 |-> start], 0)
        OBVIOUS
      <3> QED
        BY <3>1
    <2>2. ASSUME NEW n \in S PROVE n + 1 \in S
      <3>1. PICK g : Run(g, n)
        OBVIOUS
      <3> DEFINE h == [i \in 0..(n + 1) |-> IF i = n + 1 THEN step(g[n], n + 1) ELSE g[i]]
      <3>2. n \in Nat
        OBVIOUS
      <3>3. h = [i \in 0..(n + 1) |-> h[i]] /\ h[0] = start
        BY <3>1, <3>2
      <3>4. \A i \in 1..(n + 1) : h[i] = step(h[i - 1], i)
        <4> SUFFICES ASSUME NEW i \in 1..(n + 1) PROVE h[i] = step(h[i - 1], i)
          OBVIOUS
        <4>1. CASE i = n + 1
          <5>1. i - 1 = n /\ i - 1 \in 0..(n + 1) /\ i - 1 # n + 1 /\ i \in 0..(n + 1)
            BY <3>2, <4>1
          <5>2. h[i - 1] = g[n] /\ h[i] = step(g[n], n + 1)
            BY <5>1, <4>1
          <5> QED
            BY <5>2, <4>1, Zenon
        <4>2. CASE i # n + 1
          <5>1. i \in 1..n /\ i \in 0..(n + 1) /\ i - 1 \in 0..(n + 1) /\ i - 1 # n + 1
            BY <3>2, <4>2
          <5>2. h[i - 1] = g[i - 1] /\ h[i] = g[i]
            BY <5>1, <4>2
          <5>3. g[i] = step(g[i - 1], i)
            BY <3>1, <5>1
          <5> QED
            BY <5>2, <5>3, Zenon
        <4> QED
          BY <4>1, <4>2
      <3>5. Run(h, n + 1)
        BY <3>3, <3>4, Zenon
      <3> HIDE DEF Run
      <3> QED
        BY <3>2, <3>5
    <2> HIDE DEF S
    <2>3. S = Nat
      <3>1. S \in SUBSET Nat
        BY DEF S
      <3> QED
        BY <2>1, <2>2, <3>1, EveryNumber
    <2> QED
      BY <2>3, Zenon DEF S
  <1>4. r = Body(r)
    <2>1. PICK g : Run(g, N)
      BY <1>2, <1>3
    <2>2. g = [i \in 0..N |-> g[i]]
      BY <2>1
    <2>3. ASSUME NEW i \in 0..N PROVE g[i] = Body(g)[i]
      <3>1. Body(g)[i] = IF i = 0 THEN start ELSE step(g[i - 1], i)
        OBVIOUS
      <3>2. CASE i = 0
        BY <2>1, <3>1, <3>2
      <3>3. CASE i # 0
        <4>1. i \in 1..N
          BY <1>2, <3>3
        <4>2. g[i] = step(g[i - 1], i)
          BY <2>1, <4>1
        <4> QED
          BY <3>1, <3>3, <4>2, Zenon
      <3> QED
        BY <3>2, <3>3
    <2>4. [i \in 0..N |-> g[i]] = Body(g)
      BY <2>3
    <2>5. g = Body(g)
      BY <2>2, <2>4, Zenon
    <2> QED
      BY <2>5, Zenon
  <1> HIDE DEF r
  <1>5. r[0] = start /\ \A i \in 1..N : r[i] = step(r[i - 1], i)
    BY <1>2, <1>4
  <1> QED
    BY <1>1, <1>5 DEF N, start, step

\* job_remove() takes every interval of the job off the list, and no other.
LEMMA AllDeleted ==
  ASSUME NEW s, Lined(s), OnTime(s), NEW j \in Jobs
  PROVE  LET r == DeleteAll(s, j)
         IN  /\ Lined(r) /\ OnTime(r) /\ r.job = s.job /\ r.stale = s.stale
             /\ \A x : x \in Range(r.list) <=>
                         x \in Range(s.list) /\ ~\E k \in 1..Len(s.job[j].whens) : x = <<j, k>>
  <1> DEFINE N == Len(s.job[j].whens)
             Kept(r, n) == /\ Lined(r) /\ OnTime(r) /\ r.job = s.job /\ r.stale = s.stale
                           /\ \A x : x \in Range(r.list) <=>
                                       x \in Range(s.list) /\ ~\E k \in 1..n : x = <<j, k>>
  <1>1. s.job \in Table
    BY DEF Lined, St
  <1>2. N \in Nat /\ \A k \in 1..N : <<j, k>> \in Intervals
    BY <1>1, Numbered
  <1>3. PICK r : /\ r[0] = s
                 /\ \A i \in 1..N : r[i] = calendarinterval_delete(r[i - 1], <<j, i>>)
                 /\ DeleteAll(s, j) = r[N]
    BY <1>2, DeleteRuns
  <1> HIDE DEF N
  <1> DEFINE S == {n \in Nat : n <= N => Kept(r[n], n)}
  <1>4. 0 \in S
    <2>1. Kept(r[0], 0)
      BY <1>3
    <2> QED
      BY <2>1
  <1>5. ASSUME NEW n \in S PROVE n + 1 \in S
    <2> SUFFICES ASSUME n + 1 <= N PROVE Kept(r[n + 1], n + 1)
      OBVIOUS
    <2>1. n \in Nat /\ n + 1 \in 1..N /\ (n + 1) - 1 = n /\ n <= N
      BY <1>2
    <2>2. Kept(r[n], n)
      BY <2>1
    <2> DEFINE p == r[n]
               q == r[n + 1]
    <2>3. q = calendarinterval_delete(p, <<j, n + 1>>)
      BY <1>3, <2>1
    <2>4. <<j, n + 1>> \in Intervals
      BY <1>2, <2>1
    <2> HIDE DEF p, q
    <2>5. Lined(p) /\ OnTime(p) /\ p.job = s.job /\ p.stale = s.stale
      BY <2>2 DEF p
    <2>6. /\ Lined(q) /\ OnTime(q) /\ q.job = p.job /\ q.stale = p.stale
          /\ \A x : x \in Range(q.list) <=> x # <<j, n + 1>> /\ x \in Range(p.list)
      BY <2>3, <2>4, <2>5, Deleted
    <2>7. \A x : x \in Range(p.list) <=> x \in Range(s.list) /\ ~\E k \in 1..n : x = <<j, k>>
      BY <2>2 DEF p
    <2>8. \A k : k \in 1..(n + 1) <=> k = n + 1 \/ k \in 1..n
      BY <2>1
    <2>9. \A x : x \in Range(q.list) <=> x \in Range(s.list) /\ ~\E k \in 1..(n + 1) : x = <<j, k>>
      BY <2>6, <2>7, <2>8, Zenon
    <2>10. Kept(q, n + 1)
      BY <2>5, <2>6, <2>9
    <2> QED
      BY <2>10 DEF q
  <1> HIDE DEF S
  <1>6. S = Nat
    <2>1. S \in SUBSET Nat
      BY DEF S
    <2> QED
      BY <1>4, <1>5, <2>1, EveryNumber
  <1>7. N \in S /\ N <= N
    BY <1>2, <1>6
  <1> HIDE DEF Kept
  <1>8. Kept(r[N], N)
    BY <1>7 DEF S
  <1> QED
    BY <1>3, <1>8 DEF Kept, N

\* jobmgr_import2() puts every interval of the job on the list, and no other.
LEMMA AllAdded ==
  ASSUME NEW s, Lined(s), OnTime(s), NEW j \in Jobs, now \in 0..MaxTime,
         \A k \in 1..Len(s.job[j].whens) : <<j, k>> \notin Range(s.list)
  PROVE  LET r == AddAll(s, j)
         IN  /\ Lined(r) /\ OnTime(r) /\ r.job = s.job /\ r.stale = s.stale
             /\ \A x : x \in Range(r.list) <=>
                         x \in Range(s.list) \/ \E k \in 1..Len(s.job[j].whens) : x = <<j, k>>
  <1> DEFINE N == Len(s.job[j].whens)
             Kept(r, n) == /\ Lined(r) /\ OnTime(r) /\ r.job = s.job /\ r.stale = s.stale
                           /\ \A x : x \in Range(r.list) <=>
                                       x \in Range(s.list) \/ \E k \in 1..n : x = <<j, k>>
  <1>1. s.job \in Table
    BY DEF Lined, St
  <1>2. N \in Nat /\ \A k \in 1..N : <<j, k>> \in Mine(s.job) /\ <<j, k>> \notin Range(s.list)
    BY <1>1, Numbered
  <1>3. PICK r : /\ r[0] = s
                 /\ \A i \in 1..N : r[i] = calendarinterval_setalarm(r[i - 1], <<j, i>>, now)
                 /\ AddAll(s, j) = r[N]
    BY <1>2, AddRuns
  <1> HIDE DEF N
  <1> DEFINE S == {n \in Nat : n <= N => Kept(r[n], n)}
  <1>4. 0 \in S
    <2>1. Kept(r[0], 0)
      BY <1>3
    <2> QED
      BY <2>1
  <1>5. ASSUME NEW n \in S PROVE n + 1 \in S
    <2> SUFFICES ASSUME n + 1 <= N PROVE Kept(r[n + 1], n + 1)
      OBVIOUS
    <2>1. n \in Nat /\ n + 1 \in 1..N /\ (n + 1) - 1 = n /\ n <= N
      BY <1>2
    <2>2. Kept(r[n], n)
      BY <2>1
    <2> DEFINE p == r[n]
               q == r[n + 1]
    <2>3. q = calendarinterval_setalarm(p, <<j, n + 1>>, now)
      BY <1>3, <2>1
    <2> HIDE DEF p, q
    <2>5. Lined(p) /\ OnTime(p) /\ p.job = s.job /\ p.stale = s.stale
      BY <2>2 DEF p
    <2>7. \A x : x \in Range(p.list) <=> x \in Range(s.list) \/ \E k \in 1..n : x = <<j, k>>
      BY <2>2 DEF p
    <2>4. <<j, n + 1>> \in Mine(p.job) /\ <<j, n + 1>> \notin Range(p.list)
      <3>1. \A k \in 1..n : <<j, n + 1>> # <<j, k>>
        BY <2>1
      <3> QED
        BY <1>2, <2>1, <2>5, <2>7, <3>1
    <2>6. /\ Lined(q) /\ OnTime(q) /\ q.job = p.job /\ q.stale = p.stale
          /\ \A x : x \in Range(q.list) <=> x = <<j, n + 1>> \/ x \in Range(p.list)
      BY <2>3, <2>4, <2>5, Alarmed
    <2>8. \A k : k \in 1..(n + 1) <=> k = n + 1 \/ k \in 1..n
      BY <2>1
    <2>9. \A x : x \in Range(q.list) <=> x \in Range(s.list) \/ \E k \in 1..(n + 1) : x = <<j, k>>
      BY <2>6, <2>7, <2>8, Zenon
    <2>10. Kept(q, n + 1)
      BY <2>5, <2>6, <2>9
    <2> QED
      BY <2>10 DEF q
  <1> HIDE DEF S
  <1>6. S = Nat
    <2>1. S \in SUBSET Nat
      BY DEF S
    <2> QED
      BY <1>4, <1>5, <2>1, EveryNumber
  <1>7. N \in S /\ N <= N
    BY <1>2, <1>6
  <1> HIDE DEF Kept
  <1>8. Kept(r[N], N)
    BY <1>7 DEF S
  <1> QED
    BY <1>3, <1>8 DEF Kept, N

-----------------------------------------------------------------------------
(* Jobs.                                                                   *)

\* A job record, changed.
LEMMA JobChanged ==
  ASSUME NEW s, s \in St, NEW j \in Jobs, NEW rec \in JobRec
  PROVE  LET t == [s EXCEPT !.job[j] = rec]
         IN  /\ t \in St /\ t.list = s.list /\ t.next = s.next /\ t.timer = s.timer /\ t.stale = s.stale
             /\ t.job[j] = rec /\ \A i \in Jobs : i # j => t.job[i] = s.job[i]
  <1> DEFINE jo == [s.job EXCEPT ![j] = rec]
             t  == [s EXCEPT !.job[j] = rec]
  <1>1. s.job \in [Jobs -> JobRec]
    BY DEF St, Table
  <1>2. jo \in Table /\ jo[j] = rec /\ \A i \in Jobs : i # j => jo[i] = s.job[i]
    BY <1>1 DEF Table
  <1>3. t = [s EXCEPT !.job = jo]
    OBVIOUS
  <1> HIDE DEF jo
  <1>4. t \in St /\ t.list = s.list /\ t.next = s.next /\ t.timer = s.timer /\ t.stale = s.stale /\ t.job = jo
    BY <1>2, <1>3 DEF St
  <1> QED
    BY <1>2, <1>4

\* A process that runs or will be started
Served(r) == r.state = "running" \/ r.pending

\* A dispatch of a sound job removes nothing.
LEMMA Dispatched ==
  ASSUME NEW p, p \in St, JobsSound(p.job), NEW j \in Jobs, p.job[j].state # "none", NEW slow
  PROVE  LET d == job_dispatch(p, j, slow)
         IN  /\ d \in St /\ d.list = p.list /\ d.next = p.next /\ d.timer = p.timer /\ d.stale = p.stale
             /\ JobsSound(d.job) /\ \A i \in Jobs : d.job[i].whens = p.job[i].whens
             /\ \A i \in Jobs : Served(p.job[i]) => Served(d.job[i])
  <1> DEFINE d == job_dispatch(p, j, slow)
             o == p.job[j]
  <1>1. o \in JobRec
    BY DEF St, Table
  <1>2. \A i \in Jobs : JobSound(i, p.job[i])
    BY DEF JobsSound
  <1>3. CASE o.state = "running"
    <2>1. d = p
      BY <1>3 DEF job_dispatch
    <2> QED
      BY <2>1
  <1>4. CASE o.state # "running" /\ ~o.pending
    <2>1. o.state \in {"idle", "throttled"}
      BY <1>1, <1>4 DEF JobRec, Modes
    <2>2. ~job_useless(p, j)
      BY <1>2, <2>1 DEF job_useless, JobSound
    <2>3. d = p
      BY <1>4, <2>2 DEF job_dispatch
    <2> QED
      BY <2>3
  <1>5. CASE o.state # "running" /\ o.pending
    <2>1. o.state \in {"idle", "throttled"}
      BY <1>1, <1>5 DEF JobRec, Modes
    <2>2. ~job_useless(p, j)
      BY <1>2, <2>1 DEF job_useless, JobSound
    <2>3. CASE j \in slow
      <3> DEFINE rec == [o EXCEPT !.state = "throttled"]
      <3>1. d = [p EXCEPT !.job[j].state = "throttled"]
        BY <1>5, <2>2, <2>3 DEF job_dispatch
      <3>2. d = [p EXCEPT !.job[j] = rec]
        BY <3>1
      <3>3. /\ rec \in JobRec /\ rec.whens = o.whens /\ rec.pending /\ rec.state = "throttled"
            /\ rec.removing = o.removing /\ rec.ran = o.ran
        BY <1>1, <1>5 DEF JobRec, Modes
      <3> HIDE DEF rec, d
      <3>4. /\ d \in St /\ d.list = p.list /\ d.next = p.next /\ d.timer = p.timer /\ d.stale = p.stale
            /\ d.job[j] = rec /\ \A i \in Jobs : i # j => d.job[i] = p.job[i]
        BY <3>2, <3>3, JobChanged
      <3>5. JobSound(j, rec)
        BY <1>2, <2>1, <3>3 DEF JobSound
      <3>6. JobsSound(d.job)
        BY <1>2, <3>4, <3>5 DEF JobsSound
      <3>7. \A i \in Jobs : d.job[i].whens = p.job[i].whens
        BY <3>3, <3>4
      <3>8. \A i \in Jobs : Served(p.job[i]) => Served(d.job[i])
        BY <3>3, <3>4 DEF Served
      <3> QED
        BY <3>4, <3>6, <3>7, <3>8 DEF d
    <2>4. CASE j \notin slow
      <3> DEFINE rec == [o EXCEPT !.state = "running", !.pending = FALSE, !.ran = TRUE]
      <3>1. d = [p EXCEPT !.job[j].state = "running", !.job[j].pending = FALSE, !.job[j].ran = TRUE]
        BY <1>5, <2>2, <2>4 DEF job_dispatch
      <3>2. d = [p EXCEPT !.job[j] = rec]
        <4>1. p.job \in [Jobs -> JobRec]
          BY DEF St, Table
        <4> QED
          BY <1>1, <3>1, <4>1 DEF St, JobRec
      <3>3. rec \in JobRec /\ rec.whens = o.whens /\ rec.state = "running"
        BY <1>1, <1>5 DEF JobRec, Modes
      <3> HIDE DEF rec, d
      <3>4. /\ d \in St /\ d.list = p.list /\ d.next = p.next /\ d.timer = p.timer /\ d.stale = p.stale
            /\ d.job[j] = rec /\ \A i \in Jobs : i # j => d.job[i] = p.job[i]
        BY <3>2, <3>3, JobChanged
      <3>5. JobSound(j, rec)
        BY <3>3 DEF JobSound
      <3>6. JobsSound(d.job)
        BY <1>2, <3>4, <3>5 DEF JobsSound
      <3>7. \A i \in Jobs : d.job[i].whens = p.job[i].whens
        BY <3>3, <3>4
      <3>8. \A i \in Jobs : Served(p.job[i]) => Served(d.job[i])
        BY <3>3, <3>4 DEF Served
      <3> QED
        BY <3>4, <3>6, <3>7, <3>8 DEF d
    <2> QED
      BY <2>3, <2>4
  <1>6. o.pending \in BOOLEAN
    BY <1>1 DEF JobRec
  <1> QED
    BY <1>3, <1>4, <1>5, <1>6

\* The list is that of the jobs that are loaded
Full(s) == \A x : x \in Range(s.list) <=> x \in Mine(s.job)

SameWhens(jo, ka) == \A j \in Jobs : ka[j].whens = jo[j].whens

\* Jobs with the same intervals have the same ones loaded.
LEMMA SameMine ==
  ASSUME NEW jo \in Table, NEW ka \in Table, SameWhens(jo, ka)
  PROVE  Mine(ka) = Mine(jo)
  <1>1. \A ci \in Intervals : ci[1] \in Jobs
    BY DEF Intervals
  <1> QED
    BY <1>1 DEF Mine, SameWhens

\* A job that does not run is removed with its intervals.
LEMMA Gone ==
  ASSUME NEW s, Lined(s), OnTime(s), Full(s), NEW j \in Jobs, s.job[j].state # "running",
         \A i \in Jobs : i # j => JobSound(i, s.job[i])
  PROVE  LET r == job_remove(s, j)
         IN  Lined(r) /\ OnTime(r) /\ Full(r) /\ JobsSound(r.job) /\ r.stale = s.stale
  <1> DEFINE a == DeleteAll(s, j)
             r == job_remove(s, j)
             N == Len(s.job[j].whens)
  <1>1. /\ Lined(a) /\ OnTime(a) /\ a.job = s.job /\ a.stale = s.stale
        /\ \A x : x \in Range(a.list) <=> x \in Range(s.list) /\ ~\E k \in 1..N : x = <<j, k>>
    BY AllDeleted
  <1>2. r = [a EXCEPT !.job[j] = NoJob]
    BY DEF job_remove
  <1> HIDE DEF a
  <1>3. NoJob \in JobRec /\ NoJob.state = "none" /\ NoJob.whens = <<>>
    BY DEF NoJob, JobRec, Modes, WhensSets
  <1>4. a \in St /\ s.job \in Table
    BY <1>1 DEF Lined, St
  <1> HIDE DEF r
  <1>5. /\ r \in St /\ r.list = a.list /\ r.next = a.next /\ r.timer = a.timer /\ r.stale = a.stale
        /\ r.job[j] = NoJob /\ \A i \in Jobs : i # j => r.job[i] = a.job[i]
    BY <1>2, <1>3, <1>4, JobChanged
  <1>6. Lined(r)
    BY <1>1, <1>5 DEF Lined
  <1>7. OnTime(r)
    BY <1>1, <1>5 DEF OnTime
  <1>8. JobsSound(r.job)
    <2>1. JobSound(j, NoJob)
      BY <1>3 DEF JobSound
    <2> QED
      BY <1>1, <1>5, <2>1 DEF JobsSound
  <1>9. Full(r)
    <2> SUFFICES ASSUME NEW x PROVE x \in Range(r.list) <=> x \in Mine(r.job)
      BY DEF Full
    <2>1. x \in Range(r.list) <=> x \in Mine(s.job) /\ ~\E k \in 1..N : x = <<j, k>>
      BY <1>1, <1>5 DEF Full
    <2>2. ASSUME x \in Intervals, x[1] = j PROVE x \notin Mine(r.job)
      <3>1. Len(r.job[x[1]].whens) = 0
        BY <1>3, <1>5, <2>2
      <3> QED
        BY <3>1 DEF Mine
    <2>3. ASSUME x \in Intervals, x[1] = j, x \in Mine(s.job) PROVE \E k \in 1..N : x = <<j, k>>
      <3>1. x[2] \in 1..N
        BY <2>3 DEF Mine
      <3>2. x = <<x[1], x[2]>>
        BY <2>3 DEF Intervals
      <3> QED
        BY <2>3, <3>1, <3>2
    <2>4. ASSUME x \in Intervals, x[1] # j PROVE x \in Mine(r.job) <=> x \in Mine(s.job)
      <3>1. x[1] \in Jobs
        BY <2>4 DEF Intervals
      <3>2. r.job[x[1]] = s.job[x[1]]
        BY <1>1, <1>5, <2>4, <3>1
      <3> QED
        BY <2>4, <3>2 DEF Mine
    <2>5. \A k : x = <<j, k>> => x[1] = j
      OBVIOUS
    <2>6. x \in Mine(s.job) \/ x \in Mine(r.job) => x \in Intervals
      BY DEF Mine
    <2> QED
      BY <2>1, <2>2, <2>3, <2>4, <2>5, <2>6
  <1> QED
    BY <1>1, <1>5, <1>6, <1>7, <1>8, <1>9 DEF r

-----------------------------------------------------------------------------
(* The callback.                                                           *)

\* None of the intervals at the places above c is due
NotDue(s, c) == \A n \in 1..Len(s.list) : n > c => now < s.next[s.list[n]]

\* The head of the list is set again: what was not due is behind what may be,
\* one place nearer to the head, and the interval that followed is the head
\* if it is due.
LEMMA Turned ==
  ASSUME NEW s, Lined(s), now \in 0..MaxTime, NEW ci \in Mine(s.job), 1 \in 1..Len(s.list), s.list[1] = ci
  PROVE  LET m == calendarinterval_setalarm([s EXCEPT !.list = LIST_REMOVE(@, ci)], ci, now)
         IN  /\ Lined(m) /\ OnTime(m) /\ m.job = s.job /\ m.stale = s.stale
             /\ Len(m.list) = Len(s.list)
             /\ \A x : x \in Range(m.list) <=> x \in Range(s.list)
             /\ \A x \in Intervals : x # ci => m.next[x] = s.next[x]
             /\ \A c \in Int : NotDue(s, c) => NotDue(m, c - 1)
             /\ 2 \in 1..Len(s.list) /\ s.next[s.list[2]] <= now => m.list[1] = s.list[2]
  <1> DEFINE l  == LIST_REMOVE(s.list, ci)
             o  == [s EXCEPT !.list = l]
             at == Later(Interval(o, ci), now)
             p  == Place(o, at)
             m  == calendarinterval_setalarm(o, ci, now)
             q  == s.list
  <1>1. s \in St /\ q \in Seq(Intervals) /\ s.next \in [Intervals -> Time] /\ s.job \in Table /\ Distinct(q)
    BY DEF Lined, St
  <1>2. ci \in Intervals
    BY DEF Mine
  <1>3. /\ l \in Seq(Intervals) /\ Distinct(l) /\ Sorted(l, s.next)
        /\ \A x : x \in Range(l) <=> x # ci /\ x \in Range(q)
    BY <1>1, <1>2, Removed DEF Lined
  <1>4. Len(q) \in Nat
    BY <1>1
  <1>5. Len(l) = Len(q) - 1 /\ \A k \in 1..Len(l) : l[k] = q[k + 1]
    <2>1. LIST_REMOVE(q, q[1]) = l
      OBVIOUS
    <2> HIDE DEF l, q
    <2>2. Len(l) = Len(q) - 1 /\ \A k \in 1..Len(l) : l[k] = IF k < 1 THEN q[k] ELSE q[k + 1]
      <3>1. 1 \in 1..Len(q)
        BY DEF q
      <3> QED
        BY <1>1, <2>1, <3>1, Unlinked
    <2> QED
      BY <1>4, <2>2
  <1> HIDE DEF l
  <1>6. o \in St /\ o.list = l /\ o.next = s.next /\ o.job = s.job /\ o.stale = s.stale
    BY <1>1, <1>3 DEF St
  <1> HIDE DEF o
  <1>7. Lined(o)
    BY <1>3, <1>6 DEF Lined
  <1>8. at \in Time /\ now < at
    BY <1>1, <1>6, FiresLater
  <1>9. /\ Lined(m) /\ OnTime(m) /\ m.job = o.job /\ m.stale = o.stale
        /\ m.next = [o.next EXCEPT ![ci] = at]
        /\ Len(m.list) = Len(o.list) + 1
        /\ \A x : x \in Range(m.list) <=> x = ci \/ x \in Range(o.list)
        /\ \A k \in 1..Len(m.list) : m.list[k] = IF k < p THEN o.list[k]
                                                ELSE IF k = p THEN ci ELSE o.list[k - 1]
    <2>1. ci \in Mine(o.job) /\ ci \notin Range(o.list)
      BY <1>3, <1>6
    <2> QED
      BY <1>7, <2>1, Alarmed, Zenon
  <1> HIDE DEF m, at
  <1>10. /\ p \in 1..(Len(l) + 1)
         /\ \A i \in 1..Len(l) : i < p => s.next[l[i]] <= at
         /\ \A i \in 1..Len(l) : i >= p => at < s.next[l[i]]
    BY <1>6, <1>7, <1>8, Placed
  <1> HIDE DEF p
  <1>11. m.next[ci] = at /\ \A x \in Intervals : x # ci => m.next[x] = s.next[x]
    BY <1>1, <1>2, <1>6, <1>9
  <1>12. ci \in Range(q)
    BY <1>1, InRange
  <1>13. \A x : x \in Range(m.list) <=> x \in Range(q)
    BY <1>3, <1>6, <1>9, <1>12
  <1>14. Len(m.list) = Len(q) /\ p \in Nat
    BY <1>4, <1>5, <1>6, <1>9, <1>10
  <1>15. \A k \in 1..Len(m.list) : \/ k < p /\ k \in 1..Len(l) /\ k + 1 \in 1..Len(q) /\ m.list[k] = q[k + 1]
                                   \/ k = p /\ m.list[k] = ci
                                   \/ k > p /\ k - 1 \in 1..Len(l) /\ k - 1 >= p /\ m.list[k] = l[k - 1]
    <2> SUFFICES ASSUME NEW k \in 1..Len(m.list)
                 PROVE  \/ k < p /\ k \in 1..Len(l) /\ k + 1 \in 1..Len(q) /\ m.list[k] = q[k + 1]
                        \/ k = p /\ m.list[k] = ci
                        \/ k > p /\ k - 1 \in 1..Len(l) /\ k - 1 >= p /\ m.list[k] = l[k - 1]
      OBVIOUS
    <2>1. m.list[k] = IF k < p THEN l[k] ELSE IF k = p THEN ci ELSE l[k - 1]
      BY <1>6, <1>9
    <2>2. k \in Nat /\ Len(l) \in Nat
      BY <1>4, <1>14, <1>3
    <2>3. CASE k < p
      <3>1. k \in 1..Len(l) /\ k + 1 \in 1..Len(q)
        BY <1>4, <1>5, <1>10, <2>2, <2>3
      <3> QED
        BY <1>5, <2>1, <2>3, <3>1
    <2>4. CASE k = p
      BY <2>1, <2>4
    <2>5. CASE k > p
      <3>1. k - 1 \in 1..Len(l) /\ k - 1 >= p
        BY <1>4, <1>5, <1>10, <1>14, <2>2, <2>5
      <3> QED
        BY <1>14, <2>1, <2>2, <2>5, <3>1
    <2> QED
      BY <1>14, <2>2, <2>3, <2>4, <2>5
  <1>16. /\ \A k \in 1..Len(q) : q[k] \in Intervals /\ (k # 1 => q[k] # ci)
         /\ \A k \in 1..Len(l) : l[k] \in Intervals /\ l[k] # ci
    <2>1. \A k \in 1..Len(q) : q[k] \in Intervals /\ (k # 1 => q[k] # ci)
      BY <1>1, InRange DEF Distinct
    <2>2. \A k \in 1..Len(l) : l[k] \in Intervals /\ l[k] \in Range(l)
      BY <1>3, InRange
    <2> QED
      BY <1>3, <2>1, <2>2
  <1>17. now \in Nat /\ at \in Nat /\ \A x \in Intervals : s.next[x] \in Nat
    BY <1>1, <1>8, CalendarAssumption DEF Time
  <1>18. ASSUME NEW c \in Int, NotDue(s, c) PROVE NotDue(m, c - 1)
    <2> SUFFICES ASSUME NEW n \in 1..Len(m.list), n > c - 1 PROVE now < m.next[m.list[n]]
      BY DEF NotDue
    <2>1. CASE n < p
      <3>1. n + 1 \in 1..Len(q) /\ m.list[n] = q[n + 1] /\ n + 1 > c /\ n + 1 # 1
        <4>1. n \in Nat /\ ~(n > p) /\ n # p /\ n + 1 > c /\ n + 1 # 1
          BY <1>14, <2>1
        <4> QED
          BY <1>15, <4>1, Zenon
      <3>2. now < s.next[q[n + 1]]
        BY <1>18, <3>1 DEF NotDue
      <3> QED
        BY <1>11, <1>16, <3>1, <3>2
    <2>2. CASE n = p
      BY <1>8, <1>11, <1>15, <1>14, <2>2
    <2>3. CASE n > p
      <3>1. n - 1 \in 1..Len(l) /\ n - 1 >= p /\ m.list[n] = l[n - 1]
        <4>1. n \in Nat /\ ~(n < p) /\ n # p
          BY <1>14, <2>3
        <4> QED
          BY <1>15, <4>1, Zenon
      <3>2. at < s.next[l[n - 1]] /\ l[n - 1] \in Intervals /\ l[n - 1] # ci
        BY <1>10, <1>16, <3>1
      <3> QED
        BY <1>8, <1>11, <1>17, <3>1, <3>2
    <2> QED
      BY <1>14, <2>1, <2>2, <2>3
  <1>19. ASSUME 2 \in 1..Len(q), s.next[q[2]] <= now PROVE m.list[1] = q[2]
    <2>1. 1 \in 1..Len(l) /\ l[1] = q[2]
      BY <1>4, <1>5, <1>19
    <2>2. ~(at < s.next[q[2]])
      BY <1>8, <1>16, <1>17, <1>19
    <2>3. ~(1 >= p)
      BY <1>10, <2>1, <2>2
    <2>4. 1 \in 1..Len(m.list) /\ 1 < p
      BY <1>4, <1>14, <1>19, <2>3
    <2>5. m.list[1] = q[1 + 1]
      BY <1>15, <2>4
    <2> QED
      BY <2>5
  <1>20. Lined(m) /\ OnTime(m) /\ m.job = s.job /\ m.stale = s.stale
    BY <1>6, <1>9
  <1> QED
    BY <1>11, <1>13, <1>14, <1>18, <1>19, <1>20 DEF m, o, l, q

\* What every handler keeps
Sound(s) == Lined(s) /\ OnTime(s) /\ Full(s) /\ JobsSound(s.job) /\ ~s.stale

\* What was due in s0 is still due, or its job is served
DueKept(s0, s) ==
  \A x \in Mine(s0.job) : s0.next[x] <= now => s.next[x] <= now \/ Served(s.job[x[1]])

WalkRec == [s : St, ci : Intervals, more : BOOLEAN]

\* The callback after k turns: it is at the head of what may be due
Walk(s0, w, k) ==
  /\ w \in WalkRec
  /\ Sound(w.s) /\ Len(w.s.list) = Len(s0.list)
  /\ SameWhens(s0.job, w.s.job)
  /\ DueKept(s0, w.s)
  /\ NotDue(w.s, Len(s0.list) - k)
  /\ ~w.more => NotDue(w.s, 0)
  /\ w.more => w.ci \in Range(w.s.list) /\ (w.s.list[1] = w.ci \/ NotDue(w.s, 0))

\* In a sorted list that starts with one that is not due, none is.
LEMMA HeadNotDue ==
  ASSUME NEW s, Lined(s), NEW k \in 1..Len(s.list), now < s.next[s.list[k]], now \in 0..MaxTime
  PROVE  NotDue(s, k - 1)
  <1>1. s.list \in Seq(Intervals) /\ s.next \in [Intervals -> Time]
    BY DEF Lined, St
  <1>2. \A n \in 1..Len(s.list) : s.next[s.list[n]] \in Nat
    <2>1. \A n \in 1..Len(s.list) : s.list[n] \in Intervals
      BY <1>1, InRange
    <2> QED
      BY <1>1, <2>1 DEF Time
  <1>3. now \in Nat /\ Len(s.list) \in Nat
    BY <1>1
  <1> SUFFICES ASSUME NEW n \in 1..Len(s.list), n > k - 1 PROVE now < s.next[s.list[n]]
    BY DEF NotDue
  <1>4. s.next[s.list[k]] <= s.next[s.list[n]]
    BY <1>3 DEF Lined, Sorted
  <1> QED
    BY <1>2, <1>3, <1>4

\* The job of an interval on the list is loaded.
LEMMA Loaded ==
  ASSUME NEW s, Sound(s), NEW ci \in Range(s.list)
  PROVE  ci \in Mine(s.job) /\ ci[1] \in Jobs /\ s.job[ci[1]].state # "none"
  <1>1. ci \in Mine(s.job)
    BY DEF Sound, Full
  <1>2. ci[1] \in Jobs /\ ci[2] \in 1..Len(s.job[ci[1]].whens)
    BY <1>1 DEF Mine, Intervals
  <1>3. Len(<<>>) = 0
    OBVIOUS
  <1>4. s.job[ci[1]].whens # <<>>
    BY <1>2, <1>3
  <1>5. JobSound(ci[1], s.job[ci[1]])
    BY <1>2 DEF Sound, JobsSound
  <1> QED
    BY <1>1, <1>2, <1>4, <1>5 DEF JobSound

\* An interval is set again, and its job dispatched
Reset(s, ci) == calendarinterval_setalarm([s EXCEPT !.list = LIST_REMOVE(@, ci)], ci, now)

Turn(s, ci, slow) == job_dispatch([Reset(s, ci) EXCEPT !.job[ci[1]].pending = TRUE], ci[1], slow)

\* A turn of the callback that finds the head due: it is set again, its job
\* served, and nothing is freed.
LEMMA TurnOfDue ==
  ASSUME NEW s, Sound(s), NEW ci \in Range(s.list), s.list[1] = ci, now \in 0..MaxTime, NEW slow
  PROVE  LET d == Turn(s, ci, slow)
         IN  /\ Sound(d) /\ Len(d.list) = Len(s.list)
             /\ \A x : x \in Range(d.list) <=> x \in Range(s.list)
             /\ SameWhens(s.job, d.job)
             /\ \A j \in Jobs : Served(s.job[j]) => Served(d.job[j])
             /\ Served(d.job[ci[1]])
             /\ \A x \in Intervals : x # ci => d.next[x] = s.next[x]
             /\ \A c \in Int : NotDue(s, c) => NotDue(d, c - 1)
             /\ 2 \in 1..Len(s.list) /\ s.next[s.list[2]] <= now => d.list[1] = s.list[2]
  <1> DEFINE j == ci[1]
             m == Reset(s, ci)
             rec == [m.job[j] EXCEPT !.pending = TRUE]
             t == [m EXCEPT !.job[j].pending = TRUE]
             d == job_dispatch(t, j, slow)
  <1>1. ci \in Mine(s.job) /\ j \in Jobs /\ s.job[j].state # "none"
    BY Loaded
  <1>2. s \in St /\ s.list \in Seq(Intervals) /\ 1 \in 1..Len(s.list) /\ Lined(s)
    <2>1. s \in St /\ s.list \in Seq(Intervals) /\ Lined(s)
      BY DEF Sound, Lined, St
    <2>2. PICK n \in 1..Len(s.list) : s.list[n] = ci
      BY <2>1, InRange
    <2>3. Len(s.list) \in Nat
      BY <2>1
    <2> QED
      BY <2>1, <2>2, <2>3
  <1>3. /\ Lined(m) /\ OnTime(m) /\ m.job = s.job /\ m.stale = s.stale
        /\ Len(m.list) = Len(s.list)
        /\ \A x : x \in Range(m.list) <=> x \in Range(s.list)
        /\ \A x \in Intervals : x # ci => m.next[x] = s.next[x]
        /\ \A c \in Int : NotDue(s, c) => NotDue(m, c - 1)
        /\ 2 \in 1..Len(s.list) /\ s.next[s.list[2]] <= now => m.list[1] = s.list[2]
    BY <1>1, <1>2, Turned DEF Reset
  <1> HIDE DEF m, j
  <1>4. m \in St /\ m.job[j] \in JobRec
    BY <1>1, <1>3 DEF Lined, St, Table
  <1>5. /\ rec \in JobRec /\ rec.pending /\ rec.whens = m.job[j].whens /\ rec.state = m.job[j].state
        /\ rec.removing = m.job[j].removing /\ rec.ran = m.job[j].ran
    BY <1>4 DEF JobRec
  <1>6. t = [m EXCEPT !.job[j] = rec]
    OBVIOUS
  <1> HIDE DEF rec, t
  <1>7. /\ t \in St /\ t.list = m.list /\ t.next = m.next /\ t.timer = m.timer /\ t.stale = m.stale
        /\ t.job[j] = rec /\ \A i \in Jobs : i # j => t.job[i] = m.job[i]
    BY <1>1, <1>4, <1>5, <1>6, JobChanged
  <1>8. JobsSound(t.job)
    <2>1. \A i \in Jobs : JobSound(i, s.job[i])
      BY DEF Sound, JobsSound
    <2>2. JobSound(j, rec)
      BY <1>1, <1>3, <1>5, <2>1 DEF JobSound
    <2> QED
      BY <1>3, <1>7, <2>1, <2>2 DEF JobsSound
  <1>9. t.job[j].state # "none"
    BY <1>1, <1>3, <1>5, <1>7
  <1>10. /\ d \in St /\ d.list = t.list /\ d.next = t.next /\ d.timer = t.timer /\ d.stale = t.stale
         /\ JobsSound(d.job) /\ \A i \in Jobs : d.job[i].whens = t.job[i].whens
         /\ \A i \in Jobs : Served(t.job[i]) => Served(d.job[i])
    BY <1>1, <1>7, <1>8, <1>9, Dispatched
  <1> HIDE DEF d
  <1>11. d.list = m.list /\ d.next = m.next /\ d.timer = m.timer /\ d.stale = s.stale
    BY <1>3, <1>7, <1>10
  <1>12. Lined(d) /\ OnTime(d)
    BY <1>3, <1>10, <1>11 DEF Lined, OnTime
  <1>13. SameWhens(s.job, d.job)
    BY <1>3, <1>5, <1>7, <1>10 DEF SameWhens
  <1>14. Mine(d.job) = Mine(s.job)
    <2>1. d.job \in Table /\ s.job \in Table
      BY <1>2, <1>10 DEF St
    <2> QED
      BY <1>13, <2>1, SameMine
  <1>15. Sound(d)
    BY <1>3, <1>10, <1>11, <1>12, <1>14 DEF Sound, Full
  <1>16. \A i \in Jobs : Served(s.job[i]) => Served(d.job[i])
    BY <1>3, <1>5, <1>7, <1>10 DEF Served
  <1>17. Served(d.job[j])
    BY <1>1, <1>5, <1>7, <1>10 DEF Served
  <1>18. \A c \in Int : NotDue(s, c) => NotDue(d, c - 1)
    BY <1>3, <1>11 DEF NotDue
  <1> QED
    BY <1>3, <1>11, <1>13, <1>15, <1>16, <1>17, <1>18 DEF d, t, m, j, Turn

\* One turn of the callback.
LEMMA Visited ==
  ASSUME NEW s0, NEW w, NEW k \in Nat, s0.job \in Table, Len(s0.list) \in Nat, Walk(s0, w, k),
         now \in 0..MaxTime, NEW slow
  PROVE  Walk(s0, visit(w, slow), k + 1)
  <1> DEFINE s  == w.s
             ci == w.ci
             q  == s.list
             N  == Len(s0.list)
             v  == visit(w, slow)
             i  == CHOOSE n \in 1..Len(q) : q[n] = ci
             follows == IF i < Len(q) THEN q[i + 1] ELSE ci
             d  == Turn(s, ci, slow)
             freed == follows \notin Range(d.list)
  <1>1. /\ w \in WalkRec /\ Sound(s) /\ Len(q) = N
        /\ SameWhens(s0.job, s.job)
        /\ DueKept(s0, s) /\ NotDue(s, N - k)
        /\ (~w.more => NotDue(s, 0))
        /\ (w.more => ci \in Range(q) /\ (q[1] = ci \/ NotDue(s, 0)))
    BY Zenon DEF Walk
  <1>2. v = IF ~w.more \/ s.next[ci] > now THEN [w EXCEPT !.more = FALSE]
            ELSE [s |-> IF follows # ci /\ freed THEN [d EXCEPT !.stale = TRUE] ELSE d,
                  ci |-> follows, more |-> follows # ci /\ ~freed]
    BY Zenon DEF visit, Turn, Reset
  <1>3. Lined(s) /\ s \in St /\ q \in Seq(Intervals) /\ s.next \in [Intervals -> Time] /\ Distinct(q) /\ s.job \in Table
    BY <1>1 DEF Sound, Lined, St
  <1>4. now \in Nat /\ \A x \in Intervals : s.next[x] \in Nat
    BY <1>3 DEF Time
  <1> HIDE DEF s, ci, v, d, i, follows, N, freed
  <1>5. CASE ~w.more \/ s.next[ci] > now
    <2>1. v = [w EXCEPT !.more = FALSE]
      BY <1>2, <1>5
    <2>3. v.s = s /\ v.ci = ci /\ v.more = FALSE /\ v \in WalkRec
      BY <1>1, <2>1 DEF WalkRec, s, ci
    <2>4. NotDue(s, 0)
      <3>1. CASE w.more /\ q[1] = ci
        <4>1. PICK n \in 1..Len(q) : q[n] = ci
          BY <1>1, <1>3, <3>1, InRange
        <4>2. 1 \in 1..Len(q) /\ now < s.next[q[1]]
          <5>1. Len(q) \in Nat
            BY <1>3
          <5>2. ci \in Intervals
            BY <1>3, <4>1, InRange
          <5>3. now < s.next[ci]
            BY <1>4, <1>5, <3>1, <5>2
          <5> QED
            BY <3>1, <4>1, <5>1, <5>3
        <4>3. NotDue(s, 1 - 1)
          BY <1>3, <4>2, HeadNotDue
        <4> QED
          BY <4>3
      <3> QED
        BY <1>1, <3>1
    <2>5. NotDue(s, N - (k + 1))
      BY <2>4 DEF NotDue
    <2> HIDE DEF v
    <2> QED
      BY <1>1, <2>3, <2>4, <2>5 DEF Walk, N, v
  <1>6. CASE w.more /\ ~(s.next[ci] > now)
    <2>1. ci \in Range(q) /\ ci \in Intervals
      BY <1>1, <1>3, <1>6, InRange
    <2>2. PICK n \in 1..Len(q) : q[n] = ci
      BY <1>3, <2>1, InRange
    <2>3. s.next[ci] <= now
      BY <1>4, <1>6, <2>1
    <2>4. q[1] = ci
      <3>1. ~NotDue(s, 0)
        BY <1>4, <2>1, <2>2, <2>3 DEF NotDue
      <3> QED
        BY <1>1, <1>6, <3>1
    <2>5. Len(q) \in Nat /\ 1 \in 1..Len(q)
      BY <1>3, <2>2
    <2>6. i = 1
      <3>1. i \in 1..Len(q) /\ q[i] = ci
        BY <2>2, Zenon DEF i
      <3> QED
        BY <1>3, <2>4, <2>5, <3>1 DEF Distinct
    <2>7. follows = IF 1 < Len(q) THEN q[2] ELSE ci
      BY <2>6 DEF follows
    <2>8. /\ Sound(d) /\ Len(d.list) = Len(q)
          /\ (\A x : x \in Range(d.list) <=> x \in Range(q))
          /\ SameWhens(s.job, d.job)
          /\ (\A j \in Jobs : Served(s.job[j]) => Served(d.job[j]))
          /\ Served(d.job[ci[1]])
          /\ (\A x \in Intervals : x # ci => d.next[x] = s.next[x])
          /\ (\A c \in Int : NotDue(s, c) => NotDue(d, c - 1))
          /\ (2 \in 1..Len(q) /\ s.next[q[2]] <= now => d.list[1] = q[2])
      <3>1. Sound(s) /\ ci \in Range(s.list) /\ s.list[1] = ci
        BY <1>1, <2>1, <2>4
      <3>2. d = Turn(s, ci, slow)
        BY DEF d
      <3> HIDE DEF d
      <3>3. Sound(d)
        BY <3>1, <3>2, TurnOfDue
      <3>4. Len(d.list) = Len(q)
        BY <3>1, <3>2, TurnOfDue
      <3>5. \A x : x \in Range(d.list) <=> x \in Range(q)
        BY <3>1, <3>2, TurnOfDue
      <3>6. SameWhens(s.job, d.job)
        BY <3>1, <3>2, TurnOfDue
      <3>10. \A j \in Jobs : Served(s.job[j]) => Served(d.job[j])
        BY <3>1, <3>2, TurnOfDue
      <3>11. Served(d.job[ci[1]])
        BY <3>1, <3>2, TurnOfDue
      <3>7. (\A x \in Intervals : x # ci => d.next[x] = s.next[x])
        BY <3>1, <3>2, TurnOfDue
      <3>8. (\A c \in Int : NotDue(s, c) => NotDue(d, c - 1))
        BY <3>1, <3>2, TurnOfDue
      <3>9. (2 \in 1..Len(q) /\ s.next[q[2]] <= now => d.list[1] = q[2])
        BY <3>1, <3>2, TurnOfDue
      <3> QED
        BY <3>3, <3>4, <3>5, <3>6, <3>7, <3>8, <3>9, <3>10, <3>11
    <2>9. follows \in Range(q) /\ ~freed
      <3>1. follows \in Range(q)
        <4>1. CASE 1 < Len(q)
          <5>1. 2 \in 1..Len(q)
            BY <2>5, <4>1
          <5> QED
            BY <1>3, <2>7, <4>1, <5>1, InRange
        <4>2. CASE ~(1 < Len(q))
          BY <2>1, <2>7, <4>2
        <4> QED
          BY <4>1, <4>2
      <3> QED
        BY <2>8, <3>1 DEF freed
    <2>10. v = [s |-> d, ci |-> follows, more |-> follows # ci]
      BY <1>2, <1>6, <2>9
    <2>11. v.s = d /\ v.ci = follows /\ v.more = (follows # ci) /\ v \in WalkRec
      <3>1. d \in St /\ follows \in Intervals
        BY <1>3, <2>8, <2>9, InRange DEF Sound, Lined
      <3> QED
        BY <2>10, <3>1 DEF WalkRec
    <2>12. CASE NotDue(s, 1)
      <3>1. NotDue(d, 1 - 1)
        BY <2>8, <2>12
      <3> QED
        <4>1. NotDue(d, 0)
          BY <3>1
        <4>2. NotDue(d, N - (k + 1))
          BY <4>1 DEF NotDue
        <4>3. DueKept(s0, d)
          <5> SUFFICES ASSUME NEW x \in Mine(s0.job), s0.next[x] <= now
                       PROVE  d.next[x] <= now \/ Served(d.job[x[1]])
            BY DEF DueKept
          <5>1. x \in Intervals /\ x[1] \in Jobs
            BY DEF Mine, Intervals
          <5>2. s.next[x] <= now \/ Served(s.job[x[1]])
            BY <1>1 DEF DueKept
          <5> QED
            BY <2>8, <5>1, <5>2
        <4>4. SameWhens(s0.job, d.job)
          BY <1>1, <2>8 DEF SameWhens
        <4>5. Len(d.list) = N /\ follows \in Range(d.list)
          BY <1>1, <2>8, <2>9
        <4> QED
          BY <2>8, <2>11, <4>1, <4>2, <4>3, <4>4, <4>5 DEF Walk, N, v
    <2>13. CASE ~NotDue(s, 1)
      <3>1. 2 \in 1..Len(q) /\ s.next[q[2]] <= now
        <4>1. 1 < Len(q)
          BY <2>5, <2>13 DEF NotDue
        <4>2. 2 \in 1..Len(q) /\ 2 - 1 = 1
          BY <2>5, <4>1
        <4>3. ~(now < s.next[q[2]])
          BY <1>3, <2>13, <4>2, HeadNotDue
        <4>4. q[2] \in Intervals
          BY <1>3, <4>2, InRange
        <4> QED
          BY <1>4, <4>2, <4>3, <4>4
      <3>2. follows = q[2] /\ d.list[1] = q[2]
        BY <2>5, <2>7, <2>8, <3>1
      <3>3. follows # ci
        BY <1>3, <2>4, <2>5, <3>1, <3>2 DEF Distinct
      <3>4. NotDue(d, N - (k + 1))
        <4>1. N - k \in Int /\ (N - k) - 1 = N - (k + 1)
          BY DEF N
        <4> QED
          BY <1>1, <2>8, <4>1
      <3>5. DueKept(s0, d)
        <5> SUFFICES ASSUME NEW x \in Mine(s0.job), s0.next[x] <= now
                     PROVE  d.next[x] <= now \/ Served(d.job[x[1]])
          BY DEF DueKept
        <5>1. x \in Intervals /\ x[1] \in Jobs
          BY DEF Mine, Intervals
        <5>2. s.next[x] <= now \/ Served(s.job[x[1]])
          BY <1>1 DEF DueKept
        <5> QED
          BY <2>8, <5>1, <5>2
      <3>6. SameWhens(s0.job, d.job)
        BY <1>1, <2>8 DEF SameWhens
      <3>7. Len(d.list) = N /\ follows \in Range(d.list)
        BY <1>1, <2>8, <2>9
      <3> QED
        BY <2>8, <2>11, <3>2, <3>3, <3>4, <3>5, <3>6, <3>7 DEF Walk, N, v
    <2> QED
      BY <2>12, <2>13
  <1> QED
    BY <1>5, <1>6

\* The callback keeps what the handlers keep, leaves nothing due behind and
\* serves the job of everything that was due.
LEMMA Called ==
  ASSUME NEW s, Sound(s), now \in 0..MaxTime, NEW slow
  PROVE  LET r == calendarinterval_callback(s, slow)
         IN  /\ Sound(r) /\ NotDue(r, 0) /\ DueKept(s, r)
             /\ Mine(r.job) = Mine(s.job)
  <1> DEFINE c == calendarinterval_callback(s, slow)
             N == Len(s.list)
  <1>1. s \in St /\ s.list \in Seq(Intervals) /\ s.job \in Table
    BY DEF Sound, Lined, St
  <1>2. N \in Nat
    BY <1>1
  <1>3. DueKept(s, s)
    BY DEF DueKept
  <1>4. CASE s.list = <<>>
    <2>1. c = s
      BY <1>4 DEF calendarinterval_callback
    <2>2. NotDue(s, 0)
      BY <1>4 DEF NotDue
    <2> QED
      BY <1>3, <2>1, <2>2
  <1>5. CASE s.list # <<>>
    <2>1. 1 \in 1..N
      BY <1>1, <1>5
    <2>2. PICK r : /\ r[0] = [s |-> s, ci |-> s.list[1], more |-> TRUE]
                   /\ \A i \in 1..N : r[i] = visit(r[i - 1], slow)
                   /\ c = r[N].s
      BY <1>2, <1>5, CallbackRuns
    <2> HIDE DEF c
    <2> DEFINE S == {n \in Nat : n <= N => Walk(s, r[n], n)}
    <2>3. 0 \in S
      <3>1. r[0].s = s /\ r[0].ci = s.list[1] /\ r[0].more = TRUE /\ r[0] \in WalkRec
        <4>1. s.list[1] \in Intervals
          BY <1>1, <2>1, InRange
        <4> QED
          BY <1>1, <2>2, <4>1 DEF WalkRec
      <3>2. NotDue(s, N - 0)
        BY <1>2 DEF NotDue
      <3>3. s.list[1] \in Range(s.list)
        BY <1>1, <2>1, InRange
      <3>4. Walk(s, r[0], 0)
        <4>1. SameWhens(s.job, s.job)
          BY DEF SameWhens
        <4> QED
          BY <1>3, <3>1, <3>2, <3>3, <4>1 DEF Walk
      <3> QED
        BY <3>4
    <2>4. ASSUME NEW n \in S PROVE n + 1 \in S
      <3> SUFFICES ASSUME n + 1 <= N PROVE Walk(s, r[n + 1], n + 1)
        OBVIOUS
      <3>1. n \in Nat /\ n + 1 \in 1..N /\ (n + 1) - 1 = n /\ n <= N
        BY <1>2
      <3>2. Walk(s, r[n], n)
        BY <3>1
      <3>3. r[n + 1] = visit(r[n], slow)
        BY <2>2, <3>1
      <3>4. Walk(s, visit(r[n], slow), n + 1)
        BY <1>1, <1>2, <3>1, <3>2, Visited
      <3> QED
        BY <3>3, <3>4
    <2> HIDE DEF S
    <2>5. S = Nat
      <3>1. S \in SUBSET Nat
        BY DEF S
      <3> QED
        BY <2>3, <2>4, <3>1, EveryNumber
    <2>6. N \in S /\ N <= N /\ N - N = 0
      BY <1>2, <2>5
    <2>7. Walk(s, r[N], N)
      BY <2>6 DEF S
    <2>8. Sound(c) /\ DueKept(s, c) /\ NotDue(c, N - N) /\ SameWhens(s.job, c.job)
      BY <2>2, <2>7 DEF Walk
    <2>9. c.job \in Table
      BY <2>8 DEF Sound, Lined, St
    <2>10. Mine(c.job) = Mine(s.job)
      BY <1>1, <2>8, <2>9, SameMine
    <2> QED
      BY <2>6, <2>8, <2>10 DEF c
  <1> QED
    BY <1>4, <1>5

-----------------------------------------------------------------------------
(* The invariant.                                                          *)

\* What every handler finds and leaves
IInv == Sound(State) /\ now \in 0..MaxTime /\ usr1 \in BOOLEAN /\ plist \in Plists

\* What a handler leaves, is the state after it.
LEMMA Became ==
  ASSUME NEW s \in St, Becomes(s)
  PROVE  State' = s
  BY DEF St, Becomes, State

\* The state of a handler is that of the variables.
LEMMA StateFields ==
  /\ State.job = job /\ State.list = list /\ State.next = next /\ State.timer = timer
  /\ State.stale = stale
  BY DEF State

\* Nothing is loaded at first.
LEMMA InitSound ==
  ASSUME Init PROVE IInv
  <1>1. 0 \in Time /\ None \in Time \cup {None} /\ 0 \in 0..MaxTime
    BY CalendarAssumption DEF Time
  <1>2. NoJob \in JobRec /\ NoJob.state = "none" /\ NoJob.whens = <<>>
    BY DEF NoJob, JobRec, Modes, WhensSets
  <1>3. job \in Table /\ \A j \in Jobs : job[j] = NoJob
    BY <1>2 DEF Init, Table
  <1>4. State \in St
    <2>1. list \in Seq(Intervals) /\ next \in [Intervals -> Time] /\ timer \in Time \cup {None}
      BY <1>1 DEF Init
    <2>2. stale \in BOOLEAN
      BY DEF Init
    <2> QED
      BY <1>3, <2>1, <2>2 DEF State, St
  <1>5. State.list = <<>> /\ Len(<<>>) = 0 /\ State.timer = None /\ State.stale = FALSE /\ State.job = job
    BY DEF Init, State
  <1>6. Lined(State) /\ OnTime(State)
    BY <1>4, <1>5 DEF Lined, Distinct, Sorted, OnTime
  <1>7. JobsSound(State.job)
    BY <1>2, <1>3, <1>5 DEF JobsSound, JobSound
  <1>8. Full(State)
    <2>1. \A ci \in Intervals : ci[1] \in Jobs /\ Len(job[ci[1]].whens) = 0
      BY <1>2, <1>3 DEF Intervals
    <2>2. Mine(State.job) = {}
      BY <1>5, <2>1 DEF Mine
    <2>3. Range(State.list) = {}
      BY <1>5 DEF Range
    <2> QED
      BY <2>2, <2>3 DEF Full
  <1> QED
    BY <1>1, <1>5, <1>6, <1>7, <1>8 DEF IInv, Sound, Init

\* The same list, timer and times, and jobs with the same intervals.
LEMMA SameList ==
  ASSUME NEW s, Sound(s), NEW t, t \in St, t.list = s.list, t.next = s.next, t.timer = s.timer, t.stale = s.stale,
         SameWhens(s.job, t.job)
  PROVE  Lined(t) /\ OnTime(t) /\ Full(t) /\ ~t.stale
  <1>1. Lined(t) /\ OnTime(t) /\ ~t.stale
    BY DEF Sound, Lined, OnTime
  <1>2. s.job \in Table /\ t.job \in Table
    BY DEF Sound, Lined, St
  <1>3. Mine(t.job) = Mine(s.job)
    BY <1>2, SameMine
  <1> QED
    BY <1>1, <1>3 DEF Sound, Full

\* A job whose process is gone: it is removed or dispatched.
LEMMA Reaped ==
  ASSUME NEW s, Sound(s), NEW j \in Jobs, s.job[j].state \in {"running", "throttled"}, NEW slow
  PROVE  Sound(job_dispatch([s EXCEPT !.job[j].state = "idle"], j, slow))
  <1> DEFINE rec == [s.job[j] EXCEPT !.state = "idle"]
             t   == [s EXCEPT !.job[j].state = "idle"]
             d   == job_dispatch(t, j, slow)
  <1>1. s \in St /\ s.job[j] \in JobRec
    BY DEF Sound, Lined, St, Table
  <1>2. /\ rec \in JobRec /\ rec.state = "idle" /\ rec.whens = s.job[j].whens
    BY <1>1 DEF JobRec, Modes
  <1>3. t = [s EXCEPT !.job[j] = rec]
    OBVIOUS
  <1> HIDE DEF rec, t
  <1>4. /\ t \in St /\ t.list = s.list /\ t.next = s.next /\ t.timer = s.timer /\ t.stale = s.stale
        /\ t.job[j] = rec /\ \A i \in Jobs : i # j => t.job[i] = s.job[i]
    BY <1>1, <1>2, <1>3, JobChanged
  <1>5. SameWhens(s.job, t.job)
    BY <1>2, <1>4 DEF SameWhens
  <1>6. Lined(t) /\ OnTime(t) /\ Full(t) /\ ~t.stale
    BY <1>4, <1>5, SameList
  <1>7. \A i \in Jobs : i # j => JobSound(i, t.job[i])
    BY <1>4 DEF Sound, JobsSound
  <1>8. t.job[j].state = "idle"
    BY <1>2, <1>4
  <1>9. CASE job_useless(t, j)
    <2>1. d = job_remove(t, j)
      BY <1>8, <1>9 DEF job_dispatch
    <2> DEFINE r == job_remove(t, j)
    <2>2. Lined(r) /\ OnTime(r) /\ Full(r) /\ JobsSound(r.job) /\ r.stale = t.stale
      BY <1>6, <1>7, <1>8, Gone
    <2> HIDE DEF r
    <2>3. Sound(r)
      BY <1>6, <2>2 DEF Sound
    <2> QED
      BY <2>1, <2>3 DEF r, t
  <1>10. CASE ~job_useless(t, j)
    <2>1. JobSound(j, t.job[j])
      BY <1>8, <1>10 DEF JobSound, job_useless
    <2>2. JobsSound(t.job)
      BY <1>7, <2>1 DEF JobsSound
    <2>3. Sound(t)
      BY <1>6, <2>2 DEF Sound
    <2>4. /\ d \in St /\ d.list = t.list /\ d.next = t.next /\ d.timer = t.timer /\ d.stale = t.stale
          /\ JobsSound(d.job) /\ \A i \in Jobs : d.job[i].whens = t.job[i].whens
      BY <1>4, <1>8, <2>2, Dispatched
    <2> HIDE DEF d
    <2>5. SameWhens(t.job, d.job)
      BY <2>4 DEF SameWhens
    <2>6. Lined(d) /\ OnTime(d) /\ Full(d) /\ ~d.stale
      BY <2>3, <2>4, <2>5, SameList
    <2>7. Sound(d)
      BY <2>4, <2>6 DEF Sound
    <2> QED
      BY <2>7 DEF d, t
  <1> QED
    BY <1>9, <1>10

\* A job is loaded with its intervals.
LEMMA Imported ==
  ASSUME NEW s, Sound(s), now \in 0..MaxTime, NEW j \in Jobs, s.job[j].state = "none", NEW w \in WhensSets
  PROVE  Sound(AddAll([s EXCEPT !.job[j] = [NoJob EXCEPT !.state = "idle", !.whens = w]], j))
  <1> DEFINE rec == [NoJob EXCEPT !.state = "idle", !.whens = w]
             t   == [s EXCEPT !.job[j] = rec]
             r   == AddAll(t, j)
             N   == Len(w)
  <1>1. s \in St /\ s.job[j] \in JobRec /\ s.job \in Table
    BY DEF Sound, Lined, St, Table
  <1>2. rec \in JobRec /\ rec.state = "idle" /\ rec.whens = w /\ rec.removing = FALSE /\ rec.ran = FALSE
    BY DEF NoJob, JobRec, Modes
  <1> HIDE DEF rec
  <1>3. /\ t \in St /\ t.list = s.list /\ t.next = s.next /\ t.timer = s.timer /\ t.stale = s.stale
        /\ t.job[j] = rec /\ \A i \in Jobs : i # j => t.job[i] = s.job[i]
    BY <1>1, <1>2, JobChanged
  <1> HIDE DEF t
  <1>4. Lined(t) /\ OnTime(t)
    BY <1>3 DEF Sound, Lined, OnTime
  <1>5. JobsSound(t.job)
    <2>1. JobSound(j, rec)
      BY <1>2 DEF JobSound
    <2> QED
      BY <1>3, <2>1 DEF Sound, JobsSound
  <1>6. t.job[j].whens = w
    BY <1>2, <1>3
  <1>7. \A x : x \in Mine(s.job) => x[1] # j
    <2> SUFFICES ASSUME NEW x \in Mine(s.job), x[1] = j PROVE FALSE
      OBVIOUS
    <2>1. s.job[j].whens = <<>>
      BY DEF Sound, JobsSound, JobSound
    <2>2. Len(<<>>) = 0
      OBVIOUS
    <2> QED
      BY <2>1, <2>2 DEF Mine
  <1>8. \A k \in 1..Len(t.job[j].whens) : <<j, k>> \notin Range(t.list)
    <2>1. \A x : x \in Range(t.list) => x \in Mine(s.job)
      BY <1>3 DEF Sound, Full
    <2>2. \A k : <<j, k>>[1] = j
      OBVIOUS
    <2> QED
      BY <1>7, <2>1, <2>2
  <1>9. /\ Lined(r) /\ OnTime(r) /\ r.job = t.job /\ r.stale = t.stale
        /\ \A x : x \in Range(r.list) <=> x \in Range(t.list) \/ \E k \in 1..Len(t.job[j].whens) : x = <<j, k>>
    BY <1>4, <1>8, AllAdded
  <1> HIDE DEF r
  <1>10. Full(r)
    <2> SUFFICES ASSUME NEW x PROVE x \in Range(r.list) <=> x \in Mine(r.job)
      BY DEF Full
    <2>1. x \in Range(r.list) <=> x \in Mine(s.job) \/ \E k \in 1..N : x = <<j, k>>
      BY <1>3, <1>6, <1>9 DEF Sound, Full
    <2>2. t.job \in Table
      BY <1>3 DEF St
    <2>3. \A k \in 1..N : <<j, k>> \in Mine(t.job)
      BY <1>6, <2>2, Numbered
    <2>4. ASSUME x \in Intervals, x[1] = j, x \in Mine(t.job) PROVE \E k \in 1..N : x = <<j, k>>
      <3>1. x[2] \in 1..N
        BY <1>6, <2>4 DEF Mine
      <3>2. x = <<x[1], x[2]>>
        BY <2>4 DEF Intervals
      <3> QED
        BY <2>4, <3>1, <3>2
    <2>5. ASSUME x \in Intervals, x[1] # j PROVE x \in Mine(t.job) <=> x \in Mine(s.job)
      <3>1. x[1] \in Jobs
        BY <2>5 DEF Intervals
      <3>2. t.job[x[1]] = s.job[x[1]]
        BY <1>3, <2>5, <3>1
      <3> QED
        BY <2>5, <3>2 DEF Mine
    <2>6. x \in Mine(s.job) \/ x \in Mine(t.job) => x \in Intervals
      BY DEF Mine
    <2> HIDE DEF N
    <2> QED
      BY <1>7, <1>9, <2>1, <2>3, <2>4, <2>5, <2>6
  <1>11. Sound(r)
    BY <1>3, <1>5, <1>9, <1>10 DEF Sound
  <1> QED
    BY <1>11 DEF r, t, rec

\* Unload: a running job is marked, another is removed.
LEMMA Unloaded ==
  ASSUME NEW s, Sound(s), NEW j \in Jobs
  PROVE  Sound(job_remove(s, j))
  <1> DEFINE r == job_remove(s, j)
  <1>1. s \in St /\ s.job[j] \in JobRec /\ \A i \in Jobs : JobSound(i, s.job[i])
    BY DEF Sound, Lined, St, Table, JobsSound
  <1>2. CASE s.job[j].state = "running"
    <2> DEFINE rec == [s.job[j] EXCEPT !.removing = TRUE]
    <2>1. r = [s EXCEPT !.job[j] = rec]
      BY <1>2 DEF job_remove
    <2>2. rec \in JobRec /\ rec.state = "running" /\ rec.whens = s.job[j].whens
      BY <1>1, <1>2 DEF JobRec
    <2> HIDE DEF rec, r
    <2>3. /\ r \in St /\ r.list = s.list /\ r.next = s.next /\ r.timer = s.timer /\ r.stale = s.stale
          /\ r.job[j] = rec /\ \A i \in Jobs : i # j => r.job[i] = s.job[i]
      BY <1>1, <2>1, <2>2, JobChanged
    <2>4. SameWhens(s.job, r.job)
      BY <2>2, <2>3 DEF SameWhens
    <2>5. Lined(r) /\ OnTime(r) /\ Full(r) /\ ~r.stale
      BY <2>3, <2>4, SameList
    <2>6. JobSound(j, rec)
      BY <2>2 DEF JobSound
    <2>7. JobsSound(r.job)
      BY <1>1, <2>3, <2>6 DEF JobsSound
    <2>8. Sound(r)
      BY <2>5, <2>7 DEF Sound
    <2> QED
      BY <2>8 DEF r
  <1>3. CASE s.job[j].state # "running"
    <2>1. Lined(r) /\ OnTime(r) /\ Full(r) /\ JobsSound(r.job) /\ r.stale = s.stale
      BY <1>1, <1>3, Gone DEF Sound
    <2> HIDE DEF r
    <2>2. Sound(r)
      BY <2>1 DEF Sound
    <2> QED
      BY <2>2 DEF r
  <1> QED
    BY <1>2, <1>3

\* The timer fires once and is then not armed.
LEMMA FiredSound ==
  ASSUME Sound(State) PROVE Sound([State EXCEPT !.timer = None])
  <1> DEFINE t == [State EXCEPT !.timer = None]
  <1>1. State \in St
    BY DEF Sound, Lined
  <1>2. /\ t \in St /\ t.timer = None /\ t.list = State.list /\ t.next = State.next /\ t.job = State.job
        /\ t.stale = State.stale
    BY <1>1 DEF St
  <1> HIDE DEF t
  <1>3. Lined(t) /\ OnTime(t)
    BY <1>2 DEF Sound, Lined, OnTime
  <1>4. Sound(t)
    BY <1>2, <1>3 DEF Sound, Full
  <1> QED
    BY <1>4 DEF t

\* Every handler keeps the invariant.
LEMMA NextSound ==
  ASSUME IInv, [Next]_vars
  PROVE  IInv'
  <1>1. Sound(State) /\ State \in St /\ now \in 0..MaxTime /\ usr1 \in BOOLEAN /\ plist \in Plists
    BY DEF IInv, Sound, Lined
  <1>2. \A s : Sound(s) => s \in St
    BY DEF Sound, Lined
  <1>3. ASSUME NEW j \in Jobs, Load(j) PROVE IInv'
    <2> DEFINE w == Whens(plist[j])
               n == AddAll([State EXCEPT !.job[j] = [NoJob EXCEPT !.state = "idle", !.whens = w]], j)
    <2>1. w \in WhensSets
      BY <1>1 DEF WhensSets
    <2>2. State.job[j].state = "none"
      BY <1>3, StateFields DEF Load
    <2> HIDE DEF w
    <2>3. Sound(n)
      BY <1>1, <2>1, <2>2, Imported
    <2>4. Becomes(n) /\ UNCHANGED <<plist, now, usr1>>
      BY <1>3 DEF Load, w
    <2> HIDE DEF n
    <2>5. State' = n
      BY <1>2, <2>3, <2>4, Became
    <2> QED
      BY <1>1, <2>3, <2>4, <2>5 DEF IInv
  <1>4. ASSUME NEW j \in Jobs, Throttled(j) PROVE IInv'
    <2> DEFINE n == job_dispatch([State EXCEPT !.job[j].state = "idle"], j, {})
    <2>1. State.job[j].state \in {"running", "throttled"}
      BY <1>4, StateFields DEF Throttled
    <2>2. Sound(n)
      BY <1>1, <2>1, Reaped
    <2>3. Becomes(n) /\ UNCHANGED <<plist, now, usr1>>
      BY <1>4 DEF Throttled
    <2> HIDE DEF n
    <2>4. State' = n
      BY <1>2, <2>2, <2>3, Became
    <2> QED
      BY <1>1, <2>2, <2>3, <2>4 DEF IInv
  <1>5. ASSUME NEW j \in Jobs, Unload(j) PROVE IInv'
    <2> DEFINE n == job_remove(State, j)
    <2>1. Sound(n)
      BY <1>1, Unloaded
    <2>2. Becomes(n) /\ UNCHANGED <<plist, now, usr1>>
      BY <1>5 DEF Unload
    <2> HIDE DEF n
    <2>3. State' = n
      BY <1>2, <2>1, <2>2, Became
    <2> QED
      BY <1>1, <2>1, <2>2, <2>3 DEF IInv
  <1>6. ASSUME NEW slow \in Slow, TimerFires(slow) PROVE IInv'
    <2> DEFINE s == [State EXCEPT !.timer = None]
               n == calendarinterval_callback(s, slow)
    <2>1. Sound(s)
      BY <1>1, FiredSound
    <2>2. Becomes(n) /\ UNCHANGED <<plist, now, usr1>>
      BY <1>6 DEF TimerFires
    <2> HIDE DEF s
    <2>3. Sound(n)
      BY <1>1, <2>1, Called
    <2> HIDE DEF n
    <2>4. State' = n
      BY <1>2, <2>2, <2>3, Became
    <2> QED
      BY <1>1, <2>2, <2>3, <2>4 DEF IInv
  <1>7. ASSUME NEW slow \in Slow, Signalled(slow) PROVE IInv'
    <2> DEFINE n == calendarinterval_callback(State, slow)
    <2>1. Becomes(n) /\ UNCHANGED <<plist, now>> /\ usr1' = FALSE
      BY <1>7 DEF Signalled
    <2>2. Sound(n)
      BY <1>1, Called
    <2> HIDE DEF n
    <2>3. State' = n
      BY <1>2, <2>1, <2>2, Became
    <2> QED
      BY <1>1, <2>1, <2>2, <2>3 DEF IInv
  <1>8. ASSUME NEW slow \in Slow, NEW j \in Jobs, Exit(j, slow) PROVE IInv'
    <2> DEFINE n == job_dispatch([State EXCEPT !.job[j].state = "idle"], j, slow)
    <2>1. State.job[j].state \in {"running", "throttled"}
      BY <1>8, StateFields DEF Exit
    <2>2. Sound(n)
      BY <1>1, <2>1, Reaped
    <2>3. Becomes(n) /\ UNCHANGED <<plist, now, usr1>>
      BY <1>8 DEF Exit
    <2> HIDE DEF n
    <2>4. State' = n
      BY <1>2, <2>2, <2>3, Became
    <2> QED
      BY <1>1, <2>2, <2>3, <2>4 DEF IInv
  <1>9. CASE MigReturn
    <2>1. State' = State /\ UNCHANGED <<now, plist>>
      BY <1>9 DEF MigReturn, State
    <2>2. usr1' \in BOOLEAN
      BY <1>9 DEF MigReturn
    <2>3. Sound(State')
      BY <1>1, <2>1
    <2> QED
      BY <1>1, <2>1, <2>2, <2>3 DEF IInv
  <1>10. ASSUME NEW d \in Ticks, Tick(d) PROVE IInv'
    <2>1. State' = State /\ UNCHANGED <<usr1, plist>>
      BY <1>10 DEF Tick, State
    <2>2. now' \in 0..MaxTime
      BY <1>1, <1>10, CalendarAssumption DEF Tick
    <2>3. Sound(State')
      BY <1>1, <2>1
    <2> QED
      BY <1>1, <2>1, <2>2, <2>3 DEF IInv
  <1>11. CASE UNCHANGED vars
    <2>1. State' = State /\ UNCHANGED <<usr1, plist, now>>
      BY <1>11 DEF vars, State
    <2>2. Sound(State')
      BY <1>1, <2>1
    <2> QED
      BY <1>1, <2>1, <2>2 DEF IInv
  <1> QED
    BY <1>3, <1>4, <1>5, <1>6, <1>7, <1>8, <1>9, <1>10, <1>11 DEF Next

\* For every run of the daemon, the list, its timer and the jobs are as the
\* handlers of core.c rely on.
THEOREM Invariance == Spec => []IInv
  <1>1. Init => IInv
    BY InitSound
  <1>2. IInv /\ [Next]_vars => IInv'
    BY NextSound
  <1> QED
    BY <1>1, <1>2, PTL DEF Spec

\* For every run of the daemon, the list holds each interval of every loaded
\* job once and in the order of the times, and the timer is never late for
\* its head (calendarinterval_setalarm, calendarinterval_delete).
THEOREM AlarmsAlwaysAgree == Spec => []AlarmsAgree
  <1>1. IInv => AlarmsAgree
    <2> SUFFICES ASSUME IInv PROVE AlarmsAgree
      OBVIOUS
    <2>1. /\ job \in Table /\ list \in Seq(Intervals) /\ next \in [Intervals -> Time] /\ stale \in BOOLEAN
          /\ timer \in Time \cup {None}
      BY StateFields DEF IInv, Sound, Lined, St
    <2>2. /\ Distinct(list) /\ Sorted(list, next) /\ \A x : x \in Range(list) <=> x \in Mine(job)
      BY StateFields DEF IInv, Sound, Lined, Full
    <2>3. Len(list) \in Nat /\ DOMAIN list = 1..Len(list)
      BY <2>1
    <2>4. TypeOK
      <3>1. now \in Time
        BY CalendarAssumption DEF IInv, Time
      <3>2. \A j \in Jobs : job[j].state \in {"none", "idle", "throttled", "running"}
        BY <2>1 DEF Table, JobRec, Modes
      <3> QED
        BY <2>1, <3>1, <3>2 DEF TypeOK, IInv
    <2>5. ListAgrees
      <3>1. \A i \in 2..Len(list) : next[list[i - 1]] <= next[list[i]]
        <4> SUFFICES ASSUME NEW i \in 2..Len(list) PROVE next[list[i - 1]] <= next[list[i]]
          OBVIOUS
        <4>1. i - 1 \in 1..Len(list) /\ i \in 1..Len(list) /\ i - 1 <= i
          BY <2>3
        <4> QED
          BY <2>2, <4>1 DEF Sorted
      <3>2. IsInjective(list)
        BY <2>2, <2>3 DEF IsInjective, Distinct
      <3>3. ASSUME NEW x PROVE x \in Mine(job) <=> \E j \in Jobs : x \in {j} \X DOMAIN job[j].whens
        <4>1. \A j \in Jobs : /\ DOMAIN job[j].whens = 1..Len(job[j].whens)
                              /\ \A k \in 1..Len(job[j].whens) : <<j, k>> \in Mine(job)
          <5> SUFFICES ASSUME NEW j \in Jobs PROVE /\ DOMAIN job[j].whens = 1..Len(job[j].whens)
                                                   /\ \A k \in 1..Len(job[j].whens) : <<j, k>> \in Mine(job)
            OBVIOUS
          <5>1. job[j].whens \in WhensSets
            BY <2>1 DEF Table, JobRec
          <5>2. Timely(job[j].whens)
            BY <5>1, AllTimely
          <5> QED
            BY <2>1, <5>2, Numbered DEF Timely
        <4>2. ASSUME x \in Mine(job) PROVE \E j \in Jobs : x \in {j} \X DOMAIN job[j].whens
          <5>1. x[1] \in Jobs /\ x[2] \in 1..Len(job[x[1]].whens) /\ x = <<x[1], x[2]>>
            BY <4>2 DEF Mine, Intervals
          <5>2. x[2] \in DOMAIN job[x[1]].whens
            BY <4>1, <5>1
          <5>3. x \in {x[1]} \X DOMAIN job[x[1]].whens
            BY <5>1, <5>2
          <5> QED
            BY <5>1, <5>3
        <4>3. ASSUME NEW j \in Jobs, x \in {j} \X DOMAIN job[j].whens PROVE x \in Mine(job)
          <5>1. x = <<j, x[2]>> /\ x[2] \in 1..Len(job[j].whens)
            BY <4>1, <4>3
          <5>2. <<j, x[2]>> \in Mine(job)
            BY <4>1, <5>1
          <5> QED
            BY <5>1, <5>2
        <4> QED
          BY <4>2, <4>3
      <3>4. Range(list) = UNION {{j} \X DOMAIN job[j].whens : j \in Jobs}
        BY <2>2, <3>3
      <3> QED
        BY <3>1, <3>2, <3>4 DEF ListAgrees
    <2>6. AlarmInTime
      <3> SUFFICES ASSUME timer # None, list # <<>> PROVE timer <= next[Head(list)]
        BY DEF AlarmInTime
      <3>1. 1 \in 1..Len(list) /\ Head(list) = list[1]
        BY <2>1
      <3>2. OnTime(State)
        BY DEF IInv, Sound
      <3> QED
        BY <3>1, <3>2, StateFields DEF OnTime
    <2> QED
      BY <2>4, <2>5, <2>6 DEF AlarmsAgree
  <1> QED
    BY <1>1, Invariance, PTL

\* For every run of the daemon, the callback never goes on from an interval
\* that the dispatch of a job has freed (LIST_FOREACH_SAFE in
\* calendarinterval_callback).
THEOREM WalkAlwaysSafe == Spec => []WalkIsSafe
  <1>1. IInv => WalkIsSafe
    BY StateFields DEF IInv, Sound, WalkIsSafe
  <1> QED
    BY <1>1, Invariance, PTL

\* Every callback sets each interval that was due for later, and its job runs
\* or will be started (calendarinterval_callback, job_dispatch).
THEOREM DueAlwaysServed == Spec => DueServed
  <1> DEFINE Due == (\E slow \in Slow : TimerFires(slow) \/ Signalled(slow)) =>
                      \A i \in DOMAIN list :
                        next[list[i]] <= now =>
                          /\ next'[list[i]] > now
                          /\ LET j == list[i][1] IN job'[j].state = "running" \/ job'[j].pending
  <1>1. ASSUME IInv, [Next]_vars PROVE [Due]_vars
    <2> SUFFICES ASSUME NEW slow \in Slow, TimerFires(slow) \/ Signalled(slow),
                        NEW i \in DOMAIN list, next[list[i]] <= now
                 PROVE  next'[list[i]] > now /\ Served(job'[list[i][1]])
      BY DEF Served
    <2>1. Sound(State) /\ now \in 0..MaxTime
      BY <1>1 DEF IInv
    <2>2. PICK s : /\ Sound(s) /\ s.list = list /\ s.next = next
                   /\ Becomes(calendarinterval_callback(s, slow))
      <3>1. CASE TimerFires(slow)
        <4> DEFINE u == [State EXCEPT !.timer = None]
        <4>1. Sound(u)
          BY <2>1, FiredSound
        <4>2. u.list = list /\ u.next = next
          BY DEF State
        <4>3. Becomes(calendarinterval_callback(u, slow))
          BY <3>1 DEF TimerFires
        <4> HIDE DEF u
        <4> QED
          BY <4>1, <4>2, <4>3
      <3>2. CASE Signalled(slow)
        BY <2>1, <3>2, StateFields DEF Signalled
      <3> QED
        BY <3>1, <3>2
    <2> DEFINE r == calendarinterval_callback(s, slow)
               x == list[i]
    <2>3. Sound(r) /\ NotDue(r, 0) /\ DueKept(s, r) /\ Mine(r.job) = Mine(s.job)
      BY <2>1, <2>2, Called
    <2>4. job' = r.job /\ next' = r.next
      BY <2>2 DEF Becomes
    <2> HIDE DEF r
    <2>5. s.list \in Seq(Intervals) /\ r.list \in Seq(Intervals) /\ r.next \in [Intervals -> Time]
      BY <2>2, <2>3 DEF Sound, Lined, St
    <2>6. x \in Range(s.list) /\ x \in Intervals
      BY <2>2, <2>5, InRange
    <2>7. x \in Mine(s.job) /\ x \in Range(r.list)
      BY <2>2, <2>3, <2>6 DEF Sound, Full
    <2>8. PICK n \in 1..Len(r.list) : r.list[n] = x
      BY <2>5, <2>7, InRange
    <2>9. now < r.next[x]
      BY <2>3, <2>5, <2>8 DEF NotDue
    <2>10. r.next[x] \in Nat /\ now \in Nat
      BY <2>1, <2>5, <2>6 DEF Time
    <2>11. Served(r.job[x[1]])
      BY <2>2, <2>3, <2>7, <2>9, <2>10 DEF DueKept
    <2> QED
      BY <2>4, <2>9, <2>10, <2>11
  <1> QED
    BY <1>1, Invariance, PTL DEF Spec, DueServed
=============================================================================
