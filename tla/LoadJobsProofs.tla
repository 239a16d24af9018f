--------------------------- MODULE LoadJobsProofs ---------------------------
(***************************************************************************)
(* For every set of property lists, every script of every launchctl        *)
(* process and every interleaving of them, deaths included: launchd's      *)
(* lists and pointers are those of the jobs it has, and the overrides      *)
(* database keeps what it was told and is obeyed.                          *)
(***************************************************************************)
EXTENDS LoadJobs, WellFoundedInduction, TLAPS

Uuids   == {NullUuid} \cup {<<c, n>> : c \in Clients, n \in Nat \ {0}}
KeySets == {Plist[f].keys : f \in Files} \cup {{}, {"KeepAlive"}}
Errnos  == {"0", "ENEEDAUTH", "EINVAL", "EEXIST"}

JobRec ==
  [there : BOOLEAN, label : Labels \cup {"none"}, mgr : Managers \cup {RootMgr}, keys : KeySets,
   ondemand : BOOLEAN, start_pending : BOOLEAN, uuid : Uuids, monitor : BOOLEAN, running : BOOLEAN,
   removal_pending : BOOLEAN]

LSt ==
  [job : [Ids -> JobRec], next : 1..(MaxJobs + 1), mgrjobs : [Managers -> Seq(Ids)], needing : Seq(Ids),
   errno : Errnos, monitor : Ids \cup {NoJob}]

\* No job is on a list twice
Once(q) == \A a, b \in 1..Len(q) : q[a] = q[b] => a = b

\* A job has a manager and was imported before; nothing is left of one that is gone
Young(s) ==
  \A i \in Ids : IF s.job[i].there THEN i < s.next /\ s.job[i].mgr \in Managers
                 ELSE s.job[i].uuid = NullUuid

Needed(s) ==
  /\ Once(s.needing)
  /\ \A i \in Ids : i \in Range(s.needing) <=> s.job[i].there /\ s.job[i].uuid # NullUuid

Managed(s) ==
  \A m \in Managers :
    /\ Once(s.mgrjobs[m])
    /\ \A i \in Ids : i \in Range(s.mgrjobs[m]) <=> s.job[i].there /\ s.job[i].mgr = m

Labelled(s) ==
  \A i, j \in Ids :
    /\ s.job[i].there /\ ~s.job[i].removal_pending
    /\ s.job[j].there /\ ~s.job[j].removal_pending
    /\ s.job[i].label = s.job[j].label
    => i = j

Monitored(s) == \A i \in Ids : s.job[i].there /\ s.job[i].monitor <=> s.monitor = i

Good(s) == s \in LSt /\ Young(s) /\ Needed(s) /\ Managed(s) /\ Labelled(s) /\ Monitored(s)

-----------------------------------------------------------------------------
(* Lists.                                                                  *)

\* A list is a sequence, and its members are what it has at its places.
LEMMA InRange ==
  ASSUME NEW S, NEW q \in Seq(S)
  PROVE  /\ \A x : x \in Range(q) <=> \E n \in 1..Len(q) : q[n] = x
         /\ \A n \in 1..Len(q) : q[n] \in S
         /\ Len(q) \in Nat /\ Range(q) \subseteq S
  BY DEF Range

LEMMA HeadInserted ==
  ASSUME NEW S, NEW q \in Seq(S), NEW i \in S, Once(q), i \notin Range(q)
  PROVE  LET r == <<i>> \o q
         IN  r \in Seq(S) /\ Once(r) /\ \A x : x \in Range(r) <=> x = i \/ x \in Range(q)
  <1> DEFINE r == <<i>> \o q
  <1>1. r \in Seq(S) /\ Len(r) = Len(q) + 1 /\ r[1] = i /\ \A n \in 2..Len(r) : r[n] = q[n - 1]
    OBVIOUS
  <1>2. Len(q) \in Nat
    OBVIOUS
  <1> HIDE DEF r
  <1>3. \A n \in 1..Len(r) : n = 1 \/ (n - 1 \in 1..Len(q) /\ r[n] = q[n - 1])
    BY <1>1, <1>2
  <1>4. \A n \in 1..Len(q) : n + 1 \in 1..Len(r) /\ r[n + 1] = q[n]
    BY <1>1, <1>2
  <1>5. \A n \in 1..Len(q) : q[n] # i
    BY InRange
  <1>6. Once(r)
    <2> SUFFICES ASSUME NEW a \in 1..Len(r), NEW b \in 1..Len(r), r[a] = r[b]
                 PROVE  a = b
      BY DEF Once
    <2>1. CASE a = 1
      BY <1>1, <1>3, <1>5, <2>1
    <2>2. CASE b = 1
      BY <1>1, <1>3, <1>5, <2>2
    <2>3. CASE a # 1 /\ b # 1
      <3>1. a - 1 \in 1..Len(q) /\ b - 1 \in 1..Len(q) /\ q[a - 1] = q[b - 1]
        BY <1>3, <2>3
      <3>2. a - 1 = b - 1
        BY <3>1 DEF Once
      <3> QED
        BY <3>2
    <2> QED
      BY <2>1, <2>2, <2>3
  <1>7. \A x : x \in Range(r) <=> x = i \/ x \in Range(q)
    <2> SUFFICES ASSUME NEW x PROVE x \in Range(r) <=> x = i \/ x \in Range(q)
      OBVIOUS
    <2>1. x \in Range(r) <=> \E n \in 1..Len(r) : r[n] = x
      BY <1>1, InRange
    <2>2. x \in Range(q) <=> \E n \in 1..Len(q) : q[n] = x
      BY InRange
    <2>3. 1 \in 1..Len(r)
      BY <1>1, <1>2
    <2> QED
      BY <1>1, <1>3, <1>4, <2>1, <2>2, <2>3
  <1> QED
    BY <1>1, <1>6, <1>7 DEF r

LEMMA Unlinked ==
  ASSUME NEW S, NEW q \in Seq(S), NEW i, Once(q)
  PROVE  LET r == LIST_REMOVE(q, i)
         IN  r \in Seq(S) /\ Once(r) /\ \A x : x \in Range(r) <=> x # i /\ x \in Range(q)
  <1> DEFINE r == LIST_REMOVE(q, i)
             n == CHOOSE n \in 1..Len(q) : q[n] = i
             short == [k \in 1..(Len(q) - 1) |-> IF k < n THEN q[k] ELSE q[k + 1]]
  <1>1. CASE i \notin Range(q)
    <2>1. r = q
      BY <1>1 DEF LIST_REMOVE
    <2> QED
      BY <1>1, <2>1
  <1>2. CASE i \in Range(q)
    <2>1. r = short
      BY <1>2 DEF LIST_REMOVE
    <2>2. n \in 1..Len(q) /\ q[n] = i
      BY <1>2, InRange
    <2> HIDE DEF n
    <2>3. Len(q) \in Nat /\ \A k \in 1..Len(q) : q[k] \in S
      BY InRange
    <2>4. \A k \in 1..(Len(q) - 1) : k \in 1..Len(q) /\ k + 1 \in 1..Len(q) /\ short[k] \in S
      BY <2>2, <2>3
    <2>5. Len(q) - 1 \in Nat
      BY <2>2, <2>3
    <2>6. short \in Seq(S) /\ Len(short) = Len(q) - 1
      BY <2>4, <2>5
    <2>7. \A k \in 1..Len(short) : short[k] = IF k < n THEN q[k] ELSE q[k + 1]
      BY <2>6
    <2> HIDE DEF short
    <2>8. Once(short)
      <3> SUFFICES ASSUME NEW a \in 1..Len(short), NEW b \in 1..Len(short), short[a] = short[b]
                   PROVE  a = b
        BY DEF Once
      <3> DEFINE at(k) == IF k < n THEN k ELSE k + 1
      <3>1. at(a) \in 1..Len(q) /\ at(b) \in 1..Len(q) /\ q[at(a)] = q[at(b)]
        BY <2>2, <2>3, <2>6, <2>7
      <3>2. at(a) = at(b)
        BY <3>1 DEF Once
      <3> QED
        BY <2>2, <2>3, <2>6, <3>2
    <2>9. ASSUME NEW x PROVE x \in Range(short) <=> x # i /\ x \in Range(q)
      <3>1. x \in Range(short) <=> \E k \in 1..Len(short) : short[k] = x
        BY <2>6, InRange
      <3>2. x \in Range(q) <=> \E k \in 1..Len(q) : q[k] = x
        BY InRange
      <3>3. ASSUME NEW k \in 1..Len(short), short[k] = x PROVE x # i /\ x \in Range(q)
        <4>1. k \in 1..Len(q) /\ k + 1 \in 1..Len(q) /\ k + 1 # k
          BY <2>3, <2>6
        <4>2. CASE k < n
          <5>1. x = q[k] /\ k # n
            BY <2>2, <2>3, <2>7, <3>3, <4>2, <4>1
          <5> QED
            BY <2>2, <3>2, <4>1, <5>1 DEF Once
        <4>3. CASE ~(k < n)
          <5>1. x = q[k + 1] /\ k + 1 # n
            BY <2>2, <2>3, <2>7, <3>3, <4>3, <4>1
          <5> QED
            BY <2>2, <3>2, <4>1, <5>1 DEF Once
        <4> QED
          BY <4>2, <4>3
      <3>4. ASSUME x # i, NEW k \in 1..Len(q), q[k] = x PROVE \E j \in 1..Len(short) : short[j] = x
        <4>1. k # n
          BY <2>2, <3>4
        <4>2. CASE k < n
          <5>1. k \in 1..Len(short) /\ short[k] = x
            BY <2>2, <2>3, <2>6, <2>7, <3>4, <4>2
          <5> QED
            BY <5>1
        <4>3. CASE k > n
          <5>1. k - 1 \in 1..Len(short) /\ ~(k - 1 < n) /\ (k - 1) + 1 = k
            BY <2>2, <2>3, <2>6, <4>3
          <5>2. short[k - 1] = x
            BY <2>7, <3>4, <5>1
          <5> QED
            BY <5>1, <5>2
        <4> QED
          BY <2>2, <2>3, <4>1, <4>2, <4>3
      <3> QED
        BY <3>1, <3>2, <3>3, <3>4
    <2> QED
      BY <2>1, <2>6, <2>8, <2>9
  <1> QED
    BY <1>1, <1>2

-----------------------------------------------------------------------------
(* What the operators on launchd's state do to a good one.                 *)

\* A job that differs from another in what the lists do not look at
Alike(j, k) ==
  /\ k.there = j.there /\ k.label = j.label /\ k.mgr = j.mgr /\ k.uuid = j.uuid /\ k.monitor = j.monitor
  /\ k.removal_pending = j.removal_pending

\* The jobs of t are those of s, or have one of the labels L
Brings(s, t, L) ==
  \A k \in Ids : t.job[k].there =>
    (s.job[k].there /\ t.job[k].label = s.job[k].label) \/ t.job[k].label \in L

LEMMA SameLists ==
  ASSUME NEW s, Good(s), NEW t \in LSt,
         t.next = s.next, t.mgrjobs = s.mgrjobs, t.needing = s.needing, t.monitor = s.monitor,
         \A i \in Ids : Alike(s.job[i], t.job[i])
  PROVE  Good(t)
  <1>1. Young(t)
    BY DEF Good, Young, Alike
  <1>2. Needed(t)
    BY DEF Good, Needed, Alike
  <1>3. Managed(t)
    BY DEF Good, Managed, Alike
  <1>4. Labelled(t)
    BY DEF Good, Labelled, Alike
  <1>5. Monitored(t)
    BY DEF Good, Monitored, Alike
  <1> QED
    BY <1>1, <1>2, <1>3, <1>4, <1>5 DEF Good

LEMMA Dispatched ==
  ASSUME NEW j \in JobRec, NEW kickstart
  PROVE  dispatched(j, kickstart) \in JobRec /\ Alike(j, dispatched(j, kickstart))
  <1> DEFINE k == [j EXCEPT !.running = TRUE, !.start_pending = FALSE]
  <1>1. k \in JobRec /\ Alike(j, k)
    BY DEF JobRec, Alike
  <1>2. Alike(j, j)
    BY DEF Alike
  <1>3. dispatched(j, kickstart) \in {j, k}
    BY DEF dispatched
  <1> QED
    BY <1>1, <1>2, <1>3

\* Dispatching leaves the lists as they are.
LEMMA DispatchGood ==
  ASSUME NEW s, Good(s), NEW i \in Ids, NEW kickstart
  PROVE  LET t == job_dispatch(s, i, kickstart)
         IN  /\ Good(t) /\ t.next = s.next /\ t.errno = s.errno
             /\ \A k \in Ids : Alike(s.job[k], t.job[k])
  <1> DEFINE j == s.job[i]
             fn == [s.job EXCEPT ![i] = dispatched(j, kickstart)]
             t == job_dispatch(s, i, kickstart)
  <1>1. s \in LSt /\ s.job \in [Ids -> JobRec]
    BY DEF Good, LSt
  <1>2. t = [s EXCEPT !.job = fn]
    BY <1>1 DEF job_dispatch, LSt
  <1>3. dispatched(j, kickstart) \in JobRec /\ Alike(j, dispatched(j, kickstart))
    BY <1>1, Dispatched
  <1>4. fn \in [Ids -> JobRec]
    BY <1>1, <1>3
  <1>5. \A k \in Ids : Alike(s.job[k], fn[k])
    <2>1. \A k \in Ids : Alike(s.job[k], s.job[k])
      BY DEF Alike
    <2>2. \A k \in Ids : fn[k] = IF k = i THEN dispatched(j, kickstart) ELSE s.job[k]
      BY <1>1
    <2> QED
      BY <1>3, <2>1, <2>2
  <1> HIDE DEF fn, t
  <1>6. /\ t \in LSt /\ t.job = fn /\ t.next = s.next /\ t.mgrjobs = s.mgrjobs /\ t.needing = s.needing
        /\ t.monitor = s.monitor /\ t.errno = s.errno
    BY <1>1, <1>2, <1>4 DEF LSt
  <1>7. Good(t)
    BY <1>5, <1>6, SameLists
  <1> QED
    BY <1>5, <1>6, <1>7 DEF t

LEMMA PingGood ==
  ASSUME NEW s, Good(s)
  PROVE  LET t == eventsystem_ping(s)
         IN  /\ Good(t) /\ t.next = s.next /\ t.errno = s.errno
             /\ \A k \in Ids : Alike(s.job[k], t.job[k])
  <1>1. \A k \in Ids : Alike(s.job[k], s.job[k])
    BY DEF Alike
  <1>2. CASE s.monitor = NoJob \/ s.job[s.monitor].running
    BY <1>1, <1>2 DEF eventsystem_ping
  <1>3. CASE ~(s.monitor = NoJob \/ s.job[s.monitor].running)
    <2>1. s.monitor \in Ids
      BY <1>3 DEF Good, LSt
    <2>2. eventsystem_ping(s) = job_dispatch(s, s.monitor, TRUE)
      BY <1>3 DEF eventsystem_ping
    <2> QED
      BY <2>1, <2>2, DispatchGood
  <1> QED
    BY <1>2, <1>3

\* Only the state of errno changes.
LEMMA ErrnoGood ==
  ASSUME NEW s, Good(s), NEW e \in Errnos
  PROVE  LET t == [s EXCEPT !.errno = e]
         IN  /\ Good(t) /\ t.job = s.job /\ t.next = s.next /\ t.errno = e
  <1> DEFINE t == [s EXCEPT !.errno = e]
  <1>1. s \in LSt
    BY DEF Good
  <1>2. /\ t \in LSt /\ t.job = s.job /\ t.next = s.next /\ t.mgrjobs = s.mgrjobs /\ t.needing = s.needing
        /\ t.monitor = s.monitor /\ t.errno = e
    BY <1>1 DEF LSt
  <1> HIDE DEF t
  <1>3. \A i \in Ids : Alike(s.job[i], t.job[i])
    BY <1>2 DEF Alike
  <1>4. Good(t)
    BY <1>2, <1>3, SameLists
  <1> QED
    BY <1>2, <1>4 DEF t

\* A job is freed.
LEMMA RemovedGood ==
  ASSUME NEW s, Good(s), NEW i \in Ids, s.job[i].there
  PROVE  LET t == job_removed(s, i)
         IN  /\ Good(t) /\ t.next = s.next /\ t.errno = s.errno
             /\ Brings(s, t, {})
  <1> DEFINE m  == s.job[i].mgr
             jo == [s.job EXCEPT ![i] = Absent]
             mj == [s.mgrjobs EXCEPT ![m] = LIST_REMOVE(s.mgrjobs[m], i)]
             ne == LIST_REMOVE(s.needing, i)
             mo == IF s.job[i].monitor THEN NoJob ELSE s.monitor
             t  == job_removed(s, i)
  <1>1. s \in LSt
    BY DEF Good
  <1>2. s.job \in [Ids -> JobRec] /\ s.mgrjobs \in [Managers -> Seq(Ids)] /\ s.needing \in Seq(Ids)
    BY <1>1 DEF LSt
  <1>3. t = [s EXCEPT !.job = jo, !.mgrjobs = mj, !.needing = ne, !.monitor = mo]
    BY <1>1 DEF job_removed, LSt
  <1>4. m \in Managers
    BY DEF Good, Young
  <1>5. Absent \in JobRec
    BY DEF Absent, JobRec, KeySets, Uuids
  <1>6. jo \in [Ids -> JobRec] /\ \A k \in Ids : jo[k] = IF k = i THEN Absent ELSE s.job[k]
    BY <1>2, <1>5
  <1>7. ne \in Seq(Ids) /\ Once(ne) /\ \A x : x \in Range(ne) <=> x # i /\ x \in Range(s.needing)
    <2>1. Once(s.needing)
      BY DEF Good, Needed
    <2> QED
      BY <1>2, <2>1, Unlinked
  <1>8. ASSUME NEW n \in Managers
        PROVE  LET q == IF n = m THEN LIST_REMOVE(s.mgrjobs[n], i) ELSE s.mgrjobs[n]
               IN  /\ q \in Seq(Ids) /\ Once(q)
                   /\ \A x : x \in Range(q) <=> (n = m => x # i) /\ x \in Range(s.mgrjobs[n])
    <2>1. Once(s.mgrjobs[n]) /\ s.mgrjobs[n] \in Seq(Ids)
      BY <1>2 DEF Good, Managed
    <2>2. LET r == LIST_REMOVE(s.mgrjobs[n], i)
          IN  r \in Seq(Ids) /\ Once(r) /\ \A x : x \in Range(r) <=> x # i /\ x \in Range(s.mgrjobs[n])
      BY <2>1, Unlinked
    <2> QED
      BY <2>1, <2>2
  <1>9. \A n \in Managers : mj[n] = IF n = m THEN LIST_REMOVE(s.mgrjobs[n], i) ELSE s.mgrjobs[n]
    BY <1>2
  <1>10. mj \in [Managers -> Seq(Ids)]
    BY <1>2, <1>4, <1>8
  <1>11. mo \in Ids \cup {NoJob}
    BY <1>1 DEF LSt
  <1> HIDE DEF jo, mj, ne, mo, t
  <1>12. /\ t \in LSt /\ t.job = jo /\ t.mgrjobs = mj /\ t.needing = ne /\ t.monitor = mo
         /\ t.next = s.next /\ t.errno = s.errno
    BY <1>1, <1>3, <1>6, <1>7, <1>10, <1>11 DEF LSt
  <1>13. ~Absent.there /\ Absent.uuid = NullUuid
    BY DEF Absent
  <1> HIDE DEF m
  <1>14. Young(t)
    BY <1>6, <1>12, <1>13 DEF Good, Young
  <1>15. Needed(t)
    BY <1>6, <1>7, <1>12, <1>13 DEF Good, Needed
  <1>16. Managed(t)
    <2> SUFFICES ASSUME NEW n \in Managers
                 PROVE  /\ Once(mj[n])
                        /\ \A k \in Ids : k \in Range(mj[n]) <=> jo[k].there /\ jo[k].mgr = n
      BY <1>12 DEF Managed
    <2>1. Once(mj[n]) /\ \A x : x \in Range(mj[n]) <=> (n = m => x # i) /\ x \in Range(s.mgrjobs[n])
      BY <1>8, <1>9
    <2>2. \A k \in Ids : k \in Range(s.mgrjobs[n]) <=> s.job[k].there /\ s.job[k].mgr = n
      BY DEF Good, Managed
    <2> QED
      BY <1>6, <1>13, <2>1, <2>2 DEF m
  <1>17. Labelled(t)
    BY <1>6, <1>12, <1>13 DEF Good, Labelled
  <1>18. Monitored(t)
    <2>1. \A k \in Ids : s.job[k].there /\ s.job[k].monitor <=> s.monitor = k
      BY DEF Good, Monitored
    <2>2. NoJob \notin Ids
      BY DEF NoJob, Ids
    <2> QED
      BY <1>6, <1>12, <1>13, <2>1, <2>2 DEF Monitored, mo
  <1>19. Good(t) /\ Brings(s, t, {})
    BY <1>6, <1>12, <1>13, <1>14, <1>15, <1>16, <1>17, <1>18 DEF Good, Brings
  <1> QED
    BY <1>12, <1>19 DEF t

LEMMA RemoveGood ==
  ASSUME NEW s, Good(s), NEW i \in Ids, s.job[i].there
  PROVE  LET t == job_remove(s, i)
         IN  /\ Good(t) /\ t.next = s.next /\ t.errno = s.errno
             /\ Brings(s, t, {})
  <1>1. CASE ~s.job[i].running
    BY <1>1, RemovedGood DEF job_remove
  <1>2. CASE s.job[i].running
    <2> DEFINE fn == [s.job EXCEPT ![i] = [s.job[i] EXCEPT !.removal_pending = TRUE]]
               t  == job_remove(s, i)
    <2>1. s \in LSt /\ s.job \in [Ids -> JobRec]
      BY DEF Good, LSt
    <2>2. t = [s EXCEPT !.job = fn]
      BY <1>2, <2>1 DEF job_remove, LSt
    <2>3. /\ fn \in [Ids -> JobRec]
          /\ \A k \in Ids : /\ fn[k].there = s.job[k].there /\ fn[k].label = s.job[k].label
                            /\ fn[k].mgr = s.job[k].mgr /\ fn[k].uuid = s.job[k].uuid
                            /\ fn[k].monitor = s.job[k].monitor
                            /\ s.job[k].removal_pending => fn[k].removal_pending
      BY <2>1 DEF JobRec
    <2> HIDE DEF fn, t
    <2>4. /\ t \in LSt /\ t.job = fn /\ t.mgrjobs = s.mgrjobs /\ t.needing = s.needing
          /\ t.monitor = s.monitor /\ t.next = s.next /\ t.errno = s.errno
      BY <2>1, <2>2, <2>3 DEF LSt
    <2>5. Young(t)
      BY <2>3, <2>4 DEF Good, Young
    <2>6. Needed(t)
      BY <2>3, <2>4 DEF Good, Needed
    <2>7. Managed(t)
      BY <2>3, <2>4 DEF Good, Managed
    <2>8. Labelled(t)
      BY <2>3, <2>4 DEF Good, Labelled
    <2>9. Monitored(t)
      BY <2>3, <2>4 DEF Good, Monitored
    <2>10. Good(t) /\ Brings(s, t, {})
      BY <2>3, <2>4, <2>5, <2>6, <2>7, <2>8, <2>9 DEF Good, Brings
    <2> QED
      BY <2>4, <2>10 DEF t
  <1> QED
    BY <1>1, <1>2

\* What a description brings along
Describes(d) == d.file \in Files /\ d.uuid \in Uuids /\ d.keys \in KeySets

\* The record of a new job
NewJob(s, l, m, d) ==
  job_import_opaque(
    job_import_bool([Absent EXCEPT !.there = TRUE, !.label = l, !.mgr = m, !.keys = d.keys], s.next,
                    job_new(s, l, m, d.keys)),
    d.uuid)

LEMMA AbsentIs == Absent \in JobRec /\ ~Absent.there /\ Absent.uuid = NullUuid
  BY DEF Absent, JobRec, KeySets, Uuids

LEMMA ImportBool ==
  ASSUME NEW j \in JobRec, NEW i, NEW s
  PROVE  LET k == job_import_bool(j, i, s)
         IN  /\ k \in JobRec /\ k.there = j.there /\ k.label = j.label /\ k.mgr = j.mgr /\ k.uuid = j.uuid
             /\ k.removal_pending = j.removal_pending /\ (k.monitor => s.monitor = NoJob)
  <1> DEFINE a == "KeepAlive" \notin j.keys
             b == "RunAtLoad" \in j.keys
             c == "EventMonitor" \in j.keys /\ s.monitor = NoJob
             k == [j EXCEPT !.ondemand = a, !.start_pending = b, !.monitor = c]
  <1>1. a \in BOOLEAN /\ b \in BOOLEAN /\ c \in BOOLEAN /\ (c => s.monitor = NoJob)
    OBVIOUS
  <1>2. job_import_bool(j, i, s) = k
    BY DEF job_import_bool
  <1> HIDE DEF a, b, c
  <1>3. /\ k \in JobRec /\ k.there = j.there /\ k.label = j.label /\ k.mgr = j.mgr /\ k.uuid = j.uuid
        /\ k.removal_pending = j.removal_pending /\ k.monitor = c
    BY <1>1 DEF JobRec
  <1> HIDE DEF k
  <1> QED
    BY <1>1, <1>2, <1>3

\* What job_new() and job_import_keys() leave.
LEMMA NewIs ==
  ASSUME NEW s, Good(s), s.next \in Ids, NEW l \in Labels, NEW m \in Managers, NEW d, Describes(d)
  PROVE  LET i == s.next
             t == job_import_keys(job_new(s, l, m, d.keys), i, d.uuid)
             j == NewJob(s, l, m, d)
         IN  /\ t = [s EXCEPT !.job = [s.job EXCEPT ![i] = j],
                              !.mgrjobs = [s.mgrjobs EXCEPT ![m] = <<i>> \o s.mgrjobs[m]],
                              !.next = i + 1,
                              !.monitor = IF j.monitor THEN i ELSE s.monitor]
             /\ j \in JobRec /\ j.there /\ j.label = l /\ j.mgr = m /\ j.uuid = d.uuid /\ ~j.removal_pending
             /\ j.monitor => s.monitor = NoJob
  <1> DEFINE i  == s.next
             fresh == [Absent EXCEPT !.there = TRUE, !.label = l, !.mgr = m, !.keys = d.keys]
             mj == [s.mgrjobs EXCEPT ![m] = <<i>> \o s.mgrjobs[m]]
             jo == [s.job EXCEPT ![i] = fresh]
             n  == job_new(s, l, m, d.keys)
             j  == NewJob(s, l, m, d)
             t  == job_import_keys(n, i, d.uuid)
  <1>1. s \in LSt
    BY DEF Good
  <1>2. fresh \in JobRec /\ fresh.there /\ fresh.label = l /\ fresh.mgr = m /\ ~fresh.removal_pending
    BY AbsentIs DEF Absent, JobRec, Describes
  <1>3. n = [s EXCEPT !.job[s.next] = fresh, !.mgrjobs[m] = <<s.next>> \o @, !.next = @ + 1]
    BY DEF job_new
  <1>4. j = job_import_opaque(job_import_bool(fresh, i, n), d.uuid)
    BY DEF NewJob
  <1> HIDE DEF fresh, j
  <1>5. n = [s EXCEPT !.job = jo, !.mgrjobs = mj, !.next = i + 1]
    BY <1>1, <1>3 DEF LSt
  <1> HIDE DEF n
  <1>6. /\ n.job = jo /\ n.monitor = s.monitor /\ n.mgrjobs = mj /\ n.next = i + 1 /\ n.needing = s.needing
        /\ n.errno = s.errno
    BY <1>1, <1>5 DEF LSt
  <1>7. s.job \in [Ids -> JobRec] /\ d.uuid \in Uuids
    BY <1>1 DEF LSt, Describes
  <1>8. n.job[i] = fresh
    BY <1>6, <1>7
  <1> DEFINE k == job_import_bool(fresh, i, n)
  <1>9. /\ k \in JobRec /\ k.there = fresh.there /\ k.label = fresh.label /\ k.mgr = fresh.mgr
        /\ k.removal_pending = fresh.removal_pending /\ (k.monitor => n.monitor = NoJob)
    <2>1. fresh \in JobRec
      BY <1>2
    <2> HIDE DEF i, t, jo, mj
    <2>2. k \in JobRec
      BY <2>1, ImportBool
    <2>3. k.there = fresh.there /\ k.label = fresh.label /\ k.mgr = fresh.mgr
      BY <2>1, ImportBool
    <2>4. k.removal_pending = fresh.removal_pending
      BY <2>1, ImportBool
    <2>5. k.monitor => n.monitor = NoJob
      BY <2>1, ImportBool
    <2> QED
      BY <2>2, <2>3, <2>4, <2>5
  <1> HIDE DEF k
  <1>10. /\ j \in JobRec /\ j.there = k.there /\ j.label = k.label /\ j.mgr = k.mgr /\ j.uuid = d.uuid
         /\ j.removal_pending = k.removal_pending /\ j.monitor = k.monitor
    BY <1>4, <1>7, <1>9 DEF job_import_opaque, JobRec, k
  <1>11. t = [n EXCEPT !.job[i] = j, !.monitor = IF j.monitor THEN i ELSE @]
    BY <1>4, <1>8 DEF job_import_keys
  <1>12. [jo EXCEPT ![i] = j] = [s.job EXCEPT ![i] = j]
    BY <1>7
  <1>13. t = [n EXCEPT !.job = [s.job EXCEPT ![i] = j], !.monitor = IF j.monitor THEN i ELSE s.monitor]
    <2> HIDE DEF jo, mj, t
    <2>1. n = [job |-> jo, next |-> i + 1, mgrjobs |-> mj, needing |-> s.needing, errno |-> s.errno,
               monitor |-> s.monitor]
      BY <1>1, <1>5 DEF LSt
    <2> QED
      BY <1>11, <1>12, <2>1
  <1>14. t = [s EXCEPT !.job = [s.job EXCEPT ![i] = j], !.mgrjobs = mj, !.next = i + 1,
                       !.monitor = IF j.monitor THEN i ELSE s.monitor]
    <2> HIDE DEF jo, mj, t
    <2> QED
      BY <1>1, <1>5, <1>13 DEF LSt
  <1> HIDE DEF t
  <1>15. /\ j.there /\ j.label = l /\ j.mgr = m /\ ~j.removal_pending /\ (j.monitor => s.monitor = NoJob)
    BY <1>2, <1>6, <1>9, <1>10
  <1> QED
    BY <1>10, <1>14, <1>15 DEF t, j, n

Added(s, m, j, e) ==
  [s EXCEPT !.job = [s.job EXCEPT ![s.next] = j],
            !.mgrjobs = [s.mgrjobs EXCEPT ![m] = <<s.next>> \o s.mgrjobs[m]],
            !.next = s.next + 1,
            !.monitor = IF j.monitor THEN s.next ELSE s.monitor,
            !.needing = IF j.uuid = NullUuid THEN s.needing ELSE <<s.next>> \o s.needing,
            !.errno = e]

\* A job is added, and put on the list of those that wait if it is to.
LEMMA AddedGood ==
  ASSUME NEW s, Good(s), s.next \in Ids, NEW l \in Labels, NEW m \in Managers, job_find(s, l) = {},
         NEW e \in Errnos, NEW j \in JobRec,
         j.there, j.label = l, j.mgr = m, ~j.removal_pending, j.monitor => s.monitor = NoJob
  PROVE  LET t == Added(s, m, j, e)
         IN  /\ Good(t) /\ t.next = s.next + 1
             /\ Brings(s, t, {l})
  <1> DEFINE i  == s.next
             jo == [s.job EXCEPT ![i] = j]
             mj == [s.mgrjobs EXCEPT ![m] = <<i>> \o s.mgrjobs[m]]
             mo == IF j.monitor THEN i ELSE s.monitor
             ne == IF j.uuid = NullUuid THEN s.needing ELSE <<i>> \o s.needing
             t  == [s EXCEPT !.job = jo, !.mgrjobs = mj, !.next = i + 1, !.monitor = mo, !.needing = ne,
                             !.errno = e]
  <1>1. s \in LSt
    BY DEF Good
  <1>2. /\ s.job \in [Ids -> JobRec] /\ s.mgrjobs \in [Managers -> Seq(Ids)] /\ s.needing \in Seq(Ids)
        /\ i \in 1..MaxJobs /\ MaxJobs \in Nat
    BY <1>1, LoadJobsAssumption DEF LSt, Ids
  <1>3. j \in JobRec /\ j.there /\ j.label = l /\ j.mgr = m /\ ~j.removal_pending
    OBVIOUS
  <1>4. ~s.job[i].there
    <2>1. ~(i < i)
      BY <1>2
    <2> QED
      BY <2>1 DEF Good, Young
  <1>5. jo \in [Ids -> JobRec] /\ \A k \in Ids : jo[k] = IF k = i THEN j ELSE s.job[k]
    BY <1>2, <1>3
  <1>6. /\ ne \in Seq(Ids) /\ Once(ne)
        /\ \A x \in Ids : x \in Range(ne) <=> x \in Range(s.needing) \/ (x = i /\ j.uuid # NullUuid)
    <2>1. Once(s.needing) /\ i \notin Range(s.needing)
      BY <1>4 DEF Good, Needed
    <2>2. LET r == <<i>> \o s.needing
          IN  r \in Seq(Ids) /\ Once(r) /\ \A x : x \in Range(r) <=> x = i \/ x \in Range(s.needing)
      BY <1>2, <2>1, HeadInserted
    <2>3. CASE j.uuid = NullUuid
      BY <1>2, <2>1, <2>3
    <2>4. CASE j.uuid # NullUuid
      BY <2>2, <2>4
    <2> QED
      BY <2>3, <2>4
  <1>7. \A n \in Managers : /\ s.mgrjobs[n] \in Seq(Ids) /\ Once(s.mgrjobs[n])
                            /\ \A k \in Ids : k \in Range(s.mgrjobs[n]) <=> s.job[k].there /\ s.job[k].mgr = n
    BY <1>2 DEF Good, Managed
  <1>8. LET r == <<i>> \o s.mgrjobs[m]
        IN  r \in Seq(Ids) /\ Once(r) /\ \A x : x \in Range(r) <=> x = i \/ x \in Range(s.mgrjobs[m])
    <2>1. i \notin Range(s.mgrjobs[m])
      BY <1>4, <1>7
    <2> QED
      BY <1>2, <1>7, <2>1, HeadInserted
  <1>9. \A n \in Managers : mj[n] = IF n = m THEN <<i>> \o s.mgrjobs[m] ELSE s.mgrjobs[n]
    BY <1>2
  <1>10. mj \in [Managers -> Seq(Ids)]
    BY <1>2, <1>8
  <1>11. mo \in Ids \cup {NoJob}
    BY <1>1 DEF LSt
  <1>12. i + 1 \in 1..(MaxJobs + 1)
    BY <1>2
  <1> HIDE DEF jo, mj, mo, ne, i
  <1>13. /\ t \in LSt /\ t.job = jo /\ t.mgrjobs = mj /\ t.next = i + 1 /\ t.monitor = mo /\ t.needing = ne
    BY <1>1, <1>5, <1>6, <1>10, <1>11, <1>12 DEF LSt
  <1> HIDE DEF t
  <1>14. i \in Ids
    BY DEF i
  <1>15. Young(t)
    <2> SUFFICES ASSUME NEW k \in Ids
                 PROVE  IF jo[k].there THEN k < i + 1 /\ jo[k].mgr \in Managers ELSE jo[k].uuid = NullUuid
      BY <1>13 DEF Young
    <2>1. IF s.job[k].there THEN k < i /\ s.job[k].mgr \in Managers ELSE s.job[k].uuid = NullUuid
      BY DEF Good, Young, i
    <2>2. k \in Nat /\ i \in Nat
      BY <1>2, <1>14 DEF Ids
    <2>3. CASE k = i
      BY <1>3, <1>5, <2>2, <2>3
    <2>4. CASE k # i
      <3>1. k < i => k < i + 1
        BY <2>2
      <3> QED
        BY <1>5, <2>1, <2>4, <3>1
    <2> QED
      BY <2>3, <2>4
  <1>16. Needed(t)
    <2>1. \A k \in Ids : k \in Range(s.needing) <=> s.job[k].there /\ s.job[k].uuid # NullUuid
      BY DEF Good, Needed
    <2>2. \A k \in Ids : k \in Range(ne) <=> jo[k].there /\ jo[k].uuid # NullUuid
      BY <1>3, <1>4, <1>5, <1>6, <2>1 DEF i
    <2> QED
      BY <1>6, <1>13, <2>2 DEF Needed
  <1>17. Managed(t)
    <2> SUFFICES ASSUME NEW n \in Managers
                 PROVE  /\ Once(mj[n])
                        /\ \A k \in Ids : k \in Range(mj[n]) <=> jo[k].there /\ jo[k].mgr = n
      BY <1>13 DEF Managed
    <2>1. CASE n = m
      BY <1>3, <1>4, <1>5, <1>7, <1>8, <1>9, <2>1 DEF i
    <2>2. CASE n # m
      BY <1>3, <1>4, <1>5, <1>7, <1>9, <2>2 DEF i
    <2> QED
      BY <2>1, <2>2
  <1>18. Labelled(t)
    <2>1. \A k \in Ids : s.job[k].there /\ ~s.job[k].removal_pending => s.job[k].label # l
      BY DEF job_find
    <2>2. \A k, n \in Ids : /\ s.job[k].there /\ ~s.job[k].removal_pending
                            /\ s.job[n].there /\ ~s.job[n].removal_pending
                            /\ s.job[k].label = s.job[n].label
                            => k = n
      BY DEF Good, Labelled
    <2> QED
      BY <1>3, <1>5, <1>13, <2>1, <2>2 DEF Labelled
  <1>19. Monitored(t)
    <2>1. \A k \in Ids : s.job[k].there /\ s.job[k].monitor <=> s.monitor = k
      BY DEF Good, Monitored
    <2>2. NoJob \notin Ids
      BY DEF NoJob, Ids
    <2> SUFFICES ASSUME NEW k \in Ids PROVE jo[k].there /\ jo[k].monitor <=> mo = k
      BY <1>13 DEF Monitored
    <2>3. s.monitor # i
      BY <1>4, <1>14, <2>1 DEF i
    <2>4. CASE j.monitor
      BY <1>3, <1>5, <2>1, <2>2, <2>4 DEF mo
    <2>5. CASE ~j.monitor
      BY <1>3, <1>5, <2>1, <2>3, <2>5 DEF mo
    <2> QED
      BY <2>4, <2>5
  <1>20. Brings(s, t, {l})
    BY <1>3, <1>5, <1>13 DEF Brings
  <1>21. Good(t)
    BY <1>13, <1>15, <1>16, <1>17, <1>18, <1>19 DEF Good
  <1> QED
    BY <1>13, <1>20, <1>21 DEF t, i, jo, mj, mo, ne, Added

-----------------------------------------------------------------------------
(* Loops.                                                                  *)

\* A set with 0 and the successors of its members has every number.
LEMMA EveryNumber ==
  ASSUME NEW S \in SUBSET Nat, 0 \in S, \A n \in S : n + 1 \in S
  PROVE  S = Nat
  <1> DEFINE R == OpToRel(<, Nat)
             T == Nat \ S
  <1>1. IsWellFoundedOn(R, Nat)
    BY NatLessThanWellFounded, Zenon
  <1>2. \A x, y \in Nat : y < x => <<y, x>> \in R
    BY Zenon DEF OpToRel
  <1> HIDE DEF R
  <1>3. SUFFICES ASSUME T # {} PROVE FALSE
    OBVIOUS
  <1>4. PICK x \in T : \A y \in T : ~(<<y, x>> \in R)
    BY <1>1, <1>3, WFMin
  <1>5. x \in Nat /\ x # 0 /\ x - 1 \in Nat /\ x - 1 < x /\ (x - 1) + 1 = x
    BY <1>4
  <1>6. x - 1 \notin T
    BY <1>2, <1>4, <1>5
  <1> QED
    BY <1>4, <1>5, <1>6

\* The import of a bulk, one job after the other.
LEMMA BulkRuns ==
  ASSUME NEW s0, NEW ds, Len(ds) \in Nat
  PROVE  \E r : /\ r[0] = [s |-> s0, resp |-> <<>>, ids |-> {}]
                /\ \A i \in 1..Len(ds) : r[i] = import_next(r[i - 1], ds[i])
                /\ job_import_bulk(s0, ds) = dispatch_all(r[Len(ds)])
  <1> DEFINE N == Len(ds)
             start == [s |-> s0, resp |-> <<>>, ids |-> {}]
             step(x, i) == import_next(x, ds[i])
             Body(g) == [i \in 0..N |-> IF i = 0 THEN start ELSE step(g[i - 1], i)]
             Run(g, n) == g = [i \in 0..n |-> g[i]] /\ g[0] = start /\ \A i \in 1..n : g[i] = step(g[i - 1], i)
             r == CHOOSE g : g = Body(g)
  <1>1. job_import_bulk(s0, ds) = dispatch_all(r[Len(ds)])
    BY DEF job_import_bulk
  <1>2. N \in Nat
    OBVIOUS
  <1> HIDE DEF N, start, step
  <1>3. \A n \in Nat : \E g : Run(g, n)
    <2> DEFINE S == {n \in Nat : \E g : Run(g, n)}
    <2>1. 0 \in S
      <3>1. Run([i \in 0..0 |-> start], 0)
        OBVIOUS
      <3> QED
        BY <3>1
    <2>2. ASSUME NEW n \in S PROVE n + 1 \in S
      <3>1. PICK g : Run(g, n)
        OBVIOUS
      <3> DEFINE h == [i \in 0..(n + 1) |-> IF i = n + 1 THEN step(g[n], n + 1) ELSE g[i]]
      <3>2. n \in Nat
        OBVIOUS
      <3>3. h = [i \in 0..(n + 1) |-> h[i]] /\ h[0] = start
        BY <3>1, <3>2
      <3>4. \A i \in 1..(n + 1) : h[i] = step(h[i - 1], i)
        <4> SUFFICES ASSUME NEW i \in 1..(n + 1) PROVE h[i] = step(h[i - 1], i)
          OBVIOUS
        <4>1. CASE i = n + 1
          <5>1. i - 1 = n /\ i - 1 \in 0..(n + 1) /\ i - 1 # n + 1 /\ i \in 0..(n + 1)
            BY <3>2, <4>1
          <5>2. h[i - 1] = g[n] /\ h[i] = step(g[n], n + 1)
            BY <5>1, <4>1
          <5> QED
            BY <5>2, <4>1, Zenon
        <4>2. CASE i # n + 1
          <5>1. i \in 1..n /\ i \in 0..(n + 1) /\ i - 1 \in 0..(n + 1) /\ i - 1 # n + 1
            BY <3>2, <4>2
          <5>2. h[i - 1] = g[i - 1] /\ h[i] = g[i]
            BY <5>1, <4>2
          <5>3. g[i] = step(g[i - 1], i)
            BY <3>1, <5>1
          <5> QED
            BY <5>2, <5>3, Zenon
        <4> QED
          BY <4>1, <4>2
      <3>5. Run(h, n + 1)
        BY <3>3, <3>4, Zenon
      <3> HIDE DEF Run
      <3> QED
        BY <3>2, <3>5
    <2> HIDE DEF S
    <2>3. S = Nat
      <3>1. S \in SUBSET Nat
        BY DEF S
      <3> QED
        BY <2>1, <2>2, <3>1, EveryNumber
    <2> QED
      BY <2>3, Zenon DEF S
  <1>4. r = Body(r)
    <2>1. PICK g : Run(g, N)
      BY <1>2, <1>3
    <2>2. g = [i \in 0..N |-> g[i]]
      BY <2>1
    <2>3. \A i \in 0..N : g[i] = Body(g)[i]
      BY <1>2, <2>1
    <2>4. [i \in 0..N |-> g[i]] = Body(g)
      BY <2>3
    <2>5. g = Body(g)
      BY <2>2, <2>4, Zenon
    <2> QED
      BY <2>5, Zenon
  <1> HIDE DEF r
  <1>5. r[0] = start /\ \A i \in 1..N : r[i] = step(r[i - 1], i)
    BY <1>2, <1>4
  <1> QED
    BY <1>1, <1>5 DEF N, start, step

\* The hand-over of a session, one job after the other.
LEMMA SessionRuns ==
  ASSUME NEW s, NEW uuid, Len(SessionWalk(s)) \in Nat
  PROVE  \E r : /\ r[0] = s
                /\ \A i \in 1..Len(SessionWalk(s)) : r[i] = set_session(r[i - 1], SessionWalk(s)[i], uuid)
                /\ job_mig_set_security_session(s, uuid) = r[Len(SessionWalk(s))]
  <1> DEFINE N == Len(SessionWalk(s))
             start == s
             step(x, i) == set_session(x, SessionWalk(s)[i], uuid)
             Body(g) == [i \in 0..N |-> IF i = 0 THEN start ELSE step(g[i - 1], i)]
             Run(g, n) == g = [i \in 0..n |-> g[i]] /\ g[0] = start /\ \A i \in 1..n : g[i] = step(g[i - 1], i)
             r == CHOOSE g : g = Body(g)
  <1>1. job_mig_set_security_session(s, uuid) = r[Len(SessionWalk(s))]
    BY DEF job_mig_set_security_session
  <1>2. N \in Nat
    OBVIOUS
  <1> HIDE DEF N, start, step
  <1>3. \A n \in Nat : \E g : Run(g, n)
    <2> DEFINE S == {n \in Nat : \E g : Run(g, n)}
    <2>1. 0 \in S
      <3>1. Run([i \in 0..0 |-> start], 0)
        OBVIOUS
      <3> QED
        BY <3>1
    <2>2. ASSUME NEW n \in S PROVE n + 1 \in S
      <3>1. PICK g : Run(g, n)
        OBVIOUS
      <3> DEFINE h == [i \in 0..(n + 1) |-> IF i = n + 1 THEN step(g[n], n + 1) ELSE g[i]]
      <3>2. n \in Nat
        OBVIOUS
      <3>3. h = [i \in 0..(n + 1) |-> h[i]] /\ h[0] = start
        BY <3>1, <3>2
      <3>4. \A i \in 1..(n + 1) : h[i] = step(h[i - 1], i)
        <4> SUFFICES ASSUME NEW i \in 1..(n + 1) PROVE h[i] = step(h[i - 1], i)
          OBVIOUS
        <4>1. CASE i = n + 1
          <5>1. i - 1 = n /\ i - 1 \in 0..(n + 1) /\ i - 1 # n + 1 /\ i \in 0..(n + 1)
            BY <3>2, <4>1
          <5>2. h[i - 1] = g[n] /\ h[i] = step(g[n], n + 1)
            BY <5>1, <4>1
          <5> QED
            BY <5>2, <4>1, Zenon
        <4>2. CASE i # n + 1
          <5>1. i \in 1..n /\ i \in 0..(n + 1) /\ i - 1 \in 0..(n + 1) /\ i - 1 # n + 1
            BY <3>2, <4>2
          <5>2. h[i - 1] = g[i - 1] /\ h[i] = g[i]
            BY <5>1, <4>2
          <5>3. g[i] = step(g[i - 1], i)
            BY <3>1, <5>1
          <5> QED
            BY <5>2, <5>3, Zenon
        <4> QED
          BY <4>1, <4>2
      <3>5. Run(h, n + 1)
        BY <3>3, <3>4, Zenon
      <3> HIDE DEF Run
      <3> QED
        BY <3>2, <3>5
    <2> HIDE DEF S
    <2>3. S = Nat
      <3>1. S \in SUBSET Nat
        BY DEF S
      <3> QED
        BY <2>1, <2>2, <3>1, EveryNumber
    <2> QED
      BY <2>3, Zenon DEF S
  <1>4. r = Body(r)
    <2>1. PICK g : Run(g, N)
      BY <1>2, <1>3
    <2>2. g = [i \in 0..N |-> g[i]]
      BY <2>1
    <2>3. \A i \in 0..N : g[i] = Body(g)[i]
      BY <1>2, <2>1
    <2>4. [i \in 0..N |-> g[i]] = Body(g)
      BY <2>3
    <2>5. g = Body(g)
      BY <2>2, <2>4, Zenon
    <2> QED
      BY <2>5, Zenon
  <1> HIDE DEF r
  <1>5. r[0] = start /\ \A i \in 1..N : r[i] = step(r[i - 1], i)
    BY <1>2, <1>4
  <1> QED
    BY <1>1, <1>5 DEF N, start, step

-----------------------------------------------------------------------------
(* Imports and sessions.                                                   *)

LEMMA ImportGood ==
  ASSUME NEW s, Good(s), s.next \in Ids, NEW d, Describes(d)
  PROVE  LET t == jobmgr_import2(s, d)
         IN  /\ Good(t) /\ t.next \in {s.next, s.next + 1}
             /\ Brings(s, t, {Plist[d.file].label})
  <1> DEFINE l == Plist[d.file].label
             m == IF d.mgr = "none" THEN RootMgr ELSE d.mgr
             i == s.next
             n == job_import_keys(job_new(s, l, m, d.keys), i, d.uuid)
             u == IF d.uuid = NullUuid THEN n ELSE [n EXCEPT !.needing = <<i>> \o @, !.errno = "ENEEDAUTH"]
             t == jobmgr_import2(s, d)
  <1>1. l \in Labels
    BY LoadJobsAssumption DEF Describes
  <1>2. s \in LSt
    BY DEF Good
  <1>3. \A e \in Errnos : Good([s EXCEPT !.errno = e]) /\ [s EXCEPT !.errno = e].next = s.next
                          /\ Brings(s, [s EXCEPT !.errno = e], {l})
    <2> SUFFICES ASSUME NEW e \in Errnos
                 PROVE  Good([s EXCEPT !.errno = e]) /\ [s EXCEPT !.errno = e].next = s.next
                        /\ Brings(s, [s EXCEPT !.errno = e], {l})
      OBVIOUS
    <2>1. LET x == [s EXCEPT !.errno = e]
          IN  Good(x) /\ x.job = s.job /\ x.next = s.next /\ x.errno = e
      BY ErrnoGood
    <2> QED
      BY <2>1 DEF Brings
  <1>4. CASE m \notin Managers
    <2>1. t = [s EXCEPT !.errno = "EINVAL"]
      BY <1>4 DEF jobmgr_import2
    <2> QED
      BY <1>3, <2>1 DEF Errnos
  <1>5. CASE m \in Managers /\ job_find(s, l) # {}
    <2>1. t = [s EXCEPT !.errno = "EEXIST"]
      BY <1>5 DEF jobmgr_import2
    <2> QED
      BY <1>3, <2>1 DEF Errnos
  <1>6. CASE m \in Managers /\ job_find(s, l) = {}
    <2> DEFINE j  == NewJob(s, l, m, d)
               jo == [s.job EXCEPT ![i] = j]
               mj == [s.mgrjobs EXCEPT ![m] = <<i>> \o s.mgrjobs[m]]
               mo == IF j.monitor THEN i ELSE s.monitor
               e  == IF d.uuid = NullUuid THEN s.errno ELSE "ENEEDAUTH"
               ne == IF j.uuid = NullUuid THEN s.needing ELSE <<i>> \o s.needing
    <2>1. t = IF u.job[i].monitor THEN eventsystem_ping(u) ELSE u
      BY <1>6 DEF jobmgr_import2
    <2> HIDE DEF l, m
    <2>2. /\ n = [s EXCEPT !.job = jo, !.mgrjobs = mj, !.next = i + 1, !.monitor = mo]
          /\ j \in JobRec /\ j.there /\ j.label = l /\ j.mgr = m /\ j.uuid = d.uuid /\ ~j.removal_pending
          /\ j.monitor => s.monitor = NoJob
      BY <1>1, <1>6, NewIs
    <2> HIDE DEF j, n
    <2>3. u = [s EXCEPT !.job = jo, !.mgrjobs = mj, !.next = i + 1, !.monitor = mo, !.needing = ne,
                        !.errno = e]
      <3> HIDE DEF jo, mj, mo
      <3>1. CASE d.uuid = NullUuid
        BY <1>2, <2>2, <3>1 DEF LSt
      <3>2. CASE d.uuid # NullUuid
        BY <1>2, <2>2, <3>2 DEF LSt
      <3> QED
        BY <3>1, <3>2
    <2>4. e \in Errnos
      BY <1>2 DEF LSt, Errnos
    <2> HIDE DEF e, u
    <2>5. Good(u) /\ u.next = s.next + 1 /\ Brings(s, u, {l})
      <3>1. m \in Managers /\ job_find(s, l) = {} /\ l \in Labels /\ e \in Errnos /\ j \in JobRec
        BY <1>1, <1>6, <2>2, <2>4
      <3>2. j.there /\ j.label = l /\ j.mgr = m /\ ~j.removal_pending /\ (j.monitor => s.monitor = NoJob)
        BY <2>2
      <3> DEFINE v == Added(s, m, j, e)
      <3>3. u = v
        BY <2>3 DEF Added
      <3>4. Good(v) /\ v.next = s.next + 1 /\ Brings(s, v, {l})
        BY <3>1, <3>2, AddedGood
      <3> HIDE DEF v
      <3> QED
        BY <3>3, <3>4
    <2>6. CASE t = u
      BY <2>5, <2>6 DEF Brings, l
    <2>7. CASE t = eventsystem_ping(u)
      <3> HIDE DEF t
      <3>1. Good(t) /\ t.next = u.next /\ \A k \in Ids : Alike(u.job[k], t.job[k])
        BY <2>5, <2>7, PingGood
      <3>2. Brings(s, t, {l})
        BY <2>5, <3>1 DEF Brings, Alike
      <3> QED
        BY <2>5, <3>1, <3>2 DEF l, t
    <2> QED
      BY <2>1, <2>6, <2>7
  <1> QED
    BY <1>4, <1>5, <1>6

LEMMA ImportNextGood ==
  ASSUME NEW a, a = [s |-> a.s, resp |-> a.resp, ids |-> a.ids], Good(a.s), a.s.next \in Ids,
         a.resp \in Seq(Errnos), a.ids \in SUBSET Ids, NEW d, Describes(d)
  PROVE  LET b == import_next(a, d)
         IN  /\ b = [s |-> b.s, resp |-> b.resp, ids |-> b.ids] /\ Good(b.s)
             /\ b.s.next \in {a.s.next, a.s.next + 1}
             /\ b.resp \in Seq(Errnos) /\ b.ids \in SUBSET Ids
             /\ Brings(a.s, b.s, {Plist[d.file].label})
  <1> DEFINE s == jobmgr_import2(a.s, d)
             new == s.next # a.s.next
             e == IF new /\ s.errno # "ENEEDAUTH" THEN "0" ELSE s.errno
             t == [s EXCEPT !.errno = e]
             L == {Plist[d.file].label}
             b == import_next(a, d)
  <1>1. Good(s) /\ s.next \in {a.s.next, a.s.next + 1} /\ Brings(a.s, s, L)
    BY ImportGood
  <1>2. b = [s |-> t, resp |-> Append(a.resp, e), ids |-> IF new THEN a.ids \cup {a.s.next} ELSE a.ids]
    BY DEF import_next
  <1> HIDE DEF s, L, b
  <1>3. e \in Errnos
    BY <1>1 DEF Good, LSt, Errnos
  <1> HIDE DEF e
  <1>4. Good(t) /\ t.job = s.job /\ t.next = s.next
    BY <1>1, <1>3, ErrnoGood
  <1> HIDE DEF t
  <1>5. Brings(a.s, t, L)
    BY <1>1, <1>4 DEF Brings
  <1>6. Append(a.resp, e) \in Seq(Errnos)
    BY <1>3
  <1> QED
    BY <1>1, <1>2, <1>4, <1>5, <1>6 DEF b, L

LEMMA DispatchAllGood ==
  ASSUME NEW a, a = [s |-> a.s, resp |-> a.resp, ids |-> a.ids], Good(a.s)
  PROVE  LET b == dispatch_all(a)
         IN  /\ Good(b.s) /\ b.resp = a.resp /\ b.ids = a.ids
             /\ \A k \in Ids : Alike(a.s.job[k], b.s.job[k])
  <1> DEFINE s  == a.s
             jo == [i \in Ids |-> IF i \in a.ids THEN dispatched(s.job[i], FALSE) ELSE s.job[i]]
             t  == [s EXCEPT !.job = jo]
             b  == dispatch_all(a)
  <1>1. s \in LSt /\ s.job \in [Ids -> JobRec]
    BY DEF Good, LSt
  <1>2. b = [a EXCEPT !.s.job = jo]
    BY <1>1 DEF dispatch_all, LSt
  <1>3. \A i \in Ids : jo[i] \in JobRec /\ Alike(s.job[i], jo[i])
    <2>1. \A i \in Ids : s.job[i] \in JobRec /\ Alike(s.job[i], s.job[i])
      BY <1>1 DEF Alike
    <2>2. \A i \in Ids : dispatched(s.job[i], FALSE) \in JobRec /\ Alike(s.job[i], dispatched(s.job[i], FALSE))
      BY <2>1, Dispatched
    <2> QED
      BY <2>1, <2>2
  <1>4. jo \in [Ids -> JobRec]
    BY <1>3
  <1> HIDE DEF jo
  <1>5. b.s = t /\ b.resp = a.resp /\ b.ids = a.ids
    <2> HIDE DEF b
    <2> QED
      BY <1>2
  <1>6. /\ t \in LSt /\ t.job = jo /\ t.next = s.next /\ t.mgrjobs = s.mgrjobs /\ t.needing = s.needing
        /\ t.monitor = s.monitor
    BY <1>1, <1>4 DEF LSt
  <1> HIDE DEF t, b
  <1>7. Good(t)
    BY <1>3, <1>6, SameLists
  <1> QED
    BY <1>3, <1>5, <1>6, <1>7 DEF b

LEMMA BulkGood ==
  ASSUME NEW s0, Good(s0), NEW ds, Len(ds) \in Nat, \A k \in 1..Len(ds) : Describes(ds[k]),
         s0.next + Len(ds) <= MaxJobs + 1
  PROVE  LET b == job_import_bulk(s0, ds)
         IN  /\ Good(b.s) /\ b.resp \in Seq(Errnos) /\ b.ids \in SUBSET Ids
             /\ Brings(s0, b.s, {Plist[ds[k].file].label : k \in 1..Len(ds)})
  <1> DEFINE N == Len(ds)
             L == {Plist[ds[k].file].label : k \in 1..N}
             start == [s |-> s0, resp |-> <<>>, ids |-> {}]
  <1>1. PICK r : /\ r[0] = start
                 /\ \A i \in 1..N : r[i] = import_next(r[i - 1], ds[i])
                 /\ job_import_bulk(s0, ds) = dispatch_all(r[N])
    BY BulkRuns
  <1>2. s0.next \in Nat \ {0} /\ N \in Nat /\ MaxJobs \in Nat
    BY LoadJobsAssumption DEF Good, LSt
  <1> DEFINE Fine(q, i) == /\ q = [s |-> q.s, resp |-> q.resp, ids |-> q.ids] /\ Good(q.s)
                           /\ q.s.next <= s0.next + i /\ q.resp \in Seq(Errnos) /\ q.ids \in SUBSET Ids
                           /\ Brings(s0, q.s, L)
  <1>3. \A i \in 0..N : Fine(r[i], i)
    <2> DEFINE S == {i \in Nat : i \in 0..N => Fine(r[i], i)}
    <2>1. 0 \in S
      <3>1. start.s = s0 /\ start.resp = <<>> /\ start.ids = {}
        OBVIOUS
      <3>2. start = [s |-> start.s, resp |-> start.resp, ids |-> start.ids]
        OBVIOUS
      <3>3. Brings(s0, s0, L) /\ <<>> \in Seq(Errnos) /\ s0.next <= s0.next + 0
        BY <1>2 DEF Brings
      <3> HIDE DEF start, L
      <3>4. Fine(start, 0)
        BY <3>1, <3>2, <3>3
      <3> HIDE DEF Fine
      <3> QED
        BY <1>1, <3>4
    <2>2. ASSUME NEW n \in S PROVE n + 1 \in S
      <3>1. SUFFICES ASSUME n + 1 \in 0..N PROVE Fine(r[n + 1], n + 1)
        OBVIOUS
      <3>2. n \in Nat /\ n \in 0..N /\ n + 1 \in 1..N /\ (n + 1) - 1 = n
        BY <3>1, <1>2
      <3>3. Fine(r[n], n)
        BY <3>2
      <3>4. r[n + 1] = import_next(r[n], ds[n + 1])
        BY <3>2, <1>1
      <3> DEFINE a == r[n]
                 b == r[n + 1]
                 d == ds[n + 1]
      <3>5. Describes(d) /\ Plist[d.file].label \in L
        BY <3>2
      <3>6. a.s.next \in Ids
        <4>1. a.s.next \in 1..(MaxJobs + 1) /\ a.s.next <= s0.next + n
          BY <3>3 DEF Good, LSt
        <4> QED
          BY <1>2, <3>2, <4>1 DEF Ids
      <3>7. b = import_next(a, d)
        BY <3>4
      <3> HIDE DEF L, a, b, d
      <3>8. a = [s |-> a.s, resp |-> a.resp, ids |-> a.ids] /\ Good(a.s) /\ a.resp \in Seq(Errnos)
            /\ a.ids \in SUBSET Ids /\ a.s.next <= s0.next + n /\ Brings(s0, a.s, L)
        BY <3>3 DEF a
      <3>9. /\ b = [s |-> b.s, resp |-> b.resp, ids |-> b.ids] /\ Good(b.s)
            /\ b.s.next \in {a.s.next, a.s.next + 1}
            /\ b.resp \in Seq(Errnos) /\ b.ids \in SUBSET Ids
            /\ Brings(a.s, b.s, {Plist[d.file].label})
        BY <3>5, <3>6, <3>7, <3>8, ImportNextGood
      <3>10. b.s.next <= s0.next + (n + 1)
        <4>1. a.s.next \in Nat
          BY <3>6 DEF Ids
        <4> QED
          BY <1>2, <3>2, <3>8, <3>9, <4>1
      <3>11. Brings(s0, b.s, L)
        BY <3>5, <3>8, <3>9 DEF Brings
      <3> QED
        BY <3>9, <3>10, <3>11 DEF b
    <2> HIDE DEF S, Fine
    <2>3. S = Nat
      <3>1. S \in SUBSET Nat
        BY DEF S
      <3> QED
        BY <2>1, <2>2, <3>1, EveryNumber
    <2> QED
      BY <1>2, <2>3 DEF S
  <1>r. Fine(r[N], N)
    <2> HIDE DEF Fine
    <2> QED
      BY <1>2, <1>3
  <1> DEFINE a == r[N]
             b == dispatch_all(a)
  <1>4. /\ a = [s |-> a.s, resp |-> a.resp, ids |-> a.ids] /\ Good(a.s) /\ a.resp \in Seq(Errnos)
        /\ a.ids \in SUBSET Ids /\ Brings(s0, a.s, L)
    <2> HIDE DEF L
    <2> QED
      BY <1>r
  <1> HIDE DEF a, L
  <1>5. /\ Good(b.s) /\ b.resp = a.resp /\ b.ids = a.ids
        /\ \A k \in Ids : Alike(a.s.job[k], b.s.job[k])
    BY <1>4, DispatchAllGood
  <1>6. job_import_bulk(s0, ds) = b
    BY <1>1 DEF a
  <1> HIDE DEF b
  <1>7. Brings(s0, b.s, L)
    BY <1>4, <1>5 DEF Brings, Alike
  <1> QED
    BY <1>4, <1>5, <1>6, <1>7 DEF L

LEMMA SetSessionGood ==
  ASSUME NEW s, Good(s), NEW i \in Ids, NEW uuid, uuid # NullUuid
  PROVE  LET t == set_session(s, i, uuid)
         IN  Good(t) /\ t.next = s.next /\ Brings(s, t, {})
  <1> DEFINE t  == set_session(s, i, uuid)
             jo == [s.job EXCEPT ![i] = [s.job[i] EXCEPT !.uuid = NullUuid]]
             ne == LIST_REMOVE(s.needing, i)
             u  == [s EXCEPT !.job = jo, !.needing = ne]
             v  == [s EXCEPT !.job[i].uuid = NullUuid, !.needing = LIST_REMOVE(@, i)]
  <1>1. s \in LSt /\ s.job \in [Ids -> JobRec] /\ s.needing \in Seq(Ids)
    BY DEF Good, LSt
  <1>2. CASE s.job[i].uuid # uuid
    <2>1. t = s
      BY <1>2 DEF set_session
    <2> QED
      BY <2>1 DEF Brings
  <1>3. CASE s.job[i].uuid = uuid
    <2>1. v = u
      BY <1>1 DEF LSt
    <2>2. t = IF v.job[i].monitor THEN eventsystem_ping(v) ELSE job_dispatch(v, i, FALSE)
      BY <1>3 DEF set_session
    <2> HIDE DEF v, t
    <2>3. s.job[i].there
      BY <1>3 DEF Good, Young
    <2>4. NullUuid \in Uuids
      BY DEF Uuids
    <2>5. /\ jo \in [Ids -> JobRec]
          /\ \A k \in Ids : /\ jo[k].there = s.job[k].there /\ jo[k].label = s.job[k].label
                            /\ jo[k].mgr = s.job[k].mgr /\ jo[k].monitor = s.job[k].monitor
                            /\ jo[k].removal_pending = s.job[k].removal_pending
                            /\ jo[k].uuid = IF k = i THEN NullUuid ELSE s.job[k].uuid
      BY <1>1, <2>4 DEF JobRec
    <2>6. ne \in Seq(Ids) /\ Once(ne) /\ \A x : x \in Range(ne) <=> x # i /\ x \in Range(s.needing)
      <3>1. Once(s.needing)
        BY DEF Good, Needed
      <3> QED
        BY <1>1, <3>1, Unlinked
    <2> HIDE DEF jo, ne
    <2>7. /\ u \in LSt /\ u.job = jo /\ u.needing = ne /\ u.mgrjobs = s.mgrjobs /\ u.next = s.next
          /\ u.monitor = s.monitor
      BY <1>1, <2>5, <2>6 DEF LSt
    <2> HIDE DEF u
    <2>8. Young(u)
      BY <2>5, <2>7 DEF Good, Young
    <2>9. Needed(u)
      <3>1. \A k \in Ids : k \in Range(s.needing) <=> s.job[k].there /\ s.job[k].uuid # NullUuid
        BY DEF Good, Needed
      <3>2. \A k \in Ids : k \in Range(ne) <=> jo[k].there /\ jo[k].uuid # NullUuid
        BY <2>5, <2>6, <3>1
      <3> QED
        BY <2>6, <2>7, <3>2 DEF Needed
    <2>10. Managed(u)
      BY <2>5, <2>7 DEF Good, Managed
    <2>11. Labelled(u)
      BY <2>5, <2>7 DEF Good, Labelled
    <2>12. Monitored(u)
      BY <2>5, <2>7 DEF Good, Monitored
    <2>13. Good(u) /\ Brings(s, u, {})
      BY <2>5, <2>7, <2>8, <2>9, <2>10, <2>11, <2>12 DEF Good, Brings
    <2>14. Good(t) /\ t.next = u.next /\ \A k \in Ids : Alike(u.job[k], t.job[k])
      <3>1. CASE t = eventsystem_ping(u)
        BY <2>13, <3>1, PingGood
      <3>2. CASE t = job_dispatch(u, i, FALSE)
        BY <2>13, <3>2, DispatchGood
      <3> QED
        BY <2>1, <2>2, <3>1, <3>2
    <2>15. Brings(s, t, {})
      BY <2>13, <2>14 DEF Brings, Alike
    <2> QED
      BY <2>7, <2>14, <2>15 DEF t
  <1> QED
    BY <1>2, <1>3

\* The walk goes along a list of jobs.
LEMMA WalkIn ==
  ASSUME NEW s, Good(s)
  PROVE  SessionWalk(s) \in Seq(Ids)
  <1>1. s \in LSt
    BY DEF Good
  <1>2. CASE s.needing = <<>>
    BY <1>2 DEF SessionWalk
  <1>3. CASE s.needing # <<>>
    <2> DEFINE h == s.needing[1]
               q == s.mgrjobs[s.job[h].mgr]
               n == CHOOSE n \in 1..Len(q) : q[n] = h
    <2>1. SessionWalk(s) = SubSeq(q, n, Len(q))
      BY <1>3 DEF SessionWalk
    <2>2. s.needing \in Seq(Ids) /\ Len(s.needing) \in Nat /\ Len(s.needing) > 0
      BY <1>1, <1>3 DEF LSt
    <2>3. h \in Ids /\ h \in Range(s.needing)
      BY <2>2, InRange
    <2> HIDE DEF h
    <2>4. s.job[h].there /\ s.job[h].mgr \in Managers
      BY <2>3 DEF Good, Needed, Young
    <2>5. q \in Seq(Ids) /\ h \in Range(q)
      BY <1>1, <2>3, <2>4 DEF Good, Managed, LSt
    <2>6. n \in 1..Len(q)
      BY <2>5, InRange
    <2> HIDE DEF q, n
    <2>7. n \in Int /\ Len(q) \in Int /\ \A i \in n..Len(q) : q[i] \in Ids
      BY <2>5, <2>6
    <2>8. SubSeq(q, n, Len(q)) \in Seq(Ids)
      BY <2>5, <2>6, <2>7
    <2> QED
      BY <2>1, <2>8
  <1> QED
    BY <1>2, <1>3

LEMMA SessionGood ==
  ASSUME NEW s, Good(s), NEW uuid, uuid # NullUuid
  PROVE  LET t == job_mig_set_security_session(s, uuid)
         IN  Good(t) /\ Brings(s, t, {})
  <1> DEFINE w == SessionWalk(s)
             N == Len(w)
  <1>1. w \in Seq(Ids) /\ N \in Nat
    BY WalkIn
  <1>2. PICK r : /\ r[0] = s
                 /\ \A i \in 1..N : r[i] = set_session(r[i - 1], w[i], uuid)
                 /\ job_mig_set_security_session(s, uuid) = r[N]
    BY <1>1, SessionRuns
  <1>3. \A i \in 1..N : w[i] \in Ids
    BY <1>1
  <1> HIDE DEF w, N
  <1> DEFINE Fine(t) == Good(t) /\ Brings(s, t, {})
  <1>4. \A i \in 0..N : Fine(r[i])
    <2> DEFINE S == {i \in Nat : i \in 0..N => Fine(r[i])}
    <2>1. 0 \in S
      <3>1. Fine(s)
        BY DEF Brings
      <3> HIDE DEF Fine
      <3> QED
        BY <1>2, <3>1
    <2>2. ASSUME NEW n \in S PROVE n + 1 \in S
      <3>1. SUFFICES ASSUME n + 1 \in 0..N PROVE Fine(r[n + 1])
        OBVIOUS
      <3>2. n \in Nat /\ n \in 0..N /\ n + 1 \in 1..N /\ (n + 1) - 1 = n
        BY <3>1, <1>1
      <3>3. Fine(r[n])
        BY <3>2
      <3> DEFINE a == r[n]
                 b == r[n + 1]
                 i == w[n + 1]
      <3>4. b = set_session(a, i, uuid) /\ i \in Ids
        BY <3>2, <1>2, <1>3
      <3>5. Good(a) /\ Brings(s, a, {})
        BY <3>3
      <3> HIDE DEF a, b, i
      <3>6. Good(b) /\ Brings(a, b, {})
        BY <3>4, <3>5, SetSessionGood
      <3>7. Brings(s, b, {})
        BY <3>5, <3>6 DEF Brings
      <3> QED
        BY <3>6, <3>7 DEF b
    <2> HIDE DEF S, Fine
    <2>3. S = Nat
      <3>1. S \in SUBSET Nat
        BY DEF S
      <3> QED
        BY <2>1, <2>2, <3>1, EveryNumber
    <2> QED
      BY <1>1, <2>3 DEF S
  <1>5. Fine(r[N])
    <2> HIDE DEF Fine
    <2> QED
      BY <1>1, <1>4
  <1> QED
    BY <1>2, <1>5

-----------------------------------------------------------------------------
(* The launchctl processes.                                                *)

Answers == {"none", "yes", "no"}
Pcs     == {"ready", "reading", "submit", "answered", "unload", "blocked", "save", "writing", "done",
            "exited", "dead"}
Descrs  == [file : Files, mgr : {"none", "System", "Aqua"} \cup {cmd.S : cmd \in Commands}, uuid : {NullUuid, NoUuid}, keys : KeySets]

ClSt ==
  [pc : Pcs, cmd : Nat \ {0}, odb : [Labels -> Answers], changed : BOOLEAN, pass1 : Seq(Descrs),
   resp : Seq(Errnos), ids : SUBSET Ids, waits : Ids \cup {NoJob}]

\* What -w stores, and for which of the files fs
Stored(cmd) == IF cmd.op = "load" THEN "no" ELSE "yes"
Edits(cmd, fs) ==
  IF cmd.w /\ ~rofs THEN {Plist[f].label : f \in {f \in fs : path_goodness_check(f, cmd)}} ELSE {}

\* The database with these entries edited
EditedDb(cmd, L, d) == [l \in Labels |-> IF l \in L THEN Stored(cmd) ELSE d[l]]

\* The file is not disabled under the database d
Permits(d, f) == "yes" # (IF d[Plist[f].label] # "none" THEN d[Plist[f].label] ELSE key[f])

\* The command of the process p of client c
Runs(c, p) == script[c][p.cmd]

Busy(c, p) ==
  \/ p.pc \in {"reading", "submit", "unload", "blocked", "save", "writing"}
  \/ p.pc = "answered" /\ Runs(c, p).op = "load"

\* The step a process is at is one of its command
Staged(c, p) ==
  /\ p.pc # "exited" => p.cmd <= Len(script[c])
  /\ p.pc \in {"reading", "unload", "blocked", "save", "writing"} => Runs(c, p).op \in {"load", "unload"}
  /\ p.pc = "writing" => p.changed
  /\ p.pc = "submit" => Runs(c, p).op = "load"
  /\ p.pc = "unload" => p.pass1 # <<>>

\* What it has in memory is the database d, which it has locked, and its own edits
Current(c, p, lk, d) ==
  /\ ~rofs /\ Busy(c, p) => lk = c
  /\ ~rofs /\ p.pc = "reading" => p.odb = d
  /\ ~rofs /\ p.pc # "reading" /\ Busy(c, p) =>
       /\ p.odb = EditedDb(Runs(c, p), Edits(Runs(c, p), Range(Runs(c, p).paths)), d)
       /\ Edits(Runs(c, p), Range(Runs(c, p).paths)) # {} => p.changed
  /\ rofs => ~p.changed

\* The jobs it is about to submit are still enabled
Obedient(c, p, d) ==
  ~rofs /\ p.pc = "submit" /\ ~Runs(c, p).F /\ ~Runs(c, p).w =>
    \A n \in 1..Len(p.pass1) : Permits(d, p.pass1[n].file)

Sound(c, p, lk, d) == p \in ClSt /\ Staged(c, p) /\ Current(c, p, lk, d) /\ Obedient(c, p, d)

\* A file that is being written is empty
Emptied == \A c \in Clients : cl[c].pc = "writing" => db = NoOverrides

IInv ==
  /\ Good(Launchd)
  /\ script \in Scripts /\ rofs \in BOOLEAN
  /\ cl = [c \in Clients |-> cl[c]] /\ lock \in Clients \cup {Nobody}
  /\ db \in [Labels -> Answers] /\ wanted \in [Labels -> Answers] /\ EditsKept /\ Emptied
  /\ \A c \in Clients : Sound(c, cl[c], lock, wanted)

-----------------------------------------------------------------------------
(* Reading the files.                                                      *)

\* The paths of a command, one after the other.
LEMMA GatherRuns ==
  ASSUME NEW c, Len(Cmd(c).paths) \in Nat
  PROVE  \E r : /\ r[0] = [odb |-> cl[c].odb, changed |-> cl[c].changed, key |-> key, disabled |-> "none",
                          pass1 |-> <<>>]
                /\ \A i \in 1..Len(Cmd(c).paths) : r[i] = readpath(c, r[i - 1], Cmd(c).paths[i], Cmd(c))
                /\ Gathered(c) = r[Len(Cmd(c).paths)]
  <1> DEFINE N == Len(Cmd(c).paths)
             start == [odb |-> cl[c].odb, changed |-> cl[c].changed, key |-> key, disabled |-> "none",
                          pass1 |-> <<>>]
             step(x, i) == readpath(c, x, Cmd(c).paths[i], Cmd(c))
             Body(g) == [i \in 0..N |-> IF i = 0 THEN start ELSE step(g[i - 1], i)]
             Run(g, n) == g = [i \in 0..n |-> g[i]] /\ g[0] = start /\ \A i \in 1..n : g[i] = step(g[i - 1], i)
             r == CHOOSE g : g = Body(g)
  <1>1. Gathered(c) = r[Len(Cmd(c).paths)]
    BY DEF Gathered
  <1>2. N \in Nat
    OBVIOUS
  <1> HIDE DEF N, start, step
  <1>3. \A n \in Nat : \E g : Run(g, n)
    <2> DEFINE S == {n \in Nat : \E g : Run(g, n)}
    <2>1. 0 \in S
      <3>1. Run([i \in 0..0 |-> start], 0)
        OBVIOUS
      <3> QED
        BY <3>1
    <2>2. ASSUME NEW n \in S PROVE n + 1 \in S
      <3>1. PICK g : Run(g, n)
        OBVIOUS
      <3> DEFINE h == [i \in 0..(n + 1) |-> IF i = n + 1 THEN step(g[n], n + 1) ELSE g[i]]
      <3>2. n \in Nat
        OBVIOUS
      <3>3. h = [i \in 0..(n + 1) |-> h[i]] /\ h[0] = start
        BY <3>1, <3>2
      <3>4. \A i \in 1..(n + 1) : h[i] = step(h[i - 1], i)
        <4> SUFFICES ASSUME NEW i \in 1..(n + 1) PROVE h[i] = step(h[i - 1], i)
          OBVIOUS
        <4>1. CASE i = n + 1
          <5>1. i - 1 = n /\ i - 1 \in 0..(n + 1) /\ i - 1 # n + 1 /\ i \in 0..(n + 1)
            BY <3>2, <4>1
          <5>2. h[i - 1] = g[n] /\ h[i] = step(g[n], n + 1)
            BY <5>1, <4>1
          <5> QED
            BY <5>2, <4>1, Zenon
        <4>2. CASE i # n + 1
          <5>1. i \in 1..n /\ i \in 0..(n + 1) /\ i - 1 \in 0..(n + 1) /\ i - 1 # n + 1
            BY <3>2, <4>2
          <5>2. h[i - 1] = g[i - 1] /\ h[i] = g[i]
            BY <5>1, <4>2
          <5>3. g[i] = step(g[i - 1], i)
            BY <3>1, <5>1
          <5> QED
            BY <5>2, <5>3, Zenon
        <4> QED
          BY <4>1, <4>2
      <3>5. Run(h, n + 1)
        BY <3>3, <3>4, Zenon
      <3> HIDE DEF Run
      <3> QED
        BY <3>2, <3>5
    <2> HIDE DEF S
    <2>3. S = Nat
      <3>1. S \in SUBSET Nat
        BY DEF S
      <3> QED
        BY <2>1, <2>2, <3>1, EveryNumber
    <2> QED
      BY <2>3, Zenon DEF S
  <1>4. r = Body(r)
    <2>1. PICK g : Run(g, N)
      BY <1>2, <1>3
    <2>2. g = [i \in 0..N |-> g[i]]
      BY <2>1
    <2>3. \A i \in 0..N : g[i] = Body(g)[i]
      <3> SUFFICES ASSUME NEW i \in 0..N PROVE g[i] = IF i = 0 THEN start ELSE step(g[i - 1], i)
        OBVIOUS
      <3>1. i # 0 => i \in 1..N
        BY <1>2
      <3> QED
        BY <2>1, <3>1, Zenon
    <2>4. [i \in 0..N |-> g[i]] = Body(g)
      BY <2>3
    <2>5. g = Body(g)
      BY <2>2, <2>4, Zenon
    <2> QED
      BY <2>5, Zenon
  <1> HIDE DEF r
  <1>5. r[0] = start /\ \A i \in 1..N : r[i] = step(r[i - 1], i)
    BY <1>2, <1>4
  <1> QED
    BY <1>1, <1>5 DEF N, start, step

\* What a command has gathered from the files fs: o and ch is what it had before
Reads(g, cmd, o, ch, fs) ==
  /\ g = [odb |-> g.odb, changed |-> g.changed, key |-> g.key, disabled |-> g.disabled, pass1 |-> g.pass1]
  /\ g.odb = EditedDb(cmd, Edits(cmd, fs), o)
  /\ g.changed \in BOOLEAN /\ (rofs => g.changed = ch) /\ (Edits(cmd, fs) # {} => g.changed)
  /\ g.pass1 \in Seq(Descrs)
  /\ ~rofs => g.key = key
  /\ ~rofs /\ ~cmd.w /\ ~cmd.F /\ cmd.op = "load" =>
       \A n \in 1..Len(g.pass1) : Permits(o, g.pass1[n].file)

\* With -w the label of the file is edited, and without it the Disabled key is obeyed.
LEMMA PlistRead ==
  ASSUME NEW cmd \in Commands, NEW o \in [Labels -> Answers], NEW ch, NEW fs, NEW g, Reads(g, cmd, o, ch, fs),
         NEW f \in Files, path_goodness_check(f, cmd), rofs \in BOOLEAN
  PROVE  LET h == read_plist_file(g, f, cmd)
         IN  /\ Reads(h, cmd, o, ch, fs \cup {f}) /\ h.pass1 = g.pass1
             /\ ~rofs /\ ~cmd.w => (h.disabled # "yes" <=> Permits(o, f))
  <1> DEFINE l == Plist[f].label
             h == read_plist_file(g, f, cmd)
             E == Edits(cmd, fs)
             F == Edits(cmd, fs \cup {f})
  <1>1. l \in Labels /\ cmd.w \in BOOLEAN
    BY LoadJobsAssumption DEF Commands
  <1>2. CASE ~cmd.w
    <2> DEFINE e == effective(g, f)
    <2>1. h = [g EXCEPT !.disabled = e]
      BY <1>2 DEF read_plist_file
    <2>2. E = {} /\ F = {}
      BY <1>2 DEF Edits
    <2>3. g.odb = o
      BY <2>2 DEF Reads, EditedDb
    <2>4. ~rofs => (e # "yes" <=> Permits(o, f))
      BY <2>3 DEF effective, Permits
    <2> HIDE DEF e
    <2>5. /\ h = [odb |-> h.odb, changed |-> h.changed, key |-> h.key, disabled |-> h.disabled, pass1 |-> h.pass1]
          /\ h.odb = g.odb /\ h.changed = g.changed /\ h.key = g.key /\ h.disabled = e /\ h.pass1 = g.pass1
      BY <2>1 DEF Reads
    <2> HIDE DEF h
    <2>6. h.odb = EditedDb(cmd, F, o) /\ (F # {} => h.changed)
      BY <2>2, <2>5 DEF Reads
    <2>7. h.changed \in BOOLEAN /\ (rofs => h.changed = ch) /\ (~rofs => h.key = key) /\ h.pass1 \in Seq(Descrs)
      BY <2>5 DEF Reads
    <2>8. ~rofs /\ ~cmd.w /\ ~cmd.F /\ cmd.op = "load" =>
            \A n \in 1..Len(h.pass1) : Permits(o, h.pass1[n].file)
      BY <2>5 DEF Reads
    <2>9. Reads(h, cmd, o, ch, fs \cup {f})
      BY <2>5, <2>6, <2>7, <2>8, Zenon DEF Reads
    <2> QED
      BY <2>4, <2>5, <2>9 DEF h
  <1>3. CASE cmd.w /\ ~rofs
    <2> DEFINE od == [g.odb EXCEPT ![l] = Stored(cmd)]
    <2>1. h = [g EXCEPT !.odb[l] = Stored(cmd), !.changed = TRUE, !.disabled = Stored(cmd)]
      BY <1>3 DEF read_plist_file, Stored
    <2>2. h = [g EXCEPT !.odb = od, !.changed = TRUE, !.disabled = Stored(cmd)]
      BY <2>1 DEF Reads
    <2>3. F = E \cup {l}
      BY <1>3 DEF Edits
    <2>4. od = EditedDb(cmd, F, o)
      BY <1>1, <2>3 DEF EditedDb, Reads
    <2> HIDE DEF od
    <2>5. /\ h = [odb |-> h.odb, changed |-> h.changed, key |-> h.key, disabled |-> h.disabled, pass1 |-> h.pass1]
          /\ h.odb = od /\ h.changed = TRUE /\ h.key = g.key /\ h.pass1 = g.pass1
      BY <2>2 DEF Reads
    <2> HIDE DEF h
    <2>6. h.odb = EditedDb(cmd, F, o) /\ (F # {} => h.changed)
      BY <2>4, <2>5
    <2>7. h.changed \in BOOLEAN /\ (rofs => h.changed = ch) /\ (~rofs => h.key = key) /\ h.pass1 \in Seq(Descrs)
      BY <1>3, <2>5 DEF Reads
    <2>8. ~rofs /\ ~cmd.w /\ ~cmd.F /\ cmd.op = "load" =>
            \A n \in 1..Len(h.pass1) : Permits(o, h.pass1[n].file)
      BY <1>3
    <2>9. Reads(h, cmd, o, ch, fs \cup {f})
      BY <2>5, <2>6, <2>7, <2>8, Zenon DEF Reads
    <2> QED
      BY <1>3, <2>5, <2>9 DEF h
  <1>4. CASE cmd.w /\ rofs
    <2> DEFINE x == IF cmd.op = "load" THEN "none" ELSE "yes"
               ke == [g.key EXCEPT ![f] = x]
    <2>1. h = [g EXCEPT !.key[f] = x, !.disabled = x]
      BY <1>4 DEF read_plist_file
    <2>2. h = [g EXCEPT !.key = ke, !.disabled = x]
      BY <2>1 DEF Reads
    <2>3. E = {} /\ F = {}
      BY <1>4 DEF Edits
    <2> HIDE DEF ke, x
    <2>4. /\ h = [odb |-> h.odb, changed |-> h.changed, key |-> h.key, disabled |-> h.disabled, pass1 |-> h.pass1]
          /\ h.odb = g.odb /\ h.changed = g.changed /\ h.pass1 = g.pass1
      BY <2>2 DEF Reads
    <2> HIDE DEF h
    <2>6. h.odb = EditedDb(cmd, F, o) /\ (F # {} => h.changed)
      BY <2>3, <2>4 DEF Reads
    <2>7. h.changed \in BOOLEAN /\ (rofs => h.changed = ch) /\ (~rofs => h.key = key) /\ h.pass1 \in Seq(Descrs)
      BY <1>4, <2>4 DEF Reads
    <2>8. ~rofs /\ ~cmd.w /\ ~cmd.F /\ cmd.op = "load" =>
            \A n \in 1..Len(h.pass1) : Permits(o, h.pass1[n].file)
      BY <1>4
    <2>9. Reads(h, cmd, o, ch, fs \cup {f})
      BY <2>4, <2>6, <2>7, <2>8, Zenon DEF Reads
    <2> QED
      BY <1>4, <2>4, <2>9 DEF h
  <1> QED
    BY <1>1, <1>2, <1>3, <1>4

\* The description of a job to submit.
LEMMA DescrIs ==
  ASSUME NEW c, NEW f \in Files, NEW cmd \in Commands
  PROVE  Descr(c, f, cmd) \in Descrs /\ Descr(c, f, cmd).file = f
  <1> DEFINE m == IF AllowedSessions(c, f, cmd) = {} THEN "none"
                  ELSE IF SessionType(c, cmd) # "none" THEN SessionType(c, cmd) ELSE "System"
             u == IF cmd.boot THEN NullUuid ELSE NoUuid
             M == {"none", "System", "Aqua"} \cup {x.S : x \in Commands}
  <1>1. SessionType(c, cmd) \in M
    BY DEF SessionType
  <1>2. m \in M
    BY <1>1
  <1>3. u \in {NullUuid, NoUuid}
    OBVIOUS
  <1>4. Descr(c, f, cmd) = [file |-> f, mgr |-> m, uuid |-> u, keys |-> Plist[f].keys]
    BY DEF Descr
  <1>5. Plist[f].keys \in KeySets
    BY DEF KeySets
  <1> HIDE DEF m, u, M
  <1>6. Descr(c, f, cmd) \in [file : Files, mgr : M, uuid : {NullUuid, NoUuid}, keys : KeySets] /\ Descr(c, f, cmd).file = f
    BY <1>2, <1>3, <1>4, <1>5
  <1> QED
    BY <1>6 DEF Descrs, M

\* One path more.
LEMMA PathRead ==
  ASSUME NEW c, NEW cmd \in Commands, NEW o \in [Labels -> Answers], NEW ch, NEW fs, NEW g,
         Reads(g, cmd, o, ch, fs), NEW f \in Files, rofs \in BOOLEAN
  PROVE  Reads(readpath(c, g, f, cmd), cmd, o, ch, fs \cup {f})
  <1>1. CASE ~path_goodness_check(f, cmd)
    <2>1. Edits(cmd, fs \cup {f}) = Edits(cmd, fs)
      BY <1>1 DEF Edits
    <2>2. readpath(c, g, f, cmd) = g
      BY <1>1 DEF readpath
    <2> QED
      BY <2>1, <2>2 DEF Reads
  <1>2. CASE path_goodness_check(f, cmd)
    <2> DEFINE h == read_plist_file(g, f, cmd)
               d == Descr(c, f, cmd)
               i == [h EXCEPT !.pass1 = Append(h.pass1, d)]
               skip == \/ ~Plist[f].fits
                       \/ ~SessionFits(c, f, cmd)
                       \/ job_disabled_logic(h.disabled) /\ ~cmd.F /\ cmd.op = "load"
    <2>1. Reads(h, cmd, o, ch, fs \cup {f}) /\ (~rofs /\ ~cmd.w => (h.disabled # "yes" <=> Permits(o, f)))
      BY <1>2, PlistRead
    <2>2. readpath(c, g, f, cmd) = IF skip THEN h ELSE [h EXCEPT !.pass1 = Append(@, d)]
      BY <1>2 DEF readpath, readfile
    <2>3. d \in Descrs /\ d.file = f
      BY DescrIs
    <2>4. ~skip /\ ~cmd.F /\ cmd.op = "load" => h.disabled # "yes"
      BY DEF job_disabled_logic
    <2> HIDE DEF h, d, skip
    <2>5. readpath(c, g, f, cmd) = IF skip THEN h ELSE i
      BY <2>2 DEF Reads
    <2>6. CASE skip
      BY <2>1, <2>5, <2>6
    <2>7. CASE ~skip
      <3> DEFINE q == Append(h.pass1, d)
      <3>1. h.pass1 \in Seq(Descrs)
        BY <2>1 DEF Reads
      <3>2. /\ q \in Seq(Descrs) /\ Len(q) = Len(h.pass1) + 1 /\ q[Len(q)] = d
            /\ \A n \in 1..Len(h.pass1) : q[n] = h.pass1[n]
        BY <2>3, <3>1
      <3>3. \A n \in 1..Len(q) : n \in 1..Len(h.pass1) \/ n = Len(q)
        BY <3>1, <3>2
      <3>4. ~rofs /\ ~cmd.w /\ ~cmd.F /\ cmd.op = "load" => \A n \in 1..Len(q) : Permits(o, q[n].file)
        BY <2>1, <2>3, <2>4, <2>7, <3>2, <3>3 DEF Reads
      <3>0. h = [odb |-> h.odb, changed |-> h.changed, key |-> h.key, disabled |-> h.disabled, pass1 |-> h.pass1]
        BY <2>1 DEF Reads
      <3> HIDE DEF q
      <3>5. /\ i = [odb |-> i.odb, changed |-> i.changed, key |-> i.key, disabled |-> i.disabled, pass1 |-> i.pass1]
            /\ i.odb = h.odb /\ i.changed = h.changed /\ i.key = h.key /\ i.pass1 = q
        BY <3>0 DEF q
      <3> HIDE DEF i
      <3>6. Reads(i, cmd, o, ch, fs \cup {f})
        BY <2>1, <3>2, <3>4, <3>5, Zenon DEF Reads
      <3> QED
        BY <2>5, <2>7, <3>6
    <2> QED
      BY <2>6, <2>7
  <1> QED
    BY <1>1, <1>2

\* All paths.
LEMMA PathsRead ==
  ASSUME NEW c, Cmd(c) \in Commands, cl[c].odb \in [Labels -> Answers], cl[c].changed \in BOOLEAN, rofs \in BOOLEAN
  PROVE  Reads(Gathered(c), Cmd(c), cl[c].odb, cl[c].changed, Range(Cmd(c).paths))
  <1> DEFINE cmd == Cmd(c)
             N == Len(cmd.paths)
             start == [odb |-> cl[c].odb, changed |-> cl[c].changed, key |-> key, disabled |-> "none", pass1 |-> <<>>]
             fs(k) == {cmd.paths[n] : n \in 1..k}
  <1>1. cmd.paths \in Seq(Files) /\ N \in Nat /\ \A k \in 1..N : cmd.paths[k] \in Files
    BY DEF Commands
  <1>2. PICK r : /\ r[0] = start
                 /\ \A i \in 1..N : r[i] = readpath(c, r[i - 1], cmd.paths[i], cmd)
                 /\ Gathered(c) = r[N]
    BY <1>1, GatherRuns
  <1> HIDE DEF cmd, N
  <1> DEFINE P(k) == Reads(r[k], cmd, cl[c].odb, cl[c].changed, fs(k))
             S == {k \in Nat : k <= N => P(k)}
  <1>3. 0 \in S
    <2>1. fs(0) = {}
      OBVIOUS
    <2>2. Edits(cmd, {}) = {}
      BY DEF Edits
    <2>3. EditedDb(cmd, {}, cl[c].odb) = cl[c].odb
      BY DEF EditedDb
    <2>4. Reads(start, cmd, cl[c].odb, cl[c].changed, {})
      <3>1. <<>> \in Seq(Descrs) /\ Len(<<>>) = 0
        OBVIOUS
      <3> QED
        BY <2>2, <2>3, <3>1 DEF Reads
    <2> QED
      BY <1>2, <2>1, <2>4
  <1>4. ASSUME NEW k \in S PROVE k + 1 \in S
    <2>1. k \in Nat
      OBVIOUS
    <2>2. ASSUME k + 1 <= N PROVE P(k + 1)
      <3>1. k <= N /\ k + 1 \in 1..N /\ (k + 1) - 1 = k
        BY <1>1, <2>1, <2>2
      <3>2. P(k)
        BY <3>1
      <3>3. r[k + 1] = readpath(c, r[k], cmd.paths[k + 1], cmd)
        BY <1>2, <3>1
      <3>4. fs(k + 1) = fs(k) \cup {cmd.paths[k + 1]}
        <4>1. \A n : n \in 1..(k + 1) <=> n \in 1..k \/ n = k + 1
          BY <2>1
        <4> QED
          BY <4>1
      <3>5. cmd \in Commands /\ cmd.paths[k + 1] \in Files
        BY <1>1, <3>1 DEF cmd
      <3> HIDE DEF fs
      <3> QED
        BY <3>2, <3>3, <3>4, <3>5, PathRead
    <2> HIDE DEF P
    <2> QED
      BY <2>1, <2>2
  <1> HIDE DEF S
  <1>5. S = Nat
    <2>1. S \in SUBSET Nat
      BY DEF S
    <2> QED
      BY <1>3, <1>4, <2>1, EveryNumber
  <1>6. P(N)
    <2>1. N \in Nat /\ N <= N /\ N \in S
      BY <1>1, <1>5
    <2> QED
      BY <2>1, Zenon DEF S
  <1>7. fs(N) = Range(cmd.paths)
    BY <1>1 DEF Range, N
  <1> QED
    BY <1>2, <1>6, <1>7 DEF cmd

-----------------------------------------------------------------------------
(* The steps.                                                              *)

LEMMA Becomes ==
  ASSUME NEW t, Good(t), LaunchdBecomes(t)
  PROVE  Launchd' = t
  BY DEF Good, LSt, LaunchdBecomes, Launchd

LEMMA Stays == UNCHANGED launchd => Launchd' = Launchd
  BY DEF launchd, Launchd

LEMMA BringsNone == \A s, t : s = t => Brings(s, t, {})
  BY DEF Brings

\* A process that runs has a command.
LEMMA CmdIs ==
  ASSUME IInv, NEW c \in Clients, cl[c].pc # "exited"
  PROVE  /\ Cmd(c) \in Commands /\ Cmd(c) = Runs(c, cl[c])
         /\ cl[c].cmd \in 1..Len(script[c]) /\ Len(script[c]) \in Nat
         /\ Cmd(c).op \in {"submit", "start", "remove"} => Cmd(c).paths # <<>>
  <1>1. script[c] \in Seq(Commands)
    BY LoadJobsAssumption DEF IInv
  <1>2. Len(script[c]) \in Nat
    BY <1>1
  <1>3. cl[c].cmd \in 1..Len(script[c])
    BY <1>2 DEF IInv, Sound, Staged, ClSt
  <1>4. Cmd(c) = script[c][cl[c].cmd]
    BY DEF Cmd
  <1> QED
    BY <1>1, <1>2, <1>3, <1>4, LoadJobsAssumption DEF Runs, IInv

\* A process that has not locked the database does not depend on it.
LEMMA OtherSound ==
  ASSUME NEW e, NEW p, NEW lk, NEW d, Sound(e, p, lk, d), NEW lk2, NEW d2, rofs \in BOOLEAN,
         (lk2 = lk /\ d2 = d) \/ rofs \/ lk # e
  PROVE  Sound(e, p, lk2, d2)
  <1>1. CASE lk2 = lk /\ d2 = d
    BY <1>1
  <1>2. CASE rofs
    BY <1>2 DEF Sound, Current, Obedient
  <1>3. CASE ~rofs /\ lk # e
    <2>1. ~Busy(e, p)
      BY <1>3 DEF Sound, Current
    <2>2. p.pc \notin {"reading", "submit"}
      BY <2>1 DEF Busy
    <2> QED
      BY <1>3, <2>1, <2>2 DEF Sound, Current, Obedient
  <1> QED
    BY <1>1, <1>2, <1>3

\* Between commands, and in a command without a database
Idle(c, p) ==
  /\ p.pc \in {"ready", "done", "exited", "dead", "answered"} /\ (p.pc = "answered" => Runs(c, p).op # "load")
  /\ (p.pc # "exited" => p.cmd <= Len(script[c])) /\ (rofs => ~p.changed)

LEMMA IdleSound ==
  ASSUME NEW c, NEW p \in ClSt, NEW lk, NEW d, Idle(c, p)
  PROVE  Sound(c, p, lk, d)
  <1>1. Staged(c, p)
    BY DEF Staged, Idle
  <1>2. ~Busy(c, p)
    BY DEF Busy, Idle
  <1>3. Current(c, p, lk, d)
    BY <1>2 DEF Current, Busy, Idle
  <1>4. Obedient(c, p, d)
    BY DEF Obedient, Idle
  <1> QED
    BY <1>1, <1>3, <1>4 DEF Sound

LEMMA ReturnedSound ==
  ASSUME NEW c, NEW p \in ClSt, NEW lk, NEW d, p.cmd <= Len(script[c]), Len(script[c]) \in Nat, rofs => ~p.changed
  PROVE  Sound(c, Returned(c, p), lk, d) /\ Returned(c, p).pc # "writing"
  <1> DEFINE r == Returned(c, p)
  <1>1. CASE p.cmd < Len(script[c])
    <2>1. r = [p EXCEPT !.pc = "ready", !.cmd = p.cmd + 1]
      BY <1>1 DEF Returned
    <2>2. p.cmd \in Nat \ {0} /\ p.cmd + 1 \in Nat \ {0} /\ p.cmd + 1 <= Len(script[c])
      BY <1>1 DEF ClSt
    <2>3. r \in ClSt /\ r.pc = "ready" /\ r.cmd = p.cmd + 1 /\ r.changed = p.changed
      BY <2>1, <2>2 DEF ClSt, Pcs
    <2> HIDE DEF r
    <2>4. Idle(c, r)
      BY <2>2, <2>3 DEF Idle
    <2>5. Sound(c, r, lk, d)
      BY <2>3, <2>4, IdleSound
    <2> QED
      BY <2>3, <2>5 DEF r
  <1>2. CASE ~(p.cmd < Len(script[c]))
    <2>1. r = [p EXCEPT !.pc = "exited"]
      BY <1>2 DEF Returned
    <2>2. r \in ClSt /\ r.pc = "exited" /\ r.changed = p.changed
      BY <2>1 DEF ClSt, Pcs
    <2> HIDE DEF r
    <2>3. Idle(c, r)
      BY <2>2 DEF Idle
    <2>4. Sound(c, r, lk, d)
      BY <2>2, <2>3, IdleSound
    <2> QED
      BY <2>2, <2>4 DEF r
  <1> QED
    BY <1>1, <1>2

LEMMA StepSound ==
  ASSUME script' = script, rofs' = rofs, ~rofs => key' = key, NEW c, Sound(c, cl'[c], lock', wanted')
  PROVE  Sound(c, cl[c], lock, wanted)'
  <1>1. Runs(c, cl[c])' = Runs(c, cl'[c])
    BY DEF Runs
  <1>2. Busy(c, cl[c])' <=> Busy(c, cl'[c])
    BY <1>1 DEF Busy
  <1>3. Staged(c, cl[c])'
    BY <1>1 DEF Sound, Staged
  <1>4. Edits(Runs(c, cl[c]), Range(Runs(c, cl[c]).paths))' = Edits(Runs(c, cl'[c]), Range(Runs(c, cl'[c]).paths))
    BY <1>1 DEF Edits, path_goodness_check
  <1>5. Current(c, cl[c], lock, wanted)'
    BY <1>1, <1>2, <1>4 DEF Sound, Current
  <1>6. Obedient(c, cl[c], wanted)'
    BY <1>1 DEF Sound, Obedient, Permits
  <1> QED
    BY <1>3, <1>5, <1>6 DEF Sound

\* What a step of the process c, which then is as p says, does to the file and to
\* what was asked for
DbSteps(c, p) ==
  \/ db' = db /\ wanted' = wanted /\ cl[c].pc # "writing" /\ p.pc # "writing"
  \/ db' = wanted' /\ (rofs \/ lock \in {c, Nobody}) /\ p.pc # "writing"
  \/ db' = NoOverrides /\ p.pc = "writing"

\* The step of one process leaves the others sound if it changes neither the
\* database nor the lock, or had the lock or could take it.
LEMMA OneSteps ==
  ASSUME IInv, NEW c \in Clients, NEW p, cl' = [cl EXCEPT ![c] = p], Sound(c, p, lock', wanted'), Good(Launchd'),
         script' = script, rofs' = rofs, ~rofs => key' = key,
         lock' \in Clients \cup {Nobody}, wanted' \in [Labels -> Answers], db' \in [Labels -> Answers],
         DbSteps(c, p),
         (lock' = lock /\ wanted' = wanted) \/ rofs \/ lock \in {c, Nobody}
  PROVE  IInv'
  <1>1. cl'[c] = p /\ (\A e \in Clients \ {c} : cl'[e] = cl[e]) /\ cl' = [e \in Clients |-> cl'[e]]
    BY DEF IInv
  <1>2. Nobody \notin Clients
    BY LoadJobsAssumption DEF Nobody
  <1>3. rofs \in BOOLEAN
    BY DEF IInv
  <1>4. ASSUME NEW e \in Clients PROVE Sound(e, cl'[e], lock', wanted')
    <2>1. CASE e = c
      BY <1>1, <2>1
    <2>2. CASE e # c
      <3>1. Sound(e, cl[e], lock, wanted) /\ cl'[e] = cl[e]
        BY <1>1, <2>2 DEF IInv
      <3>2. (lock' = lock /\ wanted' = wanted) \/ rofs \/ lock # e
        BY <1>2, <2>2
      <3>3. Sound(e, cl[e], lock', wanted')
        BY <1>3, <3>1, <3>2, OtherSound
      <3> QED
        BY <3>1, <3>3
    <2> QED
      BY <2>1, <2>2
  <1>5. \A e \in Clients : Sound(e, cl[e], lock, wanted)'
    BY <1>4, StepSound
  <1>6. script' \in Scripts /\ rofs' \in BOOLEAN
    BY DEF IInv
  <1>7. Good(Launchd)'
    BY DEF Good, Young, Needed, Managed, Labelled, Monitored
  <1>8. EditsKept'
    <2> SUFFICES ASSUME \A e \in Clients : cl'[e].pc # "writing"
                 PROVE  db' = wanted'
      BY DEF EditsKept
    <2>1. p.pc # "writing" /\ \A e \in Clients \ {c} : cl[e].pc # "writing"
      BY <1>1
    <2> QED
      BY <2>1 DEF IInv, EditsKept, DbSteps
  <1>9. Emptied'
    <2> SUFFICES ASSUME NEW e \in Clients, cl'[e].pc = "writing"
                 PROVE  db' = NoOverrides
      BY DEF Emptied, NoOverrides
    <2>1. CASE e = c
      BY <1>1, <2>1 DEF DbSteps
    <2>2. CASE e # c
      <3>1. cl[e].pc = "writing"
        BY <1>1, <2>2
      <3>2. cl[e].changed /\ ~rofs
        BY <3>1 DEF IInv, Sound, Staged, Current
      <3>3. lock = e
        BY <3>1, <3>2 DEF IInv, Sound, Current, Busy
      <3> QED
        BY <1>2, <2>2, <3>1, <3>2, <3>3 DEF DbSteps, IInv, Emptied
    <2> QED
      BY <2>1, <2>2
  <1> QED
    BY <1>1, <1>5, <1>6, <1>7, <1>8, <1>9 DEF IInv

\* Nobody writes while the database is not locked, or its owner is at something else.
LEMMA NobodyWrites ==
  ASSUME IInv, NEW c \in Clients, rofs \/ lock = Nobody \/ (lock = c /\ cl[c].pc # "writing")
  PROVE  db = wanted
  <1> SUFFICES ASSUME NEW e \in Clients, cl[e].pc = "writing"
               PROVE  FALSE
    BY DEF IInv, EditsKept
  <1>1. cl[e].changed /\ ~rofs
    BY DEF IInv, Sound, Staged, Current
  <1>2. lock = e
    BY <1>1 DEF IInv, Sound, Current, Busy
  <1> QED
    BY <1>1, <1>2, LoadJobsAssumption DEF Nobody

-----------------------------------------------------------------------------
(* The steps with the database.                                            *)

LEMMA OpenDbKeeps ==
  ASSUME IInv, NEW c \in Clients, OpenDb(c)
  PROVE  IInv' /\ Brings(Launchd, Launchd', {})
  <1> DEFINE p == [cl[c] EXCEPT !.pc = "reading", !.odb = db]
  <1>1. cl[c] \in ClSt /\ db \in [Labels -> Answers] /\ wanted \in [Labels -> Answers] /\ cl[c].pc = "ready"
    BY DEF IInv, Sound, OpenDb
  <1>2. cl' = [cl EXCEPT ![c] = p]
    BY <1>1 DEF OpenDb, IInv
  <1>3. p \in ClSt /\ p.pc = "reading" /\ p.cmd = cl[c].cmd /\ p.odb = db /\ p.changed = cl[c].changed
    BY <1>1 DEF ClSt, Pcs
  <1>4. Runs(c, p) = Cmd(c) /\ p.cmd <= Len(script[c]) /\ Cmd(c).op \in {"load", "unload"}
    BY <1>1, <1>3 DEF Runs, Cmd, OpenDb, IInv, Sound, Staged
  <1>5. rofs => ~p.changed
    BY <1>3 DEF IInv, Sound, Current
  <1>6. /\ lock' = (IF rofs THEN lock ELSE c) /\ db' = db /\ script' = script /\ rofs' = rofs /\ key' = key
        /\ wanted' = wanted /\ lock' \in Clients \cup {Nobody} /\ (lock = Nobody \/ rofs) /\ db = wanted
    BY NobodyWrites DEF OpenDb, IInv
  <1>7. Launchd' = Launchd /\ Good(Launchd')
    BY Stays DEF OpenDb, IInv
  <1> HIDE DEF p
  <1>8. Sound(c, p, lock', wanted')
    <2>1. Staged(c, p)
      BY <1>3, <1>4 DEF Staged
    <2>2. Current(c, p, lock', wanted')
      BY <1>3, <1>5, <1>6 DEF Current
    <2>3. Obedient(c, p, wanted')
      BY <1>3 DEF Obedient
    <2> QED
      BY <1>3, <2>1, <2>2, <2>3 DEF Sound
  <1>9. /\ wanted' \in [Labels -> Answers] /\ db' \in [Labels -> Answers] /\ (rofs \/ lock \in {c, Nobody})
        /\ DbSteps(c, p)
    BY <1>1, <1>3, <1>6 DEF DbSteps
  <1>10. IInv'
    BY <1>2, <1>6, <1>7, <1>8, <1>9, OneSteps
  <1> QED
    BY <1>7, <1>10, BringsNone

\* What is read is what the process has, and its edits.
LEMMA ReadingIs ==
  ASSUME IInv, NEW c \in Clients, cl[c].pc = "reading"
  PROVE  /\ Reads(Gathered(c), Cmd(c), cl[c].odb, cl[c].changed, Range(Cmd(c).paths))
         /\ Cmd(c) \in Commands /\ Cmd(c) = Runs(c, cl[c]) /\ cl[c].cmd <= Len(script[c])
         /\ Len(script[c]) \in Nat /\ Cmd(c).op \in {"load", "unload"}
         /\ Gathered(c).odb \in [Labels -> Answers]
  <1>1. cl[c] \in ClSt /\ cl[c].pc # "exited" /\ rofs \in BOOLEAN
    BY DEF IInv, Sound
  <1>2. cl[c].odb \in [Labels -> Answers] /\ cl[c].changed \in BOOLEAN
    BY <1>1 DEF ClSt
  <1>3. Cmd(c) \in Commands /\ Cmd(c) = Runs(c, cl[c]) /\ cl[c].cmd \in 1..Len(script[c]) /\ Len(script[c]) \in Nat
    BY <1>1, CmdIs
  <1>4. Reads(Gathered(c), Cmd(c), cl[c].odb, cl[c].changed, Range(Cmd(c).paths))
    BY <1>1, <1>2, <1>3, PathsRead
  <1>5. Cmd(c).op \in {"load", "unload"}
    BY <1>3 DEF IInv, Sound, Staged
  <1>6. Stored(Cmd(c)) \in Answers
    BY DEF Stored, Answers
  <1>7. Gathered(c).odb \in [Labels -> Answers]
    BY <1>2, <1>4, <1>6 DEF Reads, EditedDb
  <1> QED
    BY <1>3, <1>4, <1>5, <1>7

LEMMA ReadNothingKeeps ==
  ASSUME IInv, NEW c \in Clients, ReadNothing(c)
  PROVE  IInv' /\ Brings(Launchd, Launchd', {})
  <1> DEFINE g == Gathered(c)
             q == [cl[c] EXCEPT !.changed = g.changed]
             p == Returned(c, q)
  <1>1. cl[c] \in ClSt /\ wanted \in [Labels -> Answers] /\ cl[c].pc = "reading"
    BY DEF IInv, Sound, ReadNothing
  <1>2. /\ Reads(g, Cmd(c), cl[c].odb, cl[c].changed, Range(Cmd(c).paths))
        /\ cl[c].cmd <= Len(script[c]) /\ Len(script[c]) \in Nat
    BY <1>1, ReadingIs
  <1>3. /\ cl' = [cl EXCEPT ![c] = p] /\ key' = g.key
        /\ lock' = (IF p.pc = "exited" /\ lock = c THEN Nobody ELSE lock)
        /\ script' = script /\ rofs' = rofs /\ db' = db /\ wanted' = wanted /\ UNCHANGED launchd
    BY DEF ReadNothing, IInv
  <1> HIDE DEF g
  <1>4. q \in ClSt /\ q.cmd = cl[c].cmd /\ q.changed = g.changed
    BY <1>1, <1>2 DEF ClSt, Reads
  <1>5. rofs => ~q.changed
    BY <1>2, <1>4 DEF Reads, IInv, Sound, Current
  <1> HIDE DEF q
  <1>6. q.cmd <= Len(script[c])
    BY <1>2, <1>4
  <1>7. Sound(c, p, lock', wanted') /\ p.pc # "writing"
    BY <1>2, <1>4, <1>5, <1>6, ReturnedSound
  <1> HIDE DEF p
  <1>8. Launchd' = Launchd /\ Good(Launchd')
    BY <1>3, Stays DEF IInv
  <1>9. /\ wanted' \in [Labels -> Answers] /\ lock' \in Clients \cup {Nobody} /\ (~rofs => key' = key)
        /\ ((lock' = lock /\ wanted' = wanted) \/ rofs \/ lock \in {c, Nobody})
        /\ db' \in [Labels -> Answers] /\ DbSteps(c, p)
    BY <1>1, <1>2, <1>3, <1>7 DEF Reads, IInv, DbSteps
  <1>10. IInv'
    BY <1>3, <1>7, <1>8, <1>9, OneSteps
  <1> QED
    BY <1>8, <1>10, BringsNone

LEMMA ReadPathsKeeps ==
  ASSUME IInv, NEW c \in Clients, ReadPaths(c)
  PROVE  IInv' /\ Brings(Launchd, Launchd', {})
  <1> DEFINE g == Gathered(c)
             cmd == Cmd(c)
             E == Edits(cmd, Range(cmd.paths))
             pc == IF cmd.op = "load" THEN "submit" ELSE "unload"
             p == [cl[c] EXCEPT !.pc = pc, !.odb = g.odb, !.changed = g.changed, !.pass1 = g.pass1]
  <1>1. cl[c] \in ClSt /\ wanted \in [Labels -> Answers] /\ cl[c].pc = "reading"
    BY DEF IInv, Sound, ReadPaths
  <1>2. /\ Reads(g, cmd, cl[c].odb, cl[c].changed, Range(cmd.paths)) /\ cmd = Runs(c, cl[c])
        /\ cl[c].cmd <= Len(script[c]) /\ cmd.op \in {"load", "unload"} /\ g.odb \in [Labels -> Answers]
    BY <1>1, ReadingIs
  <1>3. /\ cl' = [cl EXCEPT ![c].pc = pc, ![c].odb = g.odb, ![c].changed = g.changed, ![c].pass1 = g.pass1]
        /\ key' = g.key /\ lock' = lock /\ g.pass1 # <<>>
        /\ script' = script /\ rofs' = rofs /\ db' = db /\ wanted' = wanted /\ UNCHANGED launchd
    BY DEF ReadPaths, IInv
  <1>4. pc \in Pcs /\ pc \in {"submit", "unload"} /\ (pc = "submit" => cmd.op = "load")
    BY DEF Pcs
  <1> HIDE DEF g, cmd, pc
  <1>5. cl' = [cl EXCEPT ![c] = p]
    BY <1>1, <1>3 DEF IInv
  <1>6. g.changed \in BOOLEAN /\ g.pass1 \in Seq(Descrs)
    BY <1>2 DEF Reads
  <1>7. /\ p \in ClSt /\ p.pc = pc /\ p.cmd = cl[c].cmd /\ p.odb = g.odb /\ p.changed = g.changed /\ p.pass1 = g.pass1
    BY <1>1, <1>2, <1>4, <1>6 DEF ClSt
  <1> HIDE DEF p
  <1>8. Runs(c, p) = cmd
    BY <1>2, <1>7 DEF Runs
  <1>9. ~rofs => lock = c /\ cl[c].odb = wanted
    BY <1>1 DEF IInv, Sound, Current, Busy
  <1>10. rofs => ~p.changed
    BY <1>2, <1>7 DEF Reads, IInv, Sound, Current
  <1>11. Sound(c, p, lock', wanted')
    <2>1. Staged(c, p)
      BY <1>2, <1>3, <1>4, <1>7, <1>8 DEF Staged
    <2>2. ~rofs => p.odb = EditedDb(cmd, E, wanted) /\ (E # {} => p.changed)
      BY <1>2, <1>7, <1>9 DEF Reads
    <2>3. Current(c, p, lock', wanted')
      BY <1>3, <1>4, <1>7, <1>8, <1>9, <1>10, <2>2 DEF Current
    <2>4. Obedient(c, p, wanted')
      BY <1>2, <1>3, <1>4, <1>7, <1>8, <1>9 DEF Obedient, Reads
    <2> QED
      BY <1>7, <2>1, <2>3, <2>4 DEF Sound
  <1>12. Launchd' = Launchd /\ Good(Launchd')
    BY <1>3, Stays DEF IInv
  <1>13. /\ wanted' \in [Labels -> Answers] /\ lock' \in Clients \cup {Nobody} /\ (~rofs => key' = key)
         /\ (lock' = lock /\ wanted' = wanted) /\ db' \in [Labels -> Answers] /\ DbSteps(c, p)
    BY <1>1, <1>2, <1>3, <1>4, <1>7 DEF Reads, IInv, DbSteps
  <1>14. IInv'
    BY <1>3, <1>5, <1>11, <1>12, <1>13, OneSteps
  <1> QED
    BY <1>12, <1>14, BringsNone

\* Closing the database completes the edits, which are in it then, and only those.
LEMMA CloseDbKeeps ==
  ASSUME IInv, NEW c \in Clients, CloseDb(c),
         \/ cl[c].pc = "save" /\ ~cl[c].changed /\ db' = db
         \/ cl[c].pc = "writing" /\ db' = cl[c].odb
  PROVE  IInv' /\ Brings(Launchd, Launchd', {})
  <1> DEFINE p == Returned(c, cl[c])
             cmd == Cmd(c)
             E == Edits(cmd, Range(cmd.paths))
  <1>1. /\ cl[c] \in ClSt /\ wanted \in [Labels -> Answers] /\ db \in [Labels -> Answers]
        /\ cl[c].pc \in {"save", "writing"} /\ cl[c].pc # "exited" /\ cl[c].pc # "reading"
        /\ (cl[c].pc = "writing" => cl[c].changed)
    BY DEF IInv, Sound, Staged
  <1>2. /\ cmd = Runs(c, cl[c]) /\ cl[c].cmd \in 1..Len(script[c]) /\ Len(script[c]) \in Nat
    BY <1>1, CmdIs
  <1>3. rofs => ~cl[c].changed
    BY DEF IInv, Sound, Current
  <1>4. Edited(c) = E
    BY DEF Edited, Edits
  <1>5. /\ cl' = [cl EXCEPT ![c] = p] /\ key' = key /\ script' = script /\ rofs' = rofs
        /\ wanted' = [l \in Labels |-> IF l \in Edited(c) THEN (IF cmd.op = "load" THEN "no" ELSE "yes") ELSE wanted[l]]
        /\ lock' = (IF lock = c THEN Nobody ELSE lock) /\ UNCHANGED launchd
    BY DEF CloseDb
  <1>6. wanted' = EditedDb(cmd, E, wanted)
    BY <1>1, <1>4, <1>5 DEF EditedDb, Stored
  <1>7. ~rofs => lock = c /\ cl[c].odb = EditedDb(cmd, E, wanted) /\ (E # {} => cl[c].changed)
    BY <1>1, <1>2 DEF IInv, Sound, Current, Busy
  <1>8. E = {} => EditedDb(cmd, E, wanted) = wanted
    BY <1>1 DEF EditedDb
  <1>9. rofs => E = {}
    BY DEF Edits
  <1>10. cl[c].odb \in [Labels -> Answers] /\ cl[c].changed \in BOOLEAN /\ rofs \in BOOLEAN
    BY <1>1 DEF ClSt, IInv
  <1> HIDE DEF cmd, E, p
  <1>11. wanted' = db'
    <2>1. CASE cl[c].pc = "save"
      <3>1. E = {} /\ db' = db
        BY <1>7, <1>9, <1>10, <2>1
      <3>2. db = wanted
        BY <1>7, <1>10, <2>1, NobodyWrites
      <3> QED
        BY <1>6, <1>8, <3>1, <3>2
    <2>2. CASE cl[c].pc = "writing"
      BY <1>1, <1>3, <1>6, <1>7, <2>2
    <2> QED
      BY <1>1, <2>1, <2>2
  <1>12. Sound(c, p, lock', wanted') /\ p.pc # "writing"
    <2>1. cl[c].cmd <= Len(script[c])
      BY <1>2
    <2> QED
      BY <1>1, <1>2, <1>3, <2>1, ReturnedSound DEF p
  <1>13. Launchd' = Launchd /\ Good(Launchd')
    BY <1>5, Stays DEF IInv
  <1>14. /\ wanted' \in [Labels -> Answers] /\ lock' \in Clients \cup {Nobody} /\ (rofs \/ lock \in {c, Nobody})
         /\ db' \in [Labels -> Answers] /\ DbSteps(c, p)
    BY <1>1, <1>5, <1>7, <1>10, <1>11, <1>12 DEF IInv, DbSteps
  <1>15. IInv'
    BY <1>5, <1>12, <1>13, <1>14, OneSteps
  <1> QED
    BY <1>13, <1>15, BringsNone

\* Cutting the file off takes nothing from what the process has in memory.
LEMMA TruncateDbKeeps ==
  ASSUME IInv, NEW c \in Clients, TruncateDb(c)
  PROVE  IInv' /\ Brings(Launchd, Launchd', {})
  <1> DEFINE p == [cl[c] EXCEPT !.pc = "writing"]
  <1>1. /\ cl[c] \in ClSt /\ wanted \in [Labels -> Answers] /\ cl[c].pc = "save" /\ cl[c].changed
        /\ lock \in Clients \cup {Nobody} /\ Sound(c, cl[c], lock, wanted)
    BY DEF IInv, Sound, TruncateDb
  <1>2. /\ cl' = [cl EXCEPT ![c].pc = "writing"] /\ key' = key /\ script' = script /\ rofs' = rofs
        /\ db' = NoOverrides /\ wanted' = wanted /\ lock' = lock /\ UNCHANGED launchd
    BY DEF TruncateDb
  <1>3. cl' = [cl EXCEPT ![c] = p]
    BY <1>1, <1>2 DEF IInv
  <1>4. p \in ClSt /\ p.pc = "writing" /\ p.cmd = cl[c].cmd /\ p.changed = cl[c].changed /\ p.odb = cl[c].odb
    BY <1>1 DEF ClSt, Pcs
  <1> HIDE DEF p
  <1>5. Runs(c, p) = Runs(c, cl[c])
    BY <1>4 DEF Runs
  <1>6. Sound(c, p, lock', wanted')
    <2>1. Staged(c, p)
      BY <1>1, <1>4, <1>5 DEF Sound, Staged
    <2>2. Current(c, p, lock, wanted)
      BY <1>1, <1>4, <1>5 DEF Sound, Current, Busy
    <2>3. Obedient(c, p, wanted)
      BY <1>4 DEF Obedient
    <2> QED
      BY <1>2, <1>4, <2>1, <2>2, <2>3 DEF Sound
  <1>7. NoOverrides \in [Labels -> Answers]
    BY DEF NoOverrides, Answers
  <1>8. DbSteps(c, p) /\ db' \in [Labels -> Answers] /\ wanted' \in [Labels -> Answers]
    BY <1>1, <1>2, <1>4, <1>7 DEF DbSteps
  <1>9. Launchd' = Launchd /\ Good(Launchd')
    BY <1>2, Stays DEF IInv
  <1>10. IInv'
    BY <1>1, <1>2, <1>3, <1>6, <1>8, <1>9, OneSteps
  <1> QED
    BY <1>9, <1>10, BringsNone

LEMMA CommandEndsKeeps ==
  ASSUME IInv, NEW c \in Clients, CommandEnds(c)
  PROVE  IInv' /\ Brings(Launchd, Launchd', {})
  <1> DEFINE p == Returned(c, cl[c])
  <1>1. cl[c] \in ClSt /\ wanted \in [Labels -> Answers] /\ cl[c].pc # "exited" /\ cl[c].pc = "done"
    BY DEF IInv, Sound, CommandEnds
  <1>2. cl[c].cmd \in 1..Len(script[c]) /\ Len(script[c]) \in Nat
    BY <1>1, CmdIs
  <1>3. rofs => ~cl[c].changed
    BY DEF IInv, Sound, Current
  <1>4. /\ cl' = [cl EXCEPT ![c] = p] /\ key' = key /\ script' = script /\ rofs' = rofs /\ db' = db /\ wanted' = wanted
        /\ lock' = (IF p.pc = "exited" /\ lock = c THEN Nobody ELSE lock) /\ UNCHANGED launchd
    BY DEF CommandEnds, IInv
  <1>5. Sound(c, p, lock', wanted') /\ p.pc # "writing"
    <2>1. cl[c].cmd <= Len(script[c])
      BY <1>2
    <2> QED
      BY <1>1, <1>2, <1>3, <2>1, ReturnedSound
  <1> HIDE DEF p
  <1>6. Launchd' = Launchd /\ Good(Launchd')
    BY <1>4, Stays DEF IInv
  <1>7. /\ wanted' \in [Labels -> Answers] /\ lock' \in Clients \cup {Nobody}
        /\ (lock' = lock /\ wanted' = wanted) \/ rofs \/ lock \in {c, Nobody}
        /\ db' \in [Labels -> Answers] /\ DbSteps(c, p)
    BY <1>1, <1>4, <1>5 DEF IInv, DbSteps
  <1>8. IInv'
    BY <1>4, <1>5, <1>6, <1>7, OneSteps
  <1> QED
    BY <1>6, <1>8, BringsNone

LEMMA DieKeeps ==
  ASSUME IInv, NEW c \in Clients, Die(c)
  PROVE  IInv' /\ Brings(Launchd, Launchd', {})
  <1> DEFINE p == [cl[c] EXCEPT !.pc = "dead"]
  <1>1. cl[c] \in ClSt /\ wanted \in [Labels -> Answers] /\ cl[c].pc # "exited"
    BY DEF IInv, Sound, Die
  <1>2. cl[c].cmd \in 1..Len(script[c]) /\ Len(script[c]) \in Nat
    BY <1>1, CmdIs
  <1>3. rofs => ~cl[c].changed
    BY DEF IInv, Sound, Current
  <1>4. /\ cl' = [cl EXCEPT ![c].pc = "dead"] /\ key' = key /\ script' = script /\ rofs' = rofs /\ db' = db
        /\ wanted' = (IF cl[c].pc = "writing" THEN NoOverrides ELSE wanted)
        /\ lock' = (IF lock = c THEN Nobody ELSE lock) /\ UNCHANGED launchd
    BY DEF Die, IInv
  <1>5. cl' = [cl EXCEPT ![c] = p]
    BY <1>1, <1>4 DEF IInv
  <1>6. p \in ClSt /\ p.pc = "dead" /\ p.cmd = cl[c].cmd /\ p.changed = cl[c].changed
    BY <1>1 DEF ClSt, Pcs
  <1> HIDE DEF p
  <1>7. Idle(c, p)
    BY <1>2, <1>3, <1>6 DEF Idle
  <1>8. Sound(c, p, lock', wanted')
    BY <1>6, <1>7, IdleSound
  <1>9. Launchd' = Launchd /\ Good(Launchd')
    BY <1>4, Stays DEF IInv
  <1>10. /\ wanted' \in [Labels -> Answers] /\ lock' \in Clients \cup {Nobody}
         /\ (lock' = lock /\ wanted' = wanted) \/ rofs \/ lock \in {c, Nobody}
         /\ db' \in [Labels -> Answers] /\ DbSteps(c, p)
    <2>1. CASE cl[c].pc = "writing"
      <3>1. db = NoOverrides /\ cl[c].changed /\ ~rofs
        BY <1>3, <2>1 DEF IInv, Emptied, Sound, Staged
      <3>2. lock = c
        BY <2>1, <3>1 DEF IInv, Sound, Current, Busy
      <3> QED
        BY <1>4, <1>6, <2>1, <3>1, <3>2 DEF IInv, DbSteps
    <2>2. CASE cl[c].pc # "writing"
      BY <1>1, <1>4, <1>6, <2>2 DEF IInv, DbSteps
    <2> QED
      BY <2>1, <2>2
  <1>11. IInv'
    BY <1>4, <1>5, <1>8, <1>9, <1>10, OneSteps
  <1> QED
    BY <1>9, <1>11, BringsNone

-----------------------------------------------------------------------------
(* The steps with launchd.                                                 *)

\* The process goes from q to p within its command
Later(c, q, p) ==
  /\ p.cmd = q.cmd /\ p.odb = q.odb /\ p.changed = q.changed
  /\ Busy(c, q) /\ q.pc # "reading"
  /\ p.pc \in {"answered", "unload", "blocked", "save"} /\ (p.pc = "answered" => Runs(c, q).op = "load")
  /\ p.pc = "unload" => p.pass1 # <<>>

\* It keeps the database that it has.
LEMMA LaterSound ==
  ASSUME NEW c, NEW p \in ClSt, NEW q, NEW lk, NEW d, Sound(c, q, lk, d), Later(c, q, p)
  PROVE  Sound(c, p, lk, d)
  <1>1. Runs(c, p) = Runs(c, q)
    BY DEF Runs, Later
  <1>2. Runs(c, q).op \in {"load", "unload"} /\ q.cmd <= Len(script[c])
    BY DEF Sound, Staged, Later, Busy
  <1>3. Staged(c, p)
    BY <1>1, <1>2 DEF Staged, Later
  <1>4. p.pc # "reading" /\ p.pc # "submit"
    BY DEF Later
  <1>5. Current(c, p, lk, d)
    BY <1>1, <1>4 DEF Sound, Current, Later
  <1>6. Obedient(c, p, d)
    BY <1>4 DEF Obedient
  <1> QED
    BY <1>3, <1>5, <1>6 DEF Sound

\* A step in which launchd changes.
LEMMA LaunchdSteps ==
  ASSUME IInv, NEW c \in Clients, NEW p \in ClSt, cl' = [cl EXCEPT ![c] = p],
         Later(c, cl[c], p) \/ Idle(c, p), cl[c].pc # "writing", Good(Launchd'),
         UNCHANGED <<script, lock, db, rofs, key, wanted>>
  PROVE  IInv'
  <1>1. Sound(c, cl[c], lock, wanted) /\ wanted \in [Labels -> Answers]
    BY DEF IInv
  <1>2. Sound(c, p, lock, wanted)
    <2>1. CASE Later(c, cl[c], p)
      BY <1>1, <2>1, LaterSound
    <2>2. CASE Idle(c, p)
      BY <2>2, IdleSound
    <2> QED
      BY <2>1, <2>2
  <1>3. /\ script' = script /\ rofs' = rofs /\ key' = key /\ lock' = lock /\ db' = db /\ wanted' = wanted
        /\ lock' \in Clients \cup {Nobody} /\ wanted' \in [Labels -> Answers]
        /\ db' \in [Labels -> Answers] /\ DbSteps(c, p)
    BY <1>1 DEF IInv, DbSteps, Later, Idle
  <1>4. Sound(c, p, lock', wanted')
    BY <1>2, <1>3
  <1> QED
    BY <1>3, <1>4, OneSteps

LEMMA NoSessionKeeps ==
  ASSUME IInv, NEW c \in Clients, NoSession(c) \/ SetSessionFails(c)
  PROVE  IInv' /\ Brings(Launchd, Launchd', {})
  <1> DEFINE pc == Answered(c)
             p == [cl[c] EXCEPT !.pc = pc]
  <1>1. cl[c] \in ClSt /\ cl[c].pc = "answered" /\ cl[c].pc # "exited"
    BY DEF IInv, Sound, NoSession, SetSessionFails
  <1>2. cl[c].cmd \in 1..Len(script[c]) /\ Len(script[c]) \in Nat /\ Cmd(c) = Runs(c, cl[c])
    BY <1>1, CmdIs
  <1>3. rofs => ~cl[c].changed
    BY DEF IInv, Sound, Current
  <1>4. pc = (IF Cmd(c).op = "load" THEN "save" ELSE "done") /\ pc \in Pcs
    BY DEF Answered, Pcs
  <1>5. cl' = [cl EXCEPT ![c].pc = pc] /\ UNCHANGED <<script, lock, db, rofs, key, wanted>> /\ UNCHANGED launchd
    BY DEF NoSession, SetSessionFails
  <1> HIDE DEF pc
  <1>6. cl' = [cl EXCEPT ![c] = p]
    BY <1>1, <1>5 DEF IInv
  <1>7. p \in ClSt /\ p.pc = pc /\ p.cmd = cl[c].cmd /\ p.changed = cl[c].changed /\ p.odb = cl[c].odb
    BY <1>1, <1>4 DEF ClSt
  <1> HIDE DEF p
  <1>8. Later(c, cl[c], p) \/ Idle(c, p)
    <2>1. CASE Cmd(c).op = "load"
      BY <1>1, <1>2, <1>4, <1>7, <2>1 DEF Later, Busy
    <2>2. CASE Cmd(c).op # "load"
      BY <1>2, <1>3, <1>4, <1>7, <2>2 DEF Idle
    <2> QED
      BY <2>1, <2>2
  <1>9. Launchd' = Launchd /\ Good(Launchd')
    BY <1>5, Stays DEF IInv
  <1>10. IInv'
    BY <1>1, <1>5, <1>6, <1>7, <1>8, <1>9, LaunchdSteps
  <1> QED
    BY <1>9, <1>10, BringsNone

LEMMA SetSessionKeeps ==
  ASSUME IInv, NEW c \in Clients, SetSession(c)
  PROVE  IInv' /\ Brings(Launchd, Launchd', {})
  <1> DEFINE pc == Answered(c)
             t == job_mig_set_security_session(Launchd, Uuid(c))
             re == [k \in DOMAIN cl[c].resp |-> IF cl[c].resp[k] = "ENEEDAUTH" THEN "0" ELSE cl[c].resp[k]]
             p == [cl[c] EXCEPT !.pc = pc, !.resp = re]
  <1>1. cl[c] \in ClSt /\ cl[c].pc = "answered" /\ cl[c].pc # "exited" /\ Good(Launchd)
    BY DEF IInv, Sound, SetSession
  <1>2. cl[c].cmd \in 1..Len(script[c]) /\ Len(script[c]) \in Nat /\ Cmd(c) = Runs(c, cl[c])
    BY <1>1, CmdIs
  <1>3. rofs => ~cl[c].changed
    BY DEF IInv, Sound, Current
  <1>4. pc = (IF Cmd(c).op = "load" THEN "save" ELSE "done") /\ pc \in Pcs
    BY DEF Answered, Pcs
  <1>5. /\ cl' = [cl EXCEPT ![c].pc = pc, ![c].resp = [k \in DOMAIN @ |-> IF @[k] = "ENEEDAUTH" THEN "0" ELSE @[k]]]
        /\ UNCHANGED <<script, lock, db, rofs, key, wanted>> /\ LaunchdBecomes(t)
    BY DEF SetSession
  <1> HIDE DEF pc
  <1>6. cl' = [cl EXCEPT ![c] = p]
    BY <1>1, <1>5 DEF IInv
  <1>7. re \in Seq(Errnos)
    <2>1. cl[c].resp \in Seq(Errnos)
      BY <1>1 DEF ClSt
    <2>2. DOMAIN cl[c].resp = 1..Len(cl[c].resp) /\ Len(cl[c].resp) \in Nat /\ \A k \in 1..Len(cl[c].resp) : cl[c].resp[k] \in Errnos
      BY <2>1
    <2>3. "0" \in Errnos
      BY DEF Errnos
    <2> QED
      BY <2>2, <2>3
  <1> HIDE DEF re
  <1>8. p \in ClSt /\ p.pc = pc /\ p.cmd = cl[c].cmd /\ p.changed = cl[c].changed /\ p.odb = cl[c].odb
    BY <1>1, <1>4, <1>7 DEF ClSt
  <1> HIDE DEF p
  <1>9. Later(c, cl[c], p) \/ Idle(c, p)
    <2>1. CASE Cmd(c).op = "load"
      BY <1>1, <1>2, <1>4, <1>8, <2>1 DEF Later, Busy
    <2>2. CASE Cmd(c).op # "load"
      BY <1>2, <1>3, <1>4, <1>8, <2>2 DEF Idle
    <2> QED
      BY <2>1, <2>2
  <1>10. Uuid(c) # NullUuid
    BY <1>2 DEF Uuid, NullUuid
  <1>11. Good(t) /\ Brings(Launchd, t, {})
    BY <1>1, <1>10, SessionGood
  <1> HIDE DEF t
  <1>12. Launchd' = t
    BY <1>5, <1>11, Becomes
  <1>13. IInv'
    BY <1>1, <1>5, <1>6, <1>8, <1>9, <1>11, <1>12, LaunchdSteps
  <1> QED
    BY <1>11, <1>12, <1>13

\* The jobs a load imports are those it has read.
LEMMA SubmitJobsKeeps ==
  ASSUME IInv, NEW c \in Clients, SubmitJobs(c)
  PROVE  IInv' /\ Brings(Launchd, Launchd', {Plist[d.file].label : d \in Range(cl[c].pass1)})
  <1> DEFINE q == cl[c].pass1
             ds == [k \in 1..Len(q) |-> IF q[k].uuid = NoUuid THEN [q[k] EXCEPT !.uuid = Uuid(c)] ELSE q[k]]
             L == {Plist[d.file].label : d \in Range(q)}
  <1>1. cl[c] \in ClSt /\ cl[c].pc = "submit" /\ cl[c].pc # "exited" /\ Good(Launchd)
    BY DEF IInv, Sound, SubmitJobs
  <1>2. Cmd(c) = Runs(c, cl[c]) /\ cl[c].cmd \in Nat \ {0}
    BY <1>1, CmdIs DEF ClSt
  <1>3. Runs(c, cl[c]).op = "load"
    BY <1>1 DEF IInv, Sound, Staged
  <1>4. PICK e \in {errno, "0"} :
          LET r == job_import_bulk([Launchd EXCEPT !.errno = e], ds)
          IN  /\ LaunchdBecomes(r.s)
              /\ cl' = [cl EXCEPT ![c].pc = "answered", ![c].resp = r.resp, ![c].ids = r.ids]
    BY DEF SubmitJobs
  <1> DEFINE s0 == [Launchd EXCEPT !.errno = e]
             r == job_import_bulk(s0, ds)
             p == [cl[c] EXCEPT !.pc = "answered", !.resp = r.resp, !.ids = r.ids]
  <1>5. UNCHANGED <<script, lock, db, rofs, key, wanted>> /\ next + Len(q) <= MaxJobs + 1
    BY DEF SubmitJobs
  <1>6. q \in Seq(Descrs) /\ Len(q) \in Nat /\ \A k \in 1..Len(q) : q[k] \in Descrs
    BY <1>1 DEF ClSt
  <1>7. Launchd.errno = errno /\ Launchd.next = next /\ Launchd.job = job /\ Launchd \in LSt
    BY <1>1 DEF Launchd, Good
  <1>8. e \in Errnos
    BY <1>7 DEF LSt, Errnos
  <1>9. Good(s0) /\ s0.next = next /\ s0.job = Launchd.job
    BY <1>1, <1>7, <1>8, ErrnoGood
  <1>10. Len(ds) = Len(q)
    BY <1>6
  <1>11. \A k \in 1..Len(ds) : Describes(ds[k]) /\ ds[k].file = q[k].file
    <2> SUFFICES ASSUME NEW k \in 1..Len(q) PROVE Describes(ds[k]) /\ ds[k].file = q[k].file
      BY <1>10
    <2>1. q[k] \in Descrs
      BY <1>6
    <2>2. Uuid(c) \in Uuids /\ NullUuid \in Uuids
      BY <1>2 DEF Uuid, Uuids
    <2>3. CASE q[k].uuid = NoUuid
      <3>1. ds[k] = [q[k] EXCEPT !.uuid = Uuid(c)]
        BY <2>3
      <3> HIDE DEF ds, q
      <3>2. ds[k].file = q[k].file /\ ds[k].uuid = Uuid(c) /\ ds[k].keys = q[k].keys
        BY <2>1, <3>1 DEF Descrs
      <3> QED
        BY <2>1, <2>2, <3>2 DEF Descrs, Describes
    <2>4. CASE q[k].uuid # NoUuid
      <3>1. ds[k] = q[k]
        BY <2>4
      <3>2. q[k].uuid = NullUuid
        BY <2>1, <2>4 DEF Descrs
      <3> HIDE DEF ds, q
      <3> QED
        BY <2>1, <2>2, <3>1, <3>2 DEF Descrs, Describes
    <2> QED
      BY <2>3, <2>4
  <1>12. {Plist[ds[k].file].label : k \in 1..Len(ds)} = L
    <2>1. Range(q) = {q[k] : k \in 1..Len(q)}
      BY <1>6 DEF Range
    <2> HIDE DEF q, ds
    <2> QED
      BY <1>10, <1>11, <2>1
  <1> HIDE DEF q, ds, s0
  <1>13. \A k \in 1..Len(ds) : Describes(ds[k])
    BY <1>11
  <1>14. Len(ds) \in Nat /\ s0.next + Len(ds) <= MaxJobs + 1
    BY <1>5, <1>6, <1>9, <1>10
  <1>15. Good(r.s) /\ r.resp \in Seq(Errnos) /\ r.ids \in SUBSET Ids /\ Brings(s0, r.s, L)
    <2>1. Brings(s0, r.s, {Plist[ds[k].file].label : k \in 1..Len(ds)})
      BY <1>9, <1>13, <1>14, BulkGood
    <2>2. Good(r.s) /\ r.resp \in Seq(Errnos) /\ r.ids \in SUBSET Ids
      BY <1>9, <1>13, <1>14, BulkGood
    <2> HIDE DEF r, L
    <2> QED
      BY <1>12, <2>1, <2>2
  <1>16. LaunchdBecomes(r.s) /\ cl' = [cl EXCEPT ![c].pc = "answered", ![c].resp = r.resp, ![c].ids = r.ids]
    BY <1>4 DEF s0
  <1> HIDE DEF r
  <1>17. cl' = [cl EXCEPT ![c] = p]
    BY <1>1, <1>16 DEF IInv
  <1>18. p \in ClSt /\ p.pc = "answered" /\ p.cmd = cl[c].cmd /\ p.odb = cl[c].odb /\ p.changed = cl[c].changed
    BY <1>1, <1>15 DEF ClSt, Pcs
  <1> HIDE DEF p
  <1>19. Later(c, cl[c], p)
    BY <1>1, <1>3, <1>18 DEF Later, Busy
  <1>20. Launchd' = r.s
    BY <1>15, <1>16, Becomes
  <1>21. IInv'
    BY <1>1, <1>5, <1>15, <1>17, <1>18, <1>19, <1>20, LaunchdSteps
  <1>22. Brings(Launchd, Launchd', L)
    BY <1>9, <1>15, <1>20 DEF Brings
  <1> QED
    BY <1>21, <1>22 DEF q

LEMMA SubmitCmdKeeps ==
  ASSUME IInv, NEW c \in Clients, submit_cmd(c)
  PROVE  IInv'
  <1> DEFINE d == [file |-> Cmd(c).paths[1], mgr |-> "none", uuid |-> Uuid(c), keys |-> {"KeepAlive"}]
  <1>1. cl[c] \in ClSt /\ cl[c].pc = "ready" /\ cl[c].pc # "exited" /\ Good(Launchd)
    BY DEF IInv, Sound, submit_cmd
  <1>2. /\ Cmd(c) \in Commands /\ Cmd(c) = Runs(c, cl[c]) /\ cl[c].cmd \in 1..Len(script[c]) /\ Cmd(c).op = "submit"
        /\ Cmd(c).paths # <<>>
    BY <1>1, CmdIs DEF submit_cmd
  <1>3. PICK e \in {errno, "0"} :
          LET s == jobmgr_import2([Launchd EXCEPT !.errno = e], d)
              new == s.next # next
          IN  /\ LaunchdBecomes(IF new THEN job_dispatch(s, next, FALSE) ELSE s)
              /\ cl' = [cl EXCEPT ![c].pc = IF s.errno = "ENEEDAUTH" THEN "answered" ELSE "done",
                                  ![c].pass1 = <<[d EXCEPT !.uuid = NoUuid]>>,
                                  ![c].resp = <<s.errno>>, ![c].ids = IF new THEN {next} ELSE {}]
    BY DEF submit_cmd
  <1> DEFINE s0 == [Launchd EXCEPT !.errno = e]
             s == jobmgr_import2(s0, d)
             new == s.next # next
             t == IF new THEN job_dispatch(s, next, FALSE) ELSE s
             pc == IF s.errno = "ENEEDAUTH" THEN "answered" ELSE "done"
             q == <<[d EXCEPT !.uuid = NoUuid]>>
             re == <<s.errno>>
             ids == IF new THEN {next} ELSE {}
             p == [cl[c] EXCEPT !.pc = pc, !.pass1 = q, !.resp = re, !.ids = ids]
  <1>4. LaunchdBecomes(t) /\ cl' = [cl EXCEPT ![c].pc = pc, ![c].pass1 = q, ![c].resp = re, ![c].ids = ids]
    BY <1>3
  <1>5. UNCHANGED <<script, lock, db, rofs, key, wanted>> /\ next <= MaxJobs
    BY DEF submit_cmd
  <1>6. Launchd.errno = errno /\ Launchd.next = next /\ Launchd \in LSt
    BY <1>1 DEF Launchd, Good
  <1>7. e \in Errnos /\ next \in Ids
    BY <1>5, <1>6, LoadJobsAssumption DEF LSt, Errnos, Ids
  <1>8. Good(s0) /\ s0.next = next
    BY <1>1, <1>6, <1>7, ErrnoGood
  <1>9. Cmd(c).paths[1] \in Files
    BY <1>2 DEF Commands
  <1>10. {"KeepAlive"} \in KeySets /\ Uuid(c) \in Uuids
    BY <1>2 DEF KeySets, Uuid, Uuids
  <1>11. Describes(d)
    BY <1>9, <1>10 DEF Describes
  <1>12. q \in Seq(Descrs)
    <2>1. [d EXCEPT !.uuid = NoUuid] \in Descrs
      BY <1>9, <1>10 DEF Descrs
    <2> QED
      BY <2>1
  <1> HIDE DEF d, s0, q
  <1>13. Good(s)
    BY <1>7, <1>8, <1>11, ImportGood
  <1> HIDE DEF s
  <1>14. Good(t)
    BY <1>7, <1>13, DispatchGood
  <1>15. s.errno \in Errnos
    BY <1>13 DEF Good, LSt
  <1>16. re \in Seq(Errnos) /\ ids \in SUBSET Ids /\ pc \in Pcs /\ pc \in {"answered", "done"}
    BY <1>7, <1>15 DEF Pcs
  <1> HIDE DEF t, pc, re, ids
  <1>17. cl' = [cl EXCEPT ![c] = p]
    BY <1>1, <1>4 DEF IInv
  <1>18. p \in ClSt /\ p.pc = pc /\ p.cmd = cl[c].cmd /\ p.changed = cl[c].changed
    BY <1>1, <1>12, <1>16 DEF ClSt
  <1> HIDE DEF p
  <1>19. Runs(c, p) = Cmd(c)
    BY <1>2, <1>18 DEF Runs
  <1>20. rofs => ~p.changed
    BY <1>18 DEF IInv, Sound, Current
  <1>21. p.cmd <= Len(script[c])
    BY <1>2, <1>18
  <1>22. Idle(c, p)
    BY <1>2, <1>16, <1>18, <1>19, <1>20, <1>21 DEF Idle
  <1>23. Launchd' = t
    BY <1>4, <1>14, Becomes
  <1> QED
    BY <1>1, <1>5, <1>14, <1>17, <1>18, <1>22, <1>23, LaunchdSteps

\* A job that is found is one.
LEMMA FoundIs ==
  ASSUME NEW l, job_find(Launchd, l) # {}
  PROVE  LET i == CHOOSE k \in job_find(Launchd, l) : TRUE IN i \in Ids /\ Launchd.job[i].there
  BY DEF job_find

LEMMA StartStopRemoveKeeps ==
  ASSUME IInv, NEW c \in Clients, start_stop_remove_cmd(c)
  PROVE  IInv' /\ Brings(Launchd, Launchd', {})
  <1> DEFINE l == Plist[Cmd(c).paths[1]].label
             found == job_find(Launchd, l)
             i == CHOOSE k \in found : TRUE
             p == [cl[c] EXCEPT !.pc = "done", !.ids = {}]
             t == IF Cmd(c).op = "start" THEN job_dispatch(Launchd, i, TRUE) ELSE job_remove(Launchd, i)
  <1>1. cl[c] \in ClSt /\ cl[c].pc = "ready" /\ cl[c].pc # "exited" /\ Good(Launchd)
    BY DEF IInv, Sound, start_stop_remove_cmd
  <1>2. cl[c].cmd \in 1..Len(script[c])
    BY <1>1, CmdIs
  <1>3. /\ cl' = [cl EXCEPT ![c].pc = "done", ![c].ids = {}] /\ UNCHANGED <<script, lock, db, rofs, key, wanted>>
        /\ IF found = {} THEN UNCHANGED launchd ELSE LaunchdBecomes(t)
    BY DEF start_stop_remove_cmd
  <1>4. Good(Launchd') /\ Brings(Launchd, Launchd', {})
    <2>1. CASE found = {}
      <3>1. Launchd' = Launchd
        BY <1>3, <2>1, Stays
      <3> QED
        BY <1>1, <3>1, BringsNone
    <2>2. CASE found # {}
      <3>1. i \in Ids /\ Launchd.job[i].there
        BY <2>2, FoundIs
      <3>2. LaunchdBecomes(t)
        BY <1>3, <2>2
      <3> HIDE DEF i
      <3>3. Good(t) /\ Brings(Launchd, t, {})
        <4>1. CASE Cmd(c).op = "start"
          <5>1. t = job_dispatch(Launchd, i, TRUE)
            BY <4>1
          <5> HIDE DEF t
          <5>2. Good(t)
            BY <1>1, <3>1, <5>1, DispatchGood
          <5>3. \A k \in Ids : Alike(Launchd.job[k], t.job[k])
            BY <1>1, <3>1, <5>1, DispatchGood
          <5> QED
            BY <5>2, <5>3 DEF Brings, Alike
        <4>2. CASE Cmd(c).op # "start"
          <5>1. t = job_remove(Launchd, i)
            BY <4>2
          <5> HIDE DEF t
          <5> QED
            BY <1>1, <3>1, <5>1, RemoveGood
        <4> QED
          BY <4>1, <4>2
      <3> HIDE DEF t
      <3>4. Launchd' = t
        BY <3>2, <3>3, Becomes
      <3> QED
        BY <3>3, <3>4
    <2> QED
      BY <2>1, <2>2
  <1>5. cl' = [cl EXCEPT ![c] = p]
    BY <1>1, <1>3 DEF IInv
  <1>6. p \in ClSt /\ p.pc = "done" /\ p.cmd = cl[c].cmd /\ p.changed = cl[c].changed
    BY <1>1 DEF ClSt, Pcs
  <1> HIDE DEF p
  <1>7. rofs => ~p.changed
    BY <1>6 DEF IInv, Sound, Current
  <1>8. Idle(c, p)
    BY <1>2, <1>6, <1>7 DEF Idle
  <1>9. IInv'
    BY <1>1, <1>3, <1>4, <1>5, <1>6, <1>8, LaunchdSteps
  <1> QED
    BY <1>4, <1>9

LEMMA UnloadJobKeeps ==
  ASSUME IInv, NEW c \in Clients, unloadjob(c)
  PROVE  IInv' /\ Brings(Launchd, Launchd', {})
  <1> DEFINE found == job_find(Launchd, Plist[Head(cl[c].pass1).file].label)
             i == CHOOSE k \in found : TRUE
             pc == IF Len(cl[c].pass1) > 1 THEN "unload" ELSE "save"
             q == Tail(cl[c].pass1)
             rest == [cl[c] EXCEPT !.pass1 = q, !.pc = pc]
             wait == [rest EXCEPT !.pc = "blocked", !.waits = i]
  <1>1. cl[c] \in ClSt /\ cl[c].pc = "unload" /\ Good(Launchd)
    BY DEF IInv, Sound, unloadjob
  <1>2. cl[c].pass1 # <<>> /\ cl[c].pass1 \in Seq(Descrs)
    BY <1>1 DEF IInv, Sound, Staged, ClSt
  <1>3. /\ IF found = {} THEN cl' = [cl EXCEPT ![c] = rest] /\ UNCHANGED launchd
           ELSE /\ LaunchdBecomes(job_remove(Launchd, i))
                /\ cl' = [cl EXCEPT ![c] = IF job[i].running THEN wait ELSE rest]
        /\ UNCHANGED <<script, lock, db, rofs, key, wanted>>
    BY DEF unloadjob
  <1>4. q \in Seq(Descrs) /\ pc \in Pcs /\ pc \in {"unload", "save"} /\ (pc = "unload" => q # <<>>)
    <2>1. q \in Seq(Descrs) /\ Len(q) = Len(cl[c].pass1) - 1 /\ Len(cl[c].pass1) \in Nat
      BY <1>2
    <2>2. Len(<<>>) = 0
      OBVIOUS
    <2>3. pc = "unload" => Len(q) > 0
      BY <2>1
    <2>4. pc \in Pcs /\ pc \in {"unload", "save"}
      BY DEF Pcs
    <2> HIDE DEF pc, q
    <2> QED
      BY <2>1, <2>2, <2>3, <2>4
  <1> HIDE DEF q, pc
  <1>5. /\ rest \in ClSt /\ rest.pc = pc /\ rest.cmd = cl[c].cmd /\ rest.odb = cl[c].odb
        /\ rest.changed = cl[c].changed /\ rest.pass1 = q
    BY <1>1, <1>4 DEF ClSt
  <1> HIDE DEF rest
  <1>6. Later(c, cl[c], rest)
    BY <1>1, <1>4, <1>5 DEF Later, Busy
  <1>7. CASE found = {}
    <2>1. Launchd' = Launchd /\ Good(Launchd')
      BY <1>1, <1>3, <1>7, Stays
    <2>2. IInv'
      BY <1>1, <1>3, <1>5, <1>6, <1>7, <2>1, LaunchdSteps
    <2> QED
      BY <2>1, <2>2, BringsNone
  <1>8. CASE found # {}
    <2> DEFINE t == job_remove(Launchd, i)
    <2>1. i \in Ids /\ Launchd.job[i].there
      BY <1>8, FoundIs
    <2>2. LaunchdBecomes(t) /\ cl' \in {[cl EXCEPT ![c] = wait], [cl EXCEPT ![c] = rest]}
      BY <1>3, <1>8
    <2> HIDE DEF i
    <2>3. Good(t) /\ Brings(Launchd, t, {})
      BY <1>1, <2>1, RemoveGood
    <2> HIDE DEF t
    <2>4. Launchd' = t
      BY <2>2, <2>3, Becomes
    <2>5. /\ wait \in ClSt /\ wait.pc = "blocked" /\ wait.cmd = cl[c].cmd /\ wait.odb = cl[c].odb
          /\ wait.changed = cl[c].changed
      BY <1>5, <2>1 DEF ClSt, Pcs
    <2> HIDE DEF wait
    <2>6. Later(c, cl[c], wait)
      BY <1>1, <2>5 DEF Later, Busy
    <2>7. IInv'
      <3>1. CASE cl' = [cl EXCEPT ![c] = wait]
        BY <1>1, <1>3, <2>3, <2>4, <2>5, <2>6, <3>1, LaunchdSteps
      <3>2. CASE cl' = [cl EXCEPT ![c] = rest]
        BY <1>1, <1>3, <1>5, <1>6, <2>3, <2>4, <3>2, LaunchdSteps
      <3> QED
        BY <2>2, <3>1, <3>2
    <2> QED
      BY <2>3, <2>4, <2>7
  <1> QED
    BY <1>7, <1>8

\* Whoever waits for the job goes on.
LEMMA JobExitsKeeps ==
  ASSUME IInv, NEW i \in Ids, JobExits(i)
  PROVE  IInv' /\ Brings(Launchd, Launchd', {})
  <1> DEFINE t == job_removed(Launchd, i)
             on(c) == [cl[c] EXCEPT !.pc = IF cl[c].pass1 # <<>> THEN "unload" ELSE "save"]
  <1>1. Good(Launchd) /\ Launchd.job[i].there /\ LaunchdBecomes(t)
    BY DEF IInv, JobExits, Launchd
  <1>2. Good(t) /\ Brings(Launchd, t, {})
    BY <1>1, RemovedGood
  <1> HIDE DEF t
  <1>3. Launchd' = t
    BY <1>1, <1>2, Becomes
  <1>4. /\ cl' = [c \in Clients |-> IF cl[c].pc = "blocked" /\ cl[c].waits = i THEN on(c) ELSE cl[c]]
        /\ UNCHANGED <<script, lock, db, rofs, key, wanted>>
    BY DEF JobExits
  <1>5. cl' = [c \in Clients |-> cl'[c]]
    BY <1>4
  <1>6. ASSUME NEW c \in Clients PROVE Sound(c, cl'[c], lock', wanted')
    <2>1. Sound(c, cl[c], lock, wanted) /\ lock' = lock /\ wanted' = wanted /\ cl[c] \in ClSt
      BY <1>4 DEF IInv, Sound
    <2>2. CASE cl'[c] = cl[c]
      BY <2>1, <2>2
    <2>3. CASE cl'[c] # cl[c]
      <3> DEFINE p == on(c)
                 pc == IF cl[c].pass1 # <<>> THEN "unload" ELSE "save"
      <3>1. cl'[c] = p /\ cl[c].pc = "blocked"
        BY <1>4, <2>3
      <3>2. pc \in Pcs /\ pc \in {"unload", "save"} /\ (pc = "unload" => cl[c].pass1 # <<>>)
        BY DEF Pcs
      <3> HIDE DEF pc
      <3>3. /\ p \in ClSt /\ p.pc = pc /\ p.cmd = cl[c].cmd /\ p.odb = cl[c].odb /\ p.changed = cl[c].changed
            /\ p.pass1 = cl[c].pass1
        BY <2>1, <3>2 DEF ClSt, pc
      <3> HIDE DEF p
      <3>4. Later(c, cl[c], p)
        BY <3>1, <3>2, <3>3 DEF Later, Busy
      <3>5. Sound(c, p, lock, wanted)
        BY <2>1, <3>3, <3>4, LaterSound
      <3> QED
        BY <2>1, <3>1, <3>5
    <2> QED
      BY <2>2, <2>3
  <1>7. \A c \in Clients : Sound(c, cl[c], lock, wanted)'
    BY <1>4, <1>6, StepSound
  <1>8. Good(Launchd)'
    BY <1>2, <1>3 DEF Good, Young, Needed, Managed, Labelled, Monitored
  <1>9. \A c \in Clients : cl'[c].pc = "writing" <=> cl[c].pc = "writing"
    <2> SUFFICES ASSUME NEW c \in Clients PROVE cl'[c].pc = "writing" <=> cl[c].pc = "writing"
      OBVIOUS
    <2>1. cl[c] \in ClSt
      BY DEF IInv, Sound
    <2> QED
      BY <1>4, <2>1 DEF ClSt
  <1>10. EditsKept' /\ Emptied'
    BY <1>4, <1>9 DEF IInv, EditsKept, Emptied, NoOverrides
  <1>11. IInv'
    BY <1>4, <1>5, <1>7, <1>8, <1>10 DEF IInv
  <1> QED
    BY <1>2, <1>3, <1>11

-----------------------------------------------------------------------------
(* The theorems.                                                           *)

LEMMA InitHolds == Init => IInv
  <1> SUFFICES ASSUME Init PROVE IInv
    OBVIOUS
  <1>1. MaxJobs \in Nat /\ Nobody \notin Clients /\ rofs \in BOOLEAN
    BY LoadJobsAssumption DEF Init, Nobody
  <1>2. Good(Launchd)
    <2>1. /\ Launchd.job = [i \in Ids |-> Absent] /\ Launchd.next = 1 /\ Launchd.mgrjobs = [m \in Managers |-> <<>>]
          /\ Launchd.needing = <<>> /\ Launchd.errno = "0" /\ Launchd.monitor = NoJob
      BY DEF Init, Launchd
    <2>2. Launchd \in LSt
      <3>1. [i \in Ids |-> Absent] \in [Ids -> JobRec]
        BY AbsentIs
      <3>2. 1 \in 1..(MaxJobs + 1) /\ "0" \in Errnos
        BY <1>1 DEF Errnos
      <3>3. [m \in Managers |-> <<>>] \in [Managers -> Seq(Ids)] /\ <<>> \in Seq(Ids)
        OBVIOUS
      <3>4. Launchd = [job |-> [i \in Ids |-> Absent], next |-> 1, mgrjobs |-> [m \in Managers |-> <<>>],
                       needing |-> <<>>, errno |-> "0", monitor |-> NoJob]
        BY DEF Init, Launchd
      <3> QED
        BY <3>1, <3>2, <3>3, <3>4 DEF LSt
    <2>3. \A i \in Ids : ~Launchd.job[i].there /\ Launchd.job[i].uuid = NullUuid
      BY <2>1, AbsentIs
    <2>4. Once(<<>>) /\ Range(<<>>) = {}
      BY DEF Once, Range
    <2>5. \A i \in Ids : NoJob # i
      BY DEF NoJob, Ids
    <2> QED
      BY <2>1, <2>2, <2>3, <2>4, <2>5 DEF Good, Young, Needed, Managed, Labelled, Monitored
  <1>3. ASSUME NEW c \in Clients PROVE Sound(c, cl[c], lock, wanted)
    <2> DEFINE pc == IF script[c] = <<>> THEN "exited" ELSE "ready"
               p == [Proc EXCEPT !.pc = pc]
    <2>1. cl[c] = p
      BY DEF Init
    <2>2. Proc \in ClSt /\ ~Proc.changed /\ Proc.cmd = 1
      BY DEF Proc, ClSt, Pcs, Answers
    <2>3. pc \in Pcs /\ pc \in {"ready", "exited"} /\ (pc # "exited" => script[c] # <<>>)
      BY DEF Pcs
    <2> HIDE DEF pc
    <2>4. p \in ClSt /\ p.pc = pc /\ p.cmd = 1 /\ p.changed = Proc.changed
      BY <2>2, <2>3 DEF ClSt
    <2>5. script[c] \in Seq(Commands)
      BY LoadJobsAssumption DEF Init
    <2>6. script[c] # <<>> => 1 <= Len(script[c])
      BY <2>5
    <2> HIDE DEF p
    <2>7. Idle(c, p)
      BY <2>2, <2>3, <2>4, <2>6 DEF Idle
    <2>8. Sound(c, p, lock, wanted)
      BY <2>4, <2>7, IdleSound
    <2> QED
      BY <2>1, <2>8
  <1>4. wanted \in [Labels -> Answers] /\ wanted = db /\ cl = [c \in Clients |-> cl[c]] /\ script \in Scripts
    BY DEF Init, Answers
  <1>5. lock \in Clients \cup {Nobody}
    BY DEF Init
  <1>6. \A c \in Clients : cl[c].pc # "writing"
    BY DEF Init, Proc
  <1> QED
    BY <1>1, <1>2, <1>3, <1>4, <1>5, <1>6 DEF IInv, EditsKept, Emptied

LEMMA StuttersKeep == IInv /\ UNCHANGED vars => IInv'
  <1> SUFFICES ASSUME IInv, UNCHANGED vars PROVE IInv'
    OBVIOUS
  <1>1. /\ script' = script /\ rofs' = rofs /\ key' = key /\ cl' = cl /\ lock' = lock /\ db' = db /\ wanted' = wanted
        /\ UNCHANGED launchd
    BY DEF vars
  <1>2. Launchd' = Launchd
    BY <1>1, Stays
  <1>3. Good(Launchd)'
    BY <1>2 DEF IInv, Good, Young, Needed, Managed, Labelled, Monitored
  <1>4. \A c \in Clients : Sound(c, cl'[c], lock', wanted')
    BY <1>1 DEF IInv
  <1>5. \A c \in Clients : Sound(c, cl[c], lock, wanted)'
    BY <1>1, <1>4, StepSound
  <1> QED
    BY <1>1, <1>3, <1>5 DEF IInv, EditsKept, Emptied, NoOverrides

\* Only a load or a submit brings jobs.
LEMMA NextKeeps ==
  ASSUME IInv, Next
  PROVE  /\ IInv'
         /\ \/ Brings(Launchd, Launchd', {})
            \/ \E c \in Clients : submit_cmd(c)
            \/ \E c \in Clients : SubmitJobs(c) /\ Brings(Launchd, Launchd', {Plist[d.file].label : d \in Range(cl[c].pass1)})
  <1>1. ASSUME NEW c \in Clients, OpenDb(c) \/ ReadNothing(c) \/ ReadPaths(c) \/ CommandEnds(c) \/ Die(c)
        PROVE  IInv' /\ Brings(Launchd, Launchd', {})
    BY <1>1, OpenDbKeeps, ReadNothingKeeps, ReadPathsKeeps, CommandEndsKeeps, DieKeeps
  <1>2. ASSUME NEW c \in Clients, NoSession(c) \/ SetSessionFails(c) \/ SetSession(c) \/ start_stop_remove_cmd(c) \/ unloadjob(c)
        PROVE  IInv' /\ Brings(Launchd, Launchd', {})
    BY <1>2, NoSessionKeeps, SetSessionKeeps, StartStopRemoveKeeps, UnloadJobKeeps
  <1>3. ASSUME NEW i \in Ids, JobExits(i) PROVE IInv' /\ Brings(Launchd, Launchd', {})
    BY <1>3, JobExitsKeeps
  <1>4. ASSUME NEW c \in Clients, submit_cmd(c) PROVE IInv'
    BY <1>4, SubmitCmdKeeps
  <1>5. ASSUME NEW c \in Clients, SubmitJobs(c)
        PROVE  IInv' /\ Brings(Launchd, Launchd', {Plist[d.file].label : d \in Range(cl[c].pass1)})
    BY <1>5, SubmitJobsKeeps
  <1>6. ASSUME NEW c \in Clients, SaveNothing(c) \/ TruncateDb(c) \/ WriteDb(c)
        PROVE  IInv' /\ Brings(Launchd, Launchd', {})
    BY <1>6, CloseDbKeeps, TruncateDbKeeps DEF SaveNothing, WriteDb
  <1> QED
    BY <1>1, <1>2, <1>3, <1>4, <1>5, <1>6, Zenon DEF Next

LEMMA Listed == IInv => JobsListed
  <1> SUFFICES ASSUME IInv PROVE JobsListed
    OBVIOUS
  <1>1. Good(Launchd) /\ Launchd \in LSt
    BY DEF IInv, Good
  <1>2. /\ Launchd.job = job /\ Launchd.next = next /\ Launchd.mgrjobs = mgrjobs
        /\ Launchd.needing = s_needing_sessions /\ Launchd.monitor = _launchd_event_monitor
    BY DEF Launchd
  <1>3. /\ job \in [Ids -> JobRec] /\ next \in 1..(MaxJobs + 1) /\ mgrjobs \in [Managers -> Seq(Ids)]
        /\ s_needing_sessions \in Seq(Ids) /\ _launchd_event_monitor \in Ids \cup {NoJob}
    BY <1>1, <1>2 DEF LSt
  <1>4. TypeOK
    <2>1. \A c \in Clients : cl[c].pc \in Pcs
      BY DEF IInv, Sound, ClSt
    <2>2. {db, wanted} \subseteq [Labels -> {"none", "yes", "no"}] /\ lock \in Clients \cup {Nobody}
      BY DEF IInv, Answers
    <2>3. \A i \in Ids : job[i].there => i < next /\ job[i].mgr \in Managers
      BY <1>1, <1>2 DEF Good, Young
    <2> QED
      BY <1>3, <2>1, <2>2, <2>3 DEF TypeOK, Pcs
  <1>5. ListsAgree
    <2>1. Range(s_needing_sessions) = {i \in Present : job[i].uuid # NullUuid}
      <3>1. Range(s_needing_sessions) \subseteq Ids
        BY <1>3, InRange
      <3>2. \A i \in Ids : i \in Range(s_needing_sessions) <=> job[i].there /\ job[i].uuid # NullUuid
        BY <1>1, <1>2 DEF Good, Needed
      <3> QED
        BY <3>1, <3>2 DEF Present
    <2>2. ASSUME NEW m \in Managers PROVE Range(mgrjobs[m]) = {i \in Present : job[i].mgr = m}
      <3>1. Range(mgrjobs[m]) \subseteq Ids
        <4>1. mgrjobs[m] \in Seq(Ids)
          BY <1>3
        <4> QED
          BY <4>1, InRange
      <3>2. \A i \in Ids : i \in Range(mgrjobs[m]) <=> job[i].there /\ job[i].mgr = m
        BY <1>1, <1>2 DEF Good, Managed
      <3> QED
        BY <3>1, <3>2 DEF Present
    <2>3. \A i, j \in Present :
            i # j /\ ~job[i].removal_pending /\ ~job[j].removal_pending => job[i].label # job[j].label
      BY <1>1, <1>2 DEF Good, Labelled, Present
    <2> QED
      BY <2>1, <2>2, <2>3 DEF ListsAgree
  <1>6. OneMonitor
    <2>1. \A i \in Ids : job[i].there /\ job[i].monitor <=> _launchd_event_monitor = i
      BY <1>1, <1>2 DEF Good, Monitored
    <2>2. NoJob \notin Ids
      BY DEF NoJob, Ids
    <2> QED
      BY <1>3, <2>1, <2>2 DEF OneMonitor, Present
  <1> QED
    BY <1>4, <1>5, <1>6 DEF JobsListed

\* A load imports what is still enabled.
LEMMA Allowed ==
  ASSUME IInv, Next
  PROVE  ImportsEnabled
  <1> SUFFICES ASSUME NEW i \in Ids, ~job[i].there, job'[i].there, ~rofs
               PROVE  \E c \in Clients :
                        /\ cl'[c].pc # cl[c].pc
                        /\ \/ cl[c].pc = "ready" /\ Cmd(c).op = "submit"
                           \/ cl[c].pc = "submit" /\ (Cmd(c).F \/ Cmd(c).w)
                           \/ cl[c].pc = "submit" /\ \E d \in Range(cl[c].pass1) :
                                /\ Plist[d.file].label = job'[i].label
                                /\ "yes" # IF db[job'[i].label] # "none" THEN db[job'[i].label] ELSE key[d.file]
    BY DEF ImportsEnabled
  <1>1. Launchd.job = job /\ Launchd'.job = job'
    BY DEF Launchd
  <1>2. CASE Brings(Launchd, Launchd', {})
    BY <1>1, <1>2 DEF Brings
  <1>3. CASE \E c \in Clients : submit_cmd(c)
    <2>1. PICK c \in Clients : submit_cmd(c)
      BY <1>3
    <2>2. cl[c].pc = "ready" /\ Cmd(c).op = "submit" /\ cl[c] \in ClSt
      BY <2>1 DEF submit_cmd, IInv, Sound
    <2>3. cl'[c].pc \in {"answered", "done"}
      BY <2>1, <2>2 DEF submit_cmd, IInv, ClSt
    <2> QED
      BY <2>2, <2>3
  <1>4. CASE \E c \in Clients : SubmitJobs(c) /\ Brings(Launchd, Launchd', {Plist[d.file].label : d \in Range(cl[c].pass1)})
    <2>1. PICK c \in Clients : SubmitJobs(c) /\ Brings(Launchd, Launchd', {Plist[d.file].label : d \in Range(cl[c].pass1)})
      BY <1>4
    <2>2. cl[c].pc = "submit" /\ cl[c] \in ClSt /\ Obedient(c, cl[c], wanted) /\ cl[c].pc # "exited"
      BY <2>1 DEF SubmitJobs, IInv, Sound
    <2>8. lock = c
      BY <2>2 DEF IInv, Sound, Current, Busy
    <2>9. db = wanted
      BY <2>2, <2>8, NobodyWrites
    <2>3. cl'[c].pc = "answered"
      <3>1. \E re, ids : cl' = [cl EXCEPT ![c].pc = "answered", ![c].resp = re, ![c].ids = ids]
        BY <2>1, Zenon DEF SubmitJobs
      <3> QED
        BY <2>2, <3>1 DEF IInv, ClSt
    <2>4. PICK d \in Range(cl[c].pass1) : Plist[d.file].label = job'[i].label
      BY <1>1, <2>1 DEF Brings
    <2>5. Cmd(c) = Runs(c, cl[c]) /\ Cmd(c) \in Commands
      BY <2>2, CmdIs
    <2>6. CASE Cmd(c).F \/ Cmd(c).w
      BY <2>2, <2>3, <2>6
    <2>7. CASE ~(Cmd(c).F \/ Cmd(c).w)
      <3>1. cl[c].pass1 \in Seq(Descrs)
        BY <2>2 DEF ClSt
      <3>2. PICK n \in 1..Len(cl[c].pass1) : cl[c].pass1[n] = d
        BY <3>1, InRange
      <3>3. Permits(db, d.file)
        BY <2>2, <2>5, <2>7, <2>9, <3>2 DEF Obedient
      <3>4. "yes" # IF db[job'[i].label] # "none" THEN db[job'[i].label] ELSE key[d.file]
        BY <2>4, <3>3 DEF Permits
      <3> QED
        BY <2>2, <2>3, <2>4, <3>4
    <2> QED
      BY <2>6, <2>7
  <1> QED
    BY <1>2, <1>3, <1>4, NextKeeps

LEMMA Inductive == Spec => []IInv
  <1>1. Init => IInv
    BY InitHolds
  <1>2. IInv /\ [Next]_vars => IInv'
    BY NextKeeps, StuttersKeep
  <1> QED
    BY <1>1, <1>2, PTL DEF Spec

\* s_needing_sessions holds exactly the jobs that wait for a session, every job
\* is on the list of its manager, no label is there twice and there is at most
\* one event monitor, whichever commands run, in whichever order, and whoever
\* dies.
THEOREM JobsAlwaysListed == Spec => []JobsListed
  BY Inductive, Listed, PTL

\* The lock on the overrides database makes every load -w and unload -w that
\* completes count, until some process is killed in the middle of its write, and
\* again from then on; and what load imports is enabled when it is imported.
THEOREM OverridesAlwaysObeyed == Spec => OverridesObeyed
  <1>1. IInv => EditsKept
    BY DEF IInv, EditsKept
  <1>2. IInv /\ [Next]_vars => [ImportsEnabled]_vars
    BY Allowed
  <1> QED
    BY <1>1, <1>2, Inductive, PTL DEF Spec, OverridesObeyed, EnabledWhenLoaded
=============================================================================
