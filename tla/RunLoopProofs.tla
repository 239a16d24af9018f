---------------------------- MODULE RunLoopProofs ----------------------------
(***************************************************************************)
(* Why a callback is never handed a kevent that is no longer true, and why *)
(* the busy count is right, for any number of objects and descriptors and  *)
(* any size of the batch.  The kevents that are still to be served, active *)
(* in the kernel or waiting in the batch, are treated alike: each is for   *)
(* the owner of an open descriptor or for the last arming of a timer, and  *)
(* whatever owns a descriptor is allocated, as is whatever owns a timer    *)
(* that job_remove() deletes.                                              *)
(***************************************************************************)
EXTENDS RunLoop, FiniteSetTheorems, SequenceTheorems, TLAPS

St == [alive : SUBSET Objs, fd : [Fds -> Objs \cup {Root}], watched : SUBSET Fds,
       armed : SUBSET (Objs \cup {Root}), gen : [Objs \cup {Root} -> 0..1],
       fired : SUBSET Kevent, batch : Seq(Kevent), held : SUBSET Objs, busy : Int]

\* What is still to be served once the kevent at n is
Knotes(s, n) ==
  s.fired \cup {s.batch[i] : i \in {x \in 1..Len(s.batch) : x > n /\ s.batch[x].filter # "none"}}

Accurate(s, k) ==
  IF k.filter = "READ"
  THEN k.ident \in Fds /\ k.udata # Root /\ s.fd[k.ident] = k.udata
  ELSE /\ k.filter = "TIMER" /\ k.ident = k.udata
       /\ k.ident \in s.armed /\ k.gen = s.gen[k.ident]

\* Nothing that was freed owns anything, and nothing waits that is not true
Good(s, n) ==
  /\ s \in St
  /\ \A f \in Fds : s.fd[f] \in s.alive \cup {Root}
  /\ \A f \in s.watched : s.fd[f] # Root
  /\ s.armed \subseteq s.alive \cup {Root} \cup Untimed
  /\ \A k \in Knotes(s, n) : Accurate(s, k)

Refs(s) ==
  /\ IsFiniteSet(s.held) /\ s.busy = Cardinality(s.held)
  /\ s.held # {} => Root \notin s.armed

LoopInv ==
  /\ Good(State, bulk_kev_i) /\ Refs(State)
  /\ held \subseteq alive /\ bulk_kev_i \in 0..Len(batch)

-----------------------------------------------------------------------------
(* The calls on the kqueue.                                                *)

\* What prune() leaves in the batch.
LEMMA PruneSound ==
  ASSUME NEW s \in St, NEW filter, NEW idents, bulk_kev_i \in Nat
  PROVE  LET r == prune(s, filter, idents)
         IN  /\ r \in St
             /\ r.alive = s.alive /\ r.fd = s.fd /\ r.watched = s.watched
             /\ r.armed = s.armed /\ r.gen = s.gen /\ r.fired = s.fired
             /\ r.held = s.held /\ r.busy = s.busy /\ Len(r.batch) = Len(s.batch)
             /\ \A i \in 1..Len(s.batch) :
                  \/ r.batch[i].filter = "none"
                  \/ r.batch[i] = s.batch[i] /\ ~(i > bulk_kev_i /\ s.batch[i].filter = filter
                                                  /\ s.batch[i].ident \in idents)
<1> DEFINE e(i) == IF i > bulk_kev_i /\ s.batch[i].filter = filter /\ s.batch[i].ident \in idents
                   THEN [s.batch[i] EXCEPT !.filter = "none"] ELSE s.batch[i]
           b == [i \in 1..Len(s.batch) |-> e(i)]
           r == [s EXCEPT !.batch = b]
<1>1. s.batch \in Seq(Kevent) /\ Len(s.batch) \in Nat
  BY DEF St
<1>2. \A i \in 1..Len(s.batch) : s.batch[i] \in Kevent
  BY <1>1
<1>3. \A k \in Kevent : [k EXCEPT !.filter = "none"] \in Kevent
  BY DEF Kevent
<1>4. \A i \in 1..Len(s.batch) : e(i) \in Kevent
  BY <1>2, <1>3
<1>5. \A i \in 1..Len(s.batch) :
        \/ e(i).filter = "none"
        \/ e(i) = s.batch[i] /\ ~(i > bulk_kev_i /\ s.batch[i].filter = filter
                                  /\ s.batch[i].ident \in idents)
  BY <1>2 DEF Kevent
<1> HIDE DEF e
<1>6. b \in Seq(Kevent) /\ Len(b) = Len(s.batch) /\ \A i \in 1..Len(s.batch) : b[i] = e(i)
  BY <1>1, <1>4
<1>7. prune(s, filter, idents) = r
  BY DEF prune, e
<1> HIDE DEF b
<1>8. /\ r \in St /\ r.batch = b
      /\ r.alive = s.alive /\ r.fd = s.fd /\ r.watched = s.watched
      /\ r.armed = s.armed /\ r.gen = s.gen /\ r.fired = s.fired
      /\ r.held = s.held /\ r.busy = s.busy
  BY <1>6 DEF St
<1> HIDE DEF r
<1> QED
  BY <1>5, <1>6, <1>7, <1>8

\* The kernel and the batch lose the same kevents, and nothing else changes.
LEMMA StruckOut ==
  ASSUME NEW s \in St, NEW filter, NEW idents, bulk_kev_i \in Nat
  PROVE  LET r == forget(prune(s, filter, idents), filter, idents)
         IN  /\ r \in St
             /\ r.alive = s.alive /\ r.fd = s.fd /\ r.watched = s.watched
             /\ r.armed = s.armed /\ r.gen = s.gen /\ r.held = s.held /\ r.busy = s.busy
             /\ Len(r.batch) = Len(s.batch)
             /\ \A k \in Knotes(r, bulk_kev_i) :
                  k \in Knotes(s, bulk_kev_i) /\ ~(k.filter = filter /\ k.ident \in idents)
<1> DEFINE p == prune(s, filter, idents)
           q == {k \in p.fired : ~(k.filter = filter /\ k.ident \in idents)}
           r == [p EXCEPT !.fired = q]
<1>1. /\ p \in St
      /\ p.alive = s.alive /\ p.fd = s.fd /\ p.watched = s.watched
      /\ p.armed = s.armed /\ p.gen = s.gen /\ p.fired = s.fired
      /\ p.held = s.held /\ p.busy = s.busy /\ Len(p.batch) = Len(s.batch)
      /\ \A i \in 1..Len(s.batch) :
           \/ p.batch[i].filter = "none"
           \/ p.batch[i] = s.batch[i] /\ ~(i > bulk_kev_i /\ s.batch[i].filter = filter
                                           /\ s.batch[i].ident \in idents)
  BY PruneSound
<1>2. forget(p, filter, idents) = r
  BY DEF forget
<1> HIDE DEF p
<1>3. q \in SUBSET Kevent
  BY <1>1 DEF St
<1>4. \A k \in q : k \in s.fired /\ ~(k.filter = filter /\ k.ident \in idents)
  BY <1>1
<1> HIDE DEF q
<1>5. /\ r \in St /\ r.fired = q /\ r.batch = p.batch
      /\ r.alive = p.alive /\ r.fd = p.fd /\ r.watched = p.watched
      /\ r.armed = p.armed /\ r.gen = p.gen /\ r.held = p.held /\ r.busy = p.busy
  BY <1>1, <1>3 DEF St
<1> HIDE DEF r
<1>6. \A k \in Knotes(r, bulk_kev_i) :
        k \in Knotes(s, bulk_kev_i) /\ ~(k.filter = filter /\ k.ident \in idents)
  BY <1>1, <1>4, <1>5 DEF Knotes
<1> QED
  BY <1>1, <1>2, <1>5, <1>6 DEF p

\* Deleting a timer strikes its kevents out.
LEMMA DeleteTimerSound ==
  ASSUME NEW s, Good(s, bulk_kev_i), NEW t, bulk_kev_i \in Nat
  PROVE  LET r == delete_timer(s, t)
         IN  /\ Good(r, bulk_kev_i) /\ r.armed = s.armed \ {t}
             /\ r.alive = s.alive /\ r.fd = s.fd /\ r.watched = s.watched
             /\ r.gen = s.gen /\ r.held = s.held /\ r.busy = s.busy
             /\ Len(r.batch) = Len(s.batch)
             /\ \A k \in Knotes(r, bulk_kev_i) : ~(k.filter = "TIMER" /\ k.ident = t)
<1> DEFINE p == forget(prune(s, "TIMER", {t}), "TIMER", {t})
           r == [p EXCEPT !.armed = @ \ {t}]
<1>1. /\ s \in St /\ p \in St
      /\ p.alive = s.alive /\ p.fd = s.fd /\ p.watched = s.watched
      /\ p.armed = s.armed /\ p.gen = s.gen /\ p.held = s.held /\ p.busy = s.busy
      /\ Len(p.batch) = Len(s.batch)
      /\ \A k \in Knotes(p, bulk_kev_i) :
           k \in Knotes(s, bulk_kev_i) /\ ~(k.filter = "TIMER" /\ k.ident \in {t})
  BY StruckOut DEF Good
<1>2. delete_timer(s, t) = r
  BY DEF delete_timer
<1> HIDE DEF p
<1>3. /\ r \in St /\ r.armed = s.armed \ {t}
      /\ r.alive = s.alive /\ r.fd = s.fd /\ r.watched = s.watched /\ r.gen = s.gen
      /\ r.held = s.held /\ r.busy = s.busy /\ r.fired = p.fired /\ r.batch = p.batch
  BY <1>1 DEF St
<1>4. Knotes(r, bulk_kev_i) = Knotes(p, bulk_kev_i)
  BY <1>3 DEF Knotes
<1> HIDE DEF r
<1>5. Good(r, bulk_kev_i)
  BY <1>1, <1>3, <1>4 DEF Good, Accurate
<1> QED
  BY <1>1, <1>2, <1>3, <1>4, <1>5

\* Arming a timer strikes the kevents of its last arming out.
LEMMA SetTimerSound ==
  ASSUME NEW s, Good(s, bulk_kev_i), NEW t \in s.alive \cup {Root}, bulk_kev_i \in Nat
  PROVE  LET r == set_timer(s, t)
         IN  /\ Good(r, bulk_kev_i) /\ r.armed = s.armed \cup {t}
             /\ r.alive = s.alive /\ r.held = s.held /\ r.busy = s.busy
             /\ Len(r.batch) = Len(s.batch)
<1> DEFINE p == delete_timer(s, t)
           g == [p.gen EXCEPT ![t] = 1 - @]
           r == [p EXCEPT !.armed = @ \cup {t}, !.gen = g]
<1>1. /\ Good(p, bulk_kev_i) /\ p.armed = s.armed \ {t}
      /\ p.alive = s.alive /\ p.held = s.held /\ p.busy = s.busy
      /\ Len(p.batch) = Len(s.batch)
      /\ \A k \in Knotes(p, bulk_kev_i) : ~(k.filter = "TIMER" /\ k.ident = t)
  BY DeleteTimerSound
<1>2. set_timer(s, t) = r
  BY DEF set_timer
<1> HIDE DEF p
<1>3. p \in St /\ t \in Objs \cup {Root}
  BY <1>1 DEF Good, St
<1>4. /\ g \in [Objs \cup {Root} -> 0..1]
      /\ \A x \in Objs \cup {Root} : x # t => g[x] = p.gen[x]
  BY <1>3 DEF St
<1> HIDE DEF g
<1>5. /\ r \in St /\ r.armed = p.armed \cup {t} /\ r.gen = g
      /\ r.alive = p.alive /\ r.fd = p.fd /\ r.watched = p.watched
      /\ r.held = p.held /\ r.busy = p.busy /\ r.fired = p.fired /\ r.batch = p.batch
  BY <1>3, <1>4 DEF St
<1>6. Knotes(r, bulk_kev_i) = Knotes(p, bulk_kev_i)
  BY <1>5 DEF Knotes
<1> HIDE DEF r
<1>7. ASSUME NEW k \in Knotes(r, bulk_kev_i)
      PROVE  Accurate(r, k)
  <2>1. Accurate(p, k) /\ ~(k.filter = "TIMER" /\ k.ident = t)
    BY <1>1, <1>6 DEF Good
  <2>2. p.armed \subseteq Objs \cup {Root}
    BY <1>3 DEF St
  <2> QED
    BY <1>4, <1>5, <2>1, <2>2 DEF Accurate
<1>8. Good(r, bulk_kev_i)
  BY <1>1, <1>5, <1>7 DEF Good
<1> QED
  BY <1>1, <1>2, <1>5, <1>8

\* Closing descriptors strikes their kevents out.
LEMMA CloseSound ==
  ASSUME NEW s, Good(s, bulk_kev_i), NEW F \in SUBSET Fds, bulk_kev_i \in Nat
  PROVE  LET r == runtime_close(s, F)
         IN  /\ Good(r, bulk_kev_i) /\ r.armed = s.armed /\ r.alive = s.alive
             /\ \A f \in Fds : r.fd[f] = IF f \in F THEN Root ELSE s.fd[f]
             /\ r.held = s.held /\ r.busy = s.busy /\ Len(r.batch) = Len(s.batch)
<1> DEFINE p == forget(prune(s, "READ", F), "READ", F)
           d == [f \in Fds |-> IF f \in F THEN Root ELSE p.fd[f]]
           r == [p EXCEPT !.fd = d, !.watched = @ \ F]
<1>1. /\ s \in St /\ p \in St
      /\ p.alive = s.alive /\ p.fd = s.fd /\ p.watched = s.watched
      /\ p.armed = s.armed /\ p.gen = s.gen /\ p.held = s.held /\ p.busy = s.busy
      /\ Len(p.batch) = Len(s.batch)
      /\ \A k \in Knotes(p, bulk_kev_i) :
           k \in Knotes(s, bulk_kev_i) /\ ~(k.filter = "READ" /\ k.ident \in F)
  BY StruckOut DEF Good
<1>2. runtime_close(s, F) = r
  BY DEF runtime_close
<1> HIDE DEF p
<1>3. /\ d \in [Fds -> Objs \cup {Root}]
      /\ \A f \in Fds : d[f] = IF f \in F THEN Root ELSE s.fd[f]
  BY <1>1 DEF St
<1> HIDE DEF d
<1>4. /\ r \in St /\ r.fd = d /\ r.watched = s.watched \ F /\ r.armed = s.armed
      /\ r.alive = s.alive /\ r.gen = s.gen
      /\ r.held = s.held /\ r.busy = s.busy /\ r.fired = p.fired /\ r.batch = p.batch
  BY <1>1, <1>3 DEF St
<1>5. Knotes(r, bulk_kev_i) = Knotes(p, bulk_kev_i)
  BY <1>4 DEF Knotes
<1> HIDE DEF r
<1>6. ASSUME NEW k \in Knotes(r, bulk_kev_i)
      PROVE  Accurate(r, k)
  BY <1>1, <1>3, <1>4, <1>5 DEF Good, Accurate
<1>7. s.watched \subseteq Fds
  BY <1>1 DEF St
<1>8. Good(r, bulk_kev_i)
  BY <1>3, <1>4, <1>6, <1>7 DEF Good
<1> QED
  BY <1>1, <1>2, <1>3, <1>4, <1>8

\* kevent_bulk_mod() leaves the batch alone: what waits there is still true
\* of the descriptor's owner.
LEMMA SwitchSound ==
  ASSUME NEW s, Good(s, bulk_kev_i), NEW f \in Fds, s.fd[f] # Root, NEW add \in BOOLEAN,
         bulk_kev_i \in Nat
  PROVE  LET r == socketgroup_kevent_mod(s, f, add)
         IN  /\ Good(r, bulk_kev_i) /\ r.armed = s.armed /\ r.alive = s.alive
             /\ r.held = s.held /\ r.busy = s.busy /\ r.batch = s.batch
<1>1. s \in St
  BY DEF Good
<1>2. CASE add
  <2> DEFINE r == [s EXCEPT !.watched = @ \cup {f}]
  <2>1. /\ r \in St /\ r.watched = s.watched \cup {f} /\ r.fd = s.fd /\ r.armed = s.armed
        /\ r.alive = s.alive /\ r.gen = s.gen
        /\ r.held = s.held /\ r.busy = s.busy /\ r.fired = s.fired /\ r.batch = s.batch
    BY <1>1 DEF St
  <2>2. Knotes(r, bulk_kev_i) = Knotes(s, bulk_kev_i)
    BY <2>1 DEF Knotes
  <2>3. socketgroup_kevent_mod(s, f, add) = r
    BY <1>2 DEF socketgroup_kevent_mod
  <2> HIDE DEF r
  <2> QED
    BY <2>1, <2>2, <2>3 DEF Good, Accurate
<1>3. CASE ~add
  <2> DEFINE q == {k \in s.fired : ~(k.filter = "READ" /\ k.ident \in {f})}
             p == [s EXCEPT !.fired = q]
             r == [p EXCEPT !.watched = @ \ {f}]
  <2>1. q \subseteq s.fired
    OBVIOUS
  <2>2. socketgroup_kevent_mod(s, f, add) = r
    BY <1>3 DEF socketgroup_kevent_mod, forget
  <2> HIDE DEF q
  <2>3. /\ r \in St /\ r.watched = s.watched \ {f} /\ r.fd = s.fd /\ r.armed = s.armed
        /\ r.alive = s.alive /\ r.gen = s.gen
        /\ r.held = s.held /\ r.busy = s.busy /\ r.fired = q /\ r.batch = s.batch
    BY <1>1, <2>1 DEF St
  <2>4. Knotes(r, bulk_kev_i) \subseteq Knotes(s, bulk_kev_i)
    BY <2>1, <2>3 DEF Knotes
  <2> HIDE DEF r
  <2> QED
    BY <2>2, <2>3, <2>4 DEF Good, Accurate
<1> QED
  BY <1>2, <1>3

-----------------------------------------------------------------------------
(* References.                                                             *)

\* A record that differs from a good one in its references only
LEMMA OtherRefs ==
  ASSUME NEW s, Good(s, bulk_kev_i), NEW r \in St,
         r.alive = s.alive, r.fd = s.fd, r.watched = s.watched, r.armed = s.armed,
         r.gen = s.gen, r.fired = s.fired, r.batch = s.batch
  PROVE  Good(r, bulk_kev_i)
<1>1. Knotes(r, bulk_kev_i) = Knotes(s, bulk_kev_i)
  BY DEF Knotes
<1> QED
  BY <1>1 DEF Good, Accurate

\* runtime_add_ref() keeps the count and stops the idle timer.
LEMMA AddRefSound ==
  ASSUME NEW s, Good(s, bulk_kev_i), Refs(s), NEW o \in Objs, o \notin s.held,
         bulk_kev_i \in Nat
  PROVE  LET r == runtime_add_ref(s, o)
         IN  /\ Good(r, bulk_kev_i) /\ Refs(r) /\ r.held = s.held \cup {o}
             /\ r.alive = s.alive /\ Len(r.batch) = Len(s.batch)
<1> DEFINE H == s.held \cup {o}
           n == s.busy + 1
           p == [s EXCEPT !.held = H, !.busy = n]
           r == delete_timer(p, Root)
<1>1. H \in SUBSET Objs /\ n \in Int
  BY DEF Good, St
<1>2. IsFiniteSet(H) /\ n = Cardinality(H)
  BY FS_AddElement DEF Refs
<1>3. runtime_add_ref(s, o) = r
  BY DEF runtime_add_ref
<1> HIDE DEF H, n
<1>4. /\ Good(p, bulk_kev_i) /\ p.held = H /\ p.busy = n
      /\ p.armed = s.armed /\ p.alive = s.alive /\ p.batch = s.batch
  <2>1. /\ p \in St /\ p.held = H /\ p.busy = n
        /\ p.alive = s.alive /\ p.fd = s.fd /\ p.watched = s.watched /\ p.armed = s.armed
        /\ p.gen = s.gen /\ p.fired = s.fired /\ p.batch = s.batch
    BY <1>1 DEF Good, St
  <2> HIDE DEF p
  <2> QED
    BY <2>1, OtherRefs
<1> HIDE DEF p
<1>5. /\ Good(r, bulk_kev_i) /\ r.armed = p.armed \ {Root} /\ r.alive = p.alive
      /\ r.held = p.held /\ r.busy = p.busy /\ Len(r.batch) = Len(p.batch)
  BY <1>4, DeleteTimerSound
<1> HIDE DEF r
<1>6. Refs(r)
  BY <1>2, <1>4, <1>5 DEF Refs
<1> QED
  BY <1>3, <1>4, <1>5, <1>6 DEF H

\* runtime_del_ref() keeps the count.
LEMMA DelRefSound ==
  ASSUME NEW s, Good(s, bulk_kev_i), Refs(s), NEW o \in s.held, bulk_kev_i \in Nat
  PROVE  LET r == runtime_del_ref(s, o)
         IN  /\ Good(r, bulk_kev_i) /\ Refs(r) /\ r.held = s.held \ {o}
             /\ r.alive = s.alive /\ Len(r.batch) = Len(s.batch)
<1> DEFINE H == s.held \ {o}
           n == s.busy - 1
           p == [s EXCEPT !.held = H, !.busy = n]
           t == set_timer(p, Root)
           r == IF p.busy = 0 THEN t ELSE p
<1>1. H \in SUBSET Objs /\ n \in Int /\ Root \notin s.armed
  BY DEF Good, St, Refs
<1>2. IsFiniteSet(H) /\ n = Cardinality(H) /\ (n = 0 <=> H = {})
  BY FS_RemoveElement, FS_EmptySet DEF Refs
<1>3. runtime_del_ref(s, o) = r
  BY DEF runtime_del_ref
<1>4. H = s.held \ {o}
  OBVIOUS
<1> HIDE DEF H, n
<1>5. /\ Good(p, bulk_kev_i) /\ p.held = H /\ p.busy = n
      /\ p.armed = s.armed /\ p.alive = s.alive /\ p.batch = s.batch
  <2>1. /\ p \in St /\ p.held = H /\ p.busy = n
        /\ p.alive = s.alive /\ p.fd = s.fd /\ p.watched = s.watched /\ p.armed = s.armed
        /\ p.gen = s.gen /\ p.fired = s.fired /\ p.batch = s.batch
    BY <1>1 DEF Good, St
  <2> HIDE DEF p
  <2> QED
    BY <2>1, OtherRefs
<1> HIDE DEF p
<1>6. /\ Good(t, bulk_kev_i) /\ t.alive = p.alive
      /\ t.held = p.held /\ t.busy = p.busy /\ Len(t.batch) = Len(p.batch)
  BY <1>5, SetTimerSound
<1> HIDE DEF t
<1>7. Refs(r)
  BY <1>1, <1>2, <1>5, <1>6 DEF Refs
<1> QED
  BY <1>3, <1>4, <1>5, <1>6, <1>7

\* An object is freed with its descriptors, its timer and its reference.
LEMMA RemoveSound ==
  ASSUME NEW s, Good(s, bulk_kev_i), Refs(s), NEW o \in Objs, bulk_kev_i \in Nat
  PROVE  LET r == remove_object(s, o)
         IN  /\ Good(r, bulk_kev_i) /\ Refs(r) /\ r.held = s.held \ {o}
             /\ r.alive = s.alive \ {o} /\ Len(r.batch) = Len(s.batch)
<1> DEFINE F == {f \in Fds : s.fd[f] = o}
           c == runtime_close(s, F)
           d == IF o \in Untimed THEN c ELSE delete_timer(c, o)
           p == [d EXCEPT !.alive = @ \ {o}]
           r == IF o \in s.held THEN runtime_del_ref(p, o) ELSE p
<1>1. /\ Good(c, bulk_kev_i) /\ c.armed = s.armed /\ c.alive = s.alive
      /\ \A f \in Fds : c.fd[f] = IF f \in F THEN Root ELSE s.fd[f]
      /\ c.held = s.held /\ c.busy = s.busy /\ Len(c.batch) = Len(s.batch)
  BY CloseSound
<1>2. \A f \in Fds : c.fd[f] # o
  BY <1>1, RunLoopAssumption
<1>3. remove_object(s, o) = r
  BY DEF remove_object
<1> HIDE DEF c
<1>4. /\ Good(d, bulk_kev_i) /\ d.armed \subseteq c.armed
      /\ o \in d.armed => o \in Untimed
      /\ d.alive = c.alive /\ d.fd = c.fd
      /\ d.held = c.held /\ d.busy = c.busy /\ Len(d.batch) = Len(c.batch)
  BY <1>1, DeleteTimerSound
<1> HIDE DEF d
<1>5. /\ p \in St /\ p.alive = d.alive \ {o} /\ p.watched = d.watched /\ p.fd = d.fd
      /\ p.armed = d.armed /\ p.gen = d.gen
      /\ p.held = d.held /\ p.busy = d.busy /\ p.fired = d.fired /\ p.batch = d.batch
  BY <1>4 DEF Good, St
<1>6. Knotes(p, bulk_kev_i) = Knotes(d, bulk_kev_i)
  BY <1>5 DEF Knotes
<1> HIDE DEF p
<1>7. Good(p, bulk_kev_i)
  <2>1. \A f \in Fds : p.fd[f] \in p.alive \cup {Root}
    BY <1>2, <1>4, <1>5 DEF Good
  <2>2. p.armed \subseteq p.alive \cup {Root} \cup Untimed
    BY <1>4, <1>5 DEF Good
  <2> QED
    BY <1>4, <1>5, <1>6, <2>1, <2>2 DEF Good, Accurate
<1>8. Refs(p)
  BY <1>1, <1>4, <1>5 DEF Refs
<1>9. CASE o \in s.held
  BY <1>1, <1>3, <1>4, <1>5, <1>7, <1>8, <1>9, DelRefSound
<1>10. CASE o \notin s.held
  BY <1>1, <1>3, <1>4, <1>5, <1>7, <1>8, <1>10
<1> QED
  BY <1>9, <1>10

-----------------------------------------------------------------------------
(* The steps.                                                              *)

\* The loop is sound at first.
LEMMA LoopInit == Init => LoopInv
<1> SUFFICES ASSUME Init PROVE LoopInv
  OBVIOUS
<1>1. State \in St /\ State.held = {} /\ State.busy = 0
  BY EmptySeq, RunLoopAssumption DEF Init, State, St
<1>2. Knotes(State, bulk_kev_i) = {}
  BY DEF Init, State, Knotes
<1>3. Good(State, bulk_kev_i)
  BY <1>1, <1>2 DEF Good, Init, State
<1>4. Refs(State)
  BY <1>1, FS_EmptySet DEF Refs
<1> QED
  BY <1>3, <1>4 DEF LoopInv, Init

\* The callbacks of objects: each is one of the calls above.
LEMMA LoopWork ==
  ASSUME LoopInv, NEW o \in Objs, Work(o)
  PROVE  LoopInv'
<1>1. /\ Good(State, bulk_kev_i) /\ Refs(State) /\ State.held \subseteq State.alive
      /\ bulk_kev_i \in 0..Len(State.batch) /\ bulk_kev_i \in Nat /\ State \in St
  <2>1. Len(batch) \in Nat
    BY DEF LoopInv, Good, State, St
  <2> QED
    BY <2>1 DEF LoopInv, Good, State
<1>2. bulk_kev_i' = bulk_kev_i
  BY DEF Work
<1>3. ASSUME NEW s, Becomes(s), Good(s, bulk_kev_i), Refs(s), s.held \subseteq s.alive,
             Len(s.batch) = Len(State.batch)
      PROVE  LoopInv'
  <2>1. s = [alive |-> s.alive, fd |-> s.fd, watched |-> s.watched, armed |-> s.armed,
             gen |-> s.gen, fired |-> s.fired, batch |-> s.batch, held |-> s.held,
             busy |-> s.busy]
    BY <1>3 DEF Good, St
  <2>2. State' = s
    BY <1>3, <2>1 DEF Becomes, State
  <2>3. held' \subseteq alive' /\ Len(batch') = Len(State.batch)
    BY <1>3 DEF Becomes
  <2> QED
    BY <1>1, <1>2, <1>3, <2>2, <2>3 DEF LoopInv
<1>4. CASE job_new(o)
  <2> DEFINE r == [State EXCEPT !.alive = @ \cup {o}]
  <2>1. /\ r \in St /\ r.alive = State.alive \cup {o} /\ r.watched = State.watched
        /\ r.fd = State.fd /\ r.armed = State.armed /\ r.gen = State.gen
        /\ r.held = State.held /\ r.busy = State.busy /\ r.fired = State.fired
        /\ r.batch = State.batch
    BY <1>1 DEF St
  <2>2. Knotes(r, bulk_kev_i) = Knotes(State, bulk_kev_i)
    BY <2>1 DEF Knotes
  <2>3. Becomes(r)
    BY <1>4 DEF job_new
  <2> HIDE DEF r
  <2>4. Good(r, bulk_kev_i) /\ Refs(r)
    BY <1>1, <2>1, <2>2 DEF Good, Accurate, Refs
  <2> QED
    BY <1>1, <1>3, <2>1, <2>3, <2>4
<1>5. CASE job_remove(o)
  BY <1>1, <1>3, <1>5, RemoveSound DEF job_remove
<1>6. CASE SetTimer(o)
  <2>1. o \in State.alive \cup {Root} /\ Root # o
    BY <1>6, RunLoopAssumption DEF SetTimer, State
  <2> QED
    BY <1>1, <1>3, <1>6, <2>1, SetTimerSound DEF SetTimer, Refs
<1>7. CASE DropTimer(o)
  BY <1>1, <1>3, <1>7, DeleteTimerSound DEF DropTimer, Refs
<1>8. CASE job_start(o)
  <2>1. o \notin State.held /\ o \in State.alive
    BY <1>8 DEF job_start, State
  <2> QED
    BY <1>1, <1>3, <1>8, <2>1, AddRefSound DEF job_start
<1>9. CASE job_reap(o)
  <2>1. o \in State.held
    BY <1>9 DEF job_reap, State
  <2> QED
    BY <1>1, <1>3, <1>9, <2>1, DelRefSound DEF job_reap
<1>10. CASE OpenFd(o)
  <2>1. PICK f \in Fds : /\ o \in alive /\ fd[f] = Root
                         /\ Becomes([State EXCEPT !.fd[f] = o, !.watched = @ \cup {f}])
    BY <1>10 DEF OpenFd
  <2> DEFINE d == [State.fd EXCEPT ![f] = o]
             r == [State EXCEPT !.fd = d, !.watched = @ \cup {f}]
  <2>2. /\ d \in [Fds -> Objs \cup {Root}] /\ d[f] = o
        /\ \A g \in Fds : g # f => d[g] = State.fd[g]
    BY <1>1 DEF St
  <2>3. Becomes(r) /\ State.fd[f] = Root /\ o \in State.alive
    BY <2>1 DEF State
  <2> HIDE DEF d
  <2>4. /\ r \in St /\ r.fd = d /\ r.watched = State.watched \cup {f}
        /\ r.armed = State.armed /\ r.gen = State.gen /\ r.alive = State.alive
        /\ r.held = State.held /\ r.busy = State.busy /\ r.fired = State.fired
        /\ r.batch = State.batch
    BY <1>1, <2>2 DEF St
  <2>5. Knotes(r, bulk_kev_i) = Knotes(State, bulk_kev_i)
    BY <2>4 DEF Knotes
  <2> HIDE DEF r
  <2>6. ASSUME NEW k \in Knotes(r, bulk_kev_i)
        PROVE  Accurate(r, k)
    BY <1>1, <2>2, <2>3, <2>4, <2>5 DEF Good, Accurate
  <2>7. Good(r, bulk_kev_i)
    <3>1. \A g \in Fds : r.fd[g] \in r.alive \cup {Root}
      BY <1>1, <2>2, <2>3, <2>4 DEF Good
    <3>2. \A g \in r.watched : r.fd[g] # Root
      BY <1>1, <2>2, <2>4, RunLoopAssumption DEF Good, St
    <3> QED
      BY <1>1, <2>4, <2>6, <3>1, <3>2 DEF Good
  <2> QED
    BY <1>1, <1>3, <2>3, <2>4, <2>7 DEF Refs
<1>11. CASE CloseFd(o)
  <2>1. PICK f \in Fds : Becomes(runtime_close(State, {f}))
    BY <1>11 DEF CloseFd
  <2> QED
    BY <1>1, <1>3, <2>1, CloseSound DEF Refs
<1>12. CASE SwitchFd(o)
  <2>1. PICK f \in Fds :
          State.fd[f] = o /\ Becomes(socketgroup_kevent_mod(State, f, f \notin watched))
    BY <1>12 DEF SwitchFd, State
  <2> DEFINE add == f \notin watched
  <2>2. add \in BOOLEAN /\ State.fd[f] # Root
    BY <2>1, RunLoopAssumption
  <2>3. Becomes(socketgroup_kevent_mod(State, f, add))
    BY <2>1
  <2> HIDE DEF add
  <2> QED
    BY <1>1, <1>3, <2>2, <2>3, SwitchSound DEF Refs
<1> QED
  BY <1>4, <1>5, <1>6, <1>7, <1>8, <1>9, <1>10, <1>11, <1>12 DEF Work

\* A step that changes the queues only, and adds nothing that is not true
LEMMA QueuesOnly ==
  ASSUME LoopInv, UNCHANGED <<alive, fd, watched, armed, gen, held, runtime_busy_cnt>>,
         fired' \in SUBSET Kevent, batch' \in Seq(Kevent), bulk_kev_i' \in 0..Len(batch'),
         \A k \in Knotes(State', bulk_kev_i') : Accurate(State, k)
  PROVE  LoopInv'
<1>1. State \in St
  BY DEF LoopInv, Good
<1>2. State' \in St
  BY <1>1 DEF State, St
<1>3. /\ State'.alive = State.alive /\ State'.fd = State.fd /\ State'.watched = State.watched
      /\ State'.armed = State.armed /\ State'.gen = State.gen /\ State'.held = State.held
      /\ State'.busy = State.busy
  BY DEF State
<1>4. Good(State', bulk_kev_i')
  BY <1>2, <1>3 DEF LoopInv, Good, Accurate
<1>5. Refs(State')
  BY <1>3 DEF LoopInv, Refs
<1> QED
  BY <1>4, <1>5 DEF LoopInv

\* Every step keeps the loop sound.
LEMMA LoopNext == LoopInv /\ [Next]_vars => LoopInv'
<1> SUFFICES ASSUME LoopInv, [Next]_vars PROVE LoopInv'
  OBVIOUS
<1>1. /\ fired \in SUBSET Kevent /\ batch \in Seq(Kevent) /\ bulk_kev_i \in 0..Len(batch)
      /\ Len(batch) \in Nat
      /\ \A k \in Knotes(State, bulk_kev_i) : Accurate(State, k)
  BY DEF LoopInv, Good, State, St
<1>2. CASE x_handle_kqueue
  <2>1. PICK n \in 1..BulkMax : batch' \in Injection(1..n, fired)
    BY <1>2 DEF x_handle_kqueue
  <2>2. /\ batch' \in [1..n -> fired] /\ n \in Nat /\ n >= 1
    BY <2>1, RunLoopAssumption DEF Injection
  <2>3. batch' \in Seq(Kevent) /\ Len(batch') = n
    BY <1>1, <2>2
  <2>4. fired' \subseteq fired /\ bulk_kev_i' = 1
    BY <1>2 DEF x_handle_kqueue
  <2>5. Knotes(State', bulk_kev_i') \subseteq State.fired
    BY <2>2, <2>3, <2>4 DEF Knotes, State
  <2>6. State.fired \subseteq Knotes(State, bulk_kev_i)
    BY DEF Knotes
  <2> QED
    BY <1>1, <1>2, <2>2, <2>3, <2>4, <2>5, <2>6, QueuesOnly DEF x_handle_kqueue
<1>3. CASE NextKevent
  <2>1. /\ UNCHANGED <<alive, fd, watched, armed, gen, fired, held, runtime_busy_cnt>>
        /\ \/ batch' = batch /\ bulk_kev_i' = bulk_kev_i + 1 /\ bulk_kev_i + 1 <= Len(batch)
           \/ batch' = <<>> /\ bulk_kev_i' = 0
    BY <1>3 DEF NextKevent, kernel
  <2>2. batch' \in Seq(Kevent) /\ bulk_kev_i' \in 0..Len(batch')
    <3>1. <<>> \in Seq(Kevent) /\ Len(<<>>) = 0
      BY EmptySeq
    <3>2. CASE batch' = <<>> /\ bulk_kev_i' = 0
      BY <3>1, <3>2
    <3> QED
      BY <1>1, <2>1, <3>2
  <2>3. Knotes(State', bulk_kev_i') \subseteq Knotes(State, bulk_kev_i)
    <3>1. CASE batch' = batch /\ bulk_kev_i' = bulk_kev_i + 1
      BY <1>1, <2>1, <3>1 DEF Knotes, State
    <3>2. CASE batch' = <<>>
      BY <2>1, <3>2 DEF Knotes, State
    <3> QED
      BY <2>1, <3>1, <3>2
  <2> QED
    BY <1>1, <2>1, <2>2, <2>3, QueuesOnly
<1>4. CASE \E o \in Objs : Work(o)
  BY <1>4, LoopWork
<1>5. ASSUME NEW k \in Kevent, Fires(k), Accurate(State, k)
      PROVE  LoopInv'
  <2>1. /\ UNCHANGED <<alive, fd, watched, armed, gen, batch, bulk_kev_i, held,
                       runtime_busy_cnt>>
        /\ fired' = fired \cup {k}
    BY <1>5 DEF Fires
  <2>2. Knotes(State', bulk_kev_i') \subseteq Knotes(State, bulk_kev_i) \cup {k}
    BY <2>1 DEF Knotes, State
  <2> QED
    BY <1>1, <1>5, <2>1, <2>2, QueuesOnly
<1>6. ASSUME NEW f \in Fds, Readable(f)
      PROVE  LoopInv'
  <2> DEFINE k == [filter |-> "READ", ident |-> f, udata |-> fd[f], gen |-> 0]
  <2>1. Fires(k) /\ fd[f] \in Objs
    BY <1>6 DEF Readable, LoopInv, Good, State, St
  <2>2. k \in Kevent
    BY <2>1 DEF Kevent
  <2>3. Accurate(State, k)
    BY <2>1, RunLoopAssumption DEF Accurate, State
  <2> QED
    BY <1>5, <2>1, <2>2, <2>3
<1>7. ASSUME NEW t \in Objs \cup {Root}, Expires(t)
      PROVE  LoopInv'
  <2> DEFINE k == [filter |-> "TIMER", ident |-> t, udata |-> t, gen |-> gen[t]]
  <2>1. Fires(k) /\ gen[t] \in 0..1
    BY <1>7 DEF Expires, LoopInv, Good, State, St
  <2>2. k \in Kevent
    BY <2>1 DEF Kevent
  <2>3. Accurate(State, k)
    BY <1>7 DEF Expires, Accurate, State
  <2> QED
    BY <1>5, <2>1, <2>2, <2>3
<1>8. CASE UNCHANGED vars
  BY <1>8 DEF vars, kernel, LoopInv, State
<1> QED
  BY <1>2, <1>3, <1>4, <1>6, <1>7, <1>8 DEF Next

\* The loop is always sound.
LEMMA LoopAlways == Spec => []LoopInv
BY LoopInit, LoopNext, PTL DEF Spec

\* Whatever the callbacks of a batch free, close, reopen, arm and disarm, the
\* kevents that are left in it are for allocated objects, for the present
\* owner of their descriptor and for the last arming of their timer, for
\* every number of objects and descriptors and every BULK_KEV_MAX.  Only the
\* exit timer of a job with ExitTimeOut 0 may outlive its job.
THEOREM BatchAlwaysSound == Spec => []BatchSound
<1>1. LoopInv => BatchSound
  <2> SUFFICES ASSUME LoopInv, NEW i \in Pending
               PROVE  /\ \/ batch[i].udata \in alive \cup {Root}
                         \/ batch[i].filter = "TIMER" /\ batch[i].udata \in Untimed
                      /\ IF batch[i].filter = "READ" THEN fd[batch[i].ident] = batch[i].udata
                         ELSE batch[i].ident \in armed /\ batch[i].gen = gen[batch[i].ident]
    BY DEF BatchSound, NoStaleKevent, RightReceiver
  <2>1. batch[i] \in Knotes(State, bulk_kev_i)
    BY DEF Pending, Knotes, State
  <2>2. Accurate(State, batch[i])
    BY <2>1 DEF LoopInv, Good
  <2> QED
    BY <2>2 DEF LoopInv, Good, Accurate, State
<1> QED
  BY <1>1, LoopAlways, PTL

\* The busy count is the number of references however they are dropped, and
\* the idle exit timer neither runs nor waits in the batch while one is held:
\* jobmgr_callback() never shuts a launchd in use down.
THEOREM BusyAlwaysSound == Spec => []BusySound
<1>1. LoopInv => BusySound
  <2> SUFFICES ASSUME LoopInv PROVE BusySound
    OBVIOUS
  <2>1. BusyAgrees /\ IsFiniteSet(held)
    BY DEF LoopInv, Refs, BusyAgrees, State
  <2>2. TypeOK
    <3>1. runtime_busy_cnt \in Nat
      BY <2>1, FS_CardinalityType DEF BusyAgrees
    <3> QED
      BY <3>1 DEF LoopInv, Good, State, St, TypeOK
  <2>3. IdleWhenArmed
    <3> SUFFICES ASSUME held # {}, NEW i \in Pending
                 PROVE  batch[i].ident # Root
      BY DEF LoopInv, Refs, State, IdleWhenArmed
    <3>1. batch[i] \in Knotes(State, bulk_kev_i)
      BY DEF Pending, Knotes, State
    <3>2. Accurate(State, batch[i])
      BY <3>1 DEF LoopInv, Good
    <3> QED
      BY <3>2, RunLoopAssumption DEF LoopInv, Refs, Accurate, State
  <2> QED
    BY <2>1, <2>2, <2>3 DEF BusySound
<1> QED
  BY <1>1, LoopAlways, PTL
=============================================================================
