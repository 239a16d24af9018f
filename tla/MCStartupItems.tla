--------------------------- MODULE MCStartupItems ---------------------------
(***************************************************************************)
(* Instance of StartupItems for TLC: three items and three services, with  *)
(* duplicate providers in one and in two domains, cycles, an item without  *)
(* executable, items that are not to be read, and items that are edited or *)
(* installed after the boot.                                               *)
(***************************************************************************)
EXTENDS StartupItems

It(p, r, u, d, x, st) ==
  [provides |-> p, requires |-> r, uses |-> u, domain |-> d, exec |-> x, state |-> st]

A == {It({"s"}, r, u, 1, TRUE, "good") : r \in {{}, {"u"}}, u \in {{}, {"t"}}}
B == {It(p, r, u, d, x, "good") : p \in {{"s"}, {"t"}}, r \in {{}, {"s", "net"}}, u \in {{}, {"s"}, {"u"}},
        d \in {1, 2}, x \in BOOLEAN}
C == {It(p, r, u, 2, TRUE, "good") : p \in {{"u"}, {"s"}}, r \in {{}, {"s"}, {"t"}}, u \in {{}, {"t"}}}
Bad == {It({"s"}, {}, {}, 1, TRUE, st) : st \in {"disabled", "untrusted", "malformed"}}

\* The last item, or the one before it, changes after the boot
Changed == {<<a, [b EXCEPT !.state = x], [c EXCEPT !.state = y]>> :
              a \in {i \in A : i.uses = {}}, b \in {i \in B : i.exec /\ i.uses = {}},
              c \in {i \in C : i.uses = {}}, x \in {"good", "edited"}, y \in {"edited", "new"}}

MCDisks == {<<a, b, c>> : a \in A, b \in B, c \in C}
           \cup {<<a, b, c>> : a \in Bad, b \in {i \in B : i.exec}, c \in {i \in C : i.uses = {}}}
           \cup Changed
=============================================================================
