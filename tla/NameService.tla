----------------------------- MODULE NameService -----------------------------
(***************************************************************************)
(* What the bootstrap name service promises: in a namespace a name belongs *)
(* to at most one job at a time, and it must be free before another job    *)
(* can have it.  One request may claim and free several names.             *)
(***************************************************************************)
CONSTANTS Spaces, Names, Jobs, Nobody

VARIABLE owner     \* namespace, name -> the job it belongs to

Owners == [Spaces \X Names -> Jobs \cup {Nobody}]

Init == owner = [e \in Spaces \X Names |-> Nobody]

\* Names are claimed and given up, none changes hands
Next ==
  /\ owner' \in Owners
  /\ \A e \in Spaces \X Names : owner'[e] # owner[e] => Nobody \in {owner[e], owner'[e]}

Spec == Init /\ [][Next]_owner
=============================================================================
