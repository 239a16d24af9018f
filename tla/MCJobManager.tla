---------------------------- MODULE MCJobManager ----------------------------
(***************************************************************************)
(* Instances of JobManager for TLC.                                        *)
(***************************************************************************)
EXTENDS JobManager

CONSTANTS sub, leaf,              \* managers: a session, and a subset of it
          a, b, c, d              \* jobs

Chain == [m \in Mgrs \ {Root} |-> IF m = leaf THEN sub ELSE Root]

\* c is in the manager farthest from the root, all others in the root
Session ==
  [j \in Jobs |-> IF j # c THEN Root ELSE IF leaf \in Mgrs THEN leaf ELSE sub]

Nobody == [j \in Jobs |-> {}]

\* b is curious about a, and about a job of the session if there is one
BAboutOthers == [j \in Jobs |-> IF j = b THEN {a, c} \cap Jobs ELSE {}]
BAboutA      == [j \in Jobs |-> IF j = b THEN {a} ELSE {}]

\* Kept-alive jobs in two managers, one that depends on them, a legacy server
ModeTraits ==
  [j \in Jobs |-> CASE j = a -> {"KeepAlive"}
                    [] j = c -> {"KeepAlive"}
                    [] j = d -> {"legacy_mach_job"}
                    [] OTHER -> {}]

\* A monitor, a job to be dirty at shutdown and its normal peer, and a session
ShutdownTraits ==
  [j \in Jobs |-> CASE j = a -> {"ShutdownMonitor"}
                    [] j = b -> {"BeginTransactionAtShutdown", "InstantOff", "KeepAlive"}
                    [] j = c -> {"BeginTransactionAtShutdown", "KeepAlive"}
                    [] OTHER -> {"MachServices", "KeepAlive"}]

PlainTraits == [j \in Jobs |-> {}]
=============================================================================
