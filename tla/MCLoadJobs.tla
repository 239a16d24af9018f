----------------------------- MODULE MCLoadJobs -----------------------------
(***************************************************************************)
(* Instances of LoadJobs for TLC.                                          *)
(***************************************************************************)
EXTENDS LoadJobs, TLC

Pl(l, k, d, s, f, t) == [label |-> l, keys |-> k, disabled |-> d, sessions |-> s, fits |-> f, trusted |-> t]

\* Two jobs, the second disabled and to monitor events; two more files for the
\* first label, limited to sessions, one of them not trusted; a file for other
\* hosts
MCPlist ==
  ("a" :> Pl("A", {"KeepAlive"}, "none", {}, TRUE, TRUE)) @@
  ("b" :> Pl("B", {"RunAtLoad", "EventMonitor"}, "yes", {}, TRUE, TRUE)) @@
  ("a2" :> Pl("A", {"EventMonitor"}, "none", {"Background", "Aqua", "LoginWindow"}, TRUE, FALSE)) @@
  ("y" :> Pl("A", {"KeepAlive"}, "none", {"Background"}, TRUE, TRUE)) @@
  ("x" :> Pl("X", {}, "none", {}, FALSE, TRUE))

Cm(op, w, F, S, paths) ==
  [op |-> op, w |-> w, F |-> F, S |-> S, boot |-> FALSE, paths |-> paths]

Load(p)    == Cm("load", FALSE, FALSE, "none", p)
LoadW(p)   == Cm("load", TRUE, FALSE, "none", p)
LoadF(p)   == Cm("load", FALSE, TRUE, "none", p)
Unload(p)  == Cm("unload", FALSE, FALSE, "none", p)
UnloadW(p) == Cm("unload", TRUE, FALSE, "none", p)
One(op, f) == Cm(op, FALSE, FALSE, "none", <<f>>)
Boot(S, p) == bootstrap_cmd(S, p)

\* A load for a session that launchd does not have
Absentee(p) == Cm("load", FALSE, TRUE, "LoginWindow", p)

Background == [c \in Clients |-> "Background"]

\* Two processes of one session; an interactive one gives two commands, and a
\* command that finds nothing is the last one of its process
MCScripts ==
  LET one == {<<LoadW(<<"a", "b">>)>>, <<UnloadW(<<"b", "a">>)>>, <<Load(<<"a", "x">>)>>, <<Load(<<"b">>)>>,
              <<Boot("Background", <<"a2", "y", "a">>)>>,
              <<Absentee(<<"a2">>)>>, <<One("submit", "x")>>, <<One("start", "a"), One("remove", "a")>>}
      two == {<<LoadF(<<"b">>), Unload(<<"a">>)>>, <<LoadW(<<"a">>), UnloadW(<<"a">>)>>,
              <<LoadF(<<"a2", "b", "a">>), Unload(<<"b", "a">>)>>,
              <<LoadW(<<"b">>), Boot("Background", <<"y", "x">>)>>}
  IN  [Clients -> one \cup two]

\* The bootstrap of Aqua, whose job goes to Aqua, and a submit, whose job goes
\* to the root manager
Aqua == [c \in Clients |-> "Aqua"]
SessionScripts == {("c1" :> <<Boot("Aqua", <<"a">>)>>) @@ ("c2" :> <<One("submit", "x")>>)}
=============================================================================
