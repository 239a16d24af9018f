---------------------------- MODULE MCLaunchMsg ----------------------------
(***************************************************************************)
(* Instance of LaunchMsg for TLC.                                          *)
(***************************************************************************)
EXTENDS LaunchMsg

CONSTANTS t1, t2

JobSockets == <<"s1", "s2">>

CheckIn         == Str("CheckIn")
Submit(l, f)    == Dict(<<Str("SubmitJob"), Dict(<<Str("Label"), Str(l), Str("Sockets"), Array(f)>>)>>)
GetJob(l)       == Dict(<<Str("GetJob"), Str(l)>>)
RemoveJob(l)    == Dict(<<Str("RemoveJob"), Str(l)>>)

\* A job that checks in and then manages others; two threads of a tool that
\* submit the same label, ask for it and remove it
MCPrograms ==
  {(t1 :> <<CheckIn, Submit("a", <<Fd("f1"), Fd("f2")>>), GetJob("self"), CheckIn>>) @@ (t2 :> <<>>),
   (t1 :> <<GetJob("a"), Submit("a", <<Fd("f1")>>), RemoveJob("a"), GetJob("a")>>) @@
   (t2 :> <<Submit("a", <<Fd("f2"), Fd("f3")>>), GetJob("a"), Submit("b", <<Fd("f4")>>)>>)}
=============================================================================
