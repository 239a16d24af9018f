--------------------------- MODULE MCMachServices ---------------------------
(* A session with a job and its replacement that want the same names, a    *)
(* legacy server, a subset of a subset and a visiting process; a domain    *)
(* that imports a service into itself or into a singleton domain, and an   *)
(* application of that domain.                                             *)
EXTENDS MachServices

old  == <<"root", "old">>
new  == <<"root", "new">>
serv == <<"root", "server">>
visit == <<"root", "visitor">>
inner == <<"deep", "inner">>
local  == <<"domain", "x">>
shared == <<"single", "x">>
app    == <<"domain", "app">>

TheMgrs == {"root", "sub", "deep", "domain", "single"}
TheParent == [m \in TheMgrs |-> IF m = "deep" THEN "sub" ELSE "root"]
TheKind == [m \in TheMgrs |->
              CASE m = "root" -> "session" [] m \in {"sub", "deep"} -> "subset"
                [] m = "domain" -> "domain" [] m = "single" -> "singleton"]

AllJobs == {old, new, inner, visit, serv, local, shared, app}
AllOffers == [j \in AllJobs |-> IF j \in {visit, serv, app} THEN {}
                                ELSE IF j = new THEN {"x", "y"} ELSE {"x"}]
TheCasts == {{old, new}, {old, inner}, {old, visit}, {serv, visit}, {local, shared, app}}
TheVisitors == {visit, app}
TheLegacy == {serv}

\* A second name where a job offers or registers two of them
TheAsks == [j \in AllJobs |-> IF j \in {old, new, inner, serv} THEN {"x", "y"} ELSE {"x"}]

\* A shared service; the same label twice; a shared one after a local one
TheImports ==
  {<<"domain", << <<"x", "single">> >> >>,
   <<"domain", << <<"x", "domain">>, <<"x", "domain">> >> >>,
   <<"domain", << <<"x", "domain">>, <<"x", "single">> >> >>}
=============================================================================
