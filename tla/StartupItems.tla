---------------------------- MODULE StartupItems ----------------------------
(***************************************************************************)
(* SystemStarter: it reads the startup items from the disk, runs them in   *)
(* the order of the services they provide, require and use, and collects   *)
(* the scripts that end.  At boot it starts all of them, waits for         *)
(* SIGTERM and stops all of them; as a command it starts, stops or         *)
(* restarts the provider of one service with what that needs.              *)
(***************************************************************************)
EXTENDS Integers, FiniteSets, Sequences, FiniteSetsExt, Functions

CONSTANTS
  NItems,       \* bound on the number of items
  Disks,        \* the contents /System and /Library may have: sequences of items
  StubServices, \* stubitems of SpecialCasesStartupItemHandler()
  StubStops,    \* stubitems of StartupItemRun()
  MaxCommands   \* bound on the commands given while the system is up

INT_MAX == 2147483647
NoItem  == 0

\* The directories are finitely many, in some order, and a plist is nowhere near
\* so long that a count of its dependencies reaches INT_MAX
ASSUME DisksAssumption ==
  /\ NItems \in Nat /\ MaxCommands \in Nat
  /\ \A d \in Disks : \E n \in 0..NItems :
       /\ DOMAIN d = 1..n
       /\ \A i \in 1..n :
            /\ IsFiniteSet(d[i].provides) /\ Cardinality(d[i].provides) * NItems < INT_MAX
            /\ IsFiniteSet(d[i].uses) /\ Cardinality(d[i].uses) < INT_MAX
            /\ IsFiniteSet(d[i].requires)
            /\ d[i].domain \in Nat

VARIABLES
  disk,         \* the item directories, in the order they are read
  phase,        \* of the program that runs: "off", "loop" or, between two, "idle"
  anAction,
  aWaitingList, \* sequence of indices into disk
  aStatusDict,  \* service -> "none", "success" or "failure"
  aFailedList,
  aRunningCount,
  pid,          \* item -> kPIDKey: "none", "minus1", "live", or the exit status
                \* of a child not yet collected, "ok" or "bad"; a pid stays
                \* in the item when the child has been collected: "reaped"
  up,           \* items some start of which succeeded and no stop was tried since
  tried,        \* items this run has handed to StartupItemRun()
  commands,
  booted,       \* the boot-time program: "no", "up", "stopping" or "down"
  late          \* items whose files or directory have changed since the boot

context == <<anAction, aWaitingList, aStatusDict, aFailedList, aRunningCount, pid, tried>>
vars == <<disk, phase, context, up, commands, booted, late>>

Ids      == DOMAIN disk
Services == UNION {disk[i].provides \cup disk[i].requires \cup disk[i].uses : i \in Ids}

Lasting  == {"live", "ok", "bad"}
HasPID(i) == pid[i] # "none"

-----------------------------------------------------------------------------
(* Reading the items.                                                      *)

\* The domain's directory, the bundle, its executable and its parameter file
\* belong to root:wheel and nobody else may write them.  A program that init
\* started (getppid() == 1), which is the boot-time one, also wants them to be
\* as old as the boot
StartupItemSecurityCheck(i, init) == disk[i].state # "untrusted" /\ (init => i \notin late)

StartupItemValidate(i) == disk[i].state # "malformed"

\* The services launchd itself starts are taken out of the dependencies
Requires(i) == disk[i].requires \ StubServices
Uses(i)     == disk[i].uses \ StubServices
Provides(i) == disk[i].provides

\* CFDictionaryGetValue(anItem, aKey)
ValueOf(i, aKey) ==
  CASE aKey = "Provides" -> Provides(i) [] aKey = "Requires" -> Requires(i) [] aKey = "Uses" -> Uses(i)

\* The members of S on a list, in the order of the list: the k-th of them is at
\* the place that has k of them up to itself
Sublist(list, S) ==
  LET places == {n \in DOMAIN list : list[n] \in S}
      rank(n) == Cardinality({m \in places : m <= n})
  IN  [k \in 1..Cardinality(places) |-> list[CHOOSE n \in places : rank(n) = k]]

\* readdir() finds the item: it was installed before the boot or since
OnDisk(i) == disk[i].state # "new" \/ i \in late

StartupItemListCreateWithMask(init) ==
  Sublist([i \in Ids |-> i],
          {i \in Ids : /\ OnDisk(i) /\ disk[i].state # "disabled"
                       /\ StartupItemSecurityCheck(i, init)
                       /\ StartupItemValidate(i)})

-----------------------------------------------------------------------------
(* Choosing the items of a command.                                        *)

\* The items of a list whose key names the service
startupItemListCopyMatches(list, aKey, s) == {i \in Range(list) : s \in ValueOf(i, aKey)}

\* The first of them
StartupItemListGetProvider(list, s) ==
  LET places == {n \in DOMAIN list : s \in Provides(list[n])}
  IN  IF places = {} THEN NoItem ELSE list[Min(places)]

\* The closure of parent under "provides what it requires" (start) or
\* "requires what it provides" (stop); the recursion visits an item once
appendDependents(list, parent, action) ==
  LET all == Range(list)
      next(i) == CASE action = "start" -> {j \in all : Provides(j) \cap Requires(i) # {}}
                   [] action = "stop"  -> {j \in all : Requires(j) \cap Provides(i) # {}}
                   [] OTHER            -> {}
      closed(C) == \A i \in C : next(i) \subseteq C
  IN  {j \in all : \A C \in SUBSET all : parent \in C /\ closed(C) => j \in C}

\* The lists a command may work on: the provider first, the rest in the order in
\* which the plists name the services, which the sets of the model leave open
StartupItemListCreateDependentsList(list, s, action) ==
  LET p == StartupItemListGetProvider(list, s)
      deps == appendDependents(list, p, action)
  IN  IF p = NoItem THEN {} ELSE {q \in Bijection(1..Cardinality(deps), deps) : q[1] = p}

-----------------------------------------------------------------------------
(* Choosing what to run next.                                              *)

countUnmetRequirements(services) == Cardinality({s \in services : aStatusDict[s] # "success"})

\* (mutant) nobody depends on anything
countDependantsPresent_zero(services, aKey) == 0

countDependantsPresent(services, aKey) ==
  Cardinality({m \in services \X Range(aWaitingList) :
                 m[2] \in startupItemListCopyMatches(aWaitingList, aKey, m[1])})

\* Some antecedent has not run yet, or runs
pendingAntecedents(services) ==
  LET aKey == IF anAction = "start" THEN "Provides" ELSE "Uses"
  IN  \E s \in services : \E i \in startupItemListCopyMatches(aWaitingList, aKey, s) :
        ~HasPID(i) \/ aStatusDict[s] = "none"

\* (mutant) a provider that runs is not looked at
checkForDuplicates_idle(i) ==
  \E s \in Provides(i) :
    \/ aStatusDict[s] = "success"
    \/ \E j \in startupItemListCopyMatches(aWaitingList, "Provides", s) :
         ~HasPID(j) /\ disk[i].domain > disk[j].domain

\* Another item has provided the service, runs and may provide it, or comes
\* from an earlier domain
checkForDuplicates(i) ==
  \E s \in Provides(i) :
    \/ aStatusDict[s] = "success"
    \/ \E j \in startupItemListCopyMatches(aWaitingList, "Provides", s) :
         HasPID(j) \/ disk[i].domain > disk[j].domain

\* The number of unmet soft dependencies
Soft(i) ==
  CASE anAction = "start"   -> countUnmetRequirements(Uses(i))
    [] anAction = "stop"    -> countDependantsPresent(Provides(i), "Uses")
    [] anAction = "restart" -> 0

\* An item that may run now, but for the better picks before it
Ready(i) ==
  /\ ~HasPID(i)
  /\ ~checkForDuplicates(i)
  /\ anAction = "start" => countUnmetRequirements(Requires(i)) = 0
  /\ anAction = "stop"  => countDependantsPresent(Provides(i), "Requires") = 0
  /\ Soft(i) > 0 => ~pendingAntecedents(IF anAction = "start" THEN Uses(i) ELSE Provides(i))

\* The first of the items with the fewest unmet soft dependencies, fewer than limit
BestBelow(limit) ==
  LET places == {n \in DOMAIN aWaitingList : Ready(aWaitingList[n]) /\ Soft(aWaitingList[n]) < limit}
      fewest == Min({Soft(aWaitingList[n]) : n \in places})
  IN  IF places = {} THEN NoItem
      ELSE aWaitingList[Min({n \in places : Soft(aWaitingList[n]) = fewest})]

\* (mutant) the search starts from one unmet dependency instead of INT_MAX
StartupItemListGetNext_strict == BestBelow(1)

\* One pass over the list
StartupItemListGetNext == BestBelow(INT_MAX)

-----------------------------------------------------------------------------
(* Running an item and collecting it.                                      *)

\* StartupItemSetStatus() without replacement: the first status of a service stays
StartupItemExit(status, i, success) ==
  [s \in DOMAIN status |->
     IF s \in Provides(i) /\ status[s] = "none"
     THEN (IF success THEN "success" ELSE "failure") ELSE status[s]]

RemoveItemFromWaitingList(i) == Sublist(aWaitingList, Ids \ {i})

\* What a script that ended leaves behind in the system
Effect(i, success) ==
  CASE anAction = "start" -> IF success THEN up \cup {i} ELSE up
    [] anAction = "stop"  -> up \ {i}
    [] OTHER              -> up

\* (mutant) the count is not lowered when the item has failed
startupItemTerminated_failed_counts(i, success, running) ==
  /\ pid' = [pid EXCEPT ![i] = "reaped"]
  /\ aRunningCount' = IF success THEN running - 1 ELSE running
  /\ aStatusDict' = StartupItemExit(aStatusDict, i, success)
  /\ aFailedList' = IF success THEN aFailedList ELSE Append(aFailedList, i)
  /\ aWaitingList' = RemoveItemFromWaitingList(i)
  /\ up' = Effect(i, success)

\* waitpid() and the accounts; running is the count before
startupItemTerminated(i, success, running) ==
  /\ pid' = [pid EXCEPT ![i] = "reaped"]
  /\ aRunningCount' = running - 1
  /\ aStatusDict' = StartupItemExit(aStatusDict, i, success)
  /\ aFailedList' = IF success THEN aFailedList ELSE Append(aFailedList, i)
  /\ aWaitingList' = RemoveItemFromWaitingList(i)
  /\ up' = Effect(i, success)

\* The item goes to the failed list and leaves the waiting list
NotRun(i, p, success) ==
  /\ pid' = [pid EXCEPT ![i] = p]
  /\ aStatusDict' = StartupItemExit(aStatusDict, i, success)
  /\ aFailedList' = Append(aFailedList, i)
  /\ aWaitingList' = RemoveItemFromWaitingList(i)
  /\ up' = Effect(i, FALSE)
  /\ UNCHANGED aRunningCount

StubStop(i) == anAction = "stop" /\ Provides(i) \cap StubStops # {}

\* Items that are not to be stopped any more: recorded as stopped, and failed
StartupItemRun_stub(i) == StubStop(i) /\ NotRun(i, "minus1", TRUE)

StartupItemRun_noexec(i) == ~StubStop(i) /\ ~disk[i].exec /\ NotRun(i, "minus1", FALSE)

StartupItemRun_forkfails(i) == ~StubStop(i) /\ disk[i].exec /\ NotRun(i, "none", FALSE)

\* The child runs and MonitorStartupItem() waits for its task port to die
MonitorStartupItem(i) ==
  /\ ~StubStop(i) /\ disk[i].exec
  /\ pid' = [pid EXCEPT ![i] = "live"]
  /\ aRunningCount' = aRunningCount + 1
  /\ UNCHANGED <<aStatusDict, aFailedList, aWaitingList, up>>

\* There is no task port any more: the child is collected at once, waitpid()
\* waits for it
MonitorStartupItem_bad(i, success) ==
  /\ ~StubStop(i) /\ disk[i].exec
  /\ startupItemTerminated(i, success, aRunningCount + 1)

-----------------------------------------------------------------------------
(* system_starter().                                                       *)

\* The lists of the boot-time program and of a command
BootList    == StartupItemListCreateWithMask(TRUE)
CommandList == StartupItemListCreateWithMask(FALSE)

\* The context of a new run over a list
NewContext(a, list) ==
  /\ anAction' = a
  /\ aWaitingList' = list
  /\ aStatusDict' = [s \in Services |-> "none"]
  /\ aFailedList' = <<>>
  /\ aRunningCount' = 0
  /\ pid' = [i \in Ids |-> "none"]
  /\ tried' = {}
  /\ phase' = "loop"

Init ==
  /\ disk \in Disks
  /\ phase = "loop"
  /\ anAction = "start"
  /\ late = {}
  /\ aWaitingList = BootList
  /\ aStatusDict = [s \in Services |-> "none"]
  /\ aFailedList = <<>>
  /\ aRunningCount = 0
  /\ pid = [i \in Ids |-> "none"]
  /\ up = {}
  /\ tried = {}
  /\ commands = 0
  /\ booted = "no"

\* One turn of the loop that found an item
RunNext ==
  /\ phase = "loop" /\ StartupItemListGetNext # NoItem
  /\ LET i == StartupItemListGetNext
     IN  /\ \/ StartupItemRun_stub(i)
            \/ StartupItemRun_noexec(i)
            \/ StartupItemRun_forkfails(i)
            \/ MonitorStartupItem(i)
            \/ \E success \in BOOLEAN : MonitorStartupItem_bad(i, success)
         /\ tried' = tried \cup {i}
  /\ UNCHANGED <<disk, phase, anAction, commands, booted, late>>

\* A script ends, with whatever status
ScriptEnds(i) ==
  /\ pid[i] = "live"
  /\ \E r \in {"ok", "bad"} : pid' = [pid EXCEPT ![i] = r]
  /\ UNCHANGED <<disk, phase, anAction, aWaitingList, aStatusDict, aFailedList, aRunningCount,
                 up, tried, commands, booted, late>>

\* CFRunLoopRunInMode() delivers the death of a task port
Terminated(i) ==
  /\ phase = "loop" /\ StartupItemListGetNext = NoItem
  /\ pid[i] \in {"ok", "bad"}
  /\ startupItemTerminated(i, pid[i] = "ok", aRunningCount)
  /\ UNCHANGED <<disk, phase, anAction, tried, commands, booted, late>>

\* Nothing to run and nothing running: the run is over
Finish ==
  /\ phase = "loop" /\ StartupItemListGetNext = NoItem /\ aRunningCount = 0
  /\ phase' = IF booted = "stopping" THEN "off" ELSE "idle"
  /\ booted' = CASE booted = "no" -> "up" [] booted = "stopping" -> "down" [] OTHER -> booted
  /\ UNCHANGED <<disk, context, up, commands, late>>

\* SystemStarter <action> <service>, while the boot-time program waits for SIGTERM
Command(a, s) ==
  /\ phase = "idle" /\ commands < MaxCommands
  /\ commands' = commands + 1
  /\ \E list \in StartupItemListCreateDependentsList(CommandList, s, a) : NewContext(a, list)
  /\ UNCHANGED <<disk, up, booted, late>>

\* "Unknown service"
CommandUnknown(a, s) ==
  /\ phase = "idle" /\ commands < MaxCommands
  /\ StartupItemListGetProvider(CommandList, s) = NoItem
  /\ commands' = commands + 1
  /\ UNCHANGED <<disk, phase, context, up, booted, late>>

\* Somebody edits an item after the boot, or installs one: that changes the
\* directory of its domain, too, and with it what init's program takes from there
Change(i) ==
  /\ phase = "idle" /\ i \notin late /\ disk[i].state \in {"edited", "new"}
  /\ late' = late \cup {i} \cup {j \in Ids : /\ disk[i].state = "new" /\ OnDisk(j)
                                            /\ disk[j].domain = disk[i].domain}
  /\ UNCHANGED <<disk, phase, context, up, commands, booted>>

\* SIGTERM reaches the boot-time program
Shutdown ==
  /\ phase = "idle"
  /\ booted' = "stopping"
  /\ NewContext("stop", BootList)
  /\ UNCHANGED <<disk, up, commands, late>>

Next ==
  \/ RunNext
  \/ \E i \in Ids : ScriptEnds(i)
  \/ \E i \in Ids : Terminated(i)
  \/ \E i \in Ids : Change(i)
  \/ Finish
  \/ \E a \in {"start", "stop", "restart"}, s \in Services : Command(a, s)
  \/ \E a \in {"start", "stop", "restart"}, s \in Services : CommandUnknown(a, s)
  \/ Shutdown

Spec == Init /\ [][Next]_vars

\* The loop goes on, scripts end, their deaths are delivered and the machine
\* is shut down in the end.  Each of the steps disables itself, so that weak
\* fairness says that its guard is false again and again.
FairSpec ==
  /\ Spec
  /\ []<>~(phase = "loop" /\ StartupItemListGetNext # NoItem)
  /\ []<>~(phase = "loop" /\ StartupItemListGetNext = NoItem /\ aRunningCount = 0)
  /\ \A i \in 1..NItems :
       /\ []<>~(i \in Ids /\ pid[i] = "live")
       /\ []<>~(/\ i \in Ids /\ pid[i] \in {"ok", "bad"}
                /\ phase = "loop" /\ StartupItemListGetNext = NoItem)
  /\ []<>~(phase = "idle")

-----------------------------------------------------------------------------
(* Properties.                                                             *)

\* State of a run of system_starter()
TypeOK ==
  /\ phase \in {"loop", "idle", "off"} /\ booted \in {"no", "up", "stopping", "down"}
  /\ anAction \in {"start", "stop", "restart"}
  /\ Range(aWaitingList) \subseteq Ids /\ Range(aFailedList) \subseteq Ids
  /\ aStatusDict \in [Services -> {"none", "success", "failure"}]
  /\ pid \in [Ids -> Lasting \cup {"none", "minus1", "reaped"}]
  /\ aRunningCount \in 0..NItems /\ up \subseteq Ids /\ tried \subseteq Ids
  /\ commands \in 0..MaxCommands /\ late \subseteq Ids

\* An item that the program that runs has read, if it is there: the shutdown
\* does not see what changed after the boot
Seen(i) == booted \in {"stopping", "down"} => i \notin late

\* Whatever was started, and in whatever order things were started and stopped
\* since, a service that an item requires is provided by an item that is up:
\* start goes from the required to the requiring, stop the other way.  Once the
\* shutdown has begun this is so for the items that are as old as the boot:
\* StartupItemSecurityCheck() hides the others from it, and they are left
\* without what they require.
RequirementsUp ==
  \A i \in up : Seen(i) => Requires(i) \subseteq UNION {Provides(j) : j \in up}

\* While the stop script of an item runs, nothing that is up and was read
\* requires one of its services
OrderlyStop ==
  anAction = "stop" =>
    \A i \in Ids, j \in up :
      pid[i] \in Lasting /\ j # i /\ Seen(j) => Requires(j) \cap Provides(i) = {}

\* The shutdown, system_starter() without a service, acts on every item that is up,
\* or displayErrorMessages() reports it as not attempted ("If no service is
\* specified, all startup items will be acted on").
AllStopped == booted = "down" => up \subseteq Range(aWaitingList)

\* Two scripts never run at the same time for one service ("Item is running,
\* avoid race condition")
OneProvider ==
  \A i, j \in Ids :
    i # j /\ {pid[i], pid[j]} \subseteq Lasting => Provides(i) \cap Provides(j) = {}

\* An item started while a service it uses has no result yet was not on the
\* list with a provider: soft dependencies order the items as long as they can
UsesFirst ==
  anAction = "start" =>
    \A i \in Ids, s \in Services :
      pid[i] \in Lasting /\ s \in Uses(i) /\ aStatusDict[s] = "none" =>
        \A j \in Range(aWaitingList) : j # i => s \notin Provides(j)

\* Starting and stopping follow the dependencies.
DependencyOrder == RequirementsUp /\ OrderlyStop /\ UsesFirst

\* The running count is the number of scripts still to be collected, and they
\* are all on the waiting list: the loop neither ends early nor waits for nothing
Accounts ==
  /\ aRunningCount = Cardinality({i \in Ids : pid[i] \in Lasting})
  /\ {i \in Ids : pid[i] \in Lasting} \subseteq Range(aWaitingList)

\* The accounts of running scripts are right and no service has two of them.
ScriptsCounted == TypeOK /\ OneProvider /\ Accounts

\* A run ends only when each item it leaves on the list is blocked by the final
\* results: by a requirement, by a service that is already provided, or by
\* another item that was left
LeftBehind ==
  phase # "loop" =>
    \A i \in Range(aWaitingList) :
      \/ \E s \in Provides(i) : aStatusDict[s] = "success"
      \/ anAction = "start" /\ \E s \in Requires(i) : aStatusDict[s] # "success"
      \/ \E j \in Range(aWaitingList) :
           \/ disk[j].domain < disk[i].domain /\ Provides(j) \cap Provides(i) # {}
           \/ anAction = "start" /\ Uses(i) \cap Provides(j) # {}
           \/ anAction = "stop" /\ Provides(i) \cap (Uses(j) \cup Requires(j)) # {}

\* A script is started at most once in a run, even if it fails
RunOnce == [][\A i \in Ids : pid[i] # "live" /\ pid'[i] = "live" => i \notin tried]_vars

\* Every run ends, however the items depend on each other and whichever fail:
\* the machine gets through start-up and through its shutdown
Ends == <>(phase = "off")

\* A run comes to its end without running a script twice.
RunsThrough == RunOnce /\ Ends
=============================================================================
