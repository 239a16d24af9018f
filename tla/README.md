# launchd: a verification development

TLA+ models of launchd (the repository's `src/`, `liblaunch/`, `support/`,
`SystemStarter/`), the TLC instances that check them and TLAPS proofs about them.
File names below are the repository's; `core.c` is `src/core.c`.

## The system

launchd is the first process of the system and, once per user, a session
manager. It keeps a tree of *job managers*, each with *jobs*; a job is a program
with the conditions under which it runs. A job may advertise *Mach services*:
launchd holds the receive right of the service's port while the job is not
running, hands it over when the program checks in, and gets it back from the
kernel when the program closes it or dies. A message on the port of an idle job
is a *demand* that starts it.

| Part | State | Operations | Talks to |
|---|---|---|---|
| Jobs (`core.c`) | `struct job_s`: pid, exit status, about 100 bits, three timers | import, dispatch, start, reap, stop, kill, remove, watch, ignore | kernel (fork, kevents), manager, services |
| Mach services (`core.c`) | names, ports, `isActive`, `recv_race_hack`, reset and drain options, aliases of XPC domains | check in, look up, register, import, reset, drain, delete | kernel (port notifications), job |
| Job managers (`core.c`) | parent, children, `shutting_down`, `global_on_demand_cnt`, counters | shutdown, garbage collection, removal, dispatch of all jobs | jobs |
| Calendar (`core.c`) | sorted list of next times, one kernel timer | `cronemu`, callback | jobs |
| Events (`core.c`) | event systems and events with a state | check in of a provider, set state | jobs |
| Run loop (`runtime.c`) | kqueue, port sets, batch of kevents, busy count | dispatch of kevents and messages, fork, references | all handlers |
| Legacy IPC (`ipc.c`, `liblaunch.c`) | connections, partial messages, descriptors in flight | send, receive, reply, commands of launchctl | jobs |
| Import and sessions (`core.c`, `liblaunch.c`) | jobs that wait for a security session, the event monitor | bulk import, hand-over of the session | jobs, launchctl |
| Transactions (`libvproc.c`) | client side transaction count, clean callback | begin, end, enable, flush, clean exit | kernel |
| launchctl (`support/launchctl.c`) | overrides database and its lock | load, unload, bootstrap, submit | launchd over IPC, other launchctls |
| SystemStarter | waiting list, status of services, running scripts | boot, start, stop, restart, shutdown | its scripts |
| launchproxy | one connection | accept and execute | launchd |

What makes the code hard: everything runs on one thread, but what it depends on
does not. A child's exec and exit, its NOTE_EXIT event, the return of its receive
rights, its exit timer, commands and shutdown come in any order; a process may
ignore SIGTERM or even outlive SIGKILL; fork and the attachment of the kevent may
fail; and most conditions are cached in bits (`currently_ignored`, `isActive`,
`stopped`, `crashed`, `waiting4ok`) that each handler must keep right. Correct
means: launchd's idea of the child and of the right agrees with the kernel's, no
demand or reason to run is lost, nothing is started twice or without its rights,
and stop, removal and shutdown come to an end. The programs around it are
concurrent with each other: launchctl processes share a database, threads share a
connection, a process races the kernel that may kill it, and messages are cut
anywhere by the sockets they go through.

## Modules

| Module | What it is |
|---|---|
| `JobLifecycle` | one job, its service and the kernel objects they name |
| `JobLifecycleProofs` | the bookkeeping invariant, restarts and removals: what a dispatch settles, wakeups: the demand set, successive lives: exit timer and drain |
| `JobManager` | the tree of managers, and what jobs do to each other |
| `JobManagerProofs` | the sound and steady state that every handler leaves behind, and its theorems |
| `NameService` | abstract: a name belongs to one job at a time |
| `MachServices` | names, ports, receive rights and XPC domains, shown to implement `NameService` |
| `MachServicesProofs` | the sound state that every request and notification leaves behind, its theorems and the refinement |
| `RunLoop` | batches of kevents, timers, descriptors, the busy count |
| `RunLoopProofs` | what waits to be served is true, and its theorems |
| `Calendar` | the sorted list of calendar intervals, its timer and its callback |
| `CalendarProofs` | the list and the jobs that every handler leaves behind, the walk of the callback, and its theorems |
| `Cron` | `Calendar` with the arithmetic: `cronemu()` and what a dictionary means |
| `LaunchMsg` | messages with descriptors between liblaunch and launchd |
| `LoadJobs` | launchctl, the overrides database, submission and sessions |
| `LoadJobsProofs` | the good state of launchd, what each launchctl knows of the database, and its theorems |
| `StartupItems` | SystemStarter |
| `StartupItemsProofs` | its inductive invariant and theorems |
| `Transactions` | the transaction count and the dirty bit of a process |
| `TransactionsProofs` | its inductive invariant and theorems |
| `MC...` | one for each module above that is run: the sets and functions of its instances |

`JobLifecycle` has one job in full; `JobManager` has many jobs by what others see
of them and takes from `JobLifecycle` that a stopped process exits; `MachServices`
has many services and takes jobs as loaded, running or gone. `LoadJobs` has the
jobs from their file to their first start, which is where the other two begin.

Definitions marked *(mutant)* are plausible mistakes. Substituted for the operator
they precede, they make TLC find the property they are paired with in
`PROJECT.json` violated; nothing else uses them.

### JobLifecycle

State. `cfg` is the set of plist keys the job was imported with; `mgr` the bits of
the manager it looks at; `job` a record. `job.flags` holds the one-bit fields of
`struct job_s` and `struct machservice` under their C names (plus `p` and
`start_time`, for "not zero"); `job.timers` the kevent timers by ident, where
`job` and `due` are the one timer on the job itself before and after its delay is
over. The rest is the kernel's side: the child (`child`, `fate`, `sig`, `notes`),
the receive right (`right`: with launchd, with the child, with a process launchd
has given up, or on its way back in a port-destroyed message), whether the port
is in `demand_port_set` (`inset`), and its queue (`msgs`). `wanted`, `undrained`
and the flag `simulated` are history: a demand since the last reap, a crash whose
drain is due, a last exit that launchd made up.

Operators with a C name are that function, from record to record; `job_stop`,
`job_reap` and `job_start` are split into the parts that a reader compares one at
a time (`stop_timers`, `reaped_flags`, `forked_flags`, ...). Each handler is one
action and composes the calls it makes, in the code's order, to the end of the
handler: `ProcEvent` is the exit event with reap, dispatch and garbage collection.

Data left out: labels, paths, arguments, users, limits, spawn attributes, log
text. `ExitOutcomes` are the classes of wait status the code tells apart. The
signal `proc_terminate()` chooses (SIGKILL for a clean process, else SIGTERM, or
"none" when no signal can be sent) is an input, as are the outcomes of fork and of
attaching the kevent.

After `job_ack_port_destruction()` dispatched a job that this removed, it still
reads the freed service. The model takes the read to have no effect: the job and
its port are gone whatever it returns.

### JobManager

State. One variable `sys`, the program's: `job` (what others see of each job:
loaded or not, eight bits, the child, the start timer, whether launchd holds the
process dirty), `mgr` (each manager's bits and its `global_on_demand_cnt`), `list`
(which job was imported before which, and so the order of the managers' lists),
`monitor` (`_launchd_shutdown_monitor`) and `stale`, true once freed memory was
used: nothing is said of launchd after that. `Parent` and `Home` fix where
managers and jobs go; which of them exist changes.

C functions are operators from state to state. A loop over jobs is a function
over `Jobs` where the iterations do not see each other (`DispatchJobs`,
`collect_jobs`); where they do, through a pointer to the next job, that is
`NextFreed`. The recursion of `jobmgr_do_garbage_collection()` over the tree is
`Removable`: what goes is every quiet manager all of whose children go; `Up`, the
managers above one, is likewise the least set closed under `Parent`. A start
that is throttled, or whose fork fails, is the choice `late`; why, and what stops
a process, is in `JobLifecycle`.

`Table` changes no value; it makes TLC evaluate a function once.

### MachServices and NameService

State. `svc` is the set of `struct machservice`; `port`, `holder` and `armed` are
the kernel's: where a receive right is, whose process has it and which
notifications launchd asked for. `job` and `bits` are what a service sees of its
job. The C functions are operators on a record of the variables; each MIG
handler, kernel notification and process step is one action. Services are created
by import, check-in and registration, go with their job, their port or their
manager, and may be per-PID or aliases. Where the C code loops over services that
do not see each other (the plist of a job, the services of a job or a manager that
goes), the operator takes the set of them: the order cannot be told from the
result, and a loop that finds the ports used up (a bound of the model) has made
none. `_xpc_domain_import_services()` goes through the list it was given one by one
(`import_services`), errors half way included: `LoadServices` then removes the domain,
`AddServices` keeps what was imported. The end of a domain is `jobmgr_shutdown()`: it
is `closing` while jobs of it are active, and every exit and returned right collects.

A lookup goes up all managers above (`Above`) to the nearest that lists the name, and
takes the newest of it (`First`): an alias, which is listed without a look at others,
hides what was there. `ms->alias` is a plain pointer, so an alias is in `dangling` from
the moment the service it was made from is freed, and what a lookup that follows it
hands out is any port at all (`handed_out`).

`NameService` promises that a name is free before it changes hands. The mapping
takes the owner of a name in a namespace to be the job whose service a lookup
finds there; `NamesKept` is the abstract specification under that mapping. What
makes it non-trivial is that one handler deletes and creates several services.

### RunLoop

Active kevents (`fired`, a set: the order in which the kernel returns them is left
open) are taken from the kernel in batches of `BulkMax` and served one per step; a callback may remove, rearm, close and open anything (`Work` and the steps
of `NextKevent`). `gen` tells two armings of one timer apart, and a descriptor
number is reused as soon as it is closed, so that an event left from an earlier
use can be seen. The exit timer of a job in `Untimed` (`ExitTimeOut` 0) is left armed
when the job is removed. `runtime_busy_cnt` with its timer decides on the exit of an idle
launchd.

### Calendar and Cron

`Calendar` has the list, its timer, the jobs as far as their removal and their start
matter, and the callback, turn by turn as `LIST_FOREACH_SAFE` takes them. When an
interval fires next is its parameter `Later`; the instance gives it `later` of `Cron`.
The two are apart so that the list can be proved about without the arithmetic.

Time is in minutes. Minutes per hour, hours per day, days per week and the length
of the months are constants: the code gets them from `localtime()` and `mktime()`,
which are modelled as what they do, normalisation included and daylight saving
time not. `cronemu_mon()`, `cronemu_mday()` and `cronemu_hour()`, which differ in
their field only, are `cronemu_field`; what a failed call leaves in its `tm` is
overwritten by every caller and left out. The results are compared with
`Matches`, the crontab meaning of the keys, on every combination of keys.

### LaunchMsg

A message is a tree, packed depth first into cells; a socket takes `Space` cells
and a read returns `RecvMax`. Both directions, both sockets of a process (its own
and the one inherited from its job), the mutex, the threads, and on the other
side `ipc_callback()`, `ipc_readmsg2()` and replies that wait for the socket are
modelled. Descriptors are followed from the sender to their close. A cell is never
cut, nor is the header, which goes with the first. `verdict` is history: what the
server answered to the request of a thread.

### LoadJobs

A client's `load`, `unload`, `bootstrap`, `submit`, `start` and `remove` from
opening the database to saving it; in launchd the bulk import, the list of jobs
that wait for a session and the hand-over of the session, with `errno` as the
code leaves it, or a hand-over that fails. Clients may be killed at any step, and the
database may be on a read-only file system. The database is written in two steps:
`WriteMyPropertyListToFile()` cuts the file off and writes it anew, and who is killed in
between leaves a file without overrides. `wanted` is history: what the finished commands
said since then. A property list that `-w` changes itself (`launchctl.c:966`) is written
in one step. No job of the model waits for another, so a dispatch of a bulk import
removes no other job of it.

### StartupItems

The disk holds items with the services they provide, require and use; some
cannot be read, and some are edited or installed after the boot (`Change`; `late` are
those whose files, bundle or directory are younger than it). The program that init
started passes over late items, at boot as at shutdown (`BootList`), a command does not
(`CommandList`): `StartupItemSecurityCheck()` asks for the parent's pid. An edit leaves
the keys of the item as they were. The loop of `system_starter()` picks the next item, runs it and
collects scripts, at boot, for a command and at shutdown. The closure of an item
under "requires" is the least closed set (`appendDependents`) in any order that
starts with the item, which is all its users rely on; `Sublist` removes items
from a list and keeps the order of the rest; the next item is the first of the
best ones (`BestBelow`). `up` and `tried` are history.

### Transactions

The library's variables, the serial queue that owns them (`owner` is whoever is
on it between a change and its system call), the callback's queue and the
kernel's tracked and dirty bits. The kernel may kill a tracked clean process at
any time. Callers are balanced, and each transaction has a thread of its own.

### Assumptions on the constants

Only typing, and for `JobLifecycle` "a fork can succeed", "a process can be killed"
and "some signal is sent". `Stimuli` names the commands and outside events that may
occur, which lets a run leave out those its question does not need. `JobManager`
further assumes that the shutdown monitor is a job of the root manager, that
legacy servers declare no services and have labels (launchd picks them) that no
property list names, and that only jobs of the root manager look at
others (so that the order in which sibling sessions are told to shut down cannot
be seen). `Transactions` assumes finitely many transactions and distinct names for
its threads, `RunLoop` that launchd's own timer and descriptors are told apart from
objects, `MachServices` that requests are made by XPC domains for services of their
own or of a singleton domain and not under the labels launchd makes up, `LoadJobs`
that commands name property lists, and those about one job at least one, and that
no process has the name that stands for "nobody", `StartupItems` finite lists of
items whose dependants can be counted below `INT_MAX` (the code starts its search
for the least count there), and
`Cron` that `FirstDay` and `MonthDays` are one calendar. `Calendar` assumes that an
interval fires after the time it is set at: `cronemu()` starts one minute from now, and
TLC evaluates the assumption for `later` of `Cron` and all intervals of the run.

## Runs

`tlc -config <Module>_<x>.cfg MC<Module>`. Deadlock is not checked: a job that was
removed, or that nobody asks for anything, does nothing for ever, and launchd and
the programs around it end.

| Run | Configuration | States | Question |
|---|---|---|---|
| `safety` | `JobLifecycle_safety` | 2,493,521 | nine kinds of job, all stimuli, crashes, failed execs and dirty jetsam exits, failing forks and signals, processes that outlive SIGKILL: bookkeeping, wakeups, restarts, removal, drains; a new process finds its right with launchd unless an exit was simulated |
| `liveness` | `JobLifecycle_liveness` | 452,288 | stop, unload and shutdown end, whatever the child does with SIGTERM; a kept-alive job runs again, a message is served |
| `manager_modes` | `JobManager_modes` | 355,026 | on-demand mode, conditions on other jobs, removal and logout of four jobs in two managers: the count of holders, and nobody left dead |
| `manager_shutdown` | `JobManager_shutdown` | 85,371 | three managers with monitor, dirty job, normal job and a job of a subset: nothing left behind, who is stopped when, and that shutdown and logout end |
| `calendar_cron` | `Calendar_cron` | 216,795 | every combination of keys over some years, and intervals that coincide: the next time is the first, the list and its timer agree, all that is due is served |
| `names` | `MachServices_names` | 165,754 | two jobs that want a name, a legacy server, a subset of a subset, a visiting process, an XPC domain with an application and a singleton: names, aliases, rights and notifications, the refinement, and that dead services, unloaded jobs and closing domains go |
| `batch` | `RunLoop_batch` | 485,936 | what a callback removes or reuses under the rest of its batch; busy count and idle exit |
| `stream` | `LaunchMsg_stream` | 8,726 | messages cut by small buffers, two threads, a process that dies: framing, answers, descriptors, and that exchanges end |
| `boot` | `StartupItems_boot` | 727,837 | all contents of a disk of three items, changes to it, a command, shutdown: order, accounts, what is left, and that runs end |
| `load` | `LoadJobs_load` | 494,498 | two launchctls in one session, one may be killed, hand-overs may fail: what is loaded runs, the lists agree, no edit is ignored, or lost but by a write that was cut off, every command returns |
| `sessions` | `LoadJobs_sessions` | violated | jobs of two managers wait for sessions at the same time |
| `dirty` | `Transactions_dirty` | 4,176 | three overlapping transactions, late enabling, a clean callback, kills at any time |

A property of a run is in most cases a conjunction of named parts, each stated
above it in its module: `KernelAgrees` is `PidMatchesChild`, `RightsAccounted` and
the type invariant.

Bounds. `JobLifecycle`: one job, one service and one queued message: the code
treats services in a loop without looking across them, and tells only an empty
queue from another one; draining one and draining all differ on two messages in
what is lost, which no property here is about. There is no bound on the number of
steps, starts, crashes or commands: the state space is finite without one. `safety`
takes nine configurations instead of all sets of keys: each way to be demanded and
each way to be kept alive, with and without a service, and both a root and another
manager. Its `proc_terminate()` sends SIGTERM or fails; the one that kills a clean
process at once, and the clean jetsam exit, are in `liveness` (the theorems are about
all signals and exits).

`JobManager`: two or three managers in a chain and four jobs, so that each
relation the code looks at has both ends (parent and child, holder and held,
curious and watched, dirty and normal, monitor and rest). Nothing bounds the number
of imports, starts, removals, subsets or logouts. The two runs keep apart what
meets a defect of the table below.

`MachServices`: two names, two ports alive at a time, and in a behaviour two or three of
eight jobs (`Casts`), one set for each way jobs can meet over a name; `Asks` are the names
the process of a job asks for, both of them except for visitors and XPC services. A
domain that is closing is not asked for a label it still has. `RunLoop`: two
objects, one with `ExitTimeOut` 0, one descriptor and batches of two, the least with a
later event and a number to reuse. `Cron`: a year of two months of one to three days, a week of
three days, days of two hours of two minutes, so that every carry happens within
`MaxTime`; all 243 combinations of keys alone, and three sets of intervals that
coincide or are out of range. `LaunchMsg`: buffers of three cells, so that every
message is cut. `StartupItems`: three items, three services and one stub.
`LoadJobs`: two clients with one or two commands out of twelve scripts;
`MaxJobs` is more than the scripts can import. `Transactions`: three at once; the
proofs need no bound.

Fairness. The run loop serves every kevent and message it is told of, so launchd's
handlers are weakly fair in every module; the clock runs; a process that was sent
SIGKILL dies unless `MayWedge`; and fork does not fail for ever (strong fairness of
the timer that retries it). In `RunLoop` delivering the idle timer's kevent is
strongly fair: which of the active kevents the kernel returns first is open, but
it does not pass over the same one for ever. Nothing is assumed of a child that was not sent
SIGKILL, nor of clients and commands. In `JobManager` a start is not put off for
ever, and a process that was told to stop exits unless launchd holds it dirty,
which is what `StopCompletes` of `JobLifecycle` shows. `LaunchMsg` and `LoadJobs`
further assume that threads are scheduled and locks handed on, `StartupItems` that
scripts end, `Transactions` that a dispatch queue is first in first out, hence
strong fairness of those who wait for it. Where a step disables itself and
nothing else can, weak fairness is written `[]<>~guard`, which is the same and
cheaper to check.

## Disagreements

Run `sessions` is the finding of `PROJECT.json`:
`job_mig_set_security_session()` (`core.c:9510`) starts at the head of a list linked
by `needing_session_sle` and goes on along `sle`, the list of the manager. With
jobs of two managers waiting, the second client is told that its jobs are
loaded, and they never start. Run `load` has all waiting jobs in one manager and
is clear of it.

Seven more configurations are kept to be run by hand; TLC finds each violated.

| Configuration | Property | What the code does | What is said |
|---|---|---|---|
| `JobLifecycle_respawn` | `NeverWithoutRights` | `job_kill()` arms the exit timer outside shutdown too (`core.c:4006`); the simulated exit respawns the job without its right | `core.c:1008-1012`: "we will still not have gotten the receive rights associated with the job's MachServices back, so we cannot safely respawn it" |
| `JobLifecycle_attach` | `KeptAlive` | after a failed attach the job is reaped and watched, not dispatched (`core.c:4515`) | `core.c:4508-4511`: "we need to make sure that we watch the job so that we can respawn it" |
| `JobLifecycle_spurious` | `OnlyDemandStarts` | a throttle timer overtaken by a start is not cancelled (`core.c:4405`) and starts the next instance | `man/launchd.plist.5:177-178`: "only demand will start the job" |
| `MachServices_alias` | `AliasesLead` | an alias points to a service (`core.c:6393`) that its job may give up (`core.c:9007`) or whose port may die (`core.c:7095`); lookups follow the pointer (`core.c:9076`, `6407`, `9274`) | `core.c:10119-10124`: "once a job is imported into a singleton domain, it won't be removed until the system shuts down ... If it ever changes, we'll have a problem because we'll have to account for all existing aliases" |
| `StartupItems_late` | `AllStopped` | an item younger than the boot is started by a command and passed over at shutdown (`StartupItems.c:246`) | `SystemStarter.8:41-43`: "If no service is specified, all startup items will be acted on" |
| `JobManager_other_job` | `KeptAliveByDisabled` | jobs curious about a removed job are dispatched while it can still be found (`core.c:1431`) | `man/launchd.plist.5:206-207`: "this job is kept alive as long as the other job is disabled" |
| `JobManager_double_free` | `NoStalePointer` | removing the holder of on-demand mode dispatches, and removes, the same job again (`core.c:1437`) | `core.c:3964-3969` warns of "stale pointers left behind somewhere on the stack" |

The passing runs stay clear of further places where the code falls short of a
property. Other constants for a run reach them:

| Property | fails when | because |
|---|---|---|
| `RemovalWaitsForExit`, if waiting for a program were no excuse | `ExitOutcomes` has `enoent` and the job is removed | `core.c:3941` returns before it looks at `job_useless()` |
| `NoLostWakeup` | `ForkOutcomes` has `noattach`, with `ResetAtClose` | `core.c:4515` watches a job that is not marked ignored: nothing happens, and the reset port is in no set |
| `ExitTimerHasProcess` | `ExitTimeOut` is 0 | `core.c:3675` and `1542` delete the timer only if it is not 0; `job_kill()` arms it in any case |
| `EndingsComplete` | `Signals` has `none` | `core.c:998`: a job that could not be sent a signal counts as stopped, without a timer, and is not stopped again |
| `ShutdownCompletes` (JobLifecycle) | `MayWedge`, and a stop before the shutdown | `core.c:1012`: a clean process killed before has no exit timer, and it is not stopped twice |
| `FreedHasNoProcess` | `globalOnDemand` and `remove` together | `core.c:1437`: the end of on-demand mode starts the KeepAlive job being removed |
| `NoStalePointer` | a curious job is idle at the shutdown of the root | `core.c:6600`: it is freed while the loop points to it |
| `ShutdownCompletes` (JobManager) | the monitor is in `Later` | `core.c:6682`: it is "stopped" before it ran, and nothing collects again |
| `ShutdownCompletes` (JobManager) | a legacy server with no process is the last job | `core.c:7458` dispatches but does not collect |

Others are stated as an exception in the property, or excluded by the instance:

* Calendar. An interval with an hour and no minute, taken up in the last minute of
  that hour, gets the next hour; a day that a month does not have rolls over into
  the next; `Month` is ignored beside `Weekday`. `FiresOnTime` is therefore about
  `Plain` intervals. That something will call the callback while an interval waits
  (`man/launchd.plist.5:257`) is not among the properties, because it is false: the
  timer fires once, and a callback that finds nothing due does not arm it again.
* MachServices. `job_ack_port_destruction()` reads the service after it may have been
  freed; imports do not look whether an alias hides a name, so that `UniqueName` is about
  the other services; `NamesSound` and `DeathNoticed` except the aliases that dangle (the
  table above); `job_find()` passes over jobs being removed, so that a job loaded again during
  its own removal loses the names the old one still has; registering a dead port
  gives up the old service first; `job_mig_info()` (`core.c:9274`) assumes that
  services and names are counted alike, which aliases break.
* LaunchMsg. `launch_msg_internal()` chooses the connection before it locks
  (`liblaunch.c:1080`): the instance has no check-in beside another
  thread's requests. A send that finds no room for even the header loses it
  (`liblaunch.c:918`), and `launchd_close()` forgets descriptors it had received (`liblaunch.c:673`), which
  `lost` records.
* RunLoop. The exit timer of a job with `ExitTimeOut` 0, which `job_kill()` arms and
  `job_remove()` does not delete (`core.c:1542`), may fire after its job was freed: the
  stated exception of `NoStaleKevent`.
* StartupItems. Items that changed after the boot are outside what shutdown sees: what
  such an item requires may be stopped under it, and it is left up. `RequirementsUp` and
  `OrderlyStop` are about the items the program that acts can see (`Seen`). The first result of a service stays (`StartupItems.c:743`): when one
  provider fails and the next succeeds, what requires the service is not
  started. A soft dependency on an item that can never run blocks for ever
  (`LeftBehind` allows it). Only the first provider of a service is stopped by a
  command. Stubs count as failed when they are stopped.
* LoadJobs. A load that finds nothing (`launchctl.c:2773`) neither writes its edits
  nor unlocks the database: an interactive launchctl then waits for itself. The
  instance lets such a command only be the last of its process. `-w` edits files
  it then skips. A client that dies between the submission and the session leaves
  jobs that wait, until they are removed; so does a hand-over that fails, but its client
  is told. A client killed while it writes the database takes everybody's overrides with
  it: `EditsKept` says that this is the only way to lose one. `XPCDomainBootstrapper` set to false leaves the
  global pointer (`core.c:2567`).
* Transactions. `_vproc_transactions_enable_internal()` tracks the process before it
  marks it dirty (`libvproc.c:142`): inside this window a process with open
  transactions can be killed as clean, the stated exception of
  `DirtyWhileOpen` and `KilledClean`. `_vproc_transaction_try_exit()` (`libvproc.c:329`)
  looks at the count on no queue, and the setter of the clean callback
  (`libvproc.c:363`) stores the function before its context.

## Proofs

The proofs hold for every value of the constants that satisfies the module's
assumptions: for a job, every set of configurations, exit outcomes, fork outcomes and
stimuli and every queue bound; for the managers, every tree, every finite set of
jobs and all their keys and conditions; for the name service, every tree of
managers and domains, all jobs, names, plists and imports and any number of ports;
for the calendar, all jobs, plists and meanings of an interval; for the run loop, any number of objects
and descriptors and any batch; for launchctl, all property lists, any number of
processes and commands of any length; for SystemStarter, every contents of the disk; for
transactions, any finite set of them.

`JobLifecycleProofs`. `SoundInv` says `job` is a record of the right type and
*consistent*: launchd has a pid exactly while the kernel has a child, and as long
as the job exists `isActive` says where the right is. Neither is inductive without
the other and the type, because a handler reaps, frees or restarts the job on the
strength of the pid. Each C function has a lemma (`StopSound`, `ReapSound`,
`StartSound`, `DispatchSound`, ...) that it keeps the record sound; an action is
then the composition of the lemmas of the calls it makes. Theorems:

* `TypeCorrect`, `PidAgrees`, `RightsAgree`, and together `KernelAgreement`: `KernelAgrees`
  always holds. There is no further assumption: processes may outlive SIGKILL and
  attaching may fail.

`SettledInv` says that the record is sound and that what
`job_dispatch()` decides has been decided: an idle job with a reason to run has a
timer, a useless one is gone. A handler either ends in a dispatch
(`DispatchSettles`) or changes nothing the decision looks at (`Agree`, the
frame lemmas). Theorems:

* `RemovalSettled`: `RemovalWaitsForExit` always holds.
* `KeepAliveSettled`: `KeptAlive` always holds if attaching a kevent cannot fail. The
  assumption is needed: `JobLifecycle_attach.cfg` is the counterexample.

`HeardInv` adds that a job which is not ignored has its port in
the demand set or `recv_race_hack` recorded for the right's return, and that a
running job with a service is ignored. Theorem:

* `NoWakeupLost`: `NoLostWakeup` always holds if attaching a kevent cannot fail (the
  table above says what happens otherwise).

`ApartInv` says that the exit timer runs only for a process that
was told to stop, that a process starts with no crash and no simulated exit on
record, and that a drain is due only while the right is away and all that it is
conditional on is set. The second part is what makes the others inductive: a
simulated exit is of a stopped process, so it records no crash, and no drain is
owed when `job_active()` stops looking at the rights. `OwnedInv` says that
`job_active()` looks away from the rights only after a simulated exit, that a right
which is away is otherwise one it looks at, and that a process just forked found its
right with launchd or follows a simulated exit. Theorems:

* `LivesStayApart`: `LivesApart` always holds if every configuration has an exit
  timeout that is not 0, which is needed (same table). Attaching may fail.
* `RespawnSafe`: `RespawnOwnsRights` always holds, also when processes outlive their
  SIGKILL. Its exception, a simulated exit, is needed: `JobLifecycle_respawn.cfg` is the
  counterexample without it.

`JobManagerProofs`. `Sound` is a predicate of the whole state: the types; `Counted`
(the count of each manager is the number of holders in it, also of managers that
do not exist, or a new subset would begin with a wrong one); `Housed` (nothing is set
for a job that is not loaded, and a loaded one has a manager); `Monitored` (one
monitor at most, and its removal waits for its process, so no dispatch frees
it); `Limited` (nothing is set that nobody asks for, and hardly anything for a legacy
server); `Rooted` (managers exist and shut down with those above); and `Tidy`
(launchd has a pid for every process). The count cannot be shown right without
`Housed` and `Monitored`, because most jobs are freed in the middle of a loop that
subtracts what they held. `JobsChange` is the lemma at the centre: jobs without a
process are freed, the others keep their part (`Keeps`), the counts go down by
what was freed. Each C function has a lemma that it keeps the state sound, from
`dispatched` to `jobmgr_shutdown`, and a handler is their composition. Theorems:

* `ModesAlwaysCounted`: `ModesCounted` always holds.
* `TreeAlwaysStands`: `TreeShutsDown` always holds.
* `NothingEverLeftBehind`: `NothingLeftBehind` always holds if removal and global
  on-demand mode do not both occur (`Apart`), as in the run. The table above says
  what happens when they do: the removed job is started again before it is freed.
* `AlwaysKeptAlive`: `KeptAlive` always holds. The invariant is also `Steady`: a job
  that is due waits for a delayed start (`Kept`), and a job marked for removal or a
  legacy server is active (`Leaving`). `Leaving` is needed because a dispatch frees
  an inactive one, and if that could end on-demand mode outside a shutdown the loop
  would leave the jobs before it undispatched. In the middle of a handler the two
  hold but for some jobs (`Kept(s, X)`), which the calls that follow look after: those
  curious about a job that was imported, those of a manager whose mode ended.
  `CalmKept` is the lemma for all that gives no job a reason to run, a whole
  collection included. The proof needed `LabelAssumption`: launchd tells nobody of a
  legacy server, so a job waiting for one would not be started.
* `StopsInOrder`: `StopOrder`, an action property. A handler is many calls, so it is
  shown of each call and then of their composition: from the state before to the state
  after, `Settles` says that jobs only fade (none of a manager shutting down is started
  but the monitor, none becomes active again) and that a transaction which is closed on
  a live process leaves only inactive normal jobs in its manager, and `AllWait` that
  the monitor was not told to stop. Fading makes `Settles` transitive
  (`SettlesTwice`): what was quiet when the transaction was closed stays quiet for the
  rest of the handler. Only the last call of a collection does not keep `AllWait`;
  there `Ends` holds, because a collection leaves no inactive job in the managers it
  looks at (`Busy`), so a quiet root without children has no job but the monitor, and
  because every manager that exists is below the root (`Descended`, added to the
  invariant together with where a job's flags come from).

`MachServicesProofs`. `Good` is a predicate of the whole state: the types; `Homed` (a
service that is not an alias has a port and a job that is there); `Rightful` (where
the right of its port is and which notification launchd asked for); `OneReceiver`
(launchd made a port for one service alone, so deleting a service closes nobody
else's right and a returned right finds the service it left); `Wanted` (no right
without a service); `Unique`; `Aliased` (an alias has no port and stands for a job
that is there and stays); `Linked` (an alias dangles, or the service it was made from is
there); and `Domains` (aliases are in domains, as is what shuts down, and no job of a
singleton waits for its removal). `Aliased` is not inductive without the last: a
removal that is pending would take the original away. `Linked` is kept by all that
deletes no service (`Carried`), and a deletion moves the aliases of what it frees to
`dangling`. Likewise the refinement needs
more than unique names before and after a step, because one step takes names away
and adds others: `Passed` says that both states are part of one sound state,
the one between the two halves. Each C function has a lemma that it keeps the state good
(`DeleteGood`, `NewGood`, `ImportGood`, `AliasGood`, `ResetGood`, ...), each action one that
it leaves a good state in which no name has changed hands (`CheckInFine`,
`RegisterFine`, `PortDestroyedFine`, ...). The list of an import is of any
length: `EveryNumber` is induction on the natural numbers for sets, proved from
`WellFoundedInduction`, and `ServicesGood` applies it to the set of lengths for
which the loop keeps the state good. TLC found `Good` true of all states of run `names`
before it was proved.
Theorems:

* `NamesAlwaysSound`: `NamesSound` always holds: no two services but aliases share a
  name, and an alias leads to its job, and to its service unless that was freed.
* `RightsAlwaysKept`: `RightsKept` always holds.
* `DeathAlwaysNoticed`: `DeathNoticed` always holds, for lookups through all managers
  above and through every alias that does not dangle.
* `ImplementsNameService`: `NamesKept`, the specification of `NameService` under the
  mapping, is implied by the one of `MachServices`.

`RunLoopProofs`. `LoopInv` treats the kevents still to be served alike, whether
they are active in the kernel or wait in the batch (`Knotes`): each is for the owner
of an open descriptor or for the last arming of a timer (`Accurate`), and whatever
owns a descriptor or a timer is allocated, or is a job with `ExitTimeOut` 0 (`Good`). `Refs` says that the count is
the number of references and that the idle timer is not armed while there are
any. The batch alone is not inductive: what the kernel still has is what the
next batch will be. Theorems:

* `BatchAlwaysSound`: `BatchSound` always holds.
* `BusyAlwaysSound`: `BusySound` always holds.

`StartupItemsProofs`. `IInv` has the accounts of running scripts (`Accounts`, `Over`,
`OneProvider`) and, for the order, what each kind of run knows: while starting, a
service recorded as successful is provided by something that is up, and what
runs has its requirements recorded (`Started`); while stopping, whatever
requires an item that is still to be stopped is itself still to be stopped, and is
stopped first (`Stopping`). `Known` carries the order from one run to the next:
what is up was on the list of a command, which grows as the disk changes, while what the
boot-time program sees of it shrinks (`SameDisk`). Theorems:

* `AlwaysCounted`: `ScriptsCounted` always holds.
* `OrderKept`: `DependencyOrder` always holds, whatever changes on the disk after the
  boot, among the items that the boot-time program sees.
* `NothingReadyLeft`: `LeftBehind` always holds: a run that ends leaves only what is
  blocked.
* `StartedOnce`: `RunOnce`, an action property: no script is started twice in a run.

`TransactionsProofs`. `IInv` is the conjunction of `Types`, `Places` (who is on which
queue), `Ownership` (what is half done belongs to whoever is on the serial queue),
`Account` (the count is what is open and what is held back), `OwnerKnows`, `InStep`
(the kernel's bits follow the library's but for the step under way),
`NeverAborts` and `KilledClean`. The count changes before the system call that
reports it, so nothing is provable without saying whose step is outstanding.
Theorems:

* `CountKept`: `Accounted` always holds: the count is right and neither `abort()` is
  reached.
* `DirtyAlways`: `DirtyKept` always holds: a process with an open transaction is dirty
  and is not killed as clean, except inside the enabling itself.

`LoadJobsProofs`. `Good` is a predicate of launchd's state: the types; `Young` (a job
that is there was imported before and has a manager); `Needed` and `Managed` (the two
kinds of list hold the jobs they should, each once); `Labelled`; and `Monitored`. That
a job is on a list once is what makes unlinking it take it off. `Sound` is about one
launchctl: the step it is at is one of its command (`Staged`); while it has the
database, which it then has locked, what it has in memory is the database as it is
on disk with its own edits (`Current`); and the jobs it is about to submit are enabled
(`Obedient`). Nothing of this is inductive alone: that the copy in memory is current
needs the lock, that the jobs are enabled needs the copy. `IInv` is both, for all
processes, with the history of edits equal to the database unless somebody is in the
middle of writing it, which only the holder of the lock is (`NobodyWrites`); TLC found
it true of all states of run `load` first. `OtherSound` is why processes do not disturb each other:
one that is not at the lock depends on neither the lock nor the database. The
three loops (paths of a command, jobs of a submission, jobs that wait for a session)
are of any length and are taken by `EveryNumber` again (`PathsRead`, `BulkGood`, `SessionGood`). Theorems:

* `JobsAlwaysListed`: `JobsListed` always holds.
* `OverridesAlwaysObeyed`: `OverridesObeyed` holds: no edit of a completed command is
  lost but by a write that was cut off, and what is imported is enabled at that moment.

`CalendarProofs`. `Sound` is a predicate of the state of a handler: the list is sorted
and without duplicates (`Lined`), it holds the intervals of the loaded jobs (`Full`), the
armed timer is not later than any of them (`OnTime`), a job that is idle or throttled is
not one that a dispatch would remove (`JobsSound`), and no freed interval was used. The
part about jobs is what the walk needs: a dispatch inside it can then only start a job.
`Walk` is the invariant of the callback's loop: after k turns the last k places of the
list are not due, the walk stands at the head or nothing is due, and what was due at
the start still is or has its job served; so as many turns as the list is long leave
nothing due. A turn is `TurnOfDue`, which takes from `Turned` that an interval set for
later goes behind everything that is due. The three loops are taken by `EveryNumber`.
Theorems:

* `AlarmsAlwaysAgree`: `AlarmsAgree` always holds.
* `WalkAlwaysSafe`: `WalkIsSafe` always holds.
* `DueAlwaysServed`: `DueServed`, an action property: a callback sets everything that was due
  for later, and its job runs or will.

Only model-checked: all liveness, as fairness is outside the prover's reach;
`NextTimeRight` of `Cron` and `LaunchMsg`, whose recursive definitions would need induction over
data; and `StartedWhenLoaded` of `LoadJobs`, which holds while all jobs that wait are in one
manager (run `sessions` is the counterexample otherwise).

## Not modelled

`PROJECT.json` lists every component with its status. Within the job: anonymous
jobs, subjobs, legacy LaunchServices jobs, XPC services' own bootstrap, `spawn()`,
sockets, path and queue triggers, LaunchEvents other than the one a missing
program waits for, suspended per-user launchds, stalled exec, and the embedded
variant. Within the managers: named sessions and moving jobs between them,
counters, jobs of anonymous processes (whose exits collect too, so that a shutdown
that hangs for want of a collection does so until the next such exit).

Not at all: the event system, whose tokens go to a helper that is not in the
repository; launchproxy, one sequential loop of system calls; the rest of
launchctl (sockets of a plist, listing, limits, boot-time housekeeping) and of
`launchd.c` (console, single user mode), which is I/O; logging; the stubs of
libbootstrap and of MIG.

## Plan

1. `JobLifecycle` shown to implement the job that `JobManager` abstracts it to.
2. Anonymous jobs, named sessions and moved subsets in `JobManager`.
3. The event system: providers, tokens and the jobs that wait for them.
