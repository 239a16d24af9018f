---------------------------- MODULE MachServices ----------------------------
(***************************************************************************)
(* The bootstrap name service of launchd (core.c): which job offers which  *)
(* name in which job manager, who holds the receive right of its port, and *)
(* how launchd learns of the end of a port it does not hold.  XPC domains  *)
(* import jobs into shared singleton domains and keep aliases of them.     *)
(*                                                                         *)
(* A job is a pair <<manager, label>>.  Handlers are operators on a record *)
(* s of the variables.                                                     *)
(***************************************************************************)
EXTENDS Integers, FiniteSets, Sequences, Functions

CONSTANTS
  Root, Mgrs,        \* the job managers
  Parent,            \* manager -> manager; Root has itself
  Kind,              \* manager -> "session", "subset", "singleton", "domain"
  Jobs,              \* the jobs there may be
  Casts,             \* the sets of jobs that meet in a behaviour
  Offers,            \* job -> the names in its MachServices dictionary
  Visitors,          \* anonymous jobs: processes launchd did not start
  Legacy,            \* jobs made by bootstrap_create_server()
  Imports,           \* requests of XPC domains: <<domain, sequence of <<label, destination>>>>
  Names, ResetNames, \* service names, and those with ResetAtClose
  Asks,              \* bound: job -> the names its process asks for
  MaxPorts,          \* bound on the ports alive at a time
  Nobody

\* An XPC service offers its label
ASSUME MachServicesAssumption ==
  /\ Root \in Mgrs /\ Parent[Root] = Root /\ Nobody \notin Jobs
  /\ Visitors \subseteq Jobs /\ Legacy \subseteq Jobs /\ MaxPorts \in Nat
  /\ Casts \subseteq SUBSET Jobs /\ \A j \in Jobs : j[1] \in Mgrs /\ Offers[j] \subseteq Names
  /\ \A j \in Jobs : Asks[j] \subseteq Names

\* Requests come from the domains; a service goes to the domain itself or to a
\* singleton domain, and launchd makes up the labels of visitors and legacy
\* servers (AUTO_PICK_ANONYMOUS_LABEL, AUTO_PICK_LEGACY_LABEL)
ASSUME ImportsAssumption ==
  \A r \in Imports :
    /\ r[1] \in Mgrs /\ Kind[r[1]] = "domain" /\ r[2] \in Seq({j[2] : j \in Jobs} \X Mgrs)
    /\ \A i \in 1..Len(r[2]) : /\ r[2][i][2] = r[1] \/ Kind[r[2][i][2]] = "singleton"
                              /\ <<r[2][i][2], r[2][i][1]>> \notin Visitors \cup Legacy

VARIABLES
  svc,       \* the machservice structures
  port,      \* kernel: where the receive right of a port is
  holder,    \* kernel: the job whose process has it; Nobody if launchd forgot the job
  armed,     \* kernel: the notifications launchd asked for on a port
  job,       \* job -> "none", "idle", "running", "exited" (not reaped), "alias"
  bits,      \* job -> subset of Bits
  inited,    \* domains with session_initialized
  closing,   \* domains that are shutting_down
  dangling,  \* aliases whose pointer names a machservice that was freed
  cast       \* the jobs of this behaviour

vars == <<svc, port, holder, armed, job, bits, inited, closing, dangling, cast>>

Ports == 1..MaxPorts
NoPort == 0        \* MACH_PORT_NULL
Dead   == -1       \* MACH_PORT_DEAD

Bits == {"checkedin", "removal_pending", "senders"}   \* senders: priv_port_has_senders

State == [svc |-> svc, port |-> port, holder |-> holder, armed |-> armed, job |-> job,
          bits |-> bits, inited |-> inited, closing |-> closing, dangling |-> dangling]

Becomes(s) ==
  /\ svc' = s.svc /\ port' = s.port /\ holder' = s.holder /\ armed' = s.armed
  /\ job' = s.job /\ bits' = s.bits /\ inited' = s.inited /\ closing' = s.closing
  /\ dangling' = s.dangling /\ UNCHANGED cast

Service ==
  [job : Jobs, name : Names, per_pid : BOOLEAN, port : Ports \cup {NoPort},
   recv : BOOLEAN, isActive : BOOLEAN, alias : Jobs \cup {Nobody}]

Of(s, j)       == {m \in s.svc : m.job = j}
Using(s, p)    == {m \in s.svc : m.port = p}
Targets(s, a)  == {m \in s.svc : /\ m.alias = Nobody /\ m.job = a.alias
                                 /\ m.name = a.name /\ m.per_pid = a.per_pid}
Free(s)        == {p \in Ports : s.port[p] \in {"unused", "dead"} /\ Using(s, p) = {}}

-----------------------------------------------------------------------------
(* Names.                                                                  *)

IsXpc(m) == Kind[m] \in {"singleton", "domain"}

\* where2put, where2look: sessions share the flat namespace of the root
Space(m) == IF Kind[m] = "session" THEN Root ELSE m

\* ms_hash of a namespace; per-PID services are skipped by name lookups
Listed(s, m, n) ==
  {x \in s.svc : Space(x.job[1]) = Space(m) /\ x.name = n /\ ~x.per_pid}

\* The head of the list.  An alias is listed without a look for others of its
\* name, any other service only when there is none: aliases are the newer ones
First(s, m, n) ==
  LET aliases == {x \in Listed(s, m, n) : x.alias # Nobody}
  IN  IF aliases # {} THEN aliases ELSE Listed(s, m, n)

\* jobmgr_lookup_service() without the managers above: a set of at most one
\* service, unless two jobs were aliased under the name
jobmgr_lookup_service(s, j, n, per_pid) ==
  IF per_pid THEN {x \in Of(s, j) : x.name = n /\ x.per_pid}
  ELSE First(s, j[1], n)

\* A manager and the managers above it
Above == [m \in Mgrs |-> {a \in Mgrs :
            \A C \in SUBSET Mgrs : m \in C /\ (\A c \in C : Parent[c] \in C) => a \in C}]

\* ... and with them: the nearest manager that lists the name
lookup_above(s, m, n) ==
  LET lists == {a \in Above[m] : Listed(s, a, n) # {}}
  IN  UNION {First(s, a, n) : a \in {x \in lists : lists \subseteq Above[x]}}

\* job_mig_look_up2(): requests from XPC domains stay local
look_up_found(s, j, n) ==
  IF IsXpc(j[1]) THEN First(s, j[1], n) ELSE lookup_above(s, j[1], n)

\* The ports the service found may lead to.  ms->alias is a plain pointer: once
\* the service it names is freed it may read as anything
handed_out(s, m) ==
  IF m.alias = Nobody THEN {m.port}
  ELSE IF m \in s.dangling THEN Ports \cup {NoPort}
  ELSE {o.port : o \in Targets(s, m)}

job_mig_look_up2(s, j, n) == UNION {handed_out(s, m) : m \in look_up_found(s, j, n)}

-----------------------------------------------------------------------------
(* Services and the rights behind them.                                    *)

\* launchd_mport_deallocate(): the dead name request goes with the last send
\* right, a port-destroyed request stays with the port
deallocate(s, p) ==
  IF Using(s, p) = {} THEN [s EXCEPT !.armed[p] = @ \ {"dead_name"}] ELSE s

\* launchd_mport_close_recv()
close_recv(s, p) == [s EXCEPT !.port[p] = "dead", !.armed[p] = @ \ {"port_destroyed"}]

\* The aliases among the services left that name freed memory once those of
\* D are gone: nothing tells an alias of the end of its service
left_dangling(s, D) ==
  {m \in s.svc \ D : m \in s.dangling \/ (m.alias # Nobody /\ Targets(s, m) \cap D # {})}

\* (mutant) the receive right of an idle service is kept
machservice_delete_keeps(s, D) ==
  LET left == s.svc \ D
  IN  [s EXCEPT
         !.svc = left,
         !.dangling = left_dangling(s, D),
         !.armed = [p \in Ports |->
           IF (\E m \in D : m.port = p) /\ (\A m \in left : m.port # p) THEN s.armed[p] \ {"dead_name"}
           ELSE s.armed[p]]]

\* machservice_delete() of each service of D, in any order: the right of an
\* idle one is closed, and a send right is given up with the last service on it
machservice_delete(s, D) ==
  LET left     == s.svc \ D
      real     == {m \in D : m.alias = Nobody}
      closed   == {m.port : m \in {x \in real : x.recv /\ ~x.isActive}}
      released == {m.port : m \in real} \ {m.port : m \in left}
  IN  [s EXCEPT
         !.svc = left,
         !.dangling = left_dangling(s, D),
         !.port = [p \in Ports |-> IF p \in closed THEN "dead" ELSE s.port[p]],
         !.armed = [p \in Ports |-> {e \in s.armed[p] :
                      /\ e = "port_destroyed" => p \notin closed
                      /\ e = "dead_name" => p \notin released}]]

\* machservice_new() of each name of N with a port of its own: launchd holds
\* the receive right
machservice_new(s, j, N, per_pid) ==
  LET at == CHOOSE f \in Injection(N, Free(s)) : TRUE
  IN  [s EXCEPT
         !.svc = @ \cup {[job |-> j, name |-> n, per_pid |-> per_pid, port |-> at[n], recv |-> TRUE,
                          isActive |-> FALSE, alias |-> Nobody] : n \in N},
         !.port = [p \in Ports |-> IF \E n \in N : at[n] = p THEN "launchd" ELSE s.port[p]],
         !.armed = [p \in Ports |-> IF \E n \in N : at[n] = p THEN {} ELSE s.armed[p]]]

\* machservice_new() with a send right of a client
machservice_new_with(s, j, n, per_pid, p) ==
  [s EXCEPT !.svc = @ \cup {[job |-> j, name |-> n, per_pid |-> per_pid, port |-> p, recv |-> FALSE,
                             isActive |-> TRUE, alias |-> Nobody]}]

Replace(s, m, n) == [s EXCEPT !.svc = (@ \ {m}) \cup {n}]

\* (mutant) the sync value is 0: the death of a port that is dead already
\* goes unnoticed
machservice_request_notifications_async(s, m) ==
  LET which == IF m.recv THEN "port_destroyed" ELSE "dead_name"
  IN  [Replace(s, m, [m EXCEPT !.isActive = TRUE]) EXCEPT
         !.armed[m.port] = IF s.port[m.port] = "dead" THEN @ ELSE @ \cup {which},
         !.bits[m.job] = @ \cup (IF m.recv THEN {"checkedin"} ELSE {})]

\* The request is made with a sync value of 1: a port that is dead already
\* is reported at once
machservice_request_notifications(s, m) ==
  LET which == IF m.recv THEN "port_destroyed" ELSE "dead_name"
  IN  [Replace(s, m, [m EXCEPT !.isActive = TRUE]) EXCEPT
         !.armed[m.port] = @ \cup {which},
         !.bits[m.job] = @ \cup (IF m.recv THEN {"checkedin"} ELSE {})]

\* (mutant) a name is taken over
machservice_setup_blind(s, j, N) ==
  IF Injection(N, Free(s)) = {} THEN s ELSE machservice_new(s, j, N, FALSE)

\* machservice_setup(): the names of the plist; a name in use is skipped.  With
\* too few ports left (the bound) there are none
machservice_setup(s, j, N) ==
  LET fresh == {n \in N : Listed(s, j[1], n) = {}}
  IN  IF Injection(fresh, Free(s)) = {} THEN s ELSE machservice_new(s, j, fresh, FALSE)

machservice_resetport(s, m) ==
  LET closed == deallocate(close_recv(Replace(s, m, [m EXCEPT !.port = NoPort]), m.port), m.port)
      p      == CHOOSE p \in Free(closed) : TRUE
  IN  IF Free(closed) = {} THEN s     \* the bound on ports
      ELSE [Replace(closed, [m EXCEPT !.port = NoPort], [m EXCEPT !.port = p]) EXCEPT
              !.port[p] = "launchd", !.armed[p] = {}]

-----------------------------------------------------------------------------
(* Jobs.                                                                   *)

delete_all(s, j) == machservice_delete(s, Of(s, j))

\* job_remove(): a job with a process goes when it exits, an anonymous one
\* is reaped on the spot
job_remove(s, j) ==
  IF s.job[j] \in {"running", "exited"} /\ j \notin Visitors
  THEN [s EXCEPT !.bits[j] = @ \cup {"removal_pending"}]
  ELSE [delete_all(s, j) EXCEPT !.job[j] = "none", !.bits[j] = {}]

job_active(s, j) ==
  \/ s.job[j] \in {"running", "exited"} \/ "senders" \in s.bits[j]
  \/ \E m \in Of(s, j) : m.recv /\ m.isActive

\* (mutant) a pending removal is forgotten
job_useless_legacy(s, j) ==
  j \in Legacy /\ (Of(s, j) = {} \/ "checkedin" \notin s.bits[j])

job_useless(s, j) ==
  \/ "removal_pending" \in s.bits[j]
  \/ j \in Legacy /\ (Of(s, j) = {} \/ "checkedin" \notin s.bits[j])

\* job_dispatch(), as far as it can take services away; starting the job is
\* an action of its own
job_dispatch(s, j) ==
  IF s.job[j] # "none" /\ ~job_active(s, j) /\ job_useless(s, j) THEN job_remove(s, j) ELSE s

\* jobmgr_import2(): job_new() and the services of the plist
jobmgr_import2(s, j) ==
  machservice_setup([s EXCEPT !.job[j] = "idle", !.bits[j] = {"checkedin"}], j, Offers[j])

\* job_new_alias(): every service of the original gets an alias
job_new_alias(s, a, orig) ==
  [s EXCEPT
     !.job[a] = "alias",
     !.svc = @ \cup {[m EXCEPT !.job = a, !.alias = orig, !.port = NoPort, !.recv = FALSE,
                               !.isActive = FALSE] : m \in Of(s, orig)}]

\* (mutant) a job that was there before is removed when it cannot be aliased
import_service_removes(r, d, label, dest) ==
  LET s == r.s
      j == <<dest, label>>
      a == <<d, label>>
      imported == IF s.job[j] = "none" THEN jobmgr_import2(s, j) ELSE s
  IN  CASE dest = d /\ s.job[j] # "none" -> [r EXCEPT !.error = TRUE]
        [] dest = d /\ s.job[j] = "none" -> [r EXCEPT !.s = imported]
        [] dest # d /\ s.job[a] = "none" -> [r EXCEPT !.s = job_new_alias(imported, a, j)]
        [] OTHER -> [r EXCEPT !.s = job_remove(imported, j)]

\* _xpc_domain_import_service(): into the domain itself, or into a singleton
\* domain and aliased; r.error is errno
import_service(r, d, label, dest) ==
  LET s == r.s
      j == <<dest, label>>
      a == <<d, label>>
      created  == s.job[j] = "none"
      imported == IF created THEN jobmgr_import2(s, j) ELSE s
      refused  == ~created \/ d \in s.closing      \* EEXIST; EINVAL of job_new()
  IN  CASE dest = d /\ refused  -> [r EXCEPT !.error = TRUE]
        [] dest = d /\ ~refused -> [r EXCEPT !.s = imported]
        [] dest # d /\ s.job[a] = "none" -> [r EXCEPT !.s = job_new_alias(imported, a, j)]
        [] OTHER -> [r EXCEPT !.s = IF created THEN job_remove(imported, j) ELSE s]

-----------------------------------------------------------------------------
(* Requests and events.  One message or notification is served at a time.  *)

Init ==
  /\ svc = {}
  /\ port = [p \in Ports |-> "unused"]
  /\ holder = [p \in Ports |-> Nobody]
  /\ armed = [p \in Ports |-> {}]
  /\ job = [j \in Jobs |-> "none"]
  /\ bits = [j \in Jobs |-> {}]
  /\ inited = {} /\ closing = {} /\ dangling = {}
  /\ cast \in Casts

\* The kernel moves a receive right to a process
give(s, p, j) == [s EXCEPT !.port[p] = "process", !.holder[p] = j]

\* A process lets go of a receive right: it comes back to launchd or the
\* port dies
lost(s, P) ==
  [s EXCEPT
     !.port = [p \in Ports |->
       IF p \notin P THEN s.port[p]
       ELSE IF "port_destroyed" \in s.armed[p] THEN "returning" ELSE "dead"],
     !.holder = [p \in Ports |-> IF p \in P THEN Nobody ELSE s.holder[p]]]

HeldBy(j) == {p \in Ports : port[p] = "process" /\ holder[p] = j}

\* A plist is loaded, or bootstrap_create_server() makes a job whose port
\* has senders
Load(j) ==
  /\ ~IsXpc(j[1]) /\ j \notin Visitors /\ job[j] = "none"
  /\ Becomes(IF j \in Legacy
             THEN [State EXCEPT !.job[j] = "idle", !.bits[j] = {"checkedin", "senders"}]
             ELSE jobmgr_import2(State, j))

Unload(j) ==
  /\ ~IsXpc(j[1]) /\ j \notin Visitors
  /\ job[j] # "none" /\ "removal_pending" \notin bits[j]
  /\ Becomes(job_remove(State, j))

\* job_start(), or a process that launchd did not start makes a request
Spawn(j) ==
  /\ \/ j \in Visitors /\ job[j] = "none"
     \/ job[j] = "idle" /\ ~job_active(State, j)
  /\ Becomes([State EXCEPT !.job[j] = "running", !.bits[j] = @ \ {"checkedin"}])

\* Who can send requests on behalf of a job: its process, or any process
\* with a right to the port of a legacy job
Speaks(k, j) ==
  /\ job[k] = "running"
  /\ k = j \/ (j \in Legacy /\ "senders" \in bits[j] /\ k \in Visitors)

\* job_mig_check_in2(), the new service of an unknown name
check_in_new(s, j, n, per_pid) ==
  LET t  == machservice_new(s, j, {n}, per_pid)
      m  == CHOOSE x \in t.svc : x \notin s.svc
  IN  IF j \in Legacy THEN t
      ELSE Replace(t, m, [m EXCEPT !.isActive = TRUE, !.recv = FALSE])

check_in_permitted(j, n, strict, per_pid) ==
  LET ms == jobmgr_lookup_service(State, j, n, per_pid)
  IN  IF ms = {} THEN ~strict /\ Free(State) # {}
      ELSE \A m \in ms : m.job = j /\ ~m.isActive

CheckIn(k, j, n, strict, per_pid) ==
  /\ Speaks(k, j)
  /\ check_in_permitted(j, n, strict, per_pid)
  /\ LET known == jobmgr_lookup_service(State, j, n, per_pid) # {}
         s == IF known THEN State ELSE check_in_new(State, j, n, per_pid)
         m == CHOOSE x \in jobmgr_lookup_service(s, j, n, per_pid) : TRUE
         t == machservice_request_notifications([s EXCEPT !.bits[j] = @ \cup {"checkedin"}], m)
     IN  Becomes(give(t, m.port, k))

\* The service, if any, is the job's own and idle; an owned right is not replaced
register_permitted(j, n, p, per_pid) ==
  \A m \in jobmgr_lookup_service(State, j, n, per_pid) :
    m.job = j /\ ~m.isActive /\ ~(m.recv /\ p # NoPort)

\* No port, or machservice_new() refuses the port
no_service(p) == p \in {NoPort, Dead}

\* job_mig_register2(): p is NoPort, Dead, a port the process has, or a new
\* one; died: it dies after the message is received
Register(j, n, p, per_pid, died) ==
  /\ job[j] = "running"
  /\ p \in {NoPort, Dead} \cup HeldBy(j) \cup Free(State)
  /\ died => p \in Free(State)
  /\ register_permitted(j, n, p, per_pid)
  /\ LET old == jobmgr_lookup_service(State, j, n, per_pid)
         s == machservice_delete(
                IF old = {} THEN State ELSE [State EXCEPT !.bits[j] = @ \cup {"checkedin"}], old)
         t == IF died THEN [s EXCEPT !.port[p] = "dead", !.armed[p] = {}]
              ELSE IF p \in Free(State) THEN [give(s, p, j) EXCEPT !.armed[p] = {}] ELSE s
         u == machservice_new_with(t, j, n, per_pid, p)
         m == CHOOSE x \in u.svc : x \notin t.svc
     IN  IF no_service(p) THEN old # {} /\ Becomes(s)
         ELSE Becomes(machservice_request_notifications(u, m))

\* A process destroys a receive right
Close(p) ==
  /\ port[p] = "process"
  /\ Becomes(lost(State, {p}))

\* A process dies; the ports of the dead come back or are dead at once, the
\* news of both comes later
Die(j) ==
  /\ job[j] = "running"
  /\ Becomes(lost([State EXCEPT !.job[j] = "exited"], HeldBy(j)))

\* The jobs of J go with their services; launchd forgets their processes
jobs_gone(s, J) ==
  [machservice_delete(s, {m \in s.svc : m.job \in J}) EXCEPT
     !.job = [j \in Jobs |-> IF j \in J THEN "none" ELSE s.job[j]],
     !.bits = [j \in Jobs |-> IF j \in J THEN {} ELSE s.bits[j]],
     !.holder = [p \in Ports |-> IF s.holder[p] \in J THEN Nobody ELSE s.holder[p]]]

\* jobmgr_remove() of the domains of D, whatever their jobs are doing
jobmgr_remove(s, D) ==
  [jobs_gone(s, {j \in Jobs : j[1] \in D}) EXCEPT !.inited = @ \ D, !.closing = @ \ D]

\* jobmgr_do_garbage_collection(): of the domains that are shutting down the
\* jobs that are not active go (the others were sent a signal), and a domain
\* without active jobs goes with its anonymous ones
jobmgr_do_garbage_collection(s) ==
  LET managed == {j \in Jobs : j[1] \in s.closing /\ j \notin Visitors /\ s.job[j] # "none"}
      active  == {j \in managed : job_active(s, j)}
  IN  jobmgr_remove(jobs_gone(s, managed \ active),
                    {d \in s.closing : \A j \in active : j[1] # d})

\* job_callback_proc() and job_reap(), then the collection
Reap(j) ==
  /\ job[j] = "exited"
  /\ LET s == [State EXCEPT !.job[j] = "idle"]
     IN  Becomes(jobmgr_do_garbage_collection(
                   IF j \in Visitors THEN job_remove(s, j) ELSE job_dispatch(s, j)))

\* job_ack_no_senders(): the port of a legacy job has no senders left
NoSenders(j) ==
  /\ "senders" \in bits[j]
  /\ Becomes(job_dispatch([State EXCEPT !.bits[j] = @ \ {"senders"}], j))

\* do_mach_notify_port_destroyed() and job_ack_port_destruction()
PortDestroyed(p) ==
  /\ port[p] = "returning"
  /\ LET s   == [State EXCEPT !.port[p] = "launchd", !.armed[p] = @ \ {"port_destroyed"}]
         ms  == {m \in Using(s, p) : m.recv}
         m   == CHOOSE x \in ms : TRUE
         off == [m EXCEPT !.isActive = FALSE]
         t   == Replace(s, m, off)
         u   == IF m.name \in ResetNames THEN machservice_resetport(t, off) ELSE t
     IN  Becomes(IF ms = {} THEN close_recv(s, p)
                 ELSE jobmgr_do_garbage_collection(job_dispatch(u, m.job)))

\* do_mach_notify_dead_name() and jobmgr_delete_anything_with_port()
DeadName(p) ==
  /\ port[p] = "dead" /\ "dead_name" \in armed[p]
  /\ LET gone == {m \in svc : m.port = p /\ ~m.recv}
         s    == machservice_delete(State, gone)
     IN  Becomes([s EXCEPT !.armed[p] = @ \ {"dead_name"}])

\* _xpc_domain_import_services(): an error is fatal only to a domain that is
\* being made
import_services(s, d, services) ==
  LET r[i \in 0..Len(services)] ==
        IF i = 0 THEN [s |-> s, error |-> FALSE]
        ELSE IF r[i - 1].error /\ d \notin s.inited THEN r[i - 1]
             ELSE import_service(r[i - 1], d, services[i][1], services[i][2])
  IN  r[Len(services)]

\* The jobs of a request are of this behaviour.  Bound: job_find() does not see
\* the jobs of a domain that is shutting down, and an alias would be a second
\* job of their label: it is asked for labels it does not have any more
Requested(d, services) ==
  \A i \in 1..Len(services) :
    /\ {<<d, services[i][1]>>, <<services[i][2], services[i][1]>>} \subseteq cast
    /\ d \in closing => job[<<d, services[i][1]>>] = "none"

\* xpc_domain_load_services(): once, and the domain goes if it fails
LoadServices(d, services) ==
  /\ Requested(d, services) /\ d \notin inited
  /\ LET r == import_services(State, d, services)
     IN  Becomes(IF r.error THEN jobmgr_remove(r.s, {d}) ELSE [r.s EXCEPT !.inited = @ \cup {d}])

\* xpc_domain_add_services(): at any time, and what was imported stays
AddServices(d, services) ==
  /\ Requested(d, services)
  /\ Becomes(import_services(State, d, services).s)

\* The process a domain was made for dies, and its request port with it:
\* jobmgr_shutdown(), which ends in a collection
DomainGone(d) ==
  /\ Kind[d] = "domain" /\ d \notin closing
  /\ Becomes(jobmgr_do_garbage_collection([State EXCEPT !.closing = @ \cup {d}]))

\* Per-PID services are used by visitors
PerPid(j) == IF j \in Visitors THEN BOOLEAN ELSE {FALSE}

Next ==
  \/ \E j \in cast : Load(j) \/ Unload(j) \/ Spawn(j) \/ Die(j) \/ Reap(j) \/ NoSenders(j)
  \/ \E k, j \in cast, strict \in BOOLEAN : \E n \in Asks[k], per_pid \in PerPid(j) :
       CheckIn(k, j, n, strict, per_pid)
  \/ \E j \in cast, p \in Ports \cup {NoPort, Dead}, died \in BOOLEAN :
       \E n \in Asks[j], per_pid \in PerPid(j) : Register(j, n, p, per_pid, died)
  \/ \E p \in Ports : Close(p) \/ PortDestroyed(p) \/ DeadName(p)
  \/ \E r \in Imports : LoadServices(r[1], r[2]) \/ AddServices(r[1], r[2])
  \/ \E d \in Mgrs : DomainGone(d)

Spec == Init /\ [][Next]_vars

\* The kernel delivers every notification and launchd serves every message.
\* This is WF_vars(Reap(j)), WF_vars(PortDestroyed(p)) and WF_vars(DeadName(p))
\* with ENABLED written out: each is enabled exactly in these states and
\* leaves them
FairSpec ==
  /\ Spec
  /\ \A j \in Jobs : []<>(job[j] # "exited")
  /\ \A p \in Ports : []<>(port[p] # "returning")
  /\ \A p \in Ports : []<>~(port[p] = "dead" /\ "dead_name" \in armed[p])

-----------------------------------------------------------------------------
(* Properties.                                                             *)

\* The values the variables take.
TypeOK ==
  /\ svc \subseteq Service
  /\ port \in [Ports -> {"unused", "launchd", "process", "returning", "dead"}]
  /\ holder \in [Ports -> Jobs \cup {Nobody}]
  /\ armed \in [Ports -> SUBSET {"port_destroyed", "dead_name"}]
  /\ job \in [Jobs -> {"none", "idle", "running", "exited", "alias"}]
  /\ bits \in [Jobs -> SUBSET Bits]
  /\ inited \subseteq Mgrs /\ closing \subseteq Mgrs /\ dangling \subseteq svc /\ cast \in Casts

\* Two services of the same name are never made in one namespace, whatever
\* jobs are loaded, imported or register them (the lookups in
\* machservice_setup(), job_mig_check_in2() and job_mig_register2()).  Aliases
\* are left out: machservice_new_alias() looks for no other service of the
\* name, and hides one that is there.
UniqueName ==
  \A m, n \in svc :
    m.alias = Nobody /\ n.alias = Nobody /\ ~m.per_pid /\ ~n.per_pid /\ m.name = n.name
      /\ Space(m.job[1]) = Space(n.job[1]) => m = n

\* isActive tells where the receive right of launchd's own port is, and
\* launchd has asked to get it back whenever it is away; every such service
\* belongs to a job that is still there (machservice_request_notifications(),
\* job_ack_port_destruction(), job_remove()).
RightsAgree ==
  \A m \in svc : m.alias = Nobody =>
    /\ job[m.job] \notin {"none", "alias"}
    /\ m.recv /\ ~m.isActive => port[m.port] = "launchd"
    /\ m.recv /\ m.isActive => port[m.port] \in {"process", "returning"}
                             /\ "port_destroyed" \in armed[m.port]

\* What a lookup hands out is a port somebody can receive on, or one whose
\* death launchd is about to be told: also for ports that die while they are
\* being registered (launchd_mport_notify_req()), and through an alias, from
\* another domain, as long as the service it was made from is there.
DeathNoticed ==
  \A j \in Jobs, n \in Names :
    job[j] = "running" => \A m \in look_up_found(State, j, n) \ dangling :
      \A p \in handed_out(State, m) :
        \/ port[p] \in {"launchd", "process", "returning"}
        \/ port[p] = "dead" /\ "dead_name" \in armed[p]

\* What _xpc_domain_import_service() takes for granted of the aliases it makes:
\* the lookup of a process never goes through one whose service was freed.
AliasesLead ==
  \A j \in Jobs, n \in Names :
    job[j] = "running" => look_up_found(State, j, n) \cap dangling = {}

\* launchd holds no receive right that no service uses: messages to it would
\* never be read and their senders never told (machservice_delete(),
\* machservice_resetport(), do_mach_notify_port_destroyed()).
NoLeak ==
  \A p \in Ports : port[p] = "launchd" => \E m \in Using(State, p) : m.recv /\ ~m.isActive

\* Every receive right is where launchd believes it to be, and wanted there.
RightsKept == TypeOK /\ RightsAgree /\ NoLeak

\* An alias in a domain stands for a job that still exists, which is all that
\* the comment in _xpc_domain_import_service() asks for, and for a service of
\* that job unless the service was freed since.
AliasAlive ==
  \A m \in svc : m.alias # Nobody =>
    /\ job[m.alias] \notin {"none", "alias"}
    /\ m \in dangling \/ Targets(State, m) # {}

\* A name leads to one job: the services of a namespace have names of their
\* own, and an alias was made from a job and a service that are there still,
\* or from a service that the job itself has given up.
NamesSound == UniqueName /\ AliasAlive

Offered(sp, n) == {m \in svc : m.alias = Nobody /\ ~m.per_pid /\ m.name = n /\ Space(m.job[1]) = sp}

\* The job that a set of services of one name belongs to
OwnerOf(S) == IF S = {} THEN Nobody ELSE (CHOOSE m \in S : TRUE).job

Service_of == INSTANCE NameService WITH
  Spaces <- {Space(m) : m \in Mgrs},
  owner  <- [e \in {Space(m) : m \in Mgrs} \X Names |-> OwnerOf(Offered(e[1], e[2]))]

\* The services implement the abstract name service: a name goes from one
\* job to another only after it was free (job_mig_register2(), the exchange
\* of a service, imports that fail half way).
NamesKept == Service_of!Spec

\* The service of a port that died is deleted in the end
\* (jobmgr_delete_anything_with_port()).
DeadGone ==
  \A p \in Ports :
    (\E m \in svc : m.port = p /\ ~m.recv /\ port[p] = "dead")
      ~> ~(\E m \in svc : m.port = p /\ ~m.recv /\ port[p] = "dead")

\* A job that was unloaded is gone once its process has exited and the
\* receive rights are back, whichever comes first (job_callback_proc(),
\* job_ack_port_destruction()).
RemovalCompletes ==
  \A j \in Jobs : ("removal_pending" \in bits[j] /\ job[j] = "exited") ~> (job[j] = "none")

\* A domain that is shutting down goes once the processes of its jobs are dead,
\* whichever of their exits and receive rights is served last
\* (jobmgr_do_garbage_collection()).
ClosingCompletes ==
  \A d \in {m \in Mgrs : Kind[m] = "domain"} :
    (d \in closing /\ \A j \in Jobs \ Visitors : j[1] = d => job[j] # "running")
      ~> (d \notin closing)

\* What died, what was unloaded and what is shutting down goes away.
GoneInTheEnd == DeadGone /\ RemovalCompletes /\ ClosingCompletes
=============================================================================
