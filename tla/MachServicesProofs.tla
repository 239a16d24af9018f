------------------------- MODULE MachServicesProofs -------------------------
(***************************************************************************)
(* For every tree of managers, set of jobs, names and imports, and every   *)
(* order of requests and notifications: the services of a namespace have   *)
(* names of their own and aliases stand for jobs that are there, launchd   *)
(* knows where every receive right is, it is told of the death of every    *)
(* port it hands out, and the services implement the abstract name service.*)
(***************************************************************************)
EXTENDS MachServices, WellFoundedInduction, TLAPS

PortStates == {"unused", "launchd", "process", "returning", "dead"}
JobStates  == {"none", "idle", "running", "exited", "alias"}
Notes      == {"port_destroyed", "dead_name"}

St == [svc : SUBSET Service, port : [Ports -> PortStates], holder : [Ports -> Jobs \cup {Nobody}],
       armed : [Ports -> SUBSET Notes], job : [Jobs -> JobStates], bits : [Jobs -> SUBSET Bits],
       inited : SUBSET Mgrs, closing : SUBSET Mgrs, dangling : SUBSET Service]

\* The jobs that aliases are made of: nothing removes them
Lasting == {j \in Jobs : Kind[j[1]] = "singleton" /\ j \notin Visitors \cup Legacy}

Gone == {"none", "alias"}

\* A service has a port and a job
Homed(s) ==
  \A m \in s.svc : m.alias = Nobody => m.port \in Ports /\ s.job[m.job] \notin Gone

\* Where the right behind a service is, and what launchd will be told of it
Rightful(s) ==
  \A m \in s.svc : m.alias = Nobody =>
    /\ m.recv /\ ~m.isActive => s.port[m.port] = "launchd"
    /\ m.recv /\ m.isActive => s.port[m.port] \in {"process", "returning"}
                             /\ "port_destroyed" \in s.armed[m.port]
    /\ ~m.recv => m.isActive /\ s.port[m.port] # "unused" /\ "dead_name" \in s.armed[m.port]

\* launchd made the port of a service for that service alone
OneReceiver(s) == \A m, n \in s.svc : m.recv /\ n.recv /\ m.port = n.port => m = n

Wanted(s) == \A p \in Ports : s.port[p] = "launchd" => \E m \in s.svc : m.port = p /\ m.recv /\ ~m.isActive

Unique(s) ==
  \A m, n \in s.svc :
    m.alias = Nobody /\ n.alias = Nobody /\ ~m.per_pid /\ ~n.per_pid /\ m.name = n.name
      /\ Space(m.job[1]) = Space(n.job[1]) => m = n

\* An alias has no port, and stands for a job that stays
Aliased(s) ==
  \A m \in s.svc : m.alias # Nobody =>
    /\ m.port = NoPort /\ ~m.recv /\ s.job[m.job] = "alias"
    /\ m.alias \in Lasting /\ s.job[m.alias] \notin Gone

\* The service that an alias was made from
Behind(o, a) == o.alias = Nobody /\ o.job = a.alias /\ o.name = a.name /\ o.per_pid = a.per_pid

\* The pointer of an alias leads to a service, or launchd freed that
Linked(s) ==
  /\ \A m \in s.dangling : m \in s.svc /\ m.alias # Nobody
  /\ \A m \in s.svc : m.alias # Nobody => m \in s.dangling \/ \E o \in s.svc : Behind(o, m)

Domains(s) ==
  /\ \A j \in Jobs : s.job[j] = "alias" => Kind[j[1]] = "domain"
  /\ \A d \in s.inited \cup s.closing : Kind[d] = "domain"
  /\ \A j \in Lasting : "removal_pending" \notin s.bits[j]
  /\ \A j \in Jobs : s.job[j] \in Gone => "senders" \notin s.bits[j]

Good(s) ==
  /\ s \in St /\ Homed(s) /\ Rightful(s) /\ OneReceiver(s) /\ Wanted(s) /\ Unique(s)
  /\ Aliased(s) /\ Linked(s) /\ Domains(s)

-----------------------------------------------------------------------------
(* What the operators of the model do to a sound state.                    *)

\* The aliases are the same, and the services behind them still there
Carried(s, t) ==
  /\ t.dangling = s.dangling
  /\ \A m \in s.svc : m.alias # Nobody => m \in t.svc
  /\ \A m \in t.svc : m.alias # Nobody => m \in s.svc
  /\ \A o \in s.svc : o.alias = Nobody => \E x \in t.svc :
       x.alias = Nobody /\ x.job = o.job /\ x.name = o.name /\ x.per_pid = o.per_pid

LEMMA LinkedStays ==
  ASSUME NEW s, Good(s), NEW t, Carried(s, t)
  PROVE  Linked(t)
  <1>1. \A m \in t.dangling : m \in t.svc /\ m.alias # Nobody
    BY DEF Good, Linked, Carried
  <1>2. ASSUME NEW m \in t.svc, m.alias # Nobody, m \notin t.dangling
        PROVE  \E x \in t.svc : Behind(x, m)
    <2>1. PICK o \in s.svc : Behind(o, m)
      BY <1>2 DEF Good, Linked, Carried
    <2>2. PICK x \in t.svc : x.alias = Nobody /\ x.job = o.job /\ x.name = o.name /\ x.per_pid = o.per_pid
      BY <2>1 DEF Carried, Behind
    <2> QED
      BY <2>1, <2>2 DEF Behind
  <1> QED
    BY <1>1, <1>2 DEF Linked

\* The services stay as they are; jobs come and go that have none.
LEMMA SameServices ==
  ASSUME NEW s, Good(s), NEW t \in St,
         t.svc = s.svc, t.port = s.port, t.armed = s.armed, t.dangling = s.dangling,
         \A m \in s.svc : m.alias = Nobody => t.job[m.job] \notin Gone,
         \A m \in s.svc : m.alias # Nobody => t.job[m.job] = "alias" /\ t.job[m.alias] \notin Gone,
         Domains(t)
  PROVE  Good(t)
  <1>1. Homed(t) /\ Aliased(t)
    BY DEF Good, Homed, Aliased
  <1>2. Rightful(t) /\ OneReceiver(t) /\ Wanted(t) /\ Unique(t) /\ Linked(t)
    BY DEF Good, Rightful, OneReceiver, Wanted, Unique, Linked
  <1> QED
    BY <1>1, <1>2 DEF Good

\* Deleting services closes the rights of those that are idle and no other,
\* and keeps the notifications the others wait for.
LEMMA DeleteGood ==
  ASSUME NEW s, Good(s), NEW D, D \subseteq s.svc
  PROVE  LET t == machservice_delete(s, D)
         IN  /\ Good(t) /\ t.svc = s.svc \ D /\ t.job = s.job /\ t.bits = s.bits
             /\ t.inited = s.inited /\ t.closing = s.closing /\ t.holder = s.holder
             /\ D = {} => t = s
  <1> DEFINE left     == s.svc \ D
             real     == {m \in D : m.alias = Nobody}
             closed   == {m.port : m \in {x \in real : x.recv /\ ~x.isActive}}
             released == {m.port : m \in real} \ {m.port : m \in left}
             po == [p \in Ports |-> IF p \in closed THEN "dead" ELSE s.port[p]]
             ar == [p \in Ports |-> {e \in s.armed[p] : /\ e = "port_destroyed" => p \notin closed
                                                        /\ e = "dead_name" => p \notin released}]
             da == left_dangling(s, D)
             t == machservice_delete(s, D)
  <1>1. s \in St
    BY DEF Good
  <1>2. t = [s EXCEPT !.svc = left, !.dangling = da, !.port = po, !.armed = ar]
    BY DEF machservice_delete
  <1>3. /\ t.svc = left /\ t.port = po /\ t.armed = ar /\ t.job = s.job /\ t.bits = s.bits
        /\ t.inited = s.inited /\ t.closing = s.closing /\ t.holder = s.holder /\ t.dangling = da
    BY <1>1, <1>2 DEF St
  <1>4. ASSUME D = {} PROVE t = s
    <2>1. left = s.svc /\ closed = {} /\ released = {}
      BY <1>4
    <2>2. po = s.port /\ ar = s.armed
      BY <1>1, <2>1 DEF St
    <2>4. da = s.dangling
      BY <1>4 DEF left_dangling, Good, Linked
    <2> HIDE DEF left, po, ar, da, t
    <2>3. t = [s EXCEPT !.svc = s.svc, !.dangling = s.dangling, !.port = s.port, !.armed = s.armed]
      BY <1>2, <2>1, <2>2, <2>4
    <2> QED
      BY <1>1, <2>3 DEF St
  <1>5. po \in [Ports -> PortStates] /\ ar \in [Ports -> SUBSET Notes]
    BY <1>1 DEF St, PortStates, Notes
  <1>6. t \in St
    <2>1. left \in SUBSET Service /\ da \in SUBSET Service
      BY <1>1 DEF St, left_dangling
    <2> QED
      BY <1>1, <1>2, <1>5, <2>1 DEF St
  <1>7. \A m \in left : m \in s.svc /\ m \notin D
    OBVIOUS
  <1>8. \A m \in left : m.alias = Nobody /\ m.recv => m.port \notin closed
    BY <1>7 DEF Good, OneReceiver
  <1>9. \A m \in left : m.port \notin released
    OBVIOUS
  <1> HIDE DEF closed, released, t
  <1>10. Rightful(t)
    <2> SUFFICES ASSUME NEW m \in left, m.alias = Nobody
                 PROVE  /\ m.recv /\ ~m.isActive => po[m.port] = "launchd"
                        /\ m.recv /\ m.isActive => po[m.port] \in {"process", "returning"}
                                                 /\ "port_destroyed" \in ar[m.port]
                        /\ ~m.recv => m.isActive /\ po[m.port] # "unused" /\ "dead_name" \in ar[m.port]
      BY <1>3, Zenon DEF Rightful
    <2>1. m \in s.svc /\ m.port \in Ports
      BY <1>7 DEF Good, Homed
    <2>2. m.port \notin released /\ (m.recv => m.port \notin closed)
      BY <1>8, <1>9
    <2>3. /\ m.recv /\ ~m.isActive => s.port[m.port] = "launchd"
          /\ m.recv /\ m.isActive => s.port[m.port] \in {"process", "returning"}
                                   /\ "port_destroyed" \in s.armed[m.port]
          /\ ~m.recv => m.isActive /\ s.port[m.port] # "unused" /\ "dead_name" \in s.armed[m.port]
      BY <2>1 DEF Good, Rightful
    <2> QED
      BY <2>1, <2>2, <2>3
  <1>11. Wanted(t)
    <2> SUFFICES ASSUME NEW p \in Ports, po[p] = "launchd"
                 PROVE  \E m \in left : m.port = p /\ m.recv /\ ~m.isActive
      BY <1>3 DEF Wanted
    <2>1. p \notin closed /\ s.port[p] = "launchd"
      OBVIOUS
    <2>2. PICK m \in s.svc : m.port = p /\ m.recv /\ ~m.isActive
      BY <2>1 DEF Good, Wanted
    <2>3. m.alias = Nobody
      BY <2>2 DEF Good, Aliased
    <2>4. m \notin D
      BY <2>1, <2>2, <2>3 DEF closed
    <2> QED
      BY <2>2, <2>4
  <1>12. Homed(t) /\ OneReceiver(t) /\ Unique(t) /\ Aliased(t) /\ Domains(t)
    BY <1>3, <1>7 DEF Good, Homed, OneReceiver, Unique, Aliased, Domains
  <1>13. Linked(t)
    <2>1. \A m \in da : m \in left /\ m.alias # Nobody
      BY DEF left_dangling, Good, Linked
    <2>2. ASSUME NEW m \in left, m.alias # Nobody, m \notin da
          PROVE  \E o \in left : Behind(o, m)
      <3>1. m \notin s.dangling /\ Targets(s, m) \cap D = {}
        BY <2>2 DEF left_dangling
      <3>2. PICK o \in s.svc : Behind(o, m)
        BY <1>7, <2>2, <3>1 DEF Good, Linked
      <3>3. o \in Targets(s, m)
        BY <3>2 DEF Behind, Targets
      <3> QED
        BY <3>1, <3>2, <3>3
    <2> QED
      BY <1>3, <2>1, <2>2 DEF Linked
  <1> QED
    BY <1>3, <1>4, <1>6, <1>10, <1>11, <1>12, <1>13 DEF Good, t

\* A service of a new port
Made(j, n, per_pid, p) ==
  [job |-> j, name |-> n, per_pid |-> per_pid, port |-> p, recv |-> TRUE, isActive |-> FALSE, alias |-> Nobody]

\* New services get free ports of their own.
LEMMA NewPorts ==
  ASSUME NEW s, Good(s), NEW N, Injection(N, Free(s)) # {}
  PROVE  LET at == CHOOSE f \in Injection(N, Free(s)) : TRUE
         IN  /\ at \in [N -> Ports]
             /\ \A n, k \in N : at[n] = at[k] => n = k
             /\ \A n \in N : s.port[at[n]] \in {"unused", "dead"} /\ \A m \in s.svc : m.port # at[n]
  <1> DEFINE at == CHOOSE f \in Injection(N, Free(s)) : TRUE
  <1>1. at \in Injection(N, Free(s))
    OBVIOUS
  <1> HIDE DEF at
  <1>2. at \in [N -> Free(s)] /\ \A n, k \in N : at[n] = at[k] => n = k
    BY <1>1 DEF Injection, IsInjective
  <1>3. \A p \in Free(s) : p \in Ports /\ s.port[p] \in {"unused", "dead"} /\ \A m \in s.svc : m.port # p
    BY DEF Free, Using
  <1>4. at \in [N -> Ports]
    BY <1>2, <1>3
  <1> QED
    BY <1>2, <1>3, <1>4 DEF at

\* New names on ports of launchd.
LEMMA NewGood ==
  ASSUME NEW s, Good(s), NEW j \in Jobs, s.job[j] \notin Gone, NEW N \in SUBSET Names, NEW per_pid \in BOOLEAN,
         Injection(N, Free(s)) # {},
         per_pid \/ \A n \in N : Listed(s, j[1], n) = {}
  PROVE  LET t == machservice_new(s, j, N, per_pid)
         IN  /\ Good(t) /\ s.svc \subseteq t.svc
             /\ \A m \in t.svc \ s.svc : \E p \in Ports : m = Made(j, m.name, per_pid, p) /\ m.name \in N
             /\ \A n \in N : \E m \in t.svc \ s.svc : m.name = n
             /\ \A m, x \in t.svc \ s.svc : m.name = x.name => m = x
             /\ t.job = s.job /\ t.bits = s.bits /\ t.inited = s.inited
             /\ t.closing = s.closing /\ t.dangling = s.dangling /\ t.holder = s.holder
  <1> DEFINE at == CHOOSE f \in Injection(N, Free(s)) : TRUE
             new == {Made(j, n, per_pid, at[n]) : n \in N}
             po == [p \in Ports |-> IF \E n \in N : at[n] = p THEN "launchd" ELSE s.port[p]]
             ar == [p \in Ports |-> IF \E n \in N : at[n] = p THEN {} ELSE s.armed[p]]
             t == machservice_new(s, j, N, per_pid)
  <1>1. s \in St
    BY DEF Good
  <1>2. t = [s EXCEPT !.svc = @ \cup new, !.port = po, !.armed = ar]
    BY DEF machservice_new, Made
  <1>3. /\ at \in [N -> Ports]
        /\ \A n, k \in N : at[n] = at[k] => n = k
        /\ \A n \in N : s.port[at[n]] \in {"unused", "dead"} /\ \A m \in s.svc : m.port # at[n]
    BY NewPorts
  <1> HIDE DEF at
  <1>4. /\ t.svc = s.svc \cup new /\ t.port = po /\ t.armed = ar /\ t.job = s.job /\ t.bits = s.bits
        /\ t.inited = s.inited
        /\ t.closing = s.closing /\ t.dangling = s.dangling /\ t.holder = s.holder
    BY <1>1, <1>2 DEF St
  <1> HIDE DEF t
  <1>5. \A n \in N : LET m == Made(j, n, per_pid, at[n])
                     IN  /\ m \in Service /\ m.job = j /\ m.name = n /\ m.per_pid = per_pid /\ m.port = at[n]
                         /\ m.recv /\ ~m.isActive /\ m.alias = Nobody
    BY <1>3 DEF Made, Service
  <1>6. \A m \in new : /\ m \in Service /\ m.job = j /\ m.name \in N /\ m.per_pid = per_pid
                       /\ m.port = at[m.name] /\ m.recv /\ ~m.isActive /\ m.alias = Nobody
                       /\ m = Made(j, m.name, per_pid, at[m.name])
    BY <1>5
  <1>7. \A n \in N : \E m \in new : m.name = n /\ m.port = at[n]
    BY <1>5
  <1> HIDE DEF new
  <1>8. \A m \in new : m.port \in Ports /\ po[m.port] = "launchd" /\ \A x \in s.svc : x.port # m.port
    BY <1>3, <1>6
  <1>9. \A m \in s.svc : m.port \in Ports => po[m.port] = s.port[m.port] /\ ar[m.port] = s.armed[m.port]
    BY <1>3
  <1>10. t \in St
    <2>1. po \in [Ports -> PortStates] /\ ar \in [Ports -> SUBSET Notes]
      BY <1>1 DEF St, PortStates
    <2>2. s.svc \cup new \in SUBSET Service
      BY <1>1, <1>6 DEF St
    <2> QED
      BY <1>1, <1>2, <2>1, <2>2 DEF St
  <1>11. Homed(t)
    BY <1>4, <1>6, <1>8 DEF Good, Homed
  <1>12. Rightful(t)
    <2> SUFFICES ASSUME NEW m \in s.svc \cup new, m.alias = Nobody
                 PROVE  /\ m.recv /\ ~m.isActive => po[m.port] = "launchd"
                        /\ m.recv /\ m.isActive => po[m.port] \in {"process", "returning"}
                                                 /\ "port_destroyed" \in ar[m.port]
                        /\ ~m.recv => m.isActive /\ po[m.port] # "unused" /\ "dead_name" \in ar[m.port]
      <3>1. t.svc = s.svc \cup new /\ t.port = po /\ t.armed = ar
        BY <1>4
      <3> QED
        BY <3>1, Zenon DEF Rightful
    <2>1. CASE m \in new
      BY <2>1, <1>6, <1>8
    <2>2. CASE m \in s.svc
      <3>1. m.port \in Ports
        BY <2>2 DEF Good, Homed
      <3> QED
        BY <2>2, <3>1, <1>9, Zenon DEF Good, Rightful
    <2> QED
      BY <2>1, <2>2
  <1>13. OneReceiver(t)
    <2>1. \A m, n \in new : m.port = n.port => m = n
      BY <1>3, <1>6
    <2> QED
      BY <1>4, <1>8, <2>1 DEF Good, OneReceiver
  <1>14. Wanted(t)
    <2> SUFFICES ASSUME NEW p \in Ports, po[p] = "launchd"
                 PROVE  \E m \in s.svc \cup new : m.port = p /\ m.recv /\ ~m.isActive
      BY <1>4 DEF Wanted
    <2>1. CASE \E n \in N : at[n] = p
      BY <2>1, <1>6, <1>7
    <2>2. CASE ~(\E n \in N : at[n] = p)
      BY <2>2 DEF Good, Wanted
    <2> QED
      BY <2>1, <2>2
  <1>15. Unique(t)
    <2>1. \A m \in new, x \in s.svc : ~(/\ ~m.per_pid /\ ~x.per_pid /\ m.name = x.name
                                       /\ Space(m.job[1]) = Space(x.job[1]))
      BY <1>6 DEF Listed
    <2>2. \A m, n \in new : m.name = n.name => m = n
      BY <1>6
    <2> QED
      BY <1>4, <2>1, <2>2 DEF Good, Unique
  <1>16. Aliased(t) /\ Domains(t)
    BY <1>4, <1>6 DEF Good, Aliased, Domains
  <1>17. \A m \in t.svc \ s.svc : \E p \in Ports : m = Made(j, m.name, per_pid, p) /\ m.name \in N
    BY <1>3, <1>4, <1>6
  <1>18. \A n \in N : \E m \in t.svc \ s.svc : m.name = n
    BY <1>4, <1>7, <1>8
  <1>19. \A m, x \in t.svc \ s.svc : m.name = x.name => m = x
    BY <1>4, <1>6
  <1>20. Linked(t)
    <2>1. Carried(s, t)
      BY <1>4, <1>6 DEF Carried
    <2> QED
      BY <2>1, LinkedStays
  <1> QED
    BY <1>4, <1>10, <1>11, <1>12, <1>13, <1>14, <1>15, <1>16, <1>17, <1>18, <1>19, <1>20 DEF Good, t

\* A job goes with its services, unless an alias stands for it.
LEMMA RemoveGood ==
  ASSUME NEW s, Good(s), NEW j \in Jobs,
         j \in Lasting => s.job[j] = "idle" /\ \A m \in s.svc : m.alias # j
  PROVE  LET t == job_remove(s, j)
         IN  /\ Good(t) /\ t.svc \subseteq s.svc /\ t.inited = s.inited
             /\ \A m \in s.svc : m.job # j => m \in t.svc
             /\ s.job[j] \notin {"running", "exited"} => t.job[j] = "none"
             /\ \A k \in Jobs \ {j} : t.job[k] = s.job[k]
  <1> DEFINE t == job_remove(s, j)
  <1>1. s \in St
    BY DEF Good
  <1>2. CASE s.job[j] \in {"running", "exited"} /\ j \notin Visitors
    <2>1. t = [s EXCEPT !.bits[j] = @ \cup {"removal_pending"}]
      BY <1>2 DEF job_remove
    <2>2. t \in St
      BY <1>1, <2>1 DEF St, Bits
    <2>3. /\ t.svc = s.svc /\ t.port = s.port /\ t.armed = s.armed /\ t.job = s.job
          /\ t.inited = s.inited /\ t.closing = s.closing /\ t.dangling = s.dangling
          /\ \A k \in Jobs \ {j} : t.bits[k] = s.bits[k]
      BY <1>1, <1>2, <2>1 DEF St
    <2>4. Domains(t)
      BY <1>2, <2>3 DEF Good, Domains, Gone, Lasting
    <2>5. Good(t)
      BY <2>2, <2>3, <2>4, SameServices DEF Good, Homed, Aliased
    <2> QED
      BY <1>2, <2>3, <2>5
  <1>3. CASE ~(s.job[j] \in {"running", "exited"} /\ j \notin Visitors)
    <2> DEFINE u == delete_all(s, j)
    <2>1. t = [u EXCEPT !.job[j] = "none", !.bits[j] = {}]
      BY <1>3 DEF job_remove
    <2>2. Of(s, j) \subseteq s.svc
      BY DEF Of
    <2>3. Good(u) /\ u.svc = s.svc \ Of(s, j) /\ u.job = s.job /\ u.bits = s.bits /\ u.inited = s.inited
          /\ u.closing = s.closing
      BY <2>2, DeleteGood DEF delete_all
    <2>4. u \in St
      BY <2>3 DEF Good
    <2> HIDE DEF u
    <2> DEFINE jb == [u.job EXCEPT ![j] = "none"]
               bt == [u.bits EXCEPT ![j] = {}]
    <2>14. jb \in [Jobs -> JobStates] /\ bt \in [Jobs -> SUBSET Bits]
      BY <2>4 DEF St, JobStates
    <2>5. /\ t.svc = u.svc /\ t.port = u.port /\ t.armed = u.armed /\ t.inited = u.inited
         
          /\ t.closing = u.closing /\ t.dangling = u.dangling
          /\ t.job = [u.job EXCEPT ![j] = "none"] /\ t.bits = [u.bits EXCEPT ![j] = {}]
      BY <2>1, <2>4 DEF St
    <2>6. t \in St
      BY <2>1, <2>4, <2>14 DEF St
    <2>7. /\ t.job[j] = "none" /\ t.bits[j] = {}
          /\ \A k \in Jobs \ {j} : t.job[k] = s.job[k] /\ t.bits[k] = s.bits[k]
      BY <1>1, <2>3, <2>5 DEF St
    <2>8. \A m \in u.svc : m.job \in Jobs \ {j} /\ m.alias # j
      <3>1. \A m \in u.svc : m \in s.svc /\ m \in Service
        BY <1>1, <2>3 DEF St
      <3> QED
        BY <2>3, <3>1, MachServicesAssumption DEF Of, Service, Good, Aliased
    <2>9. Domains(t)
      BY <2>3, <2>5, <2>7 DEF Good, Domains, Lasting
    <2>10. \A m \in u.svc : m.alias = Nobody => t.job[m.job] \notin Gone
      BY <2>3, <2>7, <2>8 DEF Good, Homed
    <2>11. \A m \in u.svc : m.alias # Nobody => t.job[m.job] = "alias" /\ t.job[m.alias] \notin Gone
      BY <2>3, <2>7, <2>8 DEF Good, Aliased, Lasting
    <2>12. Good(t)
      BY <2>3, <2>5, <2>6, <2>9, <2>10, <2>11, SameServices
    <2>13. \A m \in s.svc : m.job # j => m \in t.svc
      BY <2>3, <2>5 DEF Of
    <2> QED
      BY <2>3, <2>5, <2>7, <2>12, <2>13
  <1> QED
    BY <1>2, <1>3

\* Dispatching a job removes it or nothing; the jobs that aliases stand for
\* are never useless.
LEMMA DispatchGood ==
  ASSUME NEW s, Good(s), NEW j \in Jobs
  PROVE  LET t == job_dispatch(s, j)
         IN  Good(t) /\ t.svc \subseteq s.svc
  <1>1. CASE s.job[j] # "none" /\ ~job_active(s, j) /\ job_useless(s, j)
    <2>1. j \notin Lasting
      BY <1>1 DEF job_useless, Lasting, Good, Domains
    <2>2. job_dispatch(s, j) = job_remove(s, j)
      BY <1>1 DEF job_dispatch
    <2> QED
      BY <2>1, <2>2, RemoveGood
  <1>2. CASE ~(s.job[j] # "none" /\ ~job_active(s, j) /\ job_useless(s, j))
    BY <1>2 DEF job_dispatch
  <1> QED
    BY <1>1, <1>2

\* A job that is not there has no services and no aliases.
LEMMA NoServices ==
  ASSUME NEW s, Good(s), NEW j \in Jobs, s.job[j] = "none"
  PROVE  \A m \in s.svc : m.job # j /\ m.alias # j
  BY MachServicesAssumption DEF Good, Homed, Aliased, Gone

\* A job is imported with those of its names that are free.
LEMMA ImportGood ==
  ASSUME NEW s, Good(s), NEW j \in Jobs, s.job[j] = "none"
  PROVE  LET t == jobmgr_import2(s, j)
         IN  /\ Good(t) /\ s.svc \subseteq t.svc /\ t.inited = s.inited
             /\ t.closing = s.closing /\ t.dangling = s.dangling
             /\ \A m \in t.svc \ s.svc : m.job = j
             /\ t.job[j] = "idle" /\ \A k \in Jobs \ {j} : t.job[k] = s.job[k]
  <1> DEFINE jb == [s.job EXCEPT ![j] = "idle"]
             bt == [s.bits EXCEPT ![j] = {"checkedin"}]
             u == [s EXCEPT !.job[j] = "idle", !.bits[j] = {"checkedin"}]
             fresh == {n \in Offers[j] : Listed(u, j[1], n) = {}}
             t == jobmgr_import2(s, j)
  <1>1. s \in St
    BY DEF Good
  <1>2. jb \in [Jobs -> JobStates] /\ bt \in [Jobs -> SUBSET Bits]
    BY <1>1 DEF St, JobStates, Bits
  <1>3. u = [s EXCEPT !.job = jb, !.bits = bt]
    OBVIOUS
  <1>4. u \in St
    BY <1>1, <1>2, <1>3 DEF St
  <1>5. /\ u.svc = s.svc /\ u.port = s.port /\ u.armed = s.armed /\ u.inited = s.inited
        /\ u.closing = s.closing /\ u.dangling = s.dangling
        /\ u.job[j] = "idle" /\ u.bits[j] = {"checkedin"}
        /\ \A k \in Jobs \ {j} : u.job[k] = s.job[k] /\ u.bits[k] = s.bits[k]
    BY <1>1, <1>3 DEF St
  <1>6. t = IF Injection(fresh, Free(u)) = {} THEN u ELSE machservice_new(u, j, fresh, FALSE)
    BY DEF jobmgr_import2, machservice_setup
  <1>7. fresh \in SUBSET Names
    BY MachServicesAssumption
  <1>8. \A n \in fresh : Listed(u, j[1], n) = {}
    OBVIOUS
  <1> HIDE DEF u, fresh, t
  <1>9. \A m \in s.svc : m.job \in Jobs \ {j} /\ m.alias # j /\ (m.alias # Nobody => m.alias \in Jobs)
    <2>1. \A m \in s.svc : m \in Service
      BY <1>1 DEF St
    <2> QED
      BY <2>1, NoServices DEF Service
  <1>10. Domains(u)
    BY <1>5 DEF Good, Domains, Lasting
  <1>11. Good(u)
    BY <1>4, <1>5, <1>9, <1>10, SameServices DEF Good, Homed, Aliased
  <1>12. CASE Injection(fresh, Free(u)) = {}
    BY <1>5, <1>6, <1>11, <1>12 DEF t
  <1>13. CASE Injection(fresh, Free(u)) # {}
    <2>1. t = machservice_new(u, j, fresh, FALSE)
      BY <1>6, <1>13
    <2>2. u.job[j] \notin Gone
      BY <1>5 DEF Gone
    <2>3. /\ Good(t) /\ u.svc \subseteq t.svc
          /\ \A m \in t.svc \ u.svc : \E p \in Ports : m = Made(j, m.name, FALSE, p) /\ m.name \in fresh
          /\ t.job = u.job /\ t.bits = u.bits /\ t.inited = u.inited
          /\ t.closing = u.closing /\ t.dangling = u.dangling /\ t.holder = u.holder
      BY <1>7, <1>8, <1>11, <1>13, <2>1, <2>2, NewGood
    <2>4. \A m \in t.svc \ u.svc : m.job = j
      BY <2>3 DEF Made
    <2> QED
      BY <1>5, <2>3, <2>4 DEF t
  <1> QED
    BY <1>12, <1>13 DEF t

\* The aliases of a job that stays.
LEMMA AliasGood ==
  ASSUME NEW s, Good(s), NEW a \in Jobs, Kind[a[1]] = "domain", s.job[a] = "none",
         NEW orig \in Lasting, s.job[orig] \notin Gone
  PROVE  LET t == job_new_alias(s, a, orig)
         IN  Good(t) /\ s.svc \subseteq t.svc /\ t.inited = s.inited
         /\ t.closing = s.closing /\ t.dangling = s.dangling
  <1> DEFINE al(m) == [m EXCEPT !.job = a, !.alias = orig, !.port = NoPort, !.recv = FALSE, !.isActive = FALSE]
             new == {al(m) : m \in Of(s, orig)}
             jb == [s.job EXCEPT ![a] = "alias"]
             t == job_new_alias(s, a, orig)
  <1>1. s \in St /\ orig \in Jobs /\ orig # Nobody
    BY MachServicesAssumption DEF Good, Lasting
  <1>2. \A m \in Service : /\ al(m) \in Service /\ al(m).job = a /\ al(m).alias = orig /\ al(m).port = NoPort
                           /\ ~al(m).recv /\ al(m).name = m.name /\ al(m).per_pid = m.per_pid
    BY <1>1 DEF Service
  <1>3. \A m \in new : /\ m \in Service /\ m.job = a /\ m.alias = orig /\ m.port = NoPort /\ ~m.recv
    <2>1. \A m \in Of(s, orig) : m \in Service
      BY <1>1 DEF Of, St
    <2> HIDE DEF al
    <2> QED
      BY <1>2, <2>1
  <1>4. t = [s EXCEPT !.job = jb, !.svc = @ \cup new]
    BY DEF job_new_alias
  <1>13. \A m \in new : \E o \in s.svc : Behind(o, m)
    <2>1. \A m \in Of(s, orig) : m \in Service /\ m \in s.svc /\ m.job = orig
      BY <1>1 DEF Of, St
    <2>2. \A m \in Of(s, orig) : m.alias = Nobody
      BY <2>1 DEF Good, Aliased, Gone
    <2> HIDE DEF al
    <2> QED
      BY <1>2, <2>1, <2>2 DEF Behind
  <1> HIDE DEF new, t
  <1>5. jb \in [Jobs -> JobStates] /\ s.svc \cup new \in SUBSET Service
    BY <1>1, <1>3 DEF St, JobStates
  <1>6. t \in St
    BY <1>1, <1>4, <1>5 DEF St
  <1>7. /\ t.svc = s.svc \cup new /\ t.port = s.port /\ t.armed = s.armed /\ t.inited = s.inited
        /\ t.closing = s.closing /\ t.dangling = s.dangling
        /\ t.bits = s.bits /\ t.job[a] = "alias" /\ \A k \in Jobs \ {a} : t.job[k] = s.job[k]
    BY <1>1, <1>4 DEF St
  <1>8. \A m \in s.svc : m.job \in Jobs \ {a} /\ m.alias # a /\ (m.alias # Nobody => m.alias \in Jobs)
    <2>1. \A m \in s.svc : m \in Service
      BY <1>1 DEF St
    <2> QED
      BY <2>1, NoServices DEF Service
  <1>9. a # orig
    BY DEF Lasting
  <1>10. Homed(t) /\ Aliased(t)
    BY <1>1, <1>3, <1>7, <1>8, <1>9 DEF Good, Homed, Aliased
  <1>11. Rightful(t) /\ OneReceiver(t) /\ Wanted(t) /\ Unique(t)
    <2>1. Rightful(t)
      BY <1>1, <1>3, <1>7 DEF Good, Rightful
    <2>2. OneReceiver(t) /\ Wanted(t)
      BY <1>3, <1>7 DEF Good, OneReceiver, Wanted
    <2>3. Unique(t)
      BY <1>1, <1>3, <1>7 DEF Good, Unique
    <2> QED
      BY <2>1, <2>2, <2>3
  <1>12. Domains(t)
    BY <1>7, <1>9 DEF Good, Domains, Gone
  <1>14. Linked(t)
    BY <1>7, <1>13 DEF Good, Linked
  <1> QED
    BY <1>6, <1>7, <1>10, <1>11, <1>12, <1>14 DEF Good, t

\* The destinations of an import
Importable(d, label, dest) ==
  /\ Kind[d] = "domain" /\ <<d, label>> \in Jobs /\ <<dest, label>> \in Jobs \ (Visitors \cup Legacy)
  /\ dest = d \/ Kind[dest] = "singleton"

\* One service of a request: nothing that was there is taken away.
LEMMA ServiceGood ==
  ASSUME NEW r, Good(r.s), r.error \in BOOLEAN, r = [s |-> r.s, error |-> r.error],
         NEW d, NEW label, NEW dest, Importable(d, label, dest)
  PROVE  LET q == import_service(r, d, label, dest)
         IN  /\ q = [s |-> q.s, error |-> q.error] /\ q.error \in BOOLEAN /\ Good(q.s)
             /\ r.s.svc \subseteq q.s.svc /\ q.s.inited = r.s.inited
  <1> DEFINE s == r.s
             j == <<dest, label>>
             a == <<d, label>>
             created  == s.job[j] = "none"
             imported == IF created THEN jobmgr_import2(s, j) ELSE s
             refused  == ~created \/ d \in s.closing
             q == import_service(r, d, label, dest)
  <1>1. j \in Jobs /\ a \in Jobs /\ Kind[a[1]] = "domain" /\ (dest # d => j \in Lasting /\ a # j)
    BY DEF Importable, Lasting
  <1>2. \A k \in Jobs : s.job[k] \in JobStates
    BY DEF Good, St
  <1>3. Good(imported) /\ s.svc \subseteq imported.svc /\ imported.inited = s.inited
    BY <1>1, ImportGood
  <1>4. created => /\ \A m \in imported.svc \ s.svc : m.job = j
                   /\ imported.job[j] = "idle" /\ \A k \in Jobs \ {j} : imported.job[k] = s.job[k]
    BY <1>1, ImportGood
  <1> HIDE DEF imported
  <1>5. CASE dest = d /\ refused
    <2>1. q = [r EXCEPT !.error = TRUE]
      BY <1>5 DEF import_service
    <2> QED
      BY <2>1
  <1>6. CASE dest = d /\ ~refused
    <2>1. q = [r EXCEPT !.s = imported]
      BY <1>6 DEF import_service, imported
    <2> QED
      BY <2>1, <1>3
  <1>7. CASE dest # d /\ s.job[a] = "none"
    <2>1. q = [r EXCEPT !.s = job_new_alias(imported, a, j)]
      BY <1>7 DEF import_service, imported
    <2>2. imported.job[a] = "none"
      BY <1>1, <1>4, <1>7 DEF imported
    <2>3. imported.job[j] \notin Gone
      <3>1. CASE created
        BY <3>1, <1>4 DEF Gone
      <3>2. CASE ~created
        BY <3>2, <1>1, <1>7 DEF imported, Good, Domains, Lasting, Gone
      <3> QED
        BY <3>1, <3>2
    <2>4. LET t == job_new_alias(imported, a, j)
          IN  Good(t) /\ imported.svc \subseteq t.svc /\ t.inited = imported.inited
      BY <1>1, <1>3, <1>7, <2>2, <2>3, AliasGood
    <2> QED
      BY <2>1, <2>4, <1>3
  <1>8. CASE dest # d /\ s.job[a] # "none"
    <2>1. q = [r EXCEPT !.s = IF created THEN job_remove(imported, j) ELSE s]
      BY <1>8 DEF import_service, imported
    <2>2. CASE ~created
      BY <2>1, <2>2
    <2>3. CASE created
      <3>1. \A m \in s.svc : m.job # j /\ m.alias # j
        BY <1>1, <2>3, NoServices
      <3>2. imported.job[j] = "idle" /\ \A m \in imported.svc : m.alias # j
        BY <1>1, <1>3, <1>4, <2>3, <3>1, MachServicesAssumption DEF Good, Homed, Aliased, Gone
      <3>3. LET t == job_remove(imported, j)
            IN  /\ Good(t) /\ t.inited = imported.inited
                /\ \A m \in imported.svc : m.job # j => m \in t.svc
        BY <1>1, <1>3, <3>2, RemoveGood
      <3> QED
        BY <2>1, <2>3, <3>1, <3>3, <1>3
    <2> QED
      BY <2>2, <2>3
  <1> QED
    BY <1>5, <1>6, <1>7, <1>8

\* A set with 0 and the successors of its members has every number.
LEMMA EveryNumber ==
  ASSUME NEW S \in SUBSET Nat, 0 \in S, \A n \in S : n + 1 \in S
  PROVE  S = Nat
  <1> DEFINE R == OpToRel(<, Nat)
             T == Nat \ S
  <1>1. IsWellFoundedOn(R, Nat)
    BY NatLessThanWellFounded, Zenon
  <1>2. \A x, y \in Nat : y < x => <<y, x>> \in R
    BY Zenon DEF OpToRel
  <1> HIDE DEF R
  <1>3. SUFFICES ASSUME T # {} PROVE FALSE
    OBVIOUS
  <1>4. PICK x \in T : \A y \in T : ~(<<y, x>> \in R)
    BY <1>1, <1>3, WFMin
  <1>5. x \in Nat /\ x # 0 /\ x - 1 \in Nat /\ x - 1 < x /\ (x - 1) + 1 = x
    BY <1>4
  <1>6. x - 1 \notin T
    BY <1>2, <1>4, <1>5
  <1> QED
    BY <1>4, <1>5, <1>6

\* The services of a request, one after the other.
LEMMA ServicesGood ==
  ASSUME NEW s, Good(s), NEW d, NEW services, Len(services) \in Nat,
         \A i \in 1..Len(services) : Importable(d, services[i][1], services[i][2])
  PROVE  LET q == import_services(s, d, services)
         IN  /\ q.error \in BOOLEAN /\ Good(q.s) /\ s.svc \subseteq q.s.svc /\ q.s.inited = s.inited
  <1> DEFINE N == Len(services)
             start == [s |-> s, error |-> FALSE]
             step(x, i) == IF x.error /\ d \notin s.inited THEN x
                           ELSE import_service(x, d, services[i][1], services[i][2])
             Body(g) == [i \in 0..N |-> IF i = 0 THEN start ELSE step(g[i - 1], i)]
             Run(g, n) == g = [i \in 0..n |-> g[i]] /\ g[0] = start /\ \A i \in 1..n : g[i] = step(g[i - 1], i)
             r == CHOOSE g : g = Body(g)
  <1>1. import_services(s, d, services) = r[N]
    BY DEF import_services
  <1> HIDE DEF N, start, step
  <1>2. N \in Nat
    BY DEF N
  <1>3. \A n \in Nat : \E g : Run(g, n)
    <2> DEFINE S == {n \in Nat : \E g : Run(g, n)}
    <2>1. 0 \in S
      <3>1. Run([i \in 0..0 |-> start], 0)
        OBVIOUS
      <3> QED
        BY <3>1
    <2>2. ASSUME NEW n \in S PROVE n + 1 \in S
      <3>1. PICK g : Run(g, n)
        OBVIOUS
      <3> DEFINE h == [i \in 0..(n + 1) |-> IF i = n + 1 THEN step(g[n], n + 1) ELSE g[i]]
      <3>2. n \in Nat
        OBVIOUS
      <3>3. h = [i \in 0..(n + 1) |-> h[i]] /\ h[0] = start
        BY <3>1, <3>2
      <3>4. \A i \in 1..(n + 1) : h[i] = step(h[i - 1], i)
        <4> SUFFICES ASSUME NEW i \in 1..(n + 1) PROVE h[i] = step(h[i - 1], i)
          OBVIOUS
        <4>1. CASE i = n + 1
          <5>1. i - 1 = n /\ i - 1 \in 0..(n + 1) /\ i - 1 # n + 1 /\ i \in 0..(n + 1)
            BY <3>2, <4>1
          <5>2. h[i - 1] = g[n] /\ h[i] = step(g[n], n + 1)
            BY <5>1, <4>1
          <5> QED
            BY <5>2, <4>1, Zenon
        <4>2. CASE i # n + 1
          <5>1. i \in 1..n /\ i \in 0..(n + 1) /\ i - 1 \in 0..(n + 1) /\ i - 1 # n + 1
            BY <3>2, <4>2
          <5>2. h[i - 1] = g[i - 1] /\ h[i] = g[i]
            BY <5>1, <4>2
          <5>3. g[i] = step(g[i - 1], i)
            BY <3>1, <5>1
          <5> QED
            BY <5>2, <5>3, Zenon
        <4> QED
          BY <4>1, <4>2
      <3>5. Run(h, n + 1)
        BY <3>3, <3>4, Zenon
      <3> HIDE DEF Run
      <3> QED
        BY <3>2, <3>5
    <2> HIDE DEF S
    <2>3. S = Nat
      <3>1. S \in SUBSET Nat
        BY DEF S
      <3> QED
        BY <2>1, <2>2, <3>1, EveryNumber
    <2> QED
      BY <2>3, Zenon DEF S
  <1>4. r = Body(r)
    <2>1. PICK g : Run(g, N)
      BY <1>2, <1>3
    <2>2. g = [i \in 0..N |-> g[i]]
      BY <2>1
    <2>3. \A i \in 0..N : g[i] = Body(g)[i]
      BY <1>2, <2>1
    <2>4. [i \in 0..N |-> g[i]] = Body(g)
      BY <2>3
    <2>5. g = Body(g)
      BY <2>2, <2>4, Zenon
    <2> QED
      BY <2>5, Zenon
  <1> HIDE DEF r
  <1>5. r[0] = start /\ \A i \in 1..N : r[i] = step(r[i - 1], i)
    BY <1>2, <1>4
  <1> DEFINE Fine(q) == /\ q = [s |-> q.s, error |-> q.error] /\ q.error \in BOOLEAN /\ Good(q.s)
                        /\ s.svc \subseteq q.s.svc /\ q.s.inited = s.inited
  <1>6. \A i \in 0..N : Fine(r[i])
    <2> DEFINE S == {i \in Nat : i \in 0..N => Fine(r[i])}
    <2>1. 0 \in S
      <3>1. start.s = s /\ start.error = FALSE
        BY DEF start
      <3>2. start = [s |-> start.s, error |-> start.error]
        BY <3>1 DEF start
      <3>3. Fine(start)
        BY <3>1, <3>2
      <3> HIDE DEF Fine
      <3> QED
        BY <1>5, <3>3
    <2>2. ASSUME NEW n \in S PROVE n + 1 \in S
      <3>1. SUFFICES ASSUME n + 1 \in 0..N PROVE Fine(r[n + 1])
        OBVIOUS
      <3>2. n \in 0..N /\ n + 1 \in 1..N /\ (n + 1) - 1 = n
        BY <3>1, <1>2
      <3>3. Fine(r[n])
        BY <3>2
      <3>4. r[n + 1] = step(r[n], n + 1)
        BY <3>2, <1>5
      <3>5. Importable(d, services[n + 1][1], services[n + 1][2])
        BY <3>2 DEF N
      <3>6. LET q == import_service(r[n], d, services[n + 1][1], services[n + 1][2])
            IN  /\ q = [s |-> q.s, error |-> q.error] /\ q.error \in BOOLEAN /\ Good(q.s)
                /\ r[n].s.svc \subseteq q.s.svc /\ q.s.inited = r[n].s.inited
        BY <3>3, <3>5, ServiceGood
      <3>7. Fine(import_service(r[n], d, services[n + 1][1], services[n + 1][2]))
        BY <3>3, <3>6
      <3> HIDE DEF Fine
      <3> QED
        BY <3>3, <3>4, <3>7 DEF step
    <2> HIDE DEF S, Fine
    <2>3. S = Nat
      <3>1. S \in SUBSET Nat
        BY DEF S
      <3> QED
        BY <2>1, <2>2, <3>1, EveryNumber
    <2> QED
      BY <1>2, <2>3 DEF S
  <1>7. Fine(r[N])
    BY <1>2, <1>6
  <1> QED
    BY <1>1, <1>7

\* Jobs go with their services; no alias stands for one of them.
LEMMA JobsGoneGood ==
  ASSUME NEW s, Good(s), NEW J \in SUBSET Jobs, J \cap Lasting = {}
  PROVE  LET t == jobs_gone(s, J)
         IN  Good(t) /\ t.svc \subseteq s.svc /\ t.inited = s.inited /\ t.closing = s.closing
  <1> DEFINE D == {m \in s.svc : m.job \in J}
             u == machservice_delete(s, D)
             jb == [j \in Jobs |-> IF j \in J THEN "none" ELSE s.job[j]]
             bt == [j \in Jobs |-> IF j \in J THEN {} ELSE s.bits[j]]
             ho == [p \in Ports |-> IF s.holder[p] \in J THEN Nobody ELSE s.holder[p]]
             t == jobs_gone(s, J)
  <1>1. s \in St
    BY DEF Good
  <1>2. /\ Good(u) /\ u.svc = s.svc \ D /\ u.job = s.job /\ u.bits = s.bits /\ u.inited = s.inited
        /\ u.closing = s.closing
    <2>1. D \subseteq s.svc
      OBVIOUS
    <2> HIDE DEF D
    <2> QED
      BY <2>1, DeleteGood
  <1>3. t = [u EXCEPT !.job = jb, !.bits = bt, !.holder = ho]
    BY DEF jobs_gone
  <1>4. u \in St
    BY <1>2 DEF Good
  <1> HIDE DEF u, t
  <1>5. jb \in [Jobs -> JobStates] /\ bt \in [Jobs -> SUBSET Bits] /\ ho \in [Ports -> Jobs \cup {Nobody}]
    BY <1>1 DEF St, JobStates
  <1>6. /\ t.svc = u.svc /\ t.port = u.port /\ t.armed = u.armed /\ t.inited = u.inited
        /\ t.closing = u.closing /\ t.dangling = u.dangling /\ t.job = jb /\ t.bits = bt
    BY <1>3, <1>4 DEF St
  <1>7. t \in St
    BY <1>3, <1>4, <1>5 DEF St
  <1>8. \A m \in u.svc : m.job \in Jobs \ J /\ m.alias \notin J /\ (m.alias # Nobody => m.alias \in Jobs)
    <2>1. \A m \in u.svc : m \in s.svc /\ m \in Service
      BY <1>1, <1>2 DEF St
    <2>2. \A j \in J : j \notin Lasting /\ j # Nobody
      BY MachServicesAssumption
    <2>3. \A m \in u.svc : m.job \in Jobs /\ m.job \notin J
      BY <1>2, <2>1 DEF Service
    <2>4. \A m \in u.svc : m.alias # Nobody => m.alias \in Lasting /\ m.alias \in Jobs
      BY <2>1 DEF Good, Aliased, Lasting
    <2> QED
      BY <2>2, <2>3, <2>4
  <1>9. \A j \in Jobs : j \notin J => t.job[j] = s.job[j] /\ t.bits[j] = s.bits[j]
    BY <1>6
  <1>10. \A j \in Jobs : j \in J => t.job[j] = "none" /\ t.bits[j] = {}
    BY <1>6
  <1>11. Domains(t)
    <2>1. \A j \in Jobs : t.job[j] = "alias" => Kind[j[1]] = "domain"
      BY <1>9, <1>10 DEF Good, Domains
    <2>2. \A e \in t.inited \cup t.closing : Kind[e] = "domain"
      BY <1>2, <1>6 DEF Good, Domains
    <2>3. \A j \in Lasting : "removal_pending" \notin t.bits[j]
      BY <1>9, <1>10 DEF Good, Domains, Lasting
    <2>4. \A j \in Jobs : t.job[j] \in Gone => "senders" \notin t.bits[j]
      BY <1>9, <1>10 DEF Good, Domains
    <2> QED
      BY <2>1, <2>2, <2>3, <2>4 DEF Domains
  <1>12. \A m \in u.svc : m.alias = Nobody => t.job[m.job] \notin Gone
    BY <1>2, <1>8, <1>9 DEF Good, Homed
  <1>13. \A m \in u.svc : m.alias # Nobody => t.job[m.job] = "alias" /\ t.job[m.alias] \notin Gone
    BY <1>2, <1>8, <1>9 DEF Good, Aliased
  <1>14. Good(t)
    BY <1>2, <1>6, <1>7, <1>11, <1>12, <1>13, SameServices
  <1> QED
    BY <1>2, <1>6, <1>14 DEF t

\* The jobs of domains are none that aliases stand for.
LEMMA DomainJobs ==
  ASSUME NEW D, \A d \in D : Kind[d] = "domain"
  PROVE  \A j \in Jobs : j[1] \in D => j \notin Lasting
  BY DEF Lasting

\* Domains go with their jobs.
LEMMA DomainsGood ==
  ASSUME NEW s, Good(s), NEW D, \A d \in D : Kind[d] = "domain"
  PROVE  LET t == jobmgr_remove(s, D)
         IN  Good(t) /\ t.svc \subseteq s.svc
  <1> DEFINE J == {j \in Jobs : j[1] \in D}
             u == jobs_gone(s, J)
             t == jobmgr_remove(s, D)
  <1>1. J \in SUBSET Jobs /\ J \cap Lasting = {}
    BY DomainJobs
  <1>2. t = [u EXCEPT !.inited = @ \ D, !.closing = @ \ D]
    BY DEF jobmgr_remove
  <1> HIDE DEF J
  <1>3. Good(u) /\ u.svc \subseteq s.svc
    BY <1>1, JobsGoneGood
  <1>4. u \in St
    BY <1>3 DEF Good
  <1> HIDE DEF u, t
  <1>5. u.inited \ D \in SUBSET Mgrs /\ u.closing \ D \in SUBSET Mgrs
    BY <1>4 DEF St
  <1>6. /\ t \in St /\ t.svc = u.svc /\ t.port = u.port /\ t.armed = u.armed /\ t.job = u.job /\ t.bits = u.bits
        /\ t.dangling = u.dangling /\ t.inited = u.inited \ D /\ t.closing = u.closing \ D
    BY <1>2, <1>4, <1>5 DEF St
  <1>7. Domains(t)
    BY <1>3, <1>6 DEF Good, Domains
  <1>8. Good(t)
    BY <1>3, <1>6, <1>7, SameServices DEF Good, Homed, Aliased
  <1> QED
    BY <1>3, <1>6, <1>8 DEF t

\* The collection takes jobs and domains away, and no alias stands for them.
LEMMA CollectGood ==
  ASSUME NEW s, Good(s)
  PROVE  LET t == jobmgr_do_garbage_collection(s)
         IN  Good(t) /\ t.svc \subseteq s.svc
  <1> DEFINE managed == {j \in Jobs : j[1] \in s.closing /\ j \notin Visitors /\ s.job[j] # "none"}
             active == {j \in managed : job_active(s, j)}
             J == managed \ active
             D == {d \in s.closing : \A j \in active : j[1] # d}
             u == jobs_gone(s, J)
             t == jobmgr_do_garbage_collection(s)
  <1>1. t = jobmgr_remove(u, D)
    BY DEF jobmgr_do_garbage_collection
  <1>2. \A d \in s.closing : Kind[d] = "domain"
    BY DEF Good, Domains
  <1>3. J \in SUBSET Jobs /\ J \cap Lasting = {} /\ \A d \in D : Kind[d] = "domain"
    BY <1>2, DomainJobs
  <1> HIDE DEF J, D
  <1>4. Good(u) /\ u.svc \subseteq s.svc
    BY <1>3, JobsGoneGood
  <1> HIDE DEF u
  <1>5. LET r == jobmgr_remove(u, D)
        IN  Good(r) /\ r.svc \subseteq u.svc
    BY <1>3, <1>4, DomainsGood
  <1> QED
    BY <1>1, <1>4, <1>5

-----------------------------------------------------------------------------
(* The handlers.                                                           *)

\* Every name of t is one of w, and of the same job
From(w, t) ==
  \A x \in t.svc : x.alias = Nobody =>
    \E m \in w.svc : m.alias = Nobody /\ m.job = x.job /\ m.name = x.name /\ m.per_pid = x.per_pid

\* The names of two states never belonged to different jobs
Passed(s, t) == \E w : Good(w) /\ From(w, s) /\ From(w, t)

LEMMA Fewer ==
  ASSUME NEW s, NEW t, t.svc \subseteq s.svc
  PROVE  From(s, t)
  BY DEF From

\* A step that only takes names away, and one that only adds some.
LEMMA Shrinks ==
  ASSUME NEW s, Good(s), NEW t, t.svc \subseteq s.svc
  PROVE  Passed(s, t) /\ Passed(t, s)
  <1>1. From(s, s) /\ From(s, t)
    BY Fewer
  <1> QED
    BY <1>1 DEF Passed

\* A process lets go of receive rights.
LEMMA LostGood ==
  ASSUME NEW s, Good(s), NEW P \in SUBSET Ports, \A p \in P : s.port[p] = "process"
  PROVE  LET t == lost(s, P)
         IN  Good(t) /\ t.svc = s.svc
  <1> DEFINE po == [p \in Ports |->
                      IF p \notin P THEN s.port[p]
                      ELSE IF "port_destroyed" \in s.armed[p] THEN "returning" ELSE "dead"]
             ho == [p \in Ports |-> IF p \in P THEN Nobody ELSE s.holder[p]]
             t == lost(s, P)
  <1>1. s \in St
    BY DEF Good
  <1>2. t = [s EXCEPT !.port = po, !.holder = ho]
    BY DEF lost
  <1> HIDE DEF t
  <1>3. po \in [Ports -> PortStates] /\ ho \in [Ports -> Jobs \cup {Nobody}]
    BY <1>1 DEF St, PortStates
  <1>4. t \in St
    BY <1>1, <1>2, <1>3 DEF St
  <1>5. /\ t.svc = s.svc /\ t.port = po /\ t.armed = s.armed /\ t.job = s.job /\ t.bits = s.bits
        /\ t.inited = s.inited /\ t.closing = s.closing /\ t.dangling = s.dangling
    BY <1>1, <1>2 DEF St
  <1>6. Rightful(t)
    <2> SUFFICES ASSUME NEW m \in s.svc, m.alias = Nobody
                 PROVE  /\ m.recv /\ ~m.isActive => po[m.port] = "launchd"
                        /\ m.recv /\ m.isActive => po[m.port] \in {"process", "returning"}
                                                 /\ "port_destroyed" \in s.armed[m.port]
                        /\ ~m.recv => m.isActive /\ po[m.port] # "unused" /\ "dead_name" \in s.armed[m.port]
      <3> HIDE DEF po
      <3> QED
        BY <1>5 DEF Rightful
    <2>1. m.port \in Ports
      BY DEF Good, Homed
    <2> QED
      BY <2>1 DEF Good, Rightful
  <1>7. Homed(t) /\ OneReceiver(t) /\ Wanted(t) /\ Unique(t) /\ Aliased(t) /\ Domains(t)
    <2>1. \A p \in Ports : po[p] = "launchd" => s.port[p] = "launchd"
      OBVIOUS
    <2> QED
      BY <1>5, <2>1 DEF Good, Homed, OneReceiver, Wanted, Unique, Aliased, Domains
  <1>8. Linked(t)
    BY <1>5 DEF Good, Linked
  <1> QED
    BY <1>4, <1>5, <1>6, <1>7, <1>8 DEF Good, t

JobIs(s, j, x, b) == [s EXCEPT !.job[j] = x, !.bits[j] = b]

\* A job starts or its process is gone: it was there, or has no services.
LEMMA JobGood ==
  ASSUME NEW s, Good(s), NEW j \in Jobs, NEW x \in {"idle", "running", "exited"}, NEW b \in SUBSET Bits,
         s.job[j] # "alias", j \in Lasting => "removal_pending" \notin b
  PROVE  Good(JobIs(s, j, x, b)) /\ JobIs(s, j, x, b).svc = s.svc
  <1> DEFINE jb == [s.job EXCEPT ![j] = x]
             bt == [s.bits EXCEPT ![j] = b]
             t == JobIs(s, j, x, b)
  <1>1. s \in St
    BY DEF Good
  <1>2. jb \in [Jobs -> JobStates] /\ bt \in [Jobs -> SUBSET Bits]
    BY <1>1 DEF St, JobStates
  <1>3. t = [s EXCEPT !.job = jb, !.bits = bt]
    BY DEF JobIs
  <1> HIDE DEF t
  <1>4. t \in St
    BY <1>1, <1>2, <1>3 DEF St
  <1>5. /\ t.svc = s.svc /\ t.port = s.port /\ t.armed = s.armed /\ t.inited = s.inited
        /\ t.closing = s.closing /\ t.dangling = s.dangling
        /\ t.job[j] = x /\ t.bits[j] = b
        /\ \A k \in Jobs \ {j} : t.job[k] = s.job[k] /\ t.bits[k] = s.bits[k]
    BY <1>1, <1>3 DEF St
  <1>6. Domains(t)
    BY <1>5 DEF Good, Domains, Lasting, Gone
  <1>7. \A m \in s.svc : m.job \in Jobs /\ (m.alias # Nobody => m.alias \in Jobs)
    BY <1>1 DEF St, Service
  <1>8. x \notin Gone
    BY DEF Gone
  <1>9. Good(t)
    BY <1>4, <1>5, <1>6, <1>7, <1>8, SameServices DEF Good, Homed, Aliased
  <1> QED
    BY <1>5, <1>9 DEF t

\* The port of an idle service goes to a process; launchd keeps the right to
\* get it back, or only a send right.
LEMMA GivenGood ==
  ASSUME NEW s, Good(s), NEW m \in s.svc, m.alias = Nobody, ~m.isActive, NEW recv \in BOOLEAN,
         NEW t \in St,
         t.svc = (s.svc \ {m}) \cup {[m EXCEPT !.isActive = TRUE, !.recv = recv]},
         \A p \in Ports \ {m.port} : t.port[p] = s.port[p] /\ t.armed[p] = s.armed[p],
         t.port[m.port] = "process", s.armed[m.port] \subseteq t.armed[m.port],
         (IF recv THEN "port_destroyed" ELSE "dead_name") \in t.armed[m.port],
         t.job = s.job, t.dangling = s.dangling, Domains(t)
  PROVE  Good(t) /\ From(s, t)
  <1> DEFINE n == [m EXCEPT !.isActive = TRUE, !.recv = recv]
  <1>1. s \in St /\ m \in Service /\ m.port \in Ports
    BY DEF Good, St, Homed
  <1>2. /\ n.isActive /\ n.recv = recv /\ n.port = m.port /\ n.job = m.job /\ n.name = m.name
        /\ n.alias = Nobody /\ n.per_pid = m.per_pid
    BY <1>1 DEF Service
  <1>3. m.recv
    BY DEF Good, Rightful
  <1>4. t.svc = (s.svc \ {m}) \cup {n}
    OBVIOUS
  <1> HIDE DEF n
  <1>5. \A x \in s.svc : x.recv /\ x # m => x.port # m.port
    BY <1>3 DEF Good, OneReceiver
  <1>6. Homed(t) /\ Aliased(t)
    BY <1>1, <1>2, <1>4 DEF Good, Homed, Aliased
  <1>7. Rightful(t)
    <2> SUFFICES ASSUME NEW x \in t.svc, x.alias = Nobody
                 PROVE  /\ x.recv /\ ~x.isActive => t.port[x.port] = "launchd"
                        /\ x.recv /\ x.isActive => t.port[x.port] \in {"process", "returning"}
                                                 /\ "port_destroyed" \in t.armed[x.port]
                        /\ ~x.recv => x.isActive /\ t.port[x.port] # "unused" /\ "dead_name" \in t.armed[x.port]
      BY DEF Rightful
    <2>1. CASE x = n
      BY <2>1, <1>2
    <2>2. CASE x \in s.svc /\ x # m
      <3>1. x.port \in Ports
        BY <2>2 DEF Good, Homed
      <3>2. CASE x.port = m.port
        BY <2>2, <3>2, <1>5 DEF Good, Rightful
      <3>3. CASE x.port # m.port
        BY <2>2, <3>1, <3>3 DEF Good, Rightful
      <3> QED
        BY <3>2, <3>3
    <2> QED
      BY <2>1, <2>2, <1>4
  <1>8. OneReceiver(t)
    BY <1>2, <1>4, <1>5 DEF Good, OneReceiver
  <1>9. Wanted(t)
    <2> SUFFICES ASSUME NEW p \in Ports, t.port[p] = "launchd"
                 PROVE  \E x \in t.svc : x.port = p /\ x.recv /\ ~x.isActive
      BY DEF Wanted
    <2>1. p # m.port /\ s.port[p] = "launchd"
      OBVIOUS
    <2>2. PICK x \in s.svc : x.port = p /\ x.recv /\ ~x.isActive
      BY <2>1 DEF Good, Wanted
    <2> QED
      BY <2>1, <2>2, <1>4
  <1>10. Unique(t)
    BY <1>2, <1>4 DEF Good, Unique
  <1>11. From(s, t)
    BY <1>2, <1>4 DEF From
  <1>12. Linked(t)
    <2>1. Carried(s, t)
      BY <1>2, <1>4 DEF Carried
    <2> QED
      BY <2>1, LinkedStays
  <1> QED
    BY <1>6, <1>7, <1>8, <1>9, <1>10, <1>11, <1>12 DEF Good

\* A service on the port of a client: a port the client holds, or one that
\* launchd has not seen, perhaps dead already.
LEMMA RegisteredGood ==
  ASSUME NEW s, Good(s), NEW m \in Service, m.alias = Nobody, ~m.recv, m.isActive, m.port \in Ports,
         s.job[m.job] \notin Gone, m.per_pid \/ Listed(s, m.job[1], m.name) = {},
         NEW t \in St, t.svc = s.svc \cup {m},
         \A p \in Ports \ {m.port} : t.port[p] = s.port[p] /\ t.armed[p] = s.armed[p],
         \/ s.port[m.port] = "process" /\ t.port[m.port] = "process" /\ s.armed[m.port] \subseteq t.armed[m.port]
         \/ m.port \in Free(s) /\ t.port[m.port] \in {"process", "dead"},
         "dead_name" \in t.armed[m.port], t.job = s.job, t.bits = s.bits, t.inited = s.inited
         /\ t.closing = s.closing /\ t.dangling = s.dangling
  PROVE  Good(t)
  <1>1. \A x \in s.svc : x.port = m.port =>
          s.port[m.port] = "process" /\ t.port[m.port] = "process" /\ s.armed[m.port] \subseteq t.armed[m.port]
    BY DEF Free, Using
  <1>2. Homed(t) /\ Aliased(t) /\ OneReceiver(t) /\ Domains(t)
    BY DEF Good, Homed, Aliased, OneReceiver, Domains
  <1>3. Rightful(t)
    <2> SUFFICES ASSUME NEW x \in t.svc, x.alias = Nobody
                 PROVE  /\ x.recv /\ ~x.isActive => t.port[x.port] = "launchd"
                        /\ x.recv /\ x.isActive => t.port[x.port] \in {"process", "returning"}
                                                 /\ "port_destroyed" \in t.armed[x.port]
                        /\ ~x.recv => x.isActive /\ t.port[x.port] # "unused" /\ "dead_name" \in t.armed[x.port]
      BY DEF Rightful
    <2>1. CASE x = m
      BY <2>1
    <2>2. CASE x \in s.svc
      <3>1. x.port \in Ports
        BY <2>2 DEF Good, Homed
      <3>2. CASE x.port = m.port
        BY <2>2, <3>2, <1>1 DEF Good, Rightful
      <3>3. CASE x.port # m.port
        BY <2>2, <3>1, <3>3 DEF Good, Rightful
      <3> QED
        BY <3>2, <3>3
    <2> QED
      BY <2>1, <2>2
  <1>4. Wanted(t)
    <2>1. \A p \in Ports : t.port[p] = "launchd" => s.port[p] = "launchd"
      OBVIOUS
    <2> QED
      BY <2>1 DEF Good, Wanted
  <1>5. Unique(t)
    <2>1. \A x \in s.svc : ~(/\ ~m.per_pid /\ ~x.per_pid /\ m.name = x.name
                             /\ Space(m.job[1]) = Space(x.job[1]))
      BY DEF Listed
    <2> QED
      BY <2>1 DEF Good, Unique
  <1>6. Linked(t)
    <2>1. Carried(s, t)
      BY DEF Carried
    <2> QED
      BY <2>1, LinkedStays
  <1> QED
    BY <1>2, <1>3, <1>4, <1>5, <1>6 DEF Good

\* A receive right comes back that no service wants, and is closed.
LEMMA ClosedGood ==
  ASSUME NEW s, Good(s), NEW p \in Ports, s.port[p] = "returning",
         \A m \in s.svc : ~(m.port = p /\ m.recv),
         NEW t \in St, t.svc = s.svc, t.job = s.job, t.bits = s.bits, t.inited = s.inited
         /\ t.closing = s.closing /\ t.dangling = s.dangling,
         \A q \in Ports \ {p} : t.port[q] = s.port[q] /\ t.armed[q] = s.armed[q],
         t.port[p] = "dead", t.armed[p] = s.armed[p] \ {"port_destroyed"}
  PROVE  Good(t)
  <1>1. Homed(t) /\ Aliased(t) /\ OneReceiver(t) /\ Domains(t) /\ Unique(t) /\ Wanted(t) /\ Linked(t)
    BY DEF Good, Homed, Aliased, OneReceiver, Domains, Unique, Wanted, Linked
  <1>2. Rightful(t)
    <2> SUFFICES ASSUME NEW x \in s.svc, x.alias = Nobody
                 PROVE  /\ x.recv /\ ~x.isActive => t.port[x.port] = "launchd"
                        /\ x.recv /\ x.isActive => t.port[x.port] \in {"process", "returning"}
                                                 /\ "port_destroyed" \in t.armed[x.port]
                        /\ ~x.recv => x.isActive /\ t.port[x.port] # "unused" /\ "dead_name" \in t.armed[x.port]
      BY DEF Rightful
    <2>1. x.port \in Ports
      BY DEF Good, Homed
    <2> QED
      BY <2>1 DEF Good, Rightful
  <1> QED
    BY <1>1, <1>2 DEF Good

\* A receive right comes back to its service.
LEMMA BackGood ==
  ASSUME NEW s, Good(s), NEW m \in s.svc, m.recv, s.port[m.port] = "returning",
         NEW t \in St, t.svc = (s.svc \ {m}) \cup {[m EXCEPT !.isActive = FALSE]},
         t.job = s.job, t.bits = s.bits, t.inited = s.inited
         /\ t.closing = s.closing /\ t.dangling = s.dangling,
         \A q \in Ports \ {m.port} : t.port[q] = s.port[q] /\ t.armed[q] = s.armed[q],
         t.port[m.port] = "launchd", t.armed[m.port] = s.armed[m.port] \ {"port_destroyed"}
  PROVE  Good(t) /\ From(s, t)
  <1> DEFINE n == [m EXCEPT !.isActive = FALSE]
  <1>1. s \in St /\ m \in Service /\ m.alias = Nobody /\ m.port \in Ports
    BY DEF Good, St, Homed, Aliased
  <1>2. /\ ~n.isActive /\ n.recv /\ n.port = m.port /\ n.job = m.job /\ n.name = m.name
        /\ n.alias = Nobody /\ n.per_pid = m.per_pid
    BY <1>1 DEF Service
  <1>3. t.svc = (s.svc \ {m}) \cup {n}
    OBVIOUS
  <1> HIDE DEF n
  <1>4. \A x \in s.svc : x.recv /\ x # m => x.port # m.port
    BY DEF Good, OneReceiver
  <1>5. Homed(t) /\ Aliased(t) /\ Domains(t)
    BY <1>1, <1>2, <1>3 DEF Good, Homed, Aliased, Domains
  <1>6. Rightful(t)
    <2> SUFFICES ASSUME NEW x \in t.svc, x.alias = Nobody
                 PROVE  /\ x.recv /\ ~x.isActive => t.port[x.port] = "launchd"
                        /\ x.recv /\ x.isActive => t.port[x.port] \in {"process", "returning"}
                                                 /\ "port_destroyed" \in t.armed[x.port]
                        /\ ~x.recv => x.isActive /\ t.port[x.port] # "unused" /\ "dead_name" \in t.armed[x.port]
      BY DEF Rightful
    <2>1. CASE x = n
      BY <2>1, <1>2
    <2>2. CASE x \in s.svc /\ x # m
      <3>1. x.port \in Ports
        BY <2>2 DEF Good, Homed
      <3>2. CASE x.port = m.port
        BY <2>2, <3>2, <1>4 DEF Good, Rightful
      <3>3. CASE x.port # m.port
        BY <2>2, <3>1, <3>3 DEF Good, Rightful
      <3> QED
        BY <3>2, <3>3
    <2> QED
      BY <2>1, <2>2, <1>3
  <1>7. OneReceiver(t)
    BY <1>2, <1>3, <1>4 DEF Good, OneReceiver
  <1>8. Wanted(t)
    <2> SUFFICES ASSUME NEW p \in Ports, t.port[p] = "launchd"
                 PROVE  \E x \in t.svc : x.port = p /\ x.recv /\ ~x.isActive
      BY DEF Wanted
    <2>1. CASE p = m.port
      BY <2>1, <1>2, <1>3
    <2>2. CASE p # m.port
      <3>1. PICK x \in s.svc : x.port = p /\ x.recv /\ ~x.isActive
        BY <2>2 DEF Good, Wanted
      <3> QED
        BY <2>2, <3>1, <1>3
    <2> QED
      BY <2>1, <2>2
  <1>9. Unique(t)
    BY <1>1, <1>2, <1>3 DEF Good, Unique
  <1>10. From(s, t)
    BY <1>1, <1>2, <1>3 DEF From
  <1>11. Linked(t)
    <2>1. Carried(s, t)
      BY <1>1, <1>2, <1>3 DEF Carried
    <2> QED
      BY <2>1, LinkedStays
  <1> QED
    BY <1>5, <1>6, <1>7, <1>8, <1>9, <1>10, <1>11 DEF Good

\* An idle service gets another port: the old one dies, and who else uses it
\* is told.
LEMMA ResetGood ==
  ASSUME NEW s, Good(s), NEW m \in s.svc, m.recv, ~m.isActive
  PROVE  LET t == machservice_resetport(s, m)
         IN  Good(t) /\ From(s, t)
  <1> DEFINE p == m.port
             m0 == [m EXCEPT !.port = NoPort]
             a == Replace(s, m, m0)
             b == close_recv(a, p)
             c == deallocate(b, p)
             q == CHOOSE x \in Free(c) : TRUE
             n == [m EXCEPT !.port = q]
             t == machservice_resetport(s, m)
  <1>1. s \in St /\ m \in Service /\ m.alias = Nobody /\ p \in Ports
    BY DEF Good, St, Homed, Aliased
  <1>2. t = IF Free(c) = {} THEN s
            ELSE [Replace(c, m0, n) EXCEPT !.port[q] = "launchd", !.armed[q] = {}]
    BY DEF machservice_resetport
  <1>3. m0 \notin s.svc /\ m0.port = NoPort /\ m0 # m
    <2>1. NoPort \notin Ports
      BY DEF NoPort, Ports
    <2>2. m0.port = NoPort /\ m0.alias = Nobody
      BY <1>1 DEF Service
    <2> QED
      BY <1>1, <2>1, <2>2 DEF Good, Homed
  <1>4. /\ c.svc = (s.svc \ {m}) \cup {m0} /\ c.job = s.job /\ c.bits = s.bits /\ c.inited = s.inited
        /\ c.closing = s.closing /\ c.dangling = s.dangling
        /\ c.holder = s.holder /\ c.port = [s.port EXCEPT ![p] = "dead"]
        /\ c \in St
        /\ \A x \in Ports \ {p} : c.armed[x] = s.armed[x]
        /\ (\E x \in c.svc : x.port = p) => ("dead_name" \in s.armed[p] => "dead_name" \in c.armed[p])
    <2>1. a = [s EXCEPT !.svc = (s.svc \ {m}) \cup {m0}]
      BY DEF Replace
    <2> DEFINE ab == [s.armed EXCEPT ![p] = @ \ {"port_destroyed"}]
               ac == [ab EXCEPT ![p] = @ \ {"dead_name"}]
    <2>2. b = [s EXCEPT !.svc = (s.svc \ {m}) \cup {m0}, !.port = [s.port EXCEPT ![p] = "dead"], !.armed = ab]
      BY <1>1, <2>1 DEF close_recv, St
    <2>3. /\ b.svc = (s.svc \ {m}) \cup {m0} /\ b.job = s.job /\ b.bits = s.bits /\ b.inited = s.inited
          /\ b.closing = s.closing /\ b.dangling = s.dangling
          /\ b.holder = s.holder /\ b.port = [s.port EXCEPT ![p] = "dead"] /\ b.armed = ab
      BY <1>1, <2>2 DEF St
    <2>4. ab \in [Ports -> SUBSET Notes] /\ ac \in [Ports -> SUBSET Notes]
      BY <1>1 DEF St
    <2>5. /\ \A x \in Ports \ {p} : ab[x] = s.armed[x] /\ ac[x] = s.armed[x]
          /\ ab[p] = s.armed[p] \ {"port_destroyed"}
      BY <1>1 DEF St
    <2>6. c = IF \A x \in b.svc : x.port # p THEN [b EXCEPT !.armed = ac] ELSE b
      BY <2>3 DEF deallocate, Using
    <2> HIDE DEF a, b, c, ab, ac, m0
    <2>9. b \in St
      <3>1. m0 \in Service
        BY <1>1 DEF m0, Service
      <3>2. (s.svc \ {m}) \cup {m0} \in SUBSET Service /\ [s.port EXCEPT ![p] = "dead"] \in [Ports -> PortStates]
        BY <1>1, <3>1 DEF St, PortStates
      <3> QED
        BY <1>1, <2>2, <2>4, <3>2 DEF St
    <2>7. CASE \A x \in b.svc : x.port # p
      <3>1. c = [b EXCEPT !.armed = ac]
        BY <2>6, <2>7
      <3> QED
        BY <1>1, <2>3, <2>4, <2>5, <2>7, <2>9, <3>1 DEF St
    <2>8. CASE ~(\A x \in b.svc : x.port # p)
      <3>1. c = b
        BY <2>6, <2>8
      <3> QED
        BY <1>1, <2>3, <2>4, <2>5, <2>8, <2>9, <3>1 DEF St, Notes
    <2> QED
      BY <2>7, <2>8
  <1>5. CASE Free(c) = {}
    BY <1>2, <1>5, Fewer
  <1>6. CASE Free(c) # {}
    <2>1. q \in Ports /\ c.port[q] \in {"unused", "dead"} /\ \A x \in c.svc : x.port # q
      <3>1. q \in Free(c)
        BY <1>6
      <3> QED
        BY <3>1 DEF Free, Using
    <2> HIDE DEF c, q, m0, a, b
    <2>2. /\ n \in Service /\ ~n.isActive /\ n.recv /\ n.port = q /\ n.job = m.job /\ n.name = m.name
          /\ n.alias = Nobody /\ n.per_pid = m.per_pid
      BY <1>1, <2>1 DEF Service
    <2> HIDE DEF n
    <2> DEFINE sv == (s.svc \ {m}) \cup {n}
               po == [c.port EXCEPT ![q] = "launchd"]
               ar == [c.armed EXCEPT ![q] = {}]
    <2>3. t = [c EXCEPT !.svc = sv, !.port = po, !.armed = ar]
      <3>1. (c.svc \ {m0}) \cup {n} = sv
        BY <1>3, <1>4
      <3>2. Replace(c, m0, n) = [c EXCEPT !.svc = sv]
        BY <3>1 DEF Replace
      <3>3. t = [[c EXCEPT !.svc = sv] EXCEPT !.port[q] = "launchd", !.armed[q] = {}]
        BY <1>2, <1>6, <3>2
      <3> QED
        BY <1>4, <3>3 DEF St
    <2>4. sv \in SUBSET Service /\ po \in [Ports -> PortStates] /\ ar \in [Ports -> SUBSET Notes]
      BY <1>1, <1>4, <2>2 DEF St, PortStates
    <2> HIDE DEF t
    <2>5. t \in St
      BY <1>4, <2>3, <2>4 DEF St
    <2>6. /\ t.svc = sv /\ t.port = po /\ t.armed = ar /\ t.job = s.job /\ t.bits = s.bits /\ t.inited = s.inited
          /\ t.closing = s.closing /\ t.dangling = s.dangling
      BY <1>4, <2>3 DEF St
    <2>7. /\ t.port[q] = "launchd" /\ \A x \in Ports \ {p, q} : t.port[x] = s.port[x] /\ t.armed[x] = s.armed[x]
          /\ p # q => /\ t.port[p] = "dead" /\ t.armed[p] = c.armed[p]
      BY <1>1, <1>4, <2>1, <2>6 DEF St
    <2>8. \A x \in s.svc : x # m => x.port # q /\ (x.recv => x.port # p)
      BY <1>4, <2>1 DEF Good, OneReceiver
    <2>9. \A x \in s.svc : x # m => x \in c.svc
      BY <1>4
    <2>10. Homed(t) /\ Aliased(t) /\ Domains(t)
      BY <1>1, <2>1, <2>2, <2>6 DEF Good, Homed, Aliased, Domains
    <2>11. Rightful(t)
      <3> SUFFICES ASSUME NEW x \in sv, x.alias = Nobody
                   PROVE  /\ x.recv /\ ~x.isActive => t.port[x.port] = "launchd"
                          /\ x.recv /\ x.isActive => t.port[x.port] \in {"process", "returning"}
                                                   /\ "port_destroyed" \in t.armed[x.port]
                          /\ ~x.recv => x.isActive /\ t.port[x.port] # "unused" /\ "dead_name" \in t.armed[x.port]
        BY <2>6, Zenon DEF Rightful
      <3>1. CASE x = n
        BY <3>1, <2>2, <2>7
      <3>2. CASE x \in s.svc /\ x # m
        <4>1. x.port \in Ports /\ x.port # q
          BY <3>2, <2>8 DEF Good, Homed
        <4>2. CASE x.port = p
          BY <3>2, <4>1, <4>2, <1>4, <2>7, <2>8, <2>9 DEF Good, Rightful
        <4>3. CASE x.port # p
          BY <3>2, <4>1, <4>3, <2>7 DEF Good, Rightful
        <4> QED
          BY <4>2, <4>3
      <3> QED
        BY <3>1, <3>2
    <2>12. OneReceiver(t)
      BY <2>2, <2>6, <2>8 DEF Good, OneReceiver
    <2>13. Wanted(t)
      <3> SUFFICES ASSUME NEW x \in Ports, t.port[x] = "launchd"
                   PROVE  \E y \in sv : y.port = x /\ y.recv /\ ~y.isActive
        BY <2>6 DEF Wanted
      <3>1. CASE x = q
        BY <3>1, <2>2
      <3>2. CASE x # q
        <4>1. x # p /\ s.port[x] = "launchd"
          BY <3>2, <2>7
        <4>2. PICK y \in s.svc : y.port = x /\ y.recv /\ ~y.isActive
          BY <4>1 DEF Good, Wanted
        <4> QED
          BY <4>1, <4>2
      <3> QED
        BY <3>1, <3>2
    <2>14. Unique(t)
      BY <1>1, <2>2, <2>6 DEF Good, Unique
    <2>15. From(s, t)
      BY <1>1, <2>2, <2>6 DEF From
    <2>16. Linked(t)
      <3>1. Carried(s, t)
        BY <1>1, <2>2, <2>6 DEF Carried
      <3> QED
        BY <3>1, LinkedStays
    <2> QED
      BY <2>5, <2>10, <2>11, <2>12, <2>13, <2>14, <2>15, <2>16 DEF Good, t
  <1> QED
    BY <1>5, <1>6

-----------------------------------------------------------------------------
(* The actions: each leaves a sound state in which no name has changed     *)
(* hands.                                                                  *)

Fine(t) == Becomes(t) /\ Good(t) /\ Passed(State, t)

LEMMA StateFields ==
  /\ State.svc = svc /\ State.port = port /\ State.holder = holder /\ State.armed = armed
  /\ State.job = job /\ State.bits = bits /\ State.inited = inited /\ State.closing = closing
  /\ State.dangling = dangling
  BY DEF State

LEMMA LoadFine ==
  ASSUME Good(State), NEW j \in Jobs, Load(j)
  PROVE  \E t : Fine(t)
  <1>1. State.job[j] = "none"
    BY StateFields DEF Load
  <1>2. CASE j \in Legacy
    <2> DEFINE t == JobIs(State, j, "idle", {"checkedin", "senders"})
    <2>1. Becomes(t)
      BY <1>2 DEF Load, JobIs
    <2>2. Good(t) /\ t.svc = State.svc
      BY <1>1, JobGood DEF Bits
    <2> HIDE DEF t
    <2> QED
      BY <2>1, <2>2, Shrinks DEF Fine
  <1>3. CASE j \notin Legacy
    <2> DEFINE t == jobmgr_import2(State, j)
    <2>1. Becomes(t)
      BY <1>3 DEF Load
    <2>2. Good(t) /\ State.svc \subseteq t.svc
      BY <1>1, ImportGood
    <2> HIDE DEF t
    <2> QED
      BY <2>1, <2>2, Shrinks DEF Fine
  <1> QED
    BY <1>2, <1>3

LEMMA UnloadFine ==
  ASSUME Good(State), NEW j \in Jobs, Unload(j)
  PROVE  \E t : Fine(t)
  <1> DEFINE t == job_remove(State, j)
  <1>1. Becomes(t) /\ j \notin Lasting
    BY DEF Unload, IsXpc, Lasting
  <1>2. Good(t) /\ t.svc \subseteq State.svc
    BY <1>1, RemoveGood
  <1> HIDE DEF t
  <1> QED
    BY <1>1, <1>2, Shrinks DEF Fine

LEMMA SpawnFine ==
  ASSUME Good(State), NEW j \in Jobs, Spawn(j)
  PROVE  \E t : Fine(t)
  <1> DEFINE b == State.bits[j] \ {"checkedin"}
             t == JobIs(State, j, "running", b)
  <1>1. Becomes(t)
    BY DEF Spawn, JobIs
  <1>2. State.job[j] # "alias" /\ b \in SUBSET Bits /\ (j \in Lasting => "removal_pending" \notin b)
    BY StateFields DEF Spawn, Good, St, Domains
  <1> HIDE DEF b
  <1>3. Good(t) /\ t.svc = State.svc
    BY <1>2, JobGood
  <1> HIDE DEF t
  <1> QED
    BY <1>1, <1>3, Shrinks DEF Fine

\* A step that leaves the bits of the job alone.
LEMMA SameBits ==
  ASSUME Good(State), NEW j \in Jobs, NEW x
  PROVE  [State EXCEPT !.job[j] = x] = JobIs(State, j, x, State.bits[j])
  <1>1. [State.bits EXCEPT ![j] = State.bits[j]] = State.bits /\ State \in St
    BY DEF Good, St
  <1> QED
    BY <1>1 DEF St, JobIs

LEMMA DieFine ==
  ASSUME Good(State), NEW j \in Jobs, Die(j)
  PROVE  \E t : Fine(t)
  <1> DEFINE b == State.bits[j]
             s == [State EXCEPT !.job[j] = "exited"]
             t == lost(s, HeldBy(j))
  <1>1. Becomes(t) /\ State.job[j] = "running"
    BY StateFields DEF Die
  <1>2. Good(s) /\ s.svc = State.svc
    <2>1. b \in SUBSET Bits /\ (j \in Lasting => "removal_pending" \notin b)
      BY DEF Good, St, Domains
    <2>2. s = JobIs(State, j, "exited", b)
      BY SameBits
    <2> HIDE DEF b, s
    <2> QED
      BY <1>1, <2>1, <2>2, JobGood
  <1>3. s.port = State.port
    BY DEF State
  <1>4. HeldBy(j) \in SUBSET Ports /\ \A p \in HeldBy(j) : s.port[p] = "process"
    BY <1>3, StateFields DEF HeldBy
  <1> HIDE DEF s
  <1>5. Good(t) /\ t.svc = s.svc
    BY <1>2, <1>4, LostGood
  <1> HIDE DEF t
  <1> QED
    BY <1>1, <1>2, <1>5, Shrinks DEF Fine

LEMMA CloseFine ==
  ASSUME Good(State), NEW p \in Ports, Close(p)
  PROVE  \E t : Fine(t)
  <1> DEFINE t == lost(State, {p})
  <1>1. Becomes(t) /\ State.port[p] = "process"
    BY StateFields DEF Close
  <1>2. Good(t) /\ t.svc = State.svc
    BY <1>1, LostGood
  <1> HIDE DEF t
  <1> QED
    BY <1>1, <1>2, Shrinks DEF Fine

\* The labels of singleton domains are not those of visitors.
LEMMA ReapFine ==
  ASSUME Good(State), NEW j \in Jobs, Reap(j)
  PROVE  \E t : Fine(t)
  <1> DEFINE b == State.bits[j]
             s == [State EXCEPT !.job[j] = "idle"]
             u == IF j \in Visitors THEN job_remove(s, j) ELSE job_dispatch(s, j)
             t == jobmgr_do_garbage_collection(u)
  <1>1. Becomes(t) /\ State.job[j] = "exited"
    BY StateFields DEF Reap
  <1>2. Good(s) /\ s.svc = State.svc
    <2>1. b \in SUBSET Bits /\ (j \in Lasting => "removal_pending" \notin b)
      BY DEF Good, St, Domains
    <2>2. s = JobIs(State, j, "idle", b)
      BY SameBits
    <2> HIDE DEF b, s
    <2> QED
      BY <1>1, <2>1, <2>2, JobGood
  <1> HIDE DEF s
  <1>3. Good(u) /\ u.svc \subseteq s.svc
    <2>1. CASE j \in Visitors
      BY <2>1, <1>2, RemoveGood DEF Lasting
    <2>2. CASE j \notin Visitors
      BY <2>2, <1>2, DispatchGood
    <2> QED
      BY <2>1, <2>2
  <1> HIDE DEF u
  <1>4. Good(t) /\ t.svc \subseteq u.svc
    BY <1>3, CollectGood
  <1> HIDE DEF t
  <1> QED
    BY <1>1, <1>2, <1>3, <1>4, Shrinks DEF Fine

LEMMA NoSendersFine ==
  ASSUME Good(State), NEW j \in Jobs, NoSenders(j)
  PROVE  \E t : Fine(t)
  <1> DEFINE s == [State EXCEPT !.bits[j] = @ \ {"senders"}]
             t == job_dispatch(s, j)
  <1>1. Becomes(t)
    BY DEF NoSenders
  <1>2. Good(s) /\ s.svc = State.svc
    <2>1. State \in St
      BY DEF Good
    <2> DEFINE bt == [State.bits EXCEPT ![j] = @ \ {"senders"}]
    <2>2. s = [State EXCEPT !.bits = bt] /\ bt \in [Jobs -> SUBSET Bits]
      BY <2>1 DEF St
    <2> HIDE DEF s
    <2>3. s \in St
      BY <2>1, <2>2 DEF St
    <2>4. /\ s.svc = State.svc /\ s.port = State.port /\ s.armed = State.armed /\ s.job = State.job
          /\ s.inited = State.inited
          /\ s.closing = State.closing /\ s.dangling = State.dangling /\ \A k \in Jobs : s.bits[k] \subseteq State.bits[k]
      BY <2>1, <2>2 DEF St
    <2>5. Domains(s)
      BY <2>4 DEF Good, Domains, Lasting
    <2> QED
      BY <2>3, <2>4, <2>5, SameServices DEF Good, Homed, Aliased
  <1> HIDE DEF s
  <1>3. Good(t) /\ t.svc \subseteq s.svc
    BY <1>2, DispatchGood
  <1> HIDE DEF t
  <1> QED
    BY <1>1, <1>2, <1>3, Shrinks DEF Fine

LEMMA DeadNameFine ==
  ASSUME Good(State), NEW p \in Ports, DeadName(p)
  PROVE  \E t : Fine(t)
  <1> DEFINE gone == {m \in svc : m.port = p /\ ~m.recv}
             s == machservice_delete(State, gone)
             ar == [s.armed EXCEPT ![p] = @ \ {"dead_name"}]
             t == [s EXCEPT !.armed[p] = @ \ {"dead_name"}]
  <1>1. Becomes(t)
    BY DEF DeadName
  <1>2. Good(s) /\ s.svc = State.svc \ gone
    <2>1. gone \subseteq State.svc
      BY StateFields
    <2> HIDE DEF gone
    <2> QED
      BY <2>1, DeleteGood
  <1>3. \A m \in s.svc : m.port = p => m.recv
    BY <1>2, StateFields
  <1>4. s \in St
    BY <1>2 DEF Good
  <1> HIDE DEF s, gone
  <1>5. t = [s EXCEPT !.armed = ar] /\ ar \in [Ports -> SUBSET Notes]
    BY <1>4 DEF St
  <1> HIDE DEF t
  <1>6. t \in St
    BY <1>4, <1>5 DEF St
  <1>7. /\ t.svc = s.svc /\ t.port = s.port /\ t.job = s.job /\ t.bits = s.bits /\ t.inited = s.inited
        /\ t.closing = s.closing /\ t.dangling = s.dangling
        /\ t.armed[p] = s.armed[p] \ {"dead_name"} /\ \A q \in Ports \ {p} : t.armed[q] = s.armed[q]
    BY <1>4, <1>5 DEF St
  <1>8. Homed(t) /\ OneReceiver(t) /\ Wanted(t) /\ Unique(t) /\ Aliased(t) /\ Linked(t) /\ Domains(t)
    BY <1>2, <1>7 DEF Good, Homed, OneReceiver, Wanted, Unique, Aliased, Linked, Domains
  <1>9. Rightful(t)
    BY <1>2, <1>3, <1>7 DEF Good, Rightful, Homed
  <1>10. Good(t)
    BY <1>6, <1>8, <1>9 DEF Good
  <1>11. t.svc \subseteq State.svc
    BY <1>2, <1>7
  <1> QED
    BY <1>1, <1>10, <1>11, Shrinks DEF Fine

LEMMA DomainGoneFine ==
  ASSUME Good(State), NEW d \in Mgrs, DomainGone(d)
  PROVE  \E t : Fine(t)
  <1> DEFINE s == [State EXCEPT !.closing = @ \cup {d}]
             t == jobmgr_do_garbage_collection(s)
  <1>1. Becomes(t) /\ Kind[d] = "domain" /\ State \in St
    BY DEF DomainGone, Good
  <1>2. State.closing \cup {d} \in SUBSET Mgrs
    BY <1>1 DEF St
  <1>3. /\ s \in St /\ s.svc = State.svc /\ s.port = State.port /\ s.armed = State.armed /\ s.job = State.job
        /\ s.bits = State.bits /\ s.inited = State.inited /\ s.closing = State.closing \cup {d}
        /\ s.dangling = State.dangling
    BY <1>1, <1>2 DEF St
  <1> HIDE DEF s
  <1>4. Domains(s)
    BY <1>1, <1>3 DEF Good, Domains
  <1>5. Good(s)
    BY <1>3, <1>4, SameServices DEF Good, Homed, Aliased
  <1>6. Good(t) /\ t.svc \subseteq s.svc
    BY <1>5, CollectGood
  <1> HIDE DEF t
  <1> QED
    BY <1>1, <1>3, <1>6, Shrinks DEF Fine

LEMMA RequestGood ==
  ASSUME Good(State), cast \in Casts, NEW r \in Imports, Requested(r[1], r[2])
  PROVE  LET q == import_services(State, r[1], r[2])
         IN  /\ r[1] \in Mgrs /\ Kind[r[1]] = "domain"
             /\ Good(q.s) /\ State.svc \subseteq q.s.svc /\ q.s.inited = State.inited
  <1> DEFINE d == r[1]
             services == r[2]
             q == import_services(State, d, services)
  <1>1. /\ d \in Mgrs /\ Kind[d] = "domain" /\ services \in Seq({j[2] : j \in Jobs} \X Mgrs)
        /\ \A i \in 1..Len(services) : /\ services[i][2] = d \/ Kind[services[i][2]] = "singleton"
                                       /\ <<services[i][2], services[i][1]>> \notin Visitors \cup Legacy
    BY ImportsAssumption
  <1>2. \A i \in 1..Len(services) : <<d, services[i][1]>> \in Jobs /\ <<services[i][2], services[i][1]>> \in Jobs
    BY MachServicesAssumption DEF Requested
  <1> HIDE DEF d, services
  <1>3. Len(services) \in Nat
    BY <1>1
  <1>4. \A i \in 1..Len(services) : Importable(d, services[i][1], services[i][2])
    BY <1>1, <1>2 DEF Importable
  <1>5. Good(q.s) /\ State.svc \subseteq q.s.svc /\ q.s.inited = State.inited
    BY <1>3, <1>4, ServicesGood
  <1> QED
    BY <1>1, <1>5 DEF d, services

LEMMA LoadServicesFine ==
  ASSUME Good(State), cast \in Casts, NEW r \in Imports, LoadServices(r[1], r[2])
  PROVE  \E t : Fine(t)
  <1> DEFINE d == r[1]
             q == import_services(State, d, r[2])
  <1>1. Becomes(IF q.error THEN jobmgr_remove(q.s, {d}) ELSE [q.s EXCEPT !.inited = @ \cup {d}])
    BY DEF LoadServices
  <1>2. /\ d \in Mgrs /\ Kind[d] = "domain"
        /\ Good(q.s) /\ State.svc \subseteq q.s.svc /\ q.s.inited = State.inited
    BY RequestGood DEF LoadServices
  <1> HIDE DEF d, q
  <1>3. CASE q.error
    <2> DEFINE t == jobmgr_remove(q.s, {d})
    <2>1. Becomes(t)
      BY <1>1, <1>3
    <2>2. Good(t) /\ t.svc \subseteq q.s.svc
      <3> DEFINE D == {d}
      <3>1. \A e \in D : Kind[e] = "domain"
        BY <1>2
      <3> HIDE DEF D
      <3>2. LET e == jobmgr_remove(q.s, D)
            IN  Good(e) /\ e.svc \subseteq q.s.svc
        BY <1>2, <3>1, DomainsGood
      <3> QED
        BY <3>2 DEF D
    <2> HIDE DEF t
    <2>3. Passed(State, t)
      BY <1>2, <2>2, Fewer DEF Passed
    <2> QED
      BY <2>1, <2>2, <2>3 DEF Fine
  <1>4. CASE ~q.error
    <2> DEFINE t == [q.s EXCEPT !.inited = @ \cup {d}]
    <2>1. Becomes(t)
      BY <1>1, <1>4
    <2>2. q.s \in St
      BY <1>2 DEF Good
    <2>3. /\ t \in St /\ t.svc = q.s.svc /\ t.port = q.s.port /\ t.armed = q.s.armed /\ t.job = q.s.job
          /\ t.bits = q.s.bits /\ t.inited = q.s.inited \cup {d} /\ t.closing = q.s.closing
          /\ t.dangling = q.s.dangling
      BY <1>2, <2>2 DEF St
    <2> HIDE DEF t
    <2>4. Domains(t)
      BY <1>2, <2>3 DEF Good, Domains
    <2>5. Good(t)
      BY <1>2, <2>3, <2>4, SameServices DEF Good, Homed, Aliased
    <2>6. Passed(State, t)
      BY <1>2, <2>3, Fewer DEF Passed
    <2> QED
      BY <2>1, <2>5, <2>6 DEF Fine
  <1> QED
    BY <1>3, <1>4

LEMMA AddServicesFine ==
  ASSUME Good(State), cast \in Casts, NEW r \in Imports, AddServices(r[1], r[2])
  PROVE  \E t : Fine(t)
  <1> DEFINE t == import_services(State, r[1], r[2]).s
  <1>1. Becomes(t)
    BY DEF AddServices
  <1>2. Good(t) /\ State.svc \subseteq t.svc
    BY RequestGood DEF AddServices
  <1> HIDE DEF t
  <1>3. Passed(State, t)
    BY <1>2, Fewer DEF Passed
  <1> QED
    BY <1>1, <1>2, <1>3 DEF Fine

\* What asking for the notifications of a service changes.
LEMMA Asked ==
  ASSUME NEW s \in St, NEW m \in Service, m.port \in Ports
  PROVE  LET t == machservice_request_notifications(s, m)
         IN  /\ t \in St /\ t.svc = (s.svc \ {m}) \cup {[m EXCEPT !.isActive = TRUE]}
             /\ t.port = s.port /\ t.holder = s.holder /\ t.job = s.job /\ t.inited = s.inited
             /\ t.closing = s.closing /\ t.dangling = s.dangling
             /\ \A x \in Jobs : t.bits[x] \subseteq s.bits[x] \cup {"checkedin"}
             /\ ~m.recv => t.bits = s.bits
             /\ t.armed = [s.armed EXCEPT ![m.port] = @ \cup {IF m.recv THEN "port_destroyed" ELSE "dead_name"}]
  <1> DEFINE which == IF m.recv THEN "port_destroyed" ELSE "dead_name"
             sv == (s.svc \ {m}) \cup {[m EXCEPT !.isActive = TRUE]}
             ar == [s.armed EXCEPT ![m.port] = @ \cup {which}]
             bt == [s.bits EXCEPT ![m.job] = @ \cup (IF m.recv THEN {"checkedin"} ELSE {})]
             t == machservice_request_notifications(s, m)
  <1>1. t = [s EXCEPT !.svc = sv, !.armed = ar, !.bits = bt]
    BY DEF machservice_request_notifications, Replace, St
  <1>2. m.job \in Jobs /\ [m EXCEPT !.isActive = TRUE] \in Service
    BY DEF Service
  <1>3. sv \in SUBSET Service /\ ar \in [Ports -> SUBSET Notes] /\ bt \in [Jobs -> SUBSET Bits]
    BY <1>2 DEF St, Notes, Bits
  <1>4. \A x \in Jobs : bt[x] \subseteq s.bits[x] \cup {"checkedin"}
    BY <1>2 DEF St
  <1>5. ~m.recv => bt = s.bits
    BY <1>2 DEF St
  <1> HIDE DEF t, sv, ar, bt
  <1>6. /\ t \in St /\ t.svc = sv /\ t.armed = ar /\ t.bits = bt
        /\ t.port = s.port /\ t.holder = s.holder /\ t.job = s.job /\ t.inited = s.inited
        /\ t.closing = s.closing /\ t.dangling = s.dangling
    BY <1>1, <1>3 DEF St
  <1> QED
    BY <1>4, <1>5, <1>6 DEF t, sv, ar

\* The kernel moves a right.
LEMMA Gave ==
  ASSUME NEW s \in St, NEW p \in Ports, NEW k \in Jobs
  PROVE  LET t == give(s, p, k)
         IN  /\ t \in St /\ t.svc = s.svc /\ t.armed = s.armed /\ t.job = s.job /\ t.inited = s.inited
             /\ t.closing = s.closing /\ t.dangling = s.dangling
             /\ t.bits = s.bits /\ t.port = [s.port EXCEPT ![p] = "process"]
  <1> DEFINE po == [s.port EXCEPT ![p] = "process"]
             ho == [s.holder EXCEPT ![p] = k]
             t == give(s, p, k)
  <1>1. t = [s EXCEPT !.port = po, !.holder = ho]
    BY DEF give
  <1>2. po \in [Ports -> PortStates] /\ ho \in [Ports -> Jobs \cup {Nobody}]
    BY DEF St, PortStates
  <1> HIDE DEF t
  <1>3. /\ t \in St /\ t.svc = s.svc /\ t.armed = s.armed /\ t.job = s.job /\ t.inited = s.inited
        /\ t.closing = s.closing /\ t.dangling = s.dangling
        /\ t.bits = s.bits /\ t.port = po
    BY <1>1, <1>2 DEF St
  <1> QED
    BY <1>3 DEF t

\* The end of a check-in: notifications are asked for, the right is given away.
LEMMA HandedOver ==
  ASSUME NEW s, Good(s), NEW m \in s.svc, m.alias = Nobody, ~m.isActive,
         NEW j \in Jobs, NEW k \in Jobs, NEW x \in Service, NEW u \in St,
         x.port = m.port,
         (u.svc \ {x}) \cup {[x EXCEPT !.isActive = TRUE]} =
           (s.svc \ {m}) \cup {[m EXCEPT !.isActive = TRUE, !.recv = x.recv]},
         u.port = s.port, u.armed = s.armed, u.job = s.job, u.inited = s.inited
         /\ u.closing = s.closing /\ u.dangling = s.dangling, u.bits = s.bits,
         s.job[j] \notin Gone
  PROVE  LET b == [u EXCEPT !.bits[j] = @ \cup {"checkedin"}]
             t == give(machservice_request_notifications(b, x), x.port, k)
         IN  Good(t) /\ From(s, t)
  <1> DEFINE recv == x.recv
             bt == [u.bits EXCEPT ![j] = @ \cup {"checkedin"}]
             b == [u EXCEPT !.bits[j] = @ \cup {"checkedin"}]
             a == machservice_request_notifications(b, x)
             t == give(a, x.port, k)
             which == IF recv THEN "port_destroyed" ELSE "dead_name"
  <1>1. s \in St /\ m.port \in Ports
    BY DEF Good, Homed
  <1>12. recv \in BOOLEAN
    BY DEF Service
  <1>2. b = [u EXCEPT !.bits = bt] /\ bt \in [Jobs -> SUBSET Bits]
    BY DEF St, Bits
  <1>3. \A i \in Jobs : bt[i] \subseteq u.bits[i] \cup {"checkedin"}
    BY DEF St
  <1> HIDE DEF bt
  <1>4. /\ b \in St /\ b.svc = u.svc /\ b.port = u.port /\ b.armed = u.armed /\ b.job = u.job
        /\ b.inited = u.inited /\ b.closing = u.closing /\ b.dangling = u.dangling /\ b.bits = bt
    BY <1>2 DEF St
  <1> HIDE DEF b
  <1>5. /\ a \in St /\ a.svc = (b.svc \ {x}) \cup {[x EXCEPT !.isActive = TRUE]}
        /\ a.port = b.port /\ a.job = b.job /\ a.inited = b.inited
        /\ a.closing = b.closing /\ a.dangling = b.dangling
        /\ \A i \in Jobs : a.bits[i] \subseteq b.bits[i] \cup {"checkedin"}
        /\ a.armed = [b.armed EXCEPT ![x.port] = @ \cup {which}]
    BY <1>1, <1>4, Asked
  <1> HIDE DEF a
  <1>6. /\ t \in St /\ t.svc = a.svc /\ t.armed = a.armed /\ t.job = a.job /\ t.inited = a.inited
        /\ t.closing = a.closing /\ t.dangling = a.dangling
        /\ t.bits = a.bits /\ t.port = [a.port EXCEPT ![x.port] = "process"]
    BY <1>1, <1>5, Gave
  <1> HIDE DEF t
  <1>7. t.svc = (s.svc \ {m}) \cup {[m EXCEPT !.isActive = TRUE, !.recv = recv]}
    BY <1>4, <1>5, <1>6
  <1>8. /\ \A p \in Ports \ {m.port} : t.port[p] = s.port[p] /\ t.armed[p] = s.armed[p]
        /\ t.port[m.port] = "process" /\ s.armed[m.port] \subseteq t.armed[m.port]
        /\ which \in t.armed[m.port]
    BY <1>1, <1>4, <1>5, <1>6 DEF St
  <1>9. /\ t.job = s.job /\ t.inited = s.inited
        /\ t.closing = s.closing /\ t.dangling = s.dangling
        /\ \A i \in Jobs : t.bits[i] \subseteq s.bits[i] \cup {"checkedin"}
    BY <1>3, <1>4, <1>5, <1>6
  <1>10. Domains(t)
    BY <1>9 DEF Good, Domains, Lasting
  <1> HIDE DEF recv
  <1>11. Good(t) /\ From(s, t)
    <2>1. t \in St /\ t.job = s.job /\ t.dangling = s.dangling
      BY <1>6, <1>9
    <2> HIDE DEF which
    <2>2. which = IF recv THEN "port_destroyed" ELSE "dead_name"
      BY DEF which
    <2> QED
      BY <1>12, <1>7, <1>8, <1>10, <2>1, <2>2, GivenGood
  <1> QED
    BY <1>11 DEF t, a, b

\* What a lookup finds is listed, and it finds something when anything is.
LEMMA FirstListed ==
  ASSUME NEW s, NEW m, NEW n
  PROVE  First(s, m, n) \subseteq Listed(s, m, n) /\ (First(s, m, n) = {} => Listed(s, m, n) = {})
  BY DEF First

\* The service that a lookup finds, when there is one of the name.
LEMMA Found ==
  ASSUME NEW s, NEW j, NEW n, NEW per_pid \in BOOLEAN
  PROVE  LET found == jobmgr_lookup_service(s, j, n, per_pid)
         IN  /\ \A x \in found : x \in s.svc /\ x.name = n
             /\ found = {} => (per_pid \/ Listed(s, j[1], n) = {})
             /\ found = {} => \A x \in s.svc : ~(x.job = j /\ x.name = n /\ x.per_pid = per_pid)
  <1>1. CASE per_pid
    BY <1>1 DEF jobmgr_lookup_service, Of
  <1>2. CASE ~per_pid
    BY <1>2, FirstListed DEF jobmgr_lookup_service, Listed
  <1> QED
    BY <1>1, <1>2

\* The only service of its name is found.
LEMMA FoundOnly ==
  ASSUME NEW s, NEW w, NEW j, NEW n, NEW per_pid \in BOOLEAN, NEW m,
         jobmgr_lookup_service(w, j, n, per_pid) = {},
         m \in s.svc, \A x \in s.svc : x \in w.svc \/ x = m,
         m.job = j, m.name = n, m.per_pid = per_pid
  PROVE  jobmgr_lookup_service(s, j, n, per_pid) = {m}
  <1>1. CASE per_pid
    BY <1>1 DEF jobmgr_lookup_service, Of
  <1>2. CASE ~per_pid
    <2>1. Listed(w, j[1], n) = {}
      BY <1>2, Found
    <2>2. Listed(s, j[1], n) = {m}
      BY <1>2, <2>1 DEF Listed
    <2> QED
      BY <1>2, <2>2 DEF jobmgr_lookup_service, First
  <1> QED
    BY <1>1, <1>2

LEMMA CheckInFine ==
  ASSUME Good(State), NEW k \in Jobs, NEW j \in Jobs, NEW n \in Names, NEW strict, NEW per_pid \in BOOLEAN,
         CheckIn(k, j, n, strict, per_pid)
  PROVE  \E t : Fine(t)
  <1> DEFINE old == jobmgr_lookup_service(State, j, n, per_pid)
             s == IF old # {} THEN State ELSE check_in_new(State, j, n, per_pid)
             m == CHOOSE x \in jobmgr_lookup_service(s, j, n, per_pid) : TRUE
             b == [s EXCEPT !.bits[j] = @ \cup {"checkedin"}]
             t == give(machservice_request_notifications(b, m), m.port, k)
  <1>1. Becomes(t)
    BY DEF CheckIn
  <1>2. State \in St /\ State.job[j] \notin Gone
    <2>1. Speaks(k, j) /\ State \in St
      BY DEF CheckIn, Good
    <2>2. CASE k = j
      BY <2>1, <2>2, StateFields DEF Speaks, Gone
    <2>3. CASE "senders" \in bits[j]
      BY <2>1, <2>3, StateFields DEF Good, Domains
    <2> QED
      BY <2>1, <2>2, <2>3 DEF Speaks
  <1>3. \A x \in old : x.job = j /\ ~x.isActive /\ x \in State.svc
    <2>1. old # {} => \A x \in old : x.job = j /\ ~x.isActive
      BY DEF CheckIn, check_in_permitted
    <2> QED
      BY <2>1, Found
  <1>4. CASE old # {}
    <2>1. s = State /\ m \in old
      BY <1>4
    <2> HIDE DEF s, m, old
    <2>2. m \in State.svc /\ m \in Service /\ m.job = j /\ ~m.isActive
      BY <1>2, <1>3, <2>1 DEF St
    <2>3. m.alias = Nobody /\ m.port \in Ports
      BY <1>2, <2>2 DEF Good, Aliased, Homed, Gone
    <2>4. [m EXCEPT !.isActive = TRUE, !.recv = m.recv] = [m EXCEPT !.isActive = TRUE] /\ m.recv \in BOOLEAN
      BY <2>2 DEF Service
    <2>5. Good(t) /\ From(State, t)
      BY <1>2, <2>1, <2>2, <2>3, <2>4, HandedOver
    <2> HIDE DEF t
    <2>6. From(State, State)
      BY Fewer
    <2> QED
      BY <1>1, <2>5, <2>6 DEF Fine, Passed
  <1>5. CASE old = {}
    <2> DEFINE w == machservice_new(State, j, {n}, per_pid)
               m0 == CHOOSE x \in w.svc : x \notin State.svc
               m1 == [m0 EXCEPT !.isActive = TRUE, !.recv = FALSE]
    <2>1. s = IF j \in Legacy THEN w ELSE Replace(w, m0, m1)
      BY <1>5 DEF check_in_new
    <2>2. Injection({n}, Free(State)) # {}
      <3>1. PICK p \in Free(State) : TRUE
        BY <1>5 DEF CheckIn, check_in_permitted
      <3>2. [x \in {n} |-> p] \in Injection({n}, Free(State))
        BY DEF Injection, IsInjective
      <3> QED
        BY <3>2
    <2>3. per_pid \/ \A x \in {n} : Listed(State, j[1], x) = {}
      BY <1>5, Found
    <2>13. {n} \in SUBSET Names
      OBVIOUS
    <2>4. /\ Good(w) /\ State.svc \subseteq w.svc
          /\ \A x \in w.svc \ State.svc : \E p \in Ports : x = Made(j, x.name, per_pid, p) /\ x.name \in {n}
          /\ \A i \in {n} : \E x \in w.svc \ State.svc : x.name = i
          /\ \A x, y \in w.svc \ State.svc : x.name = y.name => x = y
          /\ w.job = State.job
      <3> DEFINE N == {n}
      <3>1. N \in SUBSET Names /\ Injection(N, Free(State)) # {} /\ (per_pid \/ \A x \in N : Listed(State, j[1], x) = {})
        BY <2>2, <2>3, <2>13
      <3> HIDE DEF N
      <3>2. LET v == machservice_new(State, j, N, per_pid)
            IN  /\ Good(v) /\ State.svc \subseteq v.svc
                /\ \A x \in v.svc \ State.svc : \E p \in Ports : x = Made(j, x.name, per_pid, p) /\ x.name \in N
                /\ \A i \in N : \E x \in v.svc \ State.svc : x.name = i
                /\ \A x, y \in v.svc \ State.svc : x.name = y.name => x = y
                /\ v.job = State.job
        BY <1>2, <3>1, NewGood
      <3> QED
        BY <3>2 DEF N
    <2>5. m0 \in w.svc /\ m0 \notin State.svc
      BY <2>4
    <2> HIDE DEF w, m0
    <2>6. \A x \in w.svc \ State.svc : x = m0
      BY <2>4, <2>5
    <2>7. PICK p \in Ports : m0 = Made(j, n, per_pid, p)
      BY <2>4, <2>5
    <2>8. /\ m0 \in Service /\ m0.job = j /\ m0.name = n /\ m0.per_pid = per_pid /\ m0.port = p
          /\ m0.recv = TRUE /\ m0.isActive = FALSE /\ m0.alias = Nobody
      BY <2>7 DEF Made, Service
    <2>9. /\ m1 \in Service /\ m1.job = j /\ m1.name = n /\ m1.per_pid = per_pid /\ m1.port = p
          /\ m1.recv = FALSE /\ m1.isActive = TRUE /\ m1.alias = Nobody
      BY <2>8 DEF Service
    <2>10. w \in St
      BY <2>4 DEF Good
    <2>11. CASE j \in Legacy
      <3>1. s = w
        BY <2>1, <2>11
      <3> HIDE DEF s
      <3>2. jobmgr_lookup_service(w, j, n, per_pid) = {m0}
        BY <1>5, <2>5, <2>6, <2>8, FoundOnly
      <3>4. m = m0
        BY <3>1, <3>2
      <3> HIDE DEF m
      <3>5. [m0 EXCEPT !.isActive = TRUE, !.recv = m0.recv] = [m0 EXCEPT !.isActive = TRUE]
        BY <2>8 DEF Service
      <3>6. Good(t) /\ From(w, t)
        BY <1>2, <2>4, <2>5, <2>8, <2>10, <3>1, <3>4, <3>5, HandedOver
      <3> HIDE DEF t
      <3>7. From(w, State)
        BY <2>4, Fewer
      <3> QED
        BY <1>1, <2>4, <3>6, <3>7 DEF Fine, Passed
    <2>12. CASE j \notin Legacy
      <3>1. s = [w EXCEPT !.svc = (w.svc \ {m0}) \cup {m1}]
        BY <2>1, <2>12 DEF Replace
      <3> HIDE DEF s, m1
      <3>2. /\ s \in St /\ s.svc = (w.svc \ {m0}) \cup {m1} /\ s.port = w.port /\ s.armed = w.armed
            /\ s.job = w.job /\ s.bits = w.bits /\ s.inited = w.inited
            /\ s.closing = w.closing /\ s.dangling = w.dangling
        BY <2>9, <2>10, <3>1 DEF St
      <3>3. m1 \in s.svc /\ \A x \in s.svc : x \in State.svc \/ x = m1
        BY <2>6, <3>2
      <3>4. jobmgr_lookup_service(s, j, n, per_pid) = {m1}
        BY <1>5, <2>9, <3>3, FoundOnly
      <3>5. m = m1
        BY <3>4
      <3> HIDE DEF m
      <3>6. [m1 EXCEPT !.isActive = TRUE] = m1
        BY <2>9 DEF Service
      <3>10. m1 = [m0 EXCEPT !.isActive = TRUE, !.recv = FALSE]
        BY DEF m1
      <3>7. (s.svc \ {m1}) \cup {[m1 EXCEPT !.isActive = TRUE]} =
              (w.svc \ {m0}) \cup {[m0 EXCEPT !.isActive = TRUE, !.recv = m1.recv]}
        BY <2>9, <3>2, <3>6, <3>10
      <3>8. Good(t) /\ From(w, t)
        <4>1. /\ Good(w) /\ m0 \in w.svc /\ m0.alias = Nobody /\ ~m0.isActive /\ m1 \in Service
              /\ m1.port = m0.port /\ w.job[j] \notin Gone
          BY <1>2, <2>4, <2>5, <2>8, <2>9
        <4>2. /\ s \in St /\ s.port = w.port /\ s.armed = w.armed /\ s.job = w.job
              /\ s.inited = w.inited
              /\ s.closing = w.closing /\ s.dangling = w.dangling /\ s.bits = w.bits
          BY <3>2
        <4>3. LET v == give(machservice_request_notifications(b, m1), m1.port, k)
              IN  Good(v) /\ From(w, v)
          BY <4>1, <4>2, <3>7, HandedOver
        <4> QED
          BY <4>3, <3>5
      <3> HIDE DEF t
      <3>9. From(w, State)
        BY <2>4, Fewer
      <3> QED
        BY <1>1, <2>4, <3>8, <3>9 DEF Fine, Passed
    <2> QED
      BY <2>11, <2>12
  <1> QED
    BY <1>4, <1>5

\* A name is registered only where there is none, so nothing is replaced; or
\* the job gives up its own idle service.
LEMMA RegisterFine ==
  ASSUME Good(State), NEW j \in Jobs, NEW n \in Names, NEW p \in Ports \cup {NoPort, Dead},
         NEW died \in BOOLEAN, NEW per_pid \in BOOLEAN, Register(j, n, p, per_pid, died)
  PROVE  \E t : Fine(t)
  <1> DEFINE old == jobmgr_lookup_service(State, j, n, per_pid)
             b == IF old = {} THEN State ELSE [State EXCEPT !.bits[j] = @ \cup {"checkedin"}]
             s == machservice_delete(b, old)
             t == IF died THEN [s EXCEPT !.port[p] = "dead", !.armed[p] = {}]
                  ELSE IF p \in Free(State) THEN [give(s, p, j) EXCEPT !.armed[p] = {}] ELSE s
             u == machservice_new_with(t, j, n, per_pid, p)
             m == CHOOSE x \in u.svc : x \notin t.svc
             v == machservice_request_notifications(u, m)
  <1>1. IF no_service(p) THEN old # {} /\ Becomes(s) ELSE Becomes(v)
    BY DEF Register
  <1>2. State \in St /\ State.job[j] \notin Gone
    BY StateFields DEF Good, Register, Gone
  <1>3. \A x \in old : x \in State.svc /\ x.job = j /\ ~x.isActive /\ ~(x.recv /\ p # NoPort)
    BY Found DEF Register, register_permitted
  <1>4. \A x \in old : x.recv
    BY <1>2, <1>3 DEF Good, Rightful, Aliased, Gone
  <1>5. Good(b) /\ b.svc = State.svc
    <2>1. CASE old = {}
      BY <2>1
    <2>2. CASE old # {}
      <3> DEFINE bt == [State.bits EXCEPT ![j] = @ \cup {"checkedin"}]
      <3>1. b = [State EXCEPT !.bits = bt] /\ bt \in [Jobs -> SUBSET Bits]
        BY <1>2, <2>2 DEF St, Bits
      <3>2. \A k \in Jobs : bt[k] \subseteq State.bits[k] \cup {"checkedin"}
        BY <1>2 DEF St
      <3> HIDE DEF b, bt
      <3>3. /\ b \in St /\ b.svc = State.svc /\ b.port = State.port /\ b.armed = State.armed
            /\ b.job = State.job /\ b.inited = State.inited
            /\ b.closing = State.closing /\ b.dangling = State.dangling /\ b.bits = bt
        BY <1>2, <3>1 DEF St
      <3>4. Domains(b)
        BY <3>2, <3>3 DEF Good, Domains, Lasting
      <3> QED
        BY <3>3, <3>4, SameServices DEF Good, Homed, Aliased
    <2> QED
      BY <2>1, <2>2
  <1>6. Good(s) /\ s.svc = State.svc \ old /\ (old = {} => s = b)
    <2>1. old \subseteq b.svc
      BY <1>3, <1>5
    <2> HIDE DEF old, b
    <2> QED
      BY <1>5, <2>1, DeleteGood
  <1>7. CASE no_service(p)
    <2>1. Becomes(s)
      BY <1>1, <1>7
    <2> HIDE DEF s
    <2> QED
      BY <1>6, <2>1, Shrinks DEF Fine
  <1>8. CASE ~no_service(p)
    <2>1. p \in Ports /\ p # NoPort
      BY <1>8 DEF no_service
    <2>2. old = {}
      BY <1>3, <1>4, <2>1
    <2>3. s = State
      BY <1>6, <2>2
    <2>4. /\ p \in HeldBy(j) \cup Free(State) /\ (died => p \in Free(State))
      BY <2>1, <1>8 DEF Register, no_service
    <2> DEFINE ar0 == [State.armed EXCEPT ![p] = {}]
    <2>5. /\ t \in St /\ t.svc = State.svc /\ t.job = State.job /\ t.bits = State.bits /\ t.inited = State.inited
          /\ t.closing = State.closing /\ t.dangling = State.dangling
          /\ \A q \in Ports \ {p} : t.port[q] = State.port[q] /\ t.armed[q] = State.armed[q]
          /\ \/ State.port[p] = "process" /\ t.port[p] = "process" /\ t.armed[p] = State.armed[p]
             \/ p \in Free(State) /\ t.port[p] \in {"process", "dead"}
      <3>1. CASE died
        <4> DEFINE po == [State.port EXCEPT ![p] = "dead"]
        <4>1. t = [State EXCEPT !.port = po, !.armed = ar0]
          BY <2>3, <3>1
        <4>2. po \in [Ports -> PortStates] /\ ar0 \in [Ports -> SUBSET Notes]
          BY <1>2 DEF St, PortStates
        <4> HIDE DEF t
        <4> QED
          BY <1>2, <2>1, <2>4, <3>1, <4>1, <4>2 DEF St
      <3>2. CASE ~died /\ p \in Free(State)
        <4> DEFINE g == give(State, p, j)
        <4>1. t = [g EXCEPT !.armed[p] = {}]
          BY <2>3, <3>2
        <4>2. /\ g \in St /\ g.svc = State.svc /\ g.armed = State.armed /\ g.job = State.job
              /\ g.inited = State.inited
              /\ g.closing = State.closing /\ g.dangling = State.dangling /\ g.bits = State.bits
              /\ g.port = [State.port EXCEPT ![p] = "process"]
          BY <1>2, <2>1, Gave
        <4> HIDE DEF g, t
        <4>3. t = [g EXCEPT !.armed = ar0] /\ ar0 \in [Ports -> SUBSET Notes]
          BY <1>2, <4>1, <4>2 DEF St
        <4> QED
          BY <1>2, <2>1, <3>2, <4>2, <4>3 DEF St
      <3>3. CASE ~died /\ p \notin Free(State)
        <4>1. t = State
          BY <2>3, <3>3
        <4>2. State.port[p] = "process"
          BY <2>4, <3>3, StateFields DEF HeldBy
        <4> HIDE DEF t
        <4> QED
          BY <1>2, <4>1, <4>2
      <3> QED
        BY <3>1, <3>2, <3>3
    <2> DEFINE new == [job |-> j, name |-> n, per_pid |-> per_pid, port |-> p, recv |-> FALSE,
                       isActive |-> TRUE, alias |-> Nobody]
    <2>6. /\ new \in Service /\ new.job = j /\ new.name = n /\ new.per_pid = per_pid /\ new.port = p
          /\ ~new.recv /\ new.isActive /\ new.alias = Nobody
      BY <2>1 DEF Service
    <2>19. new.isActive = TRUE
      OBVIOUS
    <2>18. [new EXCEPT !.isActive = TRUE] = new
      <3> HIDE DEF new
      <3> QED
        BY <2>6, <2>19 DEF Service
    <2>7. u = [t EXCEPT !.svc = t.svc \cup {new}]
      BY DEF machservice_new_with
    <2> HIDE DEF t, new, s
    <2>8. /\ u \in St /\ u.svc = State.svc \cup {new} /\ u.port = t.port /\ u.armed = t.armed
          /\ u.job = State.job /\ u.bits = State.bits /\ u.inited = State.inited
          /\ u.closing = State.closing /\ u.dangling = State.dangling
      BY <2>5, <2>6, <2>7 DEF St
    <2> HIDE DEF u
    <2>9. new \notin State.svc
      BY <2>2, <2>6, Found
    <2>10. m = new
      BY <2>5, <2>8, <2>9
    <2> HIDE DEF m
    <2>11. /\ v \in St /\ v.svc = (u.svc \ {new}) \cup {new} /\ v.port = u.port /\ v.job = u.job
           /\ v.inited = u.inited
           /\ v.closing = u.closing /\ v.dangling = u.dangling /\ v.bits = u.bits
           /\ v.armed = [u.armed EXCEPT ![p] = @ \cup {"dead_name"}]
      <3>1. new.port \in Ports /\ new \in Service /\ ~new.recv /\ new.port = p
        BY <2>1, <2>6
      <3>2. LET y == machservice_request_notifications(u, new)
            IN  /\ y \in St /\ y.svc = (u.svc \ {new}) \cup {[new EXCEPT !.isActive = TRUE]}
                /\ y.port = u.port /\ y.job = u.job /\ y.inited = u.inited
                /\ y.closing = u.closing /\ y.dangling = u.dangling /\ (~new.recv => y.bits = u.bits)
                /\ y.armed = [u.armed EXCEPT ![new.port] = @ \cup {IF new.recv THEN "port_destroyed" ELSE "dead_name"}]
        BY <2>8, <3>1, Asked
      <3> QED
        BY <2>10, <2>18, <3>1, <3>2
    <2>12. Becomes(v)
      BY <1>1, <1>8
    <2> HIDE DEF v
    <2>13. v.svc = State.svc \cup {new}
      BY <2>8, <2>11
    <2>14. /\ \A q \in Ports \ {p} : v.port[q] = State.port[q] /\ v.armed[q] = State.armed[q]
           /\ \/ State.port[p] = "process" /\ v.port[p] = "process" /\ State.armed[p] \subseteq v.armed[p]
              \/ p \in Free(State) /\ v.port[p] \in {"process", "dead"}
           /\ "dead_name" \in v.armed[p]
      BY <2>1, <2>5, <2>8, <2>11 DEF St
    <2>15. new.per_pid \/ Listed(State, new.job[1], new.name) = {}
      BY <2>2, <2>6, Found
    <2>16. Good(v)
      <3>1. v \in St /\ v.job = State.job /\ v.bits = State.bits /\ v.inited = State.inited
         /\ v.closing = State.closing /\ v.dangling = State.dangling
        BY <2>8, <2>11
      <3>2. State.job[new.job] \notin Gone /\ new.port \in Ports
        BY <1>2, <2>1, <2>6
      <3>3. /\ \A q \in Ports \ {new.port} : v.port[q] = State.port[q] /\ v.armed[q] = State.armed[q]
            /\ \/ State.port[new.port] = "process" /\ v.port[new.port] = "process"
                     /\ State.armed[new.port] \subseteq v.armed[new.port]
               \/ new.port \in Free(State) /\ v.port[new.port] \in {"process", "dead"}
            /\ "dead_name" \in v.armed[new.port]
        BY <2>6, <2>14
      <3>4. new \in Service /\ new.alias = Nobody /\ ~new.recv /\ new.isActive
        BY <2>6
      <3> QED
        BY <3>1, <3>2, <3>3, <3>4, <2>13, <2>15, RegisteredGood
    <2>17. Passed(State, v)
      BY <2>13, <2>16, Shrinks
    <2> QED
      BY <2>12, <2>16, <2>17 DEF Fine
  <1> QED
    BY <1>7, <1>8

LEMMA PortDestroyedFine ==
  ASSUME Good(State), NEW p \in Ports, PortDestroyed(p)
  PROVE  \E t : Fine(t)
  <1> DEFINE s   == [State EXCEPT !.port[p] = "launchd", !.armed[p] = @ \ {"port_destroyed"}]
             ms  == {m \in Using(s, p) : m.recv}
             m   == CHOOSE x \in ms : TRUE
             off == [m EXCEPT !.isActive = FALSE]
             t   == Replace(s, m, off)
             u   == IF m.name \in ResetNames THEN machservice_resetport(t, off) ELSE t
             po == [State.port EXCEPT ![p] = "launchd"]
             ar == [State.armed EXCEPT ![p] = @ \ {"port_destroyed"}]
  <1>1. State \in St /\ State.port[p] = "returning"
    BY StateFields DEF PortDestroyed, Good
  <1>2. Becomes(IF ms = {} THEN close_recv(s, p) ELSE jobmgr_do_garbage_collection(job_dispatch(u, m.job)))
    BY DEF PortDestroyed
  <1>3. s = [State EXCEPT !.port = po, !.armed = ar]
    BY <1>1 DEF St
  <1>4. po \in [Ports -> PortStates] /\ ar \in [Ports -> SUBSET Notes]
    BY <1>1 DEF St, PortStates
  <1> HIDE DEF s
  <1>5. /\ s \in St /\ s.svc = State.svc /\ s.port = po /\ s.armed = ar /\ s.job = State.job
        /\ s.bits = State.bits /\ s.inited = State.inited
        /\ s.closing = State.closing /\ s.dangling = State.dangling
    BY <1>1, <1>3, <1>4 DEF St
  <1>6. \A x : x \in ms <=> x \in State.svc /\ x.port = p /\ x.recv
    BY <1>5 DEF Using
  <1>7. CASE ms = {}
    <2> DEFINE c == close_recv(s, p)
               pc == [s.port EXCEPT ![p] = "dead"]
               ac == [s.armed EXCEPT ![p] = @ \ {"port_destroyed"}]
    <2>1. Becomes(c)
      BY <1>2, <1>7
    <2>2. c = [s EXCEPT !.port = pc, !.armed = ac] /\ pc \in [Ports -> PortStates] /\ ac \in [Ports -> SUBSET Notes]
      BY <1>5 DEF close_recv, St, PortStates
    <2> HIDE DEF c
    <2>3. /\ c \in St /\ c.svc = State.svc /\ c.port = pc /\ c.armed = ac /\ c.job = State.job
          /\ c.bits = State.bits /\ c.inited = State.inited
          /\ c.closing = State.closing /\ c.dangling = State.dangling
      BY <1>5, <2>2 DEF St
    <2>4. /\ \A q \in Ports \ {p} : c.port[q] = State.port[q] /\ c.armed[q] = State.armed[q]
          /\ c.port[p] = "dead" /\ c.armed[p] = State.armed[p] \ {"port_destroyed"}
      BY <1>1, <1>5, <2>3 DEF St
    <2>5. \A x \in State.svc : ~(x.port = p /\ x.recv)
      BY <1>6, <1>7
    <2>6. Good(c)
      <3>1. c \in St /\ c.svc = State.svc /\ c.job = State.job /\ c.bits = State.bits /\ c.inited = State.inited
         /\ c.closing = State.closing /\ c.dangling = State.dangling
        BY <2>3
      <3> QED
        BY <1>1, <2>4, <2>5, <3>1, ClosedGood
    <2> QED
      BY <2>1, <2>3, <2>6, Shrinks DEF Fine
  <1>8. CASE ms # {}
    <2>1. m \in State.svc /\ m.port = p /\ m.recv
      <3>1. m \in ms
        BY <1>8
      <3> QED
        BY <3>1, <1>6
    <2>2. Becomes(jobmgr_do_garbage_collection(job_dispatch(u, m.job)))
      BY <1>2, <1>8
    <2> HIDE DEF m, ms
    <2>3. m \in Service /\ m.job \in Jobs
      BY <1>1, <2>1 DEF St, Service
    <2>4. off \in Service /\ ~off.isActive /\ off.recv
      BY <2>1, <2>3 DEF Service
    <2>5. t = [s EXCEPT !.svc = (State.svc \ {m}) \cup {off}]
      BY <1>5 DEF Replace
    <2> HIDE DEF off
    <2>6. /\ t \in St /\ t.svc = (State.svc \ {m}) \cup {off} /\ t.port = po /\ t.armed = ar /\ t.job = State.job
          /\ t.bits = State.bits /\ t.inited = State.inited
          /\ t.closing = State.closing /\ t.dangling = State.dangling
      BY <1>1, <1>5, <2>4, <2>5 DEF St
    <2> HIDE DEF t
    <2>7. /\ \A q \in Ports \ {p} : t.port[q] = State.port[q] /\ t.armed[q] = State.armed[q]
          /\ t.port[p] = "launchd" /\ t.armed[p] = State.armed[p] \ {"port_destroyed"}
      BY <1>1, <2>6 DEF St
    <2>8. Good(t) /\ From(State, t)
      <3>1. t.svc = (State.svc \ {m}) \cup {[m EXCEPT !.isActive = FALSE]}
        BY <2>6 DEF off
      <3> QED
        BY <1>1, <2>1, <2>6, <2>7, <3>1, BackGood
    <2>9. Good(u) /\ From(t, u)
      <3>1. CASE m.name \in ResetNames
        <4>1. u = machservice_resetport(t, off) /\ off \in t.svc
          BY <3>1, <2>6
        <4> HIDE DEF u
        <4> QED
          BY <2>4, <2>8, <4>1, ResetGood
      <3>2. CASE m.name \notin ResetNames
        BY <3>2, <2>8, Fewer
      <3> QED
        BY <3>1, <3>2
    <2> HIDE DEF u
    <2> DEFINE v == job_dispatch(u, m.job)
               w == jobmgr_do_garbage_collection(v)
    <2>13. Good(v) /\ v.svc \subseteq u.svc
      BY <2>3, <2>9, DispatchGood
    <2>14. Becomes(w)
      BY <2>2
    <2> HIDE DEF v
    <2>10. Good(w) /\ w.svc \subseteq u.svc
      <3>1. Good(w) /\ w.svc \subseteq v.svc
        BY <2>13, CollectGood
      <3> HIDE DEF w
      <3> QED
        BY <2>13, <3>1
    <2> HIDE DEF w
    <2>11. From(State, w)
      <3>1. From(u, w)
        BY <2>10, Fewer
      <3>2. From(State, u)
        BY <2>8, <2>9 DEF From
      <3> QED
        BY <3>1, <3>2 DEF From
    <2>12. Passed(State, w)
      <3>1. From(State, State)
        BY Fewer
      <3> QED
        BY <2>11, <3>1 DEF Passed
    <2> QED
      BY <2>10, <2>12, <2>14 DEF Fine
  <1> QED
    BY <1>7, <1>8

-----------------------------------------------------------------------------
(* The behaviours.                                                         *)

IInv == Good(State) /\ cast \in Casts

LEMMA BecomesIs ==
  ASSUME NEW t \in St, Becomes(t)
  PROVE  State' = t /\ cast' = cast
  <1>1. /\ svc' = t.svc /\ port' = t.port /\ holder' = t.holder /\ armed' = t.armed
        /\ job' = t.job /\ bits' = t.bits /\ inited' = t.inited /\ closing' = t.closing
        /\ dangling' = t.dangling /\ cast' = cast
    BY DEF Becomes
  <1>2. t = [svc |-> t.svc, port |-> t.port, holder |-> t.holder, armed |-> t.armed, job |-> t.job,
             bits |-> t.bits, inited |-> t.inited, closing |-> t.closing, dangling |-> t.dangling]
    BY DEF St
  <1> QED
    BY <1>1, <1>2 DEF State

LEMMA InitGood ==
  ASSUME Init
  PROVE  IInv
  <1>1. /\ svc = {} /\ port \in [Ports -> PortStates] /\ holder \in [Ports -> Jobs \cup {Nobody}]
        /\ armed \in [Ports -> SUBSET Notes] /\ job \in [Jobs -> JobStates]
        /\ bits \in [Jobs -> SUBSET Bits] /\ inited = {} /\ closing = {} /\ dangling = {} /\ cast \in Casts
    BY DEF Init, PortStates, JobStates, Notes
  <1>2. State \in St
    BY <1>1 DEF State, St
  <1>3. /\ Homed(State) /\ Rightful(State) /\ OneReceiver(State) /\ Unique(State) /\ Aliased(State)
        /\ Linked(State)
    BY <1>1, StateFields DEF Homed, Rightful, OneReceiver, Unique, Aliased, Linked
  <1>4. Wanted(State)
    BY StateFields DEF Wanted, Init
  <1>5. Domains(State)
    <2>1. \A j \in Jobs : State.job[j] # "alias" /\ State.bits[j] = {}
      BY StateFields DEF Init
    <2>2. State.inited = {} /\ State.closing = {} /\ Lasting \subseteq Jobs
      BY <1>1, StateFields DEF Lasting
    <2> QED
      BY <2>1, <2>2 DEF Domains
  <1> QED
    BY <1>1, <1>2, <1>3, <1>4, <1>5 DEF IInv, Good

\* What an action leaves is the next state.
LEMMA FineStep ==
  ASSUME cast \in Casts, \E t : Fine(t)
  PROVE  Good(State') /\ cast' \in Casts /\ Passed(State, State')
  <1>1. PICK t : Fine(t)
    OBVIOUS
  <1>2. Becomes(t) /\ Good(t) /\ Passed(State, t)
    BY <1>1 DEF Fine
  <1>3. t \in St
    BY <1>2 DEF Good
  <1>4. State' = t /\ cast' = cast
    BY <1>2, <1>3, BecomesIs
  <1> QED
    BY <1>2, <1>4

LEMMA NextGood ==
  ASSUME Good(State), cast \in Casts, [Next]_vars
  PROVE  Good(State') /\ cast' \in Casts /\ Passed(State, State')
  <1>1. cast \subseteq Jobs
    BY MachServicesAssumption
  <1>2. \A j \in cast : PerPid(j) \subseteq BOOLEAN
    BY DEF PerPid
  <1>3. ASSUME NEW j \in cast, Load(j) PROVE \E t : Fine(t)
    BY <1>1, <1>3, LoadFine
  <1>4. ASSUME NEW j \in cast, Unload(j) PROVE \E t : Fine(t)
    BY <1>1, <1>4, UnloadFine
  <1>5. ASSUME NEW j \in cast, Spawn(j) PROVE \E t : Fine(t)
    BY <1>1, <1>5, SpawnFine
  <1>6. ASSUME NEW j \in cast, Die(j) PROVE \E t : Fine(t)
    BY <1>1, <1>6, DieFine
  <1>7. ASSUME NEW j \in cast, Reap(j) PROVE \E t : Fine(t)
    BY <1>1, <1>7, ReapFine
  <1>8. ASSUME NEW j \in cast, NoSenders(j) PROVE \E t : Fine(t)
    BY <1>1, <1>8, NoSendersFine
  <1>9. ASSUME NEW k \in cast, NEW j \in cast, NEW strict \in BOOLEAN, NEW n \in Asks[k], NEW per_pid \in PerPid(j),
               CheckIn(k, j, n, strict, per_pid)
        PROVE  \E t : Fine(t)
    <2>1. k \in Jobs /\ j \in Jobs /\ n \in Names
      BY <1>1, MachServicesAssumption
    <2>2. per_pid \in BOOLEAN
      BY <1>2
    <2> QED
      BY <1>9, <2>1, <2>2, CheckInFine
  <1>10. ASSUME NEW j \in cast, NEW p \in Ports \cup {NoPort, Dead}, NEW died \in BOOLEAN,
                NEW n \in Asks[j], NEW per_pid \in PerPid(j), Register(j, n, p, per_pid, died)
         PROVE  \E t : Fine(t)
    <2>1. j \in Jobs /\ n \in Names
      BY <1>1, MachServicesAssumption
    <2>2. per_pid \in BOOLEAN
      BY <1>2
    <2> QED
      BY <1>10, <2>1, <2>2, RegisterFine
  <1>11. ASSUME NEW p \in Ports, Close(p) PROVE \E t : Fine(t)
    BY <1>11, CloseFine
  <1>12. ASSUME NEW p \in Ports, PortDestroyed(p) PROVE \E t : Fine(t)
    BY <1>12, PortDestroyedFine
  <1>13. ASSUME NEW p \in Ports, DeadName(p) PROVE \E t : Fine(t)
    BY <1>13, DeadNameFine
  <1>14. ASSUME NEW r \in Imports, LoadServices(r[1], r[2]) PROVE \E t : Fine(t)
    BY <1>14, LoadServicesFine
  <1>15. ASSUME NEW r \in Imports, AddServices(r[1], r[2]) PROVE \E t : Fine(t)
    BY <1>15, AddServicesFine
  <1>16. ASSUME NEW d \in Mgrs, DomainGone(d) PROVE \E t : Fine(t)
    BY <1>16, DomainGoneFine
  <1>17. CASE Next
    <2>1. \E t : Fine(t)
      BY <1>3, <1>4, <1>5, <1>6, <1>7, <1>8, <1>9, <1>10, <1>11, <1>12, <1>13, <1>14, <1>15, <1>16, <1>17
         DEF Next
    <2> QED
      BY <2>1, FineStep
  <1>18. CASE UNCHANGED vars
    <2>1. State' = State /\ cast' = cast
      BY <1>18 DEF vars, State
    <2>2. Passed(State, State)
      BY DEF Passed, From
    <2> QED
      BY <2>1, <2>2
  <1> QED
    BY <1>17, <1>18

LEMMA IInvStep == IInv /\ [Next]_vars => IInv'
  BY NextGood DEF IInv

LEMMA IInvAlways == Spec => []IInv
  <1>1. Init => IInv
    BY InitGood
  <1> QED
    BY <1>1, IInvStep, PTL DEF Spec

-----------------------------------------------------------------------------
(* The properties.                                                         *)

\* In every reachable state the services of a namespace have names of their own,
\* and an alias stands for a job that is still there and for a service of it, or
\* for one that was freed and whose record says so: whatever services
\* machservice_setup(), job_mig_check_in2(), job_mig_register2() and
\* _xpc_domain_import_service() make and however many domains come and go.  That
\* no alias names a freed service is not so (AliasesLead).
THEOREM NamesAlwaysSound == Spec => []NamesSound
  <1>1. IInv => NamesSound
    <2> SUFFICES ASSUME IInv PROVE NamesSound
      OBVIOUS
    <2>1. UniqueName
      BY StateFields DEF IInv, Good, Unique, UniqueName
    <2>2. AliasAlive
      <3> SUFFICES ASSUME NEW m \in svc, m.alias # Nobody
                   PROVE  job[m.alias] \notin {"none", "alias"} /\ (m \in dangling \/ Targets(State, m) # {})
        BY DEF AliasAlive
      <3>1. job[m.alias] \notin {"none", "alias"}
        BY StateFields DEF IInv, Good, Aliased, Gone
      <3>2. ASSUME m \notin dangling PROVE Targets(State, m) # {}
        <4>1. PICK o \in State.svc : Behind(o, m)
          BY <3>2, StateFields DEF IInv, Good, Linked
        <4>2. o \in Targets(State, m)
          BY <4>1 DEF Targets, Behind
        <4> QED
          BY <4>2
      <3> QED
        BY <3>1, <3>2
    <2> QED
      BY <2>1, <2>2 DEF NamesSound
  <1> QED
    BY <1>1, IInvAlways, PTL

\* In every reachable state the receive right of each of launchd's own ports is
\* where isActive says, launchd will get it back when it is away, and it holds
\* none that no service uses (machservice_delete(), machservice_resetport(),
\* job_ack_port_destruction()).
THEOREM RightsAlwaysKept == Spec => []RightsKept
  <1>1. IInv => RightsKept
    <2> SUFFICES ASSUME IInv PROVE RightsKept
      OBVIOUS
    <2>1. TypeOK
      BY StateFields DEF IInv, Good, St, Linked, TypeOK, PortStates, JobStates, Notes
    <2>2. RightsAgree
      BY StateFields DEF IInv, Good, Homed, Rightful, RightsAgree, Gone
    <2>3. NoLeak
      <3> SUFFICES ASSUME NEW p \in Ports, port[p] = "launchd"
                   PROVE  \E m \in Using(State, p) : m.recv /\ ~m.isActive
        BY DEF NoLeak
      <3>1. PICK m \in State.svc : m.port = p /\ m.recv /\ ~m.isActive
        BY StateFields DEF IInv, Good, Wanted
      <3> QED
        BY <3>1 DEF Using
    <2> QED
      BY <2>1, <2>2, <2>3 DEF RightsKept
  <1> QED
    BY <1>1, IInvAlways, PTL

\* What a lookup finds is a service, of this or of a manager above.
LEMMA FoundIsService ==
  ASSUME NEW s, NEW j, NEW n
  PROVE  look_up_found(s, j, n) \subseteq s.svc
  <1>1. \A a : First(s, a, n) \subseteq s.svc
    BY FirstListed DEF Listed
  <1>2. lookup_above(s, j[1], n) \subseteq s.svc
    BY <1>1 DEF lookup_above
  <1> QED
    BY <1>1, <1>2 DEF look_up_found

\* What it hands out is the port of a service, also through an alias that was
\* not left behind.
LEMMA HandedOutIsReal ==
  ASSUME NEW s, NEW m \in s.svc, m \notin s.dangling, NEW p \in handed_out(s, m)
  PROVE  \E o \in s.svc : o.alias = Nobody /\ o.port = p
  <1>1. CASE m.alias = Nobody
    BY <1>1 DEF handed_out
  <1>2. CASE m.alias # Nobody
    BY <1>2 DEF handed_out, Targets
  <1> QED
    BY <1>1, <1>2

\* In every reachable state, what a lookup (job_mig_look_up2()) hands out is a
\* port that somebody receives on, or one of whose death launchd is about to be
\* told: also when it died before launchd_mport_notify_req() was called, and
\* through an alias whose service is there still.  Of an alias whose service was
\* freed nothing can be said: the lookup reads freed memory (AliasesLead).
THEOREM DeathAlwaysNoticed == Spec => []DeathNoticed
  <1>1. IInv => DeathNoticed
    <2> SUFFICES ASSUME IInv, NEW j \in Jobs, NEW n \in Names, NEW a \in look_up_found(State, j, n) \ dangling,
                        NEW p \in handed_out(State, a)
                 PROVE  \/ port[p] \in {"launchd", "process", "returning"}
                        \/ port[p] = "dead" /\ "dead_name" \in armed[p]
      BY DEF DeathNoticed
    <2>1. PICK m \in svc : m.alias = Nobody /\ m.port = p
      BY FoundIsService, HandedOutIsReal, StateFields
    <2>2. m.port \in Ports
      BY <2>1, StateFields DEF IInv, Good, Homed
    <2>3. port[m.port] \in PortStates
      BY <2>2, StateFields DEF IInv, Good, St
    <2>4. /\ m.recv /\ ~m.isActive => port[m.port] = "launchd"
          /\ m.recv /\ m.isActive => port[m.port] \in {"process", "returning"}
          /\ ~m.recv => port[m.port] # "unused" /\ "dead_name" \in armed[m.port]
      BY <2>1, StateFields DEF IInv, Good, Rightful
    <2>5. CASE m.recv
      BY <2>1, <2>4, <2>5
    <2>6. CASE ~m.recv
      BY <2>1, <2>3, <2>4, <2>6 DEF PortStates
    <2> QED
      BY <2>5, <2>6
  <1> QED
    BY <1>1, IInvAlways, PTL

-----------------------------------------------------------------------------
(* The abstract name service.                                              *)

NameSpaces == {Space(m) : m \in Mgrs}

\* The services that offer a name in a state, and the job they belong to
OfferedIn(s, e) ==
  {m \in s.svc : m.alias = Nobody /\ ~m.per_pid /\ m.name = e[2] /\ Space(m.job[1]) = e[1]}

OwnerIn(s, e) == OwnerOf(OfferedIn(s, e))

OwnersIn(s) == [e \in NameSpaces \X Names |-> OwnerIn(s, e)]

\* A name that has an owner in both of two states has the same one.
LEMMA SameOwner ==
  ASSUME NEW s, NEW t, Passed(s, t), NEW e,
         OfferedIn(s, e) # {}, OfferedIn(t, e) # {}
  PROVE  OwnerIn(s, e) = OwnerIn(t, e)
  <1>1. PICK w : Good(w) /\ From(w, s) /\ From(w, t)
    BY DEF Passed
  <1> DEFINE x == CHOOSE m \in OfferedIn(s, e) : TRUE
             y == CHOOSE m \in OfferedIn(t, e) : TRUE
  <1>2. x \in OfferedIn(s, e) /\ y \in OfferedIn(t, e)
    OBVIOUS
  <1>3. OwnerIn(s, e) = x.job /\ OwnerIn(t, e) = y.job
    BY DEF OwnerIn, OwnerOf
  <1> HIDE DEF x, y
  <1>4. PICK m \in w.svc : m.alias = Nobody /\ m.job = x.job /\ m.name = x.name /\ m.per_pid = x.per_pid
    BY <1>1, <1>2 DEF From, OfferedIn
  <1>5. PICK n \in w.svc : n.alias = Nobody /\ n.job = y.job /\ n.name = y.name /\ n.per_pid = y.per_pid
    BY <1>1, <1>2 DEF From, OfferedIn
  <1>6. /\ ~x.per_pid /\ x.name = e[2] /\ Space(x.job[1]) = e[1]
        /\ ~y.per_pid /\ y.name = e[2] /\ Space(y.job[1]) = e[1]
    BY <1>2 DEF OfferedIn
  <1>7. m = n
    <2>1. ~m.per_pid /\ ~n.per_pid /\ m.name = n.name /\ Space(m.job[1]) = Space(n.job[1])
      BY <1>4, <1>5, <1>6
    <2> QED
      BY <1>1, <1>4, <1>5, <2>1 DEF Good, Unique
  <1> QED
    BY <1>3, <1>4, <1>5, <1>7

LEMMA OwnerType ==
  ASSUME NEW s \in St, NEW e
  PROVE  OwnerIn(s, e) \in Jobs \cup {Nobody} /\ (OfferedIn(s, e) # {} => OwnerIn(s, e) \in Jobs)
  <1> DEFINE x == CHOOSE m \in OfferedIn(s, e) : TRUE
  <1>1. CASE OfferedIn(s, e) = {}
    BY <1>1 DEF OwnerIn, OwnerOf
  <1>2. CASE OfferedIn(s, e) # {}
    <2>1. x \in OfferedIn(s, e)
      BY <1>2
    <2>2. OwnerIn(s, e) = x.job
      BY <1>2 DEF OwnerIn, OwnerOf
    <2> HIDE DEF x
    <2>3. x \in Service
      BY <2>1 DEF OfferedIn, St
    <2> QED
      BY <2>2, <2>3 DEF Service
  <1> QED
    BY <1>1, <1>2

\* The services implement the abstract name service: between any two states
\* of a behaviour a name goes from one job to another only by being free. The
\* exchange of a service in job_mig_register2(), a removal in job_dispatch()
\* and an import that fails half way take names away or add some, and what a
\* request leaves and what it found were both part of one sound state.
THEOREM ImplementsNameService == Spec => NamesKept
  <1> DEFINE owner == [e \in NameSpaces \X Names |-> OwnerOf(Offered(e[1], e[2]))]
  <1>1. \A e : Offered(e[1], e[2]) = OfferedIn(State, e)
    BY StateFields DEF Offered, OfferedIn
  <1>2. owner = OwnersIn(State)
    BY <1>1 DEF OwnersIn, OwnerIn
  <1>3. Init => Service_of!Init
    <2> SUFFICES ASSUME Init PROVE owner = [e \in NameSpaces \X Names |-> Nobody]
      BY DEF Service_of!Init, NameSpaces
    <2> QED
      BY DEF Init, Offered, OwnerOf
  <1>4. ASSUME IInv, [Next]_vars PROVE [Service_of!Next]_owner
    <2>1. Good(State) /\ Good(State') /\ Passed(State, State')
      BY <1>4, NextGood DEF IInv
    <2>2. owner' = OwnersIn(State')
      <3>1. \A e : Offered(e[1], e[2])' = OfferedIn(State', e)
        BY DEF Offered, OfferedIn, State
      <3> QED
        BY <3>1 DEF OwnersIn, OwnerIn
    <2>3. OwnersIn(State') \in [NameSpaces \X Names -> Jobs \cup {Nobody}]
      BY <2>1, OwnerType DEF OwnersIn, Good
    <2>4. ASSUME NEW e \in NameSpaces \X Names, OwnersIn(State')[e] # OwnersIn(State)[e]
          PROVE  Nobody \in {OwnersIn(State)[e], OwnersIn(State')[e]}
      <3>1. OwnerIn(State', e) # OwnerIn(State, e)
        BY <2>4 DEF OwnersIn
      <3>2. OfferedIn(State, e) = {} \/ OfferedIn(State', e) = {}
        BY <2>1, <3>1, SameOwner
      <3> QED
        BY <3>2 DEF OwnersIn, OwnerIn, OwnerOf
    <2> HIDE DEF owner
    <2>5. Service_of!Next
      BY <1>2, <2>2, <2>3, <2>4 DEF Service_of!Next, Service_of!Owners, owner, NameSpaces
    <2> QED
      BY <2>5
  <1> QED
    BY <1>3, <1>4, IInvAlways, PTL DEF Spec, NamesKept, Service_of!Spec, owner, NameSpaces
=============================================================================
