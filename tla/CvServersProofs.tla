---------------------------- MODULE CvServersProofs ----------------------------
(***************************************************************************)
(* Theorems about the computer vision servers of a host, for any number of *)
(* runs, dev sessions, machines, ports and servers.                        *)
(***************************************************************************)
EXTENDS CvServers, WellFoundedInduction, TLAPS

\* A server that was started has a starter and a port.
Born ==
  \A p \in Pid : /\ server[p].state = "unborn" => server[p].by = None
                 /\ server[p].state # "unborn" => server[p].by # None

\* Whatever a run or session keeps of servers, as a handle, in its memory or on
\* record, is a server of its own.
Mine(m, r) ==
  /\ m.child # None => server[m.child].by = r
  /\ m.known # None => server[m.known].by = r
Owned ==
  /\ \A w \in View : /\ Mine(manager[w], w[1])
                     /\ record[w].pid # None => server[record[w].pid].by = w[1]
  /\ \A r \in Run : Mine(spare[r], r)

\* A server of a run that is not gone is the child of a machine whose manager is
\* still to be stopped.
HeldOf(r) ==
  /\ why[r] = "begin" /\ session[r] = "none" /\ pc[r] # "restart"
  /\ pc[r] = "ready" => at[r] = 1
  /\ \A p \in Pid : server[p].by = r /\ server[p].state # "gone" =>
       /\ pc[r] \notin {"choose", "ended"}
       /\ \E i \in 1..Count[r] :
            /\ manager[<<r, i>>].child = p
            /\ pc[r] = "stop" => at[r] <= i
            /\ pc[r] = "start" => i < at[r]
            /\ pc[r] = "probe" => i <= at[r]
Held == \A r \in Run \ Dev : HeldOf(r)

\* Two servers do not have one port.
PortUnique == \A p, q \in Pid, port \in Port \cup {None} : Bound(p, port) /\ Bound(q, port) => p = q

\* Where a session that can be taken up again stands.
StandingOf(r) ==
  /\ pc[r] \in {"out", "ready", "restart"} => session[r] \in {"running", "stopped"}
  /\ pc[r] \in {"start", "probe"} /\ why[r] # "begin" => session[r] \in {"running", "stopped"}
  /\ pc[r] = "choose" => session[r] = "none" /\ why[r] = "begin"
  /\ session[r] = "removed" => pc[r] = "ended"
  /\ session[r] \in {"running", "stopped"} => record[<<r, 1>>].port # None
  /\ pc[r] \in {"start", "probe", "ready", "restart"} => manager[<<r, 1>>].port # None
  /\ pc[r] \in {"start", "probe"} /\ why[r] = "restart" => spare[r].port = manager[<<r, 1>>].port
  /\ pc[r] \in {"start", "probe", "ready", "restart"} /\ session[r] \in {"running", "stopped"} =>
       record[<<r, 1>>].port = manager[<<r, 1>>].port
Standing == \A r \in Dev : StandingOf(r)

\* All servers of a session were started at one port, which the session keeps.
OnePortOf(r) ==
  /\ \A p, q \in Pid : server[p].by = r /\ server[q].by = r => server[p].port = server[q].port
  /\ \A p \in Pid : server[p].by = r =>
       /\ pc[r] # "choose"
       /\ pc[r] \in {"start", "probe", "ready", "restart"} =>
            manager[<<r, 1>>].port = server[p].port
       /\ pc[r] \in {"start", "probe"} /\ why[r] = "restart" => spare[r].port = server[p].port
       /\ session[r] \in {"running", "stopped"} => record[<<r, 1>>].port = server[p].port
OnePort == \A r \in Dev : OnePortOf(r)

Inv == TypeOK /\ Born /\ Owned /\ NeverKillsForeign /\ Held /\ PortUnique /\ Standing /\ OnePort

Server == [state : {"unborn", "loading", "serving", "stopping", "gone"},
           by : Run \cup {None}, port : Port \cup {None}, killer : Run \cup {None}]
ManagerSet == [port : Port \cup {None}, child : Pid \cup {None}, known : Pid \cup {None}]
RecordSet == [port : Port \cup {None}, pid : Pid \cup {None}]
Place == {"choose", "start", "probe", "ready", "stop", "restart", "out", "ended", "dead"}

\* A step of a run or session, and what it leaves alone.
Acts(r) == Step(r) \/ Order(r) \/ Crash(r)
Others(r) ==
  /\ \A s \in Run : s # r => /\ pc'[s] = pc[s] /\ at'[s] = at[s] /\ why'[s] = why[s]
                             /\ session'[s] = session[s] /\ spare'[s] = spare[s]
  /\ \A w \in View : w[1] # r => manager'[w] = manager[w] /\ record'[w] = record[w]

\* What may become of a server.
Newborn(p, r) ==
  /\ Spawn(r) /\ server[p].state = "unborn"
  /\ server'[p].state = "loading" /\ server'[p].by = r /\ server'[p].port = manager[v(r)].port
  /\ server'[p].killer = server[p].killer
  /\ manager'[v(r)].child = p
Older(p) ==
  /\ server[p].state # "unborn"
  /\ server'[p].by = server[p].by /\ server'[p].port = server[p].port
  /\ server'[p].killer \in {server[p].killer, server[p].by}
  /\ \/ server'[p].state = "gone"
     \/ server'[p].state = "stopping" /\ server[p].state \in {"serving", "stopping"}
     \/ server'[p].state = "serving" /\ server[p].state = "loading" /\ ~_is_port_in_use(server[p].port)

Typed ==
  /\ manager' \in [View -> ManagerSet] /\ spare' \in [Run -> ManagerSet]
  /\ record' \in [View -> RecordSet]
  /\ session' \in [Run -> {"none", "running", "stopped", "removed"}]
  /\ pc' \in [Run -> Place]
  /\ at' \in [Run -> Nat] /\ \A r \in Run : at'[r] \in 1..Count[r]
  /\ why' \in [Run -> {"begin", "resume", "restart"}]
  /\ commands' \in 0..Commands

-----------------------------------------------------------------------------

LEMMA LowestIn ==
  ASSUME NEW S \in SUBSET Nat, S # {} PROVE Lowest(S) \in S
<1>1. \E x \in S : \A y \in S : ~ (<<y, x>> \in OpToRel(<, Nat))
  BY WFMin, NatLessThanWellFounded
<1>2. ASSUME NEW x \in S, NEW y \in S, ~ (x <= y) PROVE <<y, x>> \in OpToRel(<, Nat)
  <2>1. x \in Nat /\ y \in Nat /\ y < x BY <1>2
  <2> QED BY <2>1 DEF OpToRel
<1>3. \E x \in S : \A y \in S : x <= y BY <1>1, <1>2
<1> QED BY <1>3 DEF Lowest

LEMMA Views ==
  ASSUME NEW r \in Run, NEW i \in 1..Count[r]
  PROVE  <<r, i>> \in View /\ <<r, i>>[1] = r
BY DEF View

LEMMA ViewOf == \A w \in View : \E r \in Run : \E i \in 1..Count[r] : w = <<r, i>> /\ w[1] = r
BY DEF View

LEMMA Here1 ==
  ASSUME TypeOK, NEW r \in Run
  PROVE  /\ v(r) \in View /\ v(r)[1] = r /\ v(r) = <<r, at[r]>> /\ <<r, 1>> \in View
         /\ r \in Dev => v(r) = <<r, 1>>
<1> USE ServersAssumption
<1>1. at[r] \in 1..Count[r] /\ 1 \in 1..Count[r] BY DEF TypeOK
<1>2. r \in Dev => at[r] = 1 BY <1>1
<1> QED BY <1>1, <1>2, Views DEF v

\* A port is found when there is one.
LEMMA PortFound == Free # {} => find_free_cv_port \in Port
<1>1. Free \in SUBSET Nat /\ Free \subseteq Port BY ServersAssumption DEF Free
<1> QED BY <1>1, LowestIn DEF find_free_cv_port

\* A start spawns a server that was never there, or fails.
LEMMA SpawnStep ==
  ASSUME TypeOK, NEW r \in Run, Spawn(r)
  PROVE  \/ \E p \in Pid :
              /\ server[p].state = "unborn"
              /\ server' = [server EXCEPT ![p] = [@ EXCEPT !.state = "loading", !.by = r,
                                                           !.port = manager[v(r)].port]]
              /\ manager' = [manager EXCEPT ![v(r)].child = p, ![v(r)].known = p]
              /\ Goes(r, "probe") /\ UNCHANGED at
         \/ /\ Failed(r) /\ UNCHANGED server
            /\ manager' = [manager EXCEPT ![v(r)] = IF why[r] = "restart" THEN spare[r] ELSE @]
<1> DEFINE unborn == {p \in Pid : server[p].state = "unborn"}
<1>1. unborn # {} => Lowest(unborn) \in Pid /\ server[Lowest(unborn)].state = "unborn"
  <2>1. unborn \in SUBSET Nat BY ServersAssumption
  <2> HIDE DEF unborn
  <2>2. unborn # {} => Lowest(unborn) \in unborn BY <2>1, LowestIn
  <2> QED BY <2>2 DEF unborn
<1> QED BY <1>1 DEF Spawn

\* What a stop does to the servers and managers: it ends servers of its own only.
LEMMA StopStep ==
  ASSUME TypeOK, Born, Owned, NEW w \in View, NEW force \in BOOLEAN, Stop(w, force)
  PROVE  /\ server' \in [Pid -> Server] /\ manager' \in [View -> ManagerSet]
         /\ \A p \in Pid :
              \/ server'[p] = server[p]
              \/ /\ server[p].state # "unborn" /\ server[p].by = w[1]
                 /\ server'[p].by = server[p].by /\ server'[p].port = server[p].port
                 /\ server'[p].killer = w[1]
                 /\ \/ server'[p].state = "gone"
                    \/ server'[p].state = "stopping" /\ server[p].state \in {"serving", "stopping"}
         /\ \A u \in View : u # w => manager'[u] = manager[u]
         /\ manager'[w].port = manager[w].port
         /\ manager'[w].child \in {manager[w].child, None}
         /\ manager'[w].known \in {manager[w].known, None}
         /\ ~force => \A p \in Pid :
              \/ server'[p] = server[p]
              \/ p = manager[w].child /\ server'[p].state = "gone"
         /\ ~force /\ manager'[w] # manager[w] =>
              manager[w].child \in Pid /\ server'[manager[w].child].state = "gone"
         /\ ~force /\ manager[w].child \in Pid =>
              server'[manager[w].child].state \in {"unborn", "gone"}
<1> DEFINE m == manager[w]
<1>0. /\ server \in [Pid -> Server] /\ manager \in [View -> ManagerSet] /\ w[1] \in Run
      /\ m \in ManagerSet /\ None \notin Pid
  BY ViewOf, ServersAssumption DEF TypeOK, Server, ManagerSet
<1>1. CASE Alive(m.child)
  <2>1. m.child \in Pid /\ server[m.child].by = w[1] /\ server[m.child].state # "unborn"
    BY <1>0, <1>1 DEF Alive, ManagerSet, Owned, Mine, Born
  <2>2. /\ server' = [server EXCEPT ![m.child] = [server[m.child] EXCEPT !.state = "gone", !.killer = w[1]]]
        /\ manager' = [manager EXCEPT ![w] = Manager(m.port, None)]
    BY <1>1 DEF Stop
  <2>3. Manager(m.port, None) \in ManagerSet BY <1>0 DEF Manager, ManagerSet
  <2>4. [server[m.child] EXCEPT !.state = "gone", !.killer = w[1]] \in Server
    <3>1. ASSUME NEW x \in Server, NEW s \in Run
          PROVE  [x EXCEPT !.state = "gone", !.killer = s] \in Server
      BY DEF Server
    <3> QED BY <1>0, <2>1, <3>1
  <2>5. server' \in [Pid -> Server] /\ manager' \in [View -> ManagerSet]
    BY <1>0, <2>2, <2>3, <2>4
  <2>6. manager'[w] = Manager(m.port, None) /\ \A u \in View : u # w => manager'[u] = manager[u]
    BY <1>0, <2>2
  <2>7. /\ server'[m.child].state = "gone" /\ server'[m.child].killer = w[1]
        /\ server'[m.child].by = server[m.child].by /\ server'[m.child].port = server[m.child].port
        /\ \A p \in Pid : p # m.child => server'[p] = server[p]
    BY <1>0, <2>1, <2>2 DEF Server
  <2> QED BY <2>1, <2>5, <2>6, <2>7 DEF Manager
<1>2. CASE ~Alive(m.child)
  <2> DEFINE ours == {p \in Pid : force /\ _is_our_cv_server(w, p)}
             Hit(p) == [server[p] EXCEPT !.state = "stopping", !.killer = w[1]]
  <2>1. /\ server' = [p \in Pid |-> IF p \in ours THEN Hit(p) ELSE server[p]]
        /\ manager' = IF ours = {} THEN manager ELSE [manager EXCEPT ![w] = [m EXCEPT !.known = None]]
    BY <1>2 DEF Stop
  <2>2. ASSUME NEW p \in ours PROVE server[p].state \in {"serving", "stopping"} /\ server[p].by = w[1]
    BY <1>0, <2>2 DEF _is_our_cv_server, Bound, Owned, Mine
  <2>3. ASSUME NEW p \in Pid
        PROVE  /\ Hit(p) \in Server /\ Hit(p).state = "stopping" /\ Hit(p).killer = w[1]
               /\ Hit(p).by = server[p].by /\ Hit(p).port = server[p].port
    BY <1>0 DEF Server
  <2>4. [m EXCEPT !.known = None] \in ManagerSet
        /\ [m EXCEPT !.known = None].child = m.child /\ [m EXCEPT !.known = None].port = m.port
        /\ [m EXCEPT !.known = None].known = None
    BY <1>0 DEF ManagerSet
  <2>5. ~force => ours = {} OBVIOUS
  <2>6. m.child \in Pid => server[m.child].state \in {"unborn", "gone"}
    BY <1>0, <1>2 DEF Alive, Server
  <2> HIDE DEF ours, Hit
  <2>7. server' \in [Pid -> Server] BY <1>0, <2>1, <2>3
  <2>8. \A p \in Pid : server'[p] = IF p \in ours THEN Hit(p) ELSE server[p] BY <2>1
  <2>9. manager' \in [View -> ManagerSet] BY <1>0, <2>1, <2>4
  <2>10. /\ \A u \in View : u # w => manager'[u] = manager[u]
         /\ manager'[w] \in {m, [m EXCEPT !.known = None]}
         /\ ours = {} => manager'[w] = m
    BY <1>0, <2>1
  <2>11. \A p \in Pid : \/ server'[p] = server[p]
                       \/ /\ server[p].state # "unborn" /\ server[p].by = w[1]
                          /\ server'[p].by = server[p].by /\ server'[p].port = server[p].port
                          /\ server'[p].killer = w[1] /\ server'[p].state = "stopping"
                          /\ server[p].state \in {"serving", "stopping"}
    BY <2>2, <2>3, <2>8
  <2>12. /\ manager'[w].port = m.port /\ manager'[w].child = m.child
         /\ manager'[w].known \in {m.known, None}
    BY <2>4, <2>10
  <2>13. ~force => manager'[w] = m /\ \A p \in Pid : server'[p] = server[p]
    BY <2>5, <2>8, <2>10
  <2>14. ~force /\ m.child \in Pid => server'[m.child].state \in {"unborn", "gone"}
    BY <2>6, <2>13
  <2> QED BY <2>7, <2>9, <2>10, <2>11, <2>12, <2>13, <2>14
<1> QED BY <1>1, <1>2

\* Every set keeps its type, and a step of r is about r.
LEMMA Frame ==
  ASSUME Inv, NEW r \in Run, Acts(r) PROVE Typed /\ Others(r)
<1> USE ServersAssumption DEF Place
<1>0. /\ server \in [Pid -> Server] /\ manager \in [View -> ManagerSet] /\ spare \in [Run -> ManagerSet]
      /\ record \in [View -> RecordSet]
      /\ session \in [Run -> {"none", "running", "stopped", "removed"}]
      /\ pc \in [Run -> Place]
      /\ at \in [Run -> Nat] /\ (\A s \in Run : at[s] \in 1..Count[s])
      /\ why \in [Run -> {"begin", "resume", "restart"}] /\ commands \in 0..Commands
  BY DEF Inv, TypeOK, Server, ManagerSet, RecordSet
<1>1. /\ v(r) \in View /\ v(r)[1] = r /\ <<r, 1>> \in View /\ (r \in Dev => v(r) = <<r, 1>>)
      /\ <<r, 1>>[1] = r /\ Count[r] \in Nat \ {0} /\ manager[v(r)] \in ManagerSet
  BY <1>0, Here1 DEF Inv
<1>2. ASSUME Failed(r)
      PROVE  /\ pc' \in [Run -> Place]
             /\ at' \in [Run -> Nat] /\ (\A s \in Run : at'[s] \in 1..Count[s])
             /\ \A s \in Run : s # r => pc'[s] = pc[s] /\ at'[s] = at[s]
  <2>1. at' = [at EXCEPT ![r] = 1] BY <1>2 DEF Failed
  <2>2. PICK l \in {"stop", "ended", "out", "ready"} : pc' = [pc EXCEPT ![r] = l]
    BY <1>0, <1>2 DEF Failed, Goes
  <2> QED BY <1>0, <1>1, <2>1, <2>2
<1>3. ASSUME Started(r)
      PROVE  /\ pc' \in [Run -> Place]
             /\ at' \in [Run -> Nat] /\ (\A s \in Run : at'[s] \in 1..Count[s])
             /\ session' \in [Run -> {"none", "running", "stopped", "removed"}]
             /\ record' \in [View -> RecordSet]
             /\ \A s \in Run : s # r => pc'[s] = pc[s] /\ at'[s] = at[s] /\ session'[s] = session[s]
             /\ \A w \in View : w[1] # r => record'[w] = record[w]
  <2>1. /\ record' = [record EXCEPT ![v(r)] = [port |-> manager[v(r)].port, pid |-> manager[v(r)].known]]
    BY <1>3 DEF Started
  <2>2. [port |-> manager[v(r)].port, pid |-> manager[v(r)].known] \in RecordSet
    BY <1>1 DEF ManagerSet, RecordSet
  <2>3. record' \in [View -> RecordSet] /\ \A w \in View : w[1] # r => record'[w] = record[w]
    BY <1>0, <1>1, <2>1, <2>2
  <2> QED BY <1>0, <1>1, <1>3, <2>3 DEF Started, Goes
<1>4. ASSUME NEW w \in View, w[1] = r, NEW m \in ManagerSet, manager' = [manager EXCEPT ![w] = m]
      PROVE  manager' \in [View -> ManagerSet] /\ \A u \in View : u[1] # r => manager'[u] = manager[u]
  BY <1>0, <1>4
<1>5. ASSUME NEW force \in BOOLEAN, Stop(v(r), force)
      PROVE  manager' \in [View -> ManagerSet] /\ \A u \in View : u[1] # r => manager'[u] = manager[u]
  BY <1>1, <1>5, StopStep DEF Inv
<1>6. ASSUME NEW label, Command(r, label) PROVE commands' \in 0..Commands
  BY <1>0, <1>6 DEF Command
<1>7. CASE Choose(r)
  <2>1. CASE Free = {}
    BY <1>0, <1>2, <1>7, <2>1 DEF Choose, Here, Typed, Others
  <2>2. CASE Free # {}
    <3>1. Manager(find_free_cv_port, None) \in ManagerSet
      BY <2>2, PortFound DEF Manager, ManagerSet
    <3>2. manager' = [manager EXCEPT ![v(r)] = Manager(find_free_cv_port, None)]
      BY <1>7, <2>2 DEF Choose
    <3>3. manager' \in [View -> ManagerSet] /\ \A u \in View : u[1] # r => manager'[u] = manager[u]
      BY <1>1, <1>4, <3>1, <3>2
    <3> QED BY <1>0, <1>1, <1>7, <2>2, <3>3 DEF Choose, Here, Goes, Typed, Others
  <2> QED BY <2>1, <2>2
<1>8. ASSUME manager' = [manager EXCEPT ![v(r)] = spare[r]]
      PROVE  manager' \in [View -> ManagerSet] /\ \A u \in View : u[1] # r => manager'[u] = manager[u]
  BY <1>0, <1>1, <1>8
<1>9. CASE Attach(r)
  <2>1. CASE why[r] = "restart"
    BY <1>0, <1>2, <1>8, <1>9, <2>1 DEF Attach, Here, Typed, Others
  <2>2. CASE why[r] # "restart"
    BY <1>0, <1>3, <1>9, <2>2 DEF Attach, Here, Typed, Others
  <2> QED BY <2>1, <2>2
<1>10. CASE Spawn(r)
  <2>1. ASSUME NEW p \in Pid, manager' = [manager EXCEPT ![v(r)].child = p, ![v(r)].known = p]
        PROVE  manager' \in [View -> ManagerSet] /\ \A u \in View : u[1] # r => manager'[u] = manager[u]
    <3>1. [manager[v(r)] EXCEPT !.child = p, !.known = p] \in ManagerSet
      BY <1>1 DEF ManagerSet
    <3>2. manager' = [manager EXCEPT ![v(r)] = [manager[v(r)] EXCEPT !.child = p, !.known = p]]
      BY <1>0, <1>1, <2>1
    <3> QED BY <1>1, <1>4, <3>1, <3>2
  <2>2. manager' = [manager EXCEPT ![v(r)] = IF why[r] = "restart" THEN spare[r] ELSE @]
        => /\ manager' \in [View -> ManagerSet] /\ \A u \in View : u[1] # r => manager'[u] = manager[u]
    BY <1>0, <1>1
  <2>3. manager' \in [View -> ManagerSet] /\ \A u \in View : u[1] # r => manager'[u] = manager[u]
    BY <1>10, <2>1, <2>2, SpawnStep DEF Inv
  <2>4. /\ pc' \in [Run -> Place]
        /\ at' \in [Run -> Nat] /\ (\A s \in Run : at'[s] \in 1..Count[s])
        /\ \A s \in Run : s # r => pc'[s] = pc[s] /\ at'[s] = at[s]
    <3>1. CASE Goes(r, "probe") /\ UNCHANGED at BY <1>0, <3>1 DEF Goes
    <3>2. CASE Failed(r) BY <1>2, <3>2
    <3> QED BY <1>10, <3>1, <3>2, SpawnStep DEF Inv
  <2> QED BY <1>0, <1>10, <2>3, <2>4 DEF Spawn, Here, Typed, Others
<1>11. CASE Answered(r) BY <1>0, <1>3, <1>11 DEF Answered, Here, Typed, Others
<1>12. CASE Unready(r)
  <2>1. [manager[v(r)] EXCEPT !.child = None] \in ManagerSet BY <1>1 DEF ManagerSet
  <2>2. manager' \in [View -> ManagerSet] /\ \A u \in View : u[1] # r => manager'[u] = manager[u]
    BY <1>1, <1>4, <1>8, <1>12, <2>1 DEF Unready
  <2> QED BY <1>0, <1>2, <1>12, <2>2 DEF Unready, Here, Typed, Others
<1>13. CASE RunOver(r) BY <1>0, <1>13 DEF RunOver, Here, Goes, Typed, Others
<1>14. CASE Shutdown(r)
  <2>1. manager' \in [View -> ManagerSet] /\ \A u \in View : u[1] # r => manager'[u] = manager[u]
    BY <1>5, <1>14 DEF Shutdown
  <2>2. /\ at' \in [Run -> Nat] /\ (\A s \in Run : at'[s] \in 1..Count[s])
        /\ pc' \in [Run -> Place]
        /\ \A s \in Run : s # r => pc'[s] = pc[s] /\ at'[s] = at[s]
    BY <1>0, <1>1, <1>14 DEF Shutdown, Goes
  <2> QED BY <1>0, <1>14, <2>1, <2>2 DEF Shutdown, Here, Typed, Others
<1>15. CASE Exit(r)
  <2>1. Manager(None, None) \in ManagerSet BY DEF Manager, ManagerSet
  <2>2. manager' \in [View -> ManagerSet] /\ \A u \in View : u[1] # r => manager'[u] = manager[u]
    BY <1>1, <1>4, <1>15, <2>1 DEF Exit
  <2> QED BY <1>0, <1>15, <2>2 DEF Exit, Here, Goes, Typed, Others
<1>16. CASE RestartStarts(r)
  <2>1. Manager(manager[v(r)].port, None) \in ManagerSet BY <1>1 DEF Manager, ManagerSet
  <2>2. manager' \in [View -> ManagerSet] /\ \A u \in View : u[1] # r => manager'[u] = manager[u]
    BY <1>1, <1>4, <1>16, <2>1 DEF RestartStarts
  <2> QED BY <1>0, <1>1, <1>16, <2>2 DEF RestartStarts, Here, Goes, Typed, Others
<1>17. CASE Resume(r)
  <2>1. record[<<r, 1>>].port # None BY <1>17 DEF Resume, Command, Inv, Standing, StandingOf
  <2>2. Reclaimed(r) \in ManagerSet
    BY <1>0, <1>1, <2>1 DEF Reclaimed, Manager, ManagerSet, RecordSet
  <2>3. manager' \in [View -> ManagerSet] /\ \A u \in View : u[1] # r => manager'[u] = manager[u]
    BY <1>1, <1>4, <1>17, <2>2 DEF Resume
  <2> QED BY <1>0, <1>6, <1>17, <2>3 DEF Resume, Goes, Typed, Others
<1>18. CASE StopCv(r) BY <1>0, <1>5, <1>6, <1>18 DEF StopCv, Typed, Others
<1>19. CASE RestartStops(r) BY <1>0, <1>5, <1>6, <1>19 DEF RestartStops, Goes, Typed, Others
<1>20. NoRecord \in RecordSet BY DEF NoRecord, RecordSet
<1>21. CASE RemoveUnloaded(r)
  BY <1>0, <1>1, <1>6, <1>20, <1>21 DEF RemoveUnloaded, Goes, Typed, Others
<1>22. ASSUME NEW status \in {"stopped", "removed"}, EndSession(r, status) PROVE Typed /\ Others(r)
  <2>1. manager' \in [View -> ManagerSet] /\ \A u \in View : u[1] # r => manager'[u] = manager[u]
    BY <1>0, <1>5, <1>22 DEF EndSession
  <2>2. record' \in [View -> RecordSet] /\ \A u \in View : u[1] # r => record'[u] = record[u]
    BY <1>0, <1>1, <1>20, <1>22 DEF EndSession
  <2> QED BY <1>0, <1>6, <1>22, <2>1, <2>2 DEF EndSession, Goes, Typed, Others
<1>23. CASE Crash(r) BY <1>0, <1>1, <1>23 DEF Crash, Goes, Typed, Others
<1> QED
  BY <1>7, <1>9, <1>10, <1>11, <1>12, <1>13, <1>14, <1>15, <1>16, <1>17, <1>18, <1>19,
       <1>21, <1>22,
     <1>23
  DEF Acts, Step, Order

LEMMA Spawned ==
  ASSUME NEW x \in Server, NEW a \in {"loading"}, NEW r \in Run, NEW port \in Port \cup {None}
  PROVE  /\ [x EXCEPT !.state = a, !.by = r, !.port = port] \in Server
         /\ [x EXCEPT !.state = a, !.by = r, !.port = port].state = a
         /\ [x EXCEPT !.state = a, !.by = r, !.port = port].by = r
         /\ [x EXCEPT !.state = a, !.by = r, !.port = port].port = port
         /\ [x EXCEPT !.state = a, !.by = r, !.port = port].killer = x.killer
<1>1. [x EXCEPT !.state = a, !.by = r, !.port = port] \in Server BY DEF Server
<1>2. /\ [x EXCEPT !.state = a, !.by = r, !.port = port].state = a
      /\ [x EXCEPT !.state = a, !.by = r, !.port = port].by = r
      /\ [x EXCEPT !.state = a, !.by = r, !.port = port].port = port
      /\ [x EXCEPT !.state = a, !.by = r, !.port = port].killer = x.killer
  BY DEF Server
<1> QED BY <1>1, <1>2

\* What a step of a run or session may make of the servers.
LEMMA ServerStep ==
  ASSUME Inv, NEW r \in Run, Acts(r)
  PROVE  /\ server' \in [Pid -> Server]
         /\ \A p \in Pid : server'[p] = server[p] \/ Older(p) \/ Newborn(p, r)
         /\ \A p \in Pid : server'[p].state = "serving" => server[p].state = "serving"
<1> USE ServersAssumption
<1>0. /\ server \in [Pid -> Server] /\ manager \in [View -> ManagerSet]
      /\ v(r) \in View /\ v(r)[1] = r /\ manager[v(r)] \in ManagerSet
      /\ \A p \in Pid : server[p] \in Server
  BY Here1 DEF Inv, TypeOK, Server, ManagerSet
<1> DEFINE Goal == /\ server' \in [Pid -> Server]
                   /\ \A p \in Pid : server'[p] = server[p] \/ Older(p) \/ Newborn(p, r)
                   /\ \A p \in Pid : server'[p].state = "serving" => server[p].state = "serving"
<1> SUFFICES Goal OBVIOUS
<1>1. CASE UNCHANGED server BY <1>0, <1>1
<1>2. ASSUME NEW force \in BOOLEAN, Stop(v(r), force) PROVE Goal
  BY <1>0, <1>2, StopStep DEF Inv, Older
<1>3. CASE Spawn(r)
  <2>1. ASSUME NEW p \in Pid, server[p].state = "unborn",
               server' = [server EXCEPT ![p] = [@ EXCEPT !.state = "loading", !.by = r,
                                                         !.port = manager[v(r)].port]],
               manager' = [manager EXCEPT ![v(r)].child = p, ![v(r)].known = p]
        PROVE  Goal
    <3> DEFINE s == [server[p] EXCEPT !.state = "loading", !.by = r, !.port =
         manager[v(r)].port]
    <3>0. manager[v(r)].port \in Port \cup {None} BY <1>0 DEF ManagerSet
    <3>1. /\ s \in Server /\ s.state = "loading" /\ s.by = r /\ s.port = manager[v(r)].port
          /\ s.killer = server[p].killer
      <4>1. server[p] \in Server /\ "loading" \in {"loading"} BY <1>0
      <4>2. s \in Server BY <3>0, <4>1, Spawned
      <4>3. s.state = "loading" /\ s.by = r /\ s.port = manager[v(r)].port
        BY <4>1 DEF Server
      <4>4. s.killer = server[p].killer BY <4>1 DEF Server
      <4> QED BY <4>2, <4>3, <4>4
    <3>2. manager'[v(r)].child = p
      <4>1. manager'[v(r)] = [manager[v(r)] EXCEPT !.child = p, !.known = p] BY <1>0, <2>1
      <4> QED BY <1>0, <4>1 DEF ManagerSet
    <3>3. server' = [server EXCEPT ![p] = s] BY <2>1
    <3> HIDE DEF s
    <3>4. server' \in [Pid -> Server] BY <1>0, <3>1, <3>3
    <3>5. server'[p] = s /\ \A q \in Pid : q # p => server'[q] = server[q] BY <1>0, <3>3
    <3>6. Newborn(p, r) BY <1>3, <2>1, <3>1, <3>2, <3>5 DEF Newborn
    <3>7. server'[p].state # "serving" BY <3>1, <3>5
    <3> QED BY <3>4, <3>5, <3>6, <3>7
  <2> HIDE DEF Goal
  <2> QED BY <1>1, <1>3, <2>1, SpawnStep DEF Inv
<1>4. CASE Unready(r)
  <2> DEFINE child == manager[v(r)].child
  <2>1. child \in Pid \cup {None} BY <1>0 DEF ManagerSet
  <2>2. CASE Alive(child) /\ server[child].state = "loading" /\ server' = Terminated(child)
    <3>1. child \in Pid BY <2>1, <2>2 DEF Alive
    <3>2. server' = [server EXCEPT ![child] = [server[child] EXCEPT !.state = "gone"]]
      BY <2>2 DEF Terminated
    <3>3. [server[child] EXCEPT !.state = "gone"] \in Server BY <1>0, <3>1 DEF Server
    <3>4. Older(child) BY <1>0, <2>2, <3>1, <3>2 DEF Older, Server
    <3> QED BY <1>0, <3>1, <3>2, <3>3, <3>4
  <2>3. CASE ~Alive(child)
    BY <1>1, <1>4, <2>1, <2>3 DEF Unready, Alive
  <2> QED BY <1>4, <2>2, <2>3 DEF Unready
<1> HIDE DEF Goal
<1> QED
  BY <1>1, <1>2, <1>3, <1>4
  DEF Acts, Step, Order, Choose, Attach, Answered, RunOver, Shutdown, Exit, RestartStarts, Resume,
      StopCv, RestartStops, RemoveUnloaded, EndSession, Crash

\* What a server does by itself.
LEMMA PidStep ==
  ASSUME Inv, NEW p \in Pid, Binds(p) \/ Leaves(p) \/ Dies(p)
  PROVE  /\ server' \in [Pid -> Server] /\ Older(p)
         /\ \A q \in Pid : q # p => server'[q] = server[q]
         /\ UNCHANGED <<manager, spare, record, session, pc, at, why, commands>>
<1>0. server \in [Pid -> Server] /\ server[p] \in Server BY DEF Inv, TypeOK, Server
<1>1. PICK state \in {"gone", "serving"} :
        /\ Becomes(p, state) /\ server[p].state \in {"loading", "serving", "stopping"}
        /\ state = "serving" => server[p].state = "loading" /\ ~_is_port_in_use(server[p].port)
  BY DEF Binds, Leaves, Dies
<1>2. server' = [server EXCEPT ![p] = [server[p] EXCEPT !.state = state]]
  BY <1>1 DEF Becomes
<1>3. /\ [server[p] EXCEPT !.state = state] \in Server
      /\ [server[p] EXCEPT !.state = state].by = server[p].by
      /\ [server[p] EXCEPT !.state = state].port = server[p].port
      /\ [server[p] EXCEPT !.state = state].killer = server[p].killer
      /\ [server[p] EXCEPT !.state = state].state = state
  BY <1>0 DEF Server
<1> QED BY <1>0, <1>1, <1>2, <1>3 DEF Becomes, Older

\* Whoever starts a server is its starter, and only its starter stops it.
LEMMA ServersKept ==
  ASSUME Inv, server' \in [Pid -> Server],
         \A p \in Pid : server'[p] = server[p] \/ Older(p) \/ \E r \in Run : Newborn(p, r)
  PROVE  /\ Born' /\ NeverKillsForeign'
         /\ \A p \in Pid : server[p].by # None =>
              server'[p].by = server[p].by /\ server'[p].port = server[p].port
<1> USE ServersAssumption
<1>1. \A p \in Pid : server[p].state = "unborn" => server[p].by = None /\ server[p].killer = None
  BY DEF Inv, Born, NeverKillsForeign
<1>2. \A p \in Pid : server[p].state # "unborn" => server[p].by # None
  BY DEF Inv, Born
<1>3. \A p \in Pid : server[p].killer \in {None, server[p].by} BY DEF Inv, NeverKillsForeign
<1>4. ASSUME NEW p \in Pid
      PROVE  /\ server'[p].state = "unborn" => server'[p].by = None
             /\ server'[p].state # "unborn" => server'[p].by # None
             /\ server'[p].killer \in {None, server'[p].by}
             /\ server[p].by # None => server'[p].by = server[p].by /\ server'[p].port = server[p].port
  <2>1. CASE server'[p] = server[p] BY <1>1, <1>2, <1>3, <2>1
  <2>2. CASE Older(p) BY <1>1, <1>2, <1>3, <2>2 DEF Older
  <2>3. ASSUME NEW r \in Run, Newborn(p, r)
        PROVE  /\ server'[p].state = "loading" /\ server'[p].by = r /\ server'[p].killer = None
               /\ server[p].by = None
    BY <1>1, <2>3 DEF Newborn
  <2> QED BY <2>1, <2>2, <2>3
<1> QED BY <1>4 DEF Born, NeverKillsForeign

\* A port is taken by one server at a time.
LEMMA PortKept ==
  ASSUME Inv, NEW p \in Pid, server'[p] = server[p] \/ Older(p) \/ \E r \in Run : Newborn(p, r),
         NEW port \in Port \cup {None}, Bound(p, port)'
  PROVE  \/ Bound(p, port)
         \/ ~_is_port_in_use(port) /\ server'[p].state = "serving" /\ server[p].state = "loading"
BY DEF Older, Newborn, Bound

\* Every handle a step leaves was a handle of the same run, or is of the server it started.
LEMMA HandleStep ==
  ASSUME Inv, NEW r \in Run, Acts(r)
  PROVE  /\ \A w \in View : w[1] = r =>
              \/ /\ manager'[w].child \in {None, manager[w].child, spare[r].child}
                 /\ manager'[w].known \in {None, manager[w].known, spare[r].known, record[<<r, 1>>].pid}
              \/ \E p \in Pid : Newborn(p, r) /\ manager'[w].child = p /\ manager'[w].known = p
         /\ \A w \in View : w[1] = r => record'[w].pid \in {None, record[w].pid, manager[w].known}
         /\ spare'[r] \in {spare[r], manager[v(r)]}
<1> USE ServersAssumption
<1>0. /\ manager \in [View -> ManagerSet] /\ spare \in [Run -> ManagerSet] /\ record \in [View -> RecordSet]
      /\ v(r) \in View /\ v(r)[1] = r /\ <<r, 1>> \in View /\ manager[v(r)] \in ManagerSet
      /\ r \in Dev => v(r) = <<r, 1>>
  BY Here1 DEF Inv, TypeOK, ManagerSet, RecordSet
<1> DEFINE Handles ==
             \A w \in View : w[1] = r =>
               \/ /\ manager'[w].child \in {None, manager[w].child, spare[r].child}
                  /\ manager'[w].known \in {None, manager[w].known, spare[r].known, record[<<r, 1>>].pid}
               \/ \E p \in Pid : Newborn(p, r) /\ manager'[w].child = p /\ manager'[w].known = p
           Records == \A w \in View : w[1] = r => record'[w].pid \in {None, record[w].pid, manager[w].known}
           Spares == spare'[r] \in {spare[r], manager[v(r)]}
<1>1. ASSUME NEW m \in ManagerSet, manager' = [manager EXCEPT ![v(r)] = m],
             m.child \in {None, manager[v(r)].child, spare[r].child},
             m.known \in {None, manager[v(r)].known, spare[r].known, record[<<r, 1>>].pid}
      PROVE  Handles
  BY <1>0, <1>1
<1>2. ASSUME UNCHANGED manager PROVE Handles BY <1>2
<1>3. ASSUME manager' = [manager EXCEPT ![v(r)] = spare[r]] PROVE Handles
  BY <1>0, <1>1, <1>3
<1>4. ASSUME NEW port \in Port \cup {None}
      PROVE  /\ Manager(port, None) \in ManagerSet /\ Manager(port, None).child = None
             /\ Manager(port, None).known = None /\ Manager(port, None).port = port
  BY DEF Manager, ManagerSet
<1>5. ASSUME NEW force \in BOOLEAN, Stop(v(r), force) PROVE Handles
  BY <1>0, <1>5, StopStep DEF Inv
<1>6. ASSUME Choose(r) PROVE Handles
  <2>1. CASE Free # {}
    <3>1. manager' = [manager EXCEPT ![v(r)] = Manager(find_free_cv_port, None)]
      BY <1>6, <2>1 DEF Choose
    <3> QED BY <1>1, <1>4, <2>1, <3>1, PortFound
  <2> QED BY <1>2, <1>6, <2>1 DEF Choose
<1>7. ASSUME Attach(r) PROVE Handles BY <1>2, <1>3, <1>7 DEF Attach
<1>8. ASSUME Spawn(r) PROVE Handles
  <2>1. ASSUME NEW p \in Pid, server[p].state = "unborn",
               server' = [server EXCEPT ![p] = [@ EXCEPT !.state = "loading", !.by = r,
                                                         !.port = manager[v(r)].port]],
               manager' = [manager EXCEPT ![v(r)].child = p, ![v(r)].known = p]
        PROVE  Handles
    <3>1. manager' = [manager EXCEPT ![v(r)] = [manager[v(r)] EXCEPT !.child = p, !.known = p]]
      BY <1>0, <2>1
    <3>2. manager'[v(r)].child = p /\ manager'[v(r)].known = p BY <1>0, <3>1 DEF ManagerSet
    <3>3. \A w \in View : w # v(r) => manager'[w] = manager[w] BY <1>0, <3>1
    <3>4. Newborn(p, r)
      <4>1. server'[p] # server[p]
        <5>1. server[p] \in Server /\ server \in [Pid -> Server] BY DEF Inv, TypeOK, Server
        <5>2. server'[p] = [server[p] EXCEPT !.state = "loading", !.by = r, !.port = manager[v(r)].port]
          BY <2>1, <5>1
        <5>3. server'[p].state = "loading" BY <5>1, <5>2 DEF Server
        <5> QED BY <2>1, <5>3
      <4> QED BY <2>1, <4>1, ServerStep DEF Older
    <3> QED BY <3>2, <3>3, <3>4
  <2>2. manager' = [manager EXCEPT ![v(r)] = IF why[r] = "restart" THEN spare[r] ELSE @]
          => Handles
    BY <1>0
  <2> HIDE DEF Handles
  <2> QED BY <1>8, <2>1, <2>2, SpawnStep DEF Inv
<1>9. ASSUME Unready(r) PROVE Handles
  <2>1. /\ [manager[v(r)] EXCEPT !.child = None] \in ManagerSet
        /\ [manager[v(r)] EXCEPT !.child = None].child = None
        /\ [manager[v(r)] EXCEPT !.child = None].known = manager[v(r)].known
    BY <1>0 DEF ManagerSet
  <2>2. manager' = [manager EXCEPT ![v(r)] = [manager[v(r)] EXCEPT !.child = None]] => Handles
    BY <1>1, <2>1
  <2> HIDE DEF Handles
  <2> QED BY <1>3, <1>9, <2>2 DEF Unready
<1>10. ASSUME Exit(r) PROVE Handles
  <2>1. manager' = [manager EXCEPT ![v(r)] = Manager(None, None)] BY <1>10 DEF Exit
  <2>2. /\ Manager(None, None) \in ManagerSet
        /\ Manager(None, None).child = None /\ Manager(None, None).known = None
    BY <1>4
  <2> HIDE DEF Handles
  <2> QED BY <1>1, <2>1, <2>2
<1>11. ASSUME RestartStarts(r) PROVE Handles
  <2>1. manager' = [manager EXCEPT ![v(r)] = Manager(manager[v(r)].port, None)]
    BY <1>0, <1>11 DEF RestartStarts
  <2> DEFINE m == Manager(manager[v(r)].port, None)
  <2>2. manager[v(r)].port \in Port \cup {None} BY <1>0 DEF ManagerSet
  <2>3. m \in ManagerSet /\ m.child = None /\ m.known = None BY <1>4, <2>2
  <2> HIDE DEF Handles, m
  <2>4. manager' = [manager EXCEPT ![v(r)] = m] BY <2>1 DEF m
  <2> QED BY <1>1, <2>3, <2>4
<1>12. ASSUME Resume(r) PROVE Handles
  <2>1. r \in Dev /\ record[<<r, 1>>].port # None
    BY <1>12 DEF Resume, Command, Inv, Standing, StandingOf
  <2>2. /\ Reclaimed(r) \in ManagerSet /\ Reclaimed(r).child = None
        /\ Reclaimed(r).known = record[<<r, 1>>].pid
    BY <1>0, <2>1 DEF Reclaimed, Manager, ManagerSet, RecordSet
  <2>3. manager' = [manager EXCEPT ![v(r)] = Reclaimed(r)] BY <1>0, <1>12, <2>1 DEF Resume
  <2> QED BY <1>1, <2>2, <2>3
<1>13. Handles
  <2> HIDE DEF Handles
  <2>1. CASE Choose(r) \/ Attach(r) \/ Spawn(r) \/ Unready(r)
    BY <1>6, <1>7, <1>8, <1>9, <2>1
  <2>2. CASE Exit(r) \/ RestartStarts(r) \/ Resume(r) BY <1>10, <1>11, <1>12, <2>2
  <2>3. CASE Answered(r) \/ RunOver(r) \/ RemoveUnloaded(r) \/ Crash(r)
    BY <1>2, <2>3 DEF Answered, RunOver, RemoveUnloaded, Crash
  <2>4. CASE Shutdown(r) \/ StopCv(r) \/ RestartStops(r)
    BY <1>5, <2>4 DEF Shutdown, StopCv, RestartStops
  <2>5. ASSUME NEW status \in {"stopped", "removed"}, EndSession(r, status) PROVE Handles
    BY <1>2, <1>5, <2>5 DEF EndSession
  <2> QED BY <2>1, <2>2, <2>3, <2>4, <2>5 DEF Acts, Step, Order
<1>14. Records
  <2>1. CASE UNCHANGED record BY <2>1
  <2>2. CASE Started(r)
    <3>1. record' = [record EXCEPT ![v(r)] = [port |-> manager[v(r)].port, pid |-> manager[v(r)].known]]
      BY <2>2 DEF Started
    <3> QED BY <1>0, <3>1
  <2>3. CASE record' = [record EXCEPT ![v(r)] = NoRecord] BY <1>0, <2>3 DEF NoRecord
  <2> HIDE DEF Records
  <2> QED
    BY <2>1, <2>2, <2>3
    DEF Acts, Step, Order, Choose, Attach, Spawn, Answered, Unready, RunOver, Shutdown, Exit, RestartStarts,
        Resume, StopCv, RestartStops, RemoveUnloaded, EndSession, Crash
<1>15. Spares
  <2>1. CASE UNCHANGED spare BY <2>1
  <2>2. CASE RestartStarts(r) BY <1>0, <2>2 DEF RestartStarts
  <2> HIDE DEF Spares
  <2> QED
    BY <2>1, <2>2
    DEF Acts, Step, Order, Choose, Attach, Spawn, Answered, Unready, RunOver, Shutdown, Exit,
        Resume, StopCv, RestartStops, RemoveUnloaded, EndSession, Crash
<1> QED BY <1>13, <1>14, <1>15

\* A step of r keeps all handles with their starters.
LEMMA OwnedStep ==
  ASSUME Inv, NEW r \in Run, Acts(r) PROVE Owned'
<1> USE ServersAssumption
<1>0. /\ manager \in [View -> ManagerSet] /\ spare \in [Run -> ManagerSet] /\ record \in [View -> RecordSet]
      /\ v(r) \in View /\ v(r)[1] = r /\ <<r, 1>> \in View /\ <<r, 1>>[1] = r
  BY Here1, Views DEF Inv, TypeOK, ManagerSet, RecordSet
<1>1. \A p \in Pid : server[p].by # None => server'[p].by = server[p].by
  BY ServerStep, ServersKept
<1>2. \A p \in Pid : Newborn(p, r) => server'[p].by = r BY DEF Newborn
<1>3. Others(r) BY Frame
<1> DEFINE Ours(x, s) == x # None => x \in Pid /\ server[x].by = s
           After(x, s) == x # None => server'[x].by = s
<1>4. \A s \in Run : \A x : Ours(x, s) => After(x, s)
  BY <1>1
<1>5. \A w \in View : /\ w[1] \in Run /\ Ours(manager[w].child, w[1]) /\ Ours(manager[w].known, w[1])
                      /\ Ours(record[w].pid, w[1])
  BY <1>0, ViewOf DEF Inv, Owned, Mine, ManagerSet, RecordSet
<1>6. \A s \in Run : Ours(spare[s].child, s) /\ Ours(spare[s].known, s)
  BY <1>0 DEF Inv, Owned, Mine, ManagerSet
<1> HIDE DEF Ours
<1>7. ASSUME NEW w \in View
      PROVE  After(manager'[w].child, w[1]) /\ After(manager'[w].known, w[1]) /\ After(record'[w].pid, w[1])
  <2>1. CASE w[1] # r BY <1>3, <1>4, <1>5, <2>1 DEF Others
  <2>2. CASE w[1] = r
    <3> HIDE DEF After
    <3>1. After(None, r) BY DEF After
    <3>2. \A x \in {None, manager[w].child, spare[r].child} : After(x, r)
      BY <1>4, <1>5, <1>6, <2>2, <3>1
    <3>3. \A x \in {None, manager[w].known, spare[r].known, record[<<r, 1>>].pid, record[w].pid} : After(x, r)
      BY <1>0, <1>4, <1>5, <1>6, <2>2, <3>1
    <3>4. \A p \in Pid : Newborn(p, r) => After(p, r) BY <1>2 DEF After
    <3> QED BY <2>2, <3>2, <3>3, <3>4, HandleStep
  <2> QED BY <2>1, <2>2
<1>8. ASSUME NEW s \in Run PROVE After(spare'[s].child, s) /\ After(spare'[s].known, s)
  <2>1. CASE s # r BY <1>3, <1>4, <1>6, <2>1 DEF Others
  <2>2. CASE s = r
    <3> HIDE DEF After
    <3> QED BY <1>0, <1>4, <1>5, <1>6, <2>2, HandleStep
  <2> QED BY <2>1, <2>2
<1> QED BY <1>7, <1>8 DEF Owned, Mine

\* A server of a run that is not gone was not gone before, or is new.
LEMMA NotGone ==
  ASSUME Inv, NEW r \in Run, Acts(r), NEW p \in Pid, server'[p].state # "gone", ~Newborn(p, r),
         server'[p].by # None
  PROVE  server[p].state \notin {"gone", "unborn"} /\ server[p].by = server'[p].by
<1>1. server'[p] = server[p] \/ Older(p) BY ServerStep
<1>2. server[p].state = "unborn" => server[p].by = None BY DEF Inv, Born
<1> QED BY <1>1, <1>2 DEF Older

\* A run stops all it has started.
LEMMA HeldStep ==
  ASSUME Inv, NEW r \in Run \ Dev, Acts(r) PROVE HeldOf(r)'
<1> USE ServersAssumption DEF Place
<1>0. /\ manager \in [View -> ManagerSet] /\ server \in [Pid -> Server]
      /\ v(r) \in View /\ v(r)[1] = r /\ v(r) = <<r, at[r]>> /\ at[r] \in 1..Count[r] /\ Count[r] \in Nat \ {0}
      /\ at \in [Run -> Nat] /\ pc \in [Run -> Place]
      /\ session \in [Run -> {"none", "running", "stopped", "removed"}] /\ None \notin Pid
  BY Here1 DEF Inv, TypeOK, ManagerSet, Server
<1>1. HeldOf(r) BY DEF Inv, Held
<1>2. /\ why[r] = "begin" /\ session[r] = "none" /\ pc[r] # "restart"
      /\ pc[r] = "ready" => at[r] = 1
  BY <1>1 DEF HeldOf
<1> DEFINE Kept(p) == \E i \in 1..Count[r] :
                        /\ manager'[<<r, i>>].child = p
                        /\ pc'[r] = "stop" => at'[r] <= i
                        /\ pc'[r] = "start" => i < at'[r]
                        /\ pc'[r] = "probe" => i <= at'[r]
           Was(p, i) == /\ manager[<<r, i>>].child = p /\ <<r, i>> \in View
                        /\ pc[r] = "stop" => at[r] <= i
                        /\ pc[r] = "start" => i < at[r]
                        /\ pc[r] = "probe" => i <= at[r]
           Line == /\ why'[r] = "begin" /\ session'[r] = "none" /\ pc'[r] # "restart"
                   /\ pc'[r] = "ready" => at'[r] = 1
           Left(p) == server'[p].by = r /\ server'[p].state # "gone"
<1>3. ASSUME NEW p \in Pid, Left(p), ~Newborn(p, r)
      PROVE  pc[r] \notin {"choose", "ended"} /\ \E i \in 1..Count[r] : Was(p, i)
  <2>1. server[p].by = r /\ server[p].state # "gone" BY <1>3, NotGone
  <2> QED BY <1>1, <2>1, Views DEF HeldOf
<1>4. ASSUME Failed(r) PROVE pc'[r] = "stop" /\ at'[r] = 1
  <2>1. pc' = [pc EXCEPT ![r] = "stop"] /\ at' = [at EXCEPT ![r] = 1]
    BY <1>4 DEF Failed, Goes
  <2> QED BY <1>0, <2>1
<1>5. ASSUME Started(r)
      PROVE  /\ session'[r] = "none"
             /\ \/ pc'[r] = "start" /\ at'[r] = at[r] + 1
                \/ pc'[r] = "ready" /\ at'[r] = 1
  BY <1>0, <1>2, <1>5 DEF Started, Goes
<1> DEFINE Goal == Line /\ \A p \in Pid : Left(p) => pc'[r] \notin {"choose", "ended"} /\
     Kept(p)
<1>6. ASSUME UNCHANGED server, NEW p \in Pid PROVE ~Newborn(p, r)
  BY <1>6 DEF Newborn
<1>7. ASSUME Choose(r) PROVE Goal
  <2>1. \A p \in Pid : ~Left(p) BY <1>3, <1>6, <1>7 DEF Choose, Here
  <2>2. Line BY <1>0, <1>2, <1>4, <1>7 DEF Choose, Here, Goes
  <2> QED BY <2>1, <2>2
<1>8. ASSUME Attach(r) \/ Answered(r) PROVE Goal
  <2>1. Started(r) /\ UNCHANGED <<server, manager, why>> /\ pc[r] \in {"start", "probe"}
    BY <1>2, <1>8 DEF Attach, Answered, Here
  <2>2. ASSUME NEW p \in Pid, Left(p) PROVE pc'[r] \notin {"choose", "ended"} /\ Kept(p)
    BY <1>0, <1>3, <1>5, <1>6, <2>1, <2>2
  <2>3. Line BY <1>2, <1>5, <2>1
  <2> QED BY <2>2, <2>3
<1>9. ASSUME Spawn(r) PROVE Goal
  <2>1. pc[r] = "start" /\ why' = why /\ session' = session BY <1>9 DEF Spawn, Here
  <2>2. ASSUME NEW b \in Pid, manager' = [manager EXCEPT ![v(r)].child = b, ![v(r)].known = b],
               Goes(r, "probe"), UNCHANGED at
        PROVE  Goal
    <3>1. Line BY <1>0, <1>2, <2>1, <2>2 DEF Goes
    <3>2. pc'[r] = "probe" /\ at'[r] = at[r] BY <1>0, <2>2 DEF Goes
    <3>0. at[r] \in 1..Count[r] /\ at[r] \in Nat /\ 1..Count[r] \subseteq Int BY <1>0
    <3>3. ASSUME NEW p \in Pid, Newborn(p, r) PROVE Kept(p)
      <4>1. manager'[<<r, at[r]>>].child = p BY <1>0, <3>3 DEF Newborn
      <4> QED BY <3>0, <3>2, <4>1
    <3>4. ASSUME NEW p \in Pid, Left(p), ~Newborn(p, r) PROVE Kept(p)
      <4>1. PICK i \in 1..Count[r] : Was(p, i) BY <1>3, <3>4
      <4>2. i < at[r] /\ <<r, i>> # v(r) BY <1>0, <2>1, <4>1
      <4>3. manager'[<<r, i>>] = manager[<<r, i>>] BY <1>0, <2>2, <4>1, <4>2
      <4>4. i <= at[r] BY <3>0, <4>2
      <4> QED BY <3>2, <4>1, <4>3, <4>4
    <3> QED BY <3>1, <3>2, <3>3, <3>4
  <2>3. ASSUME Failed(r), UNCHANGED server,
               manager' = [manager EXCEPT ![v(r)] = IF why[r] = "restart" THEN spare[r] ELSE @]
        PROVE  Goal
    <3>1. manager' = manager BY <1>0, <1>2, <2>3
    <3>2. Line BY <1>0, <1>2, <1>4, <2>1, <2>3
    <3>3. ASSUME NEW p \in Pid, Left(p) PROVE pc'[r] \notin {"choose", "ended"} /\ Kept(p)
      <4>1. PICK i \in 1..Count[r] : Was(p, i) BY <1>3, <1>6, <2>3, <3>3
      <4>2. pc'[r] = "stop" /\ at'[r] = 1 BY <1>4, <2>3
      <4> QED BY <3>1, <4>1, <4>2
    <3> QED BY <3>2, <3>3
  <2> HIDE DEF Goal
  <2> QED BY <1>9, <2>2, <2>3, SpawnStep DEF Inv
<1>10. ASSUME Unready(r) PROVE Goal
  <2>1. /\ pc[r] = "probe" /\ Failed(r) /\ UNCHANGED <<session, why>>
        /\ manager' = [manager EXCEPT ![v(r)] = [manager[v(r)] EXCEPT !.child = None]]
    BY <1>2, <1>10 DEF Unready, Here
  <2>2. Line BY <1>0, <1>2, <1>4, <2>1
  <2>3. ASSUME NEW p \in Pid, Left(p) PROVE pc'[r] \notin {"choose", "ended"} /\ Kept(p)
    <3>1. ~Newborn(p, r) BY <2>1 DEF Newborn, Spawn, Here
    <3>2. PICK i \in 1..Count[r] : Was(p, i) BY <1>3, <2>3, <3>1
    <3>3. <<r, i>> # v(r)
      <4>1. SUFFICES ASSUME manager[v(r)].child = p PROVE FALSE BY <3>2
      <4>2. CASE server' = Terminated(p) BY <1>0, <2>3, <4>2 DEF Terminated, Server
      <4>3. CASE ~Alive(p)
        <5>1. server[p].state \notin {"gone", "unborn"} BY <1>0, <2>3, <3>1, NotGone
        <5> QED BY <1>0, <4>3, <5>1 DEF Alive, Server
      <4> QED BY <1>10, <4>1, <4>2, <4>3 DEF Unready
    <3>4. manager'[<<r, i>>] = manager[<<r, i>>] BY <1>0, <2>1, <3>2, <3>3
    <3>5. pc'[r] = "stop" /\ at'[r] = 1 BY <1>4, <2>1
    <3> QED BY <3>2, <3>4, <3>5
  <2> QED BY <2>2, <2>3
<1>11. ASSUME RunOver(r) \/ Crash(r) PROVE Goal
  <2>1. UNCHANGED <<server, manager, session, why>> /\ (pc[r] = "ready" \/ pc'[r] = "dead")
        /\ pc'[r] \in {"stop", "dead"} /\ (pc'[r] = "stop" => at'[r] = at[r])
    BY <1>0, <1>2, <1>11 DEF RunOver, Crash, Here, Goes
  <2>2. ASSUME NEW p \in Pid, Left(p) PROVE pc'[r] \notin {"choose", "ended"} /\ Kept(p)
    BY <1>0, <1>2, <1>3, <1>6, <2>1, <2>2
  <2>3. Line BY <1>2, <2>1
  <2> QED BY <2>2, <2>3
<1>12. ASSUME Shutdown(r) PROVE Goal
  <2>1. /\ pc[r] = "stop" /\ Stop(v(r), FALSE) /\ UNCHANGED <<session, why>>
        /\ \/ at[r] < Count[r] /\ at'[r] = at[r] + 1 /\ pc'[r] = "stop"
           \/ at[r] = Count[r] /\ pc'[r] = "ended"
    <3>1. CASE at[r] < Count[r] BY <1>0, <1>12, <3>1 DEF Shutdown, Here, Goes
    <3>2. CASE ~(at[r] < Count[r])
      <4>1. at[r] = Count[r] BY <1>0, <3>2
      <4>2. pc[r] = "stop" /\ Stop(v(r), FALSE) /\ UNCHANGED <<session, why>>
            /\ pc' = [pc EXCEPT ![r] = "ended"]
        BY <1>12, <3>2 DEF Shutdown, Here, Goes
      <4> QED BY <1>0, <4>1, <4>2
    <3> QED BY <3>1, <3>2
  <2>2. Line BY <1>2, <2>1
  <2>3. ASSUME NEW p \in Pid, Left(p) PROVE pc'[r] \notin {"choose", "ended"} /\ Kept(p)
    <3>1. ~Newborn(p, r) BY <2>1 DEF Newborn, Spawn, Here
    <3>2. PICK i \in 1..Count[r] : Was(p, i) BY <1>3, <2>3, <3>1
    <3>3. <<r, i>> # v(r)
      <4>1. SUFFICES ASSUME manager[v(r)].child = p PROVE FALSE BY <3>2
      <4>2. server'[p].state \in {"unborn", "gone"} BY <1>0, <2>1, <4>1, StopStep DEF Inv
      <4>3. server[p].state # "unborn" /\ server'[p].state # "unborn"
        <5>1. server[p].state \notin {"gone", "unborn"} BY <1>0, <2>3, <3>1, NotGone
        <5> QED BY <1>0, <2>1, <5>1, StopStep DEF Inv
      <4> QED BY <2>3, <4>2, <4>3
    <3>4. manager'[<<r, i>>] = manager[<<r, i>>]
      <4>1. ASSUME NEW force \in BOOLEAN, Stop(v(r), force)
            PROVE  \A u \in View : u # v(r) => manager'[u] = manager[u]
        BY <1>0, <4>1, StopStep DEF Inv
      <4>2. \A u \in View : u # v(r) => manager'[u] = manager[u] BY <2>1, <4>1
      <4> QED BY <3>2, <3>3, <4>2
    <3>5. at[r] < i BY <1>0, <2>1, <3>2, <3>3
    <3>6. at[r] # Count[r] BY <1>0, <3>5
    <3>7. pc'[r] = "stop" /\ at'[r] = at[r] + 1 BY <2>1, <3>6
    <3>8. at'[r] <= i BY <1>0, <3>5, <3>7
    <3> QED BY <3>2, <3>4, <3>7, <3>8
  <2> QED BY <2>2, <2>3
<1>13. Goal
  <2> HIDE DEF Goal
  <2> QED
    BY <1>2, <1>7, <1>8, <1>9, <1>10, <1>11, <1>12
    DEF Acts, Step, Order, Exit, RestartStarts, Resume, StopCv, RestartStops, RemoveUnloaded,
        EndSession, Command, Here
<1> QED BY <1>13 DEF HeldOf

\* A session keeps its port through whatever its processes do.
LEMMA SessionStep ==
  ASSUME Inv, NEW r \in Dev, Acts(r) PROVE StandingOf(r)' /\ OnePortOf(r)'
<1> USE ServersAssumption DEF Place
<1> DEFINE w == <<r, 1>>
           Old(x) == /\ pc[r] # "choose"
                     /\ pc[r] \in {"start", "probe", "ready", "restart"} => manager[w].port = x
                     /\ pc[r] \in {"start", "probe"} /\ why[r] = "restart" => spare[r].port = x
                     /\ session[r] \in {"running", "stopped"} => record[w].port = x
           New(x) == /\ pc'[r] # "choose"
                     /\ pc'[r] \in {"start", "probe", "ready", "restart"} => manager'[w].port = x
                     /\ pc'[r] \in {"start", "probe"} /\ why'[r] = "restart" => spare'[r].port = x
                     /\ session'[r] \in {"running", "stopped"} => record'[w].port = x
           Goal == StandingOf(r)' /\ \A x : Old(x) => New(x)
<1>0. /\ manager \in [View -> ManagerSet] /\ spare \in [Run -> ManagerSet] /\ record \in [View -> RecordSet]
      /\ r \in Run /\ v(r) = w /\ w \in View /\ at[r] = 1 /\ Count[r] = 1
      /\ at \in [Run -> Nat] /\ pc \in [Run -> Place]
      /\ session \in [Run -> {"none", "running", "stopped", "removed"}]
      /\ why \in [Run -> {"begin", "resume", "restart"}]
      /\ manager[w] \in ManagerSet /\ spare[r] \in ManagerSet /\ record[w] \in RecordSet
  <2>1. r \in Run /\ Count[r] = 1 /\ at[r] \in 1..Count[r] BY DEF Inv, TypeOK
  <2>2. at[r] = 1 BY <2>1
  <2>3. v(r) = w /\ w \in View BY <2>1, Here1 DEF Inv
  <2> QED BY <2>1, <2>2, <2>3 DEF Inv, TypeOK, ManagerSet, RecordSet
<1>1. StandingOf(r) BY DEF Inv, Standing
<1>2. ASSUME Failed(r)
      PROVE pc'[r] = IF why[r] = "begin" THEN "ended" ELSE IF why[r] = "resume" THEN "out" ELSE "ready"
  <2>1. pc' = [pc EXCEPT ![r] = IF why[r] = "begin" THEN "ended" ELSE IF why[r] = "resume" THEN "out" ELSE "ready"]
    BY <1>0, <1>2 DEF Failed, Goes
  <2> QED BY <1>0, <2>1
<1>3. ASSUME Started(r)
      PROVE  /\ pc'[r] = "ready" /\ session'[r] = "running" /\ record'[w].port = manager[w].port
             /\ record'[w].pid = manager[w].known
  <2>1. /\ record' = [record EXCEPT ![w] = [port |-> manager[w].port, pid |-> manager[w].known]]
        /\ pc' = [pc EXCEPT ![r] = "ready"] /\ session' = [session EXCEPT ![r] = "running"]
    BY <1>0, <1>3 DEF Started, Goes
  <2> QED BY <1>0, <2>1
<1>4. ASSUME NEW force \in BOOLEAN, Stop(v(r), force) PROVE manager'[w].port = manager[w].port
  BY <1>0, <1>4, StopStep DEF Inv
<1>5. ASSUME Choose(r) PROVE Goal
  <2>1. /\ pc[r] = "choose" /\ why[r] = "begin" /\ session[r] = "none"
        /\ UNCHANGED <<spare, record, session, why>>
    BY <1>1, <1>5 DEF Choose, Here, StandingOf
  <2>2. CASE Free = {} BY <1>2, <1>5, <2>1, <2>2 DEF Choose, StandingOf
  <2>3. CASE Free # {}
    <3>1. manager' = [manager EXCEPT ![w] = Manager(find_free_cv_port, None)] /\ pc' = [pc EXCEPT ![r] = "start"]
      BY <1>0, <1>5, <2>3 DEF Choose, Goes
    <3>2. manager'[w].port = find_free_cv_port BY <1>0, <3>1 DEF Manager
    <3>3. manager'[w].port # None BY <2>3, <3>2, PortFound
    <3> QED BY <1>0, <2>1, <3>1, <3>3 DEF StandingOf
  <2> QED BY <2>2, <2>3
<1>6. ASSUME manager' = [manager EXCEPT ![v(r)] = spare[r]] PROVE manager'[w].port = spare[r].port
  BY <1>0, <1>6
<1>7. ASSUME Attach(r) \/ Answered(r) PROVE Goal
  <2>1. pc[r] \in {"start", "probe"} /\ UNCHANGED <<spare, why>>
    BY <1>7 DEF Attach, Answered, Here
  <2>2. CASE Started(r) /\ UNCHANGED manager BY <1>1, <1>3, <2>1, <2>2 DEF StandingOf
  <2>3. CASE /\ why[r] = "restart" /\ Failed(r) /\ UNCHANGED <<record, session>>
             /\ manager' = [manager EXCEPT ![v(r)] = spare[r]]
    BY <1>1, <1>2, <1>6, <2>1, <2>3 DEF StandingOf
  <2> QED BY <1>7, <2>2, <2>3 DEF Attach, Answered
<1>8. ASSUME Failed(r), pc[r] \in {"start", "probe"}, UNCHANGED <<spare, record, session, why>>,
             manager'[w].port = IF why[r] = "restart" THEN spare[r].port ELSE manager[w].port
      PROVE  Goal
  BY <1>0, <1>1, <1>2, <1>8 DEF StandingOf
<1>9. ASSUME Spawn(r) PROVE Goal /\ \A p \in Pid : Newborn(p, r) => New(manager[w].port) /\ Old(manager[w].port)
  <2>1. pc[r] = "start" /\ UNCHANGED <<spare, record, session, why>> BY <1>9 DEF Spawn, Here
  <2>2. ASSUME NEW b \in Pid, manager' = [manager EXCEPT ![v(r)].child = b, ![v(r)].known = b], Goes(r, "probe")
        PROVE  Goal /\ New(manager[w].port) /\ Old(manager[w].port)
    <3> HIDE DEF w, Goal, New, Old
    <3>0. manager' = [manager EXCEPT ![v(r)] = [manager[v(r)] EXCEPT !.child = b, !.known = b]]
      BY <1>0, <2>2
    <3>1. manager' = [manager EXCEPT ![w] = [manager[w] EXCEPT !.child = b, !.known = b]]
      BY <1>0, <3>0
    <3>2. [manager[w] EXCEPT !.child = b, !.known = b].port = manager[w].port
      BY <1>0 DEF ManagerSet
    <3>3. manager'[w].port = manager[w].port BY <1>0, <3>1, <3>2
    <3>4. pc'[r] = "probe" BY <1>0, <2>2 DEF Goes
    <3> QED BY <1>1, <2>1, <3>3, <3>4 DEF StandingOf, w, Goal, New, Old
  <2>3. ASSUME Failed(r), UNCHANGED server,
               manager' = [manager EXCEPT ![v(r)] = IF why[r] = "restart" THEN spare[r] ELSE @]
        PROVE  Goal /\ \A p \in Pid : ~Newborn(p, r)
    <3>1. manager'[w].port = IF why[r] = "restart" THEN spare[r].port ELSE manager[w].port
      BY <1>0, <2>3
    <3>2. \A p \in Pid : ~Newborn(p, r) BY <2>3 DEF Newborn
    <3> QED BY <1>8, <2>1, <2>3, <3>1, <3>2
  <2> HIDE DEF Goal, New, Old
  <2> QED BY <1>9, <2>2, <2>3, SpawnStep DEF Inv
<1>10. ASSUME Unready(r) PROVE Goal
  <2>1. pc[r] = "probe" /\ Failed(r) /\ UNCHANGED <<spare, record, session, why>>
    BY <1>10 DEF Unready, Here
  <2>2. manager' = [manager EXCEPT ![w] = IF why[r] = "restart" THEN spare[r] ELSE [manager[w] EXCEPT !.child = None]]
    BY <1>0, <1>10 DEF Unready
  <2>3. [manager[w] EXCEPT !.child = None].port = manager[w].port BY <1>0 DEF ManagerSet
  <2>4. manager'[w].port = IF why[r] = "restart" THEN spare[r].port ELSE manager[w].port
    BY <1>0, <2>2, <2>3
  <2> HIDE DEF Goal
  <2> QED BY <1>8, <2>1, <2>4
<1>11. ASSUME Exit(r) PROVE Goal
  <2>1. pc[r] = "ready" /\ pc'[r] = "out" /\ UNCHANGED <<spare, record, session, why>>
    BY <1>0, <1>11 DEF Exit, Here, Goes
  <2> QED BY <1>1, <2>1 DEF StandingOf
<1>12. ASSUME RestartStarts(r) PROVE Goal
  <2>1. /\ pc[r] = "restart" /\ pc'[r] = "start" /\ why'[r] = "restart" /\ UNCHANGED <<record, session>>
        /\ spare'[r] = manager[w] /\ manager'[w] = Manager(manager[w].port, None)
    BY <1>0, <1>12 DEF RestartStarts, Here, Goes
  <2>2. manager'[w].port = manager[w].port BY <2>1 DEF Manager
  <2> QED BY <1>1, <2>1, <2>2 DEF StandingOf
<1>13. ASSUME Resume(r) PROVE Goal
  <2>1. /\ pc[r] = "out" /\ pc'[r] = "start" /\ why'[r] = "resume" /\ UNCHANGED <<spare, record, session>>
        /\ session[r] \in {"running", "stopped"} /\ manager'[w] = Reclaimed(r)
    BY <1>0, <1>13 DEF Resume, Command, Goes
  <2>2. record[w].port # None BY <1>1, <2>1 DEF StandingOf
  <2>3. manager'[w].port = record[w].port BY <2>1, <2>2 DEF Reclaimed, Manager
  <2> QED BY <1>1, <2>1, <2>2, <2>3 DEF StandingOf
<1>14. ASSUME StopCv(r) \/ RestartStops(r) PROVE Goal
  <2>1. pc[r] = "ready" /\ pc'[r] \in {"ready", "restart"} /\ UNCHANGED <<spare, record, session, why>>
    BY <1>0, <1>14 DEF StopCv, RestartStops, Command, Goes
  <2>2. manager'[w].port = manager[w].port BY <1>4, <1>14 DEF StopCv, RestartStops
  <2> QED BY <1>1, <2>1, <2>2 DEF StandingOf
<1>15. ASSUME NEW status \in {"stopped", "removed"}, EndSession(r, status) PROVE Goal
  <2>1. /\ pc[r] = "ready" /\ session'[r] = status /\ UNCHANGED <<spare, why>>
        /\ \/ status = "removed" /\ pc'[r] = "ended"
           \/ status = "stopped" /\ pc'[r] = "out" /\ UNCHANGED record
    BY <1>0, <1>15 DEF EndSession, Command, Goes
  <2> QED BY <1>1, <2>1 DEF StandingOf
<1>16. ASSUME RemoveUnloaded(r) PROVE Goal
  <2>1. session'[r] = "removed" /\ pc'[r] = "ended" BY <1>0, <1>16 DEF RemoveUnloaded, Goes
  <2> QED BY <2>1 DEF StandingOf
<1>17. ASSUME Crash(r) PROVE Goal
  <2>1. /\ pc[r] \notin {"out", "ended", "dead"} /\ UNCHANGED <<spare, record, session, why, manager>>
        /\ pc'[r] = IF session[r] = "none" THEN "dead" ELSE "out"
    BY <1>0, <1>17 DEF Crash, Goes
  <2> QED BY <1>0, <1>1, <2>1 DEF StandingOf
<1>18. Goal /\ \A p \in Pid : Newborn(p, r) => New(manager[w].port) /\ Old(manager[w].port)
  <2>1. (\E p \in Pid : Newborn(p, r)) => Spawn(r) BY DEF Newborn
  <2> HIDE DEF Goal, New, Old
  <2>2. Goal
    BY <1>5, <1>7, <1>9, <1>10, <1>11, <1>12, <1>13, <1>14, <1>15, <1>16, <1>17
    DEF Acts, Step, Order, RunOver, Shutdown
  <2> QED BY <1>9, <2>1, <2>2
<1>19. \A p \in Pid : server[p].by = r => Old(server[p].port)
  BY <1>0 DEF Inv, OnePort, OnePortOf
<1>20. \A p, q \in Pid : server[p].by = r /\ server[q].by = r => server[p].port = server[q].port
  BY DEF Inv, OnePort, OnePortOf
<1>21. ASSUME NEW p \in Pid, server'[p].by = r
       PROVE  \/ server[p].by = r /\ server'[p].port = server[p].port
              \/ Newborn(p, r) /\ server'[p].port = manager[w].port
  <2>1. server[p].state # "unborn" => server[p].by # None BY DEF Inv, Born
  <2> QED BY <1>0, <1>21, <2>1, ServerStep DEF Older, Newborn
<1>22. pc[r] = "start" => \A x : Old(x) => x = manager[w].port OBVIOUS
<1> HIDE DEF New, Old
<1>23. \A p \in Pid : Newborn(p, r) => pc[r] = "start" BY DEF Newborn, Spawn, Here
<1>24. \A p \in Pid : server'[p].by = r => New(server'[p].port) BY <1>18, <1>19, <1>21
<1>25. \A p, q \in Pid : server'[p].by = r /\ server'[q].by = r => server'[p].port = server'[q].port
  BY <1>19, <1>20, <1>21, <1>22, <1>23
<1> QED BY <1>18, <1>24, <1>25 DEF OnePortOf, New

\* The rest of the invariant, for those a step of r is not about.
LEMMA OthersKept ==
  ASSUME Inv, NEW r \in Run, Others(r), NEW s \in Run, s # r,
         \A p \in Pid : server'[p] = server[p] \/ Older(p) \/ Newborn(p, r)
  PROVE  /\ s \in Dev => StandingOf(s)' /\ OnePortOf(s)'
         /\ s \notin Dev => HeldOf(s)'
<1>1. ASSUME NEW p \in Pid, server'[p].by = s
      PROVE  /\ server[p].by = s /\ server'[p].port = server[p].port
             /\ server'[p].state # "gone" => server[p].state # "gone"
  <2>1. server[p].state # "unborn" => server[p].by # None BY DEF Inv, Born
  <2> QED BY <1>1, <2>1 DEF Older, Newborn
<1>2. /\ pc'[s] = pc[s] /\ at'[s] = at[s] /\ why'[s] = why[s] /\ session'[s] = session[s]
      /\ spare'[s] = spare[s]
      /\ \A i \in 1..Count[s] : manager'[<<s, i>>] = manager[<<s, i>>] /\ record'[<<s, i>>] = record[<<s, i>>]
  BY Views DEF Others
<1>3. ASSUME s \in Dev PROVE StandingOf(s)' /\ OnePortOf(s)'
  <2>1. manager'[<<s, 1>>] = manager[<<s, 1>>] /\ record'[<<s, 1>>] = record[<<s, 1>>]
    BY <1>2, <1>3, ServersAssumption
  <2>2. StandingOf(s)' BY <1>2, <1>3, <2>1 DEF Inv, Standing, StandingOf
  <2>3. OnePortOf(s)' BY <1>1, <1>2, <1>3, <2>1 DEF Inv, OnePort, OnePortOf
  <2> QED BY <2>2, <2>3
<1>4. ASSUME s \notin Dev PROVE HeldOf(s)'
  <2>1. HeldOf(s) BY <1>4 DEF Inv, Held
  <2> QED BY <1>1, <1>2, <2>1 DEF HeldOf
<1> QED BY <1>3, <1>4

\* What a server does alone disturbs no one.
LEMMA AloneKept ==
  ASSUME Inv, NEW p \in Pid, Binds(p) \/ Leaves(p) \/ Dies(p)
  PROVE  Owned' /\ Held' /\ Standing' /\ OnePort' /\ Typed
<1>0. /\ Older(p) /\ \A q \in Pid : q # p => server'[q] = server[q]
      /\ UNCHANGED <<manager, spare, record, session, pc, at, why, commands>>
  BY PidStep
<1>1. ASSUME NEW q \in Pid
      PROVE  /\ server'[q].by = server[q].by /\ server'[q].port = server[q].port
             /\ server'[q].state # "gone" => server[q].state # "gone"
  BY <1>0 DEF Older
<1>2. Typed BY <1>0 DEF Inv, TypeOK, Typed, ManagerSet, RecordSet, Place
<1>3. /\ manager \in [View -> ManagerSet] /\ spare \in [Run -> ManagerSet] /\ record \in [View -> RecordSet]
  BY DEF Inv, TypeOK, ManagerSet, RecordSet
<1>4. Owned' BY <1>0, <1>1, <1>3 DEF Inv, Owned, Mine, ManagerSet, RecordSet
<1>5. Held' BY <1>0, <1>1 DEF Inv, Held, HeldOf
<1>6. Standing' BY <1>0 DEF Inv, Standing, StandingOf
<1>7. OnePort' BY <1>0, <1>1 DEF Inv, OnePort, OnePortOf
<1> QED BY <1>2, <1>4, <1>5, <1>6, <1>7

LEMMA InitInv == Init => Inv
<1> SUFFICES ASSUME Init PROVE Inv
  OBVIOUS
<1> USE ServersAssumption
<1>1. TypeOK
  <2>1. pc \in [Run -> {"choose", "ended"}] BY DEF Init
  <2>2. \A r \in Run : at[r] \in 1..Count[r] BY DEF Init
  <2> QED BY <2>1, <2>2 DEF Init, TypeOK, Unborn, Manager, NoRecord
<1>2. Born /\ NeverKillsForeign BY DEF Init, Born, NeverKillsForeign, Unborn
<1>3. Owned BY DEF Init, Owned, Mine, Manager, NoRecord
<1>4. Held BY DEF Init, Held, HeldOf, Unborn
<1>5. PortUnique BY DEF Init, PortUnique, Bound, Unborn
<1>6. Standing BY DEF Init, Standing, StandingOf
<1>7. OnePort BY DEF Init, OnePort, OnePortOf, Unborn
<1> QED BY <1>1, <1>2, <1>3, <1>4, <1>5, <1>6, <1>7 DEF Inv

LEMMA InvStep == Inv /\ [Next]_vars => Inv'
<1> SUFFICES ASSUME Inv, [Next]_vars PROVE Inv'
  OBVIOUS
<1>1. ASSUME NEW r \in Run, Acts(r) PROVE Inv'
  <2>1. /\ server' \in [Pid -> Server]
        /\ \A p \in Pid : server'[p] = server[p] \/ Older(p) \/ Newborn(p, r)
        /\ \A p \in Pid : server'[p].state = "serving" => server[p].state = "serving"
    BY <1>1, ServerStep
  <2>2. Typed /\ Others(r) BY <1>1, Frame
  <2>3. TypeOK' BY <2>1, <2>2 DEF TypeOK, Typed, Server, ManagerSet, RecordSet, Place
  <2>4. Born' /\ NeverKillsForeign' BY <1>1, <2>1, ServersKept
  <2>5. Owned' BY <1>1, OwnedStep
  <2>6. ASSUME NEW s \in Run \ Dev PROVE HeldOf(s)'
    BY <1>1, <2>1, <2>2, HeldStep, OthersKept
  <2>7. ASSUME NEW s \in Dev PROVE StandingOf(s)' /\ OnePortOf(s)'
    <3>1. s \in Run BY ServersAssumption
    <3> QED BY <1>1, <2>1, <2>2, <3>1, SessionStep, OthersKept
  <2>8. PortUnique'
    <3>1. \A p \in Pid, port \in Port \cup {None} : Bound(p, port)' => Bound(p, port)
      BY <2>1, PortKept
    <3> QED BY <3>1 DEF Inv, PortUnique
  <2> QED BY <2>3, <2>4, <2>5, <2>6, <2>7, <2>8 DEF Inv, Held, Standing, OnePort
<1>2. ASSUME NEW p \in Pid, Binds(p) \/ Leaves(p) \/ Dies(p) PROVE Inv'
  <2>1. server' \in [Pid -> Server] /\ Older(p) /\ \A q \in Pid : q # p => server'[q] = server[q]
    BY <1>2, PidStep
  <2>2. Owned' /\ Held' /\ Standing' /\ OnePort' /\ Typed BY <1>2, AloneKept
  <2>3. TypeOK' BY <2>1, <2>2 DEF TypeOK, Typed, Server, ManagerSet, RecordSet, Place
  <2>4. Born' /\ NeverKillsForeign' BY <2>1, ServersKept
  <2>5. ASSUME NEW q \in Pid, NEW s \in Pid, NEW port \in Port \cup {None}, Bound(q, port)', Bound(s, port)', q # s
        PROVE  FALSE
    <3>1. \A t \in Pid : t # p /\ Bound(t, port)' => Bound(t, port) BY <2>1 DEF Bound
    <3>2. Bound(p, port)' => Bound(p, port) \/ ~_is_port_in_use(port) BY <2>1, PortKept
    <3> QED BY <2>5, <3>1, <3>2 DEF Inv, PortUnique, _is_port_in_use
  <2> QED BY <2>2, <2>3, <2>4, <2>5 DEF Inv, PortUnique
<1>3. CASE UNCHANGED vars
  BY <1>3 DEF vars, Inv, TypeOK, Born, Owned, Mine, NeverKillsForeign, Held, HeldOf,
       PortUnique, Bound,
     Standing, StandingOf, OnePort, OnePortOf
<1> QED BY <1>1, <1>2, <1>3 DEF Next, Acts, Idle

-----------------------------------------------------------------------------

LEMMA Invariant == Spec => []Inv
BY InitInv, InvStep, PTL DEF Spec

\* The state keeps its shape, however many runs, sessions, machines and servers there are.
THEOREM TypeCorrect == Spec => []TypeOK
BY Invariant, PTL DEF Inv

\* No run or session stops a server it did not start, whatever it attached to, lost or
\* found on record (MCPServerManager.stop, _is_our_cv_server).
THEOREM KillsOwnOnly == Spec => []NeverKillsForeign
BY Invariant, PTL DEF Inv

\* A run that came to its end has stopped every server it started, on every machine.
THEOREM RunLeavesNone == Spec => []NoServerLeft
<1>1. Inv => NoServerLeft
  BY DEF Inv, NoServerLeft, Held, HeldOf
<1> QED BY <1>1, Invariant, PTL

\* Two servers of one session would have one port, and a port has one server.
THEOREM OneServerPerSession == Spec => []NoSecondServer
<1>1. Inv => NoSecondServer
  <2> SUFFICES ASSUME Inv, NEW r \in Dev, NEW p \in Pid, NEW q \in Pid,
                      server[p].by = r, server[p].state = "serving",
                      server[q].by = r, server[q].state = "serving"
               PROVE  p = q
    BY DEF NoSecondServer
  <2>1. server[p].port = server[q].port BY DEF Inv, OnePort, OnePortOf
  <2>2. server[p].port \in Port \cup {None} BY DEF Inv, TypeOK
  <2> QED BY <2>1, <2>2 DEF Inv, PortUnique, Bound
<1> QED BY <1>1, Invariant, PTL

=============================================================================
