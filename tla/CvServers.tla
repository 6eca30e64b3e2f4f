------------------------------- MODULE CvServers -------------------------------
(***************************************************************************)
(* The computer vision servers of a host (experiment/mcp_server_manager.py *)
(* and its callers in run_setup.py, run.py and devmode/).  A run or a dev  *)
(* session has a manager per machine; a manager picks a port, later starts *)
(* a child that loads for seconds before it binds the port, and stops it   *)
(* again.  The child is in a session of its own and survives its parent: a *)
(* dev session is a series of processes that find their server by the file *)
(* cv_server.json of the run directory.                                    *)
(*                                                                         *)
(* Left out: other programs that bind ports of the window, a pid that is   *)
(* used again, a server that answers no more but keeps its port.           *)
(***************************************************************************)
EXTENDS Naturals, FiniteSets

CONSTANTS
  Run,       \* runs and dev sessions
  Dev,       \* those that are dev sessions, of one machine each
  Count,     \* the number of machines of each
  Port,      \* the window of ports, from the preferred one
  Pid,       \* pids of servers, in the order they are given out
  Casts,     \* who may take part at once, sets of runs and sessions
  Commands,  \* bound on the commands given to dev sessions
  Faults,    \* what may happen: see AllFaults
  None

AllFaults == {"crash",   \* a process of a run or a session is killed
              "down",    \* a server dies
              "spawn"}   \* a server cannot be started at all

View == UNION {{<<r, i>> : i \in 1..Count[r]} : r \in Run}

ASSUME ServersAssumption ==
  /\ Dev \subseteq Run /\ Count \in [Run -> Nat \ {0}] /\ \A r \in Dev : Count[r] = 1
  /\ Casts \subseteq SUBSET Run /\ Port \subseteq Nat /\ Pid \subseteq Nat /\ Commands \in Nat
  /\ None \notin Port \cup Pid \cup Run
  /\ Faults \subseteq AllFaults

VARIABLES
  server,   \* the servers, by pid
  manager,  \* the manager of a view: its port, Popen handle and known_server_pid
  spare,    \* the manager a restart falls back on
  record,   \* cv_server.json
  session,  \* the row of a dev session
  pc, at,   \* where a process is, and at which of its machines
  why,      \* what a start is part of
  commands  \* commands still to be given

vars == <<server, manager, spare, record, session, pc, at, why, commands>>

Unborn == [state |-> "unborn", by |-> None, port |-> None, killer |-> None]
Manager(port, known) == [port |-> port, child |-> None, known |-> known]
NoRecord == [port |-> None, pid |-> None]

v(r) == <<r, at[r]>>
Bound(p, port) == server[p].port = port /\ server[p].state \in {"serving", "stopping"}
_is_port_in_use(port) == \E p \in Pid : Bound(p, port)
Alive(p) == p # None /\ server[p].state \in {"loading", "serving", "stopping"}
Lowest(S) == CHOOSE x \in S : \A y \in S : x <= y

\* The first port of the window that can be bound now.
Free == {port \in Port : ~_is_port_in_use(port)}
find_free_cv_port == Lowest(Free)

Init ==
  /\ server = [p \in Pid |-> Unborn]
  /\ manager = [w \in View |-> Manager(None, None)] /\ spare = [r \in Run |-> Manager(None, None)]
  /\ record = [w \in View |-> NoRecord]
  /\ session = [r \in Run |-> "none"]
  /\ \E cast \in Casts : pc = [r \in Run |-> IF r \in cast THEN "choose" ELSE "ended"]
  /\ at = [r \in Run |-> 1] /\ why = [r \in Run |-> "begin"]
  /\ commands = Commands

Goes(r, label) == pc' = [pc EXCEPT ![r] = label]
Here(r, label) == pc[r] = label /\ UNCHANGED commands

-----------------------------------------------------------------------------
(* Starting.                                                               *)

\* A start that fails ends the run by its cleanup, `dev start` without one, and
\* every other command of the session; a restart leaves the old manager in place.
Failed(r) ==
  /\ at' = [at EXCEPT ![r] = 1]
  /\ CASE r \notin Dev -> Goes(r, "stop")
       [] r \in Dev /\ why[r] = "begin" -> Goes(r, "ended")
       [] r \in Dev /\ why[r] = "resume" -> Goes(r, "out")
       [] r \in Dev /\ why[r] = "restart" -> Goes(r, "ready")

\* step_prepare_run_environment: the managers of all machines, before any starts.
Choose(r) ==
  /\ Here(r, "choose")
  /\ \/ Free = {} /\ Failed(r) /\ UNCHANGED manager
     \/ /\ Free # {}
        /\ manager' = [manager EXCEPT ![v(r)] = Manager(find_free_cv_port, None)]
        /\ IF at[r] < Count[r] THEN at' = [at EXCEPT ![r] = @ + 1] /\ UNCHANGED pc
           ELSE at' = [at EXCEPT ![r] = 1] /\ Goes(r, "start")
  /\ UNCHANGED <<server, spare, record, session, why>>

\* start returns True: what the manager knows is put on record.
Started(r) ==
  /\ record' = [record EXCEPT ![v(r)] = [port |-> manager[v(r)].port, pid |-> manager[v(r)].known]]
  /\ IF at[r] < Count[r]
     THEN at' = [at EXCEPT ![r] = @ + 1] /\ Goes(r, "start") /\ UNCHANGED session
     ELSE /\ at' = [at EXCEPT ![r] = 1] /\ Goes(r, "ready")
          /\ session' = [session EXCEPT ![r] = IF r \in Dev THEN "running" ELSE @]

\* Whoever has the port is taken for the server, except after a restart's stop.
Attach(r) ==
  /\ Here(r, "start") /\ _is_port_in_use(manager[v(r)].port)
  /\ IF why[r] = "restart"
     THEN Failed(r) /\ manager' = [manager EXCEPT ![v(r)] = spare[r]] /\ UNCHANGED <<record, session>>
     ELSE Started(r) /\ UNCHANGED manager
  /\ UNCHANGED <<server, spare, why>>

Spawn(r) ==
  /\ Here(r, "start") /\ ~_is_port_in_use(manager[v(r)].port)
  /\ LET unborn == {p \in Pid : server[p].state = "unborn"}
         p == Lowest(unborn)
     IN \/ /\ unborn # {}
           /\ server' = [server EXCEPT ![p] = [@ EXCEPT !.state = "loading", !.by = r,
                                                        !.port = manager[v(r)].port]]
           /\ manager' = [manager EXCEPT ![v(r)].child = p, ![v(r)].known = p]
           /\ Goes(r, "probe") /\ UNCHANGED at
        \/ /\ unborn = {} \/ "spawn" \in Faults
           /\ Failed(r) /\ UNCHANGED server
           /\ manager' = [manager EXCEPT ![v(r)] = IF why[r] = "restart" THEN spare[r] ELSE @]
  /\ UNCHANGED <<spare, record, session, why>>

\* _await_ready looks at its child first; then the server that answers is whichever
\* has the port.
Answered(r) ==
  /\ Here(r, "probe") /\ Alive(manager[v(r)].child)
  /\ \E p \in Pid : server[p].port = manager[v(r)].port /\ server[p].state = "serving"
  /\ Started(r)
  /\ UNCHANGED <<server, manager, spare, why>>

\* Mutant: a child that is not ready in time is left to itself.
LeftLoading(p) == server

\* _terminate_dead_process
Terminated(p) == [server EXCEPT ![p].state = "gone"]

\* Mutant: only an exit of the child ends the wait.
NoBudget(r) ==
  /\ Here(r, "probe") /\ ~Alive(manager[v(r)].child)
  /\ manager' = [manager EXCEPT ![v(r)] = IF why[r] = "restart" THEN spare[r] ELSE [@ EXCEPT !.child = None]]
  /\ Failed(r)
  /\ UNCHANGED <<server, spare, record, session, why>>

\* The child has exited, or the minute is over.
Unready(r) ==
  /\ Here(r, "probe")
  /\ LET child == manager[v(r)].child IN
     /\ \/ ~Alive(child) /\ UNCHANGED server
        \/ Alive(child) /\ server[child].state = "loading" /\ server' = Terminated(child)
  /\ manager' = [manager EXCEPT ![v(r)] = IF why[r] = "restart" THEN spare[r] ELSE [@ EXCEPT !.child = None]]
  /\ Failed(r)
  /\ UNCHANGED <<spare, record, session, why>>

-----------------------------------------------------------------------------
(* Stopping.                                                               *)

\* Mutant: any server on the port will do.
AnyServer(w, p) == Bound(p, manager[w].port)

\* A process on the port, with the pid on record, whose command line is a server's.
_is_our_cv_server(w, p) == Bound(p, manager[w].port) /\ manager[w].known = p

\* MCPServerManager.stop: the child is waited for, another server is only signalled.
Stop(w, force) ==
  LET m == manager[w]
      ours == {p \in Pid : force /\ _is_our_cv_server(w, p)}
  IN IF Alive(m.child)
     THEN /\ server' = [server EXCEPT ![m.child].state = "gone", ![m.child].killer = w[1]]
          /\ manager' = [manager EXCEPT ![w] = Manager(m.port, None)]
     ELSE /\ server' = [p \in Pid |-> IF p \in ours
                          THEN [server[p] EXCEPT !.state = "stopping", !.killer = w[1]] ELSE server[p]]
          /\ manager' = IF ours = {} THEN manager ELSE [manager EXCEPT ![w].known = None]

\* The work of a run is over, or it failed.
RunOver(r) ==
  /\ r \notin Dev /\ Here(r, "ready") /\ Goes(r, "stop")
  /\ UNCHANGED <<server, manager, spare, record, session, at, why>>

\* step_shutdown_mcp_server of a run: its own children only.
Shutdown(r) ==
  /\ r \notin Dev /\ Here(r, "stop") /\ Stop(v(r), FALSE)
  /\ IF at[r] < Count[r] THEN at' = [at EXCEPT ![r] = @ + 1] /\ UNCHANGED pc
     ELSE Goes(r, "ended") /\ UNCHANGED at
  /\ UNCHANGED <<spare, record, session, why>>

-----------------------------------------------------------------------------
(* Dev sessions.                                                           *)

Command(r, label) ==
  /\ r \in Dev /\ pc[r] = label /\ commands > 0 /\ commands' = commands - 1

\* The process of a command ends; the session goes on, its server too.
Exit(r) ==
  /\ r \in Dev /\ Here(r, "ready") /\ Goes(r, "out")
  /\ manager' = [manager EXCEPT ![v(r)] = Manager(None, None)]
  /\ UNCHANGED <<server, spare, record, session, at, why>>

\* Mutant: a command looks for a port of its own.
FreshPort(r) == Manager(find_free_cv_port, record[<<r, 1>>].pid)

\* restore_application_context: the server on record, if there is a record.
Reclaimed(r) ==
  Manager(IF record[<<r, 1>>].port = None THEN find_free_cv_port ELSE record[<<r, 1>>].port,
          record[<<r, 1>>].pid)

\* The next command, or `dev start` of a stopped session.
Resume(r) ==
  /\ Command(r, "out") /\ session[r] \in {"running", "stopped"}
  /\ manager' = [manager EXCEPT ![<<r, 1>>] = Reclaimed(r)]
  /\ Goes(r, "start") /\ why' = [why EXCEPT ![r] = "resume"]
  /\ UNCHANGED <<server, spare, record, session, at>>

StopCv(r) ==
  /\ Command(r, "ready") /\ Stop(v(r), TRUE)
  /\ UNCHANGED <<spare, record, session, pc, at, why>>

\* restart_mcp_server: stop, wait a second, and start a new manager at the port.
RestartStops(r) ==
  /\ Command(r, "ready") /\ Stop(v(r), TRUE) /\ Goes(r, "restart")
  /\ UNCHANGED <<spare, record, session, at, why>>

RestartStarts(r) ==
  /\ Here(r, "restart") /\ Goes(r, "start") /\ why' = [why EXCEPT ![r] = "restart"]
  /\ spare' = [spare EXCEPT ![r] = manager[v(r)]]
  /\ manager' = [manager EXCEPT ![v(r)] = Manager(@.port, None)]
  /\ UNCHANGED <<server, record, session, at>>

\* `dev stop`, or `dev remove` by a process that has the session: the server is
\* taken for shared as long as any other session runs.  `dev remove` deletes the
\* run directory.
EndSession(r, status) ==
  /\ Command(r, "ready")
  /\ IF \E s \in Dev \ {r} : session[s] = "running"
     THEN UNCHANGED <<server, manager>>
     ELSE Stop(v(r), TRUE)
  /\ session' = [session EXCEPT ![r] = status]
  /\ IF status = "removed" THEN Goes(r, "ended") /\ record' = [record EXCEPT ![v(r)] = NoRecord]
     ELSE Goes(r, "out") /\ UNCHANGED record
  /\ UNCHANGED <<spare, at, why>>

\* `dev remove` by a new process: it loads the machine only, and no manager.
RemoveUnloaded(r) ==
  /\ Command(r, "out") /\ session[r] \in {"running", "stopped"} /\ Goes(r, "ended")
  /\ session' = [session EXCEPT ![r] = "removed"] /\ record' = [record EXCEPT ![v(r)] = NoRecord]
  /\ UNCHANGED <<server, manager, spare, at, why>>

-----------------------------------------------------------------------------
(* Servers, and faults.                                                    *)

Becomes(p, state) ==
  /\ server' = [server EXCEPT ![p].state = state]
  /\ UNCHANGED <<manager, spare, record, session, pc, at, why, commands>>

\* A server that has loaded takes its port, or exits if that is taken.
Binds(p) ==
  /\ server[p].state = "loading"
  /\ Becomes(p, IF _is_port_in_use(server[p].port) THEN "gone" ELSE "serving")

Leaves(p) == server[p].state = "stopping" /\ Becomes(p, "gone")
Dies(p) == "down" \in Faults /\ server[p].state \in {"loading", "serving"} /\ Becomes(p, "gone")

\* A process is killed; a session that was saved can be taken up again.
Crash(r) ==
  /\ "crash" \in Faults /\ pc[r] \notin {"out", "ended", "dead"}
  /\ Goes(r, IF session[r] = "none" THEN "dead" ELSE "out")
  /\ at' = [at EXCEPT ![r] = 1]
  /\ UNCHANGED <<server, manager, spare, record, session, why, commands>>

Step(r) ==
  \/ Choose(r) \/ Attach(r) \/ Spawn(r) \/ Answered(r) \/ Unready(r)
  \/ RunOver(r) \/ Shutdown(r) \/ Exit(r) \/ RestartStarts(r)

Order(r) ==
  \/ Resume(r) \/ StopCv(r) \/ RestartStops(r) \/ RemoveUnloaded(r)
  \/ \E status \in {"stopped", "removed"} : EndSession(r, status)

Idle == (\A r \in Run : pc[r] \in {"out", "ended", "dead"}) /\ UNCHANGED vars

Next ==
  \/ \E r \in Run : Step(r) \/ Order(r) \/ Crash(r)
  \/ \E p \in Pid : Binds(p) \/ Leaves(p) \/ Dies(p)
  \/ Idle

Spec == Init /\ [][Next]_vars
FairSpec == Spec /\ \A r \in Run : WF_vars(Step(r))

-----------------------------------------------------------------------------
(* Properties.                                                             *)

TypeOK ==
  /\ server \in [Pid -> [state : {"unborn", "loading", "serving", "stopping", "gone"},
                         by : Run \cup {None}, port : Port \cup {None}, killer : Run \cup {None}]]
  /\ manager \in [View -> [port : Port \cup {None}, child : Pid \cup {None}, known : Pid \cup {None}]]
  /\ spare \in [Run -> [port : Port \cup {None}, child : Pid \cup {None}, known : Pid \cup {None}]]
  /\ record \in [View -> [port : Port \cup {None}, pid : Pid \cup {None}]]
  /\ session \in [Run -> {"none", "running", "stopped", "removed"}]
  /\ pc \in [Run -> {"choose", "start", "probe", "ready", "stop", "restart", "out", "ended", "dead"}]
  /\ at \in [Run -> Nat] /\ \A r \in Run : at[r] \in 1..Count[r]
  /\ why \in [Run -> {"begin", "resume", "restart"}]
  /\ commands \in 0..Commands

\* A server is stopped only by the run or session that started it, whoever else
\* was given its port, attached to it, or came back to it from a record.
NeverKillsForeign == \A p \in Pid : server[p].killer \in {None, server[p].by}

\* No server of a run that came to its end is left, though its start failed or
\* another server answered in its place.
NoServerLeft ==
  \A r \in Run \ Dev, p \in Pid : pc[r] = "ended" /\ server[p].by = r => server[p].state = "gone"

\* A session never has two servers, however often it is left and taken up again.
NoSecondServer ==
  \A r \in Dev, p, q \in Pid :
    (/\ server[p].by = r /\ server[p].state = "serving"
     /\ server[q].by = r /\ server[q].state = "serving") => p = q

\* No start and no command waits for ever, whether its server loads or not.
Over(r) == pc[r] \in {"out", "ended", "dead"}
EveryCommandEnds == \A r \in Run : []<>Over(r)

\* Each machine has a server of its own.
OneServerEach ==
  \A r \in Run : pc[r] = "ready" =>
    \A i, j \in 1..Count[r] : i # j => manager[<<r, i>>].port # manager[<<r, j>>].port
=============================================================================
