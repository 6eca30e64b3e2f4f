------------------------------ MODULE AgentCalls ------------------------------
(***************************************************************************)
(* Tool calls between the host and the agent in the guest: AdareVMClient   *)
(* (experiment/websocket_client.py) and AdareVMServer (adarevm, server.py),*)
(* both single-threaded asyncio programs, joined by WebSocket connections. *)
(* Messages carry the id of their call, and are matched by it alone: a     *)
(* connection is the set of messages it holds in either direction.         *)
(***************************************************************************)
EXTENDS FiniteSets

CONSTANTS Call,   \* ids of tool calls
          Conn,   \* connections, each made once; a bound
          None,
          Faults  \* "drop", "close", "disconnect", "newloop"

ASSUME AgentAssumption == None \notin Call \cup Conn

VARIABLES
  \* the host
  call,      \* where call_tool is
  pending,   \* pending_calls
  connected, conn, \* the flag, and the connection self.websocket is
  handler,   \* the connection _handle_messages reads, None if it ended
  sameLoop,  \* the connection belongs to the running event loop
  \* the network
  link, up, down,
  \* the agent
  serving,   \* handle_client of a connection
  clients,
  todo,      \* task ids _cleanup_client_tasks has yet to go through
  awaited,   \* the cancelled task it waits for
  task, taskOf, \* the tool, and the connection its call came by
  running,   \* running_tasks
  tasks,     \* client_tasks
  watcher    \* _handle_task_completion

host == <<call, pending, connected, conn, handler, sameLoop>>
net == <<link, up, down>>
client == <<serving, clients, todo, awaited>>
tool == <<task, taskOf, running, tasks, watcher>>
vars == <<host, net, client, tool>>

Ended == {"ok", "failed", "error", "timeout", "cancelled", "refused", "crashed"}
Message == [call : Call, result : {"ok", "failed"}]

TypeOK ==
  /\ call \in [Call -> {"idle", "joining", "waiting"} \cup Ended]
  /\ pending \subseteq Call
  /\ connected \in BOOLEAN /\ sameLoop \in BOOLEAN
  /\ conn \in Conn \cup {None} /\ handler \in {conn, None}
  /\ connected => conn # None
  /\ link \in [Conn -> {"new", "open", "closed", "broken"}]
  /\ up \in [Conn -> SUBSET Call] /\ down \in [Conn -> SUBSET Message]
  /\ serving \in [Conn -> {"no", "yes", "cleaning", "over"}]
  /\ clients \subseteq Conn /\ running \subseteq Call
  /\ todo \in [Conn -> SUBSET Call] /\ awaited \in [Conn -> Call \cup {None}]
  /\ task \in [Call -> {"none", "runs", "ok", "failed", "stopped"}]
  /\ taskOf \in [Call -> Conn \cup {None}]
  /\ tasks \in [Conn -> SUBSET Call]
  /\ watcher \in [Call -> {"none", "new", "waits", "sent", "over"}]

Init ==
  /\ call = [c \in Call |-> "idle"] /\ pending = {}
  /\ connected = FALSE /\ conn = None /\ handler = None /\ sameLoop = TRUE
  /\ link = [k \in Conn |-> "new"]
  /\ up = [k \in Conn |-> {}] /\ down = [k \in Conn |-> {}]
  /\ serving = [k \in Conn |-> "no"] /\ clients = {}
  /\ todo = [k \in Conn |-> {}] /\ awaited = [k \in Conn |-> None]
  /\ task = [c \in Call |-> "none"] /\ taskOf = [c \in Call |-> None]
  /\ running = {} /\ tasks = [k \in Conn |-> {}]
  /\ watcher = [c \in Call |-> "none"]

-----------------------------------------------------------------------------
(* The host's connection.                                                  *)

\* A handshake that succeeds; one that fails changes nothing on either side.
Opened(k) ==
  /\ link[k] = "new"
  /\ link' = [link EXCEPT ![k] = "open"]
  /\ connected' = TRUE /\ conn' = k /\ handler' = k /\ sameLoop' = TRUE
  /\ serving' = [serving EXCEPT ![k] = "yes"] /\ clients' = clients \cup {k}
  /\ UNCHANGED <<down, todo, awaited, tool>>

Connect(k) ==
  /\ ~connected /\ \A c \in Call : call[c] # "joining"
  /\ Opened(k)
  /\ UNCHANGED <<call, pending, up>>

DroppedButFlag == UNCHANGED connected /\ conn' = None /\ handler' = None \* mutant of Dropped
Dropped        == connected' = FALSE /\ conn' = None /\ handler' = None

\* In a loop that is not the connection's, disconnect only drops the references.
Disconnect ==
  /\ "disconnect" \in Faults /\ connected
  /\ Dropped
  /\ IF sameLoop /\ link[conn] = "open"
     THEN /\ link' = [link EXCEPT ![conn] = "closed"]
          /\ down' = [down EXCEPT ![conn] = {}]
     ELSE UNCHANGED <<link, down>>
  /\ UNCHANGED <<call, pending, sameLoop, up, client, tool>>

\* A development session runs each command in an asyncio.run of its own.
NewLoop ==
  /\ "newloop" \in Faults /\ connected /\ sameLoop
  /\ \A c \in Call : call[c] \notin {"joining", "waiting"}
  /\ handler' = None /\ sameLoop' = FALSE
  /\ UNCHANGED <<call, pending, connected, conn, net, client, tool>>

\* The connection ends under both: the agent closes it in order, or it breaks and
\* takes with it what was under way.
LinkEnds(k, how, lostUp, lostDown) ==
  /\ link[k] = "open"
  /\ link' = [link EXCEPT ![k] = how]
  /\ up' = [up EXCEPT ![k] = @ \ lostUp] /\ down' = [down EXCEPT ![k] = @ \ lostDown]
  /\ UNCHANGED <<host, client, tool>>

Close(k) == "close" \in Faults /\ LinkEnds(k, "closed", up[k], {})
Drop(k) ==
  /\ "drop" \in Faults
  /\ \E u \in {{}, up[k]}, d \in {{}, down[k]} : LinkEnds(k, "broken", u, d)

-----------------------------------------------------------------------------
(* call_tool.                                                              *)
Becomes(c, o) == call' = [call EXCEPT ![c] = o]

Refuse(c) ==
  /\ call[c] = "idle" /\ ~connected
  /\ Becomes(c, "refused")
  /\ UNCHANGED <<pending, connected, conn, handler, sameLoop, net, client, tool>>

\* A dead message handler is started again.  On a connection that has ended the
\* message is lost, or the host knows already and send raises.
Send(c) ==
  /\ call[c] = "idle" /\ connected /\ sameLoop
  /\ handler' = conn
  /\ \/ /\ Becomes(c, "waiting") /\ pending' = pending \cup {c}
        /\ up' = [up EXCEPT ![conn] = IF link[conn] = "open" THEN @ \cup {c} ELSE @]
     \/ /\ link[conn] # "open"
        /\ Becomes(c, "error") /\ UNCHANGED <<pending, up>>
  /\ UNCHANGED <<connected, conn, sameLoop, link, down, client, tool>>

\* _ensure_connection_in_current_loop: the references go, then connect.
Rejoin(c) ==
  /\ call[c] = "idle" /\ connected /\ ~sameLoop
  /\ Becomes(c, "joining")
  /\ Dropped /\ pending' = {}
  /\ UNCHANGED <<sameLoop, net, client, tool>>

Joined(c, k) ==
  /\ call[c] = "joining" /\ Opened(k)
  /\ Becomes(c, "waiting") /\ pending' = pending \cup {c}
  /\ up' = [up EXCEPT ![k] = {c}]

\* What connect returned is not looked at: send is called on no connection.
JoinFails(c) ==
  /\ call[c] = "joining"
  /\ Becomes(c, "crashed") /\ pending' = pending \cup {c}
  /\ UNCHANGED <<connected, conn, handler, sameLoop, net, client, tool>>

Timeout(c) ==
  /\ call[c] = "waiting"
  /\ Becomes(c, "timeout") /\ pending' = pending \ {c}
  /\ UNCHANGED <<connected, conn, handler, sameLoop, net, client, tool>>

\* An interrupted step is cancelled, its call with it: the future, not the entry.
Cancel(c) ==
  /\ call[c] = "waiting"
  /\ Becomes(c, "cancelled")
  /\ UNCHANGED <<pending, connected, conn, handler, sameLoop, net, client, tool>>

\* _handle_tool_result.
AnyWaiting(m) == {c \in pending : call[c] = "waiting"}    \* mutant of Resolved
Resolved(m)   == {m.call} \cap pending
DiesOnCancelled(m) == m.call \in pending => call[m.call] = "waiting" \* mutant of Survives
Survives(m)        == TRUE

Deliver(m) ==
  /\ handler # None /\ m \in down[handler]
  /\ down' = [down EXCEPT ![handler] = @ \ {m}]
  /\ pending' = pending \ Resolved(m)
  /\ call' = [c \in Call |-> IF c \in Resolved(m) /\ call[c] = "waiting"
                             THEN m.result ELSE call[c]]
  /\ handler' = IF Survives(m) THEN handler ELSE None
  /\ UNCHANGED <<connected, conn, sameLoop, link, up, client, tool>>

\* The loop over the connection ends; after an orderly close nobody sets the flag.
HandlerEnds ==
  /\ handler # None /\ link[handler] # "open" /\ down[handler] = {}
  /\ handler' = None
  /\ connected' = (link[handler] = "closed")
  /\ UNCHANGED <<call, pending, conn, sameLoop, net, client, tool>>

-----------------------------------------------------------------------------
(* The agent.  handle_client reads one message after the other.            *)

Receive(k, c) ==
  /\ serving[k] = "yes" /\ c \in up[k]
  /\ up' = [up EXCEPT ![k] = @ \ {c}]
  /\ taskOf' = [taskOf EXCEPT ![c] = k]
  /\ \/ /\ task' = [task EXCEPT ![c] = "runs"]
        /\ running' = running \cup {c}
        /\ tasks' = [tasks EXCEPT ![k] = @ \cup {c}]
        /\ watcher' = [watcher EXCEPT ![c] = "new"]
        /\ UNCHANGED down
     \/ /\ task' = [task EXCEPT ![c] = "failed"]       \* an unknown tool, wrong parameters
        /\ down' = [down EXCEPT ![k] = IF link[k] = "open"
                                       THEN @ \cup {[call |-> c, result |-> "failed"]} ELSE @]
        /\ UNCHANGED <<running, tasks, watcher>>
  /\ UNCHANGED <<host, link, client>>

ToolEnds(c) ==
  /\ task[c] = "runs"
  /\ task' \in {[task EXCEPT ![c] = r] : r \in {"ok", "failed"}}
  /\ UNCHANGED <<host, net, client, taskOf, running, tasks, watcher>>

\* _handle_task_completion.
ForgetHalf(c) ==                                   \* mutant of Forget
  /\ running' = running \ {c} /\ UNCHANGED tasks
  /\ watcher' = [watcher EXCEPT ![c] = "over"]

Forget(c) ==
  /\ running' = running \ {c}
  /\ tasks' = [tasks EXCEPT ![taskOf[c]] = @ \ {c}]
  /\ watcher' = [watcher EXCEPT ![c] = "over"]

WatchBegins(c) ==
  /\ watcher[c] = "new"
  /\ IF c \in running THEN watcher' = [watcher EXCEPT ![c] = "waits"] /\ UNCHANGED <<running, tasks>>
                      ELSE Forget(c)
  /\ UNCHANGED <<host, net, client, task, taskOf>>

Sent(c) == IF link[taskOf[c]] = "open" /\ taskOf[c] \in clients
           THEN {[call |-> c, result |-> task[c]]} ELSE {}

WatchSends(c) ==
  /\ watcher[c] = "waits" /\ task[c] \in {"ok", "failed"}
  /\ down' = [down EXCEPT ![taskOf[c]] = @ \cup Sent(c)]
  /\ watcher' = [watcher EXCEPT ![c] = "sent"]
  /\ UNCHANGED <<host, link, up, client, task, taskOf, running, tasks>>

WatchEnds(c) ==
  /\ \/ watcher[c] = "sent"
     \/ watcher[c] = "waits" /\ task[c] = "stopped"
  /\ Forget(c)
  /\ UNCHANGED <<host, net, client, task, taskOf>>

-----------------------------------------------------------------------------
(* _cleanup_client_tasks, in the finally of handle_client.                 *)

ClientGone(k) ==
  /\ serving[k] = "yes" /\ up[k] = {} /\ link[k] # "open"
  /\ serving' = [serving EXCEPT ![k] = "cleaning"]
  /\ todo' = [todo EXCEPT ![k] = tasks[k]]
  /\ UNCHANGED <<host, net, clients, awaited, tool>>

CleanTask(k, c) ==
  /\ serving[k] = "cleaning" /\ awaited[k] = None /\ c \in todo[k]
  /\ todo' = [todo EXCEPT ![k] = @ \ {c}]
  /\ IF c \in running /\ task[c] = "runs"
     THEN /\ task' = [task EXCEPT ![c] = "stopped"]
          /\ awaited' = [awaited EXCEPT ![k] = c]
          /\ UNCHANGED running
     ELSE running' = running \ {c} /\ UNCHANGED <<task, awaited>>
  /\ UNCHANGED <<host, net, serving, clients, taskOf, tasks, watcher>>

\* The watcher waits for the same task and is woken before; it has taken the entry
\* away, and del raises: the rest of the list and the connection are left as they are.
KeyError(c) == c \notin running

CleanWakes(k) ==
  /\ awaited[k] # None /\ watcher[awaited[k]] = "over"
  /\ awaited' = [awaited EXCEPT ![k] = None]
  /\ running' = running \ {awaited[k]}
  /\ serving' = [serving EXCEPT ![k] = IF KeyError(awaited[k]) THEN "over" ELSE @]
  /\ UNCHANGED <<host, net, clients, todo, task, taskOf, tasks, watcher>>

CleanEnds(k) ==
  /\ serving[k] = "cleaning" /\ awaited[k] = None /\ todo[k] = {}
  /\ serving' = [serving EXCEPT ![k] = "over"]
  /\ clients' = clients \ {k} /\ tasks' = [tasks EXCEPT ![k] = {}]
  /\ UNCHANGED <<host, net, todo, awaited, task, taskOf, running, watcher>>

-----------------------------------------------------------------------------
Messages == UNION {down[k] : k \in Conn}
Calls(c) ==
  \/ Refuse(c) \/ Send(c) \/ Rejoin(c) \/ (\E k \in Conn : Joined(c, k)) \/ JoinFails(c)
  \/ Timeout(c) \/ Cancel(c)
Agent(c) == (\E k \in Conn : Receive(k, c) \/ CleanTask(k, c))
            \/ ToolEnds(c) \/ WatchBegins(c) \/ WatchSends(c) \/ WatchEnds(c)

AllEnded == (\A c \in Call : call[c] \in Ended) /\ UNCHANGED vars

Next ==
  \/ Disconnect \/ NewLoop \/ HandlerEnds \/ AllEnded
  \/ \E k \in Conn : Connect(k) \/ Close(k) \/ Drop(k) \/ ClientGone(k) \/ CleanWakes(k) \/ CleanEnds(k)
  \/ \E c \in Call : Calls(c) \/ Agent(c)
  \/ \E m \in Messages : Deliver(m)

Spec == Init /\ [][Next]_vars

-----------------------------------------------------------------------------
(* Properties.                                                             *)

\* Whatever is lost, late or cancelled, call_tool keeps the promise of RemoteCalls:
\* above all a late result of a call that timed out never answers another call.
Promise == INSTANCE RemoteCalls WITH
  outcome <- [c \in Call |-> CASE call[c] \in {"idle", "joining"} -> "idle"
                               [] call[c] \in {"waiting", "ok", "failed"} -> call[c]
                               [] OTHER -> "unknown"],
  work <- task
ImplementsCalls == Promise!Spec

\* On an open connection of this loop somebody reads the results, whatever came
\* before: a result for a cancelled or forgotten call does not end the reader.
SomebodyReads == connected /\ sameLoop /\ link[conn] = "open" => handler = conn

\* The agent can find every tool that runs for a client it serves, and keeps no
\* entry of one that is over: the cleanup of a client sees the tasks it must stop.
Tracked ==
  \A c \in Call :
    /\ task[c] = "runs" => c \in running
    /\ task[c] = "runs" /\ serving[taskOf[c]] = "yes" => c \in tasks[taskOf[c]]
    /\ watcher[c] = "over" => c \notin running /\ c \notin tasks[taskOf[c]]

\* "The server tracks running tasks per client and cancels them automatically when a
\* client disconnects."
TasksCancelled == \A c \in Call : task[c] = "runs" => serving[taskOf[c]] # "over"
=============================================================================
