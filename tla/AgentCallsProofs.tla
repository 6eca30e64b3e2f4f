---------------------------- MODULE AgentCallsProofs ----------------------------
(***************************************************************************)
(* Theorems about tool calls, for any number of calls and connections and  *)
(* whatever faults.                                                        *)
(***************************************************************************)
EXTENDS AgentCalls, TLAPS

\* A call whose message has been sent, or that has ended without.
Asked(c) == call[c] \notin {"idle", "joining"}

\* A message on its way up is of a call that was made, of one the agent knows nothing
\* of, and is on its way once only.
Underway ==
  \A k \in Conn : \A c \in up[k] :
    Asked(c) /\ task[c] = "none" /\ \A j \in Conn : c \in up[j] => j = k

\* The agent works on calls that were made, by the connection they came by.
Begun ==
  \A c \in Call :
    /\ task[c] # "none" => Asked(c)
    /\ taskOf[c] # None => link[taskOf[c]] # "new"
Unopened ==
  \A k \in Conn :
    /\ link[k] = "new" => serving[k] = "no"
    /\ awaited[k] # None => serving[k] = "cleaning"

\* Who watches a tool, and what it has seen of it.
Watched ==
  \A c \in Call :
    /\ watcher[c] = "none" => task[c] \in {"none", "failed"}
    /\ watcher[c] # "none" => taskOf[c] \in Conn /\ task[c] # "none"
    /\ watcher[c] = "sent" => task[c] \in {"ok", "failed"}

\* A message on its way down says what became of its call.
Truthful == \A k \in Conn : \A m \in down[k] : task[m.call] = m.result

Inv == TypeOK /\ Underway /\ Begun /\ Unopened /\ Watched /\ Truthful /\ SomebodyReads /\ Tracked

LEMMA InitInv == Init => Inv
<1> SUFFICES ASSUME Init PROVE Inv OBVIOUS
<1> USE DEF Init
<1>1. TypeOK BY DEF TypeOK, Ended
<1>2. Underway /\ Begun /\ Unopened BY DEF Underway, Begun, Unopened
<1>3. Watched /\ Truthful /\ SomebodyReads /\ Tracked BY DEF Watched, Truthful, SomebodyReads, Tracked
<1> QED BY <1>1, <1>2, <1>3 DEF Inv

-----------------------------------------------------------------------------
(* Every step is one of these.                                             *)
LEMMA Steps ==
  ASSUME [Next]_vars
  PROVE  \/ UNCHANGED vars \/ Disconnect \/ NewLoop \/ HandlerEnds
         \/ \E k \in Conn : Connect(k) \/ Close(k) \/ Drop(k) \/ ClientGone(k) \/ CleanWakes(k)
                            \/ CleanEnds(k)
         \/ \E c \in Call : Refuse(c) \/ Send(c) \/ Rejoin(c) \/ JoinFails(c) \/ Timeout(c) \/ Cancel(c)
         \/ \E c \in Call, k \in Conn : Joined(c, k) \/ Receive(k, c) \/ CleanTask(k, c)
         \/ \E c \in Call : ToolEnds(c) \/ WatchBegins(c) \/ WatchSends(c) \/ WatchEnds(c)
         \/ \E m \in Messages : Deliver(m)
BY DEF Next, Calls, Agent, AllEnded

LEMMA InvStep == ASSUME Inv, [Next]_vars PROVE Inv'
<1> USE AgentAssumption DEF Inv, host, net, client, tool, Becomes, Dropped, Opened, LinkEnds, Forget
<1> USE DEF TypeOK, Underway, Begun, Unopened, Watched, Truthful, SomebodyReads, Tracked, Asked, Ended, Message
<1>1. CASE UNCHANGED vars BY <1>1 DEF vars
<1>2. CASE Disconnect
  <2>1. TypeOK'
    <3>1. link' \in [Conn -> {"new", "open", "closed", "broken"}] BY <1>2 DEF Disconnect
    <3>2. down' \in [Conn -> SUBSET Message]
      <4>1. down \in [Conn -> SUBSET Message] OBVIOUS
      <4>2. down' = down \/ down' = [down EXCEPT ![conn] = {}] BY <1>2 DEF Disconnect
      <4> QED BY ONLY <4>1, <4>2
    <3>3. connected' = FALSE /\ conn' = None /\ handler' = None /\ UNCHANGED <<sameLoop, call, pending>>
      BY <1>2 DEF Disconnect
    <3>4. UNCHANGED <<up, client, tool>> BY <1>2 DEF Disconnect
    <3> QED BY <3>1, <3>2, <3>3, <3>4
  <2>2. Underway' BY <1>2 DEF Disconnect
  <2>3. Begun' /\ Unopened' BY <1>2 DEF Disconnect
  <2>4. Watched' BY <1>2 DEF Disconnect
  <2>5. Truthful' BY <1>2 DEF Disconnect
  <2>6. SomebodyReads' BY <1>2 DEF Disconnect
  <2>7. Tracked' BY <1>2 DEF Disconnect
  <2> QED BY <2>1, <2>2, <2>3, <2>4, <2>5, <2>6, <2>7
<1>3. CASE NewLoop BY <1>3 DEF NewLoop
<1>4. CASE HandlerEnds BY <1>4 DEF HandlerEnds
<1>5. ASSUME NEW k \in Conn, Connect(k) PROVE Inv' BY <1>5 DEF Connect
<1>6. ASSUME NEW k \in Conn, Close(k) PROVE Inv' BY <1>6 DEF Close
<1>7. ASSUME NEW k \in Conn, Drop(k) PROVE Inv' BY <1>7 DEF Drop
<1>8. ASSUME NEW k \in Conn, ClientGone(k) PROVE Inv' BY <1>8 DEF ClientGone
<1>9. ASSUME NEW k \in Conn, CleanWakes(k) PROVE Inv'
  <2>1. KeyError(awaited[k]) BY <1>9 DEF CleanWakes, KeyError
  <2>2. UNCHANGED running BY <1>9, <2>1 DEF CleanWakes, KeyError
  <2>3. serving' = [serving EXCEPT ![k] = "over"] BY <1>9, <2>1 DEF CleanWakes
  <2>4. TypeOK' /\ Unopened'
    <3>1. serving' \in [Conn -> {"no", "yes", "cleaning", "over"}] BY <2>3
    <3>2. awaited' \in [Conn -> Call \cup {None}] BY <1>9 DEF CleanWakes
    <3>3. serving[k] = "cleaning" BY <1>9 DEF CleanWakes
    <3> QED BY <1>9, <2>2, <2>3, <3>1, <3>2, <3>3 DEF CleanWakes
  <2>5. Underway' /\ Begun' /\ Watched' /\ Truthful' BY <1>9 DEF CleanWakes
  <2>6. SomebodyReads' /\ Tracked' BY <1>9, <2>2, <2>3 DEF CleanWakes
  <2> QED BY <2>4, <2>5, <2>6
<1>10. ASSUME NEW k \in Conn, CleanEnds(k) PROVE Inv' BY <1>10 DEF CleanEnds
<1>11. ASSUME NEW c \in Call, Refuse(c) PROVE Inv' BY <1>11 DEF Refuse
<1>12. ASSUME NEW c \in Call, Send(c) PROVE Inv'
  <2>1. TypeOK'
    <3>1. up' \in [Conn -> SUBSET Call] BY <1>12 DEF Send
    <3>2. call' \in [Call -> {"idle", "joining", "waiting"} \cup Ended] /\ pending' \subseteq Call
      BY <1>12 DEF Send
    <3> QED BY <1>12, <3>1, <3>2 DEF Send
  <2>2. Underway' BY <1>12 DEF Send
  <2>3. Begun' /\ Unopened' BY <1>12 DEF Send
  <2>4. Watched' BY <1>12 DEF Send
  <2>5. Truthful' BY <1>12 DEF Send
  <2>6. SomebodyReads' BY <1>12 DEF Send
  <2>7. Tracked' BY <1>12 DEF Send
  <2> QED BY <2>1, <2>2, <2>3, <2>4, <2>5, <2>6, <2>7
<1>13. ASSUME NEW c \in Call, Rejoin(c) PROVE Inv'
  <2>1. TypeOK' BY <1>13 DEF Rejoin
  <2>2. Underway' BY <1>13 DEF Rejoin
  <2>3. Begun' /\ Unopened' BY <1>13 DEF Rejoin
  <2>4. Watched' BY <1>13 DEF Rejoin
  <2>5. Truthful' BY <1>13 DEF Rejoin
  <2>6. SomebodyReads' BY <1>13 DEF Rejoin
  <2>7. Tracked' BY <1>13 DEF Rejoin
  <2> QED BY <2>1, <2>2, <2>3, <2>4, <2>5, <2>6, <2>7
<1>14. ASSUME NEW c \in Call, JoinFails(c) PROVE Inv' BY <1>14 DEF JoinFails
<1>15. ASSUME NEW c \in Call, Timeout(c) PROVE Inv' BY <1>15 DEF Timeout
<1>16. ASSUME NEW c \in Call, Cancel(c) PROVE Inv' BY <1>16 DEF Cancel
<1>17. ASSUME NEW c \in Call, NEW k \in Conn, Joined(c, k) PROVE Inv' BY <1>17 DEF Joined
<1>18. ASSUME NEW c \in Call, NEW k \in Conn, Receive(k, c) PROVE Inv'
  <2>1. TypeOK'
    <3>1. down' \in [Conn -> SUBSET Message] BY <1>18 DEF Receive
    <3>2. up' \in [Conn -> SUBSET Call] /\ taskOf' \in [Call -> Conn \cup {None}] BY <1>18 DEF Receive
    <3>3. task' \in [Call -> {"none", "runs", "ok", "failed", "stopped"}] /\ running' \subseteq Call
      BY <1>18 DEF Receive
    <3>4. tasks' \in [Conn -> SUBSET Call]
      <4>1. tasks' = tasks \/ tasks' = [tasks EXCEPT ![k] = @ \cup {c}] BY <1>18 DEF Receive
      <4>2. tasks \in [Conn -> SUBSET Call] OBVIOUS
      <4> QED BY ONLY <1>18, <4>1, <4>2
    <3>5. watcher' \in [Call -> {"none", "new", "waits", "sent", "over"}]
      <4>1. watcher' = watcher \/ watcher' = [watcher EXCEPT ![c] = "new"] BY <1>18 DEF Receive
      <4>2. watcher \in [Call -> {"none", "new", "waits", "sent", "over"}] OBVIOUS
      <4> QED BY ONLY <4>1, <4>2
    <3> QED BY <1>18, <3>1, <3>2, <3>3, <3>4, <3>5 DEF Receive
  <2>2. Underway' BY <1>18 DEF Receive
  <2>3. Begun' /\ Unopened' BY <1>18 DEF Receive
  <2>4. Watched' BY <1>18 DEF Receive
  <2>5. Truthful' BY <1>18 DEF Receive
  <2>6. SomebodyReads' BY <1>18 DEF Receive
  <2>7. Tracked'
    <3>1. task[c] = "none" /\ watcher[c] \notin {"new", "waits", "sent", "over"} BY <1>18 DEF Receive
    <3>2. CASE task'[c] = "runs"
      <4>1. c \in running' /\ tasks' = [tasks EXCEPT ![k] = @ \cup {c}] /\ taskOf'[c] = k
            /\ watcher'[c] = "new" BY <1>18, <3>2 DEF Receive
      <4>2. c \in tasks'[k] BY <4>1
      <4>3. ASSUME NEW d \in Call, d # c
            PROVE  /\ task'[d] = task[d] /\ taskOf'[d] = taskOf[d] /\ watcher'[d] = watcher[d]
                   /\ d \in running' <=> d \in running
                   /\ \A j \in Conn : d \in tasks'[j] <=> d \in tasks[j]
        BY <1>18, <3>2, <4>1, <4>3 DEF Receive
      <4>4. ASSUME NEW d \in Call, d # c
            PROVE  /\ task'[d] = "runs" => d \in running'
                   /\ task'[d] = "runs" /\ serving'[taskOf'[d]] = "yes" => d \in tasks'[taskOf'[d]]
                   /\ watcher'[d] = "over" => d \notin running' /\ d \notin tasks'[taskOf'[d]]
        BY <1>18, <4>3, <4>4 DEF Receive
      <4> QED BY <4>1, <4>2, <4>4
    <3>3. CASE task'[c] = "failed" BY <1>18, <3>1, <3>3 DEF Receive
    <3> QED BY <1>18, <3>2, <3>3 DEF Receive
  <2> QED BY <2>1, <2>2, <2>3, <2>4, <2>5, <2>6, <2>7
<1>19. ASSUME NEW c \in Call, NEW k \in Conn, CleanTask(k, c) PROVE Inv'
  <2>1. CASE c \in running /\ task[c] = "runs"
    <3>1. TypeOK' /\ Unopened' BY <1>19, <2>1 DEF CleanTask
    <3>2. Underway' /\ Begun' /\ Watched' /\ Truthful' BY <1>19, <2>1 DEF CleanTask
    <3>3. SomebodyReads' /\ Tracked' BY <1>19, <2>1 DEF CleanTask
    <3> QED BY <3>1, <3>2, <3>3
  <2>2. CASE ~(c \in running /\ task[c] = "runs")
    <3>1. TypeOK' /\ Unopened' BY <1>19, <2>2 DEF CleanTask
    <3>2. Underway' /\ Begun' /\ Watched' /\ Truthful' BY <1>19, <2>2 DEF CleanTask
    <3>3. SomebodyReads' /\ Tracked' BY <1>19, <2>2 DEF CleanTask
    <3> QED BY <3>1, <3>2, <3>3
  <2> QED BY <2>1, <2>2
<1>20. ASSUME NEW c \in Call, ToolEnds(c) PROVE Inv' BY <1>20 DEF ToolEnds
<1>21. ASSUME NEW c \in Call, WatchBegins(c) PROVE Inv' BY <1>21 DEF WatchBegins
<1>22. ASSUME NEW c \in Call, WatchSends(c) PROVE Inv' BY <1>22 DEF WatchSends, Sent
<1>23. ASSUME NEW c \in Call, WatchEnds(c) PROVE Inv' BY <1>23 DEF WatchEnds
<1>24. ASSUME NEW m \in Messages, Deliver(m) PROVE Inv' BY <1>24 DEF Messages, Deliver, Resolved, Survives
<1> QED
  BY <1>1, <1>2, <1>3, <1>4, <1>5, <1>6, <1>7, <1>8, <1>9, <1>10, <1>11, <1>12, <1>13, <1>14, <1>15,
     <1>16, <1>17, <1>18, <1>19, <1>20, <1>21, <1>22, <1>23, <1>24, Steps

THEOREM Invariant == Spec => []Inv
<1>1. Inv /\ [Next]_vars => Inv' BY InvStep
<1> QED BY InitInv, <1>1, PTL DEF Spec

\* The variables keep their types.
THEOREM TypeCorrect == Spec => []TypeOK
<1>1. Inv => TypeOK BY DEF Inv
<1> QED BY Invariant, <1>1, PTL

\* A connection the host believes in and can use always has its reader: no lost, late or
\* cancelled call, and no reconnection, leaves call_tool to wait for a result nobody reads.
THEOREM ReaderSafe == Spec => []SomebodyReads
<1>1. Inv => SomebodyReads BY DEF Inv
<1> QED BY Invariant, <1>1, PTL

\* Every tool that runs for a client is in the two dictionaries its cleanup goes by, and no
\* tool that is over is, in whatever order watchers and cleanups run.
THEOREM TrackedSafe == Spec => []Tracked
<1>1. Inv => Tracked BY DEF Inv
<1> QED BY Invariant, <1>1, PTL

-----------------------------------------------------------------------------
(* The promise of a call: work at most once and only if asked for, and no  *)
(* answer but that of the call's own work.                                 *)

Seen(x) == CASE x \in {"idle", "joining"} -> "idle"
             [] x \in {"waiting", "ok", "failed"} -> x
             [] OTHER -> "unknown"
Outcome == [c \in Call |-> Seen(call[c])]

\* A step that leaves calls and tools alone is a stutter.
LEMMA Stutters ==
  ASSUME UNCHANGED <<call, task>>
  PROVE  UNCHANGED <<Outcome, task>>
BY DEF Outcome

\* A call that becomes o, for its caller.
LEMMA OutcomeOf ==
  ASSUME TypeOK, NEW c \in Call, NEW o, Becomes(c, o)
  PROVE  Outcome' = [Outcome EXCEPT ![c] = Seen(o)]
BY DEF TypeOK, Becomes, Outcome

LEMMA AskStep ==
  ASSUME NEW c \in Call, Outcome[c] = "idle", UNCHANGED task,
         Outcome' \in {[Outcome EXCEPT ![c] = o] : o \in {"waiting", "unknown"}}
  PROVE  Promise!Next
<1>1. Promise!Ask(c) BY DEF Promise!Ask, Outcome, Seen
<1> QED BY <1>1 DEF Promise!Next

LEMMA GiveUpStep ==
  ASSUME NEW c \in Call, Outcome[c] = "waiting", UNCHANGED task, Outcome' = [Outcome EXCEPT ![c] = "unknown"]
  PROVE  Promise!Next
<1>1. Promise!GiveUp(c) BY DEF Promise!GiveUp, Outcome, Seen
<1> QED BY <1>1 DEF Promise!Next

LEMMA AnswerStep ==
  ASSUME NEW c \in Call, Outcome[c] = "waiting", task[c] \in {"ok", "failed"}, UNCHANGED task,
         Outcome' = [Outcome EXCEPT ![c] = task[c]]
  PROVE  Promise!Next
<1>1. Promise!Answer(c) BY DEF Promise!Answer, Outcome, Seen
<1> QED BY <1>1 DEF Promise!Next

LEMMA WorkStep ==
  ASSUME NEW c \in Call, UNCHANGED Outcome,
         \/ /\ task[c] = "none" /\ Outcome[c] # "idle"
            /\ task' \in {[task EXCEPT ![c] = w] : w \in {"runs", "failed"}}
         \/ /\ task[c] = "runs"
            /\ task' \in {[task EXCEPT ![c] = w] : w \in {"ok", "failed", "stopped"}}
  PROVE  Promise!Next
<1>1. Promise!Work(c) BY DEF Promise!Work, Outcome, Seen
<1> QED BY <1>1 DEF Promise!Next

LEMMA PromiseStep ==
  ASSUME Inv, [Next]_vars
  PROVE  Promise!Next \/ UNCHANGED <<Outcome, task>>
<1>t. TypeOK BY DEF Inv
<1> USE DEF host, net, client, tool
<1>1. ASSUME UNCHANGED <<call, task>> PROVE UNCHANGED <<Outcome, task>> BY <1>1, Stutters
<1>2. ASSUME NEW c \in Call, Send(c) \/ Refuse(c) \/ JoinFails(c) \/ (\E k \in Conn : Joined(c, k))
      PROVE  Promise!Next
  <2>1. PICK o \in Ended \cup {"waiting"} : Becomes(c, o) /\ Seen(o) \in {"waiting", "unknown"}
    BY <1>2 DEF Send, Refuse, JoinFails, Joined, Ended, Seen
  <2>2. call[c] \in {"idle", "joining"} /\ UNCHANGED task
    BY <1>2 DEF Send, Refuse, JoinFails, Joined, Opened
  <2>3. Outcome[c] = "idle" BY <2>2 DEF Outcome, Seen
  <2>4. Outcome' = [Outcome EXCEPT ![c] = Seen(o)] BY <1>t, <2>1, OutcomeOf
  <2> QED BY <2>1, <2>2, <2>3, <2>4, AskStep
<1>3. ASSUME NEW c \in Call, Timeout(c) \/ Cancel(c) PROVE Promise!Next
  <2>1. PICK o \in {"timeout", "cancelled"} : Becomes(c, o) BY <1>3 DEF Timeout, Cancel
  <2>2. call[c] = "waiting" /\ UNCHANGED task BY <1>3 DEF Timeout, Cancel
  <2>3. Seen(o) = "unknown" /\ Outcome[c] = "waiting" BY <2>2 DEF Seen, Outcome
  <2> QED BY <1>t, <2>1, <2>2, <2>3, OutcomeOf, GiveUpStep
<1>4. ASSUME NEW c \in Call, Rejoin(c) PROVE UNCHANGED <<Outcome, task>>
  <2>1. Becomes(c, "joining") /\ call[c] = "idle" /\ UNCHANGED task BY <1>4 DEF Rejoin
  <2>2. Outcome[c] = Seen("joining") BY <2>1 DEF Outcome, Seen
  <2>3. Outcome' = [Outcome EXCEPT ![c] = Seen("joining")] BY <1>t, <2>1, OutcomeOf
  <2> QED BY <2>1, <2>2, <2>3 DEF Outcome
<1>5. ASSUME NEW c \in Call, NEW k \in Conn, Receive(k, c) PROVE Promise!Next
  <2>1. task[c] = "none" /\ Outcome[c] # "idle"
    <3>1. c \in up[k] BY <1>5 DEF Receive
    <3>2. task[c] = "none" /\ Asked(c) BY <3>1 DEF Inv, Underway
    <3> QED BY <3>2 DEF Asked, Outcome, Seen
  <2>2. task' \in {[task EXCEPT ![c] = w] : w \in {"runs", "failed"}} BY <1>5 DEF Receive
  <2>3. UNCHANGED Outcome BY <1>5 DEF Receive, Outcome
  <2> QED BY <2>1, <2>2, <2>3, WorkStep
<1>6. ASSUME NEW c \in Call, NEW k \in Conn, CleanTask(k, c) PROVE Promise!Next \/ UNCHANGED <<Outcome, task>>
  <2>1. UNCHANGED call BY <1>6 DEF CleanTask
  <2>2. CASE c \in running /\ task[c] = "runs"
    <3>1. task[c] = "runs" /\ task' = [task EXCEPT ![c] = "stopped"] BY <1>6, <2>2 DEF CleanTask
    <3>2. UNCHANGED Outcome BY <2>1 DEF Outcome
    <3> QED BY <3>1, <3>2, WorkStep
  <2>3. CASE ~(c \in running /\ task[c] = "runs") BY <1>6, <1>1, <2>3 DEF CleanTask
  <2> QED BY <2>2, <2>3
<1>7. ASSUME NEW c \in Call, ToolEnds(c) PROVE Promise!Next
  <2>1. task[c] = "runs" /\ task' \in {[task EXCEPT ![c] = w] : w \in {"ok", "failed"}} BY <1>7 DEF ToolEnds
  <2>2. UNCHANGED Outcome BY <1>7 DEF ToolEnds, Outcome
  <2> QED BY <2>1, <2>2, WorkStep
<1>8. ASSUME NEW m \in Messages, Deliver(m) PROVE Promise!Next \/ UNCHANGED <<Outcome, task>>
  <2>1. m \in Message /\ handler \in Conn /\ m \in down[handler] /\ UNCHANGED task
    BY <1>8, <1>t, AgentAssumption DEF Deliver, TypeOK, Messages
  <2>2. m.call \in Call /\ task[m.call] = m.result /\ m.result \in {"ok", "failed"}
    BY <2>1 DEF Inv, Truthful, Message
  <2>3. CASE m.call \in pending /\ call[m.call] = "waiting"
    <3>1. Becomes(m.call, m.result) BY <1>8, <1>t, <2>2, <2>3 DEF Deliver, Resolved, Becomes, TypeOK
    <3>2. Seen(m.result) = task[m.call] /\ Outcome[m.call] = "waiting" BY <2>2, <2>3 DEF Seen, Outcome
    <3> QED BY <1>t, <2>1, <2>2, <3>1, <3>2, OutcomeOf, AnswerStep
  <2>4. CASE ~(m.call \in pending /\ call[m.call] = "waiting")
    <3>1. UNCHANGED call BY <1>8, <1>t, <2>2, <2>4 DEF Deliver, Resolved, TypeOK
    <3> QED BY <2>1, <3>1, <1>1
  <2> QED BY <2>3, <2>4
<1>9. CASE UNCHANGED vars \/ Disconnect \/ NewLoop \/ HandlerEnds
  BY <1>9, <1>1 DEF vars, Disconnect, NewLoop, HandlerEnds
<1>10. ASSUME NEW k \in Conn, Connect(k) \/ Close(k) \/ Drop(k) \/ ClientGone(k) \/ CleanWakes(k) \/ CleanEnds(k)
       PROVE  UNCHANGED <<Outcome, task>>
  BY <1>10, <1>1 DEF Connect, Opened, Close, Drop, LinkEnds, ClientGone, CleanWakes, CleanEnds
<1>11. ASSUME NEW c \in Call, WatchBegins(c) \/ WatchSends(c) \/ WatchEnds(c) PROVE UNCHANGED <<Outcome, task>>
  BY <1>11, <1>1 DEF WatchBegins, WatchSends, WatchEnds
<1> QED BY <1>2, <1>3, <1>4, <1>5, <1>6, <1>7, <1>8, <1>9, <1>10, <1>11, Steps

\* call_tool and the agent keep the promise of RemoteCalls: the work of a call is done at
\* most once and only if it was asked for, and an answer is the answer of that very work,
\* whatever is lost, closed, cancelled, timed out or asked again from another event loop.
THEOREM CallsImplemented == Spec => ImplementsCalls
<1>1. Init => Promise!Init BY DEF Init, Promise!Init
<1>2. Inv /\ [Next]_vars => [Promise!Next]_<<Outcome, task>> BY PromiseStep
<1>3. [Promise!Next]_<<Outcome, task>> =>
        [Promise!Next]_<<[c \in Call |-> CASE call[c] \in {"idle", "joining"} -> "idle"
                                           [] call[c] \in {"waiting", "ok", "failed"} -> call[c]
                                           [] OTHER -> "unknown"], task>>
  BY DEF Outcome, Seen
<1> QED BY <1>1, <1>2, <1>3, Invariant, PTL DEF Spec, ImplementsCalls, Promise!Spec
=============================================================================
