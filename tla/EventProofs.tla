------------------------------ MODULE EventProofs ------------------------------
(***************************************************************************)
(* Theorems about the path of an event from a stage to the database: first *)
(* the writer at its end (DbWriter), for any number of listeners, threads  *)
(* and operations and any size of batch, then the coordinator before it    *)
(* (StageEvents), for any tree of stages.                                  *)
(***************************************************************************)
EXTENDS DbWriter, StageEvents, SequenceTheorems, FiniteSetTheorems, TLAPS

-----------------------------------------------------------------------------
(* What taking an element from the front of one queue to the back of       *)
(* another does to the two laid end to end.                                *)
LEMMA AppendConcat ==
  ASSUME NEW S, NEW s \in Seq(S), NEW t \in Seq(S), NEW e \in S
  PROVE  s \o Append(t, e) = Append(s \o t, e)
<1>1. s \o Append(t, e) \in Seq(S) /\ Append(s \o t, e) \in Seq(S) OBVIOUS
<1>2. Len(s \o Append(t, e)) = Len(Append(s \o t, e)) OBVIOUS
<1>3. \A i \in 1 .. Len(s \o Append(t, e)) : (s \o Append(t, e))[i] = Append(s \o t, e)[i] OBVIOUS
<1> QED BY <1>1, <1>2, <1>3, SeqEqual

\* Moving the head of the second queue to the end of the first changes nothing.
LEMMA MoveConcat ==
  ASSUME NEW S, NEW s \in Seq(S), NEW t \in Seq(S), t # <<>>
  PROVE  Append(s, Head(t)) \o Tail(t) = s \o t
<1>1. Append(s, Head(t)) \o Tail(t) \in Seq(S) /\ s \o t \in Seq(S) OBVIOUS
<1>2. Len(Append(s, Head(t)) \o Tail(t)) = Len(s \o t) OBVIOUS
<1>3. \A i \in 1 .. Len(s \o t) : (Append(s, Head(t)) \o Tail(t))[i] = (s \o t)[i] OBVIOUS
<1> QED BY <1>1, <1>2, <1>3, SeqEqual

\* Taking the head of a non-empty first queue takes the head of the two.
LEMMA HeadConcat ==
  ASSUME NEW S, NEW s \in Seq(S), NEW t \in Seq(S), s # <<>>
  PROVE  /\ s \o t # <<>>
         /\ Head(s \o t) = Head(s)
         /\ Tail(s \o t) = Tail(s) \o t
<1>1. s \o t # <<>> /\ Head(s \o t) = Head(s) OBVIOUS
<1>2. Tail(s \o t) \in Seq(S) /\ Tail(s) \o t \in Seq(S) BY <1>1
<1>3. Len(Tail(s \o t)) = Len(Tail(s) \o t) BY <1>1
<1>4. \A i \in 1 .. Len(Tail(s \o t)) : Tail(s \o t)[i] = (Tail(s) \o t)[i] BY <1>1
<1> QED BY <1>1, <1>2, <1>3, <1>4, SeqEqual

\* Appending adds one element.
LEMMA ToSetAppend ==
  ASSUME NEW S, NEW s \in Seq(S), NEW e \in S
  PROVE  ToSet(Append(s, e)) = ToSet(s) \cup {e}
<1> DEFINE a == Append(s, e)
<1>1. DOMAIN s = 1 .. Len(s) /\ DOMAIN a = 1 .. Len(s) + 1 /\ Len(s) \in Nat OBVIOUS
<1>2. a[Len(s) + 1] = e /\ \A i \in 1 .. Len(s) : a[i] = s[i] OBVIOUS
<1> HIDE DEF a
<1>3. ToSet(a) = ToSet(s) \cup {e}
  <2>1. \A i \in 1 .. Len(s) + 1 : i = Len(s) + 1 \/ i \in 1 .. Len(s) BY <1>1
  <2>2. Len(s) + 1 \in 1 .. Len(s) + 1 /\ 1 .. Len(s) \subseteq 1 .. Len(s) + 1 BY <1>1
  <2> QED BY <1>1, <1>2, <2>1, <2>2, Zenon DEF ToSet
<1> QED BY <1>3 DEF a

\* A non-empty queue holds its head and what its tail holds.
LEMMA ToSetHead ==
  ASSUME NEW S, NEW s \in Seq(S), s # <<>>
  PROVE  ToSet(s) \subseteq {Head(s)} \cup ToSet(Tail(s))
<1> SUFFICES ASSUME NEW i \in DOMAIN s PROVE s[i] \in {Head(s)} \cup ToSet(Tail(s))
  BY DEF ToSet
<1>1. CASE i = 1 BY <1>1
<1>2. CASE i > 1
  <2>1. i - 1 \in DOMAIN Tail(s) /\ Tail(s)[i - 1] = s[i] BY <1>2
  <2> QED BY <2>1 DEF ToSet
<1>3. i = 1 \/ i > 1 OBVIOUS
<1> QED BY <1>1, <1>2, <1>3

-----------------------------------------------------------------------------
(* At most one processor task exists, queued in the pool or in a thread.   *)
Busy(t) == wpc[t] # "free"

OneProcessor ==
  /\ submitted \in {0, 1}
  /\ \A t, u \in Thread : Busy(t) /\ Busy(u) => t = u
  /\ submitted = 1 => \A t \in Thread : ~Busy(t)
  /\ ~running => submitted = 0 /\ \A t \in Thread : ~Busy(t)

BatchOK == \A t \in Thread : batch[t] # <<>> => wpc[t] \in {"get", "full", "rest"}
RoomLeft == \A t \in Thread : wpc[t] = "get" => Len(batch[t]) < BatchSize

Inv == TypeOK /\ OneProcessor /\ BatchOK /\ RoomLeft

\* At first nobody processes anything.
LEMMA InitInv == Init => Inv
<1> SUFFICES ASSUME Init PROVE Inv OBVIOUS
<1> USE WriterAssumption DEF Init
<1>1. TypeOK
  <2>1. <<>> \in Seq(Op) /\ Len(<<>>) = 0 OBVIOUS
  <2>2. batch \in [Thread -> Seq(Op)] BY <2>1
  <2>3. \A t \in Thread : Len(batch[t]) <= BatchSize BY <2>1
  <2>4. queue \in Seq(Op) /\ done \in Seq(Op) BY <2>1
  <2> QED BY <2>2, <2>3, <2>4 DEF TypeOK
<1>2. OneProcessor /\ BatchOK /\ RoomLeft BY DEF OneProcessor, BatchOK, RoomLeft, Busy
<1> QED BY <1>1, <1>2 DEF Inv

\* Ensure submits a processor only while none runs, so there is at most one
\* (_ensure_db_batch_processor), and a full batch is executed before more is taken.
LEMMA InvStep == Inv /\ [Next]_vars => Inv'
<1> SUFFICES ASSUME Inv, [Next]_vars PROVE Inv' OBVIOUS
<1> USE WriterAssumption DEF Inv, TypeOK, OneProcessor, BatchOK, RoomLeft, Busy, vars,
     writer, drainer
<1>1. CASE UNCHANGED vars BY <1>1
<1>2. ASSUME NEW l \in Listener, Listen(l) PROVE Inv'
  <2>1. CASE Put(l) BY <2>1 DEF Put
  <2>2. CASE Ensure(l) BY <2>2 DEF Ensure, Submits
  <2> QED BY <1>2, <2>1, <2>2 DEF Listen
<1>3. ASSUME NEW t \in Thread, Process(t) PROVE Inv'
  <2>1. CASE Start(t) BY <2>1 DEF Start, At
  <2>2. CASE Get(t) BY <2>2 DEF Get, At, Full
  <2>3. CASE Execute(t) BY <2>3 DEF Execute
  <2>4. CASE Executed(t)
    <3>1. CASE At(t, "full", "get") BY <2>4, <3>1 DEF Executed, At
    <3>2. CASE At(t, "rest", "check") BY <2>4, <3>2 DEF Executed, At
    <3> QED BY <2>4, <3>1, <3>2 DEF Executed
  <2>5. CASE TimedOut(t) BY <2>5 DEF TimedOut, At
  <2>6. CASE Check(t) BY <2>6 DEF Check, At
  <2>7. CASE Stop(t) BY <2>7 DEF Stop, At
  <2> QED BY <1>3, <2>1, <2>2, <2>3, <2>4, <2>5, <2>6, <2>7 DEF Process
<1>4. CASE Drain BY <1>4 DEF Drain, DrainBegins, DrainLocks, DrainLooks, DrainGivesUp
<1> QED BY <1>1, <1>2, <1>3, <1>4 DEF Next, Finished

\* The inductive invariant holds throughout.
LEMMA Invariant == Spec => []Inv
BY InitInv, InvStep, PTL DEF Spec

\* Batches stay within BatchSize and every variable keeps its type.
THEOREM TypeCorrect == Spec => []TypeOK
BY Invariant, PTL DEF Inv
-----------------------------------------------------------------------------
(* A drain waits.  Every operation that was put is queued, in a batch, or  *)
(* executed; while no listener is about, an idle processor stays idle.     *)
Accounted ==
  \A op \in Op \ todo : \/ op \in ToSet(queue) \cup ToSet(done)
                       \/ \E t \in Thread : op \in ToSet(batch[t])
DrainOK ==
  /\ before \cap todo = {}
  /\ drain \in {"flag", "look"} /\ alone => \A l \in Listener : lpc[l] = "idle"
  /\ drain = "look" /\ alone => ~running

DrainInv == Accounted /\ DrainOK /\ DrainWaits

\* Before the drain begins there is nothing to be accounted for.
LEMMA DrainInit == Init => DrainInv
BY DEF Init, DrainInv, Accounted, DrainOK, DrainWaits

\* An operation moves from the queue to a batch and from there to the log, and is nowhere
\* lost.
LEMMA AccountedStep == Inv /\ Accounted /\ [Next]_vars => Accounted'
<1> SUFFICES ASSUME Inv, Accounted, [Next]_vars PROVE Accounted' OBVIOUS
<1> USE DEF Inv, TypeOK, Accounted
<1>1. CASE UNCHANGED <<todo, queue, batch, done>> BY <1>1
<1>2. ASSUME NEW l \in Listener, Put(l) PROVE Accounted'
  <2>1. PICK op \in todo : todo' = todo \ {op} /\ queue' = Append(queue, op) BY <1>2 DEF Put
  <2>2. ToSet(queue') = ToSet(queue) \cup {op} BY <2>1, ToSetAppend
  <2> QED BY <1>2, <2>1, <2>2 DEF Put
<1>3. ASSUME NEW t \in Thread, Get(t) PROVE Accounted'
  <2>1. ToSet(queue) \subseteq {Head(queue)} \cup ToSet(queue') BY <1>3, ToSetHead DEF Get
  <2>2. Head(queue) \in Op BY <1>3 DEF Get
  <2>3. ToSet(batch'[t]) = ToSet(batch[t]) \cup {Head(queue)}
    BY <1>3, <2>2, ToSetAppend DEF Get
  <2>4. \A u \in Thread \ {t} : batch'[u] = batch[u] BY <1>3 DEF Get
  <2>5. UNCHANGED <<todo, done>> BY <1>3 DEF Get
  <2> SUFFICES ASSUME NEW op \in Op \ todo
               PROVE  op \in ToSet(queue') \cup ToSet(done) \/ \E u \in Thread : op \in ToSet(batch'[u])
    BY <2>5
  <2>6. CASE op \in ToSet(queue) \cup ToSet(done) BY <2>1, <2>3, <2>6
  <2>7. ASSUME NEW u \in Thread, op \in ToSet(batch[u])
        PROVE  \E v \in Thread : op \in ToSet(batch'[v])
    BY <2>3, <2>4, <2>7
  <2> QED BY <2>6, <2>7
<1>4. ASSUME NEW t \in Thread, Execute(t) PROVE Accounted'
  <2>1. ToSet(batch[t]) \subseteq {Head(batch[t])} \cup ToSet(batch'[t])
    BY <1>4, ToSetHead DEF Execute
  <2>2. Head(batch[t]) \in Op BY <1>4 DEF Execute
  <2>3. ToSet(done') = ToSet(done) \cup {Head(batch[t])}
    BY <1>4, <2>2, ToSetAppend DEF Execute
  <2>4. \A u \in Thread \ {t} : batch'[u] = batch[u] BY <1>4 DEF Execute
  <2>5. UNCHANGED <<todo, queue>> BY <1>4 DEF Execute
  <2> SUFFICES ASSUME NEW op \in Op \ todo
               PROVE  op \in ToSet(queue) \cup ToSet(done') \/ \E u \in Thread : op \in ToSet(batch'[u])
    BY <2>5
  <2>6. CASE op \in ToSet(queue) \cup ToSet(done) BY <2>3, <2>6
  <2>7. ASSUME NEW u \in Thread, op \in ToSet(batch[u])
        PROVE  op \in ToSet(done') \/ \E v \in Thread : op \in ToSet(batch'[v])
    BY <2>1, <2>3, <2>4, <2>7
  <2> QED BY <2>6, <2>7
<1> QED BY <1>1, <1>2, <1>3, <1>4
    DEF Next, Listen, Ensure, Process, Start, Executed, TimedOut, Check, Stop, Drain, DrainBegins,
        DrainLocks, DrainLooks, DrainGivesUp, Finished, vars, writer, drainer

\* When nobody queues anything beside it, the drain finds the queue empty and no processor
\* running only if all has been executed (drain_db_operations).
LEMMA DrainStep == Inv /\ DrainInv /\ [Next]_vars => (DrainOK /\ DrainWaits)'
<1> SUFFICES ASSUME Inv, DrainInv, [Next]_vars PROVE (DrainOK /\ DrainWaits)' OBVIOUS
<1> USE DEF Inv, TypeOK, DrainInv, DrainOK, DrainWaits
<1>1. CASE UNCHANGED vars BY <1>1 DEF vars, writer, drainer
<1>2. ASSUME NEW l \in Listener, Listen(l) PROVE (DrainOK /\ DrainWaits)'
  <2>1. CASE Put(l) BY <2>1 DEF Put
  <2>2. CASE Ensure(l) BY <2>2 DEF Ensure, drainer
  <2> QED BY <1>2, <2>1, <2>2 DEF Listen
<1>3. ASSUME NEW t \in Thread, Process(t) PROVE (DrainOK /\ DrainWaits)'
  <2>1. CASE Execute(t)
    <3>1. ToSet(done) \subseteq ToSet(done') BY <2>1, ToSetAppend DEF Execute
    <3> QED BY <2>1, <3>1 DEF Execute, drainer
  <2>2. CASE ~Execute(t)
    BY <1>3, <2>2 DEF Process, Start, Get, Executed, TimedOut, Check, Stop, drainer
  <2> QED BY <2>1, <2>2
<1>4. CASE Drain
  <2>1. CASE DrainBegins BY <2>1 DEF DrainBegins, writer
  <2>2. CASE DrainLocks BY <2>2 DEF DrainLocks, ProcessorIdle, writer
  <2>3. CASE DrainLooks
    <3>1. CASE queue = <<>> /\ alone
      <4>1. \A t \in Thread : batch[t] = <<>>
        BY <2>3, <3>1 DEF DrainLooks, OneProcessor, BatchOK, Busy
      <4>2. ToSet(<<>>) = {} BY DEF ToSet
      <4>3. before \subseteq ToSet(done) BY <3>1, <4>1, <4>2 DEF Accounted
      <4> QED BY <2>3, <4>3 DEF DrainLooks, writer
    <3>2. CASE ~(queue = <<>> /\ alone) BY <2>3, <3>2 DEF DrainLooks, writer
    <3> QED BY <3>1, <3>2
  <2>4. CASE DrainGivesUp BY <2>4 DEF DrainGivesUp, writer
  <2> QED BY <1>4, <2>1, <2>2, <2>3, <2>4 DEF Drain
<1> QED BY <1>1, <1>2, <1>3, <1>4 DEF Next, Finished

\* A drain nobody queues beside reports success only when every operation queued before it
\* was executed, for any number of operations, listeners and threads.
THEOREM DrainSafe == Spec => []DrainWaits
<1>1. Inv /\ DrainInv /\ [Next]_vars => DrainInv' BY AccountedStep, DrainStep DEF DrainInv
<1> QED BY <1>1, DrainInit, Invariant, PTL DEF Spec, DrainInv
-----------------------------------------------------------------------------
(* The writer implements the log: what is pending there is what the one    *)
(* processor has taken, followed by what is still queued.                  *)
\* Nothing is taken while every batch is empty.
LEMMA TakenByNobody == ASSUME \A t \in Thread : batch[t] = <<>> PROVE Taken = <<>>
BY DEF Taken

\* What is taken is the batch of the one processor that runs.
LEMMA TakenBy ==
  ASSUME Inv, NEW t \in Thread, Busy(t) PROVE Taken = batch[t]
<1>1. \A u \in Thread : batch[u] # <<>> => u = t BY DEF Inv, OneProcessor, BatchOK, Busy
<1>2. CASE batch[t] = <<>> BY <1>1, <1>2 DEF Taken
<1>3. CASE batch[t] # <<>> BY <1>1, <1>3 DEF Taken
<1> QED BY <1>2, <1>3

\* What is taken is a sequence of operations.
LEMMA TakenSeq == Inv => Taken \in Seq(Op)
BY DEF Inv, TypeOK, Taken

\* Every step of the writer is a step of the log or changes nothing of it.
LEMMA LogStep ==
  ASSUME Inv, Inv', [Next]_vars
  PROVE  [Log!Next]_<<Taken \o queue, done>>
<1> USE DEF Inv, TypeOK
<1>1. CASE UNCHANGED <<batch, queue, done>> BY <1>1 DEF Taken
<1>2. ASSUME NEW l \in Listener, Put(l) PROVE [Log!Next]_<<Taken \o queue, done>>
  <2>1. PICK op \in todo : queue' = Append(queue, op) BY <1>2 DEF Put
  <2>2. Taken' = Taken /\ done' = done BY <1>2 DEF Put, Taken
  <2>3. Taken' \o queue' = Append(Taken \o queue, op) BY <2>1, <2>2, TakenSeq, AppendConcat
  <2> QED BY <2>1, <2>2, <2>3 DEF Log!Next, Log!Queue
<1>3. ASSUME NEW t \in Thread, Get(t) PROVE [Log!Next]_<<Taken \o queue, done>>
  <2>1. Busy(t) /\ Busy(t)' BY <1>3 DEF Get, At, Busy
  <2>5. \A u \in Thread : batch'[u] # <<>> => u = t BY <2>1 DEF OneProcessor, BatchOK, Busy
  <2>6. Taken' = batch'[t]
    <3>1. CASE batch'[t] = <<>> BY <2>5, <3>1 DEF Taken
    <3>2. CASE batch'[t] # <<>> BY <2>5, <3>2 DEF Taken
    <3> QED BY <3>1, <3>2
  <2>2. Taken = batch[t] /\ Taken' = batch'[t] BY <2>1, <2>6, TakenBy
  <2>3. Taken' = Append(Taken, Head(queue)) /\ queue' = Tail(queue) /\ queue # <<>> /\ done' = done
    BY <1>3, <2>2 DEF Get
  <2>4. Taken' \o queue' = Taken \o queue BY <2>3, TakenSeq, MoveConcat
  <2> QED BY <2>3, <2>4
<1>4. ASSUME NEW t \in Thread, Execute(t) PROVE [Log!Next]_<<Taken \o queue, done>>
  <2>1. Busy(t) /\ Busy(t)' BY <1>4 DEF Execute, Busy
  <2>5. \A u \in Thread : batch'[u] # <<>> => u = t BY <2>1 DEF OneProcessor, BatchOK, Busy
  <2>6. Taken' = batch'[t]
    <3>1. CASE batch'[t] = <<>> BY <2>5, <3>1 DEF Taken
    <3>2. CASE batch'[t] # <<>> BY <2>5, <3>2 DEF Taken
    <3> QED BY <3>1, <3>2
  <2>2. Taken = batch[t] /\ Taken' = batch'[t] BY <2>1, <2>6, TakenBy
  <2>3. /\ Taken # <<>> /\ Taken' = Tail(Taken) /\ queue' = queue
        /\ done' = Append(done, Head(Taken))
    BY <1>4, <2>2 DEF Execute
  <2>4. /\ Taken \o queue # <<>> /\ Head(Taken \o queue) = Head(Taken)
        /\ Taken' \o queue' = Tail(Taken \o queue)
    BY <2>3, TakenSeq, HeadConcat
  <2> QED BY <2>3, <2>4 DEF Log!Next, Log!Execute
<1> QED BY <1>1, <1>2, <1>3, <1>4
    DEF Next, Listen, Ensure, Process, Start, Executed, TimedOut, Check, Stop, Drain, DrainBegins,
        DrainLocks, DrainLooks, DrainGivesUp, Finished, vars, writer, drainer

\* The writer executes every operation once and in the order queued, whoever queues it and
\* however often the processor stops and starts (_process_db_operations).
THEOREM LogImplemented == Spec => ImplementsLog
<1>1. Init => Log!Init
  <2> SUFFICES ASSUME Init PROVE Taken \o queue = <<>> /\ done = <<>> BY DEF Log!Init
  <2>1. Taken = <<>> BY TakenByNobody DEF Init
  <2> QED BY <2>1 DEF Init
<1>2. Inv /\ Inv' /\ [Next]_vars => [Log!Next]_<<Taken \o queue, done>> BY LogStep
<1> QED BY <1>1, <1>2, Invariant, PTL DEF Spec, ImplementsLog, Log!Spec

-----------------------------------------------------------------------------
(* The coordinator.                                                        *)

Told == <<pc, ended, status, stages, worker, processed, out>>

Typed ==
  /\ pc \in [Stage -> {"new", "open", "leaving", "timed", "emit", "closed"}]
  /\ ended \in [Stage -> BOOLEAN]
  /\ status \in [Stage -> Status]
  /\ stages \in Seq(Stage)
  /\ worker \in [at : {"loop", "took", "publish", "over"}, stage : Stage \cup {None}]
  /\ worker.at \in {"took", "publish"} => worker.stage \in Stage
  /\ out \in Seq([stage : Stage, ended : BOOLEAN, status : Status])

\* A stage is over from the moment its time is set, and after that only a missing status
\* is still filled in.
Over == \A s \in Stage : ended[s] <=> pc[s] \in {"timed", "emit", "closed"}

\* The last word on a stage is out.
Recorded(s) ==
  \E i \in DOMAIN out : /\ out[i].stage = s /\ out[i].ended
                        /\ out[i].status = status[s] \/ status[s] = "FINISHED"
InHand(s) == worker.at \in {"took", "publish"} /\ worker.stage = s

\* The coordinator drops the end of a stage as a duplicate only when the other one is out
\* or is being published; until then it is in the queue or in the worker's hands.
StageInv ==
  /\ Typed /\ Over
  /\ \A s \in Stage : <<s, "end">> \in processed =>
       ended[s] /\ (Recorded(s) \/ (worker.at = "publish" /\ worker.stage = s))
  /\ \A s \in Stage : pc[s] = "closed" => Recorded(s) \/ s \in ToSet(stages) \/ InHand(s)

\* What is recorded stays so, whatever is published after it.
LEMMA RecordedStays ==
  ASSUME Typed, NEW s \in Stage, Recorded(s),
         status'[s] = status[s] \/ status'[s] = "FINISHED",
         out' = out \/ \E r : out' = Append(out, r)
  PROVE  Recorded(s)'
<1>1. PICK i \in DOMAIN out : /\ out[i].stage = s /\ out[i].ended
                              /\ out[i].status = status[s] \/ status[s] = "FINISHED"
  BY DEF Recorded
<1>2. i \in DOMAIN out' /\ out'[i] = out[i]
  <2>1. Len(out) \in Nat /\ i \in 1..Len(out) BY <1>1 DEF Typed
  <2>2. ASSUME NEW r, out' = Append(out, r) PROVE i \in DOMAIN out' /\ out'[i] = out[i]
    <3>1. DOMAIN out' = 1..Len(out) + 1 /\ out'[i] = out[i] BY <2>1, <2>2 DEF Typed
    <3> QED BY <2>1, <3>1
  <2> QED BY <1>1, <2>2
<1>3. out'[i].status = status'[s] \/ status'[s] = "FINISHED" BY <1>1, <1>2
<1> QED BY <1>1, <1>2, <1>3 DEF Recorded

\* What is emitted waits in the queue behind what is there.
LEMMA Emitted ==
  ASSUME Typed, NEW s \in Stage, stages' = Append(stages, s)
  PROVE  stages' \in Seq(Stage) /\ ToSet(stages') = ToSet(stages) \cup {s}
BY ToSetAppend DEF Typed

\* The stages themselves.
LEMMA ManageStep ==
  ASSUME StageInv, NEW s \in Stage, Manage(s) PROVE StageInv'
<1> USE DEF Goto, Emit, coordinator, Status
<1>1. /\ pc \in [Stage -> {"new", "open", "leaving", "timed", "emit", "closed"}]
      /\ ended \in [Stage -> BOOLEAN] /\ status \in [Stage -> Status]
  BY DEF StageInv, Typed
<1>2. /\ UNCHANGED <<worker, processed, out>>
      /\ pc' \in [Stage -> {"new", "open", "leaving", "timed", "emit", "closed"}]
      /\ ended' \in [Stage -> BOOLEAN] /\ status' \in [Stage -> Status]
      /\ \A t \in Stage \ {s} : pc'[t] = pc[t] /\ ended'[t] = ended[t] /\ status'[t] = status[t]
      /\ ended[s] => ended'[s] /\ status'[s] \in {status[s], "FINISHED"}
      /\ ended'[s] <=> pc'[s] \in {"timed", "emit", "closed"}
      /\ stages' = Append(stages, s) \/ (stages' = stages /\ pc'[s] # "closed")
  <2>1. ended[s] <=> pc[s] \in {"timed", "emit", "closed"} BY DEF StageInv, Over
  <2>2. CASE Enter(s) \/ EmitEnd(s)
    BY <1>1, <2>1, <2>2 DEF Enter, EmitEnd
  <2>3. CASE SetStatus(s) BY <1>1, <2>1, <2>3 DEF SetStatus
  <2>4. CASE Leave(s) BY <1>1, <2>1, <2>4 DEF Leave
  <2>5. CASE EndTime(s) \/ EndStatus(s)
    BY <1>1, <2>1, <2>5 DEF EndTime, EndStatus
  <2> QED BY <2>2, <2>3, <2>4, <2>5 DEF Manage
<1>3. /\ stages' \in Seq(Stage) /\ ToSet(stages) \subseteq ToSet(stages')
      /\ pc'[s] = "closed" => s \in ToSet(stages')
  BY <1>2, Emitted DEF StageInv, Typed
<1>4. \A t \in Stage : ended[t] /\ Recorded(t) => Recorded(t)'
  BY <1>2, RecordedStays DEF StageInv
<1>5. Typed' /\ Over'
  <2>1. Typed' BY <1>2, <1>3 DEF StageInv, Typed
  <2>2. Over' BY <1>2 DEF StageInv, Over
  <2> QED BY <2>1, <2>2
<1>6. ASSUME NEW t \in Stage, <<t, "end">> \in processed'
      PROVE  ended'[t] /\ (Recorded(t)' \/ (worker'.at = "publish" /\ worker'.stage = t))
  BY <1>2, <1>4, <1>6 DEF StageInv
<1>7. ASSUME NEW t \in Stage, pc'[t] = "closed"
      PROVE  Recorded(t)' \/ t \in ToSet(stages') \/ InHand(t)'
  BY <1>2, <1>3, <1>4, <1>7 DEF StageInv, Over, InHand
<1> QED BY <1>5, <1>6, <1>7 DEF StageInv

\* The worker: a stage leaves the queue into its hands, and its hands when it is recorded.
LEMMA WorkStep ==
  ASSUME StageInv, Work PROVE StageInv'
<1> USE DEF emitter, Idle, Status
<1>0. Typed BY DEF StageInv
<1>1. UNCHANGED <<pc, ended, status>>
  BY DEF Work, Take, Classify, Publish, WorkerOver
<1>2. Over' BY <1>1 DEF StageInv, Over
<1>3. CASE Take
  <2>1. /\ worker' = [at |-> "took", stage |-> Head(stages)] /\ stages' = Tail(stages)
        /\ UNCHANGED <<processed, out>> /\ stages # <<>> /\ worker.at = "loop"
    BY <1>3 DEF Take
  <2>2. Head(stages) \in Stage /\ stages' \in Seq(Stage) BY <1>0, <2>1 DEF Typed
  <2>3. ToSet(stages) \subseteq {Head(stages)} \cup ToSet(Tail(stages)) BY <1>0, <2>1, ToSetHead DEF Typed
  <2>4. Typed' BY <1>0, <1>1, <2>1, <2>2 DEF Typed
  <2>5. \A t \in Stage : Recorded(t)' = Recorded(t) BY <1>1, <2>1 DEF Recorded
  <2>6. \A t \in Stage : t \in ToSet(stages) => t \in ToSet(stages') \/ InHand(t)'
    BY <2>1, <2>3 DEF InHand
  <2> QED BY <1>1, <1>2, <2>1, <2>4, <2>5, <2>6 DEF StageInv, InHand
<1>4. CASE Classify
  <2>1. worker.at = "took" /\ worker.stage \in Stage /\ UNCHANGED <<stages, out>>
    BY <1>0, <1>4 DEF Classify, Typed
  <2>2. \A t \in Stage : Recorded(t)' = Recorded(t) BY <1>1, <2>1 DEF Recorded
  <2>3. CASE Skips(worker.stage)
    <3>1. worker' = Idle /\ processed' = processed BY <1>4, <2>3 DEF Classify
    <3>2. ended[worker.stage] => Recorded(worker.stage)
      BY <2>1, <2>3 DEF StageInv, Skips, SecondOne, EventKind
    <3>3. Typed' BY <1>0, <1>1, <2>1, <3>1 DEF Typed
    <3> QED BY <1>1, <1>2, <2>1, <2>2, <3>1, <3>2, <3>3 DEF StageInv, InHand, Over
  <2>4. CASE ~Skips(worker.stage)
    <3>1. /\ worker' = [worker EXCEPT !.at = "publish"]
          /\ processed' = processed \cup {<<worker.stage, IF ended[worker.stage] THEN "end" ELSE "start">>}
      BY <1>4, <2>4 DEF Classify, Key, EventKind
    <3>2. worker'.at = "publish" /\ worker'.stage = worker.stage BY <1>0, <3>1 DEF Typed
    <3>3. Typed' BY <1>0, <1>1, <2>1, <3>1 DEF Typed
    <3>4. \A t \in Stage : <<t, "end">> \in processed' =>
            <<t, "end">> \in processed \/ (t = worker.stage /\ ended[t])
      BY <3>1
    <3> QED BY <1>1, <1>2, <2>1, <2>2, <3>2, <3>3, <3>4 DEF StageInv, InHand
  <2> QED BY <2>3, <2>4
<1>5. CASE Publish
  <2>0. PICK s \in Stage : s = worker.stage BY <1>0, <1>5 DEF Publish, Typed
  <2> DEFINE r == [stage |-> s, ended |-> ended[s], status |-> status[s]]
  <2>1. /\ worker.at = "publish" /\ out' = Append(out, r)
        /\ worker' = Idle /\ UNCHANGED <<stages, processed>>
    BY <1>0, <1>5, <2>0 DEF Publish
  <2>2. r \in [stage : Stage, ended : BOOLEAN, status : Status] BY <1>0 DEF Typed
  <2> HIDE DEF r
  <2>3. Typed'
    <3>1. out' \in Seq([stage : Stage, ended : BOOLEAN, status : Status])
      BY <1>0, <2>1, <2>2 DEF Typed
    <3> QED BY <1>0, <1>1, <2>1, <3>1 DEF Typed
  <2>4. \A t \in Stage : Recorded(t) => Recorded(t)' BY <1>0, <1>1, <2>1, RecordedStays
  <2>5. ended[s] => Recorded(s)'
    <3>1. Len(out) + 1 \in DOMAIN out' /\ out'[Len(out) + 1] = r BY <1>0, <2>1, <2>2 DEF Typed
    <3>2. r.stage = s /\ r.ended = ended[s] /\ r.status = status[s] BY DEF r
    <3> QED BY <1>1, <3>1, <3>2 DEF Recorded
  <2>6. ASSUME NEW t \in Stage, <<t, "end">> \in processed' PROVE ended'[t] /\ Recorded(t)'
    <3>1. ended[t] /\ (Recorded(t) \/ t = s) BY <2>0, <2>1, <2>6 DEF StageInv
    <3> QED BY <1>1, <2>4, <2>5, <3>1
  <2>7. ASSUME NEW t \in Stage, pc'[t] = "closed" PROVE Recorded(t)' \/ t \in ToSet(stages')
    <3>1. ended[t] /\ (Recorded(t) \/ t \in ToSet(stages) \/ t = s)
      BY <1>1, <2>0, <2>7 DEF StageInv, InHand, Over
    <3> QED BY <2>1, <2>4, <2>5, <3>1
  <2> QED BY <1>2, <2>3, <2>6, <2>7 DEF StageInv
<1>6. CASE WorkerOver
  <2>1. worker.at = "loop" /\ worker' = [at |-> "over", stage |-> None] /\ UNCHANGED <<stages, processed, out>>
    BY <1>6 DEF WorkerOver
  <2>2. Typed' BY <1>0, <1>1, <2>1 DEF Typed
  <2>3. \A t \in Stage : Recorded(t)' = Recorded(t) BY <1>1, <2>1 DEF Recorded
  <2> QED BY <1>1, <1>2, <2>1, <2>2, <2>3 DEF StageInv, InHand
<1> QED BY <1>3, <1>4, <1>5, <1>6 DEF Work

THEOREM StageInvariant == StagesSpec => []StageInv
<1>1. StagesInit => StageInv
  <2> SUFFICES ASSUME StagesInit PROVE StageInv OBVIOUS
  <2> USE DEF StagesInit, Idle, Status
  <2>1. Typed BY DEF Typed
  <2>2. Over BY DEF Over
  <2> QED BY <2>1, <2>2 DEF StageInv
<1>2. StageInv /\ [StagesNext]_stageVars => StageInv'
  <2> SUFFICES ASSUME StageInv, [StagesNext]_stageVars PROVE StageInv' OBVIOUS
  <2>1. CASE UNCHANGED Told
    BY <2>1 DEF StageInv, Typed, Over, Recorded, InHand, Told
  <2> QED BY <2>1, ManageStep, WorkStep
    DEF StagesNext, Interrupt, StopCoordinator, Joined, StagesOver,
        stageVars, emitter, coordinator, Told
<1> QED BY <1>1, <1>2, PTL DEF StagesSpec

\* Once the coordinator has caught up every stage that was left has a record saying so, with
\* a status of its own if it had one: whatever is dropped as a duplicate, never the last word
\* (_should_process_event), although the copy is taken after the event was judged.
THEOREM EndsRecorded == StagesSpec => []EndRecorded
<1>1. StageInv => EndRecorded
  BY DEF StageInv, Recorded, InHand, EndRecorded, CaughtUp, Records, Idle, ToSet
<1> QED BY <1>1, StageInvariant, PTL

-----------------------------------------------------------------------------
(* The order of the references.                                            *)

\* The references the worker has yet to judge, in turn.
InTurn == IF worker.at = "took" THEN <<worker.stage>> \o stages ELSE stages

Heard(s) == \E k \in Kind : <<s, k>> \in processed
Announced(s) == \E i \in DOMAIN out : out[i].stage = s

\* A stage inside another runs while that one is open, so that some stage without a parent
\* runs as long as any does.
Running == {s \in Stage : pc[s] \notin {"new", "closed"}}
Nested ==
  /\ \A s \in Stage : ~Top(s) => /\ s \in Running => pc[Parent[s]] = "open"
                                 /\ pc[s] # "new" => pc[Parent[s]] # "new"
  /\ \A S \in SUBSET Running : S # {} => \E s \in S : Top(s) \/ Parent[s] \notin S

\* Where a stage is referred to that has been entered.
Referred ==
  \A s \in Stage :
    /\ pc[s] = "new" => ~Heard(s) /\ s \notin ToSet(InTurn)
    /\ pc[s] # "new" => Heard(s) \/ s \in ToSet(InTurn)
    /\ pc[s] = "closed" => <<s, "end">> \in processed \/ s \in ToSet(InTurn)

\* A name stands for a stage whose end has not been heard of.
Named ==
  /\ DOMAIN active = {NameOf[s] : s \in Stage}
  /\ \A n \in DOMAIN active : active[n] # None =>
       /\ active[n] \in Stage /\ NameOf[active[n]] = n
       /\ <<active[n], "start">> \in processed /\ <<active[n], "end">> \notin processed

\* When a stage without a parent is first referred to, all before it are over, and their
\* ends are heard of or still to be judged.
FirstAt(s, j) == InTurn[j] = s /\ \A i \in 1..j - 1 : InTurn[i] # s
Settled(j) ==
  /\ \A i \in 1..j - 1 : pc[InTurn[i]] = "closed"
  /\ \A s \in Stage : Heard(s) => <<s, "end">> \in processed \/ \E i \in 1..j - 1 : InTurn[i] = s
TopsLast ==
  \A s \in Stage, j \in DOMAIN InTurn : Top(s) /\ ~Heard(s) /\ FirstAt(s, j) => Settled(j)

\* The parent is referred to earlier than the stages in it.
ParentsEarlier ==
  \A j \in DOMAIN InTurn : ~Top(InTurn[j]) =>
    Heard(Parent[InTurn[j]]) \/ \E i \in 1..j - 1 : InTurn[i] = Parent[InTurn[j]]

Announcements ==
  /\ \A s \in Stage : Heard(s) => Announced(s) \/ (worker.at = "publish" /\ worker.stage = s)
  /\ worker.at = "publish" /\ ~Top(worker.stage) => Announced(Parent[worker.stage])
  /\ ParentFirst

Ordered == Referred /\ Named /\ TopsLast /\ ParentsEarlier

LEMMA ParentIs == ASSUME NEW s \in Stage PROVE ~Top(s) => Parent[s] \in Stage
BY StageAssumption DEF Top

LEMMA NestedStep ==
  ASSUME Typed, Nested, NEW s \in Stage, Manage(s)
  PROVE  Nested'
<1>1. pc \in [Stage -> {"new", "open", "leaving", "timed", "emit", "closed"}] BY DEF Typed
<1>2. /\ pc' \in [Stage -> {"new", "open", "leaving", "timed", "emit", "closed"}]
      /\ \A t \in Stage \ {s} : pc'[t] = pc[t]
      /\ pc'[s] # "new" /\ pc[s] # "closed"
      /\ \/ pc[s] = "new" /\ pc'[s] = "open" /\ (~Top(s) => pc[Parent[s]] = "open")
         \/ pc[s] = "open" /\ pc'[s] = "open"
         \/ pc[s] # "new" /\ \A c \in Stage : Parent[c] = s => c \notin Running
  <2>1. CASE Enter(s) BY <1>1, <2>1 DEF Enter, Goto
  <2>2. CASE SetStatus(s) BY <1>1, <2>2 DEF SetStatus
  <2>3. CASE Leave(s) BY <1>1, <2>3 DEF Leave, Goto, Running
  <2>4. CASE EndTime(s) \/ EndStatus(s) \/ EmitEnd(s)
    <3>1. /\ pc[s] \in {"leaving", "timed", "emit"}
          /\ \E l \in {"timed", "emit", "closed"} : pc' = [pc EXCEPT ![s] = l]
      BY <2>4 DEF EndTime, EndStatus, EmitEnd, Goto
    <3>2. \A c \in Stage : Parent[c] = s => c \notin Running
      BY <3>1, StageAssumption DEF Nested, Top
    <3> QED BY <1>1, <3>1, <3>2
  <2> QED BY <2>1, <2>2, <2>3, <2>4 DEF Manage
<1>3. Running' \subseteq Running \cup {s} /\ (pc[s] # "new" => Running' \subseteq Running)
  BY <1>2 DEF Running
<1>4. ASSUME NEW t \in Stage, ~Top(t)
      PROVE  (t \in Running' => pc'[Parent[t]] = "open") /\ (pc'[t] # "new" => pc'[Parent[t]] # "new")
  <2>1. Parent[t] \in Stage BY <1>4, ParentIs
  <2>2. CASE t = s BY <1>2, <1>4, <2>1, <2>2 DEF Nested, Running
  <2>3. CASE t # s BY <1>2, <1>4, <2>1, <2>3 DEF Nested, Running
  <2> QED BY <2>2, <2>3
<1>5. ASSUME NEW S \in SUBSET Running', S # {}
      PROVE  \E t \in S : Top(t) \/ Parent[t] \notin S
  <2>1. CASE S \subseteq Running BY <1>5, <2>1 DEF Nested
  <2>2. CASE ~(S \subseteq Running)
    <3>1. s \in S /\ pc[s] = "new" /\ S \ {s} \subseteq Running BY <1>3, <2>2
    <3>2. \A t \in Running : ~Top(t) => Parent[t] # s BY <3>1 DEF Nested, Running
    <3>3. CASE S \ {s} = {} 
      <4>1. ~Top(s) => Parent[s] # s BY <1>2, <3>1
      <4> QED BY <3>1, <3>3, <4>1
    <3>4. CASE S \ {s} # {}
      <4>1. PICK t \in S \ {s} : Top(t) \/ Parent[t] \notin S \ {s} BY <3>1, <3>4 DEF Nested
      <4> QED BY <3>1, <3>2, <4>1
    <3> QED BY <3>3, <3>4
  <2> QED BY <2>1, <2>2
<1>6. \A t \in Stage : Top(t)' <=> Top(t) BY DEF Top
<1> QED BY <1>4, <1>5, <1>6 DEF Nested

LEMMA NobodyRuns ==
  ASSUME Nested, \A t \in Stage : Top(t) => pc[t] \in {"new", "closed"}
  PROVE  Running = {}
<1> SUFFICES ASSUME Running # {} PROVE FALSE OBVIOUS
<1>1. PICK t \in Running : Top(t) \/ Parent[t] \notin Running BY DEF Nested
<1>2. ~Top(t) /\ t \in Stage BY <1>1 DEF Running
<1>3. pc[Parent[t]] = "open" BY <1>1, <1>2 DEF Nested
<1> QED BY <1>1, <1>2, <1>3, ParentIs DEF Running

LEMMA TurnIs ==
  ASSUME Typed
  PROVE  /\ InTurn \in Seq(Stage) /\ Len(InTurn) \in Nat /\ DOMAIN InTurn = 1..Len(InTurn)
         /\ \A i \in DOMAIN InTurn : InTurn[i] \in Stage
<1>1. InTurn \in Seq(Stage)
  <2>1. CASE worker.at = "took"
    <3>1. <<worker.stage>> \in Seq(Stage) /\ stages \in Seq(Stage) BY <2>1 DEF Typed
    <3> QED BY <2>1, <3>1 DEF InTurn
  <2>2. CASE worker.at # "took" BY <2>2 DEF InTurn, Typed
  <2> QED BY <2>1, <2>2
<1> QED BY <1>1

\* Emitting puts a reference behind all others.
LEMMA TurnEmitted ==
  ASSUME Typed, NEW x \in Stage, stages' = Append(stages, x), UNCHANGED worker
  PROVE  /\ Len(InTurn') = Len(InTurn) + 1 /\ DOMAIN InTurn' = 1..Len(InTurn) + 1
         /\ InTurn'[Len(InTurn) + 1] = x /\ \A i \in 1..Len(InTurn) : InTurn'[i] = InTurn[i]
         /\ ToSet(InTurn') = ToSet(InTurn) \cup {x}
<1>1. InTurn' = Append(InTurn, x)
  <2>1. CASE worker.at = "took"
    <3>1. <<worker.stage>> \in Seq(Stage) /\ stages \in Seq(Stage) BY <2>1 DEF Typed
    <3>2. <<worker.stage>> \o Append(stages, x) = Append(<<worker.stage>> \o stages, x)
      BY <3>1, AppendConcat
    <3> QED BY <2>1, <3>2 DEF InTurn
  <2>2. CASE worker.at # "took" BY <2>2 DEF InTurn
  <2> QED BY <2>1, <2>2
<1>2. InTurn \in Seq(Stage) BY TurnIs
<1> HIDE DEF InTurn
<1>3. ToSet(InTurn') = ToSet(InTurn) \cup {x} BY <1>1, <1>2, ToSetAppend
<1> QED BY <1>1, <1>2, <1>3

\* Judging takes the first.
LEMMA TurnJudged ==
  ASSUME Typed, worker.at = "took", worker'.at # "took", UNCHANGED stages
  PROVE  /\ worker.stage \in Stage /\ 1 \in DOMAIN InTurn /\ InTurn[1] = worker.stage
         /\ \A j \in DOMAIN InTurn' : j \in Nat \ {0} /\ j + 1 \in DOMAIN InTurn /\ InTurn'[j] = InTurn[j + 1]
         /\ ToSet(InTurn) = ToSet(InTurn') \cup {worker.stage}
<1>1. worker.stage \in Stage /\ stages \in Seq(Stage) BY DEF Typed
<1>2. InTurn = <<worker.stage>> \o stages /\ InTurn' = stages BY DEF InTurn
<1>3. PICK h \in Stage : h = worker.stage BY <1>1
<1> DEFINE q == <<h>> \o stages
<1>4. /\ Len(q) = Len(stages) + 1 /\ DOMAIN q = 1..Len(stages) + 1 /\ q[1] = h
      /\ \A j \in 1..Len(stages) : q[j + 1] = stages[j]
  BY <1>1
<1>5. DOMAIN stages = 1..Len(stages) /\ Len(stages) \in Nat BY <1>1
<1> HIDE DEF q
<1>6. ToSet(q) = ToSet(stages) \cup {h}
  <2>1. ASSUME NEW i \in DOMAIN q PROVE i = 1 \/ (i - 1 \in DOMAIN stages /\ q[i] = stages[i - 1])
    <3>1. i = 1 \/ i - 1 \in 1..Len(stages) BY <1>4, <1>5
    <3>2. i - 1 + 1 = i BY <1>4, <1>5
    <3> QED BY <1>4, <1>5, <3>1, <3>2
  <2>2. \A x \in ToSet(q) : x \in ToSet(stages) \cup {h} BY <1>4, <2>1 DEF ToSet
  <2>3. \A j \in DOMAIN stages : j + 1 \in DOMAIN q BY <1>4, <1>5
  <2>4. 1 \in DOMAIN q BY <1>4, <1>5
  <2>5. \A x \in ToSet(stages) : x \in ToSet(q) BY <1>4, <1>5, <2>3 DEF ToSet
  <2>6. h \in ToSet(q) BY <1>4, <2>4 DEF ToSet
  <2> QED BY <2>2, <2>5, <2>6
<1>7. InTurn = q BY <1>2, <1>3 DEF q
<1>8. \A j \in DOMAIN stages : j \in Nat \ {0} /\ j + 1 \in DOMAIN q /\ stages[j] = q[j + 1]
  BY <1>4, <1>5
<1>9. 1 \in DOMAIN q BY <1>4, <1>5
<1> QED BY <1>1, <1>2, <1>3, <1>4, <1>6, <1>7, <1>8, <1>9

\* Taking the first into the hands changes nothing.
LEMMA TurnTaken ==
  ASSUME Typed, Take
  PROVE  InTurn' = InTurn
<1>1. /\ stages \in Seq(Stage) /\ stages # <<>> /\ worker.at = "loop"
      /\ worker'.at = "took" /\ worker'.stage = Head(stages) /\ stages' = Tail(stages)
  BY DEF Typed, Take
<1>2. <<Head(stages)>> \o Tail(stages) = stages
  <2>1. <<Head(stages)>> \o Tail(stages) \in Seq(Stage) BY <1>1
  <2>2. Len(<<Head(stages)>> \o Tail(stages)) = Len(stages) BY <1>1
  <2>3. \A i \in 1..Len(stages) : (<<Head(stages)>> \o Tail(stages))[i] = stages[i] BY <1>1
  <2> QED BY <1>1, <2>1, <2>2, <2>3, SeqEqual
<1> QED BY <1>1, <1>2 DEF InTurn

\* Nothing is emitted and nothing judged.
LEMMA OrderedQuiet ==
  ASSUME Ordered, UNCHANGED <<InTurn, processed, active>>, DOMAIN pc' = Stage,
         \A s \in Stage : /\ pc'[s] = "new" <=> pc[s] = "new"
                          /\ pc'[s] = "closed" <=> pc[s] = "closed"
         , \A i \in DOMAIN InTurn : InTurn[i] \in Stage, DOMAIN InTurn = 1..Len(InTurn), Len(InTurn) \in Nat
  PROVE  Ordered'
<1>1. \A s : Heard(s)' <=> Heard(s) BY DEF Heard
<1>2. Referred' BY <1>1 DEF Ordered, Referred
<1>3. Named' BY DEF Ordered, Named
<1>4. TopsLast'
  <2> SUFFICES ASSUME NEW s \in Stage, NEW j \in DOMAIN InTurn, Top(s), ~Heard(s), FirstAt(s, j)
               PROVE  Settled(j)'
    BY <1>1 DEF TopsLast, FirstAt, Top
  <2>1. Settled(j) BY DEF Ordered, TopsLast
  <2>2. \A i \in 1..j - 1 : i \in DOMAIN InTurn OBVIOUS
  <2> QED BY <1>1, <2>1, <2>2 DEF Settled
<1>5. ParentsEarlier' BY <1>1 DEF Ordered, ParentsEarlier, Top
<1> QED BY <1>2, <1>3, <1>4, <1>5 DEF Ordered

LEMMA OrderedEmit ==
  ASSUME Typed, Nested, Ordered, NEW x \in Stage, Enter(x) \/ SetStatus(x) \/ EmitEnd(x)
  PROVE  Ordered'
<1> DEFINE n == Len(InTurn)
<1>1. /\ InTurn \in Seq(Stage) /\ n \in Nat /\ DOMAIN InTurn = 1..n /\ \A i \in 1..n : InTurn[i] \in Stage
      /\ \A i \in 1..n : InTurn[i] \in ToSet(InTurn)
  BY TurnIs DEF ToSet
<1>2. /\ stages' = Append(stages, x) /\ UNCHANGED <<worker, processed, active>>
      /\ pc[x] \in {"new", "open", "emit"}
      /\ \A t \in Stage \ {x} : pc'[t] = pc[t]
      /\ pc'[x] # "new" /\ (pc[x] = "new" => Enter(x))
  BY DEF Enter, SetStatus, EmitEnd, Emit, Goto, coordinator, Typed
<1>3. /\ DOMAIN InTurn' = 1..n + 1 /\ InTurn'[n + 1] = x /\ \A i \in 1..n : InTurn'[i] = InTurn[i]
      /\ ToSet(InTurn') = ToSet(InTurn) \cup {x}
  BY <1>2, TurnEmitted
<1> HIDE DEF n
<1>4. \A s : Heard(s)' <=> Heard(s) BY <1>2 DEF Heard
<1>5. Referred' BY <1>2, <1>3, <1>4 DEF Ordered, Referred
<1>6. Named' BY <1>2 DEF Ordered, Named
<1>7. TopsLast'
  <2> SUFFICES ASSUME NEW s \in Stage, NEW j \in 1..n + 1, Top(s), ~Heard(s), FirstAt(s, j)'
               PROVE  Settled(j)'
    BY <1>3, <1>4 DEF TopsLast, Top
  <2>1. CASE j \in 1..n
    <3>1. \A i \in 1..j - 1 : i \in 1..n BY <1>1, <2>1
    <3>2. FirstAt(s, j) BY <1>3, <2>1, <3>1 DEF FirstAt
    <3>3. Settled(j) BY <1>1, <2>1, <3>2 DEF Ordered, TopsLast
    <3>4. \A i \in 1..j - 1 : pc'[InTurn'[i]] = "closed"
      <4> TAKE i \in 1..j - 1
      <4>1. InTurn'[i] = InTurn[i] /\ InTurn[i] \in Stage /\ pc[InTurn[i]] = "closed"
        BY <1>1, <1>3, <3>1, <3>3 DEF Settled
      <4> QED BY <1>2, <4>1
    <3>5. \A t \in Stage : Heard(t) => <<t, "end">> \in processed \/ \E i \in 1..j - 1 : InTurn'[i] = t
      BY <1>3, <3>1, <3>3 DEF Settled
    <3> QED BY <1>2, <1>4, <3>4, <3>5 DEF Settled
  <2>2. CASE j = n + 1
    <3>1. s = x /\ \A i \in 1..n : InTurn[i] # x BY <1>1, <1>3, <2>2 DEF FirstAt
    <3>2. x \notin ToSet(InTurn) BY <1>1, <3>1 DEF ToSet
    <3>3. Enter(x) BY <1>2, <3>1, <3>2 DEF Ordered, Referred
    <3>4. Running = {} BY <3>1, <3>3, NobodyRuns DEF Enter
    <3>5. \A t \in Stage : pc[t] = "new" \/ pc[t] = "closed" BY <3>4 DEF Running
    <3>6. \A i \in 1..n : pc[InTurn[i]] = "closed" /\ InTurn[i] # x BY <1>1, <3>1, <3>5 DEF Ordered, Referred
    <3>7. ASSUME NEW t \in Stage, Heard(t) PROVE <<t, "end">> \in processed \/ \E i \in 1..n : InTurn[i] = t
      <4>1. pc[t] = "closed" BY <3>5, <3>7 DEF Ordered, Referred
      <4> QED BY <1>1, <4>1 DEF Ordered, Referred, ToSet
    <3>8. j - 1 = n BY <1>1, <2>2
    <3> QED BY <1>1, <1>2, <1>3, <1>4, <3>6, <3>7, <3>8 DEF Settled
  <2> QED BY <1>1, <2>1, <2>2
<1>8. ParentsEarlier'
  <2> SUFFICES ASSUME NEW j \in 1..n + 1, ~Top(InTurn'[j])
               PROVE  Heard(Parent[InTurn'[j]]) \/ \E i \in 1..j - 1 : InTurn'[i] = Parent[InTurn'[j]]
    BY <1>3, <1>4 DEF ParentsEarlier, Top
  <2>1. CASE j \in 1..n
    <3>1. \A i \in 1..j - 1 : i \in 1..n BY <1>1, <2>1
    <3> QED BY <1>1, <1>3, <2>1, <3>1 DEF Ordered, ParentsEarlier
  <2>2. CASE j = n + 1
    <3>1. Parent[x] \in Stage /\ pc[Parent[x]] # "new"
      <4>4. ~Top(x) BY <1>3, <2>2
      <4>1. Parent[x] \in Stage BY <4>4, ParentIs
      <4>2. CASE pc[x] = "new"
        <5>1. Enter(x) BY <1>2, <4>2
        <5> QED BY <4>1, <4>4, <5>1 DEF Enter
      <4>3. CASE pc[x] # "new" BY <4>1, <4>3, <4>4 DEF Nested
      <4> QED BY <4>1, <4>2, <4>3
    <3>2. Heard(Parent[x]) \/ \E i \in 1..n : InTurn[i] = Parent[x]
      BY <1>1, <3>1 DEF Ordered, Referred, ToSet
    <3>3. j - 1 = n BY <1>1, <2>2
    <3> QED BY <1>3, <2>2, <3>2, <3>3
  <2> QED BY <1>1, <2>1, <2>2
<1> QED BY <1>5, <1>6, <1>7, <1>8 DEF Ordered

LEMMA OrderedJudged ==
  ASSUME StageInv, Ordered, Classify
  PROVE  Ordered' /\ \A s \in Stage : Heard(s)' => Heard(s) \/ s = worker.stage
<1>0. PICK h \in Stage : h = worker.stage BY DEF Classify, StageInv, Typed
<1> DEFINE k == EventKind(h)
<1>1. worker.at = "took" /\ UNCHANGED <<pc, ended, stages, out>> /\ worker'.at # "took"
  BY DEF Classify, emitter, Idle, StageInv, Typed
<1>2. /\ h \in Stage /\ 1 \in DOMAIN InTurn /\ InTurn[1] = h
      /\ \A j \in DOMAIN InTurn' : j \in Nat \ {0} /\ j + 1 \in DOMAIN InTurn /\ InTurn'[j] = InTurn[j + 1]
      /\ ToSet(InTurn) = ToSet(InTurn') \cup {h}
  BY <1>0, <1>1, TurnJudged DEF StageInv
<1>12. DOMAIN InTurn' = 1..Len(InTurn') /\ Len(InTurn') \in Nat
  <2>1. InTurn' \in Seq(Stage) BY <1>1 DEF InTurn, StageInv, Typed
  <2> QED BY <2>1
<1>3. k \in Kind /\ (ended[h] <=> k = "end") /\ (pc[h] = "closed" => k = "end")
  BY <1>2 DEF EventKind, Kind, StageInv, Over
\* Whether it is published or dropped, the event is heard of then.
<1>4. /\ processed \subseteq processed' /\ processed' \subseteq processed \cup {<<h, k>>}
      /\ <<h, k>> \in processed' \/ (SecondOne(h) /\ UNCHANGED <<processed, active>>)
  BY <1>0 DEF Classify, Skips, Key
<1>5. \A s : Heard(s) => Heard(s)' BY <1>4 DEF Heard
<1>6. \A s : Heard(s)' => Heard(s) \/ s = h BY <1>4 DEF Heard
<1>7. Heard(h)' /\ (k = "end" => <<h, "end">> \in processed')
  <2>1. CASE <<h, k>> \in processed' BY <1>3, <2>1 DEF Heard
  <2>2. CASE SecondOne(h) /\ <<h, k>> \notin processed'
    <3>1. Top(h) /\ ~ended[h] /\ active[NameOf[h]] \notin {None, h} BY <2>2 DEF SecondOne
    <3>2. SUFFICES ASSUME ~Heard(h) PROVE FALSE BY <1>3, <1>5, <3>1
    <3>3. FirstAt(h, 1) BY <1>2 DEF FirstAt
    <3>4. Settled(1) BY <1>2, <3>1, <3>2, <3>3 DEF Ordered, TopsLast
    <3>5. \A s \in Stage : Heard(s) => <<s, "end">> \in processed BY <3>4 DEF Settled
    <3>6. NameOf[h] \in DOMAIN active BY <1>2 DEF Ordered, Named
    <3> DEFINE t == active[NameOf[h]]
    <3>7. t \in Stage /\ <<t, "start">> \in processed /\ <<t, "end">> \notin processed
      BY <3>1, <3>6 DEF Ordered, Named
    <3> HIDE DEF t
    <3>8. Heard(t) BY <3>7 DEF Heard, Kind
    <3> QED BY <3>5, <3>7, <3>8
  <2> QED BY <1>4, <2>1, <2>2
<1>8. Referred'
  <2>1. ASSUME NEW s \in Stage, pc[s] = "new" PROVE ~Heard(s)' /\ s \notin ToSet(InTurn')
    BY <1>2, <1>6, <2>1 DEF Ordered, Referred
  <2>2. ASSUME NEW s \in Stage, pc[s] # "new" PROVE Heard(s)' \/ s \in ToSet(InTurn')
    BY <1>2, <1>5, <1>7, <2>2 DEF Ordered, Referred
  <2>3. ASSUME NEW s \in Stage, pc[s] = "closed" PROVE <<s, "end">> \in processed' \/ s \in ToSet(InTurn')
    BY <1>2, <1>3, <1>4, <1>7, <2>3 DEF Ordered, Referred
  <2> QED BY <1>1, <2>1, <2>2, <2>3 DEF Referred
<1>9. Named'
  <2>1. CASE UNCHANGED <<processed, active>> BY <2>1 DEF Ordered, Named
  <2>2. CASE /\ active' = [active EXCEPT ![NameOf[h]] = Tracked(h)] /\ ~Skips(h)
             /\ processed' = processed \cup {<<h, k>>}
    <3>1. DOMAIN active' = {NameOf[s] : s \in Stage} BY <2>2 DEF Ordered, Named
    <3>2. ASSUME NEW n \in DOMAIN active', active'[n] # None
          PROVE  /\ active'[n] \in Stage /\ NameOf[active'[n]] = n
                 /\ <<active'[n], "start">> \in processed' /\ <<active'[n], "end">> \notin processed'
      <4>1. CASE n = NameOf[h]
        <5>1. active'[n] = h /\ ~ended[h]
          <6>1. active'[n] = Tracked(h) BY <2>2, <3>2, <4>1
          <6> QED BY <3>2, <6>1 DEF Tracked
        <5>2. <<h, "end">> \notin processed BY <1>2, <5>1 DEF StageInv
        <5>3. k = "start" BY <5>1 DEF EventKind
        <5> QED BY <1>2, <2>2, <4>1, <5>1, <5>2, <5>3
      <4>2. CASE n # NameOf[h]
        <5>1. n \in DOMAIN active /\ active'[n] = active[n] BY <2>2, <3>2, <4>2
        <5>2. /\ active[n] \in Stage /\ NameOf[active[n]] = n
              /\ <<active[n], "start">> \in processed /\ <<active[n], "end">> \notin processed
          BY <3>2, <5>1 DEF Ordered, Named
        <5>3. active[n] # h BY <4>2, <5>2
        <5> QED BY <2>2, <5>1, <5>2, <5>3
      <4> QED BY <4>1, <4>2
    <3> QED BY <3>1, <3>2 DEF Named
  <2> QED BY <1>0, <2>1, <2>2 DEF Classify, Key
<1>10. TopsLast'
  <2> SUFFICES ASSUME NEW s \in Stage, NEW j \in DOMAIN InTurn', Top(s), ~Heard(s)', FirstAt(s, j)'
               PROVE  Settled(j)'
    BY DEF TopsLast, Top
  <2>1. s # h /\ ~Heard(s) BY <1>5, <1>7
  <2>2. j \in Nat \ {0} /\ j + 1 \in DOMAIN InTurn /\ InTurn[j + 1] = s BY <1>2 DEF FirstAt
  <2>3. ASSUME NEW i \in 1..j PROVE i = 1 \/ (i - 1 \in 1..j - 1 /\ i - 1 \in DOMAIN InTurn' /\ InTurn[i] = InTurn'[i - 1])
    <3>1. CASE i # 1
      <4>1. i - 1 \in 1..j - 1 /\ i - 1 + 1 = i BY <2>2, <3>1
      <4>2. i - 1 \in DOMAIN InTurn' BY <1>12, <4>1
      <4>3. InTurn'[i - 1] = InTurn[i - 1 + 1] BY <1>2, <4>2
      <4> QED BY <4>1, <4>2, <4>3
    <3> QED BY <3>1
  <2>4. \A i \in 1..j : InTurn[i] # s
    <3> TAKE i \in 1..j
    <3>1. CASE i = 1 BY <1>2, <2>1, <3>1
    <3>2. CASE i # 1 BY <2>3, <3>2 DEF FirstAt
    <3> QED BY <3>1, <3>2
  <2>5. j + 1 - 1 = j BY <2>2
  <2>6. Settled(j + 1) BY <2>1, <2>2, <2>4, <2>5 DEF Ordered, TopsLast, FirstAt
  <2>7. /\ \A i \in 1..j : pc[InTurn[i]] = "closed"
        /\ \A t \in Stage : Heard(t) => <<t, "end">> \in processed \/ \E i \in 1..j : InTurn[i] = t
    BY <2>2, <2>5, <2>6 DEF Settled
  <2>8. 1 \in 1..j /\ \A i \in 1..j - 1 : i + 1 \in 1..j BY <2>2
  <2>9. <<h, "end">> \in processed' BY <1>2, <1>3, <1>7, <2>7, <2>8
  <2>10. ASSUME NEW i \in 1..j - 1 PROVE pc'[InTurn'[i]] = "closed"
    <3>1. i \in DOMAIN InTurn' BY <1>12, <2>2
    <3>2. InTurn'[i] = InTurn[i + 1] /\ i + 1 \in 1..j BY <1>2, <2>8, <3>1
    <3> QED BY <1>1, <2>7, <3>2
  <2>11. ASSUME NEW t \in Stage, Heard(t)'
         PROVE  <<t, "end">> \in processed' \/ \E i \in 1..j - 1 : InTurn'[i] = t
    <3>1. CASE t = h BY <2>9, <3>1
    <3>2. CASE t # h
      <4>1. <<t, "end">> \in processed \/ \E i \in 1..j : InTurn[i] = t BY <1>6, <2>7, <2>11, <3>2
      <4>2. CASE <<t, "end">> \in processed BY <1>4, <4>2
      <4>3. CASE \E i \in 1..j : InTurn[i] = t
        <5>1. PICK i \in 1..j : InTurn[i] = t BY <4>3
        <5>2. i # 1 BY <1>2, <3>2, <5>1
        <5> QED BY <2>3, <5>1, <5>2
      <4> QED BY <4>1, <4>2, <4>3
    <3> QED BY <3>1, <3>2
  <2> QED BY <2>10, <2>11 DEF Settled
<1>11. ParentsEarlier'
  <2> SUFFICES ASSUME NEW j \in DOMAIN InTurn', NEW p, p = Parent[InTurn'[j]], p # None
               PROVE  Heard(p)' \/ \E i \in 1..j - 1 : InTurn'[i] = p
    BY DEF ParentsEarlier, Top, Heard
  <2>1. j \in Nat \ {0} /\ j + 1 \in DOMAIN InTurn /\ InTurn[j + 1] = InTurn'[j] /\ j + 1 - 1 = j BY <1>2
  <2>2. Heard(p) \/ \E i \in 1..j : InTurn[i] = p BY <2>1 DEF Ordered, ParentsEarlier, Top
  <2>3. CASE Heard(p) BY <1>5, <2>3
  <2>4. CASE \E i \in 1..j : InTurn[i] = p
    <3>1. PICK i \in 1..j : InTurn[i] = p BY <2>4
    <3>2. CASE i = 1 BY <1>2, <1>7, <3>1, <3>2
    <3>3. CASE i # 1
      <4>1. i - 1 \in 1..j - 1 /\ i - 1 + 1 = i BY <2>1, <3>3
      <4>2. i - 1 \in DOMAIN InTurn' BY <1>12, <4>1
      <4>3. InTurn'[i - 1] = p BY <1>2, <3>1, <4>1, <4>2
      <4> QED BY <4>1, <4>3
    <3> QED BY <3>2, <3>3
  <2> QED BY <2>2, <2>3, <2>4
<1> QED BY <1>0, <1>6, <1>8, <1>9, <1>10, <1>11 DEF Ordered

LEMMA OrderedStep ==
  ASSUME StageInv, Nested, Ordered, [StagesNext]_stageVars
  PROVE  Nested' /\ Ordered'
<1>1. ASSUME UNCHANGED pc PROVE Nested' BY <1>1 DEF Nested, Running, Top
<1>2. ASSUME UNCHANGED <<InTurn, processed, active>>, DOMAIN pc' = Stage,
             \A s \in Stage : (pc'[s] = "new" <=> pc[s] = "new") /\ (pc'[s] = "closed" <=> pc[s] = "closed")
      PROVE  Ordered'
  BY <1>2, OrderedQuiet, TurnIs DEF StageInv
<1>3. ASSUME UNCHANGED <<pc, InTurn, processed, active>> PROVE Nested' /\ Ordered'
  BY <1>1, <1>2, <1>3 DEF StageInv, Typed
<1>4. ASSUME NEW s \in Stage, Manage(s) PROVE Nested' /\ Ordered'
  <2>1. Nested' BY <1>4, NestedStep DEF StageInv
  <2>2. CASE Enter(s) \/ SetStatus(s) \/ EmitEnd(s) BY <2>1, <2>2, OrderedEmit DEF StageInv
  <2>3. CASE Leave(s) \/ EndTime(s) \/ EndStatus(s)
    <3>1. UNCHANGED <<InTurn, processed, active>>
      BY <2>3 DEF Leave, EndTime, EndStatus, InTurn, coordinator
    <3>2. DOMAIN pc' = Stage
      BY <2>3 DEF Leave, EndTime, EndStatus, Goto, StageInv, Typed
    <3>3. \A t \in Stage : (pc'[t] = "new" <=> pc[t] = "new") /\ (pc'[t] = "closed" <=> pc[t] = "closed")
      BY <2>3 DEF Leave, EndTime, EndStatus, Goto, StageInv, Typed
    <3> QED BY <1>2, <2>1, <3>1, <3>2, <3>3
  <2> QED BY <1>4, <2>2, <2>3 DEF Manage
<1>5. CASE Classify BY <1>1, <1>5, OrderedJudged DEF Classify, emitter
<1>6. CASE Take BY <1>3, <1>6, TurnTaken DEF Take, emitter, StageInv
<1>7. CASE Publish BY <1>3, <1>7 DEF Publish, InTurn, Idle, emitter
<1>8. CASE WorkerOver BY <1>3, <1>8 DEF WorkerOver, InTurn, emitter
<1>9. CASE UNCHANGED stageVars \/ Interrupt \/ StopCoordinator \/ Joined \/ StagesOver
  <2>1. UNCHANGED <<pc, stages, worker, processed, active>>
    BY <1>9 DEF stageVars, Interrupt, StopCoordinator, Joined, StagesOver, emitter, coordinator
  <2> QED BY <1>3, <2>1 DEF InTurn
<1> QED BY <1>4, <1>5, <1>6, <1>7, <1>8, <1>9 DEF StagesNext, Work

LEMMA AnnouncedStep ==
  ASSUME StageInv, Ordered, Announcements, [StagesNext]_stageVars
  PROVE  Announcements'
<1>0. Typed BY DEF StageInv
<1>1. ASSUME UNCHANGED <<processed, out>>, worker'.at # "publish", worker.at # "publish" \/ UNCHANGED worker
      PROVE  Announcements'
  BY <1>1 DEF Announcements, Announced, Heard, ParentFirst, Top
<1>2. ASSUME UNCHANGED <<processed, out, worker>> PROVE Announcements'
  BY <1>2 DEF Announcements, Announced, Heard, ParentFirst, Top
<1>3. CASE Take BY <1>1, <1>3 DEF Take
<1>4. CASE WorkerOver BY <1>1, <1>4 DEF WorkerOver
<1>5. CASE Classify
  <2>1. PICK h \in Stage : h = worker.stage BY <1>0, <1>5 DEF Classify, Typed
  <2>2. worker.at = "took" /\ UNCHANGED <<stages, out>> BY <1>5 DEF Classify
  <2>3. CASE worker' = Idle /\ UNCHANGED processed BY <1>1, <2>2, <2>3 DEF Idle
  <2>4. CASE worker' = [worker EXCEPT !.at = "publish"]
    <3>1. worker'.at = "publish" /\ worker'.stage = h BY <1>0, <2>1, <2>4 DEF Typed
    <3>2. \A s \in Stage : Heard(s)' => Heard(s) \/ s = h BY <1>5, <2>1, OrderedJudged
    <3>3. \A s \in Stage : Heard(s) => Announced(s) BY <2>2 DEF Announcements
    <3>4. \A s : Announced(s)' <=> Announced(s) BY <2>2 DEF Announced
    <3>5. ~Top(h) => Announced(Parent[h])
      <4> SUFFICES ASSUME ~Top(h) PROVE Announced(Parent[h]) OBVIOUS
      <4>1. InTurn[1] = h /\ 1 \in DOMAIN InTurn
        BY <1>0, <2>1, <2>2, <3>1, TurnJudged
      <4>2. Heard(Parent[h]) BY <4>1 DEF Ordered, ParentsEarlier
      <4> QED BY <3>3, <4>2, ParentIs
    <3>6. ParentFirst' BY <2>2 DEF Announcements, ParentFirst, Top
    <3>7. (worker.at = "publish" /\ ~Top(worker.stage) => Announced(Parent[worker.stage]))'
      BY <2>2, <3>1, <3>5 DEF Top, Announced
    <3> QED BY <3>1, <3>2, <3>3, <3>4, <3>6, <3>7 DEF Announcements
  <2> QED BY <1>5, <2>3, <2>4 DEF Classify
<1>6. CASE Publish
  <2>1. PICK h \in Stage : h = worker.stage BY <1>0, <1>6 DEF Publish, Typed
  <2> DEFINE r == [stage |-> h, ended |-> ended[h], status |-> status[h]]
  <2>2. /\ worker.at = "publish" /\ worker'.at # "publish" /\ UNCHANGED processed
        /\ out' = Append(out, r)
    BY <1>6, <2>1 DEF Publish, Idle
  <2>3. r.stage = h OBVIOUS
  <2>4. r \in [stage : Stage, ended : BOOLEAN, status : Status] BY <1>0 DEF Typed
  <2> HIDE DEF r
  <2>5. /\ Len(out) \in Nat /\ DOMAIN out = 1..Len(out) /\ DOMAIN out' = 1..Len(out) + 1
        /\ out'[Len(out) + 1] = r /\ \A i \in 1..Len(out) : out'[i] = out[i]
    BY <1>0, <2>2, <2>4 DEF Typed
  <2>6. \A s : Announced(s) => Announced(s)' BY <2>5 DEF Announced
  <2>7. Announced(h)' BY <2>3, <2>5 DEF Announced
  <2>8. \A s \in Stage : Heard(s)' => Announced(s)'
    BY <2>1, <2>2, <2>6, <2>7 DEF Announcements, Heard
  <2>9. ASSUME NEW s \in Stage, NEW i \in DOMAIN out', out'[i].stage = s, ~Top(s)
        PROVE  \E j \in 1..i - 1 : out'[j].stage = Parent[s]
    <3>1. CASE i \in 1..Len(out)
      <4>1. PICK j \in 1..i - 1 : out[j].stage = Parent[s]
        BY <2>5, <2>9, <3>1 DEF Announcements, ParentFirst
      <4>2. j \in 1..Len(out) BY <2>5, <3>1
      <4> QED BY <2>5, <4>1, <4>2
    <3>2. CASE i = Len(out) + 1
      <4>1. s = h BY <2>3, <2>5, <2>9, <3>2
      <4>2. Announced(Parent[s]) BY <2>1, <2>2, <2>9, <4>1 DEF Announcements
      <4>3. i - 1 = Len(out) BY <2>5, <3>2
      <4> QED BY <2>5, <4>2, <4>3 DEF Announced
    <3> QED BY <2>5, <3>1, <3>2
  <2>10. ParentFirst' BY <2>9 DEF ParentFirst, Top
  <2> QED BY <2>2, <2>8, <2>10 DEF Announcements
<1>7. CASE UNCHANGED stageVars \/ Interrupt \/ StopCoordinator \/ Joined \/ StagesOver
  BY <1>2, <1>7 DEF stageVars, Interrupt, StopCoordinator, Joined, StagesOver, coordinator
<1>8. ASSUME NEW s \in Stage, Manage(s) PROVE Announcements'
  BY <1>2, <1>8 DEF Manage, Enter, SetStatus, Leave, EndTime, EndStatus, EmitEnd, coordinator
<1> QED BY <1>3, <1>4, <1>5, <1>6, <1>7, <1>8 DEF StagesNext, Work

\* A stage is announced before the stages inside it, for any tree of stages of whatever
\* names: nothing that is dropped as a duplicate, or as the second of a name, is the first
\* word on a stage (_should_process_event).
THEOREM ParentsFirst == StagesSpec => []ParentFirst
<1>1. StagesInit => Nested /\ Ordered /\ Announcements
  <2> SUFFICES ASSUME StagesInit PROVE Nested /\ Ordered /\ Announcements OBVIOUS
  <2>1. /\ worker.at = "loop" /\ stages = <<>> /\ out = <<>> /\ processed = {}
        /\ \A s \in Stage : pc[s] = "new"
    BY DEF StagesInit, Idle
  <2>2. InTurn = <<>> /\ DOMAIN InTurn = {} /\ ToSet(InTurn) = {} /\ DOMAIN out = {}
    <3>1. InTurn = <<>> BY <2>1 DEF InTurn
    <3> QED BY <2>1, <3>1 DEF ToSet
  <2>3. \A s : ~Heard(s) BY <2>1 DEF Heard
  <2>4. Nested BY <2>1, ParentIs DEF Nested, Running
  <2>5. Referred BY <2>1, <2>2, <2>3 DEF Referred
  <2>6. Named
    <3>1. /\ DOMAIN active = {NameOf[s] : s \in Stage}
          /\ \A n \in DOMAIN active : active[n] = None
      BY DEF StagesInit
    <3> QED BY <3>1 DEF Named
  <2>7. TopsLast /\ ParentsEarlier BY <2>2 DEF TopsLast, ParentsEarlier
  <2>8. Announcements BY <2>1, <2>2, <2>3 DEF Announcements, ParentFirst
  <2> QED BY <2>4, <2>5, <2>6, <2>7, <2>8 DEF Ordered
<1>2. StageInv /\ Nested /\ Ordered /\ Announcements /\ [StagesNext]_stageVars
        => (Nested /\ Ordered /\ Announcements)'
  BY OrderedStep, AnnouncedStep
<1>3. Announcements => ParentFirst BY DEF Announcements
<1> QED BY <1>1, <1>2, <1>3, StageInvariant, PTL DEF StagesSpec

-----------------------------------------------------------------------------
(* The types.                                                              *)

\* A stage is published once for each kind of event that has been heard of, at most twice.
Events(s) == {k \in Kind : <<s, k>> \in processed}
Published(s) == Cardinality(Records(s)) + (IF worker.at = "publish" /\ worker.stage = s THEN 1 ELSE 0)
Bounded ==
  /\ updates \in 0 .. MaxUpdates /\ interrupt \in BOOLEAN /\ processed \subseteq Stage \X Kind
  /\ active \in [{NameOf[s] : s \in Stage} -> Stage \cup {None}]
  /\ stopper \in {"no", "join", "done"}
  /\ \A s \in Stage : Published(s) = Cardinality(Events(s))

LEMMA BoundedStep ==
  ASSUME StageInv, Bounded, [StagesNext]_stageVars
  PROVE  Bounded'
<1>0. Typed BY DEF StageInv
<1>1. ASSUME UNCHANGED <<processed, out, active>>, worker'.at # "publish" \/ UNCHANGED worker,
             worker.at # "publish" \/ UNCHANGED worker,
             updates' \in 0 .. MaxUpdates, interrupt' \in BOOLEAN, stopper' \in {"no", "join", "done"}
      PROVE  Bounded'
  BY <1>1 DEF Bounded, Published, Records, Events
<1>2. CASE Take \/ WorkerOver BY <1>1, <1>2 DEF Take, WorkerOver, emitter, Bounded
<1>3. CASE UNCHANGED stageVars \/ Interrupt \/ StopCoordinator \/ Joined \/ StagesOver
  BY <1>1, <1>3 DEF stageVars, Interrupt, StopCoordinator, Joined, StagesOver, coordinator, emitter, Bounded
<1>4. ASSUME NEW s \in Stage, Manage(s) PROVE Bounded'
  <2>1. updates' \in 0 .. MaxUpdates
    <3>1. CASE SetStatus(s) BY <3>1, StageAssumption DEF SetStatus, Bounded
    <3>2. CASE ~SetStatus(s)
      BY <1>4, <3>2 DEF Manage, Enter, Leave, EndTime, EndStatus, EmitEnd, Bounded
    <3> QED BY <3>1, <3>2
  <2>2. UNCHANGED <<processed, out, active, worker, interrupt, stopper>>
    BY <1>4 DEF Manage, Enter, SetStatus, Leave, EndTime, EndStatus, EmitEnd, coordinator
  <2> QED BY <1>1, <2>1, <2>2 DEF Bounded
<1>5. CASE Classify
  <2>1. PICK h \in Stage : h = worker.stage BY <1>0, <1>5 DEF Classify, Typed
  <2>2. worker.at = "took" /\ UNCHANGED <<updates, interrupt, stopper, out>> BY <1>5 DEF Classify, emitter
  <2>3. CASE Skips(h) BY <1>1, <1>5, <2>1, <2>2, <2>3 DEF Classify, Idle, Bounded
  <2>4. CASE ~Skips(h)
    <3> DEFINE k == EventKind(h)
    <3>1. /\ worker' = [worker EXCEPT !.at = "publish"] /\ processed' = processed \cup {<<h, k>>}
          /\ active' = [active EXCEPT ![NameOf[h]] = Tracked(h)]
      BY <1>5, <2>1, <2>4 DEF Classify, Key
    <3>2. k \in Kind /\ <<h, k>> \notin processed /\ Tracked(h) \in Stage \cup {None}
      BY <2>4 DEF Skips, EventKind, Kind, Tracked
    <3> HIDE DEF k
    <3>3. worker'.at = "publish" /\ worker'.stage = h BY <1>0, <2>1, <3>1 DEF Typed
    <3>4. processed' \subseteq Stage \X Kind BY <3>1, <3>2 DEF Bounded
    <3>5. active' \in [{NameOf[s] : s \in Stage} -> Stage \cup {None}] BY <3>1, <3>2 DEF Bounded
    <3>6. ASSUME NEW s \in Stage PROVE Published(s)' = Cardinality(Events(s)')
      <4>1. Records(s)' = Records(s) BY <2>2 DEF Records
      <4>2. CASE s = h
        <5>1. Events(s)' = Events(s) \cup {k} /\ k \notin Events(s) BY <3>1, <3>2, <4>2 DEF Events
        <5>2. IsFiniteSet(Events(s))
          <6>1. IsFiniteSet(Kind)
            <7>1. IsFiniteSet({"end"}) BY FS_Singleton
            <7> QED BY <7>1, FS_AddElement DEF Kind
          <6> QED BY <6>1, FS_Subset DEF Events
        <5>3. Cardinality(Events(s)') = Cardinality(Events(s)) + 1 BY <5>1, <5>2, FS_AddElement
        <5>4. Cardinality(Events(s)) = Cardinality(Records(s)) + 0 BY <2>2 DEF Bounded, Published
        <5>5. Cardinality(Records(s)) \in Nat
          <6>1. IsFiniteSet(1..Len(out)) BY <1>0, FS_Interval DEF Typed
          <6>2. Records(s) \subseteq 1..Len(out) BY <1>0 DEF Records, Typed
          <6> QED BY <6>1, <6>2, FS_Subset, FS_CardinalityType
        <5> QED BY <3>3, <4>1, <4>2, <5>3, <5>4, <5>5 DEF Published
      <4>3. CASE s # h
        <5>1. Events(s)' = Events(s) BY <3>1, <4>3 DEF Events
        <5> QED BY <2>2, <3>3, <4>1, <4>3, <5>1 DEF Bounded, Published
      <4> QED BY <4>2, <4>3
    <3> QED BY <2>2, <3>4, <3>5, <3>6 DEF Bounded
  <2> QED BY <2>3, <2>4
<1>6. CASE Publish
  <2>1. PICK h \in Stage : h = worker.stage BY <1>0, <1>6 DEF Publish, Typed
  <2> DEFINE r == [stage |-> h, ended |-> ended[h], status |-> status[h]]
  <2>2. /\ worker.at = "publish" /\ worker'.at = "loop" /\ out' = Append(out, r)
        /\ UNCHANGED <<updates, interrupt, stopper, processed, active>>
    BY <1>6, <2>1 DEF Publish, Idle, emitter
  <2>3. r.stage = h OBVIOUS
  <2>4. r \in [stage : Stage, ended : BOOLEAN, status : Status] BY <1>0 DEF Typed
  <2> HIDE DEF r
  <2>5. /\ Len(out) \in Nat /\ DOMAIN out = 1..Len(out) /\ DOMAIN out' = 1..Len(out) + 1
        /\ out'[Len(out) + 1] = r /\ \A i \in 1..Len(out) : out'[i] = out[i]
    BY <1>0, <2>2, <2>4 DEF Typed
  <2>6. Len(out) + 1 \notin DOMAIN out BY <2>5
  <2>7. ASSUME NEW s \in Stage PROVE Published(s)' = Cardinality(Events(s)')
    <3>1. Events(s)' = Events(s) BY <2>2 DEF Events
    <3>2. IsFiniteSet(Records(s)) /\ Cardinality(Records(s)) \in Nat
      <4>1. IsFiniteSet(1..Len(out)) BY <2>5, FS_Interval
      <4>2. Records(s) \subseteq 1..Len(out) BY <2>5 DEF Records
      <4> QED BY <4>1, <4>2, FS_Subset, FS_CardinalityType
    <3>3. CASE s = h
      <4>1. Records(s)' = Records(s) \cup {Len(out) + 1} /\ Len(out) + 1 \notin Records(s)
        BY <2>3, <2>5, <2>6, <3>3 DEF Records
      <4>2. Cardinality(Records(s)') = Cardinality(Records(s)) + 1 BY <3>2, <4>1, FS_AddElement
      <4>3. Published(s) = Cardinality(Records(s)) + 1 BY <2>1, <2>2, <3>3 DEF Published
      <4>4. Published(s)' = Cardinality(Records(s)') BY <2>2, <3>2, <4>2 DEF Published
      <4> QED BY <3>1, <4>2, <4>3, <4>4 DEF Bounded
    <3>4. CASE s # h
      <4>1. Records(s)' = Records(s) BY <2>3, <2>5, <2>6, <3>4 DEF Records
      <4> QED BY <2>1, <2>2, <3>1, <3>4, <4>1 DEF Bounded, Published
    <3> QED BY <3>3, <3>4
  <2> QED BY <2>2, <2>7 DEF Bounded
<1> QED BY <1>2, <1>3, <1>4, <1>5, <1>6 DEF StagesNext, Work

\* Every variable of the coordinator keeps its type, and a stage is published at most twice.
THEOREM StagesTypeCorrect == StagesSpec => []StagesTypeOK
<1>1. StagesInit => Bounded
  <2> SUFFICES ASSUME StagesInit PROVE Bounded OBVIOUS
  <2>1. ASSUME NEW s \in Stage PROVE Published(s) = Cardinality(Events(s))
    <3>1. Records(s) = {} /\ Events(s) = {} BY DEF StagesInit, Records, Events
    <3> QED BY <3>1, FS_EmptySet DEF StagesInit, Idle, Published
  <2>2. updates \in 0..MaxUpdates BY StageAssumption DEF StagesInit
  <2>3. active \in [{NameOf[s] : s \in Stage} -> Stage \cup {None}] BY DEF StagesInit
  <2> QED BY <2>1, <2>2, <2>3 DEF StagesInit, Bounded
<1>2. StageInv /\ Bounded /\ [StagesNext]_stageVars => Bounded' BY BoundedStep
<1>3. StageInv /\ Bounded => StagesTypeOK
  <2> SUFFICES ASSUME StageInv, Bounded PROVE StagesTypeOK OBVIOUS
  <2>1. ASSUME NEW s \in Stage PROVE Cardinality(Records(s)) <= 2
    <3>1. IsFiniteSet(Kind) /\ Cardinality(Kind) <= 2
      <4>1. IsFiniteSet({"end"}) /\ Cardinality({"end"}) = 1 BY FS_Singleton
      <4> QED BY <4>1, FS_AddElement DEF Kind
    <3>2. Cardinality(Events(s)) <= Cardinality(Kind) BY <3>1, FS_Subset DEF Events
    <3>3. Cardinality(Records(s)) \in Nat
      <4>1. IsFiniteSet(1..Len(out)) BY FS_Interval DEF StageInv, Typed
      <4>2. Records(s) \subseteq 1..Len(out) BY DEF Records, StageInv, Typed
      <4> QED BY <4>1, <4>2, FS_Subset, FS_CardinalityType
    <3>4. Cardinality(Events(s)) \in Nat /\ Cardinality(Kind) \in Nat
      BY <3>1, FS_Subset, FS_CardinalityType DEF Events
    <3> QED BY <3>1, <3>2, <3>3, <3>4 DEF Bounded, Published
  <2> QED BY <2>1 DEF StageInv, Typed, Bounded, StagesTypeOK, Records
<1> QED BY <1>1, <1>2, <1>3, StageInvariant, PTL DEF StagesSpec
===============================================================================
