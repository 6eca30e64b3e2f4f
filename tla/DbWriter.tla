-------------------------------- MODULE DbWriter --------------------------------
(***************************************************************************)
(* The batching database writer of a run (backend/events/listener.py).     *)
(* Listener threads queue operations and make sure a processor task is     *)
(* submitted to a pool of threads; the task takes operations off the       *)
(* queue, executes them in batches and stops when it finds nothing more.   *)
(* The end of a run calls drain_db_operations before it reads the rows.    *)
(***************************************************************************)
EXTENDS Naturals, Sequences, SequencesExt

CONSTANTS Op,          \* database operations
          Listener,    \* threads that queue them
          Thread,      \* the threads of _db_executor
          BatchSize

ASSUME WriterAssumption == BatchSize \in Nat \ {0}

VARIABLES
  todo,       \* operations not queued yet
  lpc,        \* a listener between put_nowait and _ensure_db_batch_processor
  queue,      \* _db_operation_queue
  running,    \* _db_batch_processor_running
  submitted,  \* processor tasks no thread has started
  wpc, batch, \* a thread's place in _process_db_operations, and its batch
  done,       \* operations executed, in order
  drain,      \* drain_db_operations: where the caller is
  before,     \* history: operations queued when it was called ...
  alone       \* history: ... and no listener was queueing since

writer == <<queue, running, submitted, wpc, batch, done>>
drainer == <<drain, before, alone>>
vars == <<todo, lpc, writer, drainer>>

TypeOK ==
  /\ todo \subseteq Op
  /\ lpc \in [Listener -> {"idle", "ensure"}]
  /\ queue \in Seq(Op) /\ done \in Seq(Op)
  /\ running \in BOOLEAN /\ submitted \in Nat
  /\ wpc \in [Thread -> {"free", "get", "full", "rest", "check", "stop"}]
  /\ batch \in [Thread -> Seq(Op)] /\ \A t \in Thread : Len(batch[t]) <= BatchSize
  /\ drain \in {"no", "flag", "look", "drained", "late"}
  /\ before \subseteq Op /\ alone \in BOOLEAN

Init ==
  /\ todo = Op
  /\ lpc = [l \in Listener |-> "idle"]
  /\ queue = <<>> /\ done = <<>>
  /\ running = FALSE /\ submitted = 0
  /\ wpc = [t \in Thread |-> "free"] /\ batch = [t \in Thread |-> <<>>]
  /\ drain = "no" /\ before = {} /\ alone = TRUE

-----------------------------------------------------------------------------
(* _queue_db_operation                                                     *)
Put(l) ==
  /\ lpc[l] = "idle"
  /\ \E op \in todo : /\ todo' = todo \ {op}
                      /\ queue' = Append(queue, op)
                      /\ lpc' = [lpc EXCEPT ![l] = "ensure"]
  /\ alone' = (alone /\ drain \notin {"flag", "look"})
  /\ UNCHANGED <<running, submitted, wpc, batch, done, drain, before>>

\* _ensure_db_batch_processor, under _db_batch_lock.
AlwaysSubmits == TRUE      \* mutant of Submits
NeverSubmits  == FALSE     \* mutant of Submits
Submits       == ~running

Ensure(l) ==
  /\ lpc[l] # "idle"
  /\ lpc' = [lpc EXCEPT ![l] = "idle"]
  /\ running' = TRUE
  /\ submitted' = submitted + (IF Submits THEN 1 ELSE 0)
  /\ UNCHANGED <<todo, queue, wpc, batch, done, drainer>>

-----------------------------------------------------------------------------
(* _process_db_operations                                                  *)
At(t, from, to) == wpc[t] = from /\ wpc' = [wpc EXCEPT ![t] = to]

FullAbove(b) == Len(b) > BatchSize     \* mutant of Full
Full(b)      == Len(b) >= BatchSize

Start(t) ==
  /\ submitted > 0 /\ submitted' = submitted - 1
  /\ At(t, "free", "get")
  /\ UNCHANGED <<todo, lpc, queue, running, batch, done, drainer>>

Get(t) ==
  /\ queue # <<>> /\ queue' = Tail(queue)
  /\ batch' = [batch EXCEPT ![t] = Append(@, Head(queue))]
  /\ At(t, "get", IF Full(batch'[t]) THEN "full" ELSE "get")
  /\ UNCHANGED <<todo, lpc, running, submitted, done, drainer>>

\* _execute_db_batch: one operation after the other; one that fails is logged.
Execute(t) ==
  /\ wpc[t] \in {"full", "rest"} /\ batch[t] # <<>>
  /\ done' = Append(done, Head(batch[t]))
  /\ batch' = [batch EXCEPT ![t] = Tail(@)]
  /\ UNCHANGED <<todo, lpc, queue, running, submitted, wpc, drainer>>

Executed(t) ==
  /\ batch[t] = <<>>
  /\ At(t, "full", "get") \/ At(t, "rest", "check")
  /\ UNCHANGED <<todo, lpc, queue, running, submitted, batch, done, drainer>>

TimedOut(t) ==     \* queue.Empty
  /\ queue = <<>>
  /\ At(t, "get", "rest")
  /\ UNCHANGED <<todo, lpc, queue, running, submitted, batch, done, drainer>>

Check(t) ==
  /\ At(t, "check", IF queue = <<>> THEN "stop" ELSE "get")
  /\ UNCHANGED <<todo, lpc, queue, running, submitted, batch, done, drainer>>

Stop(t) ==
  /\ At(t, "stop", "free")
  /\ running' = FALSE
  /\ UNCHANGED <<todo, lpc, queue, submitted, batch, done, drainer>>

-----------------------------------------------------------------------------
(* drain_db_operations                                                     *)
DrainBegins ==
  /\ drain = "no" /\ drain' = "flag"
  /\ before' = Op \ todo
  /\ alone' = \A l \in Listener : lpc[l] = "idle"
  /\ UNCHANGED <<todo, lpc, writer>>

IdleOrNot     == TRUE      \* mutant of ProcessorIdle
ProcessorIdle == ~running

DrainLocks ==
  /\ drain = "flag" /\ ProcessorIdle /\ drain' = "look"
  /\ UNCHANGED <<todo, lpc, writer, before, alone>>

DrainLooks ==
  /\ drain = "look" /\ drain' = IF queue = <<>> THEN "drained" ELSE "flag"
  /\ UNCHANGED <<todo, lpc, writer, before, alone>>

DrainGivesUp ==
  /\ drain = "flag" /\ drain' = "late"
  /\ UNCHANGED <<todo, lpc, writer, before, alone>>

-----------------------------------------------------------------------------
Listen(l)  == Put(l) \/ Ensure(l)
Process(t) == Start(t) \/ Get(t) \/ Execute(t) \/ Executed(t) \/ TimedOut(t) \/ Check(t) \/ Stop(t)
Drain      == DrainBegins \/ DrainLocks \/ DrainLooks \/ DrainGivesUp

\* Nothing is left to queue and the drain is over; a processor may still be at work.
Finished ==
  /\ todo = {} /\ drain \in {"drained", "late"}
  /\ UNCHANGED vars

Next ==
  \/ \E l \in Listener : Listen(l)
  \/ \E t \in Thread : Process(t)
  \/ Drain \/ Finished

Spec == Init /\ [][Next]_vars

\* The threads of the pool and a listener inside _queue_db_operation keep going.
FairSpec ==
  /\ Spec
  /\ \A t \in Thread : WF_vars(Process(t))
  /\ \A l \in Listener : WF_vars(Ensure(l))

-----------------------------------------------------------------------------
(* Properties.                                                             *)

\* Operations are executed one at a time, each once, in the order queued, whoever
\* queues them and however often the processor stops and starts.
Taken == IF \E t \in Thread : batch[t] # <<>>
         THEN batch[CHOOSE t \in Thread : batch[t] # <<>>] ELSE <<>>
Log == INSTANCE EventLog WITH pending <- Taken \o queue, written <- done
ImplementsLog == Log!Spec

\* A drain nobody queues anything beside reports success only when every operation
\* has been executed: not while a processor is between two of its steps, and not when
\* a processor has left one behind.
DrainWaits == drain = "drained" /\ alone => before \subseteq ToSet(done)

\* "Check if queue is truly empty before stopping"
StopsOnlyWhenEmpty == [][running /\ ~running' => queue = <<>>]_vars

\* An operation left behind by a processor that stopped too early is executed after
\* the next one is queued.
Rescued ==
  \A op \in Op : (op \in ToSet(queue) /\ ~running /\ \E l \in Listener : lpc[l] # "idle")
                   ~> op \in ToSet(done)
=============================================================================
