------------------------------ MODULE StageEvents ------------------------------
(***************************************************************************)
(* The progress events of a run: stages are context managers               *)
(* (experiment/stagectxmanager.py) that emit themselves, by reference, to  *)
(* the queue of a StageEventCoordinator (events/coordinator.py).  Its      *)
(* worker thread looks at a stage when the event's turn comes, drops       *)
(* duplicates and publishes a copy to the console and the database.        *)
(***************************************************************************)
EXTENDS Naturals, Sequences, FiniteSets, SequencesExt

CONSTANTS Stage,     \* stage objects
          None,
          Parent,    \* [Stage -> Stage \cup {None}]: the stage around it
          NameOf,    \* [Stage -> names]
          MaxUpdates \* bound on the calls of set_status

ASSUME StageAssumption ==
  /\ None \notin Stage
  /\ Parent \in [Stage -> Stage \cup {None}]
  /\ DOMAIN NameOf = Stage
  /\ MaxUpdates \in Nat

VARIABLES
  pc,        \* where the context manager of a stage is
  ended,     \* end_time is set
  status,
  updates,
  interrupt, \* user_interrupt_event
  stages,    \* the coordinator's queue: stages, by reference
  worker,    \* the worker thread, and the stage of its event
  processed, \* _processed_events
  active,    \* _active_stages: the stage running under a name
  stopper,   \* stop()
  out        \* what was published, in order

emitter == <<pc, ended, status, updates, interrupt>>
coordinator == <<worker, processed, active>>
stageVars == <<emitter, stages, coordinator, stopper, out>>

Status == {"NONE", "SUCCESS", "FINISHED", "INTERRUPTED", "FAILED"}
Kind == {"start", "end"}
Idle == [at |-> "loop", stage |-> None]

StagesTypeOK ==
  /\ pc \in [Stage -> {"new", "open", "leaving", "timed", "emit", "closed"}]
  /\ ended \in [Stage -> BOOLEAN] /\ status \in [Stage -> Status]
  /\ updates \in 0 .. MaxUpdates /\ interrupt \in BOOLEAN
  /\ stages \in Seq(Stage)
  /\ worker \in [at : {"loop", "took", "publish", "over"}, stage : Stage \cup {None}]
  /\ processed \subseteq Stage \X Kind
  /\ active \in [{NameOf[s] : s \in Stage} -> Stage \cup {None}]
  /\ stopper \in {"no", "join", "done"}
  /\ out \in Seq([stage : Stage, ended : BOOLEAN, status : Status])
  /\ \A s \in Stage : Cardinality({i \in DOMAIN out : out[i].stage = s}) <= 2

StagesInit ==
  /\ pc = [s \in Stage |-> "new"]
  /\ ended = [s \in Stage |-> FALSE] /\ status = [s \in Stage |-> "NONE"]
  /\ updates = 0 /\ interrupt = FALSE
  /\ stages = <<>> /\ out = <<>>
  /\ worker = Idle /\ processed = {} /\ stopper = "no"
  /\ active = [n \in {NameOf[s] : s \in Stage} |-> None]

-----------------------------------------------------------------------------
(* StageCtxManager.  A stage opens inside its parent; stages without one   *)
(* follow each other.                                                      *)
Top(s) == Parent[s] = None
Emit(s) == stages' = Append(stages, s)
Goto(s, l) == pc' = [pc EXCEPT ![s] = l]

Enter(s) ==
  /\ pc[s] = "new" /\ stopper = "no"
  /\ IF Top(s) THEN \A t \in Stage : Top(t) => pc[t] \in {"new", "closed"}
               ELSE pc[Parent[s]] = "open"
  /\ Goto(s, "open") /\ Emit(s)
  /\ UNCHANGED <<ended, status, updates, interrupt, coordinator, stopper, out>>

SetStatus(s) ==
  /\ pc[s] = "open" /\ updates < MaxUpdates
  /\ updates' = updates + 1
  /\ status' \in {[status EXCEPT ![s] = v] : v \in {status[s], "SUCCESS"}}
  /\ Emit(s)
  /\ UNCHANGED <<pc, ended, interrupt, coordinator, stopper, out>>

\* __exit__: an interrupt comes before an exception, which comes before the status
\* the stage has.  An exception makes it FAILED or, if it was not logged, ERROR:
\* nothing tells the two apart here.
Leave(s) ==
  /\ pc[s] = "open" /\ \A c \in Stage : Parent[c] = s => pc[c] \in {"new", "closed"}
  /\ \E raised \in {"no", "FAILED"} :
       status' = [status EXCEPT ![s] = IF interrupt /\ @ # "SUCCESS" THEN "INTERRUPTED"
                                       ELSE IF raised # "no" THEN raised ELSE @]
  /\ Goto(s, "leaving")
  /\ UNCHANGED <<ended, updates, interrupt, stages, coordinator, stopper, out>>

\* Stage.end: the time first, then the status.
EndTimeEarly(s) ==                                \* mutant of EndTime
  /\ pc[s] \in {"open", "leaving"}
  /\ ended' = [ended EXCEPT ![s] = TRUE]
  /\ Goto(s, IF pc[s] = "open" THEN "open" ELSE "timed")
  /\ UNCHANGED <<status, updates, interrupt, stages, coordinator, stopper, out>>

EndTime(s) ==
  /\ pc[s] = "leaving"
  /\ ended' = [ended EXCEPT ![s] = TRUE]
  /\ Goto(s, "timed")
  /\ UNCHANGED <<status, updates, interrupt, stages, coordinator, stopper, out>>

EndStatus(s) ==
  /\ pc[s] = "timed"
  /\ status' = [status EXCEPT ![s] = IF @ = "NONE" THEN "FINISHED" ELSE @]
  /\ Goto(s, "emit")
  /\ UNCHANGED <<ended, updates, interrupt, stages, coordinator, stopper, out>>

\* wait_for_queue_drain looks whether the queue is empty, for 50 ms at most, and
\* goes on either way.
EmitEnd(s) ==
  /\ pc[s] = "emit"
  /\ Goto(s, "closed") /\ Emit(s)
  /\ UNCHANGED <<ended, status, updates, interrupt, coordinator, stopper, out>>

Interrupt ==
  /\ ~interrupt /\ interrupt' = TRUE
  /\ UNCHANGED <<pc, ended, status, updates, stages, coordinator, stopper, out>>

-----------------------------------------------------------------------------
(* _process_events                                                         *)
Take ==
  /\ worker.at = "loop" /\ stopper = "no" /\ stages # <<>>
  /\ worker' = [at |-> "took", stage |-> Head(stages)]
  /\ stages' = Tail(stages)
  /\ UNCHANGED <<emitter, processed, active, stopper, out>>

\* _should_process_event, under the lock: what kind of event this is depends on the
\* stage as it is now.
EventKind(s) == IF ended[s] THEN "end" ELSE "start"
Key(s)       == {<<s, EventKind(s)>>}
SecondOne(s) == /\ Top(s) /\ ~ended[s]
                /\ active[NameOf[s]] \notin {None, s}
NeverForgotten(s) == s                            \* mutant of Tracked
Tracked(s)        == IF ended[s] THEN None ELSE s
Skips(s)       == <<s, EventKind(s)>> \in processed \/ SecondOne(s)

Classify ==
  /\ worker.at = "took" /\ stopper # "join"
  /\ LET s == worker.stage
     IN  IF Skips(s)
         THEN worker' = Idle /\ UNCHANGED <<processed, active>>
         ELSE /\ worker' = [worker EXCEPT !.at = "publish"]
              /\ processed' = processed \cup Key(s)
              /\ active' = [active EXCEPT ![NameOf[s]] = Tracked(s)]
  /\ UNCHANGED <<emitter, stages, stopper, out>>

\* The copy is taken only now.
Publish ==
  /\ worker.at = "publish"
  /\ LET s == worker.stage
     IN  out' = Append(out, [stage |-> s, ended |-> ended[s], status |-> status[s]])
  /\ worker' = Idle
  /\ UNCHANGED <<emitter, stages, processed, active, stopper>>

\* The run, its stages over, calls stop(), which sets the stop event and joins the
\* worker without letting go of the lock.
StopCoordinator ==
  /\ stopper = "no" /\ \A s \in Stage : pc[s] \in {"new", "closed"}
  /\ stopper' = "join"
  /\ UNCHANGED <<emitter, stages, coordinator, out>>

WorkerOver ==
  /\ worker.at = "loop" /\ stopper # "no"
  /\ worker' = [at |-> "over", stage |-> None]
  /\ UNCHANGED <<emitter, stages, processed, active, stopper, out>>

\* It gives up after five seconds; modelled where nothing else can happen.
Joined ==
  /\ stopper = "join" /\ worker.at \in {"over", "took"}
  /\ stopper' = "done"
  /\ UNCHANGED <<emitter, stages, coordinator, out>>

-----------------------------------------------------------------------------
Manage(s) == Enter(s) \/ SetStatus(s) \/ Leave(s) \/ EndTime(s) \/ EndStatus(s) \/ EmitEnd(s)
Work == Take \/ Classify \/ Publish \/ WorkerOver

StagesOver == stopper = "done" /\ worker.at = "over" /\ UNCHANGED stageVars

StagesNext ==
  \/ \E s \in Stage : Manage(s)
  \/ Interrupt \/ Work \/ StopCoordinator \/ Joined \/ StagesOver

StagesSpec == StagesInit /\ [][StagesNext]_stageVars

-----------------------------------------------------------------------------
(* Properties.                                                             *)

\* A stage is announced before the stages inside it.
ParentFirst ==
  \A s \in Stage, i \in DOMAIN out :
    out[i].stage = s /\ ~Top(s) => \E j \in 1 .. i - 1 : out[j].stage = Parent[s]

\* Once the coordinator has caught up every stage that was left has a record saying so,
\* with the status it ended with if that is its own (a failure, an interrupt, a success):
\* duplicates are dropped, but never the last word.
CaughtUp == stages = <<>> /\ worker = Idle
Records(s) == {i \in DOMAIN out : out[i].stage = s}
EndRecorded ==
  CaughtUp => \A s \in Stage : pc[s] = "closed" =>
    \E i \in Records(s) : out[i].ended /\ (status[s] # "FINISHED" => out[i].status = status[s])
=============================================================================
