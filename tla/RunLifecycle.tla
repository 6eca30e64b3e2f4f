---------------------------- MODULE RunLifecycle ----------------------------
(***************************************************************************)
(* One experiment run from its first step to its verdict, as driven by     *)
(* backend/experiment/run.py.  The run takes things step by step (CV       *)
(* servers, instances, guests), a signal may arrive at any time, and       *)
(* whatever happened the cleanup has to give everything back.  Test events *)
(* go to the database through a writer that lags behind; the verdict is    *)
(* read from the rows.                                                     *)
(*                                                                         *)
(* Left out: steps that take nothing to be given back (video, memory dump, *)
(* disk diff and export, system information), the guest's own state, the   *)
(* loss of the process by SIGKILL, and a write of the run row's status     *)
(* that fails.  A hypervisor that is asked to stop a guest stops it.  A    *)
(* playbook runs a test at most once.                                      *)
(***************************************************************************)
EXTENDS Naturals, Sequences

CONSTANTS
  Order,       \* the machines of the playbook in the order they are booted
  Test,        \* the abstract tests of the experiment
  Signum,      \* the signals the run installs a handler for
  MaxSignals,  \* bound on the signals that are sent
  Failing      \* the cleanup steps that may raise

Machine == {Order[i] : i \in 1..Len(Order)}

ASSUME OrderAssumption == Order \in Seq(Machine) /\ Order # <<>>
\* A run without abstract tests is judged by its playbook alone.
ASSUME TestAssumption == Test # {}
ASSUME MaxSignalsAssumption == MaxSignals \in Nat
ASSUME FailingAssumption == Failing \subseteq {"finalize", "stopcv", "retrieve", "stop", "remove"}

VARIABLES
  at,       \* the step the run is in
  turn,     \* how many machines the step has dealt with
  servers,  \* machines whose CV server process runs
  rows,     \* machines with an allocated instance (row, overlay)
  named,    \* machines whose context has the name of their instance
  guests,   \* machines whose domain runs
  again,    \* the guest in turn is to be booted once more
  project,  \* project_directory has been set
  manager,  \* vm_manager has been created
  sent,     \* signals the handler has seen
  armed,    \* signals the handler is still installed for
  status,   \* status of the run row
  raised,   \* an exception is re-raised once the cleanup is over
  ran,      \* what became of each test
  events,   \* test events queued for the database, in order
  written,  \* how many of them are rows
  success,  \* the verdict returned
  skipped,  \* history: a step of Failing raised, so the steps after it were skipped
  unremoved \* history: instances whose removal failed, which the run logs and goes on

instances == <<rows, named, unremoved>>
held == <<servers, instances, guests>>
made == <<project, manager>>
signals == <<sent, armed>>
work == <<ran, events, written>>
outcome == <<success, skipped>>
vars == <<at, turn, again, held, made, signals, status, raised, work, outcome>>

Starting == {"begin"}
Blocking == {"prepare"}
Async == {"cv", "create", "configure", "boot", "agent", "execute"}
Cleaning == {"finalize", "stopcv", "retrieve", "stop", "remove", "drain"}
Over == {"returned", "raised", "killed"}

\* Mutant: guests are booted before their instances are allocated.
AfterBootFirst == [prepare |-> "cv", cv |-> "boot", boot |-> "create", create |-> "configure",
                   configure |-> "agent", agent |-> "execute"]

\* The step after each one; every step before the cleanup is skipped once a
\* stop has been asked for.
After == [prepare |-> "cv", cv |-> "create", create |-> "configure", configure |-> "boot",
          boot |-> "agent", agent |-> "execute"]

Stopping == sent > 0

Init ==
  /\ at = "begin" /\ turn = 0
  /\ servers = {} /\ rows = {} /\ named = {} /\ guests = {} /\ again = FALSE
  /\ project = FALSE /\ manager = FALSE
  /\ sent = 0 /\ armed = Signum
  /\ status = "OPEN" /\ raised = FALSE
  /\ ran = [t \in Test |-> "no"] /\ events = <<>> /\ written = 0
  /\ success = FALSE /\ skipped = FALSE /\ unremoved = {}

(***************************************************************************)
(* Steps                                                                   *)
(***************************************************************************)
InTurn(step) == at = step /\ turn < Len(Order)
Current == Order[turn + 1]

\* Mutant: the interrupt does not overwrite the status.
FinalStatusAsIs(s) == s

\* The status is marked and, before anything else can happen, a user's
\* interrupt overwrites it: the try block is left.
FinalStatus(s) == IF Stopping THEN "INTERRUPTED" ELSE s
Unwind(s) ==
  /\ at' = "finalize" /\ turn' = 0 /\ again' = FALSE
  /\ status' = FinalStatus(s)
  /\ UNCHANGED <<project, signals, work, outcome>>

\* The handlers are installed before the first step, which sets the project
\* directory.  A signal in between skips that step, and the status of the run
\* can be written nowhere: that raises outside of the cleanup's try block.
Begin ==
  /\ at = "begin"
  /\ IF Stopping
       THEN at' = "raised" /\ raised' = TRUE /\ UNCHANGED project
       ELSE at' = "prepare" /\ project' = TRUE /\ UNCHANGED raised
  /\ UNCHANGED <<turn, again, held, manager, signals, status, work, outcome>>

\* The VM manager is created between the CV server and the VM setup, also in
\* a run that is being stopped.
GoOn ==
  /\ at' = After[at] /\ turn' = 0
  /\ manager' = (manager \/ at = "cv")
  /\ UNCHANGED <<again, held, project, signals, status, raised, work, outcome>>

GiveUp == Unwind(status) /\ manager' = TRUE /\ UNCHANGED <<held, raised>>

\* A blocking step runs in a thread and is never cancelled.
Prepare == at = "prepare" /\ IF Stopping THEN GiveUp ELSE GoOn

StartServer ==
  /\ InTurn("cv")
  /\ servers' = servers \cup {Current} /\ turn' = turn + 1
  /\ UNCHANGED <<at, again, instances, guests, made, signals, status, raised, work, outcome>>

\* The row is committed, then the name of the instance is put into the
\* machine's context and the machine is prepared.
Allocatable == InTurn("create") /\ Current \notin rows /\ ~Stopping
Allocate ==
  /\ Allocatable
  /\ rows' = rows \cup {Current} /\ named' = named \cup {Current} /\ turn' = turn + 1
  /\ UNCHANGED <<at, again, servers, unremoved, guests, made, signals, status, raised, work, outcome>>

\* The row cannot be read back: nobody learns the name of the instance.
AllocateRaises(s) ==
  /\ Allocatable
  /\ rows' = rows \cup {Current}
  /\ Unwind(s) /\ raised' = TRUE
  /\ UNCHANGED <<servers, named, unremoved, guests, manager>>

\* Only the beginning of an attempt asks whether the user interrupted: a
\* second attempt waits for its reset in between and does not ask again.
Boot ==
  /\ InTurn("boot") /\ Current \notin guests /\ (again \/ ~Stopping)
  /\ guests' = guests \cup {Current} /\ again' = FALSE
  /\ UNCHANGED <<at, turn, servers, instances, made, signals, status, raised, work, outcome>>

\* No guest agent within the attempt's budget: the guest is torn down.
Retry ==
  /\ InTurn("boot") /\ Current \in guests /\ ~Stopping
  /\ guests' = guests \ {Current} /\ again' = TRUE
  /\ UNCHANGED <<at, turn, servers, instances, made, signals, status, raised, work, outcome>>

Ready ==
  /\ InTurn("boot") /\ Current \in guests
  /\ turn' = turn + 1
  /\ UNCHANGED <<at, again, held, made, signals, status, raised, work, outcome>>

Queue(t, what) ==
  /\ ran' = [ran EXCEPT ![t] = what]
  /\ events' = Append(events, [test |-> t, what |-> what])
  /\ UNCHANGED <<at, turn, again, held, made, signals, status, raised, written, outcome>>

StartTest(t) ==
  /\ at = "execute" /\ ran[t] = "no" /\ \A u \in Test : ran[u] # "started"
  /\ Queue(t, "started")
EndTest(t, result) == at = "execute" /\ ran[t] = "started" /\ Queue(t, result)

\* The playbook may be over at any moment between two tests, whatever they
\* came to: it need not run all of them, a failed action or a stop ends it,
\* and a run without a client executes nothing.  None of this raises.
Executed == \A t \in Test : ran[t] # "started"

StepDone ==
  /\ ~Stopping
  /\ \/ at \in {"cv", "create", "boot"} /\ turn = Len(Order) /\ GoOn
     \/ at \in {"configure", "agent"} /\ GoOn
     \/ at = "execute" /\ Executed /\ Unwind("FINISHED") /\ UNCHANGED <<held, manager, raised>>

\* Mutant: the installation does not race the stop event.
NotTheAgent == Async \ {"agent"}

\* run_async_step cancels its step when the stop event wins; the step may do
\* some more of its work first.
Cancellable == Async
Cancel == at \in Cancellable /\ Stopping /\ GiveUp

\* A step raises: a LoggedErrorException marks the run FAILED, everything
\* else INTERRUPTED.
StepRaises(s) ==
  /\ at \in Blocking \cup Async
  /\ Unwind(s) /\ raised' = TRUE /\ UNCHANGED <<held, manager>>

(***************************************************************************)
(* Signals                                                                 *)
(***************************************************************************)
\* The first signal asks for a stop; a later one destroys the guests and gives
\* its signal back to the default handler, so the next one kills the process.
Interrupt(s) ==
  /\ at \notin Over /\ s \in armed /\ sent < MaxSignals
  /\ sent' = sent + 1
  /\ IF Stopping
       THEN guests' = guests \ named /\ armed' = armed \ {s}
       ELSE UNCHANGED <<guests, armed>>
  /\ UNCHANGED <<at, turn, again, servers, instances, made, status, raised, work, outcome>>

Kill(s) ==
  /\ at \notin Over /\ s \in Signum \ armed
  /\ at' = "killed"
  /\ UNCHANGED <<turn, again, held, made, signals, status, raised, work, outcome>>

(***************************************************************************)
(* Cleanup                                                                 *)
(***************************************************************************)
CleanupGoesTo(step) ==
  at' = step /\ UNCHANGED <<turn, again, made, signals, status, raised, work, outcome>>

\* The run is over for its caller: the exception goes on, or the verdict is
\* read from the rows there are by now.
RowsOf(t) == {events[i].what : i \in {j \in 1..written : events[j].test = t}}
ResultStatus ==
  IF \E t \in Test : "failed" \in RowsOf(t) THEN "FAILED"
  ELSE IF \E t \in Test : RowsOf(t) = {} THEN "TEST_MISSING" ELSE "SUCCESS"

Leave(skipping) ==
  /\ at' = IF raised THEN "raised" ELSE "returned"
  /\ success' = (~raised /\ ResultStatus = "SUCCESS") /\ skipped' = skipping
  /\ armed' = {}
  /\ UNCHANGED <<turn, again, made, sent, status, raised, work>>

\* Any exception of a cleanup step skips the others, the drain included.
CleanupRaises(step) == at = step /\ step \in Failing /\ Leave(TRUE)

Finalize == at = "finalize" /\ UNCHANGED held /\ CleanupGoesTo("stopcv")
FinalizeRaises == CleanupRaises("finalize") /\ UNCHANGED held

\* Mutant: the machines of an interrupted run are left alone.
MachinesIfGoing == manager /\ ~Stopping

HasMachines == manager
StopServers ==
  /\ at = "stopcv"
  /\ servers' = {} /\ UNCHANGED <<instances, guests>>
  /\ CleanupGoesTo(IF HasMachines THEN "retrieve" ELSE "drain")
StopServersRaises ==
  /\ CleanupRaises("stopcv")
  /\ servers' \in SUBSET servers /\ UNCHANGED <<instances, guests>>

\* All machines at once; retrieving stops a machine's guest.
Retrieve ==
  /\ at = "retrieve"
  /\ guests' = {} /\ UNCHANGED <<servers, instances>>
  /\ CleanupGoesTo("stop")

StopGuests ==
  /\ at = "stop"
  /\ guests' = {} /\ UNCHANGED <<servers, instances>>
  /\ CleanupGoesTo("remove")

\* The first machine that fails ends the gather, wherever the others are.
StopGuestsRaises(step) ==
  /\ CleanupRaises(step)
  /\ guests' \in SUBSET guests /\ UNCHANGED <<servers, instances>>

\* Mutant: the instance of the primary machine only, the one the run records.
PrimaryOnly == {Order[1]} \cap rows \cap named

\* Every machine removes the instance its own context names.
Removable == rows \cap named

\* A removal that fails on a file or in the database is logged, and whatever
\* is left of the instance waits for a reconcile.
RemoveInstances ==
  /\ at = "remove"
  /\ \E kept \in SUBSET Removable :
       rows' = (rows \ Removable) \cup kept /\ unremoved' = kept
  /\ guests' = guests \ named /\ UNCHANGED <<servers, named>>
  /\ CleanupGoesTo("drain")

RemoveRaises ==
  /\ CleanupRaises("remove")
  /\ \E gone \in SUBSET Removable : rows' = rows \ gone /\ guests' = guests \ gone
  /\ UNCHANGED <<servers, named, unremoved>>

\* Mutant: nothing waits for the writer.
DrainedOrNot == TRUE

\* The drain waits for the writer.
Drained == written = Len(events)
Drain == at = "drain" /\ Drained /\ UNCHANGED held /\ Leave(FALSE)

Cleanup ==
  \/ Finalize \/ StopServers \/ Retrieve \/ StopGuests \/ RemoveInstances \/ Drain
  \/ FinalizeRaises \/ StopServersRaises \/ RemoveRaises
  \/ \E step \in {"retrieve", "stop"} : StopGuestsRaises(step)

\* The database writer.
Write ==
  /\ at # "killed" /\ written < Len(events)
  /\ written' = written + 1
  /\ UNCHANGED <<at, turn, again, held, made, signals, status, raised, ran, events, outcome>>

Work ==
  \/ StartServer \/ Allocate \/ Boot \/ Retry \/ Ready
  \/ \E t \in Test : StartTest(t) \/ \E result \in {"passed", "failed"} : EndTest(t, result)

Done == at \in Over /\ UNCHANGED vars

Next ==
  \/ Begin \/ Prepare \/ Work \/ StepDone \/ Cancel
  \/ \E s \in {"FAILED", "INTERRUPTED"} : StepRaises(s) \/ AllocateRaises(s)
  \/ \E s \in Signum : Interrupt(s) \/ Kill(s)
  \/ Cleanup \/ Write \/ Done

Spec == Init /\ [][Next]_vars

\* Nothing is assumed of an asynchronous step: it may hang.  The blocking
\* steps end, a cancelled step lets go, cleanup steps and the writer go on.
FairSpec ==
  /\ Spec
  /\ WF_vars(Begin) /\ WF_vars(Prepare) /\ WF_vars(Cancel)
  /\ WF_vars(Cleanup) /\ WF_vars(Write)

(***************************************************************************)
(* Properties                                                              *)
(***************************************************************************)
\* Every variable keeps its type, guests are booted on allocated instances
\* only, and no more rows are written than events were queued.
TypeOK ==
  /\ at \in Starting \cup Blocking \cup Async \cup Cleaning \cup Over
  /\ turn \in 0..Len(Order)
  /\ servers \subseteq Machine /\ rows \subseteq Machine /\ named \subseteq Machine
  /\ guests \subseteq rows \cap named /\ unremoved \subseteq Machine
  /\ again \in BOOLEAN /\ project \in BOOLEAN /\ manager \in BOOLEAN
  /\ raised \in BOOLEAN /\ success \in BOOLEAN /\ skipped \in BOOLEAN
  /\ sent \in 0..MaxSignals /\ armed \subseteq Signum
  /\ status \in {"OPEN", "FINISHED", "FAILED", "INTERRUPTED"}
  /\ ran \in [Test -> {"no", "started", "passed", "failed"}]
  /\ events \in Seq([test : Test, what : {"started", "passed", "failed"}])
  /\ written \in 0..Len(events)

Left == at \in {"returned", "raised"}

\* No guest outlives a run that was left, whichever steps were reached and whenever
\* signals came: stop_vm or cleanup_vm ends every domain the run booted, unless a
\* cleanup step that raises skips them.
GuestsStopped == Left /\ ~skipped => guests = {}

\* However a run ends and however far it got, it gives back its CV servers and every
\* instance its machines know the name of, but for those whose removal failed: they
\* and the instances nobody knew the name of are left to a reconcile.
GivenBack == Left /\ ~skipped => servers = {} /\ rows \cap named \subseteq unremoved

\* The row tells how the run ended: settled once a run that knew its project is left, FINISHED
\* only for a run that raised nothing and whose tests had all ended, and
\* a returned run that was not interrupted is FINISHED.
StatusTrue ==
  /\ Left /\ project => status # "OPEN"
  /\ status = "FINISHED" => ~raised /\ \A t \in Test : ran[t] # "started"
  /\ at = "returned" => status = "FINISHED" \/ Stopping

\* Success without an interruption means that every test of the experiment was
\* run and passed, if the drain was reached: however far the writer lags behind.
VerdictSound ==
  at = "returned" /\ ~skipped /\ success /\ ~Stopping => \A t \in Test : ran[t] = "passed"

\* "Missing or failed test coverage is never silently green-lit"
\* (_resolve_experiment_verdict), whatever became of the cleanup.
NeverGreenLit ==
  at = "returned" /\ success /\ ~Stopping => \A t \in Test : ran[t] = "passed"

\* The row of every run that was left says so, however early the signal came.
EverySettled == Left => status # "OPEN"

\* Whatever step the run is in, one signal ends it.
SignalEnds == Stopping ~> at \in Over
=============================================================================
