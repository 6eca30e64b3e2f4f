------------------------- MODULE RunLifecycleProofs -------------------------
(***************************************************************************)
(* Theorems about a run, for any machines, tests and signals, whichever    *)
(* cleanup steps may raise and whichever removals fail.  What is said of   *)
(* guests, instances and the verdict is said of a run none of whose        *)
(* cleanup steps was skipped.                                              *)
(***************************************************************************)
EXTENDS RunLifecycle, TLAPS

\* The steps in which instances are there and prepared.
Prepared == {"configure", "boot", "agent", "execute"}

\* The step in progress has allocated the machines it has dealt with, later
\* steps find all of them, and their names.
RowsOK ==
  /\ at = "create" => \A i \in 1..turn : Order[i] \in rows \cap named
  /\ at \in Prepared => Machine \subseteq rows \cap named

\* What is taken is taken late enough to be found by the cleanup: no server
\* before the preparation is over, no instance without vm_manager.
TakenOK ==
  /\ at \in {"begin", "prepare"} => servers = {}
  /\ at \in {"begin", "prepare", "cv"} => rows = {}
  /\ at \in Prepared \cup {"create"} \/ rows # {} => manager

\* What the cleanup has given back when it gets to a step.
BackOK ==
  /\ at \in {"retrieve", "stop", "remove", "drain"} => servers = {}
  /\ at \in {"stop", "remove", "drain"} => guests = {}
  /\ at = "drain" => rows \cap named \subseteq unremoved

\* The status is settled, and settled truthfully, by the end of the try block.
StatusOK ==
  /\ at \in Starting \cup Blocking \cup Async => status = "OPEN" /\ ~raised
  /\ at = "begin" => ~project
  /\ at \in Blocking \cup Async \cup Cleaning \cup {"returned"} => project
  /\ at \in Cleaning \cup {"returned"} \/ (at = "raised" /\ project) => status # "OPEN"
  /\ at \in Cleaning \cup {"returned"} => raised \/ status = "FINISHED" \/ Stopping
  /\ at = "returned" => ~raised
  /\ status = "FINISHED" => ~raised /\ Executed

\* The events tell what became of the tests.
EventsOK ==
  \A t \in Test :
    /\ ran[t] = "no" => \A i \in 1..Len(events) : events[i].test # t
    /\ ran[t] = "failed" => \E i \in 1..Len(events) : events[i] = [test |-> t, what |-> "failed"]

IInv == TypeOK /\ RowsOK
LifeInv == IInv /\ TakenOK
FullInv == LifeInv /\ BackOK /\ StatusOK /\ EventsOK /\ GuestsStopped /\ GivenBack /\ VerdictSound

\* Every step deals with a machine of the playbook.
LEMMA CurrentOK == ASSUME turn \in Nat, turn < Len(Order) PROVE Current \in Machine
BY OrderAssumption DEF Current, Machine

\* There is at least one machine.
LEMMA SomeMachine == Len(Order) \in Nat /\ Len(Order) > 0
BY OrderAssumption

Statuses == {"OPEN", "FINISHED", "FAILED", "INTERRUPTED"}

\* Leaving the try block keeps the types.
LEMMA UnwindOK ==
  ASSUME TypeOK, NEW s \in Statuses, Unwind(s), manager' \in BOOLEAN, raised' \in BOOLEAN,
         servers' \subseteq Machine, rows' \subseteq Machine, named' \subseteq Machine,
         guests' \subseteq rows' \cap named', unremoved' \subseteq Machine
  PROVE  TypeOK'
<1> USE SomeMachine DEF TypeOK, Unwind, held, signals, work, outcome
<1>1. status' \in Statuses BY DEF FinalStatus, Statuses
<1>2. at' \in Starting \cup Blocking \cup Async \cup Cleaning \cup Over BY DEF Cleaning
<1>3. turn' \in 0..Len(Order) OBVIOUS
<1>4. events' \in Seq([test : Test, what : {"started", "passed", "failed"}])
      /\ written' \in 0..Len(events)'
  OBVIOUS
<1>5. ran' \in [Test -> {"no", "started", "passed", "failed"}] OBVIOUS
<1> QED BY <1>1, <1>2, <1>3, <1>4, <1>5 DEF Statuses

\* Every step keeps the types.
LEMMA TypeOKStep ==
  ASSUME IInv, [Next]_vars PROVE TypeOK'
<1> USE OrderAssumption, MaxSignalsAssumption, CurrentOK, SomeMachine DEF held, instances,
     made, signals, work, outcome, Stopping, Starting, Async, Blocking,
     Cleaning, Over, Prepared, IInv, RowsOK, TypeOK
<1>1. CASE UNCHANGED vars BY <1>1 DEF vars
<1>2. CASE Prepare
  <2>1. CASE Stopping BY <1>2, <2>1, UnwindOK DEF Prepare, GiveUp, Statuses
  <2>2. CASE ~Stopping BY <1>2, <2>2 DEF Prepare, GoOn, After
  <2> QED BY <2>1, <2>2
<1>3. CASE StartServer BY <1>3 DEF StartServer, InTurn
<1>4. CASE Allocate BY <1>4 DEF Allocate, Allocatable, InTurn
<1>5. ASSUME NEW s \in {"FAILED", "INTERRUPTED"}, AllocateRaises(s) PROVE TypeOK'
  <2>1. s \in Statuses /\ Unwind(s) /\ Current \in Machine
    BY <1>5 DEF AllocateRaises, Allocatable, InTurn, Statuses
  <2>2. servers' \subseteq Machine /\ rows' \subseteq Machine /\ named' \subseteq Machine
        /\ guests' \subseteq rows' \cap named' /\ unremoved' \subseteq Machine
    BY <1>5, <2>1 DEF AllocateRaises
  <2>3. manager' \in BOOLEAN /\ raised' \in BOOLEAN BY <1>5 DEF AllocateRaises
  <2> QED BY <2>1, <2>2, <2>3, UnwindOK
<1>6. CASE Boot
  <2>1. Current \in rows BY <1>6 DEF Boot, InTurn
  <2> QED BY <1>6, <2>1 DEF Boot, InTurn
<1>7. CASE Retry BY <1>7 DEF Retry
<1>8. CASE Ready BY <1>8 DEF Ready, InTurn
<1>9. ASSUME NEW t \in Test, StartTest(t) PROVE TypeOK' BY <1>9 DEF StartTest, Queue
<1>10. ASSUME NEW t \in Test, NEW r \in {"passed", "failed"}, EndTest(t, r) PROVE TypeOK'
  BY <1>10 DEF EndTest, Queue
<1>11. CASE StepDone
  <2>1. CASE at \in {"cv", "create", "boot"} /\ turn = Len(Order) /\ GoOn
    BY <2>1 DEF GoOn, After
  <2>2. CASE at \in {"configure", "agent"} /\ GoOn
    BY <2>2 DEF GoOn, After
  <2>3. CASE at = "execute" /\ Executed /\ Unwind("FINISHED") /\ UNCHANGED <<held, manager, raised>>
    BY <2>3, UnwindOK DEF Statuses
  <2> QED BY <1>11, <2>1, <2>2, <2>3 DEF StepDone
<1>12. CASE Cancel BY <1>12, UnwindOK DEF Cancel, GiveUp, Statuses
<1>13. ASSUME NEW s \in {"FAILED", "INTERRUPTED"}, StepRaises(s) PROVE TypeOK'
  BY <1>13, UnwindOK DEF StepRaises, Statuses
<1>14. ASSUME NEW s \in Signum, Interrupt(s) PROVE TypeOK' BY <1>14 DEF Interrupt
<1>15. ASSUME NEW s \in Signum, Kill(s) PROVE TypeOK' BY <1>15 DEF Kill
<1>16. CASE Finalize BY <1>16 DEF Finalize, CleanupGoesTo
<1>17. CASE StopServers BY <1>17 DEF StopServers, CleanupGoesTo
<1>18. CASE Retrieve BY <1>18 DEF Retrieve, CleanupGoesTo
<1>19. ASSUME NEW step \in {"retrieve", "stop"}, StopGuestsRaises(step) PROVE TypeOK'
  BY <1>19 DEF StopGuestsRaises, CleanupRaises, Leave
<1>20. CASE StopGuests BY <1>20 DEF StopGuests, CleanupGoesTo
<1>21. CASE RemoveInstances BY <1>21 DEF RemoveInstances, Removable, CleanupGoesTo
<1>22. CASE Drain BY <1>22 DEF Drain, Leave
<1>23. CASE FinalizeRaises BY <1>23 DEF FinalizeRaises, CleanupRaises, Leave
<1>24. CASE Write BY <1>24 DEF Write
<1>25. CASE Done BY <1>25 DEF Done, vars
<1>26. CASE StopServersRaises BY <1>26 DEF StopServersRaises, CleanupRaises, Leave
<1>27. CASE RemoveRaises BY <1>27 DEF RemoveRaises, CleanupRaises, Removable, Leave
<1>28. CASE Begin BY <1>28 DEF Begin
<1> QED BY <1>1, <1>2, <1>3, <1>4, <1>5, <1>6, <1>7, <1>8, <1>9, <1>10, <1>11, <1>12,
     <1>13, <1>14, <1>15, <1>16, <1>17, <1>18, <1>19, <1>20, <1>21, <1>22, <1>23, <1>24,
     <1>25, <1>26, <1>27, <1>28 DEF Next, Work, Cleanup

\* Allocation goes through the machines in order.
LEMMA RowsOKStep ==
  ASSUME IInv, [Next]_vars PROVE RowsOK'
<1> USE OrderAssumption, MaxSignalsAssumption, CurrentOK, SomeMachine DEF held, instances,
     made, signals, work, outcome, Stopping, Starting, Async, Blocking,
     Cleaning, Over, Prepared, IInv, RowsOK, TypeOK
<1>1. CASE UNCHANGED vars BY <1>1 DEF vars
<1>2. CASE Prepare BY <1>2 DEF Prepare, GiveUp, GoOn, Unwind, After
<1>3. CASE StartServer BY <1>3 DEF StartServer, InTurn
<1>4. CASE Allocate
  <2>1. at' = "create" /\ turn' = turn + 1 /\ Order[turn + 1] \in rows' \cap named'
    BY <1>4 DEF Allocate, Allocatable, InTurn, Current
  <2>2. rows \subseteq rows' /\ named \subseteq named' BY <1>4 DEF Allocate
  <2>3. \A i \in 1..turn : Order[i] \in rows \cap named BY <1>4 DEF Allocate, Allocatable, InTurn
  <2> QED BY <2>1, <2>2, <2>3
<1>5. ASSUME NEW s \in {"FAILED", "INTERRUPTED"}, AllocateRaises(s) PROVE RowsOK'
  BY <1>5 DEF AllocateRaises, Allocatable, InTurn, Unwind
<1>6. CASE Boot BY <1>6 DEF Boot
<1>7. CASE Retry BY <1>7 DEF Retry
<1>8. CASE Ready BY <1>8 DEF Ready, InTurn
<1>9. ASSUME NEW t \in Test, StartTest(t) PROVE RowsOK' BY <1>9 DEF StartTest, Queue
<1>10. ASSUME NEW t \in Test, NEW r \in {"passed", "failed"}, EndTest(t, r) PROVE RowsOK'
  BY <1>10 DEF EndTest, Queue
<1>11. CASE StepDone
  <2>1. CASE at \in {"cv", "create", "boot"} /\ turn = Len(Order) /\ GoOn
    BY <2>1 DEF GoOn, After, Machine
  <2>2. CASE at \in {"configure", "agent"} /\ GoOn
    BY <2>2 DEF GoOn, After
  <2>3. CASE at = "execute" /\ Executed /\ Unwind("FINISHED") /\ UNCHANGED <<held, manager, raised>>
    BY <2>3 DEF Unwind
  <2> QED BY <1>11, <2>1, <2>2, <2>3 DEF StepDone
<1>12. CASE Cancel BY <1>12 DEF Cancel, GiveUp, Unwind
<1>13. ASSUME NEW s \in {"FAILED", "INTERRUPTED"}, StepRaises(s) PROVE RowsOK'
  BY <1>13 DEF StepRaises, Unwind
<1>14. ASSUME NEW s \in Signum, Interrupt(s) PROVE RowsOK' BY <1>14 DEF Interrupt
<1>15. ASSUME NEW s \in Signum, Kill(s) PROVE RowsOK' BY <1>15 DEF Kill
<1>16. CASE Finalize BY <1>16 DEF Finalize, CleanupGoesTo
<1>17. CASE StopServers BY <1>17 DEF StopServers, CleanupGoesTo
<1>18. CASE Retrieve BY <1>18 DEF Retrieve, CleanupGoesTo
<1>19. ASSUME NEW step \in {"retrieve", "stop"}, StopGuestsRaises(step) PROVE RowsOK'
  BY <1>19 DEF StopGuestsRaises, CleanupRaises, Leave
<1>20. CASE StopGuests BY <1>20 DEF StopGuests, CleanupGoesTo
<1>21. CASE RemoveInstances BY <1>21 DEF RemoveInstances, Removable, CleanupGoesTo
<1>22. CASE Drain BY <1>22 DEF Drain, Leave
<1>23. CASE FinalizeRaises BY <1>23 DEF FinalizeRaises, CleanupRaises, Leave
<1>24. CASE Write BY <1>24 DEF Write
<1>25. CASE Done BY <1>25 DEF Done, vars
<1>26. CASE StopServersRaises BY <1>26 DEF StopServersRaises, CleanupRaises, Leave
<1>27. CASE RemoveRaises BY <1>27 DEF RemoveRaises, CleanupRaises, Removable, Leave
<1>28. CASE Begin BY <1>28 DEF Begin
<1> QED BY <1>1, <1>2, <1>3, <1>4, <1>5, <1>6, <1>7, <1>8, <1>9, <1>10, <1>11, <1>12,
     <1>13, <1>14, <1>15, <1>16, <1>17, <1>18, <1>19, <1>20, <1>21, <1>22, <1>23, <1>24,
     <1>25, <1>26, <1>27, <1>28 DEF Next, Work, Cleanup

\* Servers and rows are taken where the cleanup finds them.
LEMMA TakenOKStep ==
  ASSUME LifeInv, [Next]_vars PROVE TakenOK'
<1> USE OrderAssumption, MaxSignalsAssumption, CurrentOK, SomeMachine DEF held, instances,
     made, signals, work, outcome, Stopping, Starting, Async, Blocking,
     Cleaning, Over, Prepared, LifeInv, IInv, RowsOK,
     TypeOK, TakenOK
<1>1. CASE UNCHANGED vars BY <1>1 DEF vars
<1>2. CASE Prepare BY <1>2 DEF Prepare, GiveUp, GoOn, Unwind, After
<1>3. CASE StartServer BY <1>3 DEF StartServer, InTurn
<1>4. CASE Allocate BY <1>4 DEF Allocate, Allocatable, InTurn
<1>5. ASSUME NEW s \in {"FAILED", "INTERRUPTED"}, AllocateRaises(s) PROVE TakenOK'
  BY <1>5 DEF AllocateRaises, Allocatable, InTurn, Unwind
<1>6. CASE Boot BY <1>6 DEF Boot, InTurn
<1>7. CASE Retry BY <1>7 DEF Retry
<1>8. CASE Ready BY <1>8 DEF Ready
<1>9. ASSUME NEW t \in Test, StartTest(t) PROVE TakenOK' BY <1>9 DEF StartTest, Queue
<1>10. ASSUME NEW t \in Test, NEW r \in {"passed", "failed"}, EndTest(t, r) PROVE TakenOK'
  BY <1>10 DEF EndTest, Queue
<1>11. CASE StepDone
  <2>1. CASE at \in {"cv", "create", "boot"} /\ turn = Len(Order) /\ GoOn
    <3>1. at \in {"create", "boot"} => manager BY <2>1
    <3>2. manager' = TRUE BY <2>1, <3>1 DEF GoOn
    <3>3. at' = After[at] /\ turn' = 0 /\ rows' = rows /\ servers' = servers
      BY <2>1 DEF GoOn
    <3> QED BY <2>1, <3>1, <3>2, <3>3 DEF After
  <2>2. CASE at \in {"configure", "agent"} /\ GoOn
    BY <2>2 DEF GoOn, After
  <2>3. CASE at = "execute" /\ Executed /\ Unwind("FINISHED") /\ UNCHANGED <<held, manager, raised>>
    BY <2>3 DEF Unwind
  <2> QED BY <1>11, <2>1, <2>2, <2>3 DEF StepDone
<1>12. CASE Cancel BY <1>12 DEF Cancel, GiveUp, Unwind
<1>13. ASSUME NEW s \in {"FAILED", "INTERRUPTED"}, StepRaises(s) PROVE TakenOK'
  BY <1>13 DEF StepRaises, Unwind
<1>14. ASSUME NEW s \in Signum, Interrupt(s) PROVE TakenOK' BY <1>14 DEF Interrupt
<1>15. ASSUME NEW s \in Signum, Kill(s) PROVE TakenOK' BY <1>15 DEF Kill
<1>16. CASE Finalize BY <1>16 DEF Finalize, CleanupGoesTo
<1>17. CASE StopServers BY <1>17 DEF StopServers, CleanupGoesTo
<1>18. CASE Retrieve BY <1>18 DEF Retrieve, CleanupGoesTo
<1>19. ASSUME NEW step \in {"retrieve", "stop"}, StopGuestsRaises(step) PROVE TakenOK'
  BY <1>19 DEF StopGuestsRaises, CleanupRaises, Leave
<1>20. CASE StopGuests BY <1>20 DEF StopGuests, CleanupGoesTo
<1>21. CASE RemoveInstances BY <1>21 DEF RemoveInstances, Removable, CleanupGoesTo
<1>22. CASE Drain BY <1>22 DEF Drain, Leave
<1>23. CASE FinalizeRaises BY <1>23 DEF FinalizeRaises, CleanupRaises, Leave
<1>24. CASE Write BY <1>24 DEF Write
<1>25. CASE Done BY <1>25 DEF Done, vars
<1>26. CASE StopServersRaises BY <1>26 DEF StopServersRaises, CleanupRaises, Leave
<1>27. CASE RemoveRaises BY <1>27 DEF RemoveRaises, CleanupRaises, Removable, Leave
<1>28. CASE Begin BY <1>28 DEF Begin
<1> QED BY <1>1, <1>2, <1>3, <1>4, <1>5, <1>6, <1>7, <1>8, <1>9, <1>10, <1>11, <1>12,
     <1>13, <1>14, <1>15, <1>16, <1>17, <1>18, <1>19, <1>20, <1>21, <1>22, <1>23, <1>24,
     <1>25, <1>26, <1>27, <1>28 DEF Next, Work, Cleanup

\* No cleanup step undoes an earlier one.
LEMMA BackOKStep ==
  ASSUME LifeInv /\ BackOK, [Next]_vars PROVE BackOK'
<1> USE OrderAssumption, MaxSignalsAssumption, CurrentOK, SomeMachine DEF held, instances,
     made, signals, work, outcome, Stopping, Starting, Async, Blocking,
     Cleaning, Over, Prepared, LifeInv, IInv, TypeOK,
     TakenOK, BackOK
<1>1. CASE UNCHANGED vars BY <1>1 DEF vars
<1>2. CASE Prepare BY <1>2 DEF Prepare, GiveUp, GoOn, Unwind, After
<1>3. CASE StartServer BY <1>3 DEF StartServer, InTurn
<1>4. CASE Allocate BY <1>4 DEF Allocate, Allocatable, InTurn
<1>5. ASSUME NEW s \in {"FAILED", "INTERRUPTED"}, AllocateRaises(s) PROVE BackOK'
  BY <1>5 DEF AllocateRaises, Allocatable, InTurn, Unwind
<1>6. CASE Boot BY <1>6 DEF Boot, InTurn
<1>7. CASE Retry BY <1>7 DEF Retry
<1>8. CASE Ready BY <1>8 DEF Ready
<1>9. ASSUME NEW t \in Test, StartTest(t) PROVE BackOK' BY <1>9 DEF StartTest, Queue
<1>10. ASSUME NEW t \in Test, NEW r \in {"passed", "failed"}, EndTest(t, r) PROVE BackOK'
  BY <1>10 DEF EndTest, Queue
<1>11. CASE StepDone BY <1>11 DEF StepDone, GoOn, Unwind, After
<1>12. CASE Cancel BY <1>12 DEF Cancel, GiveUp, Unwind
<1>13. ASSUME NEW s \in {"FAILED", "INTERRUPTED"}, StepRaises(s) PROVE BackOK'
  BY <1>13 DEF StepRaises, Unwind
<1>14. ASSUME NEW s \in Signum, Interrupt(s) PROVE BackOK' BY <1>14 DEF Interrupt
<1>15. ASSUME NEW s \in Signum, Kill(s) PROVE BackOK' BY <1>15 DEF Kill
<1>16. CASE Finalize BY <1>16 DEF Finalize, CleanupGoesTo
<1>17. CASE StopServers BY <1>17 DEF StopServers, HasMachines, CleanupGoesTo
<1>18. CASE Retrieve BY <1>18 DEF Retrieve, CleanupGoesTo
<1>19. ASSUME NEW step \in {"retrieve", "stop"}, StopGuestsRaises(step) PROVE BackOK'
  BY <1>19 DEF StopGuestsRaises, CleanupRaises, Leave
<1>20. CASE StopGuests BY <1>20 DEF StopGuests, CleanupGoesTo
<1>21. CASE RemoveInstances BY <1>21 DEF RemoveInstances, Removable, CleanupGoesTo
<1>22. CASE Drain BY <1>22 DEF Drain
<1>23. CASE FinalizeRaises BY <1>23 DEF FinalizeRaises, CleanupRaises, Leave
<1>24. CASE Write BY <1>24 DEF Write
<1>25. CASE Done BY <1>25 DEF Done, vars
<1>26. CASE StopServersRaises BY <1>26 DEF StopServersRaises, CleanupRaises, Leave
<1>27. CASE RemoveRaises BY <1>27 DEF RemoveRaises, CleanupRaises, Removable, Leave
<1>28. CASE Begin BY <1>28 DEF Begin
<1> QED BY <1>1, <1>2, <1>3, <1>4, <1>5, <1>6, <1>7, <1>8, <1>9, <1>10, <1>11, <1>12,
     <1>13, <1>14, <1>15, <1>16, <1>17, <1>18, <1>19, <1>20, <1>21, <1>22, <1>23, <1>24,
     <1>25, <1>26, <1>27, <1>28 DEF Next, Work, Cleanup

\* The status is settled once and stays.
LEMMA StatusOKStep ==
  ASSUME TypeOK /\ StatusOK, [Next]_vars PROVE StatusOK'
<1> USE OrderAssumption, MaxSignalsAssumption, CurrentOK, SomeMachine DEF held, instances,
     made, signals, work, outcome, Stopping, Starting, Async, Blocking,
     Cleaning, Over, Prepared, TypeOK, StatusOK, Executed
<1>1. CASE UNCHANGED vars BY <1>1 DEF vars
<1>2. CASE Prepare BY <1>2 DEF Prepare, GiveUp, GoOn, Unwind, FinalStatus, After
<1>3. CASE StartServer BY <1>3 DEF StartServer
<1>4. CASE Allocate BY <1>4 DEF Allocate, Allocatable, InTurn
<1>5. ASSUME NEW s \in {"FAILED", "INTERRUPTED"}, AllocateRaises(s) PROVE StatusOK'
  BY <1>5 DEF AllocateRaises, Allocatable, InTurn, Unwind, FinalStatus
<1>6. CASE Boot BY <1>6 DEF Boot
<1>7. CASE Retry BY <1>7 DEF Retry
<1>8. CASE Ready BY <1>8 DEF Ready
<1>9. ASSUME NEW t \in Test, StartTest(t) PROVE StatusOK' BY <1>9 DEF StartTest, Queue
<1>10. ASSUME NEW t \in Test, NEW r \in {"passed", "failed"}, EndTest(t, r) PROVE StatusOK'
  BY <1>10 DEF EndTest, Queue
<1>11. CASE StepDone BY <1>11 DEF StepDone, GoOn, Unwind, FinalStatus, After
<1>12. CASE Cancel
  <2>1. status' = "INTERRUPTED" /\ at' = "finalize" /\ project' = project /\ sent' = sent
    BY <1>12 DEF Cancel, GiveUp, Unwind, FinalStatus
  <2>2. project /\ Stopping BY <1>12 DEF Cancel, Cancellable
  <2> QED BY <2>1, <2>2
<1>13. ASSUME NEW s \in {"FAILED", "INTERRUPTED"}, StepRaises(s) PROVE StatusOK'
  BY <1>13 DEF StepRaises, Unwind, FinalStatus
<1>14. ASSUME NEW s \in Signum, Interrupt(s) PROVE StatusOK' BY <1>14 DEF Interrupt
<1>15. ASSUME NEW s \in Signum, Kill(s) PROVE StatusOK' BY <1>15 DEF Kill
<1>16. CASE Finalize BY <1>16 DEF Finalize, CleanupGoesTo
<1>17. CASE StopServers BY <1>17 DEF StopServers, CleanupGoesTo
<1>18. CASE Retrieve BY <1>18 DEF Retrieve, CleanupGoesTo
<1>19. ASSUME NEW step \in {"retrieve", "stop"}, StopGuestsRaises(step) PROVE StatusOK'
  BY <1>19 DEF StopGuestsRaises, CleanupRaises, Leave
<1>20. CASE StopGuests BY <1>20 DEF StopGuests, CleanupGoesTo
<1>21. CASE RemoveInstances BY <1>21 DEF RemoveInstances, Removable, CleanupGoesTo
<1>22. CASE Drain BY <1>22 DEF Drain, Leave
<1>23. CASE FinalizeRaises BY <1>23 DEF FinalizeRaises, CleanupRaises, Leave
<1>24. CASE Write BY <1>24 DEF Write
<1>25. CASE Done BY <1>25 DEF Done, vars
<1>26. CASE StopServersRaises BY <1>26 DEF StopServersRaises, CleanupRaises, Leave
<1>27. CASE RemoveRaises BY <1>27 DEF RemoveRaises, CleanupRaises, Removable, Leave
<1>28. CASE Begin BY <1>28 DEF Begin
<1> QED BY <1>1, <1>2, <1>3, <1>4, <1>5, <1>6, <1>7, <1>8, <1>9, <1>10, <1>11, <1>12,
     <1>13, <1>14, <1>15, <1>16, <1>17, <1>18, <1>19, <1>20, <1>21, <1>22, <1>23, <1>24,
     <1>25, <1>26, <1>27, <1>28 DEF Next, Work, Cleanup

\* A test's events are queued as its outcome is noted.
LEMMA EventsOKStep ==
  ASSUME TypeOK /\ EventsOK, [Next]_vars PROVE EventsOK'
<1> USE OrderAssumption, MaxSignalsAssumption, CurrentOK, SomeMachine DEF held, instances,
     made, signals, work, outcome, Stopping, Starting, Async, Blocking,
     Cleaning, Over, Prepared, TypeOK, EventsOK
<1>1. CASE UNCHANGED vars BY <1>1 DEF vars
<1>2. CASE Prepare BY <1>2 DEF Prepare, GiveUp, GoOn, Unwind
<1>3. CASE StartServer BY <1>3 DEF StartServer
<1>4. CASE Allocate BY <1>4 DEF Allocate, Allocatable, InTurn
<1>5. ASSUME NEW s \in {"FAILED", "INTERRUPTED"}, AllocateRaises(s) PROVE EventsOK'
  BY <1>5 DEF AllocateRaises, Allocatable, InTurn, Unwind
<1>6. CASE Boot BY <1>6 DEF Boot
<1>7. CASE Retry BY <1>7 DEF Retry
<1>8. CASE Ready BY <1>8 DEF Ready
<1>9. ASSUME NEW t \in Test, StartTest(t) PROVE EventsOK'
  <2> DEFINE e == [test |-> t, what |-> "started"]
  <2>1. events' = Append(events, e) /\ ran' = [ran EXCEPT ![t] = "started"] /\ ran[t] = "no"
    BY <1>9 DEF StartTest, Queue
  <2>2. Len(events') = Len(events) + 1 /\ events'[Len(events) + 1] = e
        /\ \A i \in 1..Len(events) : events'[i] = events[i]
    BY <2>1
  <2>3. ASSUME NEW u \in Test, ran'[u] = "no"
        PROVE  \A i \in 1..Len(events') : events'[i].test # u
    <3>1. u # t /\ ran[u] = "no" BY <2>1, <2>3
    <3>2. \A i \in 1..Len(events) : events[i].test # u BY <3>1
    <3>3. e.test # u BY <3>1
    <3>4. \A i \in 1..Len(events') : i \in 1..Len(events) \/ i = Len(events) + 1 BY <2>2
    <3> HIDE DEF e
    <3> QED BY <2>2, <3>2, <3>3, <3>4
  <2>4. ASSUME NEW u \in Test, ran'[u] = "failed"
        PROVE  \E i \in 1..Len(events') : events'[i] = [test |-> u, what |-> "failed"]
    <3>1. ran[u] = "failed" BY <2>1, <2>4
    <3>2. PICK i \in 1..Len(events) : events[i] = [test |-> u, what |-> "failed"] BY <3>1
    <3> QED BY <2>2, <3>2
  <2> QED BY <2>3, <2>4
<1>10. ASSUME NEW t \in Test, NEW r \in {"passed", "failed"}, EndTest(t, r) PROVE EventsOK'
  <2> DEFINE e == [test |-> t, what |-> r]
  <2>1. events' = Append(events, e) /\ ran' = [ran EXCEPT ![t] = r] /\ ran[t] = "started"
    BY <1>10 DEF EndTest, Queue
  <2>2. Len(events') = Len(events) + 1 /\ events'[Len(events) + 1] = e
        /\ \A i \in 1..Len(events) : events'[i] = events[i]
    BY <2>1
  <2>3. ASSUME NEW u \in Test, ran'[u] = "no"
        PROVE  \A i \in 1..Len(events') : events'[i].test # u
    <3>1. u # t /\ ran[u] = "no" BY <2>1, <2>3
    <3>2. \A i \in 1..Len(events) : events[i].test # u BY <3>1
    <3>3. e.test # u BY <3>1
    <3>4. \A i \in 1..Len(events') : i \in 1..Len(events) \/ i = Len(events) + 1 BY <2>2
    <3> HIDE DEF e
    <3> QED BY <2>2, <3>2, <3>3, <3>4
  <2>4. ASSUME NEW u \in Test, ran'[u] = "failed"
        PROVE  \E i \in 1..Len(events') : events'[i] = [test |-> u, what |-> "failed"]
    <3>1. CASE u = t
      <4>1. events'[Len(events) + 1] = [test |-> u, what |-> "failed"] BY <2>1, <2>2, <2>4, <3>1
      <4> QED BY <2>2, <4>1
    <3>2. CASE u # t
      <4>1. ran[u] = "failed" BY <2>1, <2>4, <3>2
      <4>2. PICK i \in 1..Len(events) : events[i] = [test |-> u, what |-> "failed"] BY <4>1
      <4> QED BY <2>2, <4>2
    <3> QED BY <3>1, <3>2
  <2> QED BY <2>3, <2>4
<1>11. CASE StepDone
  <2>1. CASE at \in {"cv", "create", "boot"} /\ turn = Len(Order) /\ GoOn
    BY <2>1 DEF GoOn
  <2>2. CASE at \in {"configure", "agent"} /\ GoOn
    BY <2>2 DEF GoOn
  <2>3. CASE at = "execute" /\ Executed /\ Unwind("FINISHED") /\ UNCHANGED <<held, manager, raised>>
    BY <2>3 DEF Unwind
  <2> QED BY <1>11, <2>1, <2>2, <2>3 DEF StepDone
<1>12. CASE Cancel BY <1>12 DEF Cancel, GiveUp, Unwind
<1>13. ASSUME NEW s \in {"FAILED", "INTERRUPTED"}, StepRaises(s) PROVE EventsOK'
  BY <1>13 DEF StepRaises, Unwind
<1>14. ASSUME NEW s \in Signum, Interrupt(s) PROVE EventsOK' BY <1>14 DEF Interrupt
<1>15. ASSUME NEW s \in Signum, Kill(s) PROVE EventsOK' BY <1>15 DEF Kill
<1>16. CASE Finalize BY <1>16 DEF Finalize, CleanupGoesTo
<1>17. CASE StopServers BY <1>17 DEF StopServers, CleanupGoesTo
<1>18. CASE Retrieve BY <1>18 DEF Retrieve, CleanupGoesTo
<1>19. ASSUME NEW step \in {"retrieve", "stop"}, StopGuestsRaises(step) PROVE EventsOK'
  BY <1>19 DEF StopGuestsRaises, CleanupRaises, Leave
<1>20. CASE StopGuests BY <1>20 DEF StopGuests, CleanupGoesTo
<1>21. CASE RemoveInstances BY <1>21 DEF RemoveInstances, Removable, CleanupGoesTo
<1>22. CASE Drain BY <1>22 DEF Drain, Leave
<1>23. CASE FinalizeRaises BY <1>23 DEF FinalizeRaises, CleanupRaises, Leave
<1>24. CASE Write BY <1>24 DEF Write
<1>25. CASE Done BY <1>25 DEF Done, vars
<1>26. CASE StopServersRaises BY <1>26 DEF StopServersRaises, CleanupRaises, Leave
<1>27. CASE RemoveRaises BY <1>27 DEF RemoveRaises, CleanupRaises, Removable, Leave
<1>28. CASE Begin BY <1>28 DEF Begin
<1> QED BY <1>1, <1>2, <1>3, <1>4, <1>5, <1>6, <1>7, <1>8, <1>9, <1>10, <1>11, <1>12,
     <1>13, <1>14, <1>15, <1>16, <1>17, <1>18, <1>19, <1>20, <1>21, <1>22, <1>23, <1>24,
     <1>25, <1>26, <1>27, <1>28 DEF Next, Work, Cleanup

\* A run is left with no guest.
LEMMA GuestsStep ==
  ASSUME LifeInv /\ BackOK /\ GuestsStopped, [Next]_vars PROVE GuestsStopped'
<1> USE OrderAssumption, MaxSignalsAssumption, CurrentOK, SomeMachine DEF held, instances,
     made, signals, work, outcome, Stopping, Starting, Async, Blocking,
     Cleaning, Over, Prepared, LifeInv, IInv,
     TypeOK, TakenOK, BackOK, GuestsStopped, Left
<1>1. CASE UNCHANGED vars BY <1>1 DEF vars
<1>2. CASE Prepare BY <1>2 DEF Prepare, GiveUp, GoOn, Unwind
<1>3. CASE StartServer BY <1>3 DEF StartServer
<1>4. CASE Allocate BY <1>4 DEF Allocate, Allocatable, InTurn
<1>5. ASSUME NEW s \in {"FAILED", "INTERRUPTED"}, AllocateRaises(s) PROVE GuestsStopped'
  BY <1>5 DEF AllocateRaises, Allocatable, InTurn, Unwind
<1>6. CASE Boot BY <1>6 DEF Boot, InTurn
<1>7. CASE Retry BY <1>7 DEF Retry
<1>8. CASE Ready BY <1>8 DEF Ready
<1>9. ASSUME NEW t \in Test, StartTest(t) PROVE GuestsStopped' BY <1>9 DEF StartTest, Queue
<1>10. ASSUME NEW t \in Test, NEW r \in {"passed", "failed"}, EndTest(t, r)
      PROVE GuestsStopped'
  BY <1>10 DEF EndTest, Queue
<1>11. CASE StepDone BY <1>11 DEF StepDone, GoOn, Unwind, After
<1>12. CASE Cancel BY <1>12 DEF Cancel, GiveUp, Unwind
<1>13. ASSUME NEW s \in {"FAILED", "INTERRUPTED"}, StepRaises(s) PROVE GuestsStopped'
  BY <1>13 DEF StepRaises, Unwind
<1>14. ASSUME NEW s \in Signum, Interrupt(s) PROVE GuestsStopped' BY <1>14 DEF Interrupt
<1>15. ASSUME NEW s \in Signum, Kill(s) PROVE GuestsStopped' BY <1>15 DEF Kill
<1>16. CASE Finalize BY <1>16 DEF Finalize, CleanupGoesTo
<1>17. CASE StopServers BY <1>17 DEF StopServers, CleanupGoesTo
<1>18. CASE Retrieve BY <1>18 DEF Retrieve
<1>19. ASSUME NEW step \in {"retrieve", "stop"}, StopGuestsRaises(step) PROVE GuestsStopped'
  BY <1>19 DEF StopGuestsRaises, CleanupRaises, Leave
<1>20. CASE StopGuests BY <1>20 DEF StopGuests
<1>21. CASE RemoveInstances BY <1>21 DEF RemoveInstances, Removable, CleanupGoesTo
<1>22. CASE Drain BY <1>22 DEF Drain, Leave
<1>23. CASE FinalizeRaises BY <1>23 DEF FinalizeRaises, CleanupRaises, Leave
<1>24. CASE Write BY <1>24 DEF Write
<1>25. CASE Done BY <1>25 DEF Done, vars
<1>26. CASE StopServersRaises BY <1>26 DEF StopServersRaises, CleanupRaises, Leave
<1>27. CASE RemoveRaises BY <1>27 DEF RemoveRaises, CleanupRaises, Removable, Leave
<1>28. CASE Begin BY <1>28 DEF Begin
<1> QED BY <1>1, <1>2, <1>3, <1>4, <1>5, <1>6, <1>7, <1>8, <1>9, <1>10, <1>11, <1>12,
     <1>13, <1>14, <1>15, <1>16, <1>17, <1>18, <1>19, <1>20, <1>21, <1>22, <1>23, <1>24,
     <1>25, <1>26, <1>27, <1>28 DEF Next, Work, Cleanup

\* A run is left with no server and no instance it could remove.
LEMMA GivenBackStep ==
  ASSUME LifeInv /\ BackOK /\ GivenBack, [Next]_vars PROVE GivenBack'
<1> USE OrderAssumption, MaxSignalsAssumption, CurrentOK, SomeMachine DEF held, instances,
     made, signals, work, outcome, Stopping, Starting, Async, Blocking,
     Cleaning, Over, Prepared, LifeInv, IInv,
     TypeOK, TakenOK, BackOK, GivenBack, Left
<1>1. CASE UNCHANGED vars BY <1>1 DEF vars
<1>2. CASE Prepare BY <1>2 DEF Prepare, GiveUp, GoOn, Unwind, After
<1>3. CASE StartServer BY <1>3 DEF StartServer, InTurn
<1>4. CASE Allocate BY <1>4 DEF Allocate, Allocatable, InTurn
<1>5. ASSUME NEW s \in {"FAILED", "INTERRUPTED"}, AllocateRaises(s) PROVE GivenBack'
  BY <1>5 DEF AllocateRaises, Allocatable, InTurn, Unwind
<1>6. CASE Boot BY <1>6 DEF Boot
<1>7. CASE Retry BY <1>7 DEF Retry
<1>8. CASE Ready BY <1>8 DEF Ready
<1>9. ASSUME NEW t \in Test, StartTest(t) PROVE GivenBack' BY <1>9 DEF StartTest, Queue
<1>10. ASSUME NEW t \in Test, NEW r \in {"passed", "failed"}, EndTest(t, r) PROVE GivenBack'
  BY <1>10 DEF EndTest, Queue
<1>11. CASE StepDone
  <2>1. CASE at \in {"cv", "create", "boot"} /\ turn = Len(Order) /\ GoOn
    BY <2>1 DEF GoOn, After
  <2>2. CASE at \in {"configure", "agent"} /\ GoOn
    BY <2>2 DEF GoOn, After
  <2>3. CASE at = "execute" /\ Executed /\ Unwind("FINISHED") /\ UNCHANGED <<held, manager, raised>>
    BY <2>3 DEF Unwind
  <2> QED BY <1>11, <2>1, <2>2, <2>3 DEF StepDone
<1>12. CASE Cancel BY <1>12 DEF Cancel, GiveUp, Unwind
<1>13. ASSUME NEW s \in {"FAILED", "INTERRUPTED"}, StepRaises(s) PROVE GivenBack'
  BY <1>13 DEF StepRaises, Unwind
<1>14. ASSUME NEW s \in Signum, Interrupt(s) PROVE GivenBack' BY <1>14 DEF Interrupt
<1>15. ASSUME NEW s \in Signum, Kill(s) PROVE GivenBack' BY <1>15 DEF Kill
<1>16. CASE Finalize BY <1>16 DEF Finalize, CleanupGoesTo
<1>17. CASE StopServers BY <1>17 DEF StopServers, CleanupGoesTo
<1>18. CASE Retrieve BY <1>18 DEF Retrieve, CleanupGoesTo
<1>19. ASSUME NEW step \in {"retrieve", "stop"}, StopGuestsRaises(step) PROVE GivenBack'
  BY <1>19 DEF StopGuestsRaises, CleanupRaises, Leave
<1>20. CASE StopGuests BY <1>20 DEF StopGuests, CleanupGoesTo
<1>21. CASE RemoveInstances BY <1>21 DEF RemoveInstances, Removable, CleanupGoesTo
<1>22. CASE Drain BY <1>22 DEF Drain, Leave
<1>23. CASE FinalizeRaises BY <1>23 DEF FinalizeRaises, CleanupRaises, Leave
<1>24. CASE Write BY <1>24 DEF Write
<1>25. CASE Done BY <1>25 DEF Done, vars
<1>26. CASE StopServersRaises BY <1>26 DEF StopServersRaises, CleanupRaises, Leave
<1>27. CASE RemoveRaises BY <1>27 DEF RemoveRaises, CleanupRaises, Removable, Leave
<1>28. CASE Begin BY <1>28 DEF Begin
<1> QED BY <1>1, <1>2, <1>3, <1>4, <1>5, <1>6, <1>7, <1>8, <1>9, <1>10, <1>11, <1>12,
     <1>13, <1>14, <1>15, <1>16, <1>17, <1>18, <1>19, <1>20, <1>21, <1>22, <1>23, <1>24,
     <1>25, <1>26, <1>27, <1>28 DEF Next, Work, Cleanup

\* The verdict is read from a row of every test.
LEMMA VerdictStep ==
  ASSUME LifeInv /\ StatusOK /\ EventsOK /\ VerdictSound, [Next]_vars PROVE VerdictSound'
<1> USE OrderAssumption, MaxSignalsAssumption, CurrentOK, SomeMachine DEF held, instances,
     made, signals, work, outcome, Stopping, Starting, Async, Blocking,
     Cleaning, Over, Prepared, LifeInv, IInv,
     TypeOK, TakenOK, StatusOK, EventsOK, Executed, VerdictSound
<1>1. CASE UNCHANGED vars BY <1>1 DEF vars
<1>2. CASE Prepare BY <1>2 DEF Prepare, GiveUp, GoOn, Unwind, After
<1>3. CASE StartServer BY <1>3 DEF StartServer
<1>4. CASE Allocate BY <1>4 DEF Allocate, Allocatable, InTurn
<1>5. ASSUME NEW s \in {"FAILED", "INTERRUPTED"}, AllocateRaises(s) PROVE VerdictSound'
  BY <1>5 DEF AllocateRaises, Allocatable, InTurn, Unwind
<1>6. CASE Boot BY <1>6 DEF Boot
<1>7. CASE Retry BY <1>7 DEF Retry
<1>8. CASE Ready BY <1>8 DEF Ready
<1>9. ASSUME NEW t \in Test, StartTest(t) PROVE VerdictSound' BY <1>9 DEF StartTest, Queue
<1>10. ASSUME NEW t \in Test, NEW r \in {"passed", "failed"}, EndTest(t, r)
      PROVE VerdictSound'
  BY <1>10 DEF EndTest, Queue
<1>11. CASE StepDone
  <2>1. CASE at \in {"cv", "create", "boot"} /\ turn = Len(Order) /\ GoOn
    BY <2>1 DEF GoOn, After
  <2>2. CASE at \in {"configure", "agent"} /\ GoOn
    BY <2>2 DEF GoOn, After
  <2>3. CASE at = "execute" /\ Executed /\ Unwind("FINISHED") /\ UNCHANGED <<held, manager, raised>>
    BY <2>3 DEF Unwind
  <2> QED BY <1>11, <2>1, <2>2, <2>3 DEF StepDone
<1>12. CASE Cancel BY <1>12 DEF Cancel, GiveUp, Unwind
<1>13. ASSUME NEW s \in {"FAILED", "INTERRUPTED"}, StepRaises(s) PROVE VerdictSound'
  BY <1>13 DEF StepRaises, Unwind
<1>14. ASSUME NEW s \in Signum, Interrupt(s) PROVE VerdictSound' BY <1>14 DEF Interrupt
<1>15. ASSUME NEW s \in Signum, Kill(s) PROVE VerdictSound' BY <1>15 DEF Kill
<1>16. CASE Finalize BY <1>16 DEF Finalize, CleanupGoesTo
<1>17. CASE StopServers BY <1>17 DEF StopServers, CleanupGoesTo
<1>18. CASE Retrieve BY <1>18 DEF Retrieve, CleanupGoesTo
<1>19. ASSUME NEW step \in {"retrieve", "stop"}, StopGuestsRaises(step) PROVE VerdictSound'
  BY <1>19 DEF StopGuestsRaises, CleanupRaises, Leave
<1>20. CASE StopGuests BY <1>20 DEF StopGuests, CleanupGoesTo
<1>21. CASE RemoveInstances BY <1>21 DEF RemoveInstances, Removable, CleanupGoesTo
<1>22. CASE Drain
  <2> SUFFICES ASSUME ~raised, ResultStatus = "SUCCESS", ~Stopping, NEW t \in Test
               PROVE  ran[t] = "passed"
    BY <1>22 DEF Drain, Leave
  <2>1. ran[t] # "started" BY <1>22 DEF Drain
  <2>2. RowsOf(t) # {} /\ "failed" \notin RowsOf(t) BY DEF ResultStatus
  <2>3. ran[t] # "no"
    <3>1. PICK i \in 1..written : events[i].test = t BY <2>2 DEF RowsOf
    <3>2. i \in 1..Len(events) BY <1>22, <3>1 DEF Drain, Drained
    <3> QED BY <3>1, <3>2
  <2>4. ran[t] # "failed"
    <3> SUFFICES ASSUME ran[t] = "failed" PROVE FALSE OBVIOUS
    <3>1. PICK i \in 1..Len(events) : events[i] = [test |-> t, what |-> "failed"] OBVIOUS
    <3>2. i \in 1..written /\ events[i].test = t /\ events[i].what = "failed"
      BY <1>22, <3>1 DEF Drain, Drained
    <3>3. "failed" \in RowsOf(t) BY <3>2 DEF RowsOf
    <3> QED BY <2>2, <3>3
  <2> QED BY <2>1, <2>3, <2>4
<1>23. CASE FinalizeRaises BY <1>23 DEF FinalizeRaises, CleanupRaises, Leave
<1>24. CASE Write BY <1>24 DEF Write
<1>25. CASE Done BY <1>25 DEF Done, vars
<1>26. CASE StopServersRaises BY <1>26 DEF StopServersRaises, CleanupRaises, Leave
<1>27. CASE RemoveRaises BY <1>27 DEF RemoveRaises, CleanupRaises, Removable, Leave
<1>28. CASE Begin BY <1>28 DEF Begin
<1> QED BY <1>1, <1>2, <1>3, <1>4, <1>5, <1>6, <1>7, <1>8, <1>9, <1>10, <1>11, <1>12,
     <1>13, <1>14, <1>15, <1>16, <1>17, <1>18, <1>19, <1>20, <1>21, <1>22, <1>23, <1>24,
     <1>25, <1>26, <1>27, <1>28 DEF Next, Work, Cleanup

\* Initially everything holds.
LEMMA InitOK == Init => FullInv
<1> SUFFICES ASSUME Init PROVE FullInv OBVIOUS
<1> USE OrderAssumption, MaxSignalsAssumption, SomeMachine DEF Init
<1>1. TypeOK
  <2>1. events \in Seq([test : Test, what : {"started", "passed", "failed"}])
        /\ written \in 0..Len(events)
    OBVIOUS
  <2>2. ran \in [Test -> {"no", "started", "passed", "failed"}] OBVIOUS
  <2>3. servers \subseteq Machine /\ rows \subseteq Machine /\ named \subseteq Machine
        /\ guests \subseteq rows \cap named /\ unremoved \subseteq Machine
    OBVIOUS
  <2>4. sent \in 0..MaxSignals /\ turn \in 0..Len(Order) OBVIOUS
  <2> QED BY <2>1, <2>2, <2>3, <2>4 DEF TypeOK, Starting
<1>2. RowsOK /\ TakenOK /\ BackOK BY DEF RowsOK, TakenOK, BackOK, Prepared
<1>3. StatusOK BY DEF StatusOK, Starting, Blocking, Async, Cleaning
<1>4. EventsOK
  <2>1. Len(events) = 0 OBVIOUS
  <2> QED BY <2>1 DEF EventsOK
<1>5. GuestsStopped /\ GivenBack /\ VerdictSound
  BY DEF GuestsStopped, GivenBack, VerdictSound, Left
<1> QED BY <1>1, <1>2, <1>3, <1>4, <1>5 DEF FullInv, LifeInv, IInv

\* Every variable keeps its type, and guests are booted on allocated
\* instances only.
THEOREM TypeCorrect == Spec => []TypeOK
<1>1. Init => IInv BY InitOK DEF FullInv, LifeInv
<1>2. IInv /\ [Next]_vars => IInv' BY TypeOKStep, RowsOKStep DEF IInv
<1> QED BY <1>1, <1>2, PTL DEF Spec, IInv

\* The status of the run row tells how the run ended, whichever cleanup step
\* raises.
THEOREM StatusSafe == Spec => []StatusTrue
<1> DEFINE SInv == IInv /\ StatusOK
<1>1. Init => SInv BY InitOK DEF FullInv, LifeInv
<1>2. SInv /\ [Next]_vars => SInv' BY TypeOKStep, RowsOKStep, StatusOKStep DEF IInv
<1>3. SInv => StatusTrue BY DEF StatusOK, StatusTrue, Executed, Left, Cleaning
<1> HIDE DEF SInv
<1> QED BY <1>1, <1>2, <1>3, PTL DEF Spec

\* The whole invariant is inductive.
LEMMA FullInvStep == FullInv /\ [Next]_vars => FullInv'
BY TypeOKStep, RowsOKStep, TakenOKStep, BackOKStep, StatusOKStep, EventsOKStep, GuestsStep,
   GivenBackStep, VerdictStep DEF FullInv, LifeInv, IInv

\* Unless a cleanup step is skipped, no guest outlives its run, whatever step failed
\* and however many signals came.
THEOREM GuestsSafe == Spec => []GuestsStopped
<1>1. FullInv /\ [Next]_vars => FullInv' BY FullInvStep
<1> QED BY <1>1, InitOK, PTL DEF Spec, FullInv

\* Unless a cleanup step is skipped, a run gives back its CV servers and every instance
\* its machines know, however far it got, but for those whose removal failed.
THEOREM GivenBackSafe == Spec => []GivenBack
<1>1. FullInv /\ [Next]_vars => FullInv' BY FullInvStep
<1> QED BY <1>1, InitOK, PTL DEF Spec, FullInv

\* Unless a cleanup step is skipped, a run that was not interrupted succeeds only if
\* every test was run and passed.
THEOREM VerdictSafe == Spec => []VerdictSound
<1>1. FullInv /\ [Next]_vars => FullInv' BY FullInvStep
<1> QED BY <1>1, InitOK, PTL DEF Spec, FullInv
=============================================================================
