--------------------------- MODULE RunInstancesProofs ---------------------------
(***************************************************************************)
(* Theorems about QEMU instances, for any number of runs, dev starts,      *)
(* prunes and removals at the same time.                                   *)
(***************************************************************************)
EXTENDS RunInstances, TLAPS

Maker   == Run \cup Dev
Removal == {"destroy", "unlink", "lookup", "delete"}
Making  == {"record", "files", "boot", "up", "save", "stop"}

\* A maker owns an instance from its insert on until it has deleted the row.
Own(n)     == pc[n] \in Making \/ (pc[n] \in Removal /\ victim[n] = n)
Over(n)    == pc[n] \in {"exit", "dead"}
Started(n) == Own(n) \/ Over(n)
Gone(n)    == n \in Old \/ pc[n] = "dead"

\* Which process can be where.
PlacesOK ==
  \A p \in Proc : /\ pc[p] \in Making \cup {"reserve"} => p \in Maker
                  /\ pc[p] = "save" => p \in Dev
                  /\ p \in Remover => pc[p] \in {"idle", "forget", "exit", "dead"} \cup Removal
                  /\ p \notin Remover => pc[p] # "forget"

\* A process removes its own instance, or one whose maker is dead.
VictimOK ==
  \A p \in Proc : /\ victim[p] \in {Nobody, p} \/ Gone(victim[p])
                  /\ victim[p] = p => pc[p] \in Removal \cup {"exit"}
                  /\ pc[p] \in Removal \cup {"forget"} => victim[p] # Nobody

\* What exists, or was seen, belongs to a maker that has begun making it.
SeenOK ==
  \A n \in Maker :
    ~Started(n) => /\ n \notin rows /\ n \notin files
                   /\ \A p \in Proc : n \notin disk[p] /\ n \notin known[p] /\ n \notin todo[p]

OwnHasRow == \A n \in Maker : Own(n) => n \in rows
SessionOver == \A n \in sessions : Over(n)

\* A file that was scanned belongs to a row the next read includes, or to a maker
\* that is over: this is why the scan comes before the read.
OrphansOver ==
  \A p \in Proc, n \in Maker :
    n \in disk[p] => \/ Over(n)
                     \/ pc[p] \in {"scan", "rows"} /\ n \in rows
                     \/ pc[p] \notin {"scan", "rows"} /\ n \in known[p]

Inv == TypeOK /\ PlacesOK /\ VictimOK /\ SeenOK /\ OwnHasRow /\ SessionOver /\ OrphansOver

\* Only a maker inserts a row, makes files or saves a session, so every set keeps its
\* type.
LEMMA TypeOKStep ==
  ASSUME TypeOK, PlacesOK, [Next]_vars PROVE TypeOK'
<1> USE RunsAssumption DEF Proc, Name
<1>1. CASE UNCHANGED vars BY <1>1 DEF vars, TypeOK
<1>2. ASSUME NEW p \in Proc, Reconcile(p) \/ Remove(p) \/ Live(p) \/ Exit(p) \/ Crash(p) PROVE TypeOK'
  <2>1. CASE Begin(p) BY <2>1 DEF Begin, Goto, stores, TypeOK, Location
  <2>2. CASE ReadSessions(p) BY <2>2 DEF ReadSessions, Goto, stores, TypeOK, Location
  <2>3. CASE ScanFiles(p) BY <2>3 DEF ScanFiles, Goto, stores, TypeOK, Location
  <2>4. CASE ReadRows(p) BY <2>4 DEF ReadRows, Consider, Goto, stores, TypeOK, Location
  <2>5. CASE NextRow(p) BY <2>5 DEF NextRow, RemovalStart, Goto, stores, TypeOK, Location
  <2>6. CASE RowsDone(p) BY <2>6 DEF RowsDone, Goto, stores, memory, TypeOK, Location
  <2>7. CASE RemoveOrphan(p) BY <2>7 DEF RemoveOrphan, Without, TypeOK
  <2>8. CASE ReconcileDone(p)
    BY <2>8 DEF ReconcileDone, Goto, stores, memory, TypeOK, Location
  <2>9. CASE Destroy(p) BY <2>9 DEF Destroy, Goto, memory, TypeOK, Location
  <2>10. CASE Unlink(p) BY <2>10 DEF Unlink, Without, Goto, memory, TypeOK, Location
  <2>11. CASE LookUp(p)
    BY <2>11 DEF LookUp, AfterRemoval, Goto, stores, memory, TypeOK, Location
  <2>12. CASE Delete(p) BY <2>12 DEF Delete, AfterRemoval, Goto, memory, TypeOK, Location
  <2>13. CASE Reserve(p)
    BY <2>13 DEF Reserve, Goto, memory, TypeOK, PlacesOK, Location, Maker
  <2>14. CASE Record(p) BY <2>14 DEF Record, Goto, stores, memory, TypeOK, Location
  <2>15. CASE MakeFiles(p)
    BY <2>15 DEF MakeFiles, Goto, memory, TypeOK, PlacesOK, Location, Making, Maker
  <2>16. CASE Boot(p) BY <2>16 DEF Boot, Goto, memory, TypeOK, Location
  <2>17. CASE Interrupted(p)
    BY <2>17 DEF Interrupted, Goto, stores, memory, TypeOK, Location
  <2>18. CASE RunEnds(p) BY <2>18 DEF RunEnds, Goto, stores, memory, TypeOK, Location
  <2>19. CASE CleanUp(p)
    BY <2>19 DEF CleanUp, RemovalStart, Goto, stores, TypeOK, PlacesOK, Location, Making,
       Maker
  <2>20. CASE SaveSession(p)
    BY <2>20 DEF SaveSession, Goto, memory, TypeOK, PlacesOK, Location
  <2>21. CASE RemoveSession(p)
    BY <2>21 DEF RemoveSession, RemovalStart, stores, TypeOK, Location
  <2>22. CASE ForgetSession(p) BY <2>22 DEF ForgetSession, Goto, memory, TypeOK, Location
  <2>23. CASE Exit(p) BY <2>23 DEF Exit, Leave, Goto, stores, TypeOK, Location
  <2>24. CASE Crash(p) BY <2>24 DEF Crash, Leave, Goto, stores, TypeOK, Location
  <2> QED BY <1>2, <2>1, <2>2, <2>3, <2>4, <2>5, <2>6, <2>7, <2>8, <2>9, <2>10, <2>11,
       <2>12, <2>13, <2>14, <2>15, <2>16, <2>17, <2>18, <2>19, <2>20, <2>21, <2>22, <2>23,
       <2>24 DEF Reconcile, Remove, Live
<1> QED BY <1>1, <1>2 DEF Next, Quiet

\* A process stays on its own path: runs and dev starts make instances, removers only
\* remove them. A removal returns to the reconcile it was called from or ends.
LEMMA PlacesStep ==
  ASSUME TypeOK, PlacesOK, VictimOK, [Next]_vars PROVE PlacesOK'
<1> USE RunsAssumption DEF Proc, Name
<1>1. CASE UNCHANGED vars BY <1>1 DEF vars, PlacesOK
<1>2. ASSUME NEW p \in Proc, Reconcile(p) \/ Remove(p) \/ Live(p) \/ Exit(p) \/ Crash(p) PROVE PlacesOK'
  <2>1. CASE Begin(p) BY <2>1 DEF Begin, Goto, PlacesOK, Making
  <2>2. CASE ReadSessions(p) BY <2>2 DEF ReadSessions, Goto, PlacesOK, Making, Removal
  <2>3. CASE ScanFiles(p) BY <2>3 DEF ScanFiles, Goto, PlacesOK, Making, Removal
  <2>4. CASE ReadRows(p) BY <2>4 DEF ReadRows, Goto, PlacesOK, Making, Removal
  <2>5. CASE NextRow(p)
    BY <2>5 DEF NextRow, RemovalStart, Goto, TypeOK, PlacesOK, Making, Removal
  <2>6. CASE RowsDone(p) BY <2>6 DEF RowsDone, Goto, PlacesOK, Making, Removal
  <2>7. CASE RemoveOrphan(p) BY <2>7 DEF RemoveOrphan, PlacesOK
  <2>8. CASE ReconcileDone(p)
    BY <2>8 DEF ReconcileDone, Goto, PlacesOK, Making, Removal, Maker
  <2>9. CASE Destroy(p) BY <2>9 DEF Destroy, Goto, PlacesOK, Making, Removal
  <2>10. CASE Unlink(p) BY <2>10 DEF Unlink, Goto, PlacesOK, Making, Removal
  <2>11. CASE LookUp(p) BY <2>11 DEF LookUp, AfterRemoval, Goto, PlacesOK, Making, Removal
  <2>12. CASE Delete(p) BY <2>12 DEF Delete, AfterRemoval, Goto, PlacesOK, Making
  <2>13. CASE Reserve(p) BY <2>13 DEF Reserve, Goto, PlacesOK, Removal
  <2>14. CASE Record(p) BY <2>14 DEF Record, Goto, TypeOK, PlacesOK, Making
  <2>15. CASE MakeFiles(p) BY <2>15 DEF MakeFiles, Goto, PlacesOK, Making, Removal
  <2>16. CASE Boot(p)
    BY <2>16 DEF Boot, OutlivesCommand, Goto, TypeOK, PlacesOK, Making, Removal
  <2>17. CASE Interrupted(p) BY <2>17 DEF Interrupted, Goto, PlacesOK, Making
  <2>18. CASE RunEnds(p) BY <2>18 DEF RunEnds, Goto, PlacesOK, Making, Removal
  <2>19. CASE CleanUp(p)
    BY <2>19 DEF CleanUp, RemovalStart, Goto, TypeOK, PlacesOK, Making, Removal
  <2>20. CASE SaveSession(p) BY <2>20 DEF SaveSession, Goto, PlacesOK, Making
  <2>21. CASE RemoveSession(p)
    BY <2>21 DEF RemoveSession, RemovalStart, TypeOK, PlacesOK, Making, Removal
  <2>22. CASE ForgetSession(p) BY <2>22 DEF ForgetSession, Goto, PlacesOK, Making
  <2>23. CASE Exit(p) BY <2>23 DEF Exit, Leave, Goto, PlacesOK, Making
  <2>24. CASE Crash(p) BY <2>24 DEF Crash, Leave, Goto, PlacesOK, Making
  <2> QED BY <1>2, <2>1, <2>2, <2>3, <2>4, <2>5, <2>6, <2>7, <2>8, <2>9, <2>10, <2>11,
       <2>12, <2>13, <2>14, <2>15, <2>16, <2>17, <2>18, <2>19, <2>20, <2>21, <2>22, <2>23,
       <2>24 DEF Reconcile, Remove, Live
<1> QED BY <1>1, <1>2 DEF Next, Quiet

\* A reconcile chooses rows of the dead and orphans of makers that are over; nobody
\* becomes alive again, so the victim stays one.
LEMMA VictimStep ==
  ASSUME TypeOK, PlacesOK, VictimOK, SessionOver, SeenOK, [Next]_vars PROVE VictimOK'
<1> USE RunsAssumption DEF Proc, Name
<1>1. CASE UNCHANGED vars BY <1>1 DEF vars, VictimOK, Gone
<1>2. ASSUME NEW p \in Proc, Reconcile(p) \/ Remove(p) \/ Live(p) \/ Exit(p) \/ Crash(p) PROVE VictimOK'
  <2>1. CASE Begin(p) BY <2>1 DEF Begin, Goto, VictimOK, Removal, Gone
  <2>2. CASE ReadSessions(p) BY <2>2 DEF ReadSessions, Goto, VictimOK, Removal, Gone
  <2>3. CASE ScanFiles(p) BY <2>3 DEF ScanFiles, Goto, VictimOK, Removal, Gone
  <2>4. CASE ReadRows(p) BY <2>4 DEF ReadRows, Goto, VictimOK, Removal, Gone
  <2>5. CASE NextRow(p)
    BY <2>5 DEF NextRow, Stale, Alive, Goto, TypeOK, VictimOK, SeenOK, Making, Removal,
       Maker, Gone, Over, Own, Started
  <2>6. CASE RowsDone(p) BY <2>6 DEF RowsDone, Goto, memory, VictimOK, Removal, Gone
  <2>7. CASE RemoveOrphan(p) BY <2>7 DEF RemoveOrphan, VictimOK, Gone
  <2>8. CASE ReconcileDone(p)
    BY <2>8 DEF ReconcileDone, Goto, memory, VictimOK, Removal, Gone
  <2>9. CASE Destroy(p) BY <2>9 DEF Destroy, Goto, memory, VictimOK, Removal, Gone
  <2>10. CASE Unlink(p) BY <2>10 DEF Unlink, Goto, memory, VictimOK, Removal, Gone
  <2>11. CASE LookUp(p)
    BY <2>11 DEF LookUp, AfterRemoval, Goto, memory, VictimOK, Removal, Gone
  <2>12. CASE Delete(p)
    BY <2>12 DEF Delete, AfterRemoval, Goto, memory, VictimOK, Removal, Gone
  <2>13. CASE Reserve(p) BY <2>13 DEF Reserve, Goto, memory, VictimOK, Removal, Gone
  <2>14. CASE Record(p) BY <2>14 DEF Record, Goto, memory, VictimOK, Removal, Gone
  <2>15. CASE MakeFiles(p) BY <2>15 DEF MakeFiles, Goto, memory, VictimOK, Removal, Gone
  <2>16. CASE Boot(p) BY <2>16 DEF Boot, Goto, memory, TypeOK, VictimOK, Removal, Gone
  <2>17. CASE Interrupted(p) BY <2>17 DEF Interrupted, Goto, memory, VictimOK, Removal, Gone
  <2>18. CASE RunEnds(p) BY <2>18 DEF RunEnds, Goto, memory, VictimOK, Removal, Gone
  <2>19. CASE CleanUp(p)
    BY <2>19 DEF CleanUp, RemovalStart, Goto, TypeOK, VictimOK, Removal, Gone
  <2>20. CASE SaveSession(p) BY <2>20 DEF SaveSession, Goto, memory, VictimOK, Removal, Gone
  <2>21. CASE RemoveSession(p)
    BY <2>21 DEF RemoveSession, Alive, TypeOK, VictimOK, SessionOver, Gone, Over
  <2>22. CASE ForgetSession(p) BY <2>22 DEF ForgetSession, Goto, memory, VictimOK, Gone
  <2>23. CASE Exit(p) BY <2>23 DEF Exit, Leave, Goto, TypeOK, VictimOK, Removal, Gone
  <2>24. CASE Crash(p) BY <2>24 DEF Crash, Leave, Goto, TypeOK, VictimOK, Removal, Gone
  <2> QED BY <1>2, <2>1, <2>2, <2>3, <2>4, <2>5, <2>6, <2>7, <2>8, <2>9, <2>10, <2>11,
       <2>12, <2>13, <2>14, <2>15, <2>16, <2>17, <2>18, <2>19, <2>20, <2>21, <2>22, <2>23,
       <2>24 DEF Reconcile, Remove, Live
<1> QED BY <1>1, <1>2 DEF Next, Quiet

\* Nothing can be seen of an instance whose maker has not inserted its row.
LEMMA SeenOKStep ==
  ASSUME TypeOK, PlacesOK, VictimOK, SeenOK, OwnHasRow, SessionOver, OrphansOver, [Next]_vars PROVE SeenOK'
<1> USE RunsAssumption DEF Proc, Name
<1>1. CASE UNCHANGED vars BY <1>1 DEF vars, SeenOK, Over, Own, Started
<1>2. ASSUME NEW p \in Proc, Reconcile(p) \/ Remove(p) \/ Live(p) \/ Exit(p) \/ Crash(p) PROVE SeenOK'
  <2>1. CASE Begin(p)
    BY <2>1 DEF Begin, Goto, stores, SeenOK, Making, Removal, Over, Own, Started
  <2>2. CASE ReadSessions(p)
    BY <2>2 DEF ReadSessions, Goto, stores, SeenOK, Making, Removal, Over, Own, Started
  <2>3. CASE ScanFiles(p)
    BY <2>3 DEF ScanFiles, Goto, stores, SeenOK, Making, Removal, Over, Own, Started
  <2>4. CASE ReadRows(p)
    BY <2>4 DEF ReadRows, Consider, Goto, stores, SeenOK, Making, Removal, Over, Own,
       Started
  <2>5. CASE NextRow(p)
    BY <2>5 DEF NextRow, Goto, stores, TypeOK, SeenOK, Making, Removal, Maker, Over, Own,
       Started
  <2>6. CASE RowsDone(p)
    BY <2>6 DEF RowsDone, Goto, stores, memory, SeenOK, Making, Removal, Over, Own, Started
  <2>7. CASE RemoveOrphan(p) BY <2>7 DEF RemoveOrphan, Without, SeenOK, Over, Own, Started
  <2>8. CASE ReconcileDone(p)
    BY <2>8 DEF ReconcileDone, Goto, stores, memory, SeenOK, Making, Removal, Over, Own,
       Started
  <2>9. CASE Destroy(p)
    BY <2>9 DEF Destroy, Goto, memory, SeenOK, Making, Removal, Over, Own, Started
  <2>10. CASE Unlink(p)
    BY <2>10 DEF Unlink, Without, Goto, memory, SeenOK, Making, Removal, Over, Own, Started
  <2>11. CASE LookUp(p)
    BY <2>11 DEF LookUp, AfterRemoval, Goto, stores, memory, SeenOK, Making, Removal, Over,
       Own, Started
  <2>12. CASE Delete(p)
    BY <2>12 DEF Delete, AfterRemoval, Goto, memory, SeenOK, Making, Over, Own, Started
  <2>13. CASE Reserve(p)
    BY <2>13 DEF Reserve, Goto, memory, TypeOK, SeenOK, Making, Over, Own, Started
  <2>14. CASE Record(p)
    BY <2>14 DEF Record, Goto, stores, memory, SeenOK, Making, Over, Own, Started
  <2>15. CASE MakeFiles(p)
    BY <2>15 DEF MakeFiles, Goto, memory, SeenOK, Making, Over, Own, Started
  <2>16. CASE Boot(p)
    BY <2>16 DEF Boot, Goto, memory, TypeOK, SeenOK, Making, Maker, Over, Own, Started
  <2>17. CASE Interrupted(p)
    BY <2>17 DEF Interrupted, Goto, stores, memory, SeenOK, Making, Over, Own, Started
  <2>18. CASE RunEnds(p)
    BY <2>18 DEF RunEnds, Goto, stores, memory, SeenOK, Making, Over, Own, Started
  <2>19. CASE CleanUp(p)
    BY <2>19 DEF CleanUp, RemovalStart, Goto, stores, TypeOK, SeenOK, Removal, Maker, Over,
       Own, Started
  <2>20. CASE SaveSession(p)
    BY <2>20 DEF SaveSession, Goto, memory, SeenOK, Over, Own, Started
  <2>21. CASE RemoveSession(p)
    BY <2>21 DEF RemoveSession, stores, TypeOK, SeenOK, Maker, Over, Own, Started
  <2>22. CASE ForgetSession(p)
    BY <2>22 DEF ForgetSession, Goto, memory, SeenOK, Over, Own, Started
  <2>23. CASE Exit(p) BY <2>23 DEF Exit, Leave, Goto, stores, SeenOK, Over, Own, Started
  <2>24. CASE Crash(p)
    BY <2>24 DEF Crash, Leave, Goto, stores, TypeOK, SeenOK, Over, Own, Started
  <2> QED BY <1>2, <2>1, <2>2, <2>3, <2>4, <2>5, <2>6, <2>7, <2>8, <2>9, <2>10, <2>11,
       <2>12, <2>13, <2>14, <2>15, <2>16, <2>17, <2>18, <2>19, <2>20, <2>21, <2>22, <2>23,
       <2>24 DEF Reconcile, Remove, Live
<1> QED BY <1>1, <1>2 DEF Next, Quiet

\* The row of an instance that is being made, used or removed by its maker stays: the
\* others only delete rows of the dead.
LEMMA OwnHasRowStep ==
  ASSUME TypeOK, PlacesOK, VictimOK, SeenOK, OwnHasRow, SessionOver, OrphansOver, [Next]_vars PROVE OwnHasRow'
<1> USE RunsAssumption DEF Proc, Name
<1>1. CASE UNCHANGED vars BY <1>1 DEF vars, OwnHasRow, Own
<1>2. ASSUME NEW p \in Proc, Reconcile(p) \/ Remove(p) \/ Live(p) \/ Exit(p) \/ Crash(p) PROVE OwnHasRow'
  <2>1. CASE Begin(p) BY <2>1 DEF Begin, Goto, stores, VictimOK, OwnHasRow, Making, Own
  <2>2. CASE ReadSessions(p)
    BY <2>2 DEF ReadSessions, Goto, stores, VictimOK, OwnHasRow, Making, Own
  <2>3. CASE ScanFiles(p)
    BY <2>3 DEF ScanFiles, Goto, stores, VictimOK, OwnHasRow, Making, Own
  <2>4. CASE ReadRows(p)
    BY <2>4 DEF ReadRows, Goto, stores, VictimOK, OwnHasRow, Making, Own
  <2>5. CASE NextRow(p)
    BY <2>5 DEF NextRow, RemovalStart, Goto, stores, TypeOK, VictimOK, SeenOK, OwnHasRow,
       Making, Maker, Over, Own, Started
  <2>6. CASE RowsDone(p)
    BY <2>6 DEF RowsDone, Goto, stores, memory, VictimOK, OwnHasRow, Making, Own
  <2>7. CASE RemoveOrphan(p) BY <2>7 DEF RemoveOrphan, OwnHasRow, Own
  <2>8. CASE ReconcileDone(p)
    BY <2>8 DEF ReconcileDone, Goto, stores, memory, VictimOK, OwnHasRow, Making, Own
  <2>9. CASE Destroy(p) BY <2>9 DEF Destroy, Goto, memory, VictimOK, OwnHasRow, Making, Own
  <2>10. CASE Unlink(p) BY <2>10 DEF Unlink, Goto, memory, VictimOK, OwnHasRow, Making, Own
  <2>11. CASE LookUp(p)
    BY <2>11 DEF LookUp, AfterRemoval, Goto, stores, memory, VictimOK, OwnHasRow, Making,
       Own
  <2>12. CASE Delete(p)
    BY <2>12 DEF Delete, AfterRemoval, Goto, memory, TypeOK, VictimOK, OwnHasRow, Making,
       Removal, Maker, Gone, Own
  <2>13. CASE Reserve(p) BY <2>13 DEF Reserve, Goto, memory, OwnHasRow, Own
  <2>14. CASE Record(p) BY <2>14 DEF Record, Goto, stores, memory, OwnHasRow, Making, Own
  <2>15. CASE MakeFiles(p) BY <2>15 DEF MakeFiles, Goto, memory, OwnHasRow, Making, Own
  <2>16. CASE Boot(p) BY <2>16 DEF Boot, Goto, memory, TypeOK, OwnHasRow, Making, Maker, Own
  <2>17. CASE Interrupted(p)
    BY <2>17 DEF Interrupted, Goto, stores, memory, VictimOK, OwnHasRow, Making, Own
  <2>18. CASE RunEnds(p) BY <2>18 DEF RunEnds, Goto, stores, memory, OwnHasRow, Making, Own
  <2>19. CASE CleanUp(p)
    BY <2>19 DEF CleanUp, Goto, stores, TypeOK, OwnHasRow, Making, Maker, Own
  <2>20. CASE SaveSession(p) BY <2>20 DEF SaveSession, Goto, memory, OwnHasRow, Making, Own
  <2>21. CASE RemoveSession(p)
    BY <2>21 DEF RemoveSession, stores, TypeOK, OwnHasRow, Maker, Own
  <2>22. CASE ForgetSession(p)
    BY <2>22 DEF ForgetSession, Goto, memory, TypeOK, PlacesOK, OwnHasRow, Making, Own
  <2>23. CASE Exit(p) BY <2>23 DEF Exit, Leave, Goto, stores, TypeOK, OwnHasRow, Making, Own
  <2>24. CASE Crash(p)
    BY <2>24 DEF Crash, Leave, Goto, stores, TypeOK, OwnHasRow, Making, Own
  <2> QED BY <1>2, <2>1, <2>2, <2>3, <2>4, <2>5, <2>6, <2>7, <2>8, <2>9, <2>10, <2>11,
       <2>12, <2>13, <2>14, <2>15, <2>16, <2>17, <2>18, <2>19, <2>20, <2>21, <2>22, <2>23,
       <2>24 DEF Reconcile, Remove, Live
<1> QED BY <1>1, <1>2 DEF Next, Quiet

\* A session is saved by the last step of its dev start, which leaves nothing to do.
LEMMA SessionOverStep ==
  ASSUME TypeOK, PlacesOK, VictimOK, SeenOK, OwnHasRow, SessionOver, OrphansOver, [Next]_vars PROVE SessionOver'
<1> USE RunsAssumption DEF Proc, Name
<1>1. CASE UNCHANGED vars BY <1>1 DEF vars, SessionOver, Over
<1>2. ASSUME NEW p \in Proc, Reconcile(p) \/ Remove(p) \/ Live(p) \/ Exit(p) \/ Crash(p) PROVE SessionOver'
  <2>1. CASE Begin(p) BY <2>1 DEF Begin, Goto, stores, SessionOver, Over
  <2>2. CASE ReadSessions(p) BY <2>2 DEF ReadSessions, Goto, stores, SessionOver, Over
  <2>3. CASE ScanFiles(p) BY <2>3 DEF ScanFiles, Goto, stores, SessionOver, Over
  <2>4. CASE ReadRows(p) BY <2>4 DEF ReadRows, Goto, stores, SessionOver, Over
  <2>5. CASE NextRow(p) BY <2>5 DEF NextRow, Goto, stores, TypeOK, SessionOver, Over
  <2>6. CASE RowsDone(p) BY <2>6 DEF RowsDone, Goto, stores, SessionOver, Over
  <2>7. CASE RemoveOrphan(p) BY <2>7 DEF RemoveOrphan, SessionOver, Over
  <2>8. CASE ReconcileDone(p) BY <2>8 DEF ReconcileDone, Goto, stores, SessionOver, Over
  <2>9. CASE Destroy(p) BY <2>9 DEF Destroy, Goto, SessionOver, Over
  <2>10. CASE Unlink(p) BY <2>10 DEF Unlink, Goto, SessionOver, Over
  <2>11. CASE LookUp(p) BY <2>11 DEF LookUp, Goto, stores, SessionOver, Over
  <2>12. CASE Delete(p) BY <2>12 DEF Delete, Goto, SessionOver, Over
  <2>13. CASE Reserve(p) BY <2>13 DEF Reserve, Goto, SessionOver, Over
  <2>14. CASE Record(p) BY <2>14 DEF Record, Goto, stores, SessionOver, Over
  <2>15. CASE MakeFiles(p) BY <2>15 DEF MakeFiles, Goto, SessionOver, Over
  <2>16. CASE Boot(p) BY <2>16 DEF Boot, Goto, TypeOK, SessionOver, Over
  <2>17. CASE Interrupted(p) BY <2>17 DEF Interrupted, Goto, stores, SessionOver, Over
  <2>18. CASE RunEnds(p) BY <2>18 DEF RunEnds, Goto, stores, SessionOver, Over
  <2>19. CASE CleanUp(p) BY <2>19 DEF CleanUp, Goto, stores, TypeOK, SessionOver, Over
  <2>20. CASE SaveSession(p) BY <2>20 DEF SaveSession, Goto, TypeOK, SessionOver, Over
  <2>21. CASE RemoveSession(p) BY <2>21 DEF RemoveSession, stores, TypeOK, SessionOver, Over
  <2>22. CASE ForgetSession(p) BY <2>22 DEF ForgetSession, Goto, SessionOver, Over
  <2>23. CASE Exit(p) BY <2>23 DEF Exit, Leave, Goto, stores, SessionOver, Over
  <2>24. CASE Crash(p) BY <2>24 DEF Crash, Leave, Goto, stores, SessionOver, Over
  <2> QED BY <1>2, <2>1, <2>2, <2>3, <2>4, <2>5, <2>6, <2>7, <2>8, <2>9, <2>10, <2>11,
       <2>12, <2>13, <2>14, <2>15, <2>16, <2>17, <2>18, <2>19, <2>20, <2>21, <2>22, <2>23,
       <2>24 DEF Reconcile, Remove, Live
<1> QED BY <1>1, <1>2 DEF Next, Quiet

\* The scan of the files comes before the read of the rows, and a row comes before its
\* files: a file without a row that was read belongs to a maker that has ended.
LEMMA OrphansOverStep ==
  ASSUME TypeOK, PlacesOK, VictimOK, SeenOK, OwnHasRow, SessionOver, OrphansOver, [Next]_vars PROVE OrphansOver'
<1> USE RunsAssumption DEF Proc, Name
<1>1. CASE UNCHANGED vars BY <1>1 DEF vars, OrphansOver, Over
<1>2. ASSUME NEW p \in Proc, Reconcile(p) \/ Remove(p) \/ Live(p) \/ Exit(p) \/ Crash(p) PROVE OrphansOver'
  <2>1. CASE Begin(p) BY <2>1 DEF Begin, Goto, stores, OrphansOver, Over
  <2>2. CASE ReadSessions(p)
    BY <2>2 DEF ReadSessions, Goto, stores, SeenOK, OwnHasRow, OrphansOver, Over, Started
  <2>3. CASE ScanFiles(p)
    BY <2>3 DEF ScanFiles, Goto, stores, SeenOK, OwnHasRow, OrphansOver, Over, Started
  <2>4. CASE ReadRows(p) BY <2>4 DEF ReadRows, Goto, stores, TypeOK, OrphansOver, Over
  <2>5. CASE NextRow(p)
    BY <2>5 DEF NextRow, RemovalStart, Goto, stores, TypeOK, OrphansOver, Maker, Over
  <2>6. CASE RowsDone(p) BY <2>6 DEF RowsDone, Goto, stores, memory, OrphansOver, Over
  <2>7. CASE RemoveOrphan(p) BY <2>7 DEF RemoveOrphan, OrphansOver, Over
  <2>8. CASE ReconcileDone(p)
    BY <2>8 DEF ReconcileDone, Goto, stores, memory, OrphansOver, Over
  <2>9. CASE Destroy(p) BY <2>9 DEF Destroy, Goto, memory, OrphansOver, Over
  <2>10. CASE Unlink(p) BY <2>10 DEF Unlink, Goto, memory, OrphansOver, Over
  <2>11. CASE LookUp(p)
    BY <2>11 DEF LookUp, AfterRemoval, Goto, stores, memory, OrphansOver, Over
  <2>12. CASE Delete(p)
    BY <2>12 DEF Delete, AfterRemoval, Goto, memory, TypeOK, VictimOK, OrphansOver, Maker,
       Gone, Over
  <2>13. CASE Reserve(p) BY <2>13 DEF Reserve, Goto, memory, OrphansOver, Over
  <2>14. CASE Record(p) BY <2>14 DEF Record, Goto, stores, memory, OrphansOver, Over
  <2>15. CASE MakeFiles(p) BY <2>15 DEF MakeFiles, Goto, memory, OrphansOver, Over
  <2>16. CASE Boot(p) BY <2>16 DEF Boot, Goto, memory, TypeOK, OrphansOver, Maker, Over
  <2>17. CASE Interrupted(p)
    BY <2>17 DEF Interrupted, Goto, stores, memory, OrphansOver, Over
  <2>18. CASE RunEnds(p) BY <2>18 DEF RunEnds, Goto, stores, memory, OrphansOver, Over
  <2>19. CASE CleanUp(p)
    BY <2>19 DEF CleanUp, RemovalStart, Goto, stores, TypeOK, OrphansOver, Maker, Over
  <2>20. CASE SaveSession(p) BY <2>20 DEF SaveSession, Goto, memory, OrphansOver, Over
  <2>21. CASE RemoveSession(p)
    BY <2>21 DEF RemoveSession, RemovalStart, stores, TypeOK, OrphansOver, Maker, Over
  <2>22. CASE ForgetSession(p) BY <2>22 DEF ForgetSession, Goto, memory, OrphansOver, Over
  <2>23. CASE Exit(p) BY <2>23 DEF Exit, Leave, Goto, stores, TypeOK, OrphansOver, Over
  <2>24. CASE Crash(p) BY <2>24 DEF Crash, Leave, Goto, stores, TypeOK, OrphansOver, Over
  <2> QED BY <1>2, <2>1, <2>2, <2>3, <2>4, <2>5, <2>6, <2>7, <2>8, <2>9, <2>10, <2>11,
       <2>12, <2>13, <2>14, <2>15, <2>16, <2>17, <2>18, <2>19, <2>20, <2>21, <2>22, <2>23,
       <2>24 DEF Reconcile, Remove, Live
<1> QED BY <1>1, <1>2 DEF Next, Quiet

\* In an initial state only saved sessions and pooled instances exist.
LEMMA InitInv == Init => Inv
<1> SUFFICES ASSUME Init PROVE Inv OBVIOUS
<1> USE RunsAssumption DEF Init, Proc, Name, Making, Removal, Maker, Over, Own, Started,
     Gone
<1>1. TypeOK BY DEF TypeOK, Location
<1>2. PlacesOK /\ VictimOK BY DEF PlacesOK, VictimOK
<1>3. SeenOK BY DEF SeenOK
<1>4. OwnHasRow /\ SessionOver /\ OrphansOver BY DEF OwnHasRow, SessionOver, OrphansOver
<1> QED BY <1>1, <1>2, <1>3, <1>4 DEF Inv

\* Every step keeps the inductive invariant (run_instances.py, run_resources.py).
LEMMA InvStep == Inv /\ [Next]_vars => Inv'
BY TypeOKStep, PlacesStep, VictimStep, SeenOKStep, OwnHasRowStep, SessionOverStep,
     OrphansOverStep
DEF Inv

\* The inductive invariant holds throughout.
LEMMA Invariant == Spec => []Inv
<1>1. Inv /\ UNCHANGED vars => Inv' BY InvStep
<1> QED BY InitInv, InvStep, PTL DEF Spec

\* Every step of every process keeps the types, whoever crashes and however many run.
THEOREM TypeCorrect == Spec => []TypeOK
BY Invariant, PTL DEF Inv

\* A step of another process leaves the instance of a live maker as it is: its victim is
\* somebody else, and an orphan it unlinks belongs to a maker that is over.
LEMMA LiveStep ==
  ASSUME Inv, [Next]_vars, NEW n \in Run \cup Dev, InUse(n), pc'[n] = pc[n]
  PROVE  Instance(n)' = Instance(n)
<1> USE RunsAssumption DEF Proc, Name
<1>1. CASE UNCHANGED vars BY <1>1 DEF vars, Instance
<1>2. ASSUME NEW p \in Proc, Reconcile(p) \/ Remove(p) \/ Live(p) \/ Exit(p) \/ Crash(p)
      PROVE  Instance(n)' = Instance(n)
  <2>1. CASE Begin(p) BY <2>1 DEF Begin, stores, InUse, Instance
  <2>2. CASE ReadSessions(p) BY <2>2 DEF ReadSessions, stores, InUse, Instance
  <2>3. CASE ScanFiles(p) BY <2>3 DEF ScanFiles, stores, InUse, Instance
  <2>4. CASE ReadRows(p) BY <2>4 DEF ReadRows, stores, InUse, Instance
  <2>5. CASE NextRow(p) BY <2>5 DEF NextRow, stores, InUse, Instance
  <2>6. CASE RowsDone(p) BY <2>6 DEF RowsDone, stores, InUse, Instance
  <2>7. CASE RemoveOrphan(p)
    BY <2>7 DEF RemoveOrphan, Without, Orphans, Alive, Inv, OrphansOver, Maker, Over, InUse,
       Instance
  <2>8. CASE ReconcileDone(p) BY <2>8 DEF ReconcileDone, stores, InUse, Instance
  <2>9. CASE Destroy(p)
    BY <2>9 DEF Destroy, Goto, Alive, Inv, TypeOK, VictimOK, Gone, InUse, Instance
  <2>10. CASE Unlink(p)
    BY <2>10 DEF Unlink, Without, Goto, Alive, Inv, TypeOK, VictimOK, Gone, InUse, Instance
  <2>11. CASE LookUp(p) BY <2>11 DEF LookUp, stores, InUse, Instance
  <2>12. CASE Delete(p)
    BY <2>12 DEF Delete, AfterRemoval, Goto, Alive, Inv, TypeOK, VictimOK, Gone, InUse,
       Instance
  <2>13. CASE Reserve(p) BY <2>13 DEF Reserve, Goto, Inv, TypeOK, InUse, Instance
  <2>14. CASE Record(p) BY <2>14 DEF Record, stores, InUse, Instance
  <2>15. CASE MakeFiles(p) BY <2>15 DEF MakeFiles, Goto, Inv, TypeOK, InUse, Instance
  <2>16. CASE Boot(p) BY <2>16 DEF Boot, Goto, Inv, TypeOK, InUse, Instance
  <2>17. CASE Interrupted(p) BY <2>17 DEF Interrupted, stores, InUse, Instance
  <2>18. CASE RunEnds(p) BY <2>18 DEF RunEnds, stores, InUse, Instance
  <2>19. CASE CleanUp(p) BY <2>19 DEF CleanUp, stores, InUse, Instance
  <2>20. CASE SaveSession(p) BY <2>20 DEF SaveSession, InUse, Instance
  <2>21. CASE RemoveSession(p) BY <2>21 DEF RemoveSession, stores, InUse, Instance
  <2>22. CASE ForgetSession(p) BY <2>22 DEF ForgetSession, InUse, Instance
  <2>23. CASE Exit(p) BY <2>23 DEF Exit, Leave, stores, InUse, Instance
  <2>24. CASE Crash(p) BY <2>24 DEF Crash, Leave, stores, InUse, Instance
  <2> QED BY <1>2, <2>1, <2>2, <2>3, <2>4, <2>5, <2>6, <2>7, <2>8, <2>9, <2>10, <2>11,
       <2>12, <2>13, <2>14, <2>15, <2>16, <2>17, <2>18, <2>19, <2>20, <2>21, <2>22, <2>23,
       <2>24 DEF Reconcile, Remove, Live
<1> QED BY <1>1, <1>2 DEF Next, Quiet

\* However many processes reconcile, crash or fail to reach libvirt: the row, the files and
\* the domain of a run that is alive are changed by that run only (reconcile_instances).
THEOREM LiveSafe == Spec => LiveInstanceKept
<1>1. Inv /\ [Next]_vars =>
        [\A n \in Run \cup Dev : InUse(n) /\ Instance(n)' # Instance(n) => pc'[n] # pc[n]]_vars
  BY LiveStep
<1> QED BY <1>1, Invariant, PTL DEF Spec, LiveInstanceKept

-----------------------------------------------------------------------------
(* Where libvirtd answers, a domain is gone before its row is.             *)
DomainStopped ==
  \A p \in Proc : pc[p] \in {"unlink", "lookup", "delete"} =>
                   victim[p] \in Unreached \/ domain[victim[p]] = "none"
DomainInv == DomainStopped /\ RunningHasRow

\* At first the only domains running are those of saved sessions, which have rows.
LEMMA DomainInit == Init => DomainInv
BY RunsAssumption DEF Init, DomainInv, DomainStopped, RunningHasRow, Proc, Name

\* No process starts the domain of an instance another one removes.
LEMMA DomainStep ==
  ASSUME Inv, DomainInv, [Next]_vars
  PROVE  DomainInv'
<1> USE RunsAssumption DEF Proc, Name
<1>1. CASE UNCHANGED vars BY <1>1 DEF vars, DomainInv, DomainStopped, RunningHasRow
<1>2. ASSUME NEW p \in Proc, Reconcile(p) \/ Remove(p) \/ Live(p) \/ Exit(p) \/ Crash(p)
      PROVE  DomainInv'
  <2>1. CASE Begin(p)
    BY <2>1 DEF Begin, Goto, stores, DomainInv, DomainStopped, RunningHasRow
  <2>2. CASE ReadSessions(p)
    BY <2>2 DEF ReadSessions, Goto, stores, DomainInv, DomainStopped, RunningHasRow
  <2>3. CASE ScanFiles(p)
    BY <2>3 DEF ScanFiles, Goto, stores, DomainInv, DomainStopped, RunningHasRow
  <2>4. CASE ReadRows(p)
    BY <2>4 DEF ReadRows, Goto, stores, DomainInv, DomainStopped, RunningHasRow
  <2>5. CASE NextRow(p)
    BY <2>5 DEF NextRow, RemovalStart, Goto, stores, Inv, TypeOK, DomainInv, DomainStopped,
       RunningHasRow
  <2>6. CASE RowsDone(p)
    BY <2>6 DEF RowsDone, Goto, stores, memory, DomainInv, DomainStopped, RunningHasRow
  <2>7. CASE RemoveOrphan(p)
    BY <2>7 DEF RemoveOrphan, DomainInv, DomainStopped, RunningHasRow
  <2>8. CASE ReconcileDone(p)
    BY <2>8 DEF ReconcileDone, Goto, stores, memory, DomainInv, DomainStopped,
       RunningHasRow
  <2>9. CASE Destroy(p)
    BY <2>9 DEF Destroy, Goto, memory, Inv, TypeOK, VictimOK, Removal, DomainInv,
       DomainStopped, RunningHasRow
  <2>10. CASE Unlink(p)
    BY <2>10 DEF Unlink, Goto, memory, DomainInv, DomainStopped, RunningHasRow
  <2>11. CASE LookUp(p)
    BY <2>11 DEF LookUp, Goto, stores, memory, DomainInv, DomainStopped, RunningHasRow
  <2>12. CASE Delete(p)
    BY <2>12 DEF Delete, Goto, memory, DomainInv, DomainStopped, RunningHasRow
  <2>13. CASE Reserve(p)
    BY <2>13 DEF Reserve, Goto, memory, DomainInv, DomainStopped, RunningHasRow
  <2>14. CASE Record(p)
    BY <2>14 DEF Record, Goto, stores, memory, DomainInv, DomainStopped, RunningHasRow
  <2>15. CASE MakeFiles(p)
    BY <2>15 DEF MakeFiles, Goto, memory, DomainInv, DomainStopped, RunningHasRow
  <2>16. CASE Boot(p)
    BY <2>16 DEF Boot, Goto, memory, Inv, TypeOK, PlacesOK, VictimOK, OwnHasRow, Making,
       Removal, Gone, Own, DomainInv, DomainStopped, RunningHasRow
  <2>17. CASE Interrupted(p)
    BY <2>17 DEF Interrupted, Goto, stores, memory, DomainInv, DomainStopped, RunningHasRow
  <2>18. CASE RunEnds(p)
    BY <2>18 DEF RunEnds, Goto, stores, memory, DomainInv, DomainStopped, RunningHasRow
  <2>19. CASE CleanUp(p)
    BY <2>19 DEF CleanUp, RemovalStart, Goto, stores, Inv, TypeOK, DomainInv,
       DomainStopped, RunningHasRow
  <2>20. CASE SaveSession(p)
    BY <2>20 DEF SaveSession, Goto, memory, DomainInv, DomainStopped, RunningHasRow
  <2>21. CASE RemoveSession(p)
    BY <2>21 DEF RemoveSession, RemovalStart, stores, Inv, TypeOK, DomainInv,
       DomainStopped, RunningHasRow
  <2>22. CASE ForgetSession(p)
    BY <2>22 DEF ForgetSession, Goto, memory, DomainInv, DomainStopped, RunningHasRow
  <2>23. CASE Exit(p)
    BY <2>23 DEF Exit, Leave, Goto, stores, DomainInv, DomainStopped, RunningHasRow
  <2>24. CASE Crash(p)
    BY <2>24 DEF Crash, Leave, Goto, stores, Inv, TypeOK, DomainInv, DomainStopped,
       RunningHasRow
  <2> QED BY <1>2, <2>1, <2>2, <2>3, <2>4, <2>5, <2>6, <2>7, <2>8, <2>9, <2>10, <2>11,
       <2>12, <2>13, <2>14, <2>15, <2>16, <2>17, <2>18, <2>19, <2>20, <2>21, <2>22, <2>23,
       <2>24 DEF Reconcile, Remove, Live
<1> QED BY <1>1, <1>2 DEF Next, Quiet

-----------------------------------------------------------------------------
(* Files that can be deleted do not outlive their row.                     *)
FilesGone ==
  \A p \in Proc : pc[p] \in {"lookup", "delete"} => victim[p] \notin files \ Undeletable
FilesInv == FilesGone /\ FilesHaveRow

\* At first files belong to instances that have rows.
LEMMA FilesInit == Init => FilesInv
BY RunsAssumption DEF Init, FilesInv, FilesGone, FilesHaveRow, Proc, Name

\* No process makes files for an instance another one removes.
LEMMA FilesStep ==
  ASSUME Inv, FilesInv, [Next]_vars
  PROVE  FilesInv'
<1> USE RunsAssumption DEF Proc, Name
<1>1. CASE UNCHANGED vars BY <1>1 DEF vars, FilesInv, FilesGone, FilesHaveRow
<1>2. ASSUME NEW p \in Proc, Reconcile(p) \/ Remove(p) \/ Live(p) \/ Exit(p) \/ Crash(p)
      PROVE  FilesInv'
  <2>1. CASE Begin(p) BY <2>1 DEF Begin, Goto, stores, FilesInv, FilesGone, FilesHaveRow
  <2>2. CASE ReadSessions(p)
    BY <2>2 DEF ReadSessions, Goto, stores, FilesInv, FilesGone, FilesHaveRow
  <2>3. CASE ScanFiles(p)
    BY <2>3 DEF ScanFiles, Goto, stores, FilesInv, FilesGone, FilesHaveRow
  <2>4. CASE ReadRows(p)
    BY <2>4 DEF ReadRows, Goto, stores, FilesInv, FilesGone, FilesHaveRow
  <2>5. CASE NextRow(p)
    BY <2>5 DEF NextRow, RemovalStart, Goto, stores, Inv, TypeOK, FilesInv, FilesGone,
       FilesHaveRow
  <2>6. CASE RowsDone(p)
    BY <2>6 DEF RowsDone, Goto, stores, memory, FilesInv, FilesGone, FilesHaveRow
  <2>7. CASE RemoveOrphan(p)
    BY <2>7 DEF RemoveOrphan, Without, FilesInv, FilesGone, FilesHaveRow
  <2>8. CASE ReconcileDone(p)
    BY <2>8 DEF ReconcileDone, Goto, stores, memory, FilesInv, FilesGone, FilesHaveRow
  <2>9. CASE Destroy(p) BY <2>9 DEF Destroy, Goto, memory, FilesInv, FilesGone, FilesHaveRow
  <2>10. CASE Unlink(p)
    BY <2>10 DEF Unlink, Without, Goto, memory, FilesInv, FilesGone, FilesHaveRow
  <2>11. CASE LookUp(p)
    BY <2>11 DEF LookUp, Goto, stores, memory, FilesInv, FilesGone, FilesHaveRow
  <2>12. CASE Delete(p) BY <2>12 DEF Delete, Goto, memory, FilesInv, FilesGone, FilesHaveRow
  <2>13. CASE Reserve(p)
    BY <2>13 DEF Reserve, Goto, memory, FilesInv, FilesGone, FilesHaveRow
  <2>14. CASE Record(p)
    BY <2>14 DEF Record, Goto, stores, memory, FilesInv, FilesGone, FilesHaveRow
  <2>15. CASE MakeFiles(p)
    BY <2>15 DEF MakeFiles, Goto, memory, Inv, PlacesOK, VictimOK, OwnHasRow, Making, Gone,
       Own, FilesInv, FilesGone, FilesHaveRow
  <2>16. CASE Boot(p)
    BY <2>16 DEF Boot, Goto, memory, Inv, TypeOK, FilesInv, FilesGone, FilesHaveRow
  <2>17. CASE Interrupted(p)
    BY <2>17 DEF Interrupted, Goto, stores, memory, FilesInv, FilesGone, FilesHaveRow
  <2>18. CASE RunEnds(p)
    BY <2>18 DEF RunEnds, Goto, stores, memory, FilesInv, FilesGone, FilesHaveRow
  <2>19. CASE CleanUp(p)
    BY <2>19 DEF CleanUp, RemovalStart, Goto, stores, Inv, TypeOK, FilesInv, FilesGone,
       FilesHaveRow
  <2>20. CASE SaveSession(p)
    BY <2>20 DEF SaveSession, Goto, memory, FilesInv, FilesGone, FilesHaveRow
  <2>21. CASE RemoveSession(p)
    BY <2>21 DEF RemoveSession, RemovalStart, stores, Inv, TypeOK, FilesInv, FilesGone,
       FilesHaveRow
  <2>22. CASE ForgetSession(p)
    BY <2>22 DEF ForgetSession, Goto, memory, FilesInv, FilesGone, FilesHaveRow
  <2>23. CASE Exit(p)
    BY <2>23 DEF Exit, Leave, Goto, stores, FilesInv, FilesGone, FilesHaveRow
  <2>24. CASE Crash(p)
    BY <2>24 DEF Crash, Leave, Goto, stores, Inv, TypeOK, FilesInv, FilesGone, FilesHaveRow
  <2> QED BY <1>2, <2>1, <2>2, <2>3, <2>4, <2>5, <2>6, <2>7, <2>8, <2>9, <2>10, <2>11,
       <2>12, <2>13, <2>14, <2>15, <2>16, <2>17, <2>18, <2>19, <2>20, <2>21, <2>22, <2>23,
       <2>24 DEF Reconcile, Remove, Live
<1> QED BY <1>1, <1>2 DEF Next, Quiet

\* Every crash leaves a row for whatever is on disk or running and met no obstacle: the
\* row is inserted first and deleted last (remove_qemu_run_instance).
THEOREM NothingLostSafe == Spec => []NothingLost
<1>1. Inv /\ DomainInv /\ [Next]_vars => DomainInv' BY DomainStep
<1>2. Inv /\ FilesInv /\ [Next]_vars => FilesInv' BY FilesStep
<1>3. DomainInv /\ FilesInv => NothingLost
  BY DEF DomainInv, FilesInv, RunningHasRow, FilesHaveRow, NothingLost
<1> QED BY <1>1, <1>2, <1>3, DomainInit, FilesInit, Invariant, PTL DEF Spec

-----------------------------------------------------------------------------
(* A reconcile loses sight of no instance that was over when it began.     *)
Reading == {"sessions", "scan", "rows"}
DoomedGone ==
  \A p \in Proc : \A n \in doomed[p] :
    /\ Gone(n) /\ n \notin sessions
    /\ pc[p] # "idle"
    /\ pc[p] # "sessions" => n \notin skip[p]
    /\ pc[p] \notin Reading =>
         n \in todo[p] \/ n \notin rows \/ (pc[p] \in Removal /\ victim[p] = n)
Placed ==
  \A p \in Proc : pc[p] = "orphans" => todo[p] = {}
\* An instance that was stale when the reconcile began is put on its list, removed, or
\* removed by another one: nobody makes it again.
LEMMA DoomedStep ==
  ASSUME Inv, DoomedGone, Placed, [Next]_vars
  PROVE  (DoomedGone /\ Placed)'
<1> USE RunsAssumption DEF Proc, Name
<1>1. CASE UNCHANGED vars BY <1>1 DEF vars, Gone, DoomedGone, Placed
<1>2. ASSUME NEW p \in Proc, Reconcile(p) \/ Remove(p) \/ Live(p) \/ Exit(p) \/ Crash(p)
      PROVE  (DoomedGone /\ Placed)'
  <2>1. CASE Begin(p)
    BY <2>1 DEF Begin, Goto, stores, Inv, TypeOK, Gone, DoomedGone, Placed, Reading
  <2>2. CASE ReadSessions(p)
    BY <2>2 DEF ReadSessions, Goto, stores, Inv, TypeOK, Gone, DoomedGone, Placed, Reading
  <2>3. CASE ScanFiles(p)
    BY <2>3 DEF ScanFiles, Goto, stores, Gone, DoomedGone, Placed, Reading
  <2>4. CASE ReadRows(p)
    BY <2>4 DEF ReadRows, Consider, Goto, stores, Inv, TypeOK, Gone, DoomedGone, Placed
  <2>5. CASE NextRow(p)
    BY <2>5 DEF NextRow, Stale, RemovalStart, Goto, stores, Alive, Inv, TypeOK, Removal,
       Gone, DoomedGone, Placed, Reading
  <2>6. CASE RowsDone(p)
    BY <2>6 DEF RowsDone, Goto, stores, memory, Removal, Gone, DoomedGone, Placed, Reading
  <2>7. CASE RemoveOrphan(p) BY <2>7 DEF RemoveOrphan, Gone, DoomedGone, Placed
  <2>8. CASE ReconcileDone(p)
    BY <2>8 DEF ReconcileDone, Goto, stores, memory, Removal, Gone, DoomedGone, Placed,
       Reading
  <2>9. CASE Destroy(p)
    BY <2>9 DEF Destroy, Goto, memory, Removal, Gone, DoomedGone, Placed, Reading
  <2>10. CASE Unlink(p)
    BY <2>10 DEF Unlink, Goto, memory, Removal, Gone, DoomedGone, Placed, Reading
  <2>11. CASE LookUp(p)
    BY <2>11 DEF LookUp, AfterRemoval, Goto, stores, memory, Removal, Gone, DoomedGone,
       Placed, Reading
  <2>12. CASE Delete(p)
    BY <2>12 DEF Delete, AfterRemoval, Goto, memory, Gone, DoomedGone, Placed, Reading
  <2>13. CASE Reserve(p)
    BY <2>13 DEF Reserve, Goto, memory, Removal, Gone, DoomedGone, Placed, Reading
  <2>14. CASE Record(p)
    BY <2>14 DEF Record, Goto, stores, memory, Removal, Gone, DoomedGone, Placed, Reading
  <2>15. CASE MakeFiles(p)
    BY <2>15 DEF MakeFiles, Goto, memory, Removal, Gone, DoomedGone, Placed, Reading
  <2>16. CASE Boot(p)
    BY <2>16 DEF Boot, Goto, memory, Inv, TypeOK, Removal, Gone, DoomedGone, Placed,
       Reading
  <2>17. CASE Interrupted(p)
    BY <2>17 DEF Interrupted, Goto, stores, memory, Removal, Gone, DoomedGone, Placed,
       Reading
  <2>18. CASE RunEnds(p)
    BY <2>18 DEF RunEnds, Goto, stores, memory, Removal, Gone, DoomedGone, Placed, Reading
  <2>19. CASE CleanUp(p)
    BY <2>19 DEF CleanUp, RemovalStart, Goto, stores, Inv, TypeOK, Removal, Gone,
       DoomedGone, Placed, Reading
  <2>20. CASE SaveSession(p)
    BY <2>20 DEF SaveSession, Goto, memory, Removal, Gone, DoomedGone, Placed, Reading
  <2>21. CASE RemoveSession(p)
    BY <2>21 DEF RemoveSession, RemovalStart, stores, Inv, TypeOK, Gone, DoomedGone, Placed
  <2>22. CASE ForgetSession(p)
    BY <2>22 DEF ForgetSession, Goto, memory, Removal, Gone, DoomedGone, Placed, Reading
  <2>23. CASE Exit(p)
    BY <2>23 DEF Exit, Leave, Goto, stores, Inv, TypeOK, Gone, DoomedGone, Placed
  <2>24. CASE Crash(p)
    BY <2>24 DEF Crash, Leave, Goto, stores, Inv, TypeOK, Gone, DoomedGone, Placed
  <2> QED BY <1>2, <2>1, <2>2, <2>3, <2>4, <2>5, <2>6, <2>7, <2>8, <2>9, <2>10, <2>11,
       <2>12, <2>13, <2>14, <2>15, <2>16, <2>17, <2>18, <2>19, <2>20, <2>21, <2>22, <2>23,
       <2>24 DEF Reconcile, Remove, Live
<1> QED BY <1>1, <1>2 DEF Next, Quiet

\* At first no reconcile has begun.
LEMMA DoomedInit == Init => DoomedGone /\ Placed
BY RunsAssumption DEF Init, DoomedGone, Placed, Proc, Name

\* A reconcile that ends has reclaimed everything that was stale when it began, but for
\* what met an obstacle, whatever the others did in between (reconcile_instances).
THEOREM ReconcileSafe == Spec => []ReconcileComplete
<1>1. Inv /\ DoomedGone /\ Placed /\ [Next]_vars => DoomedGone' /\ Placed' BY DoomedStep
<1>2. Inv /\ DoomedGone /\ Placed /\ NothingLost => ReconcileComplete
  BY RunsAssumption DEF Inv, TypeOK, DoomedGone, Placed, NothingLost, FilesHaveRow,
       RunningHasRow, ReconcileComplete,
       Reclaimed,
     Reading, Removal, Proc, Name
<1>3. Spec => []NothingLost BY NothingLostSafe
<1> QED BY <1>1, <1>2, <1>3, DoomedInit, Invariant, PTL DEF Spec

-----------------------------------------------------------------------------
(* What a reconcile has read of the sessions keeps it away from them.      *)
SessionsSkipped ==
  \A p \in Proc \ Remover :
    /\ pc[p] \in {"idle", "sessions"} => todo[p] = {}
    /\ todo[p] \cap skip[p] = {}
    /\ pc[p] \in Removal /\ victim[p] # p => victim[p] \notin skip[p]

\* At first no reconcile has read anything.
LEMMA SkippedInit == Init => SessionsSkipped
BY RunsAssumption DEF Init, SessionsSkipped, Proc, Removal

\* The rows a reconcile is to look at leave out the sessions it has read.
LEMMA SkippedStep ==
  ASSUME Inv, SessionsSkipped, [Next]_vars
  PROVE  SessionsSkipped'
<1> USE RunsAssumption DEF Proc, Name
<1>1. CASE UNCHANGED vars BY <1>1 DEF vars, SessionsSkipped
<1>2. ASSUME NEW p \in Proc, Reconcile(p) \/ Remove(p) \/ Live(p) \/ Exit(p) \/ Crash(p)
      PROVE  SessionsSkipped'
  <2>1. CASE Begin(p) BY <2>1 DEF Begin, Goto, stores, Removal, SessionsSkipped
  <2>2. CASE ReadSessions(p)
    BY <2>2 DEF ReadSessions, Goto, stores, Inv, TypeOK, Removal, SessionsSkipped
  <2>3. CASE ScanFiles(p) BY <2>3 DEF ScanFiles, Goto, stores, Removal, SessionsSkipped
  <2>4. CASE ReadRows(p)
    BY <2>4 DEF ReadRows, Consider, Goto, stores, Inv, PlacesOK, Removal, SessionsSkipped
  <2>5. CASE NextRow(p)
    BY <2>5 DEF NextRow, RemovalStart, Goto, stores, Inv, TypeOK, Removal, SessionsSkipped
  <2>6. CASE RowsDone(p)
    BY <2>6 DEF RowsDone, Goto, stores, memory, Removal, SessionsSkipped
  <2>7. CASE RemoveOrphan(p) BY <2>7 DEF RemoveOrphan, SessionsSkipped
  <2>8. CASE ReconcileDone(p)
    BY <2>8 DEF ReconcileDone, Goto, stores, memory, Removal, SessionsSkipped
  <2>9. CASE Destroy(p) BY <2>9 DEF Destroy, Goto, memory, Removal, SessionsSkipped
  <2>10. CASE Unlink(p) BY <2>10 DEF Unlink, Goto, memory, Removal, SessionsSkipped
  <2>11. CASE LookUp(p)
    BY <2>11 DEF LookUp, AfterRemoval, Goto, stores, memory, Removal, SessionsSkipped
  <2>12. CASE Delete(p)
    BY <2>12 DEF Delete, AfterRemoval, Goto, memory, Removal, SessionsSkipped
  <2>13. CASE Reserve(p) BY <2>13 DEF Reserve, Goto, memory, Removal, SessionsSkipped
  <2>14. CASE Record(p) BY <2>14 DEF Record, Goto, stores, memory, Removal, SessionsSkipped
  <2>15. CASE MakeFiles(p) BY <2>15 DEF MakeFiles, Goto, memory, Removal, SessionsSkipped
  <2>16. CASE Boot(p) BY <2>16 DEF Boot, Goto, memory, Inv, TypeOK, Removal, SessionsSkipped
  <2>17. CASE Interrupted(p)
    BY <2>17 DEF Interrupted, Goto, stores, memory, Removal, SessionsSkipped
  <2>18. CASE RunEnds(p)
    BY <2>18 DEF RunEnds, Goto, stores, memory, Removal, SessionsSkipped
  <2>19. CASE CleanUp(p)
    BY <2>19 DEF CleanUp, RemovalStart, Goto, stores, Inv, TypeOK, Removal, SessionsSkipped
  <2>20. CASE SaveSession(p)
    BY <2>20 DEF SaveSession, Goto, memory, Inv, PlacesOK, Removal, SessionsSkipped
  <2>21. CASE RemoveSession(p)
    BY <2>21 DEF RemoveSession, stores, Inv, TypeOK, SessionsSkipped
  <2>22. CASE ForgetSession(p)
    BY <2>22 DEF ForgetSession, Goto, memory, Inv, PlacesOK, Removal, SessionsSkipped
  <2>23. CASE Exit(p) BY <2>23 DEF Exit, Leave, Goto, stores, Inv, TypeOK, SessionsSkipped
  <2>24. CASE Crash(p) BY <2>24 DEF Crash, Leave, Goto, stores, Inv, TypeOK, SessionsSkipped
  <2> QED BY <1>2, <2>1, <2>2, <2>3, <2>4, <2>5, <2>6, <2>7, <2>8, <2>9, <2>10, <2>11,
       <2>12, <2>13, <2>14, <2>15, <2>16, <2>17, <2>18, <2>19, <2>20, <2>21, <2>22, <2>23,
       <2>24 DEF Reconcile, Remove, Live
<1> QED BY <1>1, <1>2 DEF Next, Quiet

\* What a reconcile removes is not the instance of a session it skips.
LEMMA SessionStep ==
  ASSUME Inv, SessionsSkipped, [Next]_vars, NEW n \in sessions, Skipped(n),
         Instance(n)' # Instance(n)
  PROVE  \E p \in Remover : pc'[p] # pc[p]
<1> USE RunsAssumption DEF Proc, Name
<1>1. CASE UNCHANGED vars BY <1>1 DEF vars, Instance
<1>2. ASSUME NEW p \in Proc, Reconcile(p) \/ Remove(p) \/ Live(p) \/ Exit(p) \/ Crash(p)
      PROVE  \E r \in Remover : pc'[r] # pc[r]
  <2>1. CASE Begin(p) BY <2>1 DEF Begin, stores, SessionsSkipped, Instance
  <2>2. CASE ReadSessions(p) BY <2>2 DEF ReadSessions, stores, SessionsSkipped, Instance
  <2>3. CASE ScanFiles(p) BY <2>3 DEF ScanFiles, stores, SessionsSkipped, Instance
  <2>4. CASE ReadRows(p) BY <2>4 DEF ReadRows, stores, SessionsSkipped, Instance
  <2>5. CASE NextRow(p) BY <2>5 DEF NextRow, stores, SessionsSkipped, Instance
  <2>6. CASE RowsDone(p) BY <2>6 DEF RowsDone, stores, SessionsSkipped, Instance
  <2>7. CASE RemoveOrphan(p)
    BY <2>7 DEF RemoveOrphan, Without, Skipped, Reconciling, Orphans, Inv, PlacesOK,
         Removal, SessionsSkipped, Instance
  <2>8. CASE ReconcileDone(p) BY <2>8 DEF ReconcileDone, stores, SessionsSkipped, Instance
  <2>9. CASE Destroy(p)
    BY <2>9 DEF Destroy, Goto, Inv, TypeOK, SessionOver, Over, Skipped, Reconciling,
         Removal, SessionsSkipped, Instance
  <2>10. CASE Unlink(p)
    BY <2>10 DEF Unlink, Without, Goto, Inv, TypeOK, SessionOver, Over, Skipped,
         Reconciling, Removal, SessionsSkipped, Instance
  <2>11. CASE LookUp(p) BY <2>11 DEF LookUp, stores, SessionsSkipped, Instance
  <2>12. CASE Delete(p)
    BY <2>12 DEF Delete, AfterRemoval, Goto, Inv, TypeOK, SessionOver, Over, Skipped,
         Reconciling, Removal, SessionsSkipped,
       Instance
  <2>13. CASE Reserve(p)
    BY <2>13 DEF Reserve, Inv, TypeOK, SessionOver, Over, SessionsSkipped, Instance
  <2>14. CASE Record(p) BY <2>14 DEF Record, stores, SessionsSkipped, Instance
  <2>15. CASE MakeFiles(p)
    BY <2>15 DEF MakeFiles, Inv, TypeOK, SessionOver, Over, SessionsSkipped, Instance
  <2>16. CASE Boot(p)
    BY <2>16 DEF Boot, Inv, TypeOK, SessionOver, Over, SessionsSkipped, Instance
  <2>17. CASE Interrupted(p) BY <2>17 DEF Interrupted, stores, SessionsSkipped, Instance
  <2>18. CASE RunEnds(p) BY <2>18 DEF RunEnds, stores, SessionsSkipped, Instance
  <2>19. CASE CleanUp(p) BY <2>19 DEF CleanUp, stores, SessionsSkipped, Instance
  <2>20. CASE SaveSession(p) BY <2>20 DEF SaveSession, SessionsSkipped, Instance
  <2>21. CASE RemoveSession(p) BY <2>21 DEF RemoveSession, stores, SessionsSkipped, Instance
  <2>22. CASE ForgetSession(p) BY <2>22 DEF ForgetSession, SessionsSkipped, Instance
  <2>23. CASE Exit(p) BY <2>23 DEF Exit, Leave, stores, SessionsSkipped, Instance
  <2>24. CASE Crash(p) BY <2>24 DEF Crash, Leave, stores, SessionsSkipped, Instance
  <2> QED BY <1>2, <2>1, <2>2, <2>3, <2>4, <2>5, <2>6, <2>7, <2>8, <2>9, <2>10, <2>11,
       <2>12, <2>13, <2>14, <2>15, <2>16, <2>17, <2>18, <2>19, <2>20, <2>21, <2>22, <2>23,
       <2>24 DEF Reconcile, Remove, Live
<1> QED BY <1>1, <1>2 DEF Next, Quiet

\* No reconcile touches the instance of a saved session whose name it has read, however
\* many dev starts, removals and crashes there are (reconcile_instances).
THEOREM SessionsSafe == Spec => SavedSessionKept
<1>1. Inv /\ SessionsSkipped /\ [Next]_vars => SessionsSkipped' BY SkippedStep
<1>2. Inv /\ SessionsSkipped /\ [Next]_vars =>
        [\A n \in sessions : Skipped(n) /\ Instance(n)' # Instance(n) =>
           \E p \in Remover : pc'[p] # pc[p]]_vars
  BY SessionStep
<1> QED BY <1>1, <1>2, SkippedInit, Invariant, PTL DEF Spec, SavedSessionKept
=============================================================================
