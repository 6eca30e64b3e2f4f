--------------------------- MODULE InstancePoolProofs ---------------------------
(***************************************************************************)
(* Theorems about the pool of VirtualBox instances, for every number of    *)
(* processes, rows and ports: types, ports, ownership and capacity with    *)
(* every fault of InstancePool, then the leases without the faults that    *)
(* break them (Orderly), then who can take a row when there are faults.    *)
(***************************************************************************)
EXTENDS InstancePool, FiniteSetTheorems, WellFoundedInduction, TLAPS

\* The port loops look at ports of the range only: while a candidate is left,
\* the lowest one is a candidate (reserve_port_atomically, reuse_instance).
LEMMA LowestIsFree ==
  ASSUME NEW u \in SUBSET Port, Free(u) # {}
  PROVE  Lowest(u) \in Free(u)
<1> DEFINE less == {ss \in Nat \X Nat : ss[1] < ss[2]}
<1>1. Free(u) \subseteq Nat
  BY PoolAssumption DEF Free
<1>2. OpToRel(<, Nat) = less
  BY Zenon DEF OpToRel
<1>3. IsWellFoundedOn(less, Nat)
  BY <1>2, NatLessThanWellFounded, Zenon
<1> HIDE DEF less
<1>4. PICK n \in Free(u) : \A m \in Free(u) : ~ (<<m, n>> \in less)
  BY <1>1, <1>3, WFMin
<1>5. \A m \in Free(u) : n <= m
  <2> TAKE m \in Free(u)
  <2>1. m \in Nat /\ n \in Nat
    BY <1>1
  <2>2. m < n => <<m, n>> \in less
    BY <2>1 DEF less
  <2> QED
    BY <1>4, <2>1, <2>2
<1> QED
  BY <1>4, <1>5 DEF Lowest

-----------------------------------------------------------------------------
\* What the statements of the table write: a row replaced, or its uuid recorded,
\* gives a table again (and a key that is no row changes nothing).
LEMMA RowWritten ==
  ASSUME rows \in [Slot -> Row], NEW t, NEW r \in Row
  PROVE  /\ [rows EXCEPT ![t] = r] \in [Slot -> Row]
         /\ [rows EXCEPT ![t].uuid = TRUE] \in [Slot -> Row]
<1>1. \A s \in Slot : [rows[s] EXCEPT !.uuid = TRUE] \in Row
  BY DEF Row
<1> QED
  BY <1>1

\* The records the statements write are rows.
LEMMA RowShapes ==
  /\ NoRow \in Row
  /\ \A u \in BOOLEAN : PooledRow(u) \in Row
  /\ \A p \in Proc \cup {NoProc}, n \in Port, u \in BOOLEAN : ActiveRow(p, n, u) \in Row
BY DEF NoRow, PooledRow, ActiveRow, Row

\* Freeing a row by its id gives a table again.
LEMMA FreedWritten ==
  ASSUME rows \in [Slot -> Row], NEW t
  PROVE  Freed(t) \in [Slot -> Row]
<1>1. \A s \in Slot : PooledRow(rows[s].uuid) \in Row
  BY RowShapes DEF Row
<1> QED
  BY <1>1 DEF Freed

\* At first there are leftover rows at most.
LEMMA InitTypeOK == Init => TypeOK
<1> SUFFICES ASSUME Init PROVE TypeOK
  OBVIOUS
<1>1. rows \in [Slot -> Row]
  <2>1. PICK old \in SUBSET Rested, gone \in SUBSET Leftover : \E n \in [gone -> Port] :
          /\ \A s, t \in gone : s # t => n[s] # n[t]
          /\ rows = [s \in Slot |-> IF s \in old THEN PooledRow(TRUE)
                                    ELSE IF s \in gone THEN ActiveRow(NoProc, n[s], TRUE)
                                    ELSE NoRow]
          /\ hyper = [s \in Slot |-> IF s \in old \cup gone THEN "off" ELSE "absent"]
    BY DEF Init
  <2>2. PICK n \in [gone -> Port] :
          rows = [s \in Slot |-> IF s \in old THEN PooledRow(TRUE)
                                 ELSE IF s \in gone THEN ActiveRow(NoProc, n[s], TRUE)
                                 ELSE NoRow]
    BY <2>1
  <2> QED
    BY <2>2, RowShapes
<1>2. hyper \in [Slot -> {"absent", "off", "running"}]
  BY DEF Init
<1> QED
  BY <1>1, <1>2 DEF Init, TypeOK, Location

\* Every step writes rows of the table and ports of the range.
LEMMA TypeOKStep == TypeOK /\ [Next]_vars => TypeOK'
<1> SUFFICES ASSUME TypeOK, [Next]_vars PROVE TypeOK'
  OBVIOUS
<1> USE DEF TypeOK, Location, Goto, local
<1>1. ASSUME NEW p \in Proc, Reconcile(p) \/ SyncRead(p) PROVE TypeOK'
  <2>1. \A s \in Slot : rows[s].owner \in Proc \cup {NoProc}
    BY DEF Row
  <2>2. seen' \in [Proc -> SUBSET (Slot \X (Proc \cup {NoProc}))]
    BY <1>1, <2>1 DEF Reconcile, SyncRead
  <2> QED
    BY <1>1, <2>2 DEF Reconcile, SyncRead
<1>20. ASSUME NEW p \in Proc, RemoveInstances(p) PROVE TypeOK'
  <2> DEFINE all == {<<s, NoProc>> : s \in {t \in Slot : Exists(t)}}
  <2>2. all \in SUBSET (Slot \X (Proc \cup {NoProc}))
    OBVIOUS
  <2>3. seen' = [seen EXCEPT ![p] = all] \/ \E r \in all : seen' = [seen EXCEPT ![p] = {r}]
    BY <1>20 DEF RemoveInstances
  <2>4. UNCHANGED <<rows, hyper, used, target, holds, again>> /\ pc' \in [Proc -> Location]
    BY <1>20 DEF RemoveInstances
  <2> HIDE DEF all
  <2>5. seen' \in [Proc -> SUBSET (Slot \X (Proc \cup {NoProc}))]
    BY <2>2, <2>3
  <2> QED
    BY <2>4, <2>5
<1>21. ASSUME NEW p \in Proc, WipeRow(p) PROVE TypeOK'
  <2>1. PICK r \in seen[p] :
          /\ seen' = [seen EXCEPT ![p] = @ \ {r}]
          /\ UNCHANGED target \/ target' = [target EXCEPT ![p] = r[1]]
    BY <1>21 DEF WipeRow
  <2>2. r[1] \in Slot
    OBVIOUS
  <2>3. pc' \in [Proc -> Location]
    BY <1>21 DEF WipeRow
  <2> QED
    BY <1>21, <2>1, <2>2, <2>3 DEF WipeRow
<1>2. ASSUME NEW p \in Proc, ReconcileRow(p) PROVE TypeOK'
  <2>1. rows' \in [Slot -> Row]
    BY <1>2, FreedWritten DEF ReconcileRow
  <2>2. seen' \in [Proc -> SUBSET (Slot \X (Proc \cup {NoProc}))]
    BY <1>2 DEF ReconcileRow
  <2> QED
    BY <1>2, <2>1, <2>2 DEF ReconcileRow
<1>3. ASSUME NEW p \in Proc, SyncApply(p) PROVE TypeOK'
  <2>1. rows' \in [Slot -> Row]
    BY <1>3, FreedWritten DEF SyncApply
  <2>2. seen' \in [Proc -> SUBSET (Slot \X (Proc \cup {NoProc}))]
    BY <1>3 DEF SyncApply
  <2> QED
    BY <1>3, <2>1, <2>2 DEF SyncApply
<1>4. ASSUME NEW p \in Proc, ReconcileDone(p) \/ SyncCheck(p) \/ SyncDone(p) PROVE TypeOK'
  BY <1>4 DEF ReconcileDone, SyncCheck, SyncDone
<1>5. ASSUME NEW p \in Proc, Find(p) PROVE TypeOK'
  BY <1>5 DEF Find
<1>6. ASSUME NEW p \in Proc, ReadPorts(p) PROVE TypeOK'
  <2>1. ActivePorts \subseteq Port
    BY DEF ActivePorts, Row
  <2> QED
    BY <1>6, <2>1 DEF ReadPorts
<1>7. ASSUME NEW p \in Proc, Claim(p) PROVE TypeOK'
  <2>1. Free(used[p]) # {} => Lowest(used[p]) \in Port
    BY LowestIsFree DEF Free
  <2>2. rows' \in [Slot -> Row]
    <3> DEFINE r == ActiveRow(p, Lowest(used[p]), rows[target[p]].uuid)
    <3>1. \/ rows' = rows
          \/ rows' = [rows EXCEPT ![target[p]] = r] /\ Free(used[p]) # {}
      BY <1>7 DEF Claim
    <3>2. CASE target[p] \in Slot /\ Free(used[p]) # {}
      <4>1. r \in Row
        BY <2>1, <3>2, RowShapes DEF Row
      <4> HIDE DEF r
      <4> QED
        BY <3>1, <4>1
    <3>3. CASE target[p] \notin Slot \/ Free(used[p]) = {}
      <4> HIDE DEF r
      <4> QED
        BY <3>1, <3>3
    <3> QED
      BY <3>2, <3>3
  <2>3. used' \in [Proc -> SUBSET Port]
    BY <1>7, <2>1 DEF Claim, Tried
  <2>4. pc' \in [Proc -> Location]
    BY <1>7 DEF Claim
  <2> QED
    BY <1>7, <2>2, <2>3, <2>4 DEF Claim
<1>8. ASSUME NEW p \in Proc, Insert(p) PROVE TypeOK'
  <2>1. Free(used[p]) # {} => Lowest(used[p]) \in Port
    BY LowestIsFree DEF Free
  <2>2. CASE Free(used[p]) # {} /\ ~Taken(Lowest(used[p]))
    <3>1. PICK s \in Slot :
            /\ rows' = [rows EXCEPT ![s] = ActiveRow(p, Lowest(used[p]), FALSE)]
            /\ hyper' = [hyper EXCEPT ![s] = "absent"]
            /\ target' = [target EXCEPT ![p] = s]
      BY <1>8, <2>2 DEF Insert
    <3>2. rows' \in [Slot -> Row]
      BY <2>1, <2>2, <3>1, RowShapes
    <3> QED
      BY <1>8, <2>2, <3>1, <3>2 DEF Insert
  <2>3. CASE ~(Free(used[p]) # {} /\ ~Taken(Lowest(used[p])))
    <3>1. UNCHANGED <<rows, hyper, target, seen, holds, again>>
      BY <1>8, <2>3 DEF Insert
    <3>2. \/ Free(used[p]) # {} /\ used' = [used EXCEPT ![p] = Tried(@)] /\ UNCHANGED pc
          \/ UNCHANGED used /\ Goto(p, "cleanup")
      BY <1>8, <2>3 DEF Insert
    <3> QED
      BY <2>1, <3>1, <3>2 DEF Tried
  <2> QED
    BY <2>2, <2>3
<1>9. ASSUME NEW p \in Proc, CountInstances(p) \/ PickOldest(p) PROVE TypeOK'
  BY <1>9 DEF CountInstances, PickOldest
<1>10. ASSUME NEW p \in Proc, EvictMachine(p) \/ EvictRow(p) PROVE TypeOK'
  BY <1>10, RowShapes, RowWritten DEF EvictMachine, EvictRow
<1>11. ASSUME NEW p \in Proc, Restore(p) \/ Import(p) \/ Interrupted(p) PROVE TypeOK'
  BY <1>11 DEF Restore, Import, Interrupted
<1>12. ASSUME NEW p \in Proc, RecordImport(p) PROVE TypeOK'
  BY <1>12, RowShapes, RowWritten DEF RecordImport
<1>13. ASSUME NEW p \in Proc, UseInstance(p) PROVE TypeOK'
  BY <1>13 DEF UseInstance, Exists
<1>14. ASSUME NEW p \in Proc, Verify(p) PROVE TypeOK'
  <2>1. rows' \in [Slot -> Row]
    BY <1>14, RowShapes, RowWritten DEF Verify
  <2>2. pc' \in [Proc -> Location] /\ again' \in [Proc -> BOOLEAN]
    BY <1>14 DEF Verify
  <2> QED
    BY <1>14, <2>1, <2>2 DEF Verify
<1>15. ASSUME NEW p \in Proc, StartMachine(p) \/ RunEnds(p) \/ StopMachine(p) PROVE TypeOK'
  BY <1>15 DEF StartMachine, RunEnds, StopMachine
<1>16. ASSUME NEW p \in Proc, Release(p) PROVE TypeOK'
  BY <1>16 DEF Release, Freed, PooledRow, Row
<1>17. ASSUME NEW p \in Proc, Exit(p) \/ Crash(p) PROVE TypeOK'
  BY <1>17 DEF Exit, Crash, Forget
<1>18. ASSUME NEW s \in Slot, MachineLost(s) \/ MachineStops(s) PROVE TypeOK'
  BY <1>18 DEF MachineLost, MachineStops
<1>19. ASSUME Quiet \/ UNCHANGED vars PROVE TypeOK'
  BY <1>19 DEF Quiet, vars
<1> QED
  BY <1>1, <1>2, <1>3, <1>4, <1>5, <1>6, <1>7, <1>8, <1>9, <1>10, <1>11, <1>12, <1>13,
     <1>14, <1>15, <1>16, <1>17, <1>18, <1>19, <1>20, <1>21 DEF Next, Step

\* Every step of the model keeps the types.
THEOREM TypeCorrect == Spec => []TypeOK
BY InitTypeOK, TypeOKStep, PTL DEF Spec

-----------------------------------------------------------------------------
\* What one step may do to the table: delete a row, free it, record its uuid, or
\* give a row that nobody has to a process, with a port nobody has.
RowStep ==
  \/ rows' = rows
  \/ \E s \in Slot :
       \/ rows' = [rows EXCEPT ![s] = NoRow]
       \/ rows' = [rows EXCEPT ![s] = PooledRow(rows[s].uuid)]
       \/ rows' = [rows EXCEPT ![s].uuid = TRUE]
       \/ \E p \in Proc, n \in Port, u \in BOOLEAN :
            /\ ~Active(s) /\ n \notin ActivePorts
            /\ rows' = [rows EXCEPT ![s] = ActiveRow(p, n, u)]

\* Whatever a step does, a single row at most becomes active, and only with a port no
\* active row holds: the rest of a step releases or deletes rows.
LEMMA EveryStepIsRowStep == TypeOK /\ [Next]_vars => RowStep
<1> SUFFICES ASSUME TypeOK, [Next]_vars PROVE RowStep
  OBVIOUS
<1>0. \A t \in Slot \cup {NoSlot} : t \in Slot \/ [rows EXCEPT ![t] = NoRow] = rows
  BY DEF TypeOK
<1>a. \A t \in Slot \cup {NoSlot} : t \in Slot \/ [rows EXCEPT ![t].uuid = TRUE] = rows
  BY DEF TypeOK
<1>b. \A t \in Slot \cup {NoSlot} : t \in Slot \/ Freed(t) = rows
  BY DEF TypeOK, Freed
<1>c. \A t \in Slot : Freed(t) = [rows EXCEPT ![t] = PooledRow(rows[t].uuid)]
  BY DEF TypeOK, Freed
<1>1. ASSUME NEW p \in Proc, ReconcileRow(p) PROVE RowStep
  <2>1. PICK r \in seen[p] :
          rows' = IF r[2] # NoProc /\ ~Alive(r[2]) /\ Exists(r[1]) THEN Freed(r[1]) ELSE rows
    BY <1>1 DEF ReconcileRow
  <2>2. r[1] \in Slot
    BY DEF TypeOK
  <2> QED
    BY <1>c, <2>1, <2>2 DEF RowStep
<1>2. ASSUME NEW p \in Proc, SyncApply(p) PROVE RowStep
  <2>1. PICK r \in seen[p] : rows' = Freed(r[1]) \/ rows' = rows
    BY <1>2 DEF SyncApply
  <2>2. r[1] \in Slot
    BY DEF TypeOK
  <2> QED
    BY <1>c, <2>1, <2>2 DEF RowStep
<1>3. ASSUME NEW p \in Proc, Claim(p) PROVE RowStep
  <2>1. CASE rows' = rows
    BY <2>1 DEF RowStep
  <2>2. CASE /\ Free(used[p]) # {} /\ Claimable(target[p]) /\ ~Taken(Lowest(used[p]))
             /\ rows' = [rows EXCEPT ![target[p]] = ActiveRow(p, Lowest(used[p]), @.uuid)]
    <3>1. Lowest(used[p]) \in Port /\ Lowest(used[p]) \notin ActivePorts
      BY <2>2, LowestIsFree DEF Free, Taken, TypeOK
    <3>2. CASE target[p] \in Slot
      <4>1. ~Active(target[p]) /\ rows[target[p]].uuid \in BOOLEAN
        BY <2>2, <3>2 DEF Claimable, Pooled, Active, TypeOK, Row
      <4>2. rows' = [rows EXCEPT ![target[p]] =
                       ActiveRow(p, Lowest(used[p]), rows[target[p]].uuid)]
        BY <2>2, <3>2 DEF TypeOK
      <4> QED
        BY <3>1, <3>2, <4>1, <4>2 DEF RowStep
    <3>3. CASE target[p] \notin Slot
      BY <2>2, <3>3 DEF RowStep, TypeOK
    <3> QED
      BY <3>2, <3>3
  <2> QED
    BY <1>3, <2>1, <2>2 DEF Claim
<1>4. ASSUME NEW p \in Proc, Insert(p) PROVE RowStep
  <2>1. CASE rows' = rows
    BY <2>1 DEF RowStep
  <2>2. CASE /\ Free(used[p]) # {} /\ ~Taken(Lowest(used[p]))
             /\ \E s \in Slot : /\ Fresh(s)
                                /\ rows' = [rows EXCEPT ![s] = ActiveRow(p, Lowest(used[p]), FALSE)]
    <3>1. Lowest(used[p]) \in Port /\ Lowest(used[p]) \notin ActivePorts
      BY <2>2, LowestIsFree DEF Free, Taken, TypeOK
    <3>2. PICK s \in Slot : /\ ~Active(s)
                            /\ rows' = [rows EXCEPT ![s] = ActiveRow(p, Lowest(used[p]), FALSE)]
      BY <2>2 DEF Fresh, Exists, Active
    <3> QED
      BY <3>1, <3>2 DEF RowStep
  <2> QED
    BY <1>4, <2>1, <2>2 DEF Insert
<1>5. ASSUME NEW p \in Proc, EvictRow(p) \/ RecordImport(p) PROVE RowStep
  <2>1. target[p] \in Slot \cup {NoSlot}
    BY DEF TypeOK
  <2> QED
    BY <1>0, <1>5, <1>a, <2>1 DEF EvictRow, RecordImport, RowStep
<1>6. ASSUME NEW p \in Proc, Verify(p) \/ Release(p) PROVE RowStep
  <2>1. holds[p] \in Slot \cup {NoSlot}
    BY DEF TypeOK
  <2> QED
    BY <1>0, <1>6, <1>b, <1>c, <2>1 DEF Verify, Release, RowStep
<1>7. ASSUME NEW p \in Proc,
             \/ Reconcile(p) \/ ReconcileDone(p) \/ SyncRead(p) \/ SyncCheck(p) \/ SyncDone(p)
             \/ Find(p) \/ ReadPorts(p) \/ CountInstances(p) \/ PickOldest(p) \/ EvictMachine(p)
             \/ Restore(p) \/ Import(p) \/ Interrupted(p) \/ UseInstance(p) \/ StartMachine(p)
             \/ RunEnds(p) \/ StopMachine(p) \/ Exit(p) \/ Crash(p)
             \/ RemoveInstances(p) \/ WipeRow(p)
      PROVE  RowStep
  <2>1. rows' = rows
    BY <1>7 DEF Reconcile, ReconcileDone, SyncRead, SyncCheck, SyncDone, Find, ReadPorts,
      CountInstances, PickOldest, EvictMachine, Restore, Import, Interrupted, UseInstance,
      StartMachine, RunEnds, StopMachine, Exit, Crash, Forget, RemoveInstances, WipeRow
  <2> QED
    BY <2>1 DEF RowStep
<1>8. ASSUME NEW s \in Slot, MachineLost(s) \/ MachineStops(s) PROVE RowStep
  BY <1>8 DEF MachineLost, MachineStops, RowStep
<1>9. ASSUME Quiet \/ UNCHANGED vars PROVE RowStep
  BY <1>9 DEF Quiet, vars, RowStep
<1> QED
  BY <1>1, <1>2, <1>3, <1>4, <1>5, <1>6, <1>7, <1>8, <1>9 DEF Next, Step

-----------------------------------------------------------------------------
\* PortsDistinct is not inductive alone: a claim is safe because the unique index
\* sees the port of every other active row, so each active row must have one.
ActiveHasPort == \A s \in Slot : Active(s) => rows[s].port \in Port
PortInv == TypeOK /\ ActiveHasPort /\ PortsDistinct /\ NoOrphanedPort

\* The leftover rows hold distinct ports.
LEMMA PortInvInit == Init => PortInv
<1> SUFFICES ASSUME Init PROVE PortInv
  OBVIOUS
<1>1. TypeOK
  BY InitTypeOK
<1>2. PICK old \in SUBSET Rested, gone \in SUBSET Leftover : \E n \in [gone -> Port] :
        /\ \A s, t \in gone : s # t => n[s] # n[t]
        /\ rows = [s \in Slot |-> IF s \in old THEN PooledRow(TRUE)
                                  ELSE IF s \in gone THEN ActiveRow(NoProc, n[s], TRUE)
                                  ELSE NoRow]
        /\ hyper = [s \in Slot |-> IF s \in old \cup gone THEN "off" ELSE "absent"]
  BY DEF Init
<1>3. PICK n \in [gone -> Port] :
        /\ \A s, t \in gone : s # t => n[s] # n[t]
        /\ rows = [s \in Slot |-> IF s \in old THEN PooledRow(TRUE)
                                  ELSE IF s \in gone THEN ActiveRow(NoProc, n[s], TRUE)
                                  ELSE NoRow]
  BY <1>2
<1>4. \A s \in Slot : Active(s) => s \in gone /\ rows[s].port = n[s]
  BY <1>3 DEF Active, PooledRow, ActiveRow, NoRow
<1>5. ActiveHasPort /\ PortsDistinct
  <2>1. ActiveHasPort
    BY <1>4 DEF ActiveHasPort
  <2>2. \A s, t \in gone : s # t => n[s] # n[t]
    BY <1>3
  <2> HIDE <1>3
  <2> QED
    BY <1>4, <2>1, <2>2 DEF PortsDistinct
<1>6. NoOrphanedPort
  BY <1>3 DEF NoOrphanedPort, Active, PooledRow, ActiveRow, NoRow
<1> QED
  BY <1>1, <1>5, <1>6 DEF PortInv

\* The unique index refuses a port of another active row; freeing a row clears its port.
LEMMA PortInvStep == PortInv /\ [Next]_vars => PortInv'
<1> SUFFICES ASSUME PortInv, [Next]_vars PROVE PortInv'
  OBVIOUS
<1>1. TypeOK'
  BY TypeOKStep DEF PortInv
<1>2. RowStep
  BY EveryStepIsRowStep DEF PortInv
<1>3. CASE rows' = rows
  BY <1>1, <1>3 DEF PortInv, ActiveHasPort, PortsDistinct, NoOrphanedPort, Active
<1>4. ASSUME NEW s \in Slot, \/ rows' = [rows EXCEPT ![s] = NoRow]
                             \/ rows' = [rows EXCEPT ![s] = PooledRow(rows[s].uuid)]
      PROVE  PortInv'
  <2>1. \A t \in Slot : t # s => rows'[t] = rows[t]
    BY <1>4 DEF PortInv, TypeOK
  <2>2. ~Active(s)' /\ rows'[s].port = NoPort /\ rows'[s].owner = NoProc
    BY <1>4 DEF PortInv, TypeOK, Active, NoRow, PooledRow
  <2> QED
    BY <1>1, <2>1, <2>2 DEF PortInv, ActiveHasPort, PortsDistinct, NoOrphanedPort, Active
<1>5. ASSUME NEW s \in Slot, rows' = [rows EXCEPT ![s].uuid = TRUE] PROVE PortInv'
  <2>1. \A t \in Slot : /\ rows'[t].status = rows[t].status
                        /\ rows'[t].port = rows[t].port
                        /\ rows'[t].owner = rows[t].owner
    BY <1>5 DEF PortInv, TypeOK, Row
  <2> QED
    BY <1>1, <2>1 DEF PortInv, ActiveHasPort, PortsDistinct, NoOrphanedPort, Active
<1>6. ASSUME NEW s \in Slot, NEW p \in Proc, NEW n \in Port, NEW u \in BOOLEAN,
             ~Active(s), n \notin ActivePorts, rows' = [rows EXCEPT ![s] = ActiveRow(p, n, u)]
      PROVE  PortInv'
  <2>1. \A t \in Slot : t # s => rows'[t] = rows[t]
    BY <1>6 DEF PortInv, TypeOK
  <2>2. Active(s)' /\ rows'[s].port = n
    BY <1>6 DEF PortInv, TypeOK, Active, ActiveRow
  <2>3. \A t \in Slot : Active(t) => rows[t].port # n
    BY <1>6, PoolAssumption DEF ActivePorts
  <2> QED
    BY <1>1, <2>1, <2>2, <2>3 DEF PortInv, ActiveHasPort, PortsDistinct, NoOrphanedPort,
         Active
<1> QED
  BY <1>2, <1>3, <1>4, <1>5, <1>6 DEF RowStep

\* Two active rows never share a port and a released row holds none, for every
\* number of processes and rows, whoever crashes (the unique active-port index and
\* the statements that free a row).
THEOREM PortsSafe == Spec => [](PortsDistinct /\ NoOrphanedPort)
<1>1. PortInv => PortsDistinct /\ NoOrphanedPort
  BY DEF PortInv
<1> QED
  BY <1>1, PortInvInit, PortInvStep, PTL DEF Spec

-----------------------------------------------------------------------------
\* Of the processes that race for a row one gets it, and only a row that nobody
\* has (claim_available_vm_instance, create_vm_instance).
THEOREM OnlyFreeRowsTaken == Spec => TakenOnlyFromPool
<1> DEFINE OwnersKept == \A s \in Slot : rows'[s].owner \notin {NoProc, rows[s].owner} =>
     ~Active(s)
<1>1. TypeOK /\ [Next]_vars => OwnersKept
  <2> SUFFICES ASSUME TypeOK, [Next]_vars PROVE OwnersKept
    OBVIOUS
  <2>1. RowStep
    BY EveryStepIsRowStep
  <2>2. ASSUME NEW s \in Slot, \/ rows' = [rows EXCEPT ![s] = NoRow]
                               \/ rows' = [rows EXCEPT ![s] = PooledRow(rows[s].uuid)]
                               \/ rows' = [rows EXCEPT ![s].uuid = TRUE]
        PROVE  OwnersKept
    BY <2>2 DEF TypeOK, Row, NoRow, PooledRow
  <2>3. ASSUME NEW s \in Slot, NEW r, ~Active(s), rows' = [rows EXCEPT ![s] = r]
        PROVE  OwnersKept
    BY <2>3 DEF TypeOK
  <2> QED
    BY <2>1, <2>2, <2>3 DEF RowStep
<1>2. OwnersKept => [OwnersKept]_vars
  OBVIOUS
<1> QED
  BY <1>1, TypeCorrect, PTL DEF Spec, TakenOnlyFromPool

-----------------------------------------------------------------------------
(* The capacity.  Every run that counts too few rows adds one: it counts   *)
(* as a row from then on, until its insert.                                *)
Rows == {s \in Slot : Exists(s)}
Adding == {p \in Proc : pc[p] \in {"reserve", "insert"}}
Tidying == {"idle", "reconcile", "wipe", "force", "evict", "delete", "exit", "dead"}
PlacesOK ==
  /\ \A p \in Janitor : pc[p] \in Tidying
  /\ \A p \in Proc : pc[p] \in {"evict", "delete"} => target[p] \in Slot
CapacityInv ==
  /\ TypeOK /\ PlacesOK
  /\ Cardinality(Rows) + Cardinality(Adding) < MaxInstances + Cardinality(Runner)

\* A step of p leaves the places and targets of the others.
LEMMA OthersStay ==
  ASSUME TypeOK, NEW p \in Proc, Step(p) \/ Crash(p)
  PROVE  \A q \in Proc : q # p => pc'[q] = pc[q] /\ target'[q] = target[q]
<1> USE DEF TypeOK, Goto
<1>1. CASE \/ Reconcile(p) \/ ReconcileRow(p) \/ ReconcileDone(p) \/ RemoveInstances(p)
           \/ EvictMachine(p) \/ EvictRow(p) \/ Exit(p) \/ Crash(p)
  BY <1>1 DEF Reconcile, ReconcileRow, ReconcileDone, RemoveInstances, EvictMachine, EvictRow,
    Exit, Crash, Forget, local
<1>2. CASE WipeRow(p)
  <2>1. /\ \E l : pc' = [pc EXCEPT ![p] = l]
        /\ target' = target \/ \E t : target' = [target EXCEPT ![p] = t]
    BY <1>2 DEF WipeRow
  <2> QED BY <2>1
<1>3. CASE \/ SyncRead(p) \/ SyncCheck(p) \/ SyncApply(p) \/ SyncDone(p) \/ Find(p) \/ ReadPorts(p)
           \/ Claim(p) \/ CountInstances(p) \/ PickOldest(p) \/ Insert(p)
  BY <1>3 DEF SyncRead, SyncCheck, SyncApply, SyncDone, Find, ReadPorts, Claim,
    CountInstances, PickOldest, Insert, local
<1>4. CASE \/ Restore(p) \/ Import(p) \/ RecordImport(p) \/ Interrupted(p) \/ UseInstance(p)
           \/ Verify(p) \/ StartMachine(p) \/ RunEnds(p) \/ StopMachine(p) \/ Release(p)
  BY <1>4 DEF Restore, Import, RecordImport, Interrupted, UseInstance, Verify, StartMachine,
    RunEnds, StopMachine, Release, local
<1> QED BY <1>1, <1>2, <1>3, <1>4 DEF Step

\* What the steps of a run do to both sets.
LEMMA RowsStep ==
  ASSUME TypeOK, NEW p \in Proc, Step(p) \/ Crash(p)
  PROVE  \/ Rows' \subseteq Rows /\ (Adding' \subseteq Adding \/ CountInstances(p) \/ EvictRow(p))
         \/ Insert(p) /\ p \in Adding /\ Adding' = Adding \ {p} /\ \E s \in Slot : Rows' = Rows \cup {s}
<1> USE DEF TypeOK
<1> DEFINE Fewer == \A s \in Slot : Exists(s)' => Exists(s)
           NoneJoins == pc'[p] \notin {"reserve", "insert"} \/ pc'[p] = pc[p] \/ ReadPorts(p)
           Others == \A q \in Proc : q # p => pc'[q] = pc[q]
<1>1. Others
  BY OthersStay
<1>2. Fewer \/ Insert(p)
  <2>1. CASE rows' = rows BY <2>1 DEF Exists
  <2>2. ASSUME NEW t, rows' = Freed(t), Exists(t) PROVE Fewer
    BY <2>2 DEF Freed, PooledRow, Exists
  <2>3. ASSUME NEW t, rows' = [rows EXCEPT ![t] = NoRow] PROVE Fewer
    BY <2>3 DEF NoRow, Exists
  <2>4. CASE Claim(p) BY <2>1, <2>4 DEF Claim, Claimable, Pooled, Exists, ActiveRow
  <2>5. CASE RecordImport(p) BY <2>1, <2>5 DEF RecordImport, Exists
  <2>6. CASE ReconcileRow(p) \/ SyncApply(p) \/ Release(p)
    BY <2>1, <2>2, <2>6 DEF ReconcileRow, SyncApply, Release
  <2>7. CASE EvictRow(p) \/ Verify(p) BY <2>1, <2>3, <2>7 DEF EvictRow, Verify
  <2> HIDE DEF Fewer
  <2> QED
    BY <2>1, <2>4, <2>5, <2>6, <2>7
    DEF Step, Reconcile, ReconcileDone, RemoveInstances, WipeRow, SyncRead, SyncCheck,
      SyncDone, Find, ReadPorts, CountInstances, PickOldest, EvictMachine,
      Restore, Import, Interrupted, UseInstance, StartMachine, RunEnds,
      StopMachine, Exit, Crash, Forget
<1>3. Adding' \subseteq Adding \/ CountInstances(p) \/ EvictRow(p)
  <2>1. CASE pc'[p] \notin {"reserve", "insert"} \/ pc'[p] = pc[p] BY <1>1, <2>1 DEF Adding
  <2>2. CASE ReadPorts(p)
    <3>1. pc'[p] \in {"reserve", "insert"} => pc[p] = "reserve" BY <2>2 DEF ReadPorts, Goto
    <3> QED BY <1>1, <3>1 DEF Adding
  <2>3. CASE \/ Reconcile(p) \/ ReconcileRow(p) \/ ReconcileDone(p) \/ RemoveInstances(p) \/ WipeRow(p)
             \/ SyncRead(p) \/ SyncCheck(p) \/ SyncApply(p) \/ SyncDone(p) \/ Find(p) \/ Claim(p)
    BY <2>1, <2>3
    DEF Reconcile, ReconcileRow, ReconcileDone, RemoveInstances, WipeRow, SyncRead, SyncCheck,
      SyncApply, SyncDone, Find, Claim, Goto
  <2>4. CASE \/ PickOldest(p) \/ EvictMachine(p) \/ Insert(p) \/ Restore(p) \/ Import(p) \/ RecordImport(p)
             \/ Interrupted(p) \/ UseInstance(p) \/ Verify(p) \/ StartMachine(p) \/ RunEnds(p)
             \/ StopMachine(p) \/ Release(p) \/ Exit(p) \/ Crash(p)
    BY <2>1, <2>4
    DEF PickOldest, EvictMachine, Insert, Restore, Import, RecordImport, Interrupted, UseInstance,
      Verify, StartMachine, RunEnds, StopMachine, Release, Exit, Crash, Forget, Goto
  <2> QED BY <2>2, <2>3, <2>4 DEF Step
<1>4. CASE Insert(p)
  <2>1. CASE rows' = rows
    <3>1. Rows' \subseteq Rows BY <2>1 DEF Rows, Exists
    <3> QED BY <1>3, <3>1
  <2>2. CASE rows' # rows
    <3>1. PICK s \in Slot : rows' = [rows EXCEPT ![s] = ActiveRow(p, Lowest(used[p]), FALSE)]
      BY <1>4, <2>2 DEF Insert
    <3>2. Rows' = Rows \cup {s} BY <3>1 DEF Rows, Exists, ActiveRow
    <3>3. pc[p] = "insert" /\ pc'[p] = "import" BY <1>4, <2>2 DEF Insert, Goto
    <3>4. Adding' = Adding \ {p} /\ p \in Adding BY <1>1, <3>3 DEF Adding
    <3> QED BY <1>4, <3>2, <3>4
  <2> QED BY <2>1, <2>2
<1>5. CASE Fewer
  <2>1. Rows' \subseteq Rows BY <1>5 DEF Rows
  <2> QED BY <1>3, <2>1
<1> QED BY <1>2, <1>4, <1>5

\* A Janitor never allocates, and who evicts has a row to evict.
LEMMA PlacesStep ==
  ASSUME TypeOK, PlacesOK, NEW p \in Proc, Step(p) \/ Crash(p) PROVE PlacesOK'
<1> USE DEF Goto
<1> DEFINE Own == /\ p \in Janitor => pc'[p] \in Tidying
                  /\ pc'[p] \in {"evict", "delete"} => target'[p] \in Slot
<1>0. /\ pc \in [Proc -> Location] /\ target \in [Proc -> Slot \cup {NoSlot}]
      /\ seen \in [Proc -> SUBSET (Slot \X (Proc \cup {NoProc}))]
      /\ p \in Janitor => pc[p] \in Tidying
      /\ pc[p] \in {"evict", "delete"} => target[p] \in Slot
  BY DEF PlacesOK, TypeOK
<1>1. Own
  <2>1. CASE \/ Reconcile(p) \/ ReconcileRow(p) \/ ReconcileDone(p) \/ RemoveInstances(p)
             \/ EvictMachine(p) \/ EvictRow(p)
    BY <1>0, <2>1 DEF Reconcile, ReconcileRow, ReconcileDone, RemoveInstances, EvictMachine,
      EvictRow, Tidying, local
  <2>2. CASE Exit(p) \/ Crash(p) BY <1>0, <2>2 DEF Exit, Crash, Forget, Tidying
  <2>3. CASE WipeRow(p)
    <3>1. PICK t \in Slot :
            \/ pc' = [pc EXCEPT ![p] = "wipe"]
            \/ /\ target' = [target EXCEPT ![p] = t]
               /\ pc' = [pc EXCEPT ![p] = IF rows[t].uuid THEN "evict" ELSE "delete"]
      BY <1>0, <2>3 DEF WipeRow
    <3> QED BY <1>0, <3>1 DEF Tidying
  <2>4. CASE \/ SyncRead(p) \/ SyncCheck(p) \/ SyncApply(p) \/ SyncDone(p) \/ Find(p) \/ ReadPorts(p)
             \/ Claim(p) \/ CountInstances(p) \/ Insert(p)
    BY <1>0, <2>4 DEF SyncRead, SyncCheck, SyncApply, SyncDone, Find, ReadPorts, Claim,
      CountInstances, Insert, Tidying
  <2>5. CASE PickOldest(p) BY <1>0, <2>5 DEF PickOldest, Tidying
  <2>6. CASE \/ Restore(p) \/ Import(p) \/ RecordImport(p) \/ Interrupted(p) \/ UseInstance(p)
             \/ Verify(p) \/ StartMachine(p) \/ RunEnds(p) \/ StopMachine(p) \/ Release(p)
    BY <1>0, <2>6 DEF Restore, Import, RecordImport, Interrupted, UseInstance, Verify, StartMachine,
      RunEnds, StopMachine, Release, Tidying
  <2> HIDE DEF Own
  <2> QED BY <2>1, <2>2, <2>3, <2>4, <2>5, <2>6 DEF Step
<1>2. \A q \in Proc : q # p => pc'[q] = pc[q] /\ target'[q] = target[q]
  BY <1>0, OthersStay
<1> QED BY <1>1, <1>2, PoolAssumption DEF PlacesOK

\* Rows and runs that will add one are never more together.
LEMMA CapacityStep ==
  ASSUME IsFiniteSet(Proc), CapacityInv, [Next]_vars PROVE CapacityInv'
<1> USE PoolAssumption
<1>0. TypeOK' BY TypeOKStep DEF CapacityInv
<1>1. /\ IsFiniteSet(Rows) /\ IsFiniteSet(Adding) /\ IsFiniteSet(Runner)
      /\ Cardinality(Rows) \in Nat /\ Cardinality(Adding) \in Nat /\ Cardinality(Runner) \in Nat
      /\ IsFiniteSet(Rows') /\ IsFiniteSet(Adding')
      /\ Cardinality(Rows') \in Nat /\ Cardinality(Adding') \in Nat
  <2>1. /\ Rows \subseteq Slot /\ Rows' \subseteq Slot
        /\ Adding \subseteq Proc /\ Adding' \subseteq Proc /\ Runner \subseteq Proc
    BY DEF Rows, Adding, Runner
  <2> QED BY <2>1, FS_Subset, FS_CardinalityType
<1> DEFINE Fits == Cardinality(Rows) + Cardinality(Adding) < MaxInstances + Cardinality(Runner)
<1>2. ASSUME Rows' \subseteq Rows, Adding' \subseteq Adding PROVE Fits'
  <2>1. Cardinality(Rows') <= Cardinality(Rows) /\ Cardinality(Adding') <= Cardinality(Adding)
    BY <1>1, <1>2, FS_Subset
  <2> QED BY <1>1, <2>1 DEF CapacityInv, Runner
<1>3. ASSUME NEW p \in Proc, Step(p) \/ Crash(p) PROVE CapacityInv'
  <2>0. PlacesOK' BY <1>3, PlacesStep DEF CapacityInv
  <2>1. TypeOK /\ pc \in [Proc -> Location] BY DEF CapacityInv, TypeOK
  <2>2. CASE CountInstances(p)
    <3>1. rows' = rows /\ Rows' = Rows BY <2>2 DEF CountInstances, Rows, Exists
    <3>2. CASE InstanceCount >= MaxInstances
      <4>1. Adding' \subseteq Adding BY <2>1, <2>2, <3>2 DEF CountInstances, Adding, Goto
      <4> QED BY <1>0, <1>2, <2>0, <3>1, <4>1 DEF CapacityInv
    <3>3. CASE Cardinality(Rows) < MaxInstances
      <4>1. Adding' \subseteq Runner BY <2>0 DEF Adding, Runner, PlacesOK, Tidying
      <4>2. Cardinality(Adding') <= Cardinality(Runner) BY <1>1, <4>1, FS_Subset
      <4> QED BY <1>0, <1>1, <2>0, <3>1, <3>3, <4>2 DEF CapacityInv, Runner
    <3> QED BY <1>1, <3>2, <3>3 DEF InstanceCount, Rows
  <2>3. CASE EvictRow(p)
    <3>0. target[p] \in Slot BY <2>3 DEF EvictRow, CapacityInv, PlacesOK
    <3>1. CASE Exists(target[p])
      <4>1. Rows' = Rows \ {target[p]} /\ target[p] \in Rows
        BY <2>1, <2>3, <3>0, <3>1 DEF EvictRow, Rows, Exists, NoRow, TypeOK
      <4>2. Cardinality(Rows') = Cardinality(Rows) - 1 BY <1>1, <4>1, FS_RemoveElement
      <4>3. Adding' \subseteq Adding \cup {p} BY <2>1, <2>3 DEF EvictRow, Adding, Goto
      <4>4. Cardinality(Adding') <= Cardinality(Adding) + 1
        <5>1. /\ IsFiniteSet(Adding \cup {p})
              /\ Cardinality(Adding \cup {p}) \in {Cardinality(Adding), Cardinality(Adding) + 1}
          BY <1>1, FS_AddElement
        <5> QED BY <1>1, <4>3, <5>1, FS_Subset
      <4> QED BY <1>0, <1>1, <2>0, <4>2, <4>4 DEF CapacityInv, Runner
    <3>2. CASE ~Exists(target[p])
      <4>1. Rows' \subseteq Rows BY <2>1, <2>3, <3>2 DEF EvictRow, Rows, Exists, TypeOK
      <4>2. Adding' \subseteq Adding BY <2>1, <2>3, <3>2 DEF EvictRow, Adding, Goto
      <4> QED BY <1>0, <1>2, <2>0, <4>1, <4>2 DEF CapacityInv
    <3> QED BY <3>1, <3>2
  <2>4. CASE Insert(p) /\ p \in Adding /\ Adding' = Adding \ {p} /\ \E s \in Slot : Rows' = Rows \cup {s}
    <3>1. Cardinality(Adding') = Cardinality(Adding) - 1 BY <1>1, <2>4, FS_RemoveElement
    <3>2. Cardinality(Rows') <= Cardinality(Rows) + 1 BY <1>1, <2>4, FS_AddElement
    <3> QED BY <1>0, <1>1, <2>0, <3>1, <3>2 DEF CapacityInv, Runner
  <2>5. CASE Rows' \subseteq Rows /\ Adding' \subseteq Adding
    BY <1>0, <1>2, <2>0, <2>5 DEF CapacityInv
  <2> QED BY <1>3, <2>1, <2>2, <2>3, <2>4, <2>5, RowsStep
<1>4. ASSUME UNCHANGED <<rows, pc, target>> PROVE CapacityInv'
  <2>1. Rows' = Rows /\ Adding' = Adding BY <1>4 DEF Rows, Exists, Adding
  <2> QED BY <1>0, <1>4, <2>1 DEF CapacityInv, PlacesOK, Runner
<1> QED BY <1>3, <1>4 DEF Next, MachineLost, MachineStops, Quiet, vars, local

\* However many runs allocate at once, and whoever is killed on the way, the rows exceed
\* the capacity by less than the number of runs (create_new_instance, which counts and
\* inserts in two transactions); with one run at a time they never do.
THEOREM CapacitySafe ==
  ASSUME IsFiniteSet(Proc), Cardinality(Rested \cup Leftover) < MaxInstances + Cardinality(Runner)
  PROVE  Spec => []CapacityBounded
<1> USE PoolAssumption
<1>1. Init => CapacityInv
  <2> SUFFICES ASSUME Init PROVE CapacityInv OBVIOUS
  <2>1. Adding = {} /\ Cardinality(Adding) = 0 BY FS_EmptySet DEF Init, Adding
  <2>2. Rows \subseteq Rested \cup Leftover
    <3>1. PICK old \in SUBSET Rested, gone \in SUBSET Leftover : \E n \in [gone -> Port] :
            /\ \A s, t \in gone : s # t => n[s] # n[t]
            /\ rows = [s \in Slot |-> IF s \in old THEN PooledRow(TRUE)
                                      ELSE IF s \in gone THEN ActiveRow(NoProc, n[s], TRUE)
                                      ELSE NoRow]
            /\ hyper = [s \in Slot |-> IF s \in old \cup gone THEN "off" ELSE "absent"]
      BY DEF Init
    <3>2. \A s \in Slot : s \notin old \cup gone => rows[s] = NoRow
      BY <3>1
    <3> QED BY <3>2 DEF Rows, Exists, NoRow
  <2>3. IsFiniteSet(Rested \cup Leftover) BY FS_Subset
  <2>4. /\ Cardinality(Rows) <= Cardinality(Rested \cup Leftover) /\ Cardinality(Rows) \in Nat
        /\ Cardinality(Rested \cup Leftover) \in Nat /\ Cardinality(Runner) \in Nat
    BY <2>2, <2>3, FS_Subset, FS_CardinalityType DEF Runner
  <2>5. PlacesOK BY DEF Init, PlacesOK, Tidying
  <2> QED BY <2>1, <2>4, <2>5, InitTypeOK DEF CapacityInv
<1>2. CapacityInv /\ [Next]_vars => CapacityInv' BY CapacityStep
<1>3. CapacityInv => CapacityBounded
  <2>1. /\ Rows \subseteq Slot /\ Adding \subseteq Proc /\ Runner \subseteq Proc
    BY DEF Rows, Adding, Runner
  <2>2. Cardinality(Rows) \in Nat /\ Cardinality(Adding) \in Nat /\ Cardinality(Runner) \in Nat
    BY <2>1, FS_Subset, FS_CardinalityType
  <2> QED BY <2>2 DEF CapacityInv, CapacityBounded, InstanceCount, Rows
<1> QED BY <1>1, <1>2, <1>3, PTL DEF Spec

-----------------------------------------------------------------------------
(* The leases: nobody crashes, is interrupted or reconciles, no row was    *)
(* left behind, and there is room for a row of every run.                  *)

Orderly ==
  /\ Janitor = {} /\ Leftover = {}
  /\ Faults \cap {"crash", "interrupt", "stopfails"} = {}
  /\ IsFiniteSet(Proc) /\ Cardinality(Rested) + Cardinality(Proc) <= MaxInstances

Seeking   == {"again", "sync", "apply", "find", "ports", "claim", "count", "reserve", "insert"}
Preparing == {"restore", "import", "imported", "record"}
Driving   == {"verify", "start", "running"}
Ending    == {"cleanup", "release"}

\* The row that a run has is the one it prepares, then the one it remembers.
Has(p, s) ==
  \/ pc[p] \in Preparing /\ target[p] = s
  \/ pc[p] \in Driving \cup Ending /\ holds[p] = s

Owns(p, s) == Active(s) /\ rows[s].owner = p

\* A run that is at work with a row owns it; what it remembers of a row it gave up is the
\* id of a row that is no more.
Serves(p) ==
  /\ pc[p] \in {"idle", "exit", "dead"} \cup Seeking \cup Preparing \cup Driving \cup Ending
  /\ seen[p] = {}
  /\ pc[p] \in Preparing => target[p] \in Slot /\ Owns(p, target[p])
  /\ pc[p] \in Driving => holds[p] \in Slot /\ Owns(p, holds[p])
  /\ pc[p] \in Ending /\ holds[p] # NoSlot => Owns(p, holds[p]) \/ ~Exists(holds[p])
  /\ pc[p] \in Seeking \cup Preparing /\ holds[p] # NoSlot => ~Exists(holds[p])
  /\ pc[p] = "idle" => holds[p] = NoSlot
  /\ pc[p] \in {"ports", "claim"} => target[p] \in Slot

Leased(s) == Active(s) => rows[s].owner \in Proc /\ Has(rows[s].owner, s)

\* Every run adds one row to those that were there, and adds another only when it has
\* deleted that.
Settled == {p \in Proc : pc[p] \notin {"idle"} \cup Seeking}
Room == Cardinality(Rows) <= Cardinality(Rested) + Cardinality(Settled)

LeaseInv ==
  /\ PortInv /\ Room
  /\ \A p \in Proc : Serves(p)
  /\ \A s \in Slot : Leased(s)

\* What a step of a run is to the table and to its lease.
Seeks(p) ==
  /\ pc[p] \in {"idle"} \cup Seeking /\ pc'[p] \in Seeking
  /\ rows' = rows /\ holds'[p] = holds[p]
  /\ pc'[p] \in {"ports", "claim"} => target'[p] \in Slot
FindsNone(p) ==
  /\ pc[p] \in Seeking /\ pc'[p] = "cleanup"
  /\ rows' = rows /\ holds'[p] = holds[p]
Takes(p, s) ==
  /\ pc[p] \in Seeking /\ pc'[p] \in Preparing
  /\ Pooled(s) \/ Fresh(s)
  /\ \E n \in Port, u \in BOOLEAN : rows' = [rows EXCEPT ![s] = ActiveRow(p, n, u)]
  /\ target'[p] = s /\ holds'[p] = holds[p]
Prepares(p) ==
  /\ pc[p] \in Preparing /\ pc'[p] \in Preparing /\ pc'[p] # pc[p]
  /\ rows' = rows \/ rows' = [rows EXCEPT ![target[p]].uuid = TRUE]
  /\ target'[p] = target[p] /\ holds'[p] = holds[p]
Uses(p) ==
  /\ pc[p] \in Preparing /\ pc'[p] \in Driving
  /\ rows' = rows /\ holds'[p] = target[p]
GoesAhead(p) ==
  /\ pc[p] \in Driving \cup Ending /\ pc'[p] \in Driving \cup Ending
  /\ pc'[p] \in Driving => pc[p] \in Driving
  /\ rows' = rows /\ holds'[p] = holds[p]
Replaces(p) ==
  /\ pc[p] = "verify" /\ pc'[p] = "again"
  /\ rows' = [rows EXCEPT ![holds[p]] = NoRow] /\ holds'[p] = holds[p]
Returns(p) ==
  /\ pc[p] = "release" /\ pc'[p] = "exit"
  /\ rows' = IF holds[p] # NoSlot /\ Exists(holds[p]) THEN Freed(holds[p]) ELSE rows
  /\ holds'[p] = holds[p]
Goes(p) ==
  /\ pc[p] = "exit" /\ pc'[p] = "dead" /\ rows' = rows /\ holds'[p] = NoSlot

Alone(p) ==
  \A q \in Proc \ {p} : pc'[q] = pc[q] /\ target'[q] = target[q] /\ holds'[q] = holds[q]
Acts(p) ==
  /\ Alone(p) /\ \A q \in Proc : seen'[q] = {}
  /\ \/ Seeks(p) \/ FindsNone(p) \/ \E s \in Slot : Takes(p, s)
     \/ Prepares(p) \/ Uses(p) \/ GoesAhead(p) \/ Replaces(p) \/ Returns(p) \/ Goes(p)

\* While a run is still counting there is room.
LEMMA RoomLeft ==
  ASSUME Orderly, LeaseInv, NEW p \in Proc, pc[p] \in Seeking
  PROVE  InstanceCount < MaxInstances
<1>1. Settled \subseteq Proc \ {p} BY DEF Settled
<1>2. /\ IsFiniteSet(Proc \ {p}) /\ Cardinality(Proc \ {p}) = Cardinality(Proc) - 1
      /\ Cardinality(Proc) \in Nat /\ Cardinality(Proc \ {p}) \in Nat
  BY FS_RemoveElement, FS_CardinalityType DEF Orderly
<1>3. Cardinality(Settled) <= Cardinality(Proc \ {p}) /\ Cardinality(Settled) \in Nat
  BY <1>1, <1>2, FS_Subset, FS_CardinalityType
<1>4. Cardinality(Rows) \in Nat /\ Cardinality(Rested) \in Nat
  <2>1. Rows \subseteq Slot /\ Rested \subseteq Slot /\ IsFiniteSet(Slot) BY PoolAssumption DEF Rows
  <2> QED BY <2>1, FS_Subset, FS_CardinalityType
<1>5. InstanceCount = Cardinality(Rows) BY DEF InstanceCount, Rows
<1> QED BY <1>2, <1>3, <1>4, <1>5, PoolAssumption DEF Orderly, LeaseInv, Room

LEMMA OthersAlone ==
  ASSUME TypeOK, NEW p \in Proc, Step(p)
  PROVE  Alone(p) /\ \A q \in Proc \ {p} : seen'[q] = seen[q]
<1>1. \A q \in Proc : q # p => pc'[q] = pc[q] /\ target'[q] = target[q] BY OthersStay
<1>2. (holds' = holds \/ \E h : holds' = [holds EXCEPT ![p] = h])
      /\ (seen' = seen \/ \E x : seen' = [seen EXCEPT ![p] = x])
  <2>1. CASE \/ Reconcile(p) \/ ReconcileRow(p) \/ ReconcileDone(p) \/ RemoveInstances(p) \/ WipeRow(p)
             \/ SyncRead(p) \/ SyncCheck(p) \/ SyncApply(p) \/ SyncDone(p)
    BY <2>1 DEF Reconcile, ReconcileRow, ReconcileDone, RemoveInstances, WipeRow, SyncRead, SyncCheck,
         SyncApply, SyncDone, local
  <2>2. CASE \/ Find(p) \/ ReadPorts(p) \/ Claim(p)
             \/ CountInstances(p) \/ PickOldest(p) \/ EvictMachine(p) \/ EvictRow(p) \/ Insert(p)
    BY <2>2 DEF Find, ReadPorts, Claim, CountInstances, PickOldest, EvictMachine, EvictRow, Insert, local
  <2>3. CASE \/ Restore(p) \/ Import(p) \/ RecordImport(p) \/ Interrupted(p) \/ UseInstance(p)
             \/ Verify(p) \/ StartMachine(p) \/ RunEnds(p)
             \/ StopMachine(p) \/ Release(p) \/ Exit(p)
    BY <2>3 DEF Restore, Import, RecordImport, Interrupted, UseInstance, Verify, StartMachine, RunEnds,
         StopMachine, Release, Exit, Forget, local
  <2> QED BY <2>1, <2>2, <2>3 DEF Step
<1> QED BY <1>1, <1>2 DEF TypeOK, Alone

LEMMA StepActs ==
  ASSUME Orderly, LeaseInv, NEW p \in Proc, Step(p)
  PROVE  Acts(p)
<1> USE DEF Goto
<1>0. TypeOK /\ Serves(p) /\ p \notin Janitor BY DEF LeaseInv, PortInv, Orderly
<1>1. Alone(p) /\ \A q \in Proc \ {p} : seen'[q] = {}
  BY <1>0, OthersAlone DEF LeaseInv, Serves
<1>2. /\ pc \in [Proc -> Location] /\ seen \in [Proc -> SUBSET (Slot \X (Proc \cup {NoProc}))]
      /\ target \in [Proc -> Slot \cup {NoSlot}] /\ holds \in [Proc -> Slot \cup {NoSlot}]
      /\ rows \in [Slot -> Row]
  BY <1>0 DEF TypeOK
<1>3. /\ pc[p] \in {"idle", "exit", "dead"} \cup Seeking \cup Preparing \cup Driving \cup Ending
      /\ seen[p] = {}
  BY <1>0 DEF Serves
<1> DEFINE Does == \/ Seeks(p) \/ FindsNone(p) \/ \E s \in Slot : Takes(p, s)
                   \/ Prepares(p) \/ Uses(p) \/ GoesAhead(p) \/ Replaces(p) \/ Returns(p) \/ Goes(p)
<1>4. CASE \/ Reconcile(p) \/ ReconcileRow(p) \/ ReconcileDone(p) \/ RemoveInstances(p) \/ WipeRow(p)
           \/ PickOldest(p) \/ EvictMachine(p) \/ EvictRow(p) \/ Interrupted(p)
  BY <1>0, <1>3, <1>4 DEF Reconcile, ReconcileRow, ReconcileDone, RemoveInstances, WipeRow,
       PickOldest, EvictMachine, EvictRow, Interrupted, Orderly, Seeking, Preparing, Driving, Ending
<1>5. CASE SyncRead(p) \/ SyncCheck(p) \/ SyncApply(p) \/ SyncDone(p)
  <2>1. seen'[p] = {}
    <3>1. \A s \in Slot : ~Unattended(s)
      <4>1. ASSUME NEW s \in Slot, Active(s) PROVE Alive(rows[s].owner)
        BY <4>1 DEF LeaseInv, Leased, Has, Alive, Preparing, Driving, Ending
      <4> QED BY <4>1 DEF Unattended
    <3>2. CASE SyncRead(p) BY <1>2, <3>1, <3>2 DEF SyncRead
    <3>3. CASE SyncCheck(p) BY <1>2, <1>3, <3>3 DEF SyncCheck
    <3>4. CASE SyncApply(p) \/ SyncDone(p) BY <1>3, <3>4 DEF SyncApply, SyncDone, local
    <3> QED BY <1>5, <3>2, <3>3, <3>4
  <2>2. Seeks(p)
    BY <1>2, <1>3, <1>5 DEF SyncRead, SyncCheck, SyncApply, SyncDone, Seeks, Seeking, local
  <2> QED BY <1>1, <2>1, <2>2 DEF Acts
<1>6. ASSUME seen' = seen, Does PROVE Acts(p) BY <1>1, <1>3, <1>6 DEF Acts
<1>7. CASE Find(p) \/ ReadPorts(p) \/ CountInstances(p)
  <2>1. ~CountInstances(p) \/ pc'[p] = "reserve"
    <3>1. CASE CountInstances(p)
      <4>1. InstanceCount < MaxInstances BY <1>0, <3>1, RoomLeft DEF CountInstances, Seeking
      <4>2. InstanceCount \in Nat
        <5>1. {s \in Slot : Exists(s)} \subseteq Slot /\ IsFiniteSet(Slot) BY PoolAssumption
        <5> QED BY <5>1, FS_Subset, FS_CardinalityType DEF InstanceCount
      <4>3. ~(InstanceCount >= MaxInstances) BY <4>1, <4>2, PoolAssumption
      <4> QED BY <1>2, <3>1, <4>3 DEF CountInstances
    <3> QED BY <3>1
  <2>2. Seeks(p) /\ seen' = seen
    BY <1>0, <1>2, <1>7, <2>1 DEF Find, ReadPorts, CountInstances, Seeks, Seeking, Serves, local
  <2> QED BY <1>6, <2>2
<1>8. CASE Claim(p)
  <2>0. seen' = seen /\ UNCHANGED <<target, holds>> /\ pc[p] = "claim" BY <1>8 DEF Claim
  <2>1. CASE Claimable(target[p]) /\ Free(used[p]) # {}
             /\ rows' = [rows EXCEPT ![target[p]] = ActiveRow(p, Lowest(used[p]), @.uuid)]
             /\ pc'[p] \in {"restore", "import"}
    <3>1. Lowest(used[p]) \in Port BY <1>0, <2>1, LowestIsFree DEF Free, TypeOK
    <3>2. target[p] \in Slot /\ rows[target[p]].uuid \in BOOLEAN
      BY <1>0, <1>2, <2>0 DEF Serves, Row
    <3>3. rows' = [rows EXCEPT ![target[p]] = ActiveRow(p, Lowest(used[p]), rows[target[p]].uuid)]
      BY <1>2, <2>1, <3>2
    <3>4. Takes(p, target[p])
      BY <2>0, <2>1, <3>1, <3>2, <3>3 DEF Takes, Claimable, Seeking, Preparing
    <3> QED BY <1>6, <2>0, <3>2, <3>4
  <2>2. CASE rows' = rows /\ pc'[p] \in {"claim", "count"}
    <3>1. Seeks(p) BY <1>0, <2>0, <2>2 DEF Seeks, Seeking, Serves
    <3> QED BY <1>6, <2>0, <3>1
  <2>3. CASE rows' = rows /\ pc'[p] = "cleanup"
    <3>1. FindsNone(p) BY <2>0, <2>3 DEF FindsNone, Seeking
    <3> QED BY <1>6, <2>0, <3>1
  <2> QED BY <1>2, <1>8, <2>0, <2>1, <2>2, <2>3 DEF Claim
<1>9. CASE Insert(p)
  <2>0. seen' = seen /\ UNCHANGED holds /\ pc[p] = "insert" BY <1>9 DEF Insert
  <2>1. CASE Free(used[p]) # {} /\ ~Taken(Lowest(used[p]))
    <3>1. Lowest(used[p]) \in Port BY <1>0, <2>1, LowestIsFree DEF Free, TypeOK
    <3>2. PICK s \in Slot : /\ Fresh(s) /\ target' = [target EXCEPT ![p] = s]
                            /\ rows' = [rows EXCEPT ![s] = ActiveRow(p, Lowest(used[p]), FALSE)]
      BY <1>9, <2>1 DEF Insert
    <3>3. pc'[p] = "import" /\ target'[p] = s BY <1>2, <1>9, <2>1, <3>2 DEF Insert
    <3>4. Takes(p, s) BY <2>0, <3>1, <3>2, <3>3 DEF Takes, Seeking, Preparing
    <3> QED BY <1>6, <2>0, <3>4
  <2>2. CASE ~(Free(used[p]) # {} /\ ~Taken(Lowest(used[p])))
    <3>1. rows' = rows /\ pc'[p] \in {"insert", "cleanup"} BY <1>2, <1>9, <2>0, <2>2 DEF Insert
    <3>2. Seeks(p) \/ FindsNone(p) BY <2>0, <3>1 DEF Seeks, FindsNone, Seeking
    <3> QED BY <1>6, <2>0, <3>2
  <2> QED BY <2>1, <2>2
<1>10. CASE Restore(p) \/ Import(p) \/ RecordImport(p)
  <2>1. Exists(target[p]) BY <1>0, <1>10 DEF Restore, Import, RecordImport, Serves, Owns, Active, Exists, Preparing
  <2>2. Prepares(p) /\ seen' = seen
    BY <1>2, <1>10, <2>1 DEF Restore, Import, RecordImport, Prepares, Preparing, local
  <2> QED BY <1>6, <2>2
<1>11. CASE UseInstance(p)
  <2>1. target[p] \in Slot /\ Owns(p, target[p]) BY <1>0, <1>11 DEF UseInstance, Serves, Preparing
  <2>2. Exists(target[p]) /\ rows[target[p]].port # NoPort
    BY <2>1, PoolAssumption DEF LeaseInv, PortInv, ActiveHasPort, Owns, Active, Exists
  <2>3. Uses(p) /\ seen' = seen
    BY <1>2, <1>11, <2>2 DEF UseInstance, Uses, Preparing, Driving
  <2> QED BY <1>6, <2>3
<1>12. CASE Verify(p)
  <2>1. (Replaces(p) \/ GoesAhead(p)) /\ seen' = seen
    BY <1>2, <1>12 DEF Verify, Replaces, GoesAhead, Driving, Ending
  <2> QED BY <1>6, <2>1
<1>13. CASE StartMachine(p) \/ RunEnds(p) \/ StopMachine(p)
  <2>1. GoesAhead(p) /\ seen' = seen
    BY <1>2, <1>13 DEF StartMachine, RunEnds, StopMachine, GoesAhead, Driving, Ending, local, Orderly
  <2> QED BY <1>6, <2>1
<1>14. CASE Release(p)
  <2>1. Returns(p) /\ seen' = seen BY <1>2, <1>14 DEF Release, Returns, local
  <2> QED BY <1>6, <2>1
<1>15. CASE Exit(p)
  <2>1. Goes(p) /\ seen'[p] = {} BY <1>2, <1>15 DEF Exit, Forget, Goes
  <2> QED BY <1>1, <2>1 DEF Acts
<1> QED BY <1>4, <1>5, <1>7, <1>8, <1>9, <1>10, <1>11, <1>12, <1>13, <1>14, <1>15 DEF Step


\* What a step of p is to the others: they own what they owned, and no row comes back
\* under an id they remember.
LEMMA OthersKeep ==
  ASSUME LeaseInv, NEW p \in Proc, Acts(p), NEW t \in Slot
  PROVE  /\ \A q \in Proc \ {p} : Owns(q, t)' <=> Owns(q, t)
         /\ \A q \in Proc \ {p} : holds[q] = t /\ ~Exists(t) => ~Exists(t)'
         /\ Active(t)' => rows'[t].owner = p \/ (Active(t) /\ rows'[t].owner = rows[t].owner)
<1> DEFINE Goal == /\ \A q \in Proc \ {p} : Owns(q, t)' <=> Owns(q, t)
                   /\ \A q \in Proc \ {p} : holds[q] = t /\ ~Exists(t) => ~Exists(t)'
                   /\ Active(t)' => rows'[t].owner = p \/ (Active(t) /\ rows'[t].owner = rows[t].owner)
<1> SUFFICES Goal OBVIOUS
<1>1. rows \in [Slot -> Row] /\ Serves(p) /\ holds[p] \in Slot \cup {NoSlot} BY DEF LeaseInv, PortInv, TypeOK
<1> USE DEF Owns, Active, Exists
<1>2. CASE rows' = rows BY <1>2
<1>3. ASSUME NEW s \in Slot, Takes(p, s) PROVE Goal
  <2>1. /\ \A u \in Slot \ {s} : rows'[u] = rows[u]
        /\ rows'[s].status = "active" /\ rows'[s].owner = p
    BY <1>1, <1>3 DEF Takes, ActiveRow
  <2>2. rows[s].status # "active" BY <1>3 DEF Takes, Pooled, Fresh
  <2>3. \A q \in Proc : holds[q] = s => Exists(s) BY <1>3 DEF Takes, Pooled, Fresh
  <2> QED BY <2>1, <2>2, <2>3
<1>4. CASE Prepares(p)
  <2>1. \A s \in Slot : rows'[s].status = rows[s].status /\ rows'[s].owner = rows[s].owner
    BY <1>1, <1>4 DEF Prepares, Row
  <2> QED BY <2>1
<1>5. CASE Replaces(p)
  <2>1. holds[p] \in Slot /\ Owns(p, holds[p]) BY <1>1, <1>5 DEF Replaces, Serves, Driving
  <2> QED BY <1>1, <1>5, <2>1, PoolAssumption DEF Replaces, NoRow
<1>6. CASE Returns(p)
  <2>1. CASE holds[p] \in Slot /\ Exists(holds[p])
    <3>1. Owns(p, holds[p]) BY <1>1, <1>6, <2>1, PoolAssumption DEF Returns, Serves, Ending
    <3>2. rows' = [rows EXCEPT ![holds[p]] = PooledRow(rows[holds[p]].uuid)]
      BY <1>1, <1>6, <2>1, PoolAssumption DEF Returns, Freed
    <3> QED BY <1>1, <2>1, <3>1, <3>2, PoolAssumption DEF PooledRow
  <2>2. CASE ~(holds[p] \in Slot /\ Exists(holds[p]))
    BY <1>1, <1>2, <1>6, <2>2 DEF Returns
  <2> QED BY <2>1, <2>2
<1>7. CASE Seeks(p) \/ FindsNone(p) \/ Uses(p) \/ GoesAhead(p) \/ Goes(p)
  BY <1>2, <1>7 DEF Seeks, FindsNone, Uses, GoesAhead, Goes
<1> HIDE DEF Goal
<1> QED BY <1>3, <1>4, <1>5, <1>6, <1>7 DEF Acts

\* What it is to p itself.
LEMMA ItselfServes ==
  ASSUME LeaseInv, TypeOK', NEW p \in Proc, Acts(p)
  PROVE  Serves(p)' /\ \A t \in Slot : Owns(p, t)' => Has(p, t)'
<1> DEFINE Goal == Serves(p)' /\ \A t \in Slot : Owns(p, t)' => Has(p, t)'
<1>1. /\ rows \in [Slot -> Row] /\ Serves(p) /\ holds[p] \in Slot \cup {NoSlot}
      /\ \A t \in Slot : Owns(p, t) => Has(p, t)
      /\ seen'[p] = {} /\ NoSlot \notin Slot
  BY PoolAssumption DEF LeaseInv, PortInv, TypeOK, Leased, Owns, Acts
<1> USE DEF Owns, Active, Exists, Seeking, Preparing, Driving, Ending
<1>2. CASE Seeks(p) \/ FindsNone(p) \/ Goes(p) BY <1>1, <1>2 DEF Seeks, FindsNone, Goes, Serves, Has
<1>3. ASSUME NEW s \in Slot, Takes(p, s) PROVE Goal
  <2>1. \A t \in Slot : ~Owns(p, t) BY <1>1, <1>3 DEF Takes, Has
  <2>2. /\ Owns(p, s)' /\ target'[p] = s /\ pc'[p] \in Preparing /\ holds'[p] = holds[p]
        /\ \A t \in Slot \ {s} : rows'[t] = rows[t]
        /\ holds[p] # s \/ holds[p] = NoSlot
    BY <1>1, <1>3 DEF Takes, ActiveRow, Pooled, Fresh, Serves
  <2>3. pc[p] \in Seeking BY <1>3 DEF Takes
  <2> QED BY <1>1, <2>1, <2>2, <2>3 DEF Serves, Has
<1>4. CASE Prepares(p)
  <2>1. \A s \in Slot : rows'[s].status = rows[s].status /\ rows'[s].owner = rows[s].owner
    BY <1>1, <1>4 DEF Prepares, Row
  <2> QED BY <1>1, <1>4, <2>1 DEF Prepares, Serves, Has
<1>5. CASE Uses(p) \/ GoesAhead(p) BY <1>1, <1>5 DEF Uses, GoesAhead, Serves, Has
<1>6. CASE Replaces(p)
  <2>1. holds[p] \in Slot /\ Owns(p, holds[p]) BY <1>1, <1>6 DEF Replaces, Serves
  <2> QED BY <1>1, <1>6, <2>1 DEF Replaces, NoRow, Serves, Has
<1>7. CASE Returns(p)
  <2>1. CASE holds[p] \in Slot /\ Exists(holds[p])
    <3>1. rows' = [rows EXCEPT ![holds[p]] = PooledRow(rows[holds[p]].uuid)]
      BY <1>1, <1>7, <2>1 DEF Returns, Freed
    <3>2. \A t \in Slot : ~Owns(p, t)'
      BY <1>1, <1>7, <2>1, <3>1 DEF PooledRow, Returns, Has
    <3> QED BY <1>1, <1>7, <3>2 DEF Returns, Serves
  <2>2. CASE ~(holds[p] \in Slot /\ Exists(holds[p]))
    <3>1. rows' = rows BY <1>1, <1>7, <2>2 DEF Returns
    <3>2. \A t \in Slot : ~Owns(p, t) BY <1>1, <1>7, <2>2 DEF Returns, Has
    <3> QED BY <1>1, <1>7, <3>1, <3>2 DEF Returns, Serves
  <2> QED BY <2>1, <2>2
<1> QED BY <1>2, <1>3, <1>4, <1>5, <1>6, <1>7 DEF Acts

\* A row more means a run more that has settled, and who seeks again has deleted its row.
LEMMA RoomStep ==
  ASSUME Orderly, LeaseInv, TypeOK', NEW p \in Proc, Acts(p)
  PROVE  Room'
<1>1. /\ IsFiniteSet(Rows) /\ IsFiniteSet(Rows') /\ IsFiniteSet(Settled) /\ IsFiniteSet(Settled')
      /\ Cardinality(Rows) \in Nat /\ Cardinality(Rows') \in Nat
      /\ Cardinality(Settled) \in Nat /\ Cardinality(Settled') \in Nat
      /\ Cardinality(Rested) \in Nat
  <2>1. /\ Rows \subseteq Slot /\ Rows' \subseteq Slot /\ Rested \subseteq Slot
        /\ Settled \subseteq Proc /\ Settled' \subseteq Proc
    BY PoolAssumption DEF Rows, Settled
  <2> QED BY <2>1, PoolAssumption, FS_Subset, FS_CardinalityType DEF Orderly
<1>2. /\ rows \in [Slot -> Row] /\ Serves(p) /\ holds[p] \in Slot \cup {NoSlot} /\ Room
      /\ \A q \in Proc \ {p} : pc'[q] = pc[q]
  BY DEF LeaseInv, PortInv, TypeOK, Acts, Alone
<1> USE DEF Seeking, Preparing, Driving, Ending
<1>3. ASSUME rows' = rows \/ \A s \in Slot : Exists(s)' = Exists(s),
             p \in Settled' \/ p \notin Settled
      PROVE  Room'
  <2>1. Rows' = Rows BY <1>3 DEF Rows, Exists
  <2>2. Settled \subseteq Settled' BY <1>2, <1>3 DEF Settled
  <2>3. Cardinality(Settled) <= Cardinality(Settled') BY <1>1, <2>2, FS_Subset
  <2> QED BY <1>1, <1>2, <2>1, <2>3 DEF Room
<1>4. CASE Seeks(p) \/ FindsNone(p) BY <1>3, <1>4 DEF Seeks, FindsNone, Settled
<1>5. ASSUME NEW s \in Slot, Takes(p, s) PROVE Room'
  <2>1. Rows' = Rows \cup {s} BY <1>2, <1>5 DEF Takes, Rows, Exists, ActiveRow
  <2>2. Settled' = Settled \cup {p} /\ p \notin Settled BY <1>2, <1>5 DEF Takes, Settled
  <2>3. Cardinality(Rows') <= Cardinality(Rows) + 1 BY <1>1, <2>1, FS_AddElement
  <2>4. Cardinality(Settled') = Cardinality(Settled) + 1 BY <1>1, <2>2, FS_AddElement
  <2> QED BY <1>1, <1>2, <2>3, <2>4 DEF Room
<1>6. CASE Prepares(p)
  <2>1. \A s \in Slot : Exists(s)' = Exists(s) BY <1>2, <1>6 DEF Prepares, Row, Exists
  <2> QED BY <1>3, <1>6, <2>1 DEF Prepares, Settled
<1>7. CASE Uses(p) \/ GoesAhead(p) \/ Goes(p) BY <1>3, <1>7 DEF Uses, GoesAhead, Goes, Settled
<1>8. CASE Replaces(p)
  <2>1. holds[p] \in Slot /\ Exists(holds[p])
    BY <1>2, <1>8 DEF Replaces, Serves, Owns, Active, Exists
  <2>2. Rows' = Rows \ {holds[p]} /\ holds[p] \in Rows
    BY <1>2, <1>8, <2>1 DEF Replaces, Rows, Exists, NoRow
  <2>3. Settled' = Settled \ {p} /\ p \in Settled BY <1>2, <1>8 DEF Replaces, Settled
  <2>4. /\ Cardinality(Rows') = Cardinality(Rows) - 1
        /\ Cardinality(Settled') = Cardinality(Settled) - 1
    BY <1>1, <2>2, <2>3, FS_RemoveElement
  <2> QED BY <1>1, <1>2, <2>4 DEF Room
<1>9. CASE Returns(p)
  <2>1. \A s \in Slot : Exists(s)' = Exists(s)
    BY <1>2, <1>9, PoolAssumption DEF Returns, Freed, PooledRow, Exists
  <2> QED BY <1>3, <1>9, <2>1 DEF Returns, Settled
<1> QED BY <1>4, <1>5, <1>6, <1>7, <1>8, <1>9 DEF Acts

\* No step ends a lease behind the back of its run.
LEMMA LeaseStep == ASSUME Orderly, LeaseInv, [Next]_vars PROVE LeaseInv'
<1>0. PortInv' /\ TypeOK' BY PortInvStep DEF LeaseInv, PortInv
<1>1. ASSUME NEW p \in Proc, Step(p) PROVE LeaseInv'
  <2>1. Acts(p) BY <1>1, StepActs
  <2>2. Room' BY <1>0, <2>1, RoomStep
  <2>3. Serves(p)' /\ \A t \in Slot : Owns(p, t)' => Has(p, t)' BY <1>0, <2>1, ItselfServes
  <2>4. ASSUME NEW q \in Proc \ {p} PROVE Serves(q)'
    <3>1. /\ pc'[q] = pc[q] /\ target'[q] = target[q] /\ holds'[q] = holds[q] /\ seen'[q] = {}
      BY <2>1 DEF Acts, Alone
    <3>2. /\ \A t \in Slot : Owns(q, t)' <=> Owns(q, t)
          /\ \A t \in Slot : holds[q] = t /\ ~Exists(t) => ~Exists(t)'
      BY <2>1, OthersKeep
    <3>3. Serves(q) /\ holds[q] \in Slot \cup {NoSlot} BY DEF LeaseInv, PortInv, TypeOK
    <3>4. \A t \in Slot : Owns(q, t)' <=> (rows'[t].status = "active" /\ rows'[t].owner = q)
      BY DEF Owns, Active
    <3>5. \A t \in Slot : Exists(t)' <=> rows'[t].status # "none" BY DEF Exists
    <3> QED BY <3>1, <3>2, <3>3, <3>4, <3>5 DEF Serves, Owns, Active, Exists, Preparing, Driving, Ending, Seeking
  <2>5. ASSUME NEW t \in Slot, Active(t)' PROVE Leased(t)'
    <3>1. CASE rows'[t].owner = p BY <1>1, <2>3, <2>5, <3>1 DEF Leased, Owns, Active
    <3>2. CASE rows'[t].owner # p
      <4>1. Active(t) /\ rows'[t].owner = rows[t].owner BY <2>1, <2>5, <3>2, OthersKeep
      <4>2. rows[t].owner \in Proc /\ Has(rows[t].owner, t) BY <4>1 DEF LeaseInv, Leased
      <4> QED BY <2>1, <3>2, <4>1, <4>2 DEF Acts, Alone, Leased, Has
    <3> QED BY <3>1, <3>2
  <2> QED BY <1>0, <2>2, <2>3, <2>4, <2>5 DEF LeaseInv, Leased
<1>2. CASE UNCHANGED <<rows, pc, local>>
  BY <1>0, <1>2 DEF LeaseInv, Room, Rows, Settled, Serves, Leased, Owns, Has, Exists, Active, local
<1> QED BY <1>1, <1>2 DEF Next, Crash, MachineLost, MachineStops, Quiet, vars, local, Orderly


\* At first every row rests in the pool.
LEMMA LeaseInit == ASSUME Orderly, Init PROVE LeaseInv
<1>1. PortInv BY PortInvInit
<1>2. \A s \in Slot : ~Active(s) /\ (Exists(s) => s \in Rested)
  <2>1. PICK old \in SUBSET Rested, gone \in SUBSET Leftover : \E n \in [gone -> Port] :
          /\ \A s, t \in gone : s # t => n[s] # n[t]
          /\ rows = [s \in Slot |-> IF s \in old THEN PooledRow(TRUE)
                                    ELSE IF s \in gone THEN ActiveRow(NoProc, n[s], TRUE)
                                    ELSE NoRow]
          /\ hyper = [s \in Slot |-> IF s \in old \cup gone THEN "off" ELSE "absent"]
    BY DEF Init
  <2>2. \A s \in Slot : rows[s] = IF s \in old THEN PooledRow(TRUE) ELSE NoRow
    BY <2>1 DEF Orderly
  <2> QED BY <2>2 DEF Active, Exists, PooledRow, NoRow
<1>3. Room
  <2>1. Rows \subseteq Rested /\ Settled = {} BY <1>2 DEF Rows, Settled, Init
  <2>2. IsFiniteSet(Rested) BY PoolAssumption, FS_Subset
  <2>3. /\ Cardinality(Rows) <= Cardinality(Rested) /\ Cardinality(Rows) \in Nat
        /\ Cardinality(Rested) \in Nat
    BY <2>1, <2>2, FS_Subset, FS_CardinalityType
  <2>4. Cardinality(Settled) = 0 BY <2>1, FS_EmptySet
  <2> QED BY <2>3, <2>4 DEF Room
<1>4. \A p \in Proc : Serves(p)
  BY DEF Init, Serves, Seeking, Preparing, Driving, Ending
<1> QED BY <1>1, <1>2, <1>3, <1>4 DEF LeaseInv, Leased

\* What a run remembers of its row stays true: nobody else takes, frees or deletes it.
THEOREM LeaseInvariant == ASSUME Orderly PROVE Spec => []LeaseInv
BY LeaseInit, LeaseStep, PTL DEF Spec

\* Two runs never drive one machine, for every number of runs, rows and ports, as long as
\* nobody crashes, is interrupted or reconciles (claim_available_vm_instance decides the
\* race, and the sync frees only rows whose owner is gone).
THEOREM MachineExclusive == ASSUME Orderly PROVE Spec => []ExclusiveMachine
<1>1. LeaseInv => ExclusiveMachine
  BY DEF LeaseInv, Serves, Owns, ExclusiveMachine, Drives, Driving
<1> QED BY <1>1, LeaseInvariant, PTL

\* A step writes the row of the run that takes it, or one that nobody has.
LEMMA WritesItsOwn ==
  ASSUME LeaseInv, NEW p \in Proc, Acts(p), NEW t \in Slot, rows'[t] # rows[t]
  PROVE  pc'[p] # pc[p] /\ (Active(t) => rows[t].owner = p)
<1>1. rows \in [Slot -> Row] /\ Serves(p) /\ holds[p] \in Slot \cup {NoSlot} BY DEF LeaseInv, PortInv, TypeOK
<1> USE DEF Owns, Active, Exists, Seeking, Preparing, Driving, Ending
<1>2. ASSUME NEW s \in Slot, Takes(p, s) PROVE pc'[p] # pc[p] /\ ~Active(t)
  BY <1>1, <1>2 DEF Takes, Pooled, Fresh
<1>3. CASE Prepares(p)
  <2>1. t = target[p] BY <1>1, <1>3 DEF Prepares
  <2> QED BY <1>1, <1>3, <2>1 DEF Prepares, Serves
<1>4. CASE Replaces(p)
  <2>1. t = holds[p] BY <1>1, <1>4 DEF Replaces
  <2> QED BY <1>1, <1>4, <2>1 DEF Replaces, Serves
<1>5. CASE Returns(p)
  <2>1. t = holds[p] /\ Exists(t) BY <1>1, <1>5 DEF Returns, Freed
  <2> QED BY <1>1, <1>5, <2>1, PoolAssumption DEF Returns, Serves
<1>6. ~(Seeks(p) \/ FindsNone(p) \/ Uses(p) \/ GoesAhead(p) \/ Goes(p))
  BY DEF Seeks, FindsNone, Uses, GoesAhead, Goes
<1> QED BY <1>2, <1>3, <1>4, <1>5, <1>6 DEF Acts

\* The row of a live run changes only by a step of that run (sync_instance_states, the
\* eviction and the claims of others leave it alone).
THEOREM LeasesKept == ASSUME Orderly PROVE Spec => LeaseKept
<1> DEFINE Kept == \A s \in Slot :
              Active(s) /\ Alive(rows[s].owner) /\ rows'[s] # rows[s]
                => pc'[rows[s].owner] # pc[rows[s].owner]
<1>1. ASSUME LeaseInv, [Next]_vars PROVE Kept
  <2>1. ASSUME NEW p \in Proc, Step(p) PROVE Kept BY <1>1, <2>1, StepActs, WritesItsOwn
  <2>2. CASE rows' = rows BY <2>2
  <2> QED BY <1>1, <2>1, <2>2 DEF Next, Crash, MachineLost, MachineStops, Quiet, vars, local, Orderly
<1>2. Kept => [Kept]_vars OBVIOUS
<1> QED BY <1>1, <1>2, LeaseInvariant, PTL DEF Spec, LeaseKept

-----------------------------------------------------------------------------
(* The refinement: the vm_instance table grants leases.                    *)

\* A step of p leaves alone what the others are doing.
LEMMA OthersDo ==
  ASSUME LeaseInv, NEW p \in Proc, Acts(p), NEW q \in Proc \ {p}
  PROVE  Doing(q)' = Doing(q)
<1>1. pc'[q] = pc[q] /\ holds'[q] = holds[q] BY DEF Acts, Alone
<1>2. Serves(q) /\ holds[q] \in Slot \cup {NoSlot} BY DEF LeaseInv, PortInv, TypeOK
<1>3. holds[q] \in Slot => /\ Owns(q, holds[q])' <=> Owns(q, holds[q])
                           /\ ~Exists(holds[q]) => rows'[holds[q]].status = "none"
  <2> SUFFICES ASSUME NEW t \in Slot, holds[q] = t
               PROVE  (Owns(q, t)' <=> Owns(q, t)) /\ (~Exists(t) => rows'[t].status = "none")
    BY <1>1 DEF Owns, Active
  <2>1. (Owns(q, t)' <=> Owns(q, t)) /\ (~Exists(t) => ~Exists(t)') BY OthersKeep
  <2> QED BY <2>1 DEF Exists
<1>4. pc[q] \in Ending /\ holds[q] # NoSlot
        => (rows'[holds[q]].status = "active" <=> rows[holds[q]].status = "active")
  BY <1>1, <1>2, <1>3 DEF Serves, Owns, Active, Exists
<1> QED BY <1>1, <1>4 DEF Doing, Alive, Active, Ending

\* A step of a run is a step of its lease, or none.
LEMMA ActsLease ==
  ASSUME LeaseInv, TypeOK', NEW p \in Proc, Acts(p)
  PROVE  [Lease!Next]_(Lease!vars)
<1> DEFINE lease == [s \in Slot |-> LeaseOf(s)]
           doing == [q \in Proc |-> Doing(q)]
           Turns(to) == doing' = [doing EXCEPT ![p] = to]
<1>1. /\ rows \in [Slot -> Row] /\ Serves(p) /\ Serves(p)' /\ holds[p] \in Slot \cup {NoSlot}
      /\ NoSlot \notin Slot
      /\ \A t \in Slot : Owns(p, t) => Has(p, t)
  BY ItselfServes, PoolAssumption DEF LeaseInv, PortInv, TypeOK, Leased, Owns
<1>2. ASSUME NEW to, Doing(p)' = to PROVE Turns(to) BY <1>2, OthersDo
<1>3. doing[p] = Doing(p) OBVIOUS
<1>4. ASSUME Doing(p)' = Doing(p) PROVE doing' = doing BY <1>4, OthersDo
<1>5. ASSUME rows' = rows PROVE lease' = lease BY <1>5 DEF LeaseOf, Active
<1> USE DEF Seeking, Preparing, Driving, Ending, Using, Alive
<1>6. CASE Seeks(p)
  <2>1. Doing(p)' = "waiting" BY <1>6 DEF Seeks, Doing
  <2>2. Doing(p) = IF pc[p] = "idle" THEN "away" ELSE "waiting" BY <1>6 DEF Seeks, Doing
  <2> QED BY <1>2, <1>3, <1>4, <1>5, <1>6, <2>1, <2>2
         DEF Seeks, Lease!Next, Lease!Arrive, Lease!Becomes, Lease!vars
<1>7. CASE FindsNone(p)
  <2>1. Doing(p)' = "waiting" /\ Doing(p) = "waiting"
    BY <1>1, <1>7 DEF FindsNone, Doing, Serves, Active, Exists
  <2> QED BY <1>4, <1>5, <1>7, <2>1 DEF FindsNone, Lease!vars
<1>8. ASSUME NEW s \in Slot, Takes(p, s) PROVE [Lease!Next]_(Lease!vars)
  <2>1. Doing(p)' = "using" /\ Doing(p) = "waiting" BY <1>8 DEF Takes, Doing
  <2>2. LeaseOf(s) = NoProc BY <1>8 DEF Takes, LeaseOf, Pooled, Fresh, Exists, Active
  <2>3. /\ \A t \in Slot \ {s} : rows'[t] = rows[t]
        /\ rows'[s].status = "active" /\ rows'[s].owner = p
    BY <1>1, <1>8 DEF Takes, ActiveRow
  <2>4. \A t \in Slot : LeaseOf(t)' = IF t = s THEN p ELSE LeaseOf(t) BY <2>3 DEF LeaseOf, Active
  <2>5. lease' = [lease EXCEPT ![s] = p] BY <2>4
  <2> QED BY <1>2, <1>3, <2>1, <2>2, <2>5 DEF Lease!Next, Lease!Grant, Lease!Becomes
<1>9. CASE Prepares(p)
  <2>1. \A s \in Slot : rows'[s].status = rows[s].status /\ rows'[s].owner = rows[s].owner
    BY <1>1, <1>9 DEF Prepares, Row
  <2>2. lease' = lease BY <2>1 DEF LeaseOf, Active
  <2>3. Doing(p)' = Doing(p) BY <1>9 DEF Prepares, Doing
  <2> QED BY <1>4, <2>2, <2>3 DEF Lease!vars
<1>10. CASE Uses(p)
  <2>1. Doing(p)' = Doing(p) BY <1>10 DEF Uses, Doing
  <2> QED BY <1>4, <1>5, <1>10, <2>1 DEF Uses, Lease!vars
<1>11. CASE GoesAhead(p)
  <2>1. rows' = rows /\ holds'[p] = holds[p] BY <1>11 DEF GoesAhead
  <2>2. Doing(p)' = Doing(p) BY <1>1, <1>11, <2>1 DEF GoesAhead, Doing, Serves, Owns, Active
  <2> QED BY <1>4, <1>5, <2>1, <2>2 DEF Lease!vars
<1>12. ASSUME NEW s \in Slot, Owns(p, s), Doing(p) = "using", Doing(p)' = "waiting", NEW r \in Row,
              rows' = [rows EXCEPT ![s] = r], r.status # "active"
       PROVE  [Lease!Next]_(Lease!vars)
  <2>1. lease[s] = p BY <1>12 DEF LeaseOf, Owns
  <2>2. lease' = [lease EXCEPT ![s] = NoProc] BY <1>1, <1>12 DEF LeaseOf, Active
  <2> QED BY <1>2, <1>3, <1>12, <2>1, <2>2 DEF Lease!Next, Lease!Return, Lease!Becomes
<1>13. CASE Replaces(p)
  <2>1. holds[p] \in Slot /\ Owns(p, holds[p]) BY <1>1, <1>13 DEF Replaces, Serves
  <2>2. Doing(p) = "using" /\ Doing(p)' = "waiting" BY <1>13 DEF Replaces, Doing
  <2> QED BY <1>12, <1>13, <2>1, <2>2, RowShapes DEF Replaces, NoRow
<1>14. CASE Returns(p)
  <2>1. Doing(p)' = "waiting" BY <1>14 DEF Returns, Doing
  <2>2. CASE holds[p] \in Slot /\ Exists(holds[p])
    <3>1. Owns(p, holds[p]) BY <1>1, <1>14, <2>2 DEF Returns, Serves
    <3>2. Doing(p) = "using"
      <4>1. pc[p] = "release" /\ Active(holds[p]) /\ holds[p] # NoSlot
        BY <1>1, <1>14, <2>2, <3>1 DEF Returns, Owns
      <4> QED BY <4>1 DEF Doing
    <3>3. rows' = [rows EXCEPT ![holds[p]] = PooledRow(rows[holds[p]].uuid)]
      BY <1>1, <1>14, <2>2 DEF Returns, Freed
    <3>4. PooledRow(rows[holds[p]].uuid) \in Row BY <1>1, <2>2, RowShapes DEF Row
    <3> QED BY <1>12, <2>1, <2>2, <3>1, <3>2, <3>3, <3>4 DEF PooledRow
  <2>3. CASE ~(holds[p] \in Slot /\ Exists(holds[p]))
    <3>1. rows' = rows BY <1>1, <1>14, <2>3 DEF Returns
    <3>2. Doing(p) = "waiting" BY <1>1, <1>14, <2>3 DEF Returns, Doing, Active, Exists
    <3> QED BY <1>4, <1>5, <2>1, <3>1, <3>2 DEF Lease!vars
  <2> QED BY <2>2, <2>3
<1>15. CASE Goes(p)
  <2>1. Doing(p) = "waiting" /\ Doing(p)' = "away" BY <1>15 DEF Goes, Doing
  <2> QED BY <1>2, <1>3, <1>5, <1>15, <2>1 DEF Goes, Lease!Next, Lease!Leave, Lease!Becomes
<1> HIDE DEF lease, doing
<1> QED BY <1>6, <1>7, <1>8, <1>9, <1>10, <1>11, <1>13, <1>14, <1>15 DEF Acts

\* The table implements exclusive leases: granted to one run at a time, and given back by
\* that run only, for every number of runs, rows and ports.
THEOREM LeasesImplemented == ASSUME Orderly PROVE Spec => ImplementsLeases
<1>1. ASSUME Init PROVE Lease!Init
  <2>1. \A s \in Slot : ~Active(s) BY <1>1, LeaseInit DEF LeaseInv, Leased, Has, Init, Preparing, Driving, Ending
  <2>2. \A s \in Slot : LeaseOf(s) = NoProc BY <2>1 DEF LeaseOf
  <2>3. \A p \in Proc : Doing(p) = "away" BY <1>1 DEF Init, Doing, Alive
  <2> QED BY <2>2, <2>3 DEF Lease!Init
<1>2. ASSUME LeaseInv, [Next]_vars PROVE [Lease!Next]_(Lease!vars)
  <2>1. TypeOK' BY <1>2, TypeOKStep DEF LeaseInv, PortInv
  <2>2. ASSUME NEW p \in Proc, Step(p) PROVE [Lease!Next]_(Lease!vars)
    BY <1>2, <2>1, <2>2, StepActs, ActsLease
  <2>3. CASE UNCHANGED <<rows, pc, local>>
    <3>1. \A s \in Slot : LeaseOf(s)' = LeaseOf(s) BY <2>3 DEF LeaseOf, Active
    <3>2. \A p \in Proc : Doing(p)' = Doing(p) BY <2>3 DEF Doing, Alive, Active, local
    <3> QED BY <3>1, <3>2 DEF Lease!vars
  <2> QED BY <1>2, <2>2, <2>3 DEF Next, Crash, MachineLost, MachineStops, Quiet, vars, local, Orderly
<1> QED BY <1>1, <1>2, LeaseInvariant, PTL DEF Spec, ImplementsLeases, Lease!Spec
-----------------------------------------------------------------------------
(* With every fault: who can take the row of a live run.                   *)

\* A run has one row at most, the one it prepared last, which it drives.  What a sync
\* goes by was nobody's or a dead process's when it was read, and stays so.
OneRowEach ==
  \A s \in Slot : rows[s].owner # NoProc =>
    \/ pc[rows[s].owner] = "dead"
    \/ /\ pc[rows[s].owner] \in Preparing \cup Driving \cup Ending \cup {"exit"}
       /\ target[rows[s].owner] = s
DrivesItsTarget == \A q \in Proc : pc[q] \in Driving => holds[q] = target[q]
Abandoned(o) == o = NoProc \/ pc[o] = "dead"
SyncSaw == \A q \in Proc : pc[q] \in {"sync", "apply"} => \A r \in seen[q] : Abandoned(r[2])
PastInv == TypeOK /\ OneRowEach /\ DrivesItsTarget /\ SyncSaw

\* A step of p leaves what the others remember, and makes nobody but p an owner.
LEMMA OthersRemember ==
  ASSUME TypeOK, NEW p \in Proc, Step(p) \/ Crash(p)
  PROVE  \A q \in Proc : q # p =>
           pc'[q] = pc[q] /\ target'[q] = target[q] /\ holds'[q] = holds[q] /\ seen'[q] = seen[q]
<1> USE DEF TypeOK, Goto, local
<1>1. CASE Reconcile(p) \/ ReconcileRow(p) \/ ReconcileDone(p) \/ RemoveInstances(p) \/ WipeRow(p)
  BY <1>1 DEF Reconcile, ReconcileRow, ReconcileDone, RemoveInstances, WipeRow
<1>2. CASE SyncRead(p) \/ SyncCheck(p) \/ SyncApply(p) \/ SyncDone(p) \/ Find(p) \/ ReadPorts(p)
  BY <1>2 DEF SyncRead, SyncCheck, SyncApply, SyncDone, Find, ReadPorts
<1>3. CASE \/ Claim(p) \/ CountInstances(p) \/ PickOldest(p) \/ EvictMachine(p) \/ EvictRow(p)
           \/ Insert(p)
  BY <1>3 DEF Claim, CountInstances, PickOldest, EvictMachine, EvictRow, Insert
<1>4. CASE Restore(p) \/ Import(p) \/ RecordImport(p) \/ Interrupted(p) \/ UseInstance(p) \/ Verify(p)
  BY <1>4 DEF Restore, Import, RecordImport, Interrupted, UseInstance, Verify
<1>5. CASE \/ StartMachine(p) \/ RunEnds(p) \/ StopMachine(p) \/ Release(p) \/ Exit(p) \/ Crash(p)
  BY <1>5 DEF StartMachine, RunEnds, StopMachine, Release, Exit, Crash, Forget
<1> QED BY <1>1, <1>2, <1>3, <1>4, <1>5 DEF Step

\* What a step of p does to the owner of a row.
Passes(p, s) ==
  \/ rows'[s].owner \in {NoProc, rows[s].owner}
  \/ rows'[s].owner = p /\ target'[p] = s /\ pc'[p] \in Preparing

LEMMA OwnerPasses ==
  ASSUME TypeOK, NEW p \in Proc, Step(p) \/ Crash(p), NEW s \in Slot
  PROVE  Passes(p, s)
<1> USE DEF Passes
<1>1. CASE Claim(p)
  <2>1. CASE rows' = rows BY <2>1
  <2>2. CASE rows' # rows
    <3>1. /\ \E n, u : rows' = [rows EXCEPT ![target[p]] = ActiveRow(p, n, u)]
          /\ target' = target /\ pc'[p] \in Preparing
      BY <1>1, <2>2 DEF Claim, Goto, TypeOK, Preparing
    <3> QED BY <3>1 DEF TypeOK, ActiveRow
  <2> QED BY <2>1, <2>2
<1>2. CASE Insert(p)
  <2>1. CASE rows' = rows BY <2>1
  <2>2. CASE rows' # rows
    <3>1. PICK t \in Slot : \E n : /\ rows' = [rows EXCEPT ![t] = ActiveRow(p, n, FALSE)]
                                   /\ target' = [target EXCEPT ![p] = t]
      BY <1>2, <2>2 DEF Insert
    <3>2. pc'[p] \in Preparing BY <1>2, <2>2 DEF Insert, Goto, TypeOK, Preparing
    <3> QED BY <3>1, <3>2 DEF TypeOK, ActiveRow
  <2> QED BY <2>1, <2>2
<1>3. CASE ReconcileRow(p)
  <2>1. PICK r \in seen[p] : rows' = Freed(r[1]) \/ rows' = rows BY <1>3 DEF ReconcileRow
  <2> QED BY <2>1 DEF Freed, PooledRow, TypeOK
<1>4. CASE SyncApply(p)
  <2>1. PICK r \in seen[p] : rows' = Freed(r[1]) \/ rows' = rows BY <1>4 DEF SyncApply
  <2> QED BY <2>1 DEF Freed, PooledRow, TypeOK
<1>5. CASE EvictRow(p) \/ Verify(p) \/ Release(p) \/ RecordImport(p)
  BY <1>5 DEF EvictRow, Verify, Release, RecordImport, Freed, PooledRow, NoRow, TypeOK, Row
<1>6. ASSUME ~(\/ Claim(p) \/ Insert(p) \/ ReconcileRow(p) \/ SyncApply(p) \/ EvictRow(p)
               \/ Verify(p) \/ Release(p) \/ RecordImport(p))
      PROVE  rows' = rows
  BY <1>6 DEF Step, Reconcile, ReconcileDone, RemoveInstances, WipeRow, SyncRead, SyncCheck, SyncDone,
     Find, ReadPorts, CountInstances, PickOldest, EvictMachine, Restore, Import, Interrupted,
     UseInstance, StartMachine, RunEnds, StopMachine, Exit, Crash, Forget
<1> QED BY <1>1, <1>2, <1>3, <1>4, <1>5, <1>6

\* A run that has a row keeps its place with it, or gives the row back.
LEMMA OwnerKeeps ==
  ASSUME PastInv, NEW p \in Proc, Step(p) \/ Crash(p), NEW s \in Slot,
         rows[s].owner = p, rows'[s].owner = p
  PROVE  pc'[p] = "dead" \/ (pc'[p] \in Preparing \cup Driving \cup Ending \cup {"exit"} /\ target'[p] = s)
<1>1. /\ pc[p] \in Preparing \cup Driving \cup Ending \cup {"exit", "dead"}
      /\ pc[p] # "dead" => target[p] = s
      /\ pc[p] \in Driving => holds[p] = s
      /\ p # NoProc
  BY PoolAssumption DEF PastInv, OneRowEach, DrivesItsTarget, Preparing, Driving, Ending
<1> USE DEF PastInv, TypeOK, Goto, local, Preparing, Driving, Ending
<1>2. CASE Verify(p)
  <2>1. pc'[p] # "again" BY <1>1, <1>2 DEF Verify, NoRow
  <2> QED BY <1>1, <1>2, <2>1 DEF Verify
<1>3. CASE Restore(p) \/ Import(p) \/ RecordImport(p) \/ Interrupted(p) \/ UseInstance(p)
  BY <1>1, <1>3 DEF Restore, Import, RecordImport, Interrupted, UseInstance
<1>4. CASE StartMachine(p) \/ RunEnds(p) \/ StopMachine(p) \/ Release(p)
  BY <1>1, <1>4 DEF StartMachine, RunEnds, StopMachine, Release
<1>5. CASE Exit(p) \/ Crash(p) BY <1>5 DEF Exit, Crash, Forget
<1> QED BY <1>1, <1>2, <1>3, <1>4, <1>5 DEF Step, Reconcile, ReconcileRow, ReconcileDone, RemoveInstances,
     WipeRow, SyncRead, SyncCheck, SyncApply, SyncDone, Find, ReadPorts, Claim, CountInstances, PickOldest,
     EvictMachine, EvictRow, Insert

\* A process that is dead stays dead, and what a sync read as abandoned was that.
LEMMA SyncSees ==
  ASSUME PastInv, NEW p \in Proc, Step(p) \/ Crash(p), TypeOK'
  PROVE  SyncSaw'
<1> USE DEF PastInv, TypeOK
<1>1. \A o \in Proc \cup {NoProc} : Abandoned(o) => Abandoned(o)'
  <2>1. pc[p] = "dead" => FALSE
    BY DEF Step, Crash, Alive, Reconcile, ReconcileRow, ReconcileDone, RemoveInstances, WipeRow, SyncRead,
       SyncCheck, SyncApply, SyncDone, Find, ReadPorts, Claim, CountInstances, PickOldest, EvictMachine,
       EvictRow, Insert, Restore, Import, RecordImport, Interrupted, UseInstance, Verify, StartMachine,
       RunEnds, StopMachine, Release, Exit
  <2>2. ASSUME NEW o, pc[o] = "dead", o \in Proc PROVE pc'[o] = "dead" BY <2>1, <2>2, OthersRemember
  <2> QED BY <2>2 DEF Abandoned
<1>2. ASSUME NEW r \in seen'[p], pc'[p] \in {"sync", "apply"} PROVE Abandoned(r[2])
  <2>1. CASE SyncRead(p)
    <3>1. PICK s \in Slot : r[2] = rows[s].owner /\ ~Alive(rows[s].owner)
      BY <1>2, <2>1 DEF SyncRead, Unattended
    <3>2. rows[s].owner \in Proc \cup {NoProc} BY DEF Row
    <3> QED BY <3>1, <3>2 DEF OneRowEach, Abandoned, Alive, Preparing, Driving, Ending
  <2>2. CASE SyncCheck(p) \/ SyncApply(p)
    BY <1>2, <2>2 DEF SyncCheck, SyncApply, Goto, SyncSaw
  <2> QED BY <1>2, <2>1, <2>2 DEF Step, Crash, Forget, Goto, Reconcile, ReconcileRow, ReconcileDone,
       RemoveInstances, WipeRow, SyncDone, Find, ReadPorts, Claim, CountInstances, PickOldest,
       EvictMachine, EvictRow, Insert, Restore, Import, RecordImport, Interrupted, UseInstance, Verify,
       StartMachine, RunEnds, StopMachine, Release, Exit
<1>3. \A q \in Proc : q # p => pc'[q] = pc[q] /\ seen'[q] = seen[q] BY OthersRemember
<1>4. ASSUME NEW q \in Proc, pc'[q] \in {"sync", "apply"}, NEW r \in seen'[q] PROVE Abandoned(r[2])
  <2>1. CASE q = p BY <1>2, <1>4, <2>1
  <2>2. CASE q # p BY <1>3, <1>4, <2>2 DEF SyncSaw
  <2> QED BY <2>1, <2>2
<1>5. \A q \in Proc : \A r \in seen'[q] : r[2] \in Proc \cup {NoProc} OBVIOUS
<1> QED BY <1>1, <1>4, <1>5 DEF SyncSaw

LEMMA PastStep == ASSUME PastInv, [Next]_vars PROVE PastInv'
<1>0. TypeOK' BY TypeOKStep DEF PastInv
<1>1. ASSUME NEW p \in Proc, Step(p) \/ Crash(p) PROVE PastInv'
  <2>1. \A q \in Proc : q # p => pc'[q] = pc[q] /\ target'[q] = target[q] /\ holds'[q] = holds[q]
    BY <1>1, OthersRemember DEF PastInv
  <2>2. ASSUME NEW s \in Slot, rows'[s].owner # NoProc
        PROVE  \/ pc'[rows'[s].owner] = "dead"
               \/ /\ pc'[rows'[s].owner] \in Preparing \cup Driving \cup Ending \cup {"exit"}
                  /\ target'[rows'[s].owner] = s
    <3>1. Passes(p, s) BY <1>1, OwnerPasses DEF PastInv
    <3>2. CASE rows'[s].owner = rows[s].owner
      <4>1. rows[s].owner \in Proc BY <2>2, <3>2 DEF PastInv, TypeOK, Row
      <4>2. CASE rows[s].owner = p BY <1>1, <3>2, <4>2, OwnerKeeps
      <4>3. CASE rows[s].owner # p BY <2>1, <2>2, <3>2, <4>1, <4>3 DEF PastInv, OneRowEach
      <4> QED BY <4>2, <4>3
    <3>3. CASE rows'[s].owner = p /\ target'[p] = s /\ pc'[p] \in Preparing BY <3>3
    <3> QED BY <2>2, <3>1, <3>2, <3>3 DEF Passes
  <2>3. OneRowEach' BY <2>2 DEF OneRowEach
  <2>4. pc'[p] \in Driving => holds'[p] = target'[p]
    BY <1>1 DEF PastInv, TypeOK, DrivesItsTarget, Driving, Goto, local, Step, Crash, Forget, Reconcile,
       ReconcileRow, ReconcileDone, RemoveInstances, WipeRow, SyncRead, SyncCheck, SyncApply, SyncDone, Find,
       ReadPorts, Claim, CountInstances, PickOldest, EvictMachine, EvictRow, Insert, Restore, Import,
       RecordImport, Interrupted, UseInstance, Verify, StartMachine, RunEnds, StopMachine, Release, Exit
  <2>5. DrivesItsTarget' BY <2>1, <2>4 DEF DrivesItsTarget, PastInv
  <2> QED BY <1>0, <1>1, <2>3, <2>5, SyncSees DEF PastInv
<1>2. CASE UNCHANGED <<rows, pc, seen, target, holds>>
  BY <1>0, <1>2 DEF PastInv, OneRowEach, DrivesItsTarget, SyncSaw, Abandoned
<1> QED BY <1>1, <1>2 DEF Next, MachineLost, MachineStops, Quiet, vars, local

\* Whatever fails, is killed or removed meanwhile: another process takes the row of a live
\* run only by what it knew from before (sync_instance_states, reconcile_instances, the
\* eviction, a run that lost the row earlier), and a run has one row at most.
THEOREM TakenByThePast == Spec => []OneRowEach /\ LostToThePast
<1> DEFINE Kept == \A s \in Slot :
      Active(s) /\ Alive(rows[s].owner) /\ rows'[s] # rows[s] =>
        \/ pc'[rows[s].owner] # pc[rows[s].owner]
        \/ \E q \in Proc \ {rows[s].owner} : ReadAbandoned(q, s) \/ Remembered(q, s)
<1>1. Init => PastInv
  <2> SUFFICES ASSUME Init PROVE PastInv OBVIOUS
  <2>1. \A s \in Slot : rows[s].owner = NoProc
    BY DEF Init, PooledRow, ActiveRow, NoRow
  <2> QED BY <2>1, InitTypeOK DEF Init, PastInv, OneRowEach, DrivesItsTarget, SyncSaw, Driving
<1>2. PastInv /\ [Next]_vars => PastInv' BY PastStep
<1>3. ASSUME PastInv, [Next]_vars PROVE Kept
  <2> USE <1>3
  <2>1. ASSUME NEW p \in Proc, Step(p) \/ Crash(p), NEW s \in Slot, Active(s), Alive(rows[s].owner),
               rows'[s] # rows[s], pc'[rows[s].owner] = pc[rows[s].owner]
        PROVE  p # rows[s].owner /\ (ReadAbandoned(p, s) \/ Remembered(p, s))
    <3>1. /\ rows[s].owner \in Proc /\ rows[s].owner # NoProc
          /\ pc[rows[s].owner] \in Preparing \cup Driving \cup Ending \cup {"exit"}
          /\ target[rows[s].owner] = s
      <4>1. rows[s].owner \in Proc /\ pc[rows[s].owner] # "dead" BY <2>1 DEF Alive
      <4>2. rows[s].owner # NoProc BY <4>1, PoolAssumption
      <4> QED BY <4>1, <4>2 DEF PastInv, OneRowEach
    <3>2. \/ pc[p] \in {"apply", "reconcile"} /\ \E o \in Proc \cup {NoProc} :
                <<s, o>> \in seen[p] /\ seen'[p] = seen[p] \ {<<s, o>>} /\ ~Alive(o)
          \/ Remembered(p, s)
      <4>1. CASE ReconcileRow(p)
        <5>1. PICK r \in seen[p] : /\ seen' = [seen EXCEPT ![p] = @ \ {r}]
                                   /\ ~Alive(r[2]) /\ rows' = Freed(r[1])
          BY <2>1, <4>1 DEF ReconcileRow
        <5>2. r[1] = s BY <2>1, <5>1 DEF Freed, PastInv, TypeOK
        <5>3. PICK o \in Proc \cup {NoProc} : r = <<s, o>>
          <6>1. r \in Slot \X (Proc \cup {NoProc}) BY <2>1, <5>1 DEF PastInv, TypeOK
          <6> QED BY <5>2, <6>1
        <5>5. seen'[p] = seen[p] \ {<<s, o>>} BY <2>1, <5>1, <5>3 DEF PastInv, TypeOK
        <5> QED BY <2>1, <4>1, <5>1, <5>3, <5>5 DEF ReconcileRow
      <4>2. CASE SyncApply(p)
        <5>1. PICK r \in seen[p] : seen' = [seen EXCEPT ![p] = @ \ {r}] /\ rows' = Freed(r[1])
          BY <2>1, <4>2 DEF SyncApply
        <5>2. r[1] = s BY <2>1, <5>1 DEF Freed, PastInv, TypeOK
        <5>3. PICK o \in Proc \cup {NoProc} : r = <<s, o>>
          <6>1. r \in Slot \X (Proc \cup {NoProc}) BY <2>1, <5>1 DEF PastInv, TypeOK
          <6> QED BY <5>2, <6>1
        <5>5. seen'[p] = seen[p] \ {<<s, o>>} BY <2>1, <5>1, <5>3 DEF PastInv, TypeOK
        <5>4. ~Alive(o)
          <6>1. Abandoned(o) BY <2>1, <4>2, <5>1, <5>3 DEF SyncApply, PastInv, SyncSaw
          <6> QED BY <6>1, PoolAssumption DEF Abandoned, Alive
        <5> QED BY <4>2, <5>3, <5>4, <5>5 DEF SyncApply
      <4>3. CASE Claim(p) \/ Insert(p)
        <5>1. CASE Claim(p)
          <6>1. rows' = [rows EXCEPT ![target[p]] = ActiveRow(p, Lowest(used[p]), @.uuid)] /\ ~Active(target[p])
            BY <2>1, <5>1 DEF Claim, Claimable, Pooled, Active
          <6> QED BY <2>1, <6>1 DEF PastInv, TypeOK
        <5>2. CASE Insert(p)
          <6>1. \E t \in Slot : rows' = [rows EXCEPT ![t] = ActiveRow(p, Lowest(used[p]), FALSE)] /\ ~Active(t)
            BY <2>1, <5>2 DEF Insert, Fresh, Exists, Active
          <6> QED BY <2>1, <6>1 DEF PastInv, TypeOK
        <5> QED BY <4>3, <5>1, <5>2
      <4>4. CASE EvictRow(p) \/ RecordImport(p) \/ Verify(p) \/ Release(p)
        <5> USE DEF Remembered, Goto, PastInv, TypeOK
        <5>1. CASE EvictRow(p)
          <6>1. target[p] = s /\ pc[p] = "delete" BY <2>1, <5>1 DEF EvictRow
          <6> QED BY <2>1, <5>1, <6>1 DEF EvictRow
        <5>2. CASE RecordImport(p)
          <6>1. target[p] = s /\ pc[p] = "imported" BY <2>1, <5>2 DEF RecordImport
          <6> QED BY <2>1, <5>2, <6>1 DEF RecordImport
        <5>3. CASE Verify(p)
          <6>1. holds[p] = s /\ pc[p] = "verify" BY <2>1, <5>3 DEF Verify
          <6> QED BY <2>1, <5>3, <6>1 DEF Verify
        <5>4. CASE Release(p)
          <6>1. holds[p] = s /\ pc[p] = "release" BY <2>1, <5>4 DEF Release, Freed
          <6> QED BY <2>1, <5>4, <6>1 DEF Release
        <5> QED BY <4>4, <5>1, <5>2, <5>3, <5>4
      <4>5. ~(Reconcile(p) \/ ReconcileDone(p) \/ RemoveInstances(p) \/ WipeRow(p) \/ SyncRead(p) \/ SyncCheck(p)
              \/ SyncDone(p) \/ Find(p) \/ ReadPorts(p) \/ CountInstances(p) \/ PickOldest(p) \/ EvictMachine(p)
              \/ Restore(p) \/ Import(p) \/ Interrupted(p) \/ UseInstance(p) \/ StartMachine(p) \/ RunEnds(p)
              \/ StopMachine(p) \/ Exit(p) \/ Crash(p))
        BY <2>1 DEF Reconcile, ReconcileDone, RemoveInstances, WipeRow, SyncRead, SyncCheck, SyncDone, Find,
           ReadPorts, CountInstances, PickOldest, EvictMachine, Restore, Import, Interrupted, UseInstance,
           StartMachine, RunEnds, StopMachine, Exit, Crash, Forget
      <4> QED BY <2>1, <4>1, <4>2, <4>3, <4>4, <4>5 DEF Step
    <3>3. p # rows[s].owner
      BY <2>1, <3>1, <3>2 DEF Remembered, Preparing, Driving, Ending
    <3>4. ReadAbandoned(p, s) \/ Remembered(p, s) BY <3>2 DEF ReadAbandoned
    <3> QED BY <3>3, <3>4
  <2>2. ASSUME NEW p \in Proc, Step(p) \/ Crash(p) PROVE Kept BY <2>1, <2>2
  <2>3. CASE rows' = rows BY <2>3
  <2> QED BY <1>3, <2>2, <2>3 DEF Next, MachineLost, MachineStops, Quiet, vars, local
<1>4. Kept => [Kept]_vars OBVIOUS
<1>5. PastInv => OneRowEach BY DEF PastInv
<1> QED BY <1>1, <1>2, <1>3, <1>4, <1>5, PTL DEF Spec, LostToThePast
=============================================================================
