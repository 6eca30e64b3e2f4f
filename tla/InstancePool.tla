------------------------------ MODULE InstancePool ------------------------------
(***************************************************************************)
(* The pool of VirtualBox instances of one source VM, shared by every      *)
(* `adare` process of a host through the vm_instance table                 *)
(* (backend/vm/instance_manager.py, database/api/vm/instances.py,          *)
(* backend/vm/port_manager.py, backend/vm/commands.py).                    *)
(*                                                                         *)
(* One step is one database transaction or one hypervisor call: between    *)
(* two steps of a process every other process may run.  A process carries  *)
(* what it read in seen, used and target; the table may have moved on.     *)
(***************************************************************************)
EXTENDS Naturals, FiniteSets

CONSTANTS
  Proc,          \* operating-system processes; each runs one experiment or, as a Janitor,
                 \* one command
  Janitor,       \* those that reconcile (`adare vm prune`, QEMU runs) or remove instances
  Slot,          \* ids of vm_instance rows
  Port,          \* PORT_RANGE_START .. PORT_RANGE_END
  MaxInstances,  \* MAX_INSTANCES_PER_VM
  Rested,        \* rows that may be in the pool at the start
  Leftover,      \* rows a process that is long gone may have left active
  Faults,        \* what the environment may do, see AllFaults
  NoProc, NoPort, NoSlot

AllFaults == {"crash",       \* a process is killed
              "interrupt",   \* the preparation of the VM is interrupted or times out
              "stopfails",   \* stopping the VM raises, so the cleanup gives up
              "vmlost",      \* somebody removes a VM from VirtualBox
              "poweroff"}    \* a VM nobody drives any more powers off

ASSUME PoolAssumption ==
  /\ Janitor \subseteq Proc
  /\ Port \subseteq Nat
  /\ MaxInstances \in Nat
  /\ IsFiniteSet(Slot)
  /\ Rested \subseteq Slot /\ Leftover \subseteq Slot \ Rested
  /\ Faults \subseteq AllFaults
  /\ NoProc \notin Proc /\ NoPort \notin Port /\ NoSlot \notin Slot

VARIABLES
  rows,     \* the vm_instance table
  hyper,    \* VirtualBox: the state of the machine behind a row
  pc,       \* where a process is
  seen,     \* rows a process read and will act upon, with the owner it read
  used,     \* ports a process believes taken
  target,   \* the row a process is about to claim, evict or prepare
  holds,    \* context.vm_instance_id of the run
  again     \* has the run already replaced a machine that had vanished?

vars == <<rows, hyper, pc, seen, used, target, holds, again>>
local == <<seen, used, target, holds, again>>

Location == {"idle", "reconcile", "again", "sync", "apply", "find", "ports", "claim",
             "count", "oldest", "evict", "delete", "reserve", "insert",
             "restore", "import", "imported", "record", "verify", "start",
             "running", "cleanup", "release", "wipe", "force", "exit", "dead"}

\* owner stands for owner_pid and current_experiment_run_id: every statement
\* that writes one writes the other.
Row == [status : {"none", "active", "available"},
        owner  : Proc \cup {NoProc},
        port   : Port \cup {NoPort},
        uuid   : BOOLEAN]

NoRow        == [status |-> "none",      owner |-> NoProc, port |-> NoPort, uuid |-> FALSE]
PooledRow(u) == [status |-> "available", owner |-> NoProc, port |-> NoPort, uuid |-> u]
ActiveRow(p, n, u) == [status |-> "active", owner |-> p, port |-> n, uuid |-> u]

TypeOK ==
  /\ rows   \in [Slot -> Row]
  /\ hyper  \in [Slot -> {"absent", "off", "running"}]
  /\ pc     \in [Proc -> Location]
  /\ seen   \in [Proc -> SUBSET (Slot \X (Proc \cup {NoProc}))]
  /\ used   \in [Proc -> SUBSET Port]
  /\ target \in [Proc -> Slot \cup {NoSlot}]
  /\ holds  \in [Proc -> Slot \cup {NoSlot}]
  /\ again  \in [Proc -> BOOLEAN]

-----------------------------------------------------------------------------
Alive(p)    == p \in Proc /\ pc[p] \notin {"idle", "dead"}
Exists(s)   == rows[s].status # "none"
Active(s)   == rows[s].status = "active"
Pooled(s)   == rows[s].status = "available"

\* No live process holds the row: sync_instance_states may look at it.
UnattendedOrNot(s) == Active(s)                                  \* mutant of Unattended
Unattended(s)      == Active(s) /\ ~Alive(rows[s].owner)

\* What the UPDATE of claim_available_vm_instance requires of the row ...
ClaimableById(s) == Exists(s)                                    \* mutant of Claimable
Claimable(s)     == Pooled(s)

ActivePorts     == {rows[s].port : s \in {t \in Slot : Active(t)}} \ {NoPort}

\* ... and what the unique index on active ports refuses.
TakenUnindexed(n) == FALSE                                       \* mutant of Taken
Taken(n)          == n \in ActivePorts

\* The port loops: candidates in order, each tried once.
Free(u)         == Port \ u
LowestTooLow(u) == (CHOOSE n \in Free(u) : \A m \in Free(u) : n <= m) - 1  \* mutant of Lowest
Lowest(u)       == CHOOSE n \in Free(u) : \A m \in Free(u) : n <= m
Tried(u)        == u \cup {Lowest(u)}

InstanceCount   == Cardinality({s \in Slot : Exists(s)})

\* update_vm_instance(..., status='available', current_experiment_run_id=None,
\* websocket_port=None, owner_pid=None): the row is looked up by id alone.
FreedWithPort(s) == [rows EXCEPT ![s].status = "available", ![s].owner = NoProc]  \* mutant of Freed
Freed(s) == [rows EXCEPT ![s] = PooledRow(@.uuid)]

\* Ids are never used twice: a slot is fresh when nothing remembers it.
Fresh(s) == /\ ~Exists(s)
            /\ \A q \in Proc : /\ target[q] # s /\ holds[q] # s
                              /\ \A r \in seen[q] : r[1] # s

Goto(p, l) == pc' = [pc EXCEPT ![p] = l]

Init ==
  /\ \E old \in SUBSET Rested, gone \in SUBSET Leftover :
       \E n \in [gone -> Port] :
         /\ \A s, t \in gone : s # t => n[s] # n[t]
         /\ rows = [s \in Slot |-> IF s \in old THEN PooledRow(TRUE)
                                   ELSE IF s \in gone THEN ActiveRow(NoProc, n[s], TRUE)
                                   ELSE NoRow]
         /\ hyper = [s \in Slot |-> IF s \in old \cup gone THEN "off" ELSE "absent"]
  /\ pc     = [p \in Proc |-> "idle"]
  /\ seen   = [p \in Proc |-> {}]
  /\ used   = [p \in Proc |-> {}]
  /\ target = [p \in Proc |-> NoSlot]
  /\ holds  = [p \in Proc |-> NoSlot]
  /\ again  = [p \in Proc |-> FALSE]

-----------------------------------------------------------------------------
(* reconcile_instances: the rows are read once, then handled one by one.   *)
Reconcile(p) ==
  /\ pc[p] = "idle" /\ p \in Janitor
  /\ seen' = [seen EXCEPT ![p] = {<<s, rows[s].owner>> : s \in {t \in Slot : Active(t)}}]
  /\ Goto(p, "reconcile")
  /\ UNCHANGED <<rows, hyper, used, target, holds, again>>

\* _is_stale looks at the owner that was read, release_instance at the id.
ReconcileRow(p) ==
  /\ pc[p] = "reconcile"
  /\ \E r \in seen[p] :
       /\ seen' = [seen EXCEPT ![p] = @ \ {r}]
       /\ rows' = IF r[2] # NoProc /\ ~Alive(r[2]) /\ Exists(r[1]) THEN Freed(r[1]) ELSE rows
  /\ UNCHANGED <<hyper, pc, used, target, holds, again>>

\* The end of a reconcile, or of a removal.
ReconcileDone(p) ==
  /\ pc[p] \in {"reconcile", "wipe"} /\ seen[p] = {}
  /\ Goto(p, "exit")
  /\ UNCHANGED <<rows, hyper, local>>

-----------------------------------------------------------------------------
(* `adare vm instance remove` of one instance, also by force, and the web  *)
(* API's removal of all that are stopped: no owner is looked at.           *)
RemoveInstances(p) ==
  /\ pc[p] = "idle" /\ p \in Janitor
  /\ LET all == {<<s, NoProc>> : s \in {t \in Slot : Exists(t)}}
     IN \/ seen' = [seen EXCEPT ![p] = all] /\ Goto(p, "wipe")
        \/ \E r \in all : seen' = [seen EXCEPT ![p] = {r}] /\ Goto(p, "force")
  /\ UNCHANGED <<rows, hyper, used, target, holds, again>>

\* cleanup_instance up to the removal of the machine: a running one is spared.
\* Machine and row go the way of an eviction.
WipeRow(p) ==
  /\ pc[p] \in {"wipe", "force"}
  /\ \E r \in seen[p] :
       LET s == r[1]
           spared == \/ ~Exists(s)
                     \/ pc[p] = "wipe" /\ rows[s].uuid /\ hyper[s] = "running"
       IN /\ seen' = [seen EXCEPT ![p] = @ \ {r}]
          /\ IF spared
             THEN Goto(p, "wipe") /\ UNCHANGED target
             ELSE /\ target' = [target EXCEPT ![p] = s]
                  /\ Goto(p, IF rows[s].uuid THEN "evict" ELSE "delete")
  /\ UNCHANGED <<rows, hyper, used, holds, again>>

-----------------------------------------------------------------------------
(* allocate_instance_for_experiment.                                       *)

\* sync_instance_states reads the rows no live process holds ...  Rows read as
\* 'available' never lead to an update, so only the others are kept.
SyncRead(p) ==
  /\ pc[p] = "again" \/ (pc[p] = "idle" /\ p \notin Janitor)
  /\ seen' = [seen EXCEPT ![p] = {<<s, rows[s].owner>> :
                                    s \in {t \in Slot : Unattended(t)}}]
  /\ Goto(p, "sync")
  /\ UNCHANGED <<rows, hyper, used, target, holds, again>>

\* ... asks VirtualBox for their states: a running machine is left as it is ...
SyncCheck(p) ==
  /\ pc[p] = "sync"
  /\ seen' = [seen EXCEPT ![p] = {r \in @ : ~(rows[r[1]].uuid /\ hyper[r[1]] = "running")}]
  /\ Goto(p, "apply")
  /\ UNCHANGED <<rows, hyper, used, target, holds, again>>

\* ... and then frees each of them, whoever holds the row by now.
SyncApply(p) ==
  /\ pc[p] = "apply"
  /\ \E r \in seen[p] :
       IF Exists(r[1])
       THEN /\ rows' = Freed(r[1])
            /\ seen' = [seen EXCEPT ![p] = @ \ {r}]
            /\ UNCHANGED pc
       ELSE /\ Goto(p, "cleanup")      \* VMNotFoundError ends the allocation
            /\ seen' = [seen EXCEPT ![p] = {}]
            /\ UNCHANGED rows
  /\ UNCHANGED <<hyper, used, target, holds, again>>

SyncDone(p) ==
  /\ pc[p] = "apply" /\ seen[p] = {}
  /\ Goto(p, "find")
  /\ UNCHANGED <<rows, hyper, local>>

\* find_available_instance: the most recently used one, any of them here.
Find(p) ==
  /\ pc[p] = "find"
  /\ \/ \E s \in Slot : /\ Pooled(s)
                        /\ target' = [target EXCEPT ![p] = s]
                        /\ Goto(p, "ports")
     \/ /\ \A s \in Slot : ~Pooled(s)
        /\ Goto(p, "count")
        /\ UNCHANGED target
  /\ UNCHANGED <<rows, hyper, seen, used, holds, again>>

\* The scan for taken ports at the head of reuse_instance and of
\* reserve_port_atomically.
ReadPorts(p) ==
  /\ \/ pc[p] = "ports"   /\ Goto(p, "claim")
     \/ pc[p] = "reserve" /\ Goto(p, "insert")
  /\ used' = [used EXCEPT ![p] = ActivePorts]
  /\ UNCHANGED <<rows, hyper, seen, target, holds, again>>

\* claim_available_vm_instance, one candidate port per step: the row must still
\* be 'available' and the port must not be that of another active row.
Claim(p) ==
  LET s == target[p] IN
  /\ pc[p] = "claim"
  /\ \/ /\ Free(used[p]) # {} /\ Claimable(s) /\ ~Taken(Lowest(used[p]))
        /\ rows' = [rows EXCEPT ![s] = ActiveRow(p, Lowest(used[p]), @.uuid)]
        /\ Goto(p, IF rows[s].uuid THEN "restore" ELSE "import")
        /\ UNCHANGED used
     \/ /\ Free(used[p]) # {} /\ Claimable(s) /\ Taken(Lowest(used[p]))
        /\ used' = [used EXCEPT ![p] = Tried(@)]   \* IntegrityError
        /\ UNCHANGED <<rows, pc>>
     \/ /\ Free(used[p]) # {} /\ ~Claimable(s)
        /\ Goto(p, "count")                      \* lost the race: create instead
        /\ UNCHANGED <<rows, used>>
     \/ /\ Free(used[p]) = {}
        /\ Goto(p, "cleanup")                    \* VMError
        /\ UNCHANGED <<rows, used>>
  /\ UNCHANGED <<hyper, seen, target, holds, again>>

-----------------------------------------------------------------------------
(* create_new_instance.                                                    *)
CountInstances(p) ==
  /\ pc[p] = "count"
  /\ Goto(p, IF InstanceCount >= MaxInstances THEN "oldest" ELSE "reserve")
  /\ UNCHANGED <<rows, hyper, local>>

\* cleanup_oldest_available_instance reads the available rows, ...
PickOldest(p) ==
  /\ pc[p] = "oldest"
  /\ \/ \E s \in Slot : /\ Pooled(s)
                        /\ target' = [target EXCEPT ![p] = s]
                        /\ Goto(p, IF rows[s].uuid THEN "evict" ELSE "delete")
     \/ /\ \A s \in Slot : ~Pooled(s)
        /\ Goto(p, "cleanup")                    \* at capacity: VMError
        /\ UNCHANGED target
  /\ UNCHANGED <<rows, hyper, seen, used, holds, again>>

\* ... removes the machine (stopping it first), ...
EvictMachine(p) ==
  /\ pc[p] = "evict"
  /\ hyper' = [hyper EXCEPT ![target[p]] = "absent"]
  /\ Goto(p, "delete")
  /\ UNCHANGED <<rows, local>>

\* ... and deletes the row by its id.
EvictRow(p) ==
  /\ pc[p] = "delete"
  /\ IF Exists(target[p])
     THEN /\ rows' = [rows EXCEPT ![target[p]] = NoRow]
          /\ Goto(p, IF p \in Janitor THEN "wipe" ELSE "reserve")
     ELSE /\ UNCHANGED rows                       \* VMNotFoundError
          /\ Goto(p, IF p \in Janitor THEN "exit" ELSE "cleanup")
  /\ UNCHANGED <<hyper, local>>

\* create_vm_instance inside reserve_port_atomically, one port per step.
Insert(p) ==
  /\ pc[p] = "insert"
  /\ \/ /\ Free(used[p]) # {} /\ ~Taken(Lowest(used[p]))
        /\ \E s \in Slot :
             /\ Fresh(s)
             /\ rows' = [rows EXCEPT ![s] = ActiveRow(p, Lowest(used[p]), FALSE)]
             /\ hyper' = [hyper EXCEPT ![s] = "absent"]
             /\ target' = [target EXCEPT ![p] = s]
        /\ Goto(p, "import")
        /\ UNCHANGED used
     \/ /\ Free(used[p]) # {} /\ Taken(Lowest(used[p]))
        /\ used' = [used EXCEPT ![p] = Tried(@)]
        /\ UNCHANGED <<rows, hyper, pc, target>>
     \/ /\ Free(used[p]) = {}
        /\ Goto(p, "cleanup")
        /\ UNCHANGED <<rows, hyper, used, target>>
  /\ UNCHANGED <<seen, holds, again>>

-----------------------------------------------------------------------------
(* ensure_vm_ready_for_experiment: what is done with the row just taken.   *)

\* _restore_pooled_instance: a machine that is missing is only warned about.
Restore(p) ==
  /\ pc[p] = "restore"
  /\ hyper' = [hyper EXCEPT ![target[p]] = IF @ = "absent" THEN @ ELSE "off"]
  /\ Goto(p, "record")
  /\ UNCHANGED <<rows, local>>

Import(p) ==
  /\ pc[p] = "import"
  /\ hyper' = [hyper EXCEPT ![target[p]] = "off"]
  /\ Goto(p, "imported")
  /\ UNCHANGED <<rows, local>>

RecordImport(p) ==
  /\ pc[p] = "imported"
  /\ IF Exists(target[p])
     THEN rows' = [rows EXCEPT ![target[p]].uuid = TRUE] /\ Goto(p, "record")
     ELSE UNCHANGED rows /\ Goto(p, "cleanup")
  /\ UNCHANGED <<hyper, local>>

\* The early returns of None: the row stays active, the context never learns of it.
Interrupted(p) ==
  /\ "interrupt" \in Faults
  /\ pc[p] \in {"restore", "import", "imported", "record"}
  /\ Goto(p, "cleanup")
  /\ UNCHANGED <<rows, hyper, local>>

\* _use_instance
UseInstance(p) ==
  LET s == target[p] IN
  /\ pc[p] = "record"
  /\ IF Exists(s) /\ rows[s].port # NoPort
     THEN holds' = [holds EXCEPT ![p] = s] /\ Goto(p, "verify")
     ELSE UNCHANGED holds /\ Goto(p, "cleanup")
  /\ UNCHANGED <<rows, hyper, seen, used, target, again>>

ReplacesAgain(p) == TRUE                                         \* mutant of MayReplace
MayReplace(p)    == ~again[p]

\* verify_and_cleanup_vm_instance_for_experiment deletes the row of a machine
\* that is gone; create_and_prepare_vm then allocates once more.
Verify(p) ==
  LET s == holds[p] IN
  /\ pc[p] = "verify"
  /\ \/ /\ Exists(s) /\ rows[s].uuid /\ hyper[s] # "absent"
        /\ Goto(p, "start")
        /\ UNCHANGED <<rows, again>>
     \/ /\ Exists(s) /\ rows[s].uuid /\ hyper[s] = "absent" /\ MayReplace(p)
        /\ rows' = [rows EXCEPT ![s] = NoRow]
        /\ again' = [again EXCEPT ![p] = TRUE]
        /\ Goto(p, "again")
     \/ /\ ~Exists(s) \/ ~rows[s].uuid \/ (hyper[s] = "absent" /\ ~MayReplace(p))
        /\ Goto(p, "cleanup")
        /\ UNCHANGED <<rows, again>>
  /\ UNCHANGED <<hyper, seen, used, target, holds>>

\* A machine that is gone cannot be started.
StartMachine(p) ==
  /\ pc[p] = "start"
  /\ IF hyper[holds[p]] = "absent"
     THEN UNCHANGED hyper /\ Goto(p, "cleanup")
     ELSE hyper' = [hyper EXCEPT ![holds[p]] = "running"] /\ Goto(p, "running")
  /\ UNCHANGED <<rows, local>>

RunEnds(p) ==
  /\ pc[p] = "running"
  /\ Goto(p, "cleanup")
  /\ UNCHANGED <<rows, hyper, local>>

-----------------------------------------------------------------------------
(* The cleanup of a run: stop the machine, then release the row.           *)
StopMachine(p) ==
  /\ pc[p] = "cleanup"
  /\ \/ /\ hyper' = IF holds[p] # NoSlot /\ hyper[holds[p]] = "running"
                     THEN [hyper EXCEPT ![holds[p]] = "off"] ELSE hyper
        /\ Goto(p, "release")
     \/ /\ "stopfails" \in Faults
        /\ holds[p] # NoSlot
        /\ Goto(p, "exit")         \* an exception skips the rest of the cleanup
        /\ UNCHANGED hyper
  /\ UNCHANGED <<rows, local>>

\* release_instance
Release(p) ==
  /\ pc[p] = "release"
  /\ rows' = IF holds[p] # NoSlot /\ Exists(holds[p]) THEN Freed(holds[p]) ELSE rows
  /\ Goto(p, "exit")
  /\ UNCHANGED <<hyper, local>>

\* What the process remembered is gone with it.
Forget(p) ==
  /\ Goto(p, "dead")
  /\ seen'   = [seen   EXCEPT ![p] = {}]
  /\ used'   = [used   EXCEPT ![p] = {}]
  /\ target' = [target EXCEPT ![p] = NoSlot]
  /\ holds'  = [holds  EXCEPT ![p] = NoSlot]
  /\ again'  = [again  EXCEPT ![p] = FALSE]
  /\ UNCHANGED <<rows, hyper>>

Exit(p)  == pc[p] = "exit" /\ Forget(p)
Crash(p) == "crash" \in Faults /\ Alive(p) /\ Forget(p)

-----------------------------------------------------------------------------
(* VirtualBox on its own.                                                  *)
MachineLost(s) ==
  /\ "vmlost" \in Faults
  /\ hyper[s] # "absent"
  /\ hyper' = [hyper EXCEPT ![s] = "absent"]
  /\ UNCHANGED <<rows, pc, local>>

MachineStops(s) ==
  /\ "poweroff" \in Faults
  /\ hyper[s] = "running"
  /\ hyper' = [hyper EXCEPT ![s] = "off"]
  /\ UNCHANGED <<rows, pc, local>>

\* Every process has ended: the host is idle.
Quiet == (\A p \in Proc : pc[p] = "dead") /\ UNCHANGED vars

Step(p) ==
  \/ Reconcile(p) \/ ReconcileRow(p) \/ ReconcileDone(p) \/ RemoveInstances(p) \/ WipeRow(p)
  \/ SyncRead(p) \/ SyncCheck(p) \/ SyncApply(p) \/ SyncDone(p)
  \/ Find(p) \/ ReadPorts(p) \/ Claim(p)
  \/ CountInstances(p) \/ PickOldest(p) \/ EvictMachine(p) \/ EvictRow(p) \/ Insert(p)
  \/ Restore(p) \/ Import(p) \/ RecordImport(p) \/ Interrupted(p) \/ UseInstance(p)
  \/ Verify(p) \/ StartMachine(p) \/ RunEnds(p)
  \/ StopMachine(p) \/ Release(p) \/ Exit(p)

Next ==
  \/ \E p \in Proc : Step(p) \/ Crash(p)
  \/ \E s \in Slot : MachineLost(s) \/ MachineStops(s)
  \/ Quiet

Spec == Init /\ [][Next]_vars

\* A process that has begun is scheduled until it ends.
FairSpec == Spec /\ \A p \in Proc : WF_vars(Alive(p) /\ Step(p))

-----------------------------------------------------------------------------
(* Properties.                                                             *)

\* No two active rows share a websocket port, whatever fails and whoever races:
\* the retry loops of reuse_instance and reserve_port_atomically never settle
\* for a port that was taken since they scanned.
PortsDistinct ==
  \A s, t \in Slot : Active(s) /\ Active(t) /\ s # t => rows[s].port # rows[t].port

\* A row that is not active holds no port and no owner: no path that ends a
\* lease (sync, release, reconcile) leaves a port behind that cleanup_orphaned_ports
\* would have to find.
NoOrphanedPort ==
  \A s \in Slot : ~Active(s) => rows[s].port = NoPort /\ rows[s].owner = NoProc

\* A machine is driven by at most one process at a time: two runs never restore,
\* boot or stop the same VirtualBox VM.
Drives(p, s) == holds[p] = s /\ pc[p] \in {"start", "running"}
ExclusiveMachine ==
  \A p, q \in Proc : \A s \in Slot : Drives(p, s) /\ Drives(q, s) => p = q

\* Counting the rows and inserting one are two transactions: runs that count beside
\* each other exceed the capacity, but by no more than one row for each run but one,
\* however many are killed on the way or evict the same row.
Runner == Proc \ Janitor
CapacityBounded == InstanceCount < MaxInstances + Cardinality(Runner)

\* Of the processes that race for a row only one gets it: a row becomes somebody's
\* only out of the pool or out of nothing (claim_available_vm_instance, create_vm_instance).
TakenOnlyFromPool ==
  [][\A s \in Slot : rows'[s].owner \notin {NoProc, rows[s].owner} => ~Active(s)]_vars

\* The row of a live process changes only by a step of that process:
\* sync_instance_states, reconcile_instances and the eviction leave it alone.
LeaseKept ==
  [][\A s \in Slot :
       Active(s) /\ Alive(rows[s].owner) /\ rows'[s] # rows[s]
         => pc'[rows[s].owner] # pc[rows[s].owner]]_vars

\* Whatever fails, a live run loses its row to another only by what that one knew from
\* before: a sync or reconcile that read the row when nobody alive had it (its own check
\* of owner_pid), an eviction or removal that chose it, or a run that had it itself.
ReadAbandoned(q, s) ==
  /\ pc[q] \in {"apply", "reconcile"} /\ seen'[q] # seen[q]
  /\ \E o \in Proc \cup {NoProc} : <<s, o>> \in seen[q] /\ ~Alive(o)
Remembered(q, s) ==
  /\ pc'[q] # pc[q]
  /\ \/ pc[q] \in {"delete", "imported"} /\ target[q] = s
     \/ pc[q] \in {"verify", "release"} /\ holds[q] = s
LostToThePast ==
  [][\A s \in Slot :
       Active(s) /\ Alive(rows[s].owner) /\ rows'[s] # rows[s]
         => \/ pc'[rows[s].owner] # pc[rows[s].owner]
            \/ \E q \in Proc \ {rows[s].owner} : ReadAbandoned(q, s) \/ Remembered(q, s)]_vars

\* While nobody crashes, is interrupted or reconciles, and no row was left behind,
\* the table implements exclusive leases: a row goes to one run at a time, and
\* only the step of that run that returns it takes it away again.
Using == {"restore", "import", "imported", "record", "verify", "start", "running"}
Doing(p) ==
  IF ~Alive(p) THEN "away"
  ELSE IF \/ pc[p] \in Using
          \/ pc[p] \in {"cleanup", "release"} /\ holds[p] # NoSlot /\ Active(holds[p])
       THEN "using" ELSE "waiting"
LeaseOf(s) == IF Active(s) THEN rows[s].owner ELSE NoProc
Lease == INSTANCE Leases WITH
  Holder <- Proc, Resource <- Slot, Nobody <- NoProc,
  lease <- [s \in Slot |-> LeaseOf(s)], doing <- [p \in Proc |-> Doing(p)]
ImplementsLeases == Lease!Spec

\* An allocation never hangs: every process that has begun ends, so the port retry
\* loops terminate, and so does the replacement of machines that keep vanishing.
EveryRunEnds == \A p \in Proc : Alive(p) ~> pc[p] = "dead"
=============================================================================
