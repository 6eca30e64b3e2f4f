------------------------------ MODULE RunInstances ------------------------------
(***************************************************************************)
(* The QEMU instances of a host: an instance is a row of vm_instance, run  *)
(* files (config, overlay, varstore, vTPM copy) and a libvirt domain, all  *)
(* under one name (backend/vm/run_instances.py,                            *)
(* hypervisor/qemu/run_resources.py).  Runs and `adare dev start` create   *)
(* one each, `adare dev remove` removes the instance of a dev session, and *)
(* every run, every dev start and `adare vm prune` reconciles what others  *)
(* left behind.  The instance of a process is named after the process, so  *)
(* the owner_pid of a row is its name.                                     *)
(***************************************************************************)
EXTENDS Naturals, FiniteSets

CONSTANTS
  Run, Dev,   \* experiment runs, and `adare dev start` commands
  Prune,      \* `adare vm prune --force` commands
  Remover,    \* `adare dev remove` commands
  Old,        \* instances of the pooled design: rows 'available', with files
  Saved,      \* dev sessions saved before the behaviour begins
  Undeletable,\* instances whose run files may prove undeletable
  Unreached,  \* instances whose domain libvirtd may not answer about
  Faults,     \* see AllFaults
  Nobody

AllFaults == {"crash",        \* a process is killed
              "interrupt",    \* the preparation is interrupted, or it fails
              "stopfails"}    \* a cleanup step raises before the VM is removed

Proc == Run \cup Dev \cup Prune \cup Remover
Name == Run \cup Dev \cup Old

ASSUME RunsAssumption ==
  /\ Saved \subseteq Dev
  /\ Run \cap Dev = {} /\ (Run \cup Dev) \cap (Prune \cup Remover) = {} /\ Prune \cap Remover = {}
  /\ Old \cap Proc = {}
  /\ Undeletable \cup Unreached \subseteq Name
  /\ Faults \subseteq AllFaults
  /\ Nobody \notin Proc \cup Old

VARIABLES
  rows,      \* names with a row in vm_instance
  files,     \* names with run files on disk
  domain,    \* libvirt's domains
  sessions,  \* dev sessions in the database
  pc,
  skip,      \* dev_names: sessions read at the start of reconcile_instances
  disk,      \* run_names_on_disk: what was found on disk after that
  known,     \* the names of the rows read last
  todo,      \* rows of `known` still to be looked at
  victim,    \* the instance a process is removing
  doomed     \* history: instances nobody was using when the reconcile began

vars  == <<rows, files, domain, sessions, pc, skip, disk, known, todo, victim, doomed>>
stores == <<rows, files, domain, sessions>>
memory == <<skip, disk, known, todo, victim, doomed>>

Location == {"idle", "sessions", "scan", "rows", "each", "destroy", "unlink", "lookup",
             "delete", "orphans", "reserve", "record", "files", "boot", "up", "save",
             "stop", "forget", "exit", "dead"}

TypeOK ==
  /\ rows \subseteq Name /\ files \subseteq Name
  /\ domain \in [Name -> {"none", "running"}]
  /\ sessions \subseteq Dev
  /\ pc \in [Proc -> Location]
  /\ skip \in [Proc -> SUBSET Name]  /\ disk \in [Proc -> SUBSET Name]
  /\ known \in [Proc -> SUBSET Name] /\ todo \in [Proc -> SUBSET Name]
  /\ doomed \in [Proc -> SUBSET Name]
  /\ victim \in [Proc -> Name \cup {Nobody}]

-----------------------------------------------------------------------------
Alive(n) == n \in Proc /\ pc[n] \notin {"idle", "dead"}
Goto(p, l) == pc' = [pc EXCEPT ![p] = l]

\* The row of a run or dev session is stale when its process is gone; rows of the
\* pooled design are removed whoever made them.
StaleUnlessPresent(n) == n \in Old \/ (~Alive(n) /\ n \notin files)  \* mutant of Stale
Stale(n)              == n \in Old \/ ~Alive(n)

\* The rows reconcile_instances looks at, and the files it takes for orphans.
ConsiderAll(p)  == rows                                          \* mutant of Consider
Consider(p)     == rows \ skip[p]
OrphansByNow(p) == (files \ known[p]) \ skip[p]                  \* mutant of Orphans
Orphans(p)      == (disk[p] \ known[p]) \ skip[p]

\* Where remove_qemu_run_instance begins.
SkipsDomain  == "unlink"                                         \* mutant of RemovalStart
RemovalStart == "destroy"

\* The VM of a dev session outlives the command that starts it.
OutlivesAlways(p)  == TRUE                                       \* mutant of OutlivesCommand
OutlivesCommand(p) == p \in Dev

Init ==
  /\ rows = Old \cup Saved /\ files = Old \cup Saved
  /\ domain \in {[n \in Name |-> IF n \in up THEN "running" ELSE "none"] : up \in SUBSET Saved}
  /\ sessions = Saved
  /\ pc = [p \in Proc |-> IF p \in Saved THEN "dead" ELSE "idle"]
  /\ skip   = [p \in Proc |-> {}] /\ disk = [p \in Proc |-> {}]
  /\ known  = [p \in Proc |-> {}] /\ todo = [p \in Proc |-> {}]
  /\ doomed = [p \in Proc |-> {}]
  /\ victim = [p \in Proc |-> Nobody]

\* remove_run_files: a file that cannot be deleted is only warned about.
Without(n) == {files \ {n}} \cup {files : m \in Undeletable \cap {n}}

-----------------------------------------------------------------------------
(* reconcile_instances, the first thing a run, a dev start and a prune do. *)
Begin(p) ==
  /\ pc[p] = "idle" /\ p \notin Remover
  /\ doomed' = [doomed EXCEPT ![p] = {n \in Name : n \in Old \/ pc[n] = "dead"} \ sessions]
  /\ Goto(p, "sessions")
  /\ UNCHANGED <<stores, skip, disk, known, todo, victim>>

ReadSessions(p) ==
  /\ pc[p] = "sessions"
  /\ skip' = [skip EXCEPT ![p] = sessions]
  /\ Goto(p, "scan")
  /\ UNCHANGED <<stores, disk, known, todo, victim, doomed>>

ScanFiles(p) ==
  /\ pc[p] = "scan"
  /\ disk' = [disk EXCEPT ![p] = files]
  /\ Goto(p, "rows")
  /\ UNCHANGED <<stores, skip, known, todo, victim, doomed>>

ReadRows(p) ==
  /\ pc[p] = "rows"
  /\ known' = [known EXCEPT ![p] = rows]
  /\ todo' = [todo EXCEPT ![p] = Consider(p)]
  /\ Goto(p, "each")
  /\ UNCHANGED <<stores, skip, disk, victim, doomed>>

\* One row: left alone, or removed.  cleanup_vm_instance looks a row of the pooled
\* design up first and raises when another process has removed it already.
NextRow(p) ==
  /\ pc[p] = "each"
  /\ \E n \in todo[p] :
       /\ todo' = [todo EXCEPT ![p] = @ \ {n}]
       /\ \/ ~Stale(n) /\ UNCHANGED <<pc, victim>>
          \/ /\ Stale(n)
             /\ n \in Old => n \in rows
             /\ victim' = [victim EXCEPT ![p] = n]
             /\ Goto(p, RemovalStart)
          \/ /\ n \in Old \ rows
             /\ Goto(p, "exit")
             /\ UNCHANGED victim
  /\ UNCHANGED <<stores, skip, disk, known, doomed>>

RowsDone(p) ==
  /\ pc[p] = "each" /\ todo[p] = {}
  /\ Goto(p, "orphans")
  /\ UNCHANGED <<stores, memory>>

\* remove_run_files(name) for a file no row accounts for.
RemoveOrphan(p) ==
  /\ pc[p] = "orphans"
  /\ \E n \in Orphans(p) :
       /\ disk' = [disk EXCEPT ![p] = @ \ {n}]
       /\ files' \in Without(n)
  /\ UNCHANGED <<rows, domain, sessions, pc, skip, known, todo, victim, doomed>>

ReconcileDone(p) ==
  /\ pc[p] = "orphans" /\ Orphans(p) = {}
  /\ Goto(p, IF p \in Prune THEN "exit" ELSE "reserve")
  /\ UNCHANGED <<stores, memory>>

-----------------------------------------------------------------------------
(* remove_qemu_run_instance: domain, files and row, in this order.         *)
AfterRemoval(p) == IF victim[p] = p THEN "exit"
                   ELSE IF p \in Remover THEN "forget" ELSE "each"

\* destroy_run_domain is silent about a libvirtd it cannot reach.
Destroy(p) ==
  /\ pc[p] = "destroy"
  /\ domain' \in {[domain EXCEPT ![victim[p]] = "none"]}
                 \cup {domain : m \in Unreached \cap {victim[p]}}
  /\ Goto(p, "unlink")
  /\ UNCHANGED <<rows, files, sessions, memory>>

Unlink(p) ==
  /\ pc[p] = "unlink"
  /\ files' \in Without(victim[p])
  /\ Goto(p, IF victim[p] \in Old THEN "delete" ELSE "lookup")
  /\ UNCHANGED <<rows, domain, sessions, memory>>

\* get_vm_instance_by_name: nothing to delete when the row is gone ...
LookUp(p) ==
  /\ pc[p] = "lookup"
  /\ Goto(p, IF victim[p] \in rows THEN "delete" ELSE AfterRemoval(p))
  /\ UNCHANGED <<stores, memory>>

\* ... but a row that goes after that ends the caller with VMNotFoundError.  Only
\* the removal of a dev session shrugs it off.
Delete(p) ==
  /\ pc[p] = "delete"
  /\ rows' = rows \ {victim[p]}
  /\ Goto(p, IF victim[p] \in rows \/ p \in Remover THEN AfterRemoval(p) ELSE "exit")
  /\ UNCHANGED <<files, domain, sessions, memory>>

-----------------------------------------------------------------------------
(* A run, or a dev start.                                                  *)
Reserve(p) ==
  /\ pc[p] = "reserve"
  /\ rows' = rows \cup {p}
  /\ Goto(p, "record")
  /\ UNCHANGED <<files, domain, sessions, memory>>

\* _use_instance: from here on the run knows the name of its instance.
Record(p) ==
  /\ pc[p] = "record"
  /\ Goto(p, IF p \in rows THEN "files" ELSE "exit")
  /\ UNCHANGED <<stores, memory>>

MakeFiles(p) ==
  /\ pc[p] = "files"
  /\ files' = files \cup {p}
  /\ Goto(p, "boot")
  /\ UNCHANGED <<rows, domain, sessions, memory>>

Boot(p) ==
  /\ pc[p] = "boot"
  /\ IF p \in files
     THEN domain' = [domain EXCEPT ![p] = "running"] /\ Goto(p, IF OutlivesCommand(p) THEN "save" ELSE "up")
     ELSE UNCHANGED domain /\ Goto(p, IF p \in Dev THEN "exit" ELSE "stop")
  /\ UNCHANGED <<rows, files, sessions, memory>>

\* Before the name is known there is nothing to remove; a dev start that fails
\* removes nothing either.
Interrupted(p) ==
  /\ "interrupt" \in Faults
  /\ pc[p] \in {"reserve", "record", "files", "boot"}
  /\ Goto(p, IF p \in Run /\ pc[p] \in {"files", "boot"} THEN "stop" ELSE "exit")
  /\ UNCHANGED <<stores, memory>>

RunEnds(p) ==
  /\ pc[p] = "up"
  /\ Goto(p, "stop")
  /\ UNCHANGED <<stores, memory>>

\* The cleanup of a run: stop the VM and remove the instance.  A step that raises
\* skips the rest.
CleanUp(p) ==
  /\ pc[p] = "stop"
  /\ \/ /\ victim' = [victim EXCEPT ![p] = p]
        /\ Goto(p, RemovalStart)
     \/ "stopfails" \in Faults /\ Goto(p, "exit") /\ UNCHANGED victim
  /\ UNCHANGED <<stores, skip, disk, known, todo, doomed>>

\* save_session: the session is recorded when its VM is up; the command then ends
\* and leaves the VM running.
SaveSession(p) ==
  /\ pc[p] = "save"
  /\ sessions' = sessions \cup {p}
  /\ Goto(p, "exit")
  /\ UNCHANGED <<rows, files, domain, memory>>

-----------------------------------------------------------------------------
(* adare dev remove, once the command that started the session is over.    *)
(* When the session cannot be loaded any more only its record is deleted.  *)
RemoveSession(p) ==
  /\ pc[p] = "idle" /\ p \in Remover
  /\ \E d \in sessions :
       /\ ~Alive(d)
       /\ victim' = [victim EXCEPT ![p] = d]
  /\ pc' \in {[pc EXCEPT ![p] = l] : l \in {RemovalStart, "forget"}}
  /\ UNCHANGED <<stores, skip, disk, known, todo, doomed>>

ForgetSession(p) ==
  /\ pc[p] = "forget"
  /\ sessions' = sessions \ {victim[p]}
  /\ Goto(p, "exit")
  /\ UNCHANGED <<rows, files, domain, memory>>

-----------------------------------------------------------------------------
Leave(p) ==
  /\ Goto(p, "dead")
  /\ skip'   = [skip EXCEPT ![p] = {}]  /\ disk' = [disk EXCEPT ![p] = {}]
  /\ known'  = [known EXCEPT ![p] = {}] /\ todo' = [todo EXCEPT ![p] = {}]
  /\ doomed' = [doomed EXCEPT ![p] = {}]
  /\ victim' = [victim EXCEPT ![p] = Nobody]
  /\ UNCHANGED stores

Exit(p)  == pc[p] = "exit" /\ Leave(p)
Crash(p) == "crash" \in Faults /\ Alive(p) /\ Leave(p)

\* Nobody has anything left to do.
Quiet ==
  /\ \A p \in Proc : pc[p] = "dead" \/ (p \in Remover /\ pc[p] = "idle" /\ sessions = {})
  /\ UNCHANGED vars

Reconcile(p) ==
  \/ Begin(p) \/ ReadSessions(p) \/ ScanFiles(p) \/ ReadRows(p) \/ NextRow(p) \/ RowsDone(p)
  \/ RemoveOrphan(p) \/ ReconcileDone(p)
Remove(p) == Destroy(p) \/ Unlink(p) \/ LookUp(p) \/ Delete(p)
Live(p) ==
  \/ Reserve(p) \/ Record(p) \/ MakeFiles(p) \/ Boot(p) \/ Interrupted(p) \/ RunEnds(p)
  \/ CleanUp(p) \/ SaveSession(p) \/ RemoveSession(p) \/ ForgetSession(p)

Next ==
  \/ \E p \in Proc : Reconcile(p) \/ Remove(p) \/ Live(p) \/ Exit(p) \/ Crash(p)
  \/ Quiet

Spec == Init /\ [][Next]_vars

-----------------------------------------------------------------------------
(* Properties.                                                             *)

\* Until a run or dev start is over its row, files and domain are touched by nobody
\* else: a reconcile that runs beside it never takes its fresh files for orphans
\* nor its row for a stale one.
InUse(n) == Alive(n) /\ pc[n] # "exit"
Instance(n) == <<n \in rows, n \in files, domain[n]>>
LiveInstanceKept ==
  [][\A n \in Run \cup Dev :
       InUse(n) /\ Instance(n)' # Instance(n) => pc'[n] # pc[n]]_vars

\* Whatever is on disk or in libvirt has a row, in every state a crash can leave
\* behind, unless its removal met an obstacle: the row is inserted first and deleted
\* last.  A file that cannot be deleted costs no domain its row, nor the reverse.
FilesHaveRow  == \A n \in files \ Undeletable : n \in rows
RunningHasRow == \A n \in Name \ Unreached : domain[n] = "running" => n \in rows
NothingLost == FilesHaveRow /\ RunningHasRow

\* A reconcile that gets to its end has reclaimed every instance whose process
\* was gone when it began, whatever other reconciles did meanwhile.
Reclaimed(n) ==
  /\ n \notin rows
  /\ n \in files => n \in Undeletable
  /\ domain[n] = "running" => n \in Unreached
ReconcileComplete ==
  \A p \in Proc : pc[p] = "orphans" /\ Orphans(p) = {} => \A n \in doomed[p] : Reclaimed(n)

\* Between its read of the session names and its end a reconcile may remove what others own.
Reconciling(p) ==
  \/ pc[p] \in {"scan", "rows", "each", "orphans"}
  \/ pc[p] \in {"destroy", "unlink", "lookup", "delete"} /\ victim[p] # p
Skipped(n) == \A p \in Proc \ Remover : Reconciling(p) => n \in skip[p]

\* The instance of a recorded dev session, whose process is long gone, is removed by
\* `adare dev remove` only, as long as every reconcile under way has read its name.
SavedSessionKept ==
  [][\A n \in sessions :
       Skipped(n) /\ Instance(n)' # Instance(n) => \E p \in Remover : pc'[p] # pc[p]]_vars

\* ... and in any case, as the reconcile promises of a session's instance.
EverySessionKept ==
  [][\A n \in sessions :
       Instance(n)' # Instance(n) => \E p \in Remover : pc'[p] # pc[p]]_vars
=============================================================================
