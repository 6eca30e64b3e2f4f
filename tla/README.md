# A verification project for ADARE

ADARE runs forensic experiments in virtual machines.  The host program (`src/adare/adare`) takes an
instance of a VM, boots it, talks over a websocket to an agent inside the guest (`src/adarevm`),
executes a playbook, collects artifacts and records the run in SQLite. Many things happen at once:
several `adare` processes share one database and one set of hypervisor machines, threads write
events to the database, coroutines wait for replies of the agent, and the user interrupts a run at
any time.  The modules here model those parts where an order of steps nobody tested can break a
promise of the code.

All paths below are relative to `src/adare/adare/` unless they start with `src/`.

Contents: [the system](#the-system) · [modules](#modules) · [runs](#runs-and-bounds) ·
[fairness](#fairness) · [proofs](#proofs) ·
[divergences](#what-the-code-does-that-its-text-does-not-say) · [not modelled](#not-modelled) ·
[plan](#plan)

## The system

| part | state it keeps | operations | talks to | what is hard | what makes it correct |
|---|---|---|---|---|---|
| VirtualBox instance pool (`backend/vm/instance_manager.py`, `port_manager.py`, `commands.py`, `database/api/vm/instances.py`) | rows of `vm_instance`: status, owner pid, port, uuid; the VirtualBox machines | sync, find, claim, count, evict, restore, import, verify, release | the runs, reconcile, VirtualBox | several processes race between two transactions; crashes leave rows behind | one run per machine, one row per port, no row that nobody can reclaim, an allocation ends |
| QEMU run instances (`backend/vm/run_instances.py`, `hypervisor/qemu/run_resources.py`) | rows, run files, libvirt domains, all under one name | allocate, remove, reconcile | the runs, dev sessions, `adare vm prune` | three stores are changed one after the other; any process may reconcile any other's leftovers | nothing on disk or in libvirt without a row; live instances and sessions are left alone; a reconcile finds everything dead |
| Run lifecycle (`backend/experiment/run.py`, `step_runner.py`, `run_setup.py`, `vm_orchestrator.py`, `hypervisor/qemu/lifecycle.py`) | step, stop event, signal count, status of the run row | start steps, interrupt, cleanup, verdict | everything below | signals in every step, cleanup steps that fail, several machines | what was taken is given back, the status is true, success means that every test passed, a signal ends the run |
| Database event writer (`backend/events/listener.py`) | queue, running flag, thread pool | queue, batch-execute, drain | stage and test events, verdict | a hand-over between threads with a look and a write apart | operations once and in order; a drain answers only when all is written |
| Stage events (`backend/experiment/stagectxmanager.py`, `backend/events/coordinator.py`, `types/stages.py`) | stage objects, queue, ids seen, active stages | enter, update, leave, deduplicate, publish, stop | console, event writer | a worker thread reads objects the run changes | no end lost, parents first, the verdict of a stage recorded |
| Agent protocol (`backend/experiment/websocket_client.py`, `src/adarevm/adarevm/core/server.py`) | connection, pending calls; running tasks per client | connect, call, time out, cancel, disconnect, clean up | run lifecycle, action executor | replies, cancellations, closures and event loops cross each other | a caller gets the result of its own call or none; somebody always reads; the agent can find what it runs |
| Playbook execution (`backend/experiment/playbook_controller.py`, `action_executor.py`, `execution/`, `run_tally.py`) | position in a tree of actions, context and registry of variables, match cache, bound machine, results and events | actions, blocks, loops, stop, continue, tests, waits | agent, CV server, event writer | a result, a variable or a binding crosses several levels of containers; waits with hanging calls | a failure reaches the top and the summary; loop variables stay in their loop; each action on its machine; a wait ends near its timeout |
| CV servers (`backend/experiment/mcp_server_manager.py`, `run_setup.py`, `backend/devmode/`, `src/adare-cv-server`) | port, child process, record of a session | choose, spawn, attach, probe, stop, restart | run lifecycle, dev mode, playbook execution | a port chosen free is bound seconds later by the child; sessions find their server by a file | a run stops the server it started and no other; none is left; a session has one |
| VM recipes and base cache (`backend/vm/recipe.py`, `registration.py`, `environment_load.py`, `services/vm/prune.py`) | cached base disks under a file lock, provisioned disks, VM rows | load, force, reprovision, prune, remove | hypervisor, database | several builders of one base; kills in the middle of an install; a second stage without a lock | never a half-built base; a running install is left alone; finished work is reused; a load ends |
| Dev mode (`backend/devmode/`, `services/devmode/`) | session files and rows | start, step, stop, restore, remove | QEMU run instances, CV servers | sessions outlive the process that started them | a session has an instance and one server as long as it is recorded |
| Database and migrations (`database/`) | schema version, rows | init, migrate, queries | all | start-up beside other processes | one migration at a time |
| Web API and front ends (`webapi/`, `src/adare-web`) | child processes, subscribers | start, stream, cancel | command line, database | late subscribers, cancellation | a cancelled process ends |

The parts meet in five places:

* **the `vm_instance` table**: VirtualBox and QEMU instances are rows of one table.  A QEMU run's
  reconcile also judges pooled rows (`Janitor` in `InstancePool`) and rows of the pooled design that
  has been given up for QEMU (`Old` in `RunInstances`);
* **the run**: `RunLifecycle` allocates and removes instances in single steps.  What happens inside
  such a step, and what other processes do meanwhile, is `RunInstances`;
* **the event queues**: a stage or test event passes a coordinator (`StageEvents`) and the batch
  writer (`DbWriter`); `RunLifecycle` sees only a sequence of events of which a prefix has been
  written, which is what `EventLog` promises and `DbWriter` is proved to implement;
* **a tool call**: one action of a playbook is one call of `AgentCalls`, which promises its caller
  what `RemoteCalls` says.  `RunLifecycle` keeps only that the execution of a test ends one way or
  the other, or hangs until a signal cancels it; `Playbook` is what happens inside of that step;
* **the CV server**: `RunLifecycle` starts and stops servers in single steps, `CvServers` shows
  these steps with those of the other runs and sessions of the host, `WaitUntil` what a server that
  no longer answers does to the action that asked it.

`PROJECT.json` lists every component with its status, every line a definition stands for ("map"),
and every hazard with the properties that are aimed at it.

## Modules

| module | what it is |
|---|---|
| `Leases` | what the instance table promises: granted to one holder, returned by that holder, taken away only from one that has gone |
| `InstancePool`, `MCInstancePool`, `InstancePoolProofs` | the VirtualBox pool, its instances for TLC, its theorems |
| `RunInstances`, `MCRunInstances`, `RunInstancesProofs` | the QEMU instances and dev sessions |
| `RunLifecycle`, `MCRunLifecycle`, `RunLifecycleProofs` | one run from its first step to its verdict |
| `EventLog` | what the writer promises: operations executed once, in queue order |
| `DbWriter`, `MCDbWriter` | the batching writer and its drain |
| `StageEvents`, `MCStageEvents` | stage context managers and the coordinator |
| `EventProofs` | theorems about both, the two ends of an event's way into the database |
| `RemoteCalls` | what a tool call promises its caller |
| `AgentCalls`, `MCAgentCalls`, `AgentCallsProofs` | both ends of the websocket |
| `TargetCache`, `WaitUntil`, `RunTally` | parts of the playbook's execution: the cache of matches, a `wait_until`, the tally of a run |
| `Playbook`, `MCPlaybook`, `PlaybookProofs` | the execution of playbooks, over the three; the playbooks TLC executes; theorems |
| `CvServers`, `MCCvServers`, `CvServersProofs` | the CV servers of a host |
| `RecipeCache`, `MCRecipeCache`, `RecipeCacheProofs` | the disks of recipe environments |

A definition marked "mutant" is not part of a specification: it is the variant of its neighbour that
a plausible bug would leave, used to show that a property can be violated at all.

Each component's module has a `TypeOK` (`StagesTypeOK` in `StageEvents`).  It is proved; no run
repeats it.

### InstancePool

State: `rows` is the table (status, owner pid, host port, whether a machine was imported), `hyper`
what VirtualBox knows of the machine of a row.  A process is a run of `adare`; `pc` is the place in
the chain `prepare_vm → sync_instance_states → reuse_instance | create_new_instance → verify → start
→ run → stop → release`, and `seen`, `used`, `target` and `holds` are the values it has read and
carries with it.

One action is one database transaction or one hypervisor call.  That is the granularity at which the
code can be interrupted by another process: SQLite serialises transactions, and the only lock around
them (`_instance_lock`) belongs to one process.

* `Reconcile`, `ReconcileRow`, `ReconcileDone`: the pooled half of `reconcile_instances`.
* `RemoveInstances`, `WipeRow`: `cleanup_instance` and `remove_all_instances`, the maintenance
  commands. They go by what the hypervisor says of a machine and look at no owner.  A process that
  reconciles or removes is a `Janitor`; the others are runs (`Runner`).
* `SyncRead`, `SyncCheck`, `SyncApply`, `SyncDone`: `sync_instance_states`, which reads the rows,
  asks VirtualBox about each, and updates rows by id.
* `Find`, `ReadPorts`, `Claim`: the reuse loop with its conditional update and port retry.
* `CountInstances`, `PickOldest`, `EvictMachine`, `EvictRow`, `ReadPorts`, `Insert`: a new row,
  after an eviction when the pool is full.
* `Restore`, `Import`, `RecordImport`, `Interrupted`, `UseInstance`, `Verify`, `StartMachine`,
  `RunEnds`, `StopMachine`, `Release`, `Exit`: what the run does with it; `Verify` replaces a
  vanished machine once (`MayReplace`).
* `Crash`, `MachineLost`, `MachineStops`: a killed process; a machine removed or powered off from
  outside.

Properties: `PortsDistinct`, `TakenOnlyFromPool`, `LostToThePast`, `ExclusiveMachine`,
`ImplementsLeases`, `EveryRunEnds`; by theorem also `LeaseKept`, `NoOrphanedPort` and
`CapacityBounded`: the rows exceed the capacity by at most one for each run but the first, which is
what counting and inserting apart can cost.

Left out: the transient status "error" that `SyncCheck` passes through within one call, and the
`IntegrityError` of two rows of one name (names carry a random suffix).

### RunInstances

State: the three stores `rows`, `files` and `domain`, indexed by the one name they share;
`sessions`, the recorded dev sessions; and what a reconciling process has read: `skip` (session
names), `disk` (names found on disk), `known` and `todo` (rows).  An instance is named after the
process that makes it, so a row's `owner_pid` is its name and a process stands for its pid.

* `Begin`, `ReadSessions`, `ScanFiles`, `ReadRows`, `NextRow`, `RowsDone`, `RemoveOrphan`,
  `ReconcileDone`: `reconcile_instances`, in the order of the code: sessions, then files, then rows.
* `Destroy`, `Unlink`, `LookUp`, `Delete`: `remove_run_instance`.  The same four steps serve a run
  that ends, a reconcile and `adare dev remove`.
* `Reserve`, `Record`, `MakeFiles`, `Boot`, `Interrupted`, `RunEnds`, `CleanUp`: a run or `adare dev
  start`.  `SaveSession`, `RemoveSession`, `ForgetSession`: dev sessions.  `Crash`: a killed
  process.

The environment is in the constants: `Undeletable` names instances whose file may refuse to be
deleted (Windows share, permissions: `unlink` logs and goes on), `Unreached` those whose domain
libvirtd may not answer about.

Properties: `NothingLost`, `ReconcileComplete`, `LiveInstanceKept`, `SavedSessionKept` (and the
unconditional `EverySessionKept`, which the code does not keep).

### RunLifecycle

State: `at` is the step (`begin → prepare → cv → create → configure → boot → agent → execute`, then
`finalize → stopcv → retrieve → stop → remove → drain`, then `returned`, `raised` or `killed`);
`turn` the machine a per-machine step has come to; `servers`, `rows`, `guests` what has been taken;
`named` the machines whose context has the name of their instance, without which it is not removed;
`project` and `manager` whether `project_directory` and `vm_manager`, on which the cleanup depends,
have been set; `sent` and `armed` the signals;
`status` the run row; `ran`, `events`, `written` the tests, their queued events and the prefix the
writer has written; `success` the verdict.  There are two history variables: `skipped`, a cleanup
step raised and the ones after it were not reached, and `unremoved`, the instances whose removal
failed, which `_remove_qemu_run` logs and passes over.

`Begin` is the moment between the installation of the handlers and the first step, which sets
`project_directory`.  `Prepare` runs in a thread and is never cancelled, the other steps are coroutines that `step_runner` races against the
stop event: `StepDone`, `Cancel`, `StepRaises`.  `StartServer`, `Allocate`, `Boot`,
`Retry`, `Ready`, `StartTest`, `EndTest` are what a step does inside; `AllocateRaises` is an
allocation whose row is committed and cannot be read back.  A playbook may be over between any two
tests (`Executed`): a failed action or `stop` ends it, a run without a client executes nothing, and
none of this raises, so tests that were never run reach the verdict (`TEST_MISSING`).  `Interrupt` is the handler
(first signal: stop event; second: domains destroyed at once), `Kill` what a signal does once its
handler has been removed.  `Finalize`, `StopServers`, `Retrieve`, `StopGuests`,
`RemoveInstances` and `Drain` are the cleanup, `FinalizeRaises`, `StopServersRaises`,
`StopGuestsRaises` and `RemoveRaises` the same steps when they raise half way; `Leave` computes the verdict and
leaves `run.py`.  `Write` is the background writer.

Properties: `GuestsStopped`, `GivenBack`, `StatusTrue`, `VerdictSound`, `SignalEnds` (and
`NeverGreenLit` and `EverySettled`, which the code does not keep).

The QEMU path is modelled.  Steps that take nothing to be given back (video, memory dump, disk diff
and export, system information), the smoke verdict, open client connections and the 15 s limit of
the drain are left out, and so are `SIGKILL`, a `CancelledError` from outside `run.py` and a write
of the row's status that fails.  A test is run at most once, there is at least one
(`TestAssumption`: a run without tests is judged by its playbook), and a hypervisor that is asked to
stop a guest stops it.

### DbWriter

State: the queue, the flag `_db_batch_processor_running`, the tasks submitted to the pool, each
thread's place in `_process_db_operations` with its batch, and a caller of `drain_db_operations`.
`Put` and `Ensure` are the two halves of `_queue_db_operation`; `Start`, `Get`, `Execute`,
`Executed`, `TimedOut`, `Check`, `Stop` the processor, where `Check` looks at the queue and `Stop`
clears the flag; `DrainBegins`, `DrainLocks`, `DrainLooks`, `DrainGivesUp` the drain.  An operation
that raises is logged and counts as executed, as in the code.

Properties: `ImplementsLog` (the writer implements `EventLog`), `DrainWaits`, `Rescued` (and
`StopsOnlyWhenEmpty`, which the code does not keep).

### StageEvents

State: for each stage object where its context manager is, `ended` (its end time), `status`; the
coordinator's queue of *references* (`stages`), its worker, the ids it has processed, the stage active under a
name; `out`, what was published.  `Enter`, `SetStatus`, `Leave`, `EndTime`, `EndStatus`, `EmitEnd`
are the context manager, `Take`, `Classify`, `Publish`, `WorkerOver` the worker, `StopCoordinator`
and `Joined` its end, `Interrupt` the user's interrupt.  `EndTime` and `EndStatus` are two steps because
`Stage.end` assigns two attributes of an object the worker may read in between.

Top-level stages follow each other, as the steps of a run do; a run has one coordinator.  `raised`
is "no" or FAILED, which stands for the code's FAILED and ERROR alike.

Properties: `ParentFirst`, `EndRecorded`.  The names of the module differ from those of `DbWriter`,
so that one module of theorems can extend both.

### AgentCalls

State of the host: for each call where `call_tool` is; `pending`, the futures in `pending_calls`;
`connected`, `conn`, `handler` (the connection the reader task reads) and `sameLoop` (the connection
belongs to the running event loop).  The network: per connection its state and the messages in each
direction.  They are sets and not sequences: a message is matched by the id of its call alone, so
their order cannot be told apart.  The agent: which clients it serves, `running_tasks`,
`client_tasks`, the tools, and each tool's `_handle_task_completion` (`watcher`).

Both ends are single-threaded asyncio programs, so an action is what runs between two awaits.
`Connect`, `Disconnect`, `NewLoop`, `Refuse`, `Send`, `Rejoin`, `Joined`, `JoinFails`, `Timeout`,
`Cancel`, `Deliver`, `HandlerEnds` are the client; `Receive`, `ToolEnds`, `WatchBegins`,
`WatchSends`, `WatchEnds`, `ClientGone`, `CleanTask`, `CleanWakes`, `CleanEnds` the agent; `Close`
and `Drop` the network.

Properties: `ImplementsCalls` (`AgentCalls` implements `RemoteCalls`), `SomebodyReads`, `Tracked`
(and `TasksCancelled`, which the code does not keep).  Unsolicited events of the agent and token
checks are left out.

### Playbook, with TargetCache, WaitUntil and RunTally

A playbook is a tree of actions kept flat: a function from nodes to records (kind, body, machine,
variables it needs or sets, conditions).  `WellFormed` says what the parser lets through: it is a
tree, its root is the playbook, numbers are numbers.  State: `session`, the playbooks a controller is still
given; `play`, the one in execution; `stack`, one frame for each container execution is inside of
(position, iteration, the context a loop saved); `mode` and `ret`, whether an action is about to
begin, runs, or hands its result back; `ctx` and `registry`, the two homes of a variable; `bound`
and `hostTests`, the machines executors are bound to; `results`, `records`, `events`, `pulled`,
`verdicts`, what is recorded; `wait`, `memo`, `sighted`, the wait in progress and the cache of
matches.  `ran` is a history variable.

* `Begin`, `Pass`, `Announce`, `TopBack`, `End`: `execute_playbook`.  `Dispatch`: `execute_action`,
  which binds the executors to a machine first.
* `Simple`, `Captured`, `SaveVariable`, `Click`, `VmTest`, `HostTest`, `Signal`: actions without a
  body, by their outcome and by what they do to variables, cache and flow.
* `WaitBegins`, `WaitGoesOn`, `WaitEnds`, over `Capture`, `Pixels`, `Skip`, `EvaluateLeaf` (one
  condition of the list), `CutOff` (the evaluation runs out of its time) and `Evaluated`:
  `execute_wait_until`.
* `EnterBlock`, `LeaveBlock`, `EnterLoop`, `NextIteration`, `LoopBreaks`, `Back`: containers and the
  way of a result through them.  `Cancel`: the run is interrupted, and the loops put the context
  back on the way out (`Unwound`).

`RunTally` is a pure function from the events to the closing summary, with the units as sets of
positions; it is compared with a direct count of the events in every reachable end of a playbook:
`Begun` actions against its total, `Finished` ones against its failures and successes.

Properties: `LoopVariablesLocal`, `FailureIsLast`, `TallyExact`, `ReportExact`, `RightMachine`,
`MatchIsPrevious`, `WaitBounded`, `EveryPlaybookEnds` (and `OneValue`, which the code does not
keep). `TallyExact` holds if no two actions get one id (`Apart`); ids are made of kind, place and a clock in
milliseconds, so `Ticks` = {1} says that an action takes at least one.

Left out: delays, file system snapshots and the pull of changed files, video recording, playbooks
without a client, and what an action does in the guest beyond its outcome.

### CvServers

State: `server`, by pid, from `loading` over `serving` to `gone`, with who started it (`by`) and who
signalled it (`killer`); `manager`, for each machine of a run the `MCPServerManager` with its port,
`Popen` handle and known pid; `spare`, the manager a restart falls back on; `record`, the file
`cv_server.json` of a session; `session`, its row; `pc`, `at`, `why`, the place of a process.

`Choose` takes a port for every machine before any server is started, `Attach`, `Spawn`, `Answered`,
`Unready` are `start`, `RunOver` and `Shutdown` the end of a run.  A dev session is a series of
processes: `Exit`, `Resume`, `StopCv`, `RestartStops`, `RestartStarts`, `EndSession`,
`RemoveUnloaded` are its commands. `Binds`, `Leaves`, `Dies` are the servers, `Crash` a killed
process.  The port is bound by the child when it has loaded, which is what makes the choice of a
free port a guess.

Properties: `NeverKillsForeign`, `NoServerLeft`, `NoSecondServer`, `EveryCommandEnds` (and
`OneServerEach`, which the code does not keep).

Left out: other programs on ports of the window, pids that are used again, a server that answers no
more but keeps its port.

### RecipeCache

State: `image`, what has become of every disk ever written (an image is a number that is never used
again, since no two builds give the same bytes); the files `cache` (a base), `partial` (its
unfinished builds) and `dest` (the disk of a recipe); `holder`, the file lock of a base; `row`, the
VM rows; `pc`, `job`, `doomed`, what a process does.

* `Begin`: `build_or_reuse_recipe_vm` looks the recipe up.
* Stage 1, under the lock: `LookForBase`, `TurnHit`, `Install`, `Publish`, `InstallFails`.
* Stage 2, without: `Provision`, `ProvisionFails`, `Flatten`, `BuildPlain`, `Written`, `WriteFails`.
* `Hash`, `Register`, `Version`, `NoVersion`: the row, the retirement of the image it replaces, the
  version.
* `Prune`, `Unlink`, `Remove`: `adare vm prune`, `env remove`.  `Crash`: the kernel lets go of the
  lock, the files stay.

Properties: `LivePartialKept`, `WholeOnly`, `ForceInstalls`, `UsableBaseKept`, `EveryLoadEnds` (and
`PresentIsReused`, `HitIsWhole`, `Unmixed`, which the code does not keep).

Left out: NVRAM and log files, free space, VMs that run while their image is replaced, and files the
user deletes by hand.

## Runs and bounds

Each configuration is the smallest in which the interesting cases of its question still happen.
State counts are distinct states; times are for two workers.

| run | instance | what it asks | size |
|---|---|---|---|
| `PoolFaults` | two runs and a process that reconciles or removes; three rows (one rested in the pool, one left active by a process that is gone), two ports, capacity two; every fault | `PortsDistinct`, `TakenOnlyFromPool`, `LostToThePast` | 3.6M, 144 s |
| `PoolLeases` | two runs, four rows, two ports, one rested row, nothing left over; machines vanish and power off | `ExclusiveMachine`, `ImplementsLeases`, `EveryRunEnds` | 121k, 37 s |
| `Runs` | a run, a dev start, a prune, a dev remove, an instance of the pooled design; crashes, interrupted preparations, raising cleanups, one undeletable file, one unreachable domain | `NothingLost`, `ReconcileComplete`, `LiveInstanceKept`, `SavedSessionKept` | 668k, 22 s |
| `Life` | two machines, two tests, two kinds of signal, three signals, five cleanup steps that may raise, removals that fail | `GuestsStopped`, `GivenBack`, `StatusTrue`, `VerdictSound`, `SignalEnds` | 28k, 5 s |
| `Writer` | three operations, two listener threads, two pool threads, batches of two, one drain | `DrainWaits`, `ImplementsLog`, `Rescued` | 38k, 8 s |
| `Stages` | a top-level stage, entered again by a second object of the same name, with a stage inside the second; one status update, one exception, one interrupt | `ParentFirst`, `EndRecorded` | 822k, 17 s |
| `Calls` | two calls, two connections that close, drop and are opened again, a change of the event loop | `SomebodyReads`, `Tracked`, `ImplementsCalls` | 2.0M, 96 s |
| `Playbooks` | 983 starts: eleven sessions of one or two playbooks, each for a hard combination, and every way to put two of nine kinds of action in and after a container in a container, and one of three behind it; a CV server that may stop answering | the eight properties of `Playbook` | 90k, 19 s |
| `OneValue` | the accumulation in a loop that the manual shows | violates `OneValue` | |
| `Servers` | a run of two machines with a dev session, or two dev sessions; two ports, three servers, two commands; kills and dying servers | `NeverKillsForeign`, `NoServerLeft`, `NoSecondServer`, `EveryCommandEnds` | 303k, 30 s |
| `Recipes` | two processes, three recipes (two over one base, one without provisioning), six images, three commands; kills at every step | `LivePartialKept`, `WholeOnly`, `ForceInstalls`, `UsableBaseKept`, `EveryLoadEnds` | 423k, 90 s |
| `RecipeRebuilt` | the same with five images | violates `PresentIsReused` | |

Why these sizes are enough to be interesting:

* *Pool.*  A race needs two processes; a third one (`Janitor`) acts on what it read of the other
  two. Two ports for three processes make the port loops run dry, and a capacity of two for three
  rows makes eviction happen.  The code has 35 ports and 20 instances.  `PoolLeases` has four rows,
  two for each run, since a run whose machine has vanished takes another row once. A slot that a
  process still remembers is not used again (`Fresh`), as ids are not, so processes in `PoolFaults`
  that would need a fresh slot may have to wait for a `Crash`; `PoolLeases`, where something is said
  of progress, has slots enough.
* *Run instances.*  Every kind of process once, so any two kinds may cross.  Two runs would be
  symmetric: what a run does to another is what its reconcile does to the instance of a dev start,
  and that is in the instance.
* *Lifecycle.*  Two machines are needed for half-prepared runs, two tests for a verdict that looks
  at one of them too early, three signals for stop, destroy and kill.
* *Writer.*  The pool has two threads in the code as well (`listener.py:31`).  Batches of ten are
  reduced to two, so that with three operations full and partial batches both occur.
* *Stages.*  The second object of one name is the case `_is_duplicate_event` must not confuse.
* *Calls.*  Two calls are needed for a late answer of one while the other waits, two connections for
  a late answer over an old one.  Permuting calls or connections changes nothing, hence the
  symmetry.
* *Playbooks.*  Two levels of containers are as deep as the cases of the code go: a
  container hands its result to the one around it in the same way at every depth.  Two iterations tell a first from a
  last one, two playbooks what a controller keeps between them, values up to two a counter from its
  start and its end. Time is counted in units of 0.1 s and timeouts are up to three units.
* *Servers.*  Two ports for up to three servers, so that a port is chosen twice and given again.
  Three pids: a session that has lost its server starts a second and a third one; when they are
  used up `Spawn` fails.
* *Recipes.*  Two processes that load, one of them with a choice of recipes, with a third command
  for a prune or a removal.  Each loads recipes of its own (`OneEach`); what two loads of *one*
  recipe do to each other is told below.  A load writes two images at most, so six are enough for
  three commands.

Deadlock is checked in every run but the last two, in which the system stops once the commands are
used up.  Elsewhere, where a system may come to rest, the specification has an explicit step for it
(`Quiet`, `Done`, `Finished`, `AllEnded`, `Terminated`, `Idle`) whose guard says what rest means; any
other state without a successor is an error.

Some definitions state what the code's text says and the code does not keep.  They have no
configuration of their own; these constants show them:

| definition | with | outcome |
|---|---|---|
| `ExclusiveMachine` | `MCInstancePool!Spec`, `Proc` = two runs, `Slot <- ThreeRows`, `Port <- TwoPorts`, `MaxInstances` = 3, `Rested` = {r1}, `Leftover` = {r2}, no `Janitor`, no `Faults` | violated |
| `EverySessionKept` | `MCRunInstances!Spec`, `Dev` = {d}, `Prune` = {q}, every other set empty | violated |
| `NeverGreenLit` | `MCRunLifecycle!Spec`, `Order <- OneMachine`, `Test` = {t1, t2}, `MaxSignals` = 0, `Failing` = {"finalize"} | violated |
| `EverySettled` | the same, `MaxSignals` = 1, `Failing` = {} | violated |
| `StopsOnlyWhenEmpty` | `MCDbWriter!Spec`, two operations, one listener, two threads, `BatchSize` = 2 | violated |
| `TasksCancelled` | `MCAgentCalls!Spec`, two calls, one connection, `Faults` = {"drop"} | violated |
| `OneServerEach` | the constants of `Servers` without `Faults` | violated |
| `HitIsWhole`, `Unmixed` | `Spec` with the constants of `Recipes` | violated |

## Fairness

Liveness is claimed in six runs, each under as little fairness as the code gives:

* `InstancePool!FairSpec`: a process that has begun is scheduled until it ends.  This is an
  operating system that runs its processes; the run without `Crash` is the one in which it holds.
  The environment (`MachineLost`, `MachineStops`) is not fair.
* `RunLifecycle!FairSpec`: an asynchronous step may hang for ever: nothing is assumed of a boot, an
  agent or a playbook.  Assumed are the way to the first step
  (`Begin`: a sleep of 0.1 s) and the blocking step `Prepare` (local work), `Cancel` (asyncio
  delivers a cancellation at the next await), the cleanup steps (each has a limit of its own in the
  code) and the writer.  `SignalEnds` therefore really says that the *signal* ends a hanging run.
* `DbWriter!FairSpec`: threads of the pool go on, and a listener that has put an operation also
  makes sure of a processor (there is nothing to wait for between the two statements).  Listeners
  need not queue anything, which is why an operation can be left behind, and why `Rescued` is said
  of operations beside which another one is queued.
* `Playbook!Spec`: the coroutine is resumed.  An action ends by itself: every call to the agent has
  a limit in the code.  What is *not* assumed is that a CV server answers: `WaitGoesOn` lets a call
  use up all the time it is given, and `EveryPlaybookEnds` is about the loop around such calls.
* `CvServers!FairSpec`: a process goes on; a child need neither bind its port nor exit (`Binds`,
  `Dies` are not fair), so that the end of a start rests on its own limit of a minute.
* `RecipeCache!FairSpec`: a load goes on, which includes that an OS install ends (it has a timeout)
  and that `flock` lets a waiter in once the lock is free.  A process that has died takes no more
  steps.

Nothing temporal is claimed of `RunInstances`, `StageEvents` and `AgentCalls`.  In the last,
messages may be lost and both ends have timeouts, so the only promise is one of safety.

## Proofs

TLC checks the small instances above; the theorems hold for every value of the constants that
satisfies the `ASSUME`s of the module (`PoolAssumption`, `RunsAssumption`, `WriterAssumption`,
`StageAssumption`, `OrderAssumption`, `MaxSignalsAssumption`, `FailingAssumption`,
`ServersAssumption`, `RecipesAssumption`, `AgentAssumption`, `PlaybookAssumption`). These are typing
facts: disjoint kinds of process, natural numbers, special values that are no members, playbooks as
the parser lets them through (finite trees).  Some theorems name a hypothesis of their own:

* `CapacitySafe`: finitely many processes and a pool that is not above its bound to begin with.
* `MachineExclusive`, `LeasesKept`, `LeasesImplemented`: `Orderly`, told below.
* `WholeSafe`: `OneLoader`, no recipe is loaded by two processes at once, as in the run; without it
  the code does not keep `WholeOnly`'s last part.
* `LoopsKeepTheirOwn`: `NoneReserved`, no playbook gives the names `index`, `total` and `item` to
  variables of its own.  The parser does not forbid it, and a playbook that does it overwrites the
  loop's.

| module | theorem | property |
|---|---|---|
| `InstancePoolProofs` | `TypeCorrect`, `PortsSafe`, `OnlyFreeRowsTaken`, `CapacitySafe` | `TypeOK`; `PortsDistinct` and `NoOrphanedPort`; `TakenOnlyFromPool`; `CapacityBounded` |
| | `TakenByThePast` | `LostToThePast` and `OneRowEach` |
| | `MachineExclusive`, `LeasesKept`, `LeasesImplemented` | `ExclusiveMachine`, `LeaseKept`, `ImplementsLeases` |
| `RunInstancesProofs` | `TypeCorrect`, `LiveSafe`, `NothingLostSafe`, `ReconcileSafe`, `SessionsSafe` | `TypeOK`, `LiveInstanceKept`, `NothingLost`, `ReconcileComplete`, `SavedSessionKept` |
| `EventProofs` | `TypeCorrect`, `DrainSafe`, `LogImplemented` | `TypeOK`, `DrainWaits`, `ImplementsLog` (of `DbWriter`) |
| | `StagesTypeCorrect`, `ParentsFirst`, `EndsRecorded` | `StagesTypeOK`, `ParentFirst`, `EndRecorded` (of `StageEvents`) |
| `RunLifecycleProofs` | `TypeCorrect`, `StatusSafe`, `GuestsSafe`, `GivenBackSafe`, `VerdictSafe` | `TypeOK`, `StatusTrue`, `GuestsStopped`, `GivenBack`, `VerdictSound` |
| `AgentCallsProofs` | `TypeCorrect`, `ReaderSafe`, `TrackedSafe`, `CallsImplemented` | `TypeOK`, `SomebodyReads`, `Tracked`, `ImplementsCalls` |
| `PlaybookProofs` | `TypeCorrect`, `WaitsBounded`, `FailureEnds`, `MatchFresh`, `LoopsKeepTheirOwn`, `OnItsOwnMachine` | `TypeOK`, `WaitBounded`, `FailureIsLast`, `MatchIsPrevious`, `LoopVariablesLocal`, `RightMachine` |
| | `SuccessMeansClean`, `TallyIsExact`, `ReportIsExact` | `SuccessIsClean` (the first half of `ReportExact`), `TallyExact`, `ReportExact` |
| `CvServersProofs` | `TypeCorrect`, `KillsOwnOnly`, `RunLeavesNone`, `OneServerPerSession` | `TypeOK`, `NeverKillsForeign`, `NoServerLeft`, `NoSecondServer` |
| `RecipeCacheProofs` | `TypeCorrect`, `LivePartialSafe`, `ForceSafe`, `BasesSafe`, `WholeSafe`, `BaseKept` | `TypeOK`, `LivePartialKept`, `ForceInstalls`, the parts of `WholeOnly` about bases, `WholeOnly`, `UsableBaseKept` |

The arguments:

* *Pool.* Every step does one of four things to the table: it deletes a row, frees one, records a
  uuid, or makes a row that was not active somebody's, with a port no active row has (`RowStep`).
  `EveryStepIsRowStep` shows this action by action; the rest follows from the four cases alone.  An
  active row always has a port of the range (part of the invariant `PortInv`); without it two active
  rows could share "no port".  That a port loop picks a port of the range (`LowestIsFree`) rests on
  the well-ordering of the naturals.  For the capacity, `CapacityInv` counts the rows together with
  the runs that have found room and not yet inserted: the sum stays below the capacity plus the
  number of runs, because a run that joins has just seen fewer rows than the capacity, and an insert
  moves one from the second number to the first.
* *Lost rows.*  With faults a live run may lose its row.  `LostToThePast` says to whom: to a sync or
  a reconcile that read the row when nobody alive had it, to an eviction or a removal that chose it,
  or to a run that had it and lost it before.  `PastInv` is `TypeOK` and: `OneRowEach` (the owner of
  a row has gone, or is at work with that row and no other), `DrivesItsTarget`, and `SyncSaw` (what a
  sync goes by was nobody's or a dead process's, and a dead process never comes back).  The part
  about the sync is what its check of `owner_pid` buys: without it every active row could be freed.
* *Leases.* `Orderly` is what the run `PoolLeases` has in its constants: nobody reconciles or
  removes, no row was left behind, nothing crashes, no import is interrupted and no stop fails (each
  of these leaves a row active that nobody drives), and the rested rows and one for every run fit
  into the capacity.  Each part is needed: a reconcile, a removal and an eviction free or delete a
  row by id, whoever has taken it since, and a sync does the same to a row it believes abandoned.
  `LeaseInv` is `PortInv` and: `Room` (the rows are no more than those rested at the start and one
  for every run that has found its own), `Serves` (a run that prepares or drives owns its row; the
  id it still remembers of one it gave up is that of no row), `Leased` (an active row is the lease
  of its owner).  Every step of a run is one of nine kinds (`StepActs`): it looks for a row, finds
  none, takes one, prepares it, begins to use it, goes ahead, replaces a vanished machine's row,
  returns its row, or goes.  `RoomLeft` shows that the way through the eviction is never taken, and
  since the owner of every active row is alive, a sync reads nothing it would free.  The mapping to
  `Leases` then has a row held by the run that has it.
* *Run instances.* The properties are about what others may do to an instance, so the invariant has
  to say what a reconciling process can believe.  `Inv` is `TypeOK` and: `PlacesOK` (who may be at
  which step), `SeenOK` (what was read is of the past: a name seen on disk or in the table belongs
  to somebody who has started), `VictimOK` (whoever is being removed is gone, or removes itself),
  `OwnHasRow` (an owner past its reservation has its row), `SessionOver` (a saved session's process
  is past its work), `OrphansOver` (files without a row among those read belong to nobody alive).
  The last is where the order "files before rows" of `reconcile_instances` enters: a run that starts
  in between has its row before its files.  `NothingLost` needs the row to be deleted last
  (`DomainInv`, `FilesInv`); `ReconcileComplete` needs the history variable `doomed` to be followed
  through the loop (`DoomedGone`, `Placed`); `SavedSessionKept` needs that a session a reconcile
  skips is never its victim (`SessionsSkipped`).
* *Writer.* `OneProcessor` says that the flag, the submitted tasks and the threads at work count to
  one together; `BatchOK` and `RoomLeft` that only the processor has a batch, and how large it is.
  For the drain, `Accounted` says that an operation that was put is queued, in a batch or executed,
  and `DrainOK` that what is not executed while no processor runs is still queued.  The refinement
  maps `pending` to the processor's batch followed by the queue; its step proof (`LogStep`) shows
  that only `Put` and `Execute` move it.
* *Stage events.* `StageInv` says of every stage: its end time is set from the step that sets it on
  (`Over`); if the coordinator has noted its end as processed, the end was published with the
  stage's last status, or is being published; if it was closed, its last word is out, in the queue,
  or in the worker's hands.  A duplicate is thus only dropped when the first one has said, or is
  about to say, all there is; that the copy is taken late is what makes the first one say it.  The
  writer and the coordinator share a module because they are the two ends of one path.
* *The order of stages.*  `ParentFirst` follows from where the references stand.  `InTurn` is what
  the worker has yet to judge, with the one in its hands in front.  `Nested` says how the context
  managers enclose each other, and that every set of running stages has one whose parent is not
  among them, so that a stage without a parent runs as long as any does: no other is entered
  meanwhile.  `Referred` says that what was entered is heard of or still referred to; `ParentsEarlier`
  that a parent is heard of before a reference to its child is judged; `Named` and `TopsLast` why a
  parent's first reference is never dropped as a duplicate of *another* stage of its name: a name
  stands only for a stage whose end has not been heard of, and when a stage without a parent is
  first referred to, all before it are closed and their ends are judged before it.  Only then does
  `Announcements` carry `ParentFirst` through a step.  `Bounded`, for `StagesTypeOK`, equates the
  records of a stage, with the one about to be written, with its events let through, of which there
  are two kinds.
* *Lifecycle.* `FullInv` adds to `TypeOK`: `RowsOK` (which machines have a row, and its name, in
  which step), `TakenOK` (nothing is taken before the preparation is over, and no row without the VM
  manager, without which the cleanup passes the machines over), `BackOK` (what a cleanup step that is
  reached has given back; after the removals, all but what failed to be removed), `StatusOK` (the
  row's status agrees with the step) and `EventsOK` (a test that was not run has queued nothing, one
  that failed has queued so, which makes the rows a drained run reads complete: a test that the
  playbook never came to has none).
* *Agent protocol.* `Inv` is `TypeOK` and: `Underway` (a message on its way up is of a call that was
  made, of one the agent has not begun, and on its way once only), `Begun` (the agent works on calls
  that were made, by the connection they came by), `Unopened` (a connection that was not opened yet
  is not served), `Watched` (who watches a tool, and what it has seen of it), `Truthful` (a message
  on its way down says what became of its call), and the two properties.  The refinement maps a call
  to where it is for its caller; its proof has one case for each end of a call, and `Truthful` is
  what makes an answer the tool's own.
* *Playbooks.* `TypeInv` holds the structure: the stack is a path through the tree from the root
  (`Path`), the position of every frame is in its body, and a wait is in progress only at a wait
  (`Placed`); values are numbers (`Valued`).  What an action does to the stack is one of five moves
  (not at all, along a body, into a container, out of it, out of the playbook), each with a lemma.
  `WaitInv` says for each step of a wait how far past its deadline it can be: a call takes what is
  left of the time, and one unit if nothing is.  `FailureInv` says that as long as execution goes on
  no failure that ends a playbook has been announced, and that the result of a container on its way
  back is the only trace of one.  `SuccessInv` says the same of the results a verdict is made of,
  and the converse: if no event tells of a failure, no result does.
  `MatchInv` dates the matches: one made in the latest resolution is what that resolution saw.
  `LocalInv` says of the context in use, and of each that a loop has put aside, what it has of the
  variables of the loops around it; a loop that is left takes its own along (`LocalMerged`), and a
  cancellation takes all (`Unwound`).
* *The tally of a playbook.*  The summary only has the events.  `TallyInv` says what they tell of
  the execution: the actions in progress are read off the stack (`InProgress`, those its frames stand
  at); each of them has a row of its beginning and none of an end (`Opened`), every other action that
  has begun has one of its end (`Closed`), and a row of an end agrees with one of a beginning in id,
  kind and plan and is the only one of its id (`Completes`).  An event is the beginning of an action
  that is in progress from then on (`ToldBegin`), or the end of one that is no longer (`ToldEnd`).
  A loop that ends well has done its iterations (`Running`, `LoopDone`, `Iterated`).
  When nothing is in progress and every action has an id of its own, ids and rows of beginnings, and
  ids and rows of ends, correspond one to one (`UnitFacts`, `CountById`), and a bijection counts.
* *The machines of a playbook.* `MachineInv` says that the executors are bound to an action's
  machine whenever it executes, whatever was dispatched in between.  That the machine handed down
  the tree (`_cascade_machine`) is the one of the nearest container that names one (`HandedDown`) is
  an induction over the tree.  It is done with sets: `DownTheTree` takes a smallest node outside of
  a set, `Recursion` enlarges a set of nodes on which a recursive definition has a solution until it
  has all of them.
* *CV servers.* `NeverKillsForeign` is not inductive, since what a manager knows decides whom it
  stops.  `Inv` adds `Born` (a server has an owner exactly if its pid was given out), `Owned` (a
  manager, a spare and a record know only servers their own run has started, or none), `Held` (a
  server a run started and that is not gone is the child of one of its managers that is still to be
  stopped), `PortUnique` (one server is bound to a port), and, for sessions, `Standing` and
  `OnePort`: every server of a session was started at one port, that of its record, so that a second
  one would find the port taken and exit.
* *Recipe cache.* `Inv` is `TypeOK` and: `JobOK` (what a process at a step has in hand), `Growing`
  (an image that is being written belongs to the process that writes it), `Apart` (two processes
  never write one image), `Locked` (who installs holds the lock), `LivePartialKept`,
  `ForceInstalls`, `BasesWhole` and `OverWhole` (what is published was finished or was there before;
  what a provisioning is begun over was finished).  `WholeSafe` adds `DisksWhole`, where a disk
  between its writing and its row belongs to one loader.  `BaseKept` adds `NothingThere`: while an
  install that is not forced is under way there is no base at its path, since it has unlinked what
  it found unusable, and the lock keeps everybody else from publishing.

Each module proves three facts in the usual order: `Init` implies the invariant, a step keeps it, it
implies the property; the step proofs have one step per action.

What stays with TLC:

* liveness (`EveryRunEnds`, `SignalEnds`, `Rescued`, `EveryPlaybookEnds`, `EveryCommandEnds`,
  `EveryLoadEnds`): the proof system has no rule here for fairness and `ENABLED`.

Every invariant and every action property of a passing run is a theorem.  Beyond the constants, the
theorems say nothing of the abstraction itself: that an action is the code it stands for is read, not
proved.

No module declares a `RECURSIVE` operator, so every module remains open to proofs.

## What the code does that its text does not say

Most of what a reader of the code expects does hold.  Where a comment, a docstring or a document
says more than the code does, the model follows the code.  Two of these have a run that shows the
trace (`PROJECT.json`, "findings"):

* *A variable with two values* (`OneValue`).  After a loop only names that did not exist before it
  are merged into the context (`execution/flow_control.py:314`), while `save_variable` has written
  each new value into the registry as well.  A counter that existed before the loop keeps its old
  value where actions and tests look, and has the new one where templates look.
  `save_variable.rst:105` says that both are written.
* *A recipe rebuilt though its disk is there* (`PresentIsReused`).  A retired image keeps its
  `recipe_hash` (`backend/vm/registration.py:86`), and the lookup takes the first row of the hash
  (`recipe.py:893`).  After a forced rebuild that may be the retired row, whose disk does not exist,
  and the load rebuilds over the current disk.  `vm-image-creation.rst:601` promises no rebuild.

The next ones are definitions that fail under the constants listed with the runs:

* *One machine for two runs* (`ExclusiveMachine`).  `sync_instance_states` reads rows, asks
  VirtualBox about each, and then frees rows *by id* (`backend/vm/instance_manager.py:764`).  Two
  processes sync beside each other; the first claims the row the second is about to free; the freed
  row is claimed a second time and two runs drive one machine.  The conditional update of the claim
  is sound; the unconditional one of the sync is not.
* *A session without its instance* (`EverySessionKept`).  `reconcile_instances` reads the session
  names once (`backend/vm/run_instances.py:165`). A dev start that saves its session and exits after
  that has a row with a dead owner by the time rows are judged.  `SavedSessionKept` holds with the
  condition that every reconcile under way has read the name; the comment at line 159 has no such
  condition.
* *A verdict too early* (`NeverGreenLit`).  An exception of a cleanup step skips the drain; the
  verdict is then read from whatever the writer has written, and a start row without an end row
  counts as found and not failed.
* *A lost wakeup* (`StopsOnlyWhenEmpty`).  The processor looks at the queue outside the lock and
  clears the flag inside it a moment later.  An operation put in between finds the flag set, starts
  no processor, and stays in the queue until another operation is queued (`Rescued`).
* *A cleanup that fails* (`TasksCancelled`).  The agent's cleanup of a client awaits the task it
  cancelled, whose `finally` removes its own entry, and then deletes the entry again: `KeyError`,
  and the client's other tasks run on.
* *One server for two machines* (`OneServerEach`).  `run_setup.py:388` chooses the ports of all
  machines before any server starts, so every machine of a run gets the same free port, and the
  second manager attaches to the first one's server.  The comment above (`:383`) says that each
  machine has a server of its own.
* *Half a disk under a row* (`HitIsWhole`).  A `--force` rebuild overwrites the path of a registered
  disk; killed, or failing in `flatten_overlay`, it leaves an unfinished file that the next load
  finds as the row's disk. `recipe.py:818` says that no half-provisioned artifact is left behind.
* *A disk over two bases* (`Unmixed`).  Provisioning runs over an overlay that names its base by
  path and takes no lock; a forced build, or a prune and a new build, of another recipe replaces the
  file meanwhile, and the flattened disk mixes the two.

Others came up while modelling and are told here without a run.  *Instances, runs and events:*

* `cleanup_instance` (`instance_manager.py:435`; `adare vm instance remove` and the web API) looks
  at the hypervisor's state only.  An instance that a live run has claimed and not yet booted is
  removed under it.
* Reconcile and eviction act by id on what they read earlier, like the sync: a prune releases a row
  whose owner has changed since (`run_instances.py:193`), an eviction deletes a row claimed
  meanwhile (`instance_manager.py:127`).  `ImplementsLeases` is therefore checked with
  nothing left over and without a reconciling process; `LostToThePast`, which holds beside them,
  says what can be lost to whom.
* Counting instances and inserting one are two transactions (`instance_manager.py:154`) under a lock
  of one process: two processes may both find room and exceed the capacity; `CapacitySafe` says by
  how much.
* `destroy_run_domain` returns silently when libvirtd does not answer
  (`hypervisor/qemu/run_resources.py:327`); files and row are deleted next, and nothing finds the
  domain again.  `NothingLost` and `ReconcileComplete` except exactly the names in `Unreached`, so
  they still say that an unreachable domain costs no *other* instance anything.
* A run that cannot remove an instance logs it and goes on (`vm_lifecycle_manager.py:611`); the row,
  and what is left of the files, wait for a reconcile after the process is gone.  `GivenBack` excepts
  exactly these (`unremoved`).
* The name of an instance reaches the machine's context after its row was committed
  (`run_instances.py:82`, `vm_lifecycle_manager.py:143`).  If reading the row back fails, the run
  ends without knowing the name and `_remove_qemu_run` finds nothing to remove.  `GivenBack` is said
  of instances whose name the run knows.
* A signal between the installation of the handlers and the first step (`run.py:364` to `:403`) skips
  the step that sets `project_directory`; the interrupt's status update reads its `path` outside of
  the cleanup's `try` (`run.py:570`) and raises.  The row stays open, and the handlers stay
  installed, which a batch that runs in the same loop inherits.  Nothing has been taken by then.
  `EverySettled` shows it, `StatusTrue` is said of runs that got to their first step.  An update of
  the status that fails for another reason skips the cleanup of *any* run the same way.
* An exception of `retrieve_artifacts` skips `stop_vm` and `cleanup_vm`
  (`backend/experiment/run.py:616`, where the next comment calls `stop_vm` a safety net).
  `GuestsStopped` has the condition `~skipped`.
* A boot retry waits for its reset and starts the guest again without asking whether it was
  interrupted (`hypervisor/qemu/lifecycle.py:471`).  After a second signal has destroyed the guests
  this starts one anew, and a third signal kills the process and leaves it running.
* A drain between the put and the start of a processor finds an idle processor and, once the queue
  has been taken, may answer that everything is written (`listener.py:125`).  `DrainWaits` is said
  of a drain beside which no listener is queueing (`alone`).
* A parent stage waits for the coordinator's queue before it emits its end, so that it completes
  last (`stagectxmanager.py:79`), but its end time is set before the wait (`:74`).  The queue holds
  references: if the parent's *start* is still queued, the worker finds it ended, and publishes the
  end of the parent before anything of its children.  The order that does hold is `ParentFirst`.
* What is queued when `StageEventCoordinator.stop` is called is dropped; the run sleeps two seconds
  before (`run.py:638`).  `EndRecorded` is said of a coordinator that has caught up.
* `Stage.end` sets `end_time` before `status` (`types/stages.py:74`): the worker may publish the end
  of a stage with the status NONE.  `EndRecorded` leaves out the default status.
* `StageEventCoordinator.stop` joins the worker while it holds the lock the worker needs
  (`events/coordinator.py:50`), until the join gives up after five seconds.
* `call_tool` does not look at the result of its reconnect (`websocket_client.py:416`): when it
  fails, `self.websocket` is `None` and the caller gets an `AttributeError` where the docstring
  (line 434) promises a `RuntimeError`.

*Playbooks:*

* A `stop` inside a block or a loop is not heard; the playbook goes on (`stop.rst`: "playbook
  execution halts immediately").  A test that fails inside a container stops the playbook despite
  `continue_on_test_failure` (`actions.rst:390`) and pulls nothing (`actions.rst:337`).
* What a host-side test returns has neither `result` nor `success`, so such a test always fails
  (`execution/test_actions.py:125`, `:155`), and the executor is kept for the machine of the first
  one.
* A variable made in the first iteration of a loop keeps that iteration's value in the context:
  later iterations assign it, but only a name that is new is merged.
* A template that names an undefined variable at top level leaves `execute_playbook` by an
  exception, and the action's row says "running" for good.  The results are never reset between the
  playbooks of a dev session: after one failure each later playbook is reported as failed.
* A failed `pull` makes the playbook's verdict red and is not among the failures of the summary.
* `not_exists` is met when the CV server gives no answer (`target_resolver.py:355`).  A cached match
  is keyed by the target's text, without the machine or an icon.  The automatic pull uses whichever
  machine the executors were bound to last.

*CV servers:*

* The docstring of `find_free_cv_port` says that the loser of a race attaches "rather than
  crashing".  It attaches if it looks once the winner has bound the port; if both spawn before, the
  loser's child finds the port taken and exits, and its start may fail.
* A restored session calls the failure of its CV server non-fatal, but the exception it raises is
  not in the list that is caught.  `dev stop` and `dev remove` leave a session's server running
  while other sessions run, though each has its own; `dev remove` from a new process deletes the
  record of the server as well.

*Recipes:*

* `teardown_unreferenced_vm` does not know that a row is being replaced: when a forced rebuild
  retires an image no environment uses, it deletes the newly built disk at the same path, and
  registration fails.
* A forced or stale rebuild unlinks the registered disk before the provisioning has succeeded.  An
  exception of the hypervisor or a Ctrl-C in the second stage is no `RecipeProvisionError` and
  leaves what was written.
* A prune deletes the base an environment is being loaded over for the first time, since no version
  refers to it yet, and that load fails.
* A recipe disk whose hash no longer fits is refused with `ExperimentIntegrityError`
  (`backend/vm/commands.py:93`); `vm-image-creation.rst:622` says that it is rebuilt instead of
  failing hard.

## Not modelled

The map covers some 7,800 lines, a twentieth of the repository.  Most of the rest has no behaviour
of the kind these modules are about:

* *I/O and drivers*: VirtualBox, libvirt and QEMU calls, file transfers, snapshots, agent
  installation, guest tools.  The models use the outcomes these report, failures included.
* *Numeric code*: feature matching, text recognition and vision models.  `WaitUntil` and `Click` use
  that a target is found or not.
* *Data without state of its own*: XML builders, the variable and playbook types with their
  validation, prompts, reports, argument parsing, the test functions and their tables.
* *Maintenance commands of one user* on files and rows: projects, environments, experiments,
  imports.
* *Migrations*: run once, before anything else.
* *Boot waves* (`_boot_waves`): nothing calls it yet; machines boot one after the other.
* *The web API's process manager* and the batch runner: they start commands whose behaviour beside
  each other is modelled.
* *Dev mode's own records* (undo, checkpoints, recorded actions): files of one session that one
  process writes.
* *A pid that is reused*: a process stands for its pid.  A row kept alive by a stranger is reclaimed
  once the stranger has ended.

## Plan

Done, in this order, the most consequential behaviour first: the pool and its leases; run instances
and their reconcile; the lifecycle of a run; the writer; stage events; the agent protocol;
playbooks; CV servers; recipes; the removal commands of the pool.

Next theorems:

1. `RecipeCache`: `WholeSafe` for the recipes that no two processes load at once, whatever is done
   with the others.
2. `InstancePool`: for an eviction too, that it deletes the row of a live run only if it chose the row
   while it rested; what it chose is not kept with its state.

Next modules: the second stage of `RecipeCache` for two loads of one recipe, once the code locks it;
the process manager of the web API (started, streamed, cancelled commands); the layering of boot
waves as a function against a reference definition, once it is called.
