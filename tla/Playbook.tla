------------------------------ MODULE Playbook ------------------------------
(***************************************************************************)
(* The execution of playbooks: PlaybookController.execute_playbook, the    *)
(* ActionsExecutor it hands each action to, and blocks, loops, stop,       *)
(* continue, tests, waits, variables and machines below that.  A playbook  *)
(* is a tree of actions kept flat, [node, vars, chosen, onward, pulls]:    *)
(* its root and containers name their children in order.  Execution is one *)
(* coroutine; the frames on the stack are the containers it is inside of.  *)
(* A development session gives the same controller playbook after playbook.*)
(*                                                                         *)
(* Left out: what an action does in the guest beyond its outcome, delays,  *)
(* snapshots and file system differences, recording that is switched off.  *)
(***************************************************************************)
EXTENDS WaitUntil, RunTally

CONSTANTS
  Sessions,  \* sequences of playbooks a controller is given, one after the other
  Root,      \* the node of a playbook itself
  Primary,   \* the machine of actions that name none
  TestMode,  \* pauses are honoured at top level
  MaxValue,  \* bound on the value of a variable
  Ticks      \* milliseconds an action may take

\* The container of an action (at most one, see below).
Holders(p, n) == {c \in DOMAIN p.node : \E i \in DOMAIN p.node[c].body : p.node[c].body[i] = n}

\* What the parser lets through: a tree, whose root is the playbook; numbers are numbers.
WellFormed(p) ==
  /\ IsFiniteSet(DOMAIN p.node)
  /\ \A n \in DOMAIN p.node : \A c, d \in Holders(p, n) : c = d
  /\ \A S \in SUBSET DOMAIN p.node \ {{}} : \E n \in S : Holders(p, n) \cap S = {}
  /\ Root \in DOMAIN p.node /\ p.node[Root].kind = "playbook"
  /\ \A n \in DOMAIN p.node :
       LET node == p.node[n] IN
       /\ node.body \in Seq(DOMAIN p.node) /\ node.times \in Nat
       /\ \A i \in DOMAIN node.body : p.node[node.body[i]].kind # "playbook"
       /\ node.kind = "wait" => /\ {node.action.timeout, node.action.interval, node.action.idle} \subseteq Nat
                                /\ node.action.all \in BOOLEAN /\ Len(node.action.of) \in Nat
  /\ \A v \in DOMAIN p.vars : p.vars[v] \in 0..MaxValue

Books == UNION {{s[i] : i \in DOMAIN s} : s \in Sessions}

ASSUME PlaybookAssumption ==
  /\ MaxValue \in Nat /\ Ticks \subseteq Nat
  /\ Sessions \subseteq Seq(Books) \ {<<>>}
  /\ \A p \in Books : WellFormed(p)

VARIABLES
  session,   \* playbooks still to be executed
  play,      \* the playbook in execution, or the latest
  stack, mode, ret, \* where execution is, and the result on its way back
  ctx,       \* execution_context
  registry,  \* the playbook's variable registry
  bound,     \* the machine the executors are bound to
  hostTests, \* the machine the host-side test executor was made for
  results,   \* action_results
  records,   \* rows of action executions
  events,    \* events emitted
  now,       \* the clock action ids are made with
  pulled,    \* _auto_pull_executed
  ran,       \* history: the actions executed and how they ended, in order
  verdicts   \* history: PlaybookExecutionResult.success of each playbook

place == <<session, play, stack, mode>>
data == <<ctx, registry>>
executors == <<bound, hostTests>>
books == <<results, records, pulled, verdicts>>
trace == <<events, ran, now>>
vars == <<place, ret, data, executors, books, trace, wait, seeing>>

N(n) == play.node[n]
Top == stack[Len(stack)]
Below == SubSeq(stack, 1, Len(stack) - 1)
AtRoot == Len(stack) = 1
Body == N(Top.node).body
Child == Body[Top.pos]
Frame(n) == [node |-> n, pos |-> 1, iter |-> 0, saved |-> <<>>, id |-> None]
Loops == {i \in DOMAIN stack : N(stack[i].node).kind = "loop"}
Moved(pos) == [stack EXCEPT ![Len(stack)].pos = pos]

Passes == [ok |-> TRUE, stop |-> FALSE, skip |-> FALSE, done |-> {}]
Fails == [Passes EXCEPT !.ok = FALSE]

\* A container's machine is inherited by the actions in it that name none.
_cascade_machine(p) ==
  LET own[n \in DOMAIN p.node] ==
        IF p.node[n].machine # None \/ Holders(p, n) = {} THEN p.node[n].machine
        ELSE own[CHOOSE c \in Holders(p, n) : TRUE]
  IN own

\* Templates see the registry over the context; an undefined name raises.
Undefined(n) == ~(N(n).needs \subseteq DOMAIN registry \cup DOMAIN ctx)

Init ==
  /\ session \in Sessions /\ play = Head(session) /\ mode = "idle" /\ stack = <<>>
  /\ ret = Passes /\ ctx = <<>> /\ registry = <<>>
  /\ bound = Primary /\ hostTests = None
  /\ results = <<>> /\ records = <<>> /\ pulled = FALSE /\ verdicts = <<>>
  /\ events = <<>> /\ ran = <<>> /\ now = 0
  /\ wait = NotWaiting /\ memo = NoMatches /\ sighted = Unseen

-----------------------------------------------------------------------------
(* execute_playbook.                                                       *)

\* The playbook's variables join the context the controller already has.
Begin ==
  /\ mode \in {"idle", "raised"} /\ session # <<>>
  /\ play' = Head(session) /\ session' = Tail(session)
  /\ registry' = play'.vars
  /\ ctx' = [v \in DOMAIN ctx \cup DOMAIN play'.vars |->
               IF v \in DOMAIN play'.vars THEN play'.vars[v] ELSE ctx[v]]
  /\ stack' = <<Frame(Root)>> /\ mode' = "next"
  /\ UNCHANGED <<ret, executors, books, trace, wait, seeing>>

\* Actions that are not selected, and pauses outside test mode.
Pass ==
  /\ mode = "next" /\ AtRoot /\ Top.pos <= Len(Body)
  /\ LET unchosen == Top.pos \notin play.chosen
     IN /\ unchosen \/ (N(Child).kind = "pause" /\ ~TestMode)
        /\ results' = IF unchosen THEN results ELSE Append(results, TRUE)
  /\ stack' = Moved(Top.pos + 1)
  /\ UNCHANGED <<session, play, mode, ret, data, executors, records, pulled, verdicts, trace, wait, seeing>>

\* The name of an action in progress, made of its place in the container it is in
\* (blocks have no name, loops are told apart by the iteration) and the time.
ActionId(t) == <<N(Top.node).kind, Top.iter, Top.pos, t>>

Event(n, id, complete, r) ==
  [id |-> id, kind |-> N(n).kind, complete |-> complete, nested |-> ~AtRoot,
   ok |-> r.ok, planned |-> N(n).times, done |-> r.done, book |-> Len(session)]

\* A top-level action gets a row and its templates are resolved, then it is
\* announced; an undefined variable leaves execute_playbook by an exception.  A
\* loop resolves the same way inside its try, a block does not resolve here.
Announce ==
  /\ mode = "next" /\ Top.pos <= Len(Body)
  /\ AtRoot => Top.pos \in play.chosen /\ (N(Child).kind = "pause" => TestMode)
  /\ records' = IF AtRoot THEN Append(records, "running") ELSE records
  /\ LET raises == Undefined(Child) /\ N(Top.node).kind # "block" IN
     /\ mode' = CASE ~raises -> "run" [] raises /\ AtRoot -> "raised" [] OTHER -> "broken"
     /\ \E ms \in IF raises THEN {0} ELSE Ticks :
          /\ now' = now + ms
          /\ stack' = [stack EXCEPT ![Len(stack)].id = ActionId(now')]
          /\ events' = IF raises THEN events
                       ELSE Append(events, Event(Child, ActionId(now'), FALSE, Passes))
  /\ UNCHANGED <<session, play, ret, data, executors, results, pulled, verdicts, ran, wait, seeing>>

\* The end of execute_playbook: the results counted are all the controller has.
Over(all) ==
  /\ mode' = "idle" /\ stack' = <<>>
  /\ verdicts' = Append(verdicts, \A i \in DOMAIN all : all[i])

End ==
  /\ mode = "next" /\ AtRoot /\ Top.pos > Len(Body)
  /\ Over(results)
  /\ UNCHANGED <<session, play, ret, data, executors, results, records, pulled, trace, wait, seeing>>

-----------------------------------------------------------------------------
(* execute_action.                                                         *)

\* Mutant: an action that names no machine leaves the executors where they are.
StaysBound(n) == IF _cascade_machine(play)[n] = None THEN bound ELSE _cascade_machine(play)[n]

\* The machine an action is for; the executors are bound to it before the dispatch.
Target(n) == IF _cascade_machine(play)[n] = None THEN Primary ELSE _cascade_machine(play)[n]

Dispatch ==
  /\ mode = "run"
  /\ IF Undefined(Child)
     THEN mode' = "back" /\ ret' = Fails /\ UNCHANGED bound
     ELSE mode' = "go" /\ bound' = Target(Child) /\ UNCHANGED ret
  /\ UNCHANGED <<session, play, stack, data, hostTests, books, trace, wait, seeing>>

Going(kind) == mode = "go" /\ N(Child).kind = kind

\* An action without actions of its own is over; about is what a property wants to
\* know of it.
Left(r, where, about) ==
  /\ mode' = "back" /\ ret' = r
  /\ ran' = Append(ran, [node |-> Child, machine |-> where, ok |-> r.ok, top |-> AtRoot,
                         book |-> Len(session), about |-> about])
  /\ UNCHANGED <<session, play, stack, books, events, now>>

Ends(r) == Left(r, bound, <<>>)

Outcome == {Passes, Fails}

\* Set a variable in the context and in the registry.
Assigned(v, value) ==
  /\ ctx' = [x \in DOMAIN ctx \cup {v} |-> IF x = v THEN value ELSE ctx[x]]
  /\ registry' = [x \in DOMAIN registry \cup {v} |-> IF x = v THEN value ELSE registry[x]]

\* Any call to the guest: shell commands without capture, keys, pulls, pauses...
Simple ==
  /\ mode = "go" /\ N(Child).kind \in {"command", "pull", "pause"} /\ N(Child).var = None
  /\ \E r \in Outcome : Ends(IF N(Child).lenient THEN Passes ELSE r)
  /\ UNCHANGED <<data, executors, wait, seeing>>

\* A command whose output is kept, though it fails; a capture that fails, fails it.
Captured ==
  /\ Going("command") /\ N(Child).var # None
  /\ \/ Ends(Fails) /\ UNCHANGED data
     \/ \E r \in Outcome, value \in 0..MaxValue :
          /\ Assigned(N(Child).var, value)
          /\ Ends(IF N(Child).lenient THEN Passes ELSE r)
  /\ UNCHANGED <<executors, wait, seeing>>

\* A value, or an expression over the context: what it reads, plus one.
SaveVariable ==
  /\ Going("save")
  /\ IF N(Child).reads \subseteq DOMAIN ctx
     THEN /\ Assigned(N(Child).var,
                      IF N(Child).reads = {} THEN 0
                      ELSE LET v == CHOOSE v \in N(Child).reads : TRUE
                           IN Shorter(ctx[v] + 1, MaxValue))
          /\ Ends(Passes)
     ELSE Ends(Fails) /\ UNCHANGED data
  /\ UNCHANGED <<executors, wait, seeing>>

\* A click at a target: at a match found before if the cache has one, else at one
\* found on a new screenshot.
Click ==
  /\ Going("click")
  /\ LET t == N(Child).var
         begun == begin_resolution(memo)
         hit == Hit(begun, t)
         used == hit # None /\ N(Child).cache
     IN /\ memo' = get_cached_match(begun, t, N(Child).cache)
        /\ IF used
           THEN /\ sighted' = [target |-> t, machine |-> hit]
                /\ \E r \in Outcome : Left(r, bound, [match |-> sighted', before |-> sighted])
           ELSE \/ sighted' = Unseen /\ Ends(Fails)
                \/ /\ sighted' = [target |-> t, machine |-> bound]
                   /\ \E r \in Outcome : Ends(r)
  /\ UNCHANGED <<data, executors, wait>>

-----------------------------------------------------------------------------
(* Tests, stop and continue, waits.                                        *)

Status == {"SUCCESS", "WARNING", "FAILED", "ERROR"}

\* What the agent answers passes; a test may be expected to fail, not to break.
process_test_result(status, called, expected) ==
  called /\ CASE expected /\ status = "SUCCESS" -> FALSE
             [] expected /\ status = "FAILED"  -> TRUE
             [] OTHER -> status \in {"SUCCESS", "WARNING"}

VmTest ==
  /\ Going("test") /\ ~N(Child).host
  /\ \E status \in Status, called \in BOOLEAN :
       Ends([Passes EXCEPT !.ok = process_test_result(status, called, N(Child).expected)])
  /\ UNCHANGED <<data, executors, wait, seeing>>

\* A test on the host sees the machine of the first such test, and what it returns
\* lacks the part the result is read from, so that it never passes.
HostTest ==
  /\ Going("test") /\ N(Child).host
  /\ hostTests' = IF hostTests = None THEN bound ELSE hostTests
  /\ Left(Fails, hostTests', <<>>)
  /\ UNCHANGED <<data, bound, wait, seeing>>

\* stop and continue: no condition, or a variable of the context exceeding 1.
Signal ==
  /\ mode = "go" /\ N(Child).kind \in {"stop", "continue"}
  /\ LET v == N(Child).var
         signal == v = None \/ (v \in DOMAIN ctx /\ ctx[v] > 1)
     IN Ends(IF v # None /\ v \notin DOMAIN ctx THEN Fails
             ELSE [Passes EXCEPT !.stop = signal /\ N(Child).kind = "stop",
                                 !.skip = signal /\ N(Child).kind = "continue"])
  /\ UNCHANGED <<data, executors, wait, seeing>>

WaitBegins ==
  /\ Going("wait") /\ wait.step = "off" /\ wait' = Began(N(Child).action)
  /\ UNCHANGED <<place, ret, data, executors, books, trace, seeing>>

WaitGoesOn ==
  /\ Going("wait") /\ Checks(bound)
  /\ UNCHANGED <<place, ret, data, executors, books, trace>>

WaitEnds ==
  /\ Going("wait") /\ WaitOver /\ wait' = NotWaiting
  /\ Ends([Passes EXCEPT !.ok = wait.step = "met"])
  /\ UNCHANGED <<data, executors, seeing>>

-----------------------------------------------------------------------------
(* Blocks and loops.                                                       *)

\* Mutant: a container that is done stays on the stack.
StaysOpen(r) == mode' = "back" /\ ret' = r /\ UNCHANGED stack

Returns(r) == mode' = "back" /\ ret' = r /\ stack' = Below

\* The conditions of a block, if it has any, are looked at once.
EnterBlock ==
  /\ Going("block")
  /\ \/ mode' = "next" /\ stack' = Append(stack, Frame(Child)) /\ UNCHANGED ret
     \/ N(Child).guarded /\ mode' = "back" /\ ret' \in Outcome /\ UNCHANGED stack
  /\ memo' = IF N(Child).guarded THEN begin_resolution(memo) ELSE memo
  /\ sighted' = IF N(Child).guarded THEN Unseen ELSE sighted
  /\ UNCHANGED <<session, play, data, executors, books, trace, wait>>

LeaveBlock ==
  /\ mode = "next" /\ N(Top.node).kind = "block" /\ Top.pos > Len(Body)
  /\ Returns(Passes)
  /\ UNCHANGED <<session, play, data, executors, books, trace, wait, seeing>>

\* The variables of an iteration; whatever it sets, it sets in a copy.
Control(n) == {"index", "total"} \cup IF N(n).item = {} THEN {"item"} ELSE N(n).item
InIteration(context, n, i) ==
  [v \in DOMAIN context \cup {"index", "total"} \cup N(n).item |->
     IF v \in {"index"} \cup N(n).item THEN i
     ELSE IF v = "total" THEN N(n).times
     ELSE context[v]]

\* Mutant: an iteration hands back all it has set.
AllMerged(frame, context) == context @@ frame.saved

\* What is left of an iteration: the variables that are new, but not the loop's own.
Merged(frame, context) ==
  LET new == DOMAIN context \ (DOMAIN frame.saved \cup Control(frame.node))
  IN [v \in DOMAIN frame.saved \cup new |->
        IF v \in new THEN context[v] ELSE frame.saved[v]]

EnterLoop ==
  /\ Going("loop")
  /\ IF N(Child).times = 0
     THEN /\ mode' = "back" /\ ret' = [Passes EXCEPT !.done = {0}]
          /\ UNCHANGED <<stack, ctx>>
     ELSE /\ mode' = "next" /\ UNCHANGED ret
          /\ stack' = Append(stack, [Frame(Child) EXCEPT !.saved = ctx])
          /\ ctx' = InIteration(ctx, Child, 0)
  /\ UNCHANGED <<session, play, registry, executors, books, trace, wait, seeing>>

\* The end of an iteration, by its last action or by continue.
Iterate ==
  LET merged == Merged(Top, ctx)
      i == Top.iter + 1
  IN IF i < N(Top.node).times
     THEN /\ mode' = "next" /\ UNCHANGED ret
          /\ stack' = [stack EXCEPT ![Len(stack)] =
                         [@ EXCEPT !.pos = 1, !.iter = i, !.saved = merged]]
          /\ ctx' = InIteration(merged, Top.node, i)
     ELSE /\ Returns([Passes EXCEPT !.done = {i}])
          /\ ctx' = merged

\* The loop is given up: an action failed, or one was not resolved.
GiveUp(reported) ==
  /\ Returns([Fails EXCEPT !.done = reported])
  /\ ctx' = Merged(Top, ctx)

NextIteration ==
  /\ mode = "next" /\ N(Top.node).kind = "loop" /\ Top.pos > Len(Body)
  /\ Iterate
  /\ UNCHANGED <<session, play, registry, executors, books, trace, wait, seeing>>

LoopBreaks ==
  /\ mode = "broken" /\ GiveUp({})
  /\ UNCHANGED <<session, play, registry, executors, books, trace, wait, seeing>>

\* An action in a container is over: announced, and acted upon.
Back ==
  /\ mode = "back" /\ ~AtRoot
  /\ events' = Append(events, Event(Child, Top.id, TRUE, ret))
  /\ LET loop == N(Top.node).kind = "loop" IN
     CASE ret.ok /\ ret.skip /\ loop -> Iterate
       [] ret.ok /\ ret.skip /\ ~loop -> Returns(Passes) /\ UNCHANGED ctx
       [] ~ret.ok /\ loop -> GiveUp({Top.iter})
       [] ~ret.ok /\ ~loop -> Returns(Fails) /\ UNCHANGED ctx
       [] OTHER -> mode' = "next" /\ stack' = Moved(Top.pos + 1) /\ UNCHANGED <<ret, ctx>>
  /\ UNCHANGED <<session, play, registry, executors, books, ran, now, wait, seeing>>

-----------------------------------------------------------------------------
(* Back in execute_playbook.                                               *)

\* Mutant: the setting speaks for any failure.
GoesOnRegardless == ret.ok \/ play.onward

\* Only a test at top level may fail without an end, and is cause to pull the files
\* the playbook pulls, once.
GoesOn == ret.ok \/ (N(Child).kind = "test" /\ play.onward)

TopBack ==
  /\ mode = "back" /\ AtRoot
  /\ events' = Append(events, Event(Child, Top.id, TRUE, ret))
  /\ results' = Append(results, ret.ok)
  /\ records' = [records EXCEPT ![Len(records)] = IF ret.ok THEN "completed" ELSE "failed"]
  /\ pulled' = (pulled \/ (play.pulls /\ ~ret.ok /\ N(Child).kind = "test"))
  /\ IF ret.stop \/ ~GoesOn
     THEN Over(results')
     ELSE /\ mode' = "next" /\ stack' = Moved(Top.pos + 1)
          /\ UNCHANGED verdicts
  /\ UNCHANGED <<session, play, ret, data, executors, ran, now, wait, seeing>>

\* The run is interrupted while an action waits: the loops it is in put the context
\* back on the way out, everything else stays as it is.
Unwound ==
  LET context(i) == IF i \in Loops THEN stack[i].saved ELSE ctx
      \* a variable is that of the outermost context that has it, unless a loop that
      \* is further out keeps it to itself
      levels == Loops \cup {Len(stack) + 1}
      first(v) == Min({i \in levels : v \in DOMAIN context(i)})
      kept == {v \in UNION {DOMAIN context(i) : i \in levels} :
                 \A i \in Loops : i < first(v) => v \notin Control(stack[i].node)}
  IN [v \in kept |-> context(first(v))[v]]

Cancel ==
  /\ mode = "go" /\ mode' = "cancelled" /\ ctx' = Unwound
  /\ UNCHANGED <<session, play, stack, ret, registry, executors, books, trace, wait, seeing>>

Done == mode = "cancelled" \/ (mode \in {"idle", "raised"} /\ session = <<>>)
Terminated == Done /\ UNCHANGED vars

Leaf ==
  \/ Simple \/ Captured \/ SaveVariable \/ Click \/ VmTest \/ HostTest \/ Signal
  \/ WaitBegins \/ WaitGoesOn \/ WaitEnds

Step ==
  \/ Begin \/ Pass \/ Announce \/ End \/ Dispatch \/ Leaf
  \/ EnterBlock \/ LeaveBlock \/ EnterLoop \/ NextIteration \/ LoopBreaks
  \/ Back \/ TopBack

Next == Step \/ Cancel \/ Terminated

Spec == Init /\ [][Next]_vars /\ WF_vars(Step)

-----------------------------------------------------------------------------
(* Properties.                                                             *)

Mode == {"idle", "next", "run", "go", "back", "broken", "raised", "cancelled"}

TypeOK ==
  /\ mode \in Mode /\ ret.ok \in BOOLEAN
  /\ mode \in {"next", "run", "go", "back", "broken"} => stack # <<>>
  /\ mode \in {"run", "go", "back", "broken"} => Top.pos \in DOMAIN Body
  /\ \A v \in DOMAIN registry : registry[v] \in 0..MaxValue
  /\ wait.step # "off" => mode = "go" \/ mode = "cancelled"
  /\ \A i \in DOMAIN records : records[i] \in {"running", "completed", "failed"}

\* The names a loop sets by itself, and playbooks that use them for nothing else.
Automatic == {"index", "total", "item"}
NoneReserved ==
  \A p \in Books :
    /\ DOMAIN p.vars \cap Automatic = {}
    /\ \A n \in DOMAIN p.node :
         /\ p.node[n].kind \in {"command", "save"} => p.node[n].var \notin Automatic
         /\ p.node[n].item \cap {"index", "total"} = {}

\* In a loop, index and total are those of the innermost loop, whatever ran in
\* the body before; outside of loops they are gone, however the loop was left.
LoopVariablesLocal ==
  IF mode = "cancelled" \/ Loops = {}
  THEN Automatic \cap DOMAIN ctx = {}
  ELSE LET loop == stack[Max(Loops)]
       IN /\ {"index", "total"} \subseteq DOMAIN ctx
          /\ ctx["index"] = loop.iter /\ ctx["total"] = N(loop.node).times

\* Once something has failed in a playbook, at any depth, nothing more is begun,
\* but for what follows a test at top level that may fail.
FailureIsLast ==
  mode # "idle" =>
  \A i, j \in DOMAIN events :
    (/\ i < j /\ events[i].book = Len(session) /\ events[j].book = Len(session)
     /\ events[i].complete /\ ~events[i].ok /\ ~events[j].complete)
      => events[i].kind = "test" /\ ~events[i].nested /\ play.onward

Ended == mode = "idle" /\ verdicts # <<>>

\* No two actions got the same id: their ids hold the place and the millisecond.
Apart ==
  \A i, j \in DOMAIN events :
    ~events[i].complete /\ ~events[j].complete /\ events[i].id = events[j].id => i = j

\* If no two actions got the same id, the summary counts every action executed once,
\* at whatever depth and in whatever iteration, and every failure.
Begun == {i \in DOMAIN events : ~events[i].complete}
Finished(ok) == {i \in DOMAIN events : events[i].complete /\ events[i].ok = ok}
Counted(rows) == {i \in rows : events[i].kind \notin Utility \cup Container}

TallyExact ==
  Ended /\ Apart =>
    LET tally == Tally(events)
    IN /\ tally.total_actions = Cardinality(Counted(Begun))
       /\ tally.failed_actions = Cardinality(Counted(Finished(FALSE)))
       /\ tally.successful_actions = Cardinality(Counted(Finished(TRUE)))

\* A playbook's verdict is success only if nothing failed, at any depth, in it or in
\* those the controller executed before.
Unblemished == \A i \in DOMAIN events : events[i].ok
SuccessIsClean == Ended /\ verdicts[Len(verdicts)] => Unblemished

\* And if nothing failed, it is a success, and so says the summary, unless two actions
\* got the same id.
ReportExact ==
  /\ SuccessIsClean
  /\ Ended /\ Unblemished => verdicts[Len(verdicts)] /\ (Apart => Tally(events).all_passed)

\* An action with the containers around it.
Around(p) ==
  LET around[n \in DOMAIN p.node] == {n} \cup UNION {around[c] : c \in Holders(p, n)}
  IN around

\* The innermost of them that names a machine says where; if none does, the primary one.
Nearest(p, n) ==
  LET named == {a \in Around(p)[n] : p.node[a].machine # None}
  IN IF named = {} THEN Primary
     ELSE p.node[CHOOSE a \in named : named \subseteq Around(p)[a]].machine

\* What an action does is done on the machine it names, else on that of the nearest
\* container around it that names one, else on the primary one, whichever machines the
\* actions before it, or in it, were for.
RightMachine ==
  \A i \in DOMAIN ran :
    (ran[i].book = Len(session) /\ ~N(ran[i].node).host)
      => ran[i].machine = Nearest(play, ran[i].node)

\* A click that did not look for its target itself went where the resolution just
\* before it had found the same target.
MatchIsPrevious ==
  \A i \in DOMAIN ran : ran[i].about # <<>> /\ "match" \in DOMAIN ran[i].about =>
    ran[i].about.match = ran[i].about.before

\* A wait outlasts its timeout by the idle time and three short calls at most.
WaitBounded == wait.step # "off" => wait.left >= -(wait.action.idle + 3)

\* Every playbook comes to an end, whatever hangs, if its actions do.
EveryPlaybookEnds == <>Done

\* A variable has one value: the one actions and tests see is the one templates see.
OneValue ==
  Loops = {} => \A v \in DOMAIN ctx \cap DOMAIN registry : ctx[v] = registry[v]

=============================================================================
