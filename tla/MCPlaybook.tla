----------------------------- MODULE MCPlaybook -----------------------------
(* Playbooks for TLC: each puts one hard combination together. *)
EXTENDS Playbook, TLC

CONSTANTS m1, m2, t1

Plain == [kind |-> "command", body |-> <<>>, times |-> 0, item |-> {}, machine |-> None,
          needs |-> {}, reads |-> {}, var |-> None, lenient |-> FALSE, cache |-> TRUE,
          host |-> FALSE, expected |-> FALSE, guarded |-> FALSE, action |-> None]

Do(kind) == [Plain EXCEPT !.kind = kind]
On(machine, node) == [node EXCEPT !.machine = machine]
Needing(names, node) == [node EXCEPT !.needs = names]
With(v, node) == [node EXCEPT !.var = v]
Keep(v) == With(v, Plain)
Save(v, reads) == [Do("save") EXCEPT !.var = v, !.reads = reads]
Block(body) == [Do("block") EXCEPT !.body = body]
When(body) == [Block(body) EXCEPT !.guarded = TRUE]
Loop(n, body) == [Do("loop") EXCEPT !.times = n, !.body = body]
Over2(body) == [Loop(2, body) EXCEPT !.item = {"item"}]
Named(item, loop) == [loop EXCEPT !.item = {item}]
Await(all, of, timeout, skip, idle) ==
  [Do("wait") EXCEPT !.action = [all |-> all, of |-> of, timeout |-> timeout,
                                 interval |-> 1, skip |-> skip, idle |-> idle]]
There == [target |-> t1, exists |-> TRUE]
NotThere == [target |-> t1, exists |-> FALSE]

Book(body, nodes) ==
  [node |-> (Root :> [Do("playbook") EXCEPT !.body = body]) @@ nodes,
   vars |-> <<>>, chosen |-> 1..Len(body), onward |-> FALSE, pulls |-> FALSE]

\* Loops in loops, captures and continue inside them, and what is left afterwards.
Nested == Book(<<"outer", "after">>,
  "outer" :> Over2(<<"keep", "inner", "use">>) @@ "keep" :> Keep("x") @@
  "inner" :> Named("each", Loop(2, <<"again", "skip", "tell">>)) @@ "again" :> Save("y", {"index"}) @@
  "skip" :> With("y", Do("continue")) @@ "tell" :> Needing({"index", "each", "x"}, Plain) @@
  "use" :> Needing({"item", "y"}, Plain) @@ "after" :> Needing({"x", "y"}, Plain))

\* Templates that name a variable nobody sets, at every kind of place.
Unset == Book(<<"block", "loop", "top">>,
  "block" :> When(<<"a", "loose">>) @@ "a" :> Do("pull") @@
  "loose" :> [Save("z", {"w"}) EXCEPT !.var = "w"] @@
  "loop" :> Loop(2, <<"b", "bad">>) @@ "b" :> Do("pause") @@
  "bad" :> Needing({"z"}, Plain) @@ "top" :> Needing({"z"}, Plain))
UnsetInBlock == Book(<<"block", "top">>,
  "block" :> Block(<<"bad">>) @@ "bad" :> Needing({"z"}, Plain) @@ "top" :> Plain)
UnsetAtTop == Book(<<"a", "top">>, "a" :> Plain @@ "top" :> Needing({"z"}, Plain))

\* Tests that may fail, at top level and below.
Tested == [Book(<<"t", "pause", "tests", "u", "got">>,
  "t" :> Do("test") @@ "pause" :> Do("pause") @@ "tests" :> Block(<<"v">>) @@
  "v" :> [Do("test") EXCEPT !.expected = TRUE] @@
  "u" :> [Do("test") EXCEPT !.host = TRUE] @@ "got" :> Do("pull"))
  EXCEPT !.onward = TRUE, !.pulls = TRUE]

\* Actions for several machines, one of them in a block for another.
Machines == Book(<<"a", "b", "c", "h">>,
  "a" :> Plain @@ "b" :> On(m2, Block(<<"d", "e", "f", "g">>)) @@ "d" :> Plain @@
  "g" :> Loop(1, <<"deep">>) @@ "deep" :> Plain @@
  "e" :> On(m1, Plain) @@ "f" :> [Plain EXCEPT !.lenient = TRUE] @@ "c" :> Plain @@
  "h" :> On(m2, [Do("test") EXCEPT !.host = TRUE]))

\* Matches that are found before they are clicked.
Clicks == Book(<<"w", "c", "when", "d">>,
  "w" :> Await(FALSE, <<There, There>>, 2, "never", 0) @@ "c" :> With(t1, [Do("click") EXCEPT !.cache = FALSE]) @@
  "when" :> When(<<"e">>) @@ "e" :> With(t1, Do("click")) @@ "d" :> With(t1, Do("click")))
Drags == Book(<<"loop">>,
  "loop" :> Loop(2, <<"w", "c", "d">>) @@ "w" :> Await(TRUE, <<There, NotThere>>, 1, "once", 1) @@
  "c" :> With(t1, Do("click")) @@ "d" :> With(t1, Do("click")))

\* Waits for a screen to settle, once or throughout.
Settling == Book(<<"w", "v">>,
  "w" :> Await(TRUE, <<There, NotThere>>, 3, "once", 2) @@
  "v" :> Await(FALSE, <<NotThere, There>>, 3, "continuous", 1))

\* Stops: at top level if a value says so, and in a loop, where it is not heard.
Stops == Book(<<"n", "stop", "loop", "all", "end">>,
  "n" :> Keep("n") @@ "stop" :> With("n", Do("stop")) @@
  "loop" :> Loop(2, <<"s", "c">>) @@ "s" :> With("n", Do("stop")) @@ "c" :> Do("continue") @@
  "all" :> Do("stop") @@ "end" :> Plain)

\* One of its actions is selected; its loop does nothing.
Chosen == [Book(<<"a", "none", "c">>, "a" :> Plain @@ "none" :> Loop(0, <<"b">>) @@
                "b" :> Plain @@ "c" :> Plain) EXCEPT !.chosen = {2, 3}]

\* The accumulation in a loop that the manual shows.
Counting == [Book(<<"loop", "end">>, "loop" :> Loop(2, <<"add">>) @@
                  "add" :> Save("n", {"n"}) @@ "end" :> Needing({"n"}, Plain))
             EXCEPT !.vars = "n" :> 0]

\* Every way to put three actions in, after and behind a container in a container.
Menu == {Plain, Do("test"), Do("stop"), Do("continue"), Keep("x"), Save("x", {"x"}),
         Needing({"x", "index"}, On(m2, Plain)), With(t1, Do("click")),
         Await(TRUE, <<There>>, 0, "never", 0)}
Containers == {Block(<<"in">>), Loop(2, <<"in">>)}
Systematic ==
  {[Book(<<"outer", "behind">>,
      "outer" :> [outer EXCEPT !.body = <<"inner", "after">>] @@ "inner" :> inner @@
      "in" :> a @@ "after" :> b @@ "behind" :> c) EXCEPT !.onward = TRUE] :
     outer \in Containers, inner \in Containers, a \in Menu, b \in Menu, c \in {Plain, Do("test"), Save("x", {"x"})}}

ManySessions ==
  {<<Nested>>, <<Unset>>, <<UnsetInBlock, Chosen>>, <<UnsetAtTop, Chosen>>, <<Tested, Chosen>>,
   <<Machines, Machines>>, <<Clicks>>, <<Drags>>, <<Settling>>, <<Stops>>, <<Counting, Counting>>}
  \cup {<<p>> : p \in Systematic}
CountingSession == {<<Counting>>}
OneMillisecond == {1}

ASSUME NamesAssumption == NoneReserved
=============================================================================
