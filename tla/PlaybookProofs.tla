---------------------------- MODULE PlaybookProofs ----------------------------
(***************************************************************************)
(* Theorems about the execution of playbooks, for any sessions of any      *)
(* playbooks, of whatever depth.                                           *)
(***************************************************************************)
EXTENDS Playbook, FiniteSetTheorems, FunctionTheorems, WellFoundedInduction, TLAPS

-----------------------------------------------------------------------------
(* Sequences, whatever they are of.                                        *)

Sequence(s) == s \in Seq({s[i] : i \in DOMAIN s})

LEMMA SequenceOf ==
  ASSUME NEW S, NEW s \in Seq(S)
  PROVE  Sequence(s) /\ Len(s) \in Nat /\ DOMAIN s = 1..Len(s)
<1>1. Len(s) \in Nat /\ DOMAIN s = 1..Len(s) /\ s = [i \in 1..Len(s) |-> s[i]] OBVIOUS
<1>2. s \in [1..Len(s) -> {s[i] : i \in DOMAIN s}] BY <1>1
<1> QED BY <1>1, <1>2 DEF Sequence

LEMMA EmptyFacts == Sequence(<<>>) /\ Len(<<>>) = 0 /\ DOMAIN <<>> = {}
<1>1. <<>> \in Seq({}) OBVIOUS
<1>2. Sequence(<<>>) BY <1>1, SequenceOf
<1> QED BY <1>2

LEMMA SequenceFacts ==
  ASSUME NEW s, Sequence(s)
  PROVE  Len(s) \in Nat /\ DOMAIN s = 1..Len(s) /\ (s # <<>> <=> Len(s) # 0)
BY DEF Sequence

LEMMA AppendFacts ==
  ASSUME NEW s, Sequence(s), NEW x
  PROVE  /\ Sequence(Append(s, x)) /\ Len(Append(s, x)) = Len(s) + 1
         /\ Append(s, x)[Len(s) + 1] = x
         /\ \A i \in 1..Len(s) : Append(s, x)[i] = s[i]
<1> DEFINE S == {s[i] : i \in DOMAIN s} \cup {x}
<1>1. s \in Seq(S)
  <2>1. s \in Seq({s[i] : i \in DOMAIN s}) BY DEF Sequence
  <2> QED BY <2>1
<1> HIDE DEF S
<1>2. x \in S BY DEF S
<1>3. Append(s, x) \in Seq(S) /\ Len(Append(s, x)) = Len(s) + 1 BY <1>1, <1>2
<1>4. Append(s, x)[Len(s) + 1] = x /\ \A i \in 1..Len(s) : Append(s, x)[i] = s[i] BY <1>1, <1>2
<1>5. Sequence(Append(s, x)) BY <1>3, SequenceOf
<1> QED BY <1>3, <1>4, <1>5

LEMMA PopFacts ==
  ASSUME NEW s, Sequence(s), s # <<>>, NEW t, t = SubSeq(s, 1, Len(s) - 1)
  PROVE  /\ Sequence(t) /\ Len(t) = Len(s) - 1 /\ (t = <<>> <=> Len(s) = 1)
         /\ \A i \in 1..Len(s) - 1 : t[i] = s[i]
<1> DEFINE S == {s[i] : i \in DOMAIN s}
<1>1. s \in Seq(S) BY DEF Sequence
<1> HIDE DEF S
<1>2. Len(s) \in Nat /\ Len(s) # 0 /\ DOMAIN s = 1..Len(s) BY <1>1
<1>3. t = [i \in 1..Len(s) - 1 |-> s[i]] BY <1>1, <1>2
<1>4. t \in Seq(S) /\ Len(t) = Len(s) - 1 BY <1>1, <1>2, <1>3
<1>5. Sequence(t) BY <1>4, SequenceOf
<1>6. t = <<>> <=> Len(t) = 0 BY <1>5, SequenceFacts
<1> QED BY <1>2, <1>3, <1>4, <1>5, <1>6

LEMMA SetFacts ==
  ASSUME NEW s, Sequence(s), NEW k \in DOMAIN s, NEW x, NEW t, t = [s EXCEPT ![k] = x]
  PROVE  /\ Sequence(t) /\ Len(t) = Len(s) /\ t[k] = x
         /\ \A i \in 1..Len(s) : i # k => t[i] = s[i]
<1> DEFINE S == {s[i] : i \in DOMAIN s} \cup {x}
<1>1. s \in Seq(S)
  <2>1. s \in Seq({s[i] : i \in DOMAIN s}) BY DEF Sequence
  <2> QED BY <2>1
<1>2. x \in S BY DEF S
<1> HIDE DEF S
<1>3. t \in Seq(S) /\ Len(t) = Len(s) BY <1>1, <1>2
<1> QED BY <1>1, <1>2, <1>3, SequenceOf

-----------------------------------------------------------------------------
(* The stack is a path through the tree of the playbook.                   *)

Values(c) == \A v \in DOMAIN c : c[v] \in Nat

FrameOK(p, f) ==
  /\ f \in [node : DOMAIN p.node, pos : Nat, iter : Nat, saved : {f.saved}, id : {f.id}]
  /\ f.pos \in 1..Len(p.node[f.node].body) + 1
  /\ Values(f.saved)

\* The frame that a frame is entered from stands at it.
Inside(p, f, g) ==
  /\ f.pos \in DOMAIN p.node[f.node].body /\ p.node[f.node].body[f.pos] = g.node
  /\ p.node[g.node].kind \in {"block", "loop"}

Path(p, s) ==
  /\ Sequence(s)
  /\ \A i \in 1..Len(s) : FrameOK(p, s[i])
  /\ s # <<>> => p.node[s[1].node].kind = "playbook"
  /\ \A i \in 1..Len(s) - 1 : Inside(p, s[i], s[i + 1])

LEMMA BookFacts ==
  ASSUME NEW p \in Books
  PROVE  /\ Root \in DOMAIN p.node /\ p.node[Root].kind = "playbook"
         /\ \A n \in DOMAIN p.node :
              /\ p.node[n].body \in Seq(DOMAIN p.node) /\ p.node[n].times \in Nat
              /\ Len(p.node[n].body) \in Nat /\ DOMAIN p.node[n].body = 1..Len(p.node[n].body)
              /\ \A i \in 1..Len(p.node[n].body) :
                   p.node[n].body[i] \in DOMAIN p.node /\ p.node[p.node[n].body[i]].kind # "playbook"
         /\ \A v \in DOMAIN p.vars : p.vars[v] \in 0..MaxValue
BY PlaybookAssumption DEF WellFormed

LEMMA RootPath ==
  ASSUME NEW p \in Books
  PROVE  Path(p, <<Frame(Root)>>)
<1>1. <<Frame(Root)>> \in Seq({Frame(Root)}) OBVIOUS
<1>2. Sequence(<<Frame(Root)>>) /\ Len(<<Frame(Root)>>) = 1 BY <1>1, SequenceOf
<1>3. FrameOK(p, Frame(Root)) BY BookFacts DEF FrameOK, Frame, Values
<1> QED BY <1>2, <1>3, BookFacts DEF Path, Frame

LEMMA TopFacts ==
  ASSUME NEW p \in Books, NEW s, Path(p, s), s # <<>>
  PROVE  /\ Len(s) \in Nat \ {0} /\ DOMAIN s = 1..Len(s) /\ FrameOK(p, s[Len(s)])
         /\ Len(s) = 1 <=> p.node[s[Len(s)].node].kind = "playbook"
         /\ Len(s) # 1 => p.node[s[Len(s)].node].kind \in {"block", "loop"}
<1>1. Len(s) \in Nat \ {0} /\ DOMAIN s = 1..Len(s) BY SequenceFacts DEF Path
<1>2. FrameOK(p, s[Len(s)]) BY <1>1 DEF Path
<1>3. CASE Len(s) = 1 BY <1>1, <1>2, <1>3 DEF Path
<1>4. CASE Len(s) # 1
  <2>1. Len(s) - 1 \in 1..Len(s) - 1 BY <1>1, <1>4
  <2>2. Inside(p, s[Len(s) - 1], s[Len(s)]) BY <1>1, <2>1 DEF Path
  <2> QED BY <1>1, <1>2, <1>4, <2>2 DEF Inside
<1> QED BY <1>1, <1>2, <1>3, <1>4

Replaced(s, f) == [s EXCEPT ![Len(s)] = f]

LEMMA MovedPath ==
  ASSUME NEW p \in Books, NEW s, Path(p, s), s # <<>>, NEW f, FrameOK(p, f), f.node = s[Len(s)].node
  PROVE  LET t == Replaced(s, f)
         IN Path(p, t) /\ Len(t) = Len(s) /\ t # <<>> /\ t[Len(t)] = f
            /\ \A i \in 1..Len(s) - 1 : t[i] = s[i]
<1> DEFINE t == Replaced(s, f)
<1>1. Len(s) \in Nat \ {0} /\ Len(s) \in DOMAIN s BY TopFacts
<1>2. Sequence(s) BY DEF Path
<1>3. /\ Sequence(t) /\ Len(t) = Len(s) /\ t[Len(s)] = f
      /\ \A i \in 1..Len(s) : i # Len(s) => t[i] = s[i] BY <1>1, <1>2, SetFacts DEF Replaced
<1> HIDE DEF t
<1>4. \A i \in 1..Len(t) : FrameOK(p, t[i]) BY <1>1, <1>3 DEF Path
<1>5. t # <<>> /\ p.node[t[1].node].kind = "playbook"
  <2>1. t # <<>> BY <1>1, <1>3, SequenceFacts
  <2>2. t[1].node = s[1].node BY <1>1, <1>3
  <2> QED BY <2>1, <2>2 DEF Path
<1>6. ASSUME NEW i \in 1..Len(t) - 1 PROVE Inside(p, t[i], t[i + 1])
  <2>1. t[i] = s[i] /\ t[i + 1].node = s[i + 1].node BY <1>1, <1>3
  <2>2. Inside(p, s[i], s[i + 1]) BY <1>3 DEF Path
  <2> QED BY <2>1, <2>2 DEF Inside
<1>7. Path(p, t) BY <1>3, <1>4, <1>5, <1>6 DEF Path
<1>8. \A i \in 1..Len(s) - 1 : t[i] = s[i] BY <1>1, <1>3
<1> QED BY <1>3, <1>5, <1>7, <1>8 DEF t

LEMMA PushedPath ==
  ASSUME NEW p \in Books, NEW s, Path(p, s), s # <<>>, NEW f, FrameOK(p, f), Inside(p, s[Len(s)], f)
  PROVE  LET t == Append(s, f)
         IN Path(p, t) /\ Len(t) = Len(s) + 1 /\ t # <<>> /\ t[Len(t)] = f
            /\ \A i \in 1..Len(s) : t[i] = s[i]
<1> DEFINE t == Append(s, f)
<1>1. Len(s) \in Nat \ {0} BY TopFacts
<1>2. Sequence(s) BY DEF Path
<1>3. /\ Sequence(t) /\ Len(t) = Len(s) + 1 /\ t[Len(s) + 1] = f
      /\ \A i \in 1..Len(s) : t[i] = s[i] BY <1>2, AppendFacts
<1> HIDE DEF t
<1>4. ASSUME NEW i \in 1..Len(t) PROVE FrameOK(p, t[i])
  <2>1. CASE i = Len(s) + 1 BY <1>3, <2>1
  <2>2. CASE i # Len(s) + 1
    <3>1. i \in 1..Len(s) BY <1>1, <1>3, <2>2
    <3> QED BY <1>3, <3>1 DEF Path
  <2> QED BY <2>1, <2>2
<1>5. t # <<>> /\ p.node[t[1].node].kind = "playbook"
  <2>1. t # <<>> BY <1>1, <1>3, SequenceFacts
  <2> QED BY <1>1, <1>3, <2>1 DEF Path
<1>6. ASSUME NEW i \in 1..Len(t) - 1 PROVE Inside(p, t[i], t[i + 1])
  <2>1. CASE i = Len(s) BY <1>1, <1>3, <2>1
  <2>2. CASE i # Len(s)
    <3>1. i \in 1..Len(s) - 1 /\ i \in 1..Len(s) /\ i + 1 \in 1..Len(s) BY <1>1, <1>3, <2>2
    <3>2. Inside(p, s[i], s[i + 1]) BY <3>1 DEF Path
    <3> QED BY <1>3, <3>1, <3>2
  <2> QED BY <2>1, <2>2
<1>7. Path(p, t) BY <1>3, <1>4, <1>5, <1>6 DEF Path
<1> QED BY <1>3, <1>5, <1>7 DEF t

LEMMA PoppedPath ==
  ASSUME NEW p \in Books, NEW s, Path(p, s), s # <<>>, Len(s) # 1
  PROVE  LET t == SubSeq(s, 1, Len(s) - 1)
         IN Path(p, t) /\ Len(t) = Len(s) - 1 /\ t # <<>> /\ Inside(p, t[Len(t)], s[Len(s)])
            /\ \A i \in 1..Len(t) : t[i] = s[i]
<1> DEFINE t == SubSeq(s, 1, Len(s) - 1)
<1>1. Len(s) \in Nat \ {0} BY TopFacts
<1>2. Sequence(s) BY DEF Path
<1>3. /\ Sequence(t) /\ Len(t) = Len(s) - 1 /\ t # <<>>
      /\ \A i \in 1..Len(s) - 1 : t[i] = s[i] BY <1>2, PopFacts
<1> HIDE DEF t
<1>4. \A i \in 1..Len(t) : FrameOK(p, t[i]) BY <1>1, <1>3 DEF Path
<1>5. p.node[t[1].node].kind = "playbook"  BY <1>1, <1>3 DEF Path
<1>6. \A i \in 1..Len(t) - 1 : Inside(p, t[i], t[i + 1])
  <2> TAKE i \in 1..Len(t) - 1
  <2>1. i \in 1..Len(s) - 1 /\ i + 1 \in 1..Len(s) - 1 BY <1>1, <1>3
  <2>2. Inside(p, s[i], s[i + 1]) BY <2>1 DEF Path
  <2> QED BY <1>3, <2>1, <2>2
<1>7. Path(p, t) BY <1>3, <1>4, <1>5, <1>6 DEF Path
<1>8. Inside(p, t[Len(t)], s[Len(s)])
  <2>1. ASSUME NEW n \in Nat \ {0}, n # 1 PROVE n - 1 \in 1..n - 1 /\ n - 1 + 1 = n BY <2>1
  <2>2. Len(s) - 1 \in 1..Len(s) - 1 /\ Len(s) - 1 + 1 = Len(s) BY <1>1, <2>1
  <2>3. Inside(p, s[Len(s) - 1], s[Len(s) - 1 + 1]) BY <2>2 DEF Path
  <2> QED BY <1>1, <1>3, <2>2, <2>3
<1> QED BY <1>1, <1>3, <1>7, <1>8 DEF t

-----------------------------------------------------------------------------
(* Where execution is.                                                     *)

InABook == {"next", "run", "go", "back", "broken"}
AtAnAction == {"run", "go", "back", "broken"}

Waits == wait.step # "off" /\ mode # "cancelled"

Placed ==
  /\ session \in Seq(Books) /\ play \in Books /\ mode \in Mode
  /\ Path(play, stack)
  /\ mode \in InABook => stack # <<>>
  /\ mode \in AtAnAction => Top.pos \in DOMAIN Body
  /\ mode = "broken" => N(Top.node).kind = "loop"
  /\ Waits => mode = "go" /\ N(Child).kind = "wait"

LEMMA TopIs ==
  ASSUME Placed, stack # <<>>
  PROVE  /\ Len(stack) \in Nat \ {0} /\ FrameOK(play, Top) /\ Top.node \in DOMAIN play.node
         /\ Body \in Seq(DOMAIN play.node) /\ Len(Body) \in Nat /\ DOMAIN Body = 1..Len(Body)
         /\ AtRoot <=> N(Top.node).kind = "playbook"
         /\ ~AtRoot => N(Top.node).kind \in {"block", "loop"}
         /\ Top.pos \in DOMAIN Body => Child \in DOMAIN play.node /\ N(Child).kind # "playbook"
<1>1. play \in Books /\ Path(play, stack) BY DEF Placed
<1>2. /\ Len(stack) \in Nat \ {0} /\ FrameOK(play, Top)
      /\ AtRoot <=> N(Top.node).kind = "playbook"
      /\ ~AtRoot => N(Top.node).kind \in {"block", "loop"}
  BY <1>1, TopFacts DEF Top, AtRoot, N
<1>3. Top.node \in DOMAIN play.node BY <1>2 DEF FrameOK
<1>4. Body \in Seq(DOMAIN play.node) /\ Len(Body) \in Nat /\ DOMAIN Body = 1..Len(Body)
  BY <1>1, <1>3, BookFacts DEF Body, N
<1>5. Top.pos \in DOMAIN Body => Child \in DOMAIN play.node /\ N(Child).kind # "playbook"
  BY <1>1, <1>3, BookFacts DEF Child, Body, N
<1> QED BY <1>2, <1>3, <1>4, <1>5

\* The five ways a step moves about: not at all, along a body, into a container, out of
\* it, and out of the playbook.
LEMMA Stays ==
  ASSUME Placed, mode \in AtAnAction \ {"broken"}, UNCHANGED <<session, play, stack>>,
         mode' \in {"go", "back", "cancelled"},
         Waits' => mode' = "go" /\ N(Child).kind = "wait"
  PROVE  Placed'
BY DEF Placed, Mode, InABook, AtAnAction, Waits, Top, Body, Child, N

LEMMA MovesOn ==
  ASSUME Placed, stack # <<>>, UNCHANGED <<session, play>>,
         NEW f, FrameOK(play, f), f.node = Top.node, stack' = Replaced(stack, f),
         mode' \in {"next", "raised", "run", "broken"},
         mode' \in AtAnAction => f.pos \in DOMAIN Body,
         mode' = "broken" => N(Top.node).kind = "loop",
         ~Waits'
  PROVE  /\ Placed' /\ Top' = f /\ Len(stack') = Len(stack)
         /\ \A i \in 1..Len(stack) - 1 : stack'[i] = stack[i]
<1>1. /\ Path(play, stack') /\ Len(stack') = Len(stack) /\ stack' # <<>> /\ stack'[Len(stack')] = f
      /\ \A i \in 1..Len(stack) - 1 : stack'[i] = stack[i]
  <2>1. play \in Books /\ Path(play, stack) /\ f.node = stack[Len(stack)].node BY DEF Placed, Top
  <2> QED BY <2>1, MovedPath
<1> QED BY <1>1 DEF Placed, Mode, InABook, AtAnAction, Top, Body, Child, N

LEMMA GoesIn ==
  ASSUME Placed, mode = "go", UNCHANGED <<session, play>>,
         NEW f, FrameOK(play, f), f.node = Child, N(Child).kind \in {"block", "loop"},
         stack' = Append(stack, f), mode' = "next", ~Waits'
  PROVE  /\ Placed' /\ Top' = f /\ Len(stack') = Len(stack) + 1
         /\ \A i \in 1..Len(stack) : stack'[i] = stack[i]
<1>1. stack # <<>> /\ Top.pos \in DOMAIN Body BY DEF Placed, InABook, AtAnAction
<1>2. Inside(play, stack[Len(stack)], f) BY <1>1 DEF Inside, Top, Body, Child, N
<1>3. /\ Path(play, stack') /\ Len(stack') = Len(stack) + 1 /\ stack' # <<>> /\ stack'[Len(stack')] = f
      /\ \A i \in 1..Len(stack) : stack'[i] = stack[i]
  BY <1>1, <1>2, PushedPath DEF Placed
<1> QED BY <1>3 DEF Placed, Mode, InABook, AtAnAction, Top, Body, Child, N

LEMMA ComesOut ==
  ASSUME Placed, stack # <<>>, ~AtRoot, UNCHANGED <<session, play>>, stack' = Below, mode' = "back", ~Waits'
  PROVE  /\ Placed' /\ N(Child)'.kind \in {"block", "loop"} /\ Len(stack') = Len(stack) - 1
         /\ stack' # <<>> /\ \A i \in 1..Len(stack') : stack'[i] = stack[i]
<1>1. /\ Path(play, stack') /\ stack' # <<>> /\ Inside(play, stack'[Len(stack')], stack[Len(stack)])
      /\ Len(stack') = Len(stack) - 1 /\ \A i \in 1..Len(stack') : stack'[i] = stack[i]
  BY PoppedPath DEF Placed, Below, AtRoot
<1>2. Top'.pos \in DOMAIN Body' /\ N(Child)'.kind \in {"block", "loop"}
  BY <1>1 DEF Inside, Top, Body, Child, N
<1> QED BY <1>1, <1>2 DEF Placed, Mode, InABook, AtAnAction, N

LEMMA GetsOut ==
  ASSUME Placed, UNCHANGED <<session, play>>, stack' = <<>>, mode' = "idle", ~Waits'
  PROVE  Placed'
<1> QED BY EmptyFacts DEF Placed, Path, Mode, InABook, AtAnAction

-----------------------------------------------------------------------------
(* The types.                                                              *)

Valued ==
  /\ ret.ok \in BOOLEAN
  /\ mode # "cancelled" => Values(ctx)
  /\ \A v \in DOMAIN registry : registry[v] \in 0..MaxValue
  /\ records \in Seq({"running", "completed", "failed"})

LEMMA Verdicts ==
  /\ Passes.ok = TRUE /\ Fails.ok = FALSE
  /\ \A r \in Outcome : r.ok \in BOOLEAN
  /\ \A b : [Passes EXCEPT !.ok = b].ok = b
  /\ \A b, c : [Passes EXCEPT !.stop = b, !.skip = c].ok = TRUE
  /\ \A d : [Passes EXCEPT !.done = d].ok = TRUE /\ [Fails EXCEPT !.done = d].ok = FALSE
BY DEF Passes, Fails, Outcome

LEMMA AssignedValues ==
  ASSUME NEW v, NEW value \in 0..MaxValue, Assigned(v, value), Values(ctx),
         \A x \in DOMAIN registry : registry[x] \in 0..MaxValue
  PROVE  Values(ctx') /\ \A x \in DOMAIN registry' : registry'[x] \in 0..MaxValue
<1>1. value \in Nat BY PlaybookAssumption
<1> QED BY <1>1 DEF Assigned, Values

LEMMA MergedValues ==
  ASSUME NEW f, NEW c, Values(f.saved), Values(c)
  PROVE  Values(Merged(f, c))
BY DEF Values, Merged

LEMMA IterationValues ==
  ASSUME NEW c, Values(c), play \in Books, NEW n \in DOMAIN play.node, NEW i \in Nat
  PROVE  Values(InIteration(c, n, i))
<1>1. N(n).times \in Nat BY BookFacts DEF N
<1> QED BY <1>1 DEF Values, InIteration

TypeInv == Placed /\ Valued

\* An action without actions of its own.
LEMMA LeafTypes ==
  ASSUME TypeInv, Leaf
  PROVE  TypeInv'
<1> USE DEF TypeInv
<1>1. mode = "go" /\ UNCHANGED <<session, play, stack, records>>
  BY DEF Leaf, Simple, Captured, SaveVariable, Click, VmTest, HostTest, Signal, WaitBegins, WaitGoesOn,
         WaitEnds, Going, Ends, Left, books, place
<1>2. mode' \in {"go", "back"}
  BY <1>1 DEF Leaf, Simple, Captured, SaveVariable, Click, VmTest, HostTest, Signal, WaitBegins, WaitGoesOn,
         WaitEnds, Going, Ends, Left, books, place
<1>3. Waits' => mode' = "go" /\ N(Child).kind = "wait"
  <2>1. CASE WaitBegins \/ WaitGoesOn
    BY <1>1, <2>1 DEF WaitBegins, WaitGoesOn, Going, place
  <2>2. CASE WaitEnds BY <2>2 DEF WaitEnds, NotWaiting, Waits
  <2>3. CASE Simple \/ Captured \/ SaveVariable \/ Click \/ VmTest \/ HostTest \/ Signal
    <3>1. N(Child).kind # "wait" /\ wait' = wait
      BY <2>3 DEF Simple, Captured, SaveVariable, Click, VmTest, HostTest, Signal, Going
    <3> QED BY <1>1, <3>1 DEF Placed, Waits
  <2> QED BY <2>1, <2>2, <2>3 DEF Leaf
<1>4. Placed' BY <1>1, <1>2, <1>3, Stays DEF AtAnAction
<1>5. ret'.ok \in BOOLEAN
  <2>1. CASE Simple BY <2>1, Verdicts DEF Simple, Ends, Left
  <2>2. CASE Captured BY <2>2, Verdicts DEF Captured, Ends, Left
  <2>3. CASE SaveVariable BY <2>3, Verdicts DEF SaveVariable, Ends, Left
  <2>4. CASE Click BY <2>4, Verdicts DEF Click, Ends, Left
  <2>5. CASE VmTest
    <3>1. \A b : \A status \in Status, called \in BOOLEAN : process_test_result(status, called, b) \in BOOLEAN
      BY DEF process_test_result
    <3> QED BY <2>5, <3>1, Verdicts DEF VmTest, Ends, Left
  <2>6. CASE HostTest BY <2>6, Verdicts DEF HostTest, Left
  <2>7. CASE Signal BY <2>7, Verdicts DEF Signal, Ends, Left
  <2>8. CASE WaitBegins \/ WaitGoesOn BY <2>8 DEF WaitBegins, WaitGoesOn, Valued
  <2>9. CASE WaitEnds BY <2>9, Verdicts DEF WaitEnds, Ends, Left
  <2> QED BY <2>1, <2>2, <2>3, <2>4, <2>5, <2>6, <2>7, <2>8, <2>9 DEF Leaf
<1>6. Values(ctx') /\ \A v \in DOMAIN registry' : registry'[v] \in 0..MaxValue
  <2>1. CASE UNCHANGED data BY <1>1, <2>1 DEF data, Valued
  <2>2. CASE Captured
    <3>1. CASE UNCHANGED data BY <2>1, <3>1
    <3>2. ASSUME NEW value \in 0..MaxValue, Assigned(N(Child).var, value)
          PROVE Values(ctx') /\ \A v \in DOMAIN registry' : registry'[v] \in 0..MaxValue
      BY <1>1, <3>2, AssignedValues DEF Valued
    <3> QED BY <2>2, <3>1, <3>2 DEF Captured
  <2>3. CASE SaveVariable
    <3>1. CASE UNCHANGED data BY <2>1, <3>1
    <3>2. ASSUME ~UNCHANGED data
          PROVE  \E value \in 0..MaxValue : Assigned(N(Child).var, value)
      <4> DEFINE v == CHOOSE v \in N(Child).reads : TRUE
      <4>1. N(Child).reads \subseteq DOMAIN ctx BY <2>3, <3>2 DEF SaveVariable
      <4>2. CASE N(Child).reads = {}
        <5>1. Assigned(N(Child).var, 0) BY <2>3, <4>1, <4>2 DEF SaveVariable
        <5> QED BY <5>1, PlaybookAssumption
      <4>3. CASE N(Child).reads # {}
        <5>1. v \in DOMAIN ctx BY <4>1, <4>3
        <5>2. ctx[v] \in Nat BY <1>1, <5>1 DEF Valued, Values
        <5>3. Assigned(N(Child).var, Shorter(ctx[v] + 1, MaxValue)) BY <2>3, <4>1, <4>3 DEF SaveVariable
        <5>4. Shorter(ctx[v] + 1, MaxValue) \in 0..MaxValue BY <5>2, PlaybookAssumption DEF Shorter
        <5> QED BY <5>3, <5>4
      <4> QED BY <4>2, <4>3
    <3> QED BY <1>1, <3>1, <3>2, AssignedValues DEF Valued
  <2> QED BY <2>1, <2>2, <2>3
      DEF Leaf, Simple, Click, VmTest, HostTest, Signal, WaitBegins, WaitGoesOn, WaitEnds, data
<1> QED BY <1>1, <1>4, <1>5, <1>6 DEF Valued

LEMMA NoWait ==
  ASSUME Placed, UNCHANGED wait, mode # "cancelled", mode = "go" => N(Child).kind # "wait"
  PROVE  ~Waits'
BY DEF Placed, Waits

LEMMA FrameMoved ==
  ASSUME Placed, stack # <<>>, NEW pos \in 1..Len(Body) + 1
  PROVE  LET f == [Top EXCEPT !.pos = pos]
         IN /\ Moved(pos) = Replaced(stack, f) /\ FrameOK(play, f) /\ f.node = Top.node
            /\ f.pos = pos /\ f.saved = Top.saved /\ f.iter = Top.iter
<1>1. FrameOK(play, Top) /\ Len(Body) \in Nat /\ Len(stack) \in Nat \ {0} BY TopIs
<1>2. pos \in Nat BY <1>1
<1> DEFINE f == [Top EXCEPT !.pos = pos]
<1>3. /\ f \in [node : DOMAIN play.node, pos : Nat, iter : Nat, saved : {Top.saved}, id : {Top.id}]
      /\ f.node = Top.node /\ f.saved = Top.saved /\ f.id = Top.id /\ f.pos = pos /\ f.iter = Top.iter
  BY <1>1, <1>2 DEF FrameOK
<1>4. FrameOK(play, f) BY <1>1, <1>3 DEF FrameOK, Body, N
<1>5. Moved(pos) = Replaced(stack, f) BY DEF Moved, Replaced, Top
<1> QED BY <1>3, <1>4, <1>5

LEMMA FrameNamed ==
  ASSUME Placed, stack # <<>>, NEW id
  PROVE  LET f == [Top EXCEPT !.id = id]
         IN /\ [stack EXCEPT ![Len(stack)].id = id] = Replaced(stack, f) /\ FrameOK(play, f) /\ f.node = Top.node
            /\ f.pos = Top.pos /\ f.saved = Top.saved /\ f.iter = Top.iter
<1>1. FrameOK(play, Top) BY TopIs
<1> DEFINE f == [Top EXCEPT !.id = id]
<1>2. /\ f \in [node : DOMAIN play.node, pos : Nat, iter : Nat, saved : {Top.saved}, id : {id}]
      /\ f.node = Top.node /\ f.saved = Top.saved /\ f.id = id /\ f.pos = Top.pos /\ f.iter = Top.iter
  BY <1>1 DEF FrameOK
<1>3. FrameOK(play, f) BY <1>1, <1>2 DEF FrameOK
<1>4. [stack EXCEPT ![Len(stack)].id = id] = Replaced(stack, f) BY DEF Replaced, Top
<1> QED BY <1>2, <1>3, <1>4

Again(f, iter, c) == [f EXCEPT !.pos = 1, !.iter = iter, !.saved = c]

LEMMA FrameAgain ==
  ASSUME Placed, stack # <<>>, NEW iter \in Nat, NEW c, Values(c)
  PROVE  LET f == Again(Top, iter, c)
         IN FrameOK(play, f) /\ f.node = Top.node /\ f.saved = c /\ f.iter = iter
<1>1. FrameOK(play, Top) /\ Len(Body) \in Nat BY TopIs
<1> DEFINE f == Again(Top, iter, c)
<1>2. /\ f \in [node : DOMAIN play.node, pos : Nat, iter : Nat, saved : {c}, id : {Top.id}]
      /\ f.node = Top.node /\ f.saved = c /\ f.id = Top.id /\ f.pos = 1 /\ f.iter = iter
  BY <1>1 DEF FrameOK, Again
<1>3. 1 \in 1..Len(play.node[f.node].body) + 1 BY <1>1, <1>2 DEF Body, N
<1>4. FrameOK(play, f) BY <1>2, <1>3 DEF FrameOK
<1> QED BY <1>2, <1>4

LEMMA FrameNew ==
  ASSUME play \in Books, NEW n \in DOMAIN play.node, NEW c, Values(c)
  PROVE  /\ FrameOK(play, Frame(n)) /\ Frame(n).node = n
         /\ FrameOK(play, [Frame(n) EXCEPT !.saved = c])
         /\ [Frame(n) EXCEPT !.saved = c].node = n /\ [Frame(n) EXCEPT !.saved = c].saved = c
         /\ [Frame(n) EXCEPT !.saved = c].iter = 0
<1>1. Len(play.node[n].body) \in Nat BY BookFacts
<1> QED BY <1>1 DEF FrameOK, Frame, Values

-----------------------------------------------------------------------------

LEMMA TopValues ==
  ASSUME TypeInv, stack # <<>>
  PROVE  Values(Top.saved) /\ Top.iter \in Nat /\ Top.pos \in 1..Len(Body) + 1
BY TopIs DEF TypeInv, FrameOK, Body, N

\* The end of an iteration.
LEMMA IterateTypes ==
  ASSUME TypeInv, mode \in {"next", "back"}, N(Top.node).kind = "loop", Iterate, UNCHANGED <<session, play, wait>>
  PROVE  /\ Placed' /\ ret'.ok \in BOOLEAN /\ Values(ctx')
         /\ mode' = "next" \/ (mode' = "back" /\ ret'.ok = TRUE)
<1> DEFINE merged == Merged(Top, ctx)
           i == Top.iter + 1
<1>1. Placed /\ stack # <<>> /\ ~AtRoot /\ Top.node \in DOMAIN play.node /\ play \in Books
  <2>1. Placed /\ stack # <<>> /\ play \in Books BY DEF TypeInv, Placed, InABook
  <2> QED BY <2>1, TopIs
<1>2. Values(merged) /\ i \in Nat BY <1>1, TopValues, MergedValues DEF TypeInv, Valued
<1>3. ~Waits' BY <1>1, NoWait
<1> HIDE DEF merged, i
<1>4. CASE i < N(Top.node).times
  <2>1. /\ mode' = "next" /\ UNCHANGED ret /\ ctx' = InIteration(merged, Top.node, i)
        /\ stack' = [stack EXCEPT ![Len(stack)] = [@ EXCEPT !.pos = 1, !.iter = i, !.saved = merged]]
    BY <1>4 DEF Iterate, merged, i
  <2>2. Placed'
    <3> DEFINE f == Again(Top, i, merged)
    <3>1. stack' = Replaced(stack, f) BY <2>1 DEF Replaced, Top, Again
    <3>2. FrameOK(play, f) /\ f.node = Top.node BY <1>1, <1>2, FrameAgain
    <3> HIDE DEF f
    <3> QED BY <1>1, <1>3, <2>1, <3>1, <3>2, MovesOn DEF AtAnAction
  <2>3. Values(ctx') BY <1>1, <1>2, <2>1, IterationValues
  <2>4. ret'.ok \in BOOLEAN BY <2>1 DEF TypeInv, Valued
  <2> QED BY <2>1, <2>2, <2>3, <2>4
<1>5. CASE ~(i < N(Top.node).times)
  <2>1. Returns([Passes EXCEPT !.done = {i}]) /\ ctx' = merged BY <1>5 DEF Iterate, merged, i
  <2>2. mode' = "back" /\ stack' = Below /\ ret'.ok = TRUE BY <2>1, Verdicts DEF Returns
  <2> QED BY <1>1, <1>2, <1>3, <2>1, <2>2, ComesOut
<1> QED BY <1>4, <1>5

\* The end of a loop before its time.
LEMMA GiveUpTypes ==
  ASSUME TypeInv, mode \in {"back", "broken"}, N(Top.node).kind = "loop", NEW r, GiveUp(r),
         UNCHANGED <<session, play, wait>>
  PROVE  Placed' /\ ret'.ok = FALSE /\ Values(ctx') /\ mode' = "back" /\ N(Child)'.kind \in {"block", "loop"}
<1>1. Placed /\ stack # <<>> /\ ~AtRoot
  <2>1. Placed /\ stack # <<>> BY DEF TypeInv, Placed, InABook
  <2> QED BY <2>1, TopIs
<1>2. ~Waits' BY <1>1, NoWait
<1>3. mode' = "back" /\ stack' = Below /\ ret'.ok = FALSE /\ ctx' = Merged(Top, ctx)
  BY Verdicts DEF GiveUp, Returns
<1>4. Placed' /\ N(Child)'.kind \in {"block", "loop"} BY <1>1, <1>2, <1>3, ComesOut
<1>5. Values(ctx') BY <1>1, <1>3, TopValues, MergedValues DEF TypeInv, Valued
<1> QED BY <1>3, <1>4, <1>5

LEMMA BeginTypes ==
  ASSUME TypeInv, Begin
  PROVE  TypeInv'
<1> USE DEF TypeInv
<1>1. session \in Seq(Books) /\ session # <<>> BY DEF Begin, Placed
<1>2. play' \in Books /\ session' \in Seq(Books) BY <1>1 DEF Begin
<1>3. stack' = <<Frame(Root)>> /\ mode' = "next" BY DEF Begin
<1>4. Path(play', stack') /\ stack' # <<>> BY <1>2, <1>3, RootPath
<1>5. ~Waits' BY NoWait DEF Begin
<1>6. Placed' BY <1>2, <1>3, <1>4, <1>5 DEF Placed, Mode, InABook, AtAnAction
<1>7. \A v \in DOMAIN play'.vars : play'.vars[v] \in 0..MaxValue BY <1>2, BookFacts
<1>8. Values(ctx')
  <2>1. Values(ctx) BY DEF Begin, Valued
  <2>2. \A v \in DOMAIN play'.vars : play'.vars[v] \in Nat BY <1>7, PlaybookAssumption
  <2> QED BY <2>1, <2>2 DEF Begin, Values
<1> QED BY <1>6, <1>7, <1>8 DEF Begin, Valued, books

LEMMA MoveTypes ==
  ASSUME TypeInv, Pass \/ Announce \/ End
  PROVE  TypeInv'
<1> USE DEF TypeInv
<1>1. mode = "next" /\ stack # <<>> /\ Placed /\ UNCHANGED <<session, play, ret, ctx, registry, wait>>
  BY DEF Pass, Announce, End, Placed, InABook, data
<1>2. ~Waits' BY <1>1, NoWait
<1>3. Len(Body) \in Nat /\ Top.pos \in 1..Len(Body) + 1 /\ DOMAIN Body = 1..Len(Body) BY <1>1, TopIs, TopValues
<1>4. CASE Pass
  <2>1. Top.pos + 1 \in 1..Len(Body) + 1 /\ mode' = "next" /\ stack' = Moved(Top.pos + 1)
    BY <1>1, <1>3, <1>4 DEF Pass
  <2> DEFINE f == [Top EXCEPT !.pos = Top.pos + 1]
  <2>2. stack' = Replaced(stack, f) /\ FrameOK(play, f) /\ f.node = Top.node BY <1>1, <2>1, FrameMoved
  <2> HIDE DEF f
  <2>3. Placed' BY <1>1, <1>2, <2>1, <2>2, MovesOn DEF AtAnAction
  <2> QED BY <1>1, <1>4, <2>3 DEF Pass, Valued
<1>5. CASE Announce
  <2>1. Top.pos \in DOMAIN Body BY <1>3, <1>5 DEF Announce
  <2>2. mode' \in {"run", "raised", "broken"} /\ (mode' = "broken" => ~AtRoot /\ N(Top.node).kind # "block")
    BY <1>5 DEF Announce
  <2>3. PICK id : stack' = [stack EXCEPT ![Len(stack)].id = id] BY <1>5 DEF Announce
  <2> DEFINE f == [Top EXCEPT !.id = id]
  <2>4. stack' = Replaced(stack, f) /\ FrameOK(play, f) /\ f.node = Top.node /\ f.pos = Top.pos
    BY <1>1, <2>3, FrameNamed
  <2> HIDE DEF f
  <2>5. mode' = "broken" => N(Top.node).kind = "loop" BY <1>1, <2>2, TopIs
  <2>6. Placed' BY <1>1, <1>2, <2>1, <2>2, <2>4, <2>5, MovesOn DEF AtAnAction
  <2>7. records' \in Seq({"running", "completed", "failed"}) BY <1>5 DEF Announce, Valued
  <2> QED BY <1>1, <2>2, <2>6, <2>7 DEF Valued
<1>6. CASE End
  <2>1. mode' = "idle" /\ stack' = <<>> BY <1>6 DEF End, Over
  <2>2. Placed' BY <1>1, <1>2, <2>1, GetsOut
  <2> QED BY <1>1, <1>6, <2>1, <2>2 DEF End, Valued
<1> QED BY <1>4, <1>5, <1>6

LEMMA EnterTypes ==
  ASSUME TypeInv, Dispatch \/ EnterBlock \/ LeaveBlock \/ EnterLoop \/ Cancel
  PROVE  TypeInv'
<1> USE DEF TypeInv
<1>1. /\ Placed /\ stack # <<>> /\ mode \in {"next", "run", "go"} /\ play \in Books
      /\ UNCHANGED <<session, play, registry, records, wait>>
  BY DEF Dispatch, EnterBlock, LeaveBlock, EnterLoop, Cancel, Going, Placed, InABook, data, books
<1>2. CASE Dispatch
  <2>1. mode' \in {"go", "back"} /\ ret'.ok \in BOOLEAN /\ UNCHANGED <<stack, ctx>> /\ mode = "run"
    BY <1>2, Verdicts DEF Dispatch, Valued, data
  <2>2. ~Waits' BY <1>1, <2>1, NoWait
  <2>3. Placed' BY <1>1, <2>1, <2>2, Stays DEF AtAnAction
  <2> QED BY <1>1, <2>1, <2>3 DEF Valued
<1>3. CASE EnterBlock
  <2>1. mode = "go" /\ N(Child).kind = "block" /\ UNCHANGED ctx BY <1>3 DEF EnterBlock, Going, data
  <2>2. ~Waits' BY <1>1, <2>1, NoWait
  <2>3. Child \in DOMAIN play.node BY <1>1, <2>1, TopIs DEF Placed, AtAnAction
  <2>4. CASE mode' = "next" /\ stack' = Append(stack, Frame(Child)) /\ UNCHANGED ret
    <3>1. FrameOK(play, Frame(Child)) /\ Frame(Child).node = Child
      <4>1. Values(<<>>) BY DEF Values
      <4> QED BY <1>1, <2>3, <4>1, FrameNew
    <3>2. Placed' BY <1>1, <2>1, <2>2, <2>4, <3>1, GoesIn
    <3> QED BY <1>1, <2>1, <2>4, <3>2 DEF Valued
  <2>5. CASE mode' = "back" /\ ret' \in Outcome /\ UNCHANGED stack
    <3>1. Placed' BY <1>1, <2>1, <2>2, <2>5, Stays DEF AtAnAction
    <3> QED BY <1>1, <2>1, <2>5, <3>1, Verdicts DEF Valued
  <2> QED BY <1>3, <2>4, <2>5 DEF EnterBlock
<1>4. CASE LeaveBlock
  <2>1. /\ mode = "next" /\ mode' = "back" /\ ret' = Passes /\ stack' = Below /\ UNCHANGED ctx
        /\ N(Top.node).kind = "block"
    BY <1>4 DEF LeaveBlock, Returns, data
  <2>2. ~Waits' /\ ~AtRoot BY <1>1, <2>1, NoWait, TopIs
  <2>3. Placed' BY <1>1, <2>1, <2>2, ComesOut
  <2> QED BY <1>1, <2>1, <2>3, Verdicts DEF Valued
<1>5. CASE EnterLoop
  <2>1. mode = "go" /\ N(Child).kind = "loop" BY <1>5 DEF EnterLoop, Going
  <2>2. ~Waits' /\ Values(ctx) BY <1>1, <2>1, NoWait DEF Valued
  <2>3. Child \in DOMAIN play.node BY <1>1, <2>1, TopIs DEF Placed, AtAnAction
  <2>4. CASE N(Child).times = 0
    <3>1. mode' = "back" /\ ret'.ok = TRUE /\ UNCHANGED <<stack, ctx>> BY <1>5, <2>4, Verdicts DEF EnterLoop
    <3>2. Placed' BY <1>1, <2>1, <2>2, <3>1, Stays DEF AtAnAction
    <3> QED BY <1>1, <2>2, <3>1, <3>2 DEF Valued
  <2>5. CASE N(Child).times # 0
    <3> DEFINE f == [Frame(Child) EXCEPT !.saved = ctx]
    <3>1. mode' = "next" /\ UNCHANGED ret /\ stack' = Append(stack, f) /\ ctx' = InIteration(ctx, Child, 0)
      BY <1>5, <2>5 DEF EnterLoop
    <3>2. FrameOK(play, f) /\ f.node = Child BY <1>1, <2>2, <2>3, FrameNew
    <3> HIDE DEF f
    <3>3. Placed' BY <1>1, <2>1, <2>2, <3>1, <3>2, GoesIn
    <3>4. Values(ctx') BY <1>1, <2>2, <2>3, <3>1, IterationValues
    <3> QED BY <1>1, <3>1, <3>3, <3>4 DEF Valued
  <2> QED BY <2>4, <2>5
<1>6. CASE Cancel
  <2>1. mode = "go" /\ mode' = "cancelled" /\ UNCHANGED <<stack, ret>> BY <1>6 DEF Cancel
  <2>2. Placed' BY <1>1, <2>1, Stays DEF AtAnAction, Waits
  <2> QED BY <1>1, <2>1, <2>2 DEF Valued
<1> QED BY <1>2, <1>3, <1>4, <1>5, <1>6

LEMMA BackTypes ==
  ASSUME TypeInv, NextIteration \/ LoopBreaks \/ Back \/ TopBack
  PROVE  TypeInv'
<1> USE DEF TypeInv
<1>1. /\ Placed /\ stack # <<>> /\ mode \in {"next", "back", "broken"} /\ play \in Books
      /\ UNCHANGED <<session, play, registry, wait>>
  BY DEF NextIteration, LoopBreaks, Back, TopBack, Placed, InABook, data
<1>2. ~Waits' /\ Values(ctx) BY <1>1, NoWait DEF Valued
<1>3. CASE NextIteration
  <2>1. mode = "next" /\ N(Top.node).kind = "loop" /\ Iterate /\ UNCHANGED records BY <1>3 DEF NextIteration, books
  <2>2. Placed' /\ ret'.ok \in BOOLEAN /\ Values(ctx') BY <1>1, <2>1, IterateTypes
  <2> QED BY <1>1, <2>1, <2>2 DEF Valued
<1>4. CASE LoopBreaks
  <2>1. mode = "broken" /\ N(Top.node).kind = "loop" /\ GiveUp({}) /\ UNCHANGED records
    BY <1>4 DEF LoopBreaks, books, Placed
  <2>2. Placed' /\ ret'.ok = FALSE /\ Values(ctx') BY <1>1, <2>1, GiveUpTypes
  <2> QED BY <1>1, <2>1, <2>2 DEF Valued
<1>5. CASE Back
  <2>1. mode = "back" /\ ~AtRoot /\ UNCHANGED records BY <1>5 DEF Back, books
  <2>2. Placed' /\ ret'.ok \in BOOLEAN /\ Values(ctx')
    <3>1. CASE Iterate /\ N(Top.node).kind = "loop" BY <1>1, <2>1, <3>1, IterateTypes
    <3>2. CASE GiveUp({Top.iter}) /\ N(Top.node).kind = "loop"
      <4>1. Placed' /\ ret'.ok = FALSE /\ Values(ctx') BY <1>1, <2>1, <3>2, GiveUpTypes
      <4> QED BY <4>1
    <3>3. CASE UNCHANGED ctx /\ \E r \in {Passes, Fails} : Returns(r)
      <4>1. mode' = "back" /\ stack' = Below /\ ret'.ok \in BOOLEAN BY <3>3, Verdicts DEF Returns
      <4> QED BY <1>1, <1>2, <2>1, <3>3, <4>1, ComesOut
    <3>4. CASE mode' = "next" /\ stack' = Moved(Top.pos + 1) /\ UNCHANGED <<ret, ctx>>
      <4>1. Top.pos + 1 \in 1..Len(Body) + 1 BY <1>1, <2>1, TopIs DEF Placed, AtAnAction
      <4> DEFINE f == [Top EXCEPT !.pos = Top.pos + 1]
      <4>2. stack' = Replaced(stack, f) /\ FrameOK(play, f) /\ f.node = Top.node BY <1>1, <3>4, <4>1, FrameMoved
      <4> HIDE DEF f
      <4>3. Placed' BY <1>1, <1>2, <3>4, <4>2, MovesOn DEF AtAnAction
      <4> QED BY <1>2, <3>4, <4>3 DEF Valued
    <3> QED BY <1>5, <3>1, <3>2, <3>3, <3>4 DEF Back
  <2> QED BY <1>1, <2>1, <2>2 DEF Valued
<1>6. CASE TopBack
  <2>1. mode = "back" /\ UNCHANGED <<ret, ctx>> BY <1>6 DEF TopBack, data
  <2>2. records' \in Seq({"running", "completed", "failed"})
    <3>1. ASSUME NEW S, NEW s \in Seq(S), NEW x \in S PROVE [s EXCEPT ![Len(s)] = x] \in Seq(S)
      <4>1. Len(s) \in Nat /\ s \in [1..Len(s) -> S] BY <3>1
      <4>2. [s EXCEPT ![Len(s)] = x] \in [1..Len(s) -> S] BY <3>1, <4>1
      <4> QED BY <4>1, <4>2
    <3>2. records' = [records EXCEPT ![Len(records)] = IF ret.ok THEN "completed" ELSE "failed"]
      BY <1>6 DEF TopBack
    <3>3. (IF ret.ok THEN "completed" ELSE "failed") \in {"running", "completed", "failed"} OBVIOUS
    <3> QED BY <3>1, <3>2, <3>3 DEF Valued
  <2>3. CASE mode' = "idle" /\ stack' = <<>>
    <3>1. Placed' BY <1>1, <1>2, <2>3, GetsOut
    <3> QED BY <1>1, <1>2, <2>1, <2>2, <3>1 DEF Valued
  <2>4. CASE mode' = "next" /\ stack' = Moved(Top.pos + 1)
    <3>1. Top.pos + 1 \in 1..Len(Body) + 1 BY <1>1, <2>1, TopIs DEF Placed, AtAnAction
    <3> DEFINE f == [Top EXCEPT !.pos = Top.pos + 1]
    <3>2. stack' = Replaced(stack, f) /\ FrameOK(play, f) /\ f.node = Top.node BY <1>1, <2>4, <3>1, FrameMoved
    <3> HIDE DEF f
    <3>3. Placed' BY <1>1, <1>2, <2>4, <3>2, MovesOn DEF AtAnAction
    <3> QED BY <1>1, <1>2, <2>1, <2>2, <3>3 DEF Valued
  <2> QED BY <1>6, <2>3, <2>4 DEF TopBack, Over
<1> QED BY <1>3, <1>4, <1>5, <1>6

LEMMA TypeInit == Init => TypeInv
<1> SUFFICES ASSUME Init PROVE TypeInv OBVIOUS
<1>1. session \in Seq(Books) /\ session # <<>> BY PlaybookAssumption DEF Init
<1>2. play \in Books BY <1>1 DEF Init
<1>4. Path(play, stack) BY EmptyFacts DEF Init, Path
<1>5. Placed BY <1>1, <1>2, <1>4 DEF Init, Placed, Mode, InABook, AtAnAction, Waits, NotWaiting
<1>6. records \in Seq({"running", "completed", "failed"}) BY DEF Init
<1>7. ret.ok \in BOOLEAN BY Verdicts DEF Init
<1>8. DOMAIN ctx = {} /\ DOMAIN registry = {} BY DEF Init
<1> QED BY <1>5, <1>6, <1>7, <1>8 DEF TypeInv, Valued, Values

LEMMA TypeStep == ASSUME TypeInv, [Next]_vars PROVE TypeInv'
<1>1. CASE UNCHANGED vars
  BY <1>1 DEF vars, place, data, books, trace, TypeInv, Placed, Valued, Waits, Top, Body, Child, N
<1> QED BY <1>1, LeafTypes, BeginTypes, MoveTypes, EnterTypes, BackTypes DEF Next, Step, Terminated

THEOREM TypeInvariant == Spec => []TypeInv
<1>1. TypeInv /\ [Next]_vars => TypeInv' BY TypeStep
<1> QED BY TypeInit, <1>1, PTL DEF Spec

\* The variables keep their types, and execution is at an action of a container it is in
\* whenever it is inside of a playbook.
THEOREM TypeCorrect == Spec => []TypeOK
<1>1. TypeInv => TypeOK
  BY DEF TypeInv, Placed, Valued, Waits, TypeOK, InABook, AtAnAction
<1> QED BY TypeInvariant, <1>1, PTL

-----------------------------------------------------------------------------
(* The time a wait takes.                                                  *)

\* A wait in progress, of numbers.
Waiting(w) ==
  /\ w \in [step : {"capture", "pixels", "evaluate", "met", "timeout", "failed"}, action : {w.action},
            left : Int, before : BOOLEAN, satisfied : BOOLEAN, skip : BOOLEAN, leaf : Nat, holds : BOOLEAN]
  /\ {w.action.timeout, w.action.interval, w.action.idle} \subseteq Nat
  /\ w.action.all \in BOOLEAN

\* How far past its deadline a wait can be at each of its steps: each call takes at most
\* what is left, and one unit of time if nothing is.
InTime(w) ==
  /\ w.step = "capture" => w.left >= 0
  /\ w.step = "pixels" => w.left >= -1
  /\ w.step = "evaluate" => w.left >= -(w.action.idle + 2)
  /\ w.left >= -(w.action.idle + 3)

Fine(w) == Waiting(w) /\ InTime(w)
WaitInv == wait.step # "off" => Fine(wait)

LEMMA SpentFacts ==
  ASSUME NEW left \in Int, NEW took \in Nat
  PROVE  Spent(left, took) \in Int /\ Spent(left, took) >= left - took
BY DEF Spent, Longer, Floor

LEMMA SpentInBudget ==
  ASSUME NEW left \in Int, NEW took \in 0..Longer(left, 1)
  PROVE  /\ Spent(left, took) \in Int
         /\ left >= 1 => Spent(left, took) >= 0
         /\ left < 1 => Spent(left, took) >= left - 1
<1>1. took \in Nat /\ (left >= 1 => took <= left) /\ (left < 1 => took <= 1)
  BY DEF Longer
<1>2. Spent(left, took) \in Int /\ Spent(left, took) >= left - took BY <1>1, SpentFacts
<1> QED BY <1>1, <1>2

LEMMA NextCheckInTime ==
  ASSUME NEW w, Waiting(w), w.left >= -(w.action.idle + 3), NextCheck(w)
  PROVE  Fine(wait')
<1>1. w.left \in Int /\ w.action.idle \in Nat BY DEF Waiting
<1>2. Waiting(wait') /\ wait'.left = w.left /\ wait'.action = w.action
      /\ wait'.step = (IF Expired(w.left) THEN "timeout" ELSE "capture")
  BY DEF Waiting, NextCheck
<1>3. CASE Expired(w.left) BY <1>1, <1>2, <1>3 DEF Fine, InTime
<1>4. CASE ~Expired(w.left) BY <1>1, <1>2, <1>4 DEF Fine, InTime, Expired
<1> QED BY <1>3, <1>4

LEMMA NotMetInTime ==
  ASSUME NEW w, Waiting(w), w.left >= -(w.action.idle + 3), NotMet(w)
  PROVE  Fine(wait')
<1>0. w.left \in Int /\ w.action.idle \in Nat BY DEF Waiting
<1>1. CASE w.left <= 0
  <2>1. Waiting(wait') /\ wait'.left = w.left /\ wait'.action = w.action /\ wait'.step = "timeout"
    BY <1>1 DEF Waiting, NotMet, Expired
  <2> QED BY <1>0, <2>1 DEF Fine, InTime
<1>2. CASE ~(w.left <= 0)
  <2> DEFINE interval == IF w.skip THEN Longer(w.action.interval, 1) ELSE w.action.interval
             pause == Longer(0, Shorter(interval, w.left))
  <2>1. interval \in Nat BY DEF Waiting, Longer
  <2>2. pause \in Nat /\ pause <= w.left
    <3> HIDE DEF interval
    <3> QED BY <1>0, <1>2, <2>1 DEF Longer, Shorter
  <2>3. wait' = [w EXCEPT !.left = w.left - pause, !.step = "capture", !.skip = FALSE, !.leaf = 0,
                          !.holds = w.action.all]
    BY <1>2 DEF NotMet, Slept, Expired
  <2> HIDE DEF pause
  <2>4. w.left - pause \in Int /\ w.left - pause >= 0 BY <1>0, <2>2
  <2>5. Waiting(wait') /\ wait'.left = w.left - pause /\ wait'.action = w.action BY <2>3, <2>4 DEF Waiting
  <2> QED BY <1>0, <2>4, <2>5 DEF Fine, InTime
<1> QED BY <1>1, <1>2

LEMMA CaptureInTime ==
  ASSUME Fine(wait), Capture
  PROVE  Fine(wait')
<1>1. PICK took \in 1..per_check_budget :
        LET w == [wait EXCEPT !.left = Spent(@, took)]
        IN \/ NextCheck(w)
           \/ \E step \in {"pixels", "evaluate"} : wait' = [w EXCEPT !.step = step, !.before = TRUE]
  BY DEF Capture
<1> DEFINE w == [wait EXCEPT !.left = Spent(@, took)]
<1>2. wait.left \in Int /\ wait.left >= 0 /\ wait.action.idle \in Nat BY DEF Capture, Fine, Waiting, InTime
<1>3. took \in 0..Longer(wait.left, 1) BY <1>2 DEF per_check_budget, Longer
<1>4. Spent(wait.left, took) \in Int /\ Spent(wait.left, took) >= -1 BY <1>2, <1>3, SpentInBudget
<1>5. Waiting(w) /\ w.left \in Int /\ w.left >= -1 /\ w.action = wait.action BY <1>4 DEF Fine, Waiting
<1>6. NextCheck(w) \/ \E step \in {"pixels", "evaluate"} : wait' = [w EXCEPT !.step = step, !.before = TRUE]
  BY <1>1
<1> HIDE DEF w
<1>7. CASE NextCheck(w)
  <2>1. w.left >= -(w.action.idle + 3) BY <1>2, <1>5
  <2> QED BY <1>5, <1>7, <2>1, NextCheckInTime
<1>8. ASSUME NEW step \in {"pixels", "evaluate"}, wait' = [w EXCEPT !.step = step, !.before = TRUE]
      PROVE  Fine(wait')
  <2>1. Waiting(wait') /\ wait'.left = w.left /\ wait'.action = w.action /\ wait'.step = step
    BY <1>5, <1>8 DEF Waiting
  <2> QED BY <1>2, <1>5, <2>1 DEF Fine, InTime
<1> QED BY <1>6, <1>7, <1>8

LEMMA PixelsInTime ==
  ASSUME Fine(wait), Pixels
  PROVE  Fine(wait')
<1>1. wait.step = "pixels" /\ wait.left \in Int /\ wait.left >= -1 /\ wait.action.idle \in Nat /\ Waiting(wait)
  BY DEF Pixels, Fine, Waiting, InTime
<1>2. ASSUME NEW skip \in BOOLEAN, NEW satisfied \in BOOLEAN,
             wait' = [wait EXCEPT !.step = "evaluate", !.skip = skip, !.satisfied = satisfied]
      PROVE  Fine(wait')
  <2>1. Waiting(wait') /\ wait'.left = wait.left /\ wait'.action = wait.action /\ wait'.step = "evaluate"
    BY <1>1, <1>2 DEF Waiting
  <2> QED BY <1>1, <2>1 DEF Fine, InTime
<1>3. ASSUME NEW took \in 1..Longer(wait.left - wait.action.idle, 1), NEW r,
             r = [wait EXCEPT !.satisfied = TRUE, !.left = Spent(wait.left, wait.action.idle + took)],
             NextCheck(r) \/ wait' = [r EXCEPT !.step = "evaluate"]
      PROVE  Fine(wait')
  <2>1. took \in Nat /\ wait.left - (wait.action.idle + took) >= -(wait.action.idle + 2)
        /\ wait.action.idle + took \in Nat
    BY <1>1, <1>3 DEF Longer
  <2>a. /\ Spent(wait.left, wait.action.idle + took) \in Int
        /\ Spent(wait.left, wait.action.idle + took) >= wait.left - (wait.action.idle + took)
    BY <1>1, <2>1, SpentFacts
  <2> DEFINE left == Spent(wait.left, wait.action.idle + took)
             late == wait.left - (wait.action.idle + took)
  <2>2. left \in Int /\ left >= -(wait.action.idle + 2)
    <3>1. left \in Int /\ late \in Int /\ left >= late /\ late >= -(wait.action.idle + 2) BY <1>1, <2>1, <2>a
    <3> HIDE DEF left, late
    <3> QED BY <1>1, <3>1
  <2>3. Waiting(r) /\ r.left = left /\ r.action = wait.action BY <1>1, <1>3, <2>2 DEF Waiting
  <2> HIDE DEF left
  <2>4. CASE NextCheck(r)
    <3>1. r.left >= -(r.action.idle + 3) BY <1>1, <2>2, <2>3
    <3> QED BY <2>3, <2>4, <3>1, NextCheckInTime
  <2>5. CASE wait' = [r EXCEPT !.step = "evaluate"]
    <3>1. Waiting(wait') /\ wait'.left = r.left /\ wait'.action = r.action /\ wait'.step = "evaluate"
      BY <2>3, <2>5 DEF Waiting
    <3> QED BY <1>1, <2>2, <2>3, <3>1 DEF Fine, InTime
  <2> QED BY <1>3, <2>4, <2>5
<1>4. CASE wait' = [wait EXCEPT !.step = "evaluate", !.skip = TRUE]
  <2>1. wait' = [wait EXCEPT !.step = "evaluate", !.skip = TRUE, !.satisfied = wait.satisfied]
    BY <1>1, <1>4 DEF Waiting
  <2> QED BY <1>1, <1>2, <2>1 DEF Waiting
<1>5. CASE wait' = [wait EXCEPT !.step = "evaluate"]
  <2>1. wait' = [wait EXCEPT !.step = "evaluate", !.skip = wait.skip, !.satisfied = wait.satisfied]
    BY <1>1, <1>5 DEF Waiting
  <2> QED BY <1>1, <1>2, <2>1 DEF Waiting
<1>6. CASE wait' = [[wait EXCEPT !.satisfied = TRUE] EXCEPT !.step = "evaluate"]
  <2>1. wait' = [wait EXCEPT !.step = "evaluate", !.skip = wait.skip, !.satisfied = TRUE]
    BY <1>1, <1>6 DEF Waiting
  <2> QED BY <1>1, <1>2, <2>1 DEF Waiting
<1>7. CASE \E took \in 1..Longer(wait.left - wait.action.idle, 1) :
             LET r == [[wait EXCEPT !.satisfied = TRUE] EXCEPT !.left = Spent(@, wait.action.idle + took)]
             IN NextCheck(r) \/ wait' = [r EXCEPT !.step = "evaluate"]
  <2>1. PICK took \in 1..Longer(wait.left - wait.action.idle, 1) :
             LET r == [[wait EXCEPT !.satisfied = TRUE] EXCEPT !.left = Spent(@, wait.action.idle + took)]
             IN NextCheck(r) \/ wait' = [r EXCEPT !.step = "evaluate"]
    BY <1>7
  <2> DEFINE r == [[wait EXCEPT !.satisfied = TRUE] EXCEPT !.left = Spent(@, wait.action.idle + took)]
  <2>2. r = [wait EXCEPT !.satisfied = TRUE, !.left = Spent(wait.left, wait.action.idle + took)]
    BY <1>1 DEF Waiting
  <2>3. NextCheck(r) \/ wait' = [r EXCEPT !.step = "evaluate"] BY <2>1
  <2> HIDE DEF r
  <2> QED BY <1>3, <2>2, <2>3
<1> QED BY <1>4, <1>5, <1>6, <1>7 DEF Pixels

LEMMA EvaluationInTime ==
  ASSUME Fine(wait), NEW machine, Skip \/ EvaluateLeaf(machine) \/ CutOff \/ Evaluated
  PROVE  Fine(wait')
<1>1. wait.step = "evaluate" /\ wait.left \in Int /\ wait.left >= -(wait.action.idle + 2)
      /\ wait.action.idle \in Nat /\ Waiting(wait)
  BY DEF Skip, EvaluateLeaf, CutOff, Evaluated, Undecided, Fine, Waiting, InTime
<1>2. ASSUME NEW took \in 0..per_check_budget
      PROVE  /\ Spent(wait.left, took) \in Int
             /\ Spent(wait.left, took) >= -(wait.action.idle + 3)
             /\ LET w == [wait EXCEPT !.left = Spent(@, took)]
                IN Waiting(w) /\ w.left >= -(w.action.idle + 3) /\ w.action = wait.action
  <2>1. Spent(wait.left, took) \in Int
        /\ (wait.left >= 1 => Spent(wait.left, took) >= 0)
        /\ (wait.left < 1 => Spent(wait.left, took) >= wait.left - 1)
    BY <1>1, <1>2, SpentInBudget DEF per_check_budget
  <2>2. Spent(wait.left, took) >= -(wait.action.idle + 3) BY <1>1, <2>1
  <2> QED BY <1>1, <2>1, <2>2 DEF Waiting
<1>3. CASE Skip
  <2>1. NotMet(wait) /\ wait.left >= -(wait.action.idle + 3) BY <1>1, <1>3 DEF Skip
  <2> QED BY <1>1, <2>1, NotMetInTime
<1>4. CASE EvaluateLeaf(machine)
  <2>1. PICK holds \in BOOLEAN : wait' = [wait EXCEPT !.leaf = wait.leaf + 1, !.holds = holds]
    <3>1. ASSUME NEW leaf, NEW sight PROVE Holds(leaf, sight) \in BOOLEAN
      <4>1. Holds(leaf, sight) = (sight = "there") \/ Holds(leaf, sight) = (sight \in {"gone", "noanswer"})
        BY Zenon DEF Holds
      <4>2. (sight = "there") \in BOOLEAN /\ (sight \in {"gone", "noanswer"}) \in BOOLEAN OBVIOUS
      <4> QED BY <4>1, <4>2, Zenon
    <3>2. PICK leaf, sight : wait' = [wait EXCEPT !.leaf = wait.leaf + 1, !.holds = Holds(leaf, sight)]
      BY <1>4 DEF EvaluateLeaf
    <3> QED BY <3>1, <3>2, Zenon
  <2>2. wait.leaf + 1 \in Nat BY <1>1 DEF Waiting
  <2>3. Waiting(wait') /\ wait'.left = wait.left /\ wait'.action = wait.action /\ wait'.step = "evaluate"
    BY <1>1, <2>1, <2>2 DEF Waiting
  <2> QED BY <1>1, <2>3 DEF Fine, InTime
<1>5. CASE CutOff
  <2>1. CASE NotMet([wait EXCEPT !.left = Spent(@, per_check_budget)])
    <3>1. per_check_budget \in 0..per_check_budget BY <1>1 DEF per_check_budget, Longer
    <3> QED BY <1>2, <2>1, <3>1, NotMetInTime
  <2>2. ASSUME NEW took \in 0..per_check_budget,
               wait' = [wait EXCEPT !.left = Spent(@, took), !.step = "failed"]
        PROVE  Fine(wait')
    <3>1. Spent(wait.left, took) \in Int /\ Spent(wait.left, took) >= -(wait.action.idle + 3) BY <1>2
    <3>2. Waiting(wait') /\ wait'.left = Spent(wait.left, took) /\ wait'.action = wait.action
          /\ wait'.step = "failed"
      BY <1>1, <2>2, <3>1 DEF Waiting
    <3> QED BY <3>1, <3>2 DEF Fine, InTime
  <2> QED BY <1>5, <2>1, <2>2 DEF CutOff
<1>6. CASE Evaluated
  <2>1. PICK took \in 0..per_check_budget :
          LET w == [wait EXCEPT !.left = Spent(@, took)]
          IN wait' = [w EXCEPT !.step = "met"] \/ NotMet(w)
    BY <1>6 DEF Evaluated
  <2> DEFINE w == [wait EXCEPT !.left = Spent(@, took)]
  <2>2. Waiting(w) /\ w.left >= -(w.action.idle + 3) BY <1>2
  <2>3. wait' = [w EXCEPT !.step = "met"] \/ NotMet(w) BY <2>1
  <2> HIDE DEF w
  <2>4. CASE NotMet(w) BY <2>2, <2>4, NotMetInTime
  <2>5. CASE wait' = [w EXCEPT !.step = "met"]
    <3>1. Waiting(wait') /\ wait'.left = w.left /\ wait'.action = w.action /\ wait'.step = "met"
      BY <2>2, <2>5 DEF Waiting
    <3> QED BY <2>2, <3>1 DEF Fine, InTime
  <2> QED BY <2>3, <2>4, <2>5
<1> QED BY <1>3, <1>4, <1>5, <1>6

LEMMA WaitStep ==
  ASSUME TypeInv, WaitInv, [Next]_vars
  PROVE  WaitInv'
<1>1. CASE UNCHANGED wait BY <1>1 DEF WaitInv
<1>2. CASE WaitBegins
  <2>1. mode = "go" /\ N(Child).kind = "wait" /\ wait' = Began(N(Child).action) BY <1>2 DEF WaitBegins, Going
  <2>2. play \in Books /\ Child \in DOMAIN play.node
    <3>1. Placed /\ stack # <<>> /\ Top.pos \in DOMAIN Body BY <2>1 DEF TypeInv, Placed, InABook, AtAnAction
    <3> QED BY <3>1, TopIs DEF Placed
  <2> DEFINE a == N(Child).action
  <2>3. {a.timeout, a.interval, a.idle} \subseteq Nat /\ a.all \in BOOLEAN
    BY <2>1, <2>2, PlaybookAssumption DEF WellFormed, N
  <2>4. wait' = Began(a) BY <2>1
  <2> HIDE DEF a
  <2>5. Waiting(wait') /\ wait'.left = a.timeout /\ wait'.action = a /\ wait'.step = "capture"
    BY <2>3, <2>4 DEF Waiting, Began
  <2> QED BY <2>3, <2>5 DEF WaitInv, Fine, InTime
<1>3. CASE WaitGoesOn
  <2>1. Fine(wait)
    BY <1>3 DEF WaitInv, WaitGoesOn, Checks, Capture, Pixels, Skip, EvaluateLeaf, CutOff, Evaluated, Undecided
  <2> QED BY <1>3, <2>1, CaptureInTime, PixelsInTime, EvaluationInTime DEF WaitGoesOn, Checks, WaitInv
<1>4. CASE WaitEnds BY <1>4 DEF WaitEnds, WaitInv, NotWaiting
<1> QED BY <1>1, <1>2, <1>3, <1>4
    DEF Next, Step, Leaf, Cancel, Terminated, vars, Begin, Pass, Announce, End, Dispatch, EnterBlock,
        LeaveBlock, EnterLoop, NextIteration, LoopBreaks, Back, TopBack, Simple, Captured, SaveVariable,
        Click, VmTest, HostTest, Signal

\* Whatever hangs in it, a wait outlasts its timeout by the idle time and three short calls
\* at most: each call it makes is given what is left of the timeout.
THEOREM WaitsBounded == Spec => []WaitBounded
<1>1. Init => WaitInv BY DEF Init, WaitInv, NotWaiting
<1>2. TypeInv /\ WaitInv /\ [Next]_vars => WaitInv' BY WaitStep
<1>3. WaitInv => WaitBounded BY DEF WaitInv, Fine, InTime, WaitBounded
<1> QED BY TypeInvariant, <1>1, <1>2, <1>3, PTL DEF Spec

-----------------------------------------------------------------------------
(* What follows a failure.                                                 *)

\* The end of something that failed in this playbook, and was not allowed to.
Failure(e) ==
  /\ e.book = Len(session) /\ e.complete /\ ~e.ok
  /\ ~(e.kind = "test" /\ ~e.nested /\ play.onward)

Dated ==
  /\ Sequence(events)
  /\ \A i \in DOMAIN events : events[i].book \in Nat /\ events[i].book >= Len(session)

Final ==
  \A i, j \in DOMAIN events :
    i < j /\ Failure(events[i]) /\ events[j].book = Len(session) => events[j].complete

Clean == \A i \in DOMAIN events : ~Failure(events[i])

\* Execution goes on, or the result on its way back is not the failure of a container.
Unhurt ==
  \/ mode \in {"next", "run", "go"}
  \/ mode = "back" /\ (ret.ok \/ N(Child).kind \notin {"block", "loop"})

FailureInv == Dated /\ Final /\ (Unhurt => Clean)

\* An action that is over may be announced at any time, one that begins only while
\* nothing has failed.
LEMMA EventAdded ==
  ASSUME Dated, Final, Placed, UNCHANGED <<session, play>>,
         NEW e, events' = Append(events, e), e.book = Len(session), e.complete \/ Clean
  PROVE  Dated' /\ Final' /\ (Clean /\ ~Failure(e) => Clean')
<1>1. Sequence(events) /\ Len(events) \in Nat /\ DOMAIN events = 1..Len(events) /\ Len(session) \in Nat
  BY SequenceFacts DEF Dated, Placed
<1>2. /\ Sequence(events') /\ Len(events') = Len(events) + 1 /\ events'[Len(events) + 1] = e
      /\ \A i \in 1..Len(events) : events'[i] = events[i]
  BY <1>1, AppendFacts
<1>3. DOMAIN events' = 1..Len(events) + 1 BY <1>2, SequenceFacts
<1>4. \A i \in DOMAIN events' : i = Len(events) + 1 \/ i \in DOMAIN events BY <1>1, <1>3
<1>5. Dated' BY <1>1, <1>2, <1>4 DEF Dated
<1>6. ASSUME NEW i \in DOMAIN events', NEW j \in DOMAIN events', i < j, Failure(events[i])',
             events'[j].book = Len(session)
      PROVE  events'[j].complete
  <2>1. i \in DOMAIN events /\ events'[i] = events[i] BY <1>1, <1>2, <1>3, <1>6
  <2>2. Failure(events[i]) BY <1>6, <2>1 DEF Failure
  <2>3. CASE j \in DOMAIN events BY <1>1, <1>2, <1>6, <2>1, <2>2, <2>3 DEF Final
  <2>4. CASE j = Len(events) + 1 BY <1>2, <2>1, <2>2, <2>4 DEF Clean
  <2> QED BY <1>4, <2>3, <2>4
<1>7. Final' BY <1>6 DEF Final
<1>8. Clean /\ ~Failure(e) => Clean' BY <1>1, <1>2, <1>4 DEF Clean, Failure
<1> QED BY <1>5, <1>7, <1>8

LEMMA FailureQuiet ==
  ASSUME FailureInv, UNCHANGED <<session, play, events>>, Unhurt \/ ~Unhurt'
  PROVE  FailureInv'
BY DEF FailureInv, Dated, Final, Clean, Failure

LEMMA FailureStep ==
  ASSUME TypeInv, FailureInv, [Next]_vars
  PROVE  FailureInv'
<1>1. CASE UNCHANGED vars
  <2>1. Unhurt' => Unhurt BY <1>1 DEF Unhurt, vars, place, N, Child, Body, Top
  <2> QED BY <1>1, <2>1, FailureQuiet DEF vars, place, trace
<1>2. CASE Begin
  <2>1. session \in Seq(Books) /\ session # <<>> BY <1>2 DEF TypeInv, Placed, Begin
  <2>2. Len(session') \in Nat /\ Len(session) \in Nat /\ Len(session') < Len(session)
    BY <1>2, <2>1 DEF Begin
  <2>3. UNCHANGED events BY <1>2 DEF Begin, trace
  <2>4. \A i \in DOMAIN events' : events'[i].book \in Nat /\ events'[i].book > Len(session')
    BY <2>2, <2>3 DEF FailureInv, Dated
  <2> QED BY <2>2, <2>3, <2>4 DEF FailureInv, Dated, Final, Clean, Failure
<1>3. CASE Pass \/ End \/ Dispatch \/ Leaf \/ EnterBlock \/ LeaveBlock \/ EnterLoop \/ NextIteration \/ Cancel
  <2>1. mode \in {"next", "run", "go"}
    BY <1>3 DEF Pass, End, Dispatch, Leaf, EnterBlock, LeaveBlock, EnterLoop, NextIteration, Cancel,
         Simple, Captured, SaveVariable, Click, VmTest, HostTest, Signal, WaitBegins, WaitGoesOn, WaitEnds, Going
  <2>2. UNCHANGED <<session, play, events>>
    BY <1>3 DEF Pass, End, Dispatch, Leaf, EnterBlock, LeaveBlock, EnterLoop, NextIteration, Cancel,
         Simple, Captured, SaveVariable, Click, VmTest, HostTest, Signal, WaitBegins, WaitGoesOn, WaitEnds,
         Ends, Left, trace, place
  <2> QED BY <2>1, <2>2, FailureQuiet DEF Unhurt
<1>4. CASE LoopBreaks
  <2>1. mode = "broken" /\ GiveUp({}) /\ UNCHANGED <<session, play, wait, events>> /\ N(Top.node).kind = "loop"
    BY <1>4 DEF LoopBreaks, trace, TypeInv, Placed
  <2>2. ret'.ok = FALSE /\ mode' = "back" /\ N(Child)'.kind \in {"block", "loop"} BY <2>1, GiveUpTypes
  <2> QED BY <2>1, <2>2, FailureQuiet DEF Unhurt
<1>5. CASE Announce
  <2>1. mode = "next" /\ UNCHANGED <<session, play>> BY <1>5 DEF Announce
  <2>2. Clean BY <2>1 DEF FailureInv, Unhurt
  <2>3. CASE UNCHANGED events BY <2>1, <2>3, FailureQuiet DEF Unhurt
  <2>4. CASE ~UNCHANGED events
    <3>1. PICK id : events' = Append(events, Event(Child, id, FALSE, Passes)) BY <1>5, <2>4 DEF Announce
    <3> DEFINE e == Event(Child, id, FALSE, Passes)
    <3>2. e.book = Len(session) /\ e.complete = FALSE BY DEF Event
    <3>3. events' = Append(events, e) BY <3>1
    <3> HIDE DEF e
    <3>4. ~Failure(e) BY <3>2 DEF Failure
    <3> QED BY <2>1, <2>2, <3>2, <3>3, <3>4, EventAdded DEF FailureInv, TypeInv
  <2> QED BY <2>3, <2>4
<1>6. CASE Back \/ TopBack
  <2> DEFINE e == Event(Child, Top.id, TRUE, ret)
  <2>1. mode = "back" /\ UNCHANGED <<session, play, wait>> /\ events' = Append(events, e)
    BY <1>6 DEF Back, TopBack
  <2>2. /\ e.book = Len(session) /\ e.complete = TRUE /\ e.ok = ret.ok /\ e.kind = N(Child).kind
        /\ e.nested = ~AtRoot
    BY DEF Event
  <2> HIDE DEF e
  <2>3. Dated' /\ Final' /\ (Clean /\ ~Failure(e) => Clean')
    BY <2>1, <2>2, EventAdded DEF FailureInv, TypeInv
  <2>4. CASE ret.ok
    <3>1. Clean /\ ~Failure(e) BY <2>1, <2>2, <2>4 DEF FailureInv, Unhurt, Failure
    <3> QED BY <2>3, <3>1 DEF FailureInv
  <2>5. CASE ~ret.ok /\ Back
    <3>1. Placed /\ stack # <<>> /\ ~AtRoot BY <2>1, <2>5 DEF Back, TypeInv, Placed, InABook
    <3>2. ret'.ok = FALSE /\ mode' = "back" /\ N(Child)'.kind \in {"block", "loop"}
      <4>1. CASE N(Top.node).kind = "loop"
        <5>1. GiveUp({Top.iter}) BY <2>5, <4>1 DEF Back
        <5> QED BY <2>1, <4>1, <5>1, GiveUpTypes
      <4>2. CASE N(Top.node).kind # "loop"
        <5>1. Returns(Fails) BY <2>5, <4>2 DEF Back
        <5>2. mode' = "back" /\ stack' = Below /\ ret'.ok = FALSE BY <5>1, Verdicts DEF Returns
        <5>3. ~Waits' BY <2>1, <3>1, NoWait
        <5> QED BY <2>1, <3>1, <5>2, <5>3, ComesOut
      <4> QED BY <4>1, <4>2
    <3> QED BY <2>3, <3>2 DEF FailureInv, Unhurt
  <2>6. CASE ~ret.ok /\ TopBack /\ GoesOn
    <3>1. N(Child).kind = "test" /\ play.onward /\ AtRoot BY <2>6 DEF GoesOn, TopBack
    <3>2. Clean /\ ~Failure(e) BY <2>1, <2>2, <3>1 DEF FailureInv, Unhurt, Failure
    <3> QED BY <2>3, <3>2 DEF FailureInv
  <2>7. CASE ~ret.ok /\ TopBack /\ ~GoesOn
    <3>1. mode' = "idle" BY <2>7 DEF TopBack, Over
    <3> QED BY <2>3, <3>1 DEF FailureInv, Unhurt
  <2> QED BY <1>6, <2>4, <2>5, <2>6, <2>7
<1> QED BY <1>1, <1>2, <1>3, <1>4, <1>5, <1>6 DEF Next, Step, Terminated

\* Once something has failed in a playbook, at any depth and in any iteration, nothing is
\* begun any more, but for what follows a test at top level that may fail.
THEOREM FailureEnds == Spec => []FailureIsLast
<1>1. Init => FailureInv
  <2>1. ASSUME events = <<>>, session \in Sessions PROVE FailureInv
    <3>1. Sequence(events) /\ DOMAIN events = {} BY <2>1, EmptyFacts
    <3> QED BY <3>1 DEF FailureInv, Dated, Final, Clean
  <2> QED BY <2>1 DEF Init
<1>2. TypeInv /\ FailureInv /\ [Next]_vars => FailureInv' BY FailureStep
<1>3. FailureInv => FailureIsLast BY DEF FailureInv, Final, Failure, FailureIsLast
<1> QED BY TypeInvariant, <1>1, <1>2, <1>3, PTL DEF Spec

-----------------------------------------------------------------------------
(* The cache of matches.                                                   *)

Cached(m) ==
  /\ m \in [generation : Nat, last_match_cache : {m.last_match_cache}]
  /\ \A t \in DOMAIN m.last_match_cache :
       m.last_match_cache[t].at \in Nat /\ m.last_match_cache[t].at <= m.generation

\* A match of the latest attempt is what that attempt has seen.
Latest(m, sight) ==
  \A t \in DOMAIN m.last_match_cache :
    m.last_match_cache[t].at = m.generation
      => sight = [target |-> t, machine |-> m.last_match_cache[t].machine]

MatchInv == Cached(memo) /\ Latest(memo, sighted) /\ Sequence(ran) /\ MatchIsPrevious

\* With a new attempt every match is that of an earlier one.
LEMMA Attempt ==
  ASSUME NEW m, Cached(m)
  PROVE  LET begun == begin_resolution(m)
         IN /\ Cached(begun) /\ begun.generation = m.generation + 1
            /\ begun.last_match_cache = m.last_match_cache
            /\ \A sight : Latest(begun, sight)
<1> DEFINE begun == begin_resolution(m)
<1>1. begun.generation = m.generation + 1 /\ begun.last_match_cache = m.last_match_cache
      /\ begun \in [generation : Nat, last_match_cache : {m.last_match_cache}] /\ m.generation \in Nat
  BY DEF begin_resolution, Cached
<1> HIDE DEF begun
<1>2. Cached(begun) BY <1>1 DEF Cached
<1>3. ASSUME NEW sight PROVE Latest(begun, sight) BY <1>1 DEF Cached, Latest
<1> QED BY <1>1, <1>2, <1>3 DEF begun

LEMMA Forgotten ==
  ASSUME NEW m, Cached(m), NEW target, NEW sight, Latest(m, sight)
  PROVE  Cached(Forget(m, target)) /\ Latest(Forget(m, target), sight)
<1> DEFINE f == Forget(m, target)
           c == Restrict(m.last_match_cache, DOMAIN m.last_match_cache \ {target})
<1>1. f.generation = m.generation /\ f.last_match_cache = c
      /\ f \in [generation : Nat, last_match_cache : {c}]
  BY DEF Forget, Cached
<1>2. DOMAIN c \subseteq DOMAIN m.last_match_cache /\ \A t \in DOMAIN c : c[t] = m.last_match_cache[t]
  BY DEF Restrict
<1> HIDE DEF f, c
<1> QED BY <1>1, <1>2 DEF Cached, Latest, f

LEMMA Remembered ==
  ASSUME NEW m, Cached(m), NEW target, NEW machine, \A t \in DOMAIN m.last_match_cache :
           m.last_match_cache[t].at # m.generation
  PROVE  /\ Cached(cache_match(m, target, machine))
         /\ Latest(cache_match(m, target, machine), [target |-> target, machine |-> machine])
<1> DEFINE f == cache_match(m, target, machine)
           c == [t \in DOMAIN m.last_match_cache \cup {target} |->
                   IF t = target THEN [at |-> m.generation, machine |-> machine] ELSE m.last_match_cache[t]]
<1>1. f.generation = m.generation /\ f.last_match_cache = c
      /\ f \in [generation : Nat, last_match_cache : {c}] /\ m.generation \in Nat
  BY DEF cache_match, Cached
<1>2. /\ c[target].at = m.generation /\ c[target].machine = machine
      /\ \A t \in DOMAIN c : t # target => t \in DOMAIN m.last_match_cache /\ c[t] = m.last_match_cache[t]
  OBVIOUS
<1> HIDE DEF f, c
<1>3. Cached(f) BY <1>1, <1>2 DEF Cached
<1>4. Latest(f, [target |-> target, machine |-> machine]) BY <1>1, <1>2 DEF Latest
<1> QED BY <1>3, <1>4 DEF f

\* The history gets an action that does not use a match, or used the previous one.
LEMMA RanAdded ==
  ASSUME Sequence(ran), MatchIsPrevious, NEW e, ran' = Append(ran, e),
         e.about = <<>> \/ e.about.match = e.about.before
  PROVE  Sequence(ran') /\ MatchIsPrevious'
<1>1. Len(ran) \in Nat /\ DOMAIN ran = 1..Len(ran) BY SequenceFacts
<1>2. /\ Sequence(ran') /\ Len(ran') = Len(ran) + 1 /\ ran'[Len(ran) + 1] = e
      /\ \A i \in 1..Len(ran) : ran'[i] = ran[i]
  BY AppendFacts
<1>3. DOMAIN ran' = 1..Len(ran) + 1 BY <1>2, SequenceFacts
<1>4. \A i \in DOMAIN ran' : i = Len(ran) + 1 \/ i \in DOMAIN ran BY <1>1, <1>3
<1> QED BY <1>1, <1>2, <1>4 DEF MatchIsPrevious

LEMMA LeftRan ==
  ASSUME Sequence(ran), MatchIsPrevious, NEW r, NEW where, NEW about, Left(r, where, about),
         about = <<>> \/ about.match = about.before
  PROVE  Sequence(ran') /\ MatchIsPrevious'
<1> DEFINE e == [node |-> Child, machine |-> where, ok |-> r.ok, top |-> AtRoot,
                 book |-> Len(session), about |-> about]
<1>1. ran' = Append(ran, e) /\ e.about = about BY DEF Left
<1> HIDE DEF e
<1> QED BY <1>1, RanAdded

LEMMA MatchStep ==
  ASSUME MatchInv, [Next]_vars
  PROVE  MatchInv'
<1> USE DEF MatchInv
<1>1. CASE UNCHANGED <<ran, seeing>> BY <1>1 DEF seeing, Cached, Latest, MatchIsPrevious
<1>2. CASE UNCHANGED seeing /\ \E r, where : Left(r, where, <<>>)
  <2>1. Sequence(ran') /\ MatchIsPrevious' BY <1>2, LeftRan
  <2> QED BY <1>2, <2>1 DEF seeing, Cached, Latest
<1>3. CASE memo' = begin_resolution(memo) /\ UNCHANGED ran
  <2>1. Cached(memo') /\ Latest(memo', sighted') BY <1>3, Attempt
  <2> QED BY <1>3, <2>1 DEF MatchIsPrevious
<1>4. CASE EnterBlock
  <2>1. (memo' = begin_resolution(memo) \/ UNCHANGED seeing) /\ UNCHANGED ran
    BY <1>4 DEF EnterBlock, trace, seeing
  <2> QED BY <1>1, <1>3, <2>1
<1>5. ASSUME NEW machine, EvaluateLeaf(machine), UNCHANGED ran PROVE MatchInv'
  <2> DEFINE begun == begin_resolution(memo)
             leaf == wait.action.of[wait.leaf + 1]
  <2>1. \/ memo' = begun
        \/ /\ memo' = cache_match(begun, leaf.target, machine)
           /\ sighted' = [target |-> leaf.target, machine |-> machine]
    BY <1>5 DEF EvaluateLeaf
  <2>2. CASE memo' = begun BY <1>3, <1>5, <2>2
  <2>3. CASE /\ memo' = cache_match(begun, leaf.target, machine)
             /\ sighted' = [target |-> leaf.target, machine |-> machine]
    <3>1. Cached(begun) /\ begun.generation = memo.generation + 1
          /\ begun.last_match_cache = memo.last_match_cache
      BY Attempt
    <3>2. \A t \in DOMAIN begun.last_match_cache : begun.last_match_cache[t].at # begun.generation
      BY <3>1 DEF Cached
    <3>3. Cached(memo') /\ Latest(memo', sighted') BY <2>3, <3>1, <3>2, Remembered
    <3> QED BY <1>5, <3>3 DEF MatchIsPrevious
  <2> QED BY <2>1, <2>2, <2>3
<1>6. CASE WaitGoesOn
  <2>1. UNCHANGED ran /\ (UNCHANGED seeing \/ EvaluateLeaf(bound) \/ CutOff)
    BY <1>6 DEF WaitGoesOn, Checks, Capture, Pixels, Skip, Evaluated, trace
  <2> QED BY <1>1, <1>3, <1>5, <2>1 DEF CutOff
<1>7. CASE Click
  <2> DEFINE t == N(Child).var
             begun == begin_resolution(memo)
             hit == Hit(begun, t)
  <2>1. Cached(begun) /\ begun.generation = memo.generation + 1
        /\ begun.last_match_cache = memo.last_match_cache /\ \A sight : Latest(begun, sight)
    BY Attempt
  <2>2. memo' = begun \/ memo' = Forget(begun, t) BY <1>7 DEF Click, get_cached_match
  <2>3. Cached(memo') /\ Latest(memo', sighted') BY <2>1, <2>2, Forgotten
  <2>4. \/ \E r, where : Left(r, where, <<>>)
        \/ /\ hit # None /\ sighted' = [target |-> t, machine |-> hit]
           /\ \E r : Left(r, bound, [match |-> sighted', before |-> sighted])
    BY <1>7 DEF Click, Ends
  <2>5. CASE \E r, where : Left(r, where, <<>>) BY <2>3, <2>5, LeftRan
  <2>6. CASE /\ hit # None /\ sighted' = [target |-> t, machine |-> hit]
             /\ \E r : Left(r, bound, [match |-> sighted', before |-> sighted])
    <3>1. t \in DOMAIN begun.last_match_cache /\ Fresh(begun, t) /\ hit = begun.last_match_cache[t].machine
      BY <2>6 DEF Hit
    <3>2. begun.last_match_cache[t].at = memo.generation
      BY <2>1, <3>1 DEF Fresh, Cached
    <3>3. sighted = sighted' BY <2>1, <2>6, <3>1, <3>2 DEF Latest
    <3> DEFINE about == [match |-> sighted', before |-> sighted]
    <3>4. about.match = about.before BY <3>3
    <3>5. \E r : Left(r, bound, about) BY <2>6
    <3> HIDE DEF about
    <3>6. Sequence(ran') /\ MatchIsPrevious' BY <3>4, <3>5, LeftRan
    <3> QED BY <2>3, <3>6
  <2> QED BY <2>4, <2>5, <2>6
<1>8. CASE Simple \/ Captured \/ SaveVariable \/ VmTest \/ HostTest \/ Signal \/ WaitEnds
  BY <1>2, <1>8 DEF Simple, Captured, SaveVariable, VmTest, HostTest, Signal, WaitEnds, Ends
<1> QED BY <1>1, <1>4, <1>6, <1>7, <1>8
    DEF Next, Step, Leaf, Terminated, Cancel, Begin, Pass, Announce, End, Dispatch, LeaveBlock, EnterLoop,
        NextIteration, LoopBreaks, Back, TopBack, WaitBegins, vars, trace

\* A click that did not look for its target itself went where the resolution just before
\* it had found the same target, however many resolutions and clicks there were.
THEOREM MatchFresh == Spec => []MatchIsPrevious
<1>1. Init => MatchInv
  <2>1. ASSUME ran = <<>>, memo = NoMatches PROVE MatchInv
    <3>1. Sequence(ran) /\ DOMAIN ran = {} BY <2>1, EmptyFacts
    <3>2. memo.generation = 0 /\ memo.last_match_cache = <<>> BY <2>1 DEF NoMatches
    <3>3. memo \in [generation : Nat, last_match_cache : {memo.last_match_cache}] BY <2>1 DEF NoMatches
    <3>4. DOMAIN memo.last_match_cache = {} BY <3>2, EmptyFacts
    <3>5. Cached(memo) /\ Latest(memo, sighted) BY <3>3, <3>4 DEF Cached, Latest
    <3>6. MatchIsPrevious BY <3>1 DEF MatchIsPrevious
    <3> QED BY <3>1, <3>5, <3>6 DEF MatchInv
  <2> QED BY <2>1 DEF Init
<1>2. MatchInv /\ [Next]_vars => MatchInv' BY MatchStep
<1>3. MatchInv => MatchIsPrevious BY DEF MatchInv
<1> QED BY <1>1, <1>2, <1>3, PTL DEF Spec

-----------------------------------------------------------------------------
(* The variables of loops.                                                 *)

LEMMA LeastIn ==
  ASSUME NEW S \in SUBSET Nat, S # {}
  PROVE  Min(S) \in S /\ \A x \in S : Min(S) <= x
<1>1. \E x \in S : \A y \in S : ~ (<<y, x>> \in OpToRel(<, Nat))
  BY WFMin, NatLessThanWellFounded
<1>2. ASSUME NEW x \in S, NEW y \in S, ~ (x <= y) PROVE <<y, x>> \in OpToRel(<, Nat)
  <2>1. x \in Nat /\ y \in Nat /\ y < x BY <1>2
  <2> QED BY <2>1 DEF OpToRel
<1>3. \E x \in S : \A y \in S : x <= y BY <1>1, <1>2
<1> QED BY <1>3 DEF Min

LEMMA GreatestIn ==
  ASSUME NEW k \in Nat, NEW S \in SUBSET (1..k), S # {}
  PROVE  Max(S) \in S /\ \A x \in S : x <= Max(S)
<1> DEFINE T == {k - x : x \in S}
<1>0. \A x \in S : x \in 1..k /\ k - x \in Nat OBVIOUS
<1>1. T \in SUBSET Nat /\ T # {} BY <1>0
<1> HIDE DEF T
<1>2. Min(T) \in T /\ \A y \in T : Min(T) <= y BY <1>1, LeastIn
<1>3. PICK x \in S : Min(T) = k - x BY <1>2 DEF T
<1>4. \A y \in S : x >= y
  <2> TAKE y \in S
  <2>1. k - y \in T BY DEF T
  <2>2. k - x <= k - y BY <1>2, <1>3, <2>1
  <2> QED BY <2>2
<1> QED BY <1>4 DEF Max

IsLoop(f) == N(f.node).kind = "loop"

\* What a context d containers deep has of the variables of the loops around it: index and
\* total are those of the innermost, item is there only if one of them sets it.
Local(s, c, d) ==
  /\ {"index", "total"} \cap DOMAIN c # {} => \E i \in 1..d : IsLoop(s[i])
  /\ "item" \in DOMAIN c => \E i \in 1..d : IsLoop(s[i]) /\ "item" \in N(s[i].node).item
  /\ \A i \in 1..d :
       IsLoop(s[i]) /\ (\A j \in 1..d : IsLoop(s[j]) => j <= i)
         => /\ {"index", "total"} \subseteq DOMAIN c
            /\ c["index"] = s[i].iter /\ c["total"] = N(s[i].node).times

\* So it is with the context in use, and with those that loops have put aside.
Locals(s, c) ==
  /\ Local(s, c, Len(s))
  /\ \A i \in 1..Len(s) : IsLoop(s[i]) => Local(s, s[i].saved, i - 1)

LocalInv ==
  /\ mode # "cancelled" => Locals(stack, ctx)
  /\ mode \notin InABook => Automatic \cap DOMAIN ctx = {}

LEMMA LocalBelow ==
  ASSUME NEW s, NEW t, NEW d, \A i \in 1..d : t[i].node = s[i].node /\ t[i].iter = s[i].iter,
         NEW c, Local(s, c, d)
  PROVE  Local(t, c, d)
BY DEF Local, IsLoop

\* Along a body.
LEMMA LocalsMove ==
  ASSUME NEW s, NEW t, NEW c, Len(s) \in Nat, Len(t) = Len(s), Locals(s, c),
         \A i \in 1..Len(s) : t[i].node = s[i].node /\ t[i].iter = s[i].iter /\ t[i].saved = s[i].saved
  PROVE  Locals(t, c)
<1>1. Local(t, c, Len(t)) BY LocalBelow DEF Locals
<1>2. ASSUME NEW i \in 1..Len(t), IsLoop(t[i]) PROVE Local(t, t[i].saved, i - 1)
  <2>1. IsLoop(s[i]) /\ t[i].saved = s[i].saved BY <1>2 DEF IsLoop
  <2>2. Local(s, s[i].saved, i - 1) BY <2>1 DEF Locals
  <2>3. \A j \in 1..i - 1 : t[j].node = s[j].node /\ t[j].iter = s[j].iter OBVIOUS
  <2> QED BY <2>1, <2>2, <2>3, LocalBelow
<1> QED BY <1>1, <1>2 DEF Locals

\* Into a block and out of one.
LEMMA LocalsPushBlock ==
  ASSUME NEW s, NEW t, NEW c, Len(s) \in Nat, Len(t) = Len(s) + 1, Locals(s, c),
         \A i \in 1..Len(s) : t[i] = s[i], ~IsLoop(t[Len(t)])
  PROVE  Locals(t, c)
<1>1. Local(t, c, Len(t))
  <2>1. Local(s, c, Len(s)) BY DEF Locals
  <2>2. /\ \A i \in 1..Len(s) : i \in 1..Len(t) /\ t[i] = s[i]
        /\ \A i \in 1..Len(t) : IsLoop(t[i]) => i \in 1..Len(s)
    OBVIOUS
  <2>3. ASSUME NEW i \in 1..Len(t), IsLoop(t[i]), \A j \in 1..Len(t) : IsLoop(t[j]) => j <= i
        PROVE  /\ {"index", "total"} \subseteq DOMAIN c
               /\ c["index"] = t[i].iter /\ c["total"] = N(t[i].node).times
    <3>1. i \in 1..Len(s) /\ IsLoop(s[i]) /\ t[i] = s[i] BY <2>2, <2>3
    <3>2. \A j \in 1..Len(s) : IsLoop(s[j]) => j <= i BY <2>2, <2>3
    <3> QED BY <2>1, <3>1, <3>2 DEF Local
  <2>4. {"index", "total"} \cap DOMAIN c # {} => \E i \in 1..Len(t) : IsLoop(t[i]) BY <2>1, <2>2 DEF Local
  <2>5. "item" \in DOMAIN c => \E i \in 1..Len(t) : IsLoop(t[i]) /\ "item" \in N(t[i].node).item
    BY <2>1, <2>2 DEF Local
  <2> QED BY <2>3, <2>4, <2>5 DEF Local
<1>2. ASSUME NEW i \in 1..Len(t), IsLoop(t[i]) PROVE Local(t, t[i].saved, i - 1)
  <2>1. i \in 1..Len(s) /\ t[i] = s[i] BY <1>2
  <2>2. Local(s, s[i].saved, i - 1) BY <1>2, <2>1 DEF Locals
  <2>3. \A j \in 1..i - 1 : t[j].node = s[j].node /\ t[j].iter = s[j].iter BY <2>1
  <2> QED BY <2>1, <2>2, <2>3, LocalBelow
<1> QED BY <1>1, <1>2 DEF Locals

\* Below the top of the stack nothing changes.
LEMMA LocalsPop ==
  ASSUME NEW s, NEW t, NEW c, NEW d, Len(s) \in Nat \ {0}, Len(t) = Len(s) - 1, Locals(s, d),
         \A i \in 1..Len(t) : t[i] = s[i], Local(s, c, Len(t))
  PROVE  Locals(t, c)
<1>1. Local(t, c, Len(t)) BY LocalBelow
<1>2. ASSUME NEW i \in 1..Len(t), IsLoop(t[i]) PROVE Local(t, t[i].saved, i - 1)
  <2>1. i \in 1..Len(s) /\ t[i] = s[i] BY <1>2
  <2>2. Local(s, s[i].saved, i - 1) BY <1>2, <2>1 DEF Locals
  <2>3. \A j \in 1..i - 1 : t[j].node = s[j].node /\ t[j].iter = s[j].iter BY <2>1
  <2> QED BY <2>1, <2>2, <2>3, LocalBelow
<1> QED BY <1>1, <1>2 DEF Locals

LEMMA LocalsPopBlock ==
  ASSUME NEW s, NEW t, NEW c, Len(s) \in Nat \ {0}, Len(t) = Len(s) - 1, Locals(s, c),
         \A i \in 1..Len(t) : t[i] = s[i], ~IsLoop(s[Len(s)])
  PROVE  Locals(t, c)
<1>1. 1..Len(t) \subseteq 1..Len(s) /\ \A i \in 1..Len(s) : IsLoop(s[i]) => i \in 1..Len(t) OBVIOUS
<1>2. Local(s, c, Len(s)) BY DEF Locals
<1>3. Local(s, c, Len(t)) BY <1>1, <1>2 DEF Local
<1> QED BY <1>3, LocalsPop

\* What is left of an iteration has nothing of the loop's own.
LEMMA LocalMerged ==
  ASSUME NEW s, Len(s) \in Nat \ {0}, IsLoop(s[Len(s)]), NEW c, Locals(s, c)
  PROVE  Local(s, Merged(s[Len(s)], c), Len(s) - 1)
<1> DEFINE k == Len(s)
           f == s[k]
           m == Merged(f, c)
<1>1. Local(s, f.saved, k - 1) /\ Local(s, c, k) BY DEF Locals
<1>2. /\ DOMAIN f.saved \subseteq DOMAIN m /\ \A v \in DOMAIN f.saved : m[v] = f.saved[v]
      /\ \A v \in DOMAIN m : v \in DOMAIN f.saved \/ (v \in DOMAIN c /\ v \notin Control(f.node))
  BY DEF Merged
<1> HIDE DEF m
<1>3. {"index", "total"} \subseteq Control(f.node)
      /\ ("item" \in N(f.node).item => "item" \in Control(f.node))
  BY DEF Control
<1>4. \A v \in {"index", "total"} : v \in DOMAIN m => v \in DOMAIN f.saved BY <1>2, <1>3
<1>5. "item" \in DOMAIN m => \E i \in 1..k - 1 : IsLoop(s[i]) /\ "item" \in N(s[i].node).item
  <2> SUFFICES ASSUME "item" \in DOMAIN m
               PROVE  \E i \in 1..k - 1 : IsLoop(s[i]) /\ "item" \in N(s[i].node).item
    OBVIOUS
  <2>1. CASE "item" \in DOMAIN f.saved BY <1>1, <2>1 DEF Local
  <2>2. CASE "item" \in DOMAIN c /\ "item" \notin Control(f.node)
    <3>1. PICK i \in 1..k : IsLoop(s[i]) /\ "item" \in N(s[i].node).item BY <1>1, <2>2 DEF Local
    <3>2. i # k BY <1>3, <2>2, <3>1
    <3> QED BY <3>1, <3>2
  <2> QED BY <1>2, <2>1, <2>2
<1>6. {"index", "total"} \cap DOMAIN m # {} => \E i \in 1..k - 1 : IsLoop(s[i]) BY <1>1, <1>4 DEF Local
<1>7. ASSUME NEW i \in 1..k - 1, IsLoop(s[i]), \A j \in 1..k - 1 : IsLoop(s[j]) => j <= i
      PROVE  {"index", "total"} \subseteq DOMAIN m /\ m["index"] = s[i].iter /\ m["total"] = N(s[i].node).times
  BY <1>1, <1>2, <1>7 DEF Local
<1> QED BY <1>5, <1>6, <1>7 DEF Local, m

\* An iteration starts with the loop's own variables.
LEMMA LocalIteration ==
  ASSUME NoneReserved, play \in Books, NEW t, Len(t) \in Nat \ {0}, IsLoop(t[Len(t)]),
         t[Len(t)].node \in DOMAIN play.node, NEW c, Local(t, c, Len(t) - 1)
  PROVE  Local(t, InIteration(c, t[Len(t)].node, t[Len(t)].iter), Len(t))
<1> DEFINE k == Len(t)
           n == t[k].node
           m == InIteration(c, n, t[k].iter)
<1>1. N(n).item \cap {"index", "total"} = {} BY DEF NoneReserved, N
<1>2. /\ DOMAIN m = DOMAIN c \cup {"index", "total"} \cup N(n).item
      /\ m["index"] = t[k].iter /\ m["total"] = N(n).times
  BY <1>1 DEF InIteration
<1> HIDE DEF m
<1>3. "item" \in DOMAIN m => \E i \in 1..k : IsLoop(t[i]) /\ "item" \in N(t[i].node).item
  <2>1. CASE "item" \in DOMAIN c BY <2>1 DEF Local
  <2>2. CASE "item" \in N(n).item BY <2>2
  <2> QED BY <1>2, <2>1, <2>2
<1>4. \A i \in 1..k : (\A j \in 1..k : IsLoop(t[j]) => j <= i) => i = k OBVIOUS
<1> QED BY <1>2, <1>3, <1>4 DEF Local, m

\* A loop's next iteration, and its first.
LEMMA LocalsIterate ==
  ASSUME NoneReserved, play \in Books, NEW s, NEW t, NEW c, Len(s) \in Nat \ {0}, Len(t) = Len(s),
         \A i \in 1..Len(s) - 1 : t[i] = s[i], IsLoop(s[Len(s)]), Locals(s, c),
         t[Len(t)].node = s[Len(s)].node, t[Len(t)].node \in DOMAIN play.node,
         t[Len(t)].saved = Merged(s[Len(s)], c)
  PROVE  Locals(t, InIteration(Merged(s[Len(s)], c), t[Len(t)].node, t[Len(t)].iter))
<1> DEFINE m == Merged(s[Len(s)], c)
<1>1. Local(s, m, Len(s) - 1) BY LocalMerged
<1> HIDE DEF m
<1>2. Local(t, m, Len(t) - 1) BY <1>1, LocalBelow
<1>3. IsLoop(t[Len(t)]) BY DEF IsLoop
<1>4. Local(t, InIteration(m, t[Len(t)].node, t[Len(t)].iter), Len(t)) BY <1>2, <1>3, LocalIteration
<1>5. ASSUME NEW i \in 1..Len(t), IsLoop(t[i]) PROVE Local(t, t[i].saved, i - 1)
  <2>1. CASE i = Len(t) BY <1>2, <2>1 DEF m
  <2>2. CASE i # Len(t)
    <3>1. i \in 1..Len(s) /\ t[i] = s[i] BY <2>2
    <3>2. Local(s, s[i].saved, i - 1) BY <1>5, <3>1 DEF Locals
    <3>3. \A j \in 1..i - 1 : t[j].node = s[j].node /\ t[j].iter = s[j].iter BY <3>1
    <3> QED BY <3>1, <3>2, <3>3, LocalBelow
  <2> QED BY <2>1, <2>2
<1> QED BY <1>4, <1>5 DEF Locals, m

LEMMA LocalsPushLoop ==
  ASSUME NoneReserved, play \in Books, NEW s, NEW t, NEW c, Len(s) \in Nat, Len(t) = Len(s) + 1,
         Locals(s, c), \A i \in 1..Len(s) : t[i] = s[i], IsLoop(t[Len(t)]),
         t[Len(t)].node \in DOMAIN play.node, t[Len(t)].saved = c
  PROVE  Locals(t, InIteration(c, t[Len(t)].node, t[Len(t)].iter))
<1>1. Local(t, c, Len(t) - 1) BY LocalBelow DEF Locals
<1>2. Local(t, InIteration(c, t[Len(t)].node, t[Len(t)].iter), Len(t)) BY <1>1, LocalIteration
<1>3. ASSUME NEW i \in 1..Len(t), IsLoop(t[i]) PROVE Local(t, t[i].saved, i - 1)
  <2>1. CASE i = Len(t) BY <1>1, <2>1
  <2>2. CASE i # Len(t)
    <3>1. i \in 1..Len(s) /\ t[i] = s[i] BY <2>2
    <3>2. Local(s, s[i].saved, i - 1) BY <1>3, <3>1 DEF Locals
    <3>3. \A j \in 1..i - 1 : t[j].node = s[j].node /\ t[j].iter = s[j].iter BY <3>1
    <3> QED BY <3>1, <3>2, <3>3, LocalBelow
  <2> QED BY <2>1, <2>2
<1> QED BY <1>2, <1>3 DEF Locals

\* An action sets none of the loops' variables.
LEMMA LocalsAssigned ==
  ASSUME NEW s, NEW c, NEW d, Locals(s, c), \A v \in Automatic : v \in DOMAIN d <=> v \in DOMAIN c,
         \A v \in Automatic \cap DOMAIN c : d[v] = c[v]
  PROVE  Locals(s, d)
<1>1. Local(s, d, Len(s)) BY DEF Locals, Local, Automatic
<1> QED BY <1>1 DEF Locals

\* Cut off wherever it is, an execution leaves no variable of a loop behind.
LEMMA NothingLeft ==
  ASSUME Placed, stack # <<>>, Locals(stack, ctx)
  PROVE  Automatic \cap DOMAIN Unwound = {}
<1> DEFINE context(i) == IF i \in Loops THEN stack[i].saved ELSE ctx
           levels == Loops \cup {Len(stack) + 1}
           has(v) == {i \in levels : v \in DOMAIN context(i)}
           kept == {v \in UNION {DOMAIN context(i) : i \in levels} :
                      \A i \in Loops : i < Min(has(v)) => v \notin Control(stack[i].node)}
<1>1. Unwound = [v \in kept |-> context(Min(has(v)))[v]] BY DEF Unwound
<1>2. DOMAIN Unwound = kept BY <1>1
<1>3. Len(stack) \in Nat \ {0} /\ Loops \subseteq 1..Len(stack) /\ \A i \in 1..Len(stack) : i \in Loops <=> IsLoop(stack[i])
  BY TopIs, SequenceFacts DEF Loops, Placed, Path, IsLoop
<1>4. ASSUME NEW v \in Automatic, v \in kept PROVE FALSE
  <2>1. has(v) \subseteq Nat /\ has(v) # {}
    <3>1. v \in UNION {DOMAIN context(i) : i \in levels} BY <1>4
    <3>2. PICK i \in levels : v \in DOMAIN context(i) BY <3>1
    <3>3. i \in has(v) BY <3>2
    <3>4. levels \subseteq Nat
      <4>1. Loops \subseteq Nat /\ Len(stack) + 1 \in Nat BY <1>3
      <4> QED BY <4>1
    <3> QED BY <3>3, <3>4
  <2> DEFINE i == Min(has(v))
  <2>2. i \in has(v) BY <2>1, LeastIn
  <2>3. i \in levels /\ v \in DOMAIN context(i) BY <2>2
  <2>4. \A j \in Loops : j < i => v \notin Control(stack[j].node) BY <1>4
  <2> HIDE DEF i
  <2>5. i \in 1..Len(stack) + 1 /\ Local(stack, context(i), i - 1)
    <3>1. CASE i \in Loops BY <1>3, <3>1 DEF Locals
    <3>2. CASE i \notin Loops
      <4>1. i = Len(stack) + 1 /\ context(i) = ctx BY <2>3, <3>2
      <4> QED BY <1>3, <4>1 DEF Locals
    <3> QED BY <3>1, <3>2
  <2>6. ASSUME NEW j \in 1..i - 1, IsLoop(stack[j]) PROVE v \notin Control(stack[j].node)
    <3>1. j \in Loops /\ j < i BY <1>3, <2>5, <2>6
    <3> QED BY <2>4, <3>1
  <2>7. CASE v \in {"index", "total"}
    <3>1. {"index", "total"} \cap DOMAIN context(i) # {} BY <2>3, <2>7
    <3>2. PICK j \in 1..i - 1 : IsLoop(stack[j]) BY <2>5, <3>1 DEF Local
    <3>3. v \in Control(stack[j].node) BY <2>7 DEF Control
    <3> QED BY <2>6, <3>2, <3>3
  <2>8. CASE v = "item"
    <3>1. PICK j \in 1..i - 1 : IsLoop(stack[j]) /\ "item" \in N(stack[j].node).item BY <2>3, <2>5, <2>8 DEF Local
    <3>2. v \in Control(stack[j].node) BY <2>8, <3>1 DEF Control
    <3> QED BY <2>6, <3>1, <3>2
  <2> QED BY <2>7, <2>8 DEF Automatic
<1> QED BY <1>2, <1>4

LEMMA LocalBegin ==
  ASSUME NoneReserved, TypeInv, LocalInv, Begin
  PROVE  LocalInv'
<1>1. session \in Seq(Books) /\ session # <<>> BY DEF Begin, TypeInv, Placed
<1>2. play' \in Books /\ mode' = "next" /\ stack' = <<Frame(Root)>>
      /\ DOMAIN ctx' = DOMAIN ctx \cup DOMAIN play'.vars
  BY <1>1 DEF Begin
<1>3. Automatic \cap DOMAIN ctx' = {} BY <1>2 DEF NoneReserved, LocalInv, Begin, InABook
<1>4. Len(stack') = 1 /\ stack'[1].node = Root BY <1>2 DEF Frame
<1>5. ~IsLoop(stack[1])' BY <1>2, <1>4, BookFacts DEF IsLoop, N
<1>6. Locals(stack, ctx)' BY <1>3, <1>4, <1>5 DEF Locals, Local, Automatic
<1> QED BY <1>2, <1>6 DEF LocalInv, InABook

\* The loops are the same, and so is the context, as far as loops set it.
LEMMA LocalsNext ==
  ASSUME UNCHANGED play
  PROVE  Locals(stack, ctx)' <=> Locals(stack', ctx')
BY DEF Locals, Local, IsLoop, N

LEMMA LocalsPrimed ==
  ASSUME UNCHANGED play, Locals(stack', ctx'), mode' \in InABook
  PROVE  LocalInv'
BY LocalsNext DEF LocalInv, InABook

LEMMA LocalLeaf ==
  ASSUME NoneReserved, TypeInv, LocalInv, Leaf
  PROVE  LocalInv'
<1>1. mode = "go" /\ mode' \in {"go", "back"} /\ UNCHANGED <<play, stack>>
  BY DEF Leaf, Simple, Captured, SaveVariable, Click, VmTest, HostTest, Signal, WaitBegins, WaitGoesOn,
         WaitEnds, Going, Ends, Left, place
<1>2. Locals(stack, ctx) BY <1>1 DEF LocalInv
<1>3. (\A v \in Automatic : v \in DOMAIN ctx' <=> v \in DOMAIN ctx) 
      /\ \A v \in Automatic \cap DOMAIN ctx : ctx'[v] = ctx[v]
  <2>1. CASE UNCHANGED ctx BY <2>1
  <2>2. CASE (Captured \/ SaveVariable) /\ ~UNCHANGED ctx
    <3>1. N(Child).kind \in {"command", "save"} /\ \E value : Assigned(N(Child).var, value)
      BY <2>2 DEF Captured, SaveVariable, Going, data
    <3>2. Child \in DOMAIN play.node /\ play \in Books
      <4>1. Placed /\ stack # <<>> /\ Top.pos \in DOMAIN Body BY <1>1 DEF TypeInv, Placed, InABook, AtAnAction
      <4> QED BY <4>1, TopIs DEF Placed
    <3>3. N(Child).var \notin Automatic BY <3>1, <3>2 DEF NoneReserved, N
    <3>4. PICK value : ctx' = [x \in DOMAIN ctx \cup {N(Child).var} |-> IF x = N(Child).var THEN value ELSE ctx[x]]
      BY <3>1 DEF Assigned
    <3>5. \A v \in Automatic : v \in DOMAIN ctx' <=> v \in DOMAIN ctx BY <3>3, <3>4
    <3>6. \A v \in Automatic \cap DOMAIN ctx : ctx'[v] = ctx[v] BY <3>3, <3>4
    <3> QED BY <3>5, <3>6
  <2> QED BY <2>1, <2>2
      DEF Leaf, Simple, Click, VmTest, HostTest, Signal, WaitBegins, WaitGoesOn, WaitEnds, data
<1>4. Locals(stack, ctx') BY <1>2, <1>3, LocalsAssigned
<1> QED BY <1>1, <1>4, LocalsPrimed DEF InABook

LEMMA LocalMoved ==
  ASSUME Placed, stack # <<>>, NEW c, Locals(stack, c), NEW f, FrameOK(play, f),
         f.node = Top.node, f.iter = Top.iter, f.saved = Top.saved
  PROVE  Locals(Replaced(stack, f), c)
<1> DEFINE t == Replaced(stack, f)
<1>1. play \in Books /\ Path(play, stack) /\ f.node = stack[Len(stack)].node BY DEF Placed, Top
<1>2. Len(t) = Len(stack) /\ t[Len(t)] = f /\ \A i \in 1..Len(stack) - 1 : t[i] = stack[i]
  BY <1>1, MovedPath
<1>3. Len(stack) \in Nat \ {0} BY TopIs
<1> HIDE DEF t
<1>4. \A i \in 1..Len(stack) : t[i].node = stack[i].node /\ t[i].iter = stack[i].iter /\ t[i].saved = stack[i].saved
  <2> TAKE i \in 1..Len(stack)
  <2>1. CASE i = Len(stack) BY <1>2, <2>1 DEF Top
  <2>2. CASE i # Len(stack) BY <1>2, <1>3, <2>2
  <2> QED BY <2>1, <2>2
<1>5. Locals(t, c) BY <1>2, <1>3, <1>4, LocalsMove
<1> QED BY <1>5 DEF t

\* At top level nothing is around.
LEMMA LocalAtRoot ==
  ASSUME Placed, stack # <<>>, AtRoot, Locals(stack, ctx)
  PROVE  Automatic \cap DOMAIN ctx = {}
<1>1. Len(stack) = 1 /\ ~IsLoop(stack[1]) BY TopIs DEF AtRoot, IsLoop, Top
<1> QED BY <1>1 DEF Locals, Local, Automatic

LEMMA LocalEmpty ==
  ASSUME NEW c, Automatic \cap DOMAIN c = {}
  PROVE  Locals(<<>>, c)
<1>1. Len(<<>>) = 0 OBVIOUS
<1> QED BY <1>1 DEF Locals, Local, Automatic

LEMMA LocalMove ==
  ASSUME TypeInv, LocalInv, Pass \/ Announce \/ End \/ Dispatch \/ TopBack
  PROVE  LocalInv'
<1>1. Placed /\ stack # <<>> /\ UNCHANGED <<play, ctx>> /\ Locals(stack, ctx) /\ mode \in InABook
  BY DEF Pass, Announce, End, Dispatch, TopBack, TypeInv, Placed, InABook, data, LocalInv
<1>2. CASE \E pos \in 1..Len(Body) + 1 : stack' = Moved(pos) /\ mode' \in InABook
  <2>1. PICK pos \in 1..Len(Body) + 1 : stack' = Moved(pos) BY <1>2
  <2> DEFINE f == [Top EXCEPT !.pos = pos]
  <2>2. stack' = Replaced(stack, f) /\ FrameOK(play, f) /\ f.node = Top.node /\ f.saved = Top.saved
        /\ f.iter = Top.iter
    BY <1>1, <2>1, FrameMoved
  <2> HIDE DEF f
  <2>3. Locals(stack', ctx') BY <1>1, <2>2, LocalMoved
  <2> QED BY <1>1, <1>2, <2>3, LocalsPrimed
<1>3. CASE AtRoot /\ stack' = <<>> /\ mode' = "idle"
  <2>1. Automatic \cap DOMAIN ctx' = {} BY <1>1, <1>3, LocalAtRoot
  <2>2. Locals(stack', ctx') BY <1>3, <2>1, LocalEmpty
  <2>3. Locals(stack, ctx)' BY <1>1, <2>2, LocalsNext
  <2> QED BY <2>1, <2>3 DEF LocalInv
<1>4. CASE Pass
  <2>1. Top.pos + 1 \in 1..Len(Body) + 1 BY <1>1, <1>4, TopIs, TopValues DEF Pass
  <2> QED BY <1>2, <1>4, <2>1 DEF Pass, InABook
<1>5. CASE Announce
  <2>1. PICK id : stack' = [stack EXCEPT ![Len(stack)].id = id] BY <1>5 DEF Announce
  <2> DEFINE f == [Top EXCEPT !.id = id]
  <2>2. stack' = Replaced(stack, f) /\ FrameOK(play, f) /\ f.node = Top.node /\ f.saved = Top.saved
        /\ f.iter = Top.iter
    BY <1>1, <2>1, FrameNamed
  <2> HIDE DEF f
  <2>3. Locals(stack', ctx') BY <1>1, <2>2, LocalMoved
  <2>4. Locals(stack, ctx)' BY <1>1, <2>3, LocalsNext
  <2>5. mode' \in {"run", "broken"} \/ (mode' = "raised" /\ AtRoot) BY <1>5 DEF Announce
  <2>6. AtRoot => Automatic \cap DOMAIN ctx' = {} BY <1>1, LocalAtRoot
  <2> QED BY <2>4, <2>5, <2>6 DEF LocalInv, InABook
<1>6. CASE End BY <1>3, <1>6 DEF End, Over
<1>7. CASE Dispatch
  <2>1. UNCHANGED <<play, stack, ctx>> /\ mode' \in {"go", "back"} BY <1>7 DEF Dispatch, data
  <2> QED BY <1>1, <2>1, LocalsPrimed DEF InABook
<1>8. CASE TopBack
  <2>0. mode = "back" BY <1>8 DEF TopBack
  <2>1. Top.pos + 1 \in 1..Len(Body) + 1 BY <1>1, <2>0, TopIs DEF TypeInv, Placed, AtAnAction
  <2> QED BY <1>2, <1>3, <1>8, <2>1 DEF TopBack, Over, InABook
<1> QED BY <1>4, <1>5, <1>6, <1>7, <1>8

LEMMA LocalEnter ==
  ASSUME NoneReserved, TypeInv, LocalInv, EnterBlock \/ LeaveBlock \/ EnterLoop \/ Cancel
  PROVE  LocalInv'
<1>1. /\ Placed /\ stack # <<>> /\ play \in Books /\ UNCHANGED <<session, play, wait>>
      /\ Locals(stack, ctx) /\ mode \in {"next", "go"} /\ Values(ctx)
      /\ Len(stack) \in Nat \ {0}
  <2>1. /\ Placed /\ stack # <<>> /\ play \in Books /\ UNCHANGED <<session, play, wait>>
        /\ Locals(stack, ctx) /\ mode \in {"next", "go"} /\ Values(ctx)
    BY DEF EnterBlock, LeaveBlock, EnterLoop, Cancel, Going, TypeInv, Placed, Valued, InABook, LocalInv
  <2> QED BY <2>1, TopIs
<1>2. CASE EnterBlock
  <2>1. mode = "go" /\ N(Child).kind = "block" /\ UNCHANGED ctx BY <1>2 DEF EnterBlock, Going, data
  <2>2. ~Waits' BY <1>1, <2>1, NoWait
  <2>3. Child \in DOMAIN play.node BY <1>1, <2>1, TopIs DEF Placed, AtAnAction
  <2>4. CASE mode' = "next" /\ stack' = Append(stack, Frame(Child))
    <3>1. FrameOK(play, Frame(Child)) /\ Frame(Child).node = Child
      <4>1. Values(<<>>) BY DEF Values
      <4> QED BY <1>1, <2>3, <4>1, FrameNew
    <3>2. /\ Top' = Frame(Child) /\ Len(stack') = Len(stack) + 1
          /\ \A i \in 1..Len(stack) : stack'[i] = stack[i]
      BY <1>1, <2>1, <2>2, <2>4, <3>1, GoesIn
    <3>3. ~IsLoop(stack'[Len(stack')]) BY <2>1, <3>1, <3>2 DEF Top, IsLoop
    <3>4. Locals(stack', ctx') BY <1>1, <2>1, <3>2, <3>3, LocalsPushBlock
    <3> QED BY <1>1, <2>4, <3>4, LocalsPrimed DEF InABook
  <2>5. CASE mode' = "back" /\ UNCHANGED stack BY <1>1, <2>1, <2>5, LocalsPrimed DEF InABook
  <2> QED BY <1>2, <2>4, <2>5 DEF EnterBlock
<1>3. CASE LeaveBlock
  <2>1. /\ mode = "next" /\ mode' = "back" /\ stack' = Below /\ UNCHANGED ctx
        /\ N(Top.node).kind = "block"
    BY <1>3 DEF LeaveBlock, Returns, data
  <2>2. ~Waits' /\ ~AtRoot BY <1>1, <2>1, NoWait, TopIs
  <2>3. Len(stack') = Len(stack) - 1 /\ \A i \in 1..Len(stack') : stack'[i] = stack[i]
    BY <1>1, <2>1, <2>2, ComesOut
  <2>4. ~IsLoop(stack[Len(stack)]) BY <2>1 DEF IsLoop, Top
  <2>5. Locals(stack', ctx') BY <1>1, <2>1, <2>3, <2>4, LocalsPopBlock
  <2> QED BY <1>1, <2>1, <2>5, LocalsPrimed DEF InABook
<1>4. CASE EnterLoop
  <2>1. mode = "go" /\ N(Child).kind = "loop" BY <1>4 DEF EnterLoop, Going
  <2>2. ~Waits' BY <1>1, <2>1, NoWait
  <2>3. Child \in DOMAIN play.node BY <1>1, <2>1, TopIs DEF Placed, AtAnAction
  <2>4. CASE N(Child).times = 0
    <3>1. mode' = "back" /\ UNCHANGED <<stack, ctx>> BY <1>4, <2>4 DEF EnterLoop
    <3> QED BY <1>1, <3>1, LocalsPrimed DEF InABook
  <2>5. CASE N(Child).times # 0
    <3> DEFINE f == [Frame(Child) EXCEPT !.saved = ctx]
    <3>1. mode' = "next" /\ stack' = Append(stack, f) /\ ctx' = InIteration(ctx, Child, 0)
      BY <1>4, <2>5 DEF EnterLoop
    <3>2. FrameOK(play, f) /\ f.node = Child /\ f.saved = ctx /\ f.iter = 0 BY <1>1, <2>3, FrameNew
    <3> HIDE DEF f
    <3>3. /\ Top' = f /\ Len(stack') = Len(stack) + 1
          /\ \A i \in 1..Len(stack) : stack'[i] = stack[i]
      BY <1>1, <2>1, <2>2, <3>1, <3>2, GoesIn
    <3>4. stack'[Len(stack')] = f /\ IsLoop(f) BY <2>1, <3>2, <3>3 DEF Top, IsLoop
    <3>5. Locals(stack', InIteration(ctx, stack'[Len(stack')].node, stack'[Len(stack')].iter))
      BY <1>1, <2>3, <3>2, <3>3, <3>4, LocalsPushLoop
    <3>6. Locals(stack', ctx') BY <3>1, <3>2, <3>4, <3>5
    <3> QED BY <1>1, <3>1, <3>6, LocalsPrimed DEF InABook
  <2> QED BY <2>4, <2>5
<1>5. CASE Cancel
  <2>1. Automatic \cap DOMAIN ctx' = {} /\ mode' = "cancelled" BY <1>1, <1>5, NothingLeft DEF Cancel
  <2> QED BY <2>1 DEF LocalInv
<1> QED BY <1>2, <1>3, <1>4, <1>5

\* The end of an iteration, and of a loop.
LEMMA LocalPopLoop ==
  ASSUME Placed, stack # <<>>, Locals(stack, ctx), N(Top.node).kind = "loop", mode # "cancelled",
         UNCHANGED <<session, play>>, stack' = Below, mode' = "back", ~Waits', ctx' = Merged(Top, ctx)
  PROVE  LocalInv'
<1>1. Len(stack) \in Nat \ {0} /\ ~AtRoot /\ IsLoop(stack[Len(stack)]) BY TopIs DEF IsLoop, Top
<1>2. Len(stack') = Len(stack) - 1 /\ \A i \in 1..Len(stack') : stack'[i] = stack[i]
  BY <1>1, ComesOut
<1>3. Local(stack, ctx', Len(stack')) BY <1>1, <1>2, LocalMerged DEF Top
<1>4. Locals(stack', ctx') BY <1>1, <1>2, <1>3, LocalsPop
<1> QED BY <1>4, LocalsPrimed DEF InABook

LEMMA LocalIterate ==
  ASSUME NoneReserved, TypeInv, LocalInv, mode \in {"next", "back"}, N(Top.node).kind = "loop", Iterate,
         UNCHANGED <<session, play, wait>>
  PROVE  LocalInv'
<1> DEFINE m == Merged(Top, ctx)
           i == Top.iter + 1
<1>1. /\ Placed /\ stack # <<>> /\ play \in Books /\ Locals(stack, ctx)
      /\ Len(stack) \in Nat \ {0} /\ Top.node \in DOMAIN play.node /\ IsLoop(stack[Len(stack)])
  <2>1. Placed /\ stack # <<>> /\ play \in Books /\ Locals(stack, ctx)
    BY DEF TypeInv, Placed, InABook, LocalInv
  <2> QED BY <2>1, TopIs DEF IsLoop, Top
<1>2. Values(m) /\ i \in Nat BY <1>1, TopValues, MergedValues DEF TypeInv, Valued
<1>3. ~Waits' BY <1>1, NoWait
<1>4. CASE i < N(Top.node).times
  <2> DEFINE f == Again(Top, i, m)
  <2>1. mode' = "next" /\ ctx' = InIteration(m, Top.node, i) /\ stack' = Replaced(stack, f)
    BY <1>4 DEF Iterate, Replaced, Top, Again
  <2>2. FrameOK(play, f) /\ f.node = Top.node /\ f.saved = m /\ f.iter = i BY <1>1, <1>2, FrameAgain
  <2> HIDE DEF f, i, m
  <2>3. Top' = f /\ Len(stack') = Len(stack) /\ \A j \in 1..Len(stack) - 1 : stack'[j] = stack[j]
    BY <1>1, <1>3, <2>1, <2>2, MovesOn DEF AtAnAction
  <2>4. stack'[Len(stack')] = f BY <2>3 DEF Top
  <2>5. Top = stack[Len(stack)] BY DEF Top
  <2>6. stack'[Len(stack')].saved = Merged(stack[Len(stack)], ctx) BY <2>2, <2>4, <2>5 DEF m
  <2>7. Locals(stack', InIteration(Merged(stack[Len(stack)], ctx), stack'[Len(stack')].node, stack'[Len(stack')].iter))
    BY <1>1, <2>2, <2>3, <2>4, <2>5, <2>6, LocalsIterate
  <2>8. Locals(stack', ctx') BY <2>1, <2>2, <2>4, <2>6, <2>7
  <2> QED BY <2>1, <2>8, LocalsPrimed DEF InABook
<1>5. CASE ~(i < N(Top.node).times)
  <2>1. Returns([Passes EXCEPT !.done = {i}]) /\ ctx' = m BY <1>5 DEF Iterate
  <2> QED BY <1>1, <1>3, <2>1, LocalPopLoop DEF Returns
<1> QED BY <1>4, <1>5

LEMMA LocalBack ==
  ASSUME NoneReserved, TypeInv, LocalInv, NextIteration \/ LoopBreaks \/ Back
  PROVE  LocalInv'
<1>1. /\ Placed /\ stack # <<>> /\ UNCHANGED <<session, play, wait>> /\ Locals(stack, ctx)
      /\ mode \in {"next", "back", "broken"} /\ Len(stack) \in Nat \ {0}
  <2>1. /\ Placed /\ stack # <<>> /\ UNCHANGED <<session, play, wait>> /\ Locals(stack, ctx)
        /\ mode \in {"next", "back", "broken"}
    BY DEF NextIteration, LoopBreaks, Back, TypeInv, Placed, InABook, LocalInv
  <2> QED BY <2>1, TopIs
<1>2. ~Waits' BY <1>1, NoWait
<1>3. CASE NextIteration BY <1>1, <1>3, LocalIterate DEF NextIteration
<1>4. CASE LoopBreaks
  <2>1. N(Top.node).kind = "loop" /\ GiveUp({}) BY <1>4 DEF LoopBreaks, TypeInv, Placed
  <2> QED BY <1>1, <1>2, <2>1, LocalPopLoop DEF GiveUp, Returns
<1>5. CASE Back
  <2>0. mode = "back" /\ ~AtRoot BY <1>5 DEF Back
  <2>1. CASE N(Top.node).kind = "loop" /\ Iterate BY <1>1, <2>0, <2>1, LocalIterate
  <2>2. CASE N(Top.node).kind = "loop" /\ GiveUp({Top.iter})
    BY <1>1, <1>2, <2>2, LocalPopLoop DEF GiveUp, Returns
  <2>3. CASE N(Top.node).kind # "loop" /\ UNCHANGED ctx /\ \E r : Returns(r)
    <3>1. stack' = Below /\ mode' = "back" BY <2>3 DEF Returns
    <3>2. Len(stack') = Len(stack) - 1 /\ \A i \in 1..Len(stack') : stack'[i] = stack[i]
      BY <1>1, <1>2, <2>0, <3>1, ComesOut
    <3>3. ~IsLoop(stack[Len(stack)]) BY <2>3 DEF IsLoop, Top
    <3>4. Locals(stack', ctx') BY <1>1, <2>3, <3>2, <3>3, LocalsPopBlock
    <3> QED BY <1>1, <3>1, <3>4, LocalsPrimed DEF InABook
  <2>4. CASE mode' = "next" /\ stack' = Moved(Top.pos + 1) /\ UNCHANGED ctx
    <3>1. Top.pos + 1 \in 1..Len(Body) + 1 BY <1>1, <2>0, TopIs DEF TypeInv, Placed, AtAnAction
    <3> DEFINE f == [Top EXCEPT !.pos = Top.pos + 1]
    <3>2. stack' = Replaced(stack, f) /\ FrameOK(play, f) /\ f.node = Top.node /\ f.saved = Top.saved
          /\ f.iter = Top.iter
      BY <1>1, <2>4, <3>1, FrameMoved
    <3> HIDE DEF f
    <3>3. Locals(stack', ctx') BY <1>1, <2>4, <3>2, LocalMoved
    <3> QED BY <1>1, <2>4, <3>3, LocalsPrimed DEF InABook
  <2> QED BY <1>5, <2>1, <2>2, <2>3, <2>4 DEF Back
<1> QED BY <1>3, <1>4, <1>5

LEMMA LocalStep ==
  ASSUME NoneReserved, TypeInv, LocalInv, [Next]_vars
  PROVE  LocalInv'
<1>1. CASE UNCHANGED vars
  <2>1. UNCHANGED <<play, stack, ctx, mode>> BY <1>1 DEF vars, place, data
  <2>2. Locals(stack, ctx)' <=> Locals(stack, ctx) BY <2>1 DEF Locals, Local, IsLoop, N
  <2> QED BY <2>1, <2>2 DEF LocalInv
<1> QED BY <1>1, LocalBegin, LocalLeaf, LocalMove, LocalEnter, LocalBack DEF Next, Step, Terminated

\* In a loop, index and total are those of the innermost loop, whatever ran in the body
\* before; outside of loops they are gone, however the loops were left.  The playbooks use
\* the names that loops set for nothing else.
THEOREM LoopsKeepTheirOwn ==
  ASSUME NoneReserved
  PROVE  Spec => []LoopVariablesLocal
<1>1. Init => LocalInv
  <2>1. ASSUME Init PROVE LocalInv
    <3>1. stack = <<>> /\ Automatic \cap DOMAIN ctx = {} BY <2>1 DEF Init
    <3>2. Locals(stack, ctx) BY <3>1, LocalEmpty
    <3> QED BY <3>1, <3>2 DEF LocalInv
  <2> QED BY <2>1
<1>2. TypeInv /\ LocalInv /\ [Next]_vars => LocalInv' BY LocalStep
<1>3. TypeInv /\ LocalInv => LoopVariablesLocal
  <2> SUFFICES ASSUME TypeInv, LocalInv PROVE LoopVariablesLocal OBVIOUS
  <2>1. Len(stack) \in Nat /\ DOMAIN stack = 1..Len(stack) BY SequenceFacts DEF TypeInv, Placed, Path
  <2>2. Loops \in SUBSET (1..Len(stack)) /\ \A i \in 1..Len(stack) : i \in Loops <=> IsLoop(stack[i])
    BY <2>1 DEF Loops, IsLoop
  <2>3. CASE mode = "cancelled" BY <2>3 DEF LocalInv, InABook, LoopVariablesLocal
  <2>4. CASE mode # "cancelled" /\ Loops = {}
    <3>1. Automatic \cap DOMAIN ctx = {} BY <2>2, <2>4 DEF LocalInv, Locals, Local, Automatic
    <3> QED BY <2>4, <3>1 DEF LoopVariablesLocal
  <2>5. CASE mode # "cancelled" /\ Loops # {}
    <3> DEFINE i == Max(Loops)
    <3>1. i \in Loops /\ \A j \in Loops : j <= i BY <2>1, <2>2, <2>5, GreatestIn
    <3> HIDE DEF i
    <3>2. i \in 1..Len(stack) /\ IsLoop(stack[i]) /\ \A j \in 1..Len(stack) : IsLoop(stack[j]) => j <= i
      BY <2>2, <3>1
    <3>3. /\ {"index", "total"} \subseteq DOMAIN ctx
          /\ ctx["index"] = stack[i].iter /\ ctx["total"] = N(stack[i].node).times
      BY <2>5, <3>2 DEF LocalInv, Locals, Local
    <3> QED BY <2>5, <3>3 DEF LoopVariablesLocal, i
  <2> QED BY <2>3, <2>4, <2>5
<1> QED BY TypeInvariant, <1>1, <1>2, <1>3, PTL DEF Spec

-----------------------------------------------------------------------------
(* The machine of an action: what is handed down the tree.                 *)

\* A finite, well-founded recursion has a solution: a set of nodes that is closed under H,
\* on which the equations are solved, can be enlarged until it has all of them.
LEMMA Recursion ==
  ASSUME NEW D, IsFiniteSet(D), NEW V, V # {}, NEW H \in [D -> SUBSET D],
         \A S \in SUBSET D \ {{}} : \E n \in S : H[n] \cap S = {},
         NEW G \in [D -> [[D -> V] -> V]],
         \A n \in D : \A f, g \in [D -> V] : (\A c \in H[n] : f[c] = g[c]) => G[n][f] = G[n][g]
  PROVE  \E f \in [D -> V] : \A n \in D : f[n] = G[n][f]
<1> DEFINE Solves(f, E) == \A n \in E : f[n] = G[n][f]
           Solved == {E \in SUBSET D : (\A n \in E : H[n] \subseteq E) /\ \E f \in [D -> V] : Solves(f, E)}
           Missing == {Cardinality(D \ E) : E \in Solved}
<1>1. {} \in Solved
  <2>1. PICK v \in V : TRUE OBVIOUS
  <2>2. [n \in D |-> v] \in [D -> V] BY <2>1
  <2>3. Solves([n \in D |-> v], {}) OBVIOUS
  <2> QED BY <2>2, <2>3
<1>2. Missing \in SUBSET Nat /\ Missing # {}
  <2>1. \A E \in Solved : Cardinality(D \ E) \in Nat
    <3> TAKE E \in Solved
    <3>1. IsFiniteSet(D \ E) BY FS_Difference
    <3> QED BY <3>1, FS_CardinalityType
  <2> HIDE DEF Solved
  <2> QED BY <1>1, <2>1
<1>3. PICK E \in Solved : \A F \in Solved : Cardinality(D \ E) <= Cardinality(D \ F)
  <2> HIDE DEF Solved
  <2>1. Min(Missing) \in Missing /\ \A x \in Missing : Min(Missing) <= x
    <3> HIDE DEF Missing
    <3> QED BY <1>2, LeastIn
  <2>2. PICK E \in Solved : Min(Missing) = Cardinality(D \ E) BY <2>1
  <2> QED BY <2>1, <2>2
<1>4. PICK f \in [D -> V] : Solves(f, E) BY <1>3
<1>5. ASSUME D \ E # {} PROVE FALSE
  <2>1. PICK n \in D \ E : H[n] \cap (D \ E) = {} BY <1>5
  <2>2. H[n] \subseteq E BY <2>1
  <2> DEFINE g == [f EXCEPT ![n] = G[n][f]]
             F == E \cup {n}
  <2>3. g \in [D -> V] /\ g[n] = G[n][f] /\ \A m \in D : m # n => g[m] = f[m] BY <1>4, <2>1
  <2> HIDE DEF g
  <2>4. ASSUME NEW m \in F PROVE H[m] \subseteq E BY <1>3, <2>2, <2>4
  <2>5. ASSUME NEW m \in F PROVE g[m] = G[m][g]
    <3>1. m \in D /\ \A c \in H[m] : f[c] = g[c] BY <1>3, <2>1, <2>3, <2>4, <2>5
    <3>2. G[m][g] = G[m][f] BY <1>4, <2>3, <3>1
    <3>3. CASE m = n BY <2>3, <3>2, <3>3
    <3>4. CASE m # n BY <1>4, <2>3, <2>5, <3>1, <3>2, <3>4
    <3> QED BY <3>3, <3>4
  <2>6. F \in Solved
    <3>1. F \in SUBSET D BY <1>3, <2>1
    <3>2. \A m \in F : H[m] \subseteq F BY <2>4
    <3>3. Solves(g, F) BY <2>5
    <3> QED BY <2>3, <3>1, <3>2, <3>3
  <2>7. IsFiniteSet(D \ E) /\ n \in D \ E /\ D \ F = (D \ E) \ {n} BY <2>1, FS_Difference
  <2>8. Cardinality(D \ F) = Cardinality(D \ E) - 1 /\ Cardinality(D \ E) \in Nat
    BY <2>7, FS_RemoveElement, FS_CardinalityType
  <2>9. Cardinality(D \ E) <= Cardinality(D \ F) BY <1>3, <2>6
  <2> QED BY <2>8, <2>9
<1>6. E = D BY <1>3, <1>5
<1> QED BY <1>4, <1>6

LEMMA Tree ==
  ASSUME NEW p \in Books
  PROVE  /\ IsFiniteSet(DOMAIN p.node) /\ DOMAIN p.node # {}
         /\ \A n \in DOMAIN p.node : Holders(p, n) \subseteq DOMAIN p.node
         /\ \A n \in DOMAIN p.node : \A c, d \in Holders(p, n) : c = d
         /\ \A S \in SUBSET DOMAIN p.node \ {{}} : \E n \in S : Holders(p, n) \cap S = {}
BY PlaybookAssumption DEF WellFormed, Holders

\* What holds of a node if it holds of the one that holds it, holds of all.
LEMMA DownTheTree ==
  ASSUME NEW p \in Books, NEW S \in SUBSET DOMAIN p.node,
         \A n \in DOMAIN p.node : Holders(p, n) \subseteq S => n \in S
  PROVE  S = DOMAIN p.node
<1>1. ASSUME DOMAIN p.node \ S # {} PROVE FALSE
  <2>1. PICK n \in DOMAIN p.node \ S : Holders(p, n) \cap (DOMAIN p.node \ S) = {} BY <1>1, Tree
  <2>2. Holders(p, n) \subseteq S BY <2>1, Tree
  <2> QED BY <2>1, <2>2
<1> QED BY <1>1

LEMMA AroundIs ==
  ASSUME NEW p \in Books
  PROVE  Around(p) = [n \in DOMAIN p.node |-> {n} \cup UNION {Around(p)[c] : c \in Holders(p, n)}]
<1> DEFINE D == DOMAIN p.node
           V == SUBSET D
           H == [n \in D |-> Holders(p, n)]
           G == [n \in D |-> [f \in [D -> V] |-> {n} \cup UNION {f[c] : c \in H[n]}]]
<1>1. IsFiniteSet(D) /\ V # {} /\ H \in [D -> SUBSET D] BY Tree
<1>2. \A S \in SUBSET D \ {{}} : \E n \in S : H[n] \cap S = {} BY Tree
<1>3. G \in [D -> [[D -> V] -> V]]
  <2>1. ASSUME NEW n \in D, NEW f \in [D -> V] PROVE {n} \cup UNION {f[c] : c \in H[n]} \in V
    <3>1. \A c \in H[n] : f[c] \subseteq D BY <1>1, <2>1
    <3> HIDE DEF H
    <3> QED BY <3>1
  <2> QED BY <2>1
<1>4. \A n \in D : \A f, g \in [D -> V] : (\A c \in H[n] : f[c] = g[c]) => G[n][f] = G[n][g]
  <2> TAKE n \in D
  <2> TAKE f, g \in [D -> V]
  <2> HAVE \A c \in H[n] : f[c] = g[c]
  <2>1. {f[c] : c \in H[n]} = {g[c] : c \in H[n]} OBVIOUS
  <2> QED BY <2>1
<1>5. PICK f \in [D -> V] : \A n \in D : f[n] = G[n][f]
  <2> HIDE DEF G, H, V, D
  <2> QED BY <1>1, <1>2, <1>3, <1>4, Recursion
<1>6. f = [n \in D |-> {n} \cup UNION {f[c] : c \in Holders(p, n)}] BY <1>5
<1> QED BY <1>6 DEF Around

LEMMA CascadeIs ==
  ASSUME NEW p \in Books
  PROVE  _cascade_machine(p) =
           [n \in DOMAIN p.node |->
              IF p.node[n].machine # None \/ Holders(p, n) = {} THEN p.node[n].machine
              ELSE _cascade_machine(p)[CHOOSE c \in Holders(p, n) : TRUE]]
<1> DEFINE D == DOMAIN p.node
           V == {p.node[n].machine : n \in D}
           H == [n \in D |-> Holders(p, n)]
           own(n, f) == IF p.node[n].machine # None \/ Holders(p, n) = {} THEN p.node[n].machine
                        ELSE f[CHOOSE c \in Holders(p, n) : TRUE]
           G == [n \in D |-> [f \in [D -> V] |-> own(n, f)]]
<1>1. IsFiniteSet(D) /\ V # {} /\ H \in [D -> SUBSET D] BY Tree
<1>2. \A S \in SUBSET D \ {{}} : \E n \in S : H[n] \cap S = {} BY Tree
<1>3. \A n \in D : Holders(p, n) # {} => (CHOOSE c \in Holders(p, n) : TRUE) \in H[n] BY <1>1
<1>4. G \in [D -> [[D -> V] -> V]]
  <2>1. ASSUME NEW n \in D, NEW f \in [D -> V] PROVE own(n, f) \in V BY <1>1, <1>3
  <2> HIDE DEF own
  <2> QED BY <2>1
<1>5. \A n \in D : \A f, g \in [D -> V] : (\A c \in H[n] : f[c] = g[c]) => G[n][f] = G[n][g]
  BY <1>3
<1>6. PICK f \in [D -> V] : \A n \in D : f[n] = G[n][f]
  <2> HIDE DEF G, H, V, D
  <2> QED BY <1>1, <1>2, <1>4, <1>5, Recursion
<1>7. f = [n \in D |-> own(n, f)] BY <1>6
<1> QED BY <1>7 DEF _cascade_machine

\* The containers around an action are ordered by how far out they are.
LEMMA AroundFacts ==
  ASSUME NEW p \in Books
  PROVE  \A n \in DOMAIN p.node :
           /\ n \in Around(p)[n] /\ Around(p)[n] \subseteq DOMAIN p.node
           /\ \A m \in Around(p)[n] : Around(p)[m] \subseteq Around(p)[n]
           /\ \A m \in Around(p)[n] : n \in Around(p)[m] => m = n
<1> DEFINE D == DOMAIN p.node
           A == Around(p)
<1>1. \A n \in D : A[n] = {n} \cup UNION {A[c] : c \in Holders(p, n)}
  <2> DEFINE rhs == [n \in D |-> {n} \cup UNION {A[c] : c \in Holders(p, n)}]
  <2>1. A = rhs BY AroundIs
  <2>2. \A n \in D : rhs[n] = {n} \cup UNION {A[c] : c \in Holders(p, n)} OBVIOUS
  <2> HIDE DEF A, rhs
  <2> QED BY <2>1, <2>2
<1>2. \A n \in D : Holders(p, n) \subseteq D BY Tree
<1> HIDE DEF A
<1>3. \A n \in D : A[n] \subseteq D
  <2> DEFINE S == {n \in D : A[n] \subseteq D}
  <2>1. \A n \in D : Holders(p, n) \subseteq S => n \in S BY <1>1
  <2> HIDE DEF S
  <2>2. S \in SUBSET D BY DEF S
  <2>3. S = D BY <2>1, <2>2, DownTheTree
  <2> QED BY <2>3 DEF S
<1>4. \A n \in D : \A m \in A[n] : A[m] \subseteq A[n]
  <2> DEFINE S == {n \in D : \A m \in A[n] : A[m] \subseteq A[n]}
  <2>1. ASSUME NEW n \in D, Holders(p, n) \subseteq S, NEW m \in A[n] PROVE A[m] \subseteq A[n]
    <3>1. CASE m = n BY <3>1
    <3>2. CASE \E c \in Holders(p, n) : m \in A[c] BY <1>1, <2>1, <3>2
    <3> QED BY <1>1, <3>1, <3>2
  <2>2. \A n \in D : Holders(p, n) \subseteq S => n \in S BY <2>1
  <2> HIDE DEF S
  <2>3. S \in SUBSET D BY DEF S
  <2>4. S = D BY <2>2, <2>3, DownTheTree
  <2> QED BY <2>4 DEF S
<1>5. \A n \in D : n \notin Holders(p, n)
  <2> TAKE n \in D
  <2>1. {n} \subseteq D /\ {n} # {} OBVIOUS
  <2>2. PICK m \in {n} : Holders(p, m) \cap {n} = {} BY <2>1, Tree
  <2> QED BY <2>2
<1>6. \A n \in D : \A m \in A[n] : n \in A[m] => m = n
  <2> DEFINE S == {n \in D : \A m \in A[n] : n \in A[m] => m = n}
  <2>1. ASSUME NEW n \in D, Holders(p, n) \subseteq S, NEW m \in A[n], n \in A[m], m # n PROVE FALSE
    <3>1. PICK c \in Holders(p, n) : m \in A[c] BY <1>1, <2>1
    <3>2. c \in D /\ c \in A[c] /\ c \in A[n] /\ n \in A[c] BY <1>1, <1>2, <1>4, <2>1, <3>1
    <3>3. n = c BY <2>1, <3>1, <3>2
    <3> QED BY <1>5, <3>1, <3>3
  <2>2. \A n \in D : Holders(p, n) \subseteq S => n \in S BY <2>1
  <2> HIDE DEF S
  <2>3. S \in SUBSET D BY DEF S
  <2>4. S = D BY <2>2, <2>3, DownTheTree
  <2> QED BY <2>4 DEF S
<1> QED BY <1>1, <1>3, <1>4, <1>6 DEF A

\* What is handed down to an action is the machine of the nearest container that names one.
LEMMA HandedDown ==
  ASSUME NEW p \in Books, NEW n \in DOMAIN p.node
  PROVE  Nearest(p, n) = IF _cascade_machine(p)[n] = None THEN Primary ELSE _cascade_machine(p)[n]
<1> DEFINE D == DOMAIN p.node
           A == Around(p)
           M(m) == p.node[m].machine
           own == _cascade_machine(p)
           named(m) == {a \in A[m] : M(a) # None}
           first(m) == CHOOSE a \in named(m) : named(m) \subseteq A[a]
           S == {m \in D : IF named(m) = {} THEN own[m] = None
                           ELSE own[m] = M(first(m)) /\ own[m] # None}
<1>1. \A m \in D : A[m] = {m} \cup UNION {A[c] : c \in Holders(p, m)}
  <2> DEFINE rhs == [m \in D |-> {m} \cup UNION {A[c] : c \in Holders(p, m)}]
  <2>1. A = rhs BY AroundIs
  <2>2. \A m \in D : rhs[m] = {m} \cup UNION {A[c] : c \in Holders(p, m)} OBVIOUS
  <2> HIDE DEF A, rhs
  <2> QED BY <2>1, <2>2
<1>2. \A m \in D : own[m] = IF M(m) # None \/ Holders(p, m) = {} THEN M(m)
                            ELSE own[CHOOSE c \in Holders(p, m) : TRUE]
  <2> DEFINE rhs == [m \in D |-> IF M(m) # None \/ Holders(p, m) = {} THEN M(m)
                                 ELSE own[CHOOSE c \in Holders(p, m) : TRUE]]
  <2>1. own = rhs BY CascadeIs
  <2>2. \A m \in D : rhs[m] = IF M(m) # None \/ Holders(p, m) = {} THEN M(m)
                              ELSE own[CHOOSE c \in Holders(p, m) : TRUE]
    OBVIOUS
  <2> HIDE DEF own, rhs
  <2> QED BY <2>1, <2>2
<1>3. \A m \in D : /\ m \in A[m] /\ A[m] \subseteq D
                   /\ \A a \in A[m] : m \in A[a] => a = m
  BY AroundFacts
<1> HIDE DEF A, own, M
<1>4. ASSUME NEW m \in D, Holders(p, m) \subseteq S PROVE m \in S
  <2>1. CASE M(m) # None
    <3>1. m \in named(m) /\ named(m) \subseteq A[m] BY <1>3, <2>1
    <3>2. first(m) \in named(m) /\ named(m) \subseteq A[first(m)] BY <3>1
    <3>3. first(m) = m BY <1>3, <3>1, <3>2
    <3> QED BY <1>2, <2>1, <3>1, <3>3
  <2>2. CASE M(m) = None /\ Holders(p, m) = {}
    <3>1. A[m] = {m} BY <1>1, <2>2
    <3>2. named(m) = {} BY <2>2, <3>1
    <3> QED BY <1>2, <2>2, <3>2
  <2>3. CASE M(m) = None /\ Holders(p, m) # {}
    <3> DEFINE c == CHOOSE c \in Holders(p, m) : TRUE
    <3>1. c \in Holders(p, m) BY <2>3
    <3>2. own[m] = own[c] BY <1>2, <2>3
    <3> HIDE DEF c
    <3>3. Holders(p, m) = {c} BY <3>1, Tree
    <3>4. A[m] = {m} \cup A[c] BY <1>1, <3>3
    <3>5. named(m) = named(c) BY <2>3, <3>4
    <3>6. c \in S BY <1>4, <3>1
    <3> QED BY <3>2, <3>5, <3>6
  <2> QED BY <2>1, <2>2, <2>3
<1>5. S = D
  <2>1. \A m \in D : Holders(p, m) \subseteq S => m \in S BY <1>4
  <2> HIDE DEF S
  <2>2. S \in SUBSET D BY DEF S
  <2> QED BY <2>1, <2>2, DownTheTree
<1>6. Nearest(p, n) = IF named(n) = {} THEN Primary ELSE M(first(n)) BY DEF Nearest, A, M
<1>7. IF named(n) = {} THEN own[n] = None ELSE own[n] = M(first(n)) /\ own[n] # None BY <1>5
<1>8. Nearest(p, n) = IF own[n] = None THEN Primary ELSE own[n]
  <2> HIDE DEF S
  <2> QED BY <1>6, <1>7
<1> QED BY <1>8 DEF own

Ours(e) == e.book = Len(session) /\ ~N(e.node).host

\* While an action executes the executors are bound to its machine, and what was done in
\* this playbook was done on the machine of the action that did it.
MachineInv ==
  /\ Sequence(ran)
  /\ mode = "go" => bound = Target(Child)
  /\ \A i \in DOMAIN ran :
       /\ ran[i].book \in Nat /\ ran[i].book >= Len(session)
       /\ Ours(ran[i]) => ran[i].node \in DOMAIN play.node /\ ran[i].machine = Target(ran[i].node)

LEMMA LeftThere ==
  ASSUME TypeInv, MachineInv, mode = "go", NEW r, NEW where, NEW about, Left(r, where, about),
         where = bound \/ N(Child).host
  PROVE  MachineInv'
<1> DEFINE e == [node |-> Child, machine |-> where, ok |-> r.ok, top |-> AtRoot,
                 book |-> Len(session), about |-> about]
<1>1. /\ ran' = Append(ran, e) /\ mode' = "back" /\ UNCHANGED <<session, play>>
      /\ e.book = Len(session) /\ e.node = Child /\ e.machine = where
  BY DEF Left
<1> HIDE DEF e
<1>2. Len(session) \in Nat /\ Child \in DOMAIN play.node
  <2>1. session \in Seq(Books) /\ stack # <<>> /\ Top.pos \in DOMAIN Body
    BY DEF TypeInv, Placed, InABook, AtAnAction
  <2> QED BY <2>1, TopIs DEF TypeInv
<1>3. Ours(e) => e.node \in DOMAIN play.node /\ e.machine = Target(e.node)
  BY <1>1, <1>2 DEF Ours, MachineInv
<1>4. Sequence(ran) /\ Len(ran) \in Nat /\ DOMAIN ran = 1..Len(ran) BY SequenceFacts DEF MachineInv
<1>5. /\ Sequence(ran') /\ Len(ran') = Len(ran) + 1 /\ ran'[Len(ran) + 1] = e
      /\ \A i \in 1..Len(ran) : ran'[i] = ran[i]
  BY <1>1, <1>4, AppendFacts
<1>6. DOMAIN ran' = 1..Len(ran) + 1 BY <1>5, SequenceFacts
<1>7. ASSUME NEW i \in DOMAIN ran'
      PROVE  /\ ran'[i].book \in Nat /\ ran'[i].book >= Len(session)
             /\ Ours(ran'[i]) => ran'[i].node \in DOMAIN play.node /\ ran'[i].machine = Target(ran'[i].node)
  <2>1. CASE i = Len(ran) + 1 BY <1>1, <1>2, <1>3, <1>5, <2>1
  <2>2. CASE i # Len(ran) + 1
    <3>1. i \in DOMAIN ran /\ ran'[i] = ran[i] BY <1>4, <1>5, <1>6, <2>2
    <3> QED BY <3>1 DEF MachineInv
  <2> QED BY <2>1, <2>2
<1> QED BY <1>1, <1>5, <1>7 DEF MachineInv, Ours, Target, N

LEMMA MachineStep ==
  ASSUME TypeInv, MachineInv, [Next]_vars
  PROVE  MachineInv'
<1>1. ASSUME UNCHANGED <<session, play, ran>>, mode' = "go" => mode = "go" /\ UNCHANGED <<stack, bound>>
      PROVE  MachineInv'
  BY <1>1 DEF MachineInv, Ours, Target, N, Child, Body, Top
<1>2. CASE UNCHANGED vars BY <1>1, <1>2 DEF vars, place, executors, trace
<1>3. CASE Begin
  <2>1. session \in Seq(Books) /\ session # <<>> BY <1>3 DEF TypeInv, Placed, Begin
  <2>2. Len(session') \in Nat /\ Len(session) \in Nat /\ Len(session') < Len(session)
    BY <1>3, <2>1 DEF Begin
  <2>3. UNCHANGED ran /\ mode' = "next" BY <1>3 DEF Begin, trace
  <2> QED BY <2>2, <2>3 DEF MachineInv, Ours
<1>4. CASE Dispatch
  <2>1. UNCHANGED <<session, play, stack, ran>> /\ (mode' = "go" => bound' = Target(Child))
    BY <1>4 DEF Dispatch, trace
  <2> QED BY <2>1 DEF MachineInv, Ours, Target, N, Child, Body, Top
<1>5. CASE \/ Pass \/ Announce \/ End \/ EnterBlock \/ LeaveBlock \/ EnterLoop \/ NextIteration
           \/ LoopBreaks \/ Back \/ TopBack \/ Cancel
  <2>1. UNCHANGED <<session, play, ran>>
    BY <1>5 DEF Pass, Announce, End, EnterBlock, LeaveBlock, EnterLoop, NextIteration, LoopBreaks, Back,
         TopBack, Cancel, trace, place
  <2>2. mode' # "go"
    <3>1. CASE Pass \/ Announce \/ End \/ EnterBlock \/ LeaveBlock \/ EnterLoop \/ Cancel
      <4>1. mode = "next" \/ mode' # "go"
        BY <3>1 DEF Pass, Announce, End, EnterBlock, LeaveBlock, EnterLoop, Cancel, Over, Returns
      <4> QED BY <3>1, <4>1 DEF Pass, Announce, End, EnterBlock, LeaveBlock, EnterLoop, Cancel, Over, Returns
    <3>2. CASE NextIteration \/ LoopBreaks \/ Back \/ TopBack
      BY <3>2 DEF NextIteration, LoopBreaks, Back, TopBack, Iterate, GiveUp, Returns, Over
    <3> QED BY <1>5, <3>1, <3>2
  <2> QED BY <1>1, <2>1, <2>2
<1>6. CASE WaitBegins \/ WaitGoesOn
  BY <1>1, <1>6 DEF WaitBegins, WaitGoesOn, Going, place, executors, trace
<1>7. CASE Simple \/ Captured \/ SaveVariable \/ Click \/ VmTest \/ Signal \/ WaitEnds
  <2>1. mode = "go" /\ \E r, about : Left(r, bound, about)
    BY <1>7 DEF Simple, Captured, SaveVariable, Click, VmTest, Signal, WaitEnds, Ends, Going
  <2> QED BY <2>1, LeftThere
<1>8. CASE HostTest
  <2>1. mode = "go" /\ N(Child).host /\ \E r, where, about : Left(r, where, about)
    BY <1>8 DEF HostTest, Going
  <2> QED BY <2>1, LeftThere
<1> QED BY <1>2, <1>3, <1>4, <1>5, <1>6, <1>7, <1>8 DEF Next, Step, Leaf, Terminated

\* What an action does is done on the machine it names, else on that of the nearest container
\* around it that names one, else on the primary one, however deep the playbook is and
\* whatever machines the actions before it, or in it, were for (_cascade_machine, and the
\* one binding all executors share).
THEOREM OnItsOwnMachine == Spec => []RightMachine
<1>1. Init => MachineInv
  <2>1. ASSUME ran = <<>>, mode = "idle" PROVE MachineInv
    <3>1. Sequence(ran) /\ DOMAIN ran = {} BY <2>1, EmptyFacts
    <3> QED BY <2>1, <3>1 DEF MachineInv
  <2> QED BY <2>1 DEF Init
<1>2. TypeInv /\ MachineInv /\ [Next]_vars => MachineInv' BY MachineStep
<1>3. TypeInv /\ MachineInv => RightMachine
  <2> SUFFICES ASSUME TypeInv, MachineInv, NEW i \in DOMAIN ran, Ours(ran[i])
               PROVE  ran[i].machine = Nearest(play, ran[i].node)
    BY DEF RightMachine, Ours
  <2>1. play \in Books BY DEF TypeInv, Placed
  <2>2. ran[i].node \in DOMAIN play.node /\ ran[i].machine = Target(ran[i].node) BY DEF MachineInv
  <2> QED BY <2>1, <2>2, HandedDown DEF Target
<1> QED BY TypeInvariant, <1>1, <1>2, <1>3, PTL DEF Spec

-----------------------------------------------------------------------------
(* The verdict of a playbook.                                              *)

AllGood == \A i \in DOMAIN results : results[i]

\* Nothing has failed that the results do not know of, but for the failure of a container
\* whose result is on its way back.
Unfailed == mode = "back" => ret.ok \/ N(Child).kind \notin {"block", "loop"}

SuccessInv ==
  /\ Sequence(events) /\ Sequence(results) /\ Sequence(verdicts)
  /\ Unfailed /\ AllGood => Unblemished
  /\ Unblemished => AllGood
  /\ Ended => (verdicts[Len(verdicts)] <=> AllGood)

LEMMA AllOf ==
  ASSUME NEW s, Sequence(s), NEW x
  PROVE  LET t == Append(s, x)
         IN /\ Sequence(t) /\ t[Len(t)] = x
            /\ DOMAIN t = DOMAIN s \cup {Len(t)} /\ \A i \in DOMAIN s : t[i] = s[i]
<1> DEFINE t == Append(s, x)
<1>1. Len(s) \in Nat /\ DOMAIN s = 1..Len(s) BY SequenceFacts
<1>2. /\ Sequence(t) /\ Len(t) = Len(s) + 1 /\ t[Len(s) + 1] = x
      /\ \A i \in 1..Len(s) : t[i] = s[i]
  BY AppendFacts
<1> HIDE DEF t
<1>3. DOMAIN t = 1..Len(s) + 1 BY <1>2, SequenceFacts
<1>4. DOMAIN t = DOMAIN s \cup {Len(t)} BY <1>1, <1>2, <1>3
<1> QED BY <1>1, <1>2, <1>4 DEF t

LEMMA EventTold ==
  ASSUME Sequence(events), NEW e, events' = Append(events, e)
  PROVE  Sequence(events') /\ (Unblemished' <=> Unblemished /\ e.ok)
<1>1. /\ Sequence(events') /\ events'[Len(events')] = e
      /\ DOMAIN events' = DOMAIN events \cup {Len(events')} /\ \A i \in DOMAIN events : events'[i] = events[i]
  BY AllOf
<1> QED BY <1>1 DEF Unblemished

LEMMA ResultTold ==
  ASSUME Sequence(results), NEW r \in BOOLEAN, results' = Append(results, r)
  PROVE  Sequence(results') /\ (AllGood' <=> AllGood /\ r)
<1>1. /\ Sequence(results') /\ results'[Len(results')] = r
      /\ DOMAIN results' = DOMAIN results \cup {Len(results')}
      /\ \A i \in DOMAIN results : results'[i] = results[i]
  BY AllOf
<1> QED BY <1>1 DEF AllGood

\* A playbook that is over has the verdict of all the results there are.
LEMMA VerdictTold ==
  ASSUME Sequence(verdicts), NEW all, all = results', Over(all)
  PROVE  Sequence(verdicts') /\ mode' = "idle" /\ (verdicts'[Len(verdicts')] <=> AllGood')
<1> DEFINE x == \A i \in DOMAIN all : all[i]
<1>1. verdicts' = Append(verdicts, x) /\ mode' = "idle" BY DEF Over
<1>2. x <=> AllGood' BY DEF AllGood
<1> HIDE DEF x
<1>3. PICK b \in BOOLEAN : b <=> AllGood' OBVIOUS
<1>5. verdicts' = Append(verdicts, b) BY <1>1, <1>2, <1>3
<1>4. Sequence(verdicts') /\ verdicts'[Len(verdicts')] = b BY <1>5, AllOf
<1> QED BY <1>1, <1>3, <1>4

LEMMA SuccessStep ==
  ASSUME TypeInv, SuccessInv, [Next]_vars
  PROVE  SuccessInv'
<1>1. ASSUME UNCHANGED <<events, results, verdicts>>, mode' # "idle" \/ UNCHANGED mode, Unfailed' => Unfailed
      PROVE  SuccessInv'
  BY <1>1 DEF SuccessInv, Ended, AllGood, Unblemished
<1>2. CASE UNCHANGED vars
  <2>1. Unfailed' => Unfailed BY <1>2 DEF Unfailed, vars, place, N, Child, Body, Top
  <2> QED BY <1>1, <1>2, <2>1 DEF vars, place, books, trace
<1>3. CASE \/ Begin \/ Dispatch \/ Leaf \/ EnterBlock \/ LeaveBlock \/ EnterLoop \/ NextIteration \/ Cancel
  <2>1. mode # "back"
    BY <1>3 DEF Begin, Dispatch, Leaf, EnterBlock, LeaveBlock, EnterLoop, NextIteration, Cancel,
         Simple, Captured, SaveVariable, Click, VmTest, HostTest, Signal, WaitBegins, WaitGoesOn, WaitEnds, Going
  <2>2. UNCHANGED <<events, results, verdicts>>
    BY <1>3 DEF Begin, Dispatch, Leaf, EnterBlock, LeaveBlock, EnterLoop, NextIteration, Cancel,
         Simple, Captured, SaveVariable, Click, VmTest, HostTest, Signal, WaitBegins, WaitGoesOn, WaitEnds,
         Ends, Left, trace, books
  <2>3. mode' # "idle" \/ UNCHANGED mode
    BY <1>3 DEF Begin, Dispatch, Leaf, EnterBlock, LeaveBlock, EnterLoop, NextIteration, Cancel,
         Simple, Captured, SaveVariable, Click, VmTest, HostTest, Signal, WaitBegins, WaitGoesOn, WaitEnds,
         Ends, Left, Iterate, Returns, place
  <2> QED BY <1>1, <2>1, <2>2, <2>3 DEF Unfailed
<1>4. CASE LoopBreaks
  <2>1. mode = "broken" /\ mode' = "back" /\ UNCHANGED <<events, results, verdicts>>
    BY <1>4 DEF LoopBreaks, GiveUp, Returns, trace, books
  <2> QED BY <1>1, <2>1 DEF Unfailed
<1>5. CASE Pass
  <2>1. /\ mode = "next" /\ mode' = "next" /\ UNCHANGED <<events, verdicts>>
        /\ (results' = results \/ results' = Append(results, TRUE))
    BY <1>5 DEF Pass, trace
  <2>2. Sequence(results') /\ (AllGood' <=> AllGood)
    <3>1. CASE results' = results BY <3>1 DEF AllGood, SuccessInv
    <3>2. CASE results' = Append(results, TRUE) BY <3>2, ResultTold DEF SuccessInv
    <3> QED BY <2>1, <3>1, <3>2
  <2> QED BY <2>1, <2>2 DEF SuccessInv, Ended, Unblemished, Unfailed
<1>6. CASE Announce
  <2>1. mode = "next" /\ mode' \in {"run", "raised", "broken"} /\ UNCHANGED <<results, verdicts>>
    BY <1>6 DEF Announce
  <2>2. Sequence(events') /\ (Unblemished' <=> Unblemished)
    <3>1. CASE UNCHANGED events BY <3>1 DEF Unblemished, SuccessInv
    <3>2. CASE ~UNCHANGED events
      <4>1. PICK id : events' = Append(events, Event(Child, id, FALSE, Passes)) BY <1>6, <3>2 DEF Announce
      <4>2. Event(Child, id, FALSE, Passes).ok = TRUE BY DEF Event, Passes
      <4> QED BY <4>1, <4>2, EventTold DEF SuccessInv
    <3> QED BY <3>1, <3>2
  <2> QED BY <2>1, <2>2 DEF SuccessInv, Ended, AllGood, Unfailed
<1>7. CASE End
  <2>1. mode = "next" /\ Over(results) /\ UNCHANGED <<events, results>> BY <1>7 DEF End, trace
  <2>2. Sequence(verdicts') /\ mode' = "idle" /\ (verdicts'[Len(verdicts')] <=> AllGood')
    BY <2>1, VerdictTold DEF SuccessInv
  <2> QED BY <2>1, <2>2 DEF SuccessInv, AllGood, Unblemished, Unfailed
<1>8. CASE Back
  <2> DEFINE e == Event(Child, Top.id, TRUE, ret)
  <2>1. /\ mode = "back" /\ ~AtRoot /\ UNCHANGED <<session, play, wait, results, verdicts>>
        /\ events' = Append(events, e) /\ e.ok = ret.ok
    BY <1>8 DEF Back, Event, books
  <2> HIDE DEF e
  <2>2. Sequence(events') /\ (Unblemished' <=> Unblemished /\ ret.ok) BY <2>1, EventTold DEF SuccessInv
  <2>3. mode' \in {"next", "back"} BY <1>8 DEF Back, Iterate, GiveUp, Returns
  <2>4. CASE ret.ok BY <2>1, <2>2, <2>3, <2>4 DEF SuccessInv, Ended, AllGood, Unfailed
  <2>5. CASE ~ret.ok
    <3>1. Placed /\ stack # <<>> BY <2>1 DEF TypeInv, Placed, InABook
    <3>2. ret'.ok = FALSE /\ mode' = "back" /\ N(Child)'.kind \in {"block", "loop"}
      <4>1. CASE N(Top.node).kind = "loop"
        <5>1. GiveUp({Top.iter}) BY <1>8, <2>5, <4>1 DEF Back
        <5> QED BY <2>1, <4>1, <5>1, GiveUpTypes
      <4>2. CASE N(Top.node).kind # "loop"
        <5>1. Returns(Fails) BY <1>8, <2>5, <4>2 DEF Back
        <5>2. mode' = "back" /\ stack' = Below /\ ret'.ok = FALSE BY <5>1, Verdicts DEF Returns
        <5>3. ~Waits' BY <2>1, <3>1, NoWait
        <5> QED BY <2>1, <3>1, <5>2, <5>3, ComesOut
      <4> QED BY <4>1, <4>2
    <3> QED BY <2>1, <2>2, <2>5, <3>2 DEF SuccessInv, Ended, Unfailed
  <2> QED BY <2>4, <2>5
<1>9. CASE TopBack
  <2> DEFINE e == Event(Child, Top.id, TRUE, ret)
  <2>1. /\ mode = "back" /\ events' = Append(events, e) /\ e.ok = ret.ok
        /\ results' = Append(results, ret.ok)
        /\ \/ Over(results')
           \/ mode' = "next" /\ UNCHANGED verdicts
    BY <1>9 DEF TopBack, Event
  <2> HIDE DEF e
  <2>2. ret.ok \in BOOLEAN BY DEF TypeInv, Valued
  <2>3. Sequence(events') /\ (Unblemished' <=> Unblemished /\ ret.ok) BY <2>1, EventTold DEF SuccessInv
  <2>4. Sequence(results') /\ (AllGood' <=> AllGood /\ ret.ok) BY <2>1, <2>2, ResultTold DEF SuccessInv
  <2>5. AllGood' <=> Unblemished' BY <2>1, <2>3, <2>4 DEF SuccessInv, Unfailed
  <2>6. CASE Over(results')
    <3>1. Sequence(verdicts') /\ mode' = "idle" /\ (verdicts'[Len(verdicts')] <=> AllGood')
      BY <2>6, VerdictTold DEF SuccessInv
    <3> QED BY <2>3, <2>4, <2>5, <3>1 DEF SuccessInv
  <2>7. CASE mode' = "next" /\ UNCHANGED verdicts
    BY <2>3, <2>4, <2>5, <2>7 DEF SuccessInv, Ended
  <2> QED BY <2>1, <2>6, <2>7
<1> QED BY <1>2, <1>3, <1>4, <1>5, <1>6, <1>7, <1>8, <1>9 DEF Next, Step, Terminated

LEMMA SuccessInit == Init => SuccessInv
<1>1. ASSUME events = <<>>, results = <<>>, verdicts = <<>> PROVE SuccessInv
  <2>1. Sequence(events) /\ Sequence(results) /\ Sequence(verdicts) /\ DOMAIN events = {}
    BY <1>1, EmptyFacts
  <2> QED BY <1>1, <2>1 DEF SuccessInv, Unblemished, AllGood, Ended
<1> QED BY <1>1 DEF Init

\* A playbook's verdict is success only if nothing failed in it or before it, in whatever
\* container and iteration: each level hands the failure of an action up (the half of
\* ReportExact that keeps a failed run from being reported green).
THEOREM SuccessMeansClean == Spec => []SuccessIsClean
<1>1. Init => SuccessInv BY SuccessInit
<1>2. TypeInv /\ SuccessInv /\ [Next]_vars => SuccessInv' BY SuccessStep
<1>3. SuccessInv => SuccessIsClean BY DEF SuccessInv, SuccessIsClean, Ended, Unfailed
<1> QED BY TypeInvariant, <1>1, <1>2, <1>3, PTL DEF Spec

-----------------------------------------------------------------------------
(* The summary: the rows of an action, by its id.                          *)

Same(e, f) == e.id = f.id /\ e.kind = f.kind /\ e.planned = f.planned

OneStart(rows) ==
  \A i, j \in DOMAIN rows : ~rows[i].complete /\ ~rows[j].complete /\ rows[i].id = rows[j].id => i = j

\* Rows that tell of the actions begun: one row for the beginning of each, one for its
\* end, unless it is among those in progress, open.
Completes(rows) ==
  /\ \A j \in DOMAIN rows : rows[j].complete =>
       \E i \in DOMAIN rows : ~rows[i].complete /\ Same(rows[i], rows[j])
  /\ \A j, k \in DOMAIN rows :
       rows[j].complete /\ rows[k].complete /\ rows[j].id = rows[k].id => j = k
Opened(rows, open) ==
  /\ \A k \in DOMAIN open : \E i \in DOMAIN rows : ~rows[i].complete /\ Same(rows[i], open[k])
  /\ \A k \in DOMAIN open, j \in DOMAIN rows : rows[j].complete => rows[j].id # open[k].id
  /\ \A k, l \in DOMAIN open : open[k].id = open[l].id => k = l
Closed(rows, open) ==
  \A i \in DOMAIN rows : ~rows[i].complete =>
    \/ \E j \in DOMAIN rows : rows[j].complete /\ rows[j].id = rows[i].id
    \/ \E k \in DOMAIN open : open[k].id = rows[i].id
Told(rows, open) == Completes(rows) /\ Opened(rows, open) /\ Closed(rows, open)


\* A row for the beginning of an action, the n-th in progress.
LEMMA ToldBegin ==
  ASSUME NEW rows, Sequence(rows), NEW e, ~e.complete, OneStart(Append(rows, e)),
         NEW open, Told(rows, open),
         NEW n, n \notin DOMAIN open, NEW still, DOMAIN still = DOMAIN open \cup {n},
         \A k \in DOMAIN open : still[k] = open[k], Same(e, still[n])
  PROVE  Told(Append(rows, e), still)
<1> DEFINE more == Append(rows, e)
<1>1. /\ DOMAIN more = DOMAIN rows \cup {Len(more)} /\ more[Len(more)] = e
      /\ \A i \in DOMAIN rows : more[i] = rows[i]
  BY AllOf
<1>2. Len(more) \notin DOMAIN rows
  <2>1. Len(more) = Len(rows) + 1 /\ Len(rows) \in Nat /\ DOMAIN rows = 1..Len(rows)
    BY AppendFacts, SequenceFacts
  <2> QED BY <2>1
<1>3. OneStart(more) OBVIOUS
<1> HIDE DEF more
<1>4. \A i \in DOMAIN rows : rows[i].id # e.id
  <2>1. \A i \in DOMAIN rows : ~rows[i].complete => rows[i].id # e.id BY <1>1, <1>2, <1>3 DEF OneStart
  <2> QED BY <2>1 DEF Told, Completes, Same
<1>5. Completes(more) BY <1>1 DEF Told, Completes
<1>6. Opened(more, still)
  <2>1. \A k \in DOMAIN open : open[k].id # e.id BY <1>4 DEF Told, Opened, Same
  <2>2. still[n].id = e.id BY DEF Same
  <2>3. \A k \in DOMAIN still : \E i \in DOMAIN more : ~more[i].complete /\ Same(more[i], still[k])
    <3>1. ASSUME NEW k \in DOMAIN open PROVE \E i \in DOMAIN more : ~more[i].complete /\ Same(more[i], still[k])
      BY <1>1 DEF Told, Opened
    <3>2. \E i \in DOMAIN more : ~more[i].complete /\ Same(more[i], still[n]) BY <1>1
    <3> QED BY <3>1, <3>2
  <2>4. ASSUME NEW k \in DOMAIN still, NEW j \in DOMAIN more, more[j].complete
        PROVE  more[j].id # still[k].id
    <3>1. j \in DOMAIN rows /\ more[j] = rows[j] BY <1>1, <2>4
    <3>2. CASE k = n BY <1>4, <2>2, <3>1, <3>2
    <3>3. CASE k # n
      <4>1. k \in DOMAIN open /\ still[k] = open[k] BY <3>3
      <4> QED BY <2>4, <3>1, <4>1 DEF Told, Opened
    <3> QED BY <3>2, <3>3
  <2>5. \A k, l \in DOMAIN still : still[k].id = still[l].id => k = l BY <2>1, <2>2 DEF Told, Opened
  <2> QED BY <2>3, <2>4, <2>5 DEF Opened
<1>7. Closed(more, still)
  <2>1. ASSUME NEW i \in DOMAIN rows, ~rows[i].complete
        PROVE  \/ \E j \in DOMAIN more : more[j].complete /\ more[j].id = rows[i].id
               \/ \E k \in DOMAIN still : still[k].id = rows[i].id
    <3>1. CASE \E j \in DOMAIN rows : rows[j].complete /\ rows[j].id = rows[i].id BY <1>1, <3>1
    <3>2. CASE \E k \in DOMAIN open : open[k].id = rows[i].id BY <3>2
    <3> QED BY <2>1, <3>1, <3>2 DEF Told, Closed
  <2>2. \E k \in DOMAIN still : still[k].id = e.id BY DEF Same
  <2> QED BY <1>1, <2>1, <2>2 DEF Closed
<1> QED BY <1>5, <1>6, <1>7 DEF Told, more

\* A row for the end of the n-th.
LEMMA ToldEnd ==
  ASSUME NEW rows, Sequence(rows), NEW e, e.complete, NEW open, Told(rows, open),
         NEW n \in DOMAIN open, NEW still, DOMAIN still = DOMAIN open \ {n},
         \A k \in DOMAIN still : still[k] = open[k], Same(e, open[n])
  PROVE  Told(Append(rows, e), still)
<1> DEFINE more == Append(rows, e)
<1>1. /\ DOMAIN more = DOMAIN rows \cup {Len(more)} /\ more[Len(more)] = e
      /\ \A i \in DOMAIN rows : more[i] = rows[i]
  BY AllOf
<1> HIDE DEF more
<1>2. e.id = open[n].id BY DEF Same
<1>3. Completes(more)
  <2>1. \E i \in DOMAIN rows : ~rows[i].complete /\ Same(rows[i], e) BY DEF Told, Opened, Same
  <2>2. \A j \in DOMAIN rows : rows[j].complete => rows[j].id # e.id BY <1>2 DEF Told, Opened
  <2> QED BY <1>1, <2>1, <2>2 DEF Told, Completes
<1>4. Opened(more, still)
  <2>1. \A k \in DOMAIN still : \E i \in DOMAIN more : ~more[i].complete /\ Same(more[i], still[k])
    BY <1>1 DEF Told, Opened
  <2>2. ASSUME NEW k \in DOMAIN still, NEW j \in DOMAIN more, more[j].complete
        PROVE  more[j].id # still[k].id
    <3>1. k \in DOMAIN open /\ k # n /\ still[k] = open[k] BY <2>2
    <3>2. CASE j \in DOMAIN rows
      <4>1. rows[j].complete => rows[j].id # open[k].id BY <3>1, <3>2 DEF Told, Opened
      <4> QED BY <1>1, <2>2, <3>1, <3>2, <4>1
    <3>3. CASE j = Len(more)
      <4>1. \A l \in DOMAIN open : open[k].id = open[l].id => k = l BY <3>1 DEF Told, Opened
      <4> QED BY <1>1, <1>2, <3>1, <3>3, <4>1
    <3> QED BY <1>1, <3>2, <3>3
  <2>3. \A k, l \in DOMAIN still : still[k].id = still[l].id => k = l BY DEF Told, Opened
  <2> QED BY <2>1, <2>2, <2>3 DEF Opened
<1>5. Closed(more, still)
  <2>1. ASSUME NEW i \in DOMAIN rows, ~rows[i].complete
        PROVE  \/ \E j \in DOMAIN more : more[j].complete /\ more[j].id = rows[i].id
               \/ \E k \in DOMAIN still : still[k].id = rows[i].id
    <3>1. CASE \E j \in DOMAIN rows : rows[j].complete /\ rows[j].id = rows[i].id BY <1>1, <3>1
    <3>2. CASE \E k \in DOMAIN open : open[k].id = rows[i].id
      <4>1. PICK k \in DOMAIN open : open[k].id = rows[i].id BY <3>2
      <4>2. CASE k = n BY <1>1, <1>2, <4>1, <4>2
      <4>3. CASE k # n BY <4>1, <4>3
      <4> QED BY <4>2, <4>3
    <3> QED BY <2>1, <3>1, <3>2 DEF Told, Closed
  <2> QED BY <1>1, <2>1 DEF Closed
<1> QED BY <1>3, <1>4, <1>5 DEF Told, more

\* With one beginning each, whatever tells of an action says the same of it, and once
\* none is in progress one row tells of its end.
LEMMA UnitFacts ==
  ASSUME NEW rows, Sequence(rows), OneStart(rows), NEW open, Told(rows, open), DOMAIN open = {},
         NEW i \in DOMAIN rows, NEW id, id = rows[i].id
  PROVE  /\ id \in Units(rows) /\ Kind(rows, id) = rows[i].kind
         /\ Completed(rows, id) /\ StartRows(rows, id) # {}
         /\ First(rows, StartRows(rows, id)).planned = rows[i].planned
         /\ rows[i].complete => First(rows, CompleteRows(rows, id)) = rows[i]
<1>1. DOMAIN rows \subseteq Nat
  <2>1. DOMAIN rows = 1..Len(rows) /\ Len(rows) \in Nat BY SequenceFacts
  <2> QED BY <2>1
<1>2. ASSUME NEW j \in DOMAIN rows, rows[j].id = id
      PROVE  rows[j].kind = rows[i].kind /\ rows[j].planned = rows[i].planned
  <2>1. PICK s \in DOMAIN rows : ~rows[s].complete /\ Same(rows[s], rows[i]) BY DEF Told, Completes, Same
  <2>2. PICK t \in DOMAIN rows : ~rows[t].complete /\ Same(rows[t], rows[j]) BY DEF Told, Completes, Same
  <2>3. s = t BY <1>2, <2>1, <2>2 DEF OneStart, Same
  <2> QED BY <2>1, <2>2, <2>3 DEF Same
<1>3. PICK s \in DOMAIN rows : ~rows[s].complete /\ rows[s].id = id BY DEF Told, Completes, Same
<1>4. PICK c \in DOMAIN rows : rows[c].complete /\ rows[c].id = id BY <1>3 DEF Told, Closed
<1>5. First(rows, Rows(rows, id)).kind = rows[i].kind
  <2>1. Rows(rows, id) \in SUBSET Nat /\ i \in Rows(rows, id) BY <1>1 DEF Rows
  <2>2. Min(Rows(rows, id)) \in Rows(rows, id) BY <2>1, LeastIn
  <2> QED BY <1>2, <2>2 DEF First, Rows
<1>6. StartRows(rows, id) # {} /\ First(rows, StartRows(rows, id)).planned = rows[i].planned
  <2>1. StartRows(rows, id) \in SUBSET Nat /\ s \in StartRows(rows, id) BY <1>1, <1>3 DEF StartRows, Rows
  <2>2. Min(StartRows(rows, id)) \in StartRows(rows, id) BY <2>1, LeastIn
  <2> QED BY <1>2, <2>1, <2>2 DEF First, StartRows, Rows
<1>7. Completed(rows, id) /\ (rows[i].complete => First(rows, CompleteRows(rows, id)) = rows[i])
  <2>1. CompleteRows(rows, id) \in SUBSET Nat /\ c \in CompleteRows(rows, id) BY <1>1, <1>4 DEF CompleteRows, Rows
  <2>2. Min(CompleteRows(rows, id)) \in CompleteRows(rows, id) BY <2>1, LeastIn
  <2>3. rows[i].complete => Min(CompleteRows(rows, id)) = i BY <2>2 DEF CompleteRows, Rows, Told, Completes
  <2> QED BY <2>1, <2>3 DEF Completed, First
<1> QED BY <1>5, <1>6, <1>7 DEF Units, Kind

\* To count rows is to count their ids.
LEMMA CountById ==
  ASSUME NEW rows, Sequence(rows), NEW S \in SUBSET DOMAIN rows, NEW T,
         \A i, j \in S : rows[i].id = rows[j].id => i = j,
         \A i \in S : rows[i].id \in T, \A id \in T : \E i \in S : rows[i].id = id
  PROVE  Cardinality(T) = Cardinality(S)
<1>1. IsFiniteSet(S)
  <2>1. DOMAIN rows = 1..Len(rows) /\ Len(rows) \in Nat BY SequenceFacts
  <2>2. IsFiniteSet(1..Len(rows)) BY <2>1, FS_Interval
  <2> QED BY <2>1, <2>2, FS_Subset
<1> DEFINE f == [i \in S |-> rows[i].id]
<1>2. f \in Bijection(S, T)
  <2>1. f \in [S -> T] /\ \A a, b \in S : f[a] = f[b] => a = b OBVIOUS
  <2>2. \A t \in T : \E s \in S : f[s] = t OBVIOUS
  <2> HIDE DEF f
  <2> QED BY <2>1, <2>2, Fun_IsBij
<1> QED BY <1>1, <1>2, FS_Bijection DEF ExistsBijection

-----------------------------------------------------------------------------
(* Which actions are in progress: those the frames on the stack stand at.  *)

Standing(f) == N(N(f.node).body[f.pos])
ActionsOn(depth) ==
  [k \in 1..depth |-> [id |-> stack[k].id, kind |-> Standing(stack[k]).kind,
                       planned |-> Standing(stack[k]).times]]
AnActionOn == {"run", "go", "back", "cancelled"}
Enclosing == ActionsOn(Len(stack) - 1)
InProgress == IF mode \in AnActionOn THEN ActionsOn(Len(stack)) ELSE Enclosing

\* A loop in progress has an iteration to end, its result says how many it has done, and
\* so does the row of its end.
Running == \A k \in 1..Len(stack) :
  N(stack[k].node).kind = "loop" => stack[k].iter < N(stack[k].node).times
LoopDone == mode = "back" /\ ret.ok /\ N(Child).kind = "loop" => ret.done = {N(Child).times}
Iterated(e) ==
  e.planned \in Nat /\ (e.complete /\ e.ok /\ e.kind = "loop" => e.done = {e.planned})

TallyInv ==
  /\ Sequence(events) /\ \A i \in DOMAIN events : events[i].ok \in BOOLEAN /\ Iterated(events[i])
  /\ Running /\ LoopDone
  /\ mode \in {"idle", "raised"} => InProgress = <<>>
  /\ Apart => Told(events, InProgress)

LEMMA ActionsStay ==
  ASSUME UNCHANGED play, NEW depth \in Int, \A k \in 1..depth : stack'[k] = stack[k]
  PROVE  ActionsOn(depth)' = ActionsOn(depth)
<1>1. \A k \in 1..depth : Standing(stack[k])' = Standing(stack[k]) BY DEF Standing, N
<1> QED BY <1>1 DEF ActionsOn

LEMMA NoActions == ASSUME NEW depth \in Int, depth <= 0 PROVE ActionsOn(depth) = <<>>
BY DEF ActionsOn

\* A step that adds no row, and keeps what is in progress.
LEMMA TallyQuiet ==
  ASSUME TallyInv, UNCHANGED events, UNCHANGED InProgress, Running', LoopDone',
         mode' \in {"idle", "raised"} => mode \in {"idle", "raised"} \/ InProgress = <<>>
  PROVE  TallyInv'
<1>1. Apart' = Apart BY DEF Apart
<1> QED BY <1>1 DEF TallyInv, Iterated

-----------------------------------------------------------------------------
(* The steps, by what they do to the stack.                                *)

\* An action goes on, is over, or is about to become a frame of its own.
LEMMA KeepsFrames ==
  ASSUME Placed, Running, UNCHANGED <<play, stack>>, mode \in AnActionOn, mode' \in AnActionOn
  PROVE  Running' /\ UNCHANGED InProgress
<1>1. Len(stack) \in Int
  <2>1. Len(stack) \in Nat BY SequenceFacts DEF Placed, Path
  <2> QED BY <2>1
<1>2. ActionsOn(Len(stack))' = ActionsOn(Len(stack)) BY <1>1, ActionsStay DEF ActionsOn, Standing, N
<1>3. InProgress' = InProgress BY <1>2 DEF InProgress
<1>4. Running' BY DEF Running, N
<1> QED BY <1>3, <1>4

\* A container is entered: the action on the top frame is in progress as before.
LEMMA Enters ==
  ASSUME Placed, Running, stack # <<>>, UNCHANGED play, mode = "go", mode' = "next",
         NEW f, stack' = Append(stack, f), N(f.node).kind = "loop" => f.iter < N(f.node).times
  PROVE  Running' /\ UNCHANGED InProgress
<1>1. Sequence(stack) /\ Len(stack) \in Nat \ {0} BY TopIs DEF Placed, Path
<1>2. Len(stack') = Len(stack) + 1 /\ stack'[Len(stack) + 1] = f /\ \A k \in 1..Len(stack) : stack'[k] = stack[k]
  BY <1>1, AppendFacts
<1>3. Enclosing' = ActionsOn(Len(stack))
  <2>1. \A k \in 1..Len(stack) : Standing(stack[k])' = Standing(stack[k]) BY <1>2 DEF Standing, N
  <2>2. Len(stack') - 1 = Len(stack) BY <1>1, <1>2
  <2> QED BY <1>2, <2>1, <2>2 DEF Enclosing, ActionsOn
<1>4. InProgress' = InProgress BY <1>3 DEF InProgress, AnActionOn
<1>5. ASSUME NEW k \in 1..Len(stack'), N(stack[k].node)'.kind = "loop"
      PROVE  stack'[k].iter < N(stack[k].node)'.times
  <2>1. CASE k = Len(stack) + 1 BY <1>2, <1>5, <2>1 DEF N
  <2>2. CASE k # Len(stack) + 1
    <3>1. k \in 1..Len(stack) /\ stack'[k] = stack[k] BY <1>1, <1>2, <2>2
    <3>2. N(stack[k].node).kind = "loop" BY <1>5, <3>1 DEF N
    <3>3. stack[k].iter < N(stack[k].node).times BY <3>1, <3>2 DEF Running
    <3> QED BY <3>1, <3>3 DEF N
  <2> QED BY <2>1, <2>2
<1>6. Running' BY <1>5 DEF Running, N
<1> QED BY <1>4, <1>6

\* Back at the body of the container: the next action of it, its next iteration, or its
\* own end.
LEMMA Moves ==
  ASSUME Placed, Running, stack # <<>>, UNCHANGED play,
         NEW f, f.node = Top.node, stack' = Replaced(stack, f),
         N(f.node).kind = "loop" => f.iter < N(f.node).times
  PROVE  /\ Running' /\ (mode' \notin AnActionOn => InProgress' = Enclosing)
         /\ Len(stack') = Len(stack) /\ stack'[Len(stack)] = f
         /\ \A k \in 1..Len(stack) - 1 : stack'[k] = stack[k]
<1>1. Sequence(stack) /\ Len(stack) \in Nat \ {0} /\ Len(stack) \in DOMAIN stack
  BY TopIs, SequenceFacts DEF Placed, Path
<1>2. /\ Len(stack') = Len(stack) /\ stack'[Len(stack)] = f
      /\ \A k \in 1..Len(stack) : k # Len(stack) => stack'[k] = stack[k]
  BY <1>1, SetFacts DEF Replaced
<1>3. Enclosing' = Enclosing
  <2>1. \A k \in 1..Len(stack) - 1 : stack'[k] = stack[k] BY <1>1, <1>2
  <2>2. \A k \in 1..Len(stack) - 1 : Standing(stack[k])' = Standing(stack[k]) BY <2>1 DEF Standing, N
  <2> QED BY <1>2, <2>1, <2>2 DEF Enclosing, ActionsOn
<1>4. mode' \notin AnActionOn => InProgress' = Enclosing BY <1>3 DEF InProgress
<1>5. Running' BY <1>2 DEF Running, N
<1>6. \A k \in 1..Len(stack) - 1 : stack'[k] = stack[k] BY <1>1, <1>2
<1> QED BY <1>2, <1>4, <1>5, <1>6

LEMMA Leaves ==
  ASSUME Placed, Running, stack # <<>>, ~AtRoot, UNCHANGED play, mode' = "back", stack' = Below
  PROVE  Running' /\ InProgress' = Enclosing /\ N(Child)' = N(Top.node)
<1>1. /\ Len(stack) \in Nat \ {0} /\ Len(stack') = Len(stack) - 1
      /\ stack' # <<>> /\ Inside(play, stack'[Len(stack')], stack[Len(stack)])
      /\ \A k \in 1..Len(stack') : stack'[k] = stack[k]
  BY TopIs, PoppedPath DEF Placed, Below, AtRoot
<1>2. InProgress' = Enclosing
  <2>1. \A k \in 1..Len(stack) - 1 : Standing(stack[k])' = Standing(stack[k]) BY <1>1 DEF Standing, N
  <2> QED BY <1>1, <2>1 DEF InProgress, AnActionOn, Enclosing, ActionsOn
<1>3. Running'
  <2>1. \A k \in 1..Len(stack') : k \in 1..Len(stack) BY <1>1
  <2> QED BY <1>1, <2>1 DEF Running, N
<1>4. N(Child)' = N(Top.node) BY <1>1 DEF Inside, N, Child, Body, Top
<1> QED BY <1>2, <1>3, <1>4

\* The end of an iteration, and of the loop.
LEMMA IterateTally ==
  ASSUME TypeInv, TallyInv, mode \in {"next", "back"}, N(Top.node).kind = "loop", Iterate,
         UNCHANGED <<session, play, wait>>
  PROVE  Running' /\ LoopDone' /\ InProgress' = Enclosing /\ mode' \in {"next", "back"}
<1> DEFINE merged == Merged(Top, ctx)
           i == Top.iter + 1
<1>1. Placed /\ stack # <<>> /\ ~AtRoot /\ Len(stack) \in Nat \ {0} /\ play \in Books /\ Top.node \in DOMAIN play.node
  <2>1. Placed /\ stack # <<>> /\ play \in Books BY DEF TypeInv, Placed, InABook
  <2> QED BY <2>1, TopIs
<1>2. Top.iter \in Nat /\ N(Top.node).times \in Nat /\ Top.iter < N(Top.node).times
  <2>1. Len(stack) \in 1..Len(stack) BY <1>1
  <2>2. Top.iter < N(Top.node).times BY <2>1 DEF TallyInv, Running, Top
  <2> QED BY <1>1, <2>2, TopValues, BookFacts DEF N
<1> HIDE DEF merged, i
<1>4. CASE i < N(Top.node).times
  <2>1. /\ mode' = "next"
        /\ stack' = [stack EXCEPT ![Len(stack)] = [@ EXCEPT !.pos = 1, !.iter = i, !.saved = merged]]
    BY <1>4 DEF Iterate, merged, i
  <2> DEFINE f == Again(Top, i, merged)
  <2>2. stack' = Replaced(stack, f) BY <2>1 DEF Replaced, Top, Again
  <2>3. f.node = Top.node /\ f.iter = i
    <3>1. FrameOK(play, Top) BY <1>1, TopIs
    <3> QED BY <3>1 DEF FrameOK, Again
  <2> HIDE DEF f
  <2>4. Running' /\ InProgress' = Enclosing BY <1>1, <1>4, <2>1, <2>2, <2>3, Moves DEF TallyInv, AnActionOn
  <2> QED BY <2>1, <2>4 DEF LoopDone
<1>5. CASE ~(i < N(Top.node).times)
  <2>1. mode' = "back" /\ ret' = [Passes EXCEPT !.done = {i}] /\ stack' = Below
    BY <1>5 DEF Iterate, i, Returns
  <2>2. ret'.done = {N(Top.node).times}
    <3>1. i = N(Top.node).times BY <1>2, <1>5 DEF i
    <3> QED BY <2>1, <3>1 DEF Passes
  <2>3. Running' /\ InProgress' = Enclosing /\ N(Child)' = N(Top.node) BY <1>1, <2>1, Leaves DEF TallyInv
  <2> QED BY <2>1, <2>2, <2>3 DEF LoopDone
<1> QED BY <1>4, <1>5

\* A container reports something else than the end of a loop.
LEMMA ReturnTally ==
  ASSUME TypeInv, TallyInv, mode \in InABook, ~AtRoot, NEW r, Returns(r), UNCHANGED play,
         ~r.ok \/ N(Top.node).kind # "loop"
  PROVE  Running' /\ LoopDone' /\ InProgress' = Enclosing /\ mode' = "back"
<1>1. mode' = "back" /\ ret' = r /\ stack' = Below BY DEF Returns
<1>2. Placed /\ stack # <<>> BY DEF TypeInv, Placed
<1>3. Running' /\ InProgress' = Enclosing /\ N(Child)' = N(Top.node) BY <1>1, <1>2, Leaves DEF TallyInv
<1> QED BY <1>1, <1>3 DEF LoopDone

\* A step that adds a row.
LEMMA TallyTold ==
  ASSUME TallyInv, NEW e, events' = Append(events, e), e.ok \in BOOLEAN, Iterated(e), Running', LoopDone',
         mode' \in {"idle", "raised"} => InProgress' = <<>>,
         OneStart(events') /\ Told(events, InProgress) => Told(events', InProgress')
  PROVE  TallyInv'
<1>1. /\ Sequence(events') /\ events'[Len(events')] = e
      /\ DOMAIN events' = DOMAIN events \cup {Len(events')} /\ \A i \in DOMAIN events : events'[i] = events[i]
  BY AllOf DEF TallyInv
<1>2. \A i \in DOMAIN events' : events'[i].ok \in BOOLEAN /\ Iterated(events'[i])
  BY <1>1 DEF TallyInv
<1>3. Apart' <=> OneStart(events') BY DEF Apart, OneStart
<1>4. Apart' => Apart BY <1>1 DEF Apart
<1> QED BY <1>1, <1>2, <1>3, <1>4 DEF TallyInv, Iterated

\* At the top level no action is around another one.
LEMMA NothingAround ==
  ASSUME AtRoot
  PROVE  Enclosing = <<>>
<1>1. Enclosing = ActionsOn(0) BY DEF AtRoot, Enclosing
<1> QED BY <1>1, NoActions

LEMMA NothingLeftOver ==
  ASSUME stack' = <<>>, mode' = "idle"
  PROVE  Running' /\ LoopDone' /\ InProgress' = <<>>
<1>1. Len(stack') = 0 BY EmptyFacts
<1>2. Len(stack') - 1 = -1 BY <1>1
<1>3. Running' BY <1>1 DEF Running
<1>4. InProgress' = <<>> BY <1>2 DEF InProgress, AnActionOn, Enclosing, ActionsOn
<1> QED BY <1>3, <1>4 DEF LoopDone

LEMMA TallyBegin ==
  ASSUME TypeInv, TallyInv, Begin
  PROVE  TallyInv'
<1>1. session \in Seq(Books) /\ session # <<>> BY DEF Begin, TypeInv, Placed
<1>2. play' \in Books BY <1>1 DEF Begin
<1>3. /\ mode \in {"idle", "raised"} /\ stack' = <<Frame(Root)>> /\ mode' = "next" /\ UNCHANGED events
  BY DEF Begin, trace
<1>4. Len(stack') = 1 /\ stack'[1].node = Root BY <1>3 DEF Frame
<1>5. Running'
  <2>1. N(stack[1].node)'.kind = "playbook" BY <1>2, <1>4, BookFacts DEF N
  <2> QED BY <1>4, <2>1 DEF Running
<1>6. InProgress' = <<>>
  <2>1. Len(stack') - 1 = 0 BY <1>4
  <2> QED BY <1>3, <2>1 DEF InProgress, AnActionOn, Enclosing, ActionsOn
<1>7. InProgress = <<>> BY <1>3 DEF TallyInv
<1> QED BY <1>3, <1>5, <1>6, <1>7, TallyQuiet DEF LoopDone

\* An action is dispatched, goes on, or is over.
LEMMA TallyGoes ==
  ASSUME TypeInv, TallyInv, mode \in {"run", "go"}, mode' \in {"go", "back", "cancelled"},
         UNCHANGED <<play, stack, events>>,
         mode' = "back" => ~ret'.ok \/ N(Child).kind # "loop" \/ ret'.done = {N(Child).times}
  PROVE  TallyInv'
<1>1. Running' /\ UNCHANGED InProgress BY KeepsFrames DEF TypeInv, TallyInv, AnActionOn
<1>2. LoopDone' BY DEF LoopDone, N, Child, Body, Top
<1> QED BY <1>1, <1>2, TallyQuiet

LEMMA TallyLeaf ==
  ASSUME TypeInv, TallyInv, Dispatch \/ Leaf \/ Cancel
  PROVE  TallyInv'
<1>1. CASE Dispatch
  <2>1. /\ mode = "run" /\ mode' \in {"go", "back"} /\ UNCHANGED <<play, stack, events>>
        /\ mode' = "back" => ret'.ok = FALSE
    BY <1>1, Verdicts DEF Dispatch, trace
  <2> QED BY <2>1, TallyGoes
<1>2. CASE Leaf
  <2>1. mode = "go" /\ N(Child).kind # "loop"
    BY <1>2 DEF Leaf, Simple, Captured, SaveVariable, Click, VmTest, HostTest, Signal, WaitBegins,
         WaitGoesOn, WaitEnds, Going
  <2>2. mode' \in {"go", "back"} /\ UNCHANGED <<play, stack, events>>
    BY <1>2 DEF Leaf, Simple, Captured, SaveVariable, Click, VmTest, HostTest, Signal, WaitBegins,
         WaitGoesOn, WaitEnds, Going, Ends, Left, place, trace
  <2> QED BY <2>1, <2>2, TallyGoes
<1>3. CASE Cancel BY <1>3, TallyGoes DEF Cancel, trace
<1> QED BY <1>1, <1>2, <1>3

LEMMA TallyEnter ==
  ASSUME TypeInv, TallyInv, EnterBlock \/ EnterLoop
  PROVE  TallyInv'
<1>1. Placed /\ stack # <<>> /\ mode = "go" /\ UNCHANGED <<play, events>> /\ Child \in DOMAIN play.node
  <2>1. mode = "go" /\ UNCHANGED <<play, events>> BY DEF EnterBlock, EnterLoop, Going, trace
  <2>2. Placed /\ stack # <<>> /\ Top.pos \in DOMAIN Body BY <2>1 DEF TypeInv, Placed, InABook, AtAnAction
  <2> QED BY <2>1, <2>2, TopIs
<1>2. ASSUME NEW f, stack' = Append(stack, f), mode' = "next", N(f.node).kind = "loop" => f.iter < N(f.node).times
      PROVE  TallyInv'
  <2>1. Running' /\ UNCHANGED InProgress BY <1>1, <1>2, Enters DEF TallyInv
  <2> QED BY <1>1, <1>2, <2>1, TallyQuiet DEF LoopDone
<1>3. CASE EnterBlock
  <2>1. CASE mode' = "next" /\ stack' = Append(stack, Frame(Child))
    <3>1. Frame(Child).node = Child /\ N(Child).kind = "block" BY <1>3 DEF Frame, EnterBlock, Going
    <3> QED BY <1>2, <2>1, <3>1
  <2>2. CASE mode' = "back" /\ UNCHANGED stack
    BY <1>1, <1>3, <2>2, TallyGoes DEF EnterBlock, Going
  <2> QED BY <1>3, <2>1, <2>2 DEF EnterBlock
<1>4. CASE EnterLoop
  <2>1. CASE N(Child).times = 0
    <3>1. mode' = "back" /\ UNCHANGED stack /\ ret'.done = {N(Child).times}
      BY <1>4, <2>1 DEF EnterLoop, Passes
    <3> QED BY <1>1, <3>1, TallyGoes
  <2>2. CASE N(Child).times # 0
    <3> DEFINE f == [Frame(Child) EXCEPT !.saved = ctx]
    <3>1. mode' = "next" /\ stack' = Append(stack, f) BY <1>4, <2>2 DEF EnterLoop
    <3>2. f.node = Child /\ f.iter = 0 BY DEF Frame
    <3>3. N(Child).times \in Nat \ {0} BY <1>1, <2>2, BookFacts DEF Placed, N
    <3> HIDE DEF f
    <3> QED BY <1>2, <3>1, <3>2, <3>3
  <2> QED BY <2>1, <2>2
<1> QED BY <1>3, <1>4

\* The end of a container that is not announced yet: a block, an iteration, a loop that breaks.
LEMMA TallyLeave ==
  ASSUME TypeInv, TallyInv, LeaveBlock \/ NextIteration \/ LoopBreaks
  PROVE  TallyInv'
<1>1. mode \in {"next", "broken"} /\ UNCHANGED <<session, play, events, wait>>
  BY DEF LeaveBlock, NextIteration, LoopBreaks, trace
<1>2. InProgress = Enclosing /\ mode \in InABook BY <1>1 DEF InProgress, AnActionOn, InABook
<1>3. ~AtRoot
  <2>1. Placed /\ stack # <<>> BY <1>2 DEF TypeInv, Placed
  <2>2. N(Top.node).kind \in {"block", "loop"} BY DEF TypeInv, Placed, LeaveBlock, NextIteration, LoopBreaks
  <2> QED BY <2>1, <2>2, TopIs
<1>4. Running' /\ LoopDone' /\ InProgress' = Enclosing /\ mode' \in {"next", "back"}
  <2>1. CASE LeaveBlock
    <3>1. Returns(Passes) /\ N(Top.node).kind # "loop" BY <2>1 DEF LeaveBlock
    <3> QED BY <1>1, <1>2, <1>3, <3>1, ReturnTally
  <2>2. CASE NextIteration BY <1>1, <2>2, IterateTally DEF NextIteration
  <2>3. CASE LoopBreaks
    <3>1. \E r : Returns(r) /\ ~r.ok BY <2>3, Verdicts DEF LoopBreaks, GiveUp
    <3> QED BY <1>1, <1>2, <1>3, <3>1, ReturnTally
  <2> QED BY <2>1, <2>2, <2>3
<1> QED BY <1>1, <1>2, <1>4, TallyQuiet

\* On along the body: actions that are passed over, and the end of the playbook.
LEMMA TallyPass ==
  ASSUME TypeInv, TallyInv, Pass \/ End
  PROVE  TallyInv'
<1>1. mode = "next" /\ AtRoot /\ UNCHANGED <<play, events>> BY DEF Pass, End, trace
<1>2. Placed /\ stack # <<>> BY <1>1 DEF TypeInv, Placed, InABook
<1>3. InProgress = Enclosing BY <1>1 DEF InProgress, AnActionOn
<1>4. CASE Pass
  <2> DEFINE f == [Top EXCEPT !.pos = Top.pos + 1]
  <2>1. Top.pos + 1 \in 1..Len(Body) + 1 /\ mode' = "next" /\ stack' = Moved(Top.pos + 1)
    <3>1. Top.pos \in 1..Len(Body) + 1 /\ Len(Body) \in Nat BY <1>2, TopValues, TopIs
    <3> QED BY <1>1, <1>4, <3>1 DEF Pass
  <2>2. stack' = Replaced(stack, f) /\ f.node = Top.node BY <1>2, <2>1, FrameMoved
  <2>3. N(Top.node).kind # "loop" BY <1>1, <1>2, TopIs
  <2> HIDE DEF f
  <2>4. Running' /\ InProgress' = Enclosing BY <1>1, <1>2, <2>1, <2>2, <2>3, Moves DEF TallyInv, AnActionOn
  <2> QED BY <1>1, <1>3, <2>1, <2>4, TallyQuiet DEF LoopDone
<1>5. CASE End
  <2>1. stack' = <<>> /\ mode' = "idle" BY <1>5 DEF End, Over
  <2> QED BY <1>1, <1>3, <2>1, NothingAround, NothingLeftOver, TallyQuiet
<1> QED BY <1>4, <1>5

LEMMA TallyAnnounce ==
  ASSUME TypeInv, TallyInv, Announce
  PROVE  TallyInv'
<1>1. mode = "next" /\ UNCHANGED play /\ mode' \in {"run", "raised", "broken"} BY DEF Announce
<1>2. Placed /\ stack # <<>> BY <1>1 DEF TypeInv, Placed, InABook
<1>3. InProgress = Enclosing BY <1>1 DEF InProgress, AnActionOn
<1> DEFINE id == ActionId(now')
           f == [Top EXCEPT !.id = id]
<1>4. stack' = [stack EXCEPT ![Len(stack)].id = id] BY DEF Announce
<1> HIDE DEF id
<1>5. stack' = Replaced(stack, f) /\ f.node = Top.node /\ f.pos = Top.pos /\ f.iter = Top.iter
  BY <1>2, <1>4, FrameNamed
<1>6. f.id = id
  <2>1. FrameOK(play, Top) BY <1>2, TopIs
  <2> QED BY <2>1 DEF FrameOK
<1> HIDE DEF f
<1>7. Len(stack) \in Nat \ {0} BY <1>2, TopIs
<1>8. N(f.node).kind = "loop" => f.iter < N(f.node).times
  <2>1. Len(stack) \in 1..Len(stack) BY <1>7
  <2> QED BY <1>5, <2>1 DEF TallyInv, Running, Top
<1>9. /\ Running' /\ (mode' \notin AnActionOn => InProgress' = Enclosing)
      /\ Len(stack') = Len(stack) /\ stack'[Len(stack)] = f
      /\ \A k \in 1..Len(stack) - 1 : stack'[k] = stack[k]
  BY <1>1, <1>2, <1>5, <1>8, Moves DEF TallyInv
<1>10. LoopDone' BY <1>1 DEF LoopDone
<1>11. CASE mode' # "run"
  <2>1. UNCHANGED events /\ (mode' = "raised" => AtRoot) BY <1>11 DEF Announce
  <2>2. InProgress' = Enclosing BY <1>1, <1>9, <1>11 DEF AnActionOn
  <2> QED BY <1>1, <1>3, <1>9, <1>10, <2>1, <2>2, NothingAround, TallyQuiet
<1>12. CASE mode' = "run"
  <2> DEFINE e == Event(Child, id, FALSE, Passes)
             n == Len(stack)
  <2>1. events' = Append(events, e) BY <1>12 DEF Announce, id
  <2>2. /\ e.ok = TRUE /\ ~e.complete /\ e.id = id /\ e.kind = N(Child).kind /\ e.planned = N(Child).times
    BY DEF Event, Passes
  <2> HIDE DEF e
  <2>8. Iterated(e)
    <3>1. Top.pos \in DOMAIN Body
      <4>1. Top.pos \in 1..Len(Body) + 1 /\ DOMAIN Body = 1..Len(Body) /\ Len(Body) \in Nat
        BY <1>2, TopValues, TopIs
      <4> QED BY <4>1 DEF Announce
    <3>2. Child \in DOMAIN play.node /\ play \in Books BY <1>2, <3>1, TopIs DEF Placed
    <3>3. N(Child).times \in Nat BY <3>2, BookFacts DEF N
    <3> QED BY <2>2, <3>3 DEF Iterated
  <2>3. InProgress' = ActionsOn(n)' BY <1>9, <1>12 DEF InProgress, AnActionOn
  <2>4. DOMAIN InProgress' = DOMAIN InProgress \cup {n} /\ n \notin DOMAIN InProgress
    <3>1. DOMAIN InProgress = 1..n - 1 BY <1>3 DEF Enclosing, ActionsOn
    <3>2. DOMAIN InProgress' = 1..n BY <1>9, <2>3 DEF ActionsOn
    <3> QED BY <1>7, <3>1, <3>2
  <2>5. \A k \in DOMAIN InProgress : InProgress'[k] = InProgress[k]
    <3>1. DOMAIN InProgress = 1..n - 1 BY <1>3 DEF Enclosing, ActionsOn
    <3>2. \A k \in 1..n - 1 : k \in 1..n BY <1>7
    <3>3. \A k \in 1..n - 1 : Standing(stack[k])' = Standing(stack[k]) BY <1>1, <1>9 DEF Standing, N
    <3> QED BY <1>3, <1>9, <2>3, <3>1, <3>2, <3>3 DEF Enclosing, ActionsOn
  <2>6. Same(e, InProgress'[n])
    <3>1. Standing(stack[n])' = N(Child) BY <1>1, <1>5, <1>9 DEF Standing, N, Child, Body
    <3>2. n \in 1..n BY <1>7
    <3>3. InProgress'[n] = [id |-> f.id, kind |-> N(Child).kind, planned |-> N(Child).times]
      BY <1>9, <2>3, <3>1, <3>2 DEF ActionsOn
    <3> QED BY <1>6, <2>2, <3>3 DEF Same
  <2>7. OneStart(events') /\ Told(events, InProgress) => Told(events', InProgress')
    <3>1. ASSUME NEW open, NEW still, NEW m, Told(events, open), OneStart(Append(events, e)),
                 DOMAIN still = DOMAIN open \cup {m}, m \notin DOMAIN open,
                 \A k \in DOMAIN open : still[k] = open[k], Same(e, still[m])
          PROVE  Told(Append(events, e), still)
      <4>1. Sequence(events) /\ ~e.complete BY <2>2 DEF TallyInv
      <4> QED BY <3>1, <4>1, ToldBegin
    <3> QED BY <2>1, <2>4, <2>5, <2>6, <3>1
  <2> QED BY <1>9, <1>10, <1>12, <2>1, <2>2, <2>7, <2>8, TallyTold
<1> QED BY <1>11, <1>12

LEMMA TallyBack ==
  ASSUME TypeInv, TallyInv, Back \/ TopBack
  PROVE  TallyInv'
<1> DEFINE e == Event(Child, Top.id, TRUE, ret)
           n == Len(stack)
<1>1. mode = "back" /\ UNCHANGED <<session, play, wait>> /\ events' = Append(events, e) BY DEF Back, TopBack
<1>2. Placed /\ stack # <<>> /\ Top.pos \in DOMAIN Body BY <1>1 DEF TypeInv, Placed, InABook, AtAnAction
<1>3. n \in Nat \ {0} BY <1>2, TopIs
<1>4. /\ e.ok = ret.ok /\ e.complete = TRUE /\ e.id = Top.id /\ e.kind = N(Child).kind
      /\ e.planned = N(Child).times /\ e.done = ret.done
  BY DEF Event
<1> HIDE DEF e
<1>5. Iterated(e) /\ e.ok \in BOOLEAN
  <2>1. Child \in DOMAIN play.node /\ play \in Books BY <1>2, TopIs DEF Placed
  <2>2. N(Child).times \in Nat BY <2>1, BookFacts DEF N
  <2> QED BY <1>1, <1>4, <2>2 DEF Iterated, TallyInv, LoopDone, TypeInv, Valued
<1>6. InProgress = ActionsOn(n) BY <1>1 DEF InProgress, AnActionOn
<1>7. Told(events, InProgress) => Told(events', Enclosing)
  <2>1. DOMAIN InProgress = 1..n /\ DOMAIN Enclosing = 1..n - 1 BY <1>6 DEF Enclosing, ActionsOn
  <2>2. n \in DOMAIN InProgress /\ DOMAIN Enclosing = DOMAIN InProgress \ {n} BY <1>3, <2>1
  <2>3. \A k \in DOMAIN Enclosing : Enclosing[k] = InProgress[k] BY <1>6, <2>1, <2>2 DEF Enclosing, ActionsOn
  <2>4. Same(e, InProgress[n])
    <3>1. Standing(stack[n]) = N(Child) BY DEF Standing, Child, Body, Top
    <3> QED BY <1>4, <1>6, <2>1, <2>2, <3>1 DEF Same, ActionsOn, Top
  <2> HIDE DEF n
  <2> QED BY <1>1, <1>4, <2>2, <2>3, <2>4, ToldEnd DEF TallyInv
<1>8. ASSUME stack' = Moved(Top.pos + 1), mode' = "next" PROVE Running' /\ LoopDone' /\ InProgress' = Enclosing
  <2> DEFINE f == [Top EXCEPT !.pos = Top.pos + 1]
  <2>1. Top.pos + 1 \in 1..Len(Body) + 1
    <3>1. DOMAIN Body = 1..Len(Body) /\ Len(Body) \in Nat BY <1>2, TopIs
    <3> QED BY <1>2, <3>1
  <2>2. stack' = Replaced(stack, f) /\ f.node = Top.node /\ f.iter = Top.iter BY <1>2, <1>8, <2>1, FrameMoved
  <2> HIDE DEF f
  <2>3. N(f.node).kind = "loop" => f.iter < N(f.node).times
    <3>1. n \in 1..n BY <1>3
    <3> QED BY <2>2, <3>1 DEF TallyInv, Running, Top
  <2>4. Running' /\ InProgress' = Enclosing BY <1>1, <1>2, <1>8, <2>2, <2>3, Moves DEF TallyInv, AnActionOn
  <2> QED BY <1>8, <2>4 DEF LoopDone
<1>9. Running' /\ LoopDone' /\ InProgress' = Enclosing /\ (mode' \in {"idle", "raised"} => Enclosing = <<>>)
  <2>1. CASE Back
    <3>1. ~AtRoot /\ mode \in InABook BY <1>1, <2>1 DEF Back, InABook
    <3>2. CASE N(Top.node).kind = "loop" /\ Iterate
      BY <1>1, <3>2, IterateTally
    <3>3. CASE \E r : Returns(r) /\ (~r.ok \/ N(Top.node).kind # "loop")
      BY <1>1, <3>1, <3>3, ReturnTally
    <3>4. CASE stack' = Moved(Top.pos + 1) /\ mode' = "next" BY <1>8, <3>4
    <3>5. CASE ret.ok /\ ret.skip
      BY <2>1, <3>2, <3>3, <3>5 DEF Back
    <3>6. CASE ~ret.ok
      <4>1. CASE N(Top.node).kind = "loop"
        <5>1. \E r : Returns(r) /\ ~r.ok BY <2>1, <3>6, <4>1, Verdicts DEF Back, GiveUp
        <5> QED BY <3>3, <5>1
      <4>2. CASE N(Top.node).kind # "loop" BY <2>1, <3>3, <3>6, <4>2 DEF Back
      <4> QED BY <4>1, <4>2
    <3>7. CASE ret.ok /\ ~ret.skip BY <2>1, <3>4, <3>7 DEF Back
    <3> QED BY <3>5, <3>6, <3>7
  <2>2. CASE TopBack
    <3>1. AtRoot BY <2>2 DEF TopBack
    <3>2. CASE stack' = <<>> /\ mode' = "idle" BY <3>1, <3>2, NothingAround, NothingLeftOver
    <3>3. CASE stack' = Moved(Top.pos + 1) /\ mode' = "next" BY <1>8, <3>3
    <3> QED BY <2>2, <3>2, <3>3 DEF TopBack, Over
  <2> QED BY <2>1, <2>2
<1> QED BY <1>1, <1>5, <1>7, <1>9, TallyTold

LEMMA TallyStep ==
  ASSUME TypeInv, TallyInv, [Next]_vars
  PROVE  TallyInv'
<1>1. CASE UNCHANGED vars
  <2>1. UNCHANGED <<play, stack, mode, ret, events>> BY <1>1 DEF vars, place, trace
  <2>2. UNCHANGED <<InProgress, Running, LoopDone>>
    BY <2>1 DEF InProgress, Enclosing, ActionsOn, Standing, Running, LoopDone, N, Child, Body, Top
  <2> QED BY <2>1, <2>2, TallyQuiet DEF TallyInv
<1>2. CASE Begin BY <1>2, TallyBegin
<1>3. CASE Dispatch \/ Leaf \/ Cancel BY <1>3, TallyLeaf
<1>4. CASE EnterBlock \/ EnterLoop BY <1>4, TallyEnter
<1>5. CASE LeaveBlock \/ NextIteration \/ LoopBreaks BY <1>5, TallyLeave
<1>6. CASE Pass \/ End BY <1>6, TallyPass
<1>7. CASE Announce BY <1>7, TallyAnnounce
<1>8. CASE Back \/ TopBack BY <1>8, TallyBack
<1> QED BY <1>1, <1>2, <1>3, <1>4, <1>5, <1>6, <1>7, <1>8 DEF Next, Step, Terminated

\* What there is at the end of a playbook: each action begun has its one end.
LEMMA Tallied ==
  ASSUME TallyInv, mode = "idle", Apart, NEW i \in DOMAIN events, NEW id, id = events[i].id
  PROVE  /\ id \in Units(events) /\ Kind(events, id) = events[i].kind
         /\ Completed(events, id) /\ StartRows(events, id) # {}
         /\ First(events, StartRows(events, id)).planned = events[i].planned
         /\ events[i].complete => First(events, CompleteRows(events, id)) = events[i]
<1>1. Sequence(events) /\ OneStart(events) BY DEF TallyInv, Apart, OneStart
<1>2. Told(events, <<>>) BY DEF TallyInv
<1>3. DOMAIN <<>> = {} BY EmptyFacts
<1> QED BY <1>1, <1>2, <1>3, UnitFacts

LEMMA TallyCounts ==
  ASSUME TallyInv, mode = "idle", Apart
  PROVE  LET tally == Tally(events)
         IN /\ tally.total_actions = Cardinality(Counted(Begun))
            /\ tally.failed_actions = Cardinality(Counted(Finished(FALSE)))
            /\ tally.successful_actions = Cardinality(Counted(Finished(TRUE)))
<1> DEFINE Failed == {id \in Actions(events) : Completed(events, id) /\ ~Passed(events, id)}
           Good == {id \in Actions(events) : Passed(events, id)}
<1>1. Sequence(events) /\ \A i \in DOMAIN events : events[i].ok \in BOOLEAN BY DEF TallyInv
<1>2. \A i, j \in Counted(Begun) : events[i].id = events[j].id => i = j BY DEF Counted, Begun, Apart
<1>3. \A i, j \in DOMAIN events :
        events[i].complete /\ events[j].complete /\ events[i].id = events[j].id => i = j
  BY DEF TallyInv, Told, Completes
<1>4. \A i \in DOMAIN events :
        events[i].id \in Actions(events) <=> events[i].kind \notin Utility \cup Container
  BY Tallied DEF Actions, IsAction
<1>5. \A id \in Actions(events) : \E i \in DOMAIN events : events[i].id = id BY DEF Actions, Units
<1>6. \A id \in Actions(events) : \E i \in Counted(Begun) : events[i].id = id
  <2> TAKE id \in Actions(events)
  <2>1. PICK k \in DOMAIN events : events[k].id = id BY <1>5
  <2>2. PICK i \in StartRows(events, id) : TRUE BY <2>1, Tallied
  <2>3. i \in DOMAIN events /\ ~events[i].complete /\ events[i].id = id BY <2>2 DEF StartRows, Rows
  <2> QED BY <1>4, <2>3 DEF Counted, Begun
<1>7. \A id \in Actions(events) : \E i \in DOMAIN events :
        events[i].complete /\ events[i].id = id /\ events[i].kind \notin Utility \cup Container
  <2> TAKE id \in Actions(events)
  <2>1. PICK k \in DOMAIN events : events[k].id = id BY <1>5
  <2>2. PICK i \in CompleteRows(events, id) : TRUE BY <2>1, Tallied DEF Completed
  <2>3. i \in DOMAIN events /\ events[i].complete /\ events[i].id = id BY <2>2 DEF CompleteRows, Rows
  <2> QED BY <1>4, <2>3
<1>8. \A i \in DOMAIN events : events[i].complete => (Passed(events, events[i].id) <=> events[i].ok)
  BY Tallied DEF Passed
<1>9. Cardinality(Actions(events)) = Cardinality(Counted(Begun))
  <2>1. Counted(Begun) \in SUBSET DOMAIN events BY DEF Counted, Begun
  <2>2. \A i \in Counted(Begun) : events[i].id \in Actions(events) BY <1>4 DEF Counted, Begun
  <2> QED BY <1>1, <1>2, <1>6, <2>1, <2>2, CountById
<1>10. Cardinality(Failed) = Cardinality(Counted(Finished(FALSE)))
  <2> DEFINE S == Counted(Finished(FALSE))
  <2>1. S \in SUBSET DOMAIN events /\ \A i \in S : events[i].complete /\ ~events[i].ok
    BY DEF Counted, Finished
  <2>2. \A i \in S : events[i].id \in Failed
    <3>1. \A i \in S : events[i].id \in Actions(events) BY <1>4, <2>1 DEF Counted
    <3> QED BY <1>8, <2>1, <3>1, Tallied
  <2>3. \A id \in Failed : \E i \in S : events[i].id = id BY <1>1, <1>7, <1>8 DEF Counted, Finished
  <2>4. \A i, j \in S : events[i].id = events[j].id => i = j BY <1>3, <2>1
  <2> HIDE DEF S, Failed
  <2>5. Cardinality(Failed) = Cardinality(S) BY <1>1, <2>1, <2>2, <2>3, <2>4, CountById
  <2> QED BY <2>5 DEF S
<1>11. Cardinality(Good) = Cardinality(Counted(Finished(TRUE)))
  <2> DEFINE S == Counted(Finished(TRUE))
  <2>1. S \in SUBSET DOMAIN events /\ \A i \in S : events[i].complete /\ events[i].ok
    BY DEF Counted, Finished
  <2>2. \A i \in S : events[i].id \in Good
    <3>1. \A i \in S : events[i].id \in Actions(events) BY <1>4, <2>1 DEF Counted
    <3> QED BY <1>8, <2>1, <3>1
  <2>3. \A id \in Good : \E i \in S : events[i].id = id BY <1>1, <1>7, <1>8 DEF Counted, Finished
  <2>4. \A i, j \in S : events[i].id = events[j].id => i = j BY <1>3, <2>1
  <2> HIDE DEF S, Good
  <2>5. Cardinality(Good) = Cardinality(S) BY <1>1, <2>1, <2>2, <2>3, <2>4, CountById
  <2> QED BY <2>5 DEF S
<1> QED BY <1>9, <1>10, <1>11 DEF Tally

LEMMA TallyPassed ==
  ASSUME TallyInv, mode = "idle", Apart, Unblemished
  PROVE  Tally(events).all_passed
<1>1. ASSUME NEW id \in Units(events) PROVE Passed(events, id) /\ (Kind(events, id) = "loop" => FullyIterated(events, id))
  <2>1. PICK k \in DOMAIN events : events[k].id = id BY DEF Units
  <2>2. PICK i \in CompleteRows(events, id) : TRUE BY <2>1, Tallied DEF Completed
  <2>3. i \in DOMAIN events /\ events[i].complete /\ id = events[i].id BY <2>2 DEF CompleteRows, Rows
  <2>4. First(events, CompleteRows(events, id)) = events[i] /\ Completed(events, id) /\ Kind(events, id) = events[i].kind
        /\ First(events, StartRows(events, id)).planned = events[i].planned
    BY <2>3, Tallied
  <2>5. events[i].ok /\ Iterated(events[i]) BY <2>3 DEF Unblemished, TallyInv
  <2>6. CASE Kind(events, id) = "loop"
    <3>1. events[i].planned \in Nat /\ events[i].done = {events[i].planned} BY <2>3, <2>4, <2>5, <2>6 DEF Iterated
    <3>2. events[i].planned >= events[i].planned BY <3>1
    <3> QED BY <2>4, <2>5, <3>1, <3>2 DEF Passed, FullyIterated
  <2> QED BY <2>4, <2>5, <2>6 DEF Passed
<1>2. Actions(events) \cup Tests(events) \subseteq Units(events) BY DEF Actions, Tests
<1> QED BY <1>1, <1>2 DEF Tally

LEMMA TallyInit == Init => TallyInv
<1> SUFFICES ASSUME Init PROVE TallyInv OBVIOUS
<1>1. events = <<>> /\ stack = <<>> /\ mode = "idle" BY DEF Init
<1>2. Sequence(events) /\ DOMAIN events = {} /\ Len(stack) = 0 /\ DOMAIN <<>> = {} BY <1>1, EmptyFacts
<1>3. InProgress = <<>>
  <2>1. Len(stack) - 1 = -1 BY <1>2
  <2> QED BY <1>1, <2>1 DEF InProgress, AnActionOn, Enclosing, ActionsOn
<1>4. Running /\ LoopDone BY <1>1, <1>2 DEF Running, LoopDone
<1>5. Told(events, <<>>) BY <1>2 DEF Told, Completes, Opened, Closed
<1> QED BY <1>2, <1>3, <1>4, <1>5 DEF TallyInv

\* If no two actions got the same id, the closing summary of a run counts every action that
\* was executed once, at whatever depth and in whatever iteration, and every failure and
\* success: each event of the end of an action pairs with the one of its beginning
\* (build_tally, which only has the events to go by).
THEOREM TallyIsExact == Spec => []TallyExact
<1>1. TypeInv /\ TallyInv /\ [Next]_vars => TallyInv' BY TallyStep
<1>2. TallyInv => TallyExact BY TallyCounts DEF TallyExact, Ended
<1> QED BY TypeInvariant, TallyInit, <1>1, <1>2, PTL DEF Spec

\* A playbook is a success exactly if nothing failed in it or before it, and then the
\* summary says that all passed, loops included, unless two actions got the same id
\* (execute_playbook's verdict against the summary of the events).
THEOREM ReportIsExact == Spec => []ReportExact
<1>1. Init => SuccessInv BY SuccessInit
<1>2. TypeInv /\ SuccessInv /\ [Next]_vars => SuccessInv' BY SuccessStep
<1>3. TypeInv /\ TallyInv /\ [Next]_vars => TallyInv' BY TallyStep
<1>4. SuccessInv /\ TallyInv => ReportExact
  BY TallyPassed DEF ReportExact, SuccessIsClean, SuccessInv, Ended, Unfailed
<1> QED BY TypeInvariant, TallyInit, <1>1, <1>2, <1>3, <1>4, PTL DEF Spec

=============================================================================
