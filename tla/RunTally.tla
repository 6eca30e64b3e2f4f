------------------------------ MODULE RunTally ------------------------------
(***************************************************************************)
(* What a run's closing summary counts (build_tally in run_tally.py): the  *)
(* units of work the persisted events tell of, a unit being the events     *)
(* that share an action id.  An event is a record                          *)
(*   [id, kind, complete, nested, ok, planned, done]                       *)
(* where planned is a loop's announced number of iterations and done holds *)
(* the number completed, if the loop reported one.                         *)
(***************************************************************************)
EXTENDS Naturals, FiniteSets, SequencesExt

Utility == {"pull", "pause"}
Container == {"block", "loop"}

\* The rows of a unit, and which of them begin and which complete it.
Rows(events, id) == {i \in DOMAIN events : events[i].id = id}
StartRows(events, id) == {i \in Rows(events, id) : ~events[i].complete}
CompleteRows(events, id) == {i \in Rows(events, id) : events[i].complete}
First(events, rows) == events[Min(rows)]

Units(events) == {events[i].id : i \in DOMAIN events}
Kind(events, id) == First(events, Rows(events, id)).kind
Completed(events, id) == CompleteRows(events, id) # {}
\* The first complete row speaks for the unit.
Passed(events, id) == Completed(events, id) /\ First(events, CompleteRows(events, id)).ok

\* Mutant: the whole body of a container counts with the container alone.
TopLevelOnly(events, id) ==
  Kind(events, id) \notin Utility \cup Container /\ ~First(events, Rows(events, id)).nested

IsAction(events, id) == Kind(events, id) \notin Utility \cup Container
Actions(events) == {id \in Units(events) : IsAction(events, id)}
Tests(events) == {id \in Units(events) : Kind(events, id) = "test"}

\* What a loop completed is told from what it planned only if it reported both.
\* Mutant: the last iteration of a loop does not count.
PastThePlan(events, id) ==
  Completed(events, id) /\ StartRows(events, id) # {} =>
    \A iterations \in First(events, CompleteRows(events, id)).done :
      iterations > First(events, StartRows(events, id)).planned

FullyIterated(events, id) ==
  Completed(events, id) /\ StartRows(events, id) # {} =>
    \A iterations \in First(events, CompleteRows(events, id)).done :
      iterations >= First(events, StartRows(events, id)).planned

Tally(events) ==
  LET passed(units) == Cardinality({id \in units : Passed(events, id)})
      failed(units) == Cardinality({id \in units : Completed(events, id) /\ ~Passed(events, id)})
      actions == Actions(events)
      tests == Tests(events)
  IN [total_actions |-> Cardinality(actions), successful_actions |-> passed(actions),
      failed_actions |-> failed(actions),
      total_tests |-> Cardinality(tests), failed_tests |-> failed(tests),
      all_passed |->
        /\ \A id \in actions \cup tests : Passed(events, id)
        /\ \A id \in Units(events) : Kind(events, id) = "loop" => FullyIterated(events, id)]
=============================================================================
