------------------------------ MODULE WaitUntil ------------------------------
(***************************************************************************)
(* A wait_until action (execute_wait_until in flow_control.py): checks of  *)
(* a condition on fresh screenshots until it holds or the time is up.  A   *)
(* capture or an evaluation that hangs is cut off by what is left of the   *)
(* time, and by no less than one unit.  Optionally a check is skipped      *)
(* while the screen changes too much or too little, at first (once) or     *)
(* throughout (continuous), and the screen is left alone for a while once  *)
(* it has settled.  Conditions are one level of all or any over exists and *)
(* not_exists; the initial delay is left out.                              *)
(***************************************************************************)
EXTENDS TargetCache, Integers, Sequences

CONSTANTS Lost   \* whether the CV server may stop answering

VARIABLES
  wait,    \* the wait_until in progress
  memo,    \* the cache of matches
  sighted  \* history: the target the latest attempt matched, and where

seeing == <<memo, sighted>>

NotWaiting == [step |-> "off"]
Unseen == [target |-> None, machine |-> None]

Longer(a, b) == IF a > b THEN a ELSE b
Shorter(a, b) == IF a < b THEN a ELSE b

\* Time is spent in units; Floor is a bound, time further past the deadline than
\* that is not told apart.
Floor == -12
Spent(left, took) == Longer(left - took, Floor)

\* Mutant: no call is cut off before its own limit of two minutes (20 units).
NeverCutOff == 20

\* A call gets what is left of the timeout, and 0.1 s (one unit) at least.
per_check_budget == Longer(wait.left, 1)
Expired(left) == left <= 0

Began(action) ==
  [step |-> "capture", action |-> action, left |-> action.timeout, before |-> FALSE,
   satisfied |-> FALSE, skip |-> FALSE, leaf |-> 0, holds |-> action.all]

\* Mutant: an early exit goes back to the loop without looking at the clock.
Unhurried(w) == wait' = [w EXCEPT !.step = "capture", !.skip = FALSE]

\* An exit of the loop body before the condition is evaluated.
NextCheck(w) ==
  wait' = [w EXCEPT !.step = IF Expired(w.left) THEN "timeout" ELSE "capture",
                    !.skip = FALSE]

\* get_current_screenshot_with_path; with nothing captured the check is over.
Capture ==
  /\ wait.step = "capture"
  /\ \E took \in 1..per_check_budget :
       LET w == [wait EXCEPT !.left = Spent(@, took)]
           pixels == /\ wait.action.skip # "never" /\ wait.before
                     /\ wait.action.skip = "continuous" \/ ~wait.satisfied
       IN \/ NextCheck(w)
          \/ wait' = [w EXCEPT !.step = IF pixels THEN "pixels" ELSE "evaluate",
                               !.before = TRUE]
  /\ UNCHANGED seeing

\* Compare with the previous screenshot; what cannot be compared is evaluated.
Pixels ==
  /\ wait.step = "pixels"
  /\ \/ wait' = [wait EXCEPT !.step = "evaluate", !.skip = TRUE]
     \/ wait' = [wait EXCEPT !.step = "evaluate"]
     \/ LET idle == (wait.action.skip = "continuous" \/ ~wait.satisfied) /\ wait.action.idle > 0
            w == [wait EXCEPT !.satisfied = TRUE]
        IN IF ~idle
           THEN wait' = [w EXCEPT !.step = "evaluate"]
           ELSE \E took \in 1..Longer(wait.left - wait.action.idle, 1) :
                  LET refreshed == [w EXCEPT !.left = Spent(@, wait.action.idle + took)]
                  IN NextCheck(refreshed) \/ wait' = [refreshed EXCEPT !.step = "evaluate"]
  /\ UNCHANGED seeing

-----------------------------------------------------------------------------
(* The condition.                                                          *)

\* What the CV server answers about a target: a failed call looks like an absent
\* target (resolve_target returns None) unless its exception gets through.
Sight == {"there", "gone"} \cup IF Lost THEN {"noanswer", "error"} ELSE {}
Holds(literal, sight) ==
  IF literal.exists THEN sight = "there" ELSE sight \in {"gone", "noanswer"}

\* Sleep for the check interval, or for what is left if that is less.
Slept(w) ==
  LET interval == IF w.skip THEN Longer(w.action.interval, 1) ELSE w.action.interval
  IN [w EXCEPT !.left = @ - Longer(0, Shorter(interval, @)), !.step = "capture", !.skip = FALSE,
               !.leaf = 0, !.holds = w.action.all]

NotMet(w) ==
  wait' = IF Expired(w.left) THEN [w EXCEPT !.step = "timeout"] ELSE Slept(w)

Skip ==
  /\ wait.step = "evaluate" /\ wait.skip
  /\ NotMet(wait)
  /\ UNCHANGED seeing

\* The conditions are evaluated in order and no further than needed.
Undecided ==
  /\ wait.step = "evaluate" /\ ~wait.skip
  /\ wait.leaf < Len(wait.action.of) /\ wait.holds = wait.action.all

\* _evaluate_wait_condition of the next condition, on the screenshot of this check:
\* a resolution attempt of its own.
EvaluateLeaf(machine) ==
  /\ Undecided
  /\ \E sight \in Sight :
       LET leaf == wait.action.of[wait.leaf + 1]
           begun == begin_resolution(memo)
           found == sight = "there"
       IN /\ wait' = [wait EXCEPT !.leaf = @ + 1, !.holds = Holds(leaf, sight)]
          /\ memo' = IF found /\ leaf.exists THEN cache_match(begun, leaf.target, machine) ELSE begun
          /\ sighted' = IF found THEN [target |-> leaf.target, machine |-> machine] ELSE Unseen

\* An evaluation cut off in one of its conditions leaves the whole unmet, a missing
\* image file ends the wait.
CutOff ==
  /\ Undecided
  /\ memo' = begin_resolution(memo) /\ sighted' = Unseen
  /\ \/ NotMet([wait EXCEPT !.left = Spent(@, per_check_budget)])
     \/ \E took \in 0..per_check_budget :
          wait' = [wait EXCEPT !.left = Spent(@, took), !.step = "failed"]

\* The time the evaluation took is counted when it is over.
Evaluated ==
  /\ wait.step = "evaluate" /\ ~wait.skip /\ ~Undecided
  /\ \E took \in 0..per_check_budget :
       LET w == [wait EXCEPT !.left = Spent(@, took)]
       IN IF w.holds THEN wait' = [w EXCEPT !.step = "met"] ELSE NotMet(w)
  /\ UNCHANGED seeing

Checks(machine) ==
  Capture \/ Pixels \/ Skip \/ EvaluateLeaf(machine) \/ CutOff \/ Evaluated
WaitOver == wait.step \in {"met", "timeout", "failed"}
=============================================================================
