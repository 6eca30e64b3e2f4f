-------------------------------- MODULE EventLog --------------------------------
(***************************************************************************)
(* What the database writer promises to those who queue an operation with  *)
(* it: operations are executed one at a time, each once, in the order in   *)
(* which they were queued.                                                 *)
(***************************************************************************)
EXTENDS Sequences

CONSTANT Op

VARIABLES pending,   \* operations queued and not yet executed
          written    \* operations executed, in order

Init == pending = <<>> /\ written = <<>>

Queue(op) == pending' = Append(pending, op) /\ UNCHANGED written

Execute ==
  /\ pending # <<>>
  /\ written' = Append(written, Head(pending))
  /\ pending' = Tail(pending)

Next == Execute \/ \E op \in Op : Queue(op)

Spec == Init /\ [][Next]_<<pending, written>>
=============================================================================
