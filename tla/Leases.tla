--------------------------------- MODULE Leases ---------------------------------
(***************************************************************************)
(* What the vm_instance table promises the runs of a host: a resource is   *)
(* granted to at most one holder, only its holder gives it back, and it is *)
(* taken away only from a holder that has gone.                            *)
(***************************************************************************)
CONSTANTS Holder, Resource, Nobody

VARIABLES lease,  \* who holds a resource
          doing   \* what a holder is doing: nothing here, waiting, or using its resource

vars == <<lease, doing>>

Init ==
  /\ lease = [r \in Resource |-> Nobody]
  /\ doing = [h \in Holder |-> "away"]

Becomes(h, from, to) == doing[h] = from /\ doing' = [doing EXCEPT ![h] = to]

Arrive(h) == Becomes(h, "away", "waiting") /\ UNCHANGED lease
Leave(h)  == Becomes(h, "waiting", "away") /\ UNCHANGED lease
Vanish(h) == Becomes(h, "using", "away")   /\ UNCHANGED lease

Grant(h, r) ==
  /\ Becomes(h, "waiting", "using")
  /\ lease[r] = Nobody
  /\ lease' = [lease EXCEPT ![r] = h]

Return(h, r) ==
  /\ Becomes(h, "using", "waiting")
  /\ lease[r] = h
  /\ lease' = [lease EXCEPT ![r] = Nobody]

Reclaim(h, r) ==
  /\ doing[h] = "away"
  /\ lease[r] = h
  /\ lease' = [lease EXCEPT ![r] = Nobody]
  /\ UNCHANGED doing

Next ==
  \/ \E h \in Holder : Arrive(h) \/ Leave(h) \/ Vanish(h)
  \/ \E h \in Holder, r \in Resource : Grant(h, r) \/ Return(h, r) \/ Reclaim(h, r)

Spec == Init /\ [][Next]_vars
=============================================================================
