--------------------------- MODULE MCCapacityPool ---------------------------
(***************************************************************************)
(* Three leases of two owners: an operation with an input and an output    *)
(* buffer, and a competing one.  1024 bytes with a 50% reserve give a      *)
(* normal limit of 524: two allocations of 250 bytes fit below it, a third *)
(* and a fourth need the reserve, and one of 800 fits only a nearly empty  *)
(* pool, so that it waits while smaller ones still fit.                    *)
(***************************************************************************)
EXTENDS CapacityPool, TLC

CONSTANTS o1, o2, l1, l2, l3

MCOwners == {o1, o2}
MCLeases == {l1, l2, l3}
MCOwnerOf == l1 :> o1 @@ l2 :> o1 @@ l3 :> o2
MCDriverLeases == {l1}
MCSizes == {250, 800}

=============================================================================
