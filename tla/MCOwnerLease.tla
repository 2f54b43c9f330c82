---------------------------- MODULE MCOwnerLease ----------------------------
(* OwnerLease on a small instance: two incarnations with one Lease each.   *)
EXTENDS OwnerLease, TLC

CONSTANTS a, b, a1, b1

Own == a1 :> a @@ b1 :> b
=============================================================================
