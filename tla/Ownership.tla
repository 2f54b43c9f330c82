----------------------------- MODULE Ownership -----------------------------
(***************************************************************************)
(* What the owner Lease promises the garbage collectors of a connection:   *)
(* the connection has one owner or none, and changes hands only through a  *)
(* time when it has none.                                                  *)
(***************************************************************************)
CONSTANT Incarnations

VARIABLE owners  \* the incarnations that may act as the owner now

Init == owners = {}

\* An incarnation becomes the owner of an unowned connection.
Acquire(h) == owners = {} /\ owners' = {h}

\* The owner lets go of the Lease, or lets it lapse.
Lapse == owners # {} /\ owners' = {}

Next == Lapse \/ \E h \in Incarnations : Acquire(h)

Spec == Init /\ [][Next]_owners
=============================================================================
