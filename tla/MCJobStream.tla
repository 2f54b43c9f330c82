---------------------------- MODULE MCJobStream ----------------------------
(* JobStream on small instances: model values for the watchers.            *)
EXTENDS JobStream
=============================================================================
