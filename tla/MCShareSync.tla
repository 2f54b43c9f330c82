---------------------------- MODULE MCShareSync ----------------------------
(* Model checking of ShareSync: the daemon host's copy and a spoke's. *)
EXTENDS ShareSync
CONSTANTS h, p
=============================================================================
