------------------------------ MODULE MCWatch ------------------------------
(* Watch on a small instance: writers, changers and Watches are model      *)
(* values.                                                                 *)
EXTENDS Watch
=============================================================================
