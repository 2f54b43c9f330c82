---------------------------- MODULE MCAutomation ----------------------------
(* Automation on small instances: producers, triggers and agents are model *)
(* values.                                                                 *)
EXTENDS Automation
=============================================================================
