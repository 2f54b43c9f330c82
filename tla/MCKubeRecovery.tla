--------------------------- MODULE MCKubeRecovery ---------------------------
(* KubeRecovery on a small instance.                                        *)
EXTENDS KubeRecovery
=============================================================================
