--------------------------- MODULE MCEgressHistory ---------------------------
(***************************************************************************)
(* Small instances of EgressHistory, with the constants of                 *)
(* MCEgressReconciler.                                                     *)
(***************************************************************************)
EXTENDS MCEgressReconciler, EgressHistory
=============================================================================
