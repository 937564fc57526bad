---------------------------- MODULE MCSettlement -----------------------------
(* One shipment and two requests at a time; three transactions are enough   *)
(* for a deposit and two attempts to settle it.                             *)
EXTENDS Settlement, TLC

Symmetry == Permutations(Requests)
==============================================================================
