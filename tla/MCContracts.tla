---------------------------- MODULE MCContracts -----------------------------
(* Three accounts: an admin, a shipper and a carrier that may trade places, *)
(* with an outsider to each shipment, rating or document.                   *)
EXTENDS Contracts, TLC

Symmetry == Permutations(Accounts)
=============================================================================
