----------------------------- MODULE MCFunding ------------------------------
(* One shipment with price 1 and a shipper who could pay for it twice; two  *)
(* requests and two transactions, so that a retry can follow or race a      *)
(* submission whose outcome is in doubt.                                    *)
EXTENDS Funding, TLC

RequestSymmetry == Permutations(Requests)
Symmetry == RequestSymmetry \cup Permutations(Payers)
=============================================================================
