---------------------------- MODULE MCDeliveries ----------------------------
(* Two hooks, three posts each, two events; a store that keeps two. *)
EXTENDS Deliveries
=============================================================================
