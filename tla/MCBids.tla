------------------------------- MODULE MCBids -------------------------------
(* A shipper, an admin and the carriers of the configuration.  MCBids.cfg   *)
(* has one carrier, two handlers that overlap, one bid request and five     *)
(* requests in all, enough for a shipment that is completed, with or        *)
(* without a bid, while others overlap with it.  BidsOneByOne.cfg has three *)
(* carriers who bid and eight requests, one at a time.                      *)
EXTENDS ShipmentPage, TLC

CONSTANTS shipper, admin, MCCarriers

MCUsers == {shipper, admin} \cup MCCarriers
MCRole == [u \in MCUsers |-> IF u = shipper THEN "shipper"
                             ELSE IF u = admin THEN "admin" ELSE "carrier"]

Symmetry == Permutations(MCCarriers) \cup Permutations(Requests) \cup Permutations(BidRequests)
=============================================================================
