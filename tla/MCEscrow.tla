------------------------------ MODULE MCEscrow ------------------------------
(* Two accounts of which any can be admin, shipper or carrier, also of one  *)
(* shipment at once, and two shipments.  InitialBalance is 2 so that one    *)
(* shipper can fund both shipments and one shipment twice; the tokens in    *)
(* circulation bound every other number.                                    *)
EXTENDS Escrow

MCAmounts == -1..2
=============================================================================
