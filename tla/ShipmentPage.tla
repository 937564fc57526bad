---------------------------- MODULE ShipmentPage ----------------------------
(***************************************************************************)
(* The page of a shipment, frontend/app/(dashboard)/shipments/[id]/        *)
(* page.tsx, the carrier's dashboard and the page of the disputes: the     *)
(* actions they offer to a user, against what the handlers of Shipments    *)
(* accept.  The pages decide by the row and the user they have loaded;     *)
(* here that row is fresh.                                                 *)
(***************************************************************************)
EXTENDS Bids

(* Mutant: the buttons of the carrier are shown to the shipper as well. *)
OffersOnPageMixed(u) ==
    {a \in {"pickup", "deliver"} :
        /\ IsCarrier(u) \/ IsShipper(u)
        /\ shipment.status = IF a = "pickup" THEN "ACCEPTED" ELSE "IN_TRANSIT"}

(* Mutant: only the carrier has buttons. *)
OffersOnPageOneSided(u) ==
    {a \in {"accept", "pickup", "deliver"} :
        /\ IsCarrier(u) \/ a = "accept"
        /\ shipment.status = CASE a = "accept" -> "PENDING" [] a = "pickup" -> "ACCEPTED"
                               [] a = "deliver" -> "IN_TRANSIT"}

(* The buttons of the card "Actions". *)
OffersOnPage(u) ==
    {a \in {"accept", "pickup", "deliver", "confirm", "cancel", "dispute", "resolve"} :
        CASE a = "accept"  -> shipment.status = "PENDING" /\ ~IsShipper(u)
          [] a = "pickup"  -> shipment.status = "ACCEPTED" /\ IsCarrier(u)
          [] a = "deliver" -> shipment.status = "IN_TRANSIT" /\ IsCarrier(u)
          [] a = "confirm" -> shipment.status = "DELIVERED" /\ IsShipper(u)
          [] a = "cancel"  -> shipment.status \in {"PENDING", "ACCEPTED"} /\ IsParty(u)
          [] a = "dispute" -> /\ shipment.status \in {"IN_TRANSIT", "DELIVERED"}
                              /\ IsShipper(u) \/ IsCarrier(u)
          [] a = "resolve" -> shipment.status = "DISPUTED" /\ IsAdmin(u)}

(* The page of the disputes lists what is DISPUTED, to administrators. *)
OffersOnDisputes(u) ==
    {a \in {"resolve"} : IsAdmin(u) /\ shipment.status = "DISPUTED"}

(* The dashboard lists the shipments assigned to the carrier that are      *)
(* ACCEPTED, and drops one from the list when a button has done its work.  *)
Actionable(u) ==
    Role[u] = "carrier" /\ IsCarrier(u) /\ shipment.status = "ACCEPTED"

(* Every shipment of that list has both buttons. *)
OffersOnCarrierDashboard(u) == {a \in {"pickup", "deliver"} : Actionable(u)}

Offers(u) == OffersOnPage(u) \cup OffersOnDisputes(u) \cup OffersOnCarrierDashboard(u)

(* What the handler behind a button checks lets the request through now.   *)
Takes(u, a) ==
    CASE a = "accept"  -> MayAccept(u)
      [] a = "pickup"  -> MayMarkInTransit(u)
      [] a = "deliver" -> MayMarkDelivered(u)
      [] a = "confirm" -> MayConfirmDelivery(u)
      [] a = "cancel"  -> MayCancel(u)
      [] a = "dispute" -> MayRaiseDispute(u)
      [] a = "resolve" -> \E to \in {"COMPLETED", "CANCELLED"} : MayResolveDispute(u, to)

-----------------------------------------------------------------------------
(* Four offers are made in vain: anyone but the shipper is offered the     *)
(* job, whom only carriers and administrators may take; the shipper a      *)
(* dispute of goods in transit, and the carrier one of goods delivered,    *)
(* which the transition table leaves to the other of them; and the         *)
(* dashboard has a button to deliver what has not been picked up.          *)
InVain(u, a) ==
    \/ a = "accept" /\ Role[u] = "shipper"
    \/ a = "dispute" /\ shipment.status = "IN_TRANSIT" /\ Role[u] = "shipper"
    \/ a = "dispute" /\ shipment.status = "DELIVERED" /\ Role[u] = "carrier"
    \/ a = "deliver" /\ shipment.status = "ACCEPTED"

(* Every other button of a page that is up to date is answered with        *)
(* success, whatever way the shipment came to its status: also with        *)
(* requests that overlap, fail half way, or mix up the columns of the row. *)
OffersHold == \A u \in Users : \A a \in Offers(u) : Takes(u, a) <=> ~InVain(u, a)

(* One request at a time, as long as the shipment is not completed or      *)
(* cancelled, the pages offer somebody an action that moves it on.         *)
NobodyStuck ==
    shipment.status \notin {"NONE", "COMPLETED", "CANCELLED"} =>
        \E u \in Users : \E a \in Offers(u) : Takes(u, a)
=============================================================================
