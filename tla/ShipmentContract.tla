-------------------------- MODULE ShipmentContract --------------------------
(***************************************************************************)
(* The Soroban shipment contract, contracts/shipment/src/lib.rs.  Each     *)
(* entry point is one action, since an invocation is atomic; the account   *)
(* that authorises it is a parameter, and an invocation that returns an    *)
(* error changes nothing and is left out.                                  *)
(*                                                                         *)
(* MaxShipments bounds the shipments posted in a behaviour.                *)
(***************************************************************************)
EXTENDS Naturals, Sequences

CONSTANTS Accounts, NoAdmin, NoCarrier, MaxShipments

ASSUME NobodyAssumption == NoCarrier \notin Accounts /\ NoAdmin \notin Accounts
ASSUME MaxAssumption == MaxShipments \in Nat

VARIABLES
    admin,
    counter,      \* DataKey::Counter
    shipments,    \* DataKey::Shipment(id): [shipper, carrier, status], or NotFound
    shipperList,  \* DataKey::ShipperList(account): sequence of ids
    carrierList,  \* DataKey::CarrierList(account)
    calls         \* create_shipment calls so far, for the bound only

vars == <<admin, counter, shipments, shipperList, carrierList, calls>>

Ids == 1..MaxShipments

Statuses == {"Created", "Accepted", "InTransit", "Delivered", "Completed",
             "Disputed", "Cancelled"}
Shipments == [shipper : Accounts, carrier : Accounts \cup {NoCarrier}, status : Statuses]
NotFound == [status |-> "NotFound"]

Init ==
    /\ admin = NoAdmin
    /\ counter = 0
    /\ shipments = [id \in Ids |-> NotFound]
    /\ shipperList = [a \in Accounts |-> <<>>]
    /\ carrierList = [a \in Accounts |-> <<>>]
    /\ calls = 0

(* initialize: anybody's call, the first one counts. *)
Initialize(a) ==
    /\ admin = NoAdmin
    /\ admin' = a
    /\ counter' = 0
    /\ UNCHANGED <<shipments, shipperList, carrierList, calls>>

(* create_shipment does not ask whether the contract is initialised. *)
CreateShipment(shipper) ==
    /\ calls < MaxShipments
    /\ calls' = calls + 1
    /\ counter' = counter + 1
    /\ shipments' = [shipments EXCEPT ![counter + 1] =
                       [shipper |-> shipper, carrier |-> NoCarrier, status |-> "Created"]]
    /\ shipperList' = [shipperList EXCEPT ![shipper] = Append(@, counter + 1)]
    /\ UNCHANGED <<admin, carrierList>>

(* A shipment whose status is one of from gets status to. *)
Move(id, from, to) ==
    /\ shipments[id].status \in from
    /\ shipments' = [shipments EXCEPT ![id].status = to]
    /\ UNCHANGED <<admin, counter, shipperList, carrierList, calls>>

IsShipper(a, id) == shipments[id] # NotFound /\ shipments[id].shipper = a
IsCarrier(a, id) == shipments[id] # NotFound /\ shipments[id].carrier = a

ConfirmDelivery(a, id) == IsShipper(a, id) /\ Move(id, {"Delivered"}, "Completed")

(* Mutant: a shipment may be cancelled until it is delivered. *)
CancelShipmentLate(a, id) ==
    IsShipper(a, id) /\ Move(id, {"Created", "Accepted", "InTransit"}, "Cancelled")

CancelShipment(a, id) == IsShipper(a, id) /\ Move(id, {"Created", "Accepted"}, "Cancelled")

(* Mutant: an accepted shipment may be accepted again. *)
AcceptShipmentAgain(a, id) ==
    /\ shipments[id].status \in {"Created", "Accepted"}
    /\ shipments' = [shipments EXCEPT ![id].carrier = a, ![id].status = "Accepted"]
    /\ carrierList' = [carrierList EXCEPT ![a] = Append(@, id)]
    /\ UNCHANGED <<admin, counter, shipperList, calls>>

AcceptShipment(a, id) ==
    /\ shipments[id].status = "Created"
    /\ shipments' = [shipments EXCEPT ![id].carrier = a, ![id].status = "Accepted"]
    /\ carrierList' = [carrierList EXCEPT ![a] = Append(@, id)]
    /\ UNCHANGED <<admin, counter, shipperList, calls>>

MarkInTransit(a, id) == IsCarrier(a, id) /\ Move(id, {"Accepted"}, "InTransit")

MarkDelivered(a, id) == IsCarrier(a, id) /\ Move(id, {"InTransit"}, "Delivered")

RaiseDispute(a, id) ==
    (IsShipper(a, id) \/ IsCarrier(a, id)) /\ Move(id, {"InTransit", "Delivered"}, "Disputed")

ResolveDispute(a, id) ==
    /\ a = admin
    /\ \E to \in {"Completed", "Cancelled"} : Move(id, {"Disputed"}, to)

Invoke(a) ==
    \/ CreateShipment(a)
    \/ \E id \in Ids :
          \/ ConfirmDelivery(a, id) \/ CancelShipment(a, id) \/ AcceptShipment(a, id)
          \/ MarkInTransit(a, id) \/ MarkDelivered(a, id)
          \/ RaiseDispute(a, id) \/ ResolveDispute(a, id)

Next == \E a \in Accounts : Initialize(a) \/ Invoke(a)

(* The contract as its deployment uses it: the first invocation is          *)
(* initialize.  (create_shipment before it would have its ids given out     *)
(* again, since initialize resets the counter.)                            *)
DeployedSpec == Init /\ [][Next /\ (admin = NoAdmin => admin' # NoAdmin)]_vars

-----------------------------------------------------------------------------
TypeOK ==
    /\ admin \in Accounts \cup {NoAdmin}
    /\ counter \in 0..MaxShipments
    /\ calls \in 0..MaxShipments
    /\ shipments \in [Ids -> Shipments \cup {NotFound}]
    /\ shipperList \in [Accounts -> Seq(Ids)]
    /\ carrierList \in [Accounts -> Seq(Ids)]

Lists(list, a, id) == \E i \in DOMAIN list[a] : list[a][i] = id
ListsOnce(list, a) == \A i, j \in DOMAIN list[a] : list[a][i] = list[a][j] => i = j

(* get_shipments_by_shipper and get_shipments_by_carrier answer from lists *)
(* that are only ever appended to: they name each shipment of the account, *)
(* once, and no shipment of another account.                               *)
ListsMatchRecords ==
    /\ \A a \in Accounts, id \in Ids :
         /\ Lists(shipperList, a, id) <=> IsShipper(a, id)
         /\ Lists(carrierList, a, id) <=> IsCarrier(a, id)
    /\ \A a \in Accounts : ListsOnce(shipperList, a) /\ ListsOnce(carrierList, a)

(* A shipment has a carrier from its acceptance on and none before; only a *)
(* cancelled one may have either.                                          *)
CarrierUnderWay ==
    \A id \in Ids :
        /\ shipments[id].status = "Created" => shipments[id].carrier = NoCarrier
        /\ shipments[id].status \in {"Accepted", "InTransit", "Delivered", "Disputed", "Completed"}
             => shipments[id].carrier # NoCarrier

(* The contract is an implementation of Lifecycle. *)
StatusOf(id) == IF shipments[id] = NotFound THEN "Unposted" ELSE shipments[id].status
CarrierOf(id) == IF shipments[id] = NotFound THEN NoCarrier ELSE shipments[id].carrier

Abstract == INSTANCE Lifecycle WITH
    Carriers <- Accounts,
    status <- [id \in Ids |-> StatusOf(id)],
    carrier <- [id \in Ids |-> CarrierOf(id)]

FollowsLifecycle == Abstract!Spec
=============================================================================
