----------------------------- MODULE Shipments ------------------------------
(***************************************************************************)
(* ShipmentsService, backend/src/shipments/shipments.service.ts: the life  *)
(* of one shipment row under the status handlers.  Handlers of different   *)
(* shipments share nothing, so one shipment stands for each.               *)
(*                                                                         *)
(* A handler reads the row, checks, and then saves the entity, appends to  *)
(* the history, (asks for the release of the escrow,) and emits an event,  *)
(* with an await and no lock between these.  A save takes two queries: the *)
(* row is read again, and the columns in which the handler's entity        *)
(* differs from it are updated.                                            *)
(*                                                                         *)
(* MaxRequests bounds the requests that pass their checks.                 *)
(***************************************************************************)
EXTENDS Naturals, Sequences, FiniteSets

CONSTANTS
    Requests,     \* request slots: how many handlers run at a time
    Users, Role,  \* Role[u] is "shipper", "carrier" or "admin"
    Owner,        \* the shipper of the shipment
    NoCarrier,    \* carrier_id IS NULL
    MaxRequests

ASSUME UsersAssumption ==
    /\ Role \in [Users -> {"shipper", "carrier", "admin"}]
    /\ Owner \in Users
    /\ NoCarrier \notin Users
ASSUME BoundAssumption == MaxRequests \in Nat

VARIABLES
    shipment,  \* the row: [status, carrier]; status "NONE" before it is created
    history,   \* shipment_status_history: sequence of [from, to]
    events,    \* how often the event emitter has announced each status
    releases,  \* calls of releaseEscrowForShipment
    req,       \* what each request slot is doing
    begun,     \* requests so far, for the bound only
    visited    \* statuses the row has had, for the properties only

vars == <<shipment, history, events, releases, req, begun, visited>>

Idle == [pc |-> "idle"]

(* assertTransitionAllowed *)
NextStatuses ==
    [NONE       |-> {},
     PENDING    |-> {"ACCEPTED", "CANCELLED"},
     ACCEPTED   |-> {"IN_TRANSIT", "CANCELLED"},
     IN_TRANSIT |-> {"DELIVERED", "DISPUTED"},
     DELIVERED  |-> {"COMPLETED", "DISPUTED"},
     DISPUTED   |-> {"COMPLETED", "CANCELLED"},
     COMPLETED  |-> {},
     CANCELLED  |-> {}]

Statuses == DOMAIN NextStatuses

RolesFrom(status) ==
    CASE status \in {"PENDING", "ACCEPTED"} -> {"carrier", "shipper", "admin"}
      [] status = "IN_TRANSIT"              -> {"carrier", "admin"}
      [] status = "DELIVERED"               -> {"shipper", "admin"}
      [] OTHER                              -> {"admin"}

TransitionAllowed(from, to, role) == to \in NextStatuses[from] /\ role \in RolesFrom(from)

Init ==
    /\ shipment = [status |-> "NONE", carrier |-> NoCarrier]
    /\ history = <<>>
    /\ events = [s \in Statuses |-> 0]
    /\ releases = 0
    /\ req = [r \in Requests |-> Idle]
    /\ begun = 0
    /\ visited = {}

(* The handler has read the row and passed its checks: entity is what it   *)
(* will save, from what it will put into the history.                      *)
Begin(r, op, from, entity) ==
    /\ req[r] = Idle
    /\ begun < MaxRequests
    /\ begun' = begun + 1
    /\ req' = [req EXCEPT ![r] = [pc |-> "save", op |-> op, from |-> from,
                                  entity |-> entity, changed |-> {}]]
    /\ UNCHANGED <<shipment, history, events, releases, visited>>

Moved(to) == [shipment EXCEPT !.status = to]

-----------------------------------------------------------------------------
IsShipper(u) == u = Owner
IsCarrier(u) == u = shipment.carrier
IsAdmin(u) == Role[u] = "admin"
IsParty(u) == IsShipper(u) \/ IsCarrier(u) \/ IsAdmin(u)

(* Whose request passes: the roles of the route, and the handler's checks. *)
Allowed(u, to) == TransitionAllowed(shipment.status, to, Role[u])

MayCreate == Role[Owner] \in {"shipper", "admin"} /\ shipment.status = "NONE"

MayEdit(u) ==
    /\ Role[u] \in {"shipper", "admin"}
    /\ IsShipper(u)
    /\ shipment.status = "PENDING"

MayAccept(u) == Role[u] \in {"carrier", "admin"} /\ Allowed(u, "ACCEPTED")

MayCarry(u) == Role[u] \in {"carrier", "admin"} /\ (IsCarrier(u) \/ IsAdmin(u))
MayMarkInTransit(u) == MayCarry(u) /\ Allowed(u, "IN_TRANSIT")
MayMarkDelivered(u) == MayCarry(u) /\ Allowed(u, "DELIVERED")

MayConfirmDelivery(u) ==
    /\ Role[u] \in {"shipper", "admin"}
    /\ IsShipper(u) \/ IsAdmin(u)
    /\ Allowed(u, "COMPLETED")

MayCancel(u) == IsParty(u) /\ Allowed(u, "CANCELLED")
MayRaiseDispute(u) == IsParty(u) /\ Allowed(u, "DISPUTED")
MayResolveDispute(u, to) == IsAdmin(u) /\ Allowed(u, to)

-----------------------------------------------------------------------------
(* create *)
Create(r) ==
    /\ MayCreate
    /\ \A s \in Requests : req[s] = Idle
    /\ Begin(r, "create", "NONE", Moved("PENDING"))

(* update: notes and dates, which are left out; the entity is saved whole. *)
Edit(r, u) == MayEdit(u) /\ Begin(r, "edit", "PENDING", shipment)

Accept(r, u) ==
    /\ MayAccept(u)
    /\ Begin(r, "accept", "PENDING", [Moved("ACCEPTED") EXCEPT !.carrier = u])

MarkInTransit(r, u) ==
    MayMarkInTransit(u) /\ Begin(r, "pickup", "ACCEPTED", Moved("IN_TRANSIT"))

MarkDelivered(r, u) ==
    MayMarkDelivered(u) /\ Begin(r, "deliver", "IN_TRANSIT", Moved("DELIVERED"))

(* Mutant: whatever is under way may be confirmed. *)
ConfirmDeliveryEarly(r, u) ==
    /\ Role[u] \in {"shipper", "admin"}
    /\ IsShipper(u) \/ IsAdmin(u)
    /\ shipment.status \in {"ACCEPTED", "IN_TRANSIT", "DELIVERED"}
    /\ Begin(r, "confirm", "DELIVERED", Moved("COMPLETED"))

ConfirmDelivery(r, u) ==
    MayConfirmDelivery(u) /\ Begin(r, "confirm", "DELIVERED", Moved("COMPLETED"))

Cancel(r, u) == MayCancel(u) /\ Begin(r, "cancel", shipment.status, Moved("CANCELLED"))

RaiseDispute(r, u) ==
    MayRaiseDispute(u) /\ Begin(r, "dispute", shipment.status, Moved("DISPUTED"))

(* Mutant: the transition is not checked. *)
ResolveDisputeUnchecked(r, u) ==
    /\ IsAdmin(u)
    /\ shipment.status # "NONE"
    /\ \E to \in {"COMPLETED", "CANCELLED"} : Begin(r, "resolve", "DISPUTED", Moved(to))

ResolveDispute(r, u) ==
    \E to \in {"COMPLETED", "CANCELLED"} :
        MayResolveDispute(u, to) /\ Begin(r, "resolve", "DISPUTED", Moved(to))

-----------------------------------------------------------------------------
Goto(r, pc) == req' = [req EXCEPT ![r].pc = pc]
Finish(r) == req' = [req EXCEPT ![r] = Idle]

(* shipmentRepo.save: the SELECT, and the columns found to differ from it. *)
Compare(r) ==
    /\ req[r].pc = "save"
    /\ req' = [req EXCEPT ![r].pc = "write",
                          ![r].changed = {c \in {"status", "carrier"} :
                                            req[r].entity[c] # shipment[c]}]
    /\ UNCHANGED <<shipment, history, events, releases, begun, visited>>

(* The row once the changed columns of an entity are written to it. *)
Updated(row, entity, changed) ==
    [status  |-> IF "status" \in changed THEN entity.status ELSE row.status,
     carrier |-> IF "carrier" \in changed THEN entity.carrier ELSE row.carrier]

Writing(r, then) ==
    /\ req[r].pc = "write"
    /\ shipment' = Updated(shipment, req[r].entity, req[r].changed)
    /\ visited' = IF "status" \in req[r].changed
                    THEN visited \cup {req[r].entity.status} ELSE visited
    /\ IF req[r].op = "edit"
         THEN Finish(r)
         ELSE req' = [req EXCEPT ![r].pc = then, ![r].changed = {}]
    /\ UNCHANGED <<history, events, releases, begun>>

(* Mutant: the event goes out before the history is written. *)
WriteThenEmit(r) == Writing(r, "emit")

(* ... and its UPDATE. *)
Write(r) == Writing(r, "record")

(* recordHistory *)
Record(r) ==
    /\ req[r].pc = "record"
    /\ history' = Append(history, [from |-> req[r].from, to |-> req[r].entity.status])
    /\ Goto(r, IF req[r].op = "confirm" THEN "release" ELSE "emit")
    /\ UNCHANGED <<shipment, events, releases, begun, visited>>

(* Mutant: a failed release makes the request fail. *)
ReleaseNotCaught(r) ==
    /\ req[r].pc = "release"
    /\ releases' = releases + 1
    /\ Goto(r, "emit") \/ Finish(r)
    /\ UNCHANGED <<shipment, history, events, begun, visited>>

(* releaseEscrowForShipment: its failure is logged and forgotten. *)
Release(r) ==
    /\ req[r].pc = "release"
    /\ releases' = releases + 1
    /\ Goto(r, "emit")
    /\ UNCHANGED <<shipment, history, events, begun, visited>>

(* The row is loaded again for the payload, and the event goes out. *)
Emit(r) ==
    /\ req[r].pc = "emit"
    /\ events' = [events EXCEPT ![req[r].entity.status] = @ + 1]
    /\ Finish(r)
    /\ UNCHANGED <<shipment, history, releases, begun, visited>>

(* A query throws, or the process stops: the request ends where it is. *)
Fail(r) ==
    /\ req[r] # Idle
    /\ Finish(r)
    /\ UNCHANGED <<shipment, history, events, releases, begun, visited>>

(* Begin asks for a free slot too; asked first, it spares TLC the checks.  *)
Handle(r) ==
    /\ req[r] = Idle /\ begun < MaxRequests
    /\ \/ Create(r)
       \/ \E u \in Users :
             \/ Edit(r, u) \/ Accept(r, u) \/ MarkInTransit(r, u) \/ MarkDelivered(r, u)
             \/ ConfirmDelivery(r, u) \/ Cancel(r, u)
             \/ RaiseDispute(r, u) \/ ResolveDispute(r, u)

Proceed(r) == Compare(r) \/ Write(r) \/ Record(r) \/ Release(r) \/ Emit(r)

ReliableNext == \E r \in Requests : Handle(r) \/ Proceed(r)
Next == ReliableNext \/ \E r \in Requests : Fail(r)

Spec == Init /\ [][Next]_vars

-----------------------------------------------------------------------------
Rows == [status : Statuses, carrier : Users \cup {NoCarrier}]
Busy == [pc : {"save", "write", "record", "release", "emit"},
         op : {"create", "edit", "accept", "pickup", "deliver", "confirm", "cancel",
               "dispute", "resolve"},
         from : Statuses, entity : Rows, changed : SUBSET {"status", "carrier"}]

TypeOK ==
    /\ shipment \in Rows
    /\ history \in Seq([from : Statuses, to : Statuses])
    /\ events \in [Statuses -> Nat]
    /\ releases \in Nat
    /\ req \in [Requests -> {Idle} \cup Busy]
    /\ begun \in 0..MaxRequests
    /\ visited \subseteq Statuses

(* One request at a time, however many of them fail half way: a shipment   *)
(* under way has a carrier and an open one has none.  (Overlapping saves   *)
(* mix their columns.)                                                     *)
CarrierOf(row) ==
    /\ row.status = "PENDING" => row.carrier = NoCarrier
    /\ row.status \in {"ACCEPTED", "IN_TRANSIT", "DELIVERED", "DISPUTED", "COMPLETED"}
         => row.carrier # NoCarrier

CarrierUnderWay == CarrierOf(shipment)

(* Races may bring an earlier status back, but none makes a shipment skip  *)
(* one: each status it has had follows another it has had.                 *)
NoStatusSkipped ==
    \A s \in visited \ {"PENDING"} : \E p \in visited : s \in NextStatuses[p]

(* The escrow is asked to pay only for a shipment that was picked up, then  *)
(* delivered or disputed, and completed, however its requests overlap.     *)
ReleasedAfterPickup ==
    releases > 0 =>
        /\ {"ACCEPTED", "IN_TRANSIT", "COMPLETED"} \subseteq visited
        /\ visited \cap {"DELIVERED", "DISPUTED"} # {}

(* What webhooks and notifications were told is in the history as well.    *)
Recorded(s) == {i \in DOMAIN history : history[i].to = s}
AnnouncedIsRecorded == \A s \in Statuses : events[s] <= Cardinality(Recorded(s))

AllIdle == \A r \in Requests : req[r] = Idle

(* One request at a time, the service implements the life cycle it shares  *)
(* with the shipment contract.                                             *)
AbstractName ==
    [NONE |-> "Unposted", PENDING |-> "Created", ACCEPTED |-> "Accepted",
     IN_TRANSIT |-> "InTransit", DELIVERED |-> "Delivered", DISPUTED |-> "Disputed",
     COMPLETED |-> "Completed", CANCELLED |-> "Cancelled"]

Abstract == INSTANCE Lifecycle WITH
    Ids <- {Owner},
    Carriers <- Users,
    status <- [id \in {Owner} |-> AbstractName[shipment.status]],
    carrier <- [id \in {Owner} |-> shipment.carrier]

(* One request at a time, the status and the carrier of the row move only  *)
(* as the shipment contract moves its own.                                 *)
FollowsLifecycle == Abstract!Spec
=============================================================================
