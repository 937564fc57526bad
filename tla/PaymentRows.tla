---------------------------- MODULE PaymentRows -----------------------------
(***************************************************************************)
(* How a shipment gets its payment row and its on-chain id:                *)
(* getOrCreatePayment of backend/src/payments/payments.service.ts, which   *)
(* Funding takes as one step.  Each caller looks for the row, asks for     *)
(* MAX(on_chain_shipment_id) + 1 and inserts; only the two unique          *)
(* constraints of the table order the callers.                             *)
(***************************************************************************)
EXTENDS Naturals, FiniteSets

CONSTANTS Shipments, Callers

VARIABLES
    payments,   \* the table: records [shipment, onChainId]
    caller      \* what each caller is doing

vars == <<payments, caller>>

Payments == [shipment : Shipments, onChainId : Nat \ {0}]

Idle == [pc |-> "idle"]

Init ==
    /\ payments = {}
    /\ caller = [c \in Callers |-> Idle]

RowsOf(s) == {p \in payments : p.shipment = s}

Goto(c, pc) == caller' = [caller EXCEPT ![c].pc = pc]
Return(c, p) ==
    caller' = [caller EXCEPT ![c] = [pc |-> "returned", shipment |-> caller[c].shipment,
                                     payment |-> p]]

Call(c, s) ==
    /\ caller[c] = Idle
    /\ caller' = [caller EXCEPT ![c] = [pc |-> "find", shipment |-> s]]
    /\ UNCHANGED payments

(* findOne({ where: { shipmentId } }) *)
Find(c) ==
    /\ caller[c].pc = "find"
    /\ \/ \E p \in RowsOf(caller[c].shipment) : Return(c, p)
       \/ RowsOf(caller[c].shipment) = {} /\ Goto(c, "number")
    /\ UNCHANGED payments

(* Mutant: off by one, the id after the next one. *)
IsNextOnChainIdSkipping(n) ==
    \/ payments = {} /\ n = 1
    \/ /\ \E p \in payments : p.onChainId + 2 = n
       /\ \A p \in payments : p.onChainId < n

(* SELECT COALESCE(MAX(on_chain_shipment_id), 0) + 1 *)
IsNextOnChainId(n) ==
    \/ payments = {} /\ n = 1
    \/ /\ \E p \in payments : p.onChainId + 1 = n
       /\ \A p \in payments : p.onChainId < n

GenerateNextOnChainId(c) ==
    /\ caller[c].pc = "number"
    /\ \E n \in 1..(Cardinality(payments) + 2) :
         /\ IsNextOnChainId(n)
         /\ caller' = [caller EXCEPT ![c] = [pc |-> "insert", onChainId |-> n,
                                             shipment |-> caller[c].shipment]]
    /\ UNCHANGED payments

(* Mutant: the constraint on the shipment is missing. *)
ConflictsOnId(new) == \E p \in payments : p.onChainId = new.onChainId

(* UNIQUE (shipment_id), UNIQUE (on_chain_shipment_id) *)
Conflicts(new) ==
    \E p \in payments : p.shipment = new.shipment \/ p.onChainId = new.onChainId

Insert(c) ==
    /\ caller[c].pc = "insert"
    /\ LET new == [shipment |-> caller[c].shipment, onChainId |-> caller[c].onChainId] IN
         \/ ~Conflicts(new) /\ payments' = payments \cup {new} /\ Return(c, new)
         \/ Conflicts(new) /\ Goto(c, "retry") /\ UNCHANGED payments

(* After a unique violation: the row another caller has created, or        *)
(* ConflictException.                                                      *)
Retry(c) ==
    /\ caller[c].pc = "retry"
    /\ \/ \E p \in RowsOf(caller[c].shipment) : Return(c, p)
       \/ RowsOf(caller[c].shipment) = {} /\ Goto(c, "conflict")
    /\ UNCHANGED payments

(* A query throws, the process restarts, or the answer has been given. *)
Leave(c) ==
    /\ caller[c] # Idle
    /\ caller' = [caller EXCEPT ![c] = Idle]
    /\ UNCHANGED payments

Next ==
    \E c \in Callers :
        \/ \E s \in Shipments : Call(c, s)
        \/ Find(c) \/ GenerateNextOnChainId(c) \/ Insert(c) \/ Retry(c) \/ Leave(c)

Spec == Init /\ [][Next]_vars

-----------------------------------------------------------------------------
TypeOK ==
    /\ payments \subseteq Payments
    /\ caller \in [Callers ->
          {Idle} \cup [pc : {"find", "number"}, shipment : Shipments]
          \cup [pc : {"insert", "retry", "conflict"}, shipment : Shipments,
                onChainId : Nat \ {0}]
          \cup [pc : {"returned"}, shipment : Shipments, payment : Payments]]

(* custody model: "Unique constraints on both shipmentId and               *)
(* onChainShipmentId prevent duplicates".  However the callers race, those *)
(* served for one shipment hold the same payment, and those served for     *)
(* different shipments hold different on-chain ids.                        *)
CallersAgree ==
    \A c, d \in Callers :
        caller[c].pc = "returned" /\ caller[d].pc = "returned" =>
            /\ caller[c].shipment = caller[d].shipment
                 => caller[c].payment = caller[d].payment
            /\ caller[c].shipment # caller[d].shipment
                 => caller[c].payment.onChainId # caller[d].payment.onChainId

(* custody model: "The sequence is dense (no gaps)", although every caller *)
(* inserts a number it read before other rows came in.                     *)
Dense ==
    \A p \in payments : p.onChainId = 1 \/ \E q \in payments : q.onChainId + 1 = p.onChainId

(* Every caller that gets a row gets the stored row of its own shipment,   *)
(* also the one whose insert lost.                                         *)
ReturnsStoredRow ==
    \A c \in Callers : caller[c].pc = "returned" =>
        caller[c].payment \in RowsOf(caller[c].shipment)
=============================================================================
