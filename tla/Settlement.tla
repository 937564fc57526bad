----------------------------- MODULE Settlement ------------------------------
(***************************************************************************)
(* How a deposit leaves the escrow, over Funding: releaseEscrowForShipment *)
(* (backend/src/payments/payments.service.ts), which confirmDelivery calls *)
(* and which leaves the payment row alone; adminReleaseEscrow and          *)
(* adminRefundEscrow (backend/src/admin/admin.service.ts), which look at   *)
(* no status, call the contract, record the outcome in the row and write   *)
(* an audit entry; and the two calls of the contract the backend does not  *)
(* make: the parties raise disputes, the platform key resolves them.       *)
(***************************************************************************)
EXTENDS Funding

VARIABLE audit   \* transactions that entries of the audit log name

settlementVars == <<fundingVars, audit>>

SettlementInit == FundingInit /\ audit = {}

-----------------------------------------------------------------------------
SettleCall(op, id) == IF op = "refund" THEN RefundCall(id) ELSE ReleaseCall(id)
SettledStatus(op) == IF op = "refund" THEN "REFUNDED" ELSE "RELEASED"

Settle(r, id, op) ==
    /\ req[r] = Idle
    /\ row[id] # NoRow
    /\ req' = [req EXCEPT ![r] = [pc |-> "invoke", id |-> id, op |-> op]]
    /\ UNCHANGED <<stellarVars, shipment, wallet, row, audit>>

(* adminReleaseEscrow and adminRefundEscrow: the row is only looked up. *)
AdminRelease(r, id) == Settle(r, id, "release")
AdminRefund(r, id)  == Settle(r, id, "refund")

(* releaseEscrowForShipment, for a shipment that was picked up (what       *)
(* confirmDelivery asks for beyond that is the matter of Shipments).       *)
ReleaseConfirmed(r, id) ==
    /\ shipment[id] = "IN_TRANSIT"
    /\ Settle(r, id, "confirm")

(* releasePayment and refundPayment: invoke builds, simulates and signs.   *)
Invoke(r) ==
    /\ req[r].pc = "invoke"
    /\ \E t \in TxIds :
         /\ Build(t, Platform, SettleCall(req[r].op, req[r].id))
         /\ req' = [req EXCEPT ![r] = [pc |-> "settle", id |-> req[r].id,
                                       op |-> req[r].op, tx |-> t]]
    /\ UNCHANGED <<shipment, wallet, row, audit>>

(* Where a request goes once the call counts as successful. *)
SettleSucceeds(r) == IF req[r].op = "confirm" THEN Finish(r) ELSE Goto(r, "recordSettled")

SettleAccepted(r) ==
    /\ req[r].pc = "settle"
    /\ Enqueue(req[r].tx)
    /\ SettleSucceeds(r)
    /\ UNCHANGED <<shipment, wallet, row, audit>>

SettleResponseLost(r) ==
    /\ req[r].pc = "settle"
    /\ Enqueue(req[r].tx)
    /\ Finish(r)
    /\ UNCHANGED <<shipment, wallet, row, audit>>

SettleUnclear(r) ==
    /\ req[r].pc = "settle"
    /\ Goto(r, "settlePoll")
    /\ UNCHANGED <<stellarVars, shipment, wallet, row, audit>>

(* Mutant: a polling window that expires counts as success. *)
SettlePollOptimistic(r) ==
    /\ req[r].pc = "settlePoll"
    /\ SettleSucceeds(r)
    /\ UNCHANGED <<stellarVars, shipment, wallet, row, audit>>

SettlePoll(r) ==
    /\ req[r].pc = "settlePoll"
    /\ txs[req[r].tx].phase = "succeeded"
    /\ SettleSucceeds(r)
    /\ UNCHANGED <<stellarVars, shipment, wallet, row, audit>>

(* The row is updated whatever it holds by now. *)
RecordSettled(r) ==
    /\ req[r].pc = "recordSettled"
    /\ row' = [row EXCEPT ![req[r].id].status = SettledStatus(req[r].op),
                          ![req[r].id].txHash = req[r].tx]
    /\ Goto(r, "audit")
    /\ UNCHANGED <<stellarVars, shipment, wallet, audit>>

WriteAudit(r) ==
    /\ req[r].pc = "audit"
    /\ audit' = audit \cup {req[r].tx}
    /\ Finish(r)
    /\ UNCHANGED <<stellarVars, shipment, wallet, row>>

(* The simulation, the submission, the poll, the update or the audit entry *)
(* fails; whatever was done before stays.                                  *)
SettleFails(r) ==
    /\ req[r].pc \in {"invoke", "settle", "settlePoll", "recordSettled", "audit"}
    /\ Finish(r)
    /\ UNCHANGED <<stellarVars, shipment, wallet, row, audit>>

(* External: a transaction that does not come from the backend. *)
Outside(source) ==
    /\ \A t \in TxIds : txs[t].phase = "queued" => txs[t].source # source
    /\ seq' = [seq EXCEPT ![source] = @ + 1]
    /\ UNCHANGED <<txs, shipment, wallet, row, req, audit>>

PartyDisputes(id, a) == Outside(a) /\ Chain!RaiseDispute(a, id)
PlatformResolves(id) ==
    Outside(Platform) /\ \E toCarrier \in BOOLEAN : Chain!ResolveDispute(Platform, id, toCarrier)

SettleProceed(r) ==
    \/ Invoke(r) \/ SettleAccepted(r) \/ SettleResponseLost(r) \/ SettleUnclear(r)
    \/ SettlePoll(r) \/ RecordSettled(r) \/ WriteAudit(r) \/ SettleFails(r)

SettlementNext ==
    \/ FundingNext /\ UNCHANGED audit
    \/ \E r \in Requests, id \in Ids :
         AdminRelease(r, id) \/ AdminRefund(r, id) \/ ReleaseConfirmed(r, id)
    \/ \E r \in Requests : SettleProceed(r)
    \/ \E id \in Ids, a \in Accounts : PartyDisputes(id, a)
    \/ \E id \in Ids : PlatformResolves(id)

SettlementSpec == SettlementInit /\ [][SettlementNext]_settlementVars

(* An administrator who leaves alone what the backend shows as not funded  *)
(* or with a funding request under way, and may try a settlement again.    *)
Settling(r) == req[r] = Idle /\ req'[r] # Idle /\ req'[r].pc = "invoke"
Careful ==
    \A r \in Requests :
        Settling(r) /\ req'[r].op # "confirm" => row[req'[r].id].status \in NonFundable

(* ... and a shipper who hands in the XDR he was given for the shipment.   *)
Submitting(r) == req[r] = Idle /\ req'[r] # Idle /\ req'[r].pc = "claim" /\ req'[r].tx # NoTx
OwnXdr ==
    \A r \in Requests :
        Submitting(r) => \E w \in Wallets :
            txs[req'[r].tx].call = FundCall(req'[r].id, w, Price)

CarefulSpec == SettlementInit /\ [][SettlementNext /\ Careful /\ OwnXdr]_settlementVars

-----------------------------------------------------------------------------
(* What the backend shows as settled, in the row and in the audit log, is  *)
(* a settlement of that shipment which did reach the network, however      *)
(* submissions fail, hang or get lost.                                     *)
SettledReached ==
    /\ \A t \in audit : Reached(t) /\ txs[t].call.op \in {"release", "refund"}
    /\ \A id \in Ids, op \in {"release", "refund"} :
         row[id].status = SettledStatus(op) =>
             /\ row[id].txHash \in TxIds
             /\ Reached(row[id].txHash) /\ txs[row[id].txHash].call = SettleCall(op, id)

(* reconcileEscrow, which an administrator asks, reads the row, then the   *)
(* contract, and compares: what the row's status makes it expect there.    *)
ExpectedStatus ==
    [PENDING |-> "Pending", FUNDING |-> "Pending", FUNDED |-> "Funded",
     RELEASED |-> "Released", REFUNDED |-> "Refunded"]

Matches(rowStatus, record) == record.status = ExpectedStatus[rowStatus]

(* Once the transaction a settled row names has been applied, an           *)
(* administrator who asks for a reconciliation is told of no mismatch, and *)
(* however long it takes from the row to the contract: no other release,   *)
(* refund or dispute, no late answer and no further funding gets between.  *)
AgreesOnceApplied ==
    \A id \in Ids :
        row[id].status \in {"RELEASED", "REFUNDED"}
        /\ txs[row[id].txHash].phase = "succeeded" => Matches(row[id].status, escrow[id])

(* NON_FUNDABLE_STATUSES: "either funded or otherwise terminal": a settled *)
(* row is never opened for funding again.                                  *)
SettledIsTerminal ==
    [][\A id \in Ids :
         row[id].status \in {"RELEASED", "REFUNDED"} =>
             row'[id].status \in {"RELEASED", "REFUNDED"}]_settlementVars
=============================================================================
