------------------------------ MODULE Funding -------------------------------
(***************************************************************************)
(* How a shipment's escrow gets funded: initiateFunding and submitFunding  *)
(* of backend/src/payments/payments.service.ts, over the payments table,   *)
(* StellarContractService (Stellar) and the escrow contract (Escrow).      *)
(*                                                                         *)
(* A request is a sequence of steps separated at each await; requests      *)
(* interleave, since nothing but the conditional update of the claim       *)
(* orders them.  Any database or RPC call may fail, and the process may    *)
(* crash, which ends every request and leaves the rows as they are.        *)
(*                                                                         *)
(* Escrow disputes, releases and refunds are not part of this module;      *)
(* creation of the row is one step here and is taken apart in PaymentRows. *)
(***************************************************************************)
EXTENDS Stellar

CONSTANTS
    Requests,   \* request slots
    Wallets,    \* wallets a shipment's carrier may put in the user profile
    Payers,     \* ... and its shipper
    Platform,   \* the platform's admin key
    Price,      \* price of every shipment, in base units
    TestSigning \* ALLOW_TEST_SIGNING

ASSUME WalletsAssumption == Wallets # {} /\ Wallets \subseteq Accounts
ASSUME PayersAssumption == Payers # {} /\ Payers \subseteq Accounts
ASSUME PlatformAssumption == Platform \in Accounts
ASSUME PriceAssumption == Price \in Nat \ {0}
ASSUME TestSigningAssumption == TestSigning \in BOOLEAN

VARIABLES
    shipment,   \* status of each shipment row
    wallet,     \* wallet_address of each shipment's carrier and shipper
    row,        \* payments: at most one row per shipment
    req         \* what each request slot is doing

fundingVars == <<stellarVars, shipment, wallet, row, req>>

NoRow == [status |-> "NONE"]
NoTx == 0
Bindings == [carrier : Wallets, shipper : Payers]
Rows == [status : {"PENDING", "FUNDING", "FUNDED"},
         carrier : Wallets, shipper : Payers, txHash : TxIds \cup {NoTx}]
Columns == {"status", "carrier", "shipper", "txHash"}

(* The wallets a row, or an entity read from it, is bound to.              *)
Bound(entity) == [carrier |-> entity.carrier, shipper |-> entity.shipper]

(* Payment statuses initiateFunding and submitFunding turn away at once.   *)
NonFundable == {"FUNDED", "RELEASED", "REFUNDED"}

Idle == [pc |-> "idle"]

Goto(r, pc) == req' = [req EXCEPT ![r].pc = pc]
Finish(r) == req' = [req EXCEPT ![r] = Idle]

(* The contract is initialised for the platform key, every payer has       *)
(* granted the allowance fund_escrow needs and the shipments are ACCEPTED. *)
FundingInit ==
    /\ admin = Platform
    /\ escrow = [id \in Ids |-> Chain!NoRecord]
    /\ balance = [a \in Accounts |-> InitialBalance]
    /\ vault = 0
    /\ allowance = [a \in Accounts |-> InitialBalance]
    /\ netIn = [id \in Ids |-> 0]
    /\ abandoned = [id \in Ids |-> 0]
    /\ StellarInit
    /\ shipment = [id \in Ids |-> "ACCEPTED"]
    /\ wallet \in [Ids -> Bindings]
    /\ row = [id \in Ids |-> NoRow]
    /\ req = [r \in Requests |-> Idle]

-----------------------------------------------------------------------------
(* initiateFunding: read the shipment and the wallets of both parties. *)
Initiate(r, id) ==
    /\ req[r] = Idle
    /\ shipment[id] = "ACCEPTED"
    /\ req' = [req EXCEPT ![r] = [pc |-> "findRow", id |-> id, wallet |-> wallet[id]]]
    /\ UNCHANGED <<stellarVars, shipment, wallet, row>>

(* claimPaymentRowForFunding: find or create the row.  A row past PENDING  *)
(* ends the request; one bound to other wallets is to be saved again.      *)
FindRow(r) ==
    LET id == req[r].id  w == req[r].wallet IN
    /\ req[r].pc = "findRow"
    /\ \/ /\ row[id] = NoRow
          /\ row' = [row EXCEPT ![id] = [status |-> "PENDING", carrier |-> w.carrier,
                                         shipper |-> w.shipper, txHash |-> NoTx]]
          /\ Goto(r, "build")
       \/ /\ row[id].status = "PENDING"
          /\ Bound(row[id]) = w
          /\ Goto(r, "build")
          /\ UNCHANGED row
       \/ /\ row[id].status = "PENDING"
          /\ Bound(row[id]) # w
          /\ req' = [req EXCEPT ![r] = [pc |-> "refresh", id |-> id,
                                        wallet |-> w, entity |-> row[id]]]
          /\ UNCHANGED row
       \/ /\ row[id].status \in {"FUNDING"} \cup NonFundable
          /\ Finish(r)
          /\ UNCHANGED row
    /\ UNCHANGED <<stellarVars, shipment, wallet>>

Comparing(r, carrier, shipper) ==
    LET id == req[r].id
        entity == [req[r].entity EXCEPT !.carrier = carrier, !.shipper = shipper] IN
    /\ req[r].pc = "refresh"
    /\ req' = [req EXCEPT ![r] = [pc |-> "update", id |-> id, wallet |-> req[r].wallet,
                                  entity |-> entity,
                                  changed |-> {c \in Columns : entity[c] # row[id][c]}]]
    /\ UNCHANGED <<stellarVars, shipment, wallet, row>>

(* paymentRepo.save(payment) with both wallets: a SELECT, which finds the  *)
(* columns in which the entity read earlier now differs from the row.      *)
Refresh(r) == Comparing(r, req[r].wallet.carrier, req[r].wallet.shipper)

(* The row once the changed columns of an entity are written to it. *)
Updated(old, entity, changed) ==
    [status  |-> IF "status" \in changed THEN entity.status ELSE old.status,
     carrier |-> IF "carrier" \in changed THEN entity.carrier ELSE old.carrier,
     shipper |-> IF "shipper" \in changed THEN entity.shipper ELSE old.shipper,
     txHash  |-> IF "txHash" \in changed THEN entity.txHash ELSE old.txHash]

(* ... and the UPDATE of these. *)
RefreshUpdate(r) ==
    /\ req[r].pc = "update"
    /\ row' = [row EXCEPT ![req[r].id] = Updated(@, req[r].entity, req[r].changed)]
    /\ req' = [req EXCEPT ![r] = [pc |-> "build", id |-> req[r].id, wallet |-> req[r].wallet]]
    /\ UNCHANGED <<stellarVars, shipment, wallet>>

(* buildFundEscrowTransaction; the XDR goes to the shipper's wallet, which *)
(* signs it.                                                               *)
Deposit(t, r) ==
    Build(t, req[r].wallet.shipper, FundCall(req[r].id, req[r].wallet.carrier, Price))

BuildXdr(r) ==
    /\ req[r].pc = "build"
    /\ \E t \in TxIds : Deposit(t, r)
    /\ Finish(r)
    /\ UNCHANGED <<shipment, wallet, row>>

(* A database or RPC call fails, or the simulation rejects the call. *)
InitiateFails(r) ==
    /\ req[r].pc \in {"findRow", "refresh", "update", "build"}
    /\ Finish(r)
    /\ UNCHANGED <<stellarVars, shipment, wallet, row>>

-----------------------------------------------------------------------------
Reached(t) == txs[t].phase \notin {"unused", "built"}

(* submitFunding and getFundablePayment: neither the shipment's status nor *)
(* the XDR is looked at, which may be of another shipment, or one that     *)
(* reached the network before, where everybody finds it.                   *)
Submit(r, id, t) ==
    /\ req[r] = Idle
    /\ txs[t] # Unused
    /\ txs[t].source \in Payers \/ Reached(t)
    /\ row[id] # NoRow
    /\ row[id].status \notin NonFundable
    /\ req' = [req EXCEPT ![r] = [pc |-> "claim", id |-> id, tx |-> t]]
    /\ UNCHANGED <<stellarVars, shipment, wallet, row>>

(* testSignAndSubmitFunding: the transaction is built after the claim, for *)
(* the wallets the row had when it was read.                               *)
SubmitTestSigned(r, id) ==
    /\ TestSigning
    /\ req[r] = Idle
    /\ row[id] # NoRow
    /\ row[id].status \notin NonFundable
    /\ req' = [req EXCEPT ![r] = [pc |-> "claim", id |-> id, tx |-> NoTx,
                                  wallet |-> Bound(row[id])]]
    /\ UNCHANGED <<stellarVars, shipment, wallet, row>>

(* Mutant: the claim updates whatever status the row has. *)
ClaimUnconditional(r) ==
    /\ req[r].pc = "claim"
    /\ row' = [row EXCEPT ![req[r].id].status = "FUNDING"]
    /\ Goto(r, IF req[r].tx = NoTx THEN "sign" ELSE "send")
    /\ UNCHANGED <<stellarVars, shipment, wallet>>

(* claimAndSubmit: UPDATE ... SET status = FUNDING WHERE status = PENDING, *)
(* then on with it or PaymentAlreadyInFlightError.                         *)
Claim(r) ==
    /\ req[r].pc = "claim"
    /\ IF row[req[r].id].status = "PENDING"
         THEN /\ row' = [row EXCEPT ![req[r].id].status = "FUNDING"]
              /\ Goto(r, IF req[r].tx = NoTx THEN "sign" ELSE "send")
         ELSE Finish(r) /\ UNCHANGED row
    /\ UNCHANGED <<stellarVars, shipment, wallet>>

(* fundEscrow on the test path: invoke builds and signs the transaction.   *)
SignTest(r) ==
    /\ req[r].pc = "sign"
    /\ \/ \E t \in TxIds :
            /\ Deposit(t, r)
            /\ req' = [req EXCEPT ![r] = [pc |-> "send", id |-> req[r].id, tx |-> t]]
       \/ Goto(r, "unclaim") /\ UNCHANGED stellarVars
    /\ UNCHANGED <<shipment, wallet, row>>

(* submitPrepared: sendTransaction answers PENDING, which is returned as   *)
(* success at once.                                                        *)
SendAccepted(r) ==
    /\ req[r].pc = "send"
    /\ Enqueue(req[r].tx)
    /\ Goto(r, "markFunded")
    /\ UNCHANGED <<shipment, wallet, row>>

(* sendTransaction answers ERROR, or throws without reaching the node. *)
SendRejected(r) ==
    /\ req[r].pc = "send"
    /\ Goto(r, "unclaim")
    /\ UNCHANGED <<stellarVars, shipment, wallet, row>>

(* sendTransaction throws although the node took the transaction. *)
SendResponseLost(r) ==
    /\ req[r].pc = "send"
    /\ Enqueue(req[r].tx)
    /\ Goto(r, "unclaim")
    /\ UNCHANGED <<shipment, wallet, row>>

(* sendTransaction answers TRY_AGAIN_LATER or DUPLICATE. *)
SendUnclear(r) ==
    /\ req[r].pc = "send"
    /\ Goto(r, "poll")
    /\ UNCHANGED <<stellarVars, shipment, wallet, row>>

(* Mutant: a polling window that expires counts as success. *)
PollOptimistic(r) ==
    /\ req[r].pc = "poll"
    /\ Goto(r, "markFunded")
    /\ UNCHANGED <<stellarVars, shipment, wallet, row>>

(* pollForConfirmation: SUCCESS, FAILED, or the window expires. *)
Poll(r) ==
    /\ req[r].pc = "poll"
    /\ \/ txs[req[r].tx].phase = "succeeded" /\ Goto(r, "markFunded")
       \/ Goto(r, "unclaim")
    /\ UNCHANGED <<stellarVars, shipment, wallet, row>>

(* The row becomes FUNDED; if that update throws, the catch takes over. *)
MarkFunded(r) ==
    /\ req[r].pc = "markFunded"
    /\ \/ /\ row' = [row EXCEPT ![req[r].id].status = "FUNDED",
                                ![req[r].id].txHash = req[r].tx]
          /\ Finish(r)
       \/ /\ Goto(r, "unclaim")
          /\ UNCHANGED row
    /\ UNCHANGED <<stellarVars, shipment, wallet>>

(* Mutant: the error is rethrown without giving the claim back. *)
UnclaimForgotten(r) ==
    /\ req[r].pc = "unclaim"
    /\ Finish(r)
    /\ UNCHANGED <<stellarVars, shipment, wallet, row>>

(* The catch of claimAndSubmit: the row goes back to PENDING. *)
Unclaim(r) ==
    /\ req[r].pc = "unclaim"
    /\ row' = [row EXCEPT ![req[r].id].status = "PENDING"]
    /\ Finish(r)
    /\ UNCHANGED <<stellarVars, shipment, wallet>>

(* ... unless that update throws too. *)
UnclaimFails(r) ==
    /\ req[r].pc = "unclaim"
    /\ Finish(r)
    /\ UNCHANGED <<stellarVars, shipment, wallet, row>>

-----------------------------------------------------------------------------
(* The backend restarts: no request survives, nothing resumes them. *)
Crash ==
    /\ \E r \in Requests : req[r] # Idle
    /\ req' = [r \in Requests |-> Idle]
    /\ UNCHANGED <<stellarVars, shipment, wallet, row>>

(* ShipmentsService moves the shipment on, or cancels it. *)
ShipmentMoves(id) ==
    /\ shipment[id] = "ACCEPTED"
    /\ \E s \in {"IN_TRANSIT", "CANCELLED"} : shipment' = [shipment EXCEPT ![id] = s]
    /\ UNCHANGED <<stellarVars, wallet, row, req>>

(* UsersService.update: a party changes the wallet in the profile. *)
ChangeWallet(id, party, w) ==
    /\ wallet[id][party] # w
    /\ wallet' = [wallet EXCEPT ![id][party] = w]
    /\ UNCHANGED <<stellarVars, shipment, row, req>>

Ledger == LedgerStep /\ UNCHANGED <<shipment, wallet, row, req>>

(* The steps a request takes once it has started. *)
Proceed(r) ==
    \/ FindRow(r) \/ Refresh(r) \/ RefreshUpdate(r) \/ BuildXdr(r) \/ InitiateFails(r)
    \/ Claim(r) \/ SignTest(r)
    \/ SendAccepted(r) \/ SendRejected(r) \/ SendResponseLost(r) \/ SendUnclear(r)
    \/ Poll(r) \/ MarkFunded(r) \/ Unclaim(r)

(* Everything but a crash and a failure of the update that undoes a claim. *)
ReliableNext ==
    \/ \E r \in Requests, id \in Ids : Initiate(r, id)
    \/ \E r \in Requests, id \in Ids, t \in TxIds : Submit(r, id, t)
    \/ \E r \in Requests, id \in Ids : SubmitTestSigned(r, id)
    \/ \E r \in Requests : Proceed(r)
    \/ Ledger
    \/ \E id \in Ids : ShipmentMoves(id)
    \/ \E id \in Ids : \/ \E w \in Wallets : ChangeWallet(id, "carrier", w)
                       \/ \E w \in Payers : ChangeWallet(id, "shipper", w)

FundingNext ==
    \/ ReliableNext
    \/ \E r \in Requests : UnclaimFails(r)
    \/ Crash

FundingSpec == FundingInit /\ [][FundingNext]_fundingVars

(* The event loop runs every request that has not finished: its awaits     *)
(* settle (polling ends after two seconds), so each keeps taking steps.    *)
RequestsProceed == \A r \in Requests : WF_fundingVars(Proceed(r))

ReliableSpec == FundingInit /\ [][ReliableNext]_fundingVars /\ RequestsProceed

-----------------------------------------------------------------------------
InitiateReqs == [pc : {"findRow", "build"}, id : Ids, wallet : Bindings]
RefreshReqs  == [pc : {"refresh"}, id : Ids, wallet : Bindings, entity : Rows]
UpdateReqs   == [pc : {"update"}, id : Ids, wallet : Bindings, entity : Rows,
                 changed : SUBSET Columns]
SubmitReqs   == [pc : {"claim", "send", "poll", "markFunded", "unclaim"},
                 id : Ids, tx : TxIds]
TestReqs     == [pc : {"claim", "sign", "unclaim"}, id : Ids, tx : {NoTx}, wallet : Bindings]

RequestTypeOK ==
    /\ wallet \in [Ids -> Bindings]
    /\ row \in [Ids -> Rows \cup {NoRow}]
    /\ req \in [Requests ->
                 {Idle} \cup InitiateReqs \cup RefreshReqs \cup UpdateReqs
                 \cup SubmitReqs \cup TestReqs]

(* A request between its claim and the end of its submission. *)
InFlight(r) == req[r].pc \in {"sign", "send", "poll", "markFunded", "unclaim"}

InFlightFor(id) == {r \in Requests : InFlight(r) /\ req[r].id = id}

(* claimAndSubmit: "so two concurrent callers can never both submit for    *)
(* the same payment".                                                      *)
SingleFlight ==
    \A r, s \in Requests :
        r # s /\ InFlight(r) /\ InFlight(s) => req[r].id # req[s].id

(* However often funding is started, retried, interrupted or left in doubt *)
(* the shipper pays for a shipment once: what escrow took for it is        *)
(* nothing or its price.                                                   *)
ChargedOnce == \A id \in Ids : netIn[id] \in {0, Price}

(* No failed, rejected or unanswered submission leaves a row FUNDED: while *)
(* wallets do not change, it names a transaction that did reach the        *)
(* network, whichever XDR was handed in for it.  (A refresh that overlaps  *)
(* two submissions can wipe the hash.)                                     *)
FundedNamesTransaction ==
    \A id \in Ids : row[id].status = "FUNDED" =>
        row[id].txHash \in TxIds /\ Reached(row[id].txHash)

(* A row that is FUNDED stays FUNDED: no late failure, retry or duplicate  *)
(* of a funding request takes it back while wallets do not change.         *)
FundedIsFinal ==
    [][\A id \in Ids : row[id].status = "FUNDED" => row'[id].status = "FUNDED"]_fundingVars

(* A claim does not outlive its submission: as long as the process runs    *)
(* and the database answers the catch block, a row leaves FUNDING.         *)
ClaimEnds == \A id \in Ids : row[id].status = "FUNDING" ~> row[id].status # "FUNDING"
=============================================================================
