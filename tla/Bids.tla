-------------------------------- MODULE Bids --------------------------------
(***************************************************************************)
(* BidsService, backend/src/bids/bids.service.ts, over the shipment row    *)
(* that ShipmentsService (Shipments) keeps.  Accepting a bid is three      *)
(* writes, each a statement of its own: the bid is saved as ACCEPTED, the  *)
(* other pending bids become REJECTED, and the shipment gets the carrier   *)
(* and the status, without history or event.                               *)
(*                                                                         *)
(* Bids are numbered in the order they come in; MaxBids bounds them.       *)
(***************************************************************************)
EXTENDS Shipments

CONSTANTS BidRequests, MaxBids

ASSUME MaxBidsAssumption == MaxBids \in Nat

VARIABLES
    bids,    \* sequence of [carrier, status]
    bidReq   \* what each request slot for bids is doing

bidVars == <<bids, bidReq>>
allVars == <<vars, bidVars>>

BidsInit == Init /\ bids = <<>> /\ bidReq = [r \in BidRequests |-> Idle]

BidGoto(r, pc) == bidReq' = [bidReq EXCEPT ![r].pc = pc]
BidFinish(r) == bidReq' = [bidReq EXCEPT ![r] = Idle]

StartBidRequest(r, q) ==
    /\ bidReq[r] = Idle
    /\ begun < MaxRequests
    /\ begun' = begun + 1
    /\ bidReq' = [bidReq EXCEPT ![r] = q]
    /\ UNCHANGED <<shipment, history, events, releases, req, visited, bids>>

(* submitBid reads the shipment, then looks for a pending bid of the       *)
(* carrier, then inserts.                                                  *)
SubmitBid(r, u) ==
    /\ Role[u] = "carrier"
    /\ shipment.status = "PENDING"
    /\ u # Owner
    /\ StartBidRequest(r, [pc |-> "findOwn", carrier |-> u])

HasPendingBid(u) == \E b \in DOMAIN bids : bids[b] = [carrier |-> u, status |-> "PENDING"]

FindOwnBid(r) ==
    /\ bidReq[r].pc = "findOwn"
    /\ IF HasPendingBid(bidReq[r].carrier) THEN BidFinish(r) ELSE BidGoto(r, "insert")
    /\ UNCHANGED <<vars, bids>>

InsertBid(r) ==
    /\ bidReq[r].pc = "insert"
    /\ Len(bids) < MaxBids
    /\ bids' = Append(bids, [carrier |-> bidReq[r].carrier, status |-> "PENDING"])
    /\ BidFinish(r)
    /\ UNCHANGED vars

(* acceptBid reads the shipment, then the bid. *)
AcceptBid(r, b) ==
    /\ Role[Owner] = "shipper"
    /\ shipment.status = "PENDING"
    /\ StartBidRequest(r, [pc |-> "findBid", bid |-> b])

FindBid(r) ==
    /\ bidReq[r].pc = "findBid"
    /\ IF bids[bidReq[r].bid].status = "PENDING" THEN BidGoto(r, "accept") ELSE BidFinish(r)
    /\ UNCHANGED <<vars, bids>>

(* bidRepo.save(bid) *)
SaveAccepted(r) ==
    /\ bidReq[r].pc = "accept"
    /\ bids' = [bids EXCEPT ![bidReq[r].bid].status = "ACCEPTED"]
    /\ BidGoto(r, "reject")
    /\ UNCHANGED vars

(* Mutant: only bids that came in earlier are rejected. *)
RejectEarlier(r) ==
    /\ bidReq[r].pc = "reject"
    /\ bids' = [b \in DOMAIN bids |->
                  IF b < bidReq[r].bid /\ bids[b].status = "PENDING"
                  THEN [bids[b] EXCEPT !.status = "REJECTED"] ELSE bids[b]]
    /\ BidGoto(r, "assign")
    /\ UNCHANGED vars

(* UPDATE bids SET status = REJECTED WHERE status = PENDING AND id <> bid *)
RejectOthers(r) ==
    /\ bidReq[r].pc = "reject"
    /\ bids' = [b \in DOMAIN bids |->
                  IF b # bidReq[r].bid /\ bids[b].status = "PENDING"
                  THEN [bids[b] EXCEPT !.status = "REJECTED"] ELSE bids[b]]
    /\ BidGoto(r, "assign")
    /\ UNCHANGED vars

(* UPDATE shipments SET carrier_id, status = ACCEPTED, whatever it was. *)
AssignCarrier(r) ==
    /\ bidReq[r].pc = "assign"
    /\ shipment' = [status |-> "ACCEPTED", carrier |-> bids[bidReq[r].bid].carrier]
    /\ visited' = visited \cup {"ACCEPTED"}
    /\ BidFinish(r)
    /\ UNCHANGED <<history, events, releases, req, begun, bids>>

(* A query throws, or the process stops. *)
FailBid(r) ==
    /\ bidReq[r] # Idle
    /\ BidFinish(r)
    /\ UNCHANGED <<vars, bids>>

BidProceed(r) ==
    \/ FindOwnBid(r) \/ InsertBid(r)
    \/ FindBid(r) \/ SaveAccepted(r) \/ RejectOthers(r) \/ AssignCarrier(r)

BidsReliableNext ==
    \/ ReliableNext /\ UNCHANGED bidVars
    \/ \E r \in BidRequests :
         \/ \E u \in Users : SubmitBid(r, u)
         \/ \E b \in DOMAIN bids : AcceptBid(r, b)
         \/ BidProceed(r)

BidsNext ==
    \/ BidsReliableNext
    \/ Next /\ UNCHANGED bidVars
    \/ \E r \in BidRequests : FailBid(r)

BidsSpec == BidsInit /\ [][BidsNext]_allVars

(* A request starts only when the one before has ended, and none fails:    *)
(* the database answers and the process runs on, so that each comes to its *)
(* end.                                                                    *)
Quiet == AllIdle /\ \A r \in BidRequests : bidReq[r] = Idle
OneByOneSpec ==
    /\ BidsInit
    /\ [][BidsReliableNext /\ (begun' # begun => Quiet)]_allVars
    /\ \A r \in Requests : WF_allVars(Proceed(r) /\ UNCHANGED bidVars)
    /\ \A r \in BidRequests : WF_allVars(BidProceed(r))

-----------------------------------------------------------------------------
Accepted == {b \in DOMAIN bids : bids[b].status = "ACCEPTED"}

(* One request at a time: an accepted bid has given the shipment its       *)
(* carrier for good, and no other bid is pending or accepted, also when    *)
(* bids, direct acceptances and cancellations alternate.                   *)
WinnerTakesAll ==
    Quiet => \A b \in Accepted :
        /\ shipment.carrier = bids[b].carrier
        /\ shipment.status # "PENDING"
        /\ \A c \in DOMAIN bids \ {b} : bids[c].status = "REJECTED"

(* An accepted bid makes the shipment ACCEPTED without a history entry. *)
Leads(from, to) ==
    \/ to \in NextStatuses[from]
    \/ Accepted # {} /\ from = "PENDING" /\ to \in NextStatuses["ACCEPTED"]

(* What the pages of a shipment show of its history, the oldest first: the *)
(* status that each entry says was taken, not the one that was left.       *)
StatusTimeline == [i \in DOMAIN history |-> history[i].to]

(* One request at a time, the timeline shows the way the shipment took     *)
(* through the table to its present status, except for the acceptance of   *)
(* a bid, which the history leaves out.                                    *)
HistoryIsTrail ==
    LET shown == StatusTimeline
    IN  Quiet /\ shown # <<>> =>
          /\ \A i \in 2..Len(shown) : Leads(shown[i - 1], shown[i])
          /\ \/ shown[Len(shown)] = shipment.status
             \/ /\ Accepted # {}
                /\ shown[Len(shown)] = "PENDING"
                /\ shipment.status = "ACCEPTED"

(* Every status the row takes is announced in the end, also when the       *)
(* release of the escrow fails; only the acceptance of a bid is not.       *)
ChangesAnnounced ==
    \A s \in Statuses :
        s \in visited ~> events[s] > 0 \/ (s = "ACCEPTED" /\ Accepted # {})
=============================================================================
