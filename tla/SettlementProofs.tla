-------------------------- MODULE SettlementProofs --------------------------
(***************************************************************************)
(* Proofs about funding and settlement, for any number of requests,        *)
(* shipments, accounts and transactions.  Part one is about Funding alone: *)
(* all but its last theorem speak of the backend's rows and requests only  *)
(* and hold whatever the network does with the transactions.  Part two is  *)
(* about Settlement, mostly with one wallet of carriers and one of payers; *)
(* its first half is about the network alone: whatever transactions are    *)
(* built, handed over, applied or dropped, and whoever else sends some, a  *)
(* deposit that is in the escrow has no other one on its way.              *)
(***************************************************************************)
EXTENDS Settlement, TLAPS

(***************************************************************************)
(* Part one: Funding.                                                      *)
(***************************************************************************)

LEMMA RowPending ==
    ASSUME NEW w \in Bindings
    PROVE  [status |-> "PENDING", carrier |-> w.carrier, shipper |-> w.shipper,
            txHash |-> NoTx] \in Rows
  BY DEF Rows, Bindings

LEMMA RowIsBound == ASSUME NEW x \in Rows PROVE Bound(x) \in Bindings
  BY DEF Rows, Bound, Bindings

(* A row that exists stays a row under each of the updates made to it. *)
LEMMA RowStatus ==
    ASSUME RequestTypeOK, NEW id \in Ids, row[id] # NoRow,
           NEW s \in {"PENDING", "FUNDING", "FUNDED"}
    PROVE  [row EXCEPT ![id].status = s] \in [Ids -> Rows \cup {NoRow}]
<1>1. row[id] \in Rows
  BY DEF RequestTypeOK
<1>2. [row[id] EXCEPT !.status = s] \in Rows
  BY <1>1 DEF Rows
<1>3. QED
  BY <1>2 DEF RequestTypeOK

(* What a request carries, by the step it is at. *)
LEMMA ReqFacts ==
    ASSUME RequestTypeOK, NEW r \in Requests
    PROVE  /\ req[r].pc = "findRow" => req[r] \in InitiateReqs
           /\ req[r].pc = "refresh" => req[r] \in RefreshReqs
           /\ req[r].pc = "update" => req[r] \in UpdateReqs
           /\ req[r].pc = "build" => req[r] \in InitiateReqs
           /\ req[r].pc = "claim" => req[r] \in SubmitReqs \cup TestReqs
           /\ req[r].pc = "sign" => req[r] \in TestReqs
           /\ req[r].pc \in {"send", "poll", "markFunded"} => req[r] \in SubmitReqs
           /\ req[r].pc = "unclaim" => req[r] \in SubmitReqs \cup TestReqs
           /\ req[r].pc # "idle" => req[r].id \in Ids
<1>1. req[r] \in {Idle} \cup InitiateReqs \cup RefreshReqs \cup UpdateReqs
                     \cup SubmitReqs \cup TestReqs
  BY DEF RequestTypeOK
<1>2. CASE req[r] = Idle
  BY <1>2 DEF Idle
<1>3. CASE req[r] \in InitiateReqs
  BY <1>3 DEF InitiateReqs
<1>4. CASE req[r] \in RefreshReqs
  BY <1>4 DEF RefreshReqs
<1>5. CASE req[r] \in UpdateReqs
  BY <1>5 DEF UpdateReqs
<1>6. CASE req[r] \in SubmitReqs
  BY <1>6 DEF SubmitReqs
<1>7. CASE req[r] \in TestReqs
  BY <1>7 DEF TestReqs
<1>8. QED
  BY <1>1, <1>2, <1>3, <1>4, <1>5, <1>6, <1>7

(* Every request that refreshes, claims or has claimed a row has one. *)
HasRow == \A r \in Requests :
    req[r].pc \in {"refresh", "update", "claim", "sign", "send", "poll", "markFunded", "unclaim"}
    => row[req[r].id] # NoRow

Typed == RequestTypeOK /\ HasRow

LEMMA RowsAreNotNoRow == ASSUME NEW x \in Rows PROVE x # NoRow
  BY DEF Rows, NoRow

(* A step of request r that keeps the types of the rows, removes none and   *)
(* leaves r at a well typed record with a row behind its claim, is typed.   *)
LEMMA RequestStep ==
    ASSUME Typed, NEW r \in Requests, NEW q, req' = [req EXCEPT ![r] = q],
           q \in {Idle} \cup InitiateReqs \cup RefreshReqs \cup UpdateReqs
                     \cup SubmitReqs \cup TestReqs,
           wallet' = wallet,
           row' \in [Ids -> Rows \cup {NoRow}],
           \A id \in Ids : row[id] # NoRow => row'[id] # NoRow,
           q.pc \in {"refresh", "update", "claim", "sign", "send", "poll", "markFunded", "unclaim"}
             => row[q.id] # NoRow
    PROVE  Typed'
<1>1. RequestTypeOK'
  BY DEF Typed, RequestTypeOK
<1>2. ASSUME NEW s \in Requests,
             req'[s].pc \in {"refresh", "update", "claim", "sign", "send", "poll", "markFunded", "unclaim"}
      PROVE  row'[req'[s].id] # NoRow
  <2>1. CASE s = r
    <3>1. req'[s] = q
      BY <2>1 DEF Typed, RequestTypeOK
    <3>2. q.id \in Ids
      BY <1>2, <3>1 DEF Idle, InitiateReqs, RefreshReqs, UpdateReqs, SubmitReqs, TestReqs
    <3>3. QED
      BY <1>2, <3>1, <3>2
  <2>2. CASE s # r
    <3>1. req'[s] = req[s]
      BY <2>2 DEF Typed, RequestTypeOK
    <3>2. req[s].id \in Ids
      BY <1>2, <3>1, ReqFacts DEF Typed
    <3>3. row[req[s].id] # NoRow
      BY <1>2, <3>1 DEF Typed, HasRow
    <3>4. QED
      BY <3>1, <3>2, <3>3
  <2>3. QED
    BY <2>1, <2>2
<1>3. QED
  BY <1>1, <1>2 DEF Typed, HasRow

(* Requests and payment rows are well typed at every step of every          *)
(* interleaving, and a request past its claim has a row: the guarantee the  *)
(* other theorems of this module stand on.                                  *)
THEOREM RequestTypes == FundingSpec => []Typed
<1>1. FundingInit => Typed
  BY DEF FundingInit, Typed, RequestTypeOK, HasRow, Idle
<1>2. ASSUME Typed, [FundingNext]_fundingVars PROVE Typed'
  <2> USE <1>2
  <2> USE DEF Typed
  <2> DEFINE All == {Idle} \cup InitiateReqs \cup RefreshReqs \cup UpdateReqs
                     \cup SubmitReqs \cup TestReqs
  <2>1. ASSUME NEW r \in Requests, NEW id \in Ids, Initiate(r, id) PROVE Typed'
    <3>1. [pc |-> "findRow", id |-> id, wallet |-> wallet[id]] \in InitiateReqs
      BY DEF RequestTypeOK, InitiateReqs
    <3>2. QED
      BY <2>1, <3>1, RequestStep DEF Initiate, RequestTypeOK
  <2>2. ASSUME NEW r \in Requests, FindRow(r) PROVE Typed'
    <3> DEFINE id == req[r].id
               w  == req[r].wallet
    <3>1. /\ req[r] \in InitiateReqs
          /\ id \in Ids /\ w \in Bindings
          /\ [req[r] EXCEPT !.pc = "build"] \in InitiateReqs
          /\ [req[r] EXCEPT !.pc = "build"].pc = "build"
      BY <2>2, ReqFacts DEF FindRow, InitiateReqs
    <3>2. CASE row[id] = NoRow /\ row' = [row EXCEPT ![id] =
                 [status |-> "PENDING", carrier |-> w.carrier, shipper |-> w.shipper,
                  txHash |-> NoTx]] /\ Goto(r, "build")
      <4>1. row' \in [Ids -> Rows \cup {NoRow}]
        BY <3>1, <3>2, RowPending DEF RequestTypeOK
      <4>2. \A i \in Ids : row[i] # NoRow => row'[i] # NoRow
        BY <3>2 DEF RequestTypeOK
      <4>3. wallet' = wallet
        BY <2>2 DEF FindRow
      <4>4. QED
        BY <3>1, <3>2, <4>1, <4>2, <4>3, RequestStep DEF Goto
    <3>3. CASE row' = row /\ Goto(r, "build")
      BY <2>2, <3>1, <3>3, RequestStep DEF Goto, FindRow, RequestTypeOK
    <3>4. CASE /\ row' = row
               /\ row[id].status = "PENDING"
               /\ req' = [req EXCEPT ![r] = [pc |-> "refresh", id |-> id,
                                             wallet |-> w, entity |-> row[id]]]
      <4>1. row[id] \in Rows
        BY <3>1, <3>4 DEF RequestTypeOK, NoRow
      <4>2. [pc |-> "refresh", id |-> id, wallet |-> w, entity |-> row[id]] \in RefreshReqs
        BY <3>1, <4>1 DEF RefreshReqs
      <4>3. QED
        BY <2>2, <3>1, <3>4, <4>1, <4>2, RowsAreNotNoRow, RequestStep
           DEF FindRow, RequestTypeOK
    <3>5. CASE row' = row /\ Finish(r)
      BY <2>2, <3>5, RequestStep DEF Finish, FindRow, RequestTypeOK, Idle
    <3>6. QED
      BY <2>2, <3>2, <3>3, <3>4, <3>5 DEF FindRow
  <2>3. ASSUME NEW r \in Requests, Refresh(r) PROVE Typed'
    <3> DEFINE id == req[r].id
               e  == [req[r].entity EXCEPT !.carrier = req[r].wallet.carrier,
                                           !.shipper = req[r].wallet.shipper]
               q  == [pc |-> "update", id |-> id, wallet |-> req[r].wallet, entity |-> e,
                      changed |-> {c \in Columns : e[c] # row[id][c]}]
    <3>1. id \in Ids /\ req[r].wallet \in Bindings /\ e \in Rows /\ row[id] # NoRow
      <4>1. req[r] \in RefreshReqs /\ id \in Ids /\ row[id] # NoRow
        BY <2>3, ReqFacts DEF Refresh, Comparing, HasRow
      <4>2. req[r].wallet \in Bindings /\ req[r].entity \in Rows
        BY <4>1 DEF RefreshReqs
      <4>3. req[r].wallet.carrier \in Wallets /\ req[r].wallet.shipper \in Payers
        BY <4>2 DEF Bindings
      <4>4. e \in Rows
        BY <4>2, <4>3 DEF Rows
      <4> QED
        BY <4>1, <4>2, <4>4
    <3>2. q \in UpdateReqs /\ q.pc = "update" /\ q.id = id
      BY <3>1 DEF UpdateReqs
    <3>3. req' = [req EXCEPT ![r] = q] /\ row' = row /\ wallet' = wallet
      BY <2>3 DEF Refresh, Comparing
    <3> HIDE DEF q
    <3>4. QED
      BY <3>1, <3>2, <3>3, RequestStep DEF RequestTypeOK
  <2>17. ASSUME NEW r \in Requests, RefreshUpdate(r) PROVE Typed'
    <3>1. /\ req[r].id \in Ids /\ req[r].wallet \in Bindings /\ req[r].entity \in Rows
      BY <2>17, ReqFacts DEF RefreshUpdate, UpdateReqs
    <3>2. row[req[r].id] # NoRow
      BY <2>17, <3>1 DEF RefreshUpdate, HasRow
    <3>3. Updated(row[req[r].id], req[r].entity, req[r].changed) \in Rows
      BY <3>1, <3>2 DEF Updated, Rows, RequestTypeOK
    <3>4. /\ row' \in [Ids -> Rows \cup {NoRow}]
          /\ \A i \in Ids : row[i] # NoRow => row'[i] # NoRow
      BY <2>17, <3>1, <3>3, RowsAreNotNoRow DEF RefreshUpdate, RequestTypeOK
    <3>5. [pc |-> "build", id |-> req[r].id, wallet |-> req[r].wallet] \in InitiateReqs
      BY <3>1 DEF InitiateReqs
    <3>6. QED
      BY <2>17, <3>4, <3>5, RequestStep DEF RefreshUpdate
  <2>4. ASSUME NEW r \in Requests, Finish(r), row' = row, wallet' = wallet PROVE Typed'
    BY <2>4, RequestStep DEF Finish, RequestTypeOK, Idle
  <2>5. ASSUME NEW r \in Requests, NEW id \in Ids, NEW t \in TxIds, Submit(r, id, t)
        PROVE  Typed'
    <3>1. [pc |-> "claim", id |-> id, tx |-> t] \in SubmitReqs
      BY DEF SubmitReqs
    <3>2. QED
      BY <2>5, <3>1, RequestStep DEF Submit, RequestTypeOK
  <2>6. ASSUME NEW r \in Requests, NEW id \in Ids, SubmitTestSigned(r, id) PROVE Typed'
    <3>1. Bound(row[id]) \in Bindings
      BY <2>6, RowIsBound DEF SubmitTestSigned, RequestTypeOK
    <3>2. [pc |-> "claim", id |-> id, tx |-> NoTx, wallet |-> Bound(row[id])] \in TestReqs
      BY <3>1 DEF TestReqs
    <3>3. QED
      BY <2>6, <3>2, RequestStep DEF SubmitTestSigned, RequestTypeOK
  <2>7. ASSUME NEW r \in Requests, Claim(r) PROVE Typed'
    <3> DEFINE next == IF req[r].tx = NoTx THEN "sign" ELSE "send"
    <3>1. /\ req[r] \in SubmitReqs \cup TestReqs
          /\ req[r].id \in Ids
          /\ row[req[r].id] # NoRow
      BY <2>7, ReqFacts DEF Claim, HasRow
    <3>2. CASE Goto(r, next) /\ row' = [row EXCEPT ![req[r].id].status = "FUNDING"]
      <4>1. [req[r] EXCEPT !.pc = next] \in SubmitReqs \cup TestReqs
        <5>1. CASE req[r] \in SubmitReqs
          <6>1. next = "send"
            BY <5>1 DEF SubmitReqs, TxIds, NoTx
          <6>2. QED
            BY <5>1, <6>1 DEF SubmitReqs
        <5>2. CASE req[r] \in TestReqs
          BY <5>2 DEF TestReqs
        <5>3. QED
          BY <3>1, <5>1, <5>2
      <4>2. [req[r] EXCEPT !.pc = next].id = req[r].id
        BY <3>1 DEF SubmitReqs, TestReqs
      <4>3. row' \in [Ids -> Rows \cup {NoRow}]
        BY <3>1, <3>2, RowStatus
      <4>4. \A i \in Ids : row[i] # NoRow => row'[i] # NoRow
        BY <3>1, <3>2 DEF RequestTypeOK, NoRow, Rows
      <4>5. QED
        BY <2>7, <3>1, <3>2, <4>1, <4>2, <4>3, <4>4, RequestStep DEF Claim, Goto
    <3>3. QED
      BY <2>4, <2>7, <3>2 DEF Claim
  <2>8. ASSUME NEW r \in Requests, SignTest(r) PROVE Typed'
    <3>1. /\ req[r] \in TestReqs
          /\ req[r].id \in Ids
          /\ row[req[r].id] # NoRow
      BY <2>8, ReqFacts DEF SignTest, HasRow
    <3>2. ASSUME NEW t \in TxIds,
                 req' = [req EXCEPT ![r] = [pc |-> "send", id |-> req[r].id, tx |-> t]]
          PROVE  Typed'
      <4>1. [pc |-> "send", id |-> req[r].id, tx |-> t] \in SubmitReqs
        BY <3>1 DEF SubmitReqs
      <4>2. QED
        BY <2>8, <3>1, <3>2, <4>1, RequestStep DEF SignTest, RequestTypeOK
    <3>3. CASE Goto(r, "unclaim")
      <4>1. /\ [req[r] EXCEPT !.pc = "unclaim"] \in TestReqs
            /\ [req[r] EXCEPT !.pc = "unclaim"].id = req[r].id
        BY <3>1 DEF TestReqs
      <4>2. QED
        BY <2>8, <3>1, <3>3, <4>1, RequestStep DEF SignTest, Goto, RequestTypeOK
    <3>4. QED
      BY <2>8, <3>2, <3>3 DEF SignTest
  <2>9. ASSUME NEW r \in Requests, req[r].pc \in {"send", "poll", "markFunded"},
               NEW pc \in {"poll", "markFunded", "unclaim"}, Goto(r, pc),
               row' = row, wallet' = wallet
        PROVE  Typed'
    <3>1. /\ req[r] \in SubmitReqs
          /\ row[req[r].id] # NoRow
      BY <2>9, ReqFacts DEF HasRow
    <3>2. /\ [req[r] EXCEPT !.pc = pc] \in SubmitReqs
          /\ [req[r] EXCEPT !.pc = pc].id = req[r].id
      BY <3>1 DEF SubmitReqs
    <3>3. QED
      BY <2>9, <3>1, <3>2, RequestStep DEF Goto, RequestTypeOK
  <2>10. ASSUME NEW r \in Requests, MarkFunded(r) PROVE Typed'
    <3>1. /\ req[r] \in SubmitReqs
          /\ req[r].id \in Ids /\ req[r].tx \in TxIds
          /\ row[req[r].id] \in Rows
      BY <2>10, ReqFacts DEF MarkFunded, HasRow, SubmitReqs, RequestTypeOK
    <3>2. CASE /\ row' = [row EXCEPT ![req[r].id].status = "FUNDED",
                                     ![req[r].id].txHash = req[r].tx]
               /\ Finish(r)
      <4> DEFINE new == [[row[req[r].id] EXCEPT !.status = "FUNDED"] EXCEPT !.txHash = req[r].tx]
      <4>1. new \in Rows
        BY <3>1 DEF Rows
      <4>2. row' = [row EXCEPT ![req[r].id] = new]
        BY <3>1, <3>2 DEF RequestTypeOK
      <4>3. /\ row' \in [Ids -> Rows \cup {NoRow}]
            /\ \A i \in Ids : row[i] # NoRow => row'[i] # NoRow
        BY <4>1, <4>2, RowsAreNotNoRow DEF RequestTypeOK
      <4>4. QED
        BY <2>10, <3>2, <4>3, RequestStep DEF MarkFunded, Finish, Idle
    <3>3. QED
      BY <2>9, <2>10, <3>2 DEF MarkFunded
  <2>11. ASSUME NEW r \in Requests, Unclaim(r) PROVE Typed'
    <3>1. req[r].id \in Ids /\ row[req[r].id] # NoRow
      BY <2>11, ReqFacts DEF Unclaim, HasRow
    <3>2. row' \in [Ids -> Rows \cup {NoRow}]
      BY <2>11, <3>1, RowStatus DEF Unclaim
    <3>3. \A i \in Ids : row[i] # NoRow => row'[i] # NoRow
      BY <2>11, <3>1 DEF Unclaim, RequestTypeOK, NoRow, Rows
    <3>4. QED
      BY <2>11, <3>2, <3>3, RequestStep DEF Unclaim, Finish, Idle
  <2>12. CASE Crash
    BY <2>12 DEF Crash, RequestTypeOK, HasRow, Idle
  <2>13. ASSUME NEW id \in Ids, NEW party \in {"carrier", "shipper"}, NEW w,
                party = "carrier" => w \in Wallets, party = "shipper" => w \in Payers,
                ChangeWallet(id, party, w)
         PROVE  Typed'
    <3>1. [wallet[id] EXCEPT ![party] = w] \in Bindings
      BY <2>13 DEF RequestTypeOK, Bindings
    <3>2. wallet' = [wallet EXCEPT ![id] = [wallet[id] EXCEPT ![party] = w]]
      BY <2>13 DEF ChangeWallet, RequestTypeOK
    <3>3. QED
      BY <2>13, <3>1, <3>2 DEF ChangeWallet, RequestTypeOK, HasRow
  <2>14. CASE UNCHANGED <<wallet, row, req>>
    BY <2>14 DEF RequestTypeOK, HasRow
  <2>15. ASSUME NEW r \in Requests, Proceed(r) PROVE Typed'
    BY <2>2, <2>3, <2>4, <2>7, <2>8, <2>9, <2>10, <2>11, <2>15, <2>17
       DEF Proceed, BuildXdr, InitiateFails, SendAccepted, SendRejected,
           SendResponseLost, SendUnclear, Poll
  <2>16. QED
    BY <2>1, <2>4, <2>5, <2>6, <2>12, <2>13, <2>14, <2>15
       DEF FundingNext, ReliableNext, Ledger, ShipmentMoves, UnclaimFails, fundingVars
<1>3. QED
  BY <1>1, <1>2, PTL DEF FundingSpec

-----------------------------------------------------------------------------
(* What makes the claim a lock: a request in flight keeps its row FUNDING,  *)
(* two in flight never share a row, and no save of a stale entity is on its *)
(* way, which is the one step that can open the lock from outside.          *)
ClaimIsLock ==
    /\ SingleFlight
    /\ \A r \in Requests : InFlight(r) => row[req[r].id].status = "FUNDING"
    /\ \A r \in Requests : req[r].pc \notin {"refresh", "update"}

(* A step of r that leaves every row in flight for another request alone.   *)
LEMMA LockStep ==
    ASSUME Typed, ClaimIsLock, NEW r \in Requests, NEW q,
           req' = [req EXCEPT ![r] = q], q.pc \notin {"refresh", "update"},
           q.pc \in {"sign", "send", "poll", "markFunded", "unclaim"} =>
              /\ row'[q.id].status = "FUNDING"
              /\ \A s \in Requests \ {r} : InFlight(s) => req[s].id # q.id,
           \A s \in Requests \ {r} : InFlight(s) => row'[req[s].id] = row[req[s].id]
    PROVE  ClaimIsLock'
<1>1. /\ req'[r] = q
      /\ \A s \in Requests \ {r} : req'[s] = req[s]
  BY DEF Typed, RequestTypeOK
<1>2. \A s \in Requests : InFlight(s)' => row'[req'[s].id].status = "FUNDING"
  BY <1>1 DEF ClaimIsLock, InFlight
<1>3. SingleFlight'
  BY <1>1 DEF ClaimIsLock, SingleFlight, InFlight
<1>4. \A s \in Requests : req'[s].pc \notin {"refresh", "update"}
  BY <1>1 DEF ClaimIsLock
<1>5. QED
  BY <1>2, <1>3, <1>4 DEF ClaimIsLock

(* A step that takes r to a point where it holds no claim. *)
LEMMA UnlockedStep ==
    ASSUME Typed, ClaimIsLock, NEW r \in Requests, NEW q,
           req' = [req EXCEPT ![r] = q],
           q.pc \in {"idle", "findRow", "build", "claim"},
           \A s \in Requests \ {r} : InFlight(s) => row'[req[s].id] = row[req[s].id]
    PROVE  ClaimIsLock'
<1>1. q.pc \notin {"refresh", "update"} /\ q.pc \notin {"sign", "send", "poll", "markFunded", "unclaim"}
  OBVIOUS
<1>2. QED
  BY <1>1, LockStep

(* Nobody changes a wallet: there is one for carriers and one for payers.  *)
OneWallet == \A v, w \in Bindings : v = w

LEMMA ClaimLocks == OneWallet => (FundingSpec => []ClaimIsLock)
<1> SUFFICES ASSUME OneWallet PROVE FundingSpec => []ClaimIsLock
  OBVIOUS
<1> USE DEF OneWallet
<1>1. FundingInit => ClaimIsLock
  BY DEF FundingInit, ClaimIsLock, SingleFlight, InFlight, Idle
<1>2. ASSUME Typed, ClaimIsLock, [FundingNext]_fundingVars PROVE ClaimIsLock'
  <2> USE <1>2
  <2>1. ASSUME NEW r \in Requests, Finish(r), row' = row PROVE ClaimIsLock'
    BY <2>1, UnlockedStep DEF Finish, Idle
  <2>2. ASSUME NEW r \in Requests, NEW id \in Ids, Initiate(r, id) PROVE ClaimIsLock'
    <3>1. [pc |-> "findRow", id |-> id, wallet |-> wallet[id]].pc = "findRow"
      OBVIOUS
    <3>2. QED
      BY <2>2, <3>1, UnlockedStep DEF Initiate
  <2>3. ASSUME NEW r \in Requests, FindRow(r) PROVE ClaimIsLock'
    <3>1. /\ req[r] \in InitiateReqs /\ req[r].id \in Ids /\ req[r].wallet \in Bindings
          /\ [req[r] EXCEPT !.pc = "build"].pc = "build"
      BY <2>3, ReqFacts DEF FindRow, InitiateReqs, Typed
    <3>2. CASE row[req[r].id] = NoRow /\ Goto(r, "build")
               /\ \E x : row' = [row EXCEPT ![req[r].id] = x]
      <4>1. \A s \in Requests : InFlight(s) => req[s].id # req[r].id
        BY <3>2 DEF ClaimIsLock, NoRow
      <4>2. \A s \in Requests : InFlight(s) => row'[req[s].id] = row[req[s].id]
        BY <3>2, <4>1, ReqFacts DEF InFlight, Typed, RequestTypeOK
      <4>3. QED
        BY <3>1, <3>2, <4>2, LockStep DEF Goto
    <3>3. CASE row' = row /\ Goto(r, "build")
      BY <3>1, <3>3, LockStep DEF Goto
    <3>4. row[req[r].id].status = "PENDING" => Bound(row[req[r].id]) = req[r].wallet
      <4>1. row[req[r].id].status = "PENDING" => Bound(row[req[r].id]) \in Bindings
        BY <3>1, RowIsBound DEF Typed, RequestTypeOK, Rows, NoRow
      <4>2. QED
        BY <3>1, <4>1
    <3>5. QED
      BY <2>1, <2>3, <3>2, <3>3, <3>4 DEF FindRow
  <2>4. ASSUME NEW r \in Requests, Refresh(r) \/ RefreshUpdate(r) PROVE FALSE
    BY <2>4 DEF Refresh, Comparing, RefreshUpdate, ClaimIsLock
  <2>5. ASSUME NEW r \in Requests, NEW id \in Ids,
               \/ \E t \in TxIds : Submit(r, id, t)
               \/ SubmitTestSigned(r, id)
        PROVE  ClaimIsLock'
    <3>1. \E q : q.pc = "claim" /\ req' = [req EXCEPT ![r] = q]
      <4>1. ASSUME NEW t \in TxIds, Submit(r, id, t)
            PROVE  \E q : q.pc = "claim" /\ req' = [req EXCEPT ![r] = q]
        <5>1. [pc |-> "claim", id |-> id, tx |-> t].pc = "claim"
          OBVIOUS
        <5>2. QED
          BY <4>1, <5>1 DEF Submit
      <4>2. ASSUME SubmitTestSigned(r, id)
            PROVE  \E q : q.pc = "claim" /\ req' = [req EXCEPT ![r] = q]
        <5>1. [pc |-> "claim", id |-> id, tx |-> NoTx, wallet |-> Bound(row[id])].pc = "claim"
          OBVIOUS
        <5>2. QED
          BY <4>2, <5>1 DEF SubmitTestSigned
      <4>3. QED
        BY <2>5, <4>1, <4>2
    <3>2. row' = row
      BY <2>5 DEF Submit, SubmitTestSigned
    <3>3. QED
      BY <3>1, <3>2, UnlockedStep
  <2>6. ASSUME NEW r \in Requests, Claim(r) PROVE ClaimIsLock'
    <3> DEFINE next == IF req[r].tx = NoTx THEN "sign" ELSE "send"
               q == [req[r] EXCEPT !.pc = next]
    <3>1. /\ req[r] \in SubmitReqs \cup TestReqs
          /\ req[r].id \in Ids
          /\ row[req[r].id] \in Rows
      BY <2>6, ReqFacts DEF Claim, HasRow, Typed, RequestTypeOK
    <3>2. CASE /\ row[req[r].id].status = "PENDING"
               /\ row' = [row EXCEPT ![req[r].id].status = "FUNDING"]
               /\ Goto(r, next)
      <4>1. q.id = req[r].id /\ q.pc = next
        BY <3>1 DEF SubmitReqs, TestReqs
      <4>2. \A s \in Requests : InFlight(s) => req[s].id # req[r].id
        BY <3>2 DEF ClaimIsLock
      <4>3. row'[req[r].id].status = "FUNDING"
        BY <3>1, <3>2 DEF Typed, RequestTypeOK, Rows
      <4>4. \A s \in Requests : InFlight(s) => row'[req[s].id] = row[req[s].id]
        BY <3>2, <4>2, ReqFacts DEF InFlight, Typed, RequestTypeOK
      <4>5. QED
        <5>1. req' = [req EXCEPT ![r] = q]
          BY <3>2 DEF Goto
        <5>2. q.pc \notin {"refresh", "update"} /\ row'[q.id].status = "FUNDING"
          BY <4>1, <4>3
        <5>3. \A s \in Requests \ {r} : InFlight(s) => req[s].id # q.id
          BY <4>1, <4>2
        <5> HIDE DEF q, next
        <5>4. QED
          BY <4>4, <5>1, <5>2, <5>3, LockStep
    <3>3. QED
      BY <2>1, <2>6, <3>2 DEF Claim
  <2>7. ASSUME NEW r \in Requests, InFlight(r), row' = row,
               NEW q, req' = [req EXCEPT ![r] = q], q.id = req[r].id,
               q.pc \in {"send", "poll", "markFunded", "unclaim"}
        PROVE  ClaimIsLock'
    <3>1. row[req[r].id].status = "FUNDING"
      BY <2>7 DEF ClaimIsLock
    <3>2. \A s \in Requests \ {r} : InFlight(s) => req[s].id # req[r].id
      BY <2>7 DEF ClaimIsLock, SingleFlight
    <3>3. QED
      BY <2>7, <3>1, <3>2, LockStep
  <2>8. ASSUME NEW r \in Requests, req[r].pc \in {"sign", "send", "poll", "markFunded"},
               NEW pc \in {"poll", "markFunded", "unclaim"}, Goto(r, pc), row' = row
        PROVE  ClaimIsLock'
    <3>1. /\ [req[r] EXCEPT !.pc = pc].id = req[r].id
          /\ [req[r] EXCEPT !.pc = pc].pc = pc
      BY <2>8, ReqFacts DEF SubmitReqs, TestReqs, Typed
    <3>2. QED
      BY <2>7, <2>8, <3>1 DEF Goto, InFlight
  <2>9. ASSUME NEW r \in Requests, SignTest(r) PROVE ClaimIsLock'
    <3>1. ASSUME NEW t \in TxIds,
                 req' = [req EXCEPT ![r] = [pc |-> "send", id |-> req[r].id, tx |-> t]]
          PROVE  ClaimIsLock'
      BY <2>7, <2>9, <3>1 DEF SignTest, InFlight
    <3>2. QED
      BY <2>8, <2>9, <3>1 DEF SignTest
  <2>10. ASSUME NEW r \in Requests, InFlight(r), Finish(r),
                \A i \in Ids : i # req[r].id => row'[i] = row[i]
         PROVE  ClaimIsLock'
    <3>1. \A s \in Requests \ {r} : InFlight(s) => req[s].id # req[r].id /\ req[s].id \in Ids
      BY <2>10, ReqFacts DEF ClaimIsLock, SingleFlight, InFlight, Typed
    <3>2. QED
      BY <2>10, <3>1, UnlockedStep DEF Finish, Idle
  <2>11. ASSUME NEW r \in Requests, MarkFunded(r) PROVE ClaimIsLock'
    <3>1. CASE row' = [row EXCEPT ![req[r].id].status = "FUNDED",
                                  ![req[r].id].txHash = req[r].tx]
               /\ Finish(r)
      <4>1. \A i \in Ids : i # req[r].id => row'[i] = row[i]
        BY <3>1 DEF Typed, RequestTypeOK
      <4>2. QED
        BY <2>10, <2>11, <3>1, <4>1 DEF MarkFunded, InFlight
    <3>2. QED
      BY <2>8, <2>11, <3>1 DEF MarkFunded
  <2>12. ASSUME NEW r \in Requests, Unclaim(r) PROVE ClaimIsLock'
    <3>1. \A i \in Ids : i # req[r].id => row'[i] = row[i]
      BY <2>12 DEF Unclaim, Typed, RequestTypeOK
    <3>2. QED
      BY <2>10, <2>12, <3>1 DEF Unclaim, InFlight
  <2>13. CASE Crash
    BY <2>13 DEF Crash, ClaimIsLock, SingleFlight, InFlight, Idle
  <2>14. CASE UNCHANGED <<row, req>>
    BY <2>14 DEF ClaimIsLock, SingleFlight, InFlight
  <2>15. ASSUME NEW r \in Requests, Proceed(r) PROVE ClaimIsLock'
    BY <2>1, <2>3, <2>4, <2>6, <2>8, <2>9, <2>11, <2>12, <2>15
       DEF Proceed, BuildXdr, InitiateFails, SendAccepted, SendRejected,
           SendResponseLost, SendUnclear, Poll
  <2>16. QED
    BY <2>1, <2>2, <2>5, <2>13, <2>14, <2>15
       DEF FundingNext, ReliableNext, Ledger, ShipmentMoves, ChangeWallet,
           UnclaimFails, fundingVars
<1>3. QED
  BY <1>1, <1>2, RequestTypes, PTL DEF FundingSpec

(* With one wallet for carriers and one for payers, however many requests   *)
(* race, fail or are cut short by a crash, no two of them ever submit for   *)
(* the same payment.                                                        *)
THEOREM ClaimExcludes == OneWallet => (FundingSpec => []SingleFlight)
<1>1. ClaimIsLock => SingleFlight
  BY DEF ClaimIsLock
<1>2. QED
  BY <1>1, ClaimLocks, PTL

(* ... and no late failure, retry or duplicate takes a FUNDED row back.     *)
THEOREM FundedStays == OneWallet => (FundingSpec => FundedIsFinal)
<1> SUFFICES ASSUME OneWallet PROVE FundingSpec => FundedIsFinal
  OBVIOUS
<1>1. ASSUME Typed, ClaimIsLock, [FundingNext]_fundingVars,
             NEW id \in Ids, row[id].status = "FUNDED"
      PROVE  row'[id].status = "FUNDED"
  <2> USE <1>1
  <2>1. \A r \in Requests : InFlight(r) => req[r].id # id
    BY DEF ClaimIsLock
  <2>2. ASSUME row' = row PROVE row'[id].status = "FUNDED"
    BY <2>2
  <2>3. ASSUME NEW i \in Ids, i # id, NEW x, row' = [row EXCEPT ![i] = x]
        PROVE  row'[id].status = "FUNDED"
    BY <2>3 DEF Typed, RequestTypeOK
  <2>4. ASSUME NEW r \in Requests, FindRow(r) PROVE row'[id].status = "FUNDED"
    <3>1. req[r].id \in Ids
      BY <2>4, ReqFacts DEF FindRow, Typed
    <3>2. row[req[r].id] = NoRow => req[r].id # id
      BY DEF NoRow
    <3>3. QED
      BY <2>3, <2>4, <3>1, <3>2 DEF FindRow
  <2>5. ASSUME NEW r \in Requests, Claim(r) PROVE row'[id].status = "FUNDED"
    <3>1. req[r].id \in Ids
      BY <2>5, ReqFacts DEF Claim, Typed
    <3>2. CASE row[req[r].id].status = "PENDING"
      BY <2>3, <2>5, <3>1, <3>2 DEF Claim
    <3>3. QED
      BY <2>5, <3>2 DEF Claim
  <2>6. ASSUME NEW r \in Requests, MarkFunded(r) \/ Unclaim(r)
        PROVE  row'[id].status = "FUNDED"
    <3>1. InFlight(r) /\ req[r].id \in Ids /\ req[r].id # id
      BY <2>1, <2>6, ReqFacts DEF MarkFunded, Unclaim, InFlight, Typed
    <3>2. row' = row \/ row'[id] = row[id]
      BY <2>6, <3>1 DEF MarkFunded, Unclaim, Typed, RequestTypeOK
    <3>3. QED
      BY <3>2
  <2>7. ASSUME NEW r \in Requests, Refresh(r) \/ RefreshUpdate(r) PROVE FALSE
    BY <2>7 DEF Refresh, Comparing, RefreshUpdate, ClaimIsLock
  <2>8. ASSUME NEW r \in Requests, Proceed(r) PROVE row'[id].status = "FUNDED"
    BY <2>2, <2>4, <2>5, <2>6, <2>7, <2>8
       DEF Proceed, BuildXdr, InitiateFails, SignTest, SendAccepted, SendRejected,
           SendResponseLost, SendUnclear, Poll
  <2>9. QED
    BY <2>2, <2>8
       DEF FundingNext, ReliableNext, Initiate, Submit, SubmitTestSigned, Ledger,
           ShipmentMoves, ChangeWallet, UnclaimFails, Crash, fundingVars
<1>2. Typed /\ ClaimIsLock /\ [FundingNext]_fundingVars =>
        [\A id \in Ids : row[id].status = "FUNDED" => row'[id].status = "FUNDED"]_fundingVars
  BY <1>1
<1>3. QED
  BY <1>2, ClaimLocks, RequestTypes, PTL DEF FundingSpec, FundedIsFinal

-----------------------------------------------------------------------------
(* The safety half of ClaimEnds, for any wallets: while the process runs   *)
(* and the database answers the catch, a row is FUNDING only as long as a  *)
(* submission for it is under way,                                         *)
ClaimIsHeld == \A id \in Ids : row[id].status = "FUNDING" => InFlightFor(id) # {}

(* ... and each step of a submission brings it nearer to its end, of which *)
(* it is five steps away at most, or ends it and takes the row out of      *)
(* FUNDING.                                                                *)
Stage(q) ==
    CASE q.pc = "sign" -> 1 [] q.pc = "send" -> 2 [] q.pc = "poll" -> 3
      [] q.pc = "markFunded" -> 4 [] q.pc = "unclaim" -> 5 [] OTHER -> 0

Advances(r) ==
    InFlight(r) /\ req'[r] # req[r] =>
        IF InFlight(r)'
        THEN Stage(req'[r]) \in Stage(req[r]) + 1 .. 5 /\ req'[r].id = req[r].id
        ELSE row'[req[r].id].status # "FUNDING"

ClaimAdvances == [][\A r \in Requests : Advances(r)]_fundingVars

(* What is written back over a row was read when it was PENDING.           *)
EntitiesPending ==
    \A r \in Requests : req[r].pc \in {"refresh", "update"} => req[r].entity.status = "PENDING"

(* A step of one request: how its place in the submission and the row of   *)
(* its shipment change with each other.                                    *)
HeldStep(r) ==
    /\ \A s \in Requests \ {r} : req'[s] = req[s]
    /\ \A id \in Ids \ {req[r].id} : row'[id] = row[id]
    /\ Advances(r)
    /\ req[r].id \in Ids /\ row'[req[r].id].status = "FUNDING" =>
         \/ InFlight(r)' /\ req'[r].id = req[r].id
         \/ ~InFlight(r) /\ row[req[r].id].status = "FUNDING"
    /\ req'[r].pc \in {"refresh", "update"} => req'[r].entity.status = "PENDING"

LEMMA ProceedHolds ==
    ASSUME Typed, EntitiesPending, NEW r \in Requests, Proceed(r)
    PROVE  HeldStep(r)
<1>0. /\ DOMAIN req = Requests /\ row \in [Ids -> Rows \cup {NoRow}]
      /\ req[r].pc # "idle" => req[r].id \in Ids
      /\ req[r].pc = "findRow" => req[r] \in InitiateReqs
  BY ReqFacts DEF Typed, RequestTypeOK
<1>1. CASE Finish(r) /\ row' = row /\ ~InFlight(r)
  BY <1>0, <1>1 DEF Finish, HeldStep, Advances, InFlight, Idle
<1>2. CASE FindRow(r)
  BY <1>0, <1>2
     DEF FindRow, Goto, Finish, HeldStep, Advances, InFlight, InitiateReqs, Idle, NoRow
<1>3. CASE Refresh(r)
  BY <1>0, <1>3, ReqFacts
     DEF Typed, EntitiesPending, Refresh, Comparing, RefreshReqs, Rows, HeldStep, Advances, InFlight
<1>4. CASE RefreshUpdate(r)
  <2>1. /\ req[r].entity.status = "PENDING" /\ req[r].id \in Ids
        /\ row' = [row EXCEPT ![req[r].id] = Updated(@, req[r].entity, req[r].changed)]
        /\ req'[r].pc = "build" /\ ~InFlight(r)
        /\ \A s \in Requests \ {r} : req'[s] = req[s]
    BY <1>0, <1>4, ReqFacts DEF Typed, EntitiesPending, RefreshUpdate, InFlight
  <2>2. row[req[r].id] \in Rows
    BY <1>0, <1>4, <2>1 DEF Typed, HasRow, RefreshUpdate
  <2>3. row'[req[r].id] = Updated(row[req[r].id], req[r].entity, req[r].changed)
    BY <1>0, <2>1
  <2> QED
    BY <1>0, <2>1, <2>2, <2>3 DEF HeldStep, Advances, InFlight, Updated
<1>5. CASE Claim(r)
  BY <1>0, <1>5, ReqFacts
     DEF Typed, HasRow, Claim, Goto, Finish, HeldStep, Advances, InFlight, Idle, Rows,
         SubmitReqs, TestReqs
<1>6. CASE SignTest(r)
  <2>1. req[r] \in TestReqs /\ row' = row /\ req[r].pc = "sign"
    BY <1>6, ReqFacts DEF Typed, SignTest
  <2>2. /\ req'[r].pc \in {"send", "unclaim"} /\ req'[r].id = req[r].id
        /\ \A s \in Requests \ {r} : req'[s] = req[s]
    BY <1>0, <1>6, <2>1 DEF SignTest, Goto, TestReqs
  <2> QED
    BY <2>1, <2>2 DEF HeldStep, Advances, InFlight, Stage
<1>7. ASSUME SendAccepted(r) \/ SendRejected(r) \/ SendResponseLost(r) \/ SendUnclear(r) \/ Poll(r)
      PROVE  HeldStep(r)
  <2>1. req[r] \in SubmitReqs /\ row' = row
    BY <1>7, ReqFacts
       DEF Typed, SendAccepted, SendRejected, SendResponseLost, SendUnclear, Poll
  <2>2. /\ \/ req[r].pc = "send" /\ req'[r].pc \in {"markFunded", "unclaim", "poll"}
           \/ req[r].pc = "poll" /\ req'[r].pc \in {"markFunded", "unclaim"}
        /\ req'[r].id = req[r].id
        /\ \A s \in Requests \ {r} : req'[s] = req[s]
    BY <1>0, <1>7, <2>1
       DEF SendAccepted, SendRejected, SendResponseLost, SendUnclear, Poll, Goto, SubmitReqs
  <2> QED
    BY <2>1, <2>2 DEF HeldStep, Advances, InFlight, Stage
<1>8. CASE MarkFunded(r)
  <2>1. req[r] \in SubmitReqs /\ req[r].id \in Ids /\ row[req[r].id] \in Rows /\ req[r].pc = "markFunded"
    BY <1>0, <1>8, ReqFacts DEF Typed, HasRow, MarkFunded
  <2>2. CASE Finish(r) /\ row' = [row EXCEPT ![req[r].id].status = "FUNDED",
                                            ![req[r].id].txHash = req[r].tx]
    <3>1. /\ row'[req[r].id].status = "FUNDED" /\ req'[r] = Idle
          /\ \A s \in Requests \ {r} : req'[s] = req[s]
          /\ \A id \in Ids \ {req[r].id} : row'[id] = row[id]
      BY <1>0, <2>1, <2>2 DEF Finish, Rows
    <3> QED
      BY <3>1 DEF HeldStep, Advances, InFlight, Idle
  <2>3. CASE Goto(r, "unclaim") /\ row' = row
    <3>1. /\ req'[r].pc = "unclaim" /\ req'[r].id = req[r].id
          /\ \A s \in Requests \ {r} : req'[s] = req[s]
      BY <1>0, <2>1, <2>3 DEF Goto, SubmitReqs
    <3> QED
      BY <2>1, <2>3, <3>1 DEF HeldStep, Advances, InFlight, Stage
  <2> QED
    BY <1>8, <2>2, <2>3 DEF MarkFunded
<1>9. CASE Unclaim(r)
  <2>1. req[r].id \in Ids /\ row[req[r].id] \in Rows
    BY <1>0, <1>9, ReqFacts DEF Typed, HasRow, Unclaim
  <2>2. /\ row'[req[r].id].status = "PENDING" /\ req'[r] = Idle
        /\ \A s \in Requests \ {r} : req'[s] = req[s]
        /\ \A id \in Ids \ {req[r].id} : row'[id] = row[id]
    BY <1>0, <1>9, <2>1 DEF Unclaim, Finish, Rows
  <2> QED
    BY <2>2 DEF HeldStep, Advances, InFlight, Idle
<1>10. BuildXdr(r) \/ InitiateFails(r) => Finish(r) /\ row' = row /\ ~InFlight(r)
  BY DEF BuildXdr, InitiateFails, InFlight
<1> QED
  BY <1>1, <1>2, <1>3, <1>4, <1>5, <1>6, <1>7, <1>8, <1>9, <1>10 DEF Proceed

(* A request that is not a submission yet begins, a row is left alone.     *)
LEMMA StartHolds ==
    ASSUME Typed, NEW r \in Requests, NEW q, req[r] = Idle, req' = [req EXCEPT ![r] = q],
           row' = row, q.pc \in {"findRow", "claim"}
    PROVE  HeldStep(r)
  BY DEF Typed, RequestTypeOK, HeldStep, Advances, InFlight, Idle

LEMMA ReliableHolds ==
    ASSUME Typed, EntitiesPending, [ReliableNext]_fundingVars
    PROVE  (\E r \in Requests : HeldStep(r)) \/ UNCHANGED <<row, req>>
<1>1. ASSUME NEW r \in Requests, NEW id \in Ids, Initiate(r, id) PROVE HeldStep(r)
  BY <1>1, StartHolds DEF Initiate
<1>2. ASSUME NEW r \in Requests, NEW id \in Ids, NEW t \in TxIds, Submit(r, id, t)
      PROVE  HeldStep(r)
  BY <1>2, StartHolds DEF Submit
<1>3. ASSUME NEW r \in Requests, NEW id \in Ids, SubmitTestSigned(r, id) PROVE HeldStep(r)
  BY <1>3, StartHolds DEF SubmitTestSigned
<1> QED
  BY <1>1, <1>2, <1>3, ProceedHolds
     DEF ReliableNext, Ledger, ShipmentMoves, ChangeWallet, fundingVars

LEMMA HeldKeeps ==
    ASSUME Typed, EntitiesPending, ClaimIsHeld, NEW r \in Requests, HeldStep(r)
    PROVE  /\ EntitiesPending' /\ ClaimIsHeld'
           /\ \A s \in Requests : Advances(s)
<1>1. ASSUME NEW id \in Ids, row'[id].status = "FUNDING" PROVE InFlightFor(id)' # {}
  <2>1. CASE id = req[r].id /\ InFlight(r)' /\ req'[r].id = id
    BY <2>1 DEF InFlightFor
  <2>2. CASE row[id].status = "FUNDING" /\ (id = req[r].id => ~InFlight(r))
    <3>1. PICK s \in Requests : InFlight(s) /\ req[s].id = id
      BY <1>1, <2>2 DEF ClaimIsHeld, InFlightFor
    <3>2. req'[s] = req[s]
      BY <2>2, <3>1 DEF HeldStep
    <3> QED
      BY <3>1, <3>2 DEF InFlightFor, InFlight
  <2> QED
    BY <1>1, <2>1, <2>2 DEF HeldStep
<1>2. \A s \in Requests : Advances(s)
  BY DEF HeldStep, Advances
<1>3. EntitiesPending'
  BY DEF EntitiesPending, HeldStep
<1> QED
  BY <1>1, <1>2, <1>3 DEF ClaimIsHeld

THEOREM ClaimsAreHeld == ReliableSpec => []ClaimIsHeld /\ ClaimAdvances
<1>1. FundingInit => EntitiesPending /\ ClaimIsHeld
  BY DEF FundingInit, EntitiesPending, ClaimIsHeld, Idle, NoRow
<1>2. ASSUME Typed, EntitiesPending, ClaimIsHeld, [ReliableNext]_fundingVars
      PROVE  EntitiesPending' /\ ClaimIsHeld' /\ \A r \in Requests : Advances(r)
  <2>1. CASE UNCHANGED <<row, req>>
    BY <1>2, <2>1 DEF EntitiesPending, ClaimIsHeld, InFlightFor, InFlight, Advances
  <2> QED
    BY <1>2, <2>1, ReliableHolds, HeldKeeps
<1>3. Typed /\ EntitiesPending /\ ClaimIsHeld /\ [ReliableNext]_fundingVars =>
        [\A r \in Requests : Advances(r)]_fundingVars
  BY <1>2
<1>4. ReliableSpec => FundingSpec
  <2>1. [ReliableNext]_fundingVars => [FundingNext]_fundingVars
    BY DEF FundingNext
  <2> QED
    BY <2>1, PTL DEF ReliableSpec, FundingSpec
<1> QED
  BY <1>1, <1>2, <1>3, <1>4, RequestTypes, PTL DEF ReliableSpec, ClaimAdvances

-----------------------------------------------------------------------------
(* The transactions a funding request builds.                              *)
Phases == {"built", "queued", "succeeded", "failed", "dropped"}
Calls == [op : {"fund"}, id : Ids, carrier : Wallets, amount : {Price}]
Transactions == [phase : Phases, source : Accounts, seq : Nat, call : Calls]

TxTyped ==
    /\ txs \in [TxIds -> Transactions \cup {Unused}]
    /\ seq \in [Accounts -> Nat]

(* Once built a transaction keeps its call, and it never comes back from   *)
(* the network.                                                            *)
TxKept ==
    \A t \in TxIds : txs[t] # Unused =>
        /\ txs'[t] # Unused
        /\ txs'[t].call = txs[t].call
        /\ Reached(t) => Reached(t)'

LEMMA UnusedIsNoTransaction == Unused \notin Transactions
  BY DEF Unused, Transactions

LEMMA PhaseStep ==
    ASSUME TxTyped, NEW t \in TxIds, txs[t] \in Transactions,
           NEW p \in Phases \ {"built"}, txs' = [txs EXCEPT ![t].phase = p],
           seq' \in [Accounts -> Nat]
    PROVE  TxTyped' /\ TxKept /\ Reached(t)'
<1> DEFINE x == [txs[t] EXCEPT !.phase = p]
<1>1. x \in Transactions /\ x.call = txs[t].call /\ x.phase = p /\ x # Unused
  BY UnusedIsNoTransaction DEF Transactions, Phases
<1>2. txs' = [txs EXCEPT ![t] = x]
  OBVIOUS
<1> HIDE DEF x
<1>3. txs'[t] = x /\ \A u \in TxIds \ {t} : txs'[u] = txs[u]
  BY <1>2 DEF TxTyped
<1>4. TxTyped'
  BY <1>1, <1>2 DEF TxTyped
<1>5. Reached(t)'
  BY <1>1, <1>3 DEF Reached, Phases
<1>6. TxKept
  BY <1>1, <1>3, <1>5 DEF TxKept, Reached
<1> QED
  BY <1>4, <1>5, <1>6

LEMMA BuildStep ==
    ASSUME TxTyped, NEW t \in TxIds, NEW id \in Ids, NEW w \in Wallets,
           NEW s \in Payers, Build(t, s, FundCall(id, w, Price))
    PROVE  TxTyped' /\ TxKept /\ txs'[t] # Unused
<1> DEFINE x == [phase |-> "built", source |-> s, seq |-> seq[s] + 1,
                 call |-> FundCall(id, w, Price)]
<1>1. x \in Transactions
  BY PayersAssumption DEF Transactions, Phases, Calls, FundCall, TxTyped
<1>2. txs' = [txs EXCEPT ![t] = x] /\ seq' = seq /\ txs[t] = Unused
  BY DEF Build
<1> HIDE DEF x
<1>3. txs'[t] = x /\ \A u \in TxIds \ {t} : txs'[u] = txs[u]
  BY <1>2 DEF TxTyped
<1>4. TxTyped'
  BY <1>1, <1>2 DEF TxTyped
<1>5. TxKept
  BY <1>2, <1>3 DEF TxKept, Reached
<1> QED
  BY <1>1, <1>3, <1>4, <1>5, UnusedIsNoTransaction

LEMMA EnqueueStep ==
    ASSUME TxTyped, NEW t \in TxIds, Enqueue(t)
    PROVE  TxTyped' /\ TxKept /\ Reached(t)'
<1>1. txs[t] \in Transactions
  BY DEF TxTyped, Enqueue, Unused
<1> QED
  BY <1>1, PhaseStep DEF Enqueue, Phases, TxTyped

LEMMA LedgerKeeps ==
    ASSUME TxTyped, LedgerStep
    PROVE  TxTyped' /\ TxKept
<1>1. PICK t \in TxIds : Apply(t) \/ Drop(t)
  BY DEF LedgerStep
<1>2. txs[t] \in Transactions /\ txs[t].source \in Accounts
  BY <1>1 DEF TxTyped, Apply, Drop, Unused, Transactions
<1>3. seq' \in [Accounts -> Nat]
  BY <1>1, <1>2 DEF Apply, Drop, TxTyped
<1>4. \E p \in Phases \ {"built"} : txs' = [txs EXCEPT ![t].phase = p]
  BY <1>1 DEF Apply, Drop, Phases
<1> QED
  BY <1>2, <1>3, <1>4, PhaseStep

LEMMA TxUnchanged ==
    ASSUME TxTyped, UNCHANGED <<txs, seq>> PROVE TxTyped' /\ TxKept
  BY DEF TxTyped, TxKept, Reached

(* What a row that calls itself funded, and a request that may call it so, *)
(* know of their transaction.                                              *)
Known(t) == t \in TxIds /\ txs[t] # Unused

HashesSound ==
    /\ \A r \in Requests :
         /\ req[r].pc = "claim" /\ req[r].tx # NoTx => Known(req[r].tx)
         /\ req[r].pc \in {"send", "poll", "markFunded"} => Known(req[r].tx)
         /\ req[r].pc = "markFunded" => Reached(req[r].tx)
    /\ \A id \in Ids : row[id].status = "FUNDED" =>
         Known(row[id].txHash) /\ Reached(row[id].txHash)

LEMMA KnownKept ==
    ASSUME TxKept, NEW t, Known(t)
    PROVE  Known(t)' /\ (Reached(t) => Reached(t)')
  BY DEF TxKept, Known

(* A step of r that knows the transaction it goes on with, and marks no    *)
(* row funded but by a transaction that reached the network.               *)
LEMMA SoundStep ==
    ASSUME Typed, HashesSound, TxKept, NEW r \in Requests, NEW q,
           req' = [req EXCEPT ![r] = q],
           q.pc = "claim" /\ q.tx # NoTx => Known(q.tx)',
           q.pc \in {"send", "poll", "markFunded"} => Known(q.tx)',
           q.pc = "markFunded" => Reached(q.tx)',
           \A id \in Ids : row'[id].status = "FUNDED" =>
              \/ row'[id] = row[id]
              \/ (Known(row[id].txHash) /\ Reached(row[id].txHash))'
    PROVE  HashesSound'
<1>1. req'[r] = q /\ \A s \in Requests \ {r} : req'[s] = req[s]
  BY DEF Typed, RequestTypeOK
<1>2. ASSUME NEW s \in Requests \ {r}
      PROVE  /\ req[s].pc = "claim" /\ req[s].tx # NoTx => Known(req[s].tx)'
             /\ req[s].pc \in {"send", "poll", "markFunded"} => Known(req[s].tx)'
             /\ req[s].pc = "markFunded" => Reached(req[s].tx)'
  BY <1>1 DEF HashesSound, TxKept, Known, Reached
<1>3. ASSUME NEW id \in Ids, row'[id].status = "FUNDED"
      PROVE  (Known(row[id].txHash) /\ Reached(row[id].txHash))'
  <2>1. CASE row'[id] = row[id]
    BY <1>3, <2>1 DEF HashesSound, TxKept, Known, Reached
  <2> QED
    BY <1>3, <2>1
<1> QED
  BY <1>1, <1>2, <1>3 DEF HashesSound, Known, Reached

LEMMA SoundStepOf ==
    ASSUME Typed, ClaimIsLock, TxTyped, HashesSound, NEW r \in Requests, Proceed(r)
    PROVE  TxTyped' /\ TxKept /\ HashesSound'
<1>1. ASSUME UNCHANGED <<txs, seq>> PROVE TxTyped' /\ TxKept
  BY <1>1, TxUnchanged
<1>2. ASSUME Finish(r), TxKept,
             \A id \in Ids : row'[id].status = "FUNDED" =>
                \/ row'[id] = row[id]
                \/ (Known(row[id].txHash) /\ Reached(row[id].txHash))'
      PROVE  HashesSound'
  BY <1>2, SoundStep DEF Finish, Idle
<1>3. ASSUME NEW pc \in {"build", "sign", "unclaim"}, Goto(r, pc), TxKept,
             req[r] \in InitiateReqs \cup SubmitReqs \cup TestReqs,
             \A id \in Ids : row'[id].status = "FUNDED" => row'[id] = row[id]
      PROVE  HashesSound'
  <2>1. [req[r] EXCEPT !.pc = pc].pc = pc
    BY <1>3 DEF InitiateReqs, SubmitReqs, TestReqs
  <2> QED
    BY <1>3, <2>1, SoundStep DEF Goto
<1>4. ASSUME NEW pc \in {"send", "poll", "markFunded"}, Goto(r, pc), TxKept,
             req[r] \in SubmitReqs, Known(req[r].tx),
             pc = "markFunded" => txs'[req[r].tx].phase \notin {"unused", "built"},
             \A id \in Ids : row'[id].status = "FUNDED" => row'[id] = row[id]
      PROVE  HashesSound'
  <2> DEFINE q == [req[r] EXCEPT !.pc = pc]
  <2>1. q.pc = pc /\ q.id = req[r].id /\ q.tx = req[r].tx
    BY <1>4 DEF SubmitReqs
  <2>2. req' = [req EXCEPT ![r] = q]
    BY <1>4 DEF Goto
  <2>3. \A t : Known(t) => t \in TxIds /\ txs'[t] # Unused
    BY <1>4 DEF TxKept, Known
  <2>4. txs'[q.tx] # Unused /\ q.tx \in TxIds
    BY <1>4, <2>1, <2>3
  <2>5. pc = "markFunded" => txs'[q.tx].phase \notin {"unused", "built"}
    BY <1>4, <2>1
  <2> HIDE DEF q
  <2>6. \A t : (t \in TxIds /\ txs'[t] # Unused) <=> Known(t)'
    BY DEF Known
  <2>7. \A t : txs'[t].phase \notin {"unused", "built"} <=> Reached(t)'
    BY DEF Reached
  <2> QED
    BY <1>4, <2>1, <2>2, <2>4, <2>5, <2>6, <2>7, SoundStep
<1>5. CASE FindRow(r)
  <2>1. req[r] \in InitiateReqs /\ req[r].id \in Ids
    BY <1>5, ReqFacts DEF FindRow, InitiateReqs, Typed
  <2>2. TxKept /\ TxTyped'
    BY <1>1, <1>5 DEF FindRow, stellarVars
  <2>3. \A id \in Ids : row'[id].status = "FUNDED" => row'[id] = row[id]
    BY <1>5, <2>1 DEF FindRow, Typed, RequestTypeOK
  <2>4. CASE \E e : req' = [req EXCEPT ![r] = [pc |-> "refresh", id |-> req[r].id,
                                               wallet |-> req[r].wallet, entity |-> e]]
    BY <2>2, <2>3, <2>4, SoundStep
  <2> QED
    BY <1>2, <1>3, <1>5, <2>1, <2>2, <2>3, <2>4 DEF FindRow
<1>6. CASE Refresh(r) \/ RefreshUpdate(r)
  BY <1>6 DEF Refresh, Comparing, RefreshUpdate, ClaimIsLock
<1>7. CASE BuildXdr(r)
  <2>1. req[r].id \in Ids /\ req[r].wallet \in Bindings
    BY <1>7, ReqFacts DEF BuildXdr, InitiateReqs, Typed
  <2>2. TxTyped' /\ TxKept
    BY <1>7, <2>1, BuildStep DEF BuildXdr, Deposit, Bindings
  <2> QED
    BY <1>2, <1>7, <2>2 DEF BuildXdr
<1>8. CASE InitiateFails(r)
  BY <1>1, <1>2, <1>8 DEF InitiateFails, stellarVars
<1>9. CASE Claim(r)
  <2>1. req[r] \in SubmitReqs \cup TestReqs /\ req[r].id \in Ids
    BY <1>9, ReqFacts DEF Claim, Typed
  <2>2. TxKept /\ TxTyped'
    BY <1>1, <1>9 DEF Claim, stellarVars
  <2>3. \A id \in Ids : row'[id].status = "FUNDED" => row'[id] = row[id]
    <3>1. row[req[r].id] \in Rows
      BY <1>9, <2>1 DEF Claim, Typed, HasRow, RequestTypeOK
    <3> QED
      BY <1>9, <2>1, <3>1 DEF Claim, Typed, RequestTypeOK, Rows
  <2>4. CASE req[r].tx = NoTx
    BY <1>2, <1>3, <1>9, <2>1, <2>2, <2>3, <2>4 DEF Claim
  <2>5. CASE req[r].tx # NoTx
    <3>1. Known(req[r].tx) /\ req[r] \in SubmitReqs
      BY <1>9, <2>1, <2>5 DEF Claim, HashesSound, TestReqs
    <3> QED
      BY <1>2, <1>4, <1>9, <2>2, <2>3, <2>5, <3>1 DEF Claim
  <2> QED
    BY <2>2, <2>4, <2>5
<1>10. CASE SignTest(r)
  <2>1. req[r] \in TestReqs /\ req[r].id \in Ids /\ req[r].wallet \in Bindings
    BY <1>10, ReqFacts DEF SignTest, TestReqs, Typed
  <2>2. ASSUME NEW t \in TxIds, Deposit(t, r),
               req' = [req EXCEPT ![r] = [pc |-> "send", id |-> req[r].id, tx |-> t]]
        PROVE  TxTyped' /\ TxKept /\ HashesSound'
    <3> DEFINE q == [pc |-> "send", id |-> req[r].id, tx |-> t]
    <3>1. TxTyped' /\ TxKept /\ txs'[t] # Unused
      BY <2>1, <2>2, BuildStep DEF Deposit, Bindings
    <3>2. q.pc = "send" /\ q.id = req[r].id /\ q.tx = t
      OBVIOUS
    <3>3. req' = [req EXCEPT ![r] = q] /\ row' = row
      BY <1>10, <2>2 DEF SignTest
    <3> HIDE DEF q
    <3>4. \A u : (u \in TxIds /\ txs'[u] # Unused) => Known(u)'
      BY DEF Known
    <3> QED
      BY <3>1, <3>2, <3>3, <3>4, SoundStep
  <2> QED
    BY <1>1, <1>3, <1>10, <2>1, <2>2 DEF SignTest, stellarVars
<1>11. ASSUME req[r].pc \in {"send", "poll", "markFunded"}
       PROVE  req[r] \in SubmitReqs /\ Known(req[r].tx)
  BY <1>11, ReqFacts DEF Typed, HashesSound
<1>12. CASE SendAccepted(r) \/ SendResponseLost(r)
  <2>1. req[r].tx \in TxIds /\ Enqueue(req[r].tx) /\ row' = row
    BY <1>11, <1>12 DEF SendAccepted, SendResponseLost, SubmitReqs
  <2>2. TxTyped' /\ TxKept /\ txs'[req[r].tx].phase \notin {"unused", "built"}
    BY <2>1, EnqueueStep DEF Reached
  <2> QED
    BY <1>3, <1>4, <1>11, <1>12, <2>1, <2>2 DEF SendAccepted, SendResponseLost
<1>13. CASE SendRejected(r) \/ SendUnclear(r)
  <2>1. TxKept /\ TxTyped' /\ row' = row
    BY <1>1, <1>13 DEF SendRejected, SendUnclear, stellarVars
  <2> QED
    BY <1>3, <1>4, <1>11, <1>13, <2>1 DEF SendRejected, SendUnclear
<1>14. CASE Poll(r)
  <2>1. TxKept /\ TxTyped' /\ row' = row
    BY <1>1, <1>14 DEF Poll, stellarVars
  <2>2. txs[req[r].tx].phase = "succeeded" => txs'[req[r].tx].phase \notin {"unused", "built"}
    BY <1>14 DEF Poll, stellarVars
  <2> QED
    BY <1>3, <1>4, <1>11, <1>14, <2>1, <2>2 DEF Poll
<1>15. CASE MarkFunded(r)
  <2>1. TxKept /\ TxTyped' /\ txs' = txs
    BY <1>1, <1>15 DEF MarkFunded, stellarVars
  <2>2. /\ req[r] \in SubmitReqs /\ req[r].id \in Ids
        /\ Known(req[r].tx) /\ Reached(req[r].tx)
    BY <1>11, <1>15 DEF MarkFunded, HashesSound, SubmitReqs
  <2>3. CASE Finish(r) /\ row' = [row EXCEPT ![req[r].id].status = "FUNDED",
                                             ![req[r].id].txHash = req[r].tx]
    <3>1. row[req[r].id] \in Rows
      BY <1>15, <2>2 DEF MarkFunded, Typed, HasRow, RequestTypeOK
    <3>2. row'[req[r].id].txHash = req[r].tx
      BY <2>2, <2>3, <3>1 DEF Typed, RequestTypeOK, Rows
    <3>3. \A id \in Ids \ {req[r].id} : row'[id] = row[id]
      BY <2>2, <2>3 DEF Typed, RequestTypeOK
    <3>4. \A id \in Ids : row'[id].status = "FUNDED" =>
            \/ row'[id] = row[id]
            \/ (Known(row[id].txHash) /\ Reached(row[id].txHash))'
      BY <2>1, <2>2, <3>2, <3>3 DEF Known, Reached
    <3> QED
      BY <1>2, <2>1, <2>3, <3>4
  <2> QED
    BY <1>3, <1>15, <2>1, <2>2, <2>3 DEF MarkFunded
<1>16. CASE Unclaim(r)
  <2>1. TxKept /\ TxTyped'
    BY <1>1, <1>16 DEF Unclaim, stellarVars
  <2>2. req[r].id \in Ids
    BY <1>16, ReqFacts DEF Unclaim, Typed
  <2>3. row[req[r].id] \in Rows
    BY <1>16, <2>2 DEF Unclaim, Typed, HasRow, RequestTypeOK
  <2>4. \A id \in Ids : row'[id].status = "FUNDED" => row'[id] = row[id]
    BY <1>16, <2>2, <2>3 DEF Unclaim, Typed, RequestTypeOK, Rows
  <2> QED
    BY <1>2, <1>16, <2>1, <2>4 DEF Unclaim
<1> QED
  BY <1>5, <1>6, <1>7, <1>8, <1>9, <1>10, <1>12, <1>13, <1>14, <1>15, <1>16 DEF Proceed

(* ... and what a FUNDED row names is a transaction that reached the        *)
(* network, whichever XDR was handed in for it, its shipment's or another   *)
(* one, and whichever submissions failed, were lost or are still in doubt.  *)
THEOREM FundedIsNamed == OneWallet => (FundingSpec => []FundedNamesTransaction)
<1> SUFFICES ASSUME OneWallet PROVE FundingSpec => []FundedNamesTransaction
  OBVIOUS
<1>1. FundingInit => TxTyped /\ HashesSound
  BY DEF FundingInit, StellarInit, TxTyped, HashesSound, Idle, NoRow
<1>2. ASSUME Typed, ClaimIsLock, TxTyped, HashesSound, [FundingNext]_fundingVars
      PROVE  TxTyped' /\ HashesSound'
  <2>1. ASSUME NEW r \in Requests, Proceed(r) PROVE TxTyped' /\ HashesSound'
    BY <1>2, <2>1, SoundStepOf
  <2>2. ASSUME UNCHANGED <<txs, seq>> PROVE TxTyped' /\ TxKept
    BY <1>2, <2>2, TxUnchanged
  <2>3. ASSUME NEW r \in Requests, NEW id \in Ids, Initiate(r, id) PROVE TxTyped' /\ HashesSound'
    BY <1>2, <2>2, <2>3, SoundStep DEF Initiate, stellarVars
  <2>4. ASSUME NEW r \in Requests, NEW id \in Ids, NEW t \in TxIds, Submit(r, id, t)
        PROVE  TxTyped' /\ HashesSound'
    <3> DEFINE q == [pc |-> "claim", id |-> id, tx |-> t]
    <3>1. q.pc = "claim" /\ q.id = id /\ q.tx = t
      OBVIOUS
    <3>2. req' = [req EXCEPT ![r] = q] /\ row' = row /\ UNCHANGED <<txs, seq>>
      BY <2>4 DEF Submit, stellarVars
    <3> HIDE DEF q
    <3>3. t \in TxIds /\ txs'[t] # Unused
      BY <2>4, <3>2 DEF Submit
    <3>4. \A u : (u \in TxIds /\ txs'[u] # Unused) => Known(u)'
      BY DEF Known
    <3> QED
      BY <1>2, <2>2, <3>1, <3>2, <3>3, <3>4, SoundStep
  <2>5. ASSUME NEW r \in Requests, NEW id \in Ids, SubmitTestSigned(r, id)
        PROVE  TxTyped' /\ HashesSound'
    BY <1>2, <2>2, <2>5, SoundStep DEF SubmitTestSigned, stellarVars
  <2>6. ASSUME NEW r \in Requests, UnclaimFails(r) PROVE TxTyped' /\ HashesSound'
    BY <1>2, <2>2, <2>6, SoundStep DEF UnclaimFails, Finish, Idle, stellarVars
  <2>7. CASE Crash
    <3>1. TxTyped' /\ TxKept /\ row' = row /\ req' = [r \in Requests |-> Idle] /\ txs' = txs
      BY <2>2, <2>7 DEF Crash, stellarVars
    <3> QED
      BY <1>2, <3>1 DEF HashesSound, Known, Reached, Idle
  <2>8. ASSUME UNCHANGED <<row, req>>, TxKept PROVE HashesSound'
    BY <1>2, <2>8 DEF HashesSound, TxKept, Known, Reached
  <2>9. CASE Ledger
    BY <1>2, <2>8, <2>9, LedgerKeeps DEF Ledger
  <2>10. CASE UNCHANGED <<txs, seq, row, req>>
    BY <2>2, <2>8, <2>10
  <2> QED
    BY <1>2, <2>1, <2>3, <2>4, <2>5, <2>6, <2>7, <2>9, <2>10
       DEF FundingNext, ReliableNext, ShipmentMoves, ChangeWallet, fundingVars, stellarVars
<1>3. HashesSound => FundedNamesTransaction
  BY DEF HashesSound, FundedNamesTransaction, Known
<1>4. QED
  BY <1>1, <1>2, <1>3, ClaimLocks, RequestTypes, PTL DEF FundingSpec

-----------------------------------------------------------------------------
(* All that requests, the ledger and the rest of the backend do to the      *)
(* network: build a funding transaction, hand one over, apply or drop one.  *)
LEMMA NetworkStep ==
    ASSUME Typed, [FundingNext]_fundingVars
    PROVE  \/ UNCHANGED stellarVars
           \/ \E t \in TxIds, id \in Ids, w \in Wallets, s \in Payers :
                Build(t, s, FundCall(id, w, Price))
           \/ \E t \in TxIds : Enqueue(t)
           \/ LedgerStep
<1>1. ASSUME NEW r \in Requests, BuildXdr(r) \/ SignTest(r)
      PROVE  \/ UNCHANGED stellarVars
             \/ \E t \in TxIds, id \in Ids, w \in Wallets, s \in Payers :
                Build(t, s, FundCall(id, w, Price))
  <2>1. req[r].id \in Ids /\ req[r].wallet \in Bindings
    BY <1>1, ReqFacts DEF BuildXdr, SignTest, InitiateReqs, TestReqs, Typed
  <2> QED
    BY <1>1, <2>1 DEF BuildXdr, SignTest, Deposit, Bindings
<1>2. ASSUME NEW r \in Requests, SendAccepted(r) \/ SendResponseLost(r)
      PROVE  \E t \in TxIds : Enqueue(t)
  BY <1>2, ReqFacts DEF SendAccepted, SendResponseLost, SubmitReqs, Typed
<1>3. ASSUME NEW r \in Requests, Proceed(r)
      PROVE  \/ UNCHANGED stellarVars
             \/ BuildXdr(r) \/ SignTest(r) \/ SendAccepted(r) \/ SendResponseLost(r)
  BY <1>3 DEF Proceed, FindRow, Refresh, Comparing, RefreshUpdate, InitiateFails, Claim,
       SendRejected, SendUnclear, Poll, MarkFunded, Unclaim
<1> QED
  BY <1>1, <1>2, <1>3 DEF FundingNext, ReliableNext, Initiate, Submit, SubmitTestSigned,
       Ledger, ShipmentMoves, ChangeWallet, UnclaimFails, Crash, fundingVars

(* What the contract holds for a shipment is nothing, or a Funded record    *)
(* that the price was paid for, and a Funded record takes no more money.    *)
Charged ==
    /\ DOMAIN escrow = Ids /\ DOMAIN netIn = Ids
    /\ \A id \in Ids : \/ escrow[id] = Chain!NoRecord /\ netIn[id] = 0
                       \/ escrow[id].status = "Funded" /\ netIn[id] = Price

LEMMA ApplyCharges ==
    ASSUME TxTyped, Charged, NEW t \in TxIds, Apply(t)
    PROVE  Charged'
<1>1. txs[t].call \in Calls
  BY DEF Apply, TxTyped, Transactions, Unused
<1>2. CASE UNCHANGED chainVars
  BY <1>2 DEF chainVars, Charged
<1>3. CASE Chain!FundEscrow(txs[t].source, txs[t].call.carrier, txs[t].call.id, txs[t].call.amount)
  <2> DEFINE id == txs[t].call.id
  <2>1. id \in Ids /\ txs[t].call.amount = Price
    BY <1>1 DEF Calls
  <2>2. netIn[id] = 0
    BY <1>3, <2>1 DEF Charged, Chain!FundEscrow, Chain!CanFund
  <2>3. /\ escrow' = [escrow EXCEPT ![id] = [shipper |-> txs[t].source, carrier |-> txs[t].call.carrier,
                                             amount |-> Price, status |-> "Funded"]]
        /\ netIn' = [netIn EXCEPT ![id] = netIn[id] + Price]
    BY <1>3, <2>1 DEF Chain!FundEscrow
  <2> HIDE DEF id
  <2>4. netIn[id] + Price = Price
    BY <2>2, PriceAssumption
  <2> QED
    BY <2>1, <2>3, <2>4 DEF Charged
<1> QED
  BY <1>1, <1>2, <1>3 DEF Apply, ExecuteCall, Calls

(* However often funding is started, retried, interrupted or left in doubt, *)
(* by however many requests and whatever parties do to their wallets, the   *)
(* shipper pays for a shipment once.                                        *)
THEOREM PaysOnce == FundingSpec => []ChargedOnce
<1>1. FundingInit => TxTyped /\ Charged
  BY DEF FundingInit, StellarInit, TxTyped, Charged
<1>2. ASSUME Typed, TxTyped, Charged, [FundingNext]_fundingVars PROVE TxTyped' /\ Charged'
  <2>1. CASE UNCHANGED stellarVars
    BY <1>2, <2>1, TxUnchanged DEF stellarVars, chainVars, Charged
  <2>2. ASSUME NEW t \in TxIds, NEW id \in Ids, NEW w \in Wallets, NEW s \in Payers,
               Build(t, s, FundCall(id, w, Price))
        PROVE  TxTyped' /\ Charged'
    BY <1>2, <2>2, BuildStep DEF Build, chainVars, Charged
  <2>3. ASSUME NEW t \in TxIds, Enqueue(t) PROVE TxTyped' /\ Charged'
    BY <1>2, <2>3, EnqueueStep DEF Enqueue, chainVars, Charged
  <2>4. CASE LedgerStep
    <3>1. TxTyped'
      BY <1>2, <2>4, LedgerKeeps
    <3>2. PICK t \in TxIds : Apply(t) \/ Drop(t)
      BY <2>4 DEF LedgerStep
    <3>3. Charged'
      BY <1>2, <3>2, ApplyCharges DEF Drop, chainVars, Charged
    <3> QED
      BY <3>1, <3>3
  <2> QED
    BY <1>2, <2>1, <2>2, <2>3, <2>4, NetworkStep
<1>3. Charged => ChargedOnce
  BY DEF Charged, ChargedOnce
<1> QED
  BY <1>1, <1>2, <1>3, RequestTypes, PTL DEF FundingSpec

(***************************************************************************)
(* Part two: Settlement.                                                   *)
(***************************************************************************)

Ops == {"release", "refund", "confirm"}
SettleCalls == [op : {"release", "refund"}, id : Ids]
AllTransactions == [phase : Phases, source : Accounts, seq : Nat, call : Calls \cup SettleCalls]

Reaches(x, t) == x[t].phase \notin {"unused", "built"}

(* From the transactions x to the transactions y.                          *)
Kept(x, y) ==
    \A t \in TxIds : x[t] # Unused =>
        y[t] # Unused /\ y[t].call = x[t].call /\ (Reaches(x, t) => Reaches(y, t))

NetTyped ==
    /\ txs \in [TxIds -> AllTransactions \cup {Unused}]
    /\ seq \in [Accounts -> Nat]
    /\ escrow \in [Ids -> Chain!Records \cup {Chain!NoRecord}]

(* The payer, where there is one. *)
Shipper == CHOOSE s \in Payers : TRUE

LEMMA OnePayer ==
    ASSUME OneWallet PROVE Shipper \in Accounts /\ \A s \in Payers : s = Shipper
<1>1. Shipper \in Payers /\ Payers \subseteq Accounts
  BY PayersAssumption DEF Shipper
<1>2. PICK w \in Wallets : TRUE
  BY WalletsAssumption
<1>3. ASSUME NEW s \in Payers PROVE s = Shipper
  <2>1. [carrier |-> w, shipper |-> s] \in Bindings /\ [carrier |-> w, shipper |-> Shipper] \in Bindings
    BY <1>1 DEF Bindings
  <2>2. [carrier |-> w, shipper |-> s] = [carrier |-> w, shipper |-> Shipper]
    BY <2>1 DEF OneWallet
  <2>3. [carrier |-> w, shipper |-> s].shipper = [carrier |-> w, shipper |-> Shipper].shipper
    BY <2>2
  <2> QED
    BY <2>3
<1> QED
  BY <1>1, <1>3

IsFund(t) == txs[t].call.op = "fund"

(* A transaction t that is next in line for its account's number. *)
Fits(t) == txs[t].seq = seq[txs[t].source] + 1

(* Numbers are handed out in line, one transaction of an account waits at  *)
(* a time, and one that could still deposit is for a shipment that has no  *)
(* deposit: the contract refused to simulate it otherwise.                 *)
InLine ==
    \A t \in TxIds : txs[t] # Unused =>
        /\ txs[t].seq <= seq[txs[t].source] + 1
        /\ txs[t].phase = "queued" => Fits(t)
        /\ IsFund(t) => txs[t].source = Shipper
        /\ IsFund(t) /\ Fits(t) => escrow[txs[t].call.id].status # "Funded"

OneWaits ==
    \A t, u \in TxIds : txs[t].phase = "queued" /\ txs[u].phase = "queued" /\ t # u =>
        txs[t].source # txs[u].source

Net == NetTyped /\ InLine /\ OneWaits

LEMMA UnusedIsNone == Unused \notin AllTransactions /\ Unused.phase = "unused"
  BY DEF Unused, AllTransactions

Builds(call, source) == \E t \in TxIds : Build(t, source, call)

(* A new transaction. *)
LEMMA BuildKeeps ==
    ASSUME Net, NEW call \in Calls \cup SettleCalls, NEW source \in Accounts,
           call.op = "fund" => source = Shipper, Builds(call, source)
    PROVE  Net' /\ Kept(txs, txs')
<1>1. PICK t \in TxIds : Build(t, source, call)
  BY DEF Builds
<1> DEFINE x == [phase |-> "built", source |-> source, seq |-> seq[source] + 1, call |-> call]
<1>2. /\ txs' = [txs EXCEPT ![t] = x] /\ txs[t] = Unused
      /\ UNCHANGED <<seq, escrow>>
      /\ call.op = "fund" => escrow[call.id].status # "Funded"
  BY <1>1 DEF Build, SimulationSucceeds, Chain!CanFund, chainVars
<1>3. /\ x \in AllTransactions /\ x.seq = seq[source] + 1 /\ x.source = source
      /\ x.phase = "built" /\ x.call = call
  BY DEF AllTransactions, Phases, Net, NetTyped
<1> HIDE DEF x
<1>4. txs'[t] = x /\ \A u \in TxIds \ {t} : txs'[u] = txs[u]
  BY <1>2 DEF Net, NetTyped
<1>5. NetTyped'
  BY <1>2, <1>3 DEF Net, NetTyped
<1>6. InLine'
  <2>1. ASSUME NEW u \in TxIds \ {t}, txs[u] # Unused
        PROVE  /\ txs[u].seq <= seq'[txs[u].source] + 1
               /\ txs[u].phase = "queued" => txs[u].seq = seq'[txs[u].source] + 1
               /\ txs[u].call.op = "fund" => txs[u].source = Shipper
               /\ txs[u].call.op = "fund" /\ txs[u].seq = seq'[txs[u].source] + 1 =>
                    escrow'[txs[u].call.id].status # "Funded"
    BY <1>2, <2>1 DEF Net, InLine, Fits, IsFund
  <2>2. /\ x.seq <= seq'[x.source] + 1
        /\ x.call.op = "fund" => x.source = Shipper /\ escrow'[x.call.id].status # "Funded"
    BY <1>2, <1>3 DEF Net, NetTyped
  <2> QED
    BY <1>3, <1>4, <2>1, <2>2 DEF InLine, Fits, IsFund
<1>7. OneWaits'
  BY <1>3, <1>4 DEF Net, OneWaits
<1>8. Kept(txs, txs')
  BY <1>2, <1>4 DEF Kept, Reaches
<1> QED
  BY <1>5, <1>6, <1>7, <1>8 DEF Net

(* A transaction t gets on to the phase p, and another number m of its     *)
(* account may be used up.                                                 *)
LEMMA PhaseKeeps ==
    ASSUME Net, NEW t \in TxIds, txs[t] # Unused, NEW p \in Phases \ {"built"},
           txs' = [txs EXCEPT ![t].phase = p]
    PROVE  /\ txs' \in [TxIds -> AllTransactions \cup {Unused}]
           /\ Kept(txs, txs') /\ Reaches(txs', t)
           /\ txs'[t].phase = p
           /\ txs'[t].seq = txs[t].seq /\ txs'[t].source = txs[t].source
           /\ \A u \in TxIds : u # t => txs'[u] = txs[u]
           /\ \A u \in TxIds : txs'[u] # Unused => txs[u] # Unused
<1> DEFINE x == [txs[t] EXCEPT !.phase = p]
<1>1. txs[t] \in AllTransactions
  BY DEF Net, NetTyped
<1>2. /\ x \in AllTransactions /\ x.call = txs[t].call /\ x.phase = p /\ x # Unused
      /\ x.seq = txs[t].seq /\ x.source = txs[t].source
  BY <1>1, UnusedIsNone DEF AllTransactions, Phases
<1>3. txs' = [txs EXCEPT ![t] = x]
  OBVIOUS
<1> HIDE DEF x
<1>4. txs'[t] = x /\ \A u \in TxIds \ {t} : txs'[u] = txs[u]
  BY <1>3 DEF Net, NetTyped
<1>5. Reaches(txs', t)
  BY <1>2, <1>4 DEF Reaches, Phases
<1>6. Kept(txs, txs')
  BY <1>2, <1>4, <1>5 DEF Kept, Reaches
<1> QED
  BY <1>2, <1>3, <1>4, <1>5, <1>6 DEF Net, NetTyped

LEMMA EnqueueKeeps ==
    ASSUME Net, NEW t \in TxIds, Enqueue(t)
    PROVE  Net' /\ Kept(txs, txs') /\ Reaches(txs', t)
<1>1. txs[t] # Unused /\ "queued" \in Phases \ {"built"} /\ txs' = [txs EXCEPT ![t].phase = "queued"]
  BY DEF Enqueue, Unused, Phases
<1>2. /\ UNCHANGED <<seq, escrow>> /\ Fits(t)
      /\ \A u \in TxIds : txs[u].phase = "queued" => txs[u].source # txs[t].source
  BY DEF Enqueue, chainVars, Fits
<1>3. /\ txs' \in [TxIds -> AllTransactions \cup {Unused}]
      /\ Kept(txs, txs') /\ Reaches(txs', t)
      /\ txs'[t].seq = txs[t].seq /\ txs'[t].source = txs[t].source
      /\ \A u \in TxIds : u # t => txs'[u] = txs[u]
      /\ \A u \in TxIds : txs'[u] # Unused => txs[u] # Unused
  BY <1>1, PhaseKeeps
<1>4. NetTyped'
  BY <1>2, <1>3 DEF Net, NetTyped
<1>5. InLine'
  <2>1. txs'[t].call = txs[t].call
    BY <1>1, <1>3 DEF Kept
  <2> QED
    BY <1>2, <1>3, <2>1 DEF Net, InLine, Fits, IsFund
<1>6. OneWaits'
  BY <1>2, <1>3 DEF Net, OneWaits
<1> QED
  BY <1>3, <1>4, <1>5, <1>6 DEF Net

LEMMA DropKeeps ==
    ASSUME Net, NEW t \in TxIds, Drop(t)
    PROVE  Net' /\ Kept(txs, txs')
<1>1. txs[t] # Unused /\ "dropped" \in Phases \ {"built"} /\ txs' = [txs EXCEPT ![t].phase = "dropped"]
  BY DEF Drop, Unused, Phases
<1>2. UNCHANGED <<seq, escrow>>
  BY DEF Drop, chainVars
<1>3. /\ txs' \in [TxIds -> AllTransactions \cup {Unused}]
      /\ Kept(txs, txs') /\ txs'[t].phase = "dropped"
      /\ txs'[t].seq = txs[t].seq /\ txs'[t].source = txs[t].source
      /\ \A u \in TxIds : u # t => txs'[u] = txs[u]
      /\ \A u \in TxIds : txs'[u] # Unused => txs[u] # Unused
  BY <1>1, PhaseKeeps
<1>4. NetTyped'
  BY <1>2, <1>3 DEF Net, NetTyped
<1>5. InLine'
  <2>1. txs'[t].call = txs[t].call
    BY <1>1, <1>3 DEF Kept
  <2> QED
    BY <1>2, <1>3, <2>1 DEF Net, InLine, Fits, IsFund
<1>6. OneWaits'
  BY <1>2, <1>3 DEF Net, OneWaits
<1> QED
  BY <1>3, <1>4, <1>5, <1>6 DEF Net

(* A number of account s is used up.  Whatever else was built for that      *)
(* number is stale from then on; only the shipper's deposits fund a record. *)
LEMMA AdvanceKeeps ==
    ASSUME Net, NEW s \in Accounts, seq' = [seq EXCEPT ![s] = @ + 1],
           txs' \in [TxIds -> AllTransactions \cup {Unused}],
           escrow' \in [Ids -> Chain!Records \cup {Chain!NoRecord}],
           \A u \in TxIds : txs'[u] # Unused =>
              /\ txs[u] # Unused
              /\ txs'[u].seq = txs[u].seq /\ txs'[u].source = txs[u].source
              /\ txs'[u].call = txs[u].call,
           \A u \in TxIds : txs'[u].phase = "queued" =>
              txs[u].phase = "queued" /\ txs[u].source # s /\ txs'[u] # Unused,
           \A id \in Ids : escrow'[id].status = "Funded" =>
              escrow[id].status = "Funded" \/ s = Shipper
    PROVE  Net'
<1>1. /\ seq' \in [Accounts -> Nat] /\ seq'[s] = seq[s] + 1
      /\ \A a \in Accounts \ {s} : seq'[a] = seq[a]
  BY DEF Net, NetTyped
<1>2. NetTyped'
  BY <1>1 DEF NetTyped
<1>3. ASSUME NEW u \in TxIds, txs'[u] # Unused
      PROVE  /\ txs'[u].seq <= seq'[txs'[u].source] + 1
             /\ txs'[u].phase = "queued" => txs'[u].seq = seq'[txs'[u].source] + 1
             /\ txs'[u].call.op = "fund" => txs'[u].source = Shipper
             /\ txs'[u].call.op = "fund" /\ txs'[u].seq = seq'[txs'[u].source] + 1 =>
                    escrow'[txs'[u].call.id].status # "Funded"
  <2>1. /\ txs[u] \in AllTransactions
        /\ txs'[u].seq = txs[u].seq /\ txs'[u].source = txs[u].source
        /\ txs'[u].call = txs[u].call
        /\ txs[u].source \in Accounts /\ txs[u].seq \in Nat
        /\ txs[u].call.id \in Ids
    BY <1>3 DEF Net, NetTyped, AllTransactions, Calls, SettleCalls
  <2>2. /\ txs[u].seq <= seq[txs[u].source] + 1
        /\ txs[u].phase = "queued" => txs[u].seq = seq[txs[u].source] + 1
        /\ txs[u].call.op = "fund" => txs[u].source = Shipper
        /\ txs[u].call.op = "fund" /\ txs[u].seq = seq[txs[u].source] + 1 =>
             escrow[txs[u].call.id].status # "Funded"
    BY <1>3 DEF Net, InLine, Fits, IsFund
  <2>3. CASE txs[u].source = s
    BY <1>1, <2>1, <2>2, <2>3, <1>3 DEF Net, NetTyped
  <2>4. CASE txs[u].source # s
    BY <1>1, <2>1, <2>2, <2>4, <1>3
  <2> QED
    BY <2>3, <2>4
<1>4. InLine'
  BY <1>3 DEF InLine, Fits, IsFund
<1>5. OneWaits'
  BY DEF Net, OneWaits
<1> QED
  BY <1>2, <1>4, <1>5 DEF Net

(* What a transaction does to the records when it is applied. *)
Outcome(op) == IF op = "refund" THEN "Refunded" ELSE "Released"

LEMMA RecordStatus ==
    ASSUME Net, NEW id \in Ids, escrow[id].status \in Chain!Statuses, NEW st \in Chain!Statuses,
           escrow' = [escrow EXCEPT ![id].status = st]
    PROVE  /\ escrow' \in [Ids -> Chain!Records \cup {Chain!NoRecord}]
           /\ escrow'[id].status = st
           /\ \A i \in Ids \ {id} : escrow'[i] = escrow[i]
<1>1. escrow[id] \in Chain!Records
  BY DEF Net, NetTyped, Chain!NoRecord, Chain!Statuses
<1>2. [escrow[id] EXCEPT !.status = st] \in Chain!Records /\ [escrow[id] EXCEPT !.status = st].status = st
  BY <1>1 DEF Chain!Records
<1> QED
  BY <1>2 DEF Net, NetTyped

LEMMA ApplyMoves ==
    ASSUME Net, NEW t \in TxIds, Apply(t)
    PROVE  /\ escrow' \in [Ids -> Chain!Records \cup {Chain!NoRecord}]
           /\ \A id \in Ids : escrow'[id] # escrow[id] =>
                /\ txs[t].call.id = id
                /\ \/ IsFund(t)
                   \/ escrow[id].status = "Funded" /\ escrow'[id].status \in {"Released", "Refunded"}
           /\ txs'[t].phase = "succeeded" /\ txs[t].call \in SettleCalls =>
                escrow'[txs[t].call.id].status = Outcome(txs[t].call.op)
<1> DEFINE c == txs[t].call
           id == c.id
<1>1. /\ txs[t] \in AllTransactions /\ txs[t].source \in Accounts
      /\ c \in Calls \cup SettleCalls /\ id \in Ids
  BY DEF Apply, Net, NetTyped, Unused, AllTransactions, Calls, SettleCalls
<1>2. CASE c.op = "fund" /\ Chain!FundEscrow(txs[t].source, c.carrier, c.id, c.amount)
  <2>1. c \in Calls /\ c \notin SettleCalls
    BY <1>1, <1>2 DEF Calls, SettleCalls
  <2>2. [shipper |-> txs[t].source, carrier |-> c.carrier, amount |-> c.amount, status |-> "Funded"]
          \in Chain!Records
    BY <1>1, <2>1, WalletsAssumption, PriceAssumption DEF Calls, Chain!Records, Chain!Statuses
  <2> QED
    BY <1>1, <1>2, <2>1, <2>2 DEF Chain!FundEscrow, Net, NetTyped, IsFund
<1>3. ASSUME NEW payee, NEW st \in {"Released", "Refunded"}, st = Outcome(c.op),
             escrow[id].status = "Funded", Chain!PayOut(id, payee, st)
      PROVE  /\ escrow' \in [Ids -> Chain!Records \cup {Chain!NoRecord}]
             /\ \A i \in Ids : escrow'[i] # escrow[i] =>
                  id = i /\ escrow[i].status = "Funded" /\ escrow'[i].status \in {"Released", "Refunded"}
             /\ escrow'[id].status = Outcome(c.op)
  <2>1. escrow' = [escrow EXCEPT ![id].status = st]
    BY <1>3 DEF Chain!PayOut
  <2>2. /\ escrow' \in [Ids -> Chain!Records \cup {Chain!NoRecord}]
        /\ escrow'[id].status = st
        /\ \A i \in Ids \ {id} : escrow'[i] = escrow[i]
    BY <1>1, <1>3, <2>1, RecordStatus DEF Chain!Statuses
  <2> QED
    BY <1>3, <2>2
<1>4. CASE c.op = "release" /\ Chain!ReleasePayment(txs[t].source, c.id)
  <2>1. escrow[id].status = "Funded" /\ Outcome(c.op) = "Released"
    BY <1>4 DEF Chain!ReleasePayment, Chain!CanSettle, Outcome
  <2> QED
    BY <1>3, <1>4, <2>1 DEF Chain!ReleasePayment
<1>5. CASE c.op = "refund" /\ Chain!RefundPayment(txs[t].source, c.id)
  <2>1. escrow[id].status = "Funded" /\ Outcome(c.op) = "Refunded"
    BY <1>5 DEF Chain!RefundPayment, Chain!CanSettle, Outcome
  <2> QED
    BY <1>3, <1>5, <2>1 DEF Chain!RefundPayment
<1>6. CASE UNCHANGED chainVars /\ txs' = [txs EXCEPT ![t].phase = "failed"]
  <2>1. escrow' = escrow /\ txs'[t].phase = "failed"
    BY <1>1, <1>6 DEF chainVars, Net, NetTyped, AllTransactions
  <2> QED
    BY <2>1 DEF Net, NetTyped
<1> QED
  BY <1>2, <1>4, <1>5, <1>6 DEF Apply, ExecuteCall

LEMMA ApplyKeeps ==
    ASSUME Net, NEW t \in TxIds, Apply(t)
    PROVE  Net' /\ Kept(txs, txs')
<1>1. txs[t] # Unused /\ txs[t] \in AllTransactions /\ txs[t].source \in Accounts
  BY DEF Apply, Unused, Net, NetTyped, AllTransactions
<1>2. PICK p \in {"succeeded", "failed"} : txs' = [txs EXCEPT ![t].phase = p]
  BY DEF Apply
<1>3. p \in Phases \ {"built"} /\ p # "queued"
  BY DEF Phases
<1>4. /\ txs' \in [TxIds -> AllTransactions \cup {Unused}]
      /\ Kept(txs, txs') /\ txs'[t].phase = p
      /\ txs'[t].seq = txs[t].seq /\ txs'[t].source = txs[t].source
      /\ \A u \in TxIds : u # t => txs'[u] = txs[u]
      /\ \A u \in TxIds : txs'[u] # Unused => txs[u] # Unused
  BY <1>1, <1>2, <1>3, PhaseKeeps
<1>5. /\ seq' = [seq EXCEPT ![txs[t].source] = @ + 1]
      /\ txs[t].phase = "queued"
  BY DEF Apply
<1>6. \A u \in TxIds : txs'[u] # Unused =>
              /\ txs[u] # Unused
              /\ txs'[u].seq = txs[u].seq /\ txs'[u].source = txs[u].source
              /\ txs'[u].call = txs[u].call
  BY <1>4 DEF Kept
<1>7. \A u \in TxIds : txs'[u].phase = "queued" =>
              txs[u].phase = "queued" /\ txs[u].source # txs[t].source /\ txs'[u] # Unused
  BY <1>3, <1>4, <1>5, UnusedIsNone DEF Net, OneWaits
<1>8. \A id \in Ids : escrow'[id].status = "Funded" =>
              escrow[id].status = "Funded" \/ txs[t].source = Shipper
  BY <1>1, ApplyMoves DEF Net, InLine
<1>9. escrow' \in [Ids -> Chain!Records \cup {Chain!NoRecord}]
  BY ApplyMoves
<1>10. Net'
  BY <1>1, <1>4, <1>5, <1>6, <1>7, <1>8, <1>9, AdvanceKeeps
<1> QED
  BY <1>4, <1>10

(* A party disputes, or the platform's key settles a dispute. *)
LEMMA OutsideKeeps ==
    ASSUME Net, NEW id \in Ids, (\E a \in Accounts : PartyDisputes(id, a)) \/ PlatformResolves(id)
    PROVE  /\ Net' /\ Kept(txs, txs') /\ txs' = txs
           /\ \A i \in Ids : escrow'[i] # escrow[i] => escrow[i].status \in {"Funded", "Disputed"}
           /\ UNCHANGED <<shipment, wallet, row, req, audit>>
<1>1. PICK s \in Accounts : Outside(s)
  BY PlatformAssumption DEF PartyDisputes, PlatformResolves
<1>2. PICK st \in {"Disputed", "Released", "Refunded"} :
        /\ escrow' = [escrow EXCEPT ![id].status = st]
        /\ escrow[id].status \in {"Funded", "Disputed"}
  BY DEF PartyDisputes, PlatformResolves, Chain!RaiseDispute, Chain!ResolveDispute,
     Chain!CanSettle, Chain!PayOut
<1>3. /\ escrow' \in [Ids -> Chain!Records \cup {Chain!NoRecord}]
      /\ escrow'[id].status = st
      /\ \A i \in Ids \ {id} : escrow'[i] = escrow[i]
  BY <1>2, RecordStatus DEF Chain!Statuses
<1>4. /\ seq' = [seq EXCEPT ![s] = @ + 1]
      /\ txs' = txs /\ UNCHANGED <<shipment, wallet, row, req, audit>>
      /\ \A t \in TxIds : txs[t].phase = "queued" => txs[t].source # s
  BY <1>1 DEF Outside
<1>5. txs' \in [TxIds -> AllTransactions \cup {Unused}]
  BY <1>4 DEF Net, NetTyped
<1>6. \A u \in TxIds : txs'[u].phase = "queued" =>
        txs[u].phase = "queued" /\ txs[u].source # s /\ txs'[u] # Unused
  BY <1>4, UnusedIsNone
<1>7. \A i \in Ids : escrow'[i].status = "Funded" => escrow[i].status = "Funded"
  BY <1>2, <1>3
<1>8. \A u \in TxIds : txs'[u] # Unused =>
        /\ txs[u] # Unused
        /\ txs'[u].seq = txs[u].seq /\ txs'[u].source = txs[u].source
        /\ txs'[u].call = txs[u].call
  BY <1>4
<1>9. Net'
  BY <1>3, <1>4, <1>5, <1>6, <1>7, <1>8, AdvanceKeeps
<1> QED
  BY <1>2, <1>3, <1>4, <1>9 DEF Kept

-----------------------------------------------------------------------------
(* The backend: its requests, its rows and its audit log.                  *)
SettlePcs == {"settle", "settlePoll", "recordSettled", "audit"}
FlyingPcs == {"sign", "send", "poll", "markFunded", "unclaim"}
RowedPcs == {"claim", "invoke"} \cup FlyingPcs \cup SettlePcs

InvokeReqs == [pc : {"invoke"}, id : Ids, op : Ops]
SettleReqs == [pc : SettlePcs, id : Ids, op : Ops, tx : TxIds]
FundReqs == SubmitReqs \cup TestReqs
AnyReqs == {Idle} \cup InitiateReqs \cup FundReqs \cup InvokeReqs \cup SettleReqs

AnyRows == [status : {"PENDING", "FUNDING"} \cup NonFundable,
            carrier : Wallets, shipper : Payers, txHash : TxIds \cup {NoTx}]

LEMMA AnyRowIsBound == ASSUME NEW x \in AnyRows PROVE Bound(x) \in Bindings
  BY DEF AnyRows, Bound, Bindings

Shape ==
    /\ wallet \in [Ids -> Bindings]
    /\ row \in [Ids -> AnyRows \cup {NoRow}]
    /\ req \in [Requests -> AnyReqs]
    /\ \A r \in Requests : req[r].pc \in RowedPcs => row[req[r].id] # NoRow

(* What a request, a row and the audit log say of the transactions x.      *)
Settles(x, t, op, id) == t \in TxIds /\ x[t] # Unused /\ x[t].call = SettleCall(op, id)

Knows(x, q) ==
    /\ q.pc \in SettlePcs => Settles(x, q.tx, q.op, q.id)
    /\ q.pc \in {"recordSettled", "audit"} => q.op \in {"release", "refund"} /\ Reaches(x, q.tx)

SaysTrue(x, id, p) ==
    \A op \in {"release", "refund"} :
        p.status = SettledStatus(op) => Settles(x, p.txHash, op, id) /\ Reaches(x, p.txHash)

AuditTrue(x) ==
    \A t \in audit : /\ t \in TxIds /\ x[t] # Unused
                     /\ Reaches(x, t) /\ x[t].call.op \in {"release", "refund"}

Sound ==
    /\ \A r \in Requests : Knows(txs, req[r])
    /\ \A id \in Ids : SaysTrue(txs, id, row[id])
    /\ AuditTrue(txs)

LEMMA AnyReqFacts ==
    ASSUME NEW q \in AnyReqs
    PROVE  /\ q.pc \in {"findRow", "build"} => q \in InitiateReqs
           /\ q.pc \in {"send", "poll", "markFunded"} => q \in SubmitReqs
           /\ q.pc = "sign" => q \in TestReqs
           /\ q.pc \in {"claim", "unclaim"} => q \in FundReqs
           /\ q.pc \in FlyingPcs => q \in FundReqs
           /\ q.pc = "invoke" => q \in InvokeReqs
           /\ q.pc \in SettlePcs => q \in SettleReqs
           /\ q.pc \notin {"refresh", "update"}
           /\ q.pc # "idle" => q.id \in Ids
<1>1. CASE q = Idle
  BY <1>1 DEF Idle, FlyingPcs, SettlePcs
<1>2. CASE q \in InitiateReqs
  BY <1>2 DEF InitiateReqs, FlyingPcs, SettlePcs
<1>3. CASE q \in SubmitReqs
  BY <1>3 DEF SubmitReqs, FundReqs, FlyingPcs, SettlePcs
<1>4. CASE q \in TestReqs
  BY <1>4 DEF TestReqs, FundReqs, FlyingPcs, SettlePcs
<1>5. CASE q \in InvokeReqs
  BY <1>5 DEF InvokeReqs, FlyingPcs, SettlePcs
<1>6. CASE q \in SettleReqs
  BY <1>6 DEF SettleReqs, FlyingPcs, SettlePcs
<1> QED
  BY <1>1, <1>2, <1>3, <1>4, <1>5, <1>6 DEF AnyReqs, FundReqs

(* The transaction of a submission that is on its way: built for it, or the *)
(* one it had before.                                                       *)
Carries(x, q) == x[q.tx] # Unused /\ x[q.tx].call.id = q.id

Inherits(r, q) ==
    q \in SubmitReqs =>
        \/ Carries(txs', q)
        \/ req[r] \in SubmitReqs /\ q.tx = req[r].tx /\ q.id = req[r].id

(* The moves of a request r to q: every step of a request is one of them.   *)
Rests(r, q) ==
    /\ q \in {Idle} \cup InitiateReqs \cup FundReqs
    /\ q \in FundReqs => q.pc = "claim" /\ row[q.id] # NoRow
    /\ q \in SubmitReqs => req[r] = Idle /\ txs[q.tx] # Unused
    /\ row' = row
    /\ \/ audit' = audit
       \/ req[r].pc = "audit" /\ audit' = audit \cup {req[r].tx}

Creates(r, q) ==
    /\ q \in InitiateReqs /\ row[q.id] = NoRow
    /\ \E p \in AnyRows : p.status = "PENDING" /\ row' = [row EXCEPT ![q.id] = p]
    /\ audit' = audit

TakesOff(r, q) ==
    /\ q \in FundReqs /\ q.pc \in FlyingPcs
    /\ Inherits(r, q)
    /\ req[r].pc = "claim" /\ q.id = req[r].id
    /\ row[q.id].status = "PENDING" /\ row' = [row EXCEPT ![q.id].status = "FUNDING"]
    /\ audit' = audit

Flies(r, q) ==
    /\ q \in FundReqs /\ q.pc \in FlyingPcs
    /\ Inherits(r, q)
    /\ req[r].pc \in FlyingPcs /\ q.id = req[r].id
    /\ row' = row /\ audit' = audit

Lands(r, q) ==
    /\ q = Idle /\ req[r].pc \in FlyingPcs
    /\ \E p \in AnyRows : p.status \in {"PENDING", "FUNDED"} /\ row' = [row EXCEPT ![req[r].id] = p]
    /\ audit' = audit

Asks(r, q) ==
    /\ q \in InvokeReqs /\ req[r] = Idle
    /\ row[q.id] # NoRow /\ row' = row /\ audit' = audit

Invokes(r, q) ==
    /\ q \in SettleReqs /\ q.pc = "settle"
    /\ req[r].pc = "invoke" /\ q.id = req[r].id /\ q.op = req[r].op
    /\ Build(q.tx, Platform, SettleCall(q.op, q.id))
    /\ row' = row /\ audit' = audit

Hears(r, q) ==
    /\ q \in SettleReqs /\ q.pc \in {"settlePoll", "recordSettled"}
    /\ req[r].pc \in {"settle", "settlePoll"}
    /\ q.id = req[r].id /\ q.op = req[r].op /\ q.tx = req[r].tx
    /\ q.pc = "recordSettled" => q.op # "confirm" /\ Reaches(txs', q.tx)
    /\ row' = row /\ audit' = audit

Records(r, q) ==
    /\ q \in SettleReqs /\ q.pc = "audit" /\ req[r].pc = "recordSettled"
    /\ q.id = req[r].id /\ q.op = req[r].op /\ q.tx = req[r].tx
    /\ \E p \in AnyRows : /\ p.status = SettledStatus(q.op) /\ p.txHash = q.tx
                          /\ row' = [row EXCEPT ![q.id] = p]
    /\ audit' = audit

Move(r, q) ==
    /\ req' = [req EXCEPT ![r] = q]
    /\ UNCHANGED <<shipment, wallet>>
    /\ \/ Rests(r, q) \/ Creates(r, q) \/ TakesOff(r, q) \/ Flies(r, q) \/ Lands(r, q)
       \/ Asks(r, q) \/ Invokes(r, q) \/ Hears(r, q) \/ Records(r, q)

LEMMA RowSet ==
    ASSUME Shape, NEW id \in Ids, NEW p \in AnyRows, row' = [row EXCEPT ![id] = p]
    PROVE  /\ row' \in [Ids -> AnyRows \cup {NoRow}]
           /\ row'[id] = p /\ p # NoRow
           /\ \A i \in Ids \ {id} : row'[i] = row[i]
  BY DEF Shape, AnyRows, NoRow

LEMMA MoveRow ==
    ASSUME Shape, NEW r \in Requests, NEW q, Move(r, q)
    PROVE  /\ q \in AnyReqs
           /\ row' \in [Ids -> AnyRows \cup {NoRow}]
           /\ \A id \in Ids : row[id] # NoRow => row'[id] # NoRow
           /\ req'[r] = q /\ \A s \in Requests \ {r} : req'[s] = req[s]
<1>1. q \in AnyReqs
  BY DEF Move, Rests, Creates, TakesOff, Flies, Lands, Asks, Invokes, Hears, Records, AnyReqs
<1>2. req[r] \in AnyReqs
  BY DEF Shape
<1> DEFINE Rows2 == /\ row' \in [Ids -> AnyRows \cup {NoRow}]
                    /\ \A id \in Ids : row[id] # NoRow => row'[id] # NoRow
<1>3. row' = row => Rows2
  BY DEF Shape
<1>4. ASSUME NEW id \in Ids, NEW p \in AnyRows, row' = [row EXCEPT ![id] = p] PROVE Rows2
  BY <1>4, RowSet DEF Shape
<1>5. ASSUME TakesOff(r, q) PROVE Rows2
  <2>1. q.id \in Ids
    BY <1>5 DEF TakesOff, FundReqs, SubmitReqs, TestReqs
  <2>2. row[q.id] \in AnyRows
    BY <1>5, <2>1 DEF TakesOff, Shape, NoRow
  <2>3. [row[q.id] EXCEPT !.status = "FUNDING"] \in AnyRows
    BY <2>2 DEF AnyRows
  <2> QED
    BY <1>4, <1>5, <2>1, <2>3 DEF TakesOff
<1>6. Creates(r, q) \/ Records(r, q) => q.id \in Ids
  BY DEF Creates, Records, InitiateReqs, SettleReqs
<1>7. Lands(r, q) => req[r].id \in Ids
  BY <1>2, AnyReqFacts DEF Lands, FlyingPcs
<1> HIDE DEF Rows2
<1>8. Rows2
  BY <1>3, <1>4, <1>5, <1>6, <1>7 DEF Move, Rests, Creates, Flies, Lands, Asks, Invokes, Hears, Records
<1>9. req'[r] = q /\ \A s \in Requests \ {r} : req'[s] = req[s]
  BY DEF Move, Shape
<1> QED
  BY <1>1, <1>8, <1>9 DEF Rows2

(* What the system does to the network: it builds, hands over, applies or   *)
(* drops one transaction, or one comes from outside.                        *)
Hands(s) == req[s].pc \in {"send", "settle"} /\ req[s].tx \in TxIds /\ Enqueue(req[s].tx)

NetworkMove ==
    \/ UNCHANGED stellarVars
    \/ \E call \in Calls \cup SettleCalls, source \in Accounts :
         (call.op = "fund" => source = Shipper) /\ Builds(call, source)
    \/ \E s \in Requests : Hands(s)
    \/ \E t \in TxIds : Apply(t) \/ Drop(t)
    \/ \E id \in Ids : (\E a \in Accounts : PartyDisputes(id, a)) \/ PlatformResolves(id)

LEMMA StepNetwork ==
    ASSUME OneWallet, Shape, [SettlementNext]_settlementVars
    PROVE  NetworkMove
<1>1. ASSUME NEW r \in Requests, req[r].id \in Ids, req[r].wallet \in Bindings,
             NEW t \in TxIds, Deposit(t, r)
      PROVE  NetworkMove
  <2> DEFINE call == FundCall(req[r].id, req[r].wallet.carrier, Price)
  <2>1. call \in Calls \cup SettleCalls
    BY <1>1 DEF FundCall, Calls, Bindings
  <2>2. req[r].wallet.shipper = Shipper /\ Shipper \in Accounts
    BY <1>1, OnePayer DEF Bindings
  <2>3. Builds(call, Shipper)
    BY <1>1, <2>2 DEF Deposit, Builds
  <2> HIDE DEF call
  <2> QED
    BY <2>1, <2>2, <2>3 DEF NetworkMove
<1>2. ASSUME NEW id \in Ids, NEW op \in Ops, Builds(SettleCall(op, id), Platform)
      PROVE  NetworkMove
  <2>1. SettleCall(op, id) \in Calls \cup SettleCalls /\ SettleCall(op, id).op # "fund"
    BY DEF SettleCall, RefundCall, ReleaseCall, SettleCalls
  <2> QED
    BY <1>2, <2>1, PlatformAssumption DEF NetworkMove
<1>3. ASSUME NEW r \in Requests
      PROVE  /\ req[r] \in AnyReqs
             /\ req[r].pc \in {"build", "sign"} => req[r].id \in Ids /\ req[r].wallet \in Bindings
             /\ req[r].pc \in {"send", "settle"} => req[r].tx \in TxIds
             /\ req[r].pc = "invoke" => req[r].id \in Ids /\ req[r].op \in Ops
             /\ req[r].pc # "refresh" /\ req[r].pc # "update"
  <2>1. req[r] \in AnyReqs
    BY DEF Shape
  <2> QED
    BY <2>1, AnyReqFacts DEF InitiateReqs, TestReqs, SubmitReqs, InvokeReqs, SettleReqs, SettlePcs
<1>4. ASSUME NEW r \in Requests, Proceed(r) PROVE NetworkMove
  <2>1. CASE BuildXdr(r) \/ SignTest(r)
    BY <1>1, <1>3, <2>1 DEF BuildXdr, SignTest, NetworkMove
  <2>2. CASE SendAccepted(r) \/ SendResponseLost(r)
    BY <1>3, <2>2 DEF SendAccepted, SendResponseLost, NetworkMove, Hands
  <2> QED
    BY <1>4, <2>1, <2>2 DEF Proceed, FindRow, Refresh, Comparing, RefreshUpdate, InitiateFails,
         Claim, SendRejected, SendUnclear, Poll, MarkFunded, Unclaim, NetworkMove
<1>5. ASSUME NEW r \in Requests, SettleProceed(r) PROVE NetworkMove
  <2>1. CASE Invoke(r)
    BY <1>2, <1>3, <2>1 DEF Invoke, Builds
  <2>2. CASE SettleAccepted(r) \/ SettleResponseLost(r)
    BY <1>3, <2>2 DEF SettleAccepted, SettleResponseLost, NetworkMove, Hands
  <2> QED
    BY <1>5, <2>1, <2>2 DEF SettleProceed, SettleUnclear, SettlePoll, RecordSettled, WriteAudit,
         SettleFails, NetworkMove
<1>6. ASSUME FundingNext PROVE NetworkMove
  BY <1>4, <1>6 DEF FundingNext, ReliableNext, Initiate, Submit, SubmitTestSigned, Ledger,
       LedgerStep, ShipmentMoves, ChangeWallet, UnclaimFails, Crash, NetworkMove
<1>7. ASSUME NEW r \in Requests, NEW id \in Ids,
             AdminRelease(r, id) \/ AdminRefund(r, id) \/ ReleaseConfirmed(r, id)
      PROVE  NetworkMove
  BY <1>7 DEF AdminRelease, AdminRefund, ReleaseConfirmed, Settle, NetworkMove
<1> QED
  BY <1>5, <1>6, <1>7 DEF SettlementNext, settlementVars, fundingVars, NetworkMove

LEMMA NetStep ==
    ASSUME OneWallet, Net, Shape, [SettlementNext]_settlementVars
    PROVE  Net' /\ Kept(txs, txs')
<1>1. CASE UNCHANGED stellarVars
  <2>1. UNCHANGED <<txs, seq, escrow>>
    BY <1>1 DEF stellarVars, chainVars
  <2>2. Kept(txs, txs')
    BY <2>1 DEF Kept
  <2> QED
    BY <2>1, <2>2 DEF Net, NetTyped, InLine, OneWaits, Fits, IsFund
<1> QED
  BY <1>1, StepNetwork, BuildKeeps, EnqueueKeeps, ApplyKeeps, DropKeeps, OutsideKeeps
     DEF NetworkMove, Hands

(* A step within one kind of request. *)
LEMMA Going ==
    ASSUME NEW q \in AnyReqs, NEW pc
    PROVE  /\ q \in InitiateReqs /\ pc = "build" => [q EXCEPT !.pc = pc] \in InitiateReqs
           /\ q \in SubmitReqs /\ pc \in {"send", "poll", "markFunded", "unclaim"} =>
                /\ [q EXCEPT !.pc = pc] \in SubmitReqs /\ [q EXCEPT !.pc = pc].id = q.id
                /\ [q EXCEPT !.pc = pc].tx = q.tx
           /\ q \in TestReqs /\ pc \in {"sign", "unclaim"} =>
                /\ [q EXCEPT !.pc = pc] \in TestReqs /\ [q EXCEPT !.pc = pc].id = q.id
                /\ [q EXCEPT !.pc = pc] \notin SubmitReqs
           /\ q \in SettleReqs /\ pc \in SettlePcs =>
                /\ [q EXCEPT !.pc = pc] \in SettleReqs /\ [q EXCEPT !.pc = pc].id = q.id
                /\ [q EXCEPT !.pc = pc].op = q.op /\ [q EXCEPT !.pc = pc].tx = q.tx
           /\ q \in InitiateReqs \cup FundReqs \cup SettleReqs => [q EXCEPT !.pc = pc].pc = pc
  BY DEF InitiateReqs, SubmitReqs, TestReqs, SettleReqs, SettlePcs, FundReqs, TxIds, NoTx

LEMMA NotFunding == \A q \in {Idle} \cup InitiateReqs : q \notin FundReqs /\ q \notin SubmitReqs
  BY DEF Idle, InitiateReqs, FundReqs, SubmitReqs, TestReqs

LEMMA FundingMove ==
    ASSUME OneWallet, Net, Shape, UNCHANGED audit,
           NEW r \in Requests, Proceed(r)
    PROVE  \E q : Move(r, q)
<1> DEFINE Done == \E q : Move(r, q)
           id == req[r].id
<1>1. req[r] \in AnyReqs /\ (req[r].pc # "idle" => id \in Ids)
  BY AnyReqFacts DEF Shape
<1>14. ASSUME req[r] \in SubmitReqs, NEW q, q.tx = req[r].tx, q.id = id PROVE Inherits(r, q)
  BY <1>14 DEF Inherits
<1>2. ASSUME Finish(r), row' = row, UNCHANGED <<shipment, wallet>> PROVE Done
  <2>1. Rests(r, Idle)
    BY <1>2, NotFunding DEF Rests
  <2> QED
    BY <1>2, <2>1 DEF Finish, Move
<1>3. ASSUME Goto(r, "build"), row' = row, UNCHANGED <<shipment, wallet>>, req[r].pc = "findRow" PROVE Done
  <2>1. [req[r] EXCEPT !.pc = "build"] \in InitiateReqs /\ [req[r] EXCEPT !.pc = "build"].pc = "build"
    BY <1>1, <1>3, Going, AnyReqFacts
  <2> QED
    BY <1>3, <2>1, NotFunding DEF Goto, Move, Rests
<1>4. ASSUME NEW pc \in FlyingPcs, Goto(r, pc), row' = row, UNCHANGED <<shipment, wallet>>,
             req[r].pc \in FlyingPcs,
             req[r] \in SubmitReqs => pc \in {"send", "poll", "markFunded", "unclaim"},
             req[r] \in TestReqs => pc \in {"sign", "unclaim"}
      PROVE  Done
  <2>1. req[r] \in FundReqs
    BY <1>1, <1>4, AnyReqFacts
  <2>2. /\ [req[r] EXCEPT !.pc = pc] \in FundReqs /\ [req[r] EXCEPT !.pc = pc].pc = pc
        /\ [req[r] EXCEPT !.pc = pc].id = id
    BY <1>1, <1>4, <2>1, Going DEF FundReqs
  <2>3. Inherits(r, [req[r] EXCEPT !.pc = pc])
    <3>1. CASE req[r] \in SubmitReqs
      BY <1>1, <1>4, <1>14, <3>1, Going
    <3>2. CASE req[r] \in TestReqs
      BY <1>1, <1>4, <3>2, Going DEF Inherits
    <3> QED
      BY <2>1, <3>1, <3>2 DEF FundReqs
  <2> QED
    BY <1>4, <2>2, <2>3 DEF Goto, Move, Flies
<1>5. ASSUME NEW p \in AnyRows, p.status \in {"PENDING", "FUNDED"}, req[r].pc \in FlyingPcs,
             row' = [row EXCEPT ![id] = p], Finish(r), UNCHANGED <<shipment, wallet>>
      PROVE  Done
  BY <1>5 DEF Finish, Move, Lands
<1>6. CASE FindRow(r)
  <2>1. req[r] \in InitiateReqs /\ req[r].wallet \in Bindings /\ id \in Ids
    BY <1>1, <1>6, AnyReqFacts DEF FindRow, InitiateReqs
  <2>2. row[id].status = "PENDING" => Bound(row[id]) = req[r].wallet
    <3>1. row[id].status = "PENDING" => Bound(row[id]) \in Bindings
      BY <2>1, AnyRowIsBound DEF Shape, NoRow
    <3> QED
      BY <2>1, <3>1 DEF OneWallet
  <2>3. CASE row[id] = NoRow /\ Goto(r, "build") /\ row' = [row EXCEPT ![id] =
               [status |-> "PENDING", carrier |-> req[r].wallet.carrier,
                shipper |-> req[r].wallet.shipper, txHash |-> NoTx]]
    <3> DEFINE q == [req[r] EXCEPT !.pc = "build"]
               p == [status |-> "PENDING", carrier |-> req[r].wallet.carrier,
                     shipper |-> req[r].wallet.shipper, txHash |-> NoTx]
    <3>1. q \in InitiateReqs /\ q.id = id /\ p \in AnyRows /\ p.status = "PENDING"
      BY <2>1 DEF InitiateReqs, AnyRows, Bindings
    <3>2. req' = [req EXCEPT ![r] = q] /\ row' = [row EXCEPT ![id] = p] /\ UNCHANGED <<shipment, wallet>>
      BY <1>6, <2>3 DEF Goto, FindRow
    <3> HIDE DEF q, p
    <3> QED
      BY <2>3, <3>1, <3>2 DEF Move, Creates
  <2> QED
    BY <1>2, <1>3, <1>6, <2>2, <2>3 DEF FindRow
<1>7. CASE Refresh(r) \/ RefreshUpdate(r)
  BY <1>1, <1>7, AnyReqFacts DEF Refresh, Comparing, RefreshUpdate
<1>8. CASE BuildXdr(r) \/ InitiateFails(r)
  BY <1>2, <1>8 DEF BuildXdr, InitiateFails
<1>9. CASE Claim(r)
  <2>1. req[r] \in FundReqs /\ id \in Ids
    BY <1>1, <1>9, AnyReqFacts DEF Claim
  <2>2. ASSUME NEW pc \in FlyingPcs, row[id].status = "PENDING",
               req[r] \in SubmitReqs => pc = "send", req[r] \in TestReqs => pc = "sign",
               row' = [row EXCEPT ![id].status = "FUNDING"], Goto(r, pc)
        PROVE  Done
    <3>1. /\ [req[r] EXCEPT !.pc = pc] \in FundReqs /\ [req[r] EXCEPT !.pc = pc].pc = pc
          /\ [req[r] EXCEPT !.pc = pc].id = id
      BY <1>1, <2>1, <2>2, Going DEF FundReqs
    <3>2. Inherits(r, [req[r] EXCEPT !.pc = pc])
      <4>1. CASE req[r] \in SubmitReqs
        <5>1. [req[r] EXCEPT !.pc = pc].tx = req[r].tx
          BY <1>1, <2>2, <4>1, Going
        <5> QED
          BY <1>14, <3>1, <4>1, <5>1
      <4>2. CASE req[r] \in TestReqs
        BY <1>1, <2>2, <4>2, Going DEF Inherits
      <4> QED
        BY <2>1, <4>1, <4>2 DEF FundReqs
    <3> QED
      BY <1>9, <2>2, <3>1, <3>2 DEF Goto, Move, TakesOff, Claim
  <2>3. req[r] \in SubmitReqs => req[r].tx # NoTx
    BY DEF SubmitReqs, TxIds, NoTx
  <2>4. req[r] \in TestReqs => req[r].tx = NoTx
    BY DEF TestReqs
  <2> QED
    BY <1>2, <1>9, <2>1, <2>2, <2>3, <2>4 DEF Claim, FlyingPcs, FundReqs
<1>10. CASE SignTest(r)
  <2>1. req[r] \in TestReqs /\ id \in Ids /\ req[r] \notin SubmitReqs
    BY <1>1, <1>10, AnyReqFacts DEF SignTest, SubmitReqs
  <2>2. ASSUME NEW t \in TxIds, Deposit(t, r),
               req' = [req EXCEPT ![r] = [pc |-> "send", id |-> id, tx |-> t]]
        PROVE  Done
    <3> DEFINE q == [pc |-> "send", id |-> id, tx |-> t]
    <3>1. q \in FundReqs /\ q.pc \in FlyingPcs /\ q.id = id
      BY <2>1 DEF FundReqs, SubmitReqs, FlyingPcs
    <3>2. req[r].pc \in FlyingPcs
      BY <1>10 DEF SignTest, FlyingPcs
    <3>3. Inherits(r, q)
      BY <2>2 DEF Deposit, Build, FundCall, Net, NetTyped, Carries, Inherits, Unused
    <3> HIDE DEF q
    <3> QED
      BY <1>10, <2>2, <3>1, <3>2, <3>3 DEF Move, Flies, SignTest, q
  <2> QED
    BY <1>4, <1>10, <2>1, <2>2 DEF SignTest, FlyingPcs
<1>11. CASE SendAccepted(r) \/ SendRejected(r) \/ SendResponseLost(r) \/ SendUnclear(r) \/ Poll(r)
  <2>1. req[r].pc \in {"send", "poll"} /\ UNCHANGED <<shipment, wallet, row>>
    BY <1>11 DEF SendAccepted, SendRejected, SendResponseLost, SendUnclear, Poll
  <2>2. req[r] \in SubmitReqs /\ req[r] \notin TestReqs /\ req[r].pc \in FlyingPcs
    BY <1>1, <2>1, AnyReqFacts DEF TestReqs, FlyingPcs
  <2>3. \E pc \in {"poll", "markFunded", "unclaim"} : Goto(r, pc)
    BY <1>11 DEF SendAccepted, SendRejected, SendResponseLost, SendUnclear, Poll
  <2> QED
    BY <1>4, <2>1, <2>2, <2>3 DEF FlyingPcs
<1>12. CASE MarkFunded(r)
  <2>1. /\ req[r] \in SubmitReqs /\ req[r] \notin TestReqs /\ req[r].tx \in TxIds
        /\ req[r].pc \in FlyingPcs /\ id \in Ids
    BY <1>1, <1>12, AnyReqFacts DEF MarkFunded, SubmitReqs, TestReqs, FlyingPcs
  <2>2. row[id] \in AnyRows
    BY <1>12, <2>1 DEF MarkFunded, Shape, RowedPcs
  <2>3. CASE Finish(r) /\ row' = [row EXCEPT ![id].status = "FUNDED", ![id].txHash = req[r].tx]
    <3> DEFINE p == [[row[id] EXCEPT !.status = "FUNDED"] EXCEPT !.txHash = req[r].tx]
    <3>1. p \in AnyRows /\ p.status = "FUNDED"
      BY <2>1, <2>2 DEF AnyRows, NonFundable
    <3>2. row' = [row EXCEPT ![id] = p]
      BY <2>1, <2>3 DEF Shape
    <3> HIDE DEF p
    <3> QED
      BY <1>5, <1>12, <2>1, <2>3, <3>1, <3>2 DEF MarkFunded
  <2> QED
    BY <1>4, <1>12, <2>1, <2>3 DEF MarkFunded, FlyingPcs
<1>13. CASE Unclaim(r)
  <2>1. req[r].pc \in FlyingPcs /\ id \in Ids
    BY <1>1, <1>13 DEF Unclaim, FlyingPcs
  <2>2. row[id] \in AnyRows
    BY <2>1 DEF Shape, RowedPcs
  <2>3. [row[id] EXCEPT !.status = "PENDING"] \in AnyRows /\ [row[id] EXCEPT !.status = "PENDING"].status = "PENDING"
    BY <2>2 DEF AnyRows
  <2> QED
    BY <1>5, <1>13, <2>1, <2>3 DEF Unclaim
<1> QED
  BY <1>6, <1>7, <1>8, <1>9, <1>10, <1>11, <1>12, <1>13 DEF Proceed

(* Settlements move the same way; that the node took their transaction is   *)
(* what Enqueue, or a poll that finds it applied, tells.                    *)
LEMMA SettleMove ==
    ASSUME Net, Shape, Sound, NEW r \in Requests, SettleProceed(r)
    PROVE  \E q : Move(r, q)
<1> DEFINE Done == \E q : Move(r, q)
<1>1. req[r] \in AnyReqs
  BY DEF Shape
<1>2. ASSUME Finish(r), row' = row, UNCHANGED <<shipment, wallet>>,
             audit' = audit \/ (req[r].pc = "audit" /\ audit' = audit \cup {req[r].tx})
      PROVE  Done
  <2>1. Rests(r, Idle)
    BY <1>2, NotFunding DEF Rests
  <2> QED
    BY <1>2, <2>1 DEF Finish, Move
<1>3. ASSUME NEW pc \in {"settlePoll", "recordSettled"}, Goto(r, pc),
             req[r].pc \in {"settle", "settlePoll"},
             pc = "recordSettled" => req[r].op # "confirm" /\ Reaches(txs', req[r].tx),
             UNCHANGED <<shipment, wallet, row, audit>>
      PROVE  Done
  <2>1. req[r] \in SettleReqs
    BY <1>1, <1>3, AnyReqFacts DEF SettlePcs
  <2> DEFINE q == [req[r] EXCEPT !.pc = pc]
  <2>2. /\ q \in SettleReqs /\ q.id = req[r].id /\ q.op = req[r].op /\ q.tx = req[r].tx
        /\ q.pc = pc
    BY <1>1, <2>1, Going DEF SettlePcs
  <2>3. req' = [req EXCEPT ![r] = q]
    BY <1>3 DEF Goto
  <2> HIDE DEF q
  <2> QED
    BY <1>3, <2>2, <2>3 DEF Move, Hears
<1>4. CASE Invoke(r)
  <2>1. req[r] \in InvokeReqs
    BY <1>1, <1>4, AnyReqFacts DEF Invoke
  <2>2. PICK t \in TxIds :
          /\ Build(t, Platform, SettleCall(req[r].op, req[r].id))
          /\ req' = [req EXCEPT ![r] = [pc |-> "settle", id |-> req[r].id, op |-> req[r].op, tx |-> t]]
    BY <1>4 DEF Invoke
  <2> DEFINE q == [pc |-> "settle", id |-> req[r].id, op |-> req[r].op, tx |-> t]
  <2>3. /\ q \in SettleReqs /\ q.pc = "settle"
        /\ q.id = req[r].id /\ q.op = req[r].op /\ q.tx = t
    BY <2>1 DEF InvokeReqs, SettleReqs, SettlePcs
  <2>4. req' = [req EXCEPT ![r] = q] /\ Build(q.tx, Platform, SettleCall(q.op, q.id))
    BY <2>2, <2>3
  <2> HIDE DEF q
  <2> QED
    BY <1>4, <2>3, <2>4 DEF Invoke, Move, Invokes
<1>5. ASSUME req[r].pc \in SettlePcs
      PROVE  req[r] \in SettleReqs /\ req[r].tx \in TxIds /\ txs[req[r].tx] # Unused
  BY <1>1, <1>5, AnyReqFacts DEF SettleReqs, Sound, Knows, Settles
<1>6. CASE SettleAccepted(r) \/ SettlePoll(r)
  <2>1. req[r].pc \in {"settle", "settlePoll"} /\ req[r].tx \in TxIds
    BY <1>5, <1>6 DEF SettleAccepted, SettlePoll, SettlePcs
  <2>2. Reaches(txs', req[r].tx)
    BY <1>6, <2>1, EnqueueKeeps DEF SettleAccepted, SettlePoll, Reaches, stellarVars
  <2> QED
    BY <1>2, <1>3, <1>6, <2>1, <2>2 DEF SettleAccepted, SettlePoll, SettleSucceeds
<1>7. CASE SettleUnclear(r)
  BY <1>3, <1>7 DEF SettleUnclear
<1>8. CASE RecordSettled(r)
  <2>1. /\ req[r] \in SettleReqs /\ req[r].id \in Ids /\ req[r].tx \in TxIds
        /\ row[req[r].id] \in AnyRows
        /\ SettledStatus(req[r].op) \in NonFundable
    BY <1>5, <1>8 DEF RecordSettled, SettlePcs, SettleReqs, Shape, RowedPcs, SettledStatus, NonFundable
  <2> DEFINE p == [[row[req[r].id] EXCEPT !.status = SettledStatus(req[r].op)] EXCEPT !.txHash = req[r].tx]
             q == [req[r] EXCEPT !.pc = "audit"]
  <2>2. p \in AnyRows /\ p.status = SettledStatus(req[r].op) /\ p.txHash = req[r].tx
    BY <2>1 DEF AnyRows
  <2>3. row' = [row EXCEPT ![req[r].id] = p]
    BY <1>8, <2>1 DEF RecordSettled, Shape
  <2>4. /\ q \in SettleReqs /\ q.id = req[r].id /\ q.op = req[r].op /\ q.tx = req[r].tx
        /\ q.pc = "audit" /\ req' = [req EXCEPT ![r] = q]
    BY <1>1, <1>8, <2>1, Going DEF SettlePcs, RecordSettled, Goto
  <2> HIDE DEF p, q
  <2>5. QED
    <3>1. p.status = SettledStatus(q.op) /\ p.txHash = q.tx /\ row' = [row EXCEPT ![q.id] = p]
      BY <2>2, <2>3, <2>4
    <3>2. Records(r, q)
      BY <1>8, <2>2, <2>4, <3>1 DEF RecordSettled, Records
    <3> QED
      BY <1>8, <2>4, <3>2 DEF RecordSettled, Move
<1> QED
  BY <1>2, <1>4, <1>6, <1>7, <1>8 DEF SettleProceed, SettleResponseLost, WriteAudit, SettleFails

LEMMA StartMove ==
    ASSUME Shape, NEW r \in Requests, NEW id \in Ids,
           \/ Initiate(r, id) /\ UNCHANGED audit
           \/ (\E t \in TxIds : Submit(r, id, t)) /\ UNCHANGED audit
           \/ SubmitTestSigned(r, id) /\ UNCHANGED audit
           \/ AdminRelease(r, id) \/ AdminRefund(r, id) \/ ReleaseConfirmed(r, id)
    PROVE  \E q : Move(r, q)
<1>1. CASE Initiate(r, id) /\ UNCHANGED audit
  <2>1. [pc |-> "findRow", id |-> id, wallet |-> wallet[id]] \in InitiateReqs
    BY DEF Shape, InitiateReqs
  <2> QED
    BY <1>1, <2>1, NotFunding DEF Initiate, Move, Rests
<1>2. ASSUME NEW t \in TxIds, Submit(r, id, t), UNCHANGED audit PROVE \E q : Move(r, q)
  <2> DEFINE q == [pc |-> "claim", id |-> id, tx |-> t]
  <2>1. q \in FundReqs /\ q.pc = "claim" /\ q.id = id
    BY DEF FundReqs, SubmitReqs
  <2>2. req' = [req EXCEPT ![r] = q] /\ req[r] = Idle /\ txs[q.tx] # Unused
    BY <1>2 DEF Submit
  <2> HIDE DEF q
  <2> QED
    BY <1>2, <2>1, <2>2 DEF Submit, Move, Rests
<1>3. CASE SubmitTestSigned(r, id) /\ UNCHANGED audit
  <2> DEFINE q == [pc |-> "claim", id |-> id, tx |-> NoTx, wallet |-> Bound(row[id])]
  <2>1. Bound(row[id]) \in Bindings
    BY <1>3, AnyRowIsBound DEF SubmitTestSigned, Shape
  <2>2. q \in FundReqs /\ q.pc = "claim" /\ q.id = id /\ q \notin SubmitReqs
    BY <2>1 DEF FundReqs, TestReqs, SubmitReqs, TxIds, NoTx
  <2>3. req' = [req EXCEPT ![r] = q]
    BY <1>3 DEF SubmitTestSigned
  <2> HIDE DEF q
  <2> QED
    BY <1>3, <2>2, <2>3 DEF SubmitTestSigned, Move, Rests
<1>4. ASSUME NEW op \in Ops, Settle(r, id, op) PROVE \E q : Move(r, q)
  <2> DEFINE q == [pc |-> "invoke", id |-> id, op |-> op]
  <2>1. q \in InvokeReqs /\ q.id = id
    BY DEF InvokeReqs
  <2>2. req' = [req EXCEPT ![r] = q]
    BY <1>4 DEF Settle
  <2> HIDE DEF q
  <2> QED
    BY <1>4, <2>1, <2>2 DEF Settle, Move, Asks
<1> QED
  BY <1>1, <1>2, <1>3, <1>4 DEF AdminRelease, AdminRefund, ReleaseConfirmed, Ops

(* Every step of the system is a move of one request, the end of all of     *)
(* them, or leaves requests, rows and audit log alone.                      *)
AllEnd == req' = [r \in Requests |-> Idle] /\ UNCHANGED <<wallet, row, audit>>
Apart == UNCHANGED <<row, req, audit>> /\ wallet' \in [Ids -> Bindings]

LEMMA StepMoves ==
    ASSUME OneWallet, Net, Shape, Sound, [SettlementNext]_settlementVars
    PROVE  (\E r \in Requests : \E q : Move(r, q)) \/ AllEnd \/ Apart
<1>1. CASE \E r \in Requests : Proceed(r) /\ UNCHANGED audit
  BY <1>1, NetStep, FundingMove
<1>2. CASE \E r \in Requests : SettleProceed(r)
  BY <1>2, SettleMove
<1>3. ASSUME NEW r \in Requests, UnclaimFails(r), UNCHANGED audit PROVE \E q : Move(r, q)
  <2>1. Rests(r, Idle)
    BY <1>3, NotFunding DEF UnclaimFails, Rests
  <2> QED
    BY <1>3, <2>1 DEF UnclaimFails, Finish, Move
<1>4. CASE (Crash \/ Ledger \/ \E id \in Ids : ShipmentMoves(id)) /\ UNCHANGED audit
  BY <1>4 DEF Crash, Ledger, ShipmentMoves, AllEnd, Apart, Shape
<1>5. ASSUME NEW id \in Ids, NEW party \in {"carrier", "shipper"}, NEW w,
             party = "carrier" => w \in Wallets, party = "shipper" => w \in Payers,
             ChangeWallet(id, party, w), UNCHANGED audit
      PROVE  Apart
  <2>1. [wallet[id] EXCEPT ![party] = w] \in Bindings
    BY <1>5 DEF Shape, Bindings
  <2>2. wallet' = [wallet EXCEPT ![id] = [wallet[id] EXCEPT ![party] = w]]
    BY <1>5 DEF ChangeWallet, Shape
  <2> QED
    BY <1>5, <2>1, <2>2 DEF ChangeWallet, Apart, Shape
<1>6. CASE \E id \in Ids : (\E a \in Accounts : PartyDisputes(id, a)) \/ PlatformResolves(id)
  BY <1>6, OutsideKeeps DEF Apart, Shape
<1>7. CASE UNCHANGED settlementVars
  BY <1>7 DEF settlementVars, fundingVars, Apart, Shape
<1> QED
  BY <1>1, <1>2, <1>3, <1>4, <1>5, <1>6, <1>7, StartMove DEF SettlementNext, FundingNext, ReliableNext

LEMMA SettlesKept ==
    ASSUME NEW x, NEW y, Kept(x, y)
    PROVE  /\ \A t, op, id : Settles(x, t, op, id) =>
                Settles(y, t, op, id) /\ (Reaches(x, t) => Reaches(y, t))
           /\ \A q : Knows(x, q) => Knows(y, q)
           /\ \A id, p : SaysTrue(x, id, p) => SaysTrue(y, id, p)
           /\ AuditTrue(x) => AuditTrue(y)
<1>1. \A t, op, id : Settles(x, t, op, id) =>
         Settles(y, t, op, id) /\ (Reaches(x, t) => Reaches(y, t))
  BY DEF Kept, Settles
<1>2. \A q : Knows(x, q) => Knows(y, q)
  BY <1>1 DEF Knows, SettlePcs
<1>3. \A id, p : SaysTrue(x, id, p) => SaysTrue(y, id, p)
  BY <1>1 DEF SaysTrue
<1>4. AuditTrue(x) => AuditTrue(y)
  BY DEF Kept, AuditTrue
<1> QED
  BY <1>1, <1>2, <1>3, <1>4

LEMMA NothingSettled ==
    /\ \A x, q : q.pc \notin SettlePcs => Knows(x, q)
    /\ \A x, id, p : p.status \in {"PENDING", "FUNDING", "FUNDED"} => SaysTrue(x, id, p)
  BY DEF Knows, SettlePcs, SaysTrue, SettledStatus

(* A move keeps what requests, rows and the audit log say true. *)
LEMMA MoveKeeps ==
    ASSUME Net, Shape, Sound, Kept(txs, txs'), NEW r \in Requests, NEW q, Move(r, q)
    PROVE  Shape' /\ Sound'
<1>1. /\ q \in AnyReqs
      /\ row' \in [Ids -> AnyRows \cup {NoRow}]
      /\ \A id \in Ids : row[id] # NoRow => row'[id] # NoRow
      /\ req'[r] = q /\ \A s \in Requests \ {r} : req'[s] = req[s]
  BY MoveRow
<1>2. /\ \A t, op, id : Settles(txs, t, op, id) =>
           Settles(txs', t, op, id) /\ (Reaches(txs, t) => Reaches(txs', t))
      /\ \A s : Knows(txs, s) => Knows(txs', s)
      /\ \A id, p : SaysTrue(txs, id, p) => SaysTrue(txs', id, p)
      /\ AuditTrue(txs) => (\A t \in audit : /\ t \in TxIds /\ txs'[t] # Unused
                     /\ Reaches(txs', t) /\ txs'[t].call.op \in {"release", "refund"})
  BY SettlesKept DEF AuditTrue
<1>3. req[r] \in AnyReqs /\ Knows(txs, req[r])
  BY DEF Shape, Sound
<1>4. q.pc \in RowedPcs => row'[q.id] # NoRow
  <2>1. CASE Rests(r, q)
    BY <1>1, <2>1 DEF Rests, Idle, InitiateReqs, RowedPcs, FlyingPcs, SettlePcs
  <2>2. CASE Creates(r, q)
    BY <2>2 DEF Creates, InitiateReqs, RowedPcs, FlyingPcs, SettlePcs
  <2>3. CASE Lands(r, q)
    BY <2>3 DEF Lands, Idle, RowedPcs, FlyingPcs, SettlePcs
  <2>4. CASE Asks(r, q)
    BY <2>4 DEF Asks
  <2>5. CASE TakesOff(r, q) \/ Flies(r, q) \/ Invokes(r, q) \/ Hears(r, q) \/ Records(r, q)
    <3>1. q.id = req[r].id /\ req[r].pc \in RowedPcs
      BY <2>5 DEF TakesOff, Flies, Invokes, Hears, Records, RowedPcs, FlyingPcs, SettlePcs
    <3>2. req[r].pc # "idle"
      BY <3>1 DEF RowedPcs, FlyingPcs, SettlePcs
    <3> QED
      BY <1>1, <1>3, <3>1, <3>2, AnyReqFacts DEF Shape
  <2> QED
    BY <2>1, <2>2, <2>3, <2>4, <2>5 DEF Move
<1>5. Shape'
  <2>1. ASSUME NEW s \in Requests, req'[s].pc \in RowedPcs PROVE row'[req'[s].id] # NoRow
    <3>1. CASE s = r
      BY <1>1, <1>4, <2>1, <3>1
    <3>2. CASE s # r
      <4>1. req'[s] = req[s] /\ req[s] \in AnyReqs /\ req[s].pc # "idle"
        BY <1>1, <2>1, <3>2 DEF Shape, RowedPcs, FlyingPcs, SettlePcs
      <4> QED
        BY <1>1, <2>1, <4>1, AnyReqFacts DEF Shape
    <3> QED
      BY <3>1, <3>2
  <2> QED
    BY <1>1, <2>1 DEF Shape, Move
<1>6. Knows(txs', q)
  <2>1. CASE Invokes(r, q)
    <3>1. txs'[q.tx].call = SettleCall(q.op, q.id) /\ q.tx \in TxIds /\ txs'[q.tx] # Unused
      BY <2>1 DEF Invokes, Build, Net, NetTyped, SettleReqs, Unused
    <3> QED
      BY <2>1, <3>1 DEF Knows, Settles, Invokes
  <2>2. CASE Hears(r, q) \/ Records(r, q)
    <3>1. Settles(txs', q.tx, q.op, q.id) /\ (Reaches(txs, q.tx) => Reaches(txs', q.tx))
      BY <1>2, <1>3, <2>2 DEF Hears, Records, Knows, SettlePcs
    <3>2. q.op \in Ops
      BY <2>2 DEF Hears, Records, SettleReqs
    <3> QED
      BY <1>3, <2>2, <3>1, <3>2 DEF Hears, Records, Knows, Ops
  <2>3. ASSUME q \in {Idle} \cup InitiateReqs \cup FundReqs \cup InvokeReqs PROVE q.pc \notin SettlePcs
    BY <2>3 DEF Idle, InitiateReqs, FundReqs, SubmitReqs, TestReqs, InvokeReqs, SettlePcs
  <2>5. CASE Rests(r, q) \/ Creates(r, q) \/ TakesOff(r, q) \/ Flies(r, q) \/ Lands(r, q) \/ Asks(r, q)
    <3>1. q \in {Idle} \cup InitiateReqs \cup FundReqs \cup InvokeReqs
      BY <2>5 DEF Rests, Creates, TakesOff, Flies, Lands, Asks
    <3> QED
      BY <2>3, <3>1, NothingSettled
  <2> QED
    BY <2>1, <2>2, <2>5 DEF Move
<1>7. ASSUME NEW id \in Ids PROVE SaysTrue(txs', id, row'[id])
  <2>1. ASSUME row'[id] = row[id] PROVE SaysTrue(txs', id, row'[id])
    BY <1>2, <2>1 DEF Sound
  <2>2. CASE Rests(r, q) \/ Flies(r, q) \/ Asks(r, q) \/ Invokes(r, q) \/ Hears(r, q)
    BY <2>1, <2>2 DEF Rests, Flies, Asks, Invokes, Hears
  <2>3. ASSUME NEW i \in Ids, NEW p \in AnyRows, row' = [row EXCEPT ![i] = p],
               i = id => SaysTrue(txs', id, p)
        PROVE  SaysTrue(txs', id, row'[id])
    BY <2>1, <2>3, RowSet
  <2>8. \A p : p.status \in {"PENDING", "FUNDING", "FUNDED"} => SaysTrue(txs', id, p)
    BY NothingSettled
  <2>9. ASSUME NEW i \in Ids, NEW p \in AnyRows, row' = [row EXCEPT ![i] = p],
               p.status \in {"PENDING", "FUNDING", "FUNDED"}
        PROVE  SaysTrue(txs', id, row'[id])
    <3>1. SaysTrue(txs', id, p)
      BY <2>8, <2>9
    <3> QED
      BY <2>3, <2>9, <3>1
  <2>4. CASE Creates(r, q)
    <3>1. q.id \in Ids
      BY <2>4 DEF Creates, InitiateReqs
    <3> QED
      BY <2>4, <2>9, <3>1 DEF Creates
  <2>5. CASE TakesOff(r, q)
    <3>1. q.id \in Ids
      BY <2>5 DEF TakesOff, FundReqs, SubmitReqs, TestReqs
    <3>2. row[q.id] \in AnyRows
      BY <2>5, <3>1 DEF TakesOff, Shape, NoRow
    <3>3. [row[q.id] EXCEPT !.status = "FUNDING"] \in AnyRows
          /\ [row[q.id] EXCEPT !.status = "FUNDING"].status = "FUNDING"
      BY <3>2 DEF AnyRows
    <3> QED
      BY <2>5, <2>9, <3>1, <3>3 DEF TakesOff
  <2>6. CASE Lands(r, q)
    <3>1. req[r].id \in Ids
      BY <1>3, <2>6, AnyReqFacts DEF Lands, FlyingPcs
    <3> QED
      BY <2>6, <2>9, <3>1 DEF Lands
  <2>7. CASE Records(r, q)
    <3>1. PICK p \in AnyRows : /\ p.status = SettledStatus(q.op) /\ p.txHash = q.tx
                               /\ row' = [row EXCEPT ![q.id] = p]
      BY <2>7 DEF Records
    <3>2. q.id \in Ids /\ q.pc = "audit"
      BY <2>7 DEF Records, SettleReqs
    <3>3. Settles(txs', q.tx, q.op, q.id) /\ Reaches(txs', q.tx) /\ q.op \in {"release", "refund"}
      BY <1>6, <3>2 DEF Knows, SettlePcs
    <3>4. SaysTrue(txs', q.id, p)
      BY <3>1, <3>3 DEF SaysTrue, SettledStatus
    <3> QED
      BY <2>3, <3>1, <3>2, <3>4
  <2> QED
    BY <2>2, <2>4, <2>5, <2>6, <2>7 DEF Move
<1>8. \A t \in audit' : /\ t \in TxIds /\ txs'[t] # Unused
                        /\ Reaches(txs', t) /\ txs'[t].call.op \in {"release", "refund"}
  <2>1. ASSUME audit' = audit \cup {req[r].tx}, req[r].pc = "audit"
        PROVE  LET t == req[r].tx IN
               /\ t \in TxIds /\ txs'[t] # Unused
               /\ Reaches(txs', t) /\ txs'[t].call.op \in {"release", "refund"}
    BY <1>2, <1>3, <2>1 DEF Knows, Settles, SettlePcs, SettleCall, ReleaseCall, RefundCall
  <2>2. audit' = audit \/ (audit' = audit \cup {req[r].tx} /\ req[r].pc = "audit")
    BY DEF Move, Rests, Creates, TakesOff, Flies, Lands, Asks, Invokes, Hears, Records
  <2> QED
    BY <1>2, <2>1, <2>2 DEF Sound
<1>9. Sound'
  <2>1. \A s \in Requests : Knows(txs', req'[s])
    BY <1>1, <1>2, <1>6 DEF Sound
  <2> QED
    BY <1>7, <1>8, <2>1 DEF Sound, AuditTrue
<1> QED
  BY <1>5, <1>9

-----------------------------------------------------------------------------
LEMMA BackInit == SettlementInit => Net /\ Shape /\ Sound
<1> SUFFICES ASSUME SettlementInit PROVE Net /\ Shape /\ Sound
  OBVIOUS
<1> USE DEF SettlementInit, FundingInit, StellarInit
<1>1. Net
  BY UnusedIsNone DEF Net, NetTyped, InLine, OneWaits
<1>2. Shape
  BY DEF Shape, AnyReqs, Idle, RowedPcs, FlyingPcs, SettlePcs
<1>3. Idle.pc \notin SettlePcs /\ NoRow.status \notin {"RELEASED", "REFUNDED"}
  BY DEF Idle, NoRow, SettlePcs
<1>4. \A r \in Requests : Knows(txs, req[r])
  <2>1. \A x : Knows(x, Idle)
    BY <1>3, NotFunding DEF Knows, Idle, SettlePcs
  <2> QED
    BY <2>1
<1>5. Sound
  BY <1>3, <1>4 DEF Sound, SaysTrue, SettledStatus, AuditTrue
<1> QED
  BY <1>1, <1>2, <1>5

LEMMA BackStep ==
    ASSUME OneWallet, Net, Shape, Sound, [SettlementNext]_settlementVars
    PROVE  Net' /\ Shape' /\ Sound' /\ Kept(txs, txs')
<1>1. Net' /\ Kept(txs, txs')
  BY NetStep
<1>2. CASE \E r \in Requests : \E q : Move(r, q)
  BY <1>1, <1>2, MoveKeeps
<1>3. /\ \A s : Knows(txs, s) => Knows(txs', s)
      /\ \A id, p : SaysTrue(txs, id, p) => SaysTrue(txs', id, p)
      /\ AuditTrue(txs) => (\A t \in audit : /\ t \in TxIds /\ txs'[t] # Unused
                     /\ Reaches(txs', t) /\ txs'[t].call.op \in {"release", "refund"})
  BY <1>1, SettlesKept DEF AuditTrue
<1>4. CASE AllEnd
  <2>1. Shape'
    BY <1>4 DEF AllEnd, Shape, AnyReqs, Idle, RowedPcs, FlyingPcs, SettlePcs
  <2>2. \A x : Knows(x, Idle)
    BY NotFunding DEF Knows, Idle, SettlePcs
  <2>3. \A r \in Requests : Knows(txs', req'[r])
    BY <1>4, <2>2 DEF AllEnd
  <2>4. Sound'
    BY <1>3, <1>4, <2>3 DEF AllEnd, Sound, AuditTrue
  <2> QED
    BY <1>1, <2>1, <2>4
<1>5. CASE Apart
  <2>1. Shape'
    BY <1>5 DEF Apart, Shape
  <2>2. Sound'
    BY <1>3, <1>5 DEF Apart, Sound, AuditTrue
  <2> QED
    BY <1>1, <2>1, <2>2
<1> QED
  BY <1>2, <1>4, <1>5, StepMoves

(* Whatever an administrator asks, and however submissions fail, hang or    *)
(* get lost: what the backend shows as settled, in the row and in the audit *)
(* log, is a settlement of that shipment that did reach the network.        *)
THEOREM SettledDidReach == OneWallet => (SettlementSpec => []SettledReached)
<1> SUFFICES ASSUME OneWallet PROVE SettlementSpec => []SettledReached
  OBVIOUS
<1>1. Net /\ Shape /\ Sound /\ [SettlementNext]_settlementVars => Net' /\ Shape' /\ Sound'
  BY BackStep
<1>2. Sound => SettledReached
  BY DEF Sound, SaysTrue, AuditTrue, SettledReached, Settles, Reaches, Reached
<1> QED
  BY <1>1, <1>2, BackInit, PTL DEF SettlementSpec

-----------------------------------------------------------------------------
(* What a careful administrator adds: a row that is claimed is claimed by   *)
(* one request, and a row that is being settled is past all funding.        *)
Closes(q) == q.pc \in {"invoke"} \cup SettlePcs /\ q.op # "confirm"

Locked ==
    /\ \A r \in Requests : req[r].pc \in FlyingPcs => row[req[r].id].status = "FUNDING"
    /\ \A r, s \in Requests : r # s /\ req[r].pc \in FlyingPcs /\ req[s].pc \in FlyingPcs =>
         req[r].id # req[s].id
    /\ \A r \in Requests : Closes(req[r]) => row[req[r].id].status \in NonFundable

(* No row moves back: what is past funding stays past it, what is settled   *)
(* stays settled.                                                           *)
Forward ==
    \A id \in Ids :
        /\ row[id].status \in NonFundable => row'[id].status \in NonFundable
        /\ row[id].status \in {"RELEASED", "REFUNDED"} => row'[id].status \in {"RELEASED", "REFUNDED"}

(* A move of r to q that touches the row of id only.                        *)
LEMMA LockedStep ==
    ASSUME Shape, Locked, NEW r \in Requests, NEW q, Move(r, q), NEW id \in Ids,
           \A i \in Ids : i # id => row'[i] = row[i],
           row'[id] = row[id] \/ ~(row[id].status \in NonFundable /\ row'[id].status \notin NonFundable),
           row'[id] = row[id] \/ \A s \in Requests \ {r} : req[s].pc \in FlyingPcs => req[s].id # id,
           q.pc \in FlyingPcs => /\ row'[q.id].status = "FUNDING"
                                /\ \A s \in Requests \ {r} : req[s].pc \in FlyingPcs => req[s].id # q.id,
           Closes(q) => row'[q.id].status \in NonFundable
    PROVE  Locked'
<1>1. req'[r] = q /\ \A s \in Requests \ {r} : req'[s] = req[s]
  BY MoveRow
<1>2. \A s \in Requests : req[s].pc \in FlyingPcs \/ Closes(req[s]) => req[s].id \in Ids
  <2>1. \A s \in Requests : req[s] \in AnyReqs
    BY DEF Shape
  <2> QED
    BY <2>1, AnyReqFacts DEF Closes, FlyingPcs, SettlePcs
<1>3. \A s \in Requests : req'[s].pc \in FlyingPcs => row'[req'[s].id].status = "FUNDING"
  BY <1>1, <1>2 DEF Locked
<1>4. \A s, u \in Requests : s # u /\ req'[s].pc \in FlyingPcs /\ req'[u].pc \in FlyingPcs =>
         req'[s].id # req'[u].id
  BY <1>1 DEF Locked
<1>5. \A s \in Requests : Closes(req'[s]) => row'[req'[s].id].status \in NonFundable
  BY <1>1, <1>2 DEF Locked
<1> QED
  BY <1>3, <1>4, <1>5 DEF Locked, Closes

LEMMA LockedMove ==
    ASSUME Shape, Sound, Locked, NEW r \in Requests, NEW q, Move(r, q),
           Asks(r, q) /\ q.op # "confirm" => row[q.id].status \in NonFundable
    PROVE  Locked' /\ Forward
<1>1. req[r] \in AnyReqs /\ q \in AnyReqs
  BY MoveRow DEF Shape
<1>2. /\ req[r].pc # "idle" => req[r].id \in Ids
      /\ q.pc # "idle" => q.id \in Ids
  BY <1>1, AnyReqFacts
<1>3. CASE row' = row /\ q.pc \notin FlyingPcs /\ (Closes(q) => row[q.id].status \in NonFundable)
  <2>1. Forward
    BY <1>3 DEF Forward
  <2>2. Locked'
    <3>1. /\ req'[r] = q /\ \A s \in Requests \ {r} : req'[s] = req[s]
      BY MoveRow
    <3> QED
      BY <1>3, <3>1 DEF Locked, Closes
  <2> QED
    BY <2>1, <2>2
<1>4. CASE Rests(r, q)
  <2>1. q.pc \notin FlyingPcs /\ ~Closes(q)
    BY <1>4 DEF Rests, Idle, InitiateReqs, FlyingPcs, SettlePcs, Closes
  <2> QED
    BY <1>3, <1>4, <2>1 DEF Rests
<1>5. CASE Asks(r, q)
  <2>1. q.pc \notin FlyingPcs /\ (Closes(q) => row[q.id].status \in NonFundable)
    BY <1>5 DEF Asks, InvokeReqs, FlyingPcs, SettlePcs, Closes
  <2> QED
    BY <1>3, <1>5, <2>1 DEF Asks
<1>6. CASE Invokes(r, q) \/ Hears(r, q)
  <2>1. q.pc \notin FlyingPcs /\ (Closes(q) => Closes(req[r]) /\ q.id = req[r].id)
    BY <1>6 DEF Invokes, Hears, FlyingPcs, SettlePcs, Closes
  <2> QED
    BY <1>3, <1>6, <2>1 DEF Invokes, Hears, Locked
<1>7. CASE Flies(r, q)
  <2>1. /\ q.id = req[r].id /\ req[r].pc \in FlyingPcs /\ row' = row /\ ~Closes(q)
        /\ q.pc \in FlyingPcs /\ q.id \in Ids
    BY <1>2, <1>7 DEF Flies, FlyingPcs, SettlePcs, Closes
  <2>2. Locked'
    BY <2>1, LockedStep DEF Locked
  <2> QED
    BY <2>1, <2>2 DEF Forward
<1>8. CASE Creates(r, q)
  <2>1. q.id \in Ids /\ q.pc \notin FlyingPcs /\ ~Closes(q) /\ row[q.id] = NoRow
    BY <1>8 DEF Creates, InitiateReqs, FlyingPcs, SettlePcs, Closes
  <2>2. \A i \in Ids : i # q.id => row'[i] = row[i]
    BY <1>8, <2>1 DEF Creates, Shape
  <2>3. row[q.id].status \notin NonFundable /\ row[q.id].status # "FUNDING"
    BY <2>1 DEF NoRow, NonFundable
  <2>4. Locked'
    BY <2>1, <2>2, <2>3, LockedStep DEF Locked
  <2>5. Forward
    BY <2>2, <2>3 DEF Forward, NonFundable
  <2> QED
    BY <2>4, <2>5
<1>9. CASE TakesOff(r, q)
  <2>1. q.id \in Ids /\ q.pc \in FlyingPcs /\ ~Closes(q) /\ row[q.id].status = "PENDING"
    BY <1>2, <1>9 DEF TakesOff, FlyingPcs, SettlePcs, Closes
  <2>2. row[q.id] \in AnyRows
    BY <2>1 DEF Shape, NoRow
  <2>3. /\ \A i \in Ids : i # q.id => row'[i] = row[i]
        /\ row'[q.id].status = "FUNDING"
    BY <1>9, <2>1, <2>2 DEF TakesOff, Shape, AnyRows
  <2>4. Locked'
    BY <2>1, <2>3, LockedStep DEF Locked, NonFundable
  <2>5. Forward
    BY <2>1, <2>3 DEF Forward, NonFundable
  <2> QED
    BY <2>4, <2>5
<1>10. CASE Lands(r, q)
  <2>1. req[r].id \in Ids /\ q.pc \notin FlyingPcs /\ ~Closes(q) /\ req[r].pc \in FlyingPcs
    BY <1>2, <1>10 DEF Lands, Idle, FlyingPcs, SettlePcs, Closes
  <2>2. row[req[r].id].status = "FUNDING"
    BY <2>1 DEF Locked
  <2>3. \A i \in Ids : i # req[r].id => row'[i] = row[i]
    BY <1>10, <2>1 DEF Lands, Shape
  <2>4. Locked'
    BY <2>1, <2>2, <2>3, LockedStep DEF Locked, NonFundable
  <2>5. Forward
    BY <2>2, <2>3 DEF Forward, NonFundable
  <2> QED
    BY <2>4, <2>5
<1>11. CASE Records(r, q)
  <2>1. PICK p \in AnyRows : p.status = SettledStatus(q.op) /\ row' = [row EXCEPT ![q.id] = p]
    BY <1>11 DEF Records
  <2>2. /\ q.id \in Ids /\ q.pc \notin FlyingPcs /\ q.id = req[r].id
        /\ req[r].pc = "recordSettled"
    BY <1>2, <1>11 DEF Records, FlyingPcs
  <2>3. Closes(req[r])
    BY <2>2 DEF Sound, Knows, Closes, SettlePcs
  <2>4. row[q.id].status \in NonFundable
    BY <2>2, <2>3 DEF Locked
  <2>5. /\ \A i \in Ids : i # q.id => row'[i] = row[i]
        /\ row'[q.id].status \in {"RELEASED", "REFUNDED"}
    BY <2>1, <2>2, RowSet DEF SettledStatus
  <2>6. Locked'
    BY <2>2, <2>4, <2>5, LockedStep DEF Locked, NonFundable
  <2>7. Forward
    BY <2>5 DEF Forward, NonFundable
  <2> QED
    BY <2>6, <2>7
<1> QED
  BY <1>4, <1>5, <1>6, <1>7, <1>8, <1>9, <1>10, <1>11 DEF Move

LEMMA LockedNext ==
    ASSUME OneWallet, Net, Shape, Sound, Locked, [SettlementNext /\ Careful]_settlementVars
    PROVE  Locked' /\ Forward
<1>1. ASSUME NEW r \in Requests, NEW q, Move(r, q) PROVE Locked' /\ Forward
  <2>1. ASSUME Asks(r, q), q.op # "confirm" PROVE row[q.id].status \in NonFundable
    <3>1. req'[r] = q
      BY <1>1, MoveRow
    <3>2. q.pc = "invoke" /\ q # Idle /\ req[r] = Idle
      BY <2>1 DEF Asks, InvokeReqs, Idle
    <3>3. Careful
      BY <3>1, <3>2 DEF settlementVars, fundingVars
    <3> QED
      BY <2>1, <3>1, <3>2, <3>3 DEF Careful, Settling
  <2> QED
    BY <1>1, <2>1, LockedMove
<1>2. CASE AllEnd
  BY <1>2 DEF AllEnd, Locked, Forward, Idle, FlyingPcs, SettlePcs, Closes
<1>3. CASE Apart
  BY <1>3 DEF Apart, Locked, Forward, Closes
<1> QED
  BY <1>1, <1>2, <1>3, StepMoves

(* ... and what a shipper adds who hands in the XDR of the shipment: each   *)
(* submission carries a transaction of the shipment it is for.              *)
Carried == \A r \in Requests : req[r] \in SubmitReqs => Carries(txs, req[r])

LEMMA CarriedNext ==
    ASSUME OneWallet, Net, Shape, Sound, Carried, [SettlementNext /\ OwnXdr]_settlementVars
    PROVE  Carried'
<1>1. Kept(txs, txs')
  BY NetStep
<1>2. ASSUME NEW s, s \in SubmitReqs, Carries(txs, s) PROVE Carries(txs', s)
  BY <1>1, <1>2 DEF Kept, Carries, SubmitReqs
<1>3. ASSUME NEW r \in Requests, NEW q, Move(r, q) PROVE Carried'
  <2>1. req'[r] = q /\ \A s \in Requests \ {r} : req'[s] = req[s]
    BY <1>3, MoveRow
  <2>2. ASSUME q \in SubmitReqs PROVE Carries(txs', q)
    <3>1. CASE TakesOff(r, q) \/ Flies(r, q)
      <4>1. ASSUME req[r] \in SubmitReqs, q.tx = req[r].tx, q.id = req[r].id
            PROVE  Carries(txs', q)
        BY <1>2, <4>1 DEF Carried, Carries
      <4> QED
        BY <2>2, <3>1, <4>1 DEF TakesOff, Flies, Inherits
    <3>2. CASE Rests(r, q)
      <4>1. req[r] = Idle /\ txs[q.tx] # Unused /\ q.pc = "claim" /\ q.tx # NoTx /\ q # Idle
        BY <2>2, <3>2 DEF Rests, FundReqs, SubmitReqs, TxIds, NoTx, Idle
      <4>2. OwnXdr
        BY <2>1, <4>1 DEF settlementVars, fundingVars
      <4>3. txs[q.tx].call.id = q.id
        <5>1. req'[r] = q /\ Submitting(r)
          BY <2>1, <4>1 DEF Submitting
        <5>2. PICK w \in Wallets : txs[q.tx].call = FundCall(q.id, w, Price)
          BY <4>2, <5>1 DEF OwnXdr
        <5> QED
          BY <5>2 DEF FundCall
      <4> QED
        BY <1>2, <2>2, <4>1, <4>3 DEF Carries
    <3>3. ~(Creates(r, q) \/ Lands(r, q) \/ Asks(r, q) \/ Invokes(r, q) \/ Hears(r, q) \/ Records(r, q))
      BY <2>2, NotFunding DEF Creates, Lands, Asks, Invokes, Hears, Records, InvokeReqs,
         SettleReqs, SubmitReqs
    <3> QED
      BY <1>3, <3>1, <3>2, <3>3 DEF Move
  <2> QED
    BY <1>2, <2>1, <2>2 DEF Carried, Carries
<1>4. CASE AllEnd
  BY <1>4, NotFunding DEF AllEnd, Carried
<1>5. CASE Apart
  BY <1>2, <1>5 DEF Apart, Carried, Carries
<1> QED
  BY <1>3, <1>4, <1>5, StepMoves

(* Once an administrator's transaction is built, nothing that could deposit *)
(* for that shipment waits or gets to wait, and what the transaction does   *)
(* to the record stays done.                                                *)
Follows(id, op, t) ==
    \/ \E r \in Requests : req[r].pc \in SettlePcs /\ req[r].id = id /\ req[r].op = op /\ req[r].tx = t
    \/ row[id].status = SettledStatus(op) /\ row[id].txHash = t

NoDepositWaits(id) ==
    \A u \in TxIds : ~(txs[u].phase = "queued" /\ IsFund(u) /\ txs[u].call.id = id)

Closed ==
    \A id \in Ids, op \in {"release", "refund"}, t \in TxIds : Follows(id, op, t) =>
        /\ NoDepositWaits(id)
        /\ txs[t].phase = "succeeded" => escrow[id].status = Outcome(op)

(* What the network does to waiting transactions, and to a record and to a  *)
(* transaction t that was applied already.                                  *)
LEMMA NetEffect ==
    ASSUME OneWallet, Net, Shape, [SettlementNext]_settlementVars
    PROVE  /\ \A u \in TxIds : txs'[u].phase = "queued" /\ txs[u].phase # "queued" =>
                txs[u] # Unused /\ \E s \in Requests : req[s].pc \in {"send", "settle"} /\ req[s].tx = u
           /\ (\E u \in TxIds : Apply(u)) \/
                /\ \A i \in Ids : escrow'[i] # escrow[i] => escrow[i].status \in {"Funded", "Disputed"}
                /\ \A u \in TxIds : txs'[u].phase = "succeeded" => txs[u].phase = "succeeded"
<1> DEFINE Waits == \A u \in TxIds : txs'[u].phase = "queued" /\ txs[u].phase # "queued" =>
                txs[u] # Unused /\ \E s \in Requests : req[s].pc \in {"send", "settle"} /\ req[s].tx = u
           Done == /\ \A i \in Ids : escrow'[i] # escrow[i] => escrow[i].status \in {"Funded", "Disputed"}
                   /\ \A u \in TxIds : txs'[u].phase = "succeeded" => txs[u].phase = "succeeded"
<1>1. CASE UNCHANGED stellarVars
  BY <1>1 DEF stellarVars, chainVars
<1>2. ASSUME NEW t \in TxIds, NEW call, NEW source, Build(t, source, call) PROVE Waits /\ Done
  <2>1. txs'[t].phase = "built" /\ \A u \in TxIds \ {t} : txs'[u] = txs[u]
    BY <1>2 DEF Build, Net, NetTyped
  <2> QED
    BY <1>2, <2>1 DEF Build, chainVars
<1>3. ASSUME NEW t \in TxIds, NEW p, txs[t] # Unused, txs' = [txs EXCEPT ![t].phase = p]
      PROVE  txs'[t].phase = p /\ \A u \in TxIds \ {t} : txs'[u] = txs[u]
  BY <1>3 DEF Net, NetTyped, AllTransactions
<1>4. ASSUME NEW s \in Requests, Hands(s) PROVE Waits /\ Done
  <2>1. req[s].tx \in TxIds /\ txs[req[s].tx] # Unused
    BY <1>4 DEF Hands, Enqueue, Unused
  <2>2. txs'[req[s].tx].phase = "queued" /\ \A u \in TxIds \ {req[s].tx} : txs'[u] = txs[u]
    BY <1>3, <1>4, <2>1 DEF Hands, Enqueue
  <2> QED
    BY <1>4, <2>1, <2>2 DEF Hands, Enqueue, chainVars
<1>5. ASSUME NEW t \in TxIds, Drop(t) PROVE Waits /\ Done
  <2>1. txs'[t].phase = "dropped" /\ \A u \in TxIds \ {t} : txs'[u] = txs[u]
    <3>1. txs[t] # Unused /\ txs' = [txs EXCEPT ![t].phase = "dropped"]
      BY <1>5 DEF Drop, Unused
    <3> QED
      BY <1>3, <3>1
  <2> QED
    BY <1>5, <2>1 DEF Drop, chainVars
<1>6. ASSUME NEW t \in TxIds, Apply(t) PROVE Waits
  <2>1. /\ txs'[t].phase \in {"succeeded", "failed"}
        /\ \A u \in TxIds \ {t} : txs'[u] = txs[u]
    BY <1>3, <1>6 DEF Apply, Unused
  <2> QED
    BY <2>1
<1>7. ASSUME NEW id \in Ids, (\E a \in Accounts : PartyDisputes(id, a)) \/ PlatformResolves(id)
      PROVE  Waits /\ Done
  BY <1>7, OutsideKeeps
<1> QED
  BY <1>1, <1>2, <1>4, <1>5, <1>6, <1>7, StepNetwork DEF NetworkMove, Builds

(* A transaction is followed from the step that builds it. *)
LEMMA FollowsFrom ==
    ASSUME Shape, Sound, NEW r \in Requests, NEW q, Move(r, q),
           NEW id \in Ids, NEW op \in {"release", "refund"}, NEW t \in TxIds, Follows(id, op, t)'
    PROVE  \/ Follows(id, op, t)
           \/ Invokes(r, q) /\ q.id = id /\ q.op = op /\ q.tx = t
<1>1. /\ req'[r] = q /\ \A s \in Requests \ {r} : req'[s] = req[s]
      /\ req[r] \in AnyReqs
  BY MoveRow DEF Shape
<1>2. ASSUME NEW s \in Requests, req'[s].pc \in SettlePcs, req'[s].id = id, req'[s].op = op, req'[s].tx = t
      PROVE  \/ Follows(id, op, t)
             \/ Invokes(r, q) /\ q.id = id /\ q.op = op /\ q.tx = t
  <2>1. CASE s # r
    BY <1>1, <1>2, <2>1 DEF Follows
  <2>2. CASE s = r
    <3>1. q.pc \in SettlePcs /\ q.id = id /\ q.op = op /\ q.tx = t
      BY <1>1, <1>2, <2>2
    <3>2. ~(Rests(r, q) \/ Creates(r, q) \/ TakesOff(r, q) \/ Flies(r, q) \/ Lands(r, q) \/ Asks(r, q))
      BY <3>1 DEF Rests, Creates, TakesOff, Flies, Lands, Asks, Idle, InitiateReqs, FundReqs,
           SubmitReqs, TestReqs, InvokeReqs, SettlePcs
    <3>3. Hears(r, q) \/ Records(r, q) => Follows(id, op, t)
      BY <3>1 DEF Hears, Records, Follows, SettlePcs
    <3> QED
      BY <3>1, <3>2, <3>3 DEF Move
  <2> QED
    BY <2>1, <2>2
<1>3. ASSUME row'[id].status = SettledStatus(op), row'[id].txHash = t PROVE Follows(id, op, t)
  <2>1. CASE row'[id] = row[id]
    BY <1>3, <2>1 DEF Follows
  <2>2. ASSUME NEW i \in Ids, NEW p \in AnyRows, row' = [row EXCEPT ![i] = p],
               p.status \in {"PENDING", "FUNDING", "FUNDED"}
        PROVE  Follows(id, op, t)
    BY <1>3, <2>1, <2>2, RowSet DEF SettledStatus
  <2>3. CASE Creates(r, q)
    BY <2>2, <2>3 DEF Creates, InitiateReqs
  <2>4. CASE TakesOff(r, q)
    <3>1. q.id \in Ids
      BY <2>4 DEF TakesOff, FundReqs, SubmitReqs, TestReqs
    <3>2. row[q.id] \in AnyRows
      BY <2>4, <3>1 DEF TakesOff, Shape, NoRow
    <3>3. [row[q.id] EXCEPT !.status = "FUNDING"] \in AnyRows
          /\ [row[q.id] EXCEPT !.status = "FUNDING"].status = "FUNDING"
      BY <3>2 DEF AnyRows
    <3> QED
      BY <2>2, <2>4, <3>1, <3>3 DEF TakesOff
  <2>5. CASE Lands(r, q)
    <3>1. req[r].id \in Ids
      BY <1>1, <2>5, AnyReqFacts DEF Lands, FlyingPcs
    <3> QED
      BY <2>2, <2>5, <3>1 DEF Lands
  <2>6. CASE Records(r, q)
    <3>1. PICK p \in AnyRows : /\ p.status = SettledStatus(q.op) /\ p.txHash = q.tx
                               /\ row' = [row EXCEPT ![q.id] = p]
      BY <2>6 DEF Records
    <3>2. /\ q.id \in Ids /\ q.id = req[r].id /\ q.op = req[r].op /\ q.tx = req[r].tx
          /\ req[r].pc \in SettlePcs /\ q.op \in {"release", "refund"}
      BY <2>6 DEF Records, SettleReqs, Sound, Knows, SettlePcs
    <3>3. CASE q.id = id
      <4>1. row'[id] = p
        BY <3>1, <3>2, <3>3, RowSet
      <4>2. q.op = op /\ q.tx = t
        BY <1>3, <3>1, <3>2, <4>1 DEF SettledStatus
      <4> QED
        BY <3>2, <3>3, <4>2 DEF Follows
    <3>4. CASE q.id # id
      BY <2>1, <3>1, <3>2, <3>4, RowSet
    <3> QED
      BY <3>3, <3>4
  <2> QED
    BY <2>1, <2>3, <2>4, <2>5, <2>6 DEF Move, Rests, Flies, Asks, Invokes, Hears
<1> QED
  BY <1>2, <1>3 DEF Follows

LEMMA ClosedNext ==
    ASSUME OneWallet, Net, Shape, Sound, Locked, Carried, Closed, [SettlementNext]_settlementVars
    PROVE  Closed'
<1> SUFFICES ASSUME NEW id \in Ids, NEW op \in {"release", "refund"}, NEW t \in TxIds,
                    Follows(id, op, t)'
             PROVE  /\ \A u \in TxIds : ~(txs'[u].phase = "queued" /\ txs'[u].call.op = "fund"
                                           /\ txs'[u].call.id = id)
                    /\ txs'[t].phase = "succeeded" => escrow'[id].status = Outcome(op)
  BY DEF Closed, NoDepositWaits, IsFund
<1>1. [SettlementNext]_settlementVars
  OBVIOUS
<1>2. Kept(txs, txs')
  BY <1>1, NetStep
<1>3. CASE \E r \in Requests : \E q : Move(r, q) /\ Invokes(r, q) /\ q.id = id /\ q.op = op /\ q.tx = t
  <2>1. Build(t, Platform, SettleCall(op, id))
    BY <1>3 DEF Invokes
  <2>2. escrow[id].status = "Funded"
    BY <2>1 DEF Build, SimulationSucceeds, SettleCall, ReleaseCall, RefundCall, Chain!CanSettle
  <2>3. txs'[t].phase = "built" /\ \A u \in TxIds \ {t} : txs'[u] = txs[u]
    BY <2>1 DEF Build, Net, NetTyped
  <2>4. \A u \in TxIds : ~(txs[u].phase = "queued" /\ IsFund(u) /\ txs[u].call.id = id)
    BY <2>2, UnusedIsNone DEF Net, InLine
  <2> QED
    BY <2>3, <2>4 DEF IsFund
<1>4. CASE Follows(id, op, t)
  <2>1. row[id].status \in NonFundable
    BY <1>4 DEF Follows, Locked, Closes, SettledStatus, NonFundable
  <2>2. NoDepositWaits(id) /\ (txs[t].phase = "succeeded" => escrow[id].status = Outcome(op))
    BY <1>4 DEF Closed
  <2>3. Settles(txs, t, op, id)
    BY <1>4 DEF Follows, Sound, Knows, SaysTrue
  <2>4. ASSUME NEW u \in TxIds, txs'[u].phase = "queued", txs'[u].call.op = "fund", txs'[u].call.id = id
        PROVE  FALSE
    <3>1. CASE txs[u].phase = "queued"
      <4>1. txs[u] # Unused /\ txs[u].call = txs'[u].call
        BY <1>2, <3>1, UnusedIsNone DEF Kept
      <4> QED
        BY <2>2, <2>4, <3>1, <4>1 DEF NoDepositWaits, IsFund
    <3>2. CASE txs[u].phase # "queued"
      <4>1. PICK s \in Requests : /\ txs[u] # Unused /\ req[s].pc \in {"send", "settle"} /\ req[s].tx = u
        BY <1>1, <2>4, <3>2, NetEffect
      <4>2. txs[u].call.op = "fund" /\ txs[u].call.id = id
        BY <1>2, <2>4, <4>1 DEF Kept
      <4>3. CASE req[s].pc = "settle"
        <5>1. txs[u].call = SettleCall(req[s].op, req[s].id)
          BY <4>1, <4>3 DEF Sound, Knows, Settles, SettlePcs
        <5> QED
          BY <4>2, <5>1 DEF SettleCall, ReleaseCall, RefundCall
      <4>4. CASE req[s].pc = "send"
        <5>1. req[s] \in SubmitReqs
          BY <4>4, AnyReqFacts DEF Shape
        <5>2. req[s].id = id
          BY <4>1, <4>2, <5>1 DEF Carried, Carries
        <5> QED
          BY <2>1, <4>4, <5>2 DEF Locked, FlyingPcs, NonFundable
      <4> QED
        BY <4>1, <4>3, <4>4
    <3> QED
      BY <3>1, <3>2
  <2>5. ASSUME txs'[t].phase = "succeeded" PROVE escrow'[id].status = Outcome(op)
    <3>1. ASSUME txs[t].phase = "succeeded" PROVE escrow[id].status \in {"Released", "Refunded"}
      BY <2>2, <3>1 DEF Outcome
    <3>2. ASSUME NEW u \in TxIds, Apply(u) PROVE escrow'[id].status = Outcome(op)
      <4>1. /\ \A i \in Ids : escrow'[i] # escrow[i] =>
                 txs[u].call.id = i /\ (IsFund(u) \/ escrow[i].status = "Funded")
            /\ txs'[u].phase = "succeeded" /\ txs[u].call \in SettleCalls =>
                 escrow'[txs[u].call.id].status = Outcome(txs[u].call.op)
            /\ txs[u].phase = "queued" /\ txs[u] # Unused
        <5>1. txs[u].phase = "queued" /\ txs[u] # Unused
          BY <3>2 DEF Apply, Unused
        <5> QED
          BY <3>2, <5>1, ApplyMoves
      <4>2. CASE u = t
        <5>1. txs[t].call \in SettleCalls /\ txs[t].call.id = id /\ txs[t].call.op = op
          BY <2>3 DEF Settles, SettleCall, ReleaseCall, RefundCall, SettleCalls
        <5> QED
          BY <2>5, <4>1, <4>2, <5>1
      <4>3. CASE u # t
        <5>1. txs[t].phase = "succeeded"
          BY <2>5, <3>2, <4>1, <4>3 DEF Apply, Net, NetTyped
        <5>2. escrow'[id] = escrow[id]
          BY <2>2, <3>1, <4>1, <5>1 DEF NoDepositWaits
        <5> QED
          BY <2>2, <5>1, <5>2
      <4> QED
        BY <4>2, <4>3
    <3>3. CASE ~ \E u \in TxIds : Apply(u)
      <4>1. /\ escrow'[id] # escrow[id] => escrow[id].status \in {"Funded", "Disputed"}
            /\ txs[t].phase = "succeeded"
        BY <1>1, <2>5, <3>3, NetEffect
      <4> QED
        BY <2>2, <3>1, <4>1
    <3> QED
      BY <3>2, <3>3
  <2> QED
    BY <2>4, <2>5
<1>5. CASE AllEnd \/ Apart
  <2>1. Follows(id, op, t)
    BY <1>5 DEF AllEnd, Apart, Follows, Idle, SettlePcs
  <2> QED
    BY <1>4, <2>1
<1> QED
  BY <1>1, <1>3, <1>4, <1>5, StepMoves, FollowsFrom

LEMMA CarefulInvariant ==
    OneWallet => (CarefulSpec => [](Net /\ Shape /\ Sound /\ Locked /\ Carried /\ Closed))
<1> SUFFICES ASSUME OneWallet
             PROVE  CarefulSpec => [](Net /\ Shape /\ Sound /\ Locked /\ Carried /\ Closed)
  OBVIOUS
<1>1. SettlementInit => Locked /\ Carried /\ Closed
  BY NotFunding DEF SettlementInit, FundingInit, Locked, Carried, Closed, Follows, Closes, Idle, NoRow,
     SettledStatus, FlyingPcs, SettlePcs
<1>2. Net /\ Shape /\ Sound /\ Locked /\ Carried /\ Closed /\ [SettlementNext /\ Careful /\ OwnXdr]_settlementVars
        => (Net /\ Shape /\ Sound /\ Locked /\ Carried /\ Closed)'
  BY BackStep, LockedNext, CarriedNext, ClosedNext
<1> QED
  BY <1>1, <1>2, BackInit, PTL DEF CarefulSpec

(* With careful administrators and shippers: once the transaction that a    *)
(* settled row names is applied, a reconciliation finds the contract to     *)
(* agree, and whatever disputes, late answers and further funding attempts  *)
(* there are it goes on to agree.                                           *)
THEOREM ReconciliationAgrees == OneWallet => (CarefulSpec => []AgreesOnceApplied)
<1>1. ASSUME Shape, Sound, Closed PROVE AgreesOnceApplied
  <2> SUFFICES ASSUME NEW id \in Ids, NEW op \in {"release", "refund"},
                      row[id].status = SettledStatus(op), txs[row[id].txHash].phase = "succeeded"
               PROVE  Matches(row[id].status, escrow[id])
    BY DEF AgreesOnceApplied, SettledStatus
  <2>1. row[id].txHash \in TxIds
    BY <1>1 DEF Sound, SaysTrue, Settles
  <2>2. escrow[id].status = Outcome(op)
    BY <1>1, <2>1 DEF Closed, Follows
  <2> QED
    BY <2>2 DEF Matches, ExpectedStatus, Outcome, SettledStatus
<1> QED
  BY <1>1, CarefulInvariant, PTL

(* ... and no step opens a settled row for funding again. *)
THEOREM SettledStays == OneWallet => (CarefulSpec => SettledIsTerminal)
<1> SUFFICES ASSUME OneWallet PROVE CarefulSpec => SettledIsTerminal
  OBVIOUS
<1> DEFINE Terminal == \A id \in Ids :
         row[id].status \in {"RELEASED", "REFUNDED"} =>
             row'[id].status \in {"RELEASED", "REFUNDED"}
<1>1. Net /\ Shape /\ Sound /\ Locked /\ [SettlementNext /\ Careful /\ OwnXdr]_settlementVars
        => [Terminal]_settlementVars
  BY LockedNext DEF Forward
<1> QED
  BY <1>1, CarefulInvariant, PTL DEF CarefulSpec, SettledIsTerminal
=============================================================================
