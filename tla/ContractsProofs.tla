-------------------------- MODULE ContractsProofs ---------------------------
(***************************************************************************)
(* What holds of the deployed contracts for any accounts, shipments,       *)
(* documents, ratings and scores.                                          *)
(*                                                                         *)
(*   - The shipment contract implements Lifecycle and keeps its lists in   *)
(*     step with its records.  The invariant that carries both is          *)
(*     Numbering: the counter is the number of shipments posted, and       *)
(*     exactly the ids up to it have a record.  It is what a late reset of *)
(*     the counter would break; Deployed says that nothing is posted       *)
(*     before the contract is initialised.                                 *)
(*   - The document registry confirms for ever what it once confirmed.  A  *)
(*     registration overwrites whatever its id holds, so all depends on    *)
(*     the id being new: no record lies beyond the counter (NoneBeyond).   *)
(*   - Five stars never cost points: an average is at most 500, and each   *)
(*     of the roundings is monotone.                                       *)
(*                                                                         *)
(* Each is shown of the contract by itself and then beside the others:     *)
(* they share no variable but the administrator, and a behaviour that      *)
(* follows another contract leaves this one alone.                         *)
(***************************************************************************)
EXTENDS Contracts, SumTheorems, TLAPS

-----------------------------------------------------------------------------
(* The shipment contract.                                                  *)
Deployed == admin = NoAdmin => calls = 0

Numbering ==
    /\ counter = calls
    /\ \A id \in Ids : shipments[id] = NotFound <=> id > counter

Records == Deployed /\ TypeOK /\ Numbering /\ CarrierUnderWay

(* Every invocation but the posting of a shipment rewrites one record.     *)
Rewrites(id, new) ==
    /\ shipments[id] # NotFound
    /\ new \in Shipments
    /\ new.shipper = shipments[id].shipper
    /\ shipments' = [shipments EXCEPT ![id] = new]
    /\ UNCHANGED <<admin, counter, shipperList, calls>>

LEMMA NotFoundIsNoRecord == NotFound \notin Shipments /\ NotFound.status \notin Statuses
  BY DEF NotFound, Shipments, Statuses

LEMMA MoveRewrites ==
    ASSUME TypeOK, NEW id \in Ids, NEW from \in SUBSET Statuses, NEW to \in Statuses,
           Move(id, from, to)
    PROVE  /\ Rewrites(id, [shipments[id] EXCEPT !.status = to])
           /\ shipments[id].status \in from
           /\ UNCHANGED carrierList
           /\ [shipments[id] EXCEPT !.status = to].status = to
           /\ [shipments[id] EXCEPT !.status = to].carrier = shipments[id].carrier
<1>1. shipments[id] \in Shipments
  BY NotFoundIsNoRecord DEF TypeOK, Move
<1> QED
  BY <1>1, NotFoundIsNoRecord DEF Move, Rewrites, Shipments

LEMMA AcceptRewrites ==
    ASSUME TypeOK, NEW a \in Accounts, NEW id \in Ids, AcceptShipment(a, id)
    PROVE  /\ Rewrites(id, [shipments[id] EXCEPT !.carrier = a, !.status = "Accepted"])
           /\ [shipments[id] EXCEPT !.carrier = a, !.status = "Accepted"].status = "Accepted"
           /\ [shipments[id] EXCEPT !.carrier = a, !.status = "Accepted"].carrier = a
<1>1. shipments[id] \in Shipments
  BY NotFoundIsNoRecord DEF TypeOK, AcceptShipment, NotFound
<1> QED
  BY <1>1, NotFoundIsNoRecord DEF AcceptShipment, Rewrites, Shipments, Statuses

(* What a rewrite has to respect. *)
LEMMA RewriteKeeps ==
    ASSUME Records, NEW id \in Ids, NEW new, Rewrites(id, new),
           new.status # "Created",
           new.status # "Cancelled" => new.carrier # NoCarrier,
           carrierList' \in [Accounts -> Seq(Ids)]
    PROVE  Records'
<1>1. shipments' \in [Ids -> Shipments \cup {NotFound}]
  BY DEF Records, TypeOK, Rewrites
<1>2. TypeOK' /\ Deployed'
  BY <1>1 DEF Records, TypeOK, Deployed, Rewrites
<1>3. Numbering'
  BY NotFoundIsNoRecord DEF Records, TypeOK, Numbering, Rewrites
<1>4. CarrierUnderWay'
  BY DEF Records, TypeOK, CarrierUnderWay, Rewrites
<1> QED
  BY <1>2, <1>3, <1>4 DEF Records

-----------------------------------------------------------------------------
(* The abstract step of a rewrite.                                         *)
LEMMA StatusCarrierTyped ==
    ASSUME TypeOK, NEW id \in Ids, shipments[id] # NotFound
    PROVE  /\ StatusOf(id) = shipments[id].status
           /\ CarrierOf(id) = shipments[id].carrier
           /\ shipments[id] \in Shipments
  BY DEF TypeOK, StatusOf, CarrierOf

LEMMA RewriteImplements ==
    ASSUME TypeOK, NEW id \in Ids, NEW new, Rewrites(id, new),
           new.status \in Abstract!Successors[shipments[id].status],
           new.status = "Accepted" => new.carrier \in Accounts,
           new.status # "Accepted" => new.carrier = shipments[id].carrier
    PROVE  Abstract!Next
<1>1. new # NotFound /\ shipments'[id] = new
  BY NotFoundIsNoRecord DEF Rewrites, TypeOK
<1>2. \A i \in Ids \ {id} : shipments'[i] = shipments[i]
  BY DEF Rewrites, TypeOK
<1>3. StatusOf(id) = shipments[id].status /\ CarrierOf(id) = shipments[id].carrier
  BY StatusCarrierTyped DEF Rewrites
<1>4. StatusOf(id)' = new.status /\ CarrierOf(id)' = new.carrier
  BY <1>1 DEF StatusOf, CarrierOf
<1>5. \A i \in Ids \ {id} : StatusOf(i)' = StatusOf(i) /\ CarrierOf(i)' = CarrierOf(i)
  BY <1>2 DEF StatusOf, CarrierOf
<1>6. [i \in Ids |-> StatusOf(i)]' = [[i \in Ids |-> StatusOf(i)] EXCEPT ![id] = new.status]
  BY <1>4, <1>5
<1>7. [i \in Ids |-> CarrierOf(i)]' = [[i \in Ids |-> CarrierOf(i)] EXCEPT ![id] = new.carrier]
  BY <1>4, <1>5
<1>8. Abstract!Move(id, new.status)
  <2>1. new.status \in Abstract!Successors[[i \in Ids |-> StatusOf(i)][id]]
    BY <1>3
  <2>2. CASE new.status = "Accepted"
    BY <1>6, <1>7, <2>1, <2>2 DEF Abstract!Move
  <2>3. CASE new.status # "Accepted"
    <3>1. [i \in Ids |-> CarrierOf(i)]' = [i \in Ids |-> CarrierOf(i)]
      BY <1>3, <1>7, <2>3
    <3> QED
      BY <1>6, <2>1, <2>3, <3>1 DEF Abstract!Move
  <2> QED
    BY <2>2, <2>3
<1> QED
  BY <1>3, <1>8 DEF Abstract!Next

LEMMA CreateImplements ==
    ASSUME Records, NEW a \in Accounts, CreateShipment(a), admin # NoAdmin
    PROVE  Abstract!Next /\ Records'
<1> DEFINE new == [shipper |-> a, carrier |-> NoCarrier, status |-> "Created"]
<1>0. PICK id \in Ids : id = counter + 1
  BY MaxAssumption DEF Records, TypeOK, Numbering, CreateShipment, Ids
<1>1. shipments[id] = NotFound
  BY <1>0, MaxAssumption DEF Records, TypeOK, Numbering, Ids
<1>2. shipments' = [shipments EXCEPT ![id] = new]
  BY <1>0 DEF CreateShipment
<1>3. new \in Shipments /\ new # NotFound /\ new.status = "Created" /\ new.carrier = NoCarrier
  BY NotFoundIsNoRecord DEF Shipments, Statuses
<1> HIDE DEF new
<1>4. shipments'[id] = new /\ \A i \in Ids \ {id} : shipments'[i] = shipments[i]
  BY <1>1, <1>2 DEF Records, TypeOK
<1>5. Records'
  <2>1. shipments' \in [Ids -> Shipments \cup {NotFound}]
    BY <1>1, <1>2, <1>3 DEF Records, TypeOK
  <2>2. shipperList' \in [Accounts -> Seq(Ids)]
    BY <1>0, <1>1 DEF Records, TypeOK, CreateShipment
  <2>3. TypeOK'
    BY <1>0, <1>1, <2>1, <2>2, MaxAssumption DEF Records, TypeOK, CreateShipment, Numbering, Ids
  <2>4. Numbering'
    BY <1>0, <1>1, <1>3, <1>4, MaxAssumption DEF Records, TypeOK, CreateShipment, Numbering, Ids
  <2>5. CarrierUnderWay'
    BY <1>3, <1>4 DEF Records, CarrierUnderWay
  <2> QED
    BY <2>3, <2>4, <2>5 DEF Records, Deployed, CreateShipment
<1>6. Abstract!Next
  <2>1. StatusOf(id) = "Unposted" /\ CarrierOf(id) = NoCarrier
    BY <1>1 DEF StatusOf, CarrierOf
  <2>2. StatusOf(id)' = "Created" /\ CarrierOf(id)' = NoCarrier
    BY <1>3, <1>4 DEF StatusOf, CarrierOf
  <2>3. \A i \in Ids \ {id} : StatusOf(i)' = StatusOf(i) /\ CarrierOf(i)' = CarrierOf(i)
    BY <1>4 DEF StatusOf, CarrierOf
  <2>4. [i \in Ids |-> StatusOf(i)]' = [[i \in Ids |-> StatusOf(i)] EXCEPT ![id] = "Created"]
    BY <2>2, <2>3
  <2>5. [i \in Ids |-> CarrierOf(i)]' = [i \in Ids |-> CarrierOf(i)]
    BY <1>1, <2>1, <2>2, <2>3
  <2>6. "Created" \in Abstract!Successors[[i \in Ids |-> StatusOf(i)][id]]
    BY <1>1, <2>1 DEF Abstract!Successors
  <2>7. Abstract!Move(id, "Created")
    BY <2>4, <2>5, <2>6 DEF Abstract!Move
  <2> QED
    BY <1>1, <2>6, <2>7 DEF Abstract!Next
<1> QED
  BY <1>5, <1>6

(* A Move between statuses the table connects. *)
LEMMA MoveImplements ==
    ASSUME Records, NEW id \in Ids, NEW from \in SUBSET Statuses,
           NEW to \in Statuses \ {"Created", "Accepted"}, Move(id, from, to),
           \A s \in from : to \in Abstract!Successors[s],
           to # "Cancelled" => "Created" \notin from /\ "Cancelled" \notin from
    PROVE  Abstract!Next /\ Records'
<1> DEFINE new == [shipments[id] EXCEPT !.status = to]
<1>1. /\ Rewrites(id, new) /\ shipments[id].status \in from
      /\ UNCHANGED carrierList /\ new.status = to /\ new.carrier = shipments[id].carrier
  BY MoveRewrites DEF Records
<1> HIDE DEF new
<1>2. Abstract!Next
  BY <1>1, RewriteImplements DEF Records
<1>3. carrierList' \in [Accounts -> Seq(Ids)]
  BY <1>1 DEF Records, TypeOK
<1>4. new.status # "Cancelled" => new.carrier # NoCarrier
  BY <1>1 DEF Records, CarrierUnderWay, Statuses
<1> QED
  BY <1>1, <1>2, <1>3, <1>4, RewriteKeeps

LEMMA AcceptImplements ==
    ASSUME Records, NEW a \in Accounts, NEW id \in Ids, AcceptShipment(a, id)
    PROVE  Abstract!Next /\ Records'
<1> DEFINE new == [shipments[id] EXCEPT !.carrier = a, !.status = "Accepted"]
<1>1. Rewrites(id, new) /\ new.status = "Accepted" /\ new.carrier = a
  BY AcceptRewrites DEF Records
<1> HIDE DEF new
<1>2. shipments[id].status = "Created" /\ "Accepted" \in Abstract!Successors["Created"]
  BY DEF AcceptShipment, Abstract!Successors
<1>3. Abstract!Next
  BY <1>1, <1>2, RewriteImplements DEF Records
<1>4. carrierList' \in [Accounts -> Seq(Ids)]
  BY DEF Records, TypeOK, AcceptShipment
<1>5. a # NoCarrier
  BY NobodyAssumption
<1> QED
  BY <1>1, <1>3, <1>4, <1>5, RewriteKeeps

LEMMA StepImplements ==
    ASSUME Records, NEW a \in Accounts, Invoke(a), admin = NoAdmin => admin' # NoAdmin
    PROVE  Abstract!Next /\ Records'
<1>1. admin # NoAdmin
  BY DEF Invoke, CreateShipment, ConfirmDelivery, CancelShipment, AcceptShipment,
         MarkInTransit, MarkDelivered, RaiseDispute, ResolveDispute, Move
<1>2. CASE CreateShipment(a)
  BY <1>1, <1>2, CreateImplements
<1>3. ASSUME NEW id \in Ids, ConfirmDelivery(a, id) PROVE Abstract!Next /\ Records'
  <2>1. "Completed" \in Abstract!Successors["Delivered"]
    BY DEF Abstract!Successors
  <2>2. Move(id, {"Delivered"}, "Completed")
    BY <1>3 DEF ConfirmDelivery
  <2>3. /\ {"Delivered"} \in SUBSET Statuses
        /\ "Completed" \in Statuses \ {"Created", "Accepted"}
        /\ "Created" \notin {"Delivered"} /\ "Cancelled" \notin {"Delivered"}
    BY DEF Statuses
  <2> QED
    BY <2>1, <2>2, <2>3, MoveImplements
<1>4. ASSUME NEW id \in Ids, CancelShipment(a, id) PROVE Abstract!Next /\ Records'
  <2>1. \A s \in {"Created", "Accepted"} : "Cancelled" \in Abstract!Successors[s]
    BY DEF Abstract!Successors
  <2> QED
    BY <1>4, <2>1, MoveImplements DEF CancelShipment, Statuses
<1>5. ASSUME NEW id \in Ids, AcceptShipment(a, id) PROVE Abstract!Next /\ Records'
  BY <1>5, AcceptImplements
<1>6. ASSUME NEW id \in Ids, MarkInTransit(a, id) PROVE Abstract!Next /\ Records'
  <2>1. "InTransit" \in Abstract!Successors["Accepted"]
    BY DEF Abstract!Successors
  <2>2. Move(id, {"Accepted"}, "InTransit")
    BY <1>6 DEF MarkInTransit
  <2>3. /\ {"Accepted"} \in SUBSET Statuses
        /\ "InTransit" \in Statuses \ {"Created", "Accepted"}
        /\ "Created" \notin {"Accepted"} /\ "Cancelled" \notin {"Accepted"}
    BY DEF Statuses
  <2> QED
    BY <2>1, <2>2, <2>3, MoveImplements
<1>7. ASSUME NEW id \in Ids, MarkDelivered(a, id) PROVE Abstract!Next /\ Records'
  <2>1. "Delivered" \in Abstract!Successors["InTransit"]
    BY DEF Abstract!Successors
  <2>2. Move(id, {"InTransit"}, "Delivered")
    BY <1>7 DEF MarkDelivered
  <2>3. /\ {"InTransit"} \in SUBSET Statuses
        /\ "Delivered" \in Statuses \ {"Created", "Accepted"}
        /\ "Created" \notin {"InTransit"} /\ "Cancelled" \notin {"InTransit"}
    BY DEF Statuses
  <2> QED
    BY <2>1, <2>2, <2>3, MoveImplements
<1>8. ASSUME NEW id \in Ids, RaiseDispute(a, id) PROVE Abstract!Next /\ Records'
  <2>1. \A s \in {"InTransit", "Delivered"} : "Disputed" \in Abstract!Successors[s]
    BY DEF Abstract!Successors
  <2>2. Move(id, {"InTransit", "Delivered"}, "Disputed")
    BY <1>8 DEF RaiseDispute
  <2>3. /\ {"InTransit", "Delivered"} \in SUBSET Statuses
        /\ "Disputed" \in Statuses \ {"Created", "Accepted"}
        /\ "Created" \notin {"InTransit", "Delivered"} /\ "Cancelled" \notin {"InTransit", "Delivered"}
    BY DEF Statuses
  <2> QED
    BY <2>1, <2>2, <2>3, MoveImplements
<1>9. ASSUME NEW id \in Ids, ResolveDispute(a, id) PROVE Abstract!Next /\ Records'
  <2>1. Abstract!Successors["Disputed"] = {"Completed", "Cancelled"}
    BY DEF Abstract!Successors
  <2>2. PICK to \in {"Completed", "Cancelled"} : Move(id, {"Disputed"}, to)
    BY <1>9 DEF ResolveDispute
  <2> QED
    BY <2>1, <2>2, MoveImplements DEF Statuses
<1> QED
  BY <1>1, <1>2, <1>3, <1>4, <1>5, <1>6, <1>7, <1>8, <1>9 DEF Invoke

LEMMA InitializeKeeps ==
    ASSUME Records, NEW a \in Accounts, Initialize(a)
    PROVE  Records' /\ UNCHANGED Abstract!vars
<1>1. counter = 0 /\ calls = 0 /\ counter' = 0 /\ UNCHANGED <<shipments, shipperList, carrierList, calls>>
      /\ admin' = a /\ a # NoAdmin
  BY NobodyAssumption DEF Records, Deployed, Numbering, Initialize
<1>2. TypeOK' /\ Deployed' /\ Numbering' /\ CarrierUnderWay'
  BY <1>1 DEF Records, TypeOK, Deployed, Numbering, CarrierUnderWay
<1> QED
  BY <1>1, <1>2 DEF Records, Abstract!vars, StatusOf, CarrierOf

LEMMA InitRecords == Init => Records
  BY MaxAssumption DEF Init, Records, Deployed, TypeOK, Numbering, CarrierUnderWay,
       Ids, NotFound

LEMMA StutterKeeps ==
    ASSUME UNCHANGED vars PROVE (Records => Records') /\ UNCHANGED Abstract!vars
  BY DEF vars, Records, Deployed, TypeOK, Numbering, CarrierUnderWay, Abstract!vars,
       StatusOf, CarrierOf

DeployedNext == Next /\ (admin = NoAdmin => admin' # NoAdmin)

LEMMA StepSound ==
    Records /\ [DeployedNext]_vars => Records' /\ [Abstract!Next]_(Abstract!vars)
<1> SUFFICES ASSUME Records, [DeployedNext]_vars
             PROVE  Records' /\ [Abstract!Next]_(Abstract!vars)
  OBVIOUS
<1>1. CASE UNCHANGED vars
  BY <1>1, StutterKeeps
<1>2. CASE DeployedNext
  <2>1. PICK a \in Accounts : Initialize(a) \/ Invoke(a)
    BY <1>2 DEF DeployedNext, Next
  <2>2. CASE Initialize(a)
    BY <2>2, InitializeKeeps
  <2>3. CASE Invoke(a)
    BY <1>2, <2>3, StepImplements DEF DeployedNext
  <2> QED
    BY <2>1, <2>2, <2>3
<1> QED
  BY <1>1, <1>2

LEMMA DeployedInductive == DeployedSpec => []Records
  BY InitRecords, StepSound, PTL DEF DeployedSpec, DeployedNext

(* The deployed contract stays well typed, for any accounts and any number *)
(* of shipments.                                                           *)
THEOREM TypeCorrect == DeployedSpec => []TypeOK
<1>1. Records => TypeOK
  BY DEF Records
<1> QED
  BY <1>1, DeployedInductive, PTL

(* From its acceptance on a shipment has a carrier, for any accounts and   *)
(* any number of shipments.                                                *)
THEOREM CarrierKnown == DeployedSpec => []CarrierUnderWay
<1>1. Records => CarrierUnderWay
  BY DEF Records
<1> QED
  BY <1>1, DeployedInductive, PTL

(* The deployed contract moves every shipment along the life cycle, names  *)
(* its carrier once, and never reopens a finished one.                     *)
THEOREM ImplementsLifecycle == DeployedSpec => FollowsLifecycle
<1>1. Init => Abstract!Init
  BY DEF Init, Abstract!Init, StatusOf, CarrierOf
<1> QED
  BY <1>1, InitRecords, StepSound, PTL
     DEF DeployedSpec, DeployedNext, FollowsLifecycle, Abstract!Spec
-----------------------------------------------------------------------------
(* The lists.                                                              *)
LEMMA AppendLists ==
    ASSUME NEW list \in [Accounts -> Seq(Ids)], NEW a \in Accounts, NEW id \in Ids,
           NEW new, new = [list EXCEPT ![a] = Append(@, id)]
    PROVE  /\ \A b \in Accounts, i \in Ids : Lists(new, b, i) <=> Lists(list, b, i) \/ (b = a /\ i = id)
           /\ ~Lists(list, a, id) /\ ListsOnce(list, a) => ListsOnce(new, a)
           /\ \A b \in Accounts \ {a} : ListsOnce(list, b) => ListsOnce(new, b)
<1>1. \A b \in Accounts \ {a} : new[b] = list[b]
  OBVIOUS
<1>2. /\ list[a] \in Seq(Ids) /\ new[a] = Append(list[a], id)
      /\ Len(list[a]) \in Nat
  OBVIOUS
<1>3. /\ DOMAIN list[a] = 1..Len(list[a])
      /\ DOMAIN new[a] = 1..(Len(list[a]) + 1)
      /\ \A j \in 1..Len(list[a]) : new[a][j] = list[a][j]
      /\ new[a][Len(list[a]) + 1] = id
  BY <1>2
<1>4. \A i \in Ids : Lists(new, a, i) <=> Lists(list, a, i) \/ i = id
  <2> SUFFICES ASSUME NEW i \in Ids PROVE Lists(new, a, i) <=> Lists(list, a, i) \/ i = id
    OBVIOUS
  <2>1. ASSUME NEW j \in DOMAIN new[a], new[a][j] = i PROVE Lists(list, a, i) \/ i = id
    <3>1. j \in 1..Len(list[a]) \/ j = Len(list[a]) + 1
      BY <1>2, <1>3
    <3> QED
      BY <1>3, <2>1, <3>1 DEF Lists
  <2>2. ASSUME NEW j \in DOMAIN list[a], list[a][j] = i PROVE Lists(new, a, i)
    BY <1>2, <1>3, <2>2 DEF Lists
  <2>3. Len(list[a]) + 1 \in DOMAIN new[a]
    BY <1>2, <1>3
  <2> QED
    BY <1>3, <2>1, <2>2, <2>3 DEF Lists
<1>5. ASSUME ~Lists(list, a, id), ListsOnce(list, a) PROVE ListsOnce(new, a)
  <2>1. \A j \in 1..Len(list[a]) : list[a][j] # id
    BY <1>3, <1>5 DEF Lists
  <2> QED
    BY <1>2, <1>3, <1>5, <2>1 DEF ListsOnce
<1>6. \A b \in Accounts \ {a}, i \in Ids : Lists(new, b, i) <=> Lists(list, b, i)
  BY <1>1 DEF Lists
<1>7. \A b \in Accounts \ {a} : ListsOnce(list, b) => ListsOnce(new, b)
  BY <1>1 DEF ListsOnce
<1> QED
  BY <1>4, <1>5, <1>6, <1>7

LEMMA MoveKeepsLists ==
    ASSUME Records, ListsMatchRecords, NEW id \in Ids, NEW from \in SUBSET Statuses,
           NEW to \in Statuses, Move(id, from, to)
    PROVE  ListsMatchRecords'
<1>1. shipments[id] \in Shipments
  BY NotFoundIsNoRecord DEF Records, TypeOK, Move
<1>2. /\ shipments'[id] # NotFound /\ shipments[id] # NotFound
      /\ shipments'[id].shipper = shipments[id].shipper
      /\ shipments'[id].carrier = shipments[id].carrier
      /\ \A i \in Ids \ {id} : shipments'[i] = shipments[i]
  BY <1>1, NotFoundIsNoRecord DEF Records, TypeOK, Move, Shipments
<1>3. \A b \in Accounts, i \in Ids :
         (IsShipper(b, i)' <=> IsShipper(b, i)) /\ (IsCarrier(b, i)' <=> IsCarrier(b, i))
  BY <1>2 DEF IsShipper, IsCarrier
<1>4. shipperList' = shipperList /\ carrierList' = carrierList
  BY DEF Move
<1> QED
  BY <1>3, <1>4 DEF ListsMatchRecords, Lists, ListsOnce

(* A created shipment has no carrier, so it is in no carrier's list yet.   *)
LEMMA AcceptKeepsLists ==
    ASSUME Records, ListsMatchRecords, NEW a \in Accounts, NEW id \in Ids, AcceptShipment(a, id)
    PROVE  ListsMatchRecords'
<1>1. shipments[id] \in Shipments /\ shipments[id].carrier = NoCarrier
  BY NotFoundIsNoRecord DEF Records, TypeOK, CarrierUnderWay, AcceptShipment, NotFound
<1>2. /\ shipments'[id] # NotFound /\ shipments[id] # NotFound
      /\ shipments'[id].shipper = shipments[id].shipper
      /\ shipments'[id].carrier = a
      /\ \A i \in Ids \ {id} : shipments'[i] = shipments[i]
  BY <1>1, NotFoundIsNoRecord DEF Records, TypeOK, AcceptShipment, Shipments, Statuses
<1>3. ~IsCarrier(a, id) /\ ~Lists(carrierList, a, id)
  BY <1>1, NobodyAssumption DEF IsCarrier, ListsMatchRecords
<1>4. \A b \in Accounts, i \in Ids :
         /\ IsShipper(b, i)' <=> IsShipper(b, i)
         /\ IsCarrier(b, i)' <=> IsCarrier(b, i) \/ (b = a /\ i = id)
  BY <1>1, <1>2, NobodyAssumption DEF IsShipper, IsCarrier
<1>5. /\ carrierList \in [Accounts -> Seq(Ids)]
      /\ carrierList' = [carrierList EXCEPT ![a] = Append(@, id)]
      /\ shipperList' = shipperList
  BY DEF Records, TypeOK, AcceptShipment
<1>6. /\ \A b \in Accounts, i \in Ids :
            Lists(carrierList', b, i) <=> Lists(carrierList, b, i) \/ (b = a /\ i = id)
      /\ \A b \in Accounts : ListsOnce(carrierList', b)
  <2>1. \A new : new = [carrierList EXCEPT ![a] = Append(@, id)] =>
           /\ \A b \in Accounts, i \in Ids :
                 Lists(new, b, i) <=> Lists(carrierList, b, i) \/ (b = a /\ i = id)
           /\ ~Lists(carrierList, a, id) /\ ListsOnce(carrierList, a) => ListsOnce(new, a)
           /\ \A b \in Accounts \ {a} : ListsOnce(carrierList, b) => ListsOnce(new, b)
    BY <1>5, AppendLists
  <2>2. \A b \in Accounts : ListsOnce(carrierList, b)
    BY DEF ListsMatchRecords
  <2> QED
    BY <1>3, <1>5, <2>1, <2>2
<1>7. \A b \in Accounts, i \in Ids : Lists(shipperList', b, i) <=> Lists(shipperList, b, i)
  BY <1>5
<1>8. \A b \in Accounts : ListsOnce(shipperList', b)
  BY <1>5 DEF ListsMatchRecords
<1> QED
  BY <1>4, <1>6, <1>7, <1>8 DEF ListsMatchRecords

(* The id given out has no record, so it is in no shipper's list yet.      *)
LEMMA CreateKeepsLists ==
    ASSUME Records, ListsMatchRecords, NEW a \in Accounts, CreateShipment(a)
    PROVE  ListsMatchRecords'
<1>0. PICK id \in Ids : id = counter + 1
  BY MaxAssumption DEF Records, TypeOK, Numbering, CreateShipment, Ids
<1>1. shipments[id] = NotFound
  BY <1>0, MaxAssumption DEF Records, TypeOK, Numbering, Ids
<1>2. /\ shipments'[id] # NotFound
      /\ shipments'[id].shipper = a /\ shipments'[id].carrier = NoCarrier
      /\ \A i \in Ids \ {id} : shipments'[i] = shipments[i]
  BY <1>0, NotFoundIsNoRecord DEF Records, TypeOK, CreateShipment, Shipments, NotFound
<1>3. ~IsShipper(a, id) /\ ~Lists(shipperList, a, id)
  BY <1>1 DEF IsShipper, ListsMatchRecords
<1>4. \A b \in Accounts, i \in Ids :
         /\ IsShipper(b, i)' <=> IsShipper(b, i) \/ (b = a /\ i = id)
         /\ IsCarrier(b, i)' <=> IsCarrier(b, i)
  BY <1>1, <1>2, NobodyAssumption DEF IsShipper, IsCarrier
<1>5. /\ shipperList \in [Accounts -> Seq(Ids)]
      /\ shipperList' = [shipperList EXCEPT ![a] = Append(@, id)]
      /\ carrierList' = carrierList
  BY <1>0 DEF Records, TypeOK, CreateShipment
<1>6. /\ \A b \in Accounts, i \in Ids :
            Lists(shipperList', b, i) <=> Lists(shipperList, b, i) \/ (b = a /\ i = id)
      /\ \A b \in Accounts : ListsOnce(shipperList', b)
  <2>1. \A new : new = [shipperList EXCEPT ![a] = Append(@, id)] =>
           /\ \A b \in Accounts, i \in Ids :
                 Lists(new, b, i) <=> Lists(shipperList, b, i) \/ (b = a /\ i = id)
           /\ ~Lists(shipperList, a, id) /\ ListsOnce(shipperList, a) => ListsOnce(new, a)
           /\ \A b \in Accounts \ {a} : ListsOnce(shipperList, b) => ListsOnce(new, b)
    BY <1>5, AppendLists
  <2>2. \A b \in Accounts : ListsOnce(shipperList, b)
    BY DEF ListsMatchRecords
  <2> QED
    BY <1>3, <1>5, <2>1, <2>2
<1>7. \A b \in Accounts, i \in Ids : Lists(carrierList', b, i) <=> Lists(carrierList, b, i)
  BY <1>5
<1>8. \A b \in Accounts : ListsOnce(carrierList', b)
  BY <1>5 DEF ListsMatchRecords
<1> QED
  BY <1>4, <1>6, <1>7, <1>8 DEF ListsMatchRecords

LEMMA StepKeepsLists ==
    ASSUME Records, ListsMatchRecords, [DeployedNext]_vars
    PROVE  ListsMatchRecords'
<1>1. CASE UNCHANGED vars
  BY <1>1 DEF vars, ListsMatchRecords, Lists, ListsOnce, IsShipper, IsCarrier
<1>2. ASSUME NEW a \in Accounts, Initialize(a) PROVE ListsMatchRecords'
  BY <1>2 DEF Initialize, ListsMatchRecords, Lists, ListsOnce, IsShipper, IsCarrier
<1>3. ASSUME NEW a \in Accounts, CreateShipment(a) PROVE ListsMatchRecords'
  BY <1>3, CreateKeepsLists
<1>4. ASSUME NEW a \in Accounts, NEW id \in Ids, AcceptShipment(a, id) PROVE ListsMatchRecords'
  BY <1>4, AcceptKeepsLists
<1>5. ASSUME NEW id \in Ids, NEW from \in SUBSET Statuses, NEW to \in Statuses, Move(id, from, to)
      PROVE  ListsMatchRecords'
  BY <1>5, MoveKeepsLists
<1>6. ASSUME NEW a \in Accounts, NEW id \in Ids,
             ConfirmDelivery(a, id) \/ CancelShipment(a, id) \/ MarkInTransit(a, id)
               \/ MarkDelivered(a, id) \/ RaiseDispute(a, id) \/ ResolveDispute(a, id)
      PROVE  ListsMatchRecords'
  <2>1. PICK from \in SUBSET Statuses, to \in Statuses : Move(id, from, to)
    BY <1>6 DEF ConfirmDelivery, CancelShipment, MarkInTransit, MarkDelivered, RaiseDispute,
                ResolveDispute, Statuses
  <2> QED
    BY <1>5, <2>1
<1> QED
  BY <1>1, <1>2, <1>3, <1>4, <1>6 DEF DeployedNext, Next, Invoke

(* get_shipments_by_shipper and get_shipments_by_carrier of the deployed   *)
(* contract name each shipment of the account, once, and no other, for any *)
(* accounts and any number of shipments.                                   *)
THEOREM ListsAreTrue == DeployedSpec => []ListsMatchRecords
<1>1. Init => ListsMatchRecords
  BY DEF Init, ListsMatchRecords, Lists, ListsOnce, IsShipper, IsCarrier, NotFound
<1>2. Records /\ ListsMatchRecords /\ [DeployedNext]_vars => ListsMatchRecords'
  BY StepKeepsLists
<1> QED
  BY <1>1, <1>2, DeployedInductive, PTL DEF DeployedSpec, DeployedNext
-----------------------------------------------------------------------------
(* The shipment contract beside the others: they leave its records, its    *)
(* lists and its counter as they are.                                      *)
BesideInv == (contract = "shipment" => Records) /\ ListsMatchRecords

LEMMA BesideStep ==
    ASSUME BesideInv, [AnyNext]_contractsVars
    PROVE  BesideInv' /\ [Abstract!Next]_(Abstract!vars)
<1>1. CASE contract = "shipment"
  <2>1. [DeployedNext]_vars /\ contract' = contract
    BY <1>1 DEF AnyNext, contractsVars, shipmentVars, vars, DeployedNext
  <2>2. Records' /\ [Abstract!Next]_(Abstract!vars)
    BY <1>1, <2>1, StepSound DEF BesideInv
  <2>3. ListsMatchRecords'
    BY <1>1, <2>1, StepKeepsLists DEF BesideInv
  <2> QED
    BY <2>2, <2>3 DEF BesideInv
<1>2. CASE contract # "shipment"
  <2>1. contract' = contract /\ UNCHANGED shipmentVars
    BY <1>2 DEF AnyNext, contractsVars
  <2>2. UNCHANGED Abstract!vars
    BY <2>1 DEF shipmentVars, Abstract!vars, StatusOf, CarrierOf
  <2>3. ListsMatchRecords'
    BY <2>1 DEF BesideInv, shipmentVars, ListsMatchRecords, Lists, ListsOnce, IsShipper, IsCarrier
  <2> QED
    BY <1>2, <2>1, <2>2, <2>3 DEF BesideInv
<1> QED
  BY <1>1, <1>2

(* Beside the other contracts too, a shipment follows the life cycle and   *)
(* its shipper's and carrier's lists name it.                              *)
THEOREM ShipmentsBeside == ContractsSpec => FollowsLifecycle /\ []ListsMatchRecords
<1>1. AnyInit => BesideInv /\ Abstract!Init
  <2>1. Init => Abstract!Init
    BY DEF Init, Abstract!Init, StatusOf, CarrierOf
  <2>2. Init => ListsMatchRecords
    BY DEF Init, ListsMatchRecords, Lists, ListsOnce, IsShipper, IsCarrier, NotFound
  <2> QED
    BY <2>1, <2>2, InitRecords DEF AnyInit, BesideInv
<1>2. BesideInv /\ [AnyNext]_contractsVars => BesideInv' /\ [Abstract!Next]_(Abstract!vars)
  BY BesideStep
<1>3. BesideInv => ListsMatchRecords
  BY DEF BesideInv
<1> QED
  BY <1>1, <1>2, <1>3, PTL DEF ContractsSpec, FollowsLifecycle, Abstract!Spec

-----------------------------------------------------------------------------
(* The document registry.                                                  *)
DocumentRecords ==
    [shipment : ShipmentNumbers, uploader : Accounts, hash : Hashes, verifiedBy : Accounts \cup {NoAdmin}]

DocTyped ==
    /\ documentCounter \in Nat
    /\ documents \in [Doc!Ids -> DocumentRecords \cup {Doc!NotFound}]

NoneBeyond == \A id \in Doc!Ids : documents[id] # Doc!NotFound => id <= documentCounter

DocDeployed == admin = NoAdmin => documentCounter = 0

DocIInv == DocTyped /\ NoneBeyond /\ DocDeployed

LEMMA NoDocumentIsNoRecord == Doc!NotFound \notin DocumentRecords
  BY DEF Doc!NotFound, DocumentRecords

(* The record a registration stores at its new id. *)
LEMMA DocRegisterKeeps ==
    ASSUME DocIInv, NEW a \in Accounts, NEW s \in ShipmentNumbers, NEW h \in Hashes,
           Doc!RegisterDocument(a, s, h), admin # NoAdmin
    PROVE  /\ DocIInv'
           /\ \A id \in Doc!Ids : documents[id] # Doc!NotFound => documents'[id] = documents[id]
<1> DEFINE new == Doc!DocumentRecord(s, a, h)
<1>1. new \in DocumentRecords
  BY DEF Doc!DocumentRecord, DocumentRecords
<1> HIDE DEF new
<1>2. /\ documentCounter' = documentCounter + 1 /\ admin' = admin
      /\ documents' = [documents EXCEPT ![documentCounter + 1] = new]
  BY DEF Doc!RegisterDocument, new
<1>3. \A id \in Doc!Ids : id # documentCounter + 1 => documents'[id] = documents[id]
  BY <1>2 DEF DocIInv, DocTyped
<1>4. DocTyped'
  <2>1. documents' \in [Doc!Ids -> DocumentRecords \cup {Doc!NotFound}]
    BY <1>1, <1>2 DEF DocIInv, DocTyped
  <2>2. documentCounter' \in Nat
    BY <1>2 DEF DocIInv, DocTyped
  <2> QED
    BY <2>1, <2>2 DEF DocTyped
<1>5. NoneBeyond'
  BY <1>2, <1>3 DEF DocIInv, DocTyped, NoneBeyond, Doc!Ids
<1>6. \A id \in Doc!Ids : documents[id] # Doc!NotFound => id # documentCounter + 1
  BY DEF DocIInv, DocTyped, NoneBeyond, Doc!Ids
<1> QED
  BY <1>2, <1>3, <1>4, <1>5, <1>6 DEF DocIInv, DocDeployed

LEMMA DocVerifyKeeps ==
    ASSUME DocIInv, NEW a \in Accounts, NEW id \in Doc!Ids, Doc!VerifyDocument(a, id)
    PROVE  /\ DocIInv'
           /\ \A i \in Doc!Ids : documents[i] # Doc!NotFound =>
                documents'[i] # Doc!NotFound /\ documents'[i].hash = documents[i].hash
<1> DEFINE new == [documents[id] EXCEPT !.verifiedBy = a]
<1>1. documents[id] \in DocumentRecords
  BY DEF DocIInv, DocTyped, Doc!VerifyDocument
<1>2. new \in DocumentRecords /\ new.hash = documents[id].hash /\ new # Doc!NotFound
  BY <1>1, NoDocumentIsNoRecord DEF DocumentRecords
<1>3. documents' = [documents EXCEPT ![id] = new] /\ documentCounter' = documentCounter /\ admin' = admin
  BY DEF Doc!VerifyDocument
<1> HIDE DEF new
<1>4. documents'[id] = new /\ \A i \in Doc!Ids \ {id} : documents'[i] = documents[i]
  BY <1>3 DEF DocIInv, DocTyped
<1>5. documents[id] # Doc!NotFound
  BY DEF Doc!VerifyDocument
<1>6. DocIInv'
  BY <1>2, <1>3, <1>4, <1>5 DEF DocIInv, DocTyped, NoneBeyond, DocDeployed
<1> QED
  BY <1>2, <1>4, <1>6

(* initialize counts from 0 again, and as deployed there is nothing yet.   *)
LEMMA DocInitializeKeeps ==
    ASSUME DocIInv, NEW a \in Accounts, Doc!Initialize(a)
    PROVE  DocIInv' /\ documents' = documents
  BY DEF DocIInv, DocTyped, NoneBeyond, DocDeployed, Doc!Initialize

LEMMA DocStepKeeps ==
    ASSUME DocIInv, [Doc!DeployedNext]_<<admin, documentVars>>
    PROVE  /\ DocIInv'
           /\ \A id \in Doc!Ids : documents[id] # Doc!NotFound =>
                documents'[id] # Doc!NotFound /\ documents'[id].hash = documents[id].hash
<1>1. CASE UNCHANGED <<admin, documentVars>>
  BY <1>1 DEF documentVars, DocIInv, DocTyped, NoneBeyond, DocDeployed
<1>2. CASE Doc!DeployedNext
  <2>1. PICK a \in Accounts :
          \/ Doc!Initialize(a)
          \/ \E s \in ShipmentNumbers, h \in Hashes : Doc!RegisterDocument(a, s, h)
          \/ \E id \in Doc!Ids : Doc!VerifyDocument(a, id)
    BY <1>2 DEF Doc!DeployedNext, Doc!Next
  <2>2. CASE Doc!Initialize(a)
    BY <2>2, DocInitializeKeeps
  <2>3. ASSUME NEW s \in ShipmentNumbers, NEW h \in Hashes, Doc!RegisterDocument(a, s, h)
        PROVE  admin # NoAdmin
    BY <1>2, <2>3 DEF Doc!DeployedNext, Doc!RegisterDocument
  <2>4. ASSUME NEW s \in ShipmentNumbers, NEW h \in Hashes, Doc!RegisterDocument(a, s, h)
        PROVE  /\ DocIInv'
               /\ \A id \in Doc!Ids : documents[id] # Doc!NotFound => documents'[id] = documents[id]
    BY <2>3, <2>4, DocRegisterKeeps
  <2>5. ASSUME NEW id \in Doc!Ids, Doc!VerifyDocument(a, id)
        PROVE  /\ DocIInv'
               /\ \A i \in Doc!Ids : documents[i] # Doc!NotFound =>
                    documents'[i] # Doc!NotFound /\ documents'[i].hash = documents[i].hash
    BY <2>5, DocVerifyKeeps
  <2> QED
    BY <2>1, <2>2, <2>4, <2>5
<1> QED
  BY <1>1, <1>2

DocInv == contract = "document" => DocIInv

LEMMA DocInvInit == AnyInit => DocInv
  BY DEF AnyInit, DocInv, Doc!Init, Doc!Ids, Doc!NotFound, DocIInv, DocTyped, NoneBeyond,
         DocDeployed

(* A step of the registry keeps the invariant and every hash; a step of    *)
(* another contract leaves the documents as they are.                      *)
LEMMA DocStep ==
    ASSUME DocInv, [AnyNext]_contractsVars
    PROVE  /\ DocInv'
           /\ \A id \in Doc!Ids, h \in Hashes : Doc!CheckIntegrity(id, h) => Doc!CheckIntegrity(id, h)'
<1>1. CASE contract = "document"
  <2>1. [Doc!DeployedNext]_<<admin, documentVars>> /\ contract' = contract
    BY <1>1 DEF AnyNext, contractsVars, documentVars
  <2> QED
    BY <1>1, <2>1, DocStepKeeps DEF DocInv, Doc!CheckIntegrity
<1>2. CASE contract # "document"
  <2>1. contract' = contract /\ documents' = documents
    BY <1>2 DEF AnyNext, contractsVars, documentVars
  <2> QED
    BY <1>2, <2>1 DEF DocInv, Doc!CheckIntegrity
<1> QED
  BY <1>1, <1>2

(* Whatever the other contracts do, a document that check_integrity has    *)
(* once found unaltered it finds unaltered for ever.                       *)
THEOREM ProvableForEver == ContractsSpec => IntegrityIsKept
<1> DEFINE Kept == \A id \in Doc!Ids, h \in Hashes :
                     Doc!CheckIntegrity(id, h) => Doc!CheckIntegrity(id, h)'
<1>1. DocInv /\ [AnyNext]_contractsVars => DocInv' /\ Kept
  BY DocStep
<1> QED
  BY <1>1, DocInvInit, PTL DEF ContractsSpec, IntegrityIsKept, Doc!IntegrityIsKept
-----------------------------------------------------------------------------
(* The reputation contract: five stars.                                    *)

(* The average of a profile is what calculate_score reads of the ratings;  *)
(* the other parts of the score count completions.                         *)
Averaged(rep) ==
    /\ rep.points \in Nat /\ rep.ratingCount \in Nat
    /\ rep.totalCompleted \in Nat
    /\ rep.onTime \in Nat /\ rep.success \in Nat /\ rep.late \in Nat /\ rep.cancel \in Nat
    /\ rep.userType \in {"Carrier", "Shipper"}
    /\ rep.points <= 500 * rep.ratingCount
    /\ rep.average = IF rep.ratingCount = 0 THEN 0 ELSE rep.points \div rep.ratingCount

Profiles ==
    [userType : {"Carrier", "Shipper"}, totalCompleted : Nat, points : Nat, ratingCount : Nat,
     onTime : Nat, late : Nat, success : Nat, cancel : Nat, average : Nat]

RepInv ==
    /\ reputations \in [Accounts -> Profiles \cup {Rep!Unregistered}]
    /\ \A u \in Accounts : Rep!Registered(u) => Averaged(reputations[u])

(* Adding a number that is at least the average does not lower the average. *)
LEMMA AverageGrows ==
    ASSUME NEW p \in Nat, NEW n \in Nat, n > 0, p <= 500 * n
    PROVE  /\ p \div n \in Nat
           /\ (p + 500) \div (n + 1) \in Nat
           /\ p \div n <= (p + 500) \div (n + 1)
<1> DEFINE q == p \div n
           r == (p + 500) \div (n + 1)
<1>1. q \in Nat /\ r \in Nat
  BY SMTT(30)
<1>2. q * n <= p /\ p < (q + 1) * n
  BY SMTT(30)
<1>3. r * (n + 1) <= p + 500 /\ p + 500 < (r + 1) * (n + 1)
  BY SMTT(30)
<1> HIDE DEF q, r
<1>4. q <= 500
  <2>1. SUFFICES ASSUME q >= 501 PROVE FALSE
    BY <1>1
  <2>2. q * n >= 501 * n
    BY <1>1, <2>1, SMTT(30)
  <2> QED
    BY <1>1, <1>2, <2>2, SMTT(30)
<1>5. q * (n + 1) <= p + 500
  BY <1>1, <1>2, <1>4, SMTT(30)
<1>6. q * (n + 1) < (r + 1) * (n + 1)
  BY <1>1, <1>3, <1>5, SMTT(30)
<1>7. q < r + 1
  BY <1>1, <1>6, SMTT(30)
<1> QED
  BY <1>1, <1>7 DEF q, r

LEMMA PercentGrows ==
    ASSUME NEW c \in Nat, NEW t \in Nat, t > 0
    PROVE  /\ Rep!Percent(c, t) \in Nat
           /\ Rep!Percent(c + 1, t) \in Nat
           /\ Rep!Percent(c, t) <= Rep!Percent(c + 1, t)
<1> DEFINE q == (c * 100) \div t
           r == ((c + 1) * 100) \div t
<1>1. q \in Nat /\ r \in Nat
  BY SMTT(30)
<1>2. q * t <= c * 100 /\ (c + 1) * 100 < (r + 1) * t
  BY SMTT(30)
<1> HIDE DEF q, r
<1>3. q * t < (r + 1) * t
  BY <1>1, <1>2, SMTT(30)
<1>4. q < r + 1
  BY <1>1, <1>3, SMTT(30)
<1> QED
  BY <1>1, <1>4 DEF q, r, Rep!Percent

(* A profile that gets five stars has no lower score. *)
LEMMA FiveStarsRaise ==
    ASSUME NEW rep \in Profiles, Averaged(rep)
    PROVE  Rep!ScoreOf(Rep!Rated(rep, 5)) >= Rep!ScoreOf(rep)
<1> DEFINE new == Rep!Rated(rep, 5)
           good == IF rep.userType = "Carrier" THEN rep.onTime ELSE rep.success
           rate == IF rep.totalCompleted = 0 THEN 0 ELSE Rep!Percent(good, rep.totalCompleted) * 3
           before == IF rep.totalCompleted = 0 THEN 0
                     ELSE Rep!Least(Rep!Percent(rep.ratingCount, rep.totalCompleted) * 2, 200)
           after == IF rep.totalCompleted = 0 THEN 0
                    ELSE Rep!Least(Rep!Percent(rep.ratingCount + 1, rep.totalCompleted) * 2, 200)
           average == (rep.points + 500) \div (rep.ratingCount + 1)
<1>1. /\ new.userType = rep.userType /\ new.totalCompleted = rep.totalCompleted
      /\ new.onTime = rep.onTime /\ new.success = rep.success
      /\ new.ratingCount = rep.ratingCount + 1
      /\ new.average = average
  BY DEF Rep!Rated, Profiles
<1>2. rep.average \in Nat /\ average \in Nat /\ rep.average <= average
  <2>1. CASE rep.ratingCount = 0
    <3>1. rep.average = 0 /\ rep.points = 0
      BY <2>1 DEF Averaged
    <3>2. average = 500
      BY <2>1, <3>1
    <3> QED
      BY <3>1, <3>2
  <2>2. CASE rep.ratingCount # 0
    BY <2>2, AverageGrows DEF Averaged
  <2> QED
    BY <2>1, <2>2
<1>3. rate \in Nat
  BY DEF Rep!Percent, Averaged
<1>4. before \in Nat /\ after \in Nat /\ before <= after
  <2>1. CASE rep.totalCompleted = 0
    BY <2>1
  <2>2. CASE rep.totalCompleted # 0
    <3> DEFINE c == rep.ratingCount
               t == rep.totalCompleted
    <3>1. c \in Nat /\ t \in Nat /\ t > 0
      BY <2>2 DEF Averaged
    <3> HIDE DEF c, t
    <3>2. /\ Rep!Percent(c, t) \in Nat /\ Rep!Percent(c + 1, t) \in Nat
          /\ Rep!Percent(c, t) <= Rep!Percent(c + 1, t)
      BY <3>1, PercentGrows
    <3> QED
      BY <2>2, <3>2 DEF Rep!Least, c, t
  <2> QED
    BY <2>1, <2>2
<1>5. Rep!ScoreOf(new) = Rep!Least(Rep!Least(average, 500) + rate + after, 1000)
  BY <1>1 DEF Rep!ScoreOf
<1>6. Rep!ScoreOf(rep) = Rep!Least(Rep!Least(rep.average, 500) + rate + before, 1000)
  BY DEF Rep!ScoreOf
<1> HIDE DEF rate, before, after, average, new
<1>7. Rep!Least(Rep!Least(average, 500) + rate + after, 1000)
        >= Rep!Least(Rep!Least(rep.average, 500) + rate + before, 1000)
  BY <1>2, <1>3, <1>4 DEF Rep!Least
<1> QED
  BY <1>5, <1>6, <1>7 DEF new

(* A rating keeps the profile it is added to in shape. *)
LEMMA RatedInShape ==
    ASSUME NEW rep \in Profiles, Averaged(rep), NEW score \in 1..5
    PROVE  /\ Rep!Rated(rep, score) \in Profiles
           /\ Averaged(Rep!Rated(rep, score))
           /\ Rep!Rated(rep, score).points = rep.points + 500 =>
                Rep!Rated(rep, score) = Rep!Rated(rep, 5)
<1> DEFINE points == rep.points + score * 100
           count == rep.ratingCount + 1
<1>1. points \in Nat /\ count \in Nat /\ count > 0 /\ points <= 500 * count
  BY DEF Averaged
<1>2. points \div count \in Nat
  <2> HIDE DEF points, count
  <2> QED
    BY <1>1, SMTT(30)
<1>3. Rep!Rated(rep, score) = [rep EXCEPT !.points = points, !.ratingCount = count,
                                          !.average = points \div count]
  BY DEF Rep!Rated
<1> HIDE DEF points, count
<1>4. /\ Rep!Rated(rep, score) \in Profiles
      /\ Rep!Rated(rep, score).points = points /\ Rep!Rated(rep, score).ratingCount = count
      /\ Rep!Rated(rep, score).average = points \div count
      /\ Rep!Rated(rep, score).totalCompleted = rep.totalCompleted
      /\ Rep!Rated(rep, score).onTime = rep.onTime /\ Rep!Rated(rep, score).late = rep.late
      /\ Rep!Rated(rep, score).success = rep.success /\ Rep!Rated(rep, score).cancel = rep.cancel
      /\ Rep!Rated(rep, score).userType = rep.userType
  BY <1>1, <1>2, <1>3 DEF Profiles
<1>7. Averaged(Rep!Rated(rep, score))
  BY <1>1, <1>4 DEF Averaged
<1>5. Rep!Rated(rep, score).points = points
  BY <1>3 DEF Profiles
<1>6. points = rep.points + 500 => score = 5
  BY DEF Averaged, points
<1> QED
  BY <1>4, <1>5, <1>6, <1>7

Recounted(rep, t, n, new) ==
    \/ new = [rep EXCEPT !.totalCompleted = t, !.onTime = n]
    \/ new = [rep EXCEPT !.totalCompleted = t, !.late = n]
    \/ new = [rep EXCEPT !.totalCompleted = t, !.success = n]
    \/ new = [rep EXCEPT !.totalCompleted = t, !.cancel = n]

LEMMA CountersSet ==
    ASSUME NEW rep \in Profiles, NEW t \in Nat, NEW n \in Nat, NEW new, Recounted(rep, t, n, new)
    PROVE  /\ new \in Profiles
           /\ new.points = rep.points /\ new.ratingCount = rep.ratingCount
           /\ new.average = rep.average /\ new.userType = rep.userType
<1>1. CASE new = [rep EXCEPT !.totalCompleted = t, !.onTime = n]
  BY <1>1 DEF Profiles
<1>2. CASE new = [rep EXCEPT !.totalCompleted = t, !.late = n]
  BY <1>2 DEF Profiles
<1>3. CASE new = [rep EXCEPT !.totalCompleted = t, !.success = n]
  BY <1>3 DEF Profiles
<1>4. CASE new = [rep EXCEPT !.totalCompleted = t, !.cancel = n]
  BY <1>4 DEF Profiles
<1> QED
  BY <1>1, <1>2, <1>3, <1>4 DEF Recounted

LEMMA CompletedInShape ==
    ASSUME NEW rep \in Profiles, Averaged(rep), NEW x \in BOOLEAN, NEW y \in BOOLEAN
    PROVE  /\ Rep!Completed(rep, x, y) \in Profiles
           /\ Averaged(Rep!Completed(rep, x, y))
           /\ Rep!Completed(rep, x, y).ratingCount = rep.ratingCount
           /\ Rep!Completed(rep, x, y).points = rep.points
<1> DEFINE new == Rep!Completed(rep, x, y)
           t == rep.totalCompleted + 1
<1>1. t \in Nat
  BY DEF Averaged
<1>2. PICK n \in Nat : Recounted(rep, t, n, new)
  <2>1. /\ rep.onTime + 1 \in Nat /\ rep.late + 1 \in Nat
        /\ rep.success + 1 \in Nat /\ rep.cancel + 1 \in Nat
    BY DEF Averaged
  <2>2. CASE rep.userType = "Carrier"
    <3>1. \/ new = [rep EXCEPT !.totalCompleted = t, !.onTime = rep.onTime + 1]
          \/ new = [rep EXCEPT !.totalCompleted = t, !.late = rep.late + 1]
      BY <2>2, Zenon DEF Rep!Completed
    <3> QED
      BY <2>1, <3>1, Zenon DEF Recounted
  <2>3. CASE rep.userType = "Shipper"
    <3>1. \/ new = [rep EXCEPT !.totalCompleted = t, !.success = rep.success + 1]
          \/ new = [rep EXCEPT !.totalCompleted = t, !.cancel = rep.cancel + 1]
      BY <2>3, Zenon DEF Rep!Completed
    <3> QED
      BY <2>1, <3>1, Zenon DEF Recounted
  <2> QED
    BY <2>2, <2>3 DEF Averaged
<1> HIDE DEF new, t
<1>3. /\ new \in Profiles
      /\ new.points = rep.points /\ new.ratingCount = rep.ratingCount
      /\ new.average = rep.average /\ new.userType = rep.userType
  BY <1>1, <1>2, CountersSet
<1> QED
  BY <1>3 DEF Profiles, Averaged, new

FiveStarsHelp ==
    \A u \in Accounts :
      /\ Rep!Registered(u)
      /\ reputations'[u].ratingCount = reputations[u].ratingCount + 1
      /\ reputations'[u].points = reputations[u].points + 500
      => Rep!ScoreOf(reputations'[u]) >= Rep!ScoreOf(reputations[u])

LEMMA UnregisteredIsNoProfile == Rep!Unregistered \notin Profiles
  BY DEF Rep!Unregistered, Profiles

LEMMA RatingStep ==
    ASSUME RepInv, NEW rater \in Accounts, NEW s \in ShipmentNumbers, NEW rated \in Accounts,
           NEW score, Rep!SubmitRating(rater, s, rated, score)
    PROVE  RepInv' /\ FiveStarsHelp
<1>1. score \in 1..5 /\ reputations[rated] \in Profiles /\ Averaged(reputations[rated])
  BY DEF Rep!SubmitRating, Rep!Registered, RepInv
<1>2. reputations' = [reputations EXCEPT ![rated] = Rep!Rated(@, score)]
  BY DEF Rep!SubmitRating
<1> DEFINE new == Rep!Rated(reputations[rated], score)
<1>3. /\ new \in Profiles /\ Averaged(new)
      /\ new.points = reputations[rated].points + 500 => new = Rep!Rated(reputations[rated], 5)
  BY <1>1, RatedInShape
<1>4. Rep!ScoreOf(Rep!Rated(reputations[rated], 5)) >= Rep!ScoreOf(reputations[rated])
  BY <1>1, FiveStarsRaise
<1> HIDE DEF new
<1>5. /\ reputations'[rated] = new
      /\ \A u \in Accounts \ {rated} : reputations'[u] = reputations[u]
      /\ reputations' \in [Accounts -> Profiles \cup {Rep!Unregistered}]
  BY <1>2, <1>3 DEF RepInv, new
<1>6. RepInv'
  BY <1>3, <1>5 DEF RepInv, Rep!Registered
<1>7. ASSUME NEW u \in Accounts \ {rated}, Rep!Registered(u)
      PROVE  reputations'[u].ratingCount # reputations[u].ratingCount + 1
  BY <1>5, <1>7 DEF RepInv, Averaged
<1> QED
  BY <1>3, <1>4, <1>5, <1>6, <1>7 DEF FiveStarsHelp

LEMMA OtherStep ==
    ASSUME RepInv,
           reputations' \in [Accounts -> Profiles \cup {Rep!Unregistered}],
           \A u \in Accounts :
             reputations'[u] # reputations[u] =>
               /\ reputations'[u] \in Profiles => Averaged(reputations'[u])
               /\ Rep!Registered(u) => reputations'[u].ratingCount = reputations[u].ratingCount
    PROVE  RepInv' /\ FiveStarsHelp
<1>1. RepInv'
  BY UnregisteredIsNoProfile DEF RepInv, Rep!Registered
<1>2. \A u \in Accounts : Rep!Registered(u) =>
        reputations'[u].ratingCount # reputations[u].ratingCount + 1
  BY DEF RepInv, Averaged
<1> QED
  BY <1>1, <1>2 DEF FiveStarsHelp

LEMMA RepStep ==
    ASSUME RepInv, Rep!Next
    PROVE  RepInv' /\ FiveStarsHelp
<1>1. PICK a \in Accounts, b \in Accounts :
        \/ Rep!Initialize(a, b)
        \/ \E type \in Rep!UserTypes : a = b /\ Rep!RegisterUser(a, type)
        \/ \E s \in ShipmentNumbers, score \in Scores : Rep!SubmitRating(a, s, b, score)
        \/ \E x, y \in BOOLEAN : Rep!UpdateStats(a, b, x, y)
  BY DEF Rep!Next
<1>2. CASE Rep!Initialize(a, b)
  <2>1. reputations' = reputations
    BY <1>2 DEF Rep!Initialize
  <2> QED
    BY <2>1, OtherStep DEF RepInv
<1>3. ASSUME NEW type \in Rep!UserTypes, Rep!RegisterUser(a, type) PROVE RepInv' /\ FiveStarsHelp
  <2> DEFINE new == Rep!NewReputation(type)
  <2>1. new \in Profiles /\ Averaged(new)
    BY DEF Rep!NewReputation, Rep!UserTypes, Profiles, Averaged
  <2>2. reputations' = [reputations EXCEPT ![a] = new] /\ ~Rep!Registered(a)
    BY <1>3 DEF Rep!RegisterUser
  <2> HIDE DEF new
  <2>3. /\ reputations' \in [Accounts -> Profiles \cup {Rep!Unregistered}]
        /\ reputations'[a] = new
        /\ \A u \in Accounts \ {a} : reputations'[u] = reputations[u]
    BY <2>1, <2>2 DEF RepInv
  <2> QED
    BY <2>1, <2>2, <2>3, OtherStep
<1>4. ASSUME NEW s \in ShipmentNumbers, NEW score \in Scores, Rep!SubmitRating(a, s, b, score)
      PROVE  RepInv' /\ FiveStarsHelp
  BY <1>4, RatingStep
<1>5. ASSUME NEW x \in BOOLEAN, NEW y \in BOOLEAN, Rep!UpdateStats(a, b, x, y)
      PROVE  RepInv' /\ FiveStarsHelp
  <2> DEFINE new == Rep!Completed(reputations[b], x, y)
  <2>1. reputations[b] \in Profiles /\ Averaged(reputations[b])
    BY <1>5 DEF Rep!UpdateStats, Rep!Registered, RepInv
  <2>2. new \in Profiles /\ Averaged(new) /\ new.ratingCount = reputations[b].ratingCount
    BY <2>1, CompletedInShape
  <2>3. reputations' = [reputations EXCEPT ![b] = new]
    BY <1>5 DEF Rep!UpdateStats
  <2> HIDE DEF new
  <2>4. /\ reputations' \in [Accounts -> Profiles \cup {Rep!Unregistered}]
        /\ reputations'[b] = new
        /\ \A u \in Accounts \ {b} : reputations'[u] = reputations[u]
    BY <2>2, <2>3 DEF RepInv
  <2> QED
    BY <2>2, <2>4, OtherStep
<1> QED
  BY <1>1, <1>2, <1>3, <1>4, <1>5

(* A rating of five stars never lowers the composite score of the account  *)
(* it is given to, for any ratings, completions and scores tried.          *)
THEOREM FiveStarsNeverHurt == ContractsSpec => BestRatingNeverHurts
<1>1. AnyInit => RepInv
  BY DEF AnyInit, Rep!Init, RepInv, Rep!Registered
<1>2. RepInv /\ [AnyNext]_contractsVars => RepInv' /\ (FiveStarsHelp \/ reputations' = reputations)
  <2> SUFFICES ASSUME RepInv, [AnyNext]_contractsVars
               PROVE  RepInv' /\ (FiveStarsHelp \/ reputations' = reputations)
    OBVIOUS
  <2>1. CASE Rep!Next
    BY <2>1, RepStep
  <2>2. CASE reputations' = reputations
    BY <2>2 DEF RepInv, Rep!Registered
  <2> QED
    BY <2>1, <2>2 DEF AnyNext, contractsVars, reputationVars, Rep!DeployedNext
<1>3. RepInv /\ [AnyNext]_contractsVars => FiveStarsHelp
  <2> SUFFICES ASSUME RepInv, [AnyNext]_contractsVars PROVE FiveStarsHelp
    OBVIOUS
  <2>1. CASE FiveStarsHelp
    BY <2>1
  <2>2. CASE reputations' = reputations
    BY <2>2, OtherStep DEF RepInv
  <2> QED
    BY <1>2, <2>1, <2>2
<1> QED
  BY <1>1, <1>2, <1>3, PTL
     DEF ContractsSpec, BestRatingNeverHurts, Rep!BestRatingNeverHurts, FiveStarsHelp

-----------------------------------------------------------------------------
(* The reputation contract: profiles sum up the rating records.            *)

RatingRecords ==
    [shipment : ShipmentNumbers, rater : Accounts, rated : Accounts, score : 1..5]

PointsGiven == [id \in Rep!Ids |-> ratings[id].score * 100]

SummedUp(u) ==
    /\ reputations[u].ratingCount = Cardinality(Rep!RatingsOf(u))
    /\ reputations[u].points = SumOf(PointsGiven, Rep!RatingsOf(u))

(* A rating is of somebody registered, and whoever gave it is among the    *)
(* raters of its shipment, which keeps him from giving another.  The       *)
(* counter is set to 0 by initialize, when nothing has been rated yet.     *)
RatingsKept ==
    /\ ratingCounter \in 0..MaxRatings
    /\ admin = NoAdmin => ratingCounter = 0
    /\ ratings \in [Rep!Ids -> RatingRecords \cup {Rep!NotRated}]
    /\ raters \in [ShipmentNumbers -> SUBSET Accounts]
    /\ \A id \in 1..ratingCounter :
          /\ ratings[id] \in RatingRecords
          /\ Rep!Registered(ratings[id].rated)
          /\ ratings[id].rater \in raters[ratings[id].shipment]
    /\ \A i, j \in 1..ratingCounter :
          ratings[i].rater = ratings[j].rater /\ ratings[i].shipment = ratings[j].shipment => i = j

Ledger == RepInv /\ RatingsKept /\ \A u \in Accounts : Rep!Registered(u) => SummedUp(u)

LEMMA RatingsOfFinite ==
    ASSUME RatingsKept, NEW u
    PROVE  /\ IsFiniteSet(Rep!RatingsOf(u))
           /\ \A id \in Rep!RatingsOf(u) : id \in Rep!Ids /\ PointsGiven[id] \in Int
<1>1. IsFiniteSet(1..ratingCounter)
  BY FS_Interval DEF RatingsKept
<1>2. Rep!RatingsOf(u) \in SUBSET (1..ratingCounter)
  BY DEF Rep!RatingsOf
<1>3. \A id \in 1..ratingCounter : id \in Rep!Ids /\ ratings[id].score \in 1..5
  BY RatingsAssumption DEF RatingsKept, Rep!Ids, RatingRecords
<1>4. IsFiniteSet(Rep!RatingsOf(u))
  BY <1>1, <1>2, FS_Subset
<1>5. ASSUME NEW id \in Rep!RatingsOf(u) PROVE id \in Rep!Ids /\ PointsGiven[id] \in Int
  <2>1. id \in Rep!Ids /\ ratings[id].score \in Int
    BY <1>2, <1>3
  <2> QED
    BY <2>1 DEF PointsGiven
<1> QED
  BY <1>4, <1>5

(* The sum that RatingsAddUp speaks of is one of a function's values. *)
LEMMA SumOfPoints ==
    ASSUME RatingsKept, NEW u
    PROVE  MapThenSumSet(Rep!PointsOf, Rep!RatingsOf(u)) = SumOf(PointsGiven, Rep!RatingsOf(u))
<1> DEFINE S == Rep!RatingsOf(u)
           Rec(g) == g = [s \in SUBSET S |-> IF s = {} THEN 0
                                            ELSE Rep!PointsOf(Pick(s)) + g[s \ {Pick(s)}]]
           g == CHOOSE g : Rec(g)
<1>1. MapThenSumSet(Rep!PointsOf, S) = g[S]
  BY Zenon DEF MapThenSumSet, MapThenFoldSet, Pick
<1>2. IsFiniteSet(S) /\ \A id \in S : PointsGiven[id] = Rep!PointsOf(id)
  BY RatingsOfFinite DEF PointsGiven, Rep!PointsOf
<1> HIDE DEF S
<1>3. \A h : Rec(h) <=> IsSum(h, PointsGiven, S)
  <2>1. \A s \in SUBSET S : s # {} => PointsGiven[Pick(s)] = Rep!PointsOf(Pick(s))
    BY <1>2, PickIn
  <2> QED
    BY <2>1 DEF IsSum
<1>4. IsSum(g, PointsGiven, S)
  <2>1. \E h : Rec(h)
    BY <1>2, <1>3, SumExists
  <2> HIDE DEF Rec
  <2>2. Rec(g)
    BY <2>1
  <2> QED
    BY <1>3, <2>2
<1> HIDE DEF g
<1> QED
  BY <1>1, <1>2, <1>4, SumIs DEF S

(* Reputation brings its own copies of two operators of the library. *)
LEMMA LibraryShared ==
    /\ \A S : Rep!Cardinality(S) = Cardinality(S)
    /\ \A S : Rep!MapThenSumSet(Rep!PointsOf, S) = MapThenSumSet(Rep!PointsOf, S)
<1>1. \A S : Rep!Cardinality(S) = Cardinality(S)
  BY Zenon DEF Rep!Cardinality, Cardinality
<1>2. \A S : Rep!MapThenSumSet(Rep!PointsOf, S) = MapThenSumSet(Rep!PointsOf, S)
  BY Zenon DEF Rep!MapThenSumSet, Rep!MapThenFoldSet, MapThenSumSet, MapThenFoldSet
<1> QED
  BY <1>1, <1>2

LEMMA LedgerHolds == ASSUME Ledger PROVE Rep!RatingsAddUp
<1>1. ASSUME NEW u \in Accounts, Rep!Registered(u)
      PROVE  LET count == Rep!Cardinality(Rep!RatingsOf(u))
                 points == Rep!MapThenSumSet(Rep!PointsOf, Rep!RatingsOf(u))
             IN  /\ reputations[u].ratingCount = count
                 /\ reputations[u].points = points
                 /\ count > 0 => reputations[u].average = points \div count
  <2>1. SummedUp(u) /\ Averaged(reputations[u])
    BY <1>1 DEF Ledger, RepInv
  <2>2. MapThenSumSet(Rep!PointsOf, Rep!RatingsOf(u)) = SumOf(PointsGiven, Rep!RatingsOf(u))
    BY SumOfPoints DEF Ledger
  <2> QED
    BY <2>1, <2>2, LibraryShared DEF SummedUp, Averaged
<1>2. \A i, j \in 1..ratingCounter :
         ratings[i].rater = ratings[j].rater /\ ratings[i].shipment = ratings[j].shipment => i = j
  BY DEF Ledger, RatingsKept
<1> QED
  BY <1>1, <1>2 DEF Rep!RatingsAddUp

(* A step that adds no rating: it starts profiles at zero and leaves the   *)
(* ratings in the others alone.                                            *)
LEMMA ProfilesChange ==
    ASSUME Ledger, RepInv', UNCHANGED <<ratingCounter, ratings, raters>>,
           admin' # NoAdmin \/ ratingCounter = 0,
           \A u \in Accounts : Rep!Registered(u) =>
               /\ Rep!Registered(u)'
               /\ reputations'[u].ratingCount = reputations[u].ratingCount
               /\ reputations'[u].points = reputations[u].points,
           \A u \in Accounts : ~Rep!Registered(u) /\ Rep!Registered(u)' =>
               reputations'[u].ratingCount = 0 /\ reputations'[u].points = 0
    PROVE  Ledger'
<1>1. RatingsKept'
  BY DEF Ledger, RatingsKept, Rep!Registered, RatingRecords
<1>2. ASSUME NEW u \in Accounts
      PROVE  Rep!RatingsOf(u)' = Rep!RatingsOf(u) /\ PointsGiven' = PointsGiven
  BY DEF Rep!RatingsOf, PointsGiven
<1>3. ASSUME NEW u \in Accounts, Rep!Registered(u) PROVE SummedUp(u)'
  BY <1>2, <1>3 DEF Ledger, SummedUp
<1>4. ASSUME NEW u \in Accounts, ~Rep!Registered(u), Rep!Registered(u)' PROVE SummedUp(u)'
  <2>1. Rep!RatingsOf(u) = {}
    BY <1>4 DEF Ledger, RatingsKept, Rep!RatingsOf
  <2>2. Cardinality({}) = 0 /\ SumOf(PointsGiven, {}) = 0
    BY FS_EmptySet, SumStep
  <2> QED
    BY <1>2, <1>4, <2>1, <2>2 DEF SummedUp
<1> QED
  BY <1>1, <1>3, <1>4 DEF Ledger

LEMMA RatedCounts ==
    ASSUME NEW rep \in Profiles, NEW score
    PROVE  /\ Rep!Rated(rep, score).ratingCount = rep.ratingCount + 1
           /\ Rep!Rated(rep, score).points = rep.points + score * 100
  BY DEF Rep!Rated, Profiles

(* A rating adds its record to those of the account it names, and to no    *)
(* others'.                                                                *)
LEMMA RatingAdds ==
    ASSUME Ledger, RepInv', NEW rater \in Accounts, NEW s \in ShipmentNumbers,
           NEW rated \in Accounts, NEW score, Rep!SubmitRating(rater, s, rated, score),
           admin # NoAdmin
    PROVE  Ledger'
<1> DEFINE n == ratingCounter + 1
           record == [shipment |-> s, rater |-> rater, rated |-> rated, score |-> score]
<1>1. /\ score \in 1..5 /\ rater \notin raters[s] /\ Rep!Registered(rated)
      /\ ratingCounter < MaxRatings /\ ratingCounter' = n
      /\ ratings' = [ratings EXCEPT ![n] = record]
      /\ raters' = [raters EXCEPT ![s] = @ \cup {rater}]
      /\ reputations' = [reputations EXCEPT ![rated] = Rep!Rated(@, score)]
      /\ admin' = admin
  BY DEF Rep!SubmitRating, Rep!HasRated, Rep!NextRatingId, Rep!RatingRecord
<1>2. ratingCounter \in Nat /\ n \in Rep!Ids /\ n \notin 1..ratingCounter
      /\ 1..n = (1..ratingCounter) \cup {n}
  BY <1>1, RatingsAssumption DEF Ledger, RatingsKept, Rep!Ids
<1>3. record \in RatingRecords
  BY <1>1 DEF RatingRecords
<1>4. /\ ratings'[n] = record
      /\ \A id \in 1..ratingCounter : ratings'[id] = ratings[id]
  BY <1>1, <1>2 DEF Ledger, RatingsKept
<1> DEFINE new == Rep!Rated(reputations[rated], score)
<1>5. /\ reputations[rated] \in Profiles
      /\ new \in Profiles
      /\ new.ratingCount = reputations[rated].ratingCount + 1
      /\ new.points = reputations[rated].points + score * 100
  BY <1>1, RatedInShape, RatedCounts DEF Ledger, RepInv, Rep!Registered
<1>6. /\ reputations'[rated] = new
      /\ \A u \in Accounts \ {rated} : reputations'[u] = reputations[u]
  BY <1>1 DEF Ledger, RepInv
<1> HIDE DEF new, record
<1>7. \A u \in Accounts : Rep!Registered(u)' <=> Rep!Registered(u)
  BY <1>1, <1>5, <1>6, UnregisteredIsNoProfile DEF Rep!Registered
<1>8. RatingsKept'
  <2>1. ratingCounter' \in 0..MaxRatings
    BY <1>1, <1>2, RatingsAssumption
  <2>2. admin' # NoAdmin
    BY <1>1
  <2>3. ratings' \in [Rep!Ids -> RatingRecords \cup {Rep!NotRated}]
    BY <1>1, <1>3 DEF Ledger, RatingsKept
  <2>4. /\ raters' \in [ShipmentNumbers -> SUBSET Accounts]
        /\ rater \in raters'[s]
        /\ \A x \in ShipmentNumbers : raters[x] \subseteq raters'[x]
    BY <1>1 DEF Ledger, RatingsKept
  <2>5. record.rated = rated /\ record.rater = rater /\ record.shipment = s
    BY DEF record
  <2>6. ASSUME NEW id \in 1..n
        PROVE  /\ ratings'[id] \in RatingRecords
               /\ Rep!Registered(ratings[id].rated)'
               /\ ratings'[id].rater \in raters'[ratings'[id].shipment]
    <3>1. CASE id = n
      BY <1>1, <1>3, <1>4, <1>7, <2>4, <2>5, <3>1
    <3>2. CASE id \in 1..ratingCounter
      <4>1. /\ ratings[id] \in RatingRecords /\ Rep!Registered(ratings[id].rated)
            /\ ratings[id].rater \in raters[ratings[id].shipment]
        BY <3>2 DEF Ledger, RatingsKept
      <4>2. ratings[id].rated \in Accounts /\ ratings[id].shipment \in ShipmentNumbers
        BY <4>1 DEF RatingRecords
      <4> QED
        BY <1>4, <1>7, <2>4, <3>2, <4>1, <4>2
    <3> QED
      BY <1>2, <3>1, <3>2
  <2>7. ASSUME NEW i \in 1..ratingCounter, ratings[i].shipment = s PROVE ratings[i].rater # rater
    BY <1>1, <2>7 DEF Ledger, RatingsKept
  <2>8. ASSUME NEW i \in 1..n, NEW j \in 1..n, ratings'[i].rater = ratings'[j].rater,
               ratings'[i].shipment = ratings'[j].shipment
        PROVE  i = j
    BY <1>2, <1>4, <2>5, <2>7, <2>8 DEF Ledger, RatingsKept
  <2> QED
    BY <1>1, <2>1, <2>2, <2>3, <2>4, <2>6, <2>8 DEF RatingsKept
<1>9. ASSUME NEW u \in Accounts \ {rated}, Rep!Registered(u)' PROVE SummedUp(u)'
  <2>1. Rep!RatingsOf(u)' = Rep!RatingsOf(u)
    BY <1>1, <1>2, <1>4 DEF Rep!RatingsOf, record
  <2>2. \A id \in Rep!RatingsOf(u) : PointsGiven'[id] = PointsGiven[id]
    <3>1. \A id \in Rep!RatingsOf(u) : id \in Rep!Ids /\ ratings'[id] = ratings[id]
      BY <1>4, RatingsOfFinite DEF Ledger, Rep!RatingsOf
    <3> QED
      BY <3>1 DEF PointsGiven
  <2>3. IsFiniteSet(Rep!RatingsOf(u))
    BY RatingsOfFinite DEF Ledger
  <2> DEFINE before == PointsGiven
             after == PointsGiven'
             S == Rep!RatingsOf(u)
  <2> HIDE DEF before, after, S
  <2>4. \A id \in S : after[id] = before[id]
    BY <2>2 DEF before, after, S
  <2>5. SumOf(after, S) = SumOf(before, S)
    BY <2>3, <2>4, SumSame DEF S
  <2>6. SumOf(PointsGiven', Rep!RatingsOf(u)) = SumOf(PointsGiven, Rep!RatingsOf(u))
    BY <2>5 DEF before, after, S
  <2>7. SummedUp(u)
    BY <1>7, <1>9 DEF Ledger
  <2> QED
    BY <1>6, <2>1, <2>6, <2>7 DEF SummedUp
<1>10. SummedUp(rated)'
  <2> DEFINE before == PointsGiven
             after == PointsGiven'
             S == Rep!RatingsOf(rated)
  <2>1. Rep!RatingsOf(rated)' = S \cup {n} /\ n \notin S
    BY <1>1, <1>2, <1>4 DEF Rep!RatingsOf, record
  <2>2. \A id \in S : id \in Rep!Ids /\ before[id] \in Int /\ after[id] = before[id]
    <3>1. \A id \in S : id \in Rep!Ids /\ before[id] \in Int
      BY RatingsOfFinite DEF Ledger
    <3>2. \A id \in S : after[id] = before[id]
      BY <1>4, <3>1 DEF Rep!RatingsOf, PointsGiven
    <3> QED
      BY <3>1, <3>2
  <2>3. after[n] = score * 100 /\ after[n] \in Int
    BY <1>1, <1>2, <1>4 DEF PointsGiven, record
  <2>4. IsFiniteSet(S)
    BY RatingsOfFinite DEF Ledger
  <2>5. SummedUp(rated)
    BY <1>1 DEF Ledger
  <2> HIDE DEF before, after, S
  <2>6. Cardinality(S \cup {n}) = Cardinality(S) + 1
    BY <2>1, <2>4, FS_AddElement
  <2>7. \A x \in S \cup {n} : after[x] \in Int
    BY <2>2, <2>3
  <2>8. SumOf(after, S \cup {n}) = SumOf(after, S) + after[n]
    BY <2>1, <2>4, <2>7, SumExtended
  <2>9. SumOf(after, S) = SumOf(before, S)
    BY <2>2, <2>4, SumSame
  <2>10. SumOf(after, S \cup {n}) = reputations'[rated].points
    BY <1>5, <1>6, <2>3, <2>5, <2>8, <2>9 DEF SummedUp, before, S
  <2>11. Cardinality(S \cup {n}) = reputations'[rated].ratingCount
    BY <1>5, <1>6, <2>5, <2>6 DEF SummedUp, S
  <2> QED
    BY <2>1, <2>10, <2>11 DEF SummedUp, after
<1> QED
  BY <1>8, <1>9, <1>10 DEF Ledger

LEMMA LedgerStep == ASSUME Ledger, Rep!DeployedNext PROVE Ledger'
<1>0. RepInv' /\ RepInv
  BY RepStep DEF Ledger, Rep!DeployedNext
<1>1. PICK a \in Accounts, b \in Accounts :
        \/ Rep!Initialize(a, b)
        \/ \E type \in Rep!UserTypes : a = b /\ Rep!RegisterUser(a, type)
        \/ \E s \in ShipmentNumbers, score \in Scores : Rep!SubmitRating(a, s, b, score)
        \/ \E x, y \in BOOLEAN : Rep!UpdateStats(a, b, x, y)
  BY DEF Rep!Next, Rep!DeployedNext
<1>2. CASE Rep!Initialize(a, b)
  <2>1. UNCHANGED <<ratingCounter, ratings, raters, reputations>> /\ ratingCounter = 0
    BY <1>2 DEF Rep!Initialize, Ledger, RatingsKept
  <2> QED
    BY <1>0, <2>1, ProfilesChange DEF Rep!Registered
<1>3. ASSUME NEW type \in Rep!UserTypes, Rep!RegisterUser(a, type) PROVE Ledger'
  <2> DEFINE new == Rep!NewReputation(type)
  <2>1. new.ratingCount = 0 /\ new.points = 0
    BY DEF Rep!NewReputation
  <2>2. /\ reputations' = [reputations EXCEPT ![a] = new] /\ ~Rep!Registered(a)
        /\ UNCHANGED <<admin, ratingCounter, ratings, raters>>
    BY <1>3 DEF Rep!RegisterUser
  <2> HIDE DEF new
  <2>3. /\ reputations'[a] = new
        /\ \A u \in Accounts \ {a} : reputations'[u] = reputations[u]
    BY <1>0, <2>2 DEF RepInv
  <2>4. admin' # NoAdmin \/ ratingCounter = 0
    BY <2>2 DEF Ledger, RatingsKept
  <2> QED
    BY <1>0, <2>1, <2>2, <2>3, <2>4, ProfilesChange DEF Rep!Registered
<1>4. ASSUME NEW s \in ShipmentNumbers, NEW score \in Scores, Rep!SubmitRating(a, s, b, score)
      PROVE  Ledger'
  <2>1. admin # NoAdmin
    BY <1>4 DEF Rep!SubmitRating, Rep!DeployedNext
  <2> QED
    BY <1>0, <1>4, <2>1, RatingAdds
<1>5. ASSUME NEW x \in BOOLEAN, NEW y \in BOOLEAN, Rep!UpdateStats(a, b, x, y) PROVE Ledger'
  <2> DEFINE new == Rep!Completed(reputations[b], x, y)
  <2>1. reputations[b] \in Profiles /\ Averaged(reputations[b])
    BY <1>0, <1>5 DEF Rep!UpdateStats, Rep!Registered, RepInv
  <2>2. /\ new \in Profiles /\ new.ratingCount = reputations[b].ratingCount
        /\ new.points = reputations[b].points
    BY <2>1, CompletedInShape
  <2>3. /\ reputations' = [reputations EXCEPT ![b] = new] /\ admin # NoAdmin
        /\ UNCHANGED <<admin, ratingCounter, ratings, raters>>
    BY <1>5 DEF Rep!UpdateStats
  <2> HIDE DEF new
  <2>4. /\ reputations'[b] = new
        /\ \A u \in Accounts \ {b} : reputations'[u] = reputations[u]
    BY <1>0, <2>3 DEF RepInv
  <2> QED
    BY <1>0, <2>1, <2>2, <2>3, <2>4, ProfilesChange, UnregisteredIsNoProfile DEF Rep!Registered
<1> QED
  BY <1>1, <1>2, <1>3, <1>4, <1>5

(* Each profile sums up exactly the ratings that name its account, for any *)
(* accounts, shipments, scores and number of ratings.                      *)
THEOREM ProfilesAddUp == ContractsSpec => []RatingsAddUp
<1> DEFINE Inv == Ledger /\ (contract # "reputation" => ratingCounter = 0)
<1>1. AnyInit => Inv
  BY RatingsAssumption
     DEF AnyInit, Rep!Init, Rep!Registered, Ledger, RepInv, RatingsKept
<1>2. Inv /\ [AnyNext]_contractsVars => Inv'
  <2> SUFFICES ASSUME Inv, [AnyNext]_contractsVars PROVE Inv'
    OBVIOUS
  <2>1. CASE contract = "reputation" /\ contract' = contract /\ Rep!DeployedNext
    BY <2>1, LedgerStep
  <2>2. CASE UNCHANGED <<contract, reputationVars>>
             /\ (contract = "reputation" => admin' = admin)
    <3>1. RepInv'
      BY <2>2 DEF Ledger, RepInv, Rep!Registered, reputationVars
    <3>2. admin' # NoAdmin \/ ratingCounter = 0
      BY <2>2 DEF Ledger, RatingsKept
    <3> QED
      BY <2>2, <3>1, <3>2, ProfilesChange DEF Rep!Registered, reputationVars
  <2> QED
    BY <2>1, <2>2 DEF AnyNext, contractsVars
<1>3. Inv => RatingsAddUp
  BY LedgerHolds DEF RatingsAddUp
<1> QED
  BY <1>1, <1>2, <1>3, PTL DEF ContractsSpec
=============================================================================
