-------------------------- MODULE ShipmentsProofs ---------------------------
(***************************************************************************)
(* What the status handlers keep of a shipment, for any users and requests.*)
(*                                                                         *)
(* However handlers overlap, the row may go back to an earlier status, but *)
(* what is true of each entity that is about to be written survives: its   *)
(* status follows one the row has had (ReqSound).  With one request at a   *)
(* time the entity also is one step away from the row it replaces          *)
(* (Current), which gives the refinement of Lifecycle.                     *)
(***************************************************************************)
EXTENDS ShipmentPage, TLAPS, FiniteSetTheorems, SequenceTheorems

Reached(s) == s = "PENDING" \/ \E p \in visited : s \in NextStatuses[p]

EntitySound(e) == e \in Rows /\ e.status # "NONE" /\ Reached(e.status)

RowSound ==
    /\ shipment \in Rows
    /\ shipment.status # "NONE" => shipment.status \in visited

(* A request past its UPDATE has the status of its entity behind it.       *)
ReqSound(q) ==
    q # Idle =>
        /\ q \in Busy
        /\ EntitySound(q.entity)
        /\ q.op = "confirm" => q.entity.status = "COMPLETED"
        /\ q.pc = "write" /\ "status" \notin q.changed => q.entity.status \in visited
        /\ q.pc \in {"record", "release", "emit"} => q.entity.status \in visited
        /\ q.pc = "release" => q.op = "confirm"

ReleasesSound == releases \in Nat /\ (releases > 0 => "COMPLETED" \in visited)

IInv ==
    /\ RowSound
    /\ visited \subseteq Statuses
    /\ NoStatusSkipped
    /\ ReleasesSound
    /\ DOMAIN req = Requests
    /\ \A r \in Requests : ReqSound(req[r])

LEMMA StatusFacts ==
    /\ Statuses = {"NONE", "PENDING", "ACCEPTED", "IN_TRANSIT", "DELIVERED", "DISPUTED",
                   "COMPLETED", "CANCELLED"}
    /\ \A s \in Statuses : NextStatuses[s] \subseteq Statuses \ {"NONE", "PENDING"}
    /\ "ACCEPTED" \in NextStatuses["PENDING"]
    /\ NextStatuses["NONE"] = {} /\ NextStatuses["COMPLETED"] = {}
    /\ NextStatuses["CANCELLED"] = {}
    /\ NextStatuses["PENDING"] = {"ACCEPTED", "CANCELLED"}
    /\ NextStatuses["ACCEPTED"] = {"IN_TRANSIT", "CANCELLED"}
    /\ NextStatuses["IN_TRANSIT"] = {"DELIVERED", "DISPUTED"}
    /\ NextStatuses["DELIVERED"] = {"COMPLETED", "DISPUTED"}
    /\ NextStatuses["DISPUTED"] = {"COMPLETED", "CANCELLED"}
  BY DEF Statuses, NextStatuses

(* What a request was right about stays right as the row moves on. *)
LEMMA SoundStays ==
    ASSUME NEW q, ReqSound(q), visited \subseteq visited'
    PROVE  ReqSound(q)'
  BY DEF ReqSound, EntitySound, Reached

(* A step of one request that leaves it sound. *)
LEMMA StepOf ==
    ASSUME IInv, NEW r \in Requests, NEW q, req' = [req EXCEPT ![r] = q], ReqSound(q)',
           visited \subseteq visited', visited' \subseteq Statuses,
           RowSound', NoStatusSkipped', ReleasesSound'
    PROVE  IInv'
<1>1. DOMAIN req' = Requests
  BY DEF IInv
<1>2. ASSUME NEW s \in Requests PROVE ReqSound(req[s])'
  <2>1. CASE s = r
    <3>1. req'[s] = q
      BY <2>1 DEF IInv
    <3> QED
      BY <3>1 DEF ReqSound, EntitySound, Reached
  <2>2. CASE s # r
    <3>1. req'[s] = req[s] /\ ReqSound(req[s])
      BY <2>2 DEF IInv
    <3> QED
      BY <3>1 DEF ReqSound, EntitySound, Reached
  <2> QED
    BY <2>1, <2>2
<1> QED
  BY <1>1, <1>2 DEF IInv

Ops == {"create", "edit", "accept", "pickup", "deliver", "confirm", "cancel",
        "dispute", "resolve"}

(* Beginning a request keeps the invariant if its entity is sound. *)
LEMMA BeginKeeps ==
    ASSUME IInv, NEW r \in Requests, NEW op \in Ops, NEW from \in Statuses, NEW e,
           EntitySound(e), op = "confirm" => e.status = "COMPLETED",
           Begin(r, op, from, e)
    PROVE  IInv'
<1> DEFINE q == [pc |-> "save", op |-> op, from |-> from, entity |-> e, changed |-> {}]
<1>1. q \in Busy /\ q.entity = e /\ q.op = op /\ q.pc = "save"
  BY DEF Busy, EntitySound, Ops
<1>2. req' = [req EXCEPT ![r] = q] /\ UNCHANGED <<shipment, visited, releases>>
  BY DEF Begin
<1> HIDE DEF q
<1>3. ReqSound(q)
  BY <1>1 DEF ReqSound
<1>4. ReqSound(q)'
  BY <1>2, <1>3 DEF ReqSound, EntitySound, Reached
<1>5. RowSound' /\ NoStatusSkipped' /\ ReleasesSound' /\ visited' \subseteq Statuses
  BY <1>2 DEF IInv, RowSound, NoStatusSkipped, ReleasesSound
<1> QED
  BY <1>2, <1>4, <1>5, StepOf

(* A handler that moves the row it has read along the table.               *)
Transition(r, u, op, from, entity) ==
    /\ TransitionAllowed(shipment.status, entity.status, Role[u])
    /\ Begin(r, op, from, entity)

LEMMA MoveKeeps ==
    ASSUME IInv, NEW r \in Requests, NEW u \in Users, NEW op \in Ops,
           NEW from \in Statuses, NEW e \in Rows, op = "confirm" => e.status = "COMPLETED",
           Transition(r, u, op, from, e)
    PROVE  IInv'
<1>1. shipment.status \in Statuses
  BY DEF IInv, RowSound, Rows
<1>2. e.status \in NextStatuses[shipment.status] /\ Begin(r, op, from, e)
  BY DEF Transition, TransitionAllowed
<1>3. e.status # "NONE" /\ shipment.status # "NONE"
  BY <1>1, <1>2, StatusFacts
<1>4. EntitySound(e)
  BY <1>2, <1>3 DEF EntitySound, Reached, IInv, RowSound
<1> HIDE DEF IInv
<1> QED
  BY <1>2, <1>4, BeginKeeps

LEMMA MovedIsRow ==
    ASSUME IInv, NEW to \in Statuses
    PROVE  Moved(to) \in Rows /\ Moved(to).status = to /\ Moved(to).carrier = shipment.carrier
  BY DEF IInv, RowSound, Moved, Rows

LEMMA AcceptedIsRow ==
    ASSUME IInv, NEW u \in Users
    PROVE  /\ [Moved("ACCEPTED") EXCEPT !.carrier = u] \in Rows
           /\ [Moved("ACCEPTED") EXCEPT !.carrier = u].status = "ACCEPTED"
           /\ [Moved("ACCEPTED") EXCEPT !.carrier = u].carrier = u
  BY StatusFacts DEF IInv, RowSound, Moved, Rows

(* The status handlers, as moves of the row they have read. *)
LEMMA HandleMoves ==
    ASSUME IInv, NEW r \in Requests, Handle(r)
    PROVE  \/ Create(r)
           \/ Begin(r, "edit", "PENDING", shipment) /\ shipment.status = "PENDING"
           \/ \E u \in Users :
                 /\ Role[u] \in {"carrier", "admin"}
                 /\ Transition(r, u, "accept", "PENDING", [Moved("ACCEPTED") EXCEPT !.carrier = u])
           \/ \E u \in Users, op \in Ops \ {"edit"}, from \in Statuses, to \in Statuses \ {"ACCEPTED"} :
                 /\ op = "confirm" => to = "COMPLETED"
                 /\ Transition(r, u, op, from, Moved(to))
<1> DEFINE Moves(u) ==
      \E op \in Ops \ {"edit"}, from \in Statuses, to \in Statuses \ {"ACCEPTED"} :
        (op = "confirm" => to = "COMPLETED") /\ Transition(r, u, op, from, Moved(to))
<1>0. shipment.status \in Statuses
  BY DEF IInv, RowSound, Rows
<1>t. ASSUME NEW u \in Users, NEW op \in Ops \ {"edit"}, NEW from \in Statuses,
             NEW to \in Statuses \ {"ACCEPTED"}, op = "confirm" => to = "COMPLETED",
             Allowed(u, to), Begin(r, op, from, Moved(to))
      PROVE  Moves(u)
  BY <1>t, MovedIsRow DEF Transition, Allowed
<1> HIDE DEF Moves
<1>1. ASSUME NEW u \in Users, MarkInTransit(r, u) PROVE Moves(u)
  BY <1>1, <1>t, StatusFacts DEF MarkInTransit, MayMarkInTransit, Ops
<1>2. ASSUME NEW u \in Users, MarkDelivered(r, u) PROVE Moves(u)
  BY <1>2, <1>t, StatusFacts DEF MarkDelivered, MayMarkDelivered, Ops
<1>3. ASSUME NEW u \in Users, ConfirmDelivery(r, u) PROVE Moves(u)
  BY <1>3, <1>t, StatusFacts DEF ConfirmDelivery, MayConfirmDelivery, Ops
<1>4. ASSUME NEW u \in Users, Cancel(r, u) PROVE Moves(u)
  BY <1>0, <1>4, <1>t, StatusFacts DEF Cancel, MayCancel, Ops
<1>5. ASSUME NEW u \in Users, RaiseDispute(r, u) PROVE Moves(u)
  BY <1>0, <1>5, <1>t, StatusFacts DEF RaiseDispute, MayRaiseDispute, Ops
<1>6. ASSUME NEW u \in Users, ResolveDispute(r, u) PROVE Moves(u)
  <2>1. PICK to \in {"COMPLETED", "CANCELLED"} :
          Allowed(u, to) /\ Begin(r, "resolve", "DISPUTED", Moved(to))
    BY <1>6 DEF ResolveDispute, MayResolveDispute
  <2>2. "resolve" \in Ops \ {"edit"} /\ "DISPUTED" \in Statuses /\ to \in Statuses \ {"ACCEPTED"}
    BY StatusFacts DEF Ops
  <2> QED
    BY <2>1, <2>2, <1>t
<1>7. ASSUME NEW u \in Users, Accept(r, u)
      PROVE  /\ Role[u] \in {"carrier", "admin"}
             /\ Transition(r, u, "accept", "PENDING", [Moved("ACCEPTED") EXCEPT !.carrier = u])
  BY <1>7, AcceptedIsRow DEF Accept, MayAccept, Allowed, Transition
<1>8. ASSUME NEW u \in Users, Edit(r, u)
      PROVE  Begin(r, "edit", "PENDING", shipment) /\ shipment.status = "PENDING"
  BY <1>8 DEF Edit, MayEdit
<1> QED
  BY <1>1, <1>2, <1>3, <1>4, <1>5, <1>6, <1>7, <1>8 DEF Handle, Moves

LEMMA HandleKeeps ==
    ASSUME IInv, NEW r \in Requests, Handle(r) PROVE IInv'
<1>1. CASE Create(r)
  <2>1. Moved("PENDING") \in Rows /\ Moved("PENDING").status = "PENDING"
    BY MovedIsRow, StatusFacts
  <2>2. EntitySound(Moved("PENDING"))
    BY <2>1 DEF EntitySound, Reached
  <2>3. "NONE" \in Statuses /\ "create" \in Ops /\ Begin(r, "create", "NONE", Moved("PENDING"))
    BY <1>1, StatusFacts DEF Create, Ops
  <2> QED
    BY <2>2, <2>3, BeginKeeps
<1>2. CASE Begin(r, "edit", "PENDING", shipment) /\ shipment.status = "PENDING"
  <2>1. EntitySound(shipment) /\ "PENDING" \in Statuses /\ "edit" \in Ops
    BY <1>2, StatusFacts DEF EntitySound, Reached, IInv, RowSound, Ops
  <2> QED
    BY <1>2, <2>1, BeginKeeps
<1>3. ASSUME NEW u \in Users,
             Transition(r, u, "accept", "PENDING", [Moved("ACCEPTED") EXCEPT !.carrier = u])
      PROVE  IInv'
  <2>1. "PENDING" \in Statuses /\ "accept" \in Ops
    BY StatusFacts DEF Ops
  <2> QED
    BY <1>3, <2>1, AcceptedIsRow, MoveKeeps
<1>4. ASSUME NEW u \in Users, NEW op \in Ops, NEW from \in Statuses,
             NEW to \in Statuses \ {"ACCEPTED"}, op = "confirm" => to = "COMPLETED",
             Transition(r, u, op, from, Moved(to))
      PROVE  IInv'
  BY <1>4, MovedIsRow, MoveKeeps
<1> QED
  BY <1>1, <1>2, <1>3, <1>4, HandleMoves

-----------------------------------------------------------------------------
LEMMA CompareKeeps ==
    ASSUME IInv, NEW r \in Requests, Compare(r) PROVE IInv'
<1> DEFINE changed == {c \in {"status", "carrier"} : req[r].entity[c] # shipment[c]}
           q == [req[r] EXCEPT !.pc = "write", !.changed = changed]
<1>1. req[r] # Idle /\ ReqSound(req[r]) /\ req[r] \in Busy
  BY DEF IInv, ReqSound, Compare, Idle
<1>2. req' = [req EXCEPT ![r] = q] /\ UNCHANGED <<shipment, visited, releases>>
  BY DEF Compare
<1>3. q \in Busy /\ q.entity = req[r].entity /\ q.op = req[r].op /\ q.pc = "write"
      /\ q.changed = changed
  BY <1>1 DEF Busy
<1>4. "status" \notin changed => req[r].entity.status = shipment.status
  BY <1>1 DEF ReqSound, EntitySound, Rows
<1> HIDE DEF q, changed
<1>5. ReqSound(q)
  BY <1>1, <1>3, <1>4 DEF ReqSound, EntitySound, IInv, RowSound
<1>6. PICK p : p = q
  OBVIOUS
<1>7. ReqSound(p)'
  BY <1>2, <1>5, <1>6 DEF ReqSound, EntitySound, Reached
<1>8. RowSound' /\ NoStatusSkipped' /\ ReleasesSound' /\ visited' \subseteq Statuses
  BY <1>2 DEF IInv, RowSound, NoStatusSkipped, ReleasesSound
<1> QED
  BY <1>2, <1>6, <1>7, <1>8, StepOf

LEMMA UpdatedIsRow ==
    ASSUME NEW row \in Rows, NEW e \in Rows, NEW changed
    PROVE  /\ Updated(row, e, changed) \in Rows
           /\ Updated(row, e, changed).status =
                IF "status" \in changed THEN e.status ELSE row.status
           /\ Updated(row, e, changed).carrier =
                IF "carrier" \in changed THEN e.carrier ELSE row.carrier
  BY DEF Updated, Rows

LEMMA WriteKeeps ==
    ASSUME IInv, NEW r \in Requests, Write(r) PROVE IInv'
<1> DEFINE e == req[r].entity
           wrote == "status" \in req[r].changed
<1>1. req[r] # Idle /\ req[r].pc = "write" /\ req[r] \in Busy /\ EntitySound(e) /\ ReqSound(req[r])
  BY DEF Write, Writing, IInv, ReqSound, Idle
<1>2. shipment' = Updated(shipment, e, req[r].changed)
      /\ visited' = (IF wrote THEN visited \cup {e.status} ELSE visited)
      /\ releases' = releases
  BY DEF Write, Writing
<1>3. shipment' \in Rows /\ shipment'.status = IF wrote THEN e.status ELSE shipment.status
  BY <1>1, <1>2, UpdatedIsRow DEF EntitySound, IInv, RowSound
<1>4. visited \subseteq visited' /\ visited' \subseteq Statuses /\ e.status \in visited'
  BY <1>1, <1>2 DEF IInv, EntitySound, Rows, ReqSound
<1>5. RowSound' /\ ReleasesSound'
  BY <1>2, <1>3, <1>4 DEF IInv, RowSound, ReleasesSound
<1>6. NoStatusSkipped'
  BY <1>1, <1>2 DEF IInv, NoStatusSkipped, EntitySound, Reached
<1>7. CASE Finish(r)
  <2>1. ReqSound(Idle)'
    BY DEF ReqSound
  <2> QED
    BY <1>4, <1>5, <1>6, <1>7, <2>1, StepOf DEF Finish
<1>8. CASE req' = [req EXCEPT ![r].pc = "record", ![r].changed = {}]
  <2> DEFINE q == [req[r] EXCEPT !.pc = "record", !.changed = {}]
  <2>1. q \in Busy /\ q.entity = e /\ q.op = req[r].op /\ q.pc = "record"
    BY <1>1 DEF Busy
  <2>2. req' = [req EXCEPT ![r] = q]
    BY <1>8
  <2> HIDE DEF q
  <2>3. PICK p : p = q
    OBVIOUS
  <2>4. ReqSound(p)'
    BY <1>1, <1>4, <2>1, <2>3 DEF ReqSound, EntitySound, Reached
  <2> QED
    BY <1>4, <1>5, <1>6, <2>2, <2>3, <2>4, StepOf
<1> QED
  BY <1>7, <1>8 DEF Write, Writing

(* A request that goes on or ends without a save. *)
LEMMA GoesOn ==
    ASSUME IInv, NEW r \in Requests, req[r] # Idle, UNCHANGED <<shipment, visited>>,
           ReleasesSound',
           \/ \E pc \in {"release", "emit"} :
                /\ Goto(r, pc)
                /\ req[r].pc \in {"record", "release"}
                /\ pc = "release" => req[r].op = "confirm"
           \/ Finish(r)
    PROVE  IInv'
<1>1. req[r] \in Busy /\ ReqSound(req[r])
  BY DEF IInv, ReqSound
<1>2. RowSound' /\ NoStatusSkipped' /\ visited' \subseteq Statuses
  BY DEF IInv, RowSound, NoStatusSkipped
<1>3. CASE Finish(r)
  <2>1. ReqSound(Idle)'
    BY DEF ReqSound
  <2> QED
    BY <1>2, <1>3, <2>1, StepOf DEF Finish
<1>4. ASSUME NEW pc \in {"release", "emit"}, Goto(r, pc), req[r].pc \in {"record", "release"},
             pc = "release" => req[r].op = "confirm"
      PROVE  IInv'
  <2> DEFINE q == [req[r] EXCEPT !.pc = pc]
  <2>1. q \in Busy /\ q.entity = req[r].entity /\ q.op = req[r].op /\ q.pc = pc
    BY <1>1 DEF Busy
  <2>2. req' = [req EXCEPT ![r] = q]
    BY <1>4 DEF Goto
  <2> HIDE DEF q
  <2>3. PICK p : p = q
    OBVIOUS
  <2>4. ReqSound(p)'
    BY <1>1, <1>4, <2>1, <2>3 DEF ReqSound, EntitySound, Reached
  <2> QED
    BY <1>2, <2>2, <2>3, <2>4, StepOf
<1> QED
  BY <1>3, <1>4

LEMMA StepKeeps == IInv /\ [Next]_vars => IInv'
<1> SUFFICES ASSUME IInv, [Next]_vars PROVE IInv'
  OBVIOUS
<1>1. ASSUME NEW r \in Requests, Handle(r) PROVE IInv'
  BY <1>1, HandleKeeps
<1>2. ASSUME NEW r \in Requests, Compare(r) PROVE IInv'
  BY <1>2, CompareKeeps
<1>3. ASSUME NEW r \in Requests, Write(r) PROVE IInv'
  BY <1>3, WriteKeeps
<1>4. ASSUME NEW r \in Requests, Record(r) PROVE IInv'
  <2>1. req[r] # Idle /\ req[r].pc = "record" /\ UNCHANGED <<shipment, visited>> /\ ReleasesSound'
    BY <1>4 DEF Record, Idle, IInv, ReleasesSound
  <2>2. \E pc \in {"release", "emit"} : Goto(r, pc) /\ (pc = "release" => req[r].op = "confirm")
    BY <1>4 DEF Record
  <2> QED
    BY <2>1, <2>2, GoesOn
<1>5. ASSUME NEW r \in Requests, Release(r) PROVE IInv'
  <2>1. req[r] # Idle /\ req[r].pc = "release" /\ UNCHANGED <<shipment, visited>> /\ Goto(r, "emit")
    BY <1>5 DEF Release, Idle
  <2>2. "COMPLETED" \in visited
    BY <2>1 DEF IInv, ReqSound
  <2>3. ReleasesSound'
    BY <1>5, <2>2 DEF Release, IInv, ReleasesSound
  <2> QED
    BY <2>1, <2>3, GoesOn
<1>6. ASSUME NEW r \in Requests, Emit(r) \/ Fail(r) PROVE IInv'
  <2>1. req[r] # Idle /\ UNCHANGED <<shipment, visited>> /\ Finish(r) /\ ReleasesSound'
    BY <1>6 DEF Emit, Fail, Idle, IInv, ReleasesSound
  <2> QED
    BY <2>1, GoesOn
<1>7. CASE UNCHANGED vars
  <2>1. \A s \in Requests : ReqSound(req[s])'
    BY <1>7 DEF vars, IInv, ReqSound, EntitySound, Reached
  <2> QED
    BY <1>7, <2>1 DEF vars, IInv, RowSound, NoStatusSkipped, ReleasesSound
<1> QED
  BY <1>1, <1>2, <1>3, <1>4, <1>5, <1>6, <1>7 DEF Next, ReliableNext, Proceed

LEMMA InitKeeps == Init => IInv
  BY UsersAssumption, StatusFacts
     DEF Init, IInv, RowSound, Rows, NoStatusSkipped, ReleasesSound, ReqSound, Idle

LEMMA Inductive == Spec => []IInv
  BY InitKeeps, StepKeeps, PTL DEF Spec

LEMMA PickedUpFirst == IInv => ReleasedAfterPickup
<1> SUFFICES ASSUME IInv, releases > 0
             PROVE  /\ {"ACCEPTED", "IN_TRANSIT", "COMPLETED"} \subseteq visited
                    /\ visited \cap {"DELIVERED", "DISPUTED"} # {}
  BY DEF ReleasedAfterPickup
<1>1. "COMPLETED" \in visited /\ visited \subseteq Statuses /\ NoStatusSkipped
  BY DEF IInv, ReleasesSound
<1>2. "DELIVERED" \in visited \/ "DISPUTED" \in visited
  BY <1>1, StatusFacts DEF NoStatusSkipped
<1>3. "IN_TRANSIT" \in visited
  <2>1. "DELIVERED" \in visited => "IN_TRANSIT" \in visited
    BY <1>1, StatusFacts DEF NoStatusSkipped
  <2>2. "DISPUTED" \in visited => "IN_TRANSIT" \in visited \/ "DELIVERED" \in visited
    BY <1>1, StatusFacts DEF NoStatusSkipped
  <2> QED
    BY <1>2, <2>1, <2>2
<1>4. "ACCEPTED" \in visited
  BY <1>1, <1>3, StatusFacts DEF NoStatusSkipped
<1> QED
  BY <1>1, <1>2, <1>3, <1>4

(* However handlers overlap, fail or repeat, each status a shipment has    *)
(* had follows another one it has had.                                     *)
THEOREM NothingSkipped == Spec => []NoStatusSkipped
<1>1. IInv => NoStatusSkipped
  BY DEF IInv
<1> QED
  BY <1>1, Inductive, PTL

(* ... and the escrow is asked to pay only for a shipment that has been    *)
(* accepted, picked up, delivered or disputed, and completed.              *)
THEOREM NoEarlyRelease == Spec => []ReleasedAfterPickup
  BY PickedUpFirst, Inductive, PTL

-----------------------------------------------------------------------------
(* One request at a time.                                                  *)
OneByOne == \A r, s \in Requests : r = s

(* The entity differs from the row by one step of Lifecycle, or not at all. *)
StepFrom(row, e) ==
    \/ e = row
    \/ e.status = "PENDING" /\ row.status = "NONE" /\ e.carrier = row.carrier
    \/ /\ e.status \in NextStatuses[row.status] \ {"ACCEPTED"}
       /\ e.carrier = row.carrier
    \/ /\ e.status = "ACCEPTED"
       /\ "ACCEPTED" \in NextStatuses[row.status]
       /\ e.carrier \in Users

CarrierSound(row) == CarrierOf(row) /\ (row.status = "NONE" => row.carrier = NoCarrier)

(* With one request at a time no entity is stale, and a save stores it.    *)
CurrentReq(q, row) ==
    /\ q.pc \in {"save", "write"} => StepFrom(row, q.entity)
    /\ q.pc = "write" => Updated(row, q.entity, q.changed) = q.entity

Current ==
    /\ CarrierSound(shipment)
    /\ \A r \in Requests : CurrentReq(req[r], shipment)

LEMMA StepFromSound ==
    ASSUME NEW row \in Rows, NEW e \in Rows, CarrierSound(row), StepFrom(row, e)
    PROVE  CarrierSound(e)
<1>0. row.status \in Statuses /\ e.status \in Statuses
  BY DEF Rows
<1>1. CASE e = row
  BY <1>1
<1>2. CASE e.status = "PENDING" /\ row.status = "NONE" /\ e.carrier = row.carrier
  BY <1>2 DEF CarrierSound, CarrierOf
<1>3. CASE e.status \in NextStatuses[row.status] \ {"ACCEPTED"} /\ e.carrier = row.carrier
  <2>1. e.status \notin {"NONE", "PENDING"}
    BY <1>0, <1>3, StatusFacts
  <2>2. e.status # "CANCELLED" =>
          row.status \in {"ACCEPTED", "IN_TRANSIT", "DELIVERED", "DISPUTED"}
    BY <1>0, <1>3, StatusFacts
  <2> QED
    BY <1>3, <2>1, <2>2, <1>0, StatusFacts DEF CarrierSound, CarrierOf
<1>4. CASE e.status = "ACCEPTED" /\ e.carrier \in Users
  BY <1>4, UsersAssumption DEF CarrierSound, CarrierOf
<1> QED
  BY <1>1, <1>2, <1>3, <1>4 DEF StepFrom

LEMMA HandleCurrent ==
    ASSUME IInv, Current, OneByOne, NEW r \in Requests, Handle(r)
    PROVE  Current'
<1>1. ASSUME NEW op, NEW from, NEW e, Begin(r, op, from, e), StepFrom(shipment, e)
      PROVE  Current'
  <2>1. shipment' = shipment /\ DOMAIN req = Requests
    BY <1>1 DEF Begin, IInv
  <2>2. req'[r].pc = "save" /\ req'[r].entity = e
    BY <1>1, <2>1 DEF Begin
  <2>3. CurrentReq(req'[r], shipment)
    BY <1>1, <2>2 DEF CurrentReq
  <2> QED
    BY <2>1, <2>3 DEF Current, OneByOne, CarrierSound, CarrierOf, CurrentReq, StepFrom
<1>2. CASE Create(r)
  <2>1. StepFrom(shipment, Moved("PENDING")) /\ Begin(r, "create", "NONE", Moved("PENDING"))
    BY <1>2, MovedIsRow, StatusFacts DEF Create, MayCreate, StepFrom
  <2> QED
    BY <1>1, <2>1
<1>3. CASE Begin(r, "edit", "PENDING", shipment)
  BY <1>1, <1>3 DEF StepFrom
<1>4. ASSUME NEW u \in Users,
             Transition(r, u, "accept", "PENDING", [Moved("ACCEPTED") EXCEPT !.carrier = u])
      PROVE  Current'
  <2>1. StepFrom(shipment, [Moved("ACCEPTED") EXCEPT !.carrier = u])
    BY <1>4, AcceptedIsRow DEF StepFrom, Transition, TransitionAllowed
  <2> QED
    BY <1>1, <1>4, <2>1 DEF Transition
<1>5. ASSUME NEW u \in Users, NEW op \in Ops, NEW from \in Statuses,
             NEW to \in Statuses \ {"ACCEPTED"}, Transition(r, u, op, from, Moved(to))
      PROVE  Current'
  <2>1. StepFrom(shipment, Moved(to))
    BY <1>5, MovedIsRow DEF StepFrom, Transition, TransitionAllowed
  <2> QED
    BY <1>1, <1>5, <2>1 DEF Transition
<1> QED
  BY <1>2, <1>3, <1>4, <1>5, HandleMoves

LEMMA CompareCurrent ==
    ASSUME IInv, Current, OneByOne, NEW r \in Requests, Compare(r)
    PROVE  Current'
<1> DEFINE e == req[r].entity
           changed == {c \in {"status", "carrier"} : e[c] # shipment[c]}
<1>1. e \in Rows /\ shipment \in Rows /\ StepFrom(shipment, e) /\ shipment' = shipment
      /\ req[r] \in Busy /\ DOMAIN req = Requests
  BY DEF IInv, RowSound, ReqSound, EntitySound, Compare, Current, CurrentReq, Idle
<1>2. Updated(shipment, e, changed) = e
  BY <1>1 DEF Updated, Rows
<1>3. req'[r].pc = "write" /\ req'[r].entity = e /\ req'[r].changed = changed
  BY <1>1 DEF Compare, Busy
<1>4. CurrentReq(req'[r], shipment)
  BY <1>1, <1>2, <1>3 DEF CurrentReq
<1> QED
  BY <1>1, <1>4 DEF Current, OneByOne, CarrierSound, CarrierOf, CurrentReq, StepFrom

LEMMA WriteCurrent ==
    ASSUME IInv, Current, OneByOne, NEW r \in Requests, Write(r)
    PROVE  Current' /\ shipment' \in Rows /\ StepFrom(shipment, shipment')
<1>1. /\ shipment \in Rows /\ req[r].entity \in Rows /\ req[r] \in Busy
      /\ StepFrom(shipment, req[r].entity) /\ CarrierSound(shipment)
      /\ shipment' = req[r].entity /\ DOMAIN req = Requests
  BY DEF IInv, RowSound, ReqSound, EntitySound, Write, Writing, Current, CurrentReq, Idle
<1>2. CarrierSound(shipment')
  BY <1>1, StepFromSound
<1>3. req'[r].pc \notin {"save", "write"}
  BY <1>1 DEF Write, Writing, Finish, Idle, Busy
<1>4. \A s \in Requests : CurrentReq(req'[s], shipment')
  BY <1>3 DEF OneByOne, CurrentReq
<1> QED
  BY <1>1, <1>2, <1>4 DEF Current, CarrierSound, CarrierOf, CurrentReq, StepFrom

LEMMA OthersCurrent ==
    ASSUME IInv, Current, NEW r \in Requests, Record(r) \/ Release(r) \/ Emit(r) \/ Fail(r)
    PROVE  Current' /\ shipment' = shipment
<1>1. shipment' = shipment /\ DOMAIN req = Requests
      /\ (Finish(r) \/ \E pc \in {"release", "emit"} : Goto(r, pc))
  BY DEF Record, Release, Emit, Fail, IInv
<1>2. \A s \in Requests : CurrentReq(req'[s], shipment)
  <2>1. CASE Finish(r)
    BY <1>1, <2>1 DEF Finish, Idle, Current, CurrentReq
  <2>2. ASSUME NEW pc \in {"release", "emit"}, Goto(r, pc)
        PROVE  \A s \in Requests : CurrentReq(req'[s], shipment)
    <3>1. req[r] \in Busy
      BY DEF IInv, ReqSound, Record, Release, Emit, Fail, Idle
    <3>2. req'[r].pc = pc
      BY <1>1, <2>2, <3>1 DEF Goto, Busy
    <3>3. CurrentReq(req'[r], shipment)
      BY <3>2 DEF CurrentReq
    <3> QED
      BY <1>1, <2>2, <3>3 DEF Goto, Current
  <2> QED
    BY <1>1, <2>1, <2>2
<1> QED
  BY <1>1, <1>2 DEF Current, CarrierSound, CarrierOf, CurrentReq, StepFrom

(* Every step either leaves the row or takes it one step of the life cycle. *)
LEMMA StepCurrent ==
    ASSUME OneByOne, IInv, Current, [Next]_vars
    PROVE  Current' /\ StepFrom(shipment, shipment')
<1>1. ASSUME NEW r \in Requests, Handle(r) PROVE Current' /\ shipment' = shipment
  <2>1. shipment' = shipment
    BY <1>1, HandleMoves DEF Create, Begin, Transition
  <2> QED
    BY <1>1, <2>1, HandleCurrent
<1>2. ASSUME NEW r \in Requests, Compare(r) PROVE Current' /\ shipment' = shipment
  BY <1>2, CompareCurrent DEF Compare
<1>3. ASSUME NEW r \in Requests, Write(r) PROVE Current' /\ StepFrom(shipment, shipment')
  BY <1>3, WriteCurrent
<1>4. ASSUME NEW r \in Requests, Record(r) \/ Release(r) \/ Emit(r) \/ Fail(r)
      PROVE  Current' /\ shipment' = shipment
  BY <1>4, OthersCurrent
<1>5. CASE UNCHANGED vars
  BY <1>5 DEF vars, Current, CarrierSound, CarrierOf, CurrentReq, StepFrom
<1>6. shipment' = shipment => StepFrom(shipment, shipment')
  BY DEF StepFrom
<1>7. UNCHANGED vars => shipment' = shipment
  BY DEF vars
<1> QED
  BY <1>1, <1>2, <1>3, <1>4, <1>5, <1>6, <1>7 DEF Next, ReliableNext, Proceed

-----------------------------------------------------------------------------
(* The row's step as a step of Lifecycle.                                  *)
LEMMA NamesFollow ==
    /\ "Created" \in Abstract!Successors["Unposted"]
    /\ \A s \in Statuses : \A t \in NextStatuses[s] :
         AbstractName[t] \in Abstract!Successors[AbstractName[s]]
    /\ AbstractName["NONE"] = "Unposted" /\ AbstractName["PENDING"] = "Created"
    /\ AbstractName["ACCEPTED"] = "Accepted"
    /\ \A s \in Statuses \ {"ACCEPTED"} : AbstractName[s] # "Accepted"
  BY StatusFacts DEF AbstractName, Abstract!Successors

LEMMA StepImplements ==
    ASSUME shipment \in Rows, shipment' \in Rows, StepFrom(shipment, shipment')
    PROVE  [Abstract!Next]_(Abstract!vars)
<1> DEFINE status == [id \in {Owner} |-> AbstractName[shipment.status]]
           to == AbstractName[shipment'.status]
<1>0. shipment.status \in Statuses /\ shipment'.status \in Statuses
  BY DEF Rows
<1>1. CASE shipment' = shipment
  BY <1>1 DEF Abstract!vars
<1>2. ASSUME to \in Abstract!Successors[AbstractName[shipment.status]],
             \/ to = "Accepted" /\ shipment'.carrier \in Users
             \/ to # "Accepted" /\ shipment'.carrier = shipment.carrier
      PROVE  Abstract!Next
  BY <1>2 DEF Abstract!Next, Abstract!Move
<1>3. CASE shipment'.status = "PENDING" /\ shipment.status = "NONE"
           /\ shipment'.carrier = shipment.carrier
  BY <1>2, <1>3, NamesFollow, StatusFacts
<1>4. CASE shipment'.status \in NextStatuses[shipment.status] \ {"ACCEPTED"}
           /\ shipment'.carrier = shipment.carrier
  BY <1>0, <1>2, <1>4, NamesFollow
<1>5. CASE shipment'.status = "ACCEPTED" /\ "ACCEPTED" \in NextStatuses[shipment.status]
           /\ shipment'.carrier \in Users
  BY <1>0, <1>2, <1>5, NamesFollow
<1> QED
  BY <1>1, <1>3, <1>4, <1>5 DEF StepFrom

LEMMA InitCurrent == Init => Current /\ Abstract!Init
<1> SUFFICES ASSUME Init PROVE Current /\ Abstract!Init
  OBVIOUS
<1>1. Current
  BY DEF Init, Current, CarrierSound, CarrierOf, CurrentReq, Idle
<1>2. Abstract!Init
  BY NamesFollow DEF Init, Abstract!Init
<1> QED
  BY <1>1, <1>2

LEMMA CurrentInductive == OneByOne => (Spec => []Current)
<1> SUFFICES ASSUME OneByOne PROVE Spec => []Current
  OBVIOUS
<1>1. Current /\ IInv /\ [Next]_vars => Current'
  BY StepCurrent
<1> QED
  BY <1>1, InitCurrent, Inductive, PTL DEF Spec

(* Handlers that run one at a time, however many of them fail half way,    *)
(* leave a carrier with every shipment under way and none with an open one. *)
THEOREM CarrierKnown == OneByOne => (Spec => []CarrierUnderWay)
<1> SUFFICES ASSUME OneByOne PROVE Spec => []CarrierUnderWay
  OBVIOUS
<1>1. Current => CarrierUnderWay
  BY DEF Current, CarrierSound, CarrierUnderWay
<1> QED
  BY <1>1, CurrentInductive, PTL

(* ... and implement the life cycle the shipment contract implements too.  *)
THEOREM ImplementsLifecycle == OneByOne => (Spec => FollowsLifecycle)
<1> SUFFICES ASSUME OneByOne PROVE Spec => FollowsLifecycle
  OBVIOUS
<1>1. IInv /\ IInv' /\ Current /\ [Next]_vars => [Abstract!Next]_(Abstract!vars)
  BY StepCurrent, StepImplements DEF IInv, RowSound
<1> QED
  BY <1>1, InitCurrent, CurrentInductive, Inductive, PTL
     DEF Spec, FollowsLifecycle, Abstract!Spec

-----------------------------------------------------------------------------
(* The same with bids.  What a request for a bid has read stays true: the   *)
(* shipment has been open, and bids are never removed.                      *)
BidRecords == [carrier : Users, status : {"PENDING", "ACCEPTED", "REJECTED"}]

BidReqSound(q) ==
    \/ q = Idle
    \/ q \in [pc : {"findOwn", "insert"}, carrier : Users]
    \/ /\ q \in [pc : {"findBid", "accept", "reject", "assign"}, bid : DOMAIN bids]
       /\ "PENDING" \in visited

BidsSound ==
    /\ bids \in Seq(BidRecords)
    /\ DOMAIN bidReq = BidRequests
    /\ \A r \in BidRequests : BidReqSound(bidReq[r])

BidsIInv == IInv /\ BidsSound

LEMMA BidStepOf ==
    ASSUME BidsSound, NEW r \in BidRequests, NEW q, bidReq' = [bidReq EXCEPT ![r] = q],
           BidReqSound(q)', visited \subseteq visited',
           bids' \in Seq(BidRecords), DOMAIN bids \subseteq DOMAIN bids'
    PROVE  BidsSound'
<1>1. ASSUME NEW s \in BidRequests PROVE BidReqSound(bidReq[s])'
  <2>1. CASE s = r
    BY <2>1 DEF BidsSound, BidReqSound
  <2>2. CASE s # r
    BY <2>2 DEF BidsSound, BidReqSound
  <2> QED
    BY <2>1, <2>2
<1> QED
  BY <1>1 DEF BidsSound

(* A request for a bid goes on with the next statement, or ends.           *)
LEMMA BidGoesOn ==
    ASSUME BidsSound, NEW r \in BidRequests, UNCHANGED visited,
           bids' \in Seq(BidRecords), DOMAIN bids \subseteq DOMAIN bids',
           \/ bidReq[r].pc = "findOwn" /\ BidGoto(r, "insert")
           \/ \E pc \in {"accept", "reject", "assign"} :
                BidGoto(r, pc) /\ bidReq[r].pc \in {"findBid", "accept", "reject"}
           \/ BidFinish(r)
    PROVE  BidsSound'
<1>1. BidReqSound(bidReq[r])
  BY DEF BidsSound
<1>2. CASE BidFinish(r)
  BY <1>2, BidStepOf DEF BidFinish, BidReqSound
<1>3. CASE bidReq[r].pc = "findOwn" /\ BidGoto(r, "insert")
  <2> DEFINE q == [bidReq[r] EXCEPT !.pc = "insert"]
  <2>1. q \in [pc : {"findOwn", "insert"}, carrier : Users]
    BY <1>1, <1>3 DEF BidReqSound, Idle
  <2>2. bidReq' = [bidReq EXCEPT ![r] = q]
    BY <1>3 DEF BidGoto
  <2> HIDE DEF q
  <2>3. PICK p : p = q
    OBVIOUS
  <2>4. BidReqSound(p)'
    BY <2>1, <2>3 DEF BidReqSound
  <2> QED
    BY <2>2, <2>3, <2>4, BidStepOf
<1>4. ASSUME NEW pc \in {"accept", "reject", "assign"}, BidGoto(r, pc),
             bidReq[r].pc \in {"findBid", "accept", "reject"}
      PROVE  BidsSound'
  <2> DEFINE q == [bidReq[r] EXCEPT !.pc = pc]
  <2>1. q \in [pc : {"findBid", "accept", "reject", "assign"}, bid : DOMAIN bids]
    BY <1>1, <1>4 DEF BidReqSound, Idle
  <2>2. bidReq' = [bidReq EXCEPT ![r] = q] /\ "PENDING" \in visited
    BY <1>1, <1>4 DEF BidGoto, BidReqSound, Idle
  <2> HIDE DEF q
  <2>3. PICK p : p = q
    OBVIOUS
  <2>4. BidReqSound(p)'
    BY <2>1, <2>2, <2>3 DEF BidReqSound
  <2> QED
    BY <2>2, <2>3, <2>4, BidStepOf
<1> QED
  BY <1>2, <1>3, <1>4

LEMMA StartBidKeeps ==
    ASSUME BidsSound, NEW r \in BidRequests, NEW q, StartBidRequest(r, q), BidReqSound(q)
    PROVE  BidsSound'
<1>1. BidReqSound(q)'
  BY DEF StartBidRequest, BidReqSound
<1> QED
  BY <1>1, BidStepOf DEF StartBidRequest, BidsSound

LEMMA BidIsRecord ==
    ASSUME bids \in Seq(BidRecords), NEW b \in DOMAIN bids
    PROVE  /\ bids[b] \in BidRecords /\ bids[b].carrier \in Users
           /\ \A to \in {"ACCEPTED", "REJECTED"} :
                /\ [bids[b] EXCEPT !.status = to] \in BidRecords
                /\ [bids[b] EXCEPT !.status = to].status = to
                /\ [bids[b] EXCEPT !.status = to].carrier = bids[b].carrier
<1>1. bids[b] \in BidRecords
  OBVIOUS
<1> QED
  BY <1>1 DEF BidRecords

(* One column of one bid, or the status of several, is updated.            *)
LEMMA BidStatuses ==
    ASSUME bids \in Seq(BidRecords), DOMAIN bids' = DOMAIN bids,
           bids' = [b \in DOMAIN bids |-> bids'[b]],
           \A b \in DOMAIN bids : bids'[b] \in BidRecords
    PROVE  bids' \in Seq(BidRecords)
<1>1. DOMAIN bids = 1..Len(bids) /\ Len(bids) \in Nat
  OBVIOUS
<1>2. bids' \in [1..Len(bids) -> BidRecords]
  BY <1>1
<1> QED
  BY <1>1, <1>2, SeqDef

LEMMA BidStep ==
    ASSUME BidsIInv, NEW r \in BidRequests,
           \/ \E u \in Users : SubmitBid(r, u)
           \/ \E b \in DOMAIN bids : AcceptBid(r, b)
           \/ BidProceed(r) \/ FailBid(r)
    PROVE  BidsIInv'
<1>0. BidsSound /\ IInv /\ bids \in Seq(BidRecords) /\ BidReqSound(bidReq[r])
  BY DEF BidsIInv, BidsSound
<1>a. ASSUME UNCHANGED <<shipment, releases, req, visited>> PROVE IInv'
  <2>1. \A s \in Requests : ReqSound(req[s])'
    BY <1>0, <1>a DEF IInv, ReqSound, EntitySound, Reached
  <2> QED
    BY <1>0, <1>a, <2>1 DEF IInv, RowSound, NoStatusSkipped, ReleasesSound
<1>b. ASSUME UNCHANGED vars PROVE IInv'
  BY <1>a, <1>b DEF vars
<1>1. ASSUME NEW u \in Users, SubmitBid(r, u) PROVE BidsIInv'
  <2>1. BidReqSound([pc |-> "findOwn", carrier |-> u])
    BY DEF BidReqSound
  <2>2. StartBidRequest(r, [pc |-> "findOwn", carrier |-> u])
    BY <1>1 DEF SubmitBid
  <2>3. BidsSound'
    BY <1>0, <2>1, <2>2, StartBidKeeps
  <2> QED
    BY <1>a, <2>2, <2>3 DEF StartBidRequest, BidsIInv
<1>2. ASSUME NEW b \in DOMAIN bids, AcceptBid(r, b) PROVE BidsIInv'
  <2>1. "PENDING" \in visited
    BY <1>0, <1>2 DEF AcceptBid, IInv, RowSound
  <2>2. BidReqSound([pc |-> "findBid", bid |-> b])
    BY <2>1 DEF BidReqSound
  <2>3. StartBidRequest(r, [pc |-> "findBid", bid |-> b])
    BY <1>2 DEF AcceptBid
  <2>4. BidsSound'
    BY <1>0, <2>2, <2>3, StartBidKeeps
  <2> QED
    BY <1>a, <2>3, <2>4 DEF StartBidRequest, BidsIInv
<1>3. CASE FindOwnBid(r) \/ FindBid(r) \/ FailBid(r)
  <2>1. BidsSound'
    BY <1>0, <1>3, BidGoesOn DEF FindOwnBid, FindBid, FailBid, vars
  <2> QED
    BY <1>3, <1>b, <2>1 DEF FindOwnBid, FindBid, FailBid, BidsIInv
<1>4. CASE InsertBid(r)
  <2> DEFINE x == [carrier |-> bidReq[r].carrier, status |-> "PENDING"]
  <2>1. x \in BidRecords
    BY <1>0, <1>4 DEF InsertBid, BidReqSound, BidRecords, Idle
  <2> HIDE DEF x
  <2>2. bids' = Append(bids, x)
    BY <1>4 DEF InsertBid, x
  <2>3. bids' \in Seq(BidRecords) /\ DOMAIN bids \subseteq DOMAIN bids'
    BY <1>0, <2>1, <2>2
  <2>4. BidsSound'
    BY <1>0, <1>4, <2>3, BidGoesOn DEF InsertBid, vars
  <2> QED
    BY <1>4, <1>b, <2>4 DEF InsertBid, BidsIInv
<1>5. CASE SaveAccepted(r)
  <2>1. \A b \in DOMAIN bids : bids'[b] \in BidRecords
    BY <1>0, <1>5, BidIsRecord DEF SaveAccepted
  <2>2. bids' = [b \in DOMAIN bids |-> bids'[b]] /\ DOMAIN bids' = DOMAIN bids
    BY <1>0, <1>5 DEF SaveAccepted
  <2>3. bids' \in Seq(BidRecords)
    BY <1>0, <2>1, <2>2, BidStatuses
  <2>4. BidsSound'
    BY <1>0, <1>5, <2>2, <2>3, BidGoesOn DEF SaveAccepted, vars
  <2> QED
    BY <1>5, <1>b, <2>4 DEF SaveAccepted, BidsIInv
<1>6. CASE RejectOthers(r)
  <2>1. \A b \in DOMAIN bids : bids'[b] \in BidRecords
    BY <1>0, <1>6, BidIsRecord DEF RejectOthers
  <2>2. bids' = [b \in DOMAIN bids |-> bids'[b]] /\ DOMAIN bids' = DOMAIN bids
    BY <1>0, <1>6 DEF RejectOthers
  <2>3. bids' \in Seq(BidRecords)
    BY <1>0, <2>1, <2>2, BidStatuses
  <2>4. BidsSound'
    BY <1>0, <1>6, <2>2, <2>3, BidGoesOn DEF RejectOthers, vars
  <2> QED
    BY <1>6, <1>b, <2>4 DEF RejectOthers, BidsIInv
<1>7. CASE AssignCarrier(r)
  <2>1. /\ shipment' = [status |-> "ACCEPTED", carrier |-> bids[bidReq[r].bid].carrier]
        /\ visited' = visited \cup {"ACCEPTED"} /\ bidReq[r].pc = "assign"
        /\ UNCHANGED <<req, releases, bids>> /\ bidReq' = [bidReq EXCEPT ![r] = Idle]
    BY <1>7 DEF AssignCarrier, BidFinish
  <2>2. bidReq[r].bid \in DOMAIN bids /\ "PENDING" \in visited
    BY <1>0, <2>1 DEF BidReqSound, Idle
  <2>3. shipment' \in Rows
    BY <1>0, <2>1, <2>2, BidIsRecord, StatusFacts DEF Rows
  <2>4. \A s \in Requests : ReqSound(req[s])'
    BY <1>0, <2>1 DEF IInv, ReqSound, EntitySound, Reached
  <2>5. NoStatusSkipped'
    BY <1>0, <2>1, <2>2, StatusFacts DEF IInv, NoStatusSkipped
  <2>6. IInv'
    BY <1>0, <2>1, <2>3, <2>4, <2>5, StatusFacts DEF IInv, RowSound, ReleasesSound
  <2>7. BidsSound'
    BY <1>0, <2>1, BidStepOf DEF BidReqSound
  <2> QED
    BY <2>6, <2>7 DEF BidsIInv
<1> QED
  BY <1>1, <1>2, <1>3, <1>4, <1>5, <1>6, <1>7 DEF BidProceed

(* The handlers of the shipment's own status know nothing of bids.         *)
LEMMA VisitedGrows == ASSUME [Next]_vars PROVE visited \subseteq visited'
  BY DEF Next, ReliableNext, Handle, Proceed, Create, Edit, Accept, MarkInTransit, MarkDelivered,
         ConfirmDelivery, Cancel, RaiseDispute, ResolveDispute, Transition, Begin, Compare,
         Write, Writing, Record, Release, Emit, Fail, vars

LEMMA BidsStep == BidsIInv /\ [BidsNext]_allVars => BidsIInv'
<1> SUFFICES ASSUME BidsIInv, [BidsNext]_allVars PROVE BidsIInv'
  OBVIOUS
<1>1. ASSUME [Next]_vars, UNCHANGED bidVars PROVE BidsIInv'
  <2>1. IInv' /\ visited \subseteq visited'
    BY <1>1, StepKeeps, VisitedGrows DEF BidsIInv
  <2>2. BidsSound'
    BY <1>1, <2>1 DEF BidsIInv, BidsSound, BidReqSound, bidVars
  <2> QED
    BY <2>1, <2>2 DEF BidsIInv
<1> QED
  BY <1>1, BidStep DEF BidsNext, BidsReliableNext, Next, allVars

LEMMA BidsInitKeeps == BidsInit => BidsIInv
  BY InitKeeps DEF BidsInit, BidsIInv, BidsSound, BidReqSound

LEMMA BidsInductive == BidsSpec => []BidsIInv
  BY BidsInitKeeps, BidsStep, PTL DEF BidsSpec

(* However handlers and requests for bids overlap, fail or repeat, each    *)
(* status a shipment has had follows another one it has had.               *)
THEOREM NothingSkippedWithBids == BidsSpec => []NoStatusSkipped
<1>1. BidsIInv => NoStatusSkipped
  BY DEF BidsIInv, IInv
<1> QED
  BY <1>1, BidsInductive, PTL

(* ... and the escrow is asked to pay only for a shipment that has been    *)
(* accepted, by its bid or directly, picked up and completed.              *)
THEOREM NoEarlyReleaseWithBids == BidsSpec => []ReleasedAfterPickup
<1>1. BidsIInv => ReleasedAfterPickup
  BY PickedUpFirst DEF BidsIInv
<1> QED
  BY <1>1, BidsInductive, PTL

-----------------------------------------------------------------------------
(* Announcements.  A request between its history entry and its event has   *)
(* an entry that no event counts yet; the handlers between the two are     *)
(* finitely many.                                                          *)
Announcing(s) == {r \in Requests : req[r].pc \in {"release", "emit"} /\ req[r].entity.status = s}

Counts(s) ==
    /\ IsFiniteSet(Announcing(s))
    /\ events[s] + Cardinality(Announcing(s)) <= Cardinality(Recorded(s))

Entries == [from : Statuses, to : Statuses]

Counted ==
    /\ history \in Seq(Entries)
    /\ events \in [Statuses -> Nat]
    /\ \A s \in Statuses : Counts(s)

LEMMA RecordedIsFinite ==
    ASSUME history \in Seq(Entries), NEW s
    PROVE  IsFiniteSet(Recorded(s)) /\ Cardinality(Recorded(s)) \in Nat
<1>1. IsFiniteSet(1..Len(history))
  BY FS_Interval
<1>2. Recorded(s) \subseteq 1..Len(history)
  BY DEF Recorded
<1>3. IsFiniteSet(Recorded(s))
  BY <1>1, <1>2, FS_Subset
<1> QED
  BY <1>3, FS_CardinalityType

(* A status with no new entry and no new event, while handlers end.        *)
LEMMA NothingNew ==
    ASSUME Counted, NEW s \in Statuses, Announcing(s)' \subseteq Announcing(s),
           UNCHANGED <<history, events>>
    PROVE  Counts(s)'
<1>1. /\ IsFiniteSet(Announcing(s))
      /\ events[s] + Cardinality(Announcing(s)) <= Cardinality(Recorded(s)) /\ events[s] \in Nat
  BY DEF Counted, Counts
<1>2. PICK A : A = Announcing(s)'
  OBVIOUS
<1>3. IsFiniteSet(A) /\ Cardinality(A) <= Cardinality(Announcing(s))
  BY <1>1, <1>2, FS_Subset
<1>4. Cardinality(A) \in Nat /\ Cardinality(Announcing(s)) \in Nat /\ Cardinality(Recorded(s)) \in Nat
  BY <1>1, <1>3, FS_CardinalityType, RecordedIsFinite DEF Counted
<1>5. Recorded(s)' = Recorded(s) /\ events'[s] = events[s]
  BY DEF Recorded
<1>6. events'[s] + Cardinality(A) <= Cardinality(Recorded(s)')
  BY <1>1, <1>3, <1>4, <1>5
<1> QED
  BY <1>2, <1>3, <1>6 DEF Counts

LEMMA RecordCounts ==
    ASSUME IInv, Counted, NEW r \in Requests, Record(r) PROVE Counted'
<1> DEFINE e == req[r].entity
           x == [from |-> req[r].from, to |-> e.status]
<1>1. /\ req[r] \in Busy /\ req[r].pc = "record" /\ e.status \in Statuses /\ x \in Entries
      /\ DOMAIN req = Requests /\ history \in Seq(Entries)
  BY DEF Record, IInv, ReqSound, Idle, Busy, Rows, Entries, Counted
<1>2. x.to = e.status
  OBVIOUS
<1>3. /\ \E pc \in {"release", "emit"} : req' = [req EXCEPT ![r] = [req[r] EXCEPT !.pc = pc]]
      /\ UNCHANGED events
  BY DEF Record, Goto
<1>4. history' = Append(history, x)
  BY DEF Record
<1> HIDE DEF x
<1>5. /\ history' \in Seq(Entries) /\ Len(history') = Len(history) + 1
      /\ history'[Len(history) + 1] = x /\ \A i \in 1..Len(history) : history'[i] = history[i]
  BY <1>1, <1>4
<1>6. req'[r].pc \in {"release", "emit"} /\ req'[r].entity = e
      /\ \A q \in Requests \ {r} : req'[q] = req[q]
  BY <1>1, <1>3 DEF Busy
<1>7. ASSUME NEW s \in Statuses PROVE Counts(s)'
  <2>1. CASE s # e.status
    <3>1. Announcing(s)' = Announcing(s)
      BY <1>1, <1>6, <2>1 DEF Announcing
    <3>2. DOMAIN history' = DOMAIN history \cup {Len(history) + 1} /\ Len(history) + 1 \notin DOMAIN history
      BY <1>1, <1>5
    <3>3. Recorded(s)' = Recorded(s)
      BY <1>1, <1>2, <1>5, <2>1, <3>2 DEF Recorded
    <3> QED
      BY <1>3, <3>1, <3>3 DEF Counted, Counts
  <2>2. CASE s = e.status
    <3>1. Announcing(s)' = Announcing(s) \cup {r} /\ r \notin Announcing(s)
      BY <1>1, <1>6, <2>2 DEF Announcing
    <3>2. DOMAIN history' = DOMAIN history \cup {Len(history) + 1} /\ Len(history) + 1 \notin DOMAIN history
      BY <1>1, <1>5
    <3>3. Recorded(s)' = Recorded(s) \cup {Len(history) + 1} /\ Len(history) + 1 \notin Recorded(s)
      BY <1>1, <1>2, <1>5, <2>2, <3>2 DEF Recorded
    <3>4. IsFiniteSet(Recorded(s)) /\ Cardinality(Recorded(s)) \in Nat
      BY <1>1, RecordedIsFinite
    <3>5. IsFiniteSet(Announcing(s)) /\ Cardinality(Announcing(s)) \in Nat /\ events[s] \in Nat
          /\ events[s] + Cardinality(Announcing(s)) <= Cardinality(Recorded(s))
      BY FS_CardinalityType DEF Counted, Counts
    <3>6. PICK A : A = Announcing(s)'
      OBVIOUS
    <3>7. IsFiniteSet(A) /\ Cardinality(A) = Cardinality(Announcing(s)) + 1
      BY <3>1, <3>5, <3>6, FS_AddElement
    <3>8. Cardinality(Recorded(s)') = Cardinality(Recorded(s)) + 1
      BY <3>3, <3>4, FS_AddElement
    <3>9. events'[s] + Cardinality(A) <= Cardinality(Recorded(s)')
      BY <1>3, <3>4, <3>5, <3>7, <3>8
    <3> QED
      BY <3>6, <3>7, <3>9 DEF Counts
  <2> QED
    BY <2>1, <2>2
<1> QED
  BY <1>3, <1>5, <1>7 DEF Counted

LEMMA EmitCounts ==
    ASSUME IInv, Counted, NEW r \in Requests, Emit(r) PROVE Counted'
<1> DEFINE e == req[r].entity
<1>1. /\ req[r].pc = "emit" /\ e.status \in Statuses /\ DOMAIN req = Requests
      /\ req' = [req EXCEPT ![r] = Idle] /\ UNCHANGED history
      /\ events' = [events EXCEPT ![e.status] = @ + 1] /\ events \in [Statuses -> Nat]
  BY DEF Emit, Finish, IInv, ReqSound, Idle, Busy, Rows, Counted
<1>2. req'[r] = Idle /\ \A q \in Requests \ {r} : req'[q] = req[q]
  BY <1>1
<1>3. events' \in [Statuses -> Nat]
  BY <1>1
<1>4. ASSUME NEW s \in Statuses PROVE Counts(s)'
  <2>1. Announcing(s)' = Announcing(s) \ {r} /\ (s = e.status => r \in Announcing(s))
    BY <1>1, <1>2 DEF Announcing, Idle
  <2>2. IsFiniteSet(Announcing(s)) /\ Cardinality(Announcing(s)) \in Nat /\ events[s] \in Nat
        /\ events[s] + Cardinality(Announcing(s)) <= Cardinality(Recorded(s))
    BY FS_CardinalityType DEF Counted, Counts
  <2>3. Recorded(s)' = Recorded(s) /\ Cardinality(Recorded(s)) \in Nat
    BY <1>1, RecordedIsFinite DEF Recorded, Counted
  <2>4. PICK A : A = Announcing(s)'
    OBVIOUS
  <2>5. /\ IsFiniteSet(A) /\ Cardinality(A) \in Nat
        /\ Cardinality(A) <= Cardinality(Announcing(s))
        /\ s = e.status => Cardinality(A) = Cardinality(Announcing(s)) - 1
    <3>1. IsFiniteSet(A) /\ Cardinality(A) = IF r \in Announcing(s)
                              THEN Cardinality(Announcing(s)) - 1 ELSE Cardinality(Announcing(s))
      BY <2>1, <2>2, <2>4, FS_RemoveElement
    <3>2. Cardinality(A) \in Nat
      BY <3>1, FS_CardinalityType
    <3> QED
      BY <2>1, <2>2, <3>1, <3>2
  <2>6. events'[s] = IF s = e.status THEN events[s] + 1 ELSE events[s]
    BY <1>1
  <2>7. events'[s] + Cardinality(A) <= Cardinality(Recorded(s)')
    BY <2>2, <2>3, <2>5, <2>6
  <2> QED
    BY <2>4, <2>5, <2>7 DEF Counts
<1> QED
  BY <1>1, <1>3, <1>4 DEF Counted

(* Every other step of a request announces nothing.                        *)
LEMMA SilentCounts ==
    ASSUME Counted, NEW r \in Requests, UNCHANGED <<history, events>>,
           \A q \in Requests \ {r} : req'[q] = req[q],
           req'[r].pc \in {"release", "emit"} =>
             req[r].pc \in {"release", "emit"} /\ req'[r].entity = req[r].entity
    PROVE  Counted'
<1>1. ASSUME NEW s \in Statuses PROVE Counts(s)'
  <2>1. Announcing(s)' \subseteq Announcing(s)
    BY DEF Announcing
  <2> QED
    BY <2>1, NothingNew
<1> QED
  BY <1>1 DEF Counted

LEMMA StepCounts ==
    ASSUME IInv, Counted, NEW r \in Requests, Handle(r) \/ Proceed(r) \/ Fail(r)
    PROVE  Counted'
<1>0. DOMAIN req = Requests /\ (req[r] # Idle => req[r] \in Busy)
  BY DEF IInv, ReqSound
<1>1. CASE Handle(r)
  <2>1. PICK op, from, e : Begin(r, op, from, e)
    BY <1>1 DEF Handle, Create, Edit, Accept, MarkInTransit, MarkDelivered, ConfirmDelivery,
         Cancel, RaiseDispute, ResolveDispute, Transition
  <2>2. req'[r].pc = "save" /\ \A q \in Requests \ {r} : req'[q] = req[q]
    BY <1>0, <2>1 DEF Begin
  <2> QED
    BY <2>1, <2>2, SilentCounts DEF Begin
<1>2. CASE Compare(r)
  <2>1. req'[r].pc = "write" /\ \A q \in Requests \ {r} : req'[q] = req[q]
    BY <1>0, <1>2 DEF Compare, Busy, Idle
  <2> QED
    BY <1>2, <2>1, SilentCounts DEF Compare
<1>3. CASE Write(r)
  <2>1. req'[r].pc \in {"record", "idle"} /\ \A q \in Requests \ {r} : req'[q] = req[q]
    BY <1>0, <1>3 DEF Write, Writing, Finish, Busy, Idle
  <2> QED
    BY <1>3, <2>1, SilentCounts DEF Write, Writing
<1>4. CASE Release(r)
  <2>1. /\ req[r].pc = "release" /\ req'[r].entity = req[r].entity
        /\ \A q \in Requests \ {r} : req'[q] = req[q]
    BY <1>0, <1>4 DEF Release, Goto, Busy, Idle
  <2> QED
    BY <1>4, <2>1, SilentCounts DEF Release
<1>5. CASE Fail(r)
  <2>1. req'[r].pc = "idle" /\ \A q \in Requests \ {r} : req'[q] = req[q]
    BY <1>0, <1>5 DEF Fail, Finish, Idle
  <2> QED
    BY <1>5, <2>1, SilentCounts DEF Fail
<1> QED
  BY <1>1, <1>2, <1>3, <1>4, <1>5, RecordCounts, EmitCounts DEF Proceed

LEMMA CountedStep == BidsIInv /\ Counted /\ [BidsNext]_allVars => Counted'
<1> SUFFICES ASSUME BidsIInv, Counted, [BidsNext]_allVars PROVE Counted'
  OBVIOUS
<1>0. IInv
  BY DEF BidsIInv
<1>1. ASSUME UNCHANGED <<req, history, events>> PROVE Counted'
  <2>1. \A s \in Statuses : Counts(s)'
    BY <1>1 DEF Counted, Counts, Announcing, Recorded
  <2> QED
    BY <1>1, <2>1 DEF Counted
<1>2. ASSUME Next PROVE Counted'
  BY <1>0, <1>2, StepCounts DEF Next, ReliableNext
<1>3. ASSUME NEW r \in BidRequests,
             \/ \E u \in Users : SubmitBid(r, u)
             \/ \E b \in DOMAIN bids : AcceptBid(r, b)
             \/ BidProceed(r) \/ FailBid(r)
      PROVE  UNCHANGED <<req, history, events>>
  BY <1>3 DEF SubmitBid, AcceptBid, StartBidRequest, BidProceed, FindOwnBid, InsertBid, FindBid,
       SaveAccepted, RejectOthers, AssignCarrier, FailBid, vars
<1>4. ASSUME UNCHANGED allVars PROVE UNCHANGED <<req, history, events>>
  BY <1>4 DEF allVars, vars
<1> QED
  BY <1>1, <1>2, <1>3, <1>4 DEF BidsNext, BidsReliableNext, Next

LEMMA CountedInit == Init => Counted
<1> SUFFICES ASSUME Init PROVE Counted
  OBVIOUS
<1>1. \A s \in Statuses : Announcing(s) = {} /\ Recorded(s) = {} /\ events[s] = 0
  BY DEF Init, Announcing, Idle, Recorded
<1>2. \A s \in Statuses : Counts(s)
  BY <1>1, FS_EmptySet DEF Counts
<1>3. history \in Seq(Entries) /\ events \in [Statuses -> Nat]
  BY DEF Init
<1> QED
  BY <1>2, <1>3 DEF Counted

(* However handlers overlap and fail, no listener is told of a change that *)
(* the history does not have.                                              *)
THEOREM EventsRecorded == BidsSpec => []AnnouncedIsRecorded
<1>1. Counted => AnnouncedIsRecorded
  <2> SUFFICES ASSUME Counted, NEW s \in Statuses PROVE events[s] <= Cardinality(Recorded(s))
    BY DEF AnnouncedIsRecorded
  <2>1. /\ Cardinality(Announcing(s)) \in Nat /\ Cardinality(Recorded(s)) \in Nat
        /\ events[s] \in Nat
        /\ events[s] + Cardinality(Announcing(s)) <= Cardinality(Recorded(s))
    BY FS_CardinalityType, RecordedIsFinite DEF Counted, Counts
  <2> QED
    BY <2>1
<1>2. BidsInit => Counted
  BY CountedInit DEF BidsInit
<1> QED
  BY <1>1, <1>2, CountedStep, BidsInductive, PTL DEF BidsSpec

-----------------------------------------------------------------------------
(* Whose shipment it is and who carries it.  A save that is stale or mixes *)
(* up the columns still writes the id of somebody who had passed the       *)
(* guard of a carrier's route, and only who may post has a shipment.       *)
Carries(c) == c # NoCarrier => c \in Users /\ Role[c] \in {"carrier", "admin"}
OwnerPosts == Role[Owner] \in {"shipper", "admin"}

RolesFit ==
    /\ visited # {} => OwnerPosts
    /\ Carries(shipment.carrier)
    /\ \A r \in Requests : req[r] # Idle => OwnerPosts /\ Carries(req[r].entity.carrier)
    /\ \A b \in DOMAIN bids : Carries(bids[b].carrier)
    /\ \A r \in BidRequests :
         bidReq[r].pc \in {"findOwn", "insert"} => Carries(bidReq[r].carrier)

LEMMA HandleFits ==
    ASSUME IInv, RolesFit, NEW r \in Requests, Handle(r)
    PROVE  \E op, from, e : Begin(r, op, from, e) /\ OwnerPosts /\ Carries(e.carrier)
<1>1. shipment.status # "NONE" => OwnerPosts
  BY DEF IInv, RowSound, RolesFit
<1>2. shipment.status \in Statuses /\ Carries(shipment.carrier)
  BY DEF IInv, RowSound, Rows, RolesFit
<1>3. CASE Create(r)
  BY <1>2, <1>3, MovedIsRow, StatusFacts DEF Create, MayCreate, OwnerPosts
<1>4. CASE Begin(r, "edit", "PENDING", shipment) /\ shipment.status = "PENDING"
  BY <1>1, <1>2, <1>4
<1>5. ASSUME NEW u \in Users, Role[u] \in {"carrier", "admin"},
             Transition(r, u, "accept", "PENDING", [Moved("ACCEPTED") EXCEPT !.carrier = u])
      PROVE  \E op, from, e : Begin(r, op, from, e) /\ OwnerPosts /\ Carries(e.carrier)
  <2>1. PICK e : e = [Moved("ACCEPTED") EXCEPT !.carrier = u]
    OBVIOUS
  <2>2. e.carrier = u /\ shipment.status # "NONE" /\ Begin(r, "accept", "PENDING", e)
    BY <1>5, <2>1, AcceptedIsRow, StatusFacts DEF Transition, TransitionAllowed
  <2> QED
    BY <1>1, <1>5, <2>2 DEF Carries
<1>6. ASSUME NEW u \in Users, NEW op \in Ops, NEW from \in Statuses,
             NEW to \in Statuses \ {"ACCEPTED"}, Transition(r, u, op, from, Moved(to))
      PROVE  \E o, f, e : Begin(r, o, f, e) /\ OwnerPosts /\ Carries(e.carrier)
  BY <1>1, <1>2, <1>6, MovedIsRow, StatusFacts DEF Transition, TransitionAllowed
<1> QED
  BY <1>3, <1>4, <1>5, <1>6, HandleMoves

(* A step of a status handler.                                             *)
LEMMA StepFits ==
    ASSUME IInv, RolesFit, [Next]_vars, UNCHANGED bidVars
    PROVE  RolesFit'
<1>0. DOMAIN req = Requests /\ Carries(shipment.carrier) /\ (visited # {} => OwnerPosts)
  BY DEF IInv, RolesFit
<1>1. SUFFICES /\ visited' # {} => OwnerPosts
               /\ Carries(shipment'.carrier)
               /\ \A r \in Requests : req'[r] # Idle => OwnerPosts /\ Carries(req'[r].entity.carrier)
  BY <1>1 DEF RolesFit, bidVars, OwnerPosts, Carries
<1>2. ASSUME NEW r \in Requests, Handle(r)
      PROVE  <1>1!1
  <2>1. PICK op, from, e : Begin(r, op, from, e) /\ OwnerPosts /\ Carries(e.carrier)
    BY <1>2, HandleFits
  <2>2. /\ UNCHANGED <<shipment, visited>>
        /\ \A q \in Requests \ {r} : req'[q] = req[q]
        /\ req'[r].entity = e
    BY <1>0, <2>1 DEF Begin
  <2> QED
    BY <1>0, <2>1, <2>2 DEF RolesFit
<1>3. ASSUME NEW r \in Requests, Compare(r) \/ Record(r) \/ Release(r) \/ Emit(r) \/ Fail(r)
      PROVE  <1>1!1
  <2>1. req[r] # Idle /\ req[r] \in Busy
    BY <1>3 DEF IInv, ReqSound, Compare, Record, Release, Emit, Fail, Idle
  <2>2. /\ UNCHANGED <<shipment, visited>>
        /\ \A q \in Requests \ {r} : req'[q] = req[q]
        /\ req'[r] = Idle \/ req'[r].entity = req[r].entity
    BY <1>0, <1>3, <2>1 DEF Compare, Record, Release, Emit, Fail, Goto, Finish, Busy
  <2> QED
    BY <1>0, <2>1, <2>2 DEF RolesFit
<1>4. ASSUME NEW r \in Requests, Write(r)
      PROVE  <1>1!1
  <2>1. req[r] # Idle /\ req[r] \in Busy /\ req[r].entity \in Rows /\ shipment \in Rows
    BY <1>4 DEF IInv, RowSound, ReqSound, EntitySound, Write, Writing, Idle
  <2>2. OwnerPosts /\ Carries(req[r].entity.carrier)
    BY <2>1 DEF RolesFit
  <2>3. /\ \A q \in Requests \ {r} : req'[q] = req[q]
        /\ req'[r] = Idle \/ req'[r].entity = req[r].entity
    BY <1>0, <1>4, <2>1 DEF Write, Writing, Finish, Busy
  <2>4. shipment'.carrier \in {req[r].entity.carrier, shipment.carrier}
    BY <1>4, <2>1, UpdatedIsRow DEF Write, Writing
  <2> QED
    BY <1>0, <2>1, <2>2, <2>3, <2>4 DEF RolesFit
<1>5. CASE UNCHANGED vars
  BY <1>0, <1>5 DEF vars, RolesFit
<1> QED
  BY <1>2, <1>3, <1>4, <1>5 DEF Next, ReliableNext, Proceed

(* ... and one of a request for a bid.                                     *)
LEMMA BidStepFits ==
    ASSUME BidsIInv, RolesFit, NEW r \in BidRequests,
           \/ \E u \in Users : SubmitBid(r, u)
           \/ \E b \in DOMAIN bids : AcceptBid(r, b)
           \/ BidProceed(r) \/ FailBid(r)
    PROVE  RolesFit'
<1>0. /\ DOMAIN bidReq = BidRequests /\ bids \in Seq(BidRecords) /\ BidReqSound(bidReq[r])
      /\ \A b \in DOMAIN bids : Carries(bids[b].carrier)
      /\ Carries(shipment.carrier) /\ (visited # {} => OwnerPosts)
      /\ \A q \in Requests : req[q] # Idle => OwnerPosts /\ Carries(req[q].entity.carrier)
      /\ \A q \in BidRequests :
           bidReq[q].pc \in {"findOwn", "insert"} => Carries(bidReq[q].carrier)
  BY DEF BidsIInv, BidsSound, RolesFit
<1>1. req' = req
  BY DEF SubmitBid, AcceptBid, StartBidRequest, BidProceed, FindOwnBid, InsertBid, FindBid,
         SaveAccepted, RejectOthers, AssignCarrier, FailBid, vars
<1>2. \A q \in BidRequests :
        bidReq'[q].pc \in {"findOwn", "insert"} => Carries(bidReq'[q].carrier)
  <2>1. ASSUME NEW u \in Users, SubmitBid(r, u) PROVE <1>2
    <3>1. /\ Carries(u)
          /\ bidReq' = [bidReq EXCEPT ![r] = [pc |-> "findOwn", carrier |-> u]]
      BY <2>1 DEF SubmitBid, StartBidRequest, Carries
    <3> QED
      BY <1>0, <3>1
  <2>2. ASSUME NEW b \in DOMAIN bids, AcceptBid(r, b) PROVE <1>2
    BY <1>0, <2>2 DEF AcceptBid, StartBidRequest
  <2>3. CASE BidFinish(r)
    BY <1>0, <2>3 DEF BidFinish, Idle
  <2>4. ASSUME NEW pc, BidGoto(r, pc), bidReq[r].pc # "findOwn" => pc # "insert",
               pc # "findOwn", bidReq[r] # Idle
        PROVE  <1>2
    <3>1. /\ \A q \in BidRequests \ {r} : bidReq'[q] = bidReq[q]
          /\ bidReq'[r].pc = pc
          /\ bidReq[r].pc = "findOwn" => bidReq'[r].carrier = bidReq[r].carrier
      BY <1>0, <2>4 DEF BidGoto, BidReqSound, Idle
    <3> QED
      BY <1>0, <2>4, <3>1
  <2> QED
    BY <2>1, <2>2, <2>3, <2>4
       DEF BidProceed, FindOwnBid, InsertBid, FindBid, SaveAccepted, RejectOthers,
           AssignCarrier, FailBid, Idle
<1>3. \A b \in DOMAIN bids' : Carries(bids'[b].carrier)
  <2>1. CASE InsertBid(r)
    <3>1. PICK x : x = [carrier |-> bidReq[r].carrier, status |-> "PENDING"]
      OBVIOUS
    <3>2. Carries(x.carrier) /\ bids' = Append(bids, x)
      BY <1>0, <2>1, <3>1 DEF InsertBid
    <3>3. \A b \in DOMAIN bids' : (b \in DOMAIN bids /\ bids'[b] = bids[b]) \/ bids'[b] = x
      BY <1>0, <3>2
    <3> QED
      BY <1>0, <3>2, <3>3
  <2>2. CASE SaveAccepted(r) \/ RejectOthers(r)
    <3>1. \A b \in DOMAIN bids' : b \in DOMAIN bids /\ bids'[b].carrier = bids[b].carrier
      BY <1>0, <2>2, BidIsRecord DEF SaveAccepted, RejectOthers
    <3> QED
      BY <1>0, <3>1
  <2>3. CASE UNCHANGED bids
    BY <1>0, <2>3
  <2> QED
    BY <2>1, <2>2, <2>3
       DEF SubmitBid, AcceptBid, StartBidRequest, BidProceed, FindOwnBid, FindBid,
           AssignCarrier, FailBid
<1>4. Carries(shipment'.carrier) /\ (visited' # {} => OwnerPosts)
  <2>1. CASE AssignCarrier(r)
    <3>1. bidReq[r].bid \in DOMAIN bids /\ "PENDING" \in visited
      BY <1>0, <2>1 DEF AssignCarrier, BidReqSound, Idle
    <3> QED
      BY <1>0, <2>1, <3>1 DEF AssignCarrier
  <2>2. CASE UNCHANGED <<shipment, visited>>
    BY <1>0, <2>2
  <2> QED
    BY <2>1, <2>2
       DEF SubmitBid, AcceptBid, StartBidRequest, BidProceed, FindOwnBid, InsertBid, FindBid,
           SaveAccepted, RejectOthers, FailBid, vars
<1> QED
  BY <1>0, <1>1, <1>2, <1>3, <1>4 DEF RolesFit, OwnerPosts, Carries

LEMMA RolesFitAlways == BidsSpec => []RolesFit
<1>1. BidsInit => RolesFit
  BY DEF BidsInit, Init, RolesFit, Carries, Idle
<1>2. BidsIInv /\ RolesFit /\ [BidsNext]_allVars => RolesFit'
  <2> SUFFICES ASSUME BidsIInv, RolesFit, [BidsNext]_allVars PROVE RolesFit'
    OBVIOUS
  <2>1. ASSUME [Next]_vars, UNCHANGED bidVars PROVE RolesFit'
    BY <2>1, StepFits DEF BidsIInv
  <2> QED
    BY <2>1, BidStepFits DEF BidsNext, BidsReliableNext, Next, allVars
<1> QED
  BY <1>1, <1>2, BidsInductive, PTL DEF BidsSpec

LEMMA OffersFit ==
    ASSUME BidsIInv, RolesFit, NEW u \in Users, NEW a \in Offers(u)
    PROVE  Takes(u, a) <=> ~InVain(u, a)
<1>1. /\ shipment.status \in Statuses /\ Role[u] \in {"shipper", "carrier", "admin"}
      /\ shipment.status # "NONE" => OwnerPosts
      /\ IsCarrier(u) => Role[u] \in {"carrier", "admin"}
  BY UsersAssumption
     DEF BidsIInv, IInv, RowSound, Rows, RolesFit, Carries, IsCarrier
<1>2. IsShipper(u) /\ shipment.status # "NONE" => Role[u] \in {"shipper", "admin"}
  BY <1>1 DEF IsShipper, OwnerPosts
<1>3. \A to : Allowed(u, to) <=> /\ to \in NextStatuses[shipment.status]
                                 /\ Role[u] \in RolesFrom(shipment.status)
  BY DEF Allowed, TransitionAllowed
<1>4. \/ a \in OffersOnPage(u)
      \/ a = "resolve" /\ IsAdmin(u) /\ shipment.status = "DISPUTED"
      \/ a \in {"pickup", "deliver"} /\ IsCarrier(u) /\ shipment.status = "ACCEPTED"
  BY DEF Offers, OffersOnDisputes, OffersOnCarrierDashboard, Actionable
<1>5. CASE a = "accept"
  BY <1>1, <1>3, <1>4, <1>5, StatusFacts DEF OffersOnPage, MayAccept, RolesFrom, InVain, Takes
<1>6. CASE a = "pickup"
  BY <1>1, <1>3, <1>4, <1>6, StatusFacts
     DEF OffersOnPage, MayMarkInTransit, MayCarry, RolesFrom, InVain, Takes
<1>7. CASE a = "deliver"
  BY <1>1, <1>3, <1>4, <1>7, StatusFacts
     DEF OffersOnPage, MayMarkDelivered, MayCarry, RolesFrom, InVain, Takes
<1>8. CASE a = "confirm"
  BY <1>1, <1>2, <1>3, <1>4, <1>8, StatusFacts
     DEF OffersOnPage, MayConfirmDelivery, RolesFrom, InVain, Takes
<1>9. CASE a = "cancel"
  BY <1>1, <1>3, <1>4, <1>9, StatusFacts DEF OffersOnPage, MayCancel, RolesFrom, InVain, Takes
<1>10. CASE a = "dispute"
  BY <1>1, <1>2, <1>3, <1>4, <1>10, StatusFacts
     DEF OffersOnPage, MayRaiseDispute, IsParty, RolesFrom, InVain, Takes
<1>11. CASE a = "resolve"
  BY <1>1, <1>3, <1>4, <1>11, StatusFacts
     DEF OffersOnPage, MayResolveDispute, IsAdmin, RolesFrom, InVain, Takes
<1> QED
  BY <1>4, <1>5, <1>6, <1>7, <1>8, <1>9, <1>10, <1>11 DEF OffersOnPage

(* A page that is up to date offers what the handlers then accept, but for *)
(* the four offers that are made in vain, however handlers and requests    *)
(* for bids overlap, fail or repeat.                                       *)
THEOREM OffersAreTaken == BidsSpec => []OffersHold
<1>1. BidsIInv /\ RolesFit => OffersHold
  BY OffersFit DEF OffersHold
<1> QED
  BY <1>1, BidsInductive, RolesFitAlways, PTL

-----------------------------------------------------------------------------
(* One request at a time, bids included.                                   *)
Alone ==
    /\ \A r, s \in Requests : req[r] # Idle /\ req[s] # Idle => r = s
    /\ \A r, s \in BidRequests : bidReq[r] # Idle /\ bidReq[s] # Idle => r = s
    /\ \A r \in Requests, s \in BidRequests : req[r] = Idle \/ bidReq[s] = Idle

(* The entity of a status handler is one step of the table ahead of the    *)
(* row, that of an edit is the row.                                        *)
Strictly(row, e) ==
    \/ e.status = "PENDING" /\ row.status = "NONE" /\ e.carrier = row.carrier
    \/ /\ e.status \in NextStatuses[row.status] \ {"ACCEPTED"}
       /\ e.carrier = row.carrier
    \/ /\ e.status = "ACCEPTED"
       /\ "ACCEPTED" \in NextStatuses[row.status]
       /\ e.carrier \in Users

FreshReq(q, row) ==
    /\ q.pc \in {"save", "write"} =>
         IF q.op = "edit" THEN q.entity = row ELSE Strictly(row, q.entity)
    /\ q.pc = "write" => Updated(row, q.entity, q.changed) = q.entity

Fresh == \A r \in Requests : FreshReq(req[r], shipment)

(* A request for a bid finds the shipment open to its end, and between its *)
(* first and its last write the bid it accepts is the only one accepted.   *)
Others(b) == \A c \in DOMAIN bids \ {b} : bids[c].status = "REJECTED"

Won ==
    \A b \in Accepted :
        /\ shipment.carrier = bids[b].carrier
        /\ shipment.status \notin {"NONE", "PENDING"}
        /\ Others(b)

BidsFollow ==
    /\ (\A r \in BidRequests : bidReq[r].pc \notin {"reject", "assign"}) => Won
    /\ \A r \in BidRequests : bidReq[r] # Idle =>
         /\ shipment.status = "PENDING"
         /\ bidReq[r].pc \in {"reject", "assign"} => Accepted = {bidReq[r].bid}
         /\ bidReq[r].pc = "assign" => Others(bidReq[r].bid)

(* The history leads to the status of the row, or, for a handler that has  *)
(* saved, to the entry it is about to make.                                *)
LastOf == history[Len(history)].to

TrailTo(s) ==
    history # <<>> =>
        LastOf = s \/ (Accepted # {} /\ LastOf = "PENDING" /\ s = "ACCEPTED")

Trail ==
    /\ history \in Seq(Entries)
    /\ \A i \in DOMAIN history : history[i].to # "NONE"
    /\ \A i \in 2..Len(history) : Leads(history[i - 1].to, history[i].to)
    /\ (\A r \in Requests : req[r].pc # "record") => TrailTo(shipment.status)
    /\ \A r \in Requests : req[r].pc = "record" =>
         /\ shipment.status = req[r].entity.status
         /\ history # <<>> => Leads(LastOf, shipment.status)

OneInv == BidsIInv /\ begun \in Nat /\ Alone /\ Fresh /\ BidsFollow /\ Trail

OneStep == BidsReliableNext /\ (begun' # begun => Quiet)

(* The steps of a status handler and of a request for a bid.               *)
MainStep(r) ==
    \/ /\ Quiet
       /\ \E op, from, e :
             /\ Begin(r, op, from, e)
             /\ IF op = "edit" THEN e = shipment ELSE Strictly(shipment, e)
    \/ Proceed(r)

BidMove(r) ==
    \/ /\ Quiet /\ shipment.status = "PENDING"
       /\ \E q : StartBidRequest(r, q) /\ q.pc \in {"findOwn", "findBid"}
    \/ BidProceed(r)

LEMMA OneMoves ==
    ASSUME OneInv, OneStep
    PROVE  \/ \E r \in Requests : MainStep(r) /\ UNCHANGED bidVars
           \/ \E r \in BidRequests : BidMove(r)
<1>0. IInv /\ begun \in Nat /\ (begun' # begun => Quiet)
  BY DEF OneInv, BidsIInv, OneStep
<1>1. ASSUME NEW r \in Requests, Handle(r) PROVE MainStep(r)
  <2>1. ASSUME NEW op, NEW from, NEW e, Begin(r, op, from, e),
               IF op = "edit" THEN e = shipment ELSE Strictly(shipment, e)
        PROVE  MainStep(r)
    <3>1. Quiet
      BY <1>0, <2>1 DEF Begin
    <3> QED
      BY <2>1, <3>1 DEF MainStep
  <2>2. CASE Create(r)
    <3>1. Strictly(shipment, Moved("PENDING")) /\ Begin(r, "create", "NONE", Moved("PENDING"))
      BY <1>0, <2>2, MovedIsRow, StatusFacts DEF Create, MayCreate, Strictly
    <3> QED
      BY <2>1, <3>1
  <2>3. CASE Begin(r, "edit", "PENDING", shipment)
    BY <2>1, <2>3
  <2>4. ASSUME NEW u \in Users,
               Transition(r, u, "accept", "PENDING", [Moved("ACCEPTED") EXCEPT !.carrier = u])
        PROVE  MainStep(r)
    <3>1. Strictly(shipment, [Moved("ACCEPTED") EXCEPT !.carrier = u])
      BY <1>0, <2>4, AcceptedIsRow DEF Strictly, Transition, TransitionAllowed
    <3> QED
      BY <2>1, <2>4, <3>1 DEF Transition
  <2>5. ASSUME NEW u \in Users, NEW op \in Ops \ {"edit"}, NEW from \in Statuses,
               NEW to \in Statuses \ {"ACCEPTED"}, Transition(r, u, op, from, Moved(to))
        PROVE  MainStep(r)
    <3>1. Strictly(shipment, Moved(to))
      BY <1>0, <2>5, MovedIsRow DEF Strictly, Transition, TransitionAllowed
    <3> QED
      BY <2>1, <2>5, <3>1 DEF Transition
  <2> QED
    BY <1>0, <1>1, <2>2, <2>3, <2>4, <2>5, HandleMoves
<1>2. ASSUME NEW r \in BidRequests,
             \/ \E u \in Users : SubmitBid(r, u)
             \/ \E b \in DOMAIN bids : AcceptBid(r, b)
      PROVE  BidMove(r)
  <2>1. ASSUME NEW q, StartBidRequest(r, q), q.pc \in {"findOwn", "findBid"},
               shipment.status = "PENDING"
        PROVE  BidMove(r)
    <3>1. Quiet
      BY <1>0, <2>1 DEF StartBidRequest
    <3> QED
      BY <2>1, <3>1 DEF BidMove
  <2>2. ASSUME NEW u \in Users, SubmitBid(r, u) PROVE BidMove(r)
    BY <2>1, <2>2 DEF SubmitBid
  <2>3. ASSUME NEW b \in DOMAIN bids, AcceptBid(r, b) PROVE BidMove(r)
    BY <2>1, <2>3 DEF AcceptBid
  <2> QED
    BY <1>2, <2>2, <2>3
<1> QED
  BY <1>1, <1>2 DEF OneStep, BidsReliableNext, ReliableNext, MainStep, BidMove

LEMMA AloneMain ==
    ASSUME Alone, NEW r \in Requests, req[r] # Idle \/ Quiet,
           \A q \in Requests \ {r} : req'[q] = req[q], UNCHANGED bidReq
    PROVE  Alone'
  BY DEF Alone, Quiet, AllIdle

LEMMA AloneBid ==
    ASSUME Alone, NEW r \in BidRequests, bidReq[r] # Idle \/ Quiet,
           \A q \in BidRequests \ {r} : bidReq'[q] = bidReq[q], UNCHANGED req
    PROVE  Alone'
  BY DEF Alone, Quiet, AllIdle

(* A step that leaves the bids, the row and the history alone.             *)
LEMMA BidsFollowStill ==
    ASSUME BidsFollow, UNCHANGED <<bids, bidReq, shipment>> PROVE BidsFollow'
  BY DEF BidsFollow, Won, Others, Accepted

LEMMA TrailStill ==
    ASSUME Trail, UNCHANGED <<history, bids, shipment>>,
           \A q \in Requests : req'[q].pc # "record" /\ req[q].pc # "record"
    PROVE  Trail'
  BY DEF Trail, TrailTo, LastOf, Leads, Accepted

(* A status handler's part.                                                *)
LEMMA MainBegins ==
    ASSUME OneInv, NEW r \in Requests, Quiet, UNCHANGED bidVars,
           NEW op, NEW from, NEW e, Begin(r, op, from, e),
           IF op = "edit" THEN e = shipment ELSE Strictly(shipment, e)
    PROVE  begun' \in Nat /\ Alone' /\ Fresh' /\ BidsFollow' /\ Trail' /\ shipment' = shipment
<1>1. /\ DOMAIN req = Requests /\ UNCHANGED <<shipment, history, bids, bidReq>>
      /\ begun' = begun + 1 /\ begun \in Nat
      /\ \A q \in Requests : req[q] = Idle
  BY DEF OneInv, BidsIInv, IInv, Begin, bidVars, Quiet, AllIdle
<1>2. /\ req'[r].pc = "save" /\ req'[r].op = op /\ req'[r].entity = e
      /\ \A q \in Requests \ {r} : req'[q] = Idle
  BY <1>1 DEF Begin
<1>3. Alone'
  BY <1>1, <1>2, AloneMain DEF OneInv
<1>4. Fresh'
  BY <1>1, <1>2 DEF Fresh, FreshReq, Strictly, Idle
<1>5. BidsFollow'
  BY <1>1, BidsFollowStill DEF OneInv
<1>6. Trail'
  BY <1>1, <1>2, TrailStill DEF OneInv, Idle
<1> QED
  BY <1>1, <1>3, <1>4, <1>5, <1>6

LEMMA OthersIdle ==
    ASSUME Alone, NEW r \in Requests, req[r] # Idle
    PROVE  /\ \A q \in Requests \ {r} : req[q] = Idle
           /\ \A q \in BidRequests : bidReq[q] = Idle
  BY DEF Alone

LEMMA MainCompares ==
    ASSUME OneInv, NEW r \in Requests, Compare(r), UNCHANGED bidVars
    PROVE  begun' \in Nat /\ Alone' /\ Fresh' /\ BidsFollow' /\ Trail' /\ shipment' = shipment
<1> DEFINE e == req[r].entity
           changed == {c \in {"status", "carrier"} : e[c] # shipment[c]}
<1>1. /\ DOMAIN req = Requests /\ UNCHANGED <<shipment, history, bids, bidReq, begun>>
      /\ begun \in Nat /\ req[r].pc = "save" /\ req[r] # Idle /\ req[r] \in Busy
      /\ e \in Rows /\ shipment \in Rows
      /\ \A q \in Requests \ {r} : req[q] = Idle
  BY OthersIdle
     DEF OneInv, BidsIInv, IInv, RowSound, ReqSound, EntitySound, Compare, bidVars, Idle
<1>2. /\ req'[r].pc = "write" /\ req'[r].op = req[r].op /\ req'[r].entity = e
      /\ req'[r].changed = changed
      /\ \A q \in Requests \ {r} : req'[q] = Idle
  BY <1>1 DEF Compare, Busy
<1>3. Updated(shipment, e, changed) = e
  BY <1>1 DEF Updated, Rows
<1> HIDE DEF changed
<1>4. Alone'
  BY <1>1, <1>2, AloneMain DEF OneInv
<1>5. FreshReq(req'[r], shipment)
  BY <1>1, <1>2, <1>3 DEF OneInv, Fresh, FreshReq
<1>6. Fresh'
  BY <1>1, <1>2, <1>5 DEF Fresh, FreshReq, Strictly, Idle
<1>7. BidsFollow'
  BY <1>1, BidsFollowStill DEF OneInv
<1>8. Trail'
  BY <1>1, <1>2, TrailStill DEF OneInv, Idle
<1> QED
  BY <1>1, <1>4, <1>6, <1>7, <1>8

(* A row that has a winner keeps its carrier along the table.              *)
LEMMA WinnerKept ==
    ASSUME NEW row \in Rows, NEW e \in Rows, e = row \/ Strictly(row, e),
           row.status \notin {"NONE", "PENDING"}
    PROVE  e.carrier = row.carrier /\ e.status \notin {"NONE", "PENDING"}
  BY StatusFacts DEF Strictly, Rows

(* One step of the table leads on from where the history leads to.         *)
LEMMA TrailLeads ==
    ASSUME shipment \in Rows, NEW e \in Rows, Strictly(shipment, e),
           TrailTo(shipment.status), history # <<>>, LastOf # "NONE"
    PROVE  Leads(LastOf, e.status)
<1>1. shipment.status \in Statuses
  BY DEF Rows
<1>2. e.status \in NextStatuses[shipment.status] \/ shipment.status = "NONE"
  BY DEF Strictly
<1>3. \/ LastOf = shipment.status
      \/ Accepted # {} /\ LastOf = "PENDING" /\ shipment.status = "ACCEPTED"
  BY DEF TrailTo
<1> QED
  BY <1>1, <1>2, <1>3 DEF Leads

LEMMA MainWrites ==
    ASSUME OneInv, NEW r \in Requests, Write(r), UNCHANGED bidVars
    PROVE  /\ begun' \in Nat /\ Alone' /\ Fresh' /\ BidsFollow' /\ Trail'
           /\ shipment' \in Rows /\ StepFrom(shipment, shipment')
<1> DEFINE e == req[r].entity
<1>1. /\ DOMAIN req = Requests /\ UNCHANGED <<history, bids, bidReq, begun>>
      /\ begun \in Nat /\ req[r].pc = "write" /\ req[r] # Idle /\ req[r] \in Busy
      /\ e \in Rows /\ e.status # "NONE" /\ shipment \in Rows
      /\ \A q \in Requests \ {r} : req[q] = Idle
      /\ \A q \in BidRequests : bidReq[q] = Idle
  BY OthersIdle
     DEF OneInv, BidsIInv, IInv, RowSound, ReqSound, EntitySound, Write, Writing, bidVars, Idle
<1>2. /\ shipment' = e
      /\ IF req[r].op = "edit" THEN e = shipment ELSE Strictly(shipment, e)
  BY <1>1 DEF OneInv, Fresh, FreshReq, Write, Writing
<1>3. /\ IF req[r].op = "edit" THEN req'[r] = Idle
         ELSE req'[r].pc = "record" /\ req'[r].entity = e
      /\ \A q \in Requests \ {r} : req'[q] = Idle
  BY <1>1 DEF Write, Writing, Finish, Busy
<1>4. Alone'
  BY <1>1, <1>3, AloneMain DEF OneInv
<1>5. Fresh'
  BY <1>3 DEF Fresh, FreshReq, Idle
<1>6. BidsFollow'
  <2>1. Won
    BY <1>1 DEF OneInv, BidsFollow, Idle
  <2>2. ASSUME NEW b \in Accepted
        PROVE  shipment'.carrier = bids[b].carrier /\ shipment'.status \notin {"NONE", "PENDING"}
    BY <1>1, <1>2, <2>1, WinnerKept DEF Won
  <2>3. Won'
    BY <1>1, <2>1, <2>2 DEF Won, Accepted, Others
  <2> QED
    BY <1>1, <2>3 DEF BidsFollow
<1>7. Trail'
  <2>1. /\ history \in Seq(Entries)
        /\ \A i \in DOMAIN history : history[i].to # "NONE"
        /\ \A i \in 2..Len(history) : Leads(history[i - 1].to, history[i].to)
        /\ TrailTo(shipment.status)
    BY <1>1 DEF OneInv, Trail, Idle
  <2>2. history # <<>> => LastOf # "NONE"
    BY <2>1 DEF LastOf
  <2>3. CASE req[r].op = "edit"
    <3>1. shipment' = shipment /\ \A q \in Requests : req'[q] = Idle /\ req[q].pc # "record"
      BY <1>1, <1>2, <1>3, <2>3 DEF Idle
    <3> QED
      BY <1>1, <3>1, TrailStill DEF OneInv, Idle
  <2>4. CASE req[r].op # "edit"
    <3>1. history # <<>> => Leads(LastOf, e.status)
      BY <1>1, <1>2, <2>1, <2>2, <2>4, TrailLeads
    <3>2. /\ req'[r].pc = "record" /\ req'[r].entity = e
          /\ \A q \in Requests : req'[q].pc = "record" => q = r
      BY <1>3, <2>4 DEF Idle
    <3> QED
      BY <1>1, <1>2, <2>1, <3>1, <3>2 DEF Trail, LastOf, Leads, Accepted
  <2> QED
    BY <2>3, <2>4
<1>8. StepFrom(shipment, shipment')
  BY <1>2 DEF StepFrom, Strictly
<1> QED
  BY <1>1, <1>2, <1>4, <1>5, <1>6, <1>7, <1>8

LEMMA MainRecords ==
    ASSUME OneInv, NEW r \in Requests, Record(r), UNCHANGED bidVars
    PROVE  begun' \in Nat /\ Alone' /\ Fresh' /\ BidsFollow' /\ Trail' /\ shipment' = shipment
<1> DEFINE x == [from |-> req[r].from, to |-> req[r].entity.status]
           n == Len(history)
<1>1. /\ DOMAIN req = Requests /\ UNCHANGED <<shipment, bids, bidReq, begun>>
      /\ begun \in Nat /\ req[r].pc = "record" /\ req[r] # Idle /\ req[r] \in Busy
      /\ req[r].entity.status # "NONE"
      /\ \A q \in Requests \ {r} : req[q] = Idle
  BY OthersIdle DEF OneInv, BidsIInv, IInv, ReqSound, EntitySound, Record, bidVars, Idle
<1>2. /\ req'[r].pc \in {"release", "emit"}
      /\ \A q \in Requests \ {r} : req'[q] = Idle
  BY <1>1 DEF Record, Goto, Busy
<1>3. x \in Entries /\ x.to # "NONE" /\ x.to = shipment.status
  BY <1>1 DEF Entries, Busy, Rows, OneInv, Trail
<1>4. history' = Append(history, x)
  BY DEF Record
<1>5. /\ history \in Seq(Entries)
      /\ \A i \in DOMAIN history : history[i].to # "NONE"
      /\ \A i \in 2..n : Leads(history[i - 1].to, history[i].to)
      /\ history # <<>> => Leads(history[n].to, shipment.status)
  BY <1>1 DEF OneInv, Trail, LastOf
<1> HIDE DEF x
<1>6. /\ history' \in Seq(Entries) /\ Len(history') = n + 1 /\ n \in Nat
      /\ history'[n + 1] = x /\ \A i \in 1..n : history'[i] = history[i]
      /\ history' # <<>>
  BY <1>3, <1>4, <1>5
<1>7. \A i \in DOMAIN history' : history'[i].to # "NONE"
  BY <1>3, <1>5, <1>6
<1>8. ASSUME NEW i \in 2..Len(history')
      PROVE  Leads(history'[i - 1].to, history'[i].to)
  <2>1. CASE i \in 2..n
    BY <1>5, <1>6, <2>1
  <2>2. CASE i = n + 1
    <3>1. n \in 1..n /\ i - 1 = n /\ history # <<>>
      BY <1>5, <1>6, <1>8, <2>2
    <3> QED
      BY <1>3, <1>5, <1>6, <2>2, <3>1
  <2> QED
    BY <1>6, <1>8, <2>1, <2>2
<1>9. Trail'
  <2>1. LastOf' = shipment.status
    BY <1>3, <1>6 DEF LastOf
  <2>2. \A q \in Requests : req'[q].pc # "record"
    BY <1>2 DEF Idle
  <2> QED
    BY <1>1, <1>6, <1>7, <1>8, <2>1, <2>2 DEF Trail, TrailTo, Leads, Accepted
<1>10. Alone'
  BY <1>1, <1>2, AloneMain DEF OneInv
<1>11. Fresh'
  BY <1>2 DEF Fresh, FreshReq, Idle
<1>12. BidsFollow'
  BY <1>1, BidsFollowStill DEF OneInv
<1> QED
  BY <1>1, <1>9, <1>10, <1>11, <1>12

LEMMA MainEnds ==
    ASSUME OneInv, NEW r \in Requests, Release(r) \/ Emit(r), UNCHANGED bidVars
    PROVE  begun' \in Nat /\ Alone' /\ Fresh' /\ BidsFollow' /\ Trail' /\ shipment' = shipment
<1>1. /\ DOMAIN req = Requests /\ UNCHANGED <<shipment, history, bids, bidReq, begun>>
      /\ begun \in Nat /\ req[r].pc \in {"release", "emit"} /\ req[r] # Idle /\ req[r] \in Busy
      /\ \A q \in Requests \ {r} : req[q] = Idle
  BY OthersIdle DEF OneInv, BidsIInv, IInv, ReqSound, Release, Emit, bidVars, Idle
<1>2. /\ req'[r].pc \in {"emit", "idle"}
      /\ \A q \in Requests \ {r} : req'[q] = Idle
  BY <1>1 DEF Release, Emit, Goto, Finish, Busy, Idle
<1>3. Alone'
  BY <1>1, <1>2, AloneMain DEF OneInv
<1>4. Fresh'
  BY <1>2 DEF Fresh, FreshReq, Idle
<1>5. BidsFollow'
  BY <1>1, BidsFollowStill DEF OneInv
<1>6. Trail'
  BY <1>1, <1>2, TrailStill DEF OneInv, Idle
<1> QED
  BY <1>1, <1>3, <1>4, <1>5, <1>6

(* The part of a request for a bid.                                        *)
LEMMA BidAlone ==
    ASSUME OneInv, NEW r \in BidRequests, BidMove(r)
    PROVE  /\ UNCHANGED <<req, history>> /\ begun' \in Nat /\ Alone' /\ Fresh'
           /\ DOMAIN bidReq = BidRequests
           /\ bids \in Seq(BidRecords) /\ shipment \in Rows /\ shipment.status = "PENDING"
           /\ \A q \in Requests : req[q] = Idle
           /\ \A q \in BidRequests \ {r} : bidReq[q] = Idle /\ bidReq'[q] = Idle
<1>1. /\ DOMAIN bidReq = BidRequests /\ bids \in Seq(BidRecords) /\ shipment \in Rows
      /\ begun \in Nat /\ Alone /\ BidsFollow
  BY DEF OneInv, BidsIInv, BidsSound, IInv, RowSound
<1>2. /\ UNCHANGED <<req, history>> /\ begun' \in Nat
      /\ \A q \in BidRequests \ {r} : bidReq'[q] = bidReq[q]
      /\ bidReq[r] # Idle \/ (Quiet /\ shipment.status = "PENDING")
  <2>1. CASE BidProceed(r)
    <3>1. UNCHANGED <<req, history, begun>> /\ bidReq[r] # Idle
      BY <2>1 DEF BidProceed, FindOwnBid, InsertBid, FindBid, SaveAccepted, RejectOthers,
           AssignCarrier, vars, Idle
    <3>2. BidFinish(r) \/ \E pc : BidGoto(r, pc)
      BY <2>1 DEF BidProceed, FindOwnBid, InsertBid, FindBid, SaveAccepted, RejectOthers,
           AssignCarrier
    <3> QED
      BY <1>1, <3>1, <3>2 DEF BidFinish, BidGoto
  <2>2. CASE Quiet /\ shipment.status = "PENDING" /\ \E q : StartBidRequest(r, q)
    BY <1>1, <2>2 DEF StartBidRequest
  <2> QED
    BY <2>1, <2>2 DEF BidMove
<1>3. Alone'
  BY <1>1, <1>2, AloneBid
<1>4. /\ \A q \in Requests : req[q] = Idle
      /\ \A q \in BidRequests \ {r} : bidReq[q] = Idle
  BY <1>1, <1>2 DEF Alone, Quiet, AllIdle
<1>5. shipment.status = "PENDING"
  BY <1>1, <1>2 DEF BidsFollow
<1>6. Fresh'
  BY <1>2, <1>4 DEF Fresh, FreshReq, Idle
<1> QED
  BY <1>1, <1>2, <1>3, <1>4, <1>5, <1>6

(* The history is not touched, and leads to the row as it is then.         *)
LEMMA TrailWithBids ==
    ASSUME Trail, UNCHANGED <<req, history>>, \A q \in Requests : req[q] = Idle,
           Accepted # {} => Accepted' # {},
           shipment' = shipment \/ (shipment.status = "PENDING" /\ shipment'.status = "ACCEPTED"
                                    /\ Accepted' # {})
    PROVE  Trail'
<1>1. \A q \in Requests : req[q].pc # "record" /\ req'[q].pc # "record"
  BY DEF Idle
<1>2. TrailTo(shipment.status)
  BY <1>1 DEF Trail
<1>3. TrailTo(shipment.status)'
  BY <1>2 DEF TrailTo, LastOf
<1>4. \A from, to \in Statuses : Leads(from, to) => Leads(from, to)'
  BY DEF Leads
<1>5. \A i \in 2..Len(history) : history[i - 1].to \in Statuses /\ history[i].to \in Statuses
  <2>1. \A i \in DOMAIN history : history[i] \in Entries
    BY DEF Trail
  <2>2. \A i \in 2..Len(history) : i \in DOMAIN history /\ i - 1 \in DOMAIN history
    BY DEF Trail
  <2> QED
    BY <2>1, <2>2 DEF Entries
<1>6. \A i \in 2..Len(history) : Leads(history[i - 1].to, history[i].to)'
  BY <1>4, <1>5 DEF Trail, Leads
<1> QED
  BY <1>1, <1>3, <1>6 DEF Trail

LEMMA BidMoveKeeps ==
    ASSUME OneInv, NEW r \in BidRequests, BidMove(r)
    PROVE  /\ begun' \in Nat /\ Alone' /\ Fresh' /\ BidsFollow' /\ Trail'
           /\ shipment' \in Rows /\ StepFrom(shipment, shipment')
<1>0. /\ UNCHANGED <<req, history>> /\ begun' \in Nat /\ Alone' /\ Fresh' /\ Trail
      /\ DOMAIN bidReq = BidRequests /\ BidReqSound(bidReq[r])
      /\ bids \in Seq(BidRecords) /\ shipment \in Rows /\ shipment.status = "PENDING"
      /\ \A q \in Requests : req[q] = Idle
      /\ \A q \in BidRequests \ {r} : bidReq[q] = Idle /\ bidReq'[q] = Idle
  BY BidAlone DEF OneInv, BidsIInv, BidsSound
<1>1. bidReq[r].pc \notin {"reject", "assign"} => Accepted = {}
  <2> SUFFICES ASSUME bidReq[r].pc \notin {"reject", "assign"} PROVE Accepted = {}
    OBVIOUS
  <2>1. Won
    BY <1>0 DEF OneInv, BidsFollow, Idle
  <2> QED
    BY <1>0, <2>1 DEF Won
<1>2. SUFFICES /\ BidsFollow' /\ (Accepted # {} => Accepted' # {})
               /\ \/ shipment' = shipment
                  \/ /\ Accepted' # {} /\ shipment'.status = "ACCEPTED"
                     /\ shipment'.carrier \in Users /\ shipment' \in Rows
  <2>1. Trail'
    BY <1>0, <1>2, TrailWithBids
  <2>2. shipment' \in Rows /\ StepFrom(shipment, shipment')
    BY <1>0, <1>2, StatusFacts DEF StepFrom
  <2> QED
    BY <1>0, <1>2, <2>1, <2>2
(* As long as nothing is accepted, the rest is about this request.         *)
<1>3. ASSUME shipment' = shipment, Accepted' = {}, bidReq'[r].pc \notin {"reject", "assign"}
      PROVE  BidsFollow'
  BY <1>0, <1>3 DEF BidsFollow, Won, Idle
<1>4. CASE \E q : StartBidRequest(r, q) /\ q.pc \in {"findOwn", "findBid"}
  <2>1. PICK q : StartBidRequest(r, q) /\ q.pc \in {"findOwn", "findBid"}
    BY <1>4
  <2>2. bidReq[r].pc = "idle" /\ UNCHANGED <<shipment, bids>> /\ bidReq'[r] = q
    BY <1>0, <2>1 DEF StartBidRequest, Idle
  <2>3. Accepted = {} /\ Accepted' = {}
    BY <1>1, <2>2 DEF Accepted
  <2> QED
    BY <1>3, <2>1, <2>2, <2>3
<1>5. CASE FindOwnBid(r) \/ FindBid(r)
  <2>1. UNCHANGED <<shipment, bids>> /\ bidReq[r].pc \in {"findOwn", "findBid"}
    BY <1>5 DEF FindOwnBid, FindBid, vars
  <2>2. bidReq'[r].pc \in {"idle", "insert", "accept"}
    BY <1>0, <1>5 DEF FindOwnBid, FindBid, BidFinish, BidGoto, BidReqSound, Idle
  <2>3. Accepted = {} /\ Accepted' = {}
    BY <1>1, <2>1 DEF Accepted
  <2> QED
    BY <1>3, <2>1, <2>2, <2>3
<1>6. CASE InsertBid(r)
  <2> DEFINE x == [carrier |-> bidReq[r].carrier, status |-> "PENDING"]
  <2>1. /\ shipment' = shipment /\ bidReq'[r].pc = "idle" /\ bidReq[r].pc = "insert"
        /\ bids' = Append(bids, x) /\ x.status = "PENDING"
    BY <1>0, <1>6 DEF InsertBid, BidFinish, Idle, vars
  <2> HIDE DEF x
  <2>2. Accepted = {}
    BY <1>1, <2>1
  <2>3. \A b \in DOMAIN bids' : (b \in DOMAIN bids /\ bids'[b] = bids[b]) \/ bids'[b] = x
    BY <1>0, <2>1
  <2>4. Accepted' = {}
    BY <2>1, <2>2, <2>3 DEF Accepted
  <2> QED
    BY <1>3, <2>1, <2>2, <2>4
<1>7. CASE SaveAccepted(r)
  <2> DEFINE b == bidReq[r].bid
  <2>1. /\ shipment' = shipment /\ bidReq[r].pc = "accept" /\ b \in DOMAIN bids
        /\ bidReq'[r].pc = "reject" /\ bidReq'[r].bid = b
    BY <1>0, <1>7 DEF SaveAccepted, BidGoto, BidReqSound, Idle, vars
  <2>2. /\ DOMAIN bids' = DOMAIN bids /\ bids'[b].status = "ACCEPTED"
        /\ \A c \in DOMAIN bids \ {b} : bids'[c] = bids[c]
    BY <1>0, <1>7, <2>1, BidIsRecord DEF SaveAccepted
  <2>3. Accepted = {}
    BY <1>1, <2>1
  <2>4. Accepted' = {b}
    BY <2>1, <2>2, <2>3 DEF Accepted
  <2>5. BidsFollow'
    BY <1>0, <2>1, <2>4 DEF BidsFollow
  <2> QED
    BY <2>1, <2>4, <2>5
<1>8. CASE RejectOthers(r)
  <2> DEFINE b == bidReq[r].bid
  <2>1. /\ shipment' = shipment /\ bidReq[r].pc = "reject" /\ b \in DOMAIN bids
        /\ bidReq'[r].pc = "assign" /\ bidReq'[r].bid = b
    BY <1>0, <1>8 DEF RejectOthers, BidGoto, BidReqSound, Idle, vars
  <2>2. Accepted = {b}
    BY <2>1 DEF OneInv, BidsFollow, Idle
  <2>3. DOMAIN bids' = DOMAIN bids /\ bids'[b].status = "ACCEPTED"
    BY <1>0, <1>8, <2>1, <2>2 DEF RejectOthers, Accepted
  <2>4. ASSUME NEW c \in DOMAIN bids \ {b} PROVE bids'[c].status = "REJECTED"
    <3>1. bids[c].status \in {"PENDING", "REJECTED"}
      BY <1>0, <2>2, BidIsRecord DEF Accepted, BidRecords
    <3> QED
      BY <1>0, <1>8, <2>1, <3>1, BidIsRecord DEF RejectOthers
  <2>5. Accepted' = {b} /\ \A c \in DOMAIN bids' \ {b} : bids'[c].status = "REJECTED"
    BY <2>1, <2>3, <2>4 DEF Accepted
  <2>6. BidsFollow'
    BY <1>0, <2>1, <2>5 DEF BidsFollow, Others
  <2> QED
    BY <2>1, <2>2, <2>5, <2>6
<1>9. CASE AssignCarrier(r)
  <2>0. PICK b : b = bidReq[r].bid
    OBVIOUS
  <2>1. /\ bidReq[r].pc = "assign" /\ b \in DOMAIN bids /\ UNCHANGED bids
        /\ shipment' = [status |-> "ACCEPTED", carrier |-> bids[b].carrier]
        /\ bidReq'[r] = Idle
    BY <1>0, <1>9, <2>0 DEF AssignCarrier, BidFinish, BidReqSound, Idle
  <2>2. Accepted = {b} /\ Others(b)
    BY <2>0, <2>1 DEF OneInv, BidsFollow, Idle
  <2>3. Accepted' = {b} /\ Others(b)'
    BY <2>1, <2>2 DEF Accepted, Others
  <2>4. /\ shipment'.status = "ACCEPTED" /\ shipment'.carrier = bids[b].carrier
        /\ bids[b].carrier \in Users /\ shipment' \in Rows
    BY <1>0, <2>1, BidIsRecord, StatusFacts DEF Rows
  <2>5. Won'
    BY <2>1, <2>3, <2>4 DEF Won, Others
  <2>6. BidsFollow'
    BY <1>0, <2>1, <2>5 DEF BidsFollow
  <2> QED
    BY <2>3, <2>4, <2>6
<1> QED
  BY <1>4, <1>5, <1>6, <1>7, <1>8, <1>9 DEF BidMove, BidProceed

-----------------------------------------------------------------------------
LEMMA OneStepKeeps ==
    ASSUME OneInv, [OneStep]_allVars
    PROVE  OneInv' /\ shipment' \in Rows /\ StepFrom(shipment, shipment')
<1>1. BidsIInv' /\ shipment \in Rows
  BY BidsStep DEF OneInv, OneStep, BidsNext, BidsIInv, IInv, RowSound
<1>2. StepFrom(shipment, shipment)
  BY DEF StepFrom
<1>3. CASE UNCHANGED allVars
  <2>1. begun' \in Nat /\ Alone' /\ Fresh' /\ shipment' = shipment
    BY <1>3 DEF OneInv, Alone, Fresh, FreshReq, Strictly, allVars, vars, bidVars
  <2>2. BidsFollow'
    BY <1>3, BidsFollowStill DEF OneInv, allVars, vars, bidVars
  <2>3. Trail'
    BY <1>3 DEF OneInv, Trail, TrailTo, LastOf, Leads, Accepted, allVars, vars, bidVars
  <2> QED
    BY <1>1, <1>2, <2>1, <2>2, <2>3 DEF OneInv
<1>4. ASSUME NEW r \in Requests, MainStep(r), UNCHANGED bidVars
      PROVE  OneInv' /\ shipment' \in Rows /\ StepFrom(shipment, shipment')
  <2>1. CASE Write(r)
    BY <1>1, <1>4, <2>1, MainWrites DEF OneInv
  <2>2. CASE ~Write(r)
    <3>1. begun' \in Nat /\ Alone' /\ Fresh' /\ BidsFollow' /\ Trail' /\ shipment' = shipment
      BY <1>4, <2>2, MainBegins, MainCompares, MainRecords, MainEnds DEF MainStep, Proceed
    <3> QED
      BY <1>1, <1>2, <3>1 DEF OneInv
  <2> QED
    BY <2>1, <2>2
<1>5. ASSUME NEW r \in BidRequests, BidMove(r)
      PROVE  OneInv' /\ shipment' \in Rows /\ StepFrom(shipment, shipment')
  BY <1>1, <1>5, BidMoveKeeps DEF OneInv
<1> QED
  BY <1>3, <1>4, <1>5, OneMoves

LEMMA OneInit == BidsInit => OneInv
<1> SUFFICES ASSUME BidsInit PROVE OneInv
  OBVIOUS
<1>1. Alone /\ Fresh /\ begun \in Nat
  BY DEF BidsInit, Init, Alone, Fresh, FreshReq, Idle
<1>2. Accepted = {} /\ history = <<>>
  BY DEF BidsInit, Init, Accepted
<1>3. BidsFollow
  BY <1>2 DEF BidsInit, BidsFollow, Won
<1>4. Trail
  BY <1>2 DEF BidsInit, Init, Trail, TrailTo, Idle
<1> QED
  BY <1>1, <1>3, <1>4, BidsInitKeeps DEF OneInv

LEMMA OneInductive == OneByOneSpec => []OneInv
<1>1. OneInv /\ [OneStep]_allVars => OneInv'
  BY OneStepKeeps
<1> QED
  BY <1>1, OneInit, PTL DEF OneByOneSpec, OneStep

(* One request at a time and none failing half way, the carrier of an      *)
(* accepted bid is the carrier of the shipment, and every other bid is     *)
(* rejected.                                                               *)
THEOREM WinnerIsCarrier == OneByOneSpec => []WinnerTakesAll
<1>1. OneInv => WinnerTakesAll
  BY DEF OneInv, BidsFollow, Won, Others, WinnerTakesAll, Quiet, Idle
<1> QED
  BY <1>1, OneInductive, PTL

(* ... the history is the way the shipment took to its present status, but *)
(* for the acceptance of a bid                                             *)
THEOREM HistoryLeadsHere == OneByOneSpec => []HistoryIsTrail
<1>1. OneInv => HistoryIsTrail
  <2> SUFFICES ASSUME OneInv PROVE HistoryIsTrail
    OBVIOUS
  <2>1. /\ \A i \in DOMAIN history : StatusTimeline[i] = history[i].to
        /\ Len(StatusTimeline) = Len(history)
        /\ StatusTimeline # <<>> <=> history # <<>>
    BY DEF OneInv, Trail, StatusTimeline
  <2> DEFINE shown == StatusTimeline
  <2> HIDE DEF shown
  <2> SUFFICES ASSUME Quiet, shown # <<>>
               PROVE  /\ \A i \in 2..Len(shown) : Leads(shown[i - 1], shown[i])
                      /\ \/ shown[Len(shown)] = shipment.status
                         \/ /\ Accepted # {}
                            /\ shown[Len(shown)] = "PENDING"
                            /\ shipment.status = "ACCEPTED"
    BY DEF HistoryIsTrail, shown
  <2>2. /\ \A i \in 2..Len(history) : Leads(history[i - 1].to, history[i].to)
        /\ TrailTo(shipment.status)
        /\ history \in Seq(Entries) /\ history # <<>>
    BY <2>1 DEF OneInv, Trail, Quiet, AllIdle, Idle, shown
  <2>3. Len(history) \in Nat \ {0} /\ DOMAIN history = 1..Len(history)
    BY <2>2
  <2>4. \A i \in 1..Len(history) : shown[i] = history[i].to
    BY <2>1, <2>3 DEF shown
  <2>5. Len(shown) = Len(history)
    BY <2>1 DEF shown
  <2> QED
    BY <2>2, <2>3, <2>4, <2>5 DEF TrailTo, LastOf
<1> QED
  BY <1>1, OneInductive, PTL

(* A change that has not been announced yet has its handler at work.       *)
Heard(s) == events[s] > 0 \/ (s = "ACCEPTED" /\ Accepted # {})

Announcer(r, s) == req[r].pc \in {"record", "release", "emit"} /\ req[r].entity.status = s

AllHeard ==
    /\ events \in [Statuses -> Nat]
    /\ \A s \in visited : Heard(s) \/ \E r \in Requests : Announcer(r, s)

LEMMA MainIsHeard ==
    ASSUME OneInv, AllHeard, NEW r \in Requests, MainStep(r), UNCHANGED bidVars
    PROVE  AllHeard'
<1>0. /\ DOMAIN req = Requests /\ visited \subseteq Statuses
      /\ shipment.status # "NONE" => shipment.status \in visited
      /\ UNCHANGED Accepted
  BY DEF OneInv, BidsIInv, IInv, RowSound, bidVars, Accepted
<1>1. ASSUME visited' = visited, events' = events, req[r].pc \notin {"record", "release", "emit"},
             \A q \in Requests \ {r} : req'[q] = req[q]
      PROVE  AllHeard'
  BY <1>0, <1>1 DEF AllHeard, Heard, Announcer
<1>2. ASSUME NEW op, NEW from, NEW e, Begin(r, op, from, e) PROVE AllHeard'
  BY <1>0, <1>1, <1>2 DEF Begin, Idle
<1>3. CASE Compare(r)
  BY <1>0, <1>1, <1>3 DEF Compare
<1>4. CASE Write(r)
  <2>1. /\ req[r].pc = "write" /\ req[r] \in Busy /\ req[r].entity.status # "NONE"
        /\ req[r].entity \in Rows /\ shipment \in Rows
    BY <1>4 DEF OneInv, BidsIInv, IInv, RowSound, ReqSound, EntitySound, Write, Writing, Idle
  <2>2. events' = events /\ \A q \in Requests \ {r} : req'[q] = req[q]
    BY <1>0, <1>4 DEF Write, Writing, Finish
  <2>3. CASE req[r].op = "edit"
    <3>1. req[r].entity = shipment
      BY <2>1, <2>3 DEF OneInv, Fresh, FreshReq
    <3>2. visited' = visited
      BY <1>0, <1>4, <2>1, <3>1 DEF Write, Writing
    <3> QED
      BY <1>1, <2>1, <2>2, <3>2
  <2>4. CASE req[r].op # "edit"
    <3>1. req'[r].pc = "record" /\ req'[r].entity = req[r].entity
      BY <1>0, <1>4, <2>1, <2>4 DEF Write, Writing, Busy
    <3>2. visited' \subseteq visited \cup {req[r].entity.status}
      BY <1>4 DEF Write, Writing
    <3> QED
      BY <1>0, <2>1, <2>2, <3>1, <3>2 DEF AllHeard, Heard, Announcer
  <2> QED
    BY <2>3, <2>4
<1>5. CASE Record(r) \/ Release(r)
  <2>1. req[r] \in Busy
    BY <1>5 DEF OneInv, BidsIInv, IInv, ReqSound, Record, Release, Idle
  <2>2. /\ visited' = visited /\ events' = events
        /\ \A q \in Requests \ {r} : req'[q] = req[q]
        /\ req'[r].pc \in {"release", "emit"} /\ req'[r].entity = req[r].entity
    BY <1>0, <1>5, <2>1 DEF Record, Release, Goto, Busy
  <2>3. \A s \in visited : \A q \in Requests : Announcer(q, s) => Announcer(q, s)'
    BY <2>2 DEF Announcer
  <2> QED
    BY <1>0, <2>2, <2>3 DEF AllHeard, Heard
<1>6. CASE Emit(r)
  <2>1. req[r] \in Busy /\ req[r].entity.status \in Statuses
    BY <1>6 DEF OneInv, BidsIInv, IInv, ReqSound, EntitySound, Rows, Emit, Idle
  <2>2. /\ visited' = visited /\ events' \in [Statuses -> Nat]
        /\ events'[req[r].entity.status] > 0
        /\ \A s \in Statuses : events[s] > 0 => events'[s] > 0
        /\ \A q \in Requests \ {r} : req'[q] = req[q]
    BY <1>0, <1>6, <2>1 DEF Emit, Finish, AllHeard
  <2> QED
    BY <1>0, <2>1, <2>2 DEF AllHeard, Heard, Announcer
<1> QED
  BY <1>2, <1>3, <1>4, <1>5, <1>6 DEF MainStep, Proceed

LEMMA BidIsHeard ==
    ASSUME OneInv, AllHeard, NEW r \in BidRequests, BidMove(r)
    PROVE  AllHeard'
<1>0. /\ DOMAIN bidReq = BidRequests /\ bids \in Seq(BidRecords) /\ BidReqSound(bidReq[r])
      /\ UNCHANGED <<req, events>>
  BY DEF OneInv, BidsIInv, BidsSound, BidMove, StartBidRequest, BidProceed, FindOwnBid,
         InsertBid, FindBid, SaveAccepted, RejectOthers, AssignCarrier, vars
<1>1. Accepted # {} => Accepted' # {}
  <2>1. CASE UNCHANGED bids
    BY <2>1 DEF Accepted
  <2>2. CASE InsertBid(r)
    <3>1. PICK x : x = [carrier |-> bidReq[r].carrier, status |-> "PENDING"]
      OBVIOUS
    <3>2. bids' = Append(bids, x)
      BY <2>2, <3>1 DEF InsertBid
    <3>3. \A b \in DOMAIN bids : b \in DOMAIN bids' /\ bids'[b] = bids[b]
      BY <1>0, <3>2
    <3> QED
      BY <3>3 DEF Accepted
  <2>3. CASE SaveAccepted(r) \/ RejectOthers(r)
    <3>1. \A b \in Accepted : b \in DOMAIN bids' /\ bids'[b].status = "ACCEPTED"
      BY <1>0, <2>3, BidIsRecord DEF SaveAccepted, RejectOthers, Accepted
    <3> QED
      BY <3>1 DEF Accepted
  <2> QED
    BY <2>1, <2>2, <2>3
       DEF BidMove, StartBidRequest, BidProceed, FindOwnBid, FindBid, AssignCarrier
<1>2. visited' = visited \/ (visited' = visited \cup {"ACCEPTED"} /\ Accepted' # {})
  <2>1. CASE AssignCarrier(r)
    <3>1. Accepted = {bidReq[r].bid} /\ bids' = bids
      BY <2>1 DEF OneInv, BidsFollow, AssignCarrier, Idle
    <3> QED
      BY <1>1, <2>1, <3>1 DEF AssignCarrier
  <2>2. CASE ~AssignCarrier(r)
    BY <2>2 DEF BidMove, StartBidRequest, BidProceed, FindOwnBid, InsertBid, FindBid,
         SaveAccepted, RejectOthers, vars
  <2> QED
    BY <2>1, <2>2
<1> QED
  BY <1>0, <1>1, <1>2 DEF AllHeard, Heard, Announcer

(* One request at a time, whenever no request is under way every status    *)
(* the row has had was announced, also when the release of the escrow      *)
(* failed, except for the acceptance of a bid.  (That each request comes   *)
(* to its end is ChangesAnnounced.)                                        *)
AnnouncedAtRest == Quiet => \A s \in visited : Heard(s)

THEOREM NothingUnannounced == OneByOneSpec => []AnnouncedAtRest
<1>1. BidsInit => AllHeard
  BY DEF BidsInit, Init, AllHeard
<1>2. OneInv /\ AllHeard /\ [OneStep]_allVars => AllHeard'
  <2> SUFFICES ASSUME OneInv, AllHeard, [OneStep]_allVars PROVE AllHeard'
    OBVIOUS
  <2>1. CASE UNCHANGED allVars
    BY <2>1 DEF AllHeard, Heard, Announcer, Accepted, allVars, vars, bidVars
  <2> QED
    BY <2>1, OneMoves, MainIsHeard, BidIsHeard
<1>3. AllHeard => AnnouncedAtRest
  BY DEF AllHeard, AnnouncedAtRest, Announcer, Quiet, AllIdle, Idle
<1> QED
  BY <1>1, <1>2, <1>3, OneInductive, PTL DEF OneByOneSpec, OneStep

(* It takes a carrier for goods in transit, whom the row has, and an       *)
(* administrator for a dispute.                                            *)
LEMMA SomebodyActs ==
    ASSUME BidsIInv, RolesFit, CarrierSound(shipment), NEW admin \in Users, IsAdmin(admin),
           shipment.status \notin {"NONE", "COMPLETED", "CANCELLED"}
    PROVE  \E u \in Users : \E a \in Offers(u) : Takes(u, a)
<1>1. /\ shipment.status \in {"PENDING", "ACCEPTED", "IN_TRANSIT", "DELIVERED", "DISPUTED"}
      /\ shipment.carrier \in Users \cup {NoCarrier} /\ Carries(shipment.carrier)
      /\ OwnerPosts /\ Owner \in Users
  BY StatusFacts, UsersAssumption DEF BidsIInv, IInv, RowSound, Rows, RolesFit
<1>2. SUFFICES \E u \in Users : \E a \in OffersOnPage(u) : Takes(u, a)
  BY DEF Offers
<1>3. CASE shipment.status \in {"PENDING", "ACCEPTED"}
  <2>1. "cancel" \in OffersOnPage(Owner)
    BY <1>3 DEF OffersOnPage, IsParty, IsShipper
  <2>2. MayCancel(Owner)
    BY <1>1, <1>3, StatusFacts
       DEF MayCancel, IsParty, IsShipper, Allowed, TransitionAllowed, RolesFrom, OwnerPosts
  <2> QED
    BY <1>1, <2>1, <2>2 DEF Takes
<1>4. CASE shipment.status = "IN_TRANSIT"
  <2>1. PICK c \in Users : c = shipment.carrier
    BY <1>1, <1>4 DEF CarrierSound, CarrierOf
  <2>2. Role[c] \in {"carrier", "admin"}
    BY <1>1, <1>4, <2>1 DEF Carries, CarrierSound, CarrierOf
  <2>3. "deliver" \in OffersOnPage(c)
    BY <1>4, <2>1 DEF OffersOnPage, IsCarrier
  <2>4. MayMarkDelivered(c)
    BY <1>4, <2>1, <2>2, StatusFacts
       DEF MayMarkDelivered, MayCarry, IsCarrier, Allowed, TransitionAllowed, RolesFrom
  <2> QED
    BY <2>3, <2>4 DEF Takes
<1>5. CASE shipment.status = "DELIVERED"
  <2>1. "confirm" \in OffersOnPage(Owner)
    BY <1>5 DEF OffersOnPage, IsShipper
  <2>2. MayConfirmDelivery(Owner)
    BY <1>1, <1>5, StatusFacts
       DEF MayConfirmDelivery, IsShipper, Allowed, TransitionAllowed, RolesFrom, OwnerPosts
  <2> QED
    BY <1>1, <2>1, <2>2 DEF Takes
<1>6. CASE shipment.status = "DISPUTED"
  <2>1. "resolve" \in OffersOnPage(admin)
    BY <1>6 DEF OffersOnPage
  <2>2. MayResolveDispute(admin, "COMPLETED")
    BY <1>6, StatusFacts DEF MayResolveDispute, IsAdmin, Allowed, TransitionAllowed, RolesFrom
  <2> QED
    BY <2>1, <2>2 DEF Takes
<1> QED
  BY <1>1, <1>3, <1>4, <1>5, <1>6

(* ... and, if there is an administrator, the pages offer somebody an      *)
(* action that moves a shipment on, until it has come to its end.          *)
THEOREM NobodyIsStuck == (\E u \in Users : IsAdmin(u)) => (OneByOneSpec => []NobodyStuck)
<1> SUFFICES ASSUME NEW admin \in Users, IsAdmin(admin) PROVE OneByOneSpec => []NobodyStuck
  OBVIOUS
<1>1. BidsIInv /\ RolesFit /\ CarrierSound(shipment) => NobodyStuck
  BY SomebodyActs DEF NobodyStuck
<1>2. BidsInit => CarrierSound(shipment)
  BY InitCurrent DEF BidsInit, Current
<1>3. OneInv /\ CarrierSound(shipment) /\ [OneStep]_allVars => CarrierSound(shipment)'
  <2> SUFFICES ASSUME OneInv, CarrierSound(shipment), [OneStep]_allVars
               PROVE  CarrierSound(shipment')
    BY DEF CarrierSound, CarrierOf
  <2> QED
    BY OneStepKeeps, StepFromSound DEF OneInv, BidsIInv, IInv, RowSound
<1>4. OneByOneSpec => BidsSpec
  <2>1. [OneStep]_allVars => [BidsNext]_allVars
    BY DEF OneStep, BidsNext
  <2> QED
    BY <2>1, PTL DEF OneByOneSpec, OneStep, BidsSpec
<1> QED
  BY <1>1, <1>2, <1>3, <1>4, OneInductive, BidsInductive, RolesFitAlways, PTL
     DEF OneByOneSpec, OneStep

(* ... and the row moves only as the shipment contract moves its own.      *)
THEOREM BidsImplementLifecycle == OneByOneSpec => FollowsLifecycle
<1>1. OneInv /\ [OneStep]_allVars => [Abstract!Next]_(Abstract!vars)
  BY OneStepKeeps, StepImplements DEF OneInv, BidsIInv, IInv, RowSound
<1>2. BidsInit => Abstract!Init
  BY InitCurrent DEF BidsInit
<1> QED
  BY <1>1, <1>2, OneInductive, PTL DEF OneByOneSpec, OneStep, FollowsLifecycle, Abstract!Spec
=============================================================================
