--------------------------- MODULE RecordsProofs ----------------------------
(***************************************************************************)
(* What the small services promise of their tables, for any number of      *)
(* callers, users, shipments and rows: the table of payments (first part), *)
(* and addresses, reviews, preferences, certifications and documents       *)
(* beside it; then the pages that list rows, the walks through a list, the *)
(* reports, and the exports, whose CSV is read back character by           *)
(* character.                                                              *)
(*                                                                         *)
(* Dense is not inductive: an insert uses a number read earlier.  What     *)
(* keeps it true is that rows are never deleted, so the predecessor of     *)
(* that number, present when it was read, is still there (NumbersFollow).  *)
(***************************************************************************)
EXTENDS Records, SumTheorems, SequenceTheorems, TLAPS

(* The two unique constraints. *)
OneToOne ==
    \A p, q \in payments :
        p.shipment = q.shipment \/ p.onChainId = q.onChainId => p = q

NumbersFollow ==
    \A c \in Callers : caller[c].pc = "insert" =>
        caller[c].onChainId = 1 \/ \E q \in payments : q.onChainId + 1 = caller[c].onChainId

RowsInv == TypeOK /\ OneToOne /\ Dense /\ NumbersFollow /\ ReturnsStoredRow

LEMMA RowsInit == Init => RowsInv
  BY DEF Init, RowsInv, TypeOK, OneToOne, Dense, NumbersFollow, ReturnsStoredRow, Idle

(* A step that leaves the table alone keeps what is said about it. *)
LEMMA TableKept ==
    ASSUME RowsInv, UNCHANGED payments PROVE OneToOne' /\ Dense'
  BY DEF RowsInv, OneToOne, Dense

(* Returning a stored row keeps the invariant. *)
LEMMA ReturnStored ==
    ASSUME RowsInv, NEW c \in Callers, caller[c].pc \in {"find", "retry"},
           NEW p \in RowsOf(caller[c].shipment), Return(c, p), UNCHANGED payments
    PROVE RowsInv'
<1>1. OneToOne' /\ Dense'
  BY TableKept
<1>2. caller[c].shipment \in Shipments /\ p \in Payments
  BY DEF RowsInv, TypeOK, Idle, RowsOf
<1>3. TypeOK'
  BY <1>2 DEF RowsInv, TypeOK, Return
<1>4. NumbersFollow' /\ ReturnsStoredRow'
  BY DEF RowsInv, TypeOK, NumbersFollow, ReturnsStoredRow, Return, RowsOf
<1> QED
  BY <1>1, <1>3, <1>4 DEF RowsInv

LEMMA RowsStep == RowsInv /\ [Next]_vars => RowsInv'
<1> SUFFICES ASSUME RowsInv, [Next]_vars PROVE RowsInv'
  OBVIOUS
<1>1. CASE UNCHANGED vars
  BY <1>1 DEF vars, RowsInv, TypeOK, OneToOne, Dense, NumbersFollow, ReturnsStoredRow, RowsOf
<1>2. ASSUME NEW c \in Callers, NEW s \in Shipments, Call(c, s) PROVE RowsInv'
  <2>1. OneToOne' /\ Dense'
    BY <1>2, TableKept DEF Call
  <2>2. TypeOK' /\ NumbersFollow' /\ ReturnsStoredRow'
    BY <1>2 DEF RowsInv, TypeOK, NumbersFollow, ReturnsStoredRow, Call, RowsOf
  <2> QED
    BY <2>1, <2>2 DEF RowsInv
<1>3. ASSUME NEW c \in Callers, Find(c) PROVE RowsInv'
  <2>1. CASE \E p \in RowsOf(caller[c].shipment) : Return(c, p)
    BY <1>3, <2>1, ReturnStored DEF Find
  <2>2. CASE Goto(c, "number")
    <3>1. OneToOne' /\ Dense'
      BY <1>3, TableKept DEF Find
    <3>2. [caller[c] EXCEPT !.pc = "number"] \in [pc : {"find", "number"}, shipment : Shipments]
      BY <1>3 DEF RowsInv, TypeOK, Find, Idle
    <3>3. TypeOK'
      BY <1>3, <2>2, <3>2 DEF RowsInv, TypeOK, Find, Goto
    <3>4. NumbersFollow' /\ ReturnsStoredRow'
      BY <1>3, <2>2, <3>2 DEF RowsInv, TypeOK, NumbersFollow, ReturnsStoredRow, Find, Goto, RowsOf
    <3> QED
      BY <3>1, <3>3, <3>4 DEF RowsInv
  <2> QED
    BY <1>3, <2>1, <2>2 DEF Find
<1>4. ASSUME NEW c \in Callers, GenerateNextOnChainId(c) PROVE RowsInv'
  <2>1. OneToOne' /\ Dense'
    BY <1>4, TableKept DEF GenerateNextOnChainId
  <2>2. PICK n \in Nat \ {0} :
          /\ IsNextOnChainId(n)
          /\ caller' = [caller EXCEPT ![c] = [pc |-> "insert", onChainId |-> n,
                                              shipment |-> caller[c].shipment]]
    <3>1. \A n \in 1..(Cardinality(payments) + 2) : n \in Nat \ {0}
      OBVIOUS
    <3> QED
      BY <1>4, <3>1 DEF GenerateNextOnChainId
  <2>3. caller[c].shipment \in Shipments
    BY <1>4 DEF GenerateNextOnChainId, RowsInv, TypeOK, Idle
  <2>4. TypeOK'
    BY <1>4, <2>2, <2>3 DEF RowsInv, TypeOK, GenerateNextOnChainId
  <2>5. NumbersFollow'
    BY <1>4, <2>2 DEF RowsInv, TypeOK, NumbersFollow, IsNextOnChainId, GenerateNextOnChainId
  <2>6. ReturnsStoredRow'
    BY <1>4, <2>2 DEF RowsInv, TypeOK, ReturnsStoredRow, GenerateNextOnChainId, RowsOf
  <2> QED
    BY <2>1, <2>4, <2>5, <2>6 DEF RowsInv
<1>5. ASSUME NEW c \in Callers, Insert(c) PROVE RowsInv'
  <2> DEFINE new == [shipment |-> caller[c].shipment, onChainId |-> caller[c].onChainId]
  <2>1. new \in Payments /\ new.shipment = caller[c].shipment /\ new.onChainId = caller[c].onChainId
    BY <1>5 DEF Insert, RowsInv, TypeOK, Idle, Payments
  <2>2. CASE /\ ~Conflicts(new)
             /\ payments' = payments \cup {new}
             /\ Return(c, new)
    <3>1. TypeOK'
      BY <2>1, <2>2 DEF RowsInv, TypeOK, Return, Payments
    <3>2. OneToOne'
      BY <2>1, <2>2 DEF RowsInv, OneToOne, Conflicts
    <3>3. Dense'
      BY <1>5, <2>1, <2>2 DEF RowsInv, Dense, NumbersFollow, Insert
    <3>4. NumbersFollow' /\ ReturnsStoredRow'
      <4>1. \A s : RowsOf(s) \subseteq RowsOf(s)'
        BY <2>2 DEF RowsOf
      <4>2. new \in RowsOf(caller[c].shipment)'
        BY <2>1, <2>2 DEF RowsOf, Return
      <4> QED
        BY <2>2, <4>1, <4>2 DEF RowsInv, TypeOK, NumbersFollow, ReturnsStoredRow, Return, RowsOf
    <3> QED
      BY <3>1, <3>2, <3>3, <3>4 DEF RowsInv
  <2>3. CASE Goto(c, "retry") /\ UNCHANGED payments
    <3>1. OneToOne' /\ Dense'
      BY <2>3, TableKept
    <3>2. [caller[c] EXCEPT !.pc = "retry"] \in
             [pc : {"insert", "retry", "conflict"}, shipment : Shipments, onChainId : Nat \ {0}]
          /\ [caller[c] EXCEPT !.pc = "retry"].pc = "retry"
      BY <1>5 DEF RowsInv, TypeOK, Insert, Idle
    <3>3. TypeOK'
      BY <1>5, <2>3, <3>2 DEF RowsInv, TypeOK, Goto
    <3>4. NumbersFollow' /\ ReturnsStoredRow'
      BY <2>3, <3>2 DEF RowsInv, TypeOK, NumbersFollow, ReturnsStoredRow, Goto, RowsOf
    <3> QED
      BY <3>1, <3>3, <3>4 DEF RowsInv
  <2> QED
    BY <1>5, <2>2, <2>3 DEF Insert
<1>6. ASSUME NEW c \in Callers, Retry(c) PROVE RowsInv'
  <2>1. CASE \E p \in RowsOf(caller[c].shipment) : Return(c, p)
    BY <1>6, <2>1, ReturnStored DEF Retry
  <2>2. CASE Goto(c, "conflict")
    <3>1. OneToOne' /\ Dense'
      BY <1>6, TableKept DEF Retry
    <3>2. [caller[c] EXCEPT !.pc = "conflict"] \in
             [pc : {"insert", "retry", "conflict"}, shipment : Shipments, onChainId : Nat \ {0}]
          /\ [caller[c] EXCEPT !.pc = "conflict"].pc = "conflict"
      BY <1>6 DEF RowsInv, TypeOK, Retry, Idle
    <3>3. TypeOK'
      BY <1>6, <2>2, <3>2 DEF RowsInv, TypeOK, Retry, Goto
    <3>4. NumbersFollow' /\ ReturnsStoredRow'
      BY <1>6, <2>2, <3>2 DEF RowsInv, TypeOK, NumbersFollow, ReturnsStoredRow, Retry, Goto, RowsOf
    <3> QED
      BY <3>1, <3>3, <3>4 DEF RowsInv
  <2> QED
    BY <1>6, <2>1, <2>2 DEF Retry
<1>7. ASSUME NEW c \in Callers, Leave(c) PROVE RowsInv'
  <2>1. OneToOne' /\ Dense'
    BY <1>7, TableKept DEF Leave
  <2>2. TypeOK' /\ NumbersFollow' /\ ReturnsStoredRow'
    BY <1>7 DEF RowsInv, TypeOK, NumbersFollow, ReturnsStoredRow, Leave, RowsOf, Idle
  <2> QED
    BY <2>1, <2>2 DEF RowsInv
<1> QED
  BY <1>1, <1>2, <1>3, <1>4, <1>5, <1>6, <1>7 DEF Next

LEMMA RowsInductive == Spec => []RowsInv
  BY RowsInit, RowsStep, PTL DEF Spec

(* The on-chain ids in use have no gaps, although each is computed from a  *)
(* read that other inserts may have overtaken.                             *)
THEOREM IdsDense == Spec => []Dense
<1>1. RowsInv => Dense
  BY DEF RowsInv
<1> QED
  BY <1>1, RowsInductive, PTL

(* Callers are served the stored row of their shipment, and so agree about *)
(* it: getOrCreatePayment is one atomic step to its callers.               *)
THEOREM AgreementOfCallers == Spec => [](ReturnsStoredRow /\ CallersAgree)
<1>1. RowsInv => ReturnsStoredRow /\ CallersAgree
  <2> SUFFICES ASSUME RowsInv, NEW c \in Callers, NEW d \in Callers,
                      caller[c].pc = "returned", caller[d].pc = "returned"
               PROVE  /\ caller[c].shipment = caller[d].shipment
                           => caller[c].payment = caller[d].payment
                      /\ caller[c].shipment # caller[d].shipment
                           => caller[c].payment.onChainId # caller[d].payment.onChainId
    BY DEF RowsInv, CallersAgree
  <2>1. /\ caller[c].payment \in payments
        /\ caller[c].payment.shipment = caller[c].shipment
        /\ caller[d].payment \in payments
        /\ caller[d].payment.shipment = caller[d].shipment
    BY DEF RowsInv, ReturnsStoredRow, RowsOf
  <2> QED
    BY <2>1 DEF RowsInv, OneToOne
<1> QED
  BY <1>1, RowsInductive, PTL

-----------------------------------------------------------------------------
(* A step of Records is a step of one service on tables of its own.  For   *)
(* each service: its tables are as they were at the start while another    *)
(* one is followed, and while it is followed what is said of its callers   *)
(* keeps them consistent.                                                  *)

(* Requests about one address are of one user.  While a user's requests    *)
(* are orderly he has one at a time, and when it is going to save a        *)
(* default address, his others are none.                                   *)
AddressRequests == {R!Idle} \cup
    [pc : {"clear", "save", "remove"}, id : Ids, entity : [owner : Users, isDefault : BOOLEAN]]

AddressesAlone ==
    \A c, d \in A!Busy : c # d =>
        /\ request[c].id = request[d].id => request[c].entity.owner = request[d].entity.owner
        /\ request[c].entity.owner = request[d].entity.owner => request[c].entity.owner \notin orderly

EntitiesMatch ==
    \A c \in A!Busy : LET r == request[c] IN
        /\ addresses[r.id] # A!Absent => addresses[r.id].owner = r.entity.owner
        /\ r.pc = "save" /\ r.entity.isDefault /\ r.entity.owner \in orderly =>
             \A id \in Ids \ {r.id} :
                 addresses[id] # A!Absent /\ addresses[id].owner = r.entity.owner
                   => ~addresses[id].isDefault

AddressesInv ==
    IF service = "addresses"
    THEN /\ addresses \in [Ids -> {A!Absent} \cup [owner : Users, isDefault : BOOLEAN]]
         /\ request \in [Pair -> AddressRequests]
         /\ AddressesAlone
         /\ EntitiesMatch
         /\ A!OneDefault
    ELSE A!OneDefault

(* Who reviews reads of a shipment that is completed, so neither the       *)
(* parties in the reviews nor those in the requests change any more.       *)
BothParties(r) ==
    /\ shipment[r.shipment].completed
    /\ {r.reviewer, r.reviewee} = {shipment[r.shipment].shipper, shipment[r.shipment].carrier}

ReviewRows == [shipment : Shipments, reviewer : Users, reviewee : Users \cup {Nobody}]

ShipmentsTyped ==
    /\ shipment \in [Shipments -> [shipper : Users \cup {Nobody}, carrier : Users \cup {Nobody},
                                   completed : BOOLEAN]]
    /\ \A s \in Shipments : shipment[s].completed => shipment[s].carrier # Nobody

ReviewsInv ==
    /\ \A i, j \in DOMAIN reviews : R!SameReview(reviews[i], reviews[j]) => i = j
    /\ IF service = "reviews"
       THEN /\ ShipmentsTyped
            /\ reviews \in Seq(ReviewRows)
            /\ request \in [Pair -> {R!Idle} \cup [pc : {"findReview", "insertReview"}, row : ReviewRows]]
            /\ \A i \in DOMAIN reviews : BothParties(reviews[i])
            /\ \A c \in Pair : request[c] # R!Idle => BothParties(request[c].row)
       ELSE reviews = <<>>

PreferenceRows == [user : Users, muted : SUBSET R!Keys]

PreferencesInv ==
    /\ \A i, j \in DOMAIN preferences : preferences[i].user = preferences[j].user => i = j
    /\ IF service = "preferences"
       THEN /\ preferences \in Seq(PreferenceRows)
            /\ request \in [Pair -> {R!Idle}
                  \cup [pc : {"findPreferences", "insertPreferences"}, user : Users, switch : R!Switches]
                  \cup [pc : {"savePreferences"}, user : Users, muted : SUBSET R!Keys]]
       ELSE preferences = <<>>

(* Until something breaks off, a verification that is not logged yet is    *)
(* one that a request at work is about to log.                             *)
Certified == [carrier : Users, isVerified : BOOLEAN]

CertificationsInv ==
    IF service = "certifications"
    THEN /\ certifications \in [Ids -> {C!Absent} \cup Certified]
         /\ auditLog \in Seq([action : {"CERTIFICATION_VERIFIED", "CERTIFICATION_UNVERIFIED", "PATCH"},
                              id : Ids])
         /\ request \in [Pair -> {C!Idle}
               \cup [pc : {"save", "log", "intercept", "remove"}, id : Ids, entity : Certified]]
         /\ ~brokenOff => \A id \in Ids :
              certifications[id] # C!Absent /\ certifications[id].isVerified =>
                 \/ \E i \in DOMAIN auditLog :
                      auditLog[i] = C!AuditLog("CERTIFICATION_VERIFIED", id)
                 \/ \E c \in Pair : /\ request[c].pc = "log"
                                    /\ request[c].id = id
                                    /\ request[c].entity.isVerified
    ELSE certifications = [id \in Ids |-> C!Absent]

(* Until something breaks off, the file of an upload under way is there    *)
(* and nobody else is at work on that document; a row without its file is  *)
(* one that a request is about to remove.                                  *)
Uploading(c) == request[c].pc \in {"upload", "insert"}

DocumentsInv ==
    IF service = "documents"
    THEN /\ request \in [Pair -> {D!Idle}
               \cup [pc : {"upload", "insert", "remove"}, id : Ids,
                      row : [shipmentId : Shipments, uploader : Users]]]
         /\ documents \in [Ids -> {D!Absent} \cup [shipmentId : Shipments, uploader : Users]]
         /\ \A c \in Pair : Uploading(c) =>
              /\ request[c].id \in files
              /\ documents[request[c].id] = D!Absent
              /\ \A d \in D!Busy \ {c} : request[d].id # request[c].id
         /\ ~brokenOff => \A id \in Ids :
              documents[id] # D!Absent =>
                 \/ id \in files
                 \/ \E c \in Pair : request[c].pc = "remove" /\ request[c].id = id
    ELSE documents = [id \in Ids |-> D!Absent]

LEMMA AbsentAddress == A!Absent \notin [owner : Users, isDefault : BOOLEAN]
  BY DEF A!Absent

LEMMA AddressesStep ==
    ASSUME AddressesInv, service = "addresses", service' = service, A!AddressesNext
    PROVE  AddressesInv'
<1> USE AbsentAddress
<1> DEFINE Row == [owner : Users, isDefault : BOOLEAN]
           Requested == [pc : {"clear", "save", "remove"}, id : Ids, entity : Row]
<1>1. /\ addresses \in [Ids -> {A!Absent} \cup Row]
      /\ request \in [Pair -> {R!Idle} \cup Requested]
      /\ AddressesAlone
      /\ EntitiesMatch
      /\ A!OneDefault
  BY DEF AddressesInv, AddressRequests
<1>2. A!Idle = R!Idle /\ R!Idle \notin Requested /\ R!Idle.pc = "idle"
  BY DEF A!Idle, R!Idle
<1>3. \A c \in Pair : request[c].pc # "idle" => c \in A!Busy /\ request[c] \in Requested
  BY <1>1, <1>2 DEF A!Busy
<1>4. \A id \in Ids : addresses[id] # A!Absent => addresses[id] \in Row
  BY <1>1
<1> SUFFICES /\ addresses' \in [Ids -> {A!Absent} \cup Row]
             /\ request' \in [Pair -> {R!Idle} \cup Requested]
             /\ AddressesAlone'
             /\ EntitiesMatch'
             /\ A!OneDefault'
  BY DEF AddressesInv, AddressRequests
<1>5. ASSUME NEW c \in Pair, NEW r \in Requested, A!Start(c, r), r.pc \in {"clear", "save", "remove"},
             \A d \in A!Busy : request[d].id = r.id => request[d].entity.owner = r.entity.owner,
             addresses[r.id] # A!Absent => addresses[r.id].owner = r.entity.owner,
             r.pc = "save" /\ r.entity.isDefault =>
               addresses[r.id] # A!Absent /\ addresses[r.id].isDefault
      PROVE  /\ addresses' \in [Ids -> {A!Absent} \cup Row]
             /\ request' \in [Pair -> {R!Idle} \cup Requested]
             /\ AddressesAlone'
             /\ EntitiesMatch'
             /\ A!OneDefault'
  <2>1. /\ request[c] = R!Idle
        /\ request' = [request EXCEPT ![c] = r]
        /\ addresses' = addresses
        /\ \A u \in orderly' : /\ u \in orderly
                              /\ \A d \in A!Busy : u = r.entity.owner => request[d].entity.owner # u
    BY <1>2, <1>5 DEF A!Start, A!OwnersAtWork
  <2>2. request' \in [Pair -> {R!Idle} \cup Requested]
    BY <1>1, <2>1
  <2>3. \A d \in Pair : d # c => request'[d] = request[d]
    BY <1>1, <2>1
  <2>4. request'[c] = r /\ A!Busy' = A!Busy \cup {c} /\ c \notin A!Busy
    BY <1>1, <1>2, <1>5, <2>1, <2>3 DEF A!Busy
  <2>5. AddressesAlone'
    BY <1>1, <1>5, <2>1, <2>3, <2>4 DEF AddressesAlone, A!Busy
  <2>6. EntitiesMatch'
    <3>1. ASSUME r.pc = "save", r.entity.isDefault, r.entity.owner \in orderly,
                 NEW id \in Ids \ {r.id},
                 addresses[id] # A!Absent, addresses[id].owner = r.entity.owner
          PROVE  ~addresses[id].isDefault
      BY <1>1, <1>4, <1>5, <3>1 DEF A!OneDefault
    <3> QED
      BY <1>1, <1>5, <2>1, <2>3, <2>4, <3>1 DEF EntitiesMatch, A!Busy
  <2> QED
    BY <1>1, <2>1, <2>2, <2>5, <2>6 DEF A!OneDefault
<1> DEFINE Begins(c, r) ==
             /\ A!Start(c, r)
             /\ \A d \in A!Busy : request[d].id = r.id => request[d].entity.owner = r.entity.owner
             /\ addresses[r.id] # A!Absent => addresses[r.id].owner = r.entity.owner
             /\ r.pc = "save" /\ r.entity.isDefault =>
                  addresses[r.id] # A!Absent /\ addresses[r.id].isDefault
<1>6. ASSUME NEW c \in Pair, NEW u \in Users, NEW flag \in A!Flags,
             A!CreateAddress(c, u, flag)
      PROVE  \E r \in Requested : Begins(c, r)
  <2>1. PICK id \in Ids :
          /\ addresses[id] = A!Absent
          /\ id \notin {request[d].id : d \in A!Busy}
          /\ A!Start(c, [pc |-> IF flag = "yes" THEN "clear" ELSE "save", id |-> id,
                         entity |-> [owner |-> u, isDefault |-> flag = "yes"]])
    BY <1>6 DEF A!CreateAddress
  <2> DEFINE r == [pc |-> IF flag = "yes" THEN "clear" ELSE "save", id |-> id,
                   entity |-> [owner |-> u, isDefault |-> flag = "yes"]]
  <2>2. /\ r \in Requested /\ r.id = id /\ r.entity.owner = u
        /\ r.pc = "save" => ~r.entity.isDefault
    OBVIOUS
  <2> QED
    BY <1>6, <2>1, <2>2
<1>7. ASSUME NEW c \in Pair, NEW u \in Users, NEW id \in Ids,
             addresses[id] # A!Absent, addresses[id].owner = u,
             NEW r, A!Start(c, r), r.id = id, r.pc \in {"clear", "save", "remove"},
             r.entity \in Row, r.entity.owner = u, r \in Requested,
             r.pc = "save" /\ r.entity.isDefault => addresses[id].isDefault
      PROVE  \A d \in A!Busy : request[d].id = r.id => request[d].entity.owner = r.entity.owner
    BY <1>1, <1>7 DEF EntitiesMatch
<1>8. ASSUME NEW c \in Pair, NEW u \in Users, NEW id \in Ids, NEW flag \in A!Flags,
             A!UpdateAddress(c, u, id, flag)
      PROVE  \E r \in Requested : Begins(c, r)
  <2> DEFINE e == [addresses[id] EXCEPT !.isDefault = IF flag = "unset" THEN @ ELSE flag = "yes"]
             r == [pc |-> IF flag = "yes" THEN "clear" ELSE "save", id |-> id, entity |-> e]
  <2>1. /\ addresses[id] # A!Absent /\ addresses[id].owner = u
        /\ A!Start(c, r) /\ addresses[id] \in Row
    BY <1>4, <1>8 DEF A!UpdateAddress
  <2>2. e \in Row /\ e.owner = u /\ (flag \notin {"yes"} /\ e.isDefault => addresses[id].isDefault)
    BY <2>1
  <2>3. /\ r \in Requested /\ r.id = id /\ r.entity = e
        /\ r.pc \in {"clear", "save", "remove"}
        /\ r.pc = "save" => flag \notin {"yes"}
    BY <2>2
  <2> HIDE DEF e, r
  <2> QED
    BY <1>7, <1>8, <2>1, <2>2, <2>3
<1>9. ASSUME NEW c \in Pair, NEW u \in Users, NEW id \in Ids,
             A!RemoveAddress(c, u, id)
      PROVE  \E r \in Requested : Begins(c, r)
  <2> DEFINE r == [pc |-> "remove", id |-> id, entity |-> addresses[id]]
  <2>1. /\ addresses[id] # A!Absent /\ addresses[id].owner = u
        /\ A!Start(c, r) /\ addresses[id] \in Row
    BY <1>4, <1>9 DEF A!RemoveAddress
  <2>2. /\ r \in Requested /\ r.id = id /\ r.entity = addresses[id] /\ r.pc = "remove"
    BY <2>1
  <2> HIDE DEF r
  <2> QED
    BY <1>7, <1>9, <2>1, <2>2
<1>10. ASSUME NEW c \in Pair, A!ClearDefaults(c)
       PROVE  /\ addresses' \in [Ids -> {A!Absent} \cup Row]
              /\ request' \in [Pair -> {R!Idle} \cup Requested]
              /\ AddressesAlone'
              /\ EntitiesMatch'
              /\ A!OneDefault'
  <2>1. request[c] \in Requested /\ c \in A!Busy /\ request[c].pc = "clear"
    BY <1>3, <1>10 DEF A!ClearDefaults
  <2> DEFINE u == request[c].entity.owner
  <2>2. \A id \in Ids :
          addresses'[id] = IF addresses[id] # A!Absent /\ addresses[id].owner = u
                           THEN [addresses[id] EXCEPT !.isDefault = FALSE] ELSE addresses[id]
    BY <1>10 DEF A!ClearDefaults
  <2>3. \A id \in Ids : /\ addresses'[id] # A!Absent <=> addresses[id] # A!Absent
                        /\ addresses'[id] \in {A!Absent} \cup Row
                        /\ addresses[id] # A!Absent =>
                             /\ addresses'[id].owner = addresses[id].owner
                             /\ addresses'[id].isDefault => addresses[id].isDefault /\ addresses[id].owner # u
    <3> SUFFICES ASSUME NEW id \in Ids
                 PROVE  /\ addresses'[id] # A!Absent <=> addresses[id] # A!Absent
                        /\ addresses'[id] \in {A!Absent} \cup Row
                        /\ addresses[id] # A!Absent =>
                             /\ addresses'[id].owner = addresses[id].owner
                             /\ addresses'[id].isDefault => addresses[id].isDefault /\ addresses[id].owner # u
      OBVIOUS
    <3>1. CASE addresses[id] # A!Absent /\ addresses[id].owner = u
      <4> DEFINE cleared == [addresses[id] EXCEPT !.isDefault = FALSE]
      <4>1. addresses[id] \in Row /\ addresses'[id] = cleared
        BY <1>4, <2>2, <3>1
      <4>2. cleared \in Row /\ cleared.owner = addresses[id].owner /\ ~cleared.isDefault
        BY <4>1
      <4> HIDE DEF cleared
      <4> QED
        BY <3>1, <4>1, <4>2
    <3>2. CASE ~(addresses[id] # A!Absent /\ addresses[id].owner = u)
      BY <1>1, <2>2, <3>2
    <3> QED
      BY <3>1, <3>2
  <2>4. DOMAIN addresses' = Ids /\ addresses' = [id \in Ids |-> addresses'[id]]
    BY <1>10 DEF A!ClearDefaults
  <2>5. addresses' \in [Ids -> {A!Absent} \cup Row]
    BY <2>3, <2>4
  <2>6. /\ request' = [request EXCEPT ![c].pc = "save"]
        /\ request'[c] = [request[c] EXCEPT !.pc = "save"]
        /\ request'[c] \in Requested /\ request'[c].id = request[c].id
        /\ request'[c].entity = request[c].entity /\ request'[c].pc = "save"
        /\ \A d \in Pair : d # c => request'[d] = request[d]
    BY <1>1, <1>10, <2>1 DEF A!ClearDefaults
  <2>7. request' \in [Pair -> {R!Idle} \cup Requested] /\ A!Busy' = A!Busy
    BY <1>1, <1>2, <2>1, <2>6 DEF A!Busy
  <2>11. \A v \in orderly' \ orderly : /\ v = u
                                      /\ \A d \in A!Busy \ {c} : request[d].entity.owner # u
    BY <1>10 DEF A!ClearDefaults, A!OwnersAtWork
  <2>8. AddressesAlone'
    BY <1>1, <2>1, <2>6, <2>7, <2>11 DEF AddressesAlone, A!Busy
  <2>9. EntitiesMatch'
    <3>1. \A d \in A!Busy : request'[d].id \in Ids /\ d \in Pair
      BY <1>1, <1>2, <2>6, <2>7 DEF A!Busy
    <3> QED
      BY <1>1, <2>3, <2>6, <2>7, <2>11, <3>1 DEF EntitiesMatch
  <2>10. A!OneDefault'
    BY <1>1, <2>3, <2>11 DEF A!OneDefault
  <2> QED
    BY <2>5, <2>7, <2>8, <2>9, <2>10
<1>11. ASSUME NEW c \in Pair, request' = [request EXCEPT ![c] = R!Idle], orderly' = orderly
       PROVE  /\ request' \in [Pair -> {R!Idle} \cup Requested]
              /\ AddressesAlone'
              /\ A!Busy' = A!Busy \ {c}
              /\ \A d \in A!Busy' : d # c /\ d \in Pair /\ request'[d] = request[d] /\ request[d] \in Requested
  <2>1. \A d \in Pair : request'[d] = IF d = c THEN R!Idle ELSE request[d]
    BY <1>1, <1>11
  <2>2. request' \in [Pair -> {R!Idle} \cup Requested]
    BY <1>1, <1>11
  <2>3. A!Busy' = A!Busy \ {c}
    BY <1>2, <2>1 DEF A!Busy
  <2>4. \A d \in A!Busy' : /\ d # c /\ d \in Pair /\ d \in A!Busy
                           /\ request'[d] = request[d] /\ request[d] \in Requested
    BY <1>1, <2>1, <2>3 DEF A!Busy
  <2>5. orderly' = orderly
    BY <1>11
  <2>6. AddressesAlone'
    BY <1>1, <2>4, <2>5 DEF AddressesAlone
  <2> QED
    BY <2>2, <2>3, <2>4, <2>6
<1>12. ASSUME NEW c \in Pair, A!SaveAddress(c)
       PROVE  /\ addresses' \in [Ids -> {A!Absent} \cup Row]
              /\ request' \in [Pair -> {R!Idle} \cup Requested]
              /\ AddressesAlone'
              /\ EntitiesMatch'
              /\ A!OneDefault'
  <2>1. request[c] \in Requested /\ c \in A!Busy /\ request[c].pc = "save"
    BY <1>3, <1>12 DEF A!SaveAddress
  <2>2. /\ addresses' = [addresses EXCEPT ![request[c].id] = request[c].entity]
        /\ request' = [request EXCEPT ![c] = R!Idle]
        /\ orderly' = orderly
    BY <1>2, <1>12 DEF A!SaveAddress
  <2>3. /\ addresses' \in [Ids -> {A!Absent} \cup Row]
        /\ addresses'[request[c].id] = request[c].entity
        /\ \A id \in Ids \ {request[c].id} : addresses'[id] = addresses[id]
    BY <1>1, <2>1, <2>2
  <2>6. /\ request' \in [Pair -> {R!Idle} \cup Requested]
        /\ AddressesAlone'
        /\ A!Busy' = A!Busy \ {c}
        /\ \A d \in A!Busy' : d # c /\ d \in Pair /\ request'[d] = request[d] /\ request[d] \in Requested
    BY <1>11, <2>2
  <2>4. EntitiesMatch'
    <3>1. \A d \in A!Busy' : /\ d \in A!Busy /\ d # c
                             /\ request[d].id = request[c].id =>
                                  request[d].entity.owner = request[c].entity.owner
                             /\ request[d].entity.owner \in orderly =>
                                  request[d].entity.owner # request[c].entity.owner
      BY <1>1, <2>1, <2>6 DEF AddressesAlone
    <3>5. orderly' = orderly /\ \A d \in A!Busy' : request'[d] = request[d]
      BY <2>2, <2>6
    <3> SUFFICES ASSUME NEW d \in A!Busy'
                 PROVE  /\ addresses'[request[d].id] # A!Absent =>
                             addresses'[request[d].id].owner = request[d].entity.owner
                        /\ request[d].pc = "save" /\ request[d].entity.isDefault
                             /\ request[d].entity.owner \in orderly =>
                             \A id \in Ids \ {request[d].id} :
                               addresses'[id] # A!Absent
                                 /\ addresses'[id].owner = request[d].entity.owner
                               => ~addresses'[id].isDefault
      BY <3>5 DEF EntitiesMatch
    <3>2. d \in A!Busy /\ d # c /\ request[d] \in Requested /\ request[d].id \in Ids
      BY <2>6, <3>1
    <3>3. CASE request[d].id = request[c].id
      BY <1>1, <2>3, <3>1, <3>2, <3>3 DEF EntitiesMatch
    <3>4. CASE request[d].id # request[c].id
      BY <1>1, <2>3, <3>1, <3>2, <3>4 DEF EntitiesMatch
    <3> QED
      BY <3>3, <3>4
  <2>5. A!OneDefault'
    BY <1>1, <1>4, <2>1, <2>2, <2>3 DEF A!OneDefault, EntitiesMatch
  <2> QED
    BY <1>11, <2>2, <2>3, <2>4, <2>5
<1>13. ASSUME NEW c \in Pair, A!DeleteAddress(c)
       PROVE  /\ addresses' \in [Ids -> {A!Absent} \cup Row]
              /\ request' \in [Pair -> {R!Idle} \cup Requested]
              /\ AddressesAlone'
              /\ EntitiesMatch'
              /\ A!OneDefault'
  <2>1. request[c] \in Requested /\ c \in A!Busy
    BY <1>3, <1>13 DEF A!DeleteAddress
  <2>2. /\ addresses' = [addresses EXCEPT ![request[c].id] = A!Absent]
        /\ request' = [request EXCEPT ![c] = R!Idle]
        /\ orderly' = orderly
    BY <1>2, <1>13 DEF A!DeleteAddress
  <2>3. /\ addresses' \in [Ids -> {A!Absent} \cup Row]
        /\ \A id \in Ids : addresses'[id] # A!Absent =>
             addresses[id] # A!Absent /\ addresses'[id] = addresses[id]
    BY <1>1, <2>1, <2>2
  <2>6. /\ request' \in [Pair -> {R!Idle} \cup Requested]
        /\ AddressesAlone'
        /\ A!Busy' = A!Busy \ {c}
        /\ \A d \in A!Busy' : d # c /\ d \in Pair /\ request'[d] = request[d] /\ request[d] \in Requested
    BY <1>11, <2>2
  <2>4. EntitiesMatch'
    BY <1>1, <2>2, <2>3, <2>6 DEF EntitiesMatch
  <2>5. A!OneDefault'
    BY <1>1, <2>2, <2>3 DEF A!OneDefault
  <2> QED
    BY <1>11, <2>2, <2>3, <2>4, <2>5
<1>14. ASSUME NEW c \in Pair, A!AddressFails(c)
       PROVE  /\ addresses' \in [Ids -> {A!Absent} \cup Row]
              /\ request' \in [Pair -> {R!Idle} \cup Requested]
              /\ AddressesAlone'
              /\ EntitiesMatch'
              /\ A!OneDefault'
  <2>1. addresses' = addresses /\ request' = [request EXCEPT ![c] = R!Idle] /\ orderly' = orderly
    BY <1>2, <1>14 DEF A!AddressFails
  <2>4. /\ request' \in [Pair -> {R!Idle} \cup Requested]
        /\ AddressesAlone'
        /\ A!Busy' = A!Busy \ {c}
        /\ \A d \in A!Busy' : d # c /\ d \in Pair /\ request'[d] = request[d] /\ request[d] \in Requested
    BY <1>11, <2>1
  <2>2. EntitiesMatch'
    BY <1>1, <2>1, <2>4 DEF EntitiesMatch
  <2>3. A!OneDefault'
    BY <1>1, <2>1 DEF A!OneDefault
  <2> QED
    BY <1>1, <1>11, <2>1, <2>2, <2>3
<1>15. ASSUME NEW c \in Pair, NEW r \in Requested, Begins(c, r)
       PROVE  /\ addresses' \in [Ids -> {A!Absent} \cup Row]
              /\ request' \in [Pair -> {R!Idle} \cup Requested]
              /\ AddressesAlone'
              /\ EntitiesMatch'
              /\ A!OneDefault'
  BY <1>5, <1>15
<1> QED
  <2>1. PICK c \in Pair :
          \/ \E u \in Users, flag \in A!Flags : A!CreateAddress(c, u, flag)
          \/ \E u \in Users, flag \in A!Flags, id \in Ids : A!UpdateAddress(c, u, id, flag)
          \/ \E u \in Users, id \in Ids : A!RemoveAddress(c, u, id)
          \/ A!ClearDefaults(c) \/ A!SaveAddress(c) \/ A!DeleteAddress(c) \/ A!AddressFails(c)
    BY DEF A!AddressesNext
  <2>2. CASE \E u \in Users, flag \in A!Flags : A!CreateAddress(c, u, flag)
    <3>1. PICK u \in Users, flag \in A!Flags : A!CreateAddress(c, u, flag)
      BY <2>2
    <3>2. PICK r \in Requested : Begins(c, r)
      <4> HIDE DEF Begins, Requested
      <4> QED
        BY <1>6, <3>1
    <3> QED
      BY <1>15, <3>2
  <2>3. CASE \E u \in Users, flag \in A!Flags, id \in Ids : A!UpdateAddress(c, u, id, flag)
    <3>1. PICK u \in Users, flag \in A!Flags, id \in Ids : A!UpdateAddress(c, u, id, flag)
      BY <2>3
    <3>2. PICK r \in Requested : Begins(c, r)
      <4> HIDE DEF Begins, Requested
      <4> QED
        BY <1>8, <3>1
    <3> QED
      BY <1>15, <3>2
  <2>4. CASE \E u \in Users, id \in Ids : A!RemoveAddress(c, u, id)
    <3>1. PICK u \in Users, id \in Ids : A!RemoveAddress(c, u, id)
      BY <2>4
    <3>2. PICK r \in Requested : Begins(c, r)
      <4> HIDE DEF Begins, Requested
      <4> QED
        BY <1>9, <3>1
    <3> QED
      BY <1>15, <3>2
  <2>5. CASE A!ClearDefaults(c) \/ A!SaveAddress(c) \/ A!DeleteAddress(c) \/ A!AddressFails(c)
    BY <1>10, <1>12, <1>13, <1>14, <2>5
  <2> QED
    BY <2>1, <2>2, <2>3, <2>4, <2>5

(* A shipment that is completed does not change any more. *)
LEMMA CompletedStays ==
    ASSUME ShipmentsTyped, ShipmentStep, NEW s \in Shipments, shipment[s].completed
    PROVE  shipment'[s] = shipment[s]
<1>1. shipment[s] # Unposted /\ shipment[s].carrier # Nobody
  BY DEF ShipmentsTyped, Unposted
<1>2. shipment[s] \in [shipper : Users \cup {Nobody}, carrier : Users \cup {Nobody},
                       completed : BOOLEAN]
  BY DEF ShipmentsTyped
<1>3. [shipment[s] EXCEPT !.completed = TRUE] = shipment[s]
  BY <1>2
<1> QED
  BY <1>1, <1>3 DEF ShipmentsTyped, ShipmentStep

LEMMA ShipmentsStayTyped ==
    ASSUME ShipmentsTyped, ShipmentStep PROVE ShipmentsTyped'
<1> DEFINE T == [shipper : Users \cup {Nobody}, carrier : Users \cup {Nobody}, completed : BOOLEAN]
<1>1. PICK s \in Shipments :
         \/ \E u \in Users \ Admins :
              /\ shipment[s] = Unposted
              /\ shipment' = [shipment EXCEPT ![s].shipper = u]
         \/ \E u \in Users \ Admins :
              /\ shipment[s].carrier = Nobody
              /\ shipment[s].shipper \notin {Nobody, u}
              /\ shipment' = [shipment EXCEPT ![s].carrier = u]
         \/ /\ shipment[s].carrier # Nobody
            /\ shipment' = [shipment EXCEPT ![s].completed = TRUE]
  BY DEF ShipmentStep
<1>2. /\ shipment \in [Shipments -> T]
      /\ shipment[s] \in T
      /\ shipment[s].completed => shipment[s].carrier # Nobody
  BY DEF ShipmentsTyped
<1>3. \E t \in T : shipment' = [shipment EXCEPT ![s] = t]
                   /\ (t.completed => t.carrier # Nobody)
  <2>1. CASE \E u \in Users \ Admins : /\ shipment[s] = Unposted
                                       /\ shipment' = [shipment EXCEPT ![s].shipper = u]
    <3> PICK u \in Users \ Admins : shipment' = [shipment EXCEPT ![s].shipper = u]
      BY <2>1
    <3> DEFINE t == [shipment[s] EXCEPT !.shipper = u]
    <3>1. /\ t \in T /\ (t.completed => t.carrier # Nobody)
          /\ shipment' = [shipment EXCEPT ![s] = t]
      BY <1>2, <2>1 DEF Unposted
    <3> HIDE DEF t
    <3> QED
      BY <3>1
  <2>2. CASE \E u \in Users \ Admins : /\ shipment[s].carrier = Nobody
                                       /\ shipment' = [shipment EXCEPT ![s].carrier = u]
    <3> PICK u \in Users \ Admins : shipment' = [shipment EXCEPT ![s].carrier = u]
      BY <2>2
    <3>a. ~shipment[s].completed
      BY <1>2, <2>2
    <3> DEFINE t == [shipment[s] EXCEPT !.carrier = u]
    <3>1. /\ t \in T /\ (t.completed => t.carrier # Nobody)
          /\ shipment' = [shipment EXCEPT ![s] = t]
      BY <1>2, <2>2, <3>a
    <3> HIDE DEF t
    <3> QED
      BY <3>1
  <2>3. CASE shipment[s].carrier # Nobody /\ shipment' = [shipment EXCEPT ![s].completed = TRUE]
    <3> DEFINE t == [shipment[s] EXCEPT !.completed = TRUE]
    <3>1. /\ t \in T /\ (t.completed => t.carrier # Nobody)
          /\ shipment' = [shipment EXCEPT ![s] = t]
      BY <1>2, <2>3
    <3> HIDE DEF t
    <3> QED
      BY <3>1
  <2> QED
    BY <1>1, <2>1, <2>2, <2>3
<1> QED
  BY <1>2, <1>3 DEF ShipmentsTyped

LEMMA ReviewsStep ==
    ASSUME ReviewsInv, service = "reviews", service' = service,
           \/ R!ReviewsNext
           \/ ShipmentStep
    PROVE  ReviewsInv'
<1> DEFINE Requested == [pc : {"findReview", "insertReview"}, row : ReviewRows]
<1>1. /\ \A i, j \in DOMAIN reviews : R!SameReview(reviews[i], reviews[j]) => i = j
      /\ ShipmentsTyped
      /\ reviews \in Seq(ReviewRows)
      /\ request \in [Pair -> {R!Idle} \cup Requested]
      /\ \A i \in DOMAIN reviews : BothParties(reviews[i])
      /\ \A c \in Pair : request[c] # R!Idle => BothParties(request[c].row)
  BY DEF ReviewsInv
<1>2. R!Idle \notin Requested /\ R!Idle.pc = "idle"
  BY DEF R!Idle
<1> SUFFICES /\ \A i, j \in DOMAIN reviews' : R!SameReview(reviews'[i], reviews'[j]) => i = j
             /\ ShipmentsTyped'
             /\ reviews' \in Seq(ReviewRows)
             /\ request' \in [Pair -> {R!Idle} \cup Requested]
             /\ \A i \in DOMAIN reviews' : BothParties(reviews[i])'
             /\ \A c \in Pair : request'[c] # R!Idle => BothParties(request[c].row)'
  BY DEF ReviewsInv, R!SameReview
<1>3. ASSUME NEW r \in ReviewRows, BothParties(r), shipment'[r.shipment] = shipment[r.shipment]
      PROVE  /\ shipment'[r.shipment].completed
             /\ {r.reviewer, r.reviewee} = {shipment'[r.shipment].shipper, shipment'[r.shipment].carrier}
  BY <1>3 DEF BothParties
<1>4. CASE ShipmentStep
  <2>1. UNCHANGED <<reviews, request>>
    BY <1>4 DEF ShipmentStep
  <2>2. \A r \in ReviewRows : BothParties(r) =>
          /\ shipment'[r.shipment].completed
          /\ {r.reviewer, r.reviewee} = {shipment'[r.shipment].shipper, shipment'[r.shipment].carrier}
    BY <1>1, <1>3, <1>4, CompletedStays DEF BothParties, ReviewRows
  <2>3. \A i \in DOMAIN reviews : reviews[i] \in ReviewRows
    BY <1>1, ElementOfSeq, LenProperties
  <2>4. \A c \in Pair : request[c] # R!Idle => request[c].row \in ReviewRows
    BY <1>1
  <2> QED
    BY <1>1, <1>4, <2>1, <2>2, <2>3, <2>4, ShipmentsStayTyped DEF BothParties
<1>5. ASSUME R!ReviewsNext PROVE shipment' = shipment /\ ShipmentsTyped'
  BY <1>1, <1>5 DEF ShipmentsTyped, R!ReviewsNext, R!CreateReview, R!FindReview, R!InsertReview
<1>6. ASSUME NEW c \in Pair, NEW u \in Users \ Admins, NEW s \in Shipments, R!CreateReview(c, u, s),
             ShipmentsTyped', shipment' = shipment
      PROVE  /\ \A i, j \in DOMAIN reviews' : R!SameReview(reviews'[i], reviews'[j]) => i = j
             /\ reviews' \in Seq(ReviewRows)
             /\ request' \in [Pair -> {R!Idle} \cup Requested]
             /\ \A i \in DOMAIN reviews' : BothParties(reviews[i])'
             /\ \A d \in Pair : request'[d] # R!Idle => BothParties(request[d].row)'
  <2> DEFINE r == R!Review(s, u)
  <2>1. /\ shipment[s].completed /\ u \in {shipment[s].shipper, shipment[s].carrier}
        /\ request' = [request EXCEPT ![c] = [pc |-> "findReview", row |-> r]]
        /\ reviews' = reviews
    BY <1>6 DEF R!CreateReview
  <2>2. shipment[s].shipper \in Users \cup {Nobody} /\ shipment[s].carrier \in Users \cup {Nobody}
    BY <1>1 DEF ShipmentsTyped
  <2>3. r \in ReviewRows /\ BothParties(r)
    BY <2>1, <2>2 DEF R!Review, ReviewRows, BothParties
  <2> HIDE DEF r
  <2> QED
    BY <1>1, <1>6, <2>1, <2>3 DEF BothParties
<1>7. ASSUME NEW c \in Pair, R!FindReview(c), ShipmentsTyped', shipment' = shipment
      PROVE  /\ \A i, j \in DOMAIN reviews' : R!SameReview(reviews'[i], reviews'[j]) => i = j
             /\ reviews' \in Seq(ReviewRows)
             /\ request' \in [Pair -> {R!Idle} \cup Requested]
             /\ \A i \in DOMAIN reviews' : BothParties(reviews[i])'
             /\ \A d \in Pair : request'[d] # R!Idle => BothParties(request[d].row)'
  <2>1. /\ reviews' = reviews
        /\ request[c] \in Requested
        /\ \/ request' = [request EXCEPT ![c] = R!Idle]
           \/ request' = [request EXCEPT ![c].pc = "insertReview"]
    BY <1>1, <1>2, <1>7 DEF R!FindReview, R!Finish, R!Goto
  <2>2. /\ [request[c] EXCEPT !.pc = "insertReview"] \in Requested
        /\ [request[c] EXCEPT !.pc = "insertReview"].row = request[c].row
        /\ request[c] # R!Idle
    BY <1>2, <2>1
  <2>3. /\ request' \in [Pair -> {R!Idle} \cup Requested]
        /\ \A d \in Pair : request'[d] # R!Idle =>
             request[d] # R!Idle /\ request'[d].row = request[d].row
    BY <1>1, <2>1, <2>2
  <2> QED
    BY <1>1, <1>7, <2>1, <2>3 DEF BothParties
<1>8. ASSUME NEW c \in Pair, R!InsertReview(c), ShipmentsTyped', shipment' = shipment
      PROVE  /\ \A i, j \in DOMAIN reviews' : R!SameReview(reviews'[i], reviews'[j]) => i = j
             /\ reviews' \in Seq(ReviewRows)
             /\ request' \in [Pair -> {R!Idle} \cup Requested]
             /\ \A i \in DOMAIN reviews' : BothParties(reviews[i])'
             /\ \A d \in Pair : request'[d] # R!Idle => BothParties(request[d].row)'
  <2>1. /\ request[c] \in Requested /\ request[c] # R!Idle
        /\ request' = [request EXCEPT ![c] = R!Idle]
        /\ reviews' = IF R!ReviewConflict(request[c].row) THEN reviews
                      ELSE Append(reviews, request[c].row)
    BY <1>1, <1>2, <1>8 DEF R!InsertReview, R!Finish
  <2>2. /\ request' \in [Pair -> {R!Idle} \cup Requested]
        /\ \A d \in Pair : request'[d] # R!Idle => BothParties(request[d].row)'
    BY <1>1, <1>8, <2>1 DEF BothParties
  <2>3. CASE reviews' = reviews
    BY <1>1, <1>8, <2>2, <2>3 DEF BothParties
  <2>4. CASE ~R!ReviewConflict(request[c].row) /\ reviews' = Append(reviews, request[c].row)
    <3> DEFINE row == request[c].row
               n == Len(reviews)
    <3>1. row \in ReviewRows /\ BothParties(row) /\ n \in Nat /\ DOMAIN reviews = 1..n
      BY <1>1, <2>1
    <3>2. /\ reviews' \in Seq(ReviewRows) /\ DOMAIN reviews' = 1..(n + 1)
          /\ reviews'[n + 1] = row
          /\ \A i \in 1..n : reviews'[i] = reviews[i]
      BY <1>1, <2>4, <3>1
    <3>3. \A i \in 1..n : ~R!SameReview(reviews[i], row) /\ ~R!SameReview(row, reviews[i])
      BY <2>4, <3>1 DEF R!ReviewConflict, R!SameReview
    <3> HIDE DEF n, row
    <3>4. \A i \in 1..(n + 1) : i \in 1..n \/ i = n + 1
      BY <3>1
    <3>5. \A i, j \in DOMAIN reviews' : R!SameReview(reviews'[i], reviews'[j]) => i = j
      BY <1>1, <3>1, <3>2, <3>3, <3>4
    <3>6. \A i \in DOMAIN reviews' : BothParties(reviews[i])'
      BY <1>1, <1>8, <3>1, <3>2, <3>4 DEF BothParties
    <3> QED
      BY <2>2, <3>2, <3>5, <3>6
  <2> QED
    BY <2>1, <2>3, <2>4
<1> QED
  BY <1>4, <1>5, <1>6, <1>7, <1>8 DEF R!ReviewsNext

LEMMA PreferencesStep ==
    ASSUME PreferencesInv, service = "preferences", service' = service, R!PreferencesNext
    PROVE  PreferencesInv'
<1> DEFINE Asking == [pc : {"findPreferences", "insertPreferences"}, user : Users, switch : R!Switches]
           Saving == [pc : {"savePreferences"}, user : Users, muted : SUBSET R!Keys]
           Requested == {R!Idle} \cup Asking \cup Saving
           OneEach == \A i, j \in DOMAIN preferences : preferences[i].user = preferences[j].user => i = j
<1>1. /\ OneEach
      /\ preferences \in Seq(PreferenceRows)
      /\ request \in [Pair -> Requested]
  BY DEF PreferencesInv
<1>2. R!Idle.pc = "idle"
  BY DEF R!Idle
<1> SUFFICES OneEach' /\ preferences' \in Seq(PreferenceRows) /\ request' \in [Pair -> Requested]
  BY DEF PreferencesInv
<1>3. ASSUME NEW c \in Pair, NEW u \in Users \ Admins, NEW switch \in R!Switches,
             R!AskPreferences(c, u, switch)
      PROVE  OneEach' /\ preferences' \in Seq(PreferenceRows) /\ request' \in [Pair -> Requested]
  BY <1>1, <1>3 DEF R!AskPreferences
<1>4. ASSUME NEW c \in Pair, request[c] \in Asking, NEW muted \in SUBSET R!Keys, R!Loaded(c, muted)
      PROVE  request' \in [Pair -> Requested]
  <2>1. CASE request' = [request EXCEPT ![c] = R!Idle]
    BY <1>1, <2>1
  <2>2. CASE /\ request[c].switch.key \in R!Keys
             /\ request' = [request EXCEPT ![c] = [pc |-> "savePreferences", user |-> request[c].user,
                              muted |-> R!Switched(muted, request[c].switch)]]
    <3>1. R!Switched(muted, request[c].switch) \in SUBSET R!Keys
      BY <2>2 DEF R!Switched
    <3>2. request[c].user \in Users
      BY <1>4
    <3> QED
      BY <1>1, <2>2, <3>1, <3>2
  <2> QED
    BY <1>4, <2>1, <2>2 DEF R!Loaded, R!Finish
<1>5. ASSUME NEW c \in Pair, R!FindPreferences(c)
      PROVE  OneEach' /\ preferences' \in Seq(PreferenceRows) /\ request' \in [Pair -> Requested]
  <2>1. request[c] \in Asking /\ preferences' = preferences
    BY <1>1, <1>2, <1>5 DEF R!FindPreferences
  <2>2. CASE \E i \in R!RowOf(request[c].user) : R!Loaded(c, preferences[i].muted)
    <3> PICK i \in DOMAIN preferences : R!Loaded(c, preferences[i].muted)
      BY <2>2 DEF R!RowOf
    <3>1. preferences[i] \in PreferenceRows
      BY <1>1, ElementOfSeq
    <3>2. preferences[i].muted \in SUBSET R!Keys
      BY <3>1 DEF PreferenceRows
    <3> QED
      BY <1>1, <1>4, <2>1, <3>2
  <2>3. CASE R!Goto(c, "insertPreferences")
    <3>1. [request[c] EXCEPT !.pc = "insertPreferences"] \in Asking
      BY <2>1
    <3> QED
      BY <1>1, <2>1, <2>3, <3>1 DEF R!Goto
  <2> QED
    BY <1>1, <1>5, <2>1, <2>2, <2>3 DEF R!FindPreferences
<1>6. ASSUME NEW c \in Pair, R!InsertPreferences(c)
      PROVE  OneEach' /\ preferences' \in Seq(PreferenceRows) /\ request' \in [Pair -> Requested]
  <2>1. request[c] \in Asking
    BY <1>1, <1>2, <1>6 DEF R!InsertPreferences
  <2>2. CASE R!Finish(c) /\ UNCHANGED preferences
    BY <1>1, <2>2 DEF R!Finish
  <2>3. CASE /\ R!RowOf(request[c].user) = {}
             /\ preferences' = Append(preferences, R!NewPreferences(request[c].user))
             /\ R!Loaded(c, {})
    <3> DEFINE row == R!NewPreferences(request[c].user)
               n == Len(preferences)
    <3>1. row \in PreferenceRows /\ row.user = request[c].user /\ n \in Nat /\ DOMAIN preferences = 1..n
      BY <1>1, <2>1 DEF R!NewPreferences, PreferenceRows
    <3>2. \A i \in 1..n : preferences[i].user # request[c].user
      BY <2>3, <3>1 DEF R!RowOf
    <3> HIDE DEF row
    <3>3. /\ preferences' \in Seq(PreferenceRows) /\ DOMAIN preferences' = 1..(n + 1)
          /\ preferences'[n + 1] = row
          /\ \A i \in 1..n : preferences'[i] = preferences[i]
      BY <1>1, <2>3, <3>1 DEF row
    <3> HIDE DEF n
    <3>4. \A i \in 1..(n + 1) : i \in 1..n \/ i = n + 1
      BY <3>1
    <3>5. OneEach'
      BY <1>1, <3>1, <3>2, <3>3, <3>4
    <3> QED
      BY <1>4, <2>1, <2>3, <3>3, <3>5
  <2> QED
    BY <1>6, <2>2, <2>3 DEF R!InsertPreferences
<1>7. ASSUME NEW c \in Pair, R!SavePreferences(c)
      PROVE  OneEach' /\ preferences' \in Seq(PreferenceRows) /\ request' \in [Pair -> Requested]
  <2>1. /\ request[c] \in Saving
        /\ request' = [request EXCEPT ![c] = R!Idle]
        /\ preferences' = [i \in DOMAIN preferences |->
                             IF preferences[i].user = request[c].user
                             THEN [preferences[i] EXCEPT !.muted = request[c].muted]
                             ELSE preferences[i]]
    BY <1>1, <1>2, <1>7 DEF R!SavePreferences, R!Finish
  <2>2. \A i \in DOMAIN preferences : preferences[i] \in PreferenceRows
    BY <1>1, ElementOfSeq
  <2>3. \A i \in DOMAIN preferences :
          preferences'[i] \in PreferenceRows /\ preferences'[i].user = preferences[i].user
    BY <2>1, <2>2 DEF PreferenceRows
  <2>4. DOMAIN preferences' = DOMAIN preferences
        /\ Len(preferences) \in Nat /\ DOMAIN preferences = 1..Len(preferences)
        /\ preferences' = [i \in 1..Len(preferences) |-> preferences'[i]]
    BY <1>1, <2>1
  <2>5. preferences' \in [1..Len(preferences) -> PreferenceRows]
    BY <2>3, <2>4
  <2>6. preferences' \in Seq(PreferenceRows)
    BY <2>4, <2>5, SeqDef
  <2> QED
    BY <1>1, <2>1, <2>3, <2>4, <2>6
<1> QED
  BY <1>3, <1>5, <1>6, <1>7 DEF R!PreferencesNext

(* What CertificationsInv says of the flags. *)
Traced(id) ==
    \/ \E i \in DOMAIN auditLog : auditLog[i] = C!AuditLog("CERTIFICATION_VERIFIED", id)
    \/ \E c \in Pair : /\ request[c].pc = "log"
                       /\ request[c].id = id
                       /\ request[c].entity.isVerified

AuditActions == {"CERTIFICATION_VERIFIED", "CERTIFICATION_UNVERIFIED", "PATCH"}
AuditEntries == [action : AuditActions, id : Ids]

LEMMA AuditGrows ==
    ASSUME auditLog \in Seq(AuditEntries), NEW action \in AuditActions, NEW id \in Ids,
           C!LogAction(action, id)
    PROVE  /\ auditLog' \in Seq(AuditEntries)
           /\ \A i \in DOMAIN auditLog : i \in DOMAIN auditLog' /\ auditLog'[i] = auditLog[i]
           /\ \E i \in DOMAIN auditLog' : auditLog'[i] = C!AuditLog(action, id)
<1> DEFINE entry == C!AuditLog(action, id)
           n == Len(auditLog)
<1>1. entry \in AuditEntries /\ auditLog' = Append(auditLog, entry) /\ n \in Nat /\ DOMAIN auditLog = 1..n
  BY DEF AuditEntries, C!AuditLog, C!LogAction
<1> HIDE DEF entry
<1>2. /\ auditLog' \in Seq(AuditEntries) /\ DOMAIN auditLog' = 1..(n + 1)
      /\ auditLog'[n + 1] = entry
      /\ \A i \in 1..n : auditLog'[i] = auditLog[i]
  BY <1>1
<1> HIDE DEF n
<1>3. n + 1 \in 1..(n + 1) /\ \A i \in 1..n : i \in 1..(n + 1)
  BY <1>1
<1> QED
  BY <1>1, <1>2, <1>3 DEF entry

LEMMA CertificationsStep ==
    ASSUME CertificationsInv, service = "certifications", service' = service,
           C!CertificationsNext
    PROVE  CertificationsInv'
<1> DEFINE Requested == [pc : {"save", "log", "intercept", "remove"}, id : Ids, entity : Certified]
           Typed == /\ certifications \in [Ids -> {C!Absent} \cup Certified]
                    /\ auditLog \in Seq(AuditEntries)
                    /\ request \in [Pair -> {C!Idle} \cup Requested]
           Verified(id) == certifications[id] # C!Absent /\ certifications[id].isVerified
           AllTraced == ~brokenOff => \A id \in Ids : Verified(id) => Traced(id)
<1>1. Typed /\ AllTraced
  BY DEF CertificationsInv, AuditEntries, AuditActions, Traced
<1>2. C!Idle \notin Requested /\ C!Idle.pc = "idle" /\ C!Absent \notin Certified
  BY DEF C!Idle, C!Absent, Certified
<1> SUFFICES Typed' /\ AllTraced'
  BY DEF CertificationsInv, AuditEntries, AuditActions, Traced
<1>3. \A c \in Pair : request[c].pc # "idle" => request[c] \in Requested
  BY <1>1, <1>2
<1>4. ASSUME auditLog' = auditLog \/ \E a \in AuditActions, i \in Ids : C!LogAction(a, i),
             NEW c \in Pair, NEW r, request' = [request EXCEPT ![c] = r],
             request[c].pc # "log", NEW id \in Ids, Traced(id)
      PROVE  Traced(id)'
  <2>1. \A i \in DOMAIN auditLog : i \in DOMAIN auditLog' /\ auditLog'[i] = auditLog[i]
    BY <1>1, <1>4, AuditGrows
  <2>2. \A d \in Pair : d # c => request'[d] = request[d]
    BY <1>1, <1>4
  <2>3. CASE \E i \in DOMAIN auditLog : auditLog[i] = C!AuditLog("CERTIFICATION_VERIFIED", id)
    BY <2>1, <2>3 DEF Traced, C!AuditLog
  <2>4. CASE \E d \in Pair : /\ request[d].pc = "log" /\ request[d].id = id
                             /\ request[d].entity.isVerified
    BY <1>4, <2>2, <2>4 DEF Traced
  <2> QED
    BY <1>4, <2>3, <2>4 DEF Traced
<1>5. ASSUME NEW carrier \in Users \ Admins, NEW id \in Ids, C!CreateCertification(carrier, id)
      PROVE  Typed' /\ AllTraced'
  <2> DEFINE row == [carrier |-> carrier, isVerified |-> FALSE]
  <2>1. /\ certifications' = [certifications EXCEPT ![id] = row]
        /\ UNCHANGED <<auditLog, brokenOff, request>>
        /\ row \in Certified /\ ~row.isVerified
    BY <1>5 DEF C!CreateCertification, Certified
  <2> HIDE DEF row
  <2>2. Typed'
    BY <1>1, <2>1
  <2>3. \A i \in Ids : Verified(i)' => Verified(i)
    BY <1>1, <2>1
  <2> QED
    BY <1>1, <2>1, <2>2, <2>3 DEF Traced
<1>6. ASSUME NEW c \in Pair, NEW id \in Ids, NEW isVerified \in BOOLEAN,
             C!UpdateVerification(c, id, isVerified)
      PROVE  Typed' /\ AllTraced'
  <2> DEFINE e == [certifications[id] EXCEPT !.isVerified = isVerified]
             r == [pc |-> "save", id |-> id, entity |-> e]
  <2>1. /\ certifications[id] # C!Absent /\ request[c] = C!Idle
        /\ request' = [request EXCEPT ![c] = r]
        /\ UNCHANGED <<certifications, auditLog, brokenOff>>
    BY <1>6 DEF C!UpdateVerification
  <2>2. certifications[id] \in Certified
    BY <1>1, <2>1
  <2>3. r \in Requested
    BY <2>2 DEF Certified
  <2> HIDE DEF r
  <2>4. Typed'
    BY <1>1, <2>1, <2>3
  <2>5. \A i \in Ids : Traced(i) => Traced(i)'
    BY <1>2, <1>4, <2>1
  <2> QED
    BY <1>1, <2>1, <2>4, <2>5
<1>7. ASSUME NEW c \in Pair, C!SaveVerification(c) PROVE Typed' /\ AllTraced'
  <2> DEFINE id == request[c].id
             r == [request[c] EXCEPT !.pc = "log"]
  <2>1. /\ request[c].pc = "save" /\ request[c] \in Requested
        /\ certifications' = [certifications EXCEPT ![id] = request[c].entity]
        /\ request' = [request EXCEPT ![c] = r]
        /\ UNCHANGED <<auditLog, brokenOff>>
    BY <1>3, <1>7 DEF C!SaveVerification
  <2>2. /\ r \in Requested /\ r.pc = "log" /\ r.id = id /\ r.entity = request[c].entity
        /\ id \in Ids /\ request[c].entity \in Certified
    BY <2>1
  <2> HIDE DEF r, id
  <2>3. Typed'
    BY <1>1, <2>1, <2>2
  <2>4. \A i \in Ids : Traced(i) => Traced(i)'
    BY <1>4, <2>1
  <2>5. request'[c] = r /\ certifications'[id] = request[c].entity
        /\ \A i \in Ids : i # id => certifications'[i] = certifications[i]
    BY <1>1, <2>1, <2>2
  <2>6. request'[c].pc = "log" /\ request'[c].id = id /\ request'[c].entity = certifications'[id]
    BY <2>2, <2>5
  <2>7. ASSUME ~brokenOff, NEW i \in Ids, Verified(i)' PROVE Traced(i)'
    <3>1. CASE i = id
      BY <2>6, <2>7, <3>1 DEF Traced
    <3>2. CASE i # id
      BY <1>1, <2>4, <2>5, <2>7, <3>2
    <3> QED
      BY <3>1, <3>2
  <2> QED
    BY <2>1, <2>3, <2>7
<1>8. ASSUME NEW c \in Pair, C!LogVerification(c) PROVE Typed' /\ AllTraced'
  <2> DEFINE id == request[c].id
             a == IF request[c].entity.isVerified THEN "CERTIFICATION_VERIFIED"
                  ELSE "CERTIFICATION_UNVERIFIED"
             r == [request[c] EXCEPT !.pc = "intercept"]
  <2>1. /\ request[c].pc = "log" /\ request[c] \in Requested
        /\ C!LogAction(a, id)
        /\ request' = [request EXCEPT ![c] = r]
        /\ UNCHANGED <<certifications, brokenOff>>
    BY <1>3, <1>8 DEF C!LogVerification
  <2>2. r \in Requested /\ id \in Ids /\ a \in AuditActions
        /\ (request[c].entity.isVerified => a = "CERTIFICATION_VERIFIED")
    BY <2>1 DEF AuditActions
  <2> HIDE DEF r, id, a
  <2>3. /\ auditLog' \in Seq(AuditEntries)
        /\ \A i \in DOMAIN auditLog : i \in DOMAIN auditLog' /\ auditLog'[i] = auditLog[i]
        /\ \E i \in DOMAIN auditLog' : auditLog'[i] = C!AuditLog(a, id)
    BY <1>1, <2>1, <2>2, AuditGrows
  <2>4. Typed'
    BY <1>1, <2>1, <2>2, <2>3
  <2>5. \A d \in Pair : d # c => request'[d] = request[d]
    BY <1>1, <2>1
  <2>6. ASSUME NEW i \in Ids, Traced(i) PROVE Traced(i)'
    <3>1. CASE \E k \in DOMAIN auditLog : auditLog[k] = C!AuditLog("CERTIFICATION_VERIFIED", i)
      BY <2>3, <3>1 DEF Traced, C!AuditLog
    <3>2. CASE \E d \in Pair \ {c} : /\ request[d].pc = "log" /\ request[d].id = i
                                     /\ request[d].entity.isVerified
      BY <2>5, <3>2 DEF Traced
    <3>3. CASE request[c].id = i /\ request[c].entity.isVerified
      BY <2>2, <2>3, <3>3 DEF Traced, C!AuditLog, id
    <3> QED
      BY <2>6, <3>1, <3>2, <3>3 DEF Traced
  <2> QED
    BY <1>1, <2>1, <2>4, <2>6
<1>9. ASSUME NEW c \in Pair, C!Intercept(c) PROVE Typed' /\ AllTraced'
  <2>1. /\ request[c].pc = "intercept" /\ request[c] \in Requested
        /\ C!LogAction("PATCH", request[c].id) \/ auditLog' = auditLog
        /\ request' = [request EXCEPT ![c] = C!Idle]
        /\ UNCHANGED <<certifications, brokenOff>>
    BY <1>3, <1>9 DEF C!Intercept
  <2>2. request[c].id \in Ids /\ "PATCH" \in AuditActions
    BY <2>1 DEF AuditActions
  <2>3. Typed'
    BY <1>1, <2>1, <2>2, AuditGrows
  <2>4. \A i \in Ids : Traced(i) => Traced(i)'
    BY <1>4, <2>1, <2>2
  <2> QED
    BY <1>1, <2>1, <2>3, <2>4
<1>10. ASSUME NEW c \in Pair, NEW carrier, NEW id \in Ids, C!DeleteCertification(c, carrier, id)
       PROVE  Typed' /\ AllTraced'
  <2> DEFINE r == [pc |-> "remove", id |-> id, entity |-> certifications[id]]
  <2>1. /\ certifications[id] # C!Absent /\ request[c] = C!Idle
        /\ request' = [request EXCEPT ![c] = r]
        /\ UNCHANGED <<certifications, auditLog, brokenOff>>
    BY <1>10 DEF C!DeleteCertification
  <2>2. r \in Requested
    BY <1>1, <2>1
  <2> HIDE DEF r
  <2>4. Typed'
    BY <1>1, <2>1, <2>2
  <2>5. \A i \in Ids : Traced(i) => Traced(i)'
    BY <1>2, <1>4, <2>1
  <2> QED
    BY <1>1, <2>1, <2>4, <2>5
<1>11. ASSUME NEW c \in Pair, C!RemoveCertification(c) PROVE Typed' /\ AllTraced'
  <2>1. /\ request[c].pc = "remove" /\ request[c] \in Requested
        /\ certifications' = [certifications EXCEPT ![request[c].id] = C!Absent]
        /\ request' = [request EXCEPT ![c] = C!Idle]
        /\ UNCHANGED <<auditLog, brokenOff>>
    BY <1>3, <1>11 DEF C!RemoveCertification
  <2>2. Typed' /\ \A i \in Ids : Verified(i)' => Verified(i)
    BY <1>1, <2>1
  <2>3. \A i \in Ids : Traced(i) => Traced(i)'
    BY <1>4, <2>1
  <2> QED
    BY <1>1, <2>1, <2>2, <2>3
<1>12. ASSUME NEW c \in Pair, C!CertificationFails(c) PROVE Typed' /\ AllTraced'
  BY <1>1, <1>12 DEF C!CertificationFails
<1> QED
  BY <1>5, <1>6, <1>7, <1>8, <1>9, <1>10, <1>11, <1>12 DEF C!CertificationsNext

LEMMA DocumentsStep ==
    ASSUME DocumentsInv, service = "documents", service' = service,
           D!DocumentsNext \/ ShipmentStep
    PROVE  DocumentsInv'
<1> DEFINE Row == [shipmentId : Shipments, uploader : Users]
           Requested == [pc : {"upload", "insert", "remove"}, id : Ids, row : Row]
           Typed == /\ request \in [Pair -> {D!Idle} \cup Requested]
                    /\ documents \in [Ids -> {D!Absent} \cup Row]
           Guarded(c) == /\ request[c].id \in files
                         /\ documents[request[c].id] = D!Absent
                         /\ \A d \in D!Busy \ {c} : request[d].id # request[c].id
           Filed(id) == id \in files \/ \E c \in Pair : request[c].pc = "remove" /\ request[c].id = id
           AllGuarded == \A c \in Pair : Uploading(c) => Guarded(c)
           AllFiled == ~brokenOff => \A id \in Ids : documents[id] # D!Absent => Filed(id)
<1>1. Typed /\ AllGuarded /\ AllFiled
  BY DEF DocumentsInv
<1>2. D!Idle \notin Requested /\ D!Idle.pc = "idle"
  BY DEF D!Idle
<1> SUFFICES Typed' /\ AllGuarded' /\ AllFiled'
  BY DEF DocumentsInv
<1>3. \A c \in Pair : request[c].pc # "idle" => request[c] \in Requested /\ c \in D!Busy
  BY <1>1, <1>2 DEF D!Busy
<1>4. CASE ShipmentStep
  BY <1>1, <1>4 DEF ShipmentStep, Uploading, D!Busy
<1>5. ASSUME NEW c \in Pair, NEW s \in Shipments, NEW u \in Users, NEW id \in Ids,
             D!Receive(c, s, u, id)
      PROVE  Typed' /\ AllGuarded' /\ AllFiled'
  <2> DEFINE r == [pc |-> "upload", id |-> id, row |-> [shipmentId |-> s, uploader |-> u]]
  <2>1. /\ request[c] = D!Idle /\ documents[id] = D!Absent
        /\ \A d \in D!Busy : request[d].id # id
        /\ files' = files \cup {id}
        /\ request' = [request EXCEPT ![c] = r]
        /\ documents' = documents /\ brokenOff' = brokenOff
    BY <1>5 DEF D!Receive, D!Store
  <2>2. r \in Requested /\ r.pc = "upload" /\ r.id = id
    OBVIOUS
  <2> HIDE DEF r
  <2>3. Typed' /\ request'[c] = r /\ \A d \in Pair : d # c => request'[d] = request[d]
    BY <1>1, <2>1, <2>2
  <2>4. D!Busy' = D!Busy \cup {c} /\ c \notin D!Busy
    BY <1>2, <2>1, <2>2, <2>3 DEF D!Busy
  <2>5. AllGuarded'
    BY <1>1, <1>3, <2>1, <2>2, <2>3, <2>4 DEF Uploading
  <2>6. AllFiled'
    BY <1>1, <1>2, <2>1, <2>2, <2>3
  <2> QED
    BY <2>3, <2>5, <2>6
<1>6. ASSUME NEW c \in Pair, request' = [request EXCEPT ![c] = D!Idle]
      PROVE  /\ Typed' <=> documents' \in [Ids -> {D!Absent} \cup Row]
             /\ \A d \in Pair : request'[d] = IF d = c THEN D!Idle ELSE request[d]
             /\ D!Busy' = D!Busy \ {c}
  <2>1. \A d \in Pair : request'[d] = IF d = c THEN D!Idle ELSE request[d]
    BY <1>1, <1>6
  <2>2. request' \in [Pair -> {D!Idle} \cup Requested]
    BY <1>1, <1>6
  <2>3. D!Busy' = D!Busy \ {c}
    BY <2>1 DEF D!Busy
  <2> QED
    BY <2>1, <2>2, <2>3
<1>7. ASSUME NEW c \in Pair, D!Upload(c) PROVE Typed' /\ AllGuarded' /\ AllFiled'
  <2>1. /\ request[c].pc = "upload" /\ request[c] \in Requested /\ c \in D!Busy
        /\ UNCHANGED <<documents, files, brokenOff>>
    BY <1>3, <1>7 DEF D!Upload
  <2>2. CASE request' = [request EXCEPT ![c] = D!Idle]
    <3>1. /\ Typed' /\ D!Busy' = D!Busy \ {c}
          /\ \A d \in Pair : request'[d] = IF d = c THEN D!Idle ELSE request[d]
      BY <1>1, <1>6, <2>1, <2>2
    <3>2. AllGuarded'
      <4>1. ASSUME NEW d \in Pair, Uploading(d)' PROVE Guarded(d)'
        <5>1. d # c /\ request'[d] = request[d] /\ Uploading(d) /\ Guarded(d)
          BY <1>1, <1>2, <3>1, <4>1 DEF Uploading
        <5> QED
          BY <2>1, <3>1, <5>1 DEF D!Busy
      <4> QED
        BY <4>1
    <3>3. AllFiled'
      BY <1>1, <2>1, <3>1
    <3> QED
      BY <3>1, <3>2, <3>3
  <2>3. CASE request' = [request EXCEPT ![c].pc = "insert"]
    <3> DEFINE r == [request[c] EXCEPT !.pc = "insert"]
    <3>1. /\ r \in Requested /\ r.pc = "insert" /\ r.id = request[c].id
          /\ request' = [request EXCEPT ![c] = r]
      BY <1>1, <2>1, <2>3
    <3> HIDE DEF r
    <3>2. Typed' /\ request'[c] = r /\ \A d \in Pair : d # c => request'[d] = request[d]
      BY <1>1, <2>1, <3>1
    <3>3. D!Busy' = D!Busy
      BY <1>2, <2>1, <3>1, <3>2 DEF D!Busy
    <3>4. \A d \in Pair : (Uploading(d)' <=> Uploading(d)) /\ request'[d].id = request[d].id
      BY <2>1, <3>1, <3>2 DEF Uploading
    <3>5. AllGuarded'
      <4>1. D!Busy \subseteq Pair
        BY DEF D!Busy
      <4> QED
        BY <1>1, <2>1, <3>3, <3>4, <4>1
    <3>6. AllFiled'
      BY <1>1, <2>1, <3>1, <3>2
    <3> QED
      BY <3>2, <3>5, <3>6
  <2> QED
    BY <1>7, <2>2, <2>3 DEF D!Upload, D!Finish
<1>8. ASSUME NEW c \in Pair, D!InsertDocument(c) PROVE Typed' /\ AllGuarded' /\ AllFiled'
  <2> DEFINE id == request[c].id
  <2>1. /\ request[c].pc = "insert" /\ request[c] \in Requested /\ c \in D!Busy /\ id \in Ids
        /\ documents' = [documents EXCEPT ![id] = request[c].row]
        /\ request' = [request EXCEPT ![c] = D!Idle]
        /\ UNCHANGED <<files, brokenOff>>
    BY <1>3, <1>8 DEF D!InsertDocument, D!Finish
  <2>2. /\ Typed' /\ D!Busy' = D!Busy \ {c}
        /\ \A d \in Pair : request'[d] = IF d = c THEN D!Idle ELSE request[d]
    BY <1>1, <1>6, <2>1
  <2>3. Guarded(c)
    BY <1>1, <2>1 DEF Uploading
  <2>4. \A i \in Ids : i # id => documents'[i] = documents[i]
    BY <1>1, <2>1
  <2>5. AllGuarded'
    <3>1. ASSUME NEW d \in Pair, Uploading(d)' PROVE Guarded(d)'
      <4>1. d # c /\ request'[d] = request[d] /\ Uploading(d)
        BY <1>2, <2>2, <3>1 DEF Uploading
      <4>2. Guarded(d) /\ request[d] \in Requested /\ d \in D!Busy
        BY <1>1, <1>3, <4>1 DEF Uploading
      <4>3. request[d].id # id
        BY <2>3, <4>1, <4>2
      <4> QED
        BY <2>1, <2>2, <2>4, <4>1, <4>2, <4>3 DEF D!Busy
    <3> QED
      BY <3>1
  <2>6. AllFiled'
    <3>1. ASSUME ~brokenOff, NEW i \in Ids, documents'[i] # D!Absent PROVE Filed(i)'
      <4>1. CASE i = id
        BY <2>1, <2>3, <4>1
      <4>2. CASE i # id
        BY <1>1, <1>2, <2>1, <2>2, <2>4, <3>1, <4>2
      <4> QED
        BY <4>1, <4>2
    <3> QED
      BY <2>1, <3>1
  <2> QED
    BY <2>2, <2>5, <2>6
<1>9. ASSUME NEW c \in Pair, NEW u \in Users, NEW id \in Ids, D!DeleteDocument(c, u, id)
      PROVE  Typed' /\ AllGuarded' /\ AllFiled'
  <2> DEFINE r == [pc |-> "remove", id |-> id, row |-> documents[id]]
  <2>1. /\ request[c] = D!Idle /\ documents[id] # D!Absent
        /\ files' = files \ {id}
        /\ request' = [request EXCEPT ![c] = r]
        /\ documents' = documents /\ brokenOff' = brokenOff
    BY <1>9 DEF D!DeleteDocument, D!Found
  <2>2. r \in Requested /\ r.pc = "remove" /\ r.id = id
    BY <1>1, <2>1
  <2> HIDE DEF r
  <2>3. Typed' /\ request'[c] = r /\ \A d \in Pair : d # c => request'[d] = request[d]
    BY <1>1, <2>1, <2>2
  <2>4. D!Busy' = D!Busy \cup {c} /\ c \notin D!Busy
    BY <1>2, <2>1, <2>2, <2>3 DEF D!Busy
  <2>5. AllGuarded'
    <3>1. ASSUME NEW d \in Pair, Uploading(d)' PROVE Guarded(d)'
      <4>1. d # c /\ Uploading(d) /\ request'[d] = request[d] /\ Guarded(d)
        BY <1>1, <2>2, <2>3, <3>1 DEF Uploading
      <4>2. request[d].id # id
        BY <2>1, <4>1
      <4> QED
        BY <2>1, <2>2, <2>3, <2>4, <4>1, <4>2 DEF D!Busy
    <3> QED
      BY <3>1
  <2>6. AllFiled'
    <3>1. ASSUME ~brokenOff, NEW i \in Ids, documents[i] # D!Absent PROVE Filed(i)'
      <4>1. CASE i = id
        BY <2>2, <2>3, <4>1
      <4>2. CASE i # id
        BY <1>1, <1>2, <2>1, <2>3, <3>1, <4>2
      <4> QED
        BY <4>1, <4>2
    <3> QED
      BY <2>1, <3>1
  <2> QED
    BY <2>3, <2>5, <2>6
<1>10. ASSUME NEW c \in Pair, D!RemoveDocument(c) PROVE Typed' /\ AllGuarded' /\ AllFiled'
  <2> DEFINE id == request[c].id
  <2>1. /\ request[c].pc = "remove" /\ request[c] \in Requested /\ c \in D!Busy /\ id \in Ids
        /\ documents' = [documents EXCEPT ![id] = D!Absent]
        /\ request' = [request EXCEPT ![c] = D!Idle]
        /\ UNCHANGED <<files, brokenOff>>
    BY <1>3, <1>10 DEF D!RemoveDocument, D!Finish
  <2>2. /\ Typed' /\ D!Busy' = D!Busy \ {c}
        /\ \A d \in Pair : request'[d] = IF d = c THEN D!Idle ELSE request[d]
    BY <1>1, <1>6, <2>1
  <2>4. documents'[id] = D!Absent /\ \A i \in Ids : i # id => documents'[i] = documents[i]
    BY <1>1, <2>1
  <2>5. AllGuarded'
    <3>1. ASSUME NEW d \in Pair, Uploading(d)' PROVE Guarded(d)'
      <4>1. d # c /\ request'[d] = request[d] /\ Uploading(d) /\ Guarded(d)
        BY <1>1, <1>2, <2>2, <3>1 DEF Uploading
      <4>2. request[d] \in Requested
        BY <1>3, <4>1 DEF Uploading
      <4> QED
        BY <2>1, <2>2, <2>4, <4>1, <4>2 DEF D!Busy
    <3> QED
      BY <3>1
  <2>6. AllFiled'
    BY <1>1, <1>2, <2>1, <2>2, <2>4
  <2> QED
    BY <2>2, <2>5, <2>6
<1>11. ASSUME NEW c \in Pair, D!DocumentFails(c) PROVE Typed' /\ AllGuarded' /\ AllFiled'
  <2>1. request' = [request EXCEPT ![c] = D!Idle] /\ brokenOff' /\ UNCHANGED <<documents, files>>
    BY <1>11 DEF D!DocumentFails, D!Finish
  <2>2. /\ Typed' /\ D!Busy' = D!Busy \ {c}
        /\ \A d \in Pair : request'[d] = IF d = c THEN D!Idle ELSE request[d]
    BY <1>1, <1>6, <2>1
  <2>3. AllGuarded'
    BY <1>1, <1>2, <2>1, <2>2 DEF Uploading, D!Busy
  <2> QED
    BY <2>1, <2>2, <2>3
<1> QED
  BY <1>4, <1>5, <1>7, <1>8, <1>9, <1>10, <1>11 DEF D!DocumentsNext

(* The tables are as at the start, or those of the service that is         *)
(* followed, and consistent.                                               *)
TablesInv ==
    /\ AddressesInv
    /\ ReviewsInv
    /\ PreferencesInv
    /\ CertificationsInv
    /\ DocumentsInv

LEMMA TablesInit == RecordsInit => TablesInv
<1> SUFFICES ASSUME RecordsInit PROVE TablesInv
  OBVIOUS
<1>1. /\ addresses = [id \in Ids |-> A!Absent]
      /\ reviews = <<>> /\ preferences = <<>>
      /\ certifications = [id \in Ids |-> C!Absent] /\ auditLog = <<>>
      /\ documents = [id \in Ids |-> D!Absent]
      /\ request = [c \in Pair |-> R!Idle]
      /\ shipment = [s \in Shipments |-> Unposted]
  BY DEF RecordsInit, A!AddressesInit, R!ReviewsInit, C!CertificationsInit, D!DocumentsInit
<1>2. /\ A!Idle = R!Idle /\ C!Idle = R!Idle /\ D!Idle = R!Idle /\ R!Idle.pc = "idle"
  BY DEF A!Idle, R!Idle, C!Idle, D!Idle
<1>3. AddressesInv
  <2>1. A!Busy = {}
    BY <1>1, <1>2 DEF A!Busy
  <2>2. A!OneDefault
    BY <1>1 DEF A!OneDefault
  <2> QED
    BY <1>1, <2>1, <2>2 DEF AddressesInv, AddressRequests, AddressesAlone, EntitiesMatch
<1>4. ReviewsInv
  <2>1. ShipmentsTyped
    BY <1>1 DEF ShipmentsTyped, Unposted, Nobody
  <2> QED
    BY <1>1, <2>1 DEF ReviewsInv
<1>5. PreferencesInv
  BY <1>1 DEF PreferencesInv
<1>6. CertificationsInv
  BY <1>1, <1>2 DEF CertificationsInv
<1>7. DocumentsInv
  BY <1>1, <1>2 DEF DocumentsInv, Uploading
<1> QED
  BY <1>3, <1>4, <1>5, <1>6, <1>7 DEF TablesInv

(* A step of another service, or of none. *)
LEMMA AddressesKept ==
    ASSUME AddressesInv, service' = service, addresses' = addresses, orderly' = orderly,
           service = "addresses" => request' = request
    PROVE  AddressesInv'
  BY DEF AddressesInv, AddressesAlone, EntitiesMatch, A!Busy, A!OneDefault

LEMMA ReviewsKept ==
    ASSUME ReviewsInv, service' = service, reviews' = reviews,
           service = "reviews" => request' = request /\ shipment' = shipment
    PROVE  ReviewsInv'
  BY DEF ReviewsInv, ShipmentsTyped, BothParties, R!SameReview

LEMMA PreferencesKept ==
    ASSUME PreferencesInv, service' = service, preferences' = preferences,
           service = "preferences" => request' = request
    PROVE  PreferencesInv'
  BY DEF PreferencesInv

LEMMA CertificationsKept ==
    ASSUME CertificationsInv, service' = service, certifications' = certifications,
           service = "certifications" =>
             request' = request /\ auditLog' = auditLog /\ brokenOff' = brokenOff
    PROVE  CertificationsInv'
  BY DEF CertificationsInv

LEMMA DocumentsKept ==
    ASSUME DocumentsInv, service' = service, documents' = documents,
           service = "documents" =>
             request' = request /\ files' = files /\ brokenOff' = brokenOff
    PROVE  DocumentsInv'
  BY DEF DocumentsInv, Uploading, D!Busy

LEMMA TablesStep == TablesInv /\ [RecordsNext]_recordVars => TablesInv'
<1> SUFFICES ASSUME TablesInv, [RecordsNext]_recordVars PROVE TablesInv'
  OBVIOUS
<1>1. /\ AddressesInv /\ ReviewsInv /\ PreferencesInv /\ CertificationsInv /\ DocumentsInv
  BY DEF TablesInv
<1>2. CASE service' = service /\ UNCHANGED <<addresses, orderly, reviews, preferences, certifications,
             auditLog, shipment, documents, files, brokenOff, request>>
  BY <1>1, <1>2, AddressesKept, ReviewsKept, PreferencesKept, CertificationsKept, DocumentsKept
     DEF TablesInv
<1>3. ASSUME service = "addresses", service' = service, A!AddressesNext,
             UNCHANGED <<reviews, preferences, certifications, auditLog, shipment, documents,
                         files, brokenOff>>
      PROVE  TablesInv'
  BY <1>1, <1>3, AddressesStep, ReviewsKept, PreferencesKept, CertificationsKept, DocumentsKept
     DEF TablesInv
<1>4. ASSUME service \in {"reviews", "documents"}, service' = service, ShipmentStep
      PROVE  TablesInv'
  <2>1. UNCHANGED <<addresses, orderly, reviews, preferences, certifications, auditLog, documents,
                    files, brokenOff, request>>
    BY <1>4 DEF ShipmentStep
  <2>2. ReviewsInv'
    <3>1. CASE service = "reviews"
      BY <1>1, <1>4, <3>1, ReviewsStep
    <3>2. CASE service # "reviews"
      BY <1>1, <1>4, <2>1, <3>2, ReviewsKept
    <3> QED
      BY <3>1, <3>2
  <2> QED
    BY <1>1, <1>4, <2>1, <2>2, AddressesKept, PreferencesKept, CertificationsKept, DocumentsKept
       DEF TablesInv
<1>5. ASSUME service = "reviews", service' = service, R!ReviewsNext,
             UNCHANGED <<addresses, orderly, certifications, auditLog, documents, files, brokenOff>>
      PROVE  TablesInv'
  <2>1. preferences' = preferences
    BY <1>5 DEF R!ReviewsNext, R!CreateReview, R!FindReview, R!InsertReview
  <2> QED
    BY <1>1, <1>5, <2>1, ReviewsStep, AddressesKept, PreferencesKept, CertificationsKept,
       DocumentsKept DEF TablesInv
<1>6. ASSUME service = "preferences", service' = service, R!PreferencesNext,
             UNCHANGED <<addresses, orderly, certifications, auditLog, documents, files, brokenOff>>
      PROVE  TablesInv'
  <2>1. reviews' = reviews
    BY <1>6 DEF R!PreferencesNext, R!AskPreferences, R!FindPreferences, R!InsertPreferences,
                R!SavePreferences
  <2> QED
    BY <1>1, <1>6, <2>1, PreferencesStep, AddressesKept, ReviewsKept, CertificationsKept,
       DocumentsKept DEF TablesInv
<1>7. ASSUME service = "certifications", service' = service, C!CertificationsNext,
             UNCHANGED <<addresses, orderly, reviews, preferences, shipment, documents, files>>
      PROVE  TablesInv'
  BY <1>1, <1>7, CertificationsStep, AddressesKept, ReviewsKept, PreferencesKept, DocumentsKept
     DEF TablesInv
<1>8. ASSUME service = "documents", service' = service, D!DocumentsNext,
             UNCHANGED <<addresses, orderly, reviews, preferences, certifications, auditLog>>
      PROVE  TablesInv'
  BY <1>1, <1>8, DocumentsStep, AddressesKept, ReviewsKept, PreferencesKept, CertificationsKept
     DEF TablesInv
<1>9. CASE ServicesNext
  BY <1>2, <1>3, <1>4, <1>5, <1>6, <1>7, <1>8, <1>9 DEF ServicesNext, othersVars
<1> QED
  BY <1>2, <1>9 DEF RecordsNext, recordVars, othersVars

LEMMA TablesHold == RecordsSpec => []TablesInv
  BY TablesInit, TablesStep, PTL DEF RecordsSpec

(* Beside the other services the callers for a payment row do as alone.    *)
LEMMA RowsBeside == RecordsSpec => Spec
<1>1. RecordsInit => Init
  BY DEF RecordsInit
<1>2. [RecordsNext]_recordVars => [Next]_vars
  BY DEF RecordsNext, ServicesNext, ShipmentStep, recordVars
<1> QED
  BY <1>1, <1>2, PTL DEF RecordsSpec, Spec

(* Whichever service is followed, and whichever way the statements of its  *)
(* concurrent requests fall: one default address for each user whose       *)
(* requests are orderly, one review of each party, one row of preferences, *)
(* an audit entry for what is verified, a file for what is listed, and     *)
(* on-chain ids without gaps.                                              *)
THEOREM TablesStayConsistent == RecordsSpec => []RecordsConsistent
<1>1. ASSUME TablesInv PROVE A!OneDefault
  BY <1>1 DEF TablesInv, AddressesInv
<1>2. ASSUME TablesInv PROVE R!OneRowEach
  BY <1>2 DEF TablesInv, ReviewsInv, PreferencesInv, BothParties, R!OneRowEach, R!SameReview
<1>3. ASSUME TablesInv PROVE C!VerificationsLogged
  <2>1. CASE service = "certifications"
    BY <1>3, <2>1 DEF TablesInv, CertificationsInv, C!VerificationsLogged, C!AtRest, C!Idle,
                      C!AuditLog
  <2>2. CASE service # "certifications"
    BY <1>3, <2>2 DEF TablesInv, CertificationsInv, C!VerificationsLogged
  <2> QED
    BY <2>1, <2>2
<1>4. ASSUME TablesInv PROVE D!RowsHaveFiles
  <2>1. CASE service = "documents"
    BY <1>4, <2>1 DEF TablesInv, DocumentsInv, D!RowsHaveFiles, D!AtRest, D!Idle, D!Listed,
                      D!HasFilePath, D!Found
  <2>2. CASE service # "documents"
    BY <1>4, <2>2 DEF TablesInv, DocumentsInv, D!RowsHaveFiles, D!Listed
  <2> QED
    BY <2>1, <2>2
<1>5. TablesInv /\ Dense => RecordsConsistent
  BY <1>1, <1>2, <1>3, <1>4 DEF RecordsConsistent
<1> QED
  BY <1>5, TablesHold, RowsBeside, IdsDense, PTL

(* ... and those who are served the payment row of a shipment agree on it. *)
THEOREM AgreementBeside == RecordsSpec => []CallersAgree
  BY AgreementOfCallers, RowsBeside, PTL

-----------------------------------------------------------------------------
(* The screens that show a table.  As long as the user does one thing at a *)
(* time, what is on its way is what he has selected, and what is shown, or *)
(* remembered as valid, knows his own changes.                             *)
KnowsMine(data) == \A r \in mine \cap DOMAIN data : data[r] = class[r]

RequestFields == {"view", "from", "pc", "data", "total", "n"}
AnswerFields == {"view", "data", "total", "valid"}

(* Rows are not forgotten, so whatever has been answered, asked or changed *)
(* is about rows that are there; a page is remembered once for each view.  *)
RowsThere ==
    /\ class \in [Rows -> {"none", "open", "closed"}]
    /\ \E T : answers \in Seq(T)
    /\ \A i \in DOMAIN answers :
         DOMAIN answers[i] = AnswerFields /\ DOMAIN answers[i].data \subseteq Created
    /\ \A q \in fetching :
         /\ DOMAIN q = RequestFields
         /\ q.pc # "data" => DOMAIN q.data \subseteq Created
    /\ \A own \in acting : own.row \in Created /\ own.to \in {"open", "closed"}
    /\ mine \subseteq Created
    /\ screen \in Keyed =>
         \A i, j \in DOMAIN answers : answers[i].view = answers[j].view => i = j

OneThing ==
    /\ acting # {} => fetching = {}
    /\ \A own, other \in acting : own = other
    /\ \A q, p \in fetching : q = p
    /\ \A q \in fetching : q.view = view /\ (q.pc # "data" => KnowsMine(q.data))

Fresh ==
    IF screen \in Keyed
    THEN /\ \A i \in DOMAIN answers : answers[i].valid => KnowsMine(answers[i].data)
         /\ fetching = {} /\ ~Failed => \A i \in AnswersTo(view) : answers[i].valid
    ELSE fetching = {} /\ ~Failed => \A a \in Displayed : a.view = view /\ KnowsMine(a.data)

Patient == ~hasty /\ screen \notin Walks
TablesSettle == RowsThere /\ (Patient => OneThing /\ Fresh)

(* A table has an answer, or one on its way, or says that there is none.   *)
Heard ==
    screen \notin Walks /\ ~Failed => Displayed # {} \/ \E q \in fetching : q.view = view

LEMMA FailedStays == ASSUME UNCHANGED <<screen, view, failed>> PROVE Failed' = Failed
  BY DEF Failed, Key, FirstView

LEMMA RequestIs ==
    ASSUME NEW v, NEW from, NEW others
    PROVE  /\ Request(v, from, others).view = v
           /\ Request(v, from, others).from = from
           /\ Request(v, from, others).pc = "data"
           /\ Request(v, from, others).total = 0
           /\ DOMAIN Request(v, from, others).data = {}
           /\ DOMAIN Request(v, from, others) = RequestFields
<1>1. DOMAIN <<>> = {}
  OBVIOUS
<1>2. Request(v, from, others).data = <<>>
  BY DEF Request
<1>3. /\ Request(v, from, others).view = v
      /\ Request(v, from, others).from = from
      /\ Request(v, from, others).pc = "data"
      /\ Request(v, from, others).total = 0
  BY DEF Request
<1>4. DOMAIN Request(v, from, others) = RequestFields
  BY DEF Request, RequestFields
<1> QED
  BY <1>1, <1>2, <1>3, <1>4

LEMMA SettleInit == ListsInit => TablesSettle
<1> SUFFICES ASSUME ListsInit PROVE TablesSettle
  OBVIOUS
<1>1. /\ \E n \in {0} \cup Rows : class = [r \in Rows |-> IF r <= n THEN "open" ELSE "none"]
      /\ view = FirstView /\ fetching = {Request(FirstView, 0, {})}
      /\ answers = <<>> /\ acting = {} /\ mine = {}
  BY DEF ListsInit
<1>2. class \in [Rows -> {"none", "open", "closed"}]
  BY <1>1
<1>3. answers \in Seq({}) /\ DOMAIN answers = {}
  BY <1>1
<1>4. \A q \in fetching : q.view = view /\ q.pc = "data" /\ DOMAIN q = RequestFields
  BY <1>1, RequestIs
<1>5. RowsThere
  BY <1>1, <1>2, <1>3, <1>4 DEF RowsThere
<1>6. OneThing /\ Fresh
  BY <1>1, <1>3, <1>4 DEF OneThing, Fresh
<1> QED
  BY <1>5, <1>6 DEF TablesSettle

(* Rows that come in, and changes that others make. *)
LEMMA ElsewhereSettles ==
    ASSUME TablesSettle, NEW r \in Rows, ComeIn(r) \/ ChangeElsewhere(r)
    PROVE  TablesSettle'
<1>1. /\ UNCHANGED <<screen, view, fetching, answers, failed, acting, hasty>>
      /\ mine' \subseteq mine
      /\ r \notin mine'
      /\ \E c \in {"open", "closed"} : class' = [class EXCEPT ![r] = c]
  <2>1. CASE ComeIn(r)
    BY <2>1 DEF ComeIn, TablesSettle, RowsThere, Created
  <2>2. CASE ChangeElsewhere(r)
    BY <2>2 DEF ChangeElsewhere, Other
  <2> QED
    BY <2>1, <2>2
<1>2. /\ class' \in [Rows -> {"none", "open", "closed"}]
      /\ \A x \in mine' : class'[x] = class[x]
      /\ \A x \in Created : x \in Created'
      /\ Rows' = Rows
  BY <1>1 DEF TablesSettle, RowsThere, Created, Rows
<1>3. RowsThere'
  BY <1>1, <1>2 DEF TablesSettle, RowsThere
<1>4. \A data : KnowsMine(data) => \A x \in mine' \cap DOMAIN data : data[x] = class'[x]
  BY <1>1, <1>2 DEF KnowsMine
<1>5. ASSUME Patient PROVE OneThing' /\ Fresh'
  <2>1. OneThing'
    BY <1>1, <1>4, <1>5 DEF TablesSettle, OneThing, KnowsMine
  <2>2. Fresh'
    <3>1. Failed' = Failed
      BY <1>1, FailedStays
    <3> QED
      BY <1>1, <1>4, <1>5, <3>1 DEF TablesSettle, Fresh, KnowsMine, AnswersTo, Displayed
  <2> QED
    BY <2>1, <2>2
<1> QED
  BY <1>1, <1>3, <1>5 DEF TablesSettle, Patient

(* The queries of a request. *)
LEMMA QueriesSettle ==
    ASSUME TablesSettle, NEW q \in fetching, ReadPage(q) \/ CountRows(q) \/ CursorPaginate(q)
    PROVE  TablesSettle'
<1>1. PICK p : /\ Became(q, p) /\ DOMAIN p = RequestFields /\ p.view = q.view
               /\ DOMAIN p.data \subseteq Created
               /\ Patient => KnowsMine(p.data)
  <2>1. DOMAIN q = RequestFields /\ (q.pc # "data" => DOMAIN q.data \subseteq Created)
        /\ (Patient /\ q.pc # "data" => KnowsMine(q.data))
    BY DEF TablesSettle, RowsThere, OneThing
  <2>2. ASSUME NEW T, T \subseteq Created
        PROVE  DOMAIN Statuses(T) \subseteq Created /\ KnowsMine(Statuses(T))
    BY <2>2 DEF Statuses, KnowsMine
  <2>3. \A f : Matching(f) \subseteq Created
    BY DEF Matching
  <2>4. CASE ReadPage(q)
    <3> DEFINE d == Statuses(PageOf(Matching(q.view.filter), q.view.page))
               p == [q EXCEPT !.pc = "total", !.data = d]
    <3>1. DOMAIN d \subseteq Created /\ KnowsMine(d)
      BY <2>2, <2>3 DEF PageOf
    <3> HIDE DEF d
    <3>2. Became(q, p) /\ DOMAIN p = RequestFields /\ p.view = q.view /\ p.data = d
      BY <2>1, <2>4 DEF ReadPage, RequestFields, d
    <3> QED
      BY <3>1, <3>2
  <2>5. CASE CountRows(q)
    <3> DEFINE p == [q EXCEPT !.pc = "done", !.total = Cardinality(Matching(q.view.filter))]
    <3>1. Became(q, p) /\ DOMAIN p = RequestFields /\ p.view = q.view /\ p.data = q.data /\ q.pc # "data"
      BY <2>1, <2>5 DEF CountRows, RequestFields
    <3> HIDE DEF p
    <3> QED
      BY <2>1, <3>1
  <2>6. CASE CursorPaginate(q)
    <3> DEFINE T == PageOf(AfterCursor(q.from), 1)
               n == Cardinality(T) + IF T = AfterCursor(q.from) THEN 0 ELSE 1
               p == [q EXCEPT !.pc = "done", !.data = Statuses(T), !.total = n]
    <3>1. DOMAIN Statuses(T) \subseteq Created /\ KnowsMine(Statuses(T))
      BY <2>2, <2>3 DEF PageOf, AfterCursor
    <3>2. Became(q, p)
      BY <2>6 DEF CursorPaginate
    <3> HIDE DEF T, n
    <3>3. DOMAIN p = RequestFields /\ p.view = q.view /\ p.data = Statuses(T)
      BY <2>1 DEF RequestFields
    <3> QED
      BY <3>1, <3>2, <3>3
  <2> QED
    BY <2>4, <2>5, <2>6
<1>2. /\ fetching' = (fetching \ {q}) \cup {p}
      /\ UNCHANGED <<screen, class, view, answers, acting, mine, hasty>>
  BY <1>1 DEF Became, ReadPage, CountRows, CursorPaginate
<1>3. Rows' = Rows /\ Created' = Created
  BY <1>2 DEF Rows, Created
<1>4. RowsThere'
  BY <1>1, <1>2, <1>3 DEF TablesSettle, RowsThere
<1>5. ASSUME Patient PROVE OneThing' /\ Fresh'
  <2>1. fetching = {q} /\ acting = {} /\ fetching' = {p}
    BY <1>2, <1>5 DEF TablesSettle, OneThing
  <2>2. OneThing'
    BY <1>1, <1>2, <1>5, <2>1 DEF TablesSettle, OneThing, KnowsMine
  <2>3. Fresh'
    BY <1>2, <1>5, <2>1 DEF TablesSettle, Fresh, KnowsMine
  <2> QED
    BY <2>2, <2>3
<1> QED
  BY <1>2, <1>4, <1>5 DEF TablesSettle, Patient

(* An answer, which takes its place among those that are kept. *)
LEMMA AnswerSettles ==
    ASSUME TablesSettle, NEW q \in fetching, Answer(q)
    PROVE  TablesSettle'
<1> DEFINE a == [view |-> q.view, data |-> q.data, total |-> q.total, valid |-> TRUE]
<1>1. /\ fetching' = fetching \ {q} /\ answers' = Received(a) /\ q.pc = "done"
      /\ UNCHANGED <<screen, class, view, acting, mine, hasty>>
  BY DEF Answer
<1>2. /\ DOMAIN a = AnswerFields /\ a.view = q.view /\ a.data = q.data /\ a.valid
      /\ DOMAIN a.data \subseteq Created
  BY <1>1 DEF TablesSettle, RowsThere, AnswerFields
<1>3. Rows' = Rows /\ Created' = Created
  BY <1>1 DEF Rows, Created
<1>4. PICK T : answers \in Seq(T)
  BY DEF TablesSettle, RowsThere
<1>5. Len(answers) \in Nat /\ DOMAIN answers = 1..Len(answers)
  BY <1>4
<1> HIDE DEF a
<1>6. CASE screen \in Keyed /\ AnswersTo(a.view) # {}
  <2>1. /\ DOMAIN answers' = DOMAIN answers
        /\ \A i \in DOMAIN answers :
             /\ answers[i].view = a.view => answers'[i] = a
             /\ answers[i].view # a.view => answers'[i] = answers[i]
             /\ answers'[i].view = answers[i].view
    BY <1>1, <1>6 DEF Received
  <2>2. answers' \in Seq(T \cup {a})
    <3>1. answers' = [i \in 1..Len(answers) |-> IF answers[i].view = a.view THEN a ELSE answers[i]]
      BY <1>1, <1>5, <1>6 DEF Received
    <3>2. \A i \in 1..Len(answers) : answers[i] \in T
      BY <1>4, <1>5
    <3>3. answers' \in [1..Len(answers) -> T \cup {a}]
      BY <3>1, <3>2
    <3> QED
      BY <1>5, <3>3, SeqDef
  <2>3. RowsThere'
    BY <1>1, <1>2, <1>3, <2>1, <2>2 DEF TablesSettle, RowsThere
  <2>4. ASSUME Patient PROVE OneThing' /\ Fresh'
    <3>1. fetching' = {} /\ q.view = view /\ KnowsMine(a.data)
      BY <1>1, <1>2, <2>4 DEF TablesSettle, OneThing
    <3>2. Fresh'
      BY <1>1, <1>2, <1>6, <2>1, <2>4, <3>1 DEF TablesSettle, Fresh, KnowsMine, AnswersTo
    <3> QED
      BY <1>1, <2>4, <3>1, <3>2 DEF TablesSettle, OneThing
  <2> QED
    BY <1>1, <2>3, <2>4 DEF TablesSettle, Patient
<1>7. CASE ~(screen \in Keyed /\ AnswersTo(a.view) # {}) /\ screen \in Walks \cup Keyed
  <2> DEFINE n == Len(answers)
  <2>1. answers' = Append(answers, a)
    BY <1>1, <1>7 DEF Received
  <2>2. /\ answers' \in Seq(T \cup {a}) /\ DOMAIN answers' = 1..(n + 1) /\ answers'[n + 1] = a
        /\ \A i \in 1..n : answers'[i] = answers[i]
    BY <1>4, <1>5, <2>1
  <2>3. \A i \in 1..(n + 1) : i \in 1..n \/ i = n + 1
    BY <1>5
  <2>4. screen \in Keyed => \A i \in 1..n : answers[i].view # a.view
    BY <1>5, <1>7 DEF AnswersTo
  <2> HIDE DEF n
  <2>5. RowsThere'
    <3>1. \A i \in DOMAIN answers' :
            DOMAIN answers'[i] = AnswerFields /\ DOMAIN answers'[i].data \subseteq Created
      BY <1>2, <1>5, <2>2, <2>3 DEF TablesSettle, RowsThere, n
    <3>2. screen \in Keyed =>
            \A i, j \in DOMAIN answers' : answers'[i].view = answers'[j].view => i = j
      BY <1>5, <2>2, <2>3, <2>4 DEF TablesSettle, RowsThere, n
    <3> QED
      BY <1>1, <1>3, <2>2, <3>1, <3>2 DEF TablesSettle, RowsThere
  <2>6. ASSUME Patient PROVE OneThing' /\ Fresh'
    <3>1. fetching' = {} /\ q.view = view /\ KnowsMine(a.data) /\ screen \in Keyed
      BY <1>1, <1>2, <1>7, <2>6 DEF TablesSettle, OneThing, Patient
    <3>2. \A i \in DOMAIN answers' : answers'[i].valid => KnowsMine(answers'[i].data)
      BY <1>5, <2>2, <2>3, <2>6, <3>1 DEF TablesSettle, Fresh, n
    <3>3. \A i \in DOMAIN answers' : answers'[i].view = view => answers'[i].valid
      BY <1>2, <2>2, <2>3, <2>4, <3>1
    <3>4. Fresh'
      BY <1>1, <3>1, <3>2, <3>3 DEF Fresh, KnowsMine, AnswersTo
    <3> QED
      BY <1>1, <2>6, <3>1, <3>4 DEF TablesSettle, OneThing
  <2> QED
    BY <1>1, <2>5, <2>6 DEF TablesSettle, Patient
<1>8. CASE screen \notin Walks \cup Keyed
  <2>1. /\ answers' \in Seq({a}) /\ DOMAIN answers' = {1} /\ Len(answers') = 1
        /\ answers'[1] = a
    <3>1. answers' = Append(<<>>, a)
      BY <1>1, <1>8 DEF Received
    <3>2. Append(<<>>, a) = <<a>>
      OBVIOUS
    <3> QED
      BY <3>1, <3>2
  <2>2. RowsThere'
    BY <1>1, <1>2, <1>3, <2>1 DEF TablesSettle, RowsThere
  <2>3. ASSUME Patient PROVE OneThing' /\ Fresh'
    <3>1. fetching' = {} /\ q.view = view /\ KnowsMine(a.data)
      BY <1>1, <1>2, <2>3 DEF TablesSettle, OneThing
    <3>2. \A b \in Displayed' : b = a
      BY <1>1, <1>8, <2>1 DEF Displayed
    <3>3. Fresh'
      BY <1>1, <1>2, <1>8, <3>1, <3>2 DEF Fresh, KnowsMine
    <3> QED
      BY <1>1, <2>3, <3>1, <3>3 DEF TablesSettle, OneThing
  <2> QED
    BY <1>1, <2>2, <2>3 DEF TablesSettle, Patient
<1> QED
  BY <1>6, <1>7, <1>8

(* A load that fails, of which the page then knows. *)
LEMMA FailureSettles ==
    ASSUME TablesSettle, NEW q \in fetching, LoadFails(q)
    PROVE  TablesSettle'
<1>1. /\ fetching' = fetching \ {q} /\ failed' = failed \cup {Key(q.view)}
      /\ UNCHANGED <<screen, class, view, answers, acting, mine, hasty>>
  BY DEF LoadFails
<1>2. Rows' = Rows /\ Created' = Created
  BY <1>1 DEF Rows, Created
<1>3. RowsThere'
  BY <1>1, <1>2 DEF TablesSettle, RowsThere
<1>4. ASSUME Patient PROVE OneThing' /\ Fresh'
  <2>1. q.view = view /\ fetching' = {}
    BY <1>1, <1>4 DEF TablesSettle, OneThing
  <2>2. Failed'
    BY <1>1, <2>1 DEF Failed, Key, FirstView
  <2>3. OneThing'
    BY <1>1, <1>4 DEF TablesSettle, OneThing, KnowsMine
  <2>4. Fresh'
    BY <1>1, <1>4, <2>2 DEF TablesSettle, Fresh, KnowsMine
  <2> QED
    BY <2>3, <2>4
<1> QED
  BY <1>1, <1>3, <1>4 DEF TablesSettle, Patient

(* What the user does. *)
LEMMA ClickSettles == ASSUME TablesSettle, Click PROVE TablesSettle'
<1>1. PICK v : /\ view' = v
               /\ \/ fetching' = fetching \cup {Request(v, 0, fetching)}
                  \/ /\ screen \in Keyed
                     /\ \E i \in AnswersTo(v) : answers[i].valid
                     /\ fetching' = fetching
  BY DEF Click, Ask
<1>2. /\ hasty' = (hasty \/ ~Quiet) /\ mine' = IF hasty' THEN {} ELSE mine
      /\ UNCHANGED <<screen, class, answers, acting>>
  BY DEF Click, InHasteOrNot
<1>3. Rows' = Rows /\ Created' = Created
  BY <1>2 DEF Rows, Created
<1>4. RowsThere'
  BY <1>1, <1>2, <1>3, RequestIs DEF TablesSettle, RowsThere
<1>5. ASSUME Patient' PROVE OneThing' /\ Fresh'
  <2>1. Patient /\ fetching = {} /\ acting = {} /\ mine' = mine
    BY <1>2, <1>5 DEF Patient, Quiet
  <2>2. OneThing'
    BY <1>1, <1>2, <2>1, RequestIs DEF OneThing
  <2>3. Fresh'
    <3>1. CASE fetching' # {}
      BY <1>2, <2>1, <3>1 DEF TablesSettle, Fresh, KnowsMine
    <3>2. CASE fetching' = {}
      <4>1. screen \in Keyed /\ \A i \in DOMAIN answers : answers[i].view = v => answers[i].valid
        BY <1>1, <3>2 DEF TablesSettle, RowsThere, AnswersTo
      <4> QED
        BY <1>1, <1>2, <2>1, <4>1 DEF TablesSettle, Fresh, KnowsMine, AnswersTo
    <3> QED
      BY <3>1, <3>2
  <2> QED
    BY <2>2, <2>3
<1> QED
  BY <1>4, <1>5 DEF TablesSettle

LEMMA FetchSettles == ASSUME TablesSettle, FetchNextPage PROVE TablesSettle'
<1>1. /\ screen \in Walks
      /\ \E v, from : fetching' = fetching \cup {Request(v, from, fetching)}
      /\ UNCHANGED <<screen, class, answers, acting, mine>>
  BY DEF FetchNextPage, Ask
<1>2. Rows' = Rows /\ Created' = Created
  BY <1>1 DEF Rows, Created
<1>3. RowsThere'
  BY <1>1, <1>2, RequestIs DEF TablesSettle, RowsThere
<1> QED
  BY <1>1, <1>3 DEF TablesSettle, Patient

LEMMA ActSettles ==
    ASSUME TablesSettle, NEW r \in Rows, HandleToggleActive(r) \/ Resolve(r)
    PROVE  TablesSettle'
<1>1. PICK own : /\ \/ acting' = acting \cup {own}
                    \/ acting' = {own}
                 /\ own.row \in Created /\ own.to \in {"open", "closed"}
  <2>1. \A x \in Displayed : DOMAIN x.data \subseteq Created
    <3>1. PICK T : answers \in Seq(T)
      BY DEF TablesSettle, RowsThere
    <3>2. \A x \in Displayed : \E i \in DOMAIN answers : x = answers[i]
      BY DEF Displayed, AnswersTo
    <3> QED
      BY <3>2 DEF TablesSettle, RowsThere
  <2>2. CASE HandleToggleActive(r)
    <3>1. PICK x \in Displayed : /\ r \in DOMAIN x.data
                                 /\ acting' = acting \cup {[row |-> r, to |-> Other(x.data[r])]}
      BY <2>2 DEF HandleToggleActive
    <3> DEFINE own == [row |-> r, to |-> Other(x.data[r])]
    <3>2. own.row \in Created /\ own.to \in {"open", "closed"}
      BY <2>1, <3>1 DEF Other
    <3> QED
      BY <3>1, <3>2
  <2>3. CASE Resolve(r)
    <3> DEFINE own == [row |-> r, to |-> "closed"]
    <3>1. own.row \in Created /\ own.to \in {"open", "closed"} /\ acting' = {own}
      BY <2>1, <2>3 DEF Resolve
    <3> QED
      BY <3>1
  <2> QED
    BY <2>2, <2>3
<1>2. /\ hasty' = (hasty \/ ~Quiet) /\ mine' = IF hasty' THEN {} ELSE mine
      /\ UNCHANGED <<screen, class, view, fetching, answers, failed>>
  BY DEF HandleToggleActive, Resolve, InHasteOrNot
<1>3. Rows' = Rows /\ Created' = Created
  BY <1>2 DEF Rows, Created
<1>4. RowsThere'
  BY <1>1, <1>2, <1>3 DEF TablesSettle, RowsThere
<1>5. ASSUME Patient' PROVE OneThing' /\ Fresh'
  <2>1. Patient /\ fetching = {} /\ acting = {} /\ mine' = mine
    BY <1>2, <1>5 DEF Patient, Quiet
  <2>2. OneThing'
    BY <1>1, <1>2, <2>1 DEF OneThing
  <2>3. Fresh'
    <3>1. Failed' = Failed
      BY <1>2, FailedStays
    <3> QED
      BY <1>2, <2>1, <3>1 DEF TablesSettle, Fresh, KnowsMine, AnswersTo, Displayed
  <2> QED
    BY <2>2, <2>3
<1> QED
  BY <1>4, <1>5 DEF TablesSettle

LEMMA ChangeSettles ==
    ASSUME TablesSettle, NEW own \in acting, Change(own)
    PROVE  TablesSettle'
<1>1. /\ class' = [class EXCEPT ![own.row] = own.to] /\ mine' \subseteq mine \cup {own.row}
      /\ acting' = acting \ {own}
      /\ UNCHANGED <<screen, view, hasty>>
  BY DEF Change
<1>2. /\ class' \in [Rows -> {"none", "open", "closed"}]
      /\ Rows' = Rows /\ Created \subseteq Created' /\ mine' \subseteq Created'
  <2>1. Rows' = Rows
    BY <1>1 DEF Rows
  <2>2. own.row \in Created /\ own.to \in {"open", "closed"} /\ mine \subseteq Created
        /\ class \in [Rows -> {"none", "open", "closed"}]
    BY DEF TablesSettle, RowsThere
  <2>3. own.row \in Rows /\ own.to # "none"
    BY <2>2 DEF Created
  <2>4. Created \subseteq Created'
    BY <1>1, <2>1, <2>2, <2>3 DEF Created
  <2> QED
    BY <1>1, <2>1, <2>2, <2>3, <2>4
<1>3. PICK T : answers \in Seq(T)
  BY DEF TablesSettle, RowsThere
<1>4. CASE screen = "users" /\ Ask(view, 0) /\ answers' = answers
  <2>1. fetching' = fetching \cup {Request(view, 0, fetching)}
    BY <1>4 DEF Ask
  <2>2. RowsThere'
    BY <1>1, <1>2, <1>4, <2>1, RequestIs DEF TablesSettle, RowsThere
  <2>3. ASSUME Patient PROVE OneThing' /\ Fresh'
    <3>1. fetching = {} /\ acting' = {}
      BY <1>1, <2>3 DEF TablesSettle, OneThing
    <3>2. OneThing'
      BY <1>1, <2>1, <3>1, RequestIs DEF OneThing
    <3>3. Fresh'
      BY <1>1, <1>4, <2>1 DEF Fresh, Keyed
    <3> QED
      BY <3>2, <3>3
  <2> QED
    BY <1>1, <2>2, <2>3 DEF TablesSettle, Patient
<1>5. CASE /\ screen = "disputes"
           /\ LET rest == {q \in fetching : q.view # view}
              IN  fetching' = rest \cup {Request(view, 0, rest)}
           /\ answers' = [i \in DOMAIN answers |-> [answers[i] EXCEPT !.valid = FALSE]]
  <2> DEFINE rest == {q \in fetching : q.view # view}
  <2>1. fetching' = rest \cup {Request(view, 0, rest)}
    BY <1>5
  <2>2. /\ DOMAIN answers' = DOMAIN answers
        /\ \A i \in DOMAIN answers : answers'[i] = [answers[i] EXCEPT !.valid = FALSE]
    BY <1>5
  <2>3. \A i \in DOMAIN answers :
          /\ DOMAIN answers'[i] = AnswerFields /\ answers'[i].data = answers[i].data
          /\ answers'[i].view = answers[i].view /\ ~answers'[i].valid
    BY <2>2 DEF TablesSettle, RowsThere, AnswerFields
  <2>4. \E U : answers' \in Seq(U)
    <3>1. Len(answers) \in Nat /\ DOMAIN answers = 1..Len(answers)
      BY <1>3
    <3> DEFINE U == {answers'[i] : i \in 1..Len(answers)}
    <3>2. answers' = [i \in 1..Len(answers) |-> answers'[i]]
      BY <1>5, <3>1
    <3>3. answers' \in [1..Len(answers) -> U]
      BY <3>2
    <3> QED
      BY <3>1, <3>3, SeqDef
  <2>5. RowsThere'
    BY <1>1, <1>2, <2>1, <2>2, <2>3, <2>4, RequestIs DEF TablesSettle, RowsThere
  <2>6. ASSUME Patient PROVE OneThing' /\ Fresh'
    <3>1. fetching = {} /\ acting' = {}
      BY <1>1, <2>6 DEF TablesSettle, OneThing
    <3>2. OneThing'
      BY <1>1, <2>1, <3>1, RequestIs DEF OneThing
    <3>3. Fresh'
      BY <1>1, <1>5, <2>1, <2>2, <2>3 DEF Fresh, Keyed
    <3> QED
      BY <3>2, <3>3
  <2> QED
    BY <1>1, <2>5, <2>6 DEF TablesSettle, Patient
<1> QED
  BY <1>4, <1>5 DEF Change, Reload

LEMMA RefuseSettles ==
    ASSUME TablesSettle, NEW own \in acting, Refuse(own)
    PROVE  TablesSettle'
<1>1. /\ acting' = acting \ {own}
      /\ UNCHANGED <<screen, class, view, fetching, answers, failed, mine, hasty>>
  BY DEF Refuse
<1>2. Rows' = Rows /\ Created' = Created
  BY <1>1 DEF Rows, Created
<1>3. RowsThere'
  BY <1>1, <1>2 DEF TablesSettle, RowsThere
<1>4. ASSUME Patient PROVE OneThing' /\ Fresh'
  <2>1. Failed' = Failed
    BY <1>1, FailedStays
  <2> QED
    BY <1>1, <1>4, <2>1 DEF TablesSettle, OneThing, Fresh, KnowsMine, AnswersTo, Displayed
<1> QED
  BY <1>1, <1>3, <1>4 DEF TablesSettle, Patient

LEMMA RefreshSettles == ASSUME TablesSettle, Refresh PROVE TablesSettle'
<1>1. /\ fetching = {} /\ acting = {}
      /\ view' = FirstView /\ fetching' = {Request(FirstView, 0, {})}
      /\ answers' = <<>> /\ mine' = {}
      /\ UNCHANGED <<screen, class, acting>>
  BY DEF Refresh, Quiet
<1>2. Rows' = Rows /\ Created' = Created
  BY <1>1 DEF Rows, Created
<1>3. answers' \in Seq({}) /\ DOMAIN answers' = {}
  BY <1>1
<1>4. \A q \in fetching' : q.view = view' /\ q.pc = "data" /\ DOMAIN q = RequestFields
  BY <1>1, RequestIs
<1>5. RowsThere'
  BY <1>1, <1>2, <1>3, <1>4 DEF TablesSettle, RowsThere
<1>6. OneThing' /\ Fresh'
  BY <1>1, <1>3, <1>4 DEF OneThing, Fresh
<1> QED
  BY <1>5, <1>6 DEF TablesSettle

LEMMA SettleStep == TablesSettle /\ [ListsNext]_listsVars => TablesSettle'
<1> SUFFICES ASSUME TablesSettle, [ListsNext]_listsVars PROVE TablesSettle'
  OBVIOUS
<1>1. CASE UNCHANGED listsVars
  <2>1. Failed' = Failed
    BY <1>1, FailedStays DEF listsVars
  <2> QED
    BY <1>1, <2>1 DEF listsVars, TablesSettle, RowsThere, Patient, OneThing, Fresh, KnowsMine,
                      AnswersTo, Displayed, Rows, Created
<1> QED
  BY <1>1, ElsewhereSettles, QueriesSettle, AnswerSettles, FailureSettles, ClickSettles, FetchSettles, ActSettles,
     ChangeSettles, RefuseSettles, RefreshSettles DEF ListsNext

(* What came back is shown, or said to be missing. *)
LEMMA HeardStep ==
    ASSUME RowsThere, Heard, [ListsNext]_listsVars, screen' \notin Walks, ~Failed'
    PROVE  Displayed' # {} \/ \E q \in fetching' : q.view = view'
<1>0. ASSUME UNCHANGED <<screen, view, answers, failed>>,
             \A q \in fetching : \E p \in fetching' : p.view = q.view
      PROVE  Displayed' # {} \/ \E q \in fetching' : q.view = view'
  <2>1. Failed' = Failed /\ Displayed' = Displayed
    BY <1>0 DEF Failed, Key, FirstView, Displayed, AnswersTo
  <2>2. Displayed # {} \/ \E q \in fetching : q.view = view
    BY <1>0, <2>1 DEF Heard
  <2> QED
    BY <1>0, <2>1, <2>2
<1>1. CASE UNCHANGED listsVars
  BY <1>0, <1>1 DEF listsVars
<1>2. ASSUME NEW r \in Rows,
             HandleToggleActive(r) \/ Resolve(r) \/ ComeIn(r) \/ ChangeElsewhere(r)
      PROVE  Displayed' # {} \/ \E q \in fetching' : q.view = view'
  BY <1>0, <1>2 DEF HandleToggleActive, Resolve, ComeIn, ChangeElsewhere
<1>3. ASSUME NEW own \in acting, Refuse(own)
      PROVE  Displayed' # {} \/ \E q \in fetching' : q.view = view'
  BY <1>0, <1>3 DEF Refuse
<1>4. ASSUME NEW q \in fetching, ReadPage(q) \/ CountRows(q) \/ CursorPaginate(q)
      PROVE  Displayed' # {} \/ \E p \in fetching' : p.view = view'
  <2>1. DOMAIN q = RequestFields
    BY DEF RowsThere
  <2>2. PICK p : Became(q, p) /\ p.view = q.view
    <3>1. \A d, t : /\ [q EXCEPT !.pc = "total", !.data = d].view = q.view
                    /\ [q EXCEPT !.pc = "done", !.total = t].view = q.view
                    /\ [q EXCEPT !.pc = "done", !.data = d, !.total = t].view = q.view
      BY <2>1 DEF RequestFields
    <3>2. CASE ReadPage(q)
      <4>1. PICK d : Became(q, [q EXCEPT !.pc = "total", !.data = d])
        BY <3>2 DEF ReadPage
      <4>2. PICK p : p = [q EXCEPT !.pc = "total", !.data = d]
        OBVIOUS
      <4>3. Became(q, p)
        BY <4>1, <4>2, Zenon
      <4>4. p.view = q.view
        BY <3>1, <4>2, Zenon
      <4> QED
        BY <4>3, <4>4, Zenon
    <3>3. CASE CountRows(q)
      <4>1. PICK t : Became(q, [q EXCEPT !.pc = "done", !.total = t])
        BY <3>3 DEF CountRows
      <4>2. PICK p : p = [q EXCEPT !.pc = "done", !.total = t]
        OBVIOUS
      <4>3. Became(q, p)
        BY <4>1, <4>2, Zenon
      <4>4. p.view = q.view
        BY <3>1, <4>2, Zenon
      <4> QED
        BY <4>3, <4>4, Zenon
    <3>4. CASE CursorPaginate(q)
      <4> DEFINE found == AfterCursor(q.from)
                 d == Statuses(PageOf(found, 1))
                 t == Cardinality(PageOf(found, 1)) + IF PageOf(found, 1) = found THEN 0 ELSE 1
      <4>1. Became(q, [q EXCEPT !.pc = "done", !.data = d, !.total = t])
        BY <3>4 DEF CursorPaginate
      <4> HIDE DEF d, t
      <4>2. PICK p : p = [q EXCEPT !.pc = "done", !.data = d, !.total = t]
        OBVIOUS
      <4>3. p.view = q.view
        BY <3>1, <4>2
      <4> QED
        BY <4>1, <4>2, <4>3
    <3> QED
      BY <1>4, <3>2, <3>3, <3>4
  <2>3. UNCHANGED <<screen, view, answers, failed>>
    BY <1>4 DEF ReadPage, CountRows, CursorPaginate
  <2> QED
    BY <1>0, <2>2, <2>3 DEF Became
<1>5. ASSUME NEW q \in fetching, Answer(q)
      PROVE  Displayed' # {} \/ \E p \in fetching' : p.view = view'
  <2> DEFINE a == [view |-> q.view, data |-> q.data, total |-> q.total, valid |-> TRUE]
  <2>1. /\ fetching' = fetching \ {q} /\ answers' = Received(a)
        /\ failed' = failed \ {Key(q.view)} /\ screen' = screen /\ view' = view
    BY <1>5 DEF Answer
  <2>2. a.view = q.view
    OBVIOUS
  <2> HIDE DEF a
  <2>3. CASE screen \notin Keyed
    <3>1. answers' = <<a>>
      <4>1. answers' = Append(<<>>, a)
        BY <2>1, <2>3 DEF Received
      <4> QED
        BY <4>1
    <3>2. Len(answers') = 1 /\ DOMAIN answers' = {1}
      BY <3>1
    <3> QED
      BY <2>1, <2>3, <3>2 DEF Displayed
  <2>4. CASE screen \in Keyed
    <3> DEFINE n == Len(answers)
    <3>1. PICK T : answers \in Seq(T)
      BY DEF RowsThere
    <3>2. n \in Nat /\ DOMAIN answers = 1..n
      BY <3>1
    <3>3. \E i \in DOMAIN answers' : answers'[i].view = q.view
      <4>1. CASE AnswersTo(a.view) # {}
        <5>1. PICK i \in DOMAIN answers : answers[i].view = a.view
          BY <4>1 DEF AnswersTo
        <5>2. DOMAIN answers' = DOMAIN answers /\ answers'[i] = a
          BY <2>1, <2>4, <4>1, <5>1 DEF Received
        <5> QED
          BY <2>2, <5>1, <5>2
      <4>2. CASE AnswersTo(a.view) = {}
        <5>1. answers' = Append(answers, a)
          BY <2>1, <2>4, <4>2 DEF Received
        <5>2. n + 1 \in DOMAIN answers' /\ answers'[n + 1] = a
          BY <3>1, <3>2, <5>1
        <5> QED
          BY <2>2, <5>2
      <4> QED
        BY <4>1, <4>2
    <3>4. \A i \in DOMAIN answers : i \in DOMAIN answers' /\ answers'[i].view = answers[i].view
      <4>1. CASE AnswersTo(a.view) # {}
        BY <2>1, <2>4, <4>1 DEF Received
      <4>2. CASE AnswersTo(a.view) = {}
        <5>1. answers' = Append(answers, a)
          BY <2>1, <2>4, <4>2 DEF Received
        <5> HIDE DEF n
        <5>2. \A i \in 1..n : i \in DOMAIN answers' /\ answers'[i] = answers[i]
          BY <3>1, <3>2, <5>1 DEF n
        <5> QED
          BY <3>2, <5>2
      <4> QED
        BY <4>1, <4>2
    <3>5. CASE q.view = view
      BY <2>1, <2>4, <3>3, <3>5 DEF Displayed, AnswersTo
    <3>6. CASE q.view # view
      <4>1. ~Failed
        BY <2>1, <2>4, <3>6 DEF Failed, Key
      <4>2. screen \notin Walks
        BY <2>1
      <4>3. CASE Displayed # {}
        <5>1. PICK i \in DOMAIN answers : answers[i].view = view
          BY <2>4, <4>3 DEF Displayed, AnswersTo
        <5> QED
          BY <2>1, <2>4, <3>4, <5>1 DEF Displayed, AnswersTo
      <4>4. CASE \E p \in fetching : p.view = view
        BY <2>1, <3>6, <4>4
      <4> QED
        BY <4>1, <4>2, <4>3, <4>4 DEF Heard
    <3> QED
      BY <3>5, <3>6
  <2> QED
    BY <2>3, <2>4
<1>6. ASSUME NEW q \in fetching, LoadFails(q)
      PROVE  Displayed' # {} \/ \E p \in fetching' : p.view = view'
  <2>1. /\ fetching' = fetching \ {q} /\ failed' = failed \cup {Key(q.view)}
        /\ screen' = screen /\ view' = view /\ answers' = answers
    BY <1>6 DEF LoadFails
  <2>2. q.view # view /\ ~Failed /\ screen \notin Walks
    BY <2>1 DEF Failed, Key, FirstView
  <2>3. Displayed' = Displayed
    BY <2>1 DEF Displayed, AnswersTo
  <2> QED
    BY <2>1, <2>2, <2>3 DEF Heard
<1>7. CASE Click
  <2>1. PICK v : /\ view' = v
                 /\ \/ fetching' = fetching \cup {Request(v, 0, fetching)}
                    \/ screen \in Keyed /\ AnswersTo(v) # {}
    BY <1>7 DEF Click, Ask
  <2>2. screen' = screen /\ answers' = answers
    BY <1>7 DEF Click
  <2>3. CASE fetching' = fetching \cup {Request(v, 0, fetching)}
    BY <2>1, <2>3, RequestIs
  <2>4. CASE screen \in Keyed /\ AnswersTo(v) # {}
    BY <2>1, <2>2, <2>4 DEF Displayed, AnswersTo
  <2> QED
    BY <2>1, <2>3, <2>4
<1>8. ASSUME NEW own \in acting, Change(own)
      PROVE  Displayed' # {} \/ \E q \in fetching' : q.view = view'
  <2>1. view' = view /\ \E others : Request(view, 0, others) \in fetching'
    BY <1>8 DEF Change, Reload, Ask
  <2> QED
    BY <2>1, RequestIs
<1>9. CASE Refresh
  BY <1>9, RequestIs DEF Refresh
<1>10. CASE FetchNextPage
  BY <1>10 DEF FetchNextPage
<1> QED
  BY <1>1, <1>2, <1>3, <1>4, <1>5, <1>6, <1>7, <1>8, <1>9, <1>10 DEF ListsNext

LEMMA ListsBeside == RecordsSpec => ListsSpec
<1>1. RecordsInit => ListsInit
  BY DEF RecordsInit
<1>2. [RecordsNext]_recordVars => [ListsNext]_listsVars
  BY DEF RecordsNext, ServicesNext, recordVars
<1> QED
  BY <1>1, <1>2, PTL DEF RecordsSpec, ListsSpec

(* A table that has come to rest and whose last load did not fail shows    *)
(* what is selected, and the user's own changes unless others have changed *)
(* those rows since: on each of the pages that list rows, for any number   *)
(* of rows, rows to a page, and requests under way together.               *)
THEOREM TablesComeToRest == RecordsSpec => []ScreenSettles
<1>1. ListsSpec => []TablesSettle
  BY SettleInit, SettleStep, PTL DEF ListsSpec
<1>2. ListsInit => Heard
  BY RequestIs DEF ListsInit, Heard
<1>3. TablesSettle /\ Heard /\ [ListsNext]_listsVars => Heard'
  BY HeardStep DEF TablesSettle, Heard
<1>4. TablesSettle /\ Heard => ScreenSettles
  <2> SUFFICES ASSUME TablesSettle, Heard, Quiet, screen \notin Walks
               PROVE  /\ ~Failed => Displayed # {}
                      /\ \A a \in Displayed :
                           /\ screen \in Keyed \/ ~(hasty \/ Failed) => a.view = view
                           /\ ~(hasty \/ Failed) =>
                                 \A r \in mine \cap DOMAIN a.data : a.data[r] = class[r]
    BY DEF ScreenSettles
  <2>1. fetching = {}
    BY DEF Quiet
  <2>2. ~Failed => Displayed # {}
    BY <2>1 DEF Heard
  <2>3. ASSUME NEW a \in Displayed
        PROVE  /\ screen \in Keyed \/ ~(hasty \/ Failed) => a.view = view
               /\ ~(hasty \/ Failed) => \A r \in mine \cap DOMAIN a.data : a.data[r] = class[r]
    <3>1. CASE screen \in Keyed
      BY <2>1, <2>3, <3>1 DEF TablesSettle, Patient, Fresh, KnowsMine, Displayed, AnswersTo
    <3>2. CASE screen \notin Keyed
      BY <2>1, <2>3, <3>2 DEF TablesSettle, Patient, Fresh, KnowsMine
    <3> QED
      BY <3>1, <3>2
  <2> QED
    BY <2>2, <2>3
<1> QED
  BY ListsBeside, <1>1, <1>2, <1>3, <1>4, PTL DEF ListsSpec

-----------------------------------------------------------------------------
(* The walks.  A walk in pages that rows leave is carried by how many rows *)
(* it can still lose (Slipped, at most as many as have left), one by       *)
(* cursor by the order of the milliseconds.                                *)

(* Places in a list of the rows T: the row r has as many before it as there *)
(* are newer ones.                                                         *)
Place(r, T) == Cardinality(Newer(r, T))

LEMMA PlaceType ==
    ASSUME NEW T, IsFiniteSet(T), NEW r
    PROVE  IsFiniteSet(Newer(r, T)) /\ Place(r, T) \in Nat
  BY FS_Subset, FS_CardinalityType DEF Newer, Place

LEMMA PlaceOrder ==
    ASSUME NEW T \in SUBSET Nat, IsFiniteSet(T), NEW r \in T, NEW x \in T, r < x
    PROVE  Place(x, T) < Place(r, T)
<1>1. Newer(x, T) \subseteq Newer(r, T) /\ x \in Newer(r, T) /\ x \notin Newer(x, T)
  <2>1. \A y \in T : y > x => y > r
    OBVIOUS
  <2>2. x > r /\ ~(x > x)
    OBVIOUS
  <2>3. \A y, t, T1 : y \in Newer(t, T1) <=> y \in T1 /\ y > t
    BY DEF Newer
  <2> QED
    BY <2>1, <2>2, <2>3, Zenon
<1>2. /\ IsFiniteSet(Newer(r, T)) /\ Place(x, T) \in Nat /\ Place(r, T) \in Nat
  BY PlaceType
<1>3. Place(x, T) <= Place(r, T) /\ (Place(x, T) = Place(r, T) => Newer(x, T) = Newer(r, T))
  BY <1>1, <1>2, FS_Subset DEF Place
<1> QED
  BY <1>1, <1>2, <1>3

LEMMA PlaceBound ==
    ASSUME NEW T \in SUBSET Nat, IsFiniteSet(T), NEW r \in T
    PROVE  Place(r, T) < Cardinality(T)
<1>1. Newer(r, T) \in SUBSET T /\ r \notin Newer(r, T)
  BY DEF Newer
<1>2. Place(r, T) \in Nat /\ Cardinality(T) \in Nat
  BY PlaceType, FS_CardinalityType
<1>3. Place(r, T) <= Cardinality(T) /\ (Cardinality(T) = Place(r, T) => T = Newer(r, T))
  BY <1>1, FS_Subset DEF Place
<1> QED
  BY <1>1, <1>2, <1>3

LEMMA PlaceGrows ==
    ASSUME NEW T, NEW U, IsFiniteSet(U), T \subseteq U, NEW r
    PROVE  Place(r, T) <= Place(r, U)
<1>1. Newer(r, T) \in SUBSET Newer(r, U)
  BY DEF Newer
<1>2. IsFiniteSet(Newer(r, U))
  BY PlaceType
<1> QED
  BY <1>1, <1>2, FS_Subset DEF Place

LEMMA PlaceLeft ==
    ASSUME NEW T \in SUBSET Nat, IsFiniteSet(T), NEW r, NEW x
    PROVE  Place(x, T) <= Place(x, T \ {r}) + 1
<1>1. Newer(x, T \ {r}) = Newer(x, T) \ {r}
  BY DEF Newer
<1>2. IsFiniteSet(Newer(x, T)) /\ Place(x, T) \in Nat
  BY PlaceType
<1>3. Place(x, T \ {r}) = IF r \in Newer(x, T) THEN Place(x, T) - 1 ELSE Place(x, T)
  BY <1>1, <1>2, FS_RemoveElement DEF Place
<1> QED
  BY <1>2, <1>3

(* Of the rows U, those that are among the first k pages of the list.      *)
Slip(U, T, k) == {x \in U : Place(x, T) < k * Limit}

LEMMA SlipFinite ==
    ASSUME NEW U, IsFiniteSet(U), NEW T, NEW k
    PROVE  IsFiniteSet(Slip(U, T, k)) /\ Cardinality(Slip(U, T, k)) \in Nat
  BY FS_Subset, FS_CardinalityType DEF Slip

(* A row leaves: at most one other moves up into these pages.              *)
LEMMA SlipLeave ==
    ASSUME NEW T \in SUBSET Nat, IsFiniteSet(T), NEW U \in SUBSET T, NEW r, NEW k \in Nat
    PROVE  Cardinality(Slip(U \ {r}, T \ {r}, k)) <= Cardinality(Slip(U, T, k)) + 1
<1> DEFINE edge == {x \in U : Place(x, T) = k * Limit}
           all == Slip(U, T, k)
           new == Slip(U \ {r}, T \ {r}, k)
<1>1. IsFiniteSet(U) /\ IsFiniteSet(U \ {r}) /\ IsFiniteSet(T \ {r})
  BY FS_Subset, FS_RemoveElement
<1>2. k * Limit \in Nat
  BY ListsAssumption
<1>3. new \subseteq all \cup edge
  <2>1. SUFFICES ASSUME NEW x \in U, Place(x, T \ {r}) < k * Limit
                 PROVE  Place(x, T) < k * Limit \/ Place(x, T) = k * Limit
    BY DEF Slip
  <2>2. /\ Place(x, T) \in Nat /\ Place(x, T \ {r}) \in Nat
        /\ Place(x, T) <= Place(x, T \ {r}) + 1
    BY <1>1, PlaceType, PlaceLeft
  <2> QED
    BY <1>2, <2>1, <2>2
<1>4. \A x, y \in edge : x = y
  <2>1. SUFFICES ASSUME NEW x \in edge, NEW y \in edge, x < y PROVE FALSE
    <3>1. \A x, y \in edge : x \in Nat /\ y \in Nat
      OBVIOUS
    <3> QED
      BY <3>1
  <2>2. Place(y, T) < Place(x, T) /\ Place(y, T) \in Nat
    BY <2>1, PlaceOrder, PlaceType
  <2> QED
    BY <2>2
<1>5. IsFiniteSet(all) /\ Cardinality(all) \in Nat
  BY <1>1, SlipFinite
<1>6. IsFiniteSet(new) /\ Cardinality(new) \in Nat
  BY <1>1, SlipFinite
<1> HIDE DEF all, new
<1>7. CASE edge = {}
  <2>1. new \in SUBSET all
    BY <1>3, <1>7
  <2>2. Cardinality(new) <= Cardinality(all)
    BY <1>5, <2>1, FS_Subset
  <2>3. Cardinality(new) <= Cardinality(all) + 1
    BY <1>5, <1>6, <2>2
  <2> QED
    BY <2>3 DEF all, new
<1>8. CASE edge # {}
  <2>1. PICK e : edge = {e}
    BY <1>4, <1>8
  <2> HIDE DEF edge
  <2>2. IsFiniteSet(all \cup {e}) /\ Cardinality(all \cup {e}) <= Cardinality(all) + 1
    <3>1. /\ IsFiniteSet(all \cup {e})
          /\ Cardinality(all \cup {e}) = IF e \in all THEN Cardinality(all) ELSE Cardinality(all) + 1
      BY <1>5, FS_AddElement
    <3> QED
      BY <1>5, <3>1
  <2>3. new \in SUBSET (all \cup {e}) /\ Cardinality(all \cup {e}) \in Nat
    BY <1>3, <2>1, <2>2, FS_CardinalityType
  <2>4. Cardinality(new) <= Cardinality(all \cup {e})
    BY <2>2, <2>3, FS_Subset
  <2>5. Cardinality(new) <= Cardinality(all) + 1
    BY <1>5, <1>6, <2>2, <2>3, <2>4
  <2> QED
    BY <2>5 DEF all, new
<1> QED
  BY <1>7, <1>8

(* The next page is read: what it does not show was not in it.             *)
LEMMA SlipPage ==
    ASSUME NEW T \in SUBSET Nat, IsFiniteSet(T), NEW U \in SUBSET T, NEW k \in Nat
    PROVE  Slip(U \ PageOf(T, k + 1), T, k + 1) \subseteq Slip(U, T, k)
<1> SUFFICES ASSUME NEW x \in U, x \notin PageOf(T, k + 1), Place(x, T) < (k + 1) * Limit
             PROVE  Place(x, T) < k * Limit
  BY DEF Slip
<1>1. ~(((k + 1) - 1) * Limit <= Place(x, T) /\ Place(x, T) < (k + 1) * Limit)
  BY DEF PageOf, Place
<1>2. (k + 1) - 1 = k
  OBVIOUS
<1>3. Place(x, T) \in Nat /\ k * Limit \in Nat
  BY PlaceType, ListsAssumption
<1> QED
  BY <1>1, <1>2, <1>3

LEMMA SlipGrown ==
    ASSUME NEW T, NEW more, IsFiniteSet(more), T \subseteq more, NEW U, NEW k \in Nat
    PROVE  Slip(U, more, k) \subseteq Slip(U, T, k)
<1> SUFFICES ASSUME NEW x \in U, Place(x, more) < k * Limit PROVE Place(x, T) < k * Limit
  BY DEF Slip
<1>1. Place(x, T) <= Place(x, more)
  BY PlaceGrows
<1>2. Place(x, T) \in Nat /\ Place(x, more) \in Nat /\ k * Limit \in Nat
  <2>1. IsFiniteSet(T)
    BY FS_Subset
  <2> QED
    BY <2>1, PlaceType, ListsAssumption
<1> QED
  BY <1>1, <1>2

(* The pages hold all there is.                                            *)
LEMMA SlipAll ==
    ASSUME NEW T \in SUBSET Nat, IsFiniteSet(T), NEW U \in SUBSET T, NEW k \in Nat,
           Cardinality(T) <= k * Limit
    PROVE  Slip(U, T, k) = U
<1> SUFFICES ASSUME NEW x \in U PROVE Place(x, T) < k * Limit
  BY DEF Slip
<1>1. Place(x, T) < Cardinality(T) /\ Place(x, T) \in Nat /\ Cardinality(T) \in Nat
  BY PlaceBound, PlaceType, FS_CardinalityType
<1>2. k * Limit \in Nat
  BY ListsAssumption
<1> QED
  BY <1>1, <1>2

(* A row is of the same or a later millisecond than those before it.       *)
LEMMA Milliseconds ==
    ASSUME NEW r \in Nat
    PROVE  /\ Millisecond(r) \in Nat
           /\ \A x \in Nat : x <= r => Millisecond(x) <= Millisecond(r)
<1>1. \A x \in Nat : IsFiniteSet((1..x) \ joined) /\ Millisecond(x) \in Nat
  <2>1. SUFFICES ASSUME NEW x \in Nat
                 PROVE  IsFiniteSet((1..x) \ joined) /\ Millisecond(x) \in Nat
    OBVIOUS
  <2>2. IsFiniteSet(1..x)
    BY FS_Interval
  <2>3. IsFiniteSet((1..x) \ joined)
    BY <2>2, FS_Difference
  <2> QED
    BY <2>3, FS_CardinalityType DEF Millisecond
<1>2. ASSUME NEW x \in Nat, x <= r PROVE Millisecond(x) <= Millisecond(r)
  <2>1. (1..x) \ joined \in SUBSET ((1..r) \ joined)
    BY <1>2
  <2> QED
    BY <1>1, <2>1, FS_Subset DEF Millisecond
<1> QED
  BY <1>1, <1>2

(* A finite list has a newest row and an oldest one.                       *)
LEMMA NewestAndOldest ==
    ASSUME NEW n \in Nat, NEW T \in SUBSET (1..n), T # {}
    PROVE  /\ \E r \in T : \A x \in T : x <= r
           /\ \E r \in T : \A x \in T : r <= x
<1> DEFINE Has(T1) == /\ \E r \in T1 : \A x \in T1 : x <= r
                      /\ \E r \in T1 : \A x \in T1 : r <= x
           U == {m \in Nat : \A T1 \in SUBSET (1..m) : T1 # {} => Has(T1)}
<1>1. 0 \in U
  <2>1. \A T1 \in SUBSET (1..0) : T1 = {}
    OBVIOUS
  <2> QED
    BY <2>1
<1>2. \A m \in U : m + 1 \in U
  <2>0. SUFFICES ASSUME NEW m \in U, NEW T1 \in SUBSET (1..(m + 1)), T1 # {}
                 PROVE  Has(T1)
    <3> HIDE DEF Has
    <3> QED
      OBVIOUS
  <2>1. m \in Nat /\ \A T2 \in SUBSET (1..m) : T2 # {} => Has(T2)
    <3> HIDE DEF Has
    <3> QED
      OBVIOUS
  <2>2. T1 \ {m + 1} \in SUBSET (1..m) /\ \A x \in T1 : x \in Nat /\ x <= m + 1
    BY <2>1
  <2>3. CASE T1 \ {m + 1} = {}
    <3>1. T1 = {m + 1}
      BY <2>0, <2>3
    <3> QED
      BY <3>1
  <2>4. CASE T1 \ {m + 1} # {}
    <3>1. Has(T1 \ {m + 1})
      BY <2>1, <2>2, <2>4
    <3>2. PICK r \in T1 \ {m + 1} : \A x \in T1 \ {m + 1} : x <= r
      BY <3>1
    <3>3. PICK s \in T1 \ {m + 1} : \A x \in T1 \ {m + 1} : s <= x
      BY <3>1
    <3>4. \A x \in T1 : s <= x
      BY <2>2, <3>3
    <3>5. \E t \in T1 : \A x \in T1 : x <= t
      <4>1. CASE m + 1 \in T1
        BY <2>2, <4>1
      <4>2. CASE m + 1 \notin T1
        BY <3>2, <4>2
      <4> QED
        BY <4>1, <4>2
    <3> QED
      BY <3>4, <3>5
  <2> QED
    BY <2>3, <2>4
<1>3. U = Nat
  <2>1. U \in SUBSET Nat
    OBVIOUS
  <2> HIDE DEF U
  <2> QED
    BY <1>1, <1>2, <2>1, NatInductive
<1> QED
  BY <1>3

(* The first page has the newest rows, and is full if there are others.    *)
LEMMA FirstPage ==
    ASSUME NEW n \in Nat, NEW T \in SUBSET (1..n)
    PROVE  /\ \A x \in PageOf(T, 1), y \in T \ PageOf(T, 1) : y < x
           /\ PageOf(T, 1) # T => Cardinality(PageOf(T, 1)) >= Limit
<1> DEFINE page == PageOf(T, 1)
<1>1. IsFiniteSet(T) /\ T \in SUBSET Nat
  <2>1. IsFiniteSet(1..n)
    BY FS_Interval
  <2>2. IsFiniteSet(T)
    BY <2>1, FS_Subset
  <2> QED
    BY <2>2
<1>2. \A x : x \in page <=> x \in T /\ Place(x, T) < Limit
  <2>1. SUFFICES ASSUME NEW x \in T PROVE x \in page <=> Place(x, T) < Limit
    BY DEF PageOf
  <2>2. Place(x, T) \in Nat /\ Limit \in Nat
    BY <1>1, PlaceType, ListsAssumption
  <2>3. (1 - 1) * Limit = 0 /\ 1 * Limit = Limit
    BY <2>2
  <2> QED
    BY <2>2, <2>3 DEF PageOf, Place
<1> HIDE DEF page
<1>3. ASSUME NEW x \in page, NEW y \in T \ page PROVE y < x
  <2>1. /\ x \in T /\ y \in T /\ x \in Nat /\ y \in Nat /\ x # y
        /\ Place(x, T) < Limit /\ ~(Place(y, T) < Limit)
        /\ Place(x, T) \in Nat /\ Place(y, T) \in Nat /\ Limit \in Nat
    BY <1>1, <1>2, <1>3, PlaceType, ListsAssumption
  <2>2. x < y => Place(y, T) < Place(x, T)
    BY <1>1, <2>1, PlaceOrder
  <2> QED
    BY <2>1, <2>2
<1>4. ASSUME page # T PROVE Cardinality(page) >= Limit
  <2>1. T \ page \in SUBSET (1..n) /\ T \ page # {}
    BY <1>2, <1>4
  <2>2. PICK y \in T \ page : \A x \in T \ page : x <= y
    BY <2>1, NewestAndOldest
  <2>3. Newer(y, T) \in SUBSET page
    <3>1. SUFFICES ASSUME NEW x \in T, x > y PROVE x \in page
      BY DEF Newer
    <3>2. x \in Nat /\ y \in Nat
      BY <1>1
    <3> QED
      BY <2>2, <3>1, <3>2
  <2>4. IsFiniteSet(page) /\ Cardinality(page) \in Nat
    <3>1. page \in SUBSET T
      BY <1>2
    <3> QED
      BY <1>1, <3>1, FS_Subset, FS_CardinalityType
  <2>5. Place(y, T) <= Cardinality(page)
    BY <2>3, <2>4, FS_Subset DEF Place
  <2>6. ~(Place(y, T) < Limit) /\ Place(y, T) \in Nat /\ Limit \in Nat
    BY <1>1, <1>2, PlaceType, ListsAssumption
  <2> QED
    BY <2>4, <2>5, <2>6
<1> QED
  BY <1>3, <1>4 DEF page

(* What a walk has read: the rows of its answers, and of a request that    *)
(* has its page.                                                           *)
Open == {r \in Rows : class[r] = "open"}
Seen == Shown \cup UNION {DOMAIN q.data : q \in fetching}
Unseen == {r \in Open : opened[r] = "open"} \ Seen
PagesRead == IF \E q \in fetching : q.pc # "data" THEN Len(answers) + 1 ELSE Len(answers)

(* Rows not seen that no further page will show: they have moved up into   *)
(* the pages that are read.                                                *)
Slipped == Slip(Unseen, Open, PagesRead)

(* The page that was read last, when its total is known.                   *)
LastPages ==
    {q \in fetching : q.pc = "done"}
    \cup IF fetching = {} /\ answers # <<>> THEN {Last} ELSE {}

WalkPage(n) == [filter |-> "open", page |-> n]

Paging(a) ==
    /\ DOMAIN a.data \subseteq Rows
    /\ a.total \in Nat
    /\ screen = "cursor" /\ a.total > Limit => DOMAIN a.data # {}

Asked(q) ==
    /\ fetching = {q}
    /\ DOMAIN q = RequestFields
    /\ q.view = WalkPage(Len(answers) + 1)
    /\ q.pc \in {"data", "total", "done"}
    /\ q.pc = "data" => DOMAIN q.data = {}
    /\ Paging(q)

RowsOfWalk ==
    /\ class \in [Rows -> {"none", "open", "closed"}]
    /\ \A r \in Rows : /\ opened[r] = "closed" => class[r] = "closed"
                       /\ class[r] = "none" => opened[r] \notin {"open", "closed"}

OneByPage ==
    /\ \E T : answers \in Seq(T)
    /\ \A i \in DOMAIN answers : answers[i].view = WalkPage(i) /\ Paging(answers[i])
    /\ \A q \in fetching : Asked(q)

(* Only a page that is not the last is asked for after an answer, and none *)
(* after a failure by the infinite list.                                   *)
UnderWay ==
    /\ answers # <<>> /\ (fetching # {} \/ Failed) => HasNextPage(Last)
    /\ screen = "infinite" /\ Failed => fetching = {}

InfiniteWalk ==
    /\ Cardinality(Slipped) <= Cardinality(Left)
    /\ \A a \in LastPages : ~HasNextPage(a) => Cardinality(Unseen) <= Cardinality(Left)

Tied(r) == \E x \in Seen : x > r /\ Millisecond(x) = Millisecond(r)
Later(new, old) == \A x \in new, y \in old : Millisecond(y) < Millisecond(x)

(* Each page of a walk by cursor is of earlier milliseconds than all that  *)
(* came before it, and so is what it has not shown, but for rows of the    *)
(* same millisecond as a newer row it has.                                 *)
CursorWalk ==
    /\ \A i, j \in DOMAIN answers : i < j => Later(DOMAIN answers[i].data, DOMAIN answers[j].data)
    /\ \A q \in fetching :
         /\ q.pc # "total"
         /\ q.from = 0 => answers = <<>>
         /\ q.from # 0 => q.from \in Shown /\ \A x \in Shown : Millisecond(q.from) <= Millisecond(x)
         /\ Later(Shown, DOMAIN q.data)
    /\ \A r \in Unseen : Tied(r) \/ Later(Seen, {r})
    /\ \A a \in LastPages : ~HasNextPage(a) => \A r \in Unseen : Tied(r)

WalkInv ==
    screen \in Walks =>
        /\ acting = {}
        /\ RowsOfWalk
        /\ OneByPage
        /\ UnderWay
        /\ screen = "infinite" /\ ~Failed => InfiniteWalk
        /\ screen = "cursor" => CursorWalk

Walking == WalkInv /\ screen \in Walks

-----------------------------------------------------------------------------
LEMMA OpenRows ==
    /\ Matching("open") = Open
    /\ Open \subseteq Rows /\ Rows \in SUBSET Nat /\ IsFiniteSet(Rows)
    /\ \A T \in SUBSET Rows : IsFiniteSet(T) /\ Cardinality(T) \in Nat
<1>1. Matching("open") = Open
  BY DEF Matching, Open, Created
<1>2. \E n \in Nat : Rows = 1..n
  BY ListsAssumption DEF Rows
<1>3. Rows \in SUBSET Nat /\ IsFiniteSet(Rows)
  BY <1>2, FS_Interval
<1>4. \A T \in SUBSET Rows : IsFiniteSet(T) /\ Cardinality(T) \in Nat
  BY <1>3, FS_Subset, FS_CardinalityType
<1> QED
  BY <1>1, <1>3, <1>4 DEF Open

(* A walk's user only reads: others change the rows meanwhile.             *)
LEMMA WalkKept ==
    ASSUME UNCHANGED <<screen, fetching, answers, joined>>
    PROVE  /\ Rows' = Rows /\ Shown' = Shown /\ Seen' = Seen /\ PagesRead' = PagesRead
           /\ LastPages' = LastPages
           /\ \A a : HasNextPage(a)' <=> HasNextPage(a)
           /\ \A r : Millisecond(r)' = Millisecond(r)
           /\ \A new, old : Later(new, old)' <=> Later(new, old)
           /\ OneByPage => OneByPage'
<1>1. /\ Rows' = Rows /\ Shown' = Shown /\ Seen' = Seen /\ PagesRead' = PagesRead
      /\ LastPages' = LastPages
  BY DEF Rows, Shown, Seen, PagesRead, LastPages, Last
<1>2. \A a : HasNextPage(a)' <=> HasNextPage(a)
  BY DEF HasNextPage
<1>3. \A r : Millisecond(r)' = Millisecond(r)
  BY DEF Millisecond
<1>4. \A new, old : Later(new, old)' <=> Later(new, old)
  BY <1>3 DEF Later
<1>5. \A a : Paging(a)' <=> Paging(a)
  BY <1>1 DEF Paging
<1>6. OneByPage => OneByPage'
  BY <1>5 DEF OneByPage, Asked
<1> QED
  BY <1>1, <1>2, <1>3, <1>4, <1>6

LEMMA UnderWayKept ==
    ASSUME UNCHANGED <<screen, view, answers, failed>>, fetching' = {} <=> fetching = {}
    PROVE  Failed' = Failed /\ (UnderWay => UnderWay')
<1>1. Failed' = Failed
  BY FailedStays
<1>2. HasNextPage(Last)' <=> HasNextPage(Last)
  BY DEF HasNextPage, Last
<1> QED
  BY <1>1, <1>2 DEF UnderWay

LEMMA CursorKept ==
    ASSUME CursorWalk, UNCHANGED <<screen, fetching, answers, joined>>, Unseen' \subseteq Unseen
    PROVE  CursorWalk'
<1>1. \A r : Tied(r)' <=> Tied(r)
  BY WalkKept DEF Tied
<1>2. /\ \A i, j \in DOMAIN answers' : i < j => Later(DOMAIN answers[i].data, DOMAIN answers[j].data)'
      /\ \A q \in fetching' : Later(Shown, DOMAIN q.data)'
      /\ \A r : Later(Seen, {r})' <=> Later(Seen, {r})
  BY WalkKept DEF CursorWalk, Later
<1>3. \A q \in fetching' :
         /\ q.pc # "total"
         /\ q.from = 0 => answers' = <<>>
         /\ q.from # 0 => q.from \in Shown' /\ \A x \in Shown' : Millisecond(q.from)' <= Millisecond(x)'
  BY WalkKept DEF CursorWalk
<1>4. \A r \in Unseen' : Tied(r)' \/ Later(Seen, {r})'
  BY <1>1, <1>2 DEF CursorWalk
<1>5. \A a \in LastPages' : ~HasNextPage(a)' => \A r \in Unseen' : Tied(r)'
  BY <1>1, WalkKept DEF CursorWalk
<1> QED
  BY <1>2, <1>3, <1>4, <1>5 DEF CursorWalk

LEMMA ComeInWalks == ASSUME Walking, NEW r \in Rows, ComeIn(r) PROVE WalkInv'
<1>1. /\ class[r] = "none" /\ class' = [class EXCEPT ![r] = "open"]
      /\ UNCHANGED <<screen, joined, opened, view, fetching, answers, failed, acting>>
      /\ screen \in Walks /\ acting = {} /\ RowsOfWalk /\ OneByPage /\ UnderWay
  BY DEF ComeIn, Walking, WalkInv
<1>2. /\ class' \in [Rows -> {"none", "open", "closed"}]
      /\ class'[r] = "open" /\ \A x \in Rows : x # r => class'[x] = class[x]
      /\ opened[r] \notin {"open", "closed"}
  BY <1>1 DEF RowsOfWalk
<1>3. Rows' = Rows /\ Seen' = Seen /\ PagesRead' = PagesRead
  BY <1>1, WalkKept
<1>4. Open' = Open \cup {r} /\ Unseen' = Unseen /\ Left' = Left
  BY <1>1, <1>2, <1>3 DEF Open, Unseen, Left
<1>5. RowsOfWalk'
  BY <1>1, <1>2, <1>3 DEF RowsOfWalk
<1>6. ASSUME InfiniteWalk PROVE InfiniteWalk'
  <2>1. Open \cup {r} \subseteq Rows /\ IsFiniteSet(Open \cup {r}) /\ Unseen \subseteq Rows
    BY OpenRows DEF Unseen
  <2>2. PagesRead \in Nat
    BY <1>1 DEF PagesRead, OneByPage
  <2>3. Slip(Unseen, Open \cup {r}, PagesRead) \in SUBSET Slip(Unseen, Open, PagesRead)
    BY <2>1, <2>2, SlipGrown
  <2>4. Slipped' \in SUBSET Slipped /\ Slipped \subseteq Rows /\ Left \subseteq Rows
    BY <1>3, <1>4, <2>1, <2>3 DEF Slipped, Slip, Left
  <2>5. Cardinality(Slipped') <= Cardinality(Slipped)
    BY <2>4, OpenRows, FS_Subset
  <2>6. Cardinality(Slipped) \in Nat /\ Cardinality(Slipped') \in Nat /\ Cardinality(Left) \in Nat
    BY <2>4, OpenRows
  <2> QED
    BY <1>1, <1>4, <1>6, <2>5, <2>6, WalkKept DEF InfiniteWalk
<1>7. ASSUME CursorWalk PROVE CursorWalk'
  BY <1>1, <1>4, <1>7, CursorKept
<1> QED
  BY <1>1, <1>5, <1>6, <1>7, WalkKept, UnderWayKept DEF Walking, WalkInv

LEMMA LeaveWalks == ASSUME Walking, NEW r \in Rows, ChangeElsewhere(r) PROVE WalkInv'
<1>1. /\ class[r] = "open" /\ class' = [class EXCEPT ![r] = "closed"]
      /\ UNCHANGED <<screen, joined, opened, view, fetching, answers, failed, acting>>
      /\ screen \in Walks /\ acting = {} /\ RowsOfWalk /\ OneByPage /\ UnderWay
  BY DEF ChangeElsewhere, Other, Walking, WalkInv, Walks
<1>2. /\ class' \in [Rows -> {"none", "open", "closed"}]
      /\ class'[r] = "closed" /\ \A x \in Rows : x # r => class'[x] = class[x]
      /\ opened[r] # "closed"
  BY <1>1 DEF RowsOfWalk
<1>3. Rows' = Rows /\ Seen' = Seen /\ PagesRead' = PagesRead
  BY <1>1, WalkKept
<1>4. Open' = Open \ {r} /\ Unseen' = Unseen \ {r} /\ Left' = Left \cup {r} /\ r \notin Left
  BY <1>1, <1>2, <1>3 DEF Open, Unseen, Left
<1>5. RowsOfWalk'
  BY <1>1, <1>2, <1>3 DEF RowsOfWalk
<1>6. ASSUME InfiniteWalk PROVE InfiniteWalk'
  <2>1. /\ Open \in SUBSET Nat /\ IsFiniteSet(Open) /\ Unseen \in SUBSET Open /\ Unseen \subseteq Rows
        /\ Left \subseteq Rows
    BY OpenRows DEF Unseen, Left
  <2>2. PagesRead \in Nat
    BY <1>1 DEF PagesRead, OneByPage
  <2>3. Cardinality(Slip(Unseen \ {r}, Open \ {r}, PagesRead)) <= Cardinality(Slip(Unseen, Open, PagesRead)) + 1
    BY <2>1, <2>2, SlipLeave
  <2>4. Cardinality(Slipped') <= Cardinality(Slipped) + 1
    BY <1>3, <1>4, <2>3 DEF Slipped
  <2>5. Slipped \subseteq Rows /\ Slipped' \subseteq Rows
    BY <1>4, <2>1 DEF Slipped, Slip
  <2>6. /\ Cardinality(Slipped) \in Nat /\ Cardinality(Slipped') \in Nat /\ Cardinality(Left) \in Nat
        /\ Cardinality(Unseen) \in Nat /\ Cardinality(Unseen') \in Nat
        /\ Cardinality(Unseen') <= Cardinality(Unseen)
    <3>1. Unseen' \in SUBSET Unseen
      BY <1>4
    <3> QED
      BY <2>1, <2>5, <3>1, OpenRows, FS_Subset
  <2>7. Cardinality(Left') = Cardinality(Left) + 1
    BY <1>4, <2>1, OpenRows, FS_AddElement
  <2> QED
    BY <1>1, <1>6, <2>4, <2>6, <2>7, WalkKept DEF InfiniteWalk
<1>7. ASSUME CursorWalk PROVE CursorWalk'
  BY <1>1, <1>4, <1>7, CursorKept
<1> QED
  BY <1>1, <1>5, <1>6, <1>7, WalkKept, UnderWayKept DEF Walking, WalkInv

(* A walk that begins: nothing is asked but the first page.                *)
WalkStart ==
    /\ screen \in Walks
    /\ acting = {}
    /\ class \in [Rows -> {"none", "open", "closed"}]
    /\ opened = class
    /\ answers = <<>>
    /\ failed = {}
    /\ fetching = {Request(FirstView, 0, {})}

LEMMA WalkBegins == WalkStart => WalkInv
<1> SUFFICES ASSUME WalkStart PROVE WalkInv
  OBVIOUS
<1> USE DEF WalkStart
<1> DEFINE q == Request(FirstView, 0, {})
<1>1. /\ fetching = {q} /\ q.view = FirstView /\ q.from = 0 /\ q.pc = "data" /\ q.total = 0
      /\ DOMAIN q.data = {} /\ DOMAIN q = RequestFields
  BY RequestIs
<1> HIDE DEF q
<1>2. /\ Len(answers) = 0 /\ DOMAIN answers = {} /\ answers \in Seq({})
  OBVIOUS
<1>3. FirstView = WalkPage(1)
  BY DEF FirstView, WalkPage, Walks
<1>4. RowsOfWalk
  BY DEF RowsOfWalk
<1>5. OneByPage
  <2>1. ~(0 > Limit)
    BY ListsAssumption
  <2>2. Paging(q)
    BY <1>1, <2>1 DEF Paging
  <2>3. q.view = WalkPage(Len(answers) + 1)
    <3>1. Len(answers) + 1 = 1
      BY <1>2
    <3> QED
      BY <1>1, <1>3, <3>1
  <2>4. Asked(q)
    BY <1>1, <2>2, <2>3 DEF Asked
  <2> QED
    BY <1>1, <1>2, <2>4 DEF OneByPage
<1>6. Shown = {} /\ Seen = {} /\ PagesRead = 0 /\ LastPages = {} /\ Left = {}
  BY <1>1, <1>2 DEF Shown, Seen, PagesRead, LastPages, Left
<1>7. InfiniteWalk
  <2>1. Slipped = {}
    <3>1. SUFFICES ASSUME NEW x \in Unseen, Place(x, Open) < 0 * Limit PROVE FALSE
      BY <1>6 DEF Slipped, Slip
    <3>2. Place(x, Open) \in Nat
      <4>1. IsFiniteSet(Open)
        BY OpenRows
      <4> QED
        BY <4>1, PlaceType
    <3>3. 0 * Limit = 0
      BY ListsAssumption
    <3> QED
      BY <3>1, <3>2, <3>3
  <2> QED
    BY <1>6, <2>1, FS_EmptySet DEF InfiniteWalk
<1>8. CursorWalk
  BY <1>1, <1>2, <1>6 DEF CursorWalk, Later
<1>9. UnderWay
  BY DEF UnderWay, Failed
<1> QED
  BY <1>4, <1>5, <1>7, <1>8, <1>9 DEF WalkInv

LEMMA WalkBegun == ListsInit => WalkInv
<1> SUFFICES ASSUME ListsInit, screen \in Walks PROVE WalkInv
  BY DEF WalkInv
<1>1. /\ \E n \in {0} \cup Rows : class = [r \in Rows |-> IF r <= n THEN "open" ELSE "none"]
      /\ opened = class /\ acting = {} /\ answers = <<>> /\ failed = {}
      /\ fetching = {Request(FirstView, 0, {})}
  BY DEF ListsInit
<1>2. class \in [Rows -> {"none", "open", "closed"}]
  BY <1>1
<1> QED
  BY <1>1, <1>2, WalkBegins DEF WalkStart

LEMMA WalkBeginsAgain == WalkStart' => WalkInv'
  BY WalkBegins, PTL

LEMMA RefreshWalks == Walking /\ Refresh => WalkInv'
<1> SUFFICES ASSUME Walking, Refresh PROVE WalkStart'
  BY WalkBeginsAgain
<1>1. /\ screen \in Walks /\ screen' = screen /\ class' = class /\ acting' = acting
      /\ opened' = class /\ answers' = <<>> /\ failed' = {} /\ fetching' = {Request(FirstView, 0, {})}
      /\ acting = {} /\ class \in [Rows -> {"none", "open", "closed"}]
  BY DEF Refresh, Walking, WalkInv, RowsOfWalk
<1>2. Rows' = Rows /\ FirstView' = FirstView
  BY <1>1 DEF Rows, FirstView
<1> QED
  BY <1>1, <1>2 DEF WalkStart, Request

(* A request that has been answered by the database, in part or in whole.  *)
PageRead(q, d) == [q EXCEPT !.pc = "total", !.data = d]
RowsCounted(q, t) == [q EXCEPT !.pc = "done", !.total = t]
CursorRead(q, d, t) == [q EXCEPT !.pc = "done", !.data = d, !.total = t]

LEMMA BecameIs ==
    ASSUME NEW q, DOMAIN q = RequestFields, NEW data, NEW total, NEW p
    PROVE  /\ p = PageRead(q, data) =>
                 /\ DOMAIN p = RequestFields /\ p.view = q.view /\ p.from = q.from
                 /\ p.pc = "total" /\ p.data = data /\ p.total = q.total
           /\ p = RowsCounted(q, total) =>
                 /\ DOMAIN p = RequestFields /\ p.view = q.view /\ p.from = q.from
                 /\ p.pc = "done" /\ p.data = q.data /\ p.total = total
           /\ p = CursorRead(q, data, total) =>
                 /\ DOMAIN p = RequestFields /\ p.view = q.view /\ p.from = q.from
                 /\ p.pc = "done" /\ p.data = data /\ p.total = total
  BY DEF RequestFields, PageRead, RowsCounted, CursorRead

(* The one request of a walk, and what has been read before it.            *)
LEMMA OneRequest ==
    ASSUME Walking, NEW q \in fetching
    PROVE  /\ Asked(q) /\ fetching = {q}
           /\ Len(answers) \in Nat /\ DOMAIN answers = 1..Len(answers)
           /\ PagesRead = IF q.pc = "data" THEN Len(answers) ELSE Len(answers) + 1
           /\ Seen = Shown \cup DOMAIN q.data
           /\ LastPages = IF q.pc = "done" THEN {q} ELSE {}
           /\ Open \in SUBSET Nat /\ IsFiniteSet(Open) /\ Unseen \in SUBSET Open
           /\ IsFiniteSet(Unseen) /\ IsFiniteSet(Slipped)
           /\ Cardinality(Unseen) \in Nat /\ Cardinality(Slipped) \in Nat
           /\ Cardinality(Left) \in Nat
           /\ screen = "infinite" => ~Failed
<1>1. Asked(q) /\ fetching = {q} /\ \E T : answers \in Seq(T)
  BY DEF Walking, WalkInv, OneByPage, Asked
<1>2. Len(answers) \in Nat /\ DOMAIN answers = 1..Len(answers)
  BY <1>1
<1>3. PagesRead = IF q.pc = "data" THEN Len(answers) ELSE Len(answers) + 1
  BY <1>1 DEF PagesRead
<1>4. Seen = Shown \cup DOMAIN q.data
  BY <1>1 DEF Seen
<1>5. LastPages = IF q.pc = "done" THEN {q} ELSE {}
  BY <1>1 DEF LastPages
<1>6. /\ Open \in SUBSET Nat /\ IsFiniteSet(Open) /\ Unseen \in SUBSET Open
      /\ Slipped \in SUBSET Rows /\ Unseen \in SUBSET Rows /\ Left \in SUBSET Rows
  BY OpenRows DEF Unseen, Slipped, Slip, Left
<1>7. /\ IsFiniteSet(Unseen) /\ IsFiniteSet(Slipped)
      /\ Cardinality(Unseen) \in Nat /\ Cardinality(Slipped) \in Nat
      /\ Cardinality(Left) \in Nat
  BY <1>6, OpenRows
<1>8. screen = "infinite" => ~Failed
  BY DEF Walking, WalkInv, UnderWay
<1> QED
  BY <1>1, <1>2, <1>3, <1>4, <1>5, <1>6, <1>7, <1>8

(* The database answers the request: what is new is the page it has read.  *)
LEMMA OneAnswered ==
    ASSUME Walking, NEW q \in fetching, NEW p, Became(q, p),
           UNCHANGED <<screen, class, joined, opened, view, answers, failed, acting>>
    PROVE  /\ fetching' = {p} /\ Rows' = Rows /\ Open' = Open /\ Left' = Left /\ Shown' = Shown
           /\ Seen' = Shown \cup DOMAIN p.data
           /\ PagesRead' = IF p.pc = "data" THEN Len(answers) ELSE Len(answers) + 1
           /\ LastPages' = IF p.pc = "done" THEN {p} ELSE {}
           /\ RowsOfWalk'
           /\ Asked(p)' => OneByPage'
           /\ UnderWay'
<1>1. fetching = {q}
  BY OneRequest
<1>2. fetching' = {p}
  BY <1>1 DEF Became
<1>3. Rows' = Rows /\ Open' = Open /\ Left' = Left /\ Shown' = Shown
  BY DEF Rows, Open, Left, Shown
<1>4. Seen' = Shown \cup DOMAIN p.data
  BY <1>2, <1>3 DEF Seen
<1>5. PagesRead' = IF p.pc = "data" THEN Len(answers) ELSE Len(answers) + 1
  BY <1>2 DEF PagesRead
<1>6. LastPages' = IF p.pc = "done" THEN {p} ELSE {}
  BY <1>2 DEF LastPages
<1>7. RowsOfWalk'
  BY <1>3 DEF RowsOfWalk, Walking, WalkInv
<1>8. ASSUME Asked(p)' PROVE OneByPage'
  <2>1. OneByPage
    BY DEF Walking, WalkInv
  <2>2. \A a : Paging(a)' <=> Paging(a)
    BY <1>3 DEF Paging
  <2> QED
    BY <1>2, <1>8, <2>1, <2>2 DEF OneByPage
<1>9. UnderWay'
  BY <1>1, <1>2, UnderWayKept DEF Walking, WalkInv
<1> QED
  BY <1>2, <1>3, <1>4, <1>5, <1>6, <1>7, <1>8, <1>9

LEMMA ReadPageWalks == ASSUME Walking, NEW q \in fetching, ReadPage(q) PROVE WalkInv'
<1> DEFINE n == Len(answers)
           page == PageOf(Open, n + 1)
           read == Statuses(PageOf(Matching(q.view.filter), q.view.page))
<1>0. PICK p : p = PageRead(q, read)
  OBVIOUS
<1>1. /\ q.pc = "data" /\ Became(q, p) /\ screen = "infinite" /\ acting = {}
      /\ UNCHANGED <<screen, class, joined, opened, view, answers, failed, acting>>
  BY <1>0 DEF ReadPage, PageRead, Walking, WalkInv, Walks
<1>2. /\ DOMAIN q = RequestFields /\ q.view = WalkPage(n + 1) /\ n \in Nat /\ Paging(q)
      /\ DOMAIN q.data = {}
  BY <1>1, OneRequest DEF Asked
<1>3. q.view.filter = "open" /\ q.view.page = n + 1
  BY <1>2 DEF WalkPage
<1>4. DOMAIN read = page
  BY <1>3, OpenRows DEF Statuses
<1>5. /\ DOMAIN p = RequestFields /\ p.view = q.view /\ p.from = q.from
      /\ p.pc = "total" /\ DOMAIN p.data = page /\ p.total = q.total
  <2> HIDE DEF read, page
  <2> QED
    BY <1>0, <1>2, <1>4, BecameIs
<1>6. /\ fetching' = {p} /\ Rows' = Rows /\ Open' = Open /\ Left' = Left
      /\ Seen' = Shown \cup page /\ PagesRead' = n + 1 /\ LastPages' = {} /\ RowsOfWalk'
      /\ UnderWay' /\ (Asked(p)' => OneByPage')
  BY <1>1, <1>5, OneAnswered
<1>7. OneByPage'
  <2>1. page \subseteq Rows
    BY OpenRows DEF PageOf
  <2>2. Paging(p)'
    BY <1>1, <1>2, <1>5, <1>6, <2>1 DEF Paging
  <2> QED
    BY <1>1, <1>2, <1>5, <1>6, <2>2 DEF Asked
<1>8. Unseen' = Unseen \ page
  BY <1>1, <1>2, <1>6, OneRequest DEF Unseen
<1>9. PagesRead = n
  BY <1>1, OneRequest
<1>10. Slipped' \in SUBSET Slipped
  <2>1. Slip(Unseen \ page, Open, n + 1) \subseteq Slip(Unseen, Open, n)
    BY <1>2, OneRequest, SlipPage
  <2> QED
    BY <1>6, <1>8, <1>9, <2>1 DEF Slipped
<1>11. Cardinality(Slipped') <= Cardinality(Slipped) /\ Cardinality(Slipped') \in Nat
  BY <1>10, OneRequest, FS_Subset, FS_CardinalityType
<1>12. InfiniteWalk'
  <2>1. InfiniteWalk
    BY <1>1, OneRequest DEF Walking, WalkInv
  <2> QED
    BY <1>6, <1>11, <2>1, OneRequest DEF InfiniteWalk
<1> QED
  BY <1>1, <1>6, <1>7, <1>12 DEF WalkInv

LEMMA CountRowsWalks == ASSUME Walking, NEW q \in fetching, CountRows(q) PROVE WalkInv'
<1> DEFINE n == Len(answers)
           all == Cardinality(Matching(q.view.filter))
<1>0. PICK p : p = RowsCounted(q, all)
  OBVIOUS
<1>1. /\ q.pc = "total" /\ Became(q, p) /\ acting = {}
      /\ UNCHANGED <<screen, class, joined, opened, view, answers, failed, acting>>
  BY <1>0 DEF CountRows, RowsCounted, Walking, WalkInv
<1>2. /\ DOMAIN q = RequestFields /\ q.view = WalkPage(n + 1) /\ n \in Nat /\ Paging(q)
  BY <1>1, OneRequest DEF Asked
<1>3. screen = "infinite"
  BY <1>1 DEF Walking, WalkInv, CursorWalk, Walks
<1>4. q.view.filter = "open" /\ q.view.page = n + 1 /\ all = Cardinality(Open)
  BY <1>2, OpenRows DEF WalkPage
<1>5. /\ DOMAIN p = RequestFields /\ p.view = q.view /\ p.from = q.from
      /\ p.pc = "done" /\ p.data = q.data /\ p.total = all
  <2> HIDE DEF all
  <2> QED
    BY <1>0, <1>2, BecameIs
<1> HIDE DEF all
<1>6. /\ fetching' = {p} /\ Rows' = Rows /\ Open' = Open /\ Left' = Left
      /\ Seen' = Seen /\ PagesRead' = n + 1 /\ PagesRead = n + 1 /\ LastPages' = {p} /\ RowsOfWalk'
      /\ UnderWay' /\ (Asked(p)' => OneByPage')
  BY <1>1, <1>5, OneAnswered, OneRequest
<1>7. OneByPage'
  <2>1. all \in Nat
    BY <1>4, OneRequest, FS_CardinalityType
  <2>2. Paging(p)'
    BY <1>1, <1>2, <1>3, <1>5, <1>6, <2>1 DEF Paging
  <2> QED
    BY <1>1, <1>2, <1>5, <1>6, <2>2 DEF Asked
<1>8. Unseen' = Unseen /\ Slipped' = Slipped
  BY <1>1, <1>6 DEF Unseen, Slipped
<1>9. InfiniteWalk
  BY <1>3, OneRequest DEF Walking, WalkInv
<1>10. ASSUME ~HasNextPage(p)' PROVE Cardinality(Unseen) <= Cardinality(Left)
  <2>1. ~((n + 1) * Limit < all)
    BY <1>1, <1>3, <1>4, <1>5, <1>10 DEF HasNextPage
  <2>2. (n + 1) * Limit \in Nat /\ all \in Nat /\ n + 1 \in Nat
    BY <1>2, <1>4, ListsAssumption, OneRequest, FS_CardinalityType
  <2>3. Cardinality(Open) <= (n + 1) * Limit
    BY <1>4, <2>1, <2>2
  <2>4. Slipped = Unseen
    BY <1>6, <2>2, <2>3, OneRequest, SlipAll DEF Slipped
  <2> QED
    BY <1>9, <2>4 DEF InfiniteWalk
<1>11. InfiniteWalk'
  BY <1>6, <1>8, <1>9, <1>10 DEF InfiniteWalk
<1> QED
  BY <1>1, <1>3, <1>6, <1>7, <1>11 DEF WalkInv

(* The answer is kept: the walk has seen what it had seen.                 *)
LEMMA OneKept ==
    ASSUME Walking, NEW q \in fetching, Answer(q)
    PROVE  \E a :
             /\ a.view = q.view /\ a.data = q.data /\ a.total = q.total
             /\ answers' = Append(answers, a) /\ fetching' = {}
             /\ Rows' = Rows /\ Left' = Left /\ RowsOfWalk'
             /\ Seen' = Seen /\ Shown' = Seen /\ Unseen' = Unseen /\ PagesRead' = PagesRead
             /\ Slipped' = Slipped /\ LastPages' = {a} /\ OneByPage'
<1> DEFINE n == Len(answers)
<1>1. PICK a : a = [view |-> q.view, data |-> q.data, total |-> q.total, valid |-> TRUE]
  OBVIOUS
<1>2. a.view = q.view /\ a.data = q.data /\ a.total = q.total
  BY <1>1
<1>3. /\ q.pc = "done" /\ screen \in Walks /\ fetching' = fetching \ {q} /\ answers' = Received(a)
      /\ UNCHANGED <<screen, class, joined, opened, acting>> /\ OneByPage /\ RowsOfWalk
  BY <1>1 DEF Answer, Walking, WalkInv
<1>4. answers' = Append(answers, a)
  BY <1>3 DEF Received, Walks, Keyed
<1>5. fetching = {q} /\ fetching' = {} /\ n \in Nat /\ DOMAIN answers = 1..n /\ Asked(q)
  BY <1>3, OneRequest
<1>6. PICK T : answers \in Seq(T)
  BY <1>3 DEF OneByPage
<1>7. /\ answers' \in Seq(T \cup {a}) /\ DOMAIN answers' = 1..(n + 1) /\ Len(answers') = n + 1
      /\ answers'[n + 1] = a /\ \A i \in 1..n : answers'[i] = answers[i]
      /\ answers' # <<>>
  <2>1. answers \in Seq(T \cup {a})
    BY <1>6
  <2> QED
    BY <1>4, <1>5, <2>1
<1>8. Rows' = Rows /\ Left' = Left /\ Open' = Open /\ RowsOfWalk'
  <2>1. Rows' = Rows
    BY <1>3 DEF Rows
  <2> QED
    BY <1>3, <2>1 DEF Left, Open, RowsOfWalk
<1>9. Shown' = Seen
  <2>1. Shown' = Shown \cup DOMAIN a.data
    <3>1. DOMAIN answers' = DOMAIN answers \cup {n + 1}
      BY <1>5, <1>7
    <3>2. \A x : x \in Shown' <=> \E i \in DOMAIN answers' : x \in DOMAIN answers'[i].data
      BY Zenon DEF Shown
    <3>3. \A x : x \in Shown <=> \E i \in DOMAIN answers : x \in DOMAIN answers[i].data
      BY Zenon DEF Shown
    <3>4. \A x : x \in Shown' <=> x \in Shown \/ x \in DOMAIN a.data
      BY <1>5, <1>7, <3>1, <3>2, <3>3
    <3> QED
      BY <3>4
  <2> QED
    BY <1>2, <2>1, OneRequest
<1>10. Seen' = Seen
  BY <1>5, <1>9 DEF Seen
<1>11. Unseen' = Unseen
  BY <1>3, <1>8, <1>10 DEF Unseen
<1>12. PagesRead' = n + 1 /\ PagesRead = n + 1
  BY <1>3, <1>5, <1>7, OneRequest DEF PagesRead
<1>13. Slipped' = Slipped
  BY <1>8, <1>11, <1>12 DEF Slipped
<1>14. LastPages' = {a}
  BY <1>5, <1>7 DEF LastPages, Last
<1>15. OneByPage'
  <2>1. \A b : Paging(b)' <=> Paging(b)
    BY <1>3, <1>8 DEF Paging
  <2>2. a.view = WalkPage(n + 1) /\ Paging(a)
    BY <1>2, <1>5 DEF Asked, Paging
  <2>3. \A i \in 1..n : answers[i].view = WalkPage(i) /\ Paging(answers[i])
    BY <1>3, <1>5 DEF OneByPage
  <2>4. ASSUME NEW i \in 1..(n + 1) PROVE answers'[i].view = WalkPage(i) /\ Paging(answers'[i])
    <3>1. CASE i = n + 1
      BY <1>7, <2>2, <3>1
    <3>2. CASE i # n + 1
      <4>1. i \in 1..n
        BY <1>5, <3>2
      <4> QED
        BY <1>7, <2>3, <4>1
    <3> QED
      BY <3>1, <3>2
  <2> QED
    BY <1>5, <1>7, <2>1, <2>4 DEF OneByPage
<1> QED
  BY <1>2, <1>4, <1>5, <1>8, <1>9, <1>10, <1>11, <1>12, <1>13, <1>14, <1>15

LEMMA AnswerWalks == ASSUME Walking, NEW q \in fetching, Answer(q) PROVE WalkInv'
<1> DEFINE n == Len(answers)
<1>1. PICK a :
        /\ a.view = q.view /\ a.data = q.data /\ a.total = q.total
        /\ answers' = Append(answers, a) /\ fetching' = {}
        /\ Rows' = Rows /\ Left' = Left /\ RowsOfWalk'
        /\ Seen' = Seen /\ Shown' = Seen /\ Unseen' = Unseen /\ PagesRead' = PagesRead
        /\ Slipped' = Slipped /\ LastPages' = {a} /\ OneByPage'
  BY OneKept, Zenon
<1>2. /\ UNCHANGED <<screen, joined, view, acting>> /\ screen \in Walks /\ acting = {} /\ q.pc = "done"
      /\ failed' = failed \ {Key(q.view)}
  BY DEF Answer, Walking, WalkInv
<1>3. LastPages = {q} /\ n \in Nat /\ DOMAIN answers = 1..n
  BY <1>2, OneRequest
<1>4. HasNextPage(a)' <=> HasNextPage(q)
  BY <1>1, <1>2 DEF HasNextPage
<1>5. ASSUME InfiniteWalk PROVE InfiniteWalk'
  BY <1>1, <1>3, <1>4, <1>5 DEF InfiniteWalk
<1>6. ASSUME CursorWalk PROVE CursorWalk'
  <2>1. \A new, old : Later(new, old)' <=> Later(new, old)
    BY <1>2 DEF Later, Millisecond
  <2>2. \A r : Tied(r)' <=> Tied(r)
    BY <1>1, <1>2 DEF Tied, Millisecond
  <2>3. \E T : answers \in Seq(T)
    BY DEF Walking, WalkInv, OneByPage
  <2>4. /\ DOMAIN answers' = 1..(n + 1)
        /\ answers'[n + 1] = a /\ \A i \in 1..n : answers'[i] = answers[i]
    <3>1. PICK T : answers \in Seq(T)
      BY <2>3
    <3>2. answers \in Seq(T \cup {a})
      BY <3>1
    <3> QED
      BY <1>1, <1>3, <3>2
  <2>5. Later(Shown, DOMAIN q.data)
    BY <1>6 DEF CursorWalk
  <2>6. \A i \in 1..n : Later(DOMAIN answers[i].data, DOMAIN q.data)
    <3>1. \A i \in 1..n : DOMAIN answers[i].data \subseteq Shown
      BY <1>3 DEF Shown
    <3> QED
      BY <2>5, <3>1 DEF Later
  <2>7. ASSUME NEW i \in 1..(n + 1), NEW j \in 1..(n + 1), i < j
        PROVE  Later(DOMAIN answers'[i].data, DOMAIN answers'[j].data)
    <3>1. i \in 1..n
      BY <1>3, <2>7
    <3>2. CASE j = n + 1
      BY <1>1, <2>4, <2>6, <3>1, <3>2
    <3>3. CASE j # n + 1
      <4>1. j \in 1..n
        BY <1>3, <2>7, <3>3
      <4> QED
        BY <1>3, <1>6, <2>4, <2>7, <3>1, <4>1 DEF CursorWalk
    <3> QED
      BY <3>2, <3>3
  <2>8. \A r \in Unseen' : Tied(r)' \/ Later(Seen, {r})'
    BY <1>1, <1>6, <2>1, <2>2 DEF CursorWalk, Later
  <2>9. \A b \in LastPages' : ~HasNextPage(b)' => \A r \in Unseen' : Tied(r)'
    BY <1>1, <1>3, <1>4, <1>6, <2>2 DEF CursorWalk
  <2> QED
    <3>1. \A i, j \in DOMAIN answers' : i < j => Later(DOMAIN answers[i].data, DOMAIN answers[j].data)'
      BY <2>1, <2>4, <2>7 DEF Later
    <3> QED
      BY <1>1, <2>8, <2>9, <3>1 DEF CursorWalk
<1>7. ~Failed' /\ UnderWay'
  <2>1. Key(q.view) = FirstView /\ Key(view)' = FirstView
    BY <1>2 DEF Key, FirstView, Walks, Keyed
  <2>2. ~Failed'
    BY <1>2, <2>1 DEF Failed
  <2> QED
    BY <1>1, <2>2 DEF UnderWay
<1>8. screen = "infinite" => InfiniteWalk
  BY OneRequest DEF Walking, WalkInv
<1> QED
  BY <1>1, <1>2, <1>5, <1>6, <1>7, <1>8 DEF Walking, WalkInv

(* The row that the next page goes on from is of the earliest millisecond  *)
(* of all that the walk has shown.                                         *)
LEMMA GoesOn ==
    ASSUME Walking, screen = "cursor", answers # <<>>, HasNextPage(Last), NEW from,
           from = Oldest(DOMAIN Last.data)
    PROVE  from # 0 /\ from \in Shown /\ \A x \in Shown : Millisecond(from) <= Millisecond(x)
<1> DEFINE n == Len(answers)
<1>1. OneByPage /\ CursorWalk /\ answers # <<>> /\ \E T : answers \in Seq(T)
  BY DEF Walking, WalkInv, OneByPage
<1>2. n \in Nat \ {0} /\ DOMAIN answers = 1..n /\ Last = answers[n]
  BY <1>1 DEF Last
<1>3. /\ DOMAIN Last.data \subseteq Rows /\ DOMAIN Last.data # {}
      /\ \A i \in 1..n : DOMAIN answers[i].data \subseteq Rows
  <2>1. \A i \in 1..n : Paging(answers[i])
    BY <1>1, <1>2 DEF OneByPage
  <2>2. Last.total > Limit
    BY DEF HasNextPage
  <2> QED
    BY <1>2, <2>1, <2>2 DEF Paging
<1>4. PICK k \in Nat : Rows = 1..k
  BY ListsAssumption DEF Rows
<1>5. from \in DOMAIN Last.data /\ \A x \in DOMAIN Last.data : from <= x
  <2>1. DOMAIN Last.data \in SUBSET (1..k)
    BY <1>3, <1>4
  <2>2. \E r \in DOMAIN Last.data : \A x \in DOMAIN Last.data : r <= x
    BY <1>3, <1>4, <2>1, NewestAndOldest
  <2> QED
    BY <2>2 DEF Oldest
<1>6. from \in Nat /\ from # 0
  BY <1>3, <1>4, <1>5
<1>7. from \in Shown
  BY <1>2, <1>5 DEF Shown
<1>8. ASSUME NEW x \in Shown PROVE Millisecond(from) <= Millisecond(x)
  <2>1. PICK i \in 1..n : x \in DOMAIN answers[i].data
    BY <1>2 DEF Shown
  <2>2. x \in Nat
    BY <1>3, <1>4, <2>1
  <2>3. CASE i = n
    BY <1>2, <1>5, <1>6, <2>1, <2>2, <2>3, Milliseconds
  <2>4. CASE i # n
    <3>1. Later(DOMAIN answers[i].data, DOMAIN answers[n].data)
      <4>1. i \in DOMAIN answers /\ n \in DOMAIN answers /\ i < n
        <5>1. n \in Nat \ {0} /\ i \in 1..n /\ DOMAIN answers = 1..n
          BY <1>2
        <5> HIDE DEF n
        <5> QED
          BY <2>4, <5>1
      <4> QED
        BY <1>1, <4>1, Zenon DEF CursorWalk
    <3>2. Millisecond(from) < Millisecond(x)
      BY <1>2, <1>5, <2>1, <3>1 DEF Later
    <3> QED
      BY <1>6, <2>2, <3>2, Milliseconds
  <2> QED
    BY <2>3, <2>4
<1> QED
  BY <1>6, <1>7, <1>8

LEMMA FetchWalks == ASSUME Walking, FetchNextPage PROVE WalkInv'
<1> DEFINE n == Len(answers)
           on == IF screen = "cursor" THEN Oldest(DOMAIN Last.data) ELSE 0
<1>1. PICK q : q = Request([Last.view EXCEPT !.page = @ + 1], on, fetching)
  OBVIOUS
<1>2. /\ screen \in Walks /\ fetching = {} /\ fetching' = {q} /\ HasNextPage(Last)
      /\ UNCHANGED <<screen, class, joined, opened, view, answers, failed, acting>>
      /\ acting = {} /\ RowsOfWalk /\ OneByPage /\ answers # <<>>
  BY <1>1 DEF FetchNextPage, Ask, Loading, Walking, WalkInv
<1>3. /\ q.view = [Last.view EXCEPT !.page = @ + 1] /\ q.from = on /\ q.pc = "data"
      /\ q.total = 0 /\ DOMAIN q.data = {} /\ DOMAIN q = RequestFields
  <2> HIDE DEF on
  <2> QED
    BY <1>1, RequestIs
<1>4. n \in Nat \ {0} /\ DOMAIN answers = 1..n /\ Last = answers[n]
  BY <1>2 DEF OneByPage, Last
<1>5. q.view = WalkPage(n + 1)
  <2>1. Last.view = WalkPage(n)
    BY <1>2, <1>4 DEF OneByPage
  <2> QED
    BY <1>3, <2>1 DEF WalkPage
<1>6. /\ Rows' = Rows /\ Open' = Open /\ Left' = Left /\ Shown' = Shown /\ Seen' = Shown
      /\ Seen = Shown /\ PagesRead' = n /\ PagesRead = n /\ LastPages' = {}
  <2>1. Rows' = Rows /\ Shown' = Shown
    BY <1>2 DEF Rows, Shown
  <2>2. Open' = Open /\ Left' = Left
    BY <1>2, <2>1 DEF Open, Left
  <2>3. Seen = Shown /\ Seen' = Shown
    BY <1>2, <1>3, <2>1 DEF Seen
  <2>4. PagesRead' = n /\ PagesRead = n
    BY <1>2, <1>3 DEF PagesRead
  <2>5. LastPages' = {}
    BY <1>2, <1>3 DEF LastPages
  <2> QED
    BY <2>1, <2>2, <2>3, <2>4, <2>5
<1>7. Unseen' = Unseen /\ Slipped' = Slipped
  BY <1>2, <1>6 DEF Unseen, Slipped
<1>8. RowsOfWalk'
  BY <1>2, <1>6 DEF RowsOfWalk
<1>9. OneByPage'
  <2>1. \A a : Paging(a)' <=> Paging(a)
    BY <1>2, <1>6 DEF Paging
  <2>2. Paging(q)
    BY <1>3, ListsAssumption DEF Paging
  <2>3. Asked(q)'
    BY <1>2, <1>3, <1>5, <2>1, <2>2 DEF Asked
  <2> QED
    BY <1>2, <2>1, <2>3 DEF OneByPage
<1>10. ASSUME InfiniteWalk PROVE InfiniteWalk'
  BY <1>6, <1>7, <1>10 DEF InfiniteWalk
<1>11. ASSUME screen = "cursor" PROVE CursorWalk'
  <2>1. CursorWalk
    BY <1>11 DEF Walking, WalkInv
  <2>2. \A new, old : Later(new, old)' <=> Later(new, old)
    BY <1>2 DEF Later, Millisecond
  <2>3. \A r : Tied(r)' <=> Tied(r)
    BY <1>2, <1>6 DEF Tied, Millisecond
  <2>4. \A i, j \in DOMAIN answers' : i < j => Later(DOMAIN answers[i].data, DOMAIN answers[j].data)'
    BY <1>2, <2>1, <2>2 DEF CursorWalk, Later
  <2>5. q.from # 0 /\ q.from \in Shown' /\ \A x \in Shown' : Millisecond(q.from)' <= Millisecond(x)'
    <3>1. q.from # 0 /\ q.from \in Shown /\ \A x \in Shown : Millisecond(q.from) <= Millisecond(x)
      BY <1>2, <1>3, <1>11, GoesOn
    <3>2. \A r : Millisecond(r)' = Millisecond(r)
      BY <1>2 DEF Millisecond
    <3> QED
      BY <1>6, <3>1, <3>2
  <2>6. Later(Shown, DOMAIN q.data)'
    BY <1>3 DEF Later
  <2>7. \A r \in Unseen' : Tied(r)' \/ Later(Seen, {r})'
    BY <1>6, <1>7, <2>1, <2>2, <2>3 DEF CursorWalk, Later
  <2> QED
    BY <1>2, <1>3, <1>6, <2>4, <2>5, <2>6, <2>7 DEF CursorWalk
<1>12. Failed' = Failed /\ (screen = "infinite" => ~Failed) /\ UnderWay'
  <2>1. Failed' = Failed /\ (screen = "infinite" => ~Failed)
    BY <1>2, FailedStays DEF FetchNextPage
  <2>2. HasNextPage(Last)'
    BY <1>2 DEF HasNextPage, Last
  <2> QED
    BY <1>2, <2>1, <2>2 DEF UnderWay
<1> QED
  BY <1>2, <1>8, <1>9, <1>10, <1>11, <1>12 DEF Walking, WalkInv

(* What a cursor finds: nothing of the milliseconds it has come through,   *)
(* and of what was not seen yet all but the rows of such a millisecond.    *)
LEMMA CursorFinds ==
    ASSUME Walking, screen = "cursor", NEW q \in fetching, q.pc = "data"
    PROVE  /\ AfterCursor(q.from) \subseteq Open
           /\ Later(Shown, AfterCursor(q.from))
           /\ \A r \in Unseen : Tied(r) \/ r \in AfterCursor(q.from)
<1>1. AfterCursor(q.from) = {r \in Open : q.from = 0 \/ Millisecond(r) < Millisecond(q.from)}
  BY OpenRows DEF AfterCursor
<1>2. /\ CursorWalk /\ DOMAIN answers = 1..Len(answers) /\ Unseen \subseteq Open
      /\ Seen = Shown
  <2>1. DOMAIN q.data = {}
    BY OneRequest DEF Asked
  <2> QED
    BY <2>1, OneRequest DEF Walking, WalkInv
<1>3. CASE q.from = 0
  <2>1. answers = <<>>
    BY <1>2, <1>3, Zenon DEF CursorWalk
  <2>2. Shown = {}
    BY <2>1 DEF Shown
  <2> QED
    BY <1>1, <1>2, <1>3, <2>2 DEF Later
<1>4. CASE q.from # 0
  <2>1. q.from \in Shown /\ \A x \in Shown : Millisecond(q.from) <= Millisecond(x)
    BY <1>2, <1>4 DEF CursorWalk
  <2>2. Shown \subseteq Rows /\ Rows \subseteq Nat /\ Open \subseteq Rows
    <3>1. \A i \in DOMAIN answers : DOMAIN answers[i].data \subseteq Rows
      BY DEF Walking, WalkInv, OneByPage, Paging
    <3> QED
      BY <3>1, OpenRows DEF Shown
  <2>3. \A x \in Rows : Millisecond(x) \in Nat
    BY <2>2, Milliseconds
  <2>4. Later(Shown, AfterCursor(q.from))
    <3>1. SUFFICES ASSUME NEW x \in Shown, NEW y \in Open, Millisecond(y) < Millisecond(q.from)
                   PROVE  Millisecond(y) < Millisecond(x)
      BY <1>1, <1>4 DEF Later
    <3>2. Millisecond(q.from) <= Millisecond(x)
      BY <2>1, <3>1
    <3>3. Millisecond(q.from) \in Nat /\ Millisecond(x) \in Nat /\ Millisecond(y) \in Nat
      BY <2>1, <2>2, <2>3, <3>1
    <3> QED
      BY <3>1, <3>2, <3>3
  <2>5. ASSUME NEW r \in Unseen, ~Tied(r) PROVE r \in AfterCursor(q.from)
    <3>1. Later(Shown, {r})
      BY <1>2, <2>5 DEF CursorWalk
    <3> QED
      BY <1>1, <1>2, <2>1, <3>1 DEF Later
  <2> QED
    BY <1>1, <2>4, <2>5
<1> QED
  BY <1>3, <1>4

LEMMA CursorPaginateWalks == ASSUME Walking, NEW q \in fetching, CursorPaginate(q) PROVE WalkInv'
<1> DEFINE n == Len(answers)
           found == AfterCursor(q.from)
           taken == PageOf(found, 1)
           size == Cardinality(taken) + IF taken = found THEN 0 ELSE 1
<1>1. PICK p : p = CursorRead(q, Statuses(taken), size)
  OBVIOUS
<1>2. /\ q.pc = "data" /\ screen = "cursor" /\ Became(q, p) /\ acting = {}
      /\ UNCHANGED <<screen, class, joined, opened, view, answers, failed, acting>> /\ CursorWalk
  BY <1>1 DEF CursorPaginate, CursorRead, Walking, WalkInv
<1>3. /\ DOMAIN q = RequestFields /\ q.view = WalkPage(n + 1) /\ n \in Nat /\ Paging(q)
      /\ DOMAIN q.data = {} /\ Unseen \subseteq Open
  BY <1>2, OneRequest DEF Asked
<1>4. DOMAIN Statuses(taken) = taken
  BY DEF Statuses
<1>5. /\ DOMAIN p = RequestFields /\ p.view = q.view /\ p.from = q.from
      /\ p.pc = "done" /\ DOMAIN p.data = taken /\ p.total = size
  <2> HIDE DEF taken, size
  <2> QED
    BY <1>1, <1>3, <1>4, BecameIs
<1>6. /\ found \subseteq Open /\ Later(Shown, found)
      /\ \A r \in Unseen : Tied(r) \/ r \in found
  BY <1>2, CursorFinds
<1>7. /\ \A x \in taken, y \in found \ taken : y < x
      /\ taken # found => Cardinality(taken) >= Limit
  <2>1. PICK k \in Nat : Rows = 1..k
    BY ListsAssumption DEF Rows
  <2>2. found \in SUBSET (1..k)
    BY <1>6, <2>1, OpenRows
  <2> HIDE DEF found
  <2> QED
    BY <2>1, <2>2, FirstPage
<1>8. taken \subseteq found /\ taken \subseteq Rows /\ Cardinality(taken) \in Nat
  <2>1. taken \subseteq found
    BY DEF PageOf
  <2>2. taken \in SUBSET Rows
    BY <1>6, <2>1, OpenRows
  <2> HIDE DEF taken
  <2> QED
    BY <2>1, <2>2, OpenRows
<1>9. Limit \in Nat \ {0}
  BY ListsAssumption
<1>10. size \in Nat /\ (size > Limit => taken # {}) /\ (~(size > Limit) => taken = found)
  <2>1. taken = {} => Cardinality(taken) = 0
    BY FS_EmptySet
  <2> HIDE DEF taken, found
  <2> QED
    BY <1>7, <1>8, <1>9, <2>1
<1>11. \A x \in Rows : x \in Nat /\ Millisecond(x) \in Nat
  BY OpenRows, Milliseconds
<1>12. found \subseteq Rows
  BY <1>6, OpenRows
<1> HIDE DEF taken, found, size
<1>13. /\ fetching' = {p} /\ Rows' = Rows /\ Open' = Open /\ Left' = Left /\ Shown' = Shown
       /\ Seen' = Shown \cup taken /\ Seen = Shown /\ LastPages' = {p} /\ RowsOfWalk'
       /\ UnderWay' /\ (Asked(p)' => OneByPage')
  BY <1>2, <1>3, <1>5, OneAnswered, OneRequest
<1>14. OneByPage'
  <2>1. Paging(p)'
    BY <1>2, <1>5, <1>8, <1>10, <1>13 DEF Paging
  <2> QED
    BY <1>2, <1>3, <1>5, <1>13, <2>1 DEF Asked
<1>15. Unseen' = Unseen \ taken
  BY <1>2, <1>13 DEF Unseen
<1>16. \A r : Millisecond(r)' = Millisecond(r)
  BY <1>2 DEF Millisecond
<1>17. \A new, old : Later(new, old)' <=> Later(new, old)
  BY <1>16 DEF Later
<1>18. \A r : Tied(r)' <=> \E x \in Shown \cup taken : x > r /\ Millisecond(x) = Millisecond(r)
  BY <1>13, <1>16 DEF Tied
<1>19. \A r : Tied(r) => Tied(r)'
  BY <1>13, <1>18 DEF Tied
<1>20. ASSUME NEW r \in Unseen', ~Tied(r)' PROVE r \in found \ taken /\ Later(Shown \cup taken, {r})
  <2>1. r \in found \ taken
    BY <1>6, <1>15, <1>19, <1>20
  <2>2. ASSUME NEW x \in taken PROVE Millisecond(r) < Millisecond(x)
    <3>1. r < x /\ x \in Nat /\ r \in Nat /\ Millisecond(r) \in Nat /\ Millisecond(x) \in Nat
      BY <1>7, <1>8, <1>11, <1>12, <2>1
    <3>2. Millisecond(r) <= Millisecond(x)
      BY <3>1, Milliseconds
    <3>3. Millisecond(r) # Millisecond(x)
      BY <1>18, <1>20, <3>1
    <3> QED
      BY <3>1, <3>2, <3>3
  <2>3. \A x \in Shown : Millisecond(r) < Millisecond(x)
    BY <1>6, <2>1 DEF Later
  <2> QED
    BY <2>1, <2>2, <2>3 DEF Later
<1>21. CursorWalk'
  <2>1. \A i, j \in DOMAIN answers' : i < j => Later(DOMAIN answers[i].data, DOMAIN answers[j].data)'
    BY <1>2, <1>17 DEF CursorWalk, Later
  <2>2. /\ p.from = 0 => answers' = <<>>
        /\ p.from # 0 => p.from \in Shown' /\ \A x \in Shown' : Millisecond(p.from)' <= Millisecond(x)'
    BY <1>2, <1>5, <1>13, <1>16 DEF CursorWalk
  <2>3. Later(Shown, DOMAIN p.data)'
    <3>1. Later(Shown, taken)
      BY <1>6, <1>8 DEF Later
    <3> QED
      BY <1>5, <1>13, <1>16, <3>1 DEF Later
  <2>4. \A r \in Unseen' : Tied(r)' \/ Later(Seen, {r})'
    BY <1>13, <1>16, <1>20 DEF Later
  <2>5. ~HasNextPage(p)' => \A r \in Unseen' : Tied(r)'
    <3>1. HasNextPage(p)' <=> size > Limit
      BY <1>2, <1>5 DEF HasNextPage
    <3> QED
      BY <1>10, <1>20, <3>1
  <2> QED
    BY <1>5, <1>13, <2>1, <2>2, <2>3, <2>4, <2>5 DEF CursorWalk
<1> QED
  BY <1>2, <1>13, <1>14, <1>21 DEF WalkInv

(* A page that does not come: the infinite list ends there, the caller by  *)
(* cursor has not seen its rows and may ask for it again.                  *)
LEMMA FailureWalks == ASSUME Walking, NEW q \in fetching, LoadFails(q) PROVE WalkInv'
<1>1. /\ fetching' = {} /\ failed' = failed \cup {Key(q.view)}
      /\ UNCHANGED <<screen, class, joined, opened, view, answers, acting>>
      /\ screen \in Walks /\ acting = {} /\ RowsOfWalk /\ OneByPage
  BY OneRequest DEF LoadFails, Walking, WalkInv
<1>2. Rows' = Rows /\ Open' = Open /\ Shown' = Shown /\ Seen' = Shown
  BY <1>1 DEF Rows, Open, Shown, Seen
<1>3. RowsOfWalk'
  BY <1>1, <1>2 DEF RowsOfWalk
<1>4. OneByPage'
  <2>1. \A a : Paging(a)' <=> Paging(a)
    BY <1>1, <1>2 DEF Paging
  <2> QED
    BY <1>1, <2>1 DEF OneByPage
<1>5. Failed' /\ UnderWay' /\ (answers # <<>> => HasNextPage(Last)')
  <2>1. Key(q.view) = FirstView /\ Key(view)' = FirstView
    BY <1>1 DEF Key, FirstView, Walks, Keyed
  <2>2. Failed'
    BY <1>1, <2>1 DEF Failed
  <2>3. answers # <<>> => HasNextPage(Last)'
    BY <1>1 DEF Walking, WalkInv, UnderWay, HasNextPage, Last
  <2> QED
    BY <1>1, <2>2, <2>3 DEF UnderWay
<1>6. ASSUME screen = "cursor" PROVE CursorWalk'
  <2>1. CursorWalk /\ Later(Shown, DOMAIN q.data) /\ Seen = Shown \cup DOMAIN q.data
    BY <1>6, OneRequest DEF Walking, WalkInv, CursorWalk
  <2>2. \A r : Millisecond(r)' = Millisecond(r)
    BY <1>1 DEF Millisecond
  <2>3. ASSUME NEW r \in Unseen' PROVE Tied(r)' \/ Later(Seen, {r})'
    <3>1. CASE r \in DOMAIN q.data
      BY <1>2, <2>1, <2>2, <3>1 DEF Later
    <3>2. CASE r \notin DOMAIN q.data
      <4>1. r \in Unseen
        BY <1>1, <1>2, <2>1, <2>3, <3>2 DEF Unseen
      <4>2. CASE Later(Seen, {r})
        BY <1>2, <2>1, <2>2, <4>2 DEF Later
      <4>3. CASE Tied(r)
        <5>1. PICK x \in Seen : x > r /\ Millisecond(x) = Millisecond(r)
          BY <4>3 DEF Tied
        <5>2. CASE x \in Shown
          BY <1>2, <2>2, <5>1, <5>2 DEF Tied
        <5>3. CASE x \in DOMAIN q.data
          BY <1>2, <2>1, <2>2, <5>1, <5>3 DEF Later
        <5> QED
          BY <2>1, <5>1, <5>2, <5>3
      <4> QED
        BY <2>1, <4>1, <4>2, <4>3 DEF CursorWalk
    <3> QED
      BY <3>1, <3>2
  <2>4. \A i, j \in DOMAIN answers' : i < j => Later(DOMAIN answers[i].data, DOMAIN answers[j].data)'
    BY <1>1, <2>1, <2>2 DEF CursorWalk, Later
  <2>5. \A a \in LastPages' : HasNextPage(a)'
    BY <1>1, <1>5 DEF LastPages, Last
  <2> QED
    BY <1>1, <2>3, <2>4, <2>5 DEF CursorWalk
<1> QED
  BY <1>1, <1>3, <1>4, <1>5, <1>6 DEF WalkInv

LEMMA WalkStep == WalkInv /\ [ListsNext]_listsVars => WalkInv'
<1> SUFFICES ASSUME WalkInv, [ListsNext]_listsVars, screen' \in Walks PROVE WalkInv'
  BY DEF WalkInv
<1>1. screen \in Walks /\ Walking
  BY DEF Walking, ListsNext, listsVars, ReadPage, CountRows, CursorPaginate, Answer,
         LoadFails, Click, FetchNextPage, HandleToggleActive, Resolve, ComeIn, ChangeElsewhere, Change, Refuse, Refresh
<1>2. acting = {} /\ screen \notin {"users", "disputes"} /\ Views = {}
  BY <1>1 DEF WalkInv, Walks, Views
<1>3. CASE UNCHANGED listsVars
  <2>1. UNCHANGED <<screen, class, joined, opened, view, fetching, answers, failed, acting>>
    BY <1>3 DEF listsVars
  <2>2. Open' = Open /\ Unseen' = Unseen /\ Left' = Left /\ RowsOfWalk' = RowsOfWalk
    BY <2>1, WalkKept DEF Open, Unseen, Left, RowsOfWalk
  <2>3. InfiniteWalk => InfiniteWalk'
    BY <2>1, <2>2, WalkKept DEF InfiniteWalk, Slipped
  <2>4. CursorWalk => CursorWalk'
    BY <2>1, <2>2, CursorKept
  <2> QED
    BY <1>1, <2>1, <2>2, <2>3, <2>4, WalkKept, UnderWayKept DEF WalkInv
<1>4. ASSUME NEW q \in fetching,
             \/ ReadPage(q) \/ CountRows(q) \/ CursorPaginate(q) \/ Answer(q) \/ LoadFails(q)
      PROVE  WalkInv'
  BY <1>1, <1>4, ReadPageWalks, CountRowsWalks, CursorPaginateWalks, AnswerWalks, FailureWalks
<1>5. CASE Click
  BY <1>2, <1>5 DEF Click
<1>6. CASE FetchNextPage
  BY <1>1, <1>6, FetchWalks
<1>7. ASSUME NEW r \in Rows, HandleToggleActive(r) \/ Resolve(r) \/ ComeIn(r) \/ ChangeElsewhere(r)
      PROVE  WalkInv'
  BY <1>1, <1>2, <1>7, ComeInWalks, LeaveWalks DEF HandleToggleActive, Resolve
<1>8. ASSUME NEW own \in acting PROVE WalkInv'
  BY <1>2, <1>8
<1>9. CASE Refresh
  BY <1>1, <1>9, RefreshWalks
<1> QED
  BY <1>3, <1>4, <1>5, <1>6, <1>7, <1>8, <1>9 DEF ListsNext

LEMMA WalkShows == WalkInv => WalksShowAll
<1> SUFFICES ASSUME WalkInv PROVE WalksShowAll
  OBVIOUS
<1>1. ASSUME screen \in Walks, Ended PROVE Unseen = Missed /\ Seen = Shown /\ LastPages = {Last}
  <2>1. fetching = {} /\ answers # <<>>
    BY <1>1 DEF Ended
  <2>2. Seen = Shown /\ LastPages = {Last}
    BY <2>1 DEF Seen, LastPages
  <2> QED
    BY <2>2 DEF Unseen, Missed, Open
<1>2. ASSUME screen = "infinite", Ended PROVE Cardinality(Missed) <= Cardinality(Left)
  <2>1. ~Failed
    BY <1>2 DEF WalkInv, Walks, UnderWay, Ended
  <2> QED
    BY <1>1, <1>2, <2>1 DEF WalkInv, Walks, InfiniteWalk, Ended
<1>3. ASSUME screen = "cursor", NEW i \in DOMAIN answers, NEW j \in DOMAIN answers, i # j
      PROVE  DOMAIN answers[i].data \cap DOMAIN answers[j].data = {}
  <2>1. CursorWalk /\ OneByPage
    BY <1>3 DEF WalkInv, Walks
  <2>2. DOMAIN answers = 1..Len(answers) /\ Len(answers) \in Nat
    BY <2>1 DEF OneByPage
  <2>3. i < j \/ j < i
    BY <1>3, <2>2
  <2>4. \/ Later(DOMAIN answers[i].data, DOMAIN answers[j].data)
        \/ Later(DOMAIN answers[j].data, DOMAIN answers[i].data)
    BY <2>1, <2>3 DEF CursorWalk
  <2>5. DOMAIN answers[i].data \subseteq Rows
    BY <2>1 DEF OneByPage, Paging
  <2>6. \A x \in Rows : Millisecond(x) \in Nat
    BY OpenRows, Milliseconds
  <2>7. \A x \in Rows : ~(Millisecond(x) < Millisecond(x))
    BY <2>6
  <2> QED
    BY <2>4, <2>5, <2>7 DEF Later
<1>4. ASSUME screen = "cursor", Ended, NEW r \in Missed
      PROVE  \E x \in Shown : x > r /\ Millisecond(x) = Millisecond(r)
  BY <1>1, <1>4 DEF WalkInv, Walks, CursorWalk, Ended, Tied
<1> QED
  BY <1>2, <1>3, <1>4 DEF WalksShowAll

(* A walk to the end of a list, page by page or by cursor, misses no more  *)
(* rows than have left it, or only those tied with a newer row, and by     *)
(* cursor shows none twice: for any number of rows and rows to a page.     *)
THEOREM WalksAlwaysShowAll == RecordsSpec => []WalksShowAll
<1>1. ListsSpec => []WalkInv
  BY WalkBegun, WalkStep, PTL DEF ListsSpec
<1> QED
  BY ListsBeside, <1>1, WalkShows, PTL

-----------------------------------------------------------------------------
(* The reports.  What a report has counted of a set that only grows, the   *)
(* accounts, the shipments asked about, those completed now or taken back  *)
(* since, is at most what the set has when a later query counts its parts. *)
QueryNames ==
    {"total", "active", "roles", "shipments", "disputes", "statuses", "revenue", "days"}

QueriesOf(kind) == IF kind = "stats" THEN S!StatsQueries ELSE S!AnalyticsQueries

StatisticsTyped ==
    /\ account \in [Admins -> {"none", "shipper", "carrier"}]
    /\ status \in [Shipments -> DOMAIN S!Promise!Successors]

ReportTyped ==
    report \in [kind : {"none", "stats", "analytics"}, outside : SUBSET Shipments,
                queries : Seq(QueryNames), found : {report.found},
                old : SUBSET Shipments, undone : SUBSET Shipments]

InBounds == S!Of(S!Created)
Completed == S!Of(S!In("Completed"))
Ever == Completed \cup report.undone

(* The queries are made in order, and what they have found is kept.        *)
InOrder ==
    LET all == QueriesOf(report.kind)
        left == Len(report.queries)
    IN  /\ report.queries \in Seq(QueryNames) /\ left <= Len(all)
        /\ \A i \in 1..left : report.queries[i] = all[Len(all) - left + i]
        /\ DOMAIN report.found = {all[i] : i \in 1..(Len(all) - left)}

NoMoreThan(n, T) == n \in Nat /\ n <= Cardinality(T)

RevenueFits(found) ==
    /\ "statuses" \in DOMAIN found /\ "revenue" \notin DOMAIN found =>
         NoMoreThan(found["statuses"]["Completed"], Ever)
    /\ "revenue" \in DOMAIN found =>
         found["statuses"]["Completed"] <= found["revenue"] + Cardinality(report.undone)

StatsFit(found) ==
    /\ "total" \in DOMAIN found => NoMoreThan(found["total"], S!Registered)
    /\ "roles" \in DOMAIN found => found["total"] <= S!Total(found["roles"])
    /\ "shipments" \in DOMAIN found => NoMoreThan(found["shipments"], InBounds)
    /\ "statuses" \in DOMAIN found => found["shipments"] <= S!Total(found["statuses"])

AnalyticsFit(found) ==
    /\ "statuses" \in DOMAIN found => NoMoreThan(S!Total(found["statuses"]), InBounds)
    /\ "days" \in DOMAIN found =>
         S!Total(found["statuses"]) <= found["days"] + Cardinality(report.old)

ReportInv ==
    /\ StatisticsTyped
    /\ ReportTyped
    /\ report.kind = "none" => report.queries = <<>> /\ report.found = <<>>
    /\ report.kind # "none" => InOrder
    /\ RevenueFits(report.found)
    /\ report.kind = "stats" => StatsFit(report.found)
    /\ report.kind = "analytics" => AnalyticsFit(report.found)

(* The folds of the model are the sums of SumTheorems. *)
LEMMA TotalIs == ASSUME NEW f PROVE S!Total(f) = SumOf(f, DOMAIN f)
  BY SumOfDef, Zenon
     DEF S!Total, S!FoldFunction, S!FoldFunctionOnSet, S!MapThenFoldSet, IsSum, Pick

LEMMA CountedAs == ASSUME NEW T PROVE S!Cardinality(T) = Cardinality(T)
  BY Zenon DEF S!Cardinality, Cardinality

(* The roles make up the accounts, and the statuses the shipments. *)
LEMMA RolesAddUp ==
    ASSUME StatisticsTyped, NEW old
    PROVE  S!Total(S!Counted("roles", old)) = Cardinality(S!Registered)
<1> DEFINE K == S!Roles
           counts == [r \in K |-> Cardinality({u \in S!Registered : account[u] = r})]
           share == [r \in K |-> {u \in S!Registered : account[u] = r}]
           f == [u \in S!Registered |-> account[u]]
<1>1. S!Counted("roles", old) = counts
  BY CountedAs DEF S!Counted
<1>2. IsFiniteSet(S!Registered)
  BY NamesAssumption, FS_Subset DEF S!Registered
<1>3. IsFiniteSet(K)
  <2>1. IsFiniteSet({"shipper"} \cup {"carrier"})
    BY FS_Singleton, FS_Union
  <2> QED
    BY <2>1 DEF S!Roles
<1>4. \A u \in S!Registered : f[u] \in K
  BY DEF StatisticsTyped, S!Registered, S!Roles
<1>5. \A r \in K : counts[r] = Cardinality(share[r])
  OBVIOUS
<1>9. \A r \in K : \A u : u \in share[r] <=> u \in S!Registered /\ f[u] = r
  OBVIOUS
<1>6. S!Total(counts) = SumOf(counts, K)
  BY TotalIs
<1>7. SumOf(counts, K) = Cardinality(S!Registered)
  <2> HIDE DEF counts, share, f, K
  <2> QED
    BY ONLY <1>2, <1>3, <1>4, <1>5, <1>9, SumOfClasses
<1> QED
  BY <1>1, <1>6, <1>7

(* A shipment has one of finitely many statuses. *)
LEMMA StatusesFinite ==
    IsFiniteSet(S!Statuses) /\ "Completed" \in S!Statuses /\ "Unposted" \notin S!Statuses
<1>1. S!Statuses = {"Created", "Accepted", "InTransit", "Delivered", "Disputed", "Completed",
                    "Cancelled"}
  BY DEF S!Statuses, S!Promise!Successors
<1>2. IsFiniteSet({"Created", "Accepted", "InTransit", "Delivered", "Disputed", "Completed",
                    "Cancelled"})
  <2>1. IsFiniteSet({"Created"} \cup {"Accepted"} \cup {"InTransit"} \cup {"Delivered"}
                    \cup {"Disputed"} \cup {"Completed"} \cup {"Cancelled"})
    BY FS_Singleton, FS_Union
  <2> QED
    BY <2>1
<1> QED
  BY <1>1, <1>2

LEMMA StatusesAddUp ==
    ASSUME StatisticsTyped, NEW old
    PROVE  /\ S!Total(S!Counted("statuses", old)) = Cardinality(InBounds)
           /\ S!Counted("statuses", old)["Completed"] = Cardinality(Completed)
<1> DEFINE K == S!Statuses
           counts == [st \in K |-> Cardinality(S!Of(S!In(st)))]
           share == [st \in K |-> S!Of(S!In(st))]
           f == [s \in InBounds |-> status[s]]
<1>1. S!Counted("statuses", old) = counts
  BY CountedAs DEF S!Counted
<1>2. IsFiniteSet(InBounds)
  BY NamesAssumption, FS_Subset DEF InBounds, S!Of, S!Created
<1>3. IsFiniteSet(K) /\ "Completed" \in K
  BY StatusesFinite
<1>4. \A s \in InBounds : f[s] \in K
  BY DEF StatisticsTyped, InBounds, S!Of, S!Created, S!Statuses, S!In
<1>5. \A st \in K : counts[st] = Cardinality(share[st])
  OBVIOUS
<1>9. \A st \in K : \A s : s \in share[st] <=> s \in InBounds /\ f[s] = st
  BY StatusesFinite DEF InBounds, S!Of, S!Created, S!In
<1>6. S!Total(counts) = SumOf(counts, K)
  BY TotalIs
<1>7. counts["Completed"] = Cardinality(Completed)
  BY <1>3 DEF Completed
<1>8. SumOf(counts, K) = Cardinality(InBounds)
  <2> HIDE DEF counts, share, f, K
  <2> QED
    BY ONLY <1>2, <1>3, <1>4, <1>5, <1>9, SumOfClasses
<1> QED
  BY <1>1, <1>6, <1>7, <1>8

(* When no report is made, none can be wrong. *)
LEMMA NothingFound ==
    ASSUME report = S!NoReport
    PROVE  /\ ReportTyped /\ report.kind = "none"
           /\ report.queries = <<>> /\ report.found = <<>>
           /\ RevenueFits(report.found)
<1>1. report = [kind |-> "none", outside |-> {}, queries |-> <<>>, found |-> <<>>, old |-> {},
                undone |-> {}]
  BY DEF S!NoReport
<1>2. DOMAIN <<>> = {}
  OBVIOUS
<1> QED
  BY <1>1, <1>2 DEF ReportTyped, RevenueFits

LEMMA ReportInit == S!StatisticsInit => ReportInv
<1> SUFFICES ASSUME S!StatisticsInit PROVE ReportInv
  OBVIOUS
<1>1. StatisticsTyped
  BY DEF S!StatisticsInit, StatisticsTyped, S!Promise!Successors
<1>2. report = S!NoReport
  BY DEF S!StatisticsInit
<1> QED
  BY <1>1, <1>2, NothingFound DEF ReportInv

(* What a handler writes is a status of a shipment that is there.           *)
LEMMA HandlersWrite ==
    ASSUME NEW st, NEW new \in S!Follows(st)
    PROVE  new \in DOMAIN S!Promise!Successors /\ new # "Unposted"
  BY DEF S!Follows, S!Statuses, S!Promise!Successors

(* While a report is made: accounts and shipments are not deleted, and the *)
(* report keeps those that are taken out of Completed.                     *)
LEMMA Meanwhile ==
    ASSUME StatisticsTyped, ReportTyped,
           \/ UNCHANGED <<account, status, report>>
           \/ \E u \in Admins : S!ChangeAccount(u)
           \/ \E s \in Shipments : S!ChangeShipment(s)
    PROVE  /\ StatisticsTyped' /\ ReportTyped'
           /\ report'.kind = report.kind /\ report'.outside = report.outside
           /\ report'.queries = report.queries /\ report'.found = report.found
           /\ report'.old = report.old
           /\ S!Registered \subseteq (S!Registered)'
           /\ InBounds \subseteq InBounds'
           /\ S!Awaited("revenue") => Ever \subseteq Ever'
           /\ ~S!Awaited("revenue") => report'.undone = report.undone
<1>1. CASE UNCHANGED <<account, status, report>>
  BY <1>1 DEF StatisticsTyped, ReportTyped, S!Registered, InBounds, S!Of, S!Created, S!In, Ever, Completed
<1>2. ASSUME NEW u \in Admins, S!ChangeAccount(u)
      PROVE  /\ StatisticsTyped' /\ UNCHANGED <<status, report>>
             /\ S!Registered \subseteq (S!Registered)'
  <2>1. PICK a \in S!Roles : account' = [account EXCEPT ![u] = a]
    BY <1>2 DEF S!ChangeAccount
  <2>2. UNCHANGED <<status, report>>
    BY <1>2 DEF S!ChangeAccount
  <2> QED
    BY <2>1, <2>2 DEF StatisticsTyped, S!Registered, S!Roles
<1>3. ASSUME NEW s \in Shipments, S!ChangeShipment(s)
      PROVE  /\ StatisticsTyped' /\ ReportTyped' /\ account' = account
             /\ report'.kind = report.kind /\ report'.outside = report.outside
             /\ report'.queries = report.queries /\ report'.found = report.found
             /\ report'.old = report.old
             /\ InBounds \subseteq InBounds'
             /\ S!Awaited("revenue") => Ever \subseteq Ever'
             /\ ~S!Awaited("revenue") => report'.undone = report.undone
  <2>1. PICK st \in S!Follows(status[s]) : status' = [status EXCEPT ![s] = st]
    BY <1>3 DEF S!ChangeShipment
  <2>2. st \in DOMAIN S!Promise!Successors /\ st # "Unposted"
    BY HandlersWrite
  <2>3. PICK new \in DOMAIN S!Promise!Successors :
          new # "Unposted" /\ status' = [status EXCEPT ![s] = new]
    BY <2>1, <2>2
  <2>4. account' = account /\ StatisticsTyped'
    BY <1>3, <2>3 DEF S!ChangeShipment, StatisticsTyped
  <2>5. report' = IF status[s] = "Completed" /\ S!Awaited("revenue")
                  THEN [report EXCEPT !.undone = @ \cup S!Of({s})] ELSE report
    BY <1>3 DEF S!ChangeShipment
  <2>6. /\ ReportTyped'
        /\ report'.kind = report.kind /\ report'.outside = report.outside
        /\ report'.queries = report.queries /\ report'.found = report.found
        /\ report'.old = report.old
        /\ report'.undone = IF status[s] = "Completed" /\ S!Awaited("revenue")
                            THEN report.undone \cup S!Of({s}) ELSE report.undone
    <3>1. CASE status[s] = "Completed" /\ S!Awaited("revenue")
      <4>1. report' = [report EXCEPT !.undone = report.undone \cup S!Of({s})]
        BY <2>5, <3>1
      <4>2. S!Of({s}) \subseteq Shipments
        BY DEF S!Of
      <4> QED
        BY <3>1, <4>1, <4>2 DEF ReportTyped
    <3>2. CASE ~(status[s] = "Completed" /\ S!Awaited("revenue"))
      BY <2>5, <3>2 DEF ReportTyped
    <3> QED
      BY <3>1, <3>2
  <2>7. InBounds \subseteq InBounds'
    BY <2>3, <2>6 DEF InBounds, S!Of, S!Created, S!In, StatisticsTyped
  <2>8. S!Awaited("revenue") => Ever \subseteq Ever'
    BY <2>3, <2>6 DEF Ever, Completed, S!Of, S!In, StatisticsTyped
  <2> QED
    BY <2>4, <2>6, <2>7, <2>8
<1>4. CASE \E u \in Admins : S!ChangeAccount(u)
  <2>1. PICK u \in Admins : S!ChangeAccount(u)
    BY <1>4
  <2> QED
    BY <1>2, <2>1 DEF ReportTyped, InBounds, S!Of, S!Created, S!In, Ever, Completed
<1>5. CASE \E s \in Shipments : S!ChangeShipment(s)
  BY <1>3, <1>5 DEF S!Registered
<1> QED
  BY <1>1, <1>4, <1>5

(* Of the names of accounts and shipments there are finitely many. *)
LEMMA Finite ==
    /\ \A T \in SUBSET Admins : IsFiniteSet(T) /\ Cardinality(T) \in Nat
    /\ \A T \in SUBSET Shipments : IsFiniteSet(T) /\ Cardinality(T) \in Nat
  BY NamesAssumption, FS_Subset, FS_CardinalityType

LEMMA Countable ==
    ASSUME ReportTyped
    PROVE  /\ IsFiniteSet(S!Registered) /\ Cardinality(S!Registered) \in Nat
           /\ IsFiniteSet(InBounds) /\ Cardinality(InBounds) \in Nat
           /\ IsFiniteSet(Completed) /\ Cardinality(Completed) \in Nat
           /\ IsFiniteSet(Ever) /\ Cardinality(Ever) \in Nat
           /\ IsFiniteSet(report.undone) /\ Cardinality(report.undone) \in Nat
           /\ IsFiniteSet(report.old) /\ Cardinality(report.old) \in Nat
<1>3. /\ S!Registered \in SUBSET Admins
      /\ InBounds \in SUBSET Shipments
      /\ Completed \in SUBSET Shipments
      /\ report.undone \in SUBSET Shipments
      /\ report.old \in SUBSET Shipments
  BY DEF ReportTyped, S!Registered, InBounds, Completed, S!Of, S!Created, S!In
<1>4. Ever \in SUBSET Shipments
  BY <1>3 DEF Ever
<1> HIDE DEF InBounds, Completed, Ever
<1> QED
  BY <1>3, <1>4, Finite

(* What has been found when a query is made. *)
LEMMA FoundBefore ==
    ASSUME InOrder, report.kind \in {"stats", "analytics"}, report.queries # <<>>
    PROVE  LET q == Head(report.queries)
               keys == DOMAIN report.found
           IN  /\ report.kind = "stats" =>
                    \/ q = "total" /\ keys = {}
                    \/ q = "active" /\ keys = {"total"}
                    \/ q = "roles" /\ keys = {"total", "active"}
                    \/ q = "shipments" /\ keys = {"total", "active", "roles"}
                    \/ q = "disputes" /\ keys = {"total", "active", "roles", "shipments"}
                    \/ q = "statuses" /\ keys = {"total", "active", "roles", "shipments", "disputes"}
                    \/ q = "revenue" /\ keys = {"total", "active", "roles", "shipments", "disputes",
                                                "statuses"}
               /\ report.kind = "analytics" =>
                    \/ q = "statuses" /\ keys = {}
                    \/ q = "revenue" /\ keys = {"statuses"}
                    \/ q = "days" /\ keys = {"statuses", "revenue"}
<1> DEFINE q == Head(report.queries)
           left == Len(report.queries)
           keys == DOMAIN report.found
           all == QueriesOf(report.kind)
<1>1. left \in Nat /\ left # 0 /\ q = report.queries[1]
  BY DEF InOrder
<1>5. 1 \in 1..left
  BY <1>1
<1>2. left <= Len(all) /\ report.queries[1] = all[Len(all) - left + 1]
      /\ keys = {all[i] : i \in 1..(Len(all) - left)}
  BY <1>5 DEF InOrder
<1> HIDE DEF q, left, keys
<1>3. CASE report.kind = "stats"
  <2>1. all = <<"total", "active", "roles", "shipments", "disputes", "statuses", "revenue">>
    BY <1>3 DEF QueriesOf, S!StatsQueries
  <2> HIDE DEF all
  <2>2. Len(all) = 7
    BY <2>1
  <2>3. left \in 1..7
    BY <1>1, <1>2, <2>2
  <2>4. q = all[7 - left + 1] /\ keys = {all[i] : i \in 1..(7 - left)}
    BY <1>1, <1>2, <2>2
  <2>5. CASE left = 7
    BY <1>3, <2>1, <2>4, <2>5 DEF q, keys
  <2>6. CASE left = 6
    BY <1>3, <2>1, <2>4, <2>6 DEF q, keys
  <2>7. CASE left = 5
    <3>1. q = all[3] /\ keys = {all[1], all[2]}
      BY <2>4, <2>7
    <3> QED
      BY <1>3, <2>1, <3>1 DEF q, keys
  <2>8. CASE left = 4
    <3>1. q = all[4] /\ keys = {all[1], all[2], all[3]}
      BY <2>4, <2>8
    <3> QED
      BY <1>3, <2>1, <3>1 DEF q, keys
  <2>9. CASE left = 3
    <3>1. q = all[5] /\ keys = {all[1], all[2], all[3], all[4]}
      BY <2>4, <2>9
    <3> QED
      BY <1>3, <2>1, <3>1 DEF q, keys
  <2>10. CASE left = 2
    <3>1. q = all[6] /\ keys = {all[1], all[2], all[3], all[4], all[5]}
      BY <2>4, <2>10
    <3> QED
      BY <1>3, <2>1, <3>1 DEF q, keys
  <2>11. CASE left = 1
    <3>1. q = all[7] /\ keys = {all[1], all[2], all[3], all[4], all[5], all[6]}
      BY <2>4, <2>11
    <3> QED
      BY <1>3, <2>1, <3>1 DEF q, keys
  <2> QED
    BY <2>3, <2>5, <2>6, <2>7, <2>8, <2>9, <2>10, <2>11
<1>4. CASE report.kind = "analytics"
  <2>1. all = <<"statuses", "revenue", "days">>
    BY <1>4 DEF QueriesOf, S!AnalyticsQueries
  <2> HIDE DEF all
  <2>2. Len(all) = 3
    BY <2>1
  <2>3. left \in 1..3
    BY <1>1, <1>2, <2>2
  <2>4. q = all[3 - left + 1] /\ keys = {all[i] : i \in 1..(3 - left)}
    BY <1>1, <1>2, <2>2
  <2>5. CASE left = 3
    BY <1>4, <2>1, <2>4, <2>5 DEF q, keys
  <2>6. CASE left = 2
    BY <1>4, <2>1, <2>4, <2>6 DEF q, keys
  <2>7. CASE left = 1
    <3>1. q = all[3] /\ keys = {all[1], all[2]}
      BY <2>4, <2>7
    <3> QED
      BY <1>4, <2>1, <3>1 DEF q, keys
  <2> QED
    BY <2>3, <2>5, <2>6, <2>7
<1> QED
  BY <1>3, <1>4

(* ... and after it. *)
LEMMA QueryMade ==
    ASSUME ReportInv, S!Query
    PROVE  \E old \in SUBSET InBounds :
           LET q == Head(report.queries)
               found == report.found
               after == report'.found
           IN  /\ report.kind \in {"stats", "analytics"} /\ report'.kind = report.kind
               /\ report'.outside = report.outside /\ report'.undone = report.undone
               /\ report'.old = old
               /\ DOMAIN after = DOMAIN found \cup {q}
               /\ after[q] = S!Counted(q, old)
               /\ \A k \in DOMAIN found \ {q} : after[k] = found[k]
               /\ InOrder' /\ InOrder
               /\ ReportTyped'
<1> DEFINE q == Head(report.queries)
           found == report.found
           all == QueriesOf(report.kind)
           left == Len(report.queries)
<1>11. PICK old \in SUBSET InBounds :
          /\ report.queries # <<>>
          /\ report' = [report EXCEPT !.queries = Tail(@), !.old = old, !.found = S!With(@, q, old)]
  BY DEF S!Query, InBounds
<1> DEFINE after == S!With(found, q, old)
<1>1. report' = [report EXCEPT !.queries = Tail(report.queries), !.old = old, !.found = after]
  BY <1>11
<1>2. /\ ReportTyped /\ report.kind \in {"stats", "analytics"}
      /\ InOrder /\ report.queries \in Seq(QueryNames) /\ report.queries # <<>>
  <2>1. ReportTyped /\ report.queries # <<>>
    BY <1>11 DEF ReportInv
  <2>2. report.kind \in {"none", "stats", "analytics"}
    BY <2>1 DEF ReportTyped
  <2>3. CASE report.kind # "none"
    BY <2>1, <2>2, <2>3 DEF ReportInv, InOrder
  <2> QED
    BY <2>1, <2>2, <2>3 DEF ReportInv
<1>3. /\ report'.kind = report.kind /\ report'.queries = Tail(report.queries)
      /\ report'.found = after /\ report'.old = old
      /\ report'.outside = report.outside /\ report'.undone = report.undone
  <2> HIDE DEF after
  <2> QED
    BY <1>1, <1>2 DEF ReportTyped
<1>4. DOMAIN after = DOMAIN found \cup {q}
  BY DEF S!With
<1>5. after[q] = S!Counted(q, old) /\ \A k \in DOMAIN found \ {q} : after[k] = found[k]
  BY DEF S!With
<1> HIDE DEF after
<1>6. /\ Tail(report.queries) \in Seq(QueryNames) /\ left \in Nat \ {0}
      /\ Len(Tail(report.queries)) = left - 1
      /\ \A i \in 1..(left - 1) : Tail(report.queries)[i] = report.queries[i + 1]
      /\ q = report.queries[1]
  BY <1>2
<1>7. ReportTyped'
  <2>1. old \in SUBSET Shipments
    BY DEF InBounds, S!Of, S!Created
  <2> QED
    BY <1>1, <1>2, <1>6, <2>1 DEF ReportTyped
<1>8. Len(all) \in Nat
  BY DEF QueriesOf, S!StatsQueries, S!AnalyticsQueries
<1>9. /\ left <= Len(all) /\ \A i \in 1..left : report.queries[i] = all[Len(all) - left + i]
      /\ DOMAIN found = {all[i] : i \in 1..(Len(all) - left)}
  BY <1>2 DEF InOrder
<1>10. InOrder'
  <2> DEFINE rest == Tail(report.queries)
             n == Len(all)
  <2>6. 1 \in 1..left
    BY <1>6
  <2>1. q = all[n - left + 1]
    BY <1>6, <1>9, <2>6
  <2>2. DOMAIN after = {all[i] : i \in 1..(n - (left - 1))}
    <3> HIDE DEF n, left, all
    <3>1. 1..(n - (left - 1)) = (1..(n - left)) \cup {n - left + 1}
      BY <1>6, <1>8, <1>9 DEF n
    <3> QED
      BY <1>4, <1>9, <2>1, <3>1 DEF n
  <2>3. \A i \in 1..(left - 1) : rest[i] = all[n - (left - 1) + i]
    <3> HIDE DEF all
    <3> SUFFICES ASSUME NEW i \in 1..(left - 1) PROVE rest[i] = all[n - (left - 1) + i]
      OBVIOUS
    <3>1. i + 1 \in 1..left /\ rest[i] = report.queries[i + 1]
      BY <1>6
    <3>2. n - left + (i + 1) = n - (left - 1) + i
      BY <1>6, <1>8
    <3> QED
      BY <1>9, <3>1, <3>2
  <2>4. rest \in Seq(QueryNames) /\ Len(rest) = left - 1 /\ left - 1 <= n
    BY <1>6, <1>8, <1>9
  <2>5. QueriesOf(report'.kind) = all /\ report'.queries = rest /\ report'.found = after
    BY <1>3
  <2> HIDE DEF rest, n, all
  <2> QED
    BY <2>2, <2>3, <2>4, <2>5 DEF InOrder, n
<1> QED
  BY <1>2, <1>3, <1>4, <1>5, <1>7, <1>10 DEF after

(* What was no more than a set is no more than what the set has become. *)
LEMMA FitStill ==
    ASSUME ReportInv,
           \/ UNCHANGED <<account, status, report>>
           \/ \E u \in Admins : S!ChangeAccount(u)
           \/ \E s \in Shipments : S!ChangeShipment(s)
    PROVE  ReportInv'
<1> DEFINE registered == S!Registered
           registered2 == (S!Registered)'
           asked == InBounds
           asked2 == InBounds'
           ever == Ever
           ever2 == Ever'
<1>1. /\ StatisticsTyped' /\ ReportTyped'
      /\ report'.kind = report.kind /\ report'.queries = report.queries
      /\ report'.found = report.found /\ report'.old = report.old
      /\ registered \subseteq registered2 /\ asked \subseteq asked2
      /\ S!Awaited("revenue") => ever \subseteq ever2
      /\ ~S!Awaited("revenue") => report'.undone = report.undone
  BY Meanwhile DEF ReportInv
<1>2. ReportTyped
  BY DEF ReportInv
<1>3. /\ IsFiniteSet(registered2) /\ Cardinality(registered2) \in Nat
      /\ IsFiniteSet(asked2) /\ Cardinality(asked2) \in Nat
      /\ IsFiniteSet(ever2) /\ Cardinality(ever2) \in Nat
  <2>1. registered2 \in SUBSET Admins /\ asked2 \in SUBSET Shipments /\ ever2 \in SUBSET Shipments
    BY <1>1 DEF ReportTyped, S!Registered, InBounds, Ever, Completed, S!Of, S!Created, S!In
  <2> HIDE DEF registered2, asked2, ever2
  <2> QED
    BY <2>1, Finite
<1>4. /\ Cardinality(registered) \in Nat /\ Cardinality(asked) \in Nat
      /\ Cardinality(ever) \in Nat
  BY <1>2, Countable
<1> HIDE DEF registered, registered2, asked, asked2, ever, ever2
<1>5. Cardinality(registered) <= Cardinality(registered2) /\ Cardinality(asked) <= Cardinality(asked2)
  BY <1>1, <1>3, FS_Subset
<1>6. S!Awaited("revenue") => Cardinality(ever) <= Cardinality(ever2)
  BY <1>1, <1>3, FS_Subset
<1>7. \A n : /\ NoMoreThan(n, S!Registered) => NoMoreThan(n, S!Registered)'
             /\ NoMoreThan(n, InBounds) => NoMoreThan(n, InBounds)'
             /\ S!Awaited("revenue") /\ NoMoreThan(n, Ever) => NoMoreThan(n, Ever)'
  BY <1>3, <1>4, <1>5, <1>6 DEF NoMoreThan, registered, registered2, asked, asked2, ever, ever2
<1>8. RevenueFits(report.found)'
  BY <1>1, <1>7 DEF ReportInv, RevenueFits, S!Awaited
<1>9. report.kind = "stats" => StatsFit(report.found)'
  BY <1>1, <1>7 DEF ReportInv, StatsFit
<1>10. report.kind = "analytics" => AnalyticsFit(report.found)'
  BY <1>1, <1>7 DEF ReportInv, AnalyticsFit
<1>11. report.kind # "none" => InOrder'
  <2>1. QueriesOf(report'.kind) = QueriesOf(report.kind)
    BY <1>1
  <2>2. ASSUME InOrder PROVE InOrder'
    BY <1>1, <2>1, <2>2, Zenon DEF InOrder
  <2> QED
    BY <2>2 DEF ReportInv
<1> QED
  BY <1>1, <1>8, <1>9, <1>10, <1>11 DEF ReportInv

LEMMA AnswersCount ==
    ASSUME StatisticsTyped, ReportTyped, NEW old \in SUBSET InBounds
    PROVE  /\ S!Counted("total", old) = Cardinality(S!Registered)
           /\ S!Total(S!Counted("roles", old)) = Cardinality(S!Registered)
           /\ S!Counted("shipments", old) = Cardinality(InBounds)
           /\ S!Total(S!Counted("statuses", old)) = Cardinality(InBounds)
           /\ S!Counted("statuses", old)["Completed"] = Cardinality(Completed)
           /\ S!Counted("revenue", old) = Cardinality(Completed)
           /\ S!Counted("days", old) + Cardinality(old) = Cardinality(InBounds)
           /\ Cardinality(Completed) <= Cardinality(Ever)
           /\ Cardinality(Ever) <= Cardinality(Completed) + Cardinality(report.undone)
           /\ S!Counted("days", old) \in Nat /\ Cardinality(old) \in Nat
<1>1. /\ S!Counted("total", old) = Cardinality(S!Registered)
      /\ S!Counted("shipments", old) = Cardinality(InBounds)
      /\ S!Counted("revenue", old) = Cardinality(Completed)
      /\ S!Counted("days", old) = Cardinality(InBounds \ old)
  BY CountedAs DEF S!Counted, InBounds, Completed
<1> HIDE DEF InBounds, Completed
<1>2. /\ IsFiniteSet(old) /\ Cardinality(old) \in Nat
      /\ Cardinality(InBounds \ old) \in Nat
      /\ Cardinality(InBounds \ old) = Cardinality(InBounds) - Cardinality(old)
  <2>1. IsFiniteSet(InBounds) /\ InBounds \cap old = old
    BY Countable
  <2>2. IsFiniteSet(old)
    BY <2>1, FS_Subset
  <2>3. /\ IsFiniteSet(InBounds \ old)
        /\ Cardinality(InBounds \ old) = Cardinality(InBounds) - Cardinality(InBounds \cap old)
    BY <2>1, FS_Difference
  <2>4. Cardinality(old) \in Nat /\ Cardinality(InBounds \ old) \in Nat
    BY <2>2, <2>3, FS_CardinalityType
  <2> QED
    BY <2>1, <2>2, <2>3, <2>4
<1>3. Cardinality(Completed) <= Cardinality(Ever)
  BY Countable, FS_Subset DEF Ever
<1>4. Cardinality(Ever) <= Cardinality(Completed) + Cardinality(report.undone)
  <2> DEFINE U == report.undone
  <2>1. IsFiniteSet(Completed) /\ IsFiniteSet(U) /\ Cardinality(Completed) \in Nat /\ Cardinality(U) \in Nat
    BY Countable
  <2> HIDE DEF U
  <2>2. IsFiniteSet(Completed \cap U) /\ Cardinality(Completed \cap U) \in Nat
    BY <2>1, FS_Subset, FS_CardinalityType
  <2>3. Cardinality(Completed \cup U) = Cardinality(Completed) + Cardinality(U) - Cardinality(Completed \cap U)
    BY <2>1, FS_Union
  <2>4. Cardinality(Completed \cup U) <= Cardinality(Completed) + Cardinality(U)
    BY <2>1, <2>2, <2>3
  <2> QED
    BY <2>4 DEF Ever, U
<1> QED
  <2>1. Cardinality(InBounds) \in Nat
    BY Countable
  <2> QED
    BY <1>1, <1>2, <1>3, <1>4, <2>1, RolesAddUp, StatusesAddUp

(* The next answer fits what was found before it. *)
LEMMA QueryFits ==
    ASSUME ReportInv, S!Query PROVE ReportInv'
<1> DEFINE q == Head(report.queries)
           found == report.found
           after == report'.found
           accounts == Cardinality(S!Registered)
           shipments == Cardinality(InBounds)
           completed == Cardinality(Completed)
           ever == Cardinality(Ever)
           undone == Cardinality(report.undone)
<1>1. PICK old \in SUBSET InBounds :
        /\ DOMAIN after = DOMAIN found \cup {q} /\ after[q] = S!Counted(q, old)
        /\ \A k \in DOMAIN found \ {q} : after[k] = found[k]
        /\ InOrder /\ InOrder' /\ ReportTyped'
        /\ report.kind \in {"stats", "analytics"} /\ report'.kind = report.kind
        /\ report'.outside = report.outside /\ report'.undone = report.undone
        /\ report'.old = old
  BY QueryMade, Zenon
<1>2. UNCHANGED <<account, status>> /\ report.queries # <<>> /\ StatisticsTyped /\ ReportTyped
  BY DEF S!Query, ReportInv
<1>3. /\ Cardinality(S!Registered)' = accounts
      /\ Cardinality(InBounds)' = shipments
      /\ Cardinality(Ever)' = ever
      /\ Cardinality(report.undone)' = undone
      /\ Cardinality(report.old)' = Cardinality(old)
      /\ StatisticsTyped'
  BY <1>1, <1>2 DEF S!Registered, InBounds, S!Of, S!Created, S!In, Ever, Completed, StatisticsTyped
<1>4. /\ S!Counted("total", old) = accounts /\ S!Total(S!Counted("roles", old)) = accounts
      /\ S!Counted("shipments", old) = shipments /\ S!Total(S!Counted("statuses", old)) = shipments
      /\ S!Counted("statuses", old)["Completed"] = completed /\ S!Counted("revenue", old) = completed
      /\ S!Counted("days", old) + Cardinality(old) = shipments
      /\ completed <= ever /\ ever <= completed + undone
      /\ S!Counted("days", old) \in Nat /\ Cardinality(old) \in Nat
  BY <1>2, AnswersCount
<1>7. /\ accounts \in Nat /\ shipments \in Nat /\ completed \in Nat /\ ever \in Nat
      /\ undone \in Nat
  BY <1>2, Countable
<1>11. /\ Cardinality(S!Registered)' = accounts
       /\ Cardinality(InBounds)' = shipments
       /\ Cardinality(Ever)' = ever
       /\ Cardinality(report.undone)' = undone
       /\ Cardinality(report.old)' = Cardinality(old)
  BY <1>3
<1> DEFINE keys == DOMAIN found
<1>8. /\ "statuses" \in keys /\ "revenue" \notin keys =>
           found["statuses"]["Completed"] \in Nat /\ found["statuses"]["Completed"] <= ever
      /\ "revenue" \in keys => found["statuses"]["Completed"] <= found["revenue"] + undone
  BY DEF ReportInv, RevenueFits, NoMoreThan
<1>5. CASE report.kind = "stats"
  <2>2. \/ q = "total" /\ keys = {}
        \/ q = "active" /\ keys = {"total"}
        \/ q = "roles" /\ keys = {"total", "active"}
        \/ q = "shipments" /\ keys = {"total", "active", "roles"}
        \/ q = "disputes" /\ keys = {"total", "active", "roles", "shipments"}
        \/ q = "statuses" /\ keys = {"total", "active", "roles", "shipments", "disputes"}
        \/ q = "revenue" /\ keys = {"total", "active", "roles", "shipments", "disputes",
                                    "statuses"}
    BY <1>1, <1>2, <1>5, FoundBefore
  <2>3. /\ "total" \in keys => found["total"] \in Nat /\ found["total"] <= accounts
        /\ "roles" \in keys => found["total"] <= S!Total(found["roles"])
        /\ "shipments" \in keys => found["shipments"] \in Nat /\ found["shipments"] <= shipments
        /\ "statuses" \in keys => found["shipments"] <= S!Total(found["statuses"])
    BY <1>5 DEF ReportInv, StatsFit, NoMoreThan
  <2> HIDE DEF q, found, after, accounts, shipments, completed, ever, undone
  <2>4. /\ DOMAIN after = keys \cup {q} /\ after[q] = S!Counted(q, old)
        /\ \A k \in keys \ {q} : after[k] = found[k]
    BY <1>1
  <2>5. "total" \in DOMAIN after => after["total"] \in Nat /\ after["total"] <= accounts
    BY <1>4, <1>7, <2>2, <2>3, <2>4
  <2>6. "roles" \in DOMAIN after => after["total"] <= S!Total(after["roles"])
    BY <1>4, <2>2, <2>3, <2>4
  <2>7. "shipments" \in DOMAIN after => after["shipments"] \in Nat /\ after["shipments"] <= shipments
    BY <1>4, <1>7, <2>2, <2>3, <2>4
  <2>8. "statuses" \in DOMAIN after => after["shipments"] <= S!Total(after["statuses"])
    BY <1>4, <2>2, <2>3, <2>4
  <2>9. /\ "total" \in DOMAIN after => after["total"] \in Nat /\ after["total"] <= accounts
        /\ "roles" \in DOMAIN after => after["total"] <= S!Total(after["roles"])
        /\ "shipments" \in DOMAIN after => after["shipments"] \in Nat /\ after["shipments"] <= shipments
        /\ "statuses" \in DOMAIN after => after["shipments"] <= S!Total(after["statuses"])
    BY <2>5, <2>6, <2>7, <2>8, Zenon
  <2>10. /\ "statuses" \in DOMAIN after /\ "revenue" \notin DOMAIN after =>
              after["statuses"]["Completed"] \in Nat /\ after["statuses"]["Completed"] <= ever
         /\ "revenue" \in DOMAIN after => after["statuses"]["Completed"] <= after["revenue"] + undone
    BY <1>4, <1>7, <1>8, <2>2, <2>4
  <2>11. StatsFit(report.found)'
    BY <1>11, <2>9, Zenon DEF StatsFit, NoMoreThan, after
  <2>12. RevenueFits(report.found)'
    <3>1. ("statuses" \in DOMAIN report.found /\ "revenue" \notin DOMAIN report.found =>
            NoMoreThan(report.found["statuses"]["Completed"], Ever))'
      BY <1>11, <2>10, Zenon DEF NoMoreThan, after
    <3>2. ("revenue" \in DOMAIN report.found =>
            report.found["statuses"]["Completed"] <= report.found["revenue"] + Cardinality(report.undone))'
      BY <1>11, <2>10, Zenon DEF after
    <3> QED
      BY <3>1, <3>2, Zenon DEF RevenueFits
  <2> QED
    BY <1>1, <1>3, <1>5, <2>11, <2>12 DEF ReportInv
<1>6. CASE report.kind = "analytics"
  <2>2. \/ q = "statuses" /\ keys = {}
        \/ q = "revenue" /\ keys = {"statuses"}
        \/ q = "days" /\ keys = {"statuses", "revenue"}
    BY <1>1, <1>2, <1>6, FoundBefore
  <2>3. "statuses" \in keys =>
             S!Total(found["statuses"]) \in Nat /\ S!Total(found["statuses"]) <= shipments
    BY <1>6 DEF ReportInv, AnalyticsFit, NoMoreThan
  <2> HIDE DEF q, found, after, accounts, shipments, completed, ever, undone
  <2>4. /\ "statuses" \in DOMAIN after =>
             S!Total(after["statuses"]) \in Nat /\ S!Total(after["statuses"]) <= shipments
        /\ "days" \in DOMAIN after => S!Total(after["statuses"]) <= after["days"] + Cardinality(old)
    BY <1>1, <1>4, <1>7, <2>2, <2>3
  <2>5. /\ "statuses" \in DOMAIN after /\ "revenue" \notin DOMAIN after =>
             after["statuses"]["Completed"] \in Nat /\ after["statuses"]["Completed"] <= ever
        /\ "revenue" \in DOMAIN after => after["statuses"]["Completed"] <= after["revenue"] + undone
    BY <1>1, <1>4, <1>7, <1>8, <2>2
  <2>6. AnalyticsFit(report.found)'
    BY <1>11, <2>4, Zenon DEF AnalyticsFit, NoMoreThan, after
  <2>7. RevenueFits(report.found)'
    <3>1. ("statuses" \in DOMAIN report.found /\ "revenue" \notin DOMAIN report.found =>
            NoMoreThan(report.found["statuses"]["Completed"], Ever))'
      BY <1>11, <2>5, Zenon DEF NoMoreThan, after
    <3>2. ("revenue" \in DOMAIN report.found =>
            report.found["statuses"]["Completed"] <= report.found["revenue"] + Cardinality(report.undone))'
      BY <1>11, <2>5, Zenon DEF after
    <3> QED
      BY <3>1, <3>2, Zenon DEF RevenueFits
  <2> QED
    BY <1>1, <1>3, <1>6, <2>6, <2>7 DEF ReportInv
<1> QED
  BY <1>1, <1>5, <1>6

LEMMA ReportStep == ReportInv /\ [S!StatisticsNext]_(S!statisticsVars) => ReportInv'
<1> SUFFICES ASSUME ReportInv, [S!StatisticsNext]_(S!statisticsVars) PROVE ReportInv'
  OBVIOUS
<1>1. ASSUME NEW kind \in {"stats", "analytics"}, S!Ask(kind) PROVE ReportInv'
  <2> DEFINE all == QueriesOf(kind)
  <2>1. PICK outside \in SUBSET Shipments :
          report' = [S!NoReport EXCEPT !.kind = kind, !.outside = outside, !.queries = all]
    BY <1>1 DEF S!Ask, QueriesOf
  <2>2. all \in Seq(QueryNames)
    <3>1. S!StatsQueries \in Seq(QueryNames)
      BY DEF S!StatsQueries, QueryNames
    <3>2. S!AnalyticsQueries \in Seq(QueryNames)
      BY DEF S!AnalyticsQueries, QueryNames
    <3> QED
      BY <3>1, <3>2 DEF QueriesOf
  <2> HIDE DEF all
  <2>3. /\ report' = [kind |-> kind, outside |-> outside, queries |-> all, found |-> <<>>,
                      old |-> {}, undone |-> {}]
        /\ report'.queries = all /\ report'.found = <<>> /\ report'.kind = kind
    BY <2>1 DEF S!NoReport
  <2>4. Len(all) \in Nat /\ DOMAIN <<>> = {} /\ 1..(Len(all) - Len(all)) = {}
    BY <2>2
  <2>5. InOrder'
    <3>1. QueriesOf(report'.kind) = all
      BY <2>3 DEF all
    <3> QED
      BY <2>2, <2>3, <2>4, <3>1 DEF InOrder
  <2>6. StatsFit(report.found)' /\ AnalyticsFit(report.found)' /\ RevenueFits(report.found)'
    BY <2>3, <2>4 DEF StatsFit, AnalyticsFit, RevenueFits
  <2>7. ReportTyped'
    BY <2>2, <2>3 DEF ReportTyped
  <2>8. StatisticsTyped'
    BY <1>1 DEF ReportInv, S!Ask, StatisticsTyped
  <2> QED
    BY <2>3, <2>5, <2>6, <2>7, <2>8 DEF ReportInv
<1>2. CASE S!QueryFails \/ S!Leave
  <2>1. report' = S!NoReport /\ StatisticsTyped'
    BY <1>2 DEF S!QueryFails, S!Leave, ReportInv, StatisticsTyped
  <2>3. /\ ReportTyped' /\ report'.kind = "none" /\ report'.queries = <<>>
        /\ report'.found = <<>> /\ RevenueFits(report.found)'
    <3>1. report' = [kind |-> "none", outside |-> {}, queries |-> <<>>, found |-> <<>>, old |-> {},
                     undone |-> {}]
      BY <2>1 DEF S!NoReport
    <3>2. DOMAIN <<>> = {}
      OBVIOUS
    <3> QED
      BY <3>1, <3>2 DEF ReportTyped, RevenueFits
  <2> QED
    BY <2>1, <2>3 DEF ReportInv
<1> QED
  <2>1. CASE UNCHANGED S!statisticsVars
    BY <2>1, FitStill DEF S!statisticsVars
  <2>2. CASE S!StatisticsNext
    BY <1>1, <1>2, <2>2, FitStill, QueryFits DEF S!StatisticsNext
  <2> QED
    BY <2>1, <2>2

(* What the invariant says of the found numbers is what a report promises. *)
LEMMA ReportFits == ReportInv => S!ReportHangsTogether
<1> SUFFICES ASSUME ReportInv, report.queries = <<>>
             PROVE  S!ReportHangsTogether
  BY DEF S!ReportHangsTogether
<1> DEFINE found == report.found
           all == QueriesOf(report.kind)
<1>1. CASE report.kind = "stats"
  <2>1. DOMAIN found = {all[i] : i \in 1..Len(all)}
    BY <1>1 DEF ReportInv, InOrder
  <2>2. all = S!StatsQueries
    BY <1>1 DEF QueriesOf
  <2>3. "total" \in DOMAIN found /\ "roles" \in DOMAIN found /\ "shipments" \in DOMAIN found
        /\ "statuses" \in DOMAIN found /\ "revenue" \in DOMAIN found
    <3>1. /\ Len(all) = 7 /\ all[1] = "total" /\ all[3] = "roles" /\ all[4] = "shipments"
          /\ all[6] = "statuses" /\ all[7] = "revenue"
      BY <2>2 DEF S!StatsQueries
    <3> HIDE DEF all
    <3> QED
      BY <2>1, <3>1
  <2>4. StatsFit(found)
    BY <1>1 DEF ReportInv
  <2>5. /\ found["total"] <= S!Total(found["roles"])
        /\ found["shipments"] <= S!Total(found["statuses"])
        /\ found["statuses"]["Completed"] <= found["revenue"] + S!Cardinality(report.undone)
    BY <2>3, <2>4, CountedAs DEF StatsFit, ReportInv, RevenueFits
  <2> QED
    BY <1>1, <2>5 DEF S!ReportHangsTogether, S!AdminCards
<1>2. CASE report.kind = "analytics"
  <2>1. DOMAIN found = {all[i] : i \in 1..Len(all)}
    BY <1>2 DEF ReportInv, InOrder
  <2>2. all = S!AnalyticsQueries
    BY <1>2 DEF QueriesOf
  <2>3. "statuses" \in DOMAIN found /\ "revenue" \in DOMAIN found /\ "days" \in DOMAIN found
    <3>1. Len(all) = 3 /\ all[1] = "statuses" /\ all[2] = "revenue" /\ all[3] = "days"
      BY <2>2 DEF S!AnalyticsQueries
    <3> HIDE DEF all
    <3> QED
      BY <2>1, <3>1
  <2>4. AnalyticsFit(found)
    BY <1>2 DEF ReportInv
  <2>5. /\ S!Total(found["statuses"]) <= found["days"] + S!Cardinality(report.old)
        /\ found["statuses"]["Completed"] <= found["revenue"] + S!Cardinality(report.undone)
    BY <2>3, <2>4, CountedAs DEF AnalyticsFit, ReportInv, RevenueFits
  <2> QED
    BY <1>2, <2>5 DEF S!ReportHangsTogether
<1> QED
  BY <1>1, <1>2 DEF S!ReportHangsTogether

(* Whatever happens between the queries of a report, its numbers fit. *)
LEMMA ReportsFit == RecordsSpec => []S!ReportHangsTogether
<1>1. RecordsInit => ReportInv
  BY ReportInit DEF RecordsInit
<1>2. [RecordsNext]_recordVars => [S!StatisticsNext]_(S!statisticsVars)
  BY DEF RecordsNext, ServicesNext, ShipmentStep, recordVars, othersVars, reports,
         S!statisticsVars
<1> QED
  BY <1>1, <1>2, ReportStep, ReportFits, PTL DEF RecordsSpec

(* A family of sequences that has the empty one and, with each, those of   *)
(* one element more, has them all.                                         *)
LEMMA SequencesInductive ==
    ASSUME NEW Chars, NEW F, <<>> \in F,
           \A s \in Seq(Chars) : \A c \in Chars : s \in F => Append(s, c) \in F
    PROVE  \A s \in Seq(Chars) : s \in F
<1> DEFINE U == {n \in Nat : \A s \in Seq(Chars) : Len(s) = n => s \in F}
<1>1. 0 \in U
  BY EmptySeq
<1>2. \A n \in U : n + 1 \in U
  <2>1. SUFFICES ASSUME NEW n \in U, NEW s \in Seq(Chars), Len(s) = n + 1 PROVE s \in F
    OBVIOUS
  <2>2. n \in Nat /\ s # <<>>
    BY <2>1
  <2>3. PICK t \in Seq(Chars), c \in Chars : s = Append(t, c)
    <3>1. /\ Len(SubSeq(s, 1, n)) = n /\ SubSeq(s, 1, n) \in Seq(Chars) /\ s[n + 1] \in Chars
          /\ \A i \in 1..n : SubSeq(s, 1, n)[i] = s[i]
      BY <2>1, <2>2
    <3>2. s = Append(SubSeq(s, 1, n), s[n + 1])
      BY <2>1, <2>2, <3>1, SeqEqual
    <3> QED
      BY <3>1, <3>2
  <2>4. Len(t) = n
    BY <2>1, <2>3, <2>2
  <2> QED
    BY <2>3, <2>4
<1>3. U = Nat
  <2>1. U \in SUBSET Nat
    OBVIOUS
  <2> HIDE DEF U
  <2> QED
    BY <1>1, <1>2, <2>1, NatInductive
<1> QED
  <2>1. SUFFICES ASSUME NEW s \in Seq(Chars) PROVE s \in F
    OBVIOUS
  <2>2. Len(s) \in U
    BY <1>3
  <2> QED
    BY <2>2

-----------------------------------------------------------------------------
(* The reader of a CSV, one character after the other.                     *)
Blank == [rows |-> <<>>, row |-> <<>>, field |-> <<>>, mode |-> "plain"]

IsReading(g, text, n) ==
    g = [s \in SUBSET (1..n) |->
           IF s = {} THEN Blank ELSE X!Read(g[s \ {X!Max(s)}], text[X!Max(s)])]

(* The fold that reads is a recursive function on sets of places: unfolded,
   shown to exist, and to read one character at a time.                    *)
LEMMA ReadCsvDef ==
    ASSUME NEW Chars, NEW text \in Seq(Chars)
    PROVE  X!ReadCsv(text) = (CHOOSE g : IsReading(g, text, Len(text)))[1..Len(text)]
<1>1. DOMAIN text = 1..Len(text)
  OBVIOUS
<1>2. X!ReadCsv(text) =
        (CHOOSE g : g = [s \in SUBSET (DOMAIN text) |->
           IF s = {} THEN Blank ELSE X!Read(g[s \ {X!Max(s)}], text[X!Max(s)])])[DOMAIN text]
  BY Zenon DEF X!ReadCsv, X!FoldLeft, X!MapThenFoldSet, Blank
<1> QED
  BY <1>1, <1>2, Zenon DEF IsReading

LEMMA MaxLast ==
    ASSUME NEW n \in Nat, NEW s \in SUBSET (1..(n + 1)), n + 1 \in s
    PROVE  X!Max(s) = n + 1 /\ s \ {X!Max(s)} = s \cap (1..n)
<1>1. \A x \in s : (\A y \in s : x >= y) <=> x = n + 1
  OBVIOUS
<1>2. X!Max(s) = n + 1
  BY <1>1 DEF X!Max
<1>3. \A x \in s : x # n + 1 <=> x \in 1..n
  OBVIOUS
<1> QED
  BY <1>2, <1>3

LEMMA ReadingExists ==
    ASSUME NEW text PROVE \A n \in Nat : \E g : IsReading(g, text, n)
<1> DEFINE U == {n \in Nat : \E g : IsReading(g, text, n)}
<1>1. 0 \in U
  <2> DEFINE g == [s \in SUBSET (1..0) |-> Blank]
  <2>1. \A s \in SUBSET (1..0) : s = {}
    OBVIOUS
  <2>2. g = [s \in SUBSET (1..0) |->
           IF s = {} THEN Blank ELSE X!Read(g[s \ {X!Max(s)}], text[X!Max(s)])]
    BY <2>1
  <2>3. IsReading(g, text, 0)
    BY <2>2 DEF IsReading
  <2> QED
    BY <2>3
<1>2. \A n \in U : n + 1 \in U
  <2>1. SUFFICES ASSUME NEW n \in U PROVE n + 1 \in U
    OBVIOUS
  <2>2. n \in Nat
    OBVIOUS
  <2>3. PICK f : IsReading(f, text, n)
    OBVIOUS
  <2> DEFINE next(s) == X!Read(f[s \cap (1..n)], text[n + 1])
             g == [s \in SUBSET (1..(n + 1)) |-> IF n + 1 \in s THEN next(s) ELSE f[s]]
             step(s) == IF s = {} THEN Blank ELSE X!Read(g[s \ {X!Max(s)}], text[X!Max(s)])
  <2>4. ASSUME NEW s \in SUBSET (1..(n + 1)) PROVE g[s] = step(s)
    <3>1. CASE n + 1 \in s
      <4>1. X!Max(s) = n + 1 /\ s \ {X!Max(s)} = s \cap (1..n) /\ s # {}
        BY <2>2, <3>1, MaxLast
      <4>2. s \cap (1..n) \in SUBSET (1..(n + 1)) /\ n + 1 \notin s \cap (1..n)
        BY <2>2
      <4>3. g[s \cap (1..n)] = f[s \cap (1..n)]
        BY <4>2
      <4>4. g[s] = next(s)
        BY <3>1
      <4>5. step(s) = X!Read(g[s \cap (1..n)], text[n + 1])
        BY <4>1
      <4> QED
        BY <4>3, <4>4, <4>5
    <3>2. CASE n + 1 \notin s
      <4>1. s \in SUBSET (1..n)
        BY <2>2, <3>2
      <4>2. f[s] = IF s = {} THEN Blank ELSE X!Read(f[s \ {X!Max(s)}], text[X!Max(s)])
        BY <2>3, <4>1 DEF IsReading
      <4>3. g[s] = f[s] /\ g[s \ {X!Max(s)}] = f[s \ {X!Max(s)}]
        BY <3>2
      <4> QED
        BY <4>2, <4>3
    <3> QED
      BY <3>1, <3>2
  <2>5. g = [s \in SUBSET (1..(n + 1)) |-> step(s)]
    BY <2>4
  <2>6. IsReading(g, text, n + 1)
    BY <2>5 DEF IsReading
  <2> QED
    BY <2>2, <2>6
<1>3. U = Nat
  <2>1. U \in SUBSET Nat
    OBVIOUS
  <2> HIDE DEF U
  <2> QED
    BY <1>1, <1>2, <2>1, NatInductive
<1> QED
  BY <1>3

LEMMA ReadingStep ==
    ASSUME NEW text, NEW n \in Nat, NEW g, IsReading(g, text, n)
    PROVE  /\ g[1..0] = Blank
           /\ \A k \in Nat : k + 1 <= n => g[1..(k + 1)] = X!Read(g[1..k], text[k + 1])
<1>1. g[1..0] = Blank
  BY DEF IsReading
<1>2. ASSUME NEW k \in Nat, k + 1 <= n PROVE g[1..(k + 1)] = X!Read(g[1..k], text[k + 1])
  <2>1. 1..(k + 1) \in SUBSET (1..n) /\ k + 1 \in 1..(k + 1) /\ 1..k = (1..(k + 1)) \cap (1..k)
    BY <1>2
  <2>2. X!Max(1..(k + 1)) = k + 1 /\ (1..(k + 1)) \ {X!Max(1..(k + 1))} = 1..k
    BY <2>1, MaxLast
  <2> DEFINE s == 1..(k + 1)
  <2>3. s # {} /\ s \in SUBSET (1..n)
    BY <2>1
  <2>4. g[s] = X!Read(g[s \ {X!Max(s)}], text[X!Max(s)])
    <3> HIDE DEF s
    <3> QED
      BY <2>3 DEF IsReading
  <2> QED
    BY <2>2, <2>4
<1> QED
  BY <1>1, <1>2

Agree(text, more, m) == \A i \in 1..m : text[i] = more[i]

LEMMA ReadingUnique ==
    ASSUME NEW text, NEW m \in Nat, NEW g, IsReading(g, text, m),
           NEW more, NEW n \in Nat, NEW h, IsReading(h, more, n),
           m <= n, Agree(text, more, m)
    PROVE  g[1..m] = h[1..m]
<1> DEFINE U == {k \in Nat : k <= m => g[1..k] = h[1..k]}
<1>1. 0 \in U
  <2>1. g[1..0] = Blank /\ h[1..0] = Blank
    BY ReadingStep
  <2> QED
    BY <2>1
<1>2. \A k \in U : k + 1 \in U
  <2>1. SUFFICES ASSUME NEW k \in Nat, k <= m => g[1..k] = h[1..k], k + 1 <= m
                 PROVE  g[1..(k + 1)] = h[1..(k + 1)]
    <3> DEFINE same(k) == g[1..k] = h[1..k]
    <3>1. SUFFICES \A k \in Nat : (k <= m => same(k)) => (k + 1 <= m => same(k + 1))
      OBVIOUS
    <3> QED
      BY Zenon
  <2>2. k \in Nat /\ g[1..k] = h[1..k] /\ k + 1 \in 1..m /\ k + 1 <= n
    BY <2>1
  <2>3. g[1..(k + 1)] = X!Read(g[1..k], text[k + 1])
    BY <2>1, <2>2, ReadingStep
  <2>4. h[1..(k + 1)] = X!Read(h[1..k], more[k + 1])
    BY <2>1, <2>2, ReadingStep
  <2>5. text[k + 1] = more[k + 1]
    BY <2>2 DEF Agree
  <2> QED
    BY <2>2, <2>3, <2>4, <2>5
<1>3. U = Nat
  <2>1. U \in SUBSET Nat
    BY Zenon
  <2> HIDE DEF U
  <2> QED
    BY <1>1, <1>2, <2>1, NatInductive
<1> QED
  BY <1>3

LEMMA ReadNothing == X!ReadCsv(<<>>) = Blank
<1>1. <<>> \in Seq({}) /\ Len(<<>>) = 0
  OBVIOUS
<1>2. PICK f : IsReading(f, <<>>, 0)
  BY ReadingExists
<1> DEFINE g == CHOOSE g : IsReading(g, <<>>, 0)
<1>3. IsReading(g, <<>>, 0)
  BY <1>2
<1>4. X!ReadCsv(<<>>) = g[1..0]
  BY <1>1, ReadCsvDef
<1> HIDE DEF g
<1> QED
  BY <1>3, <1>4, ReadingStep

LEMMA ReadNext ==
    ASSUME NEW Chars, NEW text \in Seq(Chars), NEW ch \in Chars
    PROVE  X!ReadCsv(Append(text, ch)) = X!Read(X!ReadCsv(text), ch)
<1> DEFINE n == Len(text)
           more == Append(text, ch)
           g == CHOOSE g : IsReading(g, text, n)
           h == CHOOSE h : IsReading(h, more, n + 1)
<1>1. n \in Nat /\ more \in Seq(Chars) /\ Len(more) = n + 1 /\ more[n + 1] = ch
      /\ \A i \in 1..n : text[i] = more[i]
  OBVIOUS
<1>2. IsReading(g, text, n)
  BY <1>1, ReadingExists
<1>3. IsReading(h, more, n + 1)
  <2>1. \E f : IsReading(f, more, n + 1)
    <3>1. n + 1 \in Nat
      BY <1>1
    <3> HIDE DEF more, n
    <3> QED
      BY ONLY <3>1, ReadingExists
  <2> QED
    BY <2>1
<1>4. X!ReadCsv(text) = g[1..n] /\ X!ReadCsv(more) = h[1..(n + 1)]
  <2>1. X!ReadCsv(text) = g[1..n]
    BY ReadCsvDef
  <2>2. X!ReadCsv(more) = (CHOOSE f : IsReading(f, more, Len(more)))[1..Len(more)]
    <3> HIDE DEF more
    <3> QED
      BY <1>1, ReadCsvDef
  <2> QED
    BY <1>1, <2>1, <2>2
<1> HIDE DEF g, h, n, more
<1>5. h[1..(n + 1)] = X!Read(h[1..n], ch)
  BY <1>1, <1>3, ReadingStep
<1>6. g[1..n] = h[1..n]
  <2> DEFINE m == n + 1
  <2>1. m \in Nat /\ n <= m
    BY <1>1
  <2>2. IsReading(h, more, m)
    BY <1>3
  <2> HIDE DEF m
  <2> QED
    <3>1. n \in Nat /\ Agree(text, more, n)
      BY <1>1 DEF Agree
    <3>2. ASSUME NEW j \in Nat, NEW f, IsReading(f, more, j), n <= j PROVE g[1..n] = f[1..n]
      BY ONLY <1>2, <3>1, <3>2, ReadingUnique
    <3> QED
      BY ONLY <2>1, <2>2, <3>2
<1> QED
  BY <1>4, <1>5, <1>6 DEF more

-----------------------------------------------------------------------------
(* Doubled, one character after the other.                                 *)
Twice(ch) == IF ch = X!Quote THEN <<X!Quote, X!Quote>> ELSE <<ch>>

Parts(text) == [i \in DOMAIN text |-> Twice(text[i])]

IsFlat(f, seqs, n) ==
    f = [i \in 1..n |-> IF i = 1 THEN seqs[i] ELSE f[i - 1] \o seqs[i]]

LEMMA DoubledDef ==
    ASSUME NEW Chars, NEW text \in Seq(Chars), text # <<>>
    PROVE  X!Doubled(text) = (CHOOSE f : IsFlat(f, Parts(text), Len(text)))[Len(text)]
<1>1. /\ Parts(text) = [i \in 1..Len(text) |-> Twice(text[i])]
      /\ Len(text) \in Nat /\ Len(text) # 0
  BY EmptySeq DEF Parts
<1>2. Len(Parts(text)) = Len(text)
  BY <1>1
<1>3. X!Doubled(text) = X!FlattenSeq(Parts(text))
  BY Zenon DEF X!Doubled, Parts, Twice
<1>4. X!FlattenSeq(Parts(text)) =
        IF Len(Parts(text)) = 0 THEN Parts(text)
        ELSE (CHOOSE f : f = [i \in 1..Len(Parts(text)) |->
                IF i = 1 THEN Parts(text)[i] ELSE f[i - 1] \o Parts(text)[i]])[Len(Parts(text))]
  BY Zenon DEF X!FlattenSeq
<1> QED
  BY <1>1, <1>2, <1>3, <1>4, Zenon DEF IsFlat

LEMMA FlatExists ==
    ASSUME NEW seqs PROVE \A n \in Nat : \E f : IsFlat(f, seqs, n)
<1> DEFINE U == {n \in Nat : \E f : IsFlat(f, seqs, n)}
<1>1. 0 \in U
  <2> DEFINE f == [i \in 1..0 |-> <<>>]
  <2>1. f = [i \in 1..0 |-> IF i = 1 THEN seqs[i] ELSE f[i - 1] \o seqs[i]]
    OBVIOUS
  <2>2. IsFlat(f, seqs, 0)
    BY <2>1 DEF IsFlat
  <2> QED
    BY <2>2
<1>2. \A n \in U : n + 1 \in U
  <2>1. SUFFICES ASSUME NEW n \in U PROVE n + 1 \in U
    OBVIOUS
  <2>2. n \in Nat
    OBVIOUS
  <2>3. PICK e : IsFlat(e, seqs, n)
    OBVIOUS
  <2> DEFINE last == IF n + 1 = 1 THEN seqs[n + 1] ELSE e[n] \o seqs[n + 1]
             f == [i \in 1..(n + 1) |-> IF i = n + 1 THEN last ELSE e[i]]
             step(i) == IF i = 1 THEN seqs[i] ELSE f[i - 1] \o seqs[i]
  <2>4. ASSUME NEW i \in 1..(n + 1) PROVE f[i] = step(i)
    <3>1. CASE i = n + 1
      <4>1. f[i] = last
        BY <2>2, <3>1
      <4>2. CASE i = 1
        BY <3>1, <4>1, <4>2
      <4>3. CASE i # 1
        <5>1. n \in 1..(n + 1) /\ n # n + 1 /\ i - 1 = n
          BY <2>2, <3>1, <4>3
        <5>2. f[n] = e[n]
          BY <5>1
        <5> QED
          BY <3>1, <4>1, <4>3, <5>1, <5>2
      <4> QED
        BY <4>2, <4>3
    <3>2. CASE i # n + 1
      <4>1. i \in 1..n
        BY <2>2, <3>2
      <4>2. e[i] = IF i = 1 THEN seqs[i] ELSE e[i - 1] \o seqs[i]
        BY <2>3, <4>1 DEF IsFlat
      <4>3. f[i] = e[i] /\ (i # 1 => f[i - 1] = e[i - 1])
        BY <2>2, <3>2, <4>1
      <4> QED
        BY <4>2, <4>3
    <3> QED
      BY <3>1, <3>2
  <2>5. f = [i \in 1..(n + 1) |-> step(i)]
    BY <2>4
  <2>6. IsFlat(f, seqs, n + 1)
    BY <2>5 DEF IsFlat
  <2> QED
    BY <2>2, <2>6
<1>3. U = Nat
  <2>1. U \in SUBSET Nat
    OBVIOUS
  <2> HIDE DEF U
  <2> QED
    BY <1>1, <1>2, <2>1, NatInductive
<1> QED
  BY <1>3

LEMMA FlatUnique ==
    ASSUME NEW seqs, NEW m \in Nat, NEW f, IsFlat(f, seqs, m),
           NEW more, NEW n \in Nat, NEW h, IsFlat(h, more, n),
           m <= n, \A i \in 1..m : seqs[i] = more[i]
    PROVE  \A k \in 1..m : f[k] = h[k]
<1> DEFINE U == {k \in Nat : k \in 1..m => f[k] = h[k]}
<1>1. 0 \in U
  OBVIOUS
<1>2. \A k \in U : k + 1 \in U
  <2>1. SUFFICES ASSUME NEW k \in Nat, k \in 1..m => f[k] = h[k], k + 1 \in 1..m
                 PROVE  f[k + 1] = h[k + 1]
    <3> DEFINE same(k) == f[k] = h[k]
    <3>1. SUFFICES \A k \in Nat : (k \in 1..m => same(k)) => (k + 1 \in 1..m => same(k + 1))
      OBVIOUS
    <3> QED
      BY Zenon
  <2>2. k + 1 \in 1..n /\ seqs[k + 1] = more[k + 1] /\ (k + 1) - 1 = k
    BY <2>1
  <2>3. f[k + 1] = IF k + 1 = 1 THEN seqs[k + 1] ELSE f[(k + 1) - 1] \o seqs[k + 1]
    BY <2>1 DEF IsFlat
  <2>4. h[k + 1] = IF k + 1 = 1 THEN more[k + 1] ELSE h[(k + 1) - 1] \o more[k + 1]
    BY <2>2 DEF IsFlat
  <2>5. k + 1 # 1 => f[k] = h[k]
    BY <2>1
  <2> QED
    BY <2>2, <2>3, <2>4, <2>5
<1>3. U = Nat
  <2>1. U \in SUBSET Nat
    OBVIOUS
  <2> HIDE DEF U
  <2> QED
    BY <1>1, <1>2, <2>1, NatInductive
<1> QED
  BY <1>3

LEMMA DoubledNothing == X!Doubled(<<>>) = <<>>
<1>1. Parts(<<>>) = <<>>
  BY DEF Parts
<1>2. X!Doubled(<<>>) = X!FlattenSeq(Parts(<<>>))
  BY Zenon DEF X!Doubled, Parts, Twice
<1>3. Len(<<>>) = 0
  OBVIOUS
<1> QED
  BY <1>1, <1>2, <1>3 DEF X!FlattenSeq

LEMMA DoubledOne == ASSUME NEW ch PROVE X!Doubled(<<ch>>) = Twice(ch)
<1> DEFINE text == <<ch>>
           f == CHOOSE f : IsFlat(f, Parts(text), 1)
<1>1. text \in Seq({ch}) /\ Len(text) = 1 /\ text # <<>> /\ Parts(text)[1] = Twice(ch)
  BY DEF Parts
<1>2. X!Doubled(text) = f[1]
  BY <1>1, DoubledDef
<1>3. IsFlat(f, Parts(text), 1)
  BY FlatExists
<1> HIDE DEF f, text
<1>4. f[1] = Parts(text)[1]
  BY <1>3 DEF IsFlat
<1> QED
  BY <1>1, <1>2, <1>4 DEF text

LEMMA DoubledNext ==
    ASSUME NEW Chars, NEW text \in Seq(Chars), text # <<>>, NEW ch \in Chars
    PROVE  X!Doubled(Append(text, ch)) = X!Doubled(text) \o Twice(ch)
<1> DEFINE n == Len(text)
           m == n + 1
           more == Append(text, ch)
           f == CHOOSE f : IsFlat(f, Parts(text), n)
           h == CHOOSE h : IsFlat(h, Parts(more), m)
<1>1. /\ n \in Nat /\ n # 0 /\ more \in Seq(Chars) /\ Len(more) = m /\ more[m] = ch /\ more # <<>>
      /\ \A i \in 1..n : text[i] = more[i]
  BY EmptySeq
<1>2. /\ \A i \in 1..n : Parts(text)[i] = Parts(more)[i]
      /\ Parts(more)[m] = Twice(ch)
  BY <1>1 DEF Parts
<1>3. m \in Nat /\ n <= m /\ m \in 1..m /\ m # 1 /\ m - 1 = n /\ n \in 1..n
  BY <1>1
<1>4. IsFlat(f, Parts(text), n)
  BY <1>1, FlatExists
<1>5. IsFlat(h, Parts(more), m)
  <2>1. \E g : IsFlat(g, Parts(more), m)
    <3> HIDE DEF more, m
    <3> QED
      BY ONLY <1>3, FlatExists
  <2> QED
    BY <2>1
<1>6. X!Doubled(text) = f[n]
  BY DoubledDef
<1>7. X!Doubled(more) = h[m]
  <2>1. X!Doubled(more) = (CHOOSE g : IsFlat(g, Parts(more), Len(more)))[Len(more)]
    <3> HIDE DEF more
    <3> QED
      BY ONLY <1>1, DoubledDef
  <2> QED
    BY <1>1, <2>1
<1> HIDE DEF f, h, more, m, n
<1>8. h[m] = h[n] \o Parts(more)[m]
  BY <1>3, <1>5 DEF IsFlat
<1>9. f[n] = h[n]
  <2>1. \A i \in 1..n : Parts(text)[i] = Parts(more)[i]
    BY <1>2
  <2> QED
    BY ONLY <1>1, <1>3, <1>4, <1>5, <2>1, FlatUnique
<1> QED
  BY <1>2, <1>6, <1>7, <1>8, <1>9 DEF more

LEMMA DoubledType ==
    ASSUME NEW Chars, X!Quote \in Chars PROVE \A text \in Seq(Chars) : X!Doubled(text) \in Seq(Chars)
<1> DEFINE F == {text \in Seq(Chars) : X!Doubled(text) \in Seq(Chars)}
<1>1. <<>> \in F
  <2>1. <<>> \in Seq(Chars)
    OBVIOUS
  <2> QED
    BY <2>1, DoubledNothing
<1>2. \A text \in Seq(Chars) : \A ch \in Chars : text \in F => Append(text, ch) \in F
  <2>1. SUFFICES ASSUME NEW text \in Seq(Chars), NEW ch \in Chars, X!Doubled(text) \in Seq(Chars)
                 PROVE  X!Doubled(Append(text, ch)) \in Seq(Chars)
    OBVIOUS
  <2>2. Twice(ch) \in Seq(Chars)
    BY DEF Twice
  <2>3. CASE text = <<>>
    <3>1. Append(text, ch) = <<ch>>
      BY <2>3
    <3> QED
      BY <2>2, <3>1, DoubledOne
  <2>4. CASE text # <<>>
    <3>1. X!Doubled(Append(text, ch)) = X!Doubled(text) \o Twice(ch)
      BY <2>4, DoubledNext
    <3> HIDE DEF F
    <3> QED
      BY <2>1, <2>2, <3>1
  <2> QED
    BY <2>3, <2>4
<1> HIDE DEF F
<1>3. \A text \in Seq(Chars) : text \in F
  BY <1>1, <1>2, SequencesInductive
<1> QED
  BY <1>3 DEF F

LEMMA DoubledAppended ==
    ASSUME NEW Chars, NEW text \in Seq(Chars), NEW ch \in Chars
    PROVE  X!Doubled(Append(text, ch)) = X!Doubled(text) \o Twice(ch)
<1>1. CASE text = <<>>
  <2>1. Append(text, ch) = <<ch>> /\ <<>> \o Twice(ch) = Twice(ch)
    BY <1>1 DEF Twice
  <2> QED
    BY <1>1, <2>1, DoubledNothing, DoubledOne
<1> QED
  BY <1>1, DoubledNext

LEMMA ConcatAppend ==
    ASSUME NEW Chars, NEW s \in Seq(Chars), NEW t \in Seq(Chars), NEW ch \in Chars
    PROVE  /\ Append(t, ch) \in Seq(Chars) /\ s \o t \in Seq(Chars)
           /\ s \o Append(t, ch) = Append(s \o t, ch)
           /\ s \o (t \o <<ch>>) = Append(s \o t, ch)
           /\ s \o (t \o <<ch, ch>>) = Append(Append(s \o t, ch), ch)
<1>1. Append(t, ch) \in Seq(Chars) /\ s \o t \in Seq(Chars) /\ Append(s \o t, ch) \in Seq(Chars)
  OBVIOUS
<1>2. s \o Append(t, ch) = Append(s \o t, ch)
  OBVIOUS
<1>3. t \o <<ch>> = Append(t, ch) /\ t \o <<ch, ch>> = Append(Append(t, ch), ch)
  OBVIOUS
<1>4. s \o Append(Append(t, ch), ch) = Append(s \o Append(t, ch), ch)
  <2> DEFINE u == Append(t, ch)
  <2> HIDE DEF u
  <2>1. s \o Append(u, ch) = Append(s \o u, ch)
    BY <1>1 DEF u
  <2> QED
    BY <2>1 DEF u
<1> QED
  BY <1>1, <1>2, <1>3, <1>4

Reader(Chars) ==
    [rows : Seq(Seq(Seq(Chars))), row : Seq(Seq(Chars)), field : Seq(Chars),
     mode : {"plain", "quoted", "closed"}]

Holding(r, field, mode) == [r EXCEPT !.field = field, !.mode = mode]

Special == {X!Quote, X!Comma, X!Newline, X!Return}

(* A text that a reader finds in one piece.                                *)
Readable(text) == X!Return \in X!ToSet(text) => X!Enclosed(text)

(* Outside quotes, what is not special is read as it is ... *)
LEMMA ReadPlain ==
    ASSUME NEW Chars, NEW out \in Seq(Chars), NEW r \in Reader(Chars), X!ReadCsv(out) = r, r.mode = "plain"
    PROVE  \A s \in Seq(Chars) : (\A i \in DOMAIN s : s[i] \notin Special) =>
                X!ReadCsv(out \o s) = Holding(r, r.field \o s, "plain")
<1> DEFINE plain(s) == \A i \in DOMAIN s : s[i] \notin Special
           read(s) == X!ReadCsv(out \o s) = Holding(r, r.field \o s, "plain")
           F == {s \in Seq(Chars) : plain(s) => read(s)}
<1>1. <<>> \in F
  <2>1. <<>> \in Seq(Chars) /\ out \o <<>> = out /\ r.field \o <<>> = r.field
    BY DEF Reader
  <2>2. Holding(r, r.field, "plain") = r
    BY DEF Reader, Holding
  <2> QED
    BY <2>1, <2>2
<1>2. \A s \in Seq(Chars) : \A ch \in Chars : s \in F => Append(s, ch) \in F
  <2>1. SUFFICES ASSUME NEW s \in Seq(Chars), NEW ch \in Chars, s \in F, plain(Append(s, ch))
                 PROVE  read(Append(s, ch))
    <3> DEFINE more(s, ch) == Append(s, ch)
    <3>1. \A s \in Seq(Chars) : \A ch \in Chars : more(s, ch) \in Seq(Chars)
      OBVIOUS
    <3> HIDE DEF more, plain, read
    <3>2. SUFFICES \A s \in Seq(Chars) : \A ch \in Chars : s \in F => more(s, ch) \in F
      BY DEF more
    <3> QED
      BY <3>1 DEF more
  <2>2. plain(s) /\ ch \notin Special
    <3>1. /\ Len(s) + 1 \in DOMAIN Append(s, ch) /\ Append(s, ch)[Len(s) + 1] = ch
          /\ \A i \in DOMAIN s : i \in DOMAIN Append(s, ch) /\ Append(s, ch)[i] = s[i]
      OBVIOUS
    <3> QED
      BY <2>1, <3>1
  <2>3. out \o s \in Seq(Chars) /\ out \o Append(s, ch) = Append(out \o s, ch)
    OBVIOUS
  <2>4. X!ReadCsv(Append(out \o s, ch)) = X!Read(X!ReadCsv(out \o s), ch)
    <3> DEFINE sent == out \o s
    <3> HIDE DEF sent
    <3> QED
      BY <2>3, ReadNext DEF sent
  <2>5. X!ReadCsv(out \o s) = Holding(r, r.field \o s, "plain")
    BY <2>1, <2>2
  <2> DEFINE now == Holding(r, r.field \o s, "plain")
  <2>6. X!Read(now, ch) = Holding(r, r.field \o Append(s, ch), "plain")
    <3>1. now.mode = "plain" /\ now.field = r.field \o s
      BY DEF Reader, Holding
    <3>2. X!Read(now, ch) = [now EXCEPT !.field = Append(now.field, ch), !.mode = "plain"]
      BY <2>2, <3>1 DEF X!Read, X!Text, Special
    <3>3. Append(r.field \o s, ch) = r.field \o Append(s, ch)
      <4> DEFINE field == r.field
      <4>1. field \in Seq(Chars)
        BY DEF Reader
      <4> HIDE DEF field
      <4>2. Append(field \o s, ch) = field \o Append(s, ch)
        BY ONLY <4>1, ConcatAppend
      <4> QED
        BY <4>2 DEF field
    <3> QED
      BY <3>1, <3>2, <3>3 DEF Reader, Holding
  <2> QED
    BY <2>3, <2>4, <2>5, <2>6
<1> HIDE DEF F
<1>3. \A s \in Seq(Chars) : s \in F
  BY <1>1, <1>2, SequencesInductive
<1> QED
  BY <1>3 DEF F

(* ... and inside them, whatever was doubled is read as it was. *)
LEMMA ReadQuoted ==
    ASSUME NEW Chars, X!Quote \in Chars, NEW out \in Seq(Chars), NEW r \in Reader(Chars), X!ReadCsv(out) = r,
           r.mode = "quoted"
    PROVE  \A s \in Seq(Chars) :
                X!ReadCsv(out \o X!Doubled(s)) = Holding(r, r.field \o s, "quoted")
<1> DEFINE read(s) == X!ReadCsv(out \o X!Doubled(s)) = Holding(r, r.field \o s, "quoted")
           F == {s \in Seq(Chars) : read(s)}
<1>1. <<>> \in F
  <2>1. <<>> \in Seq(Chars) /\ out \o <<>> = out /\ r.field \o <<>> = r.field
    BY DEF Reader
  <2>2. Holding(r, r.field, "quoted") = r
    BY DEF Reader, Holding
  <2> QED
    BY <2>1, <2>2, DoubledNothing
<1>2. \A s \in Seq(Chars) : \A ch \in Chars : s \in F => Append(s, ch) \in F
  <2>1. SUFFICES ASSUME NEW s \in Seq(Chars), NEW ch \in Chars, read(s)
                 PROVE  read(Append(s, ch))
    <3> DEFINE more(s, ch) == Append(s, ch)
    <3>1. \A s \in Seq(Chars) : \A ch \in Chars : more(s, ch) \in Seq(Chars)
      OBVIOUS
    <3> HIDE DEF more, read
    <3>2. SUFFICES \A s \in Seq(Chars) : \A ch \in Chars : s \in F => more(s, ch) \in F
      BY DEF more
    <3> QED
      BY <3>1 DEF more
  <2> DEFINE sent == out \o X!Doubled(s)
             now == Holding(r, r.field \o s, "quoted")
             then == Holding(r, r.field \o Append(s, ch), "quoted")
  <2>2. sent \in Seq(Chars) /\ X!ReadCsv(sent) = now
    <3>1. X!Doubled(s) \in Seq(Chars)
      BY DoubledType
    <3> QED
      BY <2>1, <3>1
  <2>3. X!Doubled(Append(s, ch)) = X!Doubled(s) \o Twice(ch) /\ X!Doubled(s) \in Seq(Chars)
    BY DoubledAppended, DoubledType
  <2>4. now.mode = "quoted" /\ now.field = r.field \o s /\ DOMAIN now = DOMAIN r
    BY DEF Reader, Holding
  <2>5. then = [now EXCEPT !.field = Append(now.field, ch), !.mode = "quoted"]
    <3>1. Append(r.field \o s, ch) = r.field \o Append(s, ch)
      <4> DEFINE field == r.field
      <4>1. field \in Seq(Chars)
        BY DEF Reader
      <4> HIDE DEF field
      <4>2. Append(field \o s, ch) = field \o Append(s, ch)
        BY ONLY <4>1, ConcatAppend
      <4> QED
        BY <4>2 DEF field
    <3> QED
      BY <3>1, <2>4 DEF Reader, Holding
  <2>6. CASE ch # X!Quote
    <3>1. Twice(ch) = <<ch>>
      BY <2>6 DEF Twice
    <3>2. out \o X!Doubled(Append(s, ch)) = Append(sent, ch)
      <4> DEFINE doubled == X!Doubled(s)
      <4>1. X!Doubled(Append(s, ch)) = doubled \o <<ch>> /\ doubled \in Seq(Chars)
        BY <2>3, <3>1
      <4> HIDE DEF doubled
      <4>2. out \o (doubled \o <<ch>>) = Append(out \o doubled, ch)
        BY ONLY <4>1, ConcatAppend
      <4> QED
        BY <4>1, <4>2 DEF doubled
    <3>3. X!ReadCsv(Append(sent, ch)) = X!Read(now, ch)
      <4> HIDE DEF sent, now
      <4> QED
        BY <2>2, ReadNext
    <3>4. X!Read(now, ch) = then
      <4> HIDE DEF now, then
      <4> QED
        BY <2>4, <2>5, <2>6 DEF X!Read, X!Text
    <3> QED
      BY <3>2, <3>3, <3>4
  <2>7. CASE ch = X!Quote
    <3>1. Twice(ch) = <<ch, ch>>
      BY <2>7 DEF Twice
    <3>2. out \o X!Doubled(Append(s, ch)) = Append(Append(sent, ch), ch)
      <4> DEFINE doubled == X!Doubled(s)
      <4>1. X!Doubled(Append(s, ch)) = doubled \o <<ch, ch>> /\ doubled \in Seq(Chars)
        BY <2>3, <3>1
      <4> HIDE DEF doubled
      <4>2. out \o (doubled \o <<ch, ch>>) = Append(Append(out \o doubled, ch), ch)
        <5> DEFINE once == Append(doubled, ch)
        <5>1. doubled \o <<ch, ch>> = Append(once, ch)
          BY <4>1
        <5>2. once \in Seq(Chars) /\ out \o once = Append(out \o doubled, ch)
          BY <4>1, ConcatAppend
        <5> HIDE DEF once
        <5>3. out \o Append(once, ch) = Append(out \o once, ch)
          <6>1. \A t \in Seq(Chars) : out \o Append(t, ch) = Append(out \o t, ch)
            BY ConcatAppend
          <6> QED
            BY <5>2, <6>1
        <5> QED
          BY <5>1, <5>2, <5>3
      <4> QED
        BY <4>1, <4>2 DEF doubled
    <3>3. /\ Append(sent, ch) \in Seq(Chars)
          /\ X!ReadCsv(Append(sent, ch)) = X!Read(now, ch)
          /\ X!ReadCsv(Append(Append(sent, ch), ch)) = X!Read(X!Read(now, ch), ch)
      <4> HIDE DEF sent, now
      <4>1. Append(sent, ch) \in Seq(Chars) /\ X!ReadCsv(Append(sent, ch)) = X!Read(now, ch)
        BY <2>2, ReadNext
      <4> DEFINE more == Append(sent, ch)
      <4> HIDE DEF more
      <4>2. X!ReadCsv(Append(more, ch)) = X!Read(X!ReadCsv(more), ch)
        BY <4>1, ReadNext DEF more
      <4> QED
        BY <4>1, <4>2 DEF more
    <3>4. X!Read(X!Read(now, ch), ch) = then
      <4> HIDE DEF now, then
      <4>1. X!Read(now, ch) = [now EXCEPT !.mode = "closed"]
        BY <2>4, <2>7 DEF X!Read
      <4> DEFINE closed == [now EXCEPT !.mode = "closed"]
      <4>2. /\ closed.mode = "closed" /\ closed.field = now.field
            /\ [closed EXCEPT !.field = Append(closed.field, ch), !.mode = "quoted"] = then
        <5>1. DOMAIN now = {"rows", "row", "field", "mode"}
          BY <2>4 DEF Reader
        <5> QED
          BY <2>4, <2>5, <5>1
      <4> HIDE DEF closed
      <4>3. X!Read(closed, ch) = X!Text(closed, ch, "quoted")
        <5>1. closed.mode = "closed" /\ ch = X!Quote
          BY <2>7, <4>2
        <5> QED
          BY ONLY <5>1 DEF X!Read, X!Quote, X!Comma, X!Newline, X!Return
      <4> QED
        BY <4>1, <4>2, <4>3 DEF closed, X!Text
    <3> QED
      BY <3>2, <3>3, <3>4
  <2> QED
    BY <2>6, <2>7
<1> HIDE DEF F
<1>3. \A s \in Seq(Chars) : s \in F
  BY <1>1, <1>2, SequencesInductive
<1> QED
  BY <1>3 DEF F

(* Concatenation is associative, named so that a step can cite it.         *)
Associative(Chars) == \A a, b, c \in Seq(Chars) : a \o (b \o c) = (a \o b) \o c

LEMMA ConcatIsAssociative == ASSUME NEW Chars PROVE Associative(Chars)
<1> SUFFICES ASSUME NEW a \in Seq(Chars), NEW b \in Seq(Chars), NEW c \in Seq(Chars)
             PROVE  a \o (b \o c) = (a \o b) \o c
  BY Zenon DEF Associative
<1> QED
  OBVIOUS

AtField(r) == r.mode = "plain" /\ r.field = <<>>

(* A field comes out of the CSV as it was before it was escaped.           *)
LEMMA FieldRead ==
    ASSUME NEW Chars, Special \subseteq Chars, "'" \in Chars, NEW out \in Seq(Chars), NEW r \in Reader(Chars),
           X!ReadCsv(out) = r, AtField(r), NEW text \in Seq(Chars), Readable(X!Sanitized(text))
    PROVE  /\ X!EscapeCsvValue(text) \in Seq(Chars) /\ X!Sanitized(text) \in Seq(Chars)
           /\ X!ReadCsv(out \o X!EscapeCsvValue(text)) \in
                {Holding(r, X!Sanitized(text), "plain"), Holding(r, X!Sanitized(text), "closed")}
<1> DEFINE s == X!Sanitized(text)
           q == X!Quote
<1>1. s \in Seq(Chars)
  BY DEF X!Sanitized
<1>2. DOMAIN r = {"rows", "row", "field", "mode"} /\ <<>> \o s = s /\ q \in Chars
  BY <1>1 DEF Reader, Special
<1>3. CASE ~X!Enclosed(s)
  <2>1. X!EscapeCsvValue(text) = s
    BY <1>3 DEF X!EscapeCsvValue
  <2>2. \A i \in DOMAIN s : s[i] \notin Special
    <3>1. X!ToSet(s) \cap Special = {}
      BY <1>3 DEF Readable, X!Enclosed, Special
    <3> HIDE DEF s
    <3> QED
      BY <3>1 DEF X!ToSet
  <2> HIDE DEF s
  <2>3. X!ReadCsv(out \o s) = Holding(r, r.field \o s, "plain")
    BY <1>1, <2>2, ReadPlain DEF AtField
  <2>4. r.field \o s = s
    BY <1>2 DEF AtField, s
  <2> QED
    BY <1>1, <2>1, <2>3, <2>4 DEF s
<1>4. CASE X!Enclosed(s)
  <2> DEFINE d == X!Doubled(s)
             begun == [r EXCEPT !.mode = "quoted"]
  <2>1. X!EscapeCsvValue(text) = <<q>> \o d \o <<q>>
    BY <1>4 DEF X!EscapeCsvValue
  <2> HIDE DEF s, q
  <2>2. d \in Seq(Chars)
    BY <1>1, <1>2, DoubledType DEF q
  <2>3. Append(out, q) \in Seq(Chars) /\ X!ReadCsv(Append(out, q)) = begun
    <3>1. X!ReadCsv(Append(out, q)) = X!Read(r, q)
      BY <1>2, ReadNext
    <3>2. X!Read(r, q) = begun
      BY DEF X!Read, AtField, q, X!Quote, X!Comma, X!Newline, X!Return
    <3> QED
      BY <1>2, <3>1, <3>2
  <2>4. begun \in Reader(Chars) /\ begun.mode = "quoted" /\ begun.field = <<>>
    BY DEF AtField, Reader
  <2>5. X!ReadCsv(Append(out, q) \o d) = Holding(begun, begun.field \o s, "quoted")
    <3> DEFINE sent == Append(out, q)
    <3>1. sent \in Seq(Chars) /\ X!ReadCsv(sent) = begun /\ X!Quote \in Chars
      BY <1>2, <2>3 DEF q
    <3> HIDE DEF sent, begun
    <3>2. \A t \in Seq(Chars) :
            X!ReadCsv(sent \o X!Doubled(t)) = Holding(begun, begun.field \o t, "quoted")
      BY ONLY <2>4, <3>1, ReadQuoted
    <3> QED
      BY <1>1, <3>2 DEF sent
  <2> DEFINE now == Holding(r, s, "quoted")
             sent == Append(out, q) \o d
  <2>6. sent \in Seq(Chars) /\ X!ReadCsv(sent) = now
    <3>1. Holding(begun, begun.field \o s, "quoted") = now
      BY <1>2, <2>4 DEF Holding
    <3>2. Append(out, q) \o d \in Seq(Chars)
      <4> DEFINE u == Append(out, q)
      <4>1. u \in Seq(Chars)
        BY <2>3
      <4> HIDE DEF u, d
      <4>2. u \o d \in Seq(Chars)
        BY <2>2, <4>1
      <4> QED
        BY <4>2 DEF u
    <3> QED
      BY <2>5, <3>1, <3>2
  <2>7. X!ReadCsv(Append(sent, q)) = Holding(r, s, "closed")
    <3>1. X!ReadCsv(Append(sent, q)) = X!Read(now, q)
      <4> HIDE DEF sent, now
      <4> QED
        BY <1>2, <2>6, ReadNext
    <3>2. now.mode = "quoted"
      BY <1>2 DEF Holding
    <3>3. X!Read(now, q) = [now EXCEPT !.mode = "closed"]
      <4> HIDE DEF now
      <4> QED
        BY <3>2 DEF X!Read, q, X!Quote, X!Comma, X!Newline, X!Return
    <3>4. [now EXCEPT !.mode = "closed"] = Holding(r, s, "closed")
      BY <1>2 DEF Holding
    <3> QED
      BY <3>1, <3>3, <3>4
  <2>8. out \o (<<q>> \o d \o <<q>>) = Append(sent, q)
    <3> DEFINE b == <<q>>
    <3>1. b \in Seq(Chars) /\ \A t \in Seq(Chars) : t \o b = Append(t, q)
      BY <1>2
    <3>2. b \o d \in Seq(Chars)
      BY <2>2, <3>1
    <3> HIDE DEF b, d
    <3>3. out \o ((b \o d) \o b) = (out \o (b \o d)) \o b /\ out \o (b \o d) = (out \o b) \o d
      <4>1. \A t, u \in Seq(Chars) : out \o (t \o u) = (out \o t) \o u
        <5>1. Associative(Chars)
          BY ConcatIsAssociative
        <5> QED
          BY <5>1, Zenon DEF Associative
      <4> QED
        BY <2>2, <3>1, <3>2, <4>1
    <3>4. (out \o (b \o d)) \in Seq(Chars)
      BY <3>2
    <3>5. out \o (b \o d) = sent
      BY <3>1, <3>3
    <3> HIDE DEF sent
    <3>6. sent \o b = Append(sent, q)
      BY <2>6, <3>1
    <3> QED
      BY <3>3, <3>5, <3>6 DEF b
  <2>9. <<q>> \o d \o <<q>> \in Seq(Chars)
    <3> HIDE DEF d
    <3> QED
      BY <1>2, <2>2
  <2> QED
    BY <1>1, <2>1, <2>7, <2>8, <2>9 DEF s
<1> QED
  BY <1>3, <1>4

(* The state of a reader that has read whole rows. *)
After(rows) == [rows |-> rows, row |-> <<>>, field |-> <<>>, mode |-> "plain"]

(* Two facts about pairs and concatenation, cited below. *)
LEMMA OneMore ==
    ASSUME NEW U, NEW one \in U, NEW two \in U PROVE Append(<<one>>, two) = <<one, two>>
<1>1. <<one>> \in Seq(U) /\ Len(<<one>>) = 1 /\ <<one>>[1] = one
  OBVIOUS
<1> DEFINE s == <<one>>
           t == <<one, two>>
<1>2. t \in Seq(U) /\ Len(t) = 2 /\ t[1] = one /\ t[2] = two
  OBVIOUS
<1> HIDE DEF s, t
<1>3. s \in Seq(U) /\ Len(s) = 1 /\ s[1] = one
  BY <1>1 DEF s
<1>4. Append(s, two) \in Seq(U) /\ Len(Append(s, two)) = 2 /\ Append(s, two)[1] = one
      /\ Append(s, two)[2] = two
  <2>1. \A u \in Seq(U) : /\ Append(u, two) \in Seq(U) /\ Len(Append(u, two)) = Len(u) + 1
                           /\ Append(u, two)[Len(u) + 1] = two
                           /\ \A i \in 1..Len(u) : Append(u, two)[i] = u[i]
    OBVIOUS
  <2>2. /\ Append(s, two) \in Seq(U) /\ Len(Append(s, two)) = Len(s) + 1
        /\ Append(s, two)[Len(s) + 1] = two
    BY <1>3, <2>1
  <2>3. 1 \in 1..Len(s)
    BY <1>3
  <2>4. Append(s, two)[1] = s[1]
    BY <1>3, <2>1, <2>3
  <2> QED
    BY <1>3, <2>2, <2>4
<1>5. Append(s, two) = t
  BY <1>2, <1>4, SeqEqual
<1> QED
  BY <1>5 DEF s, t

(* What the reader does at the end of a field and of a row. *)
LEMMA HoldingIs ==
    ASSUME NEW rows, NEW row, NEW field, NEW mode, NEW other, NEW now
    PROVE  Holding([rows |-> rows, row |-> row, field |-> field, mode |-> mode], other, now) =
             [rows |-> rows, row |-> row, field |-> other, mode |-> now]
<1> DEFINE r == [rows |-> rows, row |-> row, field |-> field, mode |-> mode]
<1>1. r \in [rows : {rows}, row : {row}, field : {field}, mode : {mode}]
  OBVIOUS
<1> HIDE DEF r
<1>2. Holding(r, other, now) = [rows |-> rows, row |-> row, field |-> other, mode |-> now]
  <2>1. Holding(r, other, now) \in [rows : {rows}, row : {row}, field : {other}, mode : {now}]
    BY <1>1 DEF Holding
  <2> QED
    BY <2>1
<1> QED
  BY <1>2 DEF r

LEMMA FieldIs ==
    ASSUME NEW rows, NEW row, NEW field, NEW mode
    PROVE  X!Field([rows |-> rows, row |-> row, field |-> field, mode |-> mode]) =
             [rows |-> rows, row |-> Append(row, field), field |-> <<>>, mode |-> "plain"]
<1> DEFINE r == [rows |-> rows, row |-> row, field |-> field, mode |-> mode]
<1>1. r \in [rows : {rows}, row : {row}, field : {field}, mode : {mode}]
  OBVIOUS
<1> HIDE DEF r
<1>2. X!Field(r) = [rows |-> rows, row |-> Append(row, field), field |-> <<>>, mode |-> "plain"]
  <2>1. X!Field(r) \in [rows : {rows}, row : {Append(row, field)}, field : {<<>>}, mode : {"plain"}]
    BY <1>1 DEF X!Field
  <2> QED
    BY <2>1
<1> QED
  BY <1>2 DEF r

LEMMA RowIs ==
    ASSUME NEW rows, NEW row, NEW field, NEW mode
    PROVE  X!Row([rows |-> rows, row |-> row, field |-> field, mode |-> mode]) =
             [rows |-> Append(rows, Append(row, field)), row |-> <<>>, field |-> <<>>,
              mode |-> "plain"]
<1> DEFINE r == [rows |-> rows, row |-> row, field |-> field, mode |-> mode]
           f == [rows |-> rows, row |-> Append(row, field), field |-> <<>>, mode |-> "plain"]
<1>1. X!Field(r) = f
  BY FieldIs
<1>2. f \in [rows : {rows}, row : {Append(row, field)}, field : {<<>>}, mode : {"plain"}]
  OBVIOUS
<1> HIDE DEF r, f
<1>3. X!Row(r) = [rows |-> Append(rows, Append(row, field)), row |-> <<>>, field |-> <<>>,
                  mode |-> "plain"]
  <2>1. X!Row(r) \in [rows : {Append(rows, Append(row, field))}, row : {<<>>}, field : {<<>>},
                      mode : {"plain"}]
    <3>1. f.rows = rows /\ f.row = Append(row, field)
      BY DEF f
    <3> QED
      BY <1>1, <1>2, <3>1 DEF X!Row
  <2> QED
    BY <2>1
<1> QED
  BY <1>3 DEF r

(* ... and so does a line. *)
LEMMA LineRead ==
    ASSUME NEW Chars, Special \subseteq Chars, "'" \in Chars, NEW out \in Seq(Chars),
           NEW rows \in Seq(Seq(Seq(Chars))), X!ReadCsv(out) = After(rows),
           NEW one \in Seq(Chars), NEW two \in Seq(Chars),
           Readable(X!Sanitized(one)), Readable(X!Sanitized(two))
    PROVE  LET line == X!CsvLine(<<X!EscapeCsvValue(one), X!EscapeCsvValue(two)>>)
               row == <<X!Sanitized(one), X!Sanitized(two)>>
           IN  /\ line \in Seq(Chars) /\ row \in Seq(Seq(Chars))
               /\ X!ReadCsv(out \o line) = After(Append(rows, row))
<1>0. Associative(Chars)
  BY ConcatIsAssociative
<1> DEFINE e == X!EscapeCsvValue(one)
           f == X!EscapeCsvValue(two)
           s == X!Sanitized(one)
           t == X!Sanitized(two)
           comma == X!Comma
           newline == X!Newline
           begun == After(rows)
           middle == [rows |-> rows, row |-> <<s>>, field |-> <<>>, mode |-> "plain"]
           ended == After(Append(rows, <<s, t>>))
<1>1. begun \in Reader(Chars) /\ AtField(begun) /\ comma \in Chars /\ newline \in Chars
  BY DEF After, Reader, AtField, Special
<1>2. /\ e \in Seq(Chars) /\ s \in Seq(Chars)
      /\ X!ReadCsv(out \o e) \in {Holding(begun, s, "plain"), Holding(begun, s, "closed")}
  <2> HIDE DEF begun
  <2>1. X!ReadCsv(out) = begun
    BY DEF begun
  <2> QED
    <3>1. \A a \in Seq(Chars), x \in Seq(Chars), b \in Reader(Chars) : 
             X!ReadCsv(a) = b /\ AtField(b) /\ Readable(X!Sanitized(x)) =>
             /\ X!EscapeCsvValue(x) \in Seq(Chars) /\ X!Sanitized(x) \in Seq(Chars)
             /\ X!ReadCsv(a \o X!EscapeCsvValue(x)) \in
                  {Holding(b, X!Sanitized(x), "plain"), Holding(b, X!Sanitized(x), "closed")}
      BY FieldRead
    <3> QED
      BY <1>1, <2>1, <3>1
<1> DEFINE first == Append(out \o e, comma)
<1>3. first \in Seq(Chars) /\ X!ReadCsv(first) = middle
  <2> HIDE DEF e, s, comma
  <2>1. PICK mode \in {"plain", "closed"} : X!ReadCsv(out \o e) = Holding(begun, s, mode)
    BY <1>2
  <2> DEFINE sent == out \o e
  <2>2. sent \in Seq(Chars)
    BY <1>2
  <2> HIDE DEF sent
  <2>3. X!ReadCsv(Append(sent, comma)) = X!Read(X!ReadCsv(sent), comma)
    BY <1>1, <2>2, ReadNext
  <2> DEFINE now == Holding(begun, s, mode)
  <2>4. /\ now.mode # "quoted" /\ now.field = s /\ now.row = <<>> /\ now.rows = rows
        /\ DOMAIN now = {"rows", "row", "field", "mode"}
    BY DEF Holding, After
  <2>5. X!Field(now) = middle
    <3>1. Append(<<>>, s) = <<s>>
      OBVIOUS
    <3>2. now = [rows |-> rows, row |-> <<>>, field |-> s, mode |-> mode]
      BY HoldingIs DEF After
    <3>3. X!Field(now) = [rows |-> rows, row |-> Append(<<>>, s), field |-> <<>>, mode |-> "plain"]
      <4> HIDE DEF now
      <4> QED
        BY <3>2, FieldIs
    <3> QED
      BY <3>1, <3>3
  <2> HIDE DEF now, middle
  <2>6. X!Read(now, comma) = X!Field(now)
    BY <2>4 DEF X!Read, X!Quote, X!Comma, X!Newline, X!Return, comma
  <2>7. first \in Seq(Chars)
    BY <1>1, <2>2 DEF sent
  <2> QED
    BY <2>1, <2>3, <2>5, <2>6, <2>7 DEF sent, now
<1>4. middle \in Reader(Chars) /\ AtField(middle)
  <2>1. <<s>> \in Seq(Seq(Chars))
    BY <1>2
  <2> HIDE DEF s
  <2> QED
    BY <2>1 DEF Reader, AtField
<1>5. /\ f \in Seq(Chars) /\ t \in Seq(Chars)
      /\ X!ReadCsv(first \o f) \in {Holding(middle, t, "plain"), Holding(middle, t, "closed")}
  <2> HIDE DEF first, middle
  <2> QED
    BY ONLY <1>3, <1>4, FieldRead, Special \subseteq Chars, "'" \in Chars, Readable(t) DEF t
<1>6. X!ReadCsv(Append(first \o f, newline)) = ended
  <2> HIDE DEF f, t, newline, first
  <2>1. PICK mode \in {"plain", "closed"} : X!ReadCsv(first \o f) = Holding(middle, t, mode)
    BY <1>5
  <2> DEFINE sent == first \o f
  <2>2. sent \in Seq(Chars)
    BY <1>3, <1>5
  <2> HIDE DEF sent
  <2>3. X!ReadCsv(Append(sent, newline)) = X!Read(X!ReadCsv(sent), newline)
    BY <1>1, <2>2, ReadNext
  <2> DEFINE now == Holding(middle, t, mode)
  <2>4. /\ now.mode # "quoted" /\ now.field = t /\ now.row = <<s>> /\ now.rows = rows
        /\ DOMAIN now = {"rows", "row", "field", "mode"}
    BY DEF Holding
  <2>5. X!Row(now) = ended
    <3>1. Append(<<s>>, t) = <<s, t>>
      BY <1>2, <1>5, OneMore
    <3>2. now = [rows |-> rows, row |-> <<s>>, field |-> t, mode |-> mode]
      BY HoldingIs
    <3>3. X!Row(now) = [rows |-> Append(rows, Append(<<s>>, t)), row |-> <<>>, field |-> <<>>,
                        mode |-> "plain"]
      <4> HIDE DEF now
      <4> QED
        BY <3>2, RowIs
    <3> QED
      BY <3>1, <3>3 DEF After
  <2> HIDE DEF now, ended
  <2>6. X!Read(now, newline) = X!Row(now)
    BY <2>4 DEF X!Read, X!Quote, X!Comma, X!Newline, X!Return, newline
  <2> QED
    BY <2>1, <2>3, <2>5, <2>6 DEF sent, now
<1> DEFINE line == e \o <<comma>> \o f \o <<newline>>
<1>7. X!CsvLine(<<e, f>>) = line
  BY DEF X!CsvLine
<1>8. line \in Seq(Chars) /\ out \o line = Append(first \o f, newline)
  <2>1. \A ch \in Chars, b \in Seq(Chars) : <<ch>> \in Seq(Chars) /\ b \o <<ch>> = Append(b, ch)
    OBVIOUS
  <2> DEFINE c == <<comma>>
             n == <<newline>>
  <2>2. /\ c \in Seq(Chars) /\ n \in Seq(Chars)
        /\ \A b \in Seq(Chars) : b \o c = Append(b, comma) /\ b \o n = Append(b, newline)
    BY <1>1, <2>1
  <2> HIDE DEF e, f, comma, newline, c, n
  <2>3. e \in Seq(Chars) /\ f \in Seq(Chars) /\ out \in Seq(Chars)
    BY <1>2, <1>5
  <2>0. \A a, b \in Seq(Chars) : out \o (a \o b) = (out \o a) \o b
    BY <1>0, Zenon DEF Associative
  <2> DEFINE ec == e \o c
             ecf == ec \o f
             oe == out \o e
  <2>4. ec \in Seq(Chars) /\ ecf \in Seq(Chars) /\ oe \in Seq(Chars) /\ ecf \o n \in Seq(Chars)
    <3>1. ec \in Seq(Chars) /\ oe \in Seq(Chars)
      BY <2>2, <2>3
    <3> HIDE DEF ec
    <3>2. ecf \in Seq(Chars)
      BY <2>3, <3>1
    <3> HIDE DEF ecf
    <3> QED
      BY <2>2, <3>1, <3>2
  <2>5. out \o ec = Append(oe, comma)
    <3>1. out \o ec = oe \o c
      <4>1. c \in Seq(Chars)
        BY <2>2
      <4> QED
        BY <2>0, <2>3, <4>1, Zenon
    <3> QED
      BY <2>2, <2>4, <3>1
  <2>6. out \o ecf = first \o f
    <3> HIDE DEF ec
    <3>1. out \o ecf = (out \o ec) \o f
      <4>1. ec \in Seq(Chars)
        BY <2>4
      <4> HIDE DEF ec
      <4> QED
        BY <2>0, <2>3, <4>1, Zenon
    <3> QED
      BY <2>5, <3>1
  <2>7. out \o (ecf \o n) = Append(first \o f, newline)
    <3>1. first \o f \in Seq(Chars)
      <4> HIDE DEF first
      <4> QED
        BY <1>3, <2>3
    <3> HIDE DEF ecf, first
    <3>2. out \o (ecf \o n) = (out \o ecf) \o n
      <4>1. n \in Seq(Chars) /\ ecf \in Seq(Chars)
        BY <2>2, <2>4
      <4> QED
        BY <2>0, <2>3, <4>1, Zenon
    <3> DEFINE sent == first \o f
    <3> HIDE DEF sent
    <3>3. sent \o n = Append(sent, newline)
      BY <2>2, <3>1 DEF sent
    <3> QED
      BY <2>6, <3>2, <3>3 DEF sent
  <2> QED
    BY <2>4, <2>7 DEF c, n
<1>9. <<s, t>> \in Seq(Seq(Chars))
  BY <1>2, <1>5
<1> QED
  BY <1>6, <1>7, <1>8, <1>9

(* The names of the columns need no escaping.                              *)
LEMMA HeaderRead ==
    /\ X!CsvLine(X!Columns) =
         X!CsvLine(<<X!EscapeCsvValue(X!Columns[1]), X!EscapeCsvValue(X!Columns[2])>>)
    /\ X!Sanitized(X!Columns[1]) = X!Columns[1] /\ X!Sanitized(X!Columns[2]) = X!Columns[2]
    /\ X!Columns[1] \in Seq(Characters) /\ X!Columns[2] \in Seq(Characters)
    /\ X!Columns = <<X!Columns[1], X!Columns[2]>>
    /\ Readable(X!Columns[1]) /\ Readable(X!Columns[2])
<1> DEFINE a == <<"a">>
           b == <<"a", "a">>
<1>1. X!Columns = <<a, b>> /\ X!Columns[1] = a /\ X!Columns[2] = b
  BY DEF X!Columns
<1>2. X!Sanitized(a) = a /\ X!Sanitized(b) = b
  BY DEF X!Sanitized, X!Return
<1>3. ~X!Enclosed(a) /\ ~X!Enclosed(b) /\ Readable(a) /\ Readable(b)
  BY DEF Readable, X!Enclosed, X!ToSet, X!Quote, X!Comma, X!Newline, X!Return
<1>4. X!EscapeCsvValue(a) = a /\ X!EscapeCsvValue(b) = b
  BY <1>2, <1>3 DEF X!EscapeCsvValue
<1>5. a \in Seq(Characters) /\ b \in Seq(Characters)
  BY TextsAssumption
<1> QED
  BY <1>1, <1>2, <1>3, <1>4, <1>5

(* What a reader should find: the header, and the cells of every row.      *)
Cells(row) == X!Exported(row)

Wanted(rows) == <<X!Columns>> \o [i \in DOMAIN rows |-> Cells(rows[i])]

CsvSent(out, rows) ==
    /\ out \in Seq(Characters)
    /\ X!NoBareReturn(rows) => X!ReadCsv(out) = After(Wanted(rows))

LineOf(row) ==
    LET normal == X!NormalizeExportRow(row)
    IN  X!CsvLine([i \in DOMAIN normal |-> X!EscapeCsvValue(normal[i])])

(* The characters that are treated unlike the others are there. *)
LEMMA Alphabet == Special \subseteq Characters /\ "'" \in Characters
  BY TextsAssumption DEF Special

(* A row is two texts, an empty one for null.                              *)
LEMMA RowNormal ==
    ASSUME NEW row \in X!ExportRows
    PROVE  LET normal == X!NormalizeExportRow(row)
           IN  /\ normal[1] \in Seq(Characters) /\ normal[2] \in Seq(Characters)
               /\ LineOf(row) =
                    X!CsvLine(<<X!EscapeCsvValue(normal[1]), X!EscapeCsvValue(normal[2])>>)
<1>1. \A value \in X!Values : X!FormatExportValue(value) \in Seq(Characters)
  <2>1. SUFFICES ASSUME NEW value \in X!Values PROVE X!FormatExportValue(value) \in Seq(Characters)
    OBVIOUS
  <2>2. CASE value = {}
    BY <2>2 DEF X!FormatExportValue
  <2>3. CASE value # {}
    <3>1. PICK text \in Texts : value = {text}
      BY <2>3 DEF X!Values
    <3>2. X!FormatExportValue(value) = text
      BY <3>1 DEF X!FormatExportValue
    <3> QED
      BY <3>1, <3>2, TextsAssumption
  <2> QED
    BY <2>2, <2>3
<1>2. row[1] \in X!Values /\ row[2] \in X!Values
  BY DEF X!ExportRows
<1> DEFINE normal == X!NormalizeExportRow(row)
<1>3. DOMAIN X!Columns = {1, 2}
  BY DEF X!Columns
<1>4. normal = [i \in {1, 2} |-> X!FormatExportValue(row[i])]
  BY <1>3 DEF X!NormalizeExportRow
<1>5. normal[1] \in Seq(Characters) /\ normal[2] \in Seq(Characters) /\ DOMAIN normal = {1, 2}
  BY <1>1, <1>2, <1>4
<1> HIDE DEF normal
<1>6. [i \in DOMAIN normal |-> X!EscapeCsvValue(normal[i])] =
        <<X!EscapeCsvValue(normal[1]), X!EscapeCsvValue(normal[2])>>
  BY <1>5
<1> QED
  BY <1>5, <1>6 DEF LineOf, normal

(* One more row wants one more line. *)
LEMMA WantedMore ==
    ASSUME NEW rows \in Seq(X!ExportRows), NEW row \in X!ExportRows
    PROVE  /\ Wanted(rows) \in Seq(Seq(Seq(Characters)))
           /\ Wanted(Append(rows, row)) = Append(Wanted(rows), Cells(row))
           /\ Append(rows, row) \in Seq(X!ExportRows)
<1>1. \A r \in X!ExportRows : Cells(r) \in Seq(Seq(Characters))
  <2>1. SUFFICES ASSUME NEW r \in X!ExportRows PROVE Cells(r) \in Seq(Seq(Characters))
    OBVIOUS
  <2> DEFINE normal == X!NormalizeExportRow(r)
  <2>2. normal[1] \in Seq(Characters) /\ normal[2] \in Seq(Characters)
    BY RowNormal
  <2>3. "'" \in Characters
    BY Alphabet
  <2> HIDE DEF normal
  <2>4. X!Sanitized(normal[1]) \in Seq(Characters) /\ X!Sanitized(normal[2]) \in Seq(Characters)
    BY <2>2, <2>3 DEF X!Sanitized
  <2>5. \A a, b \in Seq(Characters) : <<a, b>> \in Seq(Seq(Characters))
    OBVIOUS
  <2> QED
    BY <2>4, <2>5 DEF Cells, X!Exported, normal
<1> DEFINE Lines == Seq(Seq(Characters))
           header == <<X!Columns>>
           cells(rs) == [i \in DOMAIN rs |-> Cells(rs[i])]
<1>2. X!Columns \in Lines
  <2>1. X!Columns[1] \in Seq(Characters) /\ X!Columns[2] \in Seq(Characters)
        /\ X!Columns = <<X!Columns[1], X!Columns[2]>>
    BY HeaderRead
  <2>2. \A a, b \in Seq(Characters) : <<a, b>> \in Lines
    OBVIOUS
  <2> QED
    BY <2>1, <2>2, Zenon
<1>3. header \in Seq(Lines) /\ Len(header) = 1
  <2> HIDE DEF Lines
  <2> QED
    BY <1>2
<1> HIDE DEF Lines, header
<1>4. ASSUME NEW rs \in Seq(X!ExportRows)
      PROVE  cells(rs) \in Seq(Lines) /\ Len(cells(rs)) = Len(rs)
  <2>1. Len(rs) \in Nat /\ DOMAIN rs = 1..Len(rs) /\ \A i \in 1..Len(rs) : rs[i] \in X!ExportRows
    OBVIOUS
  <2>2. \A i \in 1..Len(rs) : Cells(rs[i]) \in Lines
    BY <1>1, <2>1 DEF Lines
  <2> DEFINE cell(i) == Cells(rs[i])
             n == Len(rs)
  <2>3. cells(rs) = [i \in 1..n |-> cell(i)]
    BY <2>1
  <2> HIDE DEF cell, n, cells
  <2> QED
    BY <2>1, <2>2, <2>3 DEF cell, n
<1>5. cells(Append(rows, row)) = Append(cells(rows), Cells(row))
  <2> DEFINE more == Append(rows, row)
  <2>1. /\ more \in Seq(X!ExportRows) /\ Len(more) = Len(rows) + 1
        /\ \A i \in 1..Len(rows) : more[i] = rows[i]
        /\ more[Len(rows) + 1] = row
    OBVIOUS
  <2> HIDE DEF more
  <2>2. cells(more) \in Seq(Lines) /\ Len(cells(more)) = Len(rows) + 1
    BY <1>4, <2>1
  <2>3. cells(rows) \in Seq(Lines) /\ Len(cells(rows)) = Len(rows) /\ Cells(row) \in Lines
    BY <1>1, <1>4 DEF Lines
  <2>4. /\ Append(cells(rows), Cells(row)) \in Seq(Lines)
        /\ Len(Append(cells(rows), Cells(row))) = Len(rows) + 1
        /\ \A i \in 1..Len(rows) : Append(cells(rows), Cells(row))[i] = cells(rows)[i]
        /\ Append(cells(rows), Cells(row))[Len(rows) + 1] = Cells(row)
    <3> DEFINE s == cells(rows)
    <3> HIDE DEF cells
    <3> QED
      BY <2>3
  <2>5. \A i \in 1..(Len(rows) + 1) : cells(more)[i] = Append(cells(rows), Cells(row))[i]
    <3>1. \A i \in 1..Len(rows) : cells(more)[i] = Cells(rows[i]) /\ cells(rows)[i] = Cells(rows[i])
      BY <2>1
    <3>2. cells(more)[Len(rows) + 1] = Cells(row)
      BY <2>1
    <3>3. Len(rows) \in Nat
      OBVIOUS
    <3> HIDE DEF cells
    <3> QED
      BY <2>4, <3>1, <3>2, <3>3
  <2>6. cells(more) = Append(cells(rows), Cells(row))
    <3> HIDE DEF cells
    <3> QED
      BY <2>2, <2>4, <2>5, SeqEqual
  <2> QED
    BY <2>6 DEF more
<1>6. \A s \in Seq(Lines), c \in Lines : header \o Append(s, c) = Append(header \o s, c)
                                 /\ header \o s \in Seq(Lines)
  BY <1>3
<1>7. header \o Append(cells(rows), Cells(row)) = Append(header \o cells(rows), Cells(row))
      /\ header \o cells(rows) \in Seq(Lines)
  <2>1. cells(rows) \in Seq(Lines) /\ Cells(row) \in Lines
    BY <1>1, <1>4 DEF Lines
  <2> HIDE DEF cells
  <2> QED
    BY <1>6, <2>1, Zenon
<1> QED
  BY <1>5, <1>7 DEF Wanted, header, Lines

(* Escaped texts are over the same characters, and so is their line.       *)
LEMMA LineWritten ==
    ASSUME NEW one \in Seq(Characters), NEW two \in Seq(Characters)
    PROVE  X!CsvLine(<<X!EscapeCsvValue(one), X!EscapeCsvValue(two)>>) \in Seq(Characters)
<1>1. ASSUME NEW text \in Seq(Characters) PROVE X!EscapeCsvValue(text) \in Seq(Characters)
  <2> DEFINE s == X!Sanitized(text)
             d == X!Doubled(s)
  <2>1. s \in Seq(Characters)
    BY Alphabet DEF X!Sanitized
  <2> HIDE DEF s
  <2>2. d \in Seq(Characters) /\ X!Quote \in Characters
    BY <2>1, Alphabet, DoubledType DEF Special
  <2> HIDE DEF d
  <2>3. <<X!Quote>> \o d \o <<X!Quote>> \in Seq(Characters)
    BY <2>2
  <2>4. X!EscapeCsvValue(text) \in {<<X!Quote>> \o d \o <<X!Quote>>, s}
    BY DEF X!EscapeCsvValue, s, d
  <2> QED
    BY <2>1, <2>3, <2>4
<1> DEFINE e == X!EscapeCsvValue(one)
           f == X!EscapeCsvValue(two)
           c == <<X!Comma>>
           n == <<X!Newline>>
<1>2. e \in Seq(Characters) /\ f \in Seq(Characters)
      /\ c \in Seq(Characters) /\ n \in Seq(Characters)
  BY <1>1, Alphabet DEF Special
<1>3. X!CsvLine(<<e, f>>) = e \o c \o f \o n
  BY DEF X!CsvLine
<1> HIDE DEF e, f, c, n
<1>4. e \o c \in Seq(Characters)
  BY <1>2
<1> DEFINE ec == e \o c
<1> HIDE DEF ec
<1>5. ec \o f \in Seq(Characters)
  BY <1>2, <1>4 DEF ec
<1> DEFINE ecf == ec \o f
<1> HIDE DEF ecf
<1>6. ecf \o n \in Seq(Characters)
  BY <1>2, <1>5 DEF ecf
<1> QED
  BY <1>3, <1>6 DEF e, f, ec, ecf

(* The same over the characters of the exports. *)
LEMMA LineSent ==
    ASSUME NEW out \in Seq(Characters), NEW rows \in Seq(Seq(Seq(Characters))),
           X!ReadCsv(out) = After(rows), NEW one \in Seq(Characters), NEW two \in Seq(Characters),
           Readable(X!Sanitized(one)), Readable(X!Sanitized(two))
    PROVE  X!ReadCsv(out \o X!CsvLine(<<X!EscapeCsvValue(one), X!EscapeCsvValue(two)>>)) =
                After(Append(rows, <<X!Sanitized(one), X!Sanitized(two)>>))
  BY Alphabet, LineRead

(* Rows that can be read were so before the last came in, and it can.      *)
LEMMA ReadableBefore ==
    ASSUME NEW rows \in Seq(X!ExportRows), NEW row, X!NoBareReturn(Append(rows, row))
    PROVE  X!NoBareReturn(rows) /\ Readable(Cells(row)[1]) /\ Readable(Cells(row)[2])
<1> DEFINE more == Append(rows, row)
<1>1. /\ \A i \in DOMAIN rows : i \in DOMAIN more /\ more[i] = rows[i]
      /\ Len(rows) + 1 \in DOMAIN more /\ more[Len(rows) + 1] = row
  OBVIOUS
<1>2. 1 \in DOMAIN X!Columns /\ 2 \in DOMAIN X!Columns
  BY DEF X!Columns
<1>3. \A i \in DOMAIN more : \A j \in DOMAIN X!Columns : Readable(Cells(more[i])[j])
  BY DEF X!NoBareReturn, Readable, Cells
<1> HIDE DEF more
<1>4. \A i \in DOMAIN rows : \A j \in DOMAIN X!Columns : Readable(Cells(rows[i])[j])
  BY <1>1, <1>3
<1> QED
  BY <1>1, <1>2, <1>3, <1>4 DEF X!NoBareReturn, Readable, Cells

(* The header, and each row that is sent after it, can be read.            *)
LEMMA RowSent ==
    ASSUME NEW out, NEW rows \in Seq(X!ExportRows), CsvSent(out, rows), NEW row \in X!ExportRows
    PROVE  LineOf(row) \in Seq(Characters) /\ CsvSent(out \o LineOf(row), Append(rows, row))
<1> DEFINE normal == X!NormalizeExportRow(row)
           one == normal[1]
           two == normal[2]
<1>1. one \in Seq(Characters) /\ two \in Seq(Characters)
      /\ LineOf(row) = X!CsvLine(<<X!EscapeCsvValue(one), X!EscapeCsvValue(two)>>)
  BY RowNormal
<1>2. Cells(row) = <<X!Sanitized(one), X!Sanitized(two)>>
  BY DEF Cells, X!Exported
<1>3. Wanted(rows) \in Seq(Seq(Seq(Characters)))
      /\ Wanted(Append(rows, row)) = Append(Wanted(rows), Cells(row))
  BY WantedMore
<1>4. out \in Seq(Characters)
  BY DEF CsvSent
<1> HIDE DEF one, two
<1> DEFINE all == Wanted(rows)
<1> HIDE DEF all
<1>5. LineOf(row) \in Seq(Characters)
  BY <1>1, LineWritten
<1>6. out \o LineOf(row) \in Seq(Characters)
  BY <1>4, <1>5
<1>7. ASSUME X!NoBareReturn(Append(rows, row))
      PROVE  X!ReadCsv(out \o LineOf(row)) = After(Append(all, Cells(row)))
  <2>1. X!NoBareReturn(rows) /\ Readable(Cells(row)[1]) /\ Readable(Cells(row)[2])
    BY <1>7, ReadableBefore
  <2>2. all \in Seq(Seq(Seq(Characters))) /\ X!ReadCsv(out) = After(all)
    BY <1>3, <2>1 DEF CsvSent, all
  <2>3. Readable(X!Sanitized(one)) /\ Readable(X!Sanitized(two))
    BY <1>2, <2>1
  <2>4. X!ReadCsv(out \o X!CsvLine(<<X!EscapeCsvValue(one), X!EscapeCsvValue(two)>>)) =
          After(Append(all, <<X!Sanitized(one), X!Sanitized(two)>>))
    BY <1>1, <1>4, <2>2, <2>3, LineSent
  <2> QED
    BY <1>1, <1>2, <2>4
<1> QED
  BY <1>3, <1>5, <1>6, <1>7 DEF CsvSent, all

(* The header alone can be read. *)
LEMMA HeaderSent == CsvSent(X!CsvLine(X!Columns), <<>>)
<1> DEFINE one == X!Columns[1]
           two == X!Columns[2]
<1>1. /\ one \in Seq(Characters) /\ two \in Seq(Characters)
      /\ X!CsvLine(X!Columns) = X!CsvLine(<<X!EscapeCsvValue(one), X!EscapeCsvValue(two)>>)
      /\ X!Columns = <<X!Sanitized(one), X!Sanitized(two)>>
      /\ Readable(X!Sanitized(one)) /\ Readable(X!Sanitized(two))
  <2>1. X!Sanitized(X!Columns[1]) = X!Columns[1] /\ X!Sanitized(X!Columns[2]) = X!Columns[2]
    BY HeaderRead
  <2> QED
    BY <2>1, HeaderRead
<1> DEFINE line == X!CsvLine(X!Columns)
           nothing == <<>>
<1>2. X!ReadCsv(nothing) = After(nothing) /\ nothing \in Seq(Characters)
      /\ nothing \in Seq(Seq(Seq(Characters)))
  BY ReadNothing DEF After, Blank
<1> HIDE DEF one, two, nothing
<1>3. /\ X!CsvLine(<<X!EscapeCsvValue(one), X!EscapeCsvValue(two)>>) \in Seq(Characters)
      /\ X!ReadCsv(nothing \o X!CsvLine(<<X!EscapeCsvValue(one), X!EscapeCsvValue(two)>>)) =
           After(Append(nothing, <<X!Sanitized(one), X!Sanitized(two)>>))
  <2>1. \A out \in Seq(Characters), rows \in Seq(Seq(Seq(Characters))) :
          X!ReadCsv(out) = After(rows) =>
          X!ReadCsv(out \o X!CsvLine(<<X!EscapeCsvValue(one), X!EscapeCsvValue(two)>>)) =
               After(Append(rows, <<X!Sanitized(one), X!Sanitized(two)>>))
    BY <1>1, LineSent
  <2>2. X!CsvLine(<<X!EscapeCsvValue(one), X!EscapeCsvValue(two)>>) \in Seq(Characters)
    BY <1>1, LineWritten
  <2> QED
    BY <1>2, <2>1, <2>2, Zenon
<1>4. line \in Seq(Characters) /\ X!ReadCsv(nothing \o line) = After(Append(nothing, X!Columns))
  BY <1>1, <1>3
<1> HIDE DEF line
<1>5. nothing \o line = line
  BY <1>4 DEF nothing
<1>6. Append(nothing, X!Columns) = Wanted(<<>>)
  <2> DEFINE header == X!Columns
  <2> HIDE DEF header
  <2>1. Append(<<>>, header) = <<header>>
    OBVIOUS
  <2>2. <<header>> \o <<>> = <<header>>
    OBVIOUS
  <2>3. [i \in DOMAIN <<>> |-> Cells(<<>>[i])] = <<>>
    OBVIOUS
  <2> QED
    BY <2>1, <2>2, <2>3 DEF Wanted, nothing, header
<1> QED
  BY <1>4, <1>5, <1>6 DEF CsvSent, line

(* The JSON that was sent when n rows had come in.                         *)
JsonSoFar(n) == <<"[">> \o [i \in 1..(2 * n - 1) |-> IF i % 2 = 1 THEN "row" ELSE X!Comma]

LEMMA TwoMore ==
    ASSUME NEW W, NEW u \in Seq(W), NEW v \in Seq(W), Len(v) = 2
    PROVE  /\ u \o v \in Seq(W) /\ Len(u \o v) = Len(u) + 2
           /\ \A i \in 1..Len(u) : (u \o v)[i] = u[i]
           /\ (u \o v)[Len(u) + 1] = v[1] /\ (u \o v)[Len(u) + 2] = v[2]
<1> DEFINE m == Len(u)
           w == u \o v
<1>1. /\ w \in Seq(W) /\ Len(w) = m + Len(v)
      /\ \A i \in 1..(m + Len(v)) : w[i] = IF i <= m THEN u[i] ELSE v[i - m]
  BY ConcatProperties
<1>2. m \in Nat
  OBVIOUS
<1> HIDE DEF m, w
<1>3. \A i \in 1..m : w[i] = u[i]
  BY <1>1, <1>2
<1>4. w[m + 1] = v[1]
  <2> DEFINE i == m + 1
  <2>1. i \in 1..(m + Len(v)) /\ ~(i <= m) /\ i - m = 1
    BY <1>2
  <2> HIDE DEF i
  <2>2. w[i] = v[i - m]
    BY <1>1, <2>1
  <2> QED
    BY <2>1, <2>2 DEF i
<1>5. w[m + 2] = v[2]
  <2> DEFINE i == m + 2
  <2>1. i \in 1..(m + Len(v)) /\ ~(i <= m) /\ i - m = 2
    BY <1>2
  <2> HIDE DEF i
  <2>2. w[i] = v[i - m]
    BY <1>1, <2>1
  <2> QED
    BY <2>1, <2>2 DEF i
<1> QED
  BY <1>1, <1>3, <1>4, <1>5 DEF m, w

LEMMA TwoWords == ASSUME NEW a, NEW b PROVE <<a>> \o <<b>> = <<a, b>>
<1>1. <<a>> \in Seq({a, b})
  OBVIOUS
<1>2. <<a>> \o <<b>> = Append(<<a>>, b)
  <2>1. \A s \in Seq({a, b}) : s \o <<b>> = Append(s, b)
    OBVIOUS
  <2> QED
    BY <1>1, <2>1
<1>3. a \in {a, b} /\ b \in {a, b}
  OBVIOUS
<1>4. Append(<<a>>, b) = <<a, b>>
  BY <1>3, OneMore
<1> QED
  BY <1>2, <1>4

(* One more row adds one entry to the JSON. *)
LEMMA JsonMore ==
    ASSUME NEW n \in Nat \ {0}
    PROVE  JsonSoFar(n) \o <<X!Comma, "row">> = JsonSoFar(n + 1)
<1> DEFINE Words == {"[", "row", X!Comma}
           word(i) == IF i % 2 = 1 THEN "row" ELSE X!Comma
           tail(m) == [i \in 1..(2 * m - 1) |-> word(i)]
           next == <<X!Comma, "row">>
           begin == <<"[">>
<1>1. begin \in Seq(Words) /\ Len(begin) = 1 /\ next \in Seq(Words) /\ Len(next) = 2
      /\ next[1] = X!Comma /\ next[2] = "row"
  OBVIOUS
<1>2. ASSUME NEW m \in Nat \ {0}
      PROVE  /\ tail(m) \in Seq(Words) /\ Len(tail(m)) = 2 * m - 1
             /\ \A i \in 1..(2 * m - 1) : tail(m)[i] = word(i)
  <2>1. 2 * m - 1 \in Nat
    OBVIOUS
  <2>2. \A i \in 1..(2 * m - 1) : word(i) \in Words
    OBVIOUS
  <2> HIDE DEF word, Words
  <2> QED
    BY <2>1, <2>2
<1>3. word(2 * n) = X!Comma /\ word(2 * n + 1) = "row"
  OBVIOUS
<1> HIDE DEF Words, word, next, begin
<1>4. tail(n) \o next = tail(n + 1)
  <2>1. n + 1 \in Nat \ {0} /\ 2 * (n + 1) - 1 = 2 * n + 1 /\ 2 * n - 1 \in Nat
    OBVIOUS
  <2> DEFINE s == tail(n)
             t == tail(n + 1)
  <2>2. /\ s \in Seq(Words) /\ Len(s) = 2 * n - 1
        /\ \A i \in 1..(2 * n - 1) : s[i] = word(i)
    BY <1>2
  <2>3. /\ t \in Seq(Words) /\ Len(t) = 2 * n + 1
        /\ \A i \in 1..(2 * n + 1) : t[i] = word(i)
    BY <1>2, <2>1
  <2> HIDE DEF s, t, tail
  <2>4. /\ s \o next \in Seq(Words) /\ Len(s \o next) = 2 * n + 1
        /\ \A i \in 1..(2 * n - 1) : (s \o next)[i] = s[i]
        /\ (s \o next)[2 * n] = next[1] /\ (s \o next)[2 * n + 1] = next[2]
    <3>1. \A u \in Seq(Words) :
            /\ u \o next \in Seq(Words) /\ Len(u \o next) = Len(u) + 2
            /\ \A i \in 1..Len(u) : (u \o next)[i] = u[i]
            /\ (u \o next)[Len(u) + 1] = next[1] /\ (u \o next)[Len(u) + 2] = next[2]
      BY <1>1, TwoMore
    <3>2. 2 * n - 1 + 2 = 2 * n + 1 /\ 2 * n - 1 + 1 = 2 * n
      OBVIOUS
    <3> QED
      BY <2>2, <3>1, <3>2
  <2>5. \A i \in 1..(2 * n + 1) : (s \o next)[i] = t[i]
    BY <1>1, <1>3, <2>2, <2>3, <2>4
  <2>6. s \o next = t
    BY <2>3, <2>4, <2>5, SeqEqual
  <2> QED
    BY <2>6 DEF s, t
<1>5. begin \o (tail(n) \o next) = (begin \o tail(n)) \o next
  <2> DEFINE s == tail(n)
  <2>1. s \in Seq(Words)
    BY <1>2
  <2> HIDE DEF s, tail
  <2>2. begin \o (s \o next) = (begin \o s) \o next
    <3>1. Associative(Words)
      BY ConcatIsAssociative
    <3> QED
      BY <1>1, <2>1, <3>1, Zenon DEF Associative
  <2> QED
    BY <2>2 DEF s
<1> QED
  BY <1>4, <1>5 DEF JsonSoFar, begin, next, word

LEMMA JsonFirst ==
    /\ <<>> \o <<"[", "row">> = JsonSoFar(1)
    /\ <<>> \o <<"[", "]">> = X!JsonList(0)
<1>1. <<>> \o <<"[", "row">> = <<"[", "row">> /\ <<>> \o <<"[", "]">> = <<"[", "]">>
  OBVIOUS
<1>2. [i \in 1..(2 * 1 - 1) |-> IF i % 2 = 1 THEN "row" ELSE X!Comma] = <<"row">>
  <2>1. 2 * 1 - 1 = 1 /\ 1 % 2 = 1
    OBVIOUS
  <2>2. [i \in 1..1 |-> IF i % 2 = 1 THEN "row" ELSE X!Comma] = [i \in 1..1 |-> "row"]
    BY <2>1
  <2>3. [i \in 1..1 |-> "row"] = <<"row">>
    <3> DEFINE f == [i \in 1..1 |-> "row"]
               g == <<"row">>
    <3>1. f \in Seq({"row"}) /\ Len(f) = 1 /\ f[1] = "row"
      <4>1. f \in Seq({"row"})
        OBVIOUS
      <4>2. Len(f) = 1
        OBVIOUS
      <4>3. f[1] = "row"
        OBVIOUS
      <4> QED
        BY <4>1, <4>2, <4>3
    <3>2. g \in Seq({"row"}) /\ Len(g) = 1 /\ g[1] = "row"
      OBVIOUS
    <3> HIDE DEF f, g
    <3>3. f = g
      BY <3>1, <3>2, SeqEqual
    <3> QED
      BY <3>3 DEF f, g
  <2> QED
    BY <2>1, <2>2, <2>3
<1>3. <<"[">> \o <<"row">> = <<"[", "row">>
  BY TwoWords
<1>4. [i \in 1..(2 * 0 - 1) |-> IF i % 2 = 1 THEN "row" ELSE X!Comma] = <<>>
  <2> DEFINE none == 1..(2 * 0 - 1)
             word(i) == IF i % 2 = 1 THEN "row" ELSE X!Comma
  <2>1. none = {}
    <3>1. 2 * 0 - 1 = -1
      OBVIOUS
    <3>2. 1..(-1) = {}
      OBVIOUS
    <3> QED
      BY <3>1, <3>2
  <2> HIDE DEF none, word
  <2>2. [i \in none |-> word(i)] = <<>>
    BY <2>1
  <2> QED
    BY <2>2 DEF none, word
<1>5. <<"[">> \o <<>> \o <<"]">> = <<"[", "]">>
  <2>1. <<"[">> \o <<>> = <<"[">>
    OBVIOUS
  <2>2. <<"[">> \o <<"]">> = <<"[", "]">>
    BY TwoWords
  <2> QED
    BY <2>1, <2>2
<1> QED
  BY <1>1, <1>2, <1>3, <1>4, <1>5 DEF JsonSoFar, X!JsonList

Exporting(pc, format, wroteHeader, rows, out) ==
    [pc |-> pc, format |-> format, wroteHeader |-> wroteHeader, rows |-> rows, out |-> out]

(* What was sent while rows were coming in.                                *)
Streamed ==
    IF export.wroteHeader
    THEN IF export.format = "csv"
         THEN CsvSent(export.out, export.rows)
         ELSE Len(export.rows) > 0 /\ export.out = JsonSoFar(Len(export.rows))
    ELSE export.rows = <<>> /\ export.out = <<>>

Whole ==
    IF export.format = "csv"
    THEN CsvSent(export.out, export.rows)
    ELSE export.out = X!JsonList(Len(export.rows))

ExportInv ==
    /\ export = Exporting(export.pc, export.format, export.wroteHeader, export.rows, export.out)
    /\ export.format \in {"csv", "json"} /\ export.wroteHeader \in BOOLEAN
    /\ export.rows \in Seq(X!ExportRows)
    /\ export.pc = "streaming" => Streamed
    /\ export.pc = "ended" => Whole

(* The fields of an export, and what each change makes of them. *)
LEMMA ExportFields ==
    ASSUME NEW pc, NEW format, NEW wroteHeader, NEW rows, NEW out, NEW e,
           e = Exporting(pc, format, wroteHeader, rows, out)
    PROVE  /\ e.pc = pc /\ e.format = format /\ e.wroteHeader = wroteHeader
           /\ e.rows = rows /\ e.out = out
  BY DEF Exporting

(* The four changes of an export.                                          *)
Starting(e, format) == [e EXCEPT !.pc = "streaming", !.format = format]
Adding(e, rows, out, wrote) ==
    [e EXCEPT !.rows = rows, !.out = out, !.wroteHeader = wrote]
Ending(e, out) == [e EXCEPT !.pc = "ended", !.out = out]
Breaking(e) == [e EXCEPT !.pc = "broken"]

LEMMA StartingIs ==
    ASSUME NEW pc, NEW format, NEW wroteHeader, NEW rows, NEW out, NEW e,
           e = Exporting(pc, format, wroteHeader, rows, out), NEW other
    PROVE  Starting(e, other) = Exporting("streaming", other, wroteHeader, rows, out)
<1>1. e \in [pc : {pc}, format : {format}, wroteHeader : {wroteHeader}, rows : {rows},
             out : {out}]
  BY DEF Exporting
<1>2. Starting(e, other) \in [pc : {"streaming"}, format : {other}, wroteHeader : {wroteHeader},
                          rows : {rows}, out : {out}]
  BY <1>1 DEF Starting
<1> QED
  BY <1>2 DEF Exporting

LEMMA AddingIs ==
    ASSUME NEW pc, NEW format, NEW wroteHeader, NEW rows, NEW out, NEW e,
           e = Exporting(pc, format, wroteHeader, rows, out), NEW more, NEW sent, NEW wrote
    PROVE  Adding(e, more, sent, wrote) = Exporting(pc, format, wrote, more, sent)
<1>1. e \in [pc : {pc}, format : {format}, wroteHeader : {wroteHeader}, rows : {rows},
             out : {out}]
  BY DEF Exporting
<1>2. Adding(e, more, sent, wrote) \in [pc : {pc}, format : {format}, wroteHeader : {wrote}, rows : {more},
                             out : {sent}]
  BY <1>1 DEF Adding
<1> QED
  BY <1>2 DEF Exporting

LEMMA EndingIs ==
    ASSUME NEW pc, NEW format, NEW wroteHeader, NEW rows, NEW out, NEW e,
           e = Exporting(pc, format, wroteHeader, rows, out), NEW sent
    PROVE  Ending(e, sent) = Exporting("ended", format, wroteHeader, rows, sent)
<1>1. e \in [pc : {pc}, format : {format}, wroteHeader : {wroteHeader}, rows : {rows},
             out : {out}]
  BY DEF Exporting
<1>2. Ending(e, sent) \in [pc : {"ended"}, format : {format}, wroteHeader : {wroteHeader},
                       rows : {rows}, out : {sent}]
  BY <1>1 DEF Ending
<1> QED
  BY <1>2 DEF Exporting

LEMMA BreakingIs ==
    ASSUME NEW pc, NEW format, NEW wroteHeader, NEW rows, NEW out, NEW e,
           e = Exporting(pc, format, wroteHeader, rows, out)
    PROVE  Breaking(e) = Exporting("broken", format, wroteHeader, rows, out)
<1>1. e \in [pc : {pc}, format : {format}, wroteHeader : {wroteHeader}, rows : {rows},
             out : {out}]
  BY DEF Exporting
<1>2. Breaking(e) \in [pc : {"broken"}, format : {format}, wroteHeader : {wroteHeader},
                   rows : {rows}, out : {out}]
  BY <1>1 DEF Breaking
<1> QED
  BY <1>2 DEF Exporting

LEMMA ExportInit == X!ExportsInit => ExportInv
<1>1. ASSUME X!ExportsInit PROVE ExportInv
  <2>1. export = Exporting("none", "csv", FALSE, <<>>, <<>>)
    BY <1>1 DEF X!ExportsInit, X!NoExport, Exporting
  <2>2. /\ export.pc = "none" /\ export.format = "csv" /\ export.wroteHeader = FALSE
        /\ export.rows = <<>> /\ export.out = <<>>
    BY <2>1 DEF Exporting
  <2>3. <<>> \in Seq(X!ExportRows)
    OBVIOUS
  <2> QED
    BY <2>1, <2>2, <2>3 DEF ExportInv
<1> QED
  BY <1>1

(* A row that comes in keeps what was sent readable. *)
LEMMA TransformStep ==
    ASSUME ExportInv, NEW row \in X!ExportRows, X!Transform(row) PROVE ExportInv'
<1> DEFINE format == export.format
           wrote == export.wroteHeader
           rows == export.rows
           out == export.out
           more == Append(rows, row)
           written == IF format = "csv" THEN X!HeaderIfFirst \o LineOf(row)
                      ELSE <<IF wrote THEN X!Comma ELSE "[", "row">>
           sent == out \o written
<1>1. /\ export.pc = "streaming" /\ format \in {"csv", "json"}
      /\ wrote \in BOOLEAN /\ rows \in Seq(X!ExportRows)
      /\ export = Exporting("streaming", format, wrote, rows, out)
      /\ IF wrote
         THEN IF format = "csv"
              THEN CsvSent(out, rows)
              ELSE Len(rows) > 0 /\ out = JsonSoFar(Len(rows))
         ELSE rows = <<>> /\ out = <<>>
      /\ X!HeaderIfFirst = IF wrote THEN <<>> ELSE X!CsvLine(X!Columns)
  BY DEF ExportInv, Streamed, X!HeaderIfFirst, X!Transform
<1>2. export' = Adding(export, more, sent, TRUE)
  BY Zenon DEF X!Transform, LineOf, Adding
<1> HIDE DEF format, wrote, rows, out
<1>3. more \in Seq(X!ExportRows) /\ Len(more) = Len(rows) + 1 /\ Len(rows) \in Nat
  BY <1>1
<1>4. ASSUME format = "csv" PROVE CsvSent(sent, more)
  <2>1. CASE wrote
    <3>1. CsvSent(out, rows) /\ X!HeaderIfFirst = <<>>
      BY <1>1, <1>4, <2>1
    <3>2. LineOf(row) \in Seq(Characters) /\ CsvSent(out \o LineOf(row), more)
      BY <1>1, <3>1, RowSent
    <3>3. written = LineOf(row)
      BY <1>4, <3>1, <3>2
    <3> HIDE DEF written, more
    <3> QED
      BY <3>2, <3>3
  <2>2. CASE ~wrote
    <3> DEFINE header == X!CsvLine(X!Columns)
    <3>1. rows = <<>> /\ out = <<>> /\ X!HeaderIfFirst = header
      BY <1>1, <2>2
    <3>2. CsvSent(header, rows) /\ header \in Seq(Characters)
      BY <3>1, HeaderSent DEF CsvSent
    <3> HIDE DEF header
    <3>3. LineOf(row) \in Seq(Characters) /\ CsvSent(header \o LineOf(row), more)
      BY <1>1, <3>2, RowSent
    <3>4. written = header \o LineOf(row)
      BY <1>4, <3>1
    <3>5. written \in Seq(Characters)
      <4> HIDE DEF written
      <4> QED
        BY <3>2, <3>3, <3>4
    <3> HIDE DEF written, more
    <3>6. sent = written
      BY <3>1, <3>5
    <3> HIDE DEF sent
    <3> QED
      BY <3>3, <3>4, <3>6
  <2> QED
    BY <1>1, <2>1, <2>2
<1>5. ASSUME format = "json" PROVE Len(more) > 0 /\ sent = JsonSoFar(Len(more))
  <2>1. CASE wrote
    <3> DEFINE n == Len(rows)
    <3>1. n \in Nat \ {0} /\ out = JsonSoFar(n)
      BY <1>1, <1>3, <1>5, <2>1
    <3>2. written = <<X!Comma, "row">>
      BY <1>5, <2>1
    <3> HIDE DEF n, written, more
    <3>3. JsonSoFar(n) \o <<X!Comma, "row">> = JsonSoFar(n + 1)
      BY <3>1, JsonMore
    <3>4. sent = JsonSoFar(n + 1)
      BY <3>1, <3>2, <3>3
    <3> HIDE DEF sent
    <3> QED
      BY <1>3, <3>4 DEF n
  <2>2. CASE ~wrote
    <3>1. Len(rows) = 0 /\ out = <<>>
      BY <1>1, <2>2
    <3>2. written = <<"[", "row">>
      BY <1>5, <2>2
    <3> HIDE DEF written, more
    <3>3. sent = JsonSoFar(1)
      BY <3>1, <3>2, JsonFirst
    <3> HIDE DEF sent
    <3> QED
      BY <1>3, <3>1, <3>3
  <2>3. Len(more) > 0
    BY <1>3
  <2> QED
    BY <1>1, <2>1, <2>2, <2>3
<1> HIDE DEF more, sent, written
<1>6. export' = Exporting("streaming", format, TRUE, more, sent)
  <2> DEFINE yes == TRUE
  <2>1. /\ export = Exporting("streaming", format, wrote, rows, out)
        /\ export' = Adding(export, more, sent, yes)
    BY <1>1, <1>2
  <2> HIDE DEF yes
  <2>2. export' = Exporting("streaming", format, yes, more, sent)
    BY ONLY <2>1, AddingIs
  <2> QED
    BY <2>2 DEF yes
<1>7. /\ export'.pc = "streaming" /\ export'.format = format /\ export'.wroteHeader = TRUE
      /\ export'.rows = more /\ export'.out = sent
  BY <1>6 DEF Exporting
<1>8. IF format = "csv" THEN CsvSent(sent, more) ELSE Len(more) > 0 /\ sent = JsonSoFar(Len(more))
  <2>1. CASE format = "csv"
    BY <1>4, <2>1
  <2>2. CASE format = "json"
    BY <1>5, <2>2
  <2> QED
    BY <1>1, <2>1, <2>2
<1> QED
  BY <1>1, <1>3, <1>6, <1>7, <1>8 DEF ExportInv, Streamed

(* The end of the answer makes it whole. *)
LEMMA FlushStep == ASSUME ExportInv, X!Flush PROVE ExportInv'
<1> DEFINE format == export.format
           wrote == export.wroteHeader
           rows == export.rows
           out == export.out
           written == IF format = "csv" THEN X!HeaderIfFirst
                      ELSE IF wrote THEN <<"]">> ELSE <<"[", "]">>
           sent == out \o written
<1>1. /\ export.pc = "streaming" /\ format \in {"csv", "json"}
      /\ wrote \in BOOLEAN /\ rows \in Seq(X!ExportRows)
      /\ export = Exporting("streaming", format, wrote, rows, out)
      /\ IF wrote
         THEN IF format = "csv"
              THEN CsvSent(out, rows)
              ELSE Len(rows) > 0 /\ out = JsonSoFar(Len(rows))
         ELSE rows = <<>> /\ out = <<>>
      /\ X!HeaderIfFirst = IF wrote THEN <<>> ELSE X!CsvLine(X!Columns)
  BY DEF ExportInv, Streamed, X!HeaderIfFirst, X!Flush
<1>2. export' = Ending(export, sent)
  BY Zenon DEF X!Flush, Ending
<1> HIDE DEF format, wrote, rows, out
<1>4. ASSUME format = "csv" PROVE CsvSent(sent, rows)
  <2>1. CASE wrote
    <3>1. CsvSent(out, rows) /\ written = <<>>
      BY <1>1, <1>4, <2>1
    <3> HIDE DEF written
    <3>2. sent = out
      BY <3>1 DEF CsvSent
    <3> QED
      BY <3>1, <3>2
  <2>2. CASE ~wrote
    <3> DEFINE header == X!CsvLine(X!Columns)
    <3>1. rows = <<>> /\ out = <<>> /\ written = header
      BY <1>1, <1>4, <2>2
    <3>2. CsvSent(header, rows) /\ header \in Seq(Characters)
      BY <3>1, HeaderSent DEF CsvSent
    <3> HIDE DEF header, written
    <3>3. sent = header
      BY <3>1, <3>2
    <3> QED
      BY <3>2, <3>3
  <2> QED
    BY <1>1, <2>1, <2>2
<1>5. ASSUME format = "json" PROVE sent = X!JsonList(Len(rows))
  <2>1. CASE wrote
    <3> DEFINE n == Len(rows)
    <3>1. out = JsonSoFar(n) /\ written = <<"]">>
      BY <1>1, <1>5, <2>1
    <3> HIDE DEF written, n
    <3>2. sent = JsonSoFar(n) \o <<"]">>
      BY <3>1
    <3> QED
      BY <3>2, Zenon DEF JsonSoFar, X!JsonList, n
  <2>2. CASE ~wrote
    <3>1. Len(rows) = 0 /\ out = <<>> /\ written = <<"[", "]">>
      BY <1>1, <1>5, <2>2
    <3> HIDE DEF written
    <3>2. sent = X!JsonList(0)
      BY <3>1, JsonFirst
    <3> HIDE DEF sent
    <3> QED
      BY <3>1, <3>2
  <2> HIDE DEF sent
  <2> QED
    BY <1>1, <2>1, <2>2
<1> HIDE DEF sent, written
<1>6. export' = Exporting("ended", format, wrote, rows, sent)
  BY <1>1, <1>2, EndingIs
<1>7. /\ export'.pc = "ended" /\ export'.format = format /\ export'.wroteHeader = wrote
      /\ export'.rows = rows /\ export'.out = sent
  BY <1>6 DEF Exporting
<1>8. IF format = "csv" THEN CsvSent(sent, rows) ELSE sent = X!JsonList(Len(rows))
  <2>1. CASE format = "csv"
    BY <1>4, <2>1
  <2>2. CASE format = "json"
    BY <1>5, <2>2
  <2> QED
    BY <1>1, <2>1, <2>2
<1> QED
  BY <1>1, <1>6, <1>7, <1>8 DEF ExportInv, Whole

LEMMA ExportStep == ExportInv /\ [X!ExportsNext]_export => ExportInv'
<1> SUFFICES ASSUME ExportInv, [X!ExportsNext]_export PROVE ExportInv'
  OBVIOUS
<1>1. ASSUME export' = export PROVE ExportInv'
  BY <1>1 DEF ExportInv, Streamed, Whole
<1>2. ASSUME export' = X!NoExport PROVE ExportInv'
  <2>1. export' = Exporting("none", "csv", FALSE, <<>>, <<>>)
    BY <1>2 DEF X!NoExport, Exporting
  <2>2. /\ export'.pc = "none" /\ export'.format = "csv" /\ export'.wroteHeader = FALSE
        /\ export'.rows = <<>> /\ export'.out = <<>>
    BY <2>1 DEF Exporting
  <2>3. <<>> \in Seq(X!ExportRows)
    OBVIOUS
  <2> QED
    BY <2>1, <2>2, <2>3 DEF ExportInv
<1>3. ASSUME NEW role \in {"shipper", "carrier", "admin"}, NEW format \in {"csv", "json"},
             X!ExportShipments(role, format)
      PROVE  ExportInv'
  <2>1. export = Exporting("none", "csv", FALSE, <<>>, <<>>)
    BY <1>3 DEF X!ExportShipments, X!NoExport, Exporting
  <2>2. export' = Starting(export, format)
    BY <1>3 DEF X!ExportShipments, Starting
  <2>3. export' = Exporting("streaming", format, FALSE, <<>>, <<>>)
    <3> DEFINE nothing == <<>>
               no == FALSE
    <3>1. export = Exporting("none", "csv", no, nothing, nothing)
      BY <2>1
    <3> HIDE DEF nothing, no
    <3>2. export' = Exporting("streaming", format, no, nothing, nothing)
      BY ONLY <2>2, <3>1, StartingIs
    <3> QED
      BY <3>2 DEF nothing, no
  <2>4. /\ export'.pc = "streaming" /\ export'.format = format /\ export'.wroteHeader = FALSE
        /\ export'.rows = <<>> /\ export'.out = <<>>
    BY <2>3 DEF Exporting
  <2>5. <<>> \in Seq(X!ExportRows)
    OBVIOUS
  <2> QED
    BY <2>3, <2>4, <2>5 DEF ExportInv, Streamed
<1>4. ASSUME X!Break PROVE ExportInv'
  <2> DEFINE format == export.format
             wrote == export.wroteHeader
             rows == export.rows
             out == export.out
  <2>1. export' = Breaking(export)
    BY <1>4 DEF X!Break, Breaking
  <2>2. /\ export = Exporting("streaming", format, wrote, rows, out)
        /\ format \in {"csv", "json"} /\ wrote \in BOOLEAN /\ rows \in Seq(X!ExportRows)
    BY <1>4 DEF ExportInv, X!Break
  <2> HIDE DEF format, wrote, rows, out
  <2>3. export' = Exporting("broken", format, wrote, rows, out)
    BY <2>1, <2>2, BreakingIs
  <2>4. /\ export'.pc = "broken" /\ export'.format = format /\ export'.wroteHeader = wrote
        /\ export'.rows = rows /\ export'.out = out
    BY <2>3 DEF Exporting
  <2> QED
    BY <2>2, <2>3, <2>4 DEF ExportInv
<1> QED
  BY <1>1, <1>2, <1>3, <1>4, TransformStep, FlushStep DEF X!ExportsNext

(* A whole answer reads back. *)
LEMMA ExportReads == ExportInv => X!ExportReadsBack
<1> SUFFICES ASSUME ExportInv, export.pc = "ended" PROVE X!ExportReadsBack
  BY DEF X!ExportReadsBack
<1>1. CASE export.format = "csv"
  <2> SUFFICES ASSUME X!NoBareReturn(export.rows)
               PROVE  LET r == X!ReadCsv(export.out)
                      IN  /\ r.mode = "plain" /\ r.row = <<>> /\ r.field = <<>>
                          /\ r.rows = Wanted(export.rows)
    BY <1>1 DEF X!ExportReadsBack, Wanted, Cells
  <2>1. X!ReadCsv(export.out) = After(Wanted(export.rows))
    BY <1>1 DEF ExportInv, Whole, CsvSent
  <2> QED
    BY <2>1 DEF After
<1>2. CASE export.format # "csv"
  BY <1>2 DEF ExportInv, Whole, X!ExportReadsBack
<1> QED
  BY <1>1, <1>2

(* Every export that has ended reads back. *)
LEMMA ExportsRead == RecordsSpec => []X!ExportReadsBack
<1>1. RecordsInit => ExportInv
  BY ExportInit DEF RecordsInit
<1>2. [RecordsNext]_recordVars => [X!ExportsNext]_export
  BY DEF RecordsNext, ServicesNext, ShipmentStep, recordVars, othersVars, reports
<1> QED
  BY <1>1, <1>2, ExportStep, ExportReads, PTL DEF RecordsSpec

(* A report on the statistics pages counts no part above its whole,        *)
(* although accounts and shipments change between its queries, and an      *)
(* export that has ended reads back as the rows that were exported,        *)
(* whatever quotes, commas, line ends and formulas their texts hold, where *)
(* no carriage return stands outside quotes: for any accounts, shipments,  *)
(* characters, texts and number of rows.                                   *)
THEOREM ReportsAlwaysHold == RecordsSpec => []ReportsHold
<1>1. S!ReportHangsTogether /\ X!ExportReadsBack => ReportsHold
  BY DEF ReportsHold
<1> QED
  BY <1>1, ReportsFit, ExportsRead, PTL
=============================================================================
