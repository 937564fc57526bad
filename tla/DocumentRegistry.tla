-------------------------- MODULE DocumentRegistry --------------------------
(***************************************************************************)
(* The Soroban document registry, contracts/document/src/lib.rs: one       *)
(* action per entry point; an invocation that returns an error changes     *)
(* nothing and is left out.  A content hash and its CID are one value of   *)
(* Hashes; document types and times are left out.                          *)
(*                                                                         *)
(* MaxDocuments bounds the documents registered in a behaviour.            *)
(***************************************************************************)
EXTENDS Naturals, Sequences

CONSTANTS Accounts, NoAdmin, Shipments, Hashes, MaxDocuments

VARIABLES
    admin,
    counter,       \* DataKey::Counter
    documents,     \* DataKey::Document(id), or NotFound
    shipmentDocs,  \* DataKey::ShipmentDocs(shipment): sequence of ids
    calls          \* register_document calls so far, for the bound only

vars == <<admin, counter, documents, shipmentDocs, calls>>

Ids == 1..MaxDocuments
NotFound == [verifiedBy |-> "NotFound"]
DocumentRecord(shipment, uploader, hash) ==
    [shipment |-> shipment, uploader |-> uploader, hash |-> hash, verifiedBy |-> NoAdmin]

Init ==
    /\ admin = NoAdmin
    /\ counter = 0
    /\ documents = [id \in Ids |-> NotFound]
    /\ shipmentDocs = [s \in Shipments |-> <<>>]
    /\ calls = 0

Initialize(a) ==
    /\ admin = NoAdmin
    /\ admin' = a
    /\ counter' = 0
    /\ UNCHANGED <<documents, shipmentDocs, calls>>

(* Mutant: the counter is not advanced. *)
RegisterDocumentSameId(uploader, shipment, hash) ==
    /\ calls < MaxDocuments
    /\ calls' = calls + 1
    /\ documents' = [documents EXCEPT ![counter + 1] = DocumentRecord(shipment, uploader, hash)]
    /\ shipmentDocs' = [shipmentDocs EXCEPT ![shipment] = Append(@, counter + 1)]
    /\ UNCHANGED <<admin, counter>>

(* register_document does not ask whether the contract is initialised. *)
RegisterDocument(uploader, shipment, hash) ==
    /\ calls < MaxDocuments
    /\ calls' = calls + 1
    /\ counter' = counter + 1
    /\ documents' = [documents EXCEPT ![counter + 1] = DocumentRecord(shipment, uploader, hash)]
    /\ shipmentDocs' = [shipmentDocs EXCEPT ![shipment] = Append(@, counter + 1)]
    /\ UNCHANGED admin

VerifyDocument(verifier, id) ==
    /\ verifier = admin
    /\ documents[id] # NotFound
    /\ documents[id].verifiedBy = NoAdmin
    /\ documents' = [documents EXCEPT ![id].verifiedBy = verifier]
    /\ UNCHANGED <<admin, counter, shipmentDocs, calls>>

(* check_integrity: a call that changes nothing. *)
CheckIntegrity(id, hash) == documents[id] # NotFound /\ documents[id].hash = hash

Next == \E a \in Accounts :
    \/ Initialize(a)
    \/ \E s \in Shipments, h \in Hashes : RegisterDocument(a, s, h)
    \/ \E id \in Ids : VerifyDocument(a, id)

Spec == Init /\ [][Next]_vars

(* As deployed: the first invocation is initialize. *)
DeployedNext == Next /\ (admin = NoAdmin => admin' # NoAdmin)
DeployedSpec == Init /\ [][DeployedNext]_vars

-----------------------------------------------------------------------------
(* What check_integrity once confirmed it confirms for ever: a document    *)
(* that was shown unaltered stays provable.                                *)
IntegrityIsKept ==
    [][\A id \in Ids, h \in Hashes : CheckIntegrity(id, h) => CheckIntegrity(id, h)']_vars
=============================================================================
