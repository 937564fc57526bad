----------------------------- MODULE Documents ------------------------------
(***************************************************************************)
(* DocumentsService, backend/src/documents/documents.service.ts: the       *)
(* documents of shipments, each a row of the table and a file in the       *)
(* upload directory.  The file of an upload is stored before the handler   *)
(* runs and is not taken back when the handler refuses; a delete unlinks   *)
(* the file and then removes the row.  What is in a file, its type and its *)
(* hash are left out: a file has the identity of its row.                  *)
(***************************************************************************)
EXTENDS Naturals

CONSTANTS Callers, Shipments, Users, Admins, DocumentIds

VARIABLES
    shipment,   \* each shipment: [shipper, carrier, completed]
    documents,  \* the table: [shipmentId, uploader], or Absent
    files,      \* the files in the upload directory
    brokenOff,  \* a request has failed half way
    caller      \* what each caller is doing

documentVars == <<shipment, documents, files, brokenOff, caller>>

Idle == [pc |-> "idle"]
Busy == {c \in Callers : caller[c] # Idle}
Absent == [uploader |-> "nobody"]

DocumentsInit ==
    /\ documents = [id \in DocumentIds |-> Absent]
    /\ files = {}
    /\ brokenOff = FALSE
    /\ caller = [c \in Callers |-> Idle]

Finish(c) == caller' = [caller EXCEPT ![c] = Idle]

IsParty(s, u) ==
    \/ shipment[s].shipper = u
    \/ shipment[s].carrier = u
    \/ u \in Admins

(* diskStorage: every upload gets a file of its own. *)
Store(id) ==
    /\ id \notin files
    /\ files' = files \cup {id}

(* FileInterceptor stores the file before the service is asked. *)
Receive(c, s, u, id) ==
    /\ caller[c] = Idle
    /\ documents[id] = Absent
    /\ id \notin {caller[d].id : d \in Busy}
    /\ Store(id)
    /\ caller' = [caller EXCEPT ![c] =
         [pc |-> "upload", id |-> id, row |-> [shipmentId |-> s, uploader |-> u]]]
    /\ UNCHANGED <<shipment, documents, brokenOff>>

(* upload *)
Upload(c) ==
    /\ caller[c].pc = "upload"
    /\ IF IsParty(caller[c].row.shipmentId, caller[c].row.uploader)
         THEN caller' = [caller EXCEPT ![c].pc = "insert"]
         ELSE Finish(c)
    /\ UNCHANGED <<shipment, documents, files, brokenOff>>

InsertDocument(c) ==
    /\ caller[c].pc = "insert"
    /\ documents' = [documents EXCEPT ![caller[c].id] = caller[c].row]
    /\ Finish(c)
    /\ UNCHANGED <<shipment, files, brokenOff>>

(* findOne *)
Found(u, id) == documents[id] # Absent /\ IsParty(documents[id].shipmentId, u)

(* listByShipment *)
Listed(s, u) ==
    {id \in DocumentIds : IsParty(s, u) /\ documents[id] # Absent /\ documents[id].shipmentId = s}

(* getFilePath *)
HasFilePath(u, id) == Found(u, id) /\ id \in files

(* Mutant: the uploader is asked for only after the file is gone. *)
DeleteUnasked(c, u, id) ==
    /\ caller[c] = Idle
    /\ Found(u, id)
    /\ files' = files \ {id}
    /\ caller' = [caller EXCEPT ![c] =
                    IF documents[id].uploader # u /\ u \notin Admins THEN Idle
                    ELSE [pc |-> "remove", id |-> id, row |-> documents[id]]]
    /\ UNCHANGED <<shipment, documents, brokenOff>>

(* delete: findOne, the uploader is compared, the file is unlinked, ... *)
DeleteDocument(c, u, id) ==
    /\ caller[c] = Idle
    /\ Found(u, id)
    /\ documents[id].uploader = u \/ u \in Admins
    /\ files' = files \ {id}
    /\ caller' = [caller EXCEPT ![c] = [pc |-> "remove", id |-> id, row |-> documents[id]]]
    /\ UNCHANGED <<shipment, documents, brokenOff>>

(* ... and the row is removed. *)
RemoveDocument(c) ==
    /\ caller[c].pc = "remove"
    /\ documents' = [documents EXCEPT ![caller[c].id] = Absent]
    /\ Finish(c)
    /\ UNCHANGED <<shipment, files, brokenOff>>

(* A statement fails, or the process stops. *)
DocumentFails(c) ==
    /\ caller[c] # Idle
    /\ brokenOff' = TRUE
    /\ Finish(c)
    /\ UNCHANGED <<shipment, documents, files>>

DocumentsNext ==
    \/ \E c \in Callers, id \in DocumentIds, u \in Users :
         \/ \E s \in Shipments : Receive(c, s, u, id)
         \/ DeleteDocument(c, u, id)
    \/ \E c \in Callers :
         Upload(c) \/ InsertDocument(c) \/ RemoveDocument(c) \/ DocumentFails(c)

-----------------------------------------------------------------------------
AtRest == \A c \in Callers : caller[c] = Idle

(* While no request breaks off, whoever a document is listed to can also   *)
(* download it: however deletes of one document overlap, and whoever asks  *)
(* for one, no row is left without its file.                               *)
RowsHaveFiles ==
    AtRest /\ ~brokenOff =>
        \A s \in Shipments, u \in Users, id \in DocumentIds :
            id \in Listed(s, u) => HasFilePath(u, id)
=============================================================================
