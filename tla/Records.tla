------------------------------ MODULE Records -------------------------------
(***************************************************************************)
(* The small record-keeping services of the backend side by side: payment  *)
(* rows, addresses, reviews and notification preferences, certifications,  *)
(* documents, statistics, exports; and, beside them, the pages that list   *)
(* rows (Lists).  They change no table in common and call none of the      *)
(* others, so a behaviour follows one of them, chosen at the start; each   *)
(* service has concurrent callers, whose handlers are a few statements     *)
(* with no transaction around them.                                        *)
(***************************************************************************)
EXTENDS PaymentRows, Lists

CONSTANTS Pair, Users, Admins, Ids, MaxReviews, MaxLog, Characters, Texts, MaxRows

(* Accounts and shipments are named by UUIDs. *)
ASSUME NamesAssumption == IsFiniteSet(Admins) /\ IsFiniteSet(Shipments)

VARIABLES
    service,                                    \* the service that is followed
    addresses, orderly,                         \* Addresses
    reviews, preferences,                       \* Reviews
    certifications, auditLog,                   \* Certifications
    documents, files,                           \* Documents
    account, status, report,                    \* Statistics
    export,                                     \* Exports
    request,                                    \* what the callers of the first four do
    shipment,                                   \* what reviews and documents read of a shipment
    brokenOff                                   \* a request has failed half way

Nobody == "nobody"
Unposted == [shipper |-> Nobody, carrier |-> Nobody, completed |-> FALSE]

A == INSTANCE Addresses WITH AddressIds <- Ids, Callers <- Pair, caller <- request
R == INSTANCE Reviews WITH Users <- Users \ Admins, Callers <- Pair, caller <- request
C == INSTANCE Certifications
     WITH Carriers <- Users \ Admins, CertIds <- Ids, Callers <- Pair, caller <- request
D == INSTANCE Documents WITH DocumentIds <- Ids, Callers <- Pair, caller <- request
S == INSTANCE Statistics WITH Accounts <- Admins, Posted <- Shipments
X == INSTANCE Exports

ASSUME TextsAssumption ==
    /\ {"a", "=", "'", X!Quote, X!Comma, X!Newline, X!Return} \subseteq Characters
    /\ Texts \subseteq Seq(Characters)

reports == <<account, status, report, export>>
othersVars == <<addresses, orderly, reviews, preferences, certifications, auditLog,
                shipment, documents, files, brokenOff, request, reports>>
recordVars == <<vars, service, othersVars, listsVars>>

RecordsInit ==
    /\ service \in {"payments", "addresses", "reviews", "preferences", "certifications",
                   "documents", "statistics", "exports", "lists"}
    /\ Init
    /\ ListsInit
    /\ service # "lists" => screen = "cursor" /\ joined = {} /\ Created = {}
    /\ A!AddressesInit
    /\ R!ReviewsInit
    /\ C!CertificationsInit
    /\ D!DocumentsInit
    /\ S!StatisticsInit
    /\ X!ExportsInit
    /\ shipment = [s \in Shipments |-> Unposted]

(* The shipments service posts a shipment, gives it a carrier, and         *)
(* completes it, which is the end of it.                                   *)
ShipmentStep ==
    /\ \E s \in Shipments :
         \/ \E u \in Users \ Admins :
              /\ shipment[s] = Unposted
              /\ shipment' = [shipment EXCEPT ![s].shipper = u]
         \/ \E u \in Users \ Admins :
              /\ shipment[s].carrier = Nobody
              /\ shipment[s].shipper \notin {Nobody, u}
              /\ shipment' = [shipment EXCEPT ![s].carrier = u]
         \/ /\ shipment[s].carrier # Nobody
            /\ shipment' = [shipment EXCEPT ![s].completed = TRUE]
    /\ UNCHANGED <<vars, addresses, orderly, reviews, preferences, certifications,
                   auditLog, documents, files, brokenOff, request, reports>>

ServicesNext ==
    /\ UNCHANGED <<service, listsVars>>
    /\ \/ /\ service = "payments"
          /\ Next
          /\ UNCHANGED othersVars
       \/ /\ service = "addresses"
          /\ A!AddressesNext
          /\ UNCHANGED <<vars, reviews, preferences, certifications,
                         auditLog, shipment, documents, files, brokenOff, reports>>
       \/ /\ service \in {"reviews", "documents"}
          /\ ShipmentStep
       \/ /\ service = "reviews"
          /\ R!ReviewsNext
          /\ UNCHANGED <<vars, addresses, orderly, certifications, auditLog,
                         documents, files, brokenOff, reports>>
       \/ /\ service = "preferences"
          /\ R!PreferencesNext
          /\ UNCHANGED <<vars, addresses, orderly, certifications, auditLog,
                         documents, files, brokenOff, reports>>
       \/ /\ service = "certifications"
          /\ C!CertificationsNext
          /\ UNCHANGED <<vars, addresses, orderly, reviews, preferences,
                         shipment, documents, files, reports>>
       \/ /\ service = "documents"
          /\ D!DocumentsNext
          /\ UNCHANGED <<vars, addresses, orderly, reviews, preferences,
                         certifications, auditLog, reports>>
       \/ /\ UNCHANGED <<vars, addresses, orderly, reviews, preferences, certifications,
                         auditLog, shipment, documents, files, brokenOff, request>>
          /\ \/ /\ service = "statistics"
                /\ S!StatisticsNext
                /\ UNCHANGED export
             \/ /\ service = "exports"
                /\ X!ExportsNext
                /\ UNCHANGED <<account, status, report>>

RecordsNext ==
    \/ ServicesNext
    \/ /\ service = "lists"
       /\ ListsNext
       /\ UNCHANGED <<vars, service, othersVars>>

RecordsSpec == RecordsInit /\ [][RecordsNext]_recordVars

-----------------------------------------------------------------------------
(* The on-chain ids of payments have no gaps (PaymentRows), a user has at  *)
(* most one default address since one was last set undisturbed             *)
(* (Addresses), reviews and preference rows are one each (Reviews), a      *)
(* verified certification is in the audit log (Certifications), and a      *)
(* listed document can be downloaded (Documents), whichever way the        *)
(* statements of concurrent requests fall.                                 *)
RecordsConsistent ==
    /\ Dense
    /\ A!OneDefault
    /\ R!OneRowEach
    /\ C!VerificationsLogged
    /\ D!RowsHaveFiles

(* What leaves the backend in many rows is whole: the numbers of a report  *)
(* fit (Statistics), and an export that has ended can be read back         *)
(* (Exports), although rows change while a report is made.                 *)
ReportsHold ==
    /\ S!ReportHangsTogether
    /\ X!ExportReadsBack
=============================================================================
