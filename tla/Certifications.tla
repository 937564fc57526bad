--------------------------- MODULE Certifications ---------------------------
(***************************************************************************)
(* CarrierCertificationsService, backend/src/carriers/                     *)
(* carrier-certifications.service.ts, and the two ways an administrator's  *)
(* request gets into the audit log: the service logs a verification after  *)
(* it is saved and before it answers, and AdminAuditInterceptor logs every *)
(* mutating request after it was answered, without waiting.  A             *)
(* certification is its owner and its flag.                                *)
(*                                                                         *)
(* MaxLog bounds the audit log.                                            *)
(***************************************************************************)
EXTENDS Naturals, Sequences

CONSTANTS Callers, Carriers, CertIds, MaxLog

VARIABLES
    certifications,  \* the table: [carrier, isVerified], or Absent
    auditLog,        \* sequence of [action, id]
    brokenOff,       \* a request has failed half way
    caller           \* what each caller is doing

certificationVars == <<certifications, auditLog, brokenOff, caller>>

Idle == [pc |-> "idle"]
Busy == {c \in Callers : caller[c] # Idle}
Absent == [carrier |-> "nobody"]

CertificationsInit ==
    /\ certifications = [id \in CertIds |-> Absent]
    /\ auditLog = <<>>
    /\ brokenOff = FALSE
    /\ caller = [c \in Callers |-> Idle]

(* create *)
CreateCertification(carrier, id) ==
    /\ certifications[id] = Absent
    /\ id \notin {caller[d].id : d \in Busy}
    /\ certifications' = [certifications EXCEPT ![id] = [carrier |-> carrier, isVerified |-> FALSE]]
    /\ UNCHANGED <<auditLog, brokenOff, caller>>

(* updateVerification, an administrator's request: findOne, ... *)
UpdateVerification(c, id, isVerified) ==
    /\ caller[c] = Idle
    /\ certifications[id] # Absent
    /\ caller' = [caller EXCEPT ![c] =
         [pc |-> "save", id |-> id, entity |-> [certifications[id] EXCEPT !.isVerified = isVerified]]]
    /\ UNCHANGED <<certifications, auditLog, brokenOff>>

(* ... save, which inserts the row again if it has been deleted, ... *)
SaveVerification(c) ==
    /\ caller[c].pc = "save"
    /\ certifications' = [certifications EXCEPT ![caller[c].id] = caller[c].entity]
    /\ caller' = [caller EXCEPT ![c].pc = "log"]
    /\ UNCHANGED <<auditLog, brokenOff>>

AuditLog(action, id) == [action |-> action, id |-> id]

LogAction(action, id) ==
    /\ Len(auditLog) < MaxLog
    /\ auditLog' = Append(auditLog, AuditLog(action, id))

(* Mutant: every change is logged as the removal of a verification. *)
LogUnverified(c) ==
    /\ caller[c].pc = "log"
    /\ LogAction("CERTIFICATION_UNVERIFIED", caller[c].id)
    /\ caller' = [caller EXCEPT ![c].pc = "intercept"]
    /\ UNCHANGED <<certifications, brokenOff>>

(* ... auditLogService.log. *)
LogVerification(c) ==
    /\ caller[c].pc = "log"
    /\ LogAction(IF caller[c].entity.isVerified THEN "CERTIFICATION_VERIFIED"
                 ELSE "CERTIFICATION_UNVERIFIED", caller[c].id)
    /\ caller' = [caller EXCEPT ![c].pc = "intercept"]
    /\ UNCHANGED <<certifications, brokenOff>>

(* AdminAuditInterceptor: any mutating request of an administrator, once   *)
(* it has succeeded; whether the entry is written is not waited for.       *)
Intercept(c) ==
    /\ caller[c].pc = "intercept"
    /\ LogAction("PATCH", caller[c].id) \/ UNCHANGED auditLog
    /\ caller' = [caller EXCEPT ![c] = Idle]
    /\ UNCHANGED <<certifications, brokenOff>>

(* delete: findOne, the owner is compared, ... *)
DeleteCertification(c, carrier, id) ==
    /\ caller[c] = Idle
    /\ certifications[id] # Absent
    /\ certifications[id].carrier = carrier
    /\ caller' = [caller EXCEPT ![c] = [pc |-> "remove", id |-> id, entity |-> certifications[id]]]
    /\ UNCHANGED <<certifications, auditLog, brokenOff>>

(* ... remove. *)
RemoveCertification(c) ==
    /\ caller[c].pc = "remove"
    /\ certifications' = [certifications EXCEPT ![caller[c].id] = Absent]
    /\ caller' = [caller EXCEPT ![c] = Idle]
    /\ UNCHANGED <<auditLog, brokenOff>>

(* A statement fails: the request ends where it is. *)
CertificationFails(c) ==
    /\ caller[c].pc \in {"save", "log", "remove"}
    /\ brokenOff' = TRUE
    /\ caller' = [caller EXCEPT ![c] = Idle]
    /\ UNCHANGED <<certifications, auditLog>>

CertificationsNext ==
    \E id \in CertIds :
        \/ \E carrier \in Carriers : CreateCertification(carrier, id)
        \/ \E c \in Callers :
             \/ \E isVerified \in BOOLEAN : UpdateVerification(c, id, isVerified)
             \/ \E carrier \in Carriers : DeleteCertification(c, carrier, id)
             \/ SaveVerification(c) \/ LogVerification(c) \/ Intercept(c)
             \/ RemoveCertification(c) \/ CertificationFails(c)

-----------------------------------------------------------------------------
AtRest == \A c \in Callers : caller[c] = Idle

(* While no request breaks off, a certification shown as verified can be   *)
(* traced to an entry of the audit log, also one that was deleted while it *)
(* was being verified and came back.                                       *)
VerificationsLogged ==
    ~brokenOff /\ AtRest =>
        \A id \in CertIds : certifications[id] # Absent /\ certifications[id].isVerified =>
            \E i \in DOMAIN auditLog :
                auditLog[i] = [action |-> "CERTIFICATION_VERIFIED", id |-> id]
=============================================================================
