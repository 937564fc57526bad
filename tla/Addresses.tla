----------------------------- MODULE Addresses ------------------------------
(***************************************************************************)
(* AddressesService, backend/src/addresses/addresses.service.ts: the       *)
(* addresses of a user, of which one may be the default.  A handler reads  *)
(* the address, clears the default flags of the user when the new one is   *)
(* to be the default, and saves, each a statement of its own.  Saving an   *)
(* entity writes back the flag it was read with, and inserts the row again *)
(* if it has been removed.  Nothing keeps two requests of one user apart.  *)
(* Only owner and flag of an address are kept.                             *)
(***************************************************************************)
EXTENDS Naturals

CONSTANTS Callers, Users, AddressIds

VARIABLES
    addresses,  \* the table: [owner, isDefault], or Absent
    caller,     \* what each caller is doing
    orderly     \* history: users whose requests have not overlapped since
                \* their default was last cleared

addressVars == <<addresses, caller, orderly>>

Idle == [pc |-> "idle"]
Busy == {c \in Callers : caller[c] # Idle}
Absent == [owner |-> "nobody"]

AddressesInit ==
    /\ addresses = [id \in AddressIds |-> Absent]
    /\ caller = [c \in Callers |-> Idle]
    /\ orderly = Users

OwnersAtWork(callers) == {caller[c].entity.owner : c \in callers}

(* isDefault of a request: TRUE, FALSE, or left out. *)
Flags == {"yes", "no", "unset"}

Start(c, request) ==
    /\ caller[c] = Idle
    /\ caller' = [caller EXCEPT ![c] = request]
    /\ orderly' = orderly \ ({request.entity.owner} \cap OwnersAtWork(Busy))
    /\ UNCHANGED addresses

(* create *)
CreateAddress(c, u, flag) ==
    \E id \in AddressIds :
        /\ addresses[id] = Absent
        /\ id \notin {caller[d].id : d \in Busy}
        /\ Start(c, [pc |-> IF flag = "yes" THEN "clear" ELSE "save", id |-> id,
                     entity |-> [owner |-> u, isDefault |-> flag = "yes"]])

(* Mutant: a new default does not clear the old one. *)
UpdateKeepingOthers(c, u, id, flag) ==
    /\ addresses[id] # Absent
    /\ addresses[id].owner = u
    /\ Start(c, [pc |-> "save", id |-> id,
                 entity |-> [addresses[id] EXCEPT !.isDefault =
                               IF flag = "unset" THEN @ ELSE flag = "yes"]])

(* update: findOne asks for the address and its owner. *)
UpdateAddress(c, u, id, flag) ==
    /\ addresses[id] # Absent
    /\ addresses[id].owner = u
    /\ Start(c, [pc |-> IF flag = "yes" THEN "clear" ELSE "save", id |-> id,
                 entity |-> [addresses[id] EXCEPT !.isDefault =
                               IF flag = "unset" THEN @ ELSE flag = "yes"]])

(* remove *)
RemoveAddress(c, u, id) ==
    /\ addresses[id] # Absent
    /\ addresses[id].owner = u
    /\ Start(c, [pc |-> "remove", id |-> id, entity |-> addresses[id]])

(* UPDATE addresses SET is_default = FALSE WHERE user_id = ... *)
ClearDefaults(c) ==
    /\ caller[c].pc = "clear"
    /\ addresses' = [id \in AddressIds |->
                       IF addresses[id] # Absent /\ addresses[id].owner = caller[c].entity.owner
                       THEN [addresses[id] EXCEPT !.isDefault = FALSE] ELSE addresses[id]]
    /\ caller' = [caller EXCEPT ![c].pc = "save"]
    /\ orderly' = orderly \cup ({caller[c].entity.owner} \ OwnersAtWork(Busy \ {c}))

SaveAddress(c) ==
    /\ caller[c].pc = "save"
    /\ addresses' = [addresses EXCEPT ![caller[c].id] = caller[c].entity]
    /\ caller' = [caller EXCEPT ![c] = Idle]
    /\ UNCHANGED orderly

DeleteAddress(c) ==
    /\ caller[c].pc = "remove"
    /\ addresses' = [addresses EXCEPT ![caller[c].id] = Absent]
    /\ caller' = [caller EXCEPT ![c] = Idle]
    /\ UNCHANGED orderly

(* A statement fails, or the process stops: between the two statements it  *)
(* leaves the user without a default.                                      *)
AddressFails(c) ==
    /\ caller[c] # Idle
    /\ caller' = [caller EXCEPT ![c] = Idle]
    /\ UNCHANGED <<addresses, orderly>>

AddressesNext ==
    \E c \in Callers :
        \/ \E u \in Users, flag \in Flags : CreateAddress(c, u, flag)
        \/ \E u \in Users, id \in AddressIds, flag \in Flags : UpdateAddress(c, u, id, flag)
        \/ \E u \in Users, id \in AddressIds : RemoveAddress(c, u, id)
        \/ ClearDefaults(c) \/ SaveAddress(c) \/ DeleteAddress(c) \/ AddressFails(c)

-----------------------------------------------------------------------------
(* Requests of one user that overlap can leave two default addresses: both *)
(* clear, then both save; or one saves what it read before the other       *)
(* cleared.  It lasts no longer than it must: from the next request on     *)
(* that clears the default undisturbed, and until requests of that user    *)
(* overlap again, there is at most one default at every moment, whatever   *)
(* request fails half way and whatever other users do.                     *)
OneDefault ==
    \A a, b \in {id \in AddressIds : addresses[id] # Absent} :
        /\ addresses[a].owner = addresses[b].owner /\ addresses[a].owner \in orderly
        /\ addresses[a].isDefault /\ addresses[b].isDefault
        => a = b
=============================================================================
