------------------------------ MODULE Identity ------------------------------
(***************************************************************************)
(* The Soroban identity contract, contracts/identity/src/lib.rs: a wallet  *)
(* registers one user hash, and the admin may remove it; an invocation     *)
(* that returns an error changes nothing and is left out.                  *)
(***************************************************************************)
CONSTANTS Accounts, NoAdmin, UserHashes, NoIdentity

VARIABLES
    admin,
    identities  \* DataKey::Identity(wallet), or NoIdentity

vars == <<admin, identities>>

Init == admin = NoAdmin /\ identities = [w \in Accounts |-> NoIdentity]

Initialize(a) == admin = NoAdmin /\ admin' = a /\ UNCHANGED identities

RegisterIdentity(wallet, hash) ==
    /\ identities[wallet] = NoIdentity
    /\ identities' = [identities EXCEPT ![wallet] = hash]
    /\ UNCHANGED admin

RevokeIdentity(caller, wallet) ==
    /\ caller = admin
    /\ identities[wallet] # NoIdentity
    /\ identities' = [identities EXCEPT ![wallet] = NoIdentity]
    /\ UNCHANGED admin

VerifyIdentity(wallet) == identities[wallet] # NoIdentity

Next == \E a, w \in Accounts :
    \/ Initialize(a)
    \/ \E h \in UserHashes : RegisterIdentity(w, h)
    \/ RevokeIdentity(a, w)

Spec == Init /\ [][Next]_vars
=============================================================================
