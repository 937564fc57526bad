------------------------------- MODULE Escrow -------------------------------
(***************************************************************************)
(* The Soroban escrow contract (contracts/escrow/src/lib.rs) together with *)
(* the part of the token contract it calls.  One record per shipment id;   *)
(* every entry point is one atomic action, since a Soroban invocation      *)
(* either commits or leaves no trace: a returned error, a failed           *)
(* require_auth and a trap of the token contract all disable the action.   *)
(*                                                                         *)
(* The addresses are `Accounts`; the contract's own address is not one of  *)
(* them, its token balance is the variable vault.  Ledger timestamps       *)
(* (funded_at, settled_at) and TTL extension are left out.                 *)
(*                                                                         *)
(* netIn and abandoned are history variables, read by no action.           *)
(***************************************************************************)
EXTENDS Integers, FiniteSetsExt

CONSTANTS
    Accounts,        \* addresses that can sign: shippers, carriers, the admin
    Ids,             \* on-chain shipment ids, u64 in the contract
    Amounts,         \* amounts callers ask for, in base units (may be <= 0)
    InitialBalance,  \* tokens each account starts with
    NoAdmin          \* the admin slot before initialize

ASSUME IdsAssumption == IsFiniteSet(Ids)
ASSUME AmountsAssumption == Amounts \subseteq Int
ASSUME InitialBalanceAssumption == InitialBalance \in Nat
ASSUME NoAdminAssumption == NoAdmin \notin Accounts

VARIABLES
    admin,      \* DataKey::Admin; the token address is stored with it
    escrow,     \* DataKey::Escrow(id)
    balance,    \* token balances of the accounts
    vault,      \* token balance of the escrow contract
    allowance,  \* allowance each account granted to the escrow contract
    netIn,      \* history: tokens pulled in for an id minus tokens paid for it
    abandoned   \* history: tokens whose record was overwritten while disputed

vars == <<admin, escrow, balance, vault, allowance, netIn, abandoned>>

-----------------------------------------------------------------------------
Statuses == {"Funded", "Released", "Refunded", "Disputed"}

(* EscrowStatus::Pending is declared in the source and never written.      *)
Records == [shipper : Accounts, carrier : Accounts,
            amount : Nat \ {0}, status : Statuses]

NoRecord == [status |-> "Absent"]

Held(id) == escrow[id].status \in {"Funded", "Disputed"}

HeldAmount(id) == IF Held(id) THEN escrow[id].amount ELSE 0

Init ==
    /\ admin = NoAdmin
    /\ escrow = [id \in Ids |-> NoRecord]
    /\ balance = [a \in Accounts |-> InitialBalance]
    /\ vault = 0
    /\ allowance = [a \in Accounts |-> 0]
    /\ netIn = [id \in Ids |-> 0]
    /\ abandoned = [id \in Ids |-> 0]

(* initialize: the first call wins, whoever makes it. *)
Initialize(a) ==
    /\ admin = NoAdmin
    /\ admin' = a
    /\ UNCHANGED <<escrow, balance, vault, allowance, netIn, abandoned>>

(* External: the token's approve, which fund_escrow names as its           *)
(* pre-condition.  It sets the allowance, it does not add to it.           *)
Approve(owner, n) ==
    /\ n >= 0
    /\ allowance' = [allowance EXCEPT ![owner] = n]
    /\ UNCHANGED <<admin, escrow, balance, vault, netIn, abandoned>>

(* Mutant: a live record does not stop another deposit. *)
CanFundAgain(shipper, id, amount) ==
    /\ amount > 0
    /\ admin # NoAdmin
    /\ allowance[shipper] >= amount
    /\ balance[shipper] >= amount

(* What fund_escrow and the token's transfer_from require.  Only a record  *)
(* that is Funded blocks the call, a Disputed one does not.                *)
CanFund(shipper, id, amount) ==
    /\ amount > 0
    /\ escrow[id].status # "Funded"
    /\ admin # NoAdmin
    /\ allowance[shipper] >= amount
    /\ balance[shipper] >= amount

(* fund_escrow, signed by shipper: pull the tokens, then store the new     *)
(* record over whatever the id held.                                       *)
FundEscrow(shipper, carrier, id, amount) ==
    /\ CanFund(shipper, id, amount)
    /\ escrow' = [escrow EXCEPT ![id] =
                    [shipper |-> shipper, carrier |-> carrier,
                     amount |-> amount, status |-> "Funded"]]
    /\ allowance' = [allowance EXCEPT ![shipper] = @ - amount]
    /\ balance' = [balance EXCEPT ![shipper] = @ - amount]
    /\ vault' = vault + amount
    /\ netIn' = [netIn EXCEPT ![id] = @ + amount]
    /\ abandoned' = [abandoned EXCEPT ![id] = @ + HeldAmount(id)]
    /\ UNCHANGED admin

(* Mutant: the settled record is never stored. *)
PayOutNotStored(id, payee, status) ==
    /\ vault' = vault - escrow[id].amount
    /\ balance' = [balance EXCEPT ![payee] = @ + escrow[id].amount]
    /\ netIn' = [netIn EXCEPT ![id] = @ - escrow[id].amount]
    /\ UNCHANGED <<admin, escrow, allowance, abandoned>>

(* token.transfer out of the contract, then the record is stored. *)
PayOut(id, payee, status) ==
    /\ vault' = vault - escrow[id].amount
    /\ balance' = [balance EXCEPT ![payee] = @ + escrow[id].amount]
    /\ escrow' = [escrow EXCEPT ![id].status = status]
    /\ netIn' = [netIn EXCEPT ![id] = @ - escrow[id].amount]
    /\ UNCHANGED <<admin, allowance, abandoned>>

(* What a settlement requires: the admin's signature, the right status and *)
(* a contract balance that covers the transfer.                            *)
CanSettle(signer, id, status) ==
    /\ signer = admin
    /\ escrow[id].status = status
    /\ vault >= escrow[id].amount

(* release_payment, signed by the admin. *)
ReleasePayment(signer, id) ==
    /\ CanSettle(signer, id, "Funded")
    /\ PayOut(id, escrow[id].carrier, "Released")

(* Mutant: any record not yet refunded can be refunded. *)
RefundPaymentAfterRelease(signer, id) ==
    /\ signer = admin
    /\ escrow[id].status \notin {"Absent", "Refunded"}
    /\ vault >= escrow[id].amount
    /\ PayOut(id, escrow[id].shipper, "Refunded")

(* refund_payment, signed by the admin. *)
RefundPayment(signer, id) ==
    /\ CanSettle(signer, id, "Funded")
    /\ PayOut(id, escrow[id].shipper, "Refunded")

(* Mutant: the status is not checked. *)
RaiseDisputeAnyStatus(caller, id) ==
    /\ escrow[id].status # "Absent"
    /\ caller \in {escrow[id].shipper, escrow[id].carrier}
    /\ escrow' = [escrow EXCEPT ![id].status = "Disputed"]
    /\ UNCHANGED <<admin, balance, vault, allowance, netIn, abandoned>>

(* raise_dispute, signed by one of the record's two parties. *)
RaiseDispute(caller, id) ==
    /\ escrow[id].status = "Funded"
    /\ caller \in {escrow[id].shipper, escrow[id].carrier}
    /\ escrow' = [escrow EXCEPT ![id].status = "Disputed"]
    /\ UNCHANGED <<admin, balance, vault, allowance, netIn, abandoned>>

(* Mutant: the two recipients are swapped. *)
ResolveDisputeSwapped(signer, id, releaseToCarrier) ==
    /\ CanSettle(signer, id, "Disputed")
    /\ IF releaseToCarrier
         THEN PayOut(id, escrow[id].shipper, "Released")
         ELSE PayOut(id, escrow[id].carrier, "Refunded")

(* resolve_dispute, signed by the admin. *)
ResolveDispute(signer, id, releaseToCarrier) ==
    /\ CanSettle(signer, id, "Disputed")
    /\ IF releaseToCarrier
         THEN PayOut(id, escrow[id].carrier, "Released")
         ELSE PayOut(id, escrow[id].shipper, "Refunded")

Next ==
    \/ \E a \in Accounts : Initialize(a)
    \/ \E a \in Accounts, n \in Amounts : Approve(a, n)
    \/ \E s, c \in Accounts, id \in Ids, n \in Amounts : FundEscrow(s, c, id, n)
    \/ \E a \in Accounts, id \in Ids : ReleasePayment(a, id)
    \/ \E a \in Accounts, id \in Ids : RefundPayment(a, id)
    \/ \E a \in Accounts, id \in Ids : RaiseDispute(a, id)
    \/ \E a \in Accounts, id \in Ids, r \in BOOLEAN : ResolveDispute(a, id, r)

Spec == Init /\ [][Next]_vars

-----------------------------------------------------------------------------
TypeOK ==
    /\ admin \in Accounts \cup {NoAdmin}
    /\ escrow \in [Ids -> Records \cup {NoRecord}]
    /\ balance \in [Accounts -> Nat]
    /\ vault \in Nat
    /\ allowance \in [Accounts -> Nat]
    /\ netIn \in [Ids -> Int]
    /\ abandoned \in [Ids -> Nat]

(* Per shipment the tokens that came in and have not gone out are exactly  *)
(* those of the live record plus those whose record fund_escrow overwrote: *)
(* no order of release, refund, dispute, resolve and re-fund pays a        *)
(* deposit twice or pays one shipment out of another's deposit.            *)
NeverOverpaid ==
    \A id \in Ids : netIn[id] = HeldAmount(id) + abandoned[id]

(* The contract can pay what every live record promises: its balance is    *)
(* never below the sum of the Funded and Disputed amounts, and no shipment *)
(* ever draws on the deposit of another.                                   *)
Solvent == vault >= MapThenSumSet(HeldAmount, Ids)

(* What a settled record says is final until new tokens come in for it:    *)
(* only a fund_escrow that raises the contract's balance may touch it.     *)
SettledIsFinal ==
    [][\A id \in Ids :
         /\ escrow[id].status \in {"Released", "Refunded"}
         /\ escrow'[id] # escrow[id]
         => /\ escrow'[id].status = "Funded"
            /\ vault' = vault + escrow'[id].amount]_vars

(* Tokens leave the contract only as one whole live deposit, to the        *)
(* carrier when the record becomes Released and to the shipper when it     *)
(* becomes Refunded (release, refund and both outcomes of a dispute).      *)
PaysItsParty ==
    [][vault' < vault =>
         \E id \in Ids :
           /\ Held(id)
           /\ vault' = vault - escrow[id].amount
           /\ \/ /\ escrow'[id].status = "Released"
                 /\ balance' = [balance EXCEPT ![escrow[id].carrier] =
                                  @ + escrow[id].amount]
              \/ /\ escrow'[id].status = "Refunded"
                 /\ balance' = [balance EXCEPT ![escrow[id].shipper] =
                                  @ + escrow[id].amount]]_vars

(* The comment in fund_escrow: "Ensure no double-funding for the same      *)
(* shipment."  No deposit is taken for an id that still holds one.         *)
NoDoubleFunding ==
    [][\A id \in Ids : netIn'[id] > netIn[id] => ~Held(id)]_vars

-----------------------------------------------------------------------------
(* The promise behind the record: see HeldDeposits. *)
Promise == INSTANCE HeldDeposits WITH
    deposit <- [id \in Ids |->
                  IF Held(id)
                    THEN [from |-> escrow[id].shipper, to |-> escrow[id].carrier,
                          amount |-> escrow[id].amount]
                    ELSE [amount |-> 0]]

PromiseKept == Promise!Spec
=============================================================================
