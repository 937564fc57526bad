---------------------------- MODULE HeldDeposits ----------------------------
(***************************************************************************)
(* What the escrow contract promises, without statuses, admin, allowances  *)
(* or disputes: for each shipment id at most one deposit, which leaves the *)
(* vault whole and once, either on to the account it is meant for or back  *)
(* to the one it came from.  Taking a deposit for an id that already holds *)
(* one forgets the older deposit, whose tokens then stay in the vault.     *)
(***************************************************************************)
EXTENDS Integers

CONSTANTS Accounts, Ids, InitialBalance

VARIABLES deposit, balance, vault

promiseVars == <<deposit, balance, vault>>

NoDeposit == [amount |-> 0]

Init ==
    /\ deposit = [id \in Ids |-> NoDeposit]
    /\ balance = [a \in Accounts |-> InitialBalance]
    /\ vault = 0

Take(id, from, to, n) ==
    /\ n \in 1..balance[from]
    /\ deposit' = [deposit EXCEPT ![id] = [from |-> from, to |-> to, amount |-> n]]
    /\ balance' = [balance EXCEPT ![from] = @ - n]
    /\ vault' = vault + n

Give(id, account) ==
    /\ vault' = vault - deposit[id].amount
    /\ balance' = [balance EXCEPT ![account] = @ + deposit[id].amount]
    /\ deposit' = [deposit EXCEPT ![id] = NoDeposit]

PayOn(id)    == deposit[id] # NoDeposit /\ Give(id, deposit[id].to)
GiveBack(id) == deposit[id] # NoDeposit /\ Give(id, deposit[id].from)

Next ==
    \/ \E id \in Ids, from, to \in Accounts : \E n \in 1..balance[from] :
           Take(id, from, to, n)
    \/ \E id \in Ids : PayOn(id) \/ GiveBack(id)

Spec == Init /\ [][Next]_promiseVars
=============================================================================
