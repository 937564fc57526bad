------------------------------ MODULE Stellar -------------------------------
(***************************************************************************)
(* StellarContractService (backend/src/stellar/stellar-contract.service.ts)*)
(* and the part of the network it talks to.  A transaction is built for an *)
(* account's next sequence number, handed to the RPC node, and later       *)
(* applied or dropped by the ledger; the service never hears which, unless *)
(* it polls.  A transaction carries one escrow contract call, so applying  *)
(* it is a step of Escrow.                                                 *)
(*                                                                         *)
(* MaxTx bounds the transactions built in a behaviour.                     *)
(***************************************************************************)
EXTENDS Integers

CONSTANTS Accounts, Ids, Amounts, InitialBalance, NoAdmin, MaxTx

VARIABLES
    admin, escrow, balance, vault, allowance, netIn, abandoned,  \* Escrow
    txs,   \* transactions, numbered in the order they are built
    seq    \* sequence number of each account on the ledger

chainVars == <<admin, escrow, balance, vault, allowance, netIn, abandoned>>
stellarVars == <<chainVars, txs, seq>>

Chain == INSTANCE Escrow

TxIds == 1..MaxTx

(* A call names the contract function and the arguments it reads. *)
FundCall(id, carrier, amount) ==
    [op |-> "fund", id |-> id, carrier |-> carrier, amount |-> amount]
ReleaseCall(id) == [op |-> "release", id |-> id]
RefundCall(id)  == [op |-> "refund", id |-> id]

Unused == [phase |-> "unused"]

StellarInit ==
    /\ txs = [t \in TxIds |-> Unused]
    /\ seq = [a \in Accounts |-> 0]

(* simulateTransaction: would the call succeed on the ledger as it is? *)
SimulationSucceeds(source, call) ==
    CASE call.op = "fund"    -> Chain!CanFund(source, call.id, call.amount)
      [] call.op = "release" -> Chain!CanSettle(source, call.id, "Funded")
      [] call.op = "refund"  -> Chain!CanSettle(source, call.id, "Funded")

(* getAccount, build, simulate, assemble: buildFundEscrowTransaction, and  *)
(* the first half of invoke.  Building changes nothing on the ledger.      *)
Build(t, source, call) ==
    /\ txs[t] = Unused
    /\ \A u \in 1..(t - 1) : txs[u] # Unused
    /\ SimulationSucceeds(source, call)
    /\ txs' = [txs EXCEPT ![t] = [phase |-> "built", source |-> source,
                                  seq |-> seq[source] + 1, call |-> call]]
    /\ UNCHANGED <<chainVars, seq>>

(* sendTransaction accepted by the node: the transaction is valid now and  *)
(* no other one of its account is waiting.                                 *)
Enqueue(t) ==
    /\ txs[t].phase = "built"
    /\ txs[t].seq = seq[txs[t].source] + 1
    /\ \A u \in TxIds : txs[u].phase = "queued" => txs[u].source # txs[t].source
    /\ txs' = [txs EXCEPT ![t].phase = "queued"]
    /\ UNCHANGED <<chainVars, seq>>

(* External: a ledger closes with the transaction.  The sequence number is *)
(* consumed whether the contract call succeeds or fails.                   *)
ExecuteCall(source, call) ==
    \/ /\ call.op = "fund"
       /\ Chain!FundEscrow(source, call.carrier, call.id, call.amount)
    \/ call.op = "release" /\ Chain!ReleasePayment(source, call.id)
    \/ call.op = "refund"  /\ Chain!RefundPayment(source, call.id)

Apply(t) ==
    /\ txs[t].phase = "queued"
    /\ seq' = [seq EXCEPT ![txs[t].source] = @ + 1]
    /\ \/ /\ ExecuteCall(txs[t].source, txs[t].call)
          /\ txs' = [txs EXCEPT ![t].phase = "succeeded"]
       \/ /\ ~SimulationSucceeds(txs[t].source, txs[t].call)
          /\ txs' = [txs EXCEPT ![t].phase = "failed"]
          /\ UNCHANGED chainVars

(* External: a queued transaction outlives its 30 seconds (TX_TIMEOUT).    *)
Drop(t) ==
    /\ txs[t].phase = "queued"
    /\ txs' = [txs EXCEPT ![t].phase = "dropped"]
    /\ UNCHANGED <<chainVars, seq>>

LedgerStep == \E t \in TxIds : Apply(t) \/ Drop(t)

Dead(t) == txs[t].phase \in {"failed", "dropped"}
=============================================================================
