---------------------------- MODULE EscrowProofs ----------------------------
(* Proofs about the escrow contract for any sets of accounts and ids, any   *)
(* amounts and any initial balance.                                         *)
EXTENDS Escrow, SumTheorems, TLAPS

USE IdsAssumption, AmountsAssumption, InitialBalanceAssumption, NoAdminAssumption

(* Facts about one record that the step proofs share. *)
LEMMA RecordFacts ==
    ASSUME TypeOK, NEW id \in Ids, escrow[id].status # "Absent"
    PROVE  /\ escrow[id] \in Records
           /\ escrow[id].amount \in Nat
           /\ escrow[id].amount > 0
  BY DEF TypeOK, NoRecord, Records

LEMMA HeldAmountType ==
    ASSUME TypeOK, NEW id \in Ids
    PROVE  HeldAmount(id) \in Nat
  BY RecordFacts DEF HeldAmount, Held

(* The step every settlement makes keeps the types. *)
LEMMA PayOutType ==
    ASSUME TypeOK, NEW id \in Ids, escrow[id].status # "Absent",
           NEW payee \in Accounts, NEW status \in Statuses,
           vault >= escrow[id].amount, PayOut(id, payee, status)
    PROVE  TypeOK'
<1>1. escrow[id] \in Records /\ escrow[id].amount \in Nat
  BY RecordFacts
<1>2. [escrow[id] EXCEPT !.status = status] \in Records
  BY <1>1 DEF Records
<1>3. escrow' \in [Ids -> Records \cup {NoRecord}]
  BY <1>2 DEF PayOut, TypeOK
<1>4. QED
  BY <1>1, <1>3 DEF PayOut, TypeOK

(* Every reachable state is well typed: no balance, allowance or amount of  *)
(* the contract goes negative, whatever calls are made in whatever order.   *)
THEOREM TypeCorrect == Spec => []TypeOK
<1>1. Init => TypeOK
  BY DEF Init, TypeOK
<1>2. ASSUME TypeOK, [Next]_vars PROVE TypeOK'
  <2>1. ASSUME NEW a \in Accounts, Initialize(a) PROVE TypeOK'
    BY <1>2, <2>1 DEF Initialize, TypeOK
  <2>2. ASSUME NEW a \in Accounts, NEW n \in Amounts, Approve(a, n) PROVE TypeOK'
    BY <1>2, <2>2 DEF Approve, TypeOK
  <2>3. ASSUME NEW s \in Accounts, NEW c \in Accounts, NEW id \in Ids,
               NEW n \in Amounts, FundEscrow(s, c, id, n)
        PROVE  TypeOK'
    <3>0. HeldAmount(id) \in Nat
      BY <1>2, HeldAmountType
    <3>1. n \in Nat \ {0}
      <4>1. n \in Int
        OBVIOUS
      <4>2. n > 0
        BY <2>3 DEF FundEscrow, CanFund
      <4>3. QED
        BY <4>1, <4>2
    <3>2. [shipper |-> s, carrier |-> c, amount |-> n, status |-> "Funded"]
            \in Records
      BY <3>1 DEF Records, Statuses
    <3>3. escrow' \in [Ids -> Records \cup {NoRecord}]
      BY <1>2, <2>3, <3>2 DEF FundEscrow, CanFund, TypeOK
    <3>4. /\ balance' \in [Accounts -> Nat]
          /\ allowance' \in [Accounts -> Nat]
      BY <1>2, <2>3, <3>1 DEF FundEscrow, CanFund, TypeOK
    <3>5. QED
      BY <1>2, <2>3, <3>0, <3>1, <3>3, <3>4 DEF FundEscrow, CanFund, TypeOK
  <2>4. ASSUME NEW a \in Accounts, NEW id \in Ids, ReleasePayment(a, id)
        PROVE  TypeOK'
    <3>1. escrow[id].carrier \in Accounts
      BY <1>2, <2>4, RecordFacts DEF ReleasePayment, CanSettle, Records
    <3>2. QED
      BY <1>2, <2>4, <3>1, PayOutType DEF ReleasePayment, CanSettle, Statuses
  <2>5. ASSUME NEW a \in Accounts, NEW id \in Ids, RefundPayment(a, id)
        PROVE  TypeOK'
    <3>1. escrow[id].shipper \in Accounts
      BY <1>2, <2>5, RecordFacts DEF RefundPayment, CanSettle, Records
    <3>2. QED
      BY <1>2, <2>5, <3>1, PayOutType DEF RefundPayment, CanSettle, Statuses
  <2>6. ASSUME NEW a \in Accounts, NEW id \in Ids, RaiseDispute(a, id)
        PROVE  TypeOK'
    <3>1. [escrow[id] EXCEPT !.status = "Disputed"] \in Records
      BY <1>2, <2>6, RecordFacts DEF RaiseDispute, Records, Statuses
    <3>2. QED
      BY <1>2, <2>6, <3>1 DEF RaiseDispute, TypeOK
  <2>7. ASSUME NEW a \in Accounts, NEW id \in Ids, NEW r \in BOOLEAN,
               ResolveDispute(a, id, r)
        PROVE  TypeOK'
    <3>1. escrow[id].shipper \in Accounts /\ escrow[id].carrier \in Accounts
      BY <1>2, <2>7, RecordFacts DEF ResolveDispute, CanSettle, Records
    <3>2. QED
      BY <1>2, <2>7, <3>1, PayOutType DEF ResolveDispute, CanSettle, Statuses
  <2>8. CASE UNCHANGED vars
    BY <1>2, <2>8 DEF vars, TypeOK
  <2>9. QED
    BY <1>2, <2>1, <2>2, <2>3, <2>4, <2>5, <2>6, <2>7, <2>8 DEF Next
<1>3. QED
  BY <1>1, <1>2, PTL DEF Spec

(* The money of one shipment: what came in and has not gone out is what the *)
(* live record promises plus what was overwritten while disputed.           *)
LEMMA PayOutKeepsLedger ==
    ASSUME TypeOK, NeverOverpaid, NEW id \in Ids, Held(id),
           NEW payee \in Accounts, NEW status \in {"Released", "Refunded"},
           PayOut(id, payee, status)
    PROVE  NeverOverpaid'
<1> SUFFICES ASSUME NEW other \in Ids
             PROVE  netIn'[other] = HeldAmount(other)' + abandoned'[other]
  BY DEF NeverOverpaid
<1>1. CASE other = id
  <2>1. HeldAmount(id) = escrow[id].amount /\ escrow[id].amount \in Nat
    BY RecordFacts DEF HeldAmount, Held
  <2>2. HeldAmount(id)' = 0
    <3>1. escrow'[id] = [escrow[id] EXCEPT !.status = status]
      BY DEF PayOut, TypeOK
    <3>2. escrow'[id].status = status
      BY <3>1, RecordFacts DEF Held, Records
    <3>3. QED
      BY <3>2 DEF HeldAmount, Held
  <2>3. netIn[id] = escrow[id].amount + abandoned[id]
    BY <2>1 DEF NeverOverpaid
  <2>4. netIn'[id] = netIn[id] - escrow[id].amount /\ abandoned' = abandoned
    BY DEF PayOut, TypeOK
  <2>5. QED
    BY <1>1, <2>1, <2>2, <2>3, <2>4 DEF TypeOK
<1>2. CASE other # id
  <2>1. escrow'[other] = escrow[other]
    BY <1>2 DEF PayOut, TypeOK
  <2>2. HeldAmount(other)' = HeldAmount(other)
    BY <2>1 DEF HeldAmount, Held
  <2>3. netIn'[other] = netIn[other] /\ abandoned' = abandoned
    BY <1>2 DEF PayOut, TypeOK
  <2>4. QED
    BY <2>2, <2>3 DEF NeverOverpaid
<1>3. QED
  BY <1>1, <1>2

(* No shipment is ever paid more than was deposited for it: for every       *)
(* number of accounts, shipments and tokens, NeverOverpaid is invariant.    *)
(* It is inductive together with TypeOK.                                    *)
THEOREM OverpaymentFree == Spec => []NeverOverpaid
<1>1. Init => NeverOverpaid
  BY DEF Init, NeverOverpaid, HeldAmount, Held, NoRecord
<1>2. ASSUME TypeOK, NeverOverpaid, [Next]_vars PROVE NeverOverpaid'
  <2>1. ASSUME UNCHANGED <<escrow, netIn, abandoned>> PROVE NeverOverpaid'
    BY <1>2, <2>1 DEF NeverOverpaid, HeldAmount, Held
  <2>2. ASSUME NEW s \in Accounts, NEW c \in Accounts, NEW id \in Ids,
               NEW n \in Amounts, FundEscrow(s, c, id, n)
        PROVE  NeverOverpaid'
    <3> SUFFICES ASSUME NEW other \in Ids
                 PROVE  netIn'[other] = HeldAmount(other)' + abandoned'[other]
      BY DEF NeverOverpaid
    <3>1. HeldAmount(id) \in Nat
      BY <1>2, HeldAmountType
    <3>2. CASE other = id
      <4>1. HeldAmount(id)' = n
        BY <1>2, <2>2 DEF FundEscrow, CanFund, TypeOK, HeldAmount, Held
      <4>2. /\ netIn'[id] = netIn[id] + n
            /\ abandoned'[id] = abandoned[id] + HeldAmount(id)
        BY <1>2, <2>2 DEF FundEscrow, CanFund, TypeOK
      <4>3. /\ netIn[id] = HeldAmount(id) + abandoned[id]
            /\ n \in Int /\ netIn[id] \in Int /\ abandoned[id] \in Int
        BY <1>2 DEF NeverOverpaid, TypeOK
      <4>4. QED
        BY <3>1, <3>2, <4>1, <4>2, <4>3
    <3>3. CASE other # id
      <4>1. /\ escrow'[other] = escrow[other]
            /\ netIn'[other] = netIn[other]
            /\ abandoned'[other] = abandoned[other]
        BY <1>2, <2>2, <3>3 DEF FundEscrow, CanFund, TypeOK
      <4>2. QED
        BY <1>2, <4>1 DEF NeverOverpaid, HeldAmount, Held
    <3>4. QED
      BY <3>2, <3>3
  <2>3. ASSUME NEW a \in Accounts, NEW id \in Ids, ReleasePayment(a, id)
        PROVE  NeverOverpaid'
    <3>1. Held(id) /\ escrow[id].carrier \in Accounts
      BY <1>2, <2>3, RecordFacts DEF ReleasePayment, CanSettle, Records, Held
    <3>2. QED
      BY <1>2, <2>3, <3>1, PayOutKeepsLedger DEF ReleasePayment, CanSettle
  <2>4. ASSUME NEW a \in Accounts, NEW id \in Ids, RefundPayment(a, id)
        PROVE  NeverOverpaid'
    <3>1. Held(id) /\ escrow[id].shipper \in Accounts
      BY <1>2, <2>4, RecordFacts DEF RefundPayment, CanSettle, Records, Held
    <3>2. QED
      BY <1>2, <2>4, <3>1, PayOutKeepsLedger DEF RefundPayment, CanSettle
  <2>5. ASSUME NEW a \in Accounts, NEW id \in Ids, RaiseDispute(a, id)
        PROVE  NeverOverpaid'
    <3> SUFFICES ASSUME NEW other \in Ids
                 PROVE  HeldAmount(other)' = HeldAmount(other)
      BY <1>2, <2>5 DEF NeverOverpaid, RaiseDispute
    <3>1. /\ escrow[id] \in Records
          /\ escrow'[id] = [escrow[id] EXCEPT !.status = "Disputed"]
      BY <1>2, <2>5, RecordFacts DEF RaiseDispute, TypeOK
    <3>2. /\ escrow'[id].status = "Disputed"
          /\ escrow'[id].amount = escrow[id].amount
      BY <3>1 DEF Records
    <3>3. HeldAmount(id)' = HeldAmount(id)
      BY <2>5, <3>2 DEF RaiseDispute, HeldAmount, Held
    <3>4. other # id => escrow'[other] = escrow[other]
      BY <1>2, <2>5 DEF RaiseDispute, TypeOK
    <3>5. QED
      BY <3>3, <3>4 DEF HeldAmount, Held
  <2>6. ASSUME NEW a \in Accounts, NEW id \in Ids, NEW r \in BOOLEAN,
               ResolveDispute(a, id, r)
        PROVE  NeverOverpaid'
    <3>1. /\ Held(id)
          /\ escrow[id].shipper \in Accounts /\ escrow[id].carrier \in Accounts
      BY <1>2, <2>6, RecordFacts DEF ResolveDispute, CanSettle, Records, Held
    <3>2. QED
      BY <1>2, <2>6, <3>1, PayOutKeepsLedger DEF ResolveDispute, CanSettle
  <2>7. QED
    BY <1>2, <2>1, <2>2, <2>3, <2>4, <2>5, <2>6
       DEF Next, vars, Initialize, Approve
<1>3. QED
  BY <1>1, <1>2, TypeCorrect, PTL DEF Spec

(* A settled record changes only by a fund_escrow that brings in its amount *)
(* in full, for all constants.                                              *)
THEOREM SettlementFinal == Spec => SettledIsFinal
<1> DEFINE Final == \A id \in Ids :
              /\ escrow[id].status \in {"Released", "Refunded"}
              /\ escrow'[id] # escrow[id]
              => /\ escrow'[id].status = "Funded"
                 /\ vault' = vault + escrow'[id].amount
<1>1. ASSUME TypeOK, [Next]_vars PROVE [Final]_vars
  <2> SUFFICES ASSUME NEW id \in Ids,
                      escrow[id].status \in {"Released", "Refunded"},
                      escrow'[id] # escrow[id]
               PROVE  /\ escrow'[id].status = "Funded"
                      /\ vault' = vault + escrow'[id].amount
    OBVIOUS
  <2>1. ASSUME NEW s \in Accounts, NEW c \in Accounts, NEW i \in Ids,
               NEW n \in Amounts, FundEscrow(s, c, i, n)
        PROVE  /\ escrow'[id].status = "Funded"
               /\ vault' = vault + escrow'[id].amount
    <3>1. i = id
      BY <1>1, <2>1 DEF FundEscrow, CanFund, TypeOK
    <3>2. QED
      BY <1>1, <2>1, <3>1 DEF FundEscrow, CanFund, TypeOK
  <2>2. ASSUME NEW i \in Ids, NEW status, escrow[i].status \in {"Funded", "Disputed"},
               escrow' = [escrow EXCEPT ![i].status = status]
        PROVE  FALSE
    BY <1>1, <2>2 DEF TypeOK
  <2>3. ASSUME NEW i \in Ids, NEW p, NEW st, PayOut(i, p, st),
               escrow[i].status \in {"Funded", "Disputed"}
        PROVE  FALSE
    BY <2>2, <2>3 DEF PayOut
  <2>4. ASSUME NEW a \in Accounts, NEW i \in Ids, RaiseDispute(a, i)
        PROVE  FALSE
    BY <2>2, <2>4 DEF RaiseDispute
  <2>5. ~ UNCHANGED escrow
    OBVIOUS
  <2>6. QED
    BY <1>1, <2>1, <2>3, <2>4, <2>5
       DEF Next, vars, Initialize, Approve, ReleasePayment, RefundPayment, CanSettle,
           ResolveDispute
<1>2. QED
  BY <1>1, TypeCorrect, PTL DEF Spec, SettledIsFinal

(* Tokens leave the contract only as one whole live deposit, to the carrier *)
(* when it is released and to the shipper when it is refunded, for all      *)
(* constants.                                                               *)
THEOREM PaymentsToParty == Spec => PaysItsParty
<1> DEFINE Paid(id) ==
             /\ Held(id)
             /\ vault' = vault - escrow[id].amount
             /\ \/ /\ escrow'[id].status = "Released"
                   /\ balance' = [balance EXCEPT ![escrow[id].carrier] = @ + escrow[id].amount]
                \/ /\ escrow'[id].status = "Refunded"
                   /\ balance' = [balance EXCEPT ![escrow[id].shipper] = @ + escrow[id].amount]
<1>1. ASSUME TypeOK, [Next]_vars, vault' < vault PROVE \E id \in Ids : Paid(id)
  <2>1. ASSUME NEW id \in Ids, Held(id),
               \/ PayOut(id, escrow[id].carrier, "Released")
               \/ PayOut(id, escrow[id].shipper, "Refunded")
        PROVE  Paid(id)
    <3>1. escrow[id] \in Records
      BY <1>1, <2>1, RecordFacts DEF Held
    <3>2. ASSUME NEW status, escrow' = [escrow EXCEPT ![id].status = status]
          PROVE  escrow'[id].status = status
      BY <1>1, <3>1, <3>2 DEF TypeOK, Records
    <3> QED
      BY <2>1, <3>2 DEF PayOut
  <2>2. ASSUME NEW s \in Accounts, NEW c \in Accounts, NEW id \in Ids, NEW n \in Amounts,
               FundEscrow(s, c, id, n)
        PROVE  FALSE
    BY <1>1, <2>2 DEF FundEscrow, CanFund, TypeOK
  <2>3. vault' # vault
    BY <1>1 DEF TypeOK
  <2>4. ~ UNCHANGED vault /\ ~ UNCHANGED vars
    BY <2>3 DEF vars
  <2>5. ASSUME NEW a \in Accounts, NEW id \in Ids, ReleasePayment(a, id) PROVE Paid(id)
    BY <2>1, <2>5 DEF ReleasePayment, CanSettle, Held
  <2>6. ASSUME NEW a \in Accounts, NEW id \in Ids, RefundPayment(a, id) PROVE Paid(id)
    BY <2>1, <2>6 DEF RefundPayment, CanSettle, Held
  <2>7. ASSUME NEW a \in Accounts, NEW id \in Ids, NEW r \in BOOLEAN, ResolveDispute(a, id, r)
        PROVE  Paid(id)
    BY <2>1, <2>7 DEF ResolveDispute, CanSettle, Held
  <2> HIDE DEF Paid
  <2> QED
    BY <1>1, <2>2, <2>4, <2>5, <2>6, <2>7 DEF Next, Initialize, Approve, RaiseDispute
<1>2. QED
  BY <1>1, TypeCorrect, PTL DEF Spec, PaysItsParty

(* The contract implements HeldDeposits: with a record seen as a deposit    *)
(* while it is Funded or Disputed, every call takes a deposit, pays it on,  *)
(* gives it back whole, or changes nothing the promise speaks of.           *)
THEOREM ImplementsPromise == Spec => PromiseKept
<1> DEFINE Deposit(id) ==
             IF Held(id)
               THEN [from |-> escrow[id].shipper, to |-> escrow[id].carrier,
                     amount |-> escrow[id].amount]
               ELSE [amount |-> 0]
           Deposits == [id \in Ids |-> Deposit(id)]
<1>1. Init => Promise!Init
  BY DEF Init, Promise!Init, Promise!NoDeposit, Held, NoRecord
<1>2. ASSUME TypeOK, NEW id \in Ids, Held(id), NEW payee, NEW status,
             status \in {"Released", "Refunded"}, PayOut(id, payee, status)
      PROVE  /\ Deposits[id] # Promise!NoDeposit
             /\ Deposits[id].amount = escrow[id].amount
             /\ Deposits' = [Deposits EXCEPT ![id] = Promise!NoDeposit]
  <2>1. /\ escrow[id] \in Records
        /\ escrow[id].amount \in Nat /\ escrow[id].amount > 0
    BY <1>2, RecordFacts DEF Held
  <2>2. Deposits[id].amount = escrow[id].amount
    BY <1>2
  <2>3. Deposits[id] # Promise!NoDeposit
    BY <2>1, <2>2 DEF Promise!NoDeposit
  <2>4. /\ escrow'[id] = [escrow[id] EXCEPT !.status = status]
        /\ \A other \in Ids \ {id} : escrow'[other] = escrow[other]
    BY <1>2 DEF PayOut, TypeOK
  <2>5. escrow'[id].status = status
    BY <2>1, <2>4 DEF Records
  <2>6. Deposits' = [Deposits EXCEPT ![id] = Promise!NoDeposit]
    BY <1>2, <2>4, <2>5 DEF Promise!NoDeposit, Held
  <2>7. QED
    BY <2>2, <2>3, <2>6
<1>3. ASSUME TypeOK, [Next]_vars PROVE [Promise!Next]_Promise!promiseVars
  <2>1. ASSUME UNCHANGED <<escrow, balance, vault>>
        PROVE  UNCHANGED Promise!promiseVars
    BY <2>1 DEF Promise!promiseVars, Held
  <2>2. ASSUME NEW s \in Accounts, NEW c \in Accounts, NEW id \in Ids,
               NEW n \in Amounts, FundEscrow(s, c, id, n)
        PROVE  Promise!Next
    <3>1. n \in 1..balance[s]
      BY <1>3, <2>2 DEF FundEscrow, CanFund, TypeOK
    <3>2. /\ escrow'[id] = [shipper |-> s, carrier |-> c,
                            amount |-> n, status |-> "Funded"]
          /\ \A other \in Ids \ {id} : escrow'[other] = escrow[other]
      BY <1>3, <2>2 DEF FundEscrow, CanFund, TypeOK
    <3>3. Deposits' = [Deposits EXCEPT ![id] =
                         [from |-> s, to |-> c, amount |-> n]]
      <4>1. Deposit(id)' = [from |-> s, to |-> c, amount |-> n]
        BY <3>2 DEF Held
      <4>2. \A other \in Ids \ {id} : Deposit(other)' = Deposit(other)
        BY <3>2 DEF Held
      <4>3. QED
        BY <4>1, <4>2
    <3>4. Promise!Take(id, s, c, n)
      BY <2>2, <3>1, <3>3 DEF Promise!Take, FundEscrow, CanFund
    <3>5. QED
      BY <3>1, <3>4 DEF Promise!Next
  <2>3. ASSUME NEW id \in Ids, Held(id), PayOut(id, escrow[id].carrier, "Released")
        PROVE  Promise!Next
    <3>1. Deposits[id].to = escrow[id].carrier
      BY <2>3
    <3>2. /\ Deposits[id] # Promise!NoDeposit
          /\ Deposits[id].amount = escrow[id].amount
          /\ Deposits' = [Deposits EXCEPT ![id] = Promise!NoDeposit]
      BY <1>2, <1>3, <2>3
    <3>3. Promise!PayOn(id)
      BY <2>3, <3>1, <3>2 DEF Promise!PayOn, Promise!Give, PayOut
    <3>4. QED
      BY <3>3 DEF Promise!Next
  <2>4. ASSUME NEW id \in Ids, Held(id), PayOut(id, escrow[id].shipper, "Refunded")
        PROVE  Promise!Next
    <3>1. Deposits[id].from = escrow[id].shipper
      BY <2>4
    <3>2. /\ Deposits[id] # Promise!NoDeposit
          /\ Deposits[id].amount = escrow[id].amount
          /\ Deposits' = [Deposits EXCEPT ![id] = Promise!NoDeposit]
      BY <1>2, <1>3, <2>4
    <3>3. Promise!GiveBack(id)
      BY <2>4, <3>1, <3>2 DEF Promise!GiveBack, Promise!Give, PayOut
    <3>4. QED
      BY <3>3 DEF Promise!Next
  <2>5. ASSUME NEW a \in Accounts, NEW id \in Ids, RaiseDispute(a, id)
        PROVE  UNCHANGED Promise!promiseVars
    <3>1. /\ escrow[id] \in Records
          /\ escrow'[id] = [escrow[id] EXCEPT !.status = "Disputed"]
          /\ \A other \in Ids \ {id} : escrow'[other] = escrow[other]
      BY <1>3, <2>5, RecordFacts DEF RaiseDispute, TypeOK
    <3>2. /\ escrow'[id].status = "Disputed"
          /\ escrow'[id].shipper = escrow[id].shipper
          /\ escrow'[id].carrier = escrow[id].carrier
          /\ escrow'[id].amount = escrow[id].amount
      BY <3>1 DEF Records
    <3>3. \A other \in Ids : Deposit(other)' = Deposit(other)
      BY <2>5, <3>1, <3>2 DEF Held, RaiseDispute
    <3>4. Deposits' = Deposits
      BY <3>3
    <3>5. QED
      BY <2>5, <3>4 DEF Promise!promiseVars, RaiseDispute
  <2>6. QED
    BY <1>3, <2>1, <2>2, <2>3, <2>4, <2>5
       DEF Next, vars, Initialize, Approve, ReleasePayment, RefundPayment, CanSettle,
           ResolveDispute, Held
<1>4. QED
  BY <1>1, <1>3, TypeCorrect, PTL DEF Spec, PromiseKept, Promise!Spec

(* The contract's balance is what has come in for all shipments and has     *)
(* not gone out.                                                            *)
VaultIsNetIn == vault = SumOf(netIn, Ids)

LEMMA VaultFollows ==
    ASSUME TypeOK, VaultIsNetIn, NEW id \in Ids, NEW n \in Int,
           netIn' = [netIn EXCEPT ![id] = @ + n], vault' = vault + n
    PROVE  VaultIsNetIn'
<1>1. SumOf(netIn', Ids) = SumOf(netIn, Ids) + netIn'[id] - netIn[id]
  <2>1. \A x \in Ids : netIn'[x] \in Int /\ netIn[x] \in Int
    BY DEF TypeOK
  <2>2. \A x \in Ids \ {id} : netIn'[x] = netIn[x]
    BY DEF TypeOK
  <2> DEFINE before == netIn
             after == netIn'
  <2> HIDE DEF before, after
  <2>3. /\ \A x \in Ids : after[x] \in Int /\ before[x] \in Int
        /\ \A x \in Ids \ {id} : after[x] = before[x]
    BY <2>1, <2>2 DEF before, after
  <2>4. SumOf(after, Ids) = SumOf(before, Ids) + after[id] - before[id]
    BY <2>3, SumChanged
  <2> QED
    BY <2>4 DEF before, after
<1>2. netIn'[id] = netIn[id] + n /\ netIn[id] \in Int
  BY DEF TypeOK
<1>3. SumOf(netIn, Ids) \in Int
  BY SumType DEF TypeOK
<1>4. SumOf(netIn', Ids) = SumOf(netIn, Ids) + n
  BY <1>1, <1>2, <1>3
<1> QED
  BY <1>4 DEF VaultIsNetIn

(* The sum that Solvent speaks of is one of a function's values. *)
LEMMA SumHeld == MapThenSumSet(HeldAmount, Ids) = SumOf([id \in Ids |-> HeldAmount(id)], Ids)
<1> DEFINE w == [id \in Ids |-> HeldAmount(id)]
           Rec(g) == g = [s \in SUBSET Ids |-> IF s = {} THEN 0
                                              ELSE HeldAmount(Pick(s)) + g[s \ {Pick(s)}]]
           g == CHOOSE g : Rec(g)
<1>1. MapThenSumSet(HeldAmount, Ids) = g[Ids]
  BY Zenon DEF MapThenSumSet, MapThenFoldSet, Pick
<1>2. \A h : Rec(h) <=> IsSum(h, w, Ids)
  <2>1. \A s \in SUBSET Ids : s # {} => w[Pick(s)] = HeldAmount(Pick(s))
    BY PickIn
  <2> HIDE DEF w
  <2> QED
    BY <2>1 DEF IsSum
<1>3. IsSum(g, w, Ids)
  <2>1. \E h : Rec(h)
    BY <1>2, SumExists
  <2> HIDE DEF Rec
  <2>2. Rec(g)
    BY <2>1
  <2> QED
    BY <1>2, <2>2
<1> HIDE DEF g
<1> QED
  BY <1>1, <1>3, SumIs

(* The contract can always pay every live deposit at once, for all          *)
(* constants: its balance is what has come in and not gone out, shipment by *)
(* shipment (VaultIsNetIn), and of that each shipment's live record is a    *)
(* part (NeverOverpaid).                                                    *)
THEOREM AlwaysSolvent == Spec => []Solvent
<1>1. Init => VaultIsNetIn
  <2>1. SUFFICES ASSUME Init PROVE SumOf(netIn, Ids) = 0
    BY DEF Init, VaultIsNetIn
  <2> DEFINE g == [s \in SUBSET Ids |-> 0]
  <2>2. IsSum(g, netIn, Ids)
    BY <2>1, PickIn DEF Init, IsSum
  <2> QED
    BY <2>2, SumIs
<1>2. ASSUME TypeOK, VaultIsNetIn, [Next]_vars PROVE VaultIsNetIn'
  <2>1. ASSUME UNCHANGED <<vault, netIn>> PROVE VaultIsNetIn'
    BY <1>2, <2>1 DEF VaultIsNetIn
  <2>2. ASSUME NEW s \in Accounts, NEW c \in Accounts, NEW id \in Ids, NEW n \in Amounts,
               FundEscrow(s, c, id, n)
        PROVE  VaultIsNetIn'
    <3>1. n \in Int
      OBVIOUS
    <3> QED
      BY <1>2, <2>2, <3>1, VaultFollows DEF FundEscrow
  <2>3. ASSUME NEW id \in Ids, escrow[id].status # "Absent", NEW payee, NEW status,
               PayOut(id, payee, status)
        PROVE  VaultIsNetIn'
    <3> DEFINE amount == escrow[id].amount
               n == 0 - amount
    <3>1. amount \in Nat
      BY <1>2, <2>3, RecordFacts
    <3>2. netIn' = [netIn EXCEPT ![id] = @ - amount] /\ vault' = vault - amount
      BY <2>3 DEF PayOut
    <3> HIDE DEF amount
    <3>3. netIn[id] \in Int /\ vault \in Int /\ n \in Int
      BY <1>2, <3>1 DEF TypeOK
    <3>4. netIn[id] - amount = netIn[id] + n /\ vault - amount = vault + n
      BY <3>1, <3>3
    <3>5. netIn' = [netIn EXCEPT ![id] = @ + n] /\ vault' = vault + n
      BY <3>2, <3>4
    <3> HIDE DEF n
    <3> QED
      BY <1>2, <3>3, <3>5, VaultFollows
  <2>4. ASSUME NEW a \in Accounts, NEW id \in Ids, NEW r \in BOOLEAN,
               \/ ReleasePayment(a, id) \/ RefundPayment(a, id) \/ ResolveDispute(a, id, r)
        PROVE  VaultIsNetIn'
    BY <2>3, <2>4 DEF ReleasePayment, RefundPayment, ResolveDispute, CanSettle
  <2> QED
    BY <1>2, <2>1, <2>2, <2>4 DEF Next, vars, Initialize, Approve, RaiseDispute
<1>3. ASSUME TypeOK, NeverOverpaid, VaultIsNetIn PROVE Solvent
  <2> DEFINE held == [id \in Ids |-> HeldAmount(id)]
  <2>1. \A id \in Ids : /\ held[id] \in Int /\ netIn[id] \in Int
                        /\ held[id] <= netIn[id]
    <3>1. SUFFICES ASSUME NEW id \in Ids
                   PROVE /\ HeldAmount(id) \in Int /\ netIn[id] \in Int
                         /\ HeldAmount(id) <= netIn[id]
      OBVIOUS
    <3>2. HeldAmount(id) \in Nat
      BY <1>3, HeldAmountType
    <3>3. abandoned[id] \in Nat /\ netIn[id] = HeldAmount(id) + abandoned[id]
      BY <1>3 DEF TypeOK, NeverOverpaid
    <3> HIDE DEF HeldAmount
    <3> QED
      BY <3>2, <3>3
  <2> HIDE DEF held
  <2>2. SumOf(held, Ids) <= SumOf(netIn, Ids)
    BY <2>1, SumAtMost
  <2>3. SumOf(held, Ids) \in Int /\ SumOf(netIn, Ids) \in Int
    BY <2>1, SumType
  <2> QED
    BY <1>3, <2>2, <2>3, SumHeld DEF Solvent, VaultIsNetIn, held
<1> QED
  BY <1>1, <1>2, <1>3, TypeCorrect, OverpaymentFree, PTL DEF Spec
=============================================================================
