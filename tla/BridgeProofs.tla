---------------------------- MODULE BridgeProofs ----------------------------
(***************************************************************************)
(* Theorems about Bridge for any number of runs of the tool, any amounts,  *)
(* fees and bounds.                                                        *)
(***************************************************************************)
EXTENDS BridgeProperties, SequenceTheorems, TLAPS

-----------------------------------------------------------------------------
(* Type correctness.                                                       *)

\* A transaction that moves between pool and blocks stays one: the chains'
\* own steps preserve their types.
LEMMA ChainStepType ==
  ASSUME ChainTypeOK, NEW c \in Chains,
         Mine(c) \/ Evict(c) \/ Reorg(c) \/ Relay \/ Gift \/ Spend
  PROVE  ChainTypeOK'
<1> USE BoundsAssumption DEF ChainTypeOK, Chains
<1>1. CASE Mine(c)
  <2>1. PICK t \in pool[c], out \in Outcomes :
          /\ pool' = [pool EXCEPT ![c] = @ \ {t}]
          /\ mined' = [mined EXCEPT ![c] =
                         Append(@, [tx |-> t, outcome |-> out, fork |-> reorgs])]
          /\ UNCHANGED <<bal, minted, relayed, gifts, spent, reorgs, evictions>>
    BY <1>1 DEF Mine
  <2>2. [tx |-> t, outcome |-> out, fork |-> reorgs] \in Entry
    BY DEF Entry
  <2>3. pool' \in [Chains -> SUBSET Tx]
    BY <2>1
  <2>4. /\ mined' \in [Chains -> Seq(Entry)]
        /\ Len(mined'["L1"]) >= Len(mined["L1"])
    BY <2>1, <2>2
  <2>5. QED
    BY <2>1, <2>3, <2>4
<1>2. CASE Evict(c)
  BY <1>2 DEF Evict
<1>3. CASE Reorg(c)
  <2> DEFINE s == mined[c]
  <2>1. s \in Seq(Entry) /\ Len(s) \in Nat /\ Len(s) > 0
    <3>1. s \in Seq(Entry) /\ s # <<>>
      BY <1>3 DEF Reorg
    <3>2. QED
      BY <3>1, EmptySeq, LenProperties
  <2>2. /\ SubSeq(s, 1, Len(s) - 1) \in Seq(Entry)
        /\ Len(SubSeq(s, 1, Len(s) - 1)) = Len(s) - 1
    BY <2>1, SubSeqProperties
  <2>3. s[Len(s)].tx \in Tx
    <3>1. Len(s) \in 1 .. Len(s)
      BY <2>1
    <3>2. s[Len(s)] \in Entry
      BY <2>1, <3>1, ElementOfSeq
    <3>3. QED
      BY <3>2 DEF Entry
  <2>4. /\ mined' = [mined EXCEPT ![c] = SubSeq(s, 1, Len(s) - 1)]
        /\ pool' = [pool EXCEPT ![c] = @ \cup {s[Len(s)].tx}]
        /\ reorgs' = reorgs + 1 /\ reorgs < MaxReorgs
        /\ c = "L1" => relayed < Len(s)
        /\ UNCHANGED <<bal, minted, relayed, gifts, spent, evictions>>
    BY <1>3 DEF Reorg
  <2>5. mined' \in [Chains -> Seq(Entry)] /\ pool' \in [Chains -> SUBSET Tx]
    BY <2>2, <2>3, <2>4
  <2>6. relayed' \in 0 .. Len(mined'["L1"])
    BY <2>1, <2>2, <2>4
  <2>7. QED
    BY <2>4, <2>5, <2>6
<1>4. CASE Relay
  <2> DEFINE e == mined["L1"][relayed + 1]
  <2>1. relayed < Len(mined["L1"]) /\ mined["L1"] \in Seq(Entry)
    BY <1>4 DEF Relay
  <2>2. e \in Entry
    BY <2>1, ElementOfSeq, LenProperties
  <2>3. e.tx.amount \in Nat
    BY <2>2 DEF Entry, Tx
  <2>4. bal' \in Nat /\ minted' \in Nat
    <3>1. bal \in Nat /\ minted \in Nat
      OBVIOUS
    <3> DEFINE credit == IF e.outcome = "logged" THEN e.tx.amount ELSE 0
    <3>2. bal' = bal + credit /\ minted' = minted + credit
      BY <1>4, Zenon DEF Relay
    <3>3. credit \in Nat
      BY <2>3
    <3> HIDE DEF credit
    <3>4. QED
      BY <3>1, <3>2, <3>3
  <2>5. relayed' \in 0 .. Len(mined'["L1"])
    <3>1. relayed' = relayed + 1 /\ mined' = mined
      BY <1>4 DEF Relay
    <3>2. Len(mined["L1"]) \in Nat
      BY <2>1, LenProperties
    <3>3. QED
      BY <2>1, <3>1, <3>2
  <2>6. QED
    BY <1>4, <2>4, <2>5 DEF Relay
<1>5. CASE Gift
  BY <1>5 DEF Gift
<1>6. CASE Spend
  BY <1>6 DEF Spend
<1>7. QED
  BY <1>1, <1>2, <1>3, <1>4, <1>5, <1>6

LEMMA InitType == Init => TypeOK
BY OpsAssumption, BalanceAssumption, BoundsAssumption, EmptySeq
   DEF Init, ChainInit, TypeOK, ChainTypeOK, Stages, PreSendStages, Errors, Tx,
       Kinds, Draft, Result, EmptyResult, Log

\* An early return changes only pc and err.
LEMMA FailType ==
  ASSUME TypeOK, NEW o \in Ops, NEW e \in Errors, Fail(o, e)
  PROVE  TypeOK'
<1>1. ChainTypeOK'
  BY DEF TypeOK, ChainTypeOK, Fail, chainVars
<1>2. pc' \in [Ops -> Stages] /\ err' \in [Ops -> Errors]
  BY DEF TypeOK, Fail, Return, Stages
<1>3. QED
  BY <1>1, <1>2 DEF TypeOK, Fail, Return, diskVars

\* Going on without an assignment changes only pc.
LEMMA PassType ==
  ASSUME TypeOK, NEW o \in Ops, NEW s \in Stages, Pass(o, s)
  PROVE  TypeOK'
<1>1. ChainTypeOK'
  BY DEF TypeOK, ChainTypeOK, Pass, chainVars
<1>2. pc' \in [Ops -> Stages]
  BY DEF TypeOK, Pass, Go
<1>3. QED
  BY <1>1, <1>2 DEF TypeOK, Pass, Go, diskVars

\* What a step of a run leaves as it is.
LEMMA ChainUnchangedType ==
  ASSUME TypeOK, UNCHANGED chainVars
  PROVE  ChainTypeOK'
BY DEF TypeOK, ChainTypeOK, chainVars

LEMMA AcceptType ==
  ASSUME TypeOK, NEW o \in Ops, Accept(Chain(o), tx[o]),
         UNCHANGED <<mined, bal, minted, relayed, gifts, spent, reorgs, evictions>>
  PROVE  ChainTypeOK'
<1>1. tx[o] \in Tx /\ Chain(o) \in Chains
  BY DEF TypeOK, Chain, Chains
<1>2. pool' \in [Chains -> SUBSET Tx]
  BY <1>1 DEF TypeOK, ChainTypeOK, Accept, Rivals
<1>3. QED
  BY <1>2 DEF TypeOK, ChainTypeOK

\* Every step of a run preserves the types.
LEMMA OpStepType ==
  ASSUME TypeOK, NEW o \in Ops, OpStep(o)
  PROVE  TypeOK'
<1> USE DEF Stages, PreSendStages, ReceiptStages, CreditStages, RecordStages,
            Errors, Refusals, LateErrors
<1>1. CASE Start(o)
  BY <1>1, FailType, PassType DEF Start
<1>2. CASE VerifySrc(o)
  BY <1>2, FailType, PassType DEF VerifySrc, AfterSrc
<1>3. CASE VerifyDst(o)
  BY <1>3, FailType, PassType DEF VerifyDst
<1>4. CASE ReadBefore(o)
  <2>1. CASE Fail(o, "read balance before")
    BY <2>1, FailType
  <2>2. CASE ~Fail(o, "read balance before")
    <3>1. ChainTypeOK'
      BY <1>4, <2>2, ChainUnchangedType DEF ReadBefore
    <3>2. /\ before' = [before EXCEPT ![o] = bal]
          /\ pc' = [pc EXCEPT ![o] = "nonce"]
      BY <1>4, <2>2 DEF ReadBefore, Go
    <3>3. before' \in [Ops -> Nat]
      BY <3>2 DEF TypeOK, ChainTypeOK
    <3>4. pc' \in [Ops -> Stages]
      BY <3>2 DEF TypeOK
    <3>5. QED
      BY <1>4, <2>2, <3>1, <3>3, <3>4 DEF ReadBefore, Go, TypeOK, diskVars
  <2>3. QED
    BY <2>1, <2>2
<1>5. CASE ReadNonce(o)
  <2>1. CASE Fail(o, "prepare transaction")
    BY <2>1, FailType
  <2>2. CASE ~Fail(o, "prepare transaction")
    <3>1. PICK n \in Nonces(o) :
            /\ tx' = [tx EXCEPT ![o] = [nonce |-> n, kind |-> Kind[o],
                                       amount |-> Amount[o], fee |-> 0]]
            /\ Go(o, "fees")
            /\ UNCHANGED <<chainVars, before, late, res, diskVars>>
      BY <1>5, <2>2 DEF ReadNonce
    <3>2. Len(mined[Chain(o)]) \in Nat
      <4>1. mined[Chain(o)] \in Seq(Entry)
        BY DEF TypeOK, ChainTypeOK, Chain, Chains
      <4>2. QED
        BY <4>1, LenProperties
    <3>3. n \in Nat
      BY <3>1, <3>2 DEF Nonces, PendingNonces
    <3>4. tx' \in [Ops -> Tx]
      BY <3>1, <3>3, OpsAssumption DEF TypeOK, Tx
    <3>5. ChainTypeOK'
      BY <3>1, ChainUnchangedType
    <3>6. pc' \in [Ops -> Stages]
      BY <3>1 DEF TypeOK, Go
    <3>7. QED
      BY <3>1, <3>4, <3>5, <3>6 DEF TypeOK, Go, diskVars
  <2>3. QED
    BY <2>1, <2>2
<1>6. CASE PrepareFees(o)
  <2>1. CASE Fail(o, "prepare transaction")
    BY <2>1, FailType
  <2>2. CASE ~Fail(o, "prepare transaction")
    <3>1. PICK f \in Fees :
            /\ tx' = [tx EXCEPT ![o].fee = f]
            /\ Go(o, "send")
            /\ UNCHANGED <<chainVars, before, late, res, diskVars>>
      BY <1>6, <2>2 DEF PrepareFees
    <3>2. tx' \in [Ops -> Tx]
      <4>1. f \in Nat /\ tx \in [Ops -> Tx]
        BY FeesAssumption DEF TypeOK
      <4>2. tx' = [tx EXCEPT ![o].fee = f]
        BY <3>1
      <4>3. [tx[o] EXCEPT !.fee = f] \in Tx
        BY <4>1 DEF Tx
      <4>4. QED
        BY <4>1, <4>2, <4>3
    <3>3. ChainTypeOK'
      BY <3>1, ChainUnchangedType
    <3>4. pc' \in [Ops -> Stages]
      BY <3>1 DEF TypeOK, Go
    <3>5. QED
      BY <3>1, <3>2, <3>3, <3>4 DEF TypeOK, Go, diskVars
  <2>3. QED
    BY <2>1, <2>2
<1>7. CASE Broadcast(o)
  <2>1. CASE Fail(o, "broadcast")
    BY <2>1, FailType
  <2>2. CASE ~Fail(o, "broadcast")
    <3>1. ChainTypeOK'
      BY <1>7, <2>2, AcceptType DEF Broadcast
    <3>2. CASE Await(o, "receipt")
                 /\ res' = [res EXCEPT ![o].src = HashOnSend(o)]
      <4> DEFINE h == HashOnSend(o)
      <4>0. h \in BOOLEAN
        BY DEF HashOnSend
      <4>1. res' \in [Ops -> Result]
        <5> HIDE DEF h
        <5>1. res' = [res EXCEPT ![o].src = h]
          BY <3>2 DEF h
        <5>2. QED
          BY <4>0, <5>1 DEF TypeOK, Result
      <4>2. pc' \in [Ops -> Stages] /\ late' \in [Ops -> BOOLEAN]
        BY <3>2 DEF TypeOK, Await, Go
      <4>3. QED
        BY <1>7, <2>2, <3>1, <3>2, <4>1, <4>2
           DEF Broadcast, TypeOK, Await, Go, diskVars
    <3>3. CASE Return(o, "broadcast") /\ UNCHANGED <<late, res>>
      <4>1. pc' \in [Ops -> Stages] /\ err' \in [Ops -> Errors]
        BY <3>3 DEF TypeOK, Return
      <4>2. QED
        BY <1>7, <2>2, <3>1, <3>3, <4>1 DEF Broadcast, TypeOK, Return, diskVars
    <3>4. QED
      BY <1>7, <2>2, <3>2, <3>3 DEF Broadcast
  <2>3. QED
    BY <2>1, <2>2
<1>8. CASE ReceiptFound(o)
  <2> DEFINE e == Receipt(Chain(o), tx[o])
  <2>1. e \in Entry
    <3>1. mined[Chain(o)] \in Seq(Entry) /\ tx[o].nonce \in Nat
      BY DEF TypeOK, ChainTypeOK, Chain, Chains, Tx
    <3>2. tx[o].nonce < Len(mined[Chain(o)])
      BY <1>8 DEF ReceiptFound, Confirmed, InBlock
    <3>3. tx[o].nonce + 1 \in 1 .. Len(mined[Chain(o)])
      BY <3>1, <3>2, LenProperties
    <3>4. QED
      BY <3>1, <3>3, ElementOfSeq DEF Receipt
  <2>2. LogOf(e) \in Log
    BY <2>1 DEF LogOf, Log, Entry
  <2>3. CASE Fail(o, "ErrTxReverted") \/ Fail(o, "no event in receipt")
    BY <2>3, FailType
  <2>4. CASE /\ Return(o, "nil")
             /\ res' = [res EXCEPT ![o].src = TRUE]
             /\ UNCHANGED <<chainVars, tx, before, late, diskVars>>
    <3>1. res' \in [Ops -> Result]
      BY <2>4 DEF TypeOK, Result
    <3>2. pc' \in [Ops -> Stages] /\ err' \in [Ops -> Errors]
      BY <2>4 DEF TypeOK, Return
    <3>3. QED
      BY <2>4, <3>1, <3>2, ChainUnchangedType DEF TypeOK, Return, diskVars
  <2>5. CASE /\ Await(o, "credit")
             /\ res' = [res EXCEPT ![o].dst = {LogOf(e)}]
             /\ UNCHANGED <<chainVars, tx, before, diskVars>>
    <3>1. res' \in [Ops -> Result]
      BY <2>2, <2>5 DEF TypeOK, Result
    <3>2. pc' \in [Ops -> Stages] /\ late' \in [Ops -> BOOLEAN]
      BY <2>5 DEF TypeOK, Await, Go
    <3>3. QED
      BY <2>5, <3>1, <3>2, ChainUnchangedType DEF TypeOK, Await, Go, diskVars
  <2>6. CASE /\ Go(o, "openRecord")
             /\ res' = [res EXCEPT ![o].withdrawal = {LogOf(e)}]
             /\ UNCHANGED <<chainVars, tx, before, late, diskVars>>
    <3>1. res' \in [Ops -> Result]
      BY <2>2, <2>6 DEF TypeOK, Result
    <3>2. pc' \in [Ops -> Stages]
      BY <2>6 DEF TypeOK, Go
    <3>3. QED
      BY <2>6, <3>1, <3>2, ChainUnchangedType DEF TypeOK, Go, diskVars
  <2>7. QED
    BY <1>8, <2>3, <2>4, <2>5, <2>6 DEF ReceiptFound
<1>9. CASE ReceiptPending(o) \/ ReceiptUnreadable(o) \/ ReceiptCheck(o)
  BY <1>9, FailType, PassType DEF ReceiptPending, ReceiptUnreadable, ReceiptCheck
<1>10. CASE CreditSeen(o)
  <2>1. Increase(o) \in Nat
    <3>1. bal \in Nat /\ before[o] \in Nat
      BY DEF TypeOK, ChainTypeOK
    <3>2. bal > before[o]
      BY <1>10 DEF CreditSeen, Rose
    <3>3. QED
      BY <3>1, <3>2 DEF Increase
  <2>2. res' \in [Ops -> Result]
    BY <1>10, <2>1 DEF CreditSeen, TypeOK, Result
  <2>3. pc' \in [Ops -> Stages] /\ err' \in [Ops -> Errors]
    BY <1>10 DEF CreditSeen, TypeOK, Return
  <2>4. QED
    BY <1>10, <2>2, <2>3, ChainUnchangedType
       DEF CreditSeen, TypeOK, Return, diskVars
<1>11. CASE CreditPending(o) \/ CreditUnreadable(o) \/ CreditCheck(o)
  BY <1>11, FailType, PassType DEF CreditPending, CreditUnreadable, CreditCheck
<1>12. CASE OpenRecord(o)
  <2>1. CASE Fail(o, "record withdrawal")
    BY <2>1, FailType
  <2>2. CASE ~Fail(o, "record withdrawal")
    <3>1. saved' \subseteq Log /\ torn' \subseteq Tx
      BY <1>12, <2>2 DEF OpenRecord, OtherRecords, TypeOK
    <3>2. pc' \in [Ops -> Stages]
      BY <1>12, <2>2 DEF OpenRecord, TypeOK, Go
    <3>3. QED
      BY <1>12, <2>2, <3>1, <3>2, ChainUnchangedType DEF OpenRecord, TypeOK, Go
  <2>3. QED
    BY <2>1, <2>2
<1>13. CASE WriteRecord(o)
  <2>1. CASE Fail(o, "record withdrawal")
    BY <2>1, FailType
  <2>2. CASE ~Fail(o, "record withdrawal")
    <3>1. saved' \subseteq Log /\ torn' \subseteq Tx
      BY <1>13, <2>2 DEF WriteRecord, OtherRecords, TypeOK, Result
    <3>2. res' \in [Ops -> Result]
      <4>1. res' = [res EXCEPT ![o].path = TRUE]
        BY <1>13, <2>2 DEF WriteRecord
      <4>2. QED
        BY <4>1 DEF TypeOK, Result
    <3>3. pc' \in [Ops -> Stages] /\ err' \in [Ops -> Errors]
      BY <1>13, <2>2 DEF WriteRecord, TypeOK, Return
    <3>4. QED
      BY <1>13, <2>2, <3>1, <3>2, <3>3, ChainUnchangedType
         DEF WriteRecord, TypeOK, Return
  <2>3. QED
    BY <2>1, <2>2
<1>14. QED
  BY <1>1, <1>2, <1>3, <1>4, <1>5, <1>6, <1>7, <1>8, <1>9, <1>10, <1>11,
     <1>12, <1>13 DEF OpStep

LEMMA NextType == TypeOK /\ [Next]_vars => TypeOK'
<1> SUFFICES ASSUME TypeOK, [Next]_vars PROVE TypeOK'
  OBVIOUS
<1>1. ASSUME NEW o \in Ops, OpStep(o) PROVE TypeOK'
  BY <1>1, OpStepType
<1>2. ASSUME NEW o \in Ops, DeadlinePasses(o) PROVE TypeOK'
  <2>1. late' \in [Ops -> BOOLEAN]
    BY <1>2 DEF DeadlinePasses, TypeOK
  <2>2. QED
    BY <1>2, <2>1, ChainUnchangedType DEF DeadlinePasses, TypeOK, diskVars
<1>3. ASSUME NEW o \in Ops, Crash(o) PROVE TypeOK'
  <2>1. pc' \in [Ops -> Stages] /\ err' \in [Ops -> Errors]
    BY <1>3 DEF Crash, Return, TypeOK, Stages, Errors
  <2>2. res' \in [Ops -> Result]
    BY <1>3 DEF Crash, TypeOK, Result, EmptyResult
  <2>3. QED
    BY <1>3, <2>1, <2>2, ChainUnchangedType DEF Crash, Return, TypeOK, diskVars
<1>4. CASE EnvStep
  <2>1. ChainTypeOK'
    BY <1>4, ChainStepType DEF EnvStep, TypeOK, Chains
  <2>2. UNCHANGED <<opVars, diskVars>>
    BY <1>4 DEF EnvStep
  <2>3. QED
    BY <2>1, <2>2 DEF TypeOK, opVars, diskVars
<1>5. CASE UNCHANGED vars
  BY <1>5, ChainUnchangedType DEF TypeOK, vars, opVars, diskVars
<1>6. QED
  BY <1>1, <1>2, <1>3, <1>4, <1>5 DEF Next, Finished

\* Every variable keeps its type: no nonce, balance or counter leaves its
\* range, and a reported credit is never negative.
THEOREM TypeCorrect == Spec => []TypeOK
BY InitType, NextType, PTL DEF Spec

-----------------------------------------------------------------------------
(* What success and a saved record mean, for any number of runs.           *)

\* The run's transaction is in a block, not reverted, and for a bridge
\* operation with the bridge's event.
Landed(o) ==
  /\ Confirmed(o)
  /\ Succeeded(Receipt(Chain(o), tx[o]))
  /\ Kind[o] # "same-chain" => HasEvent(Receipt(Chain(o), tx[o]))

Provable(r) ==
  /\ InBlock("L2", r.tx)
  /\ Receipt("L2", r.tx).outcome = "logged"
  /\ LogOf(Receipt("L2", r.tx)) = r

PastReceipt(o) == pc[o] \in CreditStages \cup RecordStages \/ Ok(o)

\* The inductive invariant: success is preceded by stages that already know
\* the receipt, and the record is made of the event found in it.
RunInv(o) ==
  /\ PastReceipt(o) \/ pc[o] \in {"send"} \cup ReceiptStages => tx[o].fee > 0
  /\ pc[o] \in RecordStages => Kind[o] = "withdraw"
  /\ reorgs = 0 /\ PastReceipt(o) => Landed(o)
  /\ reorgs = 0 /\ pc[o] \in RecordStages =>
       res[o].withdrawal = {LogOf(Receipt(Chain(o), tx[o]))}

OutcomeInv ==
  /\ TypeOK
  /\ \A o \in Ops : RunInv(o)
  /\ RecordsAreProvable

-----------------------------------------------------------------------------
\* A step of one run, a crash or a deadline touches no block and no other
\* run's variables.
LEMMA StepIsLocal ==
  ASSUME TypeOK, NEW o \in Ops, OpStep(o) \/ DeadlinePasses(o) \/ Crash(o)
  PROVE  /\ UNCHANGED <<mined, reorgs>>
         /\ \A p \in Ops \ {o} :
              /\ pc'[p] = pc[p] /\ err'[p] = err[p]
              /\ tx'[p] = tx[p] /\ res'[p] = res[p]
<1>0. /\ pc \in [Ops -> Stages] /\ err \in [Ops -> Errors]
      /\ tx \in [Ops -> Tx] /\ res \in [Ops -> Result]
  BY DEF TypeOK
<1> USE DEF chainVars, Fail, Pass, Go, Return, Await
<1>1. CASE Start(o) \/ VerifySrc(o) \/ VerifyDst(o)
  BY <1>0, <1>1 DEF Start, VerifySrc, VerifyDst
<1>2. CASE ReadBefore(o)
  BY <1>0, <1>2 DEF ReadBefore
<1>3. CASE ReadNonce(o)
  BY <1>0, <1>3 DEF ReadNonce
<1>4. CASE PrepareFees(o)
  BY <1>0, <1>4 DEF PrepareFees
<1>5. CASE Broadcast(o)
  BY <1>0, <1>5 DEF Broadcast
<1>6. CASE ReceiptFound(o)
  BY <1>0, <1>6 DEF ReceiptFound
<1>7. CASE ReceiptPending(o) \/ ReceiptUnreadable(o) \/ ReceiptCheck(o)
  BY <1>0, <1>7 DEF ReceiptPending, ReceiptUnreadable, ReceiptCheck
<1>8. CASE CreditSeen(o) \/ CreditPending(o) \/ CreditUnreadable(o) \/ CreditCheck(o)
  BY <1>0, <1>8 DEF CreditSeen, CreditPending, CreditUnreadable, CreditCheck
<1>9. CASE OpenRecord(o) \/ WriteRecord(o)
  BY <1>0, <1>9 DEF OpenRecord, WriteRecord
<1>10. CASE DeadlinePasses(o) \/ Crash(o)
  BY <1>0, <1>10 DEF DeadlinePasses, Crash
<1>11. QED
  BY <1>1, <1>2, <1>3, <1>4, <1>5, <1>6, <1>7, <1>8, <1>9, <1>10 DEF OpStep

\* Mining another transaction leaves receipts as they are.
LEMMA MineKeepsReceipts ==
  ASSUME ChainTypeOK, NEW c \in Chains, Mine(c),
         NEW d \in Chains, NEW t \in Tx, InBlock(d, t)
  PROVE  InBlock(d, t)' /\ Receipt(d, t)' = Receipt(d, t)
<1>1. PICK u \in pool[c], out \in Outcomes :
        mined' = [mined EXCEPT ![c] =
                    Append(@, [tx |-> u, outcome |-> out, fork |-> reorgs])]
  BY DEF Mine
<1> DEFINE e == [tx |-> u, outcome |-> out, fork |-> reorgs]
<1>2. /\ mined[c] \in Seq(Entry) /\ mined[d] \in Seq(Entry)
      /\ mined \in [Chains -> Seq(Entry)]
      /\ e \in Entry /\ t.nonce \in Nat
  <2>1. u \in Tx /\ reorgs \in Nat
    BY DEF ChainTypeOK
  <2>2. e \in Entry
    BY <2>1 DEF Entry
  <2>3. t.nonce \in Nat
    BY DEF Tx
  <2>4. QED
    BY <2>2, <2>3 DEF ChainTypeOK
<1>3. Len(mined[d]) \in Nat /\ t.nonce < Len(mined[d])
  BY <1>2, LenProperties DEF InBlock
<1>4. t.nonce + 1 \in 1 .. Len(mined[d])
  BY <1>2, <1>3
<1>5. CASE d = c
  <2>1. mined'[d] = Append(mined[d], e)
    BY <1>1, <1>2, <1>5
  <2>2. /\ Len(mined'[d]) = Len(mined[d]) + 1
        /\ \A i \in 1 .. Len(mined[d]) : mined'[d][i] = mined[d][i]
    BY <1>2, <2>1, AppendProperties
  <2>3. QED
    BY <1>2, <1>3, <1>4, <2>2 DEF InBlock, Receipt
<1>6. CASE d # c
  <2>1. mined'[d] = mined[d]
    BY <1>1, <1>2, <1>6
  <2>2. QED
    BY <2>1 DEF InBlock, Receipt
<1>7. QED
  BY <1>5, <1>6

LEMMA InitOutcome == Init => OutcomeInv
<1> SUFFICES ASSUME Init PROVE OutcomeInv
  OBVIOUS
<1>1. \A o \in Ops : RunInv(o)
  BY DEF Init, RunInv, PastReceipt, Ok, Ended, CreditStages, RecordStages, ReceiptStages
<1>2. RecordsAreProvable
  BY DEF Init, RecordsAreProvable
<1>3. QED
  BY <1>1, <1>2, InitType DEF OutcomeInv

\* The chains' own steps: receipts stay, unless a block is undone.
LEMMA EnvKeepsOutcome ==
  ASSUME OutcomeInv, EnvStep
  PROVE  OutcomeInv'
<1>1. TypeOK'
  BY NextType DEF Next, OutcomeInv
<1>2. ChainTypeOK /\ UNCHANGED <<opVars, diskVars>>
  BY DEF EnvStep, OutcomeInv, TypeOK
<1>3. CASE \E c \in Chains : Reorg(c)
  <2>1. reorgs' # 0
    BY <1>2, <1>3 DEF Reorg, ChainTypeOK
  <2>2. ASSUME NEW o \in Ops PROVE RunInv(o)'
    BY <1>2, <2>1 DEF OutcomeInv, RunInv, PastReceipt, Ok, Ended, opVars
  <2>3. QED
    BY <1>1, <2>1, <2>2 DEF OutcomeInv, RecordsAreProvable
<1>4. CASE ~\E c \in Chains : Reorg(c)
  <2>1. /\ reorgs' = reorgs
        /\ \A d \in Chains, t \in Tx : InBlock(d, t) =>
             InBlock(d, t)' /\ Receipt(d, t)' = Receipt(d, t)
    <3>1. CASE \E c \in Chains : Mine(c)
      BY <1>2, <3>1, MineKeepsReceipts DEF Mine
    <3>2. CASE UNCHANGED <<mined, reorgs>>
      BY <3>2 DEF InBlock, Receipt
    <3>3. QED
      BY <1>4, <3>1, <3>2 DEF EnvStep, Evict, Relay, Gift, Spend
  <2>2. ASSUME NEW o \in Ops PROVE RunInv(o)'
    <3>1. /\ pc'[o] = pc[o] /\ err'[o] = err[o] /\ tx'[o] = tx[o] /\ res'[o] = res[o]
          /\ tx[o] \in Tx /\ Chain(o) \in Chains
      BY <1>2 DEF opVars, OutcomeInv, TypeOK, Chain, Chains
    <3>2. Landed(o) => Landed(o)'
      BY <2>1, <3>1 DEF Landed, Confirmed, Succeeded, HasEvent, InBlock, Receipt
    <3>3. Landed(o) => Receipt(Chain(o), tx[o])' = Receipt(Chain(o), tx[o])
      BY <2>1, <3>1 DEF Landed, Confirmed, InBlock, Receipt
    <3>4. RunInv(o) /\ (PastReceipt(o)' <=> PastReceipt(o))
      BY <3>1 DEF OutcomeInv, PastReceipt, Ok, Ended
    <3>5. pc[o] \in RecordStages => PastReceipt(o)
      BY DEF PastReceipt
    <3>6. QED
      BY <2>1, <3>1, <3>2, <3>3, <3>4, <3>5 DEF RunInv
  <2>3. RecordsAreProvable'
    <3>1. saved' = saved /\ saved \subseteq Log /\ RecordsAreProvable
      BY <1>2 DEF diskVars, OutcomeInv, TypeOK
    <3>2. SUFFICES ASSUME reorgs = 0, NEW r \in saved PROVE Provable(r)'
      BY <2>1, <3>1 DEF RecordsAreProvable, Provable
    <3>3. Provable(r) /\ r.tx \in Tx
      BY <3>1, <3>2 DEF RecordsAreProvable, Provable, Log
    <3>4. QED
      BY <2>1, <3>3 DEF Provable, Chains
  <2>4. QED
    BY <1>1, <2>2, <2>3 DEF OutcomeInv
<1>5. QED
  BY <1>3, <1>4

\* A step of run o keeps what is known of the other runs, since it touches
\* neither them nor any block.
LEMMA OthersKeepOutcome ==
  ASSUME OutcomeInv, NEW o \in Ops, OpStep(o) \/ DeadlinePasses(o) \/ Crash(o),
         NEW p \in Ops \ {o}
  PROVE  RunInv(p)'
<1>1. /\ pc'[p] = pc[p] /\ err'[p] = err[p] /\ tx'[p] = tx[p] /\ res'[p] = res[p]
      /\ mined' = mined /\ reorgs' = reorgs
  BY StepIsLocal DEF OutcomeInv
<1>2. Landed(p)' <=> Landed(p)
  BY <1>1 DEF Landed, Confirmed, Succeeded, HasEvent, InBlock, Receipt
<1>3. Receipt(Chain(p), tx[p])' = Receipt(Chain(p), tx[p])
  BY <1>1 DEF Receipt
<1>4. RunInv(p) /\ (PastReceipt(p)' <=> PastReceipt(p))
  BY <1>1 DEF OutcomeInv, PastReceipt, Ok, Ended
<1>5. QED
  BY <1>1, <1>2, <1>3, <1>4 DEF RunInv

\* What run o's own step makes of it.
LEMMA SelfKeepsOutcome ==
  ASSUME OutcomeInv, NEW o \in Ops, OpStep(o) \/ DeadlinePasses(o) \/ Crash(o)
  PROVE  RunInv(o)'
<1> USE DEF PastReceipt, Ok, Ended, ReceiptStages, CreditStages, RecordStages
<1>0. /\ pc \in [Ops -> Stages] /\ err \in [Ops -> Errors]
      /\ tx \in [Ops -> Tx] /\ res \in [Ops -> Result]
      /\ RunInv(o)
      /\ mined' = mined /\ reorgs' = reorgs
  BY StepIsLocal DEF OutcomeInv, TypeOK
<1>a. ASSUME tx'[o] = tx[o]
      PROVE  /\ Landed(o)' <=> Landed(o)
             /\ Receipt(Chain(o), tx[o])' = Receipt(Chain(o), tx[o])
  BY <1>0, <1>a DEF Landed, Confirmed, Succeeded, HasEvent, InBlock, Receipt
\* An early return: the run is done and not Ok.
<1>b. ASSUME pc'[o] = "done", err'[o] # "nil" PROVE RunInv(o)'
  BY <1>b DEF RunInv
<1>c. ASSUME NEW e, e # "nil", Fail(o, e) PROVE RunInv(o)'
  BY <1>0, <1>b, <1>c DEF Fail, Return
\* On the way to the broadcast nothing is claimed yet.
<1>d. ASSUME pc'[o] \in PreSendStages \ {"send"} PROVE RunInv(o)'
  BY <1>d DEF RunInv, PreSendStages
<1>1. CASE Start(o) \/ VerifySrc(o) \/ VerifyDst(o) \/ ReadBefore(o) \/ ReadNonce(o)
  <2>1. CASE pc'[o] \in PreSendStages \ {"send"}
    BY <2>1, <1>d
  <2>2. CASE \E e \in Refusals : Fail(o, e)
    BY <2>2, <1>c DEF Refusals
  <2>3. QED
    BY <1>0, <1>1, <2>1, <2>2
       DEF Start, VerifySrc, VerifyDst, ReadBefore, ReadNonce, Pass, Go, AfterSrc,
           PreSendStages, Refusals
<1>2. CASE PrepareFees(o)
  <2>1. CASE Fail(o, "prepare transaction")
    BY <2>1, <1>c
  <2>2. CASE ~Fail(o, "prepare transaction")
    <3>1. PICK f \in Fees : tx' = [tx EXCEPT ![o].fee = f] /\ Go(o, "send")
      BY <1>2, <2>2 DEF PrepareFees
    <3>2. tx'[o].fee > 0 /\ pc'[o] = "send"
      BY <1>0, <3>1, FeesAssumption DEF Go, Tx
    <3>3. QED
      BY <3>2 DEF RunInv
  <2>3. QED
    BY <2>1, <2>2
<1>3. CASE Broadcast(o)
  <2>1. pc[o] = "send" /\ tx[o].fee > 0
    BY <1>0, <1>3 DEF Broadcast, RunInv
  <2>2. CASE pc'[o] = "receipt" /\ tx'[o] = tx[o]
    BY <2>1, <2>2 DEF RunInv
  <2>3. CASE pc'[o] = "done" /\ err'[o] # "nil"
    BY <2>3, <1>b
  <2>4. QED
    BY <1>0, <1>3, <2>2, <2>3 DEF Broadcast, Await, Go, Return, Fail
<1>4. CASE ReceiptFound(o)
  <2> DEFINE e == Receipt(Chain(o), tx[o])
  <2>1. /\ pc[o] = "receipt" /\ tx[o].fee > 0 /\ tx'[o] = tx[o]
    BY <1>0, <1>4 DEF ReceiptFound, RunInv, Fail
  <2>2. CASE Fail(o, "ErrTxReverted") \/ Fail(o, "no event in receipt")
    BY <2>2, <1>c
  <2>3. CASE /\ Succeeded(e) /\ (Kind[o] # "same-chain" => HasEvent(e))
             /\ pc'[o] \in {"done", "credit"}
    <3>1. Landed(o)
      BY <1>4, <2>3 DEF Landed, ReceiptFound
    <3>2. QED
      BY <2>1, <2>3, <3>1, <1>a DEF RunInv
  <2>4. CASE /\ Succeeded(e) /\ HasEvent(e) /\ Kind[o] = "withdraw"
             /\ pc'[o] = "openRecord" /\ res'[o].withdrawal = {LogOf(e)}
    <3>1. Landed(o)
      BY <1>4, <2>4 DEF Landed, ReceiptFound
    <3>2. QED
      BY <2>1, <2>4, <3>1, <1>a DEF RunInv
  <2>5. CASE Succeeded(e) /\ Kind[o] = "same-chain" /\ Return(o, "nil")
    <3>1. pc'[o] = "done"
      BY <1>0, <2>5 DEF Return
    <3>2. QED
      BY <2>5, <3>1, <2>3
  <2>6. CASE /\ Succeeded(e) /\ HasEvent(e) /\ Await(o, "credit")
    <3>1. pc'[o] = "credit"
      BY <1>0, <2>6 DEF Await, Go
    <3>2. QED
      BY <2>6, <3>1, <2>3
  <2>7. CASE /\ Succeeded(e) /\ HasEvent(e) /\ Kind[o] = "withdraw"
             /\ Go(o, "openRecord")
             /\ res' = [res EXCEPT ![o].withdrawal = {LogOf(e)}]
    <3>1. pc'[o] = "openRecord"
      BY <1>0, <2>7 DEF Go
    <3>2. res'[o].withdrawal = {LogOf(e)}
      BY <1>0, <2>7 DEF Result
    <3>3. QED
      BY <2>7, <3>1, <3>2, <2>4
  <2>8. QED
    BY <1>4, <2>2, <2>5, <2>6, <2>7 DEF ReceiptFound
<1>5. CASE ReceiptPending(o) \/ ReceiptUnreadable(o) \/ ReceiptCheck(o)
  <2>1. CASE pc[o] \in ReceiptStages /\ pc'[o] \in ReceiptStages /\ tx'[o] = tx[o]
    BY <1>0, <2>1 DEF RunInv
  <2>2. CASE \E e \in LateErrors : Fail(o, e)
    BY <2>2, <1>c DEF LateErrors
  <2>3. QED
    BY <1>0, <1>5, <2>1, <2>2
       DEF ReceiptPending, ReceiptUnreadable, ReceiptCheck, Pass, Go, LateErrors
<1>6. CASE CreditSeen(o) \/ CreditPending(o) \/ CreditUnreadable(o) \/ CreditCheck(o)
  <2>1. CASE /\ pc[o] \in CreditStages /\ pc'[o] \in CreditStages \cup {"done"}
             /\ tx'[o] = tx[o]
    BY <1>0, <1>a, <2>1 DEF RunInv
  <2>2. CASE \E e \in LateErrors : Fail(o, e)
    BY <2>2, <1>c DEF LateErrors
  <2>3. QED
    BY <1>0, <1>6, <2>1, <2>2
       DEF CreditSeen, CreditPending, CreditUnreadable, CreditCheck, Pass, Go,
           Return, LateErrors
<1>7. CASE OpenRecord(o) \/ WriteRecord(o)
  <2>1. CASE /\ pc[o] \in RecordStages /\ pc'[o] \in RecordStages \cup {"done"}
             /\ tx'[o] = tx[o] /\ res'[o].withdrawal = res[o].withdrawal
    BY <1>0, <1>a, <2>1 DEF RunInv
  <2>2. CASE Fail(o, "record withdrawal")
    BY <2>2, <1>c
  <2>3. CASE OpenRecord(o) /\ ~Fail(o, "record withdrawal")
    <3>1. /\ pc[o] = "openRecord" /\ Go(o, "writeRecord")
          /\ tx' = tx /\ res' = res
      BY <2>3 DEF OpenRecord
    <3>2. QED
      BY <1>0, <2>1, <3>1 DEF Go
  <2>4. CASE WriteRecord(o) /\ ~Fail(o, "record withdrawal")
    <3>1. /\ pc[o] = "writeRecord" /\ Return(o, "nil")
          /\ tx' = tx /\ res' = [res EXCEPT ![o].path = TRUE]
      BY <2>4 DEF WriteRecord
    <3>2. pc'[o] = "done"
      BY <1>0, <3>1 DEF Return
    <3>3. res'[o].withdrawal = res[o].withdrawal
      BY <1>0, <3>1 DEF Result
    <3>4. QED
      BY <2>1, <3>1, <3>2, <3>3
  <2>5. QED
    BY <1>7, <2>2, <2>3, <2>4
<1>8. CASE DeadlinePasses(o)
  <2>1. pc'[o] = pc[o] /\ err'[o] = err[o] /\ tx'[o] = tx[o] /\ res'[o] = res[o]
    BY <1>8 DEF DeadlinePasses
  <2>2. QED
    BY <1>0, <1>a, <2>1 DEF RunInv
<1>9. CASE Crash(o)
  BY <1>0, <1>9, <1>b DEF Crash, Return
<1>10. QED
  BY <1>1, <1>2, <1>3, <1>4, <1>5, <1>6, <1>7, <1>8, <1>9 DEF OpStep

\* A record is written only from the event of the run's own receipt.
LEMMA RecordsStayProvable ==
  ASSUME OutcomeInv, NEW o \in Ops, OpStep(o) \/ DeadlinePasses(o) \/ Crash(o)
  PROVE  RecordsAreProvable'
<1>1. mined' = mined /\ reorgs' = reorgs
  BY StepIsLocal DEF OutcomeInv
<1>2. \A r : Provable(r)' <=> Provable(r)
  BY <1>1 DEF Provable, InBlock, Receipt
<1>3. SUFFICES ASSUME reorgs = 0, NEW r \in saved', r \notin saved PROVE Provable(r)
  BY <1>1, <1>2 DEF OutcomeInv, RecordsAreProvable, Provable
<1>4. WriteRecord(o) /\ r \in res[o].withdrawal
  <2>1. saved' \subseteq saved \/ (WriteRecord(o) /\ saved' \subseteq saved \cup res[o].withdrawal)
    <3> USE DEF Fail, Pass, diskVars
    <3>1. CASE Start(o) \/ VerifySrc(o) \/ VerifyDst(o) \/ ReadBefore(o) \/ ReadNonce(o)
      BY <3>1 DEF Start, VerifySrc, VerifyDst, ReadBefore, ReadNonce
    <3>2. CASE PrepareFees(o) \/ Broadcast(o) \/ ReceiptFound(o)
      BY <3>2 DEF PrepareFees, Broadcast, ReceiptFound
    <3>3. CASE ReceiptPending(o) \/ ReceiptUnreadable(o) \/ ReceiptCheck(o)
      BY <3>3 DEF ReceiptPending, ReceiptUnreadable, ReceiptCheck
    <3>4. CASE CreditSeen(o) \/ CreditPending(o) \/ CreditUnreadable(o) \/ CreditCheck(o)
      BY <3>4 DEF CreditSeen, CreditPending, CreditUnreadable, CreditCheck
    <3>5. CASE OpenRecord(o)
      BY <3>5 DEF OpenRecord, OtherRecords
    <3>6. CASE WriteRecord(o)
      BY <3>6 DEF WriteRecord, OtherRecords
    <3>7. CASE DeadlinePasses(o) \/ Crash(o)
      BY <3>7 DEF DeadlinePasses, Crash
    <3>8. QED
      BY <3>1, <3>2, <3>3, <3>4, <3>5, <3>6, <3>7 DEF OpStep
  <2>2. QED
    BY <1>3, <2>1
<1>5. pc[o] \in RecordStages /\ PastReceipt(o) /\ RunInv(o)
  BY <1>4 DEF WriteRecord, RecordStages, PastReceipt, OutcomeInv
<1>6. /\ Kind[o] = "withdraw" /\ Landed(o)
      /\ r = LogOf(Receipt("L2", tx[o]))
  BY <1>3, <1>4, <1>5 DEF RunInv, Chain
<1>7. InBlock("L2", tx[o]) /\ Receipt("L2", tx[o]).outcome = "logged"
  BY <1>6 DEF Landed, Confirmed, HasEvent, Chain
<1>8. r.tx = tx[o]
  BY <1>6, <1>7 DEF LogOf, InBlock, Receipt
<1>9. QED
  BY <1>6, <1>7, <1>8 DEF Provable

LEMMA NextOutcome == OutcomeInv /\ [Next]_vars => OutcomeInv'
<1> SUFFICES ASSUME OutcomeInv, [Next]_vars PROVE OutcomeInv'
  OBVIOUS
<1>1. TypeOK'
  BY NextType DEF OutcomeInv
<1>2. ASSUME NEW o \in Ops, OpStep(o) \/ DeadlinePasses(o) \/ Crash(o)
      PROVE  OutcomeInv'
  <2>1. \A p \in Ops : RunInv(p)'
    BY <1>2, OthersKeepOutcome, SelfKeepsOutcome
  <2>2. QED
    BY <1>1, <1>2, <2>1, RecordsStayProvable DEF OutcomeInv
<1>3. CASE EnvStep
  BY <1>3, EnvKeepsOutcome
<1>4. CASE UNCHANGED vars
  BY <1>1, <1>4 DEF OutcomeInv, RunInv, PastReceipt, Ok, Ended, Landed, Confirmed,
     Succeeded, HasEvent, InBlock, Receipt, RecordsAreProvable, vars, opVars,
     chainVars, diskVars
<1>5. QED
  BY <1>2, <1>3, <1>4 DEF Next, Finished

LEMMA OutcomeInvariant == Spec => []OutcomeInv
BY InitOutcome, NextOutcome, PTL DEF Spec

\* While no block is undone, success is only reported of the run's own mined
\* and successful transaction, with the bridge's event in it.
THEOREM SuccessIsMoved == Spec => []SuccessMeansMoved
<1>1. OutcomeInv => SuccessMeansMoved
  BY DEF OutcomeInv, RunInv, PastReceipt, SuccessMeansMoved, Moved, Landed,
         Confirmed, Succeeded, HasEvent
<1>2. QED
  BY <1>1, OutcomeInvariant, PTL

\* While no block is undone, every record on disk describes an event on L2.
THEOREM RecordsProvable == Spec => []RecordsAreProvable
<1>1. OutcomeInv => RecordsAreProvable
  BY DEF OutcomeInv
<1>2. QED
  BY <1>1, OutcomeInvariant, PTL

-----------------------------------------------------------------------------
(* Bridge implements Transfer while no block is undone.                    *)

\* A run that was refused has not signed, so nothing can ever move for it.
Unsigned(o) ==
  pc[o] \in PreSendStages \ {"send"} \/ (pc[o] = "done" /\ err[o] \in Refusals)
    => tx[o].fee = 0

PromiseInv == OutcomeInv /\ \A o \in Ops : Unsigned(o)

\* Only preparing a transaction changes it, and a run ends by steps that do not.
LEMMA StepSignsOrEnds ==
  ASSUME TypeOK, NEW o \in Ops, Unsigned(o), OpStep(o) \/ DeadlinePasses(o) \/ Crash(o)
  PROVE  /\ pc[o] # "done" \/ (pc'[o] = "done" /\ err'[o] = err[o] /\ tx' = tx)
         /\ \/ tx'[o] = tx[o]
            \/ tx[o].fee = 0 /\ pc'[o] # "done"
         /\ pc'[o] = "done" /\ err'[o] \in Refusals => tx[o].fee = 0
         /\ pc'[o] \in PreSendStages \ {"send"} => tx'[o].fee = 0
<1>0. /\ pc \in [Ops -> Stages] /\ err \in [Ops -> Errors] /\ tx \in [Ops -> Tx]
  BY DEF TypeOK
<1> USE DEF Unsigned, PreSendStages, Refusals, LateErrors, Fail, Pass, Go, Return, Await
<1>1. CASE Start(o) \/ VerifySrc(o) \/ VerifyDst(o)
  BY <1>0, <1>1 DEF Start, VerifySrc, VerifyDst, AfterSrc
<1>2. CASE ReadBefore(o)
  BY <1>0, <1>2 DEF ReadBefore
<1>3. CASE ReadNonce(o)
  <2>1. CASE ~Fail(o, "prepare transaction")
    <3>1. PICK n \in Nonces(o) : tx' = [tx EXCEPT ![o] = [nonce |-> n, kind |-> Kind[o],
                                                       amount |-> Amount[o], fee |-> 0]]
      BY <1>3, <2>1 DEF ReadNonce
    <3>2. tx'[o].fee = 0
      BY <1>0, <3>1
    <3> QED
      BY <1>0, <1>3, <2>1, <3>2 DEF ReadNonce
  <2> QED
    BY <1>0, <1>3, <2>1 DEF ReadNonce
<1>4. CASE PrepareFees(o)
  BY <1>0, <1>4 DEF PrepareFees
<1>5. CASE Broadcast(o)
  BY <1>0, <1>5 DEF Broadcast
<1>6. CASE ReceiptFound(o)
  BY <1>0, <1>6 DEF ReceiptFound
<1>7. CASE ReceiptPending(o) \/ ReceiptUnreadable(o) \/ ReceiptCheck(o)
  BY <1>0, <1>7 DEF ReceiptPending, ReceiptUnreadable, ReceiptCheck
<1>8. CASE CreditSeen(o) \/ CreditPending(o) \/ CreditUnreadable(o) \/ CreditCheck(o)
  BY <1>0, <1>8 DEF CreditSeen, CreditPending, CreditUnreadable, CreditCheck
<1>9. CASE OpenRecord(o) \/ WriteRecord(o)
  BY <1>0, <1>9 DEF OpenRecord, WriteRecord
<1>10. CASE DeadlinePasses(o) \/ Crash(o)
  BY <1>0, <1>10 DEF DeadlinePasses, Crash, ReceiptStages, CreditStages
<1> QED
  BY <1>1, <1>2, <1>3, <1>4, <1>5, <1>6, <1>7, <1>8, <1>9, <1>10 DEF OpStep

LEMMA NextPromise == PromiseInv /\ [Next]_vars => PromiseInv'
<1> SUFFICES ASSUME PromiseInv, [Next]_vars PROVE PromiseInv'
  OBVIOUS
<1>1. OutcomeInv' /\ TypeOK
  BY NextOutcome DEF PromiseInv, OutcomeInv
<1>2. ASSUME NEW o \in Ops, OpStep(o) \/ DeadlinePasses(o) \/ Crash(o), NEW p \in Ops
      PROVE  Unsigned(p)'
  <2>1. CASE p = o
    <3>1. pc'[o] = "done" /\ err'[o] \in Refusals => tx[o].fee = 0 /\ tx'[o] = tx[o]
      BY <1>1, <1>2, StepSignsOrEnds DEF PromiseInv
    <3> QED
      BY <1>1, <1>2, <2>1, <3>1, StepSignsOrEnds DEF PromiseInv, Unsigned
  <2>2. CASE p # o
    BY <1>1, <1>2, <2>2, StepIsLocal DEF PromiseInv, Unsigned
  <2> QED
    BY <2>1, <2>2
<1>3. CASE EnvStep \/ UNCHANGED vars
  <2>1. UNCHANGED opVars
    BY <1>3 DEF EnvStep, vars
  <2> QED
    BY <1>1, <2>1 DEF PromiseInv, Unsigned, opVars
<1> QED
  BY <1>1, <1>2, <1>3 DEF Next, Finished, PromiseInv

\* A step of a run is a move, a verdict, or nothing that Transfer sees.
LEMMA OwnStepKeepsPromise ==
  ASSUME PromiseInv, PromiseInv', reorgs = 0,
         NEW o \in Ops, OpStep(o) \/ DeadlinePasses(o) \/ Crash(o)
  PROVE  /\ \A p \in Ops \ {o} : Verdict(p)' = Verdict(p) /\ (Moved(p)' <=> Moved(p))
         /\ \/ /\ Verdict(o)' = Verdict(o)
               /\ Moved(o)' <=> Moved(o)
            \/ /\ Verdict(o) = "pending" /\ Verdict(o)' = "pending"
               /\ ~Moved(o) /\ Moved(o)'
            \/ /\ Verdict(o) = "pending" /\ (Moved(o)' <=> Moved(o))
               /\ \/ Verdict(o)' = "refused" /\ ~Moved(o)
                  \/ Verdict(o)' = "succeeded" /\ Moved(o)
                  \/ Verdict(o)' = "failed"
<1>0. /\ TypeOK /\ Unsigned(o) /\ mined' = mined /\ reorgs' = reorgs
      /\ \A p \in Ops \ {o} : pc'[p] = pc[p] /\ err'[p] = err[p] /\ tx'[p] = tx[p]
  BY StepIsLocal DEF PromiseInv, OutcomeInv
<1> USE DEF Verdict, Ok, Ended
<1>1. ASSUME NEW p \in Ops, tx'[p] = tx[p] PROVE Moved(p)' <=> Moved(p)
  BY <1>0, <1>1 DEF Moved, InBlock, Receipt
<1>2. \A p \in Ops \ {o} : Verdict(p)' = Verdict(p) /\ (Moved(p)' <=> Moved(p))
  BY <1>0, <1>1
<1>3. CASE pc[o] = "done"
  BY <1>0, <1>1, <1>2, <1>3, StepSignsOrEnds
<1>4. CASE pc[o] # "done" /\ pc'[o] # "done"
  <2>1. Verdict(o) = "pending" /\ Verdict(o)' = "pending"
    BY <1>4
  <2>2. tx'[o] = tx[o] \/ tx[o].fee = 0
    BY <1>0, StepSignsOrEnds
  <2> QED
    BY <1>1, <1>2, <2>1, <2>2 DEF Moved
<1>5. CASE pc[o] # "done" /\ pc'[o] = "done"
  <2>1. /\ Verdict(o) = "pending" /\ tx'[o] = tx[o]
        /\ err'[o] \in Refusals => tx[o].fee = 0
    BY <1>0, <1>5, StepSignsOrEnds
  <2>2. Moved(o)' <=> Moved(o)
    BY <1>1, <2>1
  <2>3. CASE Ok(o)'
    <3>1. Moved(o)'
      BY <1>0, <2>3 DEF PromiseInv, OutcomeInv, RunInv, PastReceipt, Moved, Landed,
         Confirmed, Succeeded
    <3> QED
      BY <1>2, <1>5, <2>1, <2>2, <2>3, <3>1
  <2>4. CASE err'[o] \in Refusals
    <3>1. ~Moved(o)
      BY <2>1, <2>4 DEF Moved
    <3>2. Verdict(o)' = "refused"
      BY <1>5, <2>4 DEF Refusals
    <3> QED
      BY <1>2, <2>1, <2>2, <3>1, <3>2
  <2>5. CASE ~Ok(o)' /\ err'[o] \notin Refusals
    <3>1. Verdict(o)' = "failed"
      BY <1>5, <2>5
    <3> QED
      BY <1>2, <2>1, <2>2, <3>1
  <2> QED
    BY <2>3, <2>4, <2>5
<1> QED
  BY <1>3, <1>4, <1>5

\* The chains only move, and only for runs that may still be moved for.
LEMMA EnvKeepsPromise ==
  ASSUME PromiseInv, reorgs = 0, reorgs' = 0, EnvStep, NEW o \in Ops
  PROVE  /\ Verdict(o)' = Verdict(o)
         /\ Moved(o) => Moved(o)'
         /\ ~Moved(o) => Verdict(o) \in {"pending", "failed"} \/ ~Moved(o)'
<1>0. /\ UNCHANGED opVars /\ TypeOK /\ ChainTypeOK /\ RunInv(o) /\ Unsigned(o)
      /\ tx[o] \in Tx /\ Chain(o) \in Chains
  BY OpsAssumption DEF EnvStep, PromiseInv, OutcomeInv, TypeOK, Chain, Chains
<1>1. Verdict(o)' = Verdict(o)
  BY <1>0 DEF opVars, Verdict, Ok, Ended
<1>2. Moved(o) => Moved(o)'
  <2>1. (\E c \in Chains : Mine(c)) \/ mined' = mined
    BY DEF EnvStep, Evict, Reorg, Relay, Gift, Spend, Chains
  <2>2. ASSUME NEW c \in Chains, Mine(c), Moved(o) PROVE Moved(o)'
    <3>1. InBlock(Chain(o), tx[o])' /\ Receipt(Chain(o), tx[o])' = Receipt(Chain(o), tx[o])
      <4>1. tx'[o] = tx[o]
        BY <1>0 DEF opVars
      <4>2. InBlock(Chain(o), tx[o])
        BY <2>2 DEF Moved
      <4> QED
        BY <1>0, <2>2, <4>1, <4>2, MineKeepsReceipts DEF InBlock, Receipt
    <3> QED
      BY <1>0, <2>2, <3>1 DEF Moved, opVars
  <2>3. ASSUME mined' = mined, Moved(o) PROVE Moved(o)'
    BY <1>0, <2>3 DEF Moved, InBlock, Receipt, opVars
  <2> QED
    BY <2>1, <2>2, <2>3
<1>3. Verdict(o) = "succeeded" => Moved(o)
  BY <1>0 DEF Verdict, RunInv, PastReceipt, Moved, Landed, Confirmed, Succeeded, Ok, Ended
<1>4. Verdict(o) = "refused" => ~Moved(o)'
  <2>1. Verdict(o) = "refused" => tx[o].fee = 0
    BY <1>0 DEF Verdict, Unsigned
  <2> QED
    BY <1>0, <2>1 DEF Moved, opVars
<1>5. Verdict(o) \in {"pending", "succeeded", "refused", "failed"}
  BY DEF Verdict
<1> QED
  BY <1>1, <1>2, <1>3, <1>4, <1>5

LEMMA StepKeepsPromise ==
  ASSUME PromiseInv, PromiseInv', reorgs = 0, reorgs' = 0, [Next]_vars
  PROVE  [Promise!TNext]_<<[o \in Ops |-> Verdict(o)], [o \in Ops |-> Moved(o)]>>
<1> DEFINE verdict == [o \in Ops |-> Verdict(o)]
           moved == [o \in Ops |-> Moved(o)]
<1>0. \A o \in Ops : Moved(o) \in BOOLEAN /\ Moved(o)' \in BOOLEAN
  BY DEF Moved
\* The steps of Transfer, run by run.
<1>a. ASSUME NEW S \in SUBSET Ops,
             \A o \in S : ~Moved(o) /\ Verdict(o) \in {"pending", "failed"},
             \A o \in Ops : Verdict(o)' = Verdict(o) /\ (Moved(o)' <=> (o \in S \/ Moved(o)))
      PROVE  Promise!TNext
  <2>1. \A o \in Ops : Moved(o)' = (o \in S \/ Moved(o))
    BY <1>0, <1>a
  <2>2. verdict' = verdict
    BY <1>a
  <2>3. moved' = [o \in Ops |-> o \in S \/ moved[o]]
    BY <2>1
  <2>4. \A o \in S : ~moved[o] /\ verdict[o] \in {"pending", "failed"}
    BY <1>a
  <2> QED
    BY <2>2, <2>3, <2>4 DEF Promise!TNext, Promise!Move
<1>b. ASSUME NEW o \in Ops, NEW v, Verdict(o) = "pending", Verdict(o)' = v,
             \A p \in Ops \ {o} : Verdict(p)' = Verdict(p),
             \A p \in Ops : Moved(p)' <=> Moved(p)
      PROVE  Promise!Judge(o, v)
  <2>1. \A p \in Ops : Moved(p)' = Moved(p)
    BY <1>0, <1>b
  <2>2. moved' = moved
    BY <2>1
  <2>3. verdict' = [verdict EXCEPT ![o] = v]
    BY <1>b
  <2> QED
    BY <1>b, <2>2, <2>3 DEF Promise!Judge
<1>1. ASSUME NEW o \in Ops, OpStep(o) \/ DeadlinePasses(o) \/ Crash(o)
      PROVE  Promise!TNext
  <2>1. \A p \in Ops \ {o} : Verdict(p)' = Verdict(p) /\ (Moved(p)' <=> Moved(p))
    BY <1>1, OwnStepKeepsPromise
  <2>2. CASE Verdict(o)' = Verdict(o) /\ (Moved(o)' <=> Moved(o))
    <3>1. {} \in SUBSET Ops
      OBVIOUS
    <3>2. \A p \in Ops :
            Verdict(p)' = Verdict(p) /\ (Moved(p)' <=> (p \in {} \/ Moved(p)))
      BY <2>1, <2>2
    <3> QED
      BY <3>1, <3>2, <1>a, Zenon
  <2>3. CASE /\ Verdict(o) = "pending" /\ Verdict(o)' = "pending"
             /\ ~Moved(o) /\ Moved(o)'
    <3>1. {o} \in SUBSET Ops
      OBVIOUS
    <3>2. \A p \in Ops :
            Verdict(p)' = Verdict(p) /\ (Moved(p)' <=> (p \in {o} \/ Moved(p)))
      BY <2>1, <2>3
    <3>3. \A p \in {o} : ~Moved(p) /\ Verdict(p) \in {"pending", "failed"}
      BY <2>3
    <3> QED
      BY <3>1, <3>2, <3>3, <1>a, Zenon
  <2>4. CASE /\ Verdict(o) = "pending" /\ (Moved(o)' <=> Moved(o))
             /\ \/ Verdict(o)' = "refused" /\ ~Moved(o)
                \/ Verdict(o)' = "succeeded" /\ Moved(o)
                \/ Verdict(o)' = "failed"
    <3>1. Promise!Judge(o, Verdict(o)')
      BY <2>1, <2>4, <1>b
    <3>2. moved[o] = Moved(o)
      OBVIOUS
    <3>3. Promise!Refuse(o) \/ Promise!Succeed(o) \/ Promise!GiveUp(o)
      BY <2>4, <3>1, <3>2 DEF Promise!Refuse, Promise!Succeed, Promise!GiveUp
    <3> QED
      BY <3>3 DEF Promise!TNext
  <2> QED
    BY <1>1, <2>2, <2>3, <2>4, OwnStepKeepsPromise
<1>2. CASE EnvStep
  <2> DEFINE S == {o \in Ops : ~Moved(o) /\ Moved(o)'}
  <2>1. \A o \in Ops : /\ Verdict(o)' = Verdict(o)
                       /\ Moved(o) => Moved(o)'
                       /\ o \in S => Verdict(o) \in {"pending", "failed"}
    BY <1>2, EnvKeepsPromise
  <2>2. S \in SUBSET Ops
    OBVIOUS
  <2>3. \A o \in Ops : Verdict(o)' = Verdict(o) /\ (Moved(o)' <=> (o \in S \/ Moved(o)))
    BY <2>1
  <2>4. \A o \in S : ~Moved(o) /\ Verdict(o) \in {"pending", "failed"}
    BY <2>1
  <2> HIDE DEF S
  <2> QED
    BY <2>2, <2>3, <2>4, <1>a, Zenon
<1>3. CASE UNCHANGED vars
  <2>1. \A o \in Ops : Verdict(o)' = Verdict(o)
    BY <1>3 DEF vars, opVars, Verdict, Ok, Ended
  <2>2. \A o \in Ops : Moved(o)' <=> Moved(o)
    BY <1>3 DEF vars, opVars, chainVars, Moved, InBlock, Receipt
  <2>3. verdict' = verdict
    BY <2>1
  <2>4. \A o \in Ops : Moved(o)' = Moved(o)
    BY <1>0, <2>2
  <2>5. moved' = moved
    BY <2>4
  <2> QED
    BY <2>3, <2>5
<1> QED
  BY <1>1, <1>2, <1>3 DEF Next, Finished

LEMMA PromiseInvariant == Spec => []PromiseInv
<1>1. Init => PromiseInv
  BY InitOutcome DEF PromiseInv, Unsigned, Init, Draft
<1> QED
  BY <1>1, NextPromise, PTL DEF Spec

\* While no block is undone, every run keeps the promise of Transfer: what is
\* refused never moves, what succeeds has moved, and no verdict is revised.
THEOREM PromiseIsKept == Spec /\ [](reorgs = 0) => KeepsPromise
<1>1. Init => Promise!TInit
  <2> SUFFICES ASSUME Init PROVE Promise!TInit
    OBVIOUS
  <2>1. \A o \in Ops : Verdict(o) = "pending" /\ tx[o].fee = 0
    <3> SUFFICES ASSUME NEW o \in Ops PROVE Verdict(o) = "pending" /\ tx[o].fee = 0
      OBVIOUS
    <3>1. pc[o] = "start" /\ tx[o] = Draft
      BY DEF Init
    <3>2. Verdict(o) = "pending"
      BY <3>1 DEF Verdict, Ok, Ended
    <3> QED
      BY <3>1, <3>2 DEF Draft
  <2>2. \A o \in Ops : Moved(o) = FALSE
    BY <2>1 DEF Moved
  <2> QED
    BY <2>1, <2>2 DEF Promise!TInit
<1>2. /\ PromiseInv /\ PromiseInv' /\ reorgs = 0 /\ (reorgs = 0)' /\ [Next]_vars
      => [Promise!TNext]_<<[o \in Ops |-> Verdict(o)], [o \in Ops |-> Moved(o)]>>
  BY StepKeepsPromise
<1> QED
  BY <1>1, <1>2, PromiseInvariant, PTL DEF Spec, KeepsPromise, Promise!TSpec
=============================================================================
