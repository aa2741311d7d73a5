--------------------------- MODULE PaymentProofs ---------------------------
(***************************************************************************)
(* What an operation has asked before it signs, what a deposit may report  *)
(* as credited, which hashes are reported, and when a deposit that is the  *)
(* only payment is noticed, for any number of runs, amounts and payments.  *)
(***************************************************************************)
EXTENDS NonceProofs

\* The endpoints that must serve the configured chains.
Verified(o) == serves[o].src /\ (Kind[o] = "deposit" => serves[o].dst)

VerifyInv(o) ==
  /\ pc[o] = "verifyDst" => serves[o].src
  /\ pc[o] = "before" => serves[o].src /\ serves[o].dst
  /\ pc[o] \in {"nonce", "fees"} \/ tx[o].fee > 0 => Verified(o)

\* From its first reading on, a deposit's destination has risen by no more
\* than what flowed in: it is this that outlives the payments it makes.
Counting == {"nonce", "fees", "send"} \cup ReceiptStages \cup CreditStages

CreditInv(o) ==
  /\ pc[o] \in Counting => bal <= before[o] + minted + gifts
  /\ pc[o] \notin RecordStages
  /\ Ok(o) => res[o].credited \in 1 .. minted + gifts

PaymentInv ==
  /\ TypeOK
  /\ \A o \in Ops : VerifyInv(o)
  /\ \A o \in Ops : Kind[o] = "deposit" => CreditInv(o)

LEMMA InitPayment == Init => PaymentInv
<1> SUFFICES ASSUME Init PROVE PaymentInv
  OBVIOUS
<1>1. ASSUME NEW o \in Ops
      PROVE  VerifyInv(o) /\ CreditInv(o)
  BY <1>1 DEF Init, VerifyInv, CreditInv, Draft, Counting, ReceiptStages,
              CreditStages, RecordStages, Ok, Ended
<1> QED
  BY <1>1, InitType DEF PaymentInv

-----------------------------------------------------------------------------
(* The chains' own steps.                                                  *)

\* What flows in besides does not make a bound on the rise too small.
LEMMA InflowOnlyGrows ==
  ASSUME NEW x \in Nat, NEW b \in Nat, NEW m \in Nat, NEW g \in Nat,
         NEW b2 \in Nat, NEW m2 \in Nat, NEW g2 \in Nat,
         b2 - m2 - g2 <= b - m - g, m + g <= m2 + g2
  PROVE  /\ b <= x + m + g => b2 <= x + m2 + g2
         /\ x \in 1 .. m + g => x \in 1 .. m2 + g2
OBVIOUS

LEMMA EnvKeepsPayment ==
  ASSUME PaymentInv, EnvStep
  PROVE  PaymentInv'
<1>1. TypeOK' /\ ChainTypeOK
  BY NextType DEF Next, PaymentInv, TypeOK
<1>2. UNCHANGED opVars
  BY DEF EnvStep
<1>3. \A o \in Ops : VerifyInv(o)'
  BY <1>2 DEF PaymentInv, VerifyInv, Verified, opVars
<1>4. /\ bal \in Nat /\ minted \in Nat /\ gifts \in Nat
      /\ bal' \in Nat /\ minted' \in Nat /\ gifts' \in Nat
  BY <1>1, BoundsAssumption DEF TypeOK, ChainTypeOK
<1>5. /\ bal' - minted' - gifts' <= bal - minted - gifts
      /\ minted + gifts <= minted' + gifts'
  <2>1. CASE Relay
    <3> DEFINE e == mined["L1"][relayed + 1]
               credit == IF e.outcome = "logged" THEN e.tx.amount ELSE 0
    <3>1. bal' = bal + credit /\ minted' = minted + credit /\ gifts' = gifts
      BY <2>1, Zenon DEF Relay
    <3>2. credit \in Nat
      <4>1. e \in Entry
        BY <1>1, <2>1, ElementOfSeq, LenProperties DEF Relay, ChainTypeOK, Chains
      <4> QED
        BY <4>1 DEF Entry, Tx
    <3> HIDE DEF credit
    <3> QED
      BY <1>4, <3>1, <3>2
  <2>2. CASE Gift
    <3>1. bal' = bal + 1 /\ gifts' = gifts + 1 /\ minted' = minted
      BY <2>2 DEF Gift
    <3> QED
      BY <1>4, <3>1
  <2>4. CASE Spend
    <3>1. bal' = bal - 1 /\ gifts' = gifts /\ minted' = minted
      BY <2>4 DEF Spend
    <3> QED
      BY <1>4, <3>1
  <2>3. CASE UNCHANGED <<bal, minted, gifts>>
    BY <1>4, <2>3
  <2> QED
    BY <2>1, <2>2, <2>3, <2>4 DEF EnvStep, Mine, Evict, Reorg
<1>6. ASSUME NEW o \in Ops, Kind[o] = "deposit" PROVE CreditInv(o)'
  <2>1. CreditInv(o) /\ before[o] \in Nat /\ res[o].credited \in Nat
    BY <1>6 DEF PaymentInv, TypeOK, Result
  <2>2. /\ pc'[o] = pc[o] /\ before'[o] = before[o] /\ res'[o] = res[o]
        /\ Ok(o)' <=> Ok(o)
    BY <1>2 DEF opVars, Ok, Ended
  <2>3. \A x \in Nat : bal <= x + minted + gifts => bal' <= x + minted' + gifts'
    BY <1>4, <1>5, InflowOnlyGrows
  <2>4. \A x \in Nat : x \in 1 .. minted + gifts => x \in 1 .. minted' + gifts'
    BY <1>4, <1>5, InflowOnlyGrows
  <2> QED
    BY <2>1, <2>2, <2>3, <2>4 DEF CreditInv
<1> QED
  BY <1>1, <1>3, <1>6 DEF PaymentInv

-----------------------------------------------------------------------------
(* The steps of a run.                                                     *)

\* They pay nobody, and concern its own readings only.
LEMMA StepPaysNothing ==
  ASSUME TypeOK, NEW o \in Ops, OpStep(o) \/ DeadlinePasses(o) \/ Crash(o)
  PROVE  /\ UNCHANGED <<serves, bal, minted, gifts, spent, relayed>>
         /\ \A p \in Ops \ {o} : before'[p] = before[p]
         /\ pc[o] # "before" => before'[o] = before[o]
<1>0. before \in [Ops -> Nat]
  BY DEF TypeOK
<1> USE DEF chainVars, Fail, Pass, Go, Return, Await
<1>1. CASE Start(o) \/ VerifySrc(o) \/ VerifyDst(o)
  BY <1>0, <1>1 DEF Start, VerifySrc, VerifyDst
<1>2. CASE ReadBefore(o)
  BY <1>0, <1>2 DEF ReadBefore
<1>3. CASE ReadNonce(o)
  BY <1>0, <1>3 DEF ReadNonce
<1>4. CASE PrepareFees(o)
  BY <1>0, <1>4 DEF PrepareFees
<1>5. CASE Broadcast(o)
  BY <1>0, <1>5 DEF Broadcast
<1>6. CASE ReceiptFound(o)
  BY <1>0, <1>6 DEF ReceiptFound
<1>7. CASE ReceiptPending(o) \/ ReceiptUnreadable(o) \/ ReceiptCheck(o)
  BY <1>0, <1>7 DEF ReceiptPending, ReceiptUnreadable, ReceiptCheck
<1>8. CASE CreditSeen(o) \/ CreditPending(o) \/ CreditUnreadable(o) \/ CreditCheck(o)
  BY <1>0, <1>8 DEF CreditSeen, CreditPending, CreditUnreadable, CreditCheck
<1>9. CASE OpenRecord(o) \/ WriteRecord(o)
  BY <1>0, <1>9 DEF OpenRecord, WriteRecord
<1>10. CASE DeadlinePasses(o) \/ Crash(o)
  BY <1>0, <1>10 DEF DeadlinePasses, Crash
<1> QED
  BY <1>1, <1>2, <1>3, <1>4, <1>5, <1>6, <1>7, <1>8, <1>9, <1>10 DEF OpStep

LEMMA OthersKeepPayment ==
  ASSUME PaymentInv, NEW o \in Ops, OpStep(o) \/ DeadlinePasses(o) \/ Crash(o),
         NEW p \in Ops \ {o}
  PROVE  VerifyInv(p)' /\ (Kind[p] = "deposit" => CreditInv(p)')
<1>1. /\ pc'[p] = pc[p] /\ err'[p] = err[p] /\ tx'[p] = tx[p] /\ res'[p] = res[p]
      /\ UNCHANGED <<serves, bal, minted, gifts>> /\ before'[p] = before[p]
  BY StepIsLocal, StepPaysNothing DEF PaymentInv
<1>2. VerifyInv(p)'
  BY <1>1 DEF PaymentInv, VerifyInv, Verified
<1>3. Kind[p] = "deposit" => CreditInv(p)'
  BY <1>1 DEF PaymentInv, CreditInv, Ok, Ended
<1> QED
  BY <1>2, <1>3

\* A run signs only after the calls that verify its endpoints.
LEMMA SelfStaysVerified ==
  ASSUME PaymentInv, NEW o \in Ops, OpStep(o) \/ DeadlinePasses(o) \/ Crash(o)
  PROVE  VerifyInv(o)'
<1>0. /\ pc \in [Ops -> Stages] /\ err \in [Ops -> Errors] /\ tx \in [Ops -> Tx]
      /\ VerifyInv(o) /\ serves' = serves
  BY StepPaysNothing DEF PaymentInv, TypeOK
\* Once past the signature nothing new is signed.
<1>a. ASSUME tx'[o] = tx[o], pc'[o] \notin {"verifyDst", "before", "nonce", "fees"}
      PROVE  VerifyInv(o)'
  BY <1>0, <1>a DEF VerifyInv, Verified
<1>b. ASSUME NEW e, Fail(o, e) PROVE VerifyInv(o)'
  BY <1>0, <1>a, <1>b DEF Fail, Return
<1>1. CASE Start(o)
  BY <1>0, <1>1, <1>a, <1>b DEF Start, Pass, Go
<1>2. CASE VerifySrc(o)
  <2>1. CASE serves[o].src /\ Pass(o, AfterSrc(o))
    BY <1>0, <2>1 DEF Pass, Go, AfterSrc, VerifyInv, Verified
  <2> QED
    BY <1>2, <2>1, <1>b DEF VerifySrc
<1>3. CASE VerifyDst(o)
  <2>1. CASE pc[o] = "verifyDst" /\ serves[o].dst /\ Pass(o, "before")
    BY <1>0, <2>1 DEF Pass, Go, VerifyInv, Verified
  <2> QED
    BY <1>3, <2>1, <1>b DEF VerifyDst
<1>4. CASE ReadBefore(o)
  <2>1. CASE pc[o] = "before" /\ Go(o, "nonce") /\ tx' = tx
    BY <1>0, <2>1 DEF Go, VerifyInv, Verified
  <2> QED
    BY <1>4, <2>1, <1>b DEF ReadBefore
<1>5. CASE ReadNonce(o)
  <2>1. CASE ~Fail(o, "prepare transaction")
    <3>1. pc[o] = "nonce" /\ pc'[o] = "fees"
      BY <1>0, <1>5, <2>1 DEF ReadNonce, Go
    <3> QED
      BY <1>0, <3>1 DEF VerifyInv, Verified
  <2> QED
    BY <2>1, <1>b
<1>6. CASE PrepareFees(o)
  <2>1. CASE ~Fail(o, "prepare transaction")
    <3>1. pc[o] = "fees" /\ pc'[o] = "send"
      BY <1>0, <1>6, <2>1 DEF PrepareFees, Go
    <3> QED
      BY <1>0, <3>1 DEF VerifyInv, Verified
  <2> QED
    BY <2>1, <1>b
<1>7. CASE Broadcast(o)
  BY <1>0, <1>7, <1>a, <1>b DEF Broadcast, Await, Go, Return
<1>8. CASE ReceiptFound(o)
  BY <1>0, <1>8, <1>a, <1>b DEF ReceiptFound, Await, Go, Return
<1>9. CASE ReceiptPending(o) \/ ReceiptUnreadable(o) \/ ReceiptCheck(o)
  BY <1>0, <1>9, <1>a, <1>b DEF ReceiptPending, ReceiptUnreadable, ReceiptCheck, Pass, Go
<1>10. CASE CreditSeen(o) \/ CreditPending(o) \/ CreditUnreadable(o) \/ CreditCheck(o)
  BY <1>0, <1>10, <1>a, <1>b
     DEF CreditSeen, CreditPending, CreditUnreadable, CreditCheck, Pass, Go, Return
<1>11. CASE OpenRecord(o) \/ WriteRecord(o)
  BY <1>0, <1>11, <1>a, <1>b DEF OpenRecord, WriteRecord, Go, Return
<1>12. CASE DeadlinePasses(o)
  <2>1. pc'[o] = pc[o] /\ tx'[o] = tx[o]
    BY <1>12 DEF DeadlinePasses
  <2> QED
    BY <1>0, <2>1 DEF VerifyInv, Verified
<1>13. CASE Crash(o)
  BY <1>0, <1>13, <1>a DEF Crash, Return
<1> QED
  BY <1>1, <1>2, <1>3, <1>4, <1>5, <1>6, <1>7, <1>8, <1>9, <1>10, <1>11, <1>12, <1>13
     DEF OpStep

\* A deposit reads the balance, goes on counting from there, gives up, or sees
\* the credit.
ReadsBalance(o) == pc[o] = "before" /\ pc'[o] = "nonce" /\ before'[o] = bal
GoesOn(o) ==
  /\ pc[o] \in Counting /\ pc'[o] \in Counting \ {"nonce"}
  /\ pc[o] = "nonce" => pc'[o] = "fees"
GivesUp(o) == pc'[o] \notin Counting \cup RecordStages /\ ~Ok(o)'
SeesCredit(o) ==
  /\ pc[o] = "credit" /\ pc'[o] = "done" /\ bal > before[o]
  /\ res'[o].credited = bal - before[o]

LEMMA CreditKinds ==
  ASSUME TypeOK, NEW o \in Ops, Kind[o] = "deposit", pc[o] \notin RecordStages,
         OpStep(o) \/ DeadlinePasses(o) \/ Crash(o)
  PROVE  ReadsBalance(o) \/ GoesOn(o) \/ GivesUp(o) \/ SeesCredit(o)
<1> USE DEF Ok, Ended, ReceiptStages, CreditStages, RecordStages, Counting,
            ReadsBalance, GoesOn, GivesUp, SeesCredit
<1>0. /\ pc \in [Ops -> Stages] /\ err \in [Ops -> Errors] /\ before \in [Ops -> Nat]
      /\ res \in [Ops -> Result]
  BY DEF TypeOK
<1>a. ASSUME pc'[o] = "done", err'[o] # "nil" PROVE GivesUp(o)
  BY <1>a
<1>b. ASSUME NEW e \in Errors \ {"nil"}, Fail(o, e) PROVE GivesUp(o)
  BY <1>0, <1>a, <1>b DEF Fail, Return
<1>1. CASE Start(o) \/ VerifySrc(o) \/ VerifyDst(o)
  <2>1. (\E e \in Refusals : Fail(o, e)) \/ \E s \in {"verifySrc", "verifyDst", "before"} : Pass(o, s)
    BY <1>1 DEF Start, VerifySrc, VerifyDst, AfterSrc, Refusals
  <2> QED
    BY <1>0, <2>1, <1>b DEF Pass, Go, Errors, Refusals
<1>2. CASE ReadBefore(o)
  <2>1. CASE Fail(o, "read balance before")
    BY <2>1, <1>b DEF Errors, Refusals
  <2>2. CASE ~Fail(o, "read balance before")
    BY <1>0, <1>2, <2>2 DEF ReadBefore, Go
  <2> QED
    BY <2>1, <2>2
<1>3. CASE ReadNonce(o) \/ PrepareFees(o)
  <2>1. CASE Fail(o, "prepare transaction")
    BY <2>1, <1>b DEF Errors, Refusals
  <2>2. CASE ~Fail(o, "prepare transaction")
    BY <1>0, <1>3, <2>2 DEF ReadNonce, PrepareFees, Go
  <2> QED
    BY <2>1, <2>2
<1>4. CASE Broadcast(o)
  <2>1. pc[o] = "send" /\ (pc'[o] = "receipt" \/ (pc'[o] = "done" /\ err'[o] # "nil"))
    BY <1>0, <1>4 DEF Broadcast, Await, Go, Return, Fail
  <2> QED
    BY <2>1, <1>a
<1>5. CASE ReceiptFound(o)
  <2>1. pc[o] = "receipt" /\ (pc'[o] = "credit" \/ (pc'[o] = "done" /\ err'[o] # "nil"))
    BY <1>0, <1>5 DEF ReceiptFound, Await, Go, Return, Fail
  <2> QED
    BY <2>1, <1>a
<1>6. CASE \/ ReceiptPending(o) \/ ReceiptUnreadable(o) \/ ReceiptCheck(o)
           \/ CreditPending(o) \/ CreditUnreadable(o) \/ CreditCheck(o)
  <2>1. /\ pc[o] \in Counting \ {"nonce"}
        /\ pc'[o] \in Counting \ {"nonce"} \/ (pc'[o] = "done" /\ err'[o] # "nil")
    BY <1>0, <1>6 DEF ReceiptPending, ReceiptUnreadable, ReceiptCheck,
       CreditPending, CreditUnreadable, CreditCheck, Pass, Go, Fail, Return
  <2> QED
    BY <2>1, <1>a
<1>7. CASE CreditSeen(o)
  BY <1>0, <1>7 DEF CreditSeen, Return, Rose, Increase, Result
<1>8. CASE OpenRecord(o) \/ WriteRecord(o)
  BY <1>8 DEF OpenRecord, WriteRecord
<1>9. CASE DeadlinePasses(o)
  BY <1>9 DEF DeadlinePasses
<1>10. CASE Crash(o)
  BY <1>0, <1>10, <1>a DEF Crash, Return
<1> QED
  BY <1>1, <1>2, <1>3, <1>4, <1>5, <1>6, <1>7, <1>8, <1>9, <1>10 DEF OpStep

\* What a deposit's own step makes of its readings.
LEMMA SelfKeepsCredit ==
  ASSUME PaymentInv, NEW o \in Ops, Kind[o] = "deposit",
         OpStep(o) \/ DeadlinePasses(o) \/ Crash(o)
  PROVE  CreditInv(o)'
<1>0. /\ CreditInv(o) /\ TypeOK
      /\ bal' = bal /\ minted' = minted /\ gifts' = gifts
      /\ bal \in Nat /\ minted \in Nat /\ gifts \in Nat /\ before[o] \in Nat
      /\ pc[o] # "before" => before'[o] = before[o]
  BY StepPaysNothing, BoundsAssumption DEF PaymentInv, TypeOK, ChainTypeOK
<1> USE DEF Ok, Ended, ReceiptStages, CreditStages, RecordStages, Counting, CreditInv
<1>1. CASE ReadsBalance(o)
  BY <1>0, <1>1 DEF ReadsBalance
<1>2. CASE GoesOn(o)
  BY <1>0, <1>2 DEF GoesOn
<1>3. CASE GivesUp(o)
  BY <1>3 DEF GivesUp
<1>4. CASE SeesCredit(o)
  <2>1. bal - before[o] \in 1 .. minted + gifts
    BY <1>0, <1>4 DEF SeesCredit
  <2> QED
    BY <1>0, <1>4, <2>1 DEF SeesCredit
<1> QED
  BY <1>0, <1>1, <1>2, <1>3, <1>4, CreditKinds

LEMMA NextPayment == PaymentInv /\ [Next]_vars => PaymentInv'
<1> SUFFICES ASSUME PaymentInv, [Next]_vars PROVE PaymentInv'
  OBVIOUS
<1>1. TypeOK'
  BY NextType DEF PaymentInv
<1>2. ASSUME NEW o \in Ops, OpStep(o) \/ DeadlinePasses(o) \/ Crash(o)
      PROVE  PaymentInv'
  <2>1. \A p \in Ops : VerifyInv(p)' /\ (Kind[p] = "deposit" => CreditInv(p)')
    BY <1>2, OthersKeepPayment, SelfStaysVerified, SelfKeepsCredit
  <2> QED
    BY <1>1, <2>1 DEF PaymentInv
<1>3. CASE EnvStep
  BY <1>3, EnvKeepsPayment
<1>4. CASE UNCHANGED vars
  BY <1>1, <1>4 DEF PaymentInv, VerifyInv, Verified, CreditInv, Ok, Ended,
     vars, chainVars, opVars
<1> QED
  BY <1>2, <1>3, <1>4 DEF Next, Finished

LEMMA PaymentInvariant == Spec => []PaymentInv
BY InitPayment, NextPayment, PTL DEF Spec

\* bridge.go:274-283: no run signs before its source endpoint, and a deposit's
\* destination endpoint, has been seen to serve the configured chain.
THEOREM VerifiedBeforeSigned == Spec => []SignedOnlyWhenVerified
<1>1. PaymentInv => SignedOnlyWhenVerified
  BY DEF PaymentInv, VerifyInv, Verified, SignedOnlyWhenVerified
<1> QED
  BY <1>1, PaymentInvariant, PTL

\* bridge.go:440: a reported credit is positive and never more than all that
\* flowed in, whatever the destination receives and pays out meanwhile.
THEOREM CreditIsInflow == Spec => []CreditWithinInflow
<1>1. PaymentInv => CreditWithinInflow
  BY DEF PaymentInv, CreditInv, CreditWithinInflow
<1> QED
  BY <1>1, PaymentInvariant, PTL

-----------------------------------------------------------------------------
(* The hashes.                                                             *)

Waiting == ReceiptStages \cup CreditStages \cup RecordStages

\* What HashReported says of one run.
TellsHashes(o) ==
  /\ res[o].src \/ err[o] \in HashInText
  /\ err[o] \in {"ErrDepositNotCredited", "read balance", "credit context"}
       => res[o].src /\ res[o].dst # {}

\* Only SameChain waits without its hash in the Result, and it waits for
\* nothing but the receipt, where every error names the transaction.
HashInv(o) ==
  /\ pc[o] \in Waiting => res[o].src \/ (Kind[o] = "same-chain" /\ pc[o] \in ReceiptStages)
  /\ pc[o] \in CreditStages => res[o].dst # {}
  /\ pc[o] = "done" /\ Acked(o) => TellsHashes(o)

ReportInv == TypeOK /\ \A o \in Ops : HashInv(o)

LEMMA SelfTellsHashes ==
  ASSUME ReportInv, NEW o \in Ops, OpStep(o) \/ DeadlinePasses(o) \/ Crash(o)
  PROVE  HashInv(o)'
<1> USE DEF Acked, Waiting, ReceiptStages, CreditStages, RecordStages
<1>0. /\ pc \in [Ops -> Stages] /\ err \in [Ops -> Errors] /\ res \in [Ops -> Result]
      /\ HashInv(o)
  BY DEF ReportInv, TypeOK
\* Not yet handed over, or not known to be.
<1>a. ASSUME pc'[o] \in PreSendStages PROVE HashInv(o)'
  BY <1>a DEF HashInv, PreSendStages
<1>b. ASSUME pc'[o] = "done", err'[o] \in Refusals \cup {"broadcast", "crashed"}
      PROVE  HashInv(o)'
  BY <1>b DEF HashInv, Refusals, LateErrors
<1>c. ASSUME NEW e \in Refusals \cup {"broadcast"}, Fail(o, e) PROVE HashInv(o)'
  BY <1>0, <1>b, <1>c DEF Fail, Return
\* A wait that ends in an error, as it stands.
<1>d. ASSUME NEW e, Fail(o, e), res[o].src \/ e \in HashInText,
             e \in {"ErrDepositNotCredited", "read balance", "credit context"}
               => res[o].src /\ res[o].dst # {}
      PROVE  HashInv(o)'
  BY <1>0, <1>d DEF Fail, Return, HashInv, TellsHashes
<1>1. CASE Start(o) \/ VerifySrc(o) \/ VerifyDst(o) \/ ReadBefore(o) \/ ReadNonce(o)
           \/ PrepareFees(o)
  <2>1. pc'[o] \in PreSendStages \/ \E e \in Refusals : Fail(o, e)
    BY <1>0, <1>1 DEF Start, VerifySrc, VerifyDst, ReadBefore, ReadNonce, PrepareFees,
       Pass, Go, AfterSrc, PreSendStages, Refusals
  <2> QED
    BY <2>1, <1>a, <1>c
<1>2. CASE Broadcast(o)
  <2>1. CASE Fail(o, "broadcast") \/ Return(o, "broadcast")
    BY <1>0, <2>1, <1>b DEF Fail, Return
  <2>2. CASE Await(o, "receipt") /\ res' = [res EXCEPT ![o].src = HashOnSend(o)]
    <3>1. pc'[o] = "receipt" /\ res'[o].src = HashOnSend(o)
      BY <1>0, <2>2 DEF Await, Go, Result
    <3> QED
      BY <3>1 DEF HashInv, HashOnSend
  <2> QED
    BY <1>2, <2>1, <2>2 DEF Broadcast
<1>3. CASE ReceiptFound(o)
  <2> DEFINE e == Receipt(Chain(o), tx[o])
  <2>1. pc[o] = "receipt" /\ (res[o].src \/ Kind[o] = "same-chain")
    BY <1>0, <1>3 DEF ReceiptFound, HashInv
  <2>2. CASE Fail(o, "ErrTxReverted")
    BY <2>2, <1>d DEF HashInText
  <2>3. CASE Fail(o, "no event in receipt") /\ Kind[o] # "same-chain"
    BY <2>1, <2>3, <1>d
  <2>4. CASE Return(o, "nil") /\ res' = [res EXCEPT ![o].src = TRUE]
    <3>1. res'[o].src /\ err'[o] = "nil" /\ pc'[o] = "done"
      BY <1>0, <2>4 DEF Return, Result
    <3> QED
      BY <3>1 DEF HashInv, TellsHashes
  <2>5. CASE Kind[o] = "deposit" /\ Await(o, "credit") /\ res' = [res EXCEPT ![o].dst = {LogOf(e)}]
    <3>1. res'[o].src /\ res'[o].dst # {} /\ pc'[o] = "credit"
      BY <1>0, <2>1, <2>5 DEF Await, Go, Result
    <3> QED
      BY <3>1 DEF HashInv
  <2>6. CASE /\ Kind[o] = "withdraw" /\ Go(o, "openRecord")
             /\ res' = [res EXCEPT ![o].withdrawal = {LogOf(e)}]
    <3>1. res'[o].src /\ pc'[o] = "openRecord"
      BY <1>0, <2>1, <2>6 DEF Go, Result
    <3> QED
      BY <3>1 DEF HashInv
  <2> QED
    BY <1>3, <2>2, <2>3, <2>4, <2>5, <2>6 DEF ReceiptFound
<1>4. CASE ReceiptPending(o) \/ ReceiptUnreadable(o) \/ ReceiptCheck(o)
  <2>1. CASE \E s \in ReceiptStages : pc[o] \in ReceiptStages /\ Pass(o, s)
    BY <1>0, <2>1 DEF Pass, Go, HashInv
  <2>2. CASE \E e \in HashInText : Fail(o, e)
    BY <2>2, <1>d DEF HashInText
  <2> QED
    BY <1>4, <2>1, <2>2 DEF ReceiptPending, ReceiptUnreadable, ReceiptCheck, HashInText
<1>5. CASE CreditSeen(o)
  <2>1. res'[o].src /\ err'[o] = "nil" /\ pc'[o] = "done"
    BY <1>0, <1>5 DEF CreditSeen, Return, Result, HashInv
  <2> QED
    BY <2>1 DEF HashInv, TellsHashes
<1>6. CASE CreditPending(o) \/ CreditUnreadable(o) \/ CreditCheck(o)
  <2>1. pc[o] \in CreditStages /\ res[o].src /\ res[o].dst # {}
    BY <1>0, <1>6 DEF CreditPending, CreditUnreadable, CreditCheck, HashInv
  <2>2. CASE \E s \in CreditStages : Pass(o, s)
    BY <1>0, <2>1, <2>2 DEF Pass, Go, HashInv
  <2>3. CASE \E e \in LateErrors : Fail(o, e)
    BY <2>1, <2>3, <1>d
  <2> QED
    BY <1>6, <2>2, <2>3 DEF CreditPending, CreditUnreadable, CreditCheck, LateErrors
<1>7. CASE OpenRecord(o) \/ WriteRecord(o)
  <2>1. pc[o] \in RecordStages /\ res[o].src
    BY <1>0, <1>7 DEF OpenRecord, WriteRecord, HashInv
  <2>2. CASE Fail(o, "record withdrawal")
    BY <2>1, <2>2, <1>d
  <2>3. CASE ~Fail(o, "record withdrawal")
    <3>a. CASE Go(o, "writeRecord") /\ res' = res
      BY <1>0, <2>1, <3>a DEF Go, HashInv
    <3>b. CASE Return(o, "nil") /\ res' = [res EXCEPT ![o].path = TRUE]
      <4>1. res'[o].src /\ pc'[o] = "done" /\ err'[o] = "nil"
        BY <1>0, <2>1, <3>b DEF Return, Result
      <4> QED
        BY <4>1 DEF HashInv, TellsHashes
    <3> QED
      BY <1>7, <2>3, <3>a, <3>b DEF OpenRecord, WriteRecord
  <2> QED
    BY <2>2, <2>3
<1>8. CASE DeadlinePasses(o)
  <2>1. pc'[o] = pc[o] /\ err'[o] = err[o] /\ res'[o] = res[o]
    BY <1>8 DEF DeadlinePasses
  <2> QED
    BY <1>0, <2>1 DEF HashInv, TellsHashes
<1>9. CASE Crash(o)
  BY <1>0, <1>9, <1>b DEF Crash, Return
<1> QED
  BY <1>1, <1>2, <1>3, <1>4, <1>5, <1>6, <1>7, <1>8, <1>9 DEF OpStep

LEMMA NextReport == ReportInv /\ [Next]_vars => ReportInv'
<1> SUFFICES ASSUME ReportInv, [Next]_vars PROVE ReportInv'
  OBVIOUS
<1>1. TypeOK'
  BY NextType DEF ReportInv
<1> USE DEF HashInv, TellsHashes, Acked
<1>2. ASSUME NEW o \in Ops, OpStep(o) \/ DeadlinePasses(o) \/ Crash(o), NEW p \in Ops
      PROVE  HashInv(p)'
  <2>1. CASE p = o
    BY <1>2, <2>1, SelfTellsHashes
  <2>2. CASE p # o
    <3>1. pc'[p] = pc[p] /\ err'[p] = err[p] /\ res'[p] = res[p]
      BY <1>2, <2>2, StepIsLocal DEF ReportInv
    <3> QED
      BY <3>1 DEF ReportInv
  <2> QED
    BY <2>1, <2>2
<1>3. CASE EnvStep \/ UNCHANGED vars
  <2>1. UNCHANGED opVars
    BY <1>3 DEF EnvStep, vars
  <2> QED
    BY <1>1, <2>1 DEF ReportInv, opVars
<1> QED
  BY <1>1, <1>2, <1>3 DEF Next, Finished, ReportInv

LEMMA ReportInvariant == Spec => []ReportInv
<1>1. Init => ReportInv
  BY InitType DEF Init, ReportInv, HashInv, Acked, Waiting, ReceiptStages, CreditStages,
     RecordStages
<1> QED
  BY <1>1, NextReport, PTL DEF Spec

\* run.go:135, bridge.go:415: the hash of an acknowledged transaction is always
\* reported, and both hashes of a deposit that fails while it waits for credit.
THEOREM HashIsReported == Spec => []HashReported
<1>1. ReportInv => HashReported
  BY DEF ReportInv, HashInv, TellsHashes, HashReported
<1> QED
  BY <1>1, ReportInvariant, PTL

-----------------------------------------------------------------------------
(* Where the transactions on the chains are from.                          *)

Signed(o) == tx[o].fee > 0

\* What is signed is what the run was asked for, and that is not nothing.
BuiltInv(o) ==
  /\ pc[o] \notin {"start", "done"} => Amount[o] > 0
  /\ pc[o] \in {"fees", "send"} \/ Signed(o) =>
       tx[o].kind = Kind[o] /\ tx[o].amount = Amount[o] /\ Amount[o] > 0

FromARun(c, t) == \E p \in Ops : Chain(p) = c /\ Signed(p) /\ tx[p] = t

LoggedByBridge(c) ==
  \A i \in 1 .. Len(mined[c]) :
    mined[c][i].outcome = "logged" => mined[c][i].tx.kind # "same-chain"

OriginInv ==
  /\ \A o \in Ops : BuiltInv(o)
  /\ \A c \in Chains : \A t \in Known(c) : FromARun(c, t)
  /\ \A c \in Chains : LoggedByBridge(c)

LEMMA InitOrigin == Init => OriginInv
<1> SUFFICES ASSUME Init PROVE OriginInv
  OBVIOUS
<1>1. \A c \in Chains : pool[c] = {} /\ mined[c] = <<>> /\ Len(mined[c]) = 0
  BY EmptySeq DEF Init, ChainInit
<1>2. \A c \in Chains : Known(c) = {} /\ LoggedByBridge(c)
  BY <1>1 DEF Known, Blocks, LoggedByBridge
<1>3. \A o \in Ops : BuiltInv(o)
  BY DEF Init, BuiltInv, Signed, Draft
<1> QED
  BY <1>2, <1>3 DEF OriginInv

\* Past its first step, a run has been asked for more than nothing, and it
\* takes none after its last.
LEMMA AskedForMore ==
  ASSUME TypeOK, NEW o \in Ops, OpStep(o) \/ DeadlinePasses(o) \/ Crash(o), BuiltInv(o)
  PROVE  pc'[o] # "done" => Amount[o] > 0
<1>1. pc \in [Ops -> Stages]
  BY DEF TypeOK
<1>2. CASE Start(o)
  BY <1>1, <1>2 DEF Start, Fail, Return
<1>3. CASE ~Start(o)
  <2>1. pc[o] \notin {"start", "done"}
    BY <1>3 DEF OpStep, VerifySrc, VerifyDst, ReadBefore, ReadNonce, PrepareFees, Broadcast,
       ReceiptFound, ReceiptPending, ReceiptUnreadable, ReceiptCheck, CreditSeen,
       CreditPending, CreditUnreadable, CreditCheck, OpenRecord, WriteRecord,
       DeadlinePasses, Crash, ReceiptStages, CreditStages
  <2> QED
    BY <2>1 DEF BuiltInv
<1> QED
  BY <1>2, <1>3

LEMMA OwnStepBuilds ==
  ASSUME TypeOK, NEW o \in Ops, OpStep(o) \/ DeadlinePasses(o) \/ Crash(o), BuiltInv(o)
  PROVE  BuiltInv(o)'
<1>0. /\ tx \in [Ops -> Tx] /\ Kind[o] \in Kinds /\ Amount[o] \in Nat
      /\ pc'[o] # "done" => Amount[o] > 0
  BY OpsAssumption, AskedForMore DEF TypeOK
<1>1. CASE Quiet(o) \/ HandsOver(o)
  <2>1. tx'[o] = tx[o] /\ pc'[o] \notin {"fees", "send"}
    BY <1>1 DEF Quiet, HandsOver
  <2> QED
    BY <1>0, <2>1 DEF BuiltInv, Signed
<1>2. CASE Reads(o)
  <2>1. PICK n : tx'[o] = [nonce |-> n, kind |-> Kind[o], amount |-> Amount[o], fee |-> 0]
    BY <1>0, <1>2 DEF Reads
  <2>2. tx'[o].kind = Kind[o] /\ tx'[o].amount = Amount[o] /\ tx'[o].fee = 0
    BY <2>1
  <2>3. Amount[o] > 0
    BY <1>2 DEF Reads, BuiltInv
  <2> QED
    BY <2>2, <2>3 DEF BuiltInv, Signed
<1>3. CASE Signs(o)
  <2>1. tx'[o].kind = tx[o].kind /\ tx'[o].amount = tx[o].amount /\ pc[o] = "fees"
    BY <1>0, <1>3 DEF Signs, Tx
  <2> QED
    BY <2>1 DEF BuiltInv
<1> QED
  BY <1>1, <1>2, <1>3, StepKinds

\* What a run has signed stays as it is, so it stays the origin of what it
\* handed over.
LEMMA SignedStays ==
  ASSUME PromiseInv, NEW o \in Ops, OpStep(o) \/ DeadlinePasses(o) \/ Crash(o),
         NEW p \in Ops, Signed(p)
  PROVE  tx'[p] = tx[p]
<1>1. TypeOK /\ Unsigned(o)
  BY DEF PromiseInv, OutcomeInv
<1> QED
  BY <1>1, StepIsLocal, StepSignsOrEnds DEF Signed

LEMMA OwnStepOrigin ==
  ASSUME PromiseInv, OriginInv, NEW o \in Ops, OpStep(o) \/ DeadlinePasses(o) \/ Crash(o)
  PROVE  OriginInv'
<1>0. /\ TypeOK /\ mined' = mined /\ Chain(o) \in Chains
      /\ pool \in [Chains -> SUBSET Tx]
  BY StepIsLocal DEF PromiseInv, OutcomeInv, TypeOK, ChainTypeOK, Chain, Chains
<1>1. \A p \in Ops : BuiltInv(p)'
  BY <1>0, OwnStepBuilds, StepIsLocal DEF OriginInv, BuiltInv, Signed
<1>2. \A c \in Chains : LoggedByBridge(c)'
  BY <1>0 DEF OriginInv, LoggedByBridge
<1>3. ASSUME NEW c, NEW t, FromARun(c, t) PROVE FromARun(c, t)'
  <2>1. PICK p \in Ops : Chain(p) = c /\ Signed(p) /\ tx[p] = t
    BY <1>3 DEF FromARun
  <2>2. tx'[p] = tx[p]
    BY <2>1, SignedStays
  <2> QED
    BY <2>1, <2>2 DEF FromARun, Signed, Chain
<1>4. ASSUME NEW c \in Chains, NEW t \in Known(c)' PROVE FromARun(c, t)'
  <2>1. CASE pool' = pool
    BY <1>0, <1>3, <1>4, <2>1 DEF Known, Blocks, OriginInv
  <2>2. CASE HandsOver(o)
    <3>1. Signed(o) /\ tx'[o] = tx[o]
      BY <2>2 DEF PromiseInv, OutcomeInv, RunInv, HandsOver, Signed
    <3>2. t \in Known(c) \/ (c = Chain(o) /\ t = tx[o])
      BY <1>0, <1>4, <2>2 DEF HandsOver, Accept, Known, Blocks
    <3>3. FromARun(Chain(o), tx[o])
      BY <3>1 DEF FromARun
    <3> QED
      BY <1>3, <3>2, <3>3 DEF OriginInv
  <2> QED
    BY <1>0, <2>1, <2>2, StepKinds DEF Quiet, Reads, Signs
<1> QED
  BY <1>1, <1>2, <1>4 DEF OriginInv

\* What is in a block after a step of the chains was there before, or is what
\* the bridge can have come of it; and what L2 has derived stays.
LEMMA BlocksStay ==
  ASSUME ChainTypeOK, EnvStep, NEW d \in Chains
  PROVE  /\ \A i \in 1 .. Len(mined'[d]) :
              \/ i \in 1 .. Len(mined[d]) /\ mined'[d][i] = mined[d][i]
              \/ mined'[d][i].outcome = "logged" => mined'[d][i].tx.kind # "same-chain"
         /\ \A i \in 1 .. relayed : mined'["L1"][i] = mined["L1"][i]
<1>0. /\ mined \in [Chains -> Seq(Entry)] /\ relayed \in Nat
      /\ \A c \in Chains : Len(mined[c]) \in Nat
      /\ relayed <= Len(mined["L1"]) /\ "L1" \in Chains
  <2>1. mined["L1"] \in Seq(Entry) /\ mined["L2"] \in Seq(Entry)
    BY DEF ChainTypeOK, Chains
  <2> QED
    BY <2>1, LenProperties DEF ChainTypeOK, Chains
<1>1. ASSUME NEW c \in Chains, Mine(c)
      PROVE  /\ \A i \in 1 .. Len(mined'[d]) :
                  \/ i \in 1 .. Len(mined[d]) /\ mined'[d][i] = mined[d][i]
                  \/ mined'[d][i].outcome = "logged" => mined'[d][i].tx.kind # "same-chain"
             /\ \A i \in 1 .. relayed : mined'["L1"][i] = mined["L1"][i]
  <2>1. PICK u \in pool[c], out \in Outcomes :
          /\ out = "logged" => u.kind # "same-chain"
          /\ mined' = [mined EXCEPT ![c] =
                         Append(@, [tx |-> u, outcome |-> out, fork |-> reorgs])]
    BY <1>1 DEF Mine
  <2> DEFINE e == [tx |-> u, outcome |-> out, fork |-> reorgs]
             m == Len(mined[c])
  <2>2. e \in Entry /\ m \in Nat
    BY <1>0 DEF ChainTypeOK, Entry
  <2>3. mined'[c] = Append(mined[c], e) /\ \A b \in Chains : b # c => mined'[b] = mined[b]
    BY <1>0, <2>1
  <2>4. /\ Len(mined'[c]) = m + 1 /\ mined'[c][m + 1] = e
        /\ \A i \in 1 .. m : mined'[c][i] = mined[c][i]
    BY <1>0, <2>2, <2>3, AppendProperties
  <2>5. e.outcome = "logged" => e.tx.kind # "same-chain"
    BY <2>1
  <2>6. \A i \in 1 .. m + 1 : i \in 1 .. m \/ i = m + 1
    BY <2>2
  <2>r. \A i \in 1 .. relayed : mined'["L1"][i] = mined["L1"][i]
    <3>1. c = "L1" => \A i \in 1 .. relayed : i \in 1 .. m
      BY <1>0
    <3> HIDE DEF e, m
    <3> QED
      BY <1>0, <2>3, <2>4, <3>1
  <2>7. CASE d = c
    <3>1. \A i \in 1 .. Len(mined'[d]) :
            \/ i \in 1 .. Len(mined[d]) /\ mined'[d][i] = mined[d][i]
            \/ mined'[d][i].outcome = "logged" => mined'[d][i].tx.kind # "same-chain"
      <4> HIDE DEF e, m
      <4> QED
        BY <2>4, <2>5, <2>6, <2>7 DEF m
    <3> QED
      BY <2>r, <3>1
  <2>8. CASE d # c
    BY <2>3, <2>r, <2>8
  <2> QED
    BY <2>7, <2>8
<1>2. ASSUME NEW c \in Chains, Reorg(c)
      PROVE  /\ \A i \in 1 .. Len(mined'[d]) :
                  i \in 1 .. Len(mined[d]) /\ mined'[d][i] = mined[d][i]
             /\ \A i \in 1 .. relayed : mined'["L1"][i] = mined["L1"][i]
  <2> DEFINE s == mined[c]
             m == Len(s)
  <2>1. s \in Seq(Entry) /\ m \in Nat /\ m > 0 /\ (c = "L1" => relayed < m)
    <3>1. s \in Seq(Entry) /\ s # <<>> /\ (c = "L1" => relayed < m)
      BY <1>0, <1>2 DEF Reorg
    <3> QED
      BY <3>1, EmptySeq, LenProperties
  <2>2. mined'[c] = SubSeq(s, 1, m - 1) /\ \A b \in Chains : b # c => mined'[b] = mined[b]
    BY <1>0, <1>2 DEF Reorg
  <2>3. Len(mined'[c]) = m - 1 /\ \A i \in 1 .. m - 1 : mined'[c][i] = s[i]
    <3>1. \A i \in 1 .. m - 1 : s[i] \in Entry
      BY <2>1, ElementOfSeq
    <3> HIDE DEF s, m
    <3>2. /\ Len(SubSeq(s, 1, m - 1)) = IF 1 <= m - 1 THEN (m - 1) - 1 + 1 ELSE 0
          /\ \A i \in 1 .. (m - 1) - 1 + 1 : SubSeq(s, 1, m - 1)[i] = s[1 + i - 1]
      BY <2>1, <3>1, SubSeqProperties
    <3> QED
      BY <2>1, <2>2, <3>2
  <2>4. /\ \A i \in 1 .. m - 1 : i \in 1 .. m
        /\ c = "L1" => \A i \in 1 .. relayed : i \in 1 .. m - 1
    <3> HIDE DEF m
    <3> QED
      BY <1>0, <2>1
  <2>5. CASE d = c
    BY <1>0, <2>2, <2>3, <2>4, <2>5
  <2>6. CASE d # c
    BY <1>0, <2>2, <2>3, <2>4, <2>6
  <2> QED
    BY <2>5, <2>6
<1>3. CASE mined' = mined
  BY <1>3
<1> QED
  BY <1>1, <1>2, <1>3 DEF EnvStep, Evict, Relay, Gift, Spend

LEMMA EnvKeepsOrigin ==
  ASSUME NonceInv, OriginInv, EnvStep
  PROVE  OriginInv'
<1>0. ChainTypeOK /\ UNCHANGED opVars
  BY DEF NonceInv, TypeOK, EnvStep
<1>1. \A p \in Ops : BuiltInv(p)'
  BY <1>0 DEF OriginInv, BuiltInv, Signed, opVars
<1>2. \A c \in Chains : LoggedByBridge(c)'
  BY <1>0, BlocksStay DEF OriginInv, LoggedByBridge
<1>3. \A c \in Chains : Known(c)' \subseteq Known(c)
  <2>1. CASE \E c \in Chains : Mine(c)
    BY <1>0, <2>1, MineKeepsKnown DEF NonceInv
  <2>2. CASE \E c \in Chains : Reorg(c)
    BY <1>0, <2>2, ReorgKeepsKnown DEF NonceInv
  <2>3. CASE \E c \in Chains : Evict(c)
    BY <1>0, <2>3 DEF Evict, ChainTypeOK, Known, Blocks
  <2>4. CASE Relay \/ Gift \/ Spend
    BY <2>4 DEF Relay, Gift, Spend, Known, Blocks
  <2> QED
    BY <2>1, <2>2, <2>3, <2>4 DEF EnvStep
<1>4. \A c \in Chains : \A t : FromARun(c, t)' <=> FromARun(c, t)
  BY <1>0 DEF FromARun, Signed, Chain, opVars
<1> QED
  BY <1>1, <1>2, <1>3, <1>4 DEF OriginInv

LEMMA OriginInvariant == Spec => []OriginInv
<1>1. PromiseInv /\ NonceInv /\ OriginInv /\ [Next]_vars => OriginInv'
  <2> SUFFICES ASSUME PromiseInv, NonceInv, OriginInv, [Next]_vars PROVE OriginInv'
    OBVIOUS
  <2>1. CASE UNCHANGED vars
    BY <2>1 DEF OriginInv, BuiltInv, FromARun, LoggedByBridge, Signed, Known, Blocks, Chain,
                vars, chainVars, opVars
  <2> QED
    BY <2>1, OwnStepOrigin, EnvKeepsOrigin DEF Next, Finished
<1> QED
  BY <1>1, InitOrigin, PromiseInvariant, NonceInvariant, PTL DEF Spec

\* What L1 logs for L2 to credit is a deposit that a run of the tool signed.
LEMMA LoggedIsDeposit ==
  ASSUME ChainTypeOK, OriginInv, NEW i \in 1 .. Len(mined["L1"]),
         mined["L1"][i].outcome = "logged"
  PROVE  \E p \in Ops : /\ Kind[p] = "deposit" /\ Signed(p) /\ tx[p] = mined["L1"][i].tx
                        /\ tx[p].amount = Amount[p] /\ Amount[p] > 0
<1>1. "L1" \in Chains /\ mined["L1"][i].tx \in Known("L1")
  BY DEF Chains, Known, Blocks
<1>2. PICK p \in Ops : Chain(p) = "L1" /\ Signed(p) /\ tx[p] = mined["L1"][i].tx
  BY <1>1 DEF OriginInv, FromARun
<1>3. /\ tx[p].kind = Kind[p] /\ tx[p].amount = Amount[p] /\ Amount[p] > 0
      /\ tx[p].kind # "same-chain"
  BY <1>1, <1>2 DEF OriginInv, BuiltInv, LoggedByBridge
<1>4. Kind[p] = "deposit"
  BY <1>2, <1>3, OpsAssumption DEF Chain, Kinds
<1> QED
  BY <1>2, <1>3, <1>4

-----------------------------------------------------------------------------
(* A deposit that is the only payment, and a wait that ends at the credit. *)

BalanceInv == bal = InitialBalance + minted + gifts - spent

\* What SoloCreditExact supposes; it never becomes true again.
Solo(o) == gifts = 0 /\ \A p \in Ops \ {o} : Kind[p] = "deposit" => tx[p].fee = 0

\* Its credit comes at once and in whole, and its reading was before that.
SoloInv(o) ==
  Solo(o) =>
    /\ minted # 0 => minted = Amount[o] /\ Signed(o) /\ relayed > tx[o].nonce
    /\ pc[o] \in Counting => before[o] \in InitialBalance - spent .. InitialBalance
    /\ Ok(o) => minted # 0 /\ res[o].credited \in Amount[o] - spent .. Amount[o]

\* Until the destination pays something out, its balance does not fall below
\* the reading, and is above it once a deposit was credited at the run's nonce.
RiseInv(o) ==
  spent = 0 =>
    /\ pc[o] \in Counting => bal >= before[o]
    /\ /\ pc[o] \in Counting \ {"nonce"} /\ relayed > tx[o].nonce
       /\ mined["L1"][tx[o].nonce + 1].outcome = "logged"
       => bal > before[o]

ArrivalInv == BalanceInv /\ \A o \in Ops : Kind[o] = "deposit" => SoloInv(o) /\ RiseInv(o)

LEMMA InitArrival == Init => ArrivalInv
<1> SUFFICES ASSUME Init PROVE ArrivalInv
  OBVIOUS
<1>1. BalanceInv
  BY BalanceAssumption DEF Init, ChainInit, BalanceInv
<1>2. minted = 0 /\ relayed = 0
  BY DEF Init, ChainInit
<1>3. ASSUME NEW o \in Ops PROVE SoloInv(o) /\ RiseInv(o)
  BY <1>2, <1>3 DEF Init, SoloInv, RiseInv, Counting, ReceiptStages, CreditStages, Ok, Ended
<1> QED
  BY <1>1, <1>3 DEF ArrivalInv

\* The four things that the chains do to the balance.
Rests == UNCHANGED <<bal, minted, relayed, gifts, spent>>
Given == bal' = bal + 1 /\ gifts' = gifts + 1 /\ UNCHANGED <<mined, minted, relayed, spent>>
Paid == bal' = bal - 1 /\ spent' = spent + 1 /\ UNCHANGED <<mined, minted, relayed, gifts>>
Credits(e, credit) ==
  /\ bal' = bal + credit /\ minted' = minted + credit /\ relayed' = relayed + 1
  /\ UNCHANGED <<mined, gifts, spent>>
  /\ IF e.outcome = "logged" THEN credit = e.tx.amount ELSE credit = 0
Derives ==
  /\ relayed < Len(mined["L1"])
  /\ \E credit \in Nat : Credits(mined["L1"][relayed + 1], credit)

LEMMA EnvFlows ==
  ASSUME ChainTypeOK, EnvStep
  PROVE  Rests \/ Given \/ Paid \/ Derives
<1>1. CASE Relay
  <2> DEFINE e == mined["L1"][relayed + 1]
             credit == IF e.outcome = "logged" THEN e.tx.amount ELSE 0
  <2>1. relayed < Len(mined["L1"]) /\ bal' = bal + credit /\ minted' = minted + credit
    BY <1>1, Zenon DEF Relay
  <2>2. credit \in Nat
    <3>1. e \in Entry
      BY <1>1, ElementOfSeq, LenProperties DEF Relay, ChainTypeOK, Chains
    <3> QED
      BY <3>1 DEF Entry, Tx
  <2>3. relayed' = relayed + 1 /\ UNCHANGED <<mined, gifts, spent>>
    BY <1>1 DEF Relay
  <2>4. Credits(e, credit)
    BY <2>1, <2>3 DEF Credits
  <2> HIDE DEF credit
  <2> QED
    BY <2>1, <2>2, <2>4 DEF Derives
<1>2. CASE Gift
  BY <1>2 DEF Gift, Given
<1>3. CASE Spend
  BY <1>3 DEF Spend, Paid
<1>4. CASE UNCHANGED <<bal, minted, relayed, gifts, spent>>
  BY <1>4 DEF Rests
<1> QED
  BY <1>1, <1>2, <1>3, <1>4 DEF EnvStep, Mine, Evict, Reorg

\* The numbers of the accounts.
LEMMA Accounts ==
  ASSUME TypeOK
  PROVE  /\ bal \in Nat /\ minted \in Nat /\ relayed \in Nat /\ gifts \in Nat /\ spent \in Nat
         /\ InitialBalance \in Nat /\ relayed <= Len(mined["L1"]) /\ Len(mined["L1"]) \in Nat
         /\ \A o \in Ops : /\ before[o] \in Nat /\ tx[o].nonce \in Nat /\ tx[o].fee \in Nat
                           /\ Amount[o] \in Nat /\ res[o].credited \in Nat
<1>1. mined["L1"] \in Seq(Entry)
  BY DEF TypeOK, ChainTypeOK, Chains
<1>2. Len(mined["L1"]) \in Nat
  BY <1>1, LenProperties
<1>3. \A o \in Ops : tx[o] \in Tx /\ res[o] \in Result
  BY DEF TypeOK
<1> QED
  BY <1>2, <1>3, BalanceAssumption, BoundsAssumption, OpsAssumption
     DEF TypeOK, ChainTypeOK, Tx, Result

\* The deposit that L2 derives next is the solitary one, and not yet credited.
LEMMA SoloIsNext ==
  ASSUME NonceInv, OriginInv, NEW o \in Ops, Solo(o),
         relayed < Len(mined["L1"]), mined["L1"][relayed + 1].outcome = "logged"
  PROVE  /\ Signed(o) /\ tx[o].nonce = relayed
         /\ mined["L1"][relayed + 1].tx.amount = Amount[o]
<1> DEFINE i == relayed + 1
<1>1. i \in 1 .. Len(mined["L1"]) /\ ChainTypeOK /\ relayed \in Nat
  BY Accounts DEF NonceInv, TypeOK
<1>2. PICK p \in Ops : /\ Kind[p] = "deposit" /\ Signed(p) /\ tx[p] = mined["L1"][i].tx
                       /\ tx[p].amount = Amount[p]
  BY <1>1, LoggedIsDeposit
<1>3. p = o
  BY <1>2 DEF Solo, Signed
<1>4. mined["L1"][i].tx.nonce = i - 1
  BY <1>1 DEF NonceInv, InOrder, Chains
<1> QED
  BY <1>1, <1>2, <1>3, <1>4

\* What is credited is something.
LEMMA CreditIsSomething ==
  ASSUME NonceInv, OriginInv,
         relayed < Len(mined["L1"]), mined["L1"][relayed + 1].outcome = "logged"
  PROVE  mined["L1"][relayed + 1].tx.amount > 0
<1>1. relayed + 1 \in 1 .. Len(mined["L1"]) /\ ChainTypeOK
  BY Accounts DEF NonceInv, TypeOK
<1> QED
  BY <1>1, LoggedIsDeposit

LEMMA EnvKeepsArrival ==
  ASSUME NonceInv, OriginInv, ArrivalInv, EnvStep
  PROVE  ArrivalInv'
<1>0. TypeOK /\ ChainTypeOK
  BY DEF NonceInv, TypeOK
<1>1. /\ bal \in Nat /\ minted \in Nat /\ relayed \in Nat /\ gifts \in Nat /\ spent \in Nat
      /\ InitialBalance \in Nat /\ relayed <= Len(mined["L1"]) /\ Len(mined["L1"]) \in Nat
  BY <1>0, Accounts
<1>2. BalanceInv'
  BY <1>0, <1>1, EnvFlows DEF ArrivalInv, BalanceInv, Rests, Given, Paid, Derives, Credits
<1>3. ASSUME NEW o \in Ops, Kind[o] = "deposit" PROVE SoloInv(o)'
  <2>0. /\ SoloInv(o) /\ tx'[o] = tx[o] /\ pc'[o] = pc[o] /\ before'[o] = before[o]
        /\ res'[o] = res[o] /\ (Ok(o)' <=> Ok(o)) /\ (Signed(o)' <=> Signed(o))
        /\ before[o] \in Nat /\ tx[o].nonce \in Nat /\ Amount[o] \in Nat
        /\ res[o].credited \in Nat
    BY <1>0, <1>3, Accounts DEF ArrivalInv, EnvStep, opVars, Ok, Ended, Signed
  <2>1. CASE Rests
    BY <1>3, <2>0, <2>1 DEF SoloInv, Solo, Rests, EnvStep, opVars
  <2>2. CASE Given
    BY <1>1, <2>2 DEF SoloInv, Solo, Given
  <2>3. CASE Paid
    <3>1. Solo(o)' => Solo(o)
      BY <2>3 DEF Solo, Paid, EnvStep, opVars
    <3>2. /\ before[o] \in InitialBalance - spent .. InitialBalance =>
               before[o] \in InitialBalance - (spent + 1) .. InitialBalance
          /\ res[o].credited \in Amount[o] - spent .. Amount[o] =>
               res[o].credited \in Amount[o] - (spent + 1) .. Amount[o]
      BY <1>1, <2>0
    <3> QED
      BY <2>0, <2>3, <3>1, <3>2 DEF SoloInv, Paid
  <2>4. CASE Derives
    <3> DEFINE e == mined["L1"][relayed + 1]
    <3>1. PICK credit \in Nat : Credits(e, credit)
      BY <2>4 DEF Derives
    <3>2. Solo(o)' => Solo(o)
      BY <3>1 DEF Solo, Credits, EnvStep, opVars
    <3>3. ASSUME Solo(o)
          PROVE  /\ minted' # 0 =>
                      minted' = Amount[o] /\ Signed(o) /\ relayed' > tx[o].nonce
                 /\ minted # 0 => minted' # 0
      <4>1. minted # 0 => minted = Amount[o] /\ Signed(o) /\ relayed > tx[o].nonce
        BY <2>0, <3>3 DEF SoloInv
      <4>2. CASE e.outcome = "logged"
        <5>1. Signed(o) /\ tx[o].nonce = relayed /\ credit = Amount[o]
          BY <2>4, <3>1, <3>3, <4>2, SoloIsNext DEF Derives, Credits
        <5>2. minted = 0
          BY <1>1, <4>1, <5>1
        <5> QED
          BY <1>1, <2>0, <3>1, <5>1, <5>2 DEF Credits
      <4>3. CASE e.outcome # "logged"
        BY <1>1, <2>0, <3>1, <4>1, <4>3 DEF Credits
      <4> QED
        BY <4>2, <4>3
    <3> QED
      BY <2>0, <3>1, <3>2, <3>3 DEF SoloInv, Credits
  <2> QED
    BY <1>0, <2>1, <2>2, <2>3, <2>4, EnvFlows
<1>4. ASSUME NEW o \in Ops, Kind[o] = "deposit" PROVE RiseInv(o)'
  <2>0. /\ RiseInv(o) /\ tx'[o] = tx[o] /\ pc'[o] = pc[o] /\ before'[o] = before[o]
        /\ before[o] \in Nat /\ tx[o].nonce \in Nat
    BY <1>0, <1>4, Accounts DEF ArrivalInv, EnvStep, opVars
  <2>1. relayed > tx[o].nonce => mined'["L1"][tx[o].nonce + 1] = mined["L1"][tx[o].nonce + 1]
    <3>1. relayed > tx[o].nonce => tx[o].nonce + 1 \in 1 .. relayed
      BY <1>1, <2>0
    <3> QED
      BY <1>0, <3>1, BlocksStay DEF Chains
  <2>2. CASE Rests
    BY <2>0, <2>1, <2>2 DEF RiseInv, Rests
  <2>3. CASE Given
    BY <1>1, <2>0, <2>1, <2>3 DEF RiseInv, Given
  <2>4. CASE Paid
    BY <1>1, <2>4 DEF RiseInv, Paid
  <2>5. CASE Derives
    <3> DEFINE e == mined["L1"][relayed + 1]
    <3>1. PICK credit \in Nat : Credits(e, credit)
      BY <2>5 DEF Derives
    <3>2. e.outcome = "logged" => credit > 0
      BY <2>5, <3>1, CreditIsSomething DEF Derives, Credits
    <3>3. /\ bal' = bal + credit /\ relayed' = relayed + 1 /\ spent' = spent
          /\ mined' = mined
      BY <3>1 DEF Credits
    <3>4. relayed' > tx[o].nonce => relayed > tx[o].nonce \/ tx[o].nonce = relayed
      BY <1>1, <2>0, <3>3
    <3> QED
      BY <1>1, <2>0, <3>2, <3>3, <3>4 DEF RiseInv
  <2> QED
    BY <1>0, <2>2, <2>3, <2>4, <2>5, EnvFlows
<1> QED
  BY <1>2, <1>3, <1>4 DEF ArrivalInv

\* A run's step concerns the arrival of its own deposit only.
LEMMA SoloWas ==
  ASSUME PromiseInv, NEW o \in Ops, OpStep(o) \/ DeadlinePasses(o) \/ Crash(o),
         NEW p \in Ops, Solo(p)'
  PROVE  Solo(p)
<1>1. TypeOK /\ gifts' = gifts
  BY StepPaysNothing DEF PromiseInv, OutcomeInv
<1>2. ASSUME NEW q \in Ops, tx'[q].fee = 0 PROVE tx[q].fee = 0
  <2>1. tx[q].fee \in Nat
    BY <1>1, Accounts
  <2> QED
    BY <1>2, <2>1, SignedStays DEF Signed
<1> QED
  BY <1>1, <1>2 DEF Solo

LEMMA OthersKeepArrival ==
  ASSUME PromiseInv, ArrivalInv, NEW o \in Ops, OpStep(o) \/ DeadlinePasses(o) \/ Crash(o),
         NEW p \in Ops \ {o}, Kind[p] = "deposit"
  PROVE  SoloInv(p)' /\ RiseInv(p)'
<1>1. TypeOK /\ SoloInv(p) /\ RiseInv(p)
  BY DEF PromiseInv, OutcomeInv, ArrivalInv
<1>2. /\ pc'[p] = pc[p] /\ err'[p] = err[p] /\ tx'[p] = tx[p] /\ res'[p] = res[p]
      /\ UNCHANGED <<mined, bal, minted, gifts, spent, relayed>> /\ before'[p] = before[p]
  BY <1>1, StepIsLocal, StepPaysNothing
<1> QED
  BY <1>1, <1>2, SoloWas DEF SoloInv, RiseInv, Ok, Ended, Signed

LEMMA SelfKeepsSolo ==
  ASSUME NonceInv, PromiseInv, PaymentInv, ArrivalInv, NEW o \in Ops, Kind[o] = "deposit",
         OpStep(o) \/ DeadlinePasses(o) \/ Crash(o)
  PROVE  SoloInv(o)'
<1> SUFFICES ASSUME Solo(o)
             PROVE  /\ minted' # 0 =>
                         minted' = Amount[o] /\ Signed(o)' /\ relayed' > tx'[o].nonce
                    /\ pc'[o] \in Counting =>
                         before'[o] \in InitialBalance - spent' .. InitialBalance
                    /\ Ok(o)' =>
                         minted' # 0 /\ res'[o].credited \in Amount[o] - spent' .. Amount[o]
  BY SoloWas DEF SoloInv
<1>0. /\ TypeOK /\ UNCHANGED <<mined, bal, minted, gifts, spent, relayed>>
      /\ pc[o] # "before" => before'[o] = before[o]
      /\ pc[o] \notin RecordStages /\ gifts = 0
      /\ bal = InitialBalance + minted - spent
      /\ bal \in Nat /\ minted \in Nat /\ spent \in Nat /\ InitialBalance \in Nat
      /\ before[o] \in Nat /\ Amount[o] \in Nat
  <2>1. TypeOK
    BY DEF NonceInv
  <2>2. gifts = 0 /\ pc[o] \notin RecordStages /\ bal = InitialBalance + minted + gifts - spent
    BY DEF PaymentInv, CreditInv, ArrivalInv, BalanceInv, Solo
  <2>3. InitialBalance \in Nat /\ minted \in Nat /\ spent \in Nat
    BY <2>1, Accounts
  <2>4. bal = InitialBalance + minted - spent
    BY <2>2, <2>3
  <2> QED
    BY <2>1, <2>2, <2>4, Accounts, StepIsLocal, StepPaysNothing
<1>1. /\ minted # 0 => minted = Amount[o] /\ Signed(o) /\ relayed > tx[o].nonce
      /\ pc[o] \in Counting => before[o] \in InitialBalance - spent .. InitialBalance
  BY DEF ArrivalInv, SoloInv
<1>2. minted' # 0 => minted' = Amount[o] /\ Signed(o)' /\ relayed' > tx'[o].nonce
  BY <1>0, <1>1, SignedStays DEF Signed
<1> USE DEF Counting, ReceiptStages, CreditStages, RecordStages, Ok, Ended
<1>3. CASE ReadsBalance(o)
  <2>1. pc[o] = "before" /\ pc'[o] = "nonce" /\ before'[o] = bal
    BY <1>3 DEF ReadsBalance
  <2>2. ~Signed(o)
    BY <2>1 DEF PromiseInv, Unsigned, PreSendStages, Signed
  <2>3. bal \in InitialBalance - spent .. InitialBalance
    BY <1>0, <1>1, <2>2
  <2> QED
    BY <1>0, <1>2, <2>1, <2>3
<1>4. CASE GoesOn(o)
  BY <1>0, <1>1, <1>2, <1>4 DEF GoesOn
<1>5. CASE GivesUp(o)
  BY <1>2, <1>5 DEF GivesUp
<1>6. CASE SeesCredit(o)
  <2>1. /\ pc[o] = "credit" /\ pc'[o] = "done" /\ bal > before[o]
        /\ res'[o].credited = bal - before[o]
    BY <1>6 DEF SeesCredit
  <2>2. minted # 0
    BY <1>0, <1>1, <2>1
  <2>3. bal - before[o] \in Amount[o] - spent .. Amount[o]
    BY <1>0, <1>1, <2>1, <2>2
  <2> QED
    BY <1>0, <1>2, <2>1, <2>2, <2>3
<1> QED
  BY <1>0, <1>3, <1>4, <1>5, <1>6, CreditKinds

\* The nonce a run is given is past every block, so past what L2 has derived.
LEMMA SelfKeepsRise ==
  ASSUME NonceInv, PaymentInv, ArrivalInv, NEW o \in Ops, Kind[o] = "deposit",
         OpStep(o) \/ DeadlinePasses(o) \/ Crash(o)
  PROVE  RiseInv(o)'
<1>0. /\ TypeOK /\ UNCHANGED <<mined, bal, spent, relayed>> /\ RiseInv(o)
      /\ pc[o] # "before" => before'[o] = before[o]
      /\ pc[o] \notin RecordStages /\ tx \in [Ops -> Tx]
      /\ bal \in Nat /\ relayed \in Nat /\ Len(mined["L1"]) \in Nat
      /\ relayed <= Len(mined["L1"]) /\ spent' = spent
  BY Accounts, StepIsLocal, StepPaysNothing
     DEF NonceInv, PaymentInv, CreditInv, ArrivalInv, TypeOK
<1> USE DEF Counting, ReceiptStages, CreditStages, RecordStages
<1>1. CASE ReadsBalance(o)
  BY <1>0, <1>1 DEF ReadsBalance, RiseInv
<1>2. CASE GoesOn(o) /\ pc[o] # "nonce"
  <2>1. tx'[o].nonce = tx[o].nonce
    BY <1>0, <1>2, StepKinds DEF Quiet, Reads, Signs, HandsOver, Tx
  <2> QED
    BY <1>0, <1>2, <2>1 DEF GoesOn, RiseInv
<1>3. CASE GoesOn(o) /\ pc[o] = "nonce"
  <2>1. Reads(o)
    BY <1>0, <1>3, StepKinds DEF GoesOn, Quiet, Signs, HandsOver
  <2>2. PICK n \in PendingNonces("L1") : tx'[o].nonce = n
    BY <1>0, <2>1 DEF Reads, Chain
  <2>3. ~(relayed > n)
    <3>1. n \in Len(mined["L1"]) .. Len(mined["L1"]) + Cardinality(pool["L1"])
      BY DEF PendingNonces
    <3> QED
      BY <1>0, <3>1
  <2> QED
    BY <1>0, <1>3, <2>2, <2>3 DEF GoesOn, RiseInv
<1>4. CASE GivesUp(o) \/ SeesCredit(o)
  <2>1. pc'[o] \notin Counting
    BY <1>4 DEF GivesUp, SeesCredit
  <2> QED
    BY <2>1 DEF RiseInv
<1> QED
  BY <1>0, <1>1, <1>2, <1>3, <1>4, CreditKinds

LEMMA ArrivalInvariant == Spec => []ArrivalInv
<1>1. /\ NonceInv /\ PromiseInv /\ PaymentInv /\ OriginInv /\ ArrivalInv /\ [Next]_vars
      => ArrivalInv'
  <2> SUFFICES ASSUME NonceInv, PromiseInv, PaymentInv, OriginInv, ArrivalInv, [Next]_vars
               PROVE  ArrivalInv'
    OBVIOUS
  <2>1. ASSUME NEW o \in Ops, OpStep(o) \/ DeadlinePasses(o) \/ Crash(o)
        PROVE  ArrivalInv'
    <3>1. BalanceInv'
      BY <2>1, StepPaysNothing DEF ArrivalInv, BalanceInv, PaymentInv
    <3>2. \A p \in Ops : Kind[p] = "deposit" => SoloInv(p)' /\ RiseInv(p)'
      BY <2>1, OthersKeepArrival, SelfKeepsSolo, SelfKeepsRise
    <3> QED
      BY <3>1, <3>2 DEF ArrivalInv
  <2>2. CASE EnvStep
    BY <2>2, EnvKeepsArrival
  <2>3. CASE UNCHANGED vars
    BY <2>3 DEF ArrivalInv, BalanceInv, SoloInv, RiseInv, Solo, Signed, Ok, Ended,
       vars, chainVars, opVars
  <2> QED
    BY <2>1, <2>2, <2>3 DEF Next, Finished
<1> QED
  BY <1>1, InitArrival, NonceInvariant, PromiseInvariant, PaymentInvariant, OriginInvariant,
     PTL DEF Spec

\* waitForCredit: a deposit that is the only payment to the destination confirms
\* its own arrival, and what it reports is the amount, less at most what the
\* destination paid out, whatever the other runs do and whatever is undone.
THEOREM SoloIsExact == Spec => []SoloCreditExact
<1>1. ArrivalInv => SoloCreditExact
  <2> SUFFICES ASSUME ArrivalInv, NEW o \in Ops, Kind[o] = "deposit", Ok(o), Solo(o)
               PROVE  relayed > tx[o].nonce /\ res[o].credited \in Amount[o] - spent .. Amount[o]
    BY DEF SoloCreditExact, Solo
  <2> QED
    BY DEF ArrivalInv, SoloInv
<1> QED
  BY <1>1, ArrivalInvariant, PTL

\* bridge.go:440-444: a reading that does not end the wait was taken before the
\* deposit was credited, as long as nothing is paid out and no block undone.
THEOREM CreditIsNoticed == Spec => NoCreditOverlooked
<1>1. PromiseInv /\ DiskInv /\ ArrivalInv /\ [Next]_vars =>
        [spent = 0 /\ reorgs = 0 =>
           \A o \in Ops : pc[o] = "credit" /\ pc'[o] = "creditCheck" =>
             relayed <= tx[o].nonce]_vars
  <2> SUFFICES ASSUME PromiseInv, DiskInv, ArrivalInv, Next, spent = 0, reorgs = 0, NEW o \in Ops,
                      pc[o] = "credit", pc'[o] = "creditCheck"
               PROVE  relayed <= tx[o].nonce
    OBVIOUS
  <2>0. TypeOK /\ RunInv(o) /\ Kind[o] = "deposit"
    BY DEF PromiseInv, OutcomeInv, DiskInv, RecordInv, CreditStages
  <2>1. OpStep(o) \/ DeadlinePasses(o) \/ Crash(o)
    BY <2>0, StepIsLocal DEF Next, EnvStep, opVars, Finished, vars
  <2>2. CreditPending(o)
    <3>1. pc \in [Ops -> Stages]
      BY <2>0 DEF TypeOK
    <3> USE DEF Fail, Return
    <3>2. ~(CreditSeen(o) \/ CreditUnreadable(o) \/ Crash(o) \/ DeadlinePasses(o))
      BY <3>1 DEF CreditSeen, CreditUnreadable, Crash, DeadlinePasses
    <3> QED
      BY <2>1, <3>2 DEF OpStep, Start, VerifySrc, VerifyDst, ReadBefore, ReadNonce,
         PrepareFees, Broadcast, ReceiptFound, ReceiptPending, ReceiptUnreadable,
         ReceiptCheck, CreditCheck, OpenRecord, WriteRecord
  <2>3. bal \in Nat /\ before[o] \in Nat /\ relayed \in Nat /\ tx[o].nonce \in Nat
    BY <2>0, Accounts
  <2>4. ~(bal > before[o])
    BY <2>2 DEF CreditPending, Rose
  <2>5. mined["L1"][tx[o].nonce + 1].outcome = "logged"
    BY <2>0 DEF RunInv, PastReceipt, Landed, HasEvent, Receipt, Chain, CreditStages
  <2>6. relayed > tx[o].nonce => bal > before[o]
    BY <2>0, <2>5 DEF ArrivalInv, RiseInv, Counting, CreditStages
  <2> QED
    BY <2>3, <2>4, <2>6
<1> QED
  BY <1>1, PromiseInvariant, DiskInvariant, ArrivalInvariant, PTL DEF Spec, NoCreditOverlooked
=============================================================================
