---------------------------- MODULE NonceProofs ----------------------------
(***************************************************************************)
(* How runs that share a key share its nonces, for any number of runs.     *)
(*                                                                         *)
(* The argument is about the transactions a chain knows, pending or mined. *)
(* Neither mining nor undoing a block changes that set; only an accepted   *)
(* broadcast does, and an eviction, after which nothing is claimed.  The   *)
(* records on disk are safe from other runs for the same reason.           *)
(***************************************************************************)
EXTENDS BridgeProofs

Blocks(c) == {mined[c][i].tx : i \in 1 .. Len(mined[c])}
Known(c) == pool[c] \cup Blocks(c)
KnownNonces(c) == {u.nonce : u \in Known(c)}

\* Blocks hold the nonces in order; what is pending comes after, one
\* transaction to a nonce.
InOrder(c) ==
  /\ \A i \in 1 .. Len(mined[c]) : mined[c][i].tx.nonce = i - 1
  /\ \A t \in pool[c] : t.nonce >= Len(mined[c])
  /\ \A t, u \in pool[c] : t.nonce = u.nonce => t = u

NoHole(c) == \A u \in Known(c) : 0 .. u.nonce \subseteq KnownNonces(c)

\* A run that reads its nonce has every nonce below it known.
NothingBelow(o) ==
  pc[o] \in {"fees", "send"} => 0 .. tx[o].nonce - 1 \subseteq KnownNonces(Chain(o))

\* An accepted transaction gives way only to one that pays more.
Outlasts(o) ==
  Acked(o) => \E u \in Known(Chain(o)) : u.nonce = tx[o].nonce /\ u.fee >= tx[o].fee

Distinct ==
  \A o, p \in Ops :
    o # p /\ Chain(o) = Chain(p) /\ Acked(o) /\ Acked(p) => tx[o] # tx[p]

NonceInv ==
  /\ TypeOK
  /\ \A c \in Chains : InOrder(c)
  /\ evictions = 0 =>
       /\ \A c \in Chains : NoHole(c)
       /\ \A o \in Ops : NothingBelow(o) /\ Outlasts(o)
       /\ Distinct

-----------------------------------------------------------------------------
LEMMA InitNonce == Init => NonceInv
<1> SUFFICES ASSUME Init PROVE NonceInv
  OBVIOUS
<1>1. \A c \in Chains : pool[c] = {} /\ mined[c] = <<>> /\ Len(mined[c]) = 0
  BY EmptySeq DEF Init, ChainInit
<1>2. \A c \in Chains : InOrder(c) /\ NoHole(c)
  BY <1>1 DEF InOrder, NoHole, Known, Blocks
<1>3. \A o \in Ops : NothingBelow(o) /\ Outlasts(o) /\ ~Acked(o)
  BY DEF Init, NothingBelow, Outlasts, Acked, ReceiptStages, CreditStages, RecordStages
<1>4. QED
  BY <1>2, <1>3, InitType DEF NonceInv, Distinct

\* Mining moves the transaction from the pool to the next block.
LEMMA MineKeepsKnown ==
  ASSUME ChainTypeOK, \A c \in Chains : InOrder(c), NEW c \in Chains, Mine(c),
         NEW d \in Chains
  PROVE  InOrder(d)' /\ Known(d)' = Known(d)
<1>1. PICK t \in pool[c], out \in Outcomes :
        /\ t.nonce = Len(mined[c])
        /\ pool' = [pool EXCEPT ![c] = @ \ {t}]
        /\ mined' = [mined EXCEPT ![c] =
                       Append(@, [tx |-> t, outcome |-> out, fork |-> reorgs])]
  BY DEF Mine
<1> DEFINE e == [tx |-> t, outcome |-> out, fork |-> reorgs]
<1>2. /\ mined[c] \in Seq(Entry) /\ Len(mined[c]) \in Nat
      /\ mined \in [Chains -> Seq(Entry)] /\ pool \in [Chains -> SUBSET Tx]
      /\ t \in Tx /\ e \in Entry /\ reorgs \in Nat
  <2>1. mined[c] \in Seq(Entry) /\ t \in Tx /\ reorgs \in Nat
    BY DEF ChainTypeOK
  <2>2. QED
    BY <2>1, LenProperties DEF ChainTypeOK, Entry
<1>3. CASE d # c
  <2>1. pool'[d] = pool[d] /\ mined'[d] = mined[d]
    BY <1>1, <1>2, <1>3
  <2>2. QED
    BY <2>1 DEF InOrder, Known, Blocks
<1>4. CASE d = c
  <2> DEFINE m == Len(mined[c])
  <2>1. pool'[c] = pool[c] \ {t} /\ mined'[c] = Append(mined[c], e)
    BY <1>1, <1>2
  <2>2. /\ Len(mined'[c]) = m + 1
        /\ \A i \in 1 .. m : mined'[c][i] = mined[c][i]
        /\ mined'[c][m + 1] = e
    BY <1>2, <2>1, AppendProperties
  <2>3. 1 .. m + 1 = (1 .. m) \cup {m + 1}
    BY <1>2
  <2>4. Blocks(c)' = Blocks(c) \cup {t}
    BY <2>2, <2>3 DEF Blocks
  <2>5. Known(c)' = Known(c)
    BY <2>1, <2>4 DEF Known
  <2>6. \A i \in 1 .. Len(mined'[c]) : mined'[c][i].tx.nonce = i - 1
    BY <1>1, <1>2, <2>2, <2>3 DEF InOrder
  <2>7. ASSUME NEW u \in pool'[c] PROVE u.nonce >= Len(mined'[c])
    <3>1. u \in pool[c] /\ u # t /\ u \in Tx /\ u.nonce >= m
      BY <1>2, <2>1, <2>7 DEF InOrder
    <3>2. u.nonce # m
      BY <1>1, <3>1 DEF InOrder
    <3>3. QED
      BY <1>2, <2>2, <3>1, <3>2 DEF Tx
  <2>8. \A u, v \in pool'[c] : u.nonce = v.nonce => u = v
    BY <2>1 DEF InOrder
  <2>9. QED
    BY <1>4, <2>5, <2>6, <2>7, <2>8 DEF InOrder
<1>5. QED
  BY <1>3, <1>4

\* Undoing a block moves its transaction back.
LEMMA ReorgKeepsKnown ==
  ASSUME ChainTypeOK, \A c \in Chains : InOrder(c), NEW c \in Chains, Reorg(c),
         NEW d \in Chains
  PROVE  InOrder(d)' /\ Known(d)' = Known(d)
<1> DEFINE m == Len(mined[c])
           t == mined[c][m].tx
<1>1. /\ mined[c] \in Seq(Entry) /\ m \in Nat /\ m > 0
      /\ mined \in [Chains -> Seq(Entry)] /\ pool \in [Chains -> SUBSET Tx]
  <2>1. mined[c] \in Seq(Entry) /\ mined[c] # <<>>
    BY DEF ChainTypeOK, Reorg
  <2>2. QED
    BY <2>1, EmptySeq, LenProperties DEF ChainTypeOK
<1>2. /\ mined'[c] = SubSeq(mined[c], 1, m - 1)
      /\ pool'[c] = pool[c] \cup {t}
      /\ d # c => mined'[d] = mined[d] /\ pool'[d] = pool[d]
  BY <1>1 DEF Reorg
<1>3. CASE d # c
  <2>1. mined'[d] = mined[d] /\ pool'[d] = pool[d] /\ InOrder(d)
    BY <1>2, <1>3
  <2>2. QED
    BY <2>1 DEF InOrder, Known, Blocks
<1>4. CASE d = c
  <2>1. /\ Len(mined'[c]) = m - 1
        /\ \A i \in 1 .. m - 1 : mined'[c][i] = mined[c][i]
    <3> DEFINE s == mined[c]
    <3>1. \A i \in 1 .. m - 1 : s[i] \in Entry
      BY <1>1, ElementOfSeq
    <3>2. m \in Nat /\ m > 0
      BY <1>1
    <3>3. mined'[c] = SubSeq(s, 1, m - 1)
      BY <1>2
    <3> HIDE DEF s, m
    <3>4. /\ Len(SubSeq(s, 1, m - 1)) = IF 1 <= m - 1 THEN (m - 1) - 1 + 1 ELSE 0
          /\ \A i \in 1 .. (m - 1) - 1 + 1 : SubSeq(s, 1, m - 1)[i] = s[1 + i - 1]
      BY <3>1, <3>2, SubSeqProperties
    <3>5. QED
      BY <3>2, <3>3, <3>4 DEF s
  <2>2. 1 .. m = (1 .. m - 1) \cup {m}
    BY <1>1
  <2>3. Blocks(c) = Blocks(c)' \cup {t}
    <3>1. Blocks(c)' = {mined[c][i].tx : i \in 1 .. m - 1}
      BY <2>1, Zenon DEF Blocks
    <3>2. Blocks(c) = {mined[c][i].tx : i \in (1 .. m - 1) \cup {m}}
      BY <2>2 DEF Blocks
    <3>3. QED
      BY <3>1, <3>2, Zenon
  <2>4. Known(c)' = Known(c)
    BY <1>2, <2>3 DEF Known
  <2>5. t.nonce = m - 1
    BY <2>2 DEF InOrder
  <2>6. \A i \in 1 .. Len(mined'[c]) : mined'[c][i].tx.nonce = i - 1
    BY <2>1, <2>2 DEF InOrder
  <2>7. \A u \in pool[c] : u.nonce \in Nat /\ u.nonce >= m
    BY <1>1 DEF InOrder, Tx
  <2>8. \A u \in pool'[c] : u.nonce >= Len(mined'[c])
    BY <1>1, <1>2, <2>1, <2>5, <2>7
  <2>9. \A u, v \in pool'[c] : u.nonce = v.nonce => u = v
    BY <1>1, <1>2, <2>5, <2>7 DEF InOrder
  <2>10. QED
    BY <1>4, <2>4, <2>6, <2>8, <2>9 DEF InOrder
<1>5. QED
  BY <1>3, <1>4

\* The chains' own steps: the same transactions are known, or one was evicted.
LEMMA EnvKeepsNonces ==
  ASSUME NonceInv, EnvStep
  PROVE  NonceInv'
<1>1. TypeOK' /\ ChainTypeOK
  BY NextType DEF Next, NonceInv, TypeOK
<1>2. UNCHANGED <<pc, err, tx>>
  BY DEF EnvStep, opVars
<1>3. CASE \E c \in Chains : Evict(c)
  <2>1. evictions' # 0 /\ mined' = mined /\ \A c \in Chains : pool'[c] \subseteq pool[c]
    BY <1>1, <1>3 DEF Evict, ChainTypeOK
  <2>2. \A c \in Chains : InOrder(c)'
    BY <2>1 DEF InOrder, NonceInv
  <2>3. QED
    BY <1>1, <2>1, <2>2 DEF NonceInv
<1>4. CASE ~\E c \in Chains : Evict(c)
  <2>1. /\ evictions' = evictions
        /\ \A d \in Chains : InOrder(d)' /\ Known(d)' = Known(d)
    <3>1. CASE \E c \in Chains : Mine(c)
      BY <1>1, <3>1, MineKeepsKnown DEF NonceInv, Mine
    <3>2. CASE \E c \in Chains : Reorg(c)
      BY <1>1, <3>2, ReorgKeepsKnown DEF NonceInv, Reorg
    <3>3. CASE Relay \/ Gift \/ Spend
      BY <3>3 DEF Relay, Gift, Spend, NonceInv, InOrder, Known, Blocks
    <3>4. QED
      BY <1>4, <3>1, <3>2, <3>3 DEF EnvStep
  <2>2. \A d \in Chains : KnownNonces(d)' = KnownNonces(d)
    BY <2>1 DEF KnownNonces
  <2>3. evictions = 0 => \A c \in Chains : NoHole(c)'
    BY <2>1, <2>2 DEF NonceInv, NoHole
  <2>4. \A o \in Ops : Chain(o) \in Chains /\ (Acked(o)' <=> Acked(o))
    BY <1>2 DEF Chain, Chains, Acked
  <2>5. evictions = 0 => \A o \in Ops : NothingBelow(o)' /\ Outlasts(o)'
    BY <1>2, <2>1, <2>2, <2>4 DEF NonceInv, NothingBelow, Outlasts
  <2>6. evictions = 0 => Distinct'
    BY <1>2, <2>4 DEF NonceInv, Distinct
  <2>7. QED
    BY <1>1, <2>1, <2>3, <2>5, <2>6 DEF NonceInv
<1>5. QED
  BY <1>3, <1>4

-----------------------------------------------------------------------------
\* A step of run o that neither builds, signs nor hands over its transaction.
Quiet(o) ==
  /\ UNCHANGED <<pool, evictions, tx>>
  /\ pc'[o] \notin {"fees", "send"}
  /\ Acked(o)' => Acked(o)

\* The three steps of run o that matter here.
Reads(o) ==
  /\ pc[o] = "nonce"
  /\ \E n \in PendingNonces(Chain(o)) :
       tx' = [tx EXCEPT ![o] = [nonce |-> n, kind |-> Kind[o],
                                amount |-> Amount[o], fee |-> 0]]
  /\ UNCHANGED <<pool, evictions>>
  /\ ~Acked(o)'

Signs(o) ==
  /\ pc[o] = "fees"
  /\ \E f \in Fees : tx' = [tx EXCEPT ![o].fee = f]
  /\ UNCHANGED <<pool, evictions>>
  /\ ~Acked(o)'

HandsOver(o) ==
  /\ pc[o] = "send"
  /\ pc'[o] \notin {"fees", "send"}
  /\ Acceptable(Chain(o), tx[o])
  /\ Accept(Chain(o), tx[o])
  /\ UNCHANGED <<evictions, tx>>

LEMMA StepKinds ==
  ASSUME TypeOK, NEW o \in Ops, OpStep(o) \/ DeadlinePasses(o) \/ Crash(o)
  PROVE  Quiet(o) \/ Reads(o) \/ Signs(o) \/ HandsOver(o)
<1>0. /\ pc \in [Ops -> Stages] /\ err \in [Ops -> Errors]
  BY DEF TypeOK
<1> USE DEF ReceiptStages, CreditStages, RecordStages
<1>a. ASSUME NEW e \in Refusals \cup {"broadcast"}, Fail(o, e) PROVE Quiet(o)
  BY <1>0, <1>a DEF Fail, Return, chainVars, Quiet, Acked, Refusals, LateErrors
<1>b. ASSUME NEW e, Fail(o, e), Acked(o) PROVE Quiet(o)
  BY <1>0, <1>b DEF Fail, Return, chainVars, Quiet
<1>c. ASSUME NEW s \in PreSendStages \ {"fees", "send"}, Pass(o, s) PROVE Quiet(o)
  BY <1>0, <1>c DEF Pass, Go, chainVars, Quiet, Acked, PreSendStages
<1>d. ASSUME NEW s, s \notin {"fees", "send"}, Pass(o, s), Acked(o) PROVE Quiet(o)
  BY <1>0, <1>d DEF Pass, Go, chainVars, Quiet
<1>1. CASE Start(o) \/ VerifySrc(o) \/ VerifyDst(o)
  <2>1. \/ \E e \in Refusals : Fail(o, e)
        \/ \E s \in PreSendStages \ {"fees", "send"} : Pass(o, s)
    BY <1>1 DEF Start, VerifySrc, VerifyDst, AfterSrc, Refusals, PreSendStages
  <2>2. QED
    BY <2>1, <1>a, <1>c
<1>2. CASE ReadBefore(o)
  <2>1. CASE Fail(o, "read balance before")
    BY <2>1, <1>a DEF Refusals
  <2>2. CASE ~Fail(o, "read balance before")
    BY <1>0, <1>2, <2>2 DEF ReadBefore, Go, chainVars, Quiet, Acked
  <2>3. QED
    BY <2>1, <2>2
<1>3. CASE ReadNonce(o)
  <2>1. CASE Fail(o, "prepare transaction")
    BY <2>1, <1>a DEF Refusals
  <2>2. CASE ~Fail(o, "prepare transaction")
    BY <1>0, <1>3, <2>2 DEF ReadNonce, Nonces, Go, chainVars, Reads, Acked
  <2>3. QED
    BY <2>1, <2>2
<1>4. CASE PrepareFees(o)
  <2>1. CASE Fail(o, "prepare transaction")
    BY <2>1, <1>a DEF Refusals
  <2>2. CASE ~Fail(o, "prepare transaction")
    BY <1>0, <1>4, <2>2 DEF PrepareFees, Go, chainVars, Signs, Acked
  <2>3. QED
    BY <2>1, <2>2
<1>5. CASE Broadcast(o)
  <2>1. CASE Fail(o, "broadcast")
    BY <2>1, <1>a
  <2>2. CASE ~Fail(o, "broadcast")
    BY <1>0, <1>5, <2>2 DEF Broadcast, Taken, Await, Go, Return, HandsOver
  <2>3. QED
    BY <2>1, <2>2
<1>6. CASE \/ ReceiptPending(o) \/ ReceiptUnreadable(o) \/ ReceiptCheck(o)
           \/ CreditPending(o) \/ CreditUnreadable(o) \/ CreditCheck(o)
  <2>1. Acked(o)
    BY <1>6 DEF Acked, ReceiptPending, ReceiptUnreadable, ReceiptCheck,
                CreditPending, CreditUnreadable, CreditCheck
  <2>2. (\E e : Fail(o, e)) \/ \E s \in ReceiptStages \cup CreditStages : Pass(o, s)
    BY <1>6 DEF ReceiptPending, ReceiptUnreadable, ReceiptCheck,
                CreditPending, CreditUnreadable, CreditCheck
  <2>3. QED
    BY <2>1, <2>2, <1>b, <1>d
<1>7. CASE ReceiptFound(o) \/ CreditSeen(o) \/ OpenRecord(o) \/ WriteRecord(o)
  <2>1. Acked(o)
    BY <1>7 DEF Acked, ReceiptFound, CreditSeen, OpenRecord, WriteRecord
  <2>2. CASE \E e : Fail(o, e)
    BY <2>1, <2>2, <1>b
  <2>3. CASE ~\E e : Fail(o, e)
    <3>1. /\ UNCHANGED <<pool, evictions, tx>>
          /\ (\E e : Return(o, e)) \/ \E s \in {"credit", "openRecord", "writeRecord"} : Go(o, s)
      BY <1>7, <2>3 DEF ReceiptFound, CreditSeen, OpenRecord, WriteRecord, Await, chainVars
    <3>2. QED
      BY <1>0, <2>1, <3>1 DEF Return, Go, Quiet
  <2>4. QED
    BY <2>2, <2>3
<1>8. CASE DeadlinePasses(o)
  BY <1>0, <1>8 DEF DeadlinePasses, Quiet, Acked, chainVars
<1>9. CASE Crash(o)
  BY <1>0, <1>9 DEF Crash, Return, Quiet, Acked, chainVars, LateErrors
<1>10. QED
  BY <1>1, <1>2, <1>3, <1>4, <1>5, <1>6, <1>7, <1>8, <1>9 DEF OpStep

\* Every nonce below the next one a node offers is known, and that one is not.
LEMMA PendingNonceIsNext ==
  ASSUME ChainTypeOK, NEW c \in Chains, InOrder(c), NEW n \in PendingNonces(c)
  PROVE  n \in Nat /\ n \notin KnownNonces(c) /\ 0 .. n - 1 \subseteq KnownNonces(c)
<1> DEFINE m == Len(mined[c])
           taken == {t.nonce : t \in pool[c]}
<1>1. m \in Nat
  BY LenProperties DEF ChainTypeOK
<1>2. n \in m .. m + Cardinality(pool[c]) /\ n \notin taken /\ m .. n - 1 \subseteq taken
  BY DEF PendingNonces
<1>3. n \in Nat /\ n >= m
  BY <1>1, <1>2
<1>4. n \notin KnownNonces(c)
  BY <1>1, <1>2, <1>3 DEF KnownNonces, Known, Blocks, InOrder
<1>5. ASSUME NEW k \in 0 .. n - 1 PROVE k \in KnownNonces(c)
  <2>1. CASE k >= m
    <3>1. k \in taken
      BY <1>1, <1>2, <1>3, <2>1
    <3>2. QED
      BY <3>1 DEF KnownNonces, Known
  <2>2. CASE k < m
    <3>1. k + 1 \in 1 .. m /\ (k + 1) - 1 = k
      BY <1>1, <1>3, <2>2
    <3>2. mined[c][k + 1].tx.nonce = k /\ mined[c][k + 1].tx \in Blocks(c)
      BY <3>1 DEF InOrder, Blocks
    <3>3. QED
      BY <3>2 DEF KnownNonces, Known
  <2>3. QED
    BY <1>1, <1>3, <2>1, <2>2
<1>6. QED
  BY <1>3, <1>4, <1>5

\* Unless run o hands over its transaction, what the chains know stays.
LEMMA OwnStepKeepsNonces ==
  ASSUME NonceInv, NEW o \in Ops, OpStep(o) \/ DeadlinePasses(o) \/ Crash(o),
         Quiet(o) \/ Reads(o) \/ Signs(o)
  PROVE  NonceInv'
<1>1. TypeOK' /\ ChainTypeOK /\ tx \in [Ops -> Tx]
  BY NextType DEF Next, NonceInv, TypeOK
<1>2. /\ mined' = mined /\ pool' = pool /\ evictions' = evictions
      /\ \A p \in Ops \ {o} : pc'[p] = pc[p] /\ err'[p] = err[p] /\ tx'[p] = tx[p]
  BY StepIsLocal DEF NonceInv, Quiet, Reads, Signs
<1>3. \A d \in Chains : InOrder(d)' /\ Known(d)' = Known(d) /\ KnownNonces(d)' = KnownNonces(d)
  BY <1>2 DEF NonceInv, InOrder, Known, Blocks, KnownNonces
<1>4. \A p \in Ops : Chain(p) \in Chains
  BY DEF Chain, Chains
<1>5. \A p \in Ops : Acked(p)' => Acked(p) /\ tx'[p] = tx[p]
  <2>1. \A p \in Ops \ {o} : Acked(p)' => Acked(p)
    BY <1>2 DEF Acked
  <2>2. Acked(o)' => Acked(o) /\ tx'[o] = tx[o]
    BY DEF Quiet, Reads, Signs
  <2>3. QED
    BY <1>2, <2>1, <2>2
<1>6. SUFFICES ASSUME evictions = 0
               PROVE  /\ \A c \in Chains : NoHole(c)'
                      /\ \A p \in Ops : NothingBelow(p)' /\ Outlasts(p)'
                      /\ Distinct'
  BY <1>1, <1>2, <1>3 DEF NonceInv
<1>7. \A c \in Chains : NoHole(c)'
  BY <1>3, <1>6 DEF NonceInv, NoHole
<1>8. \A p \in Ops : Outlasts(p)'
  BY <1>3, <1>4, <1>5, <1>6 DEF NonceInv, Outlasts
<1>9. Distinct'
  BY <1>5, <1>6 DEF NonceInv, Distinct
<1>10. \A p \in Ops \ {o} : NothingBelow(p)'
  BY <1>2, <1>3, <1>4, <1>6 DEF NonceInv, NothingBelow
<1>11. NothingBelow(o)'
  <2>1. CASE Quiet(o)
    BY <2>1 DEF Quiet, NothingBelow
  <2>2. CASE Reads(o)
    <3>1. PICK n \in PendingNonces(Chain(o)) : tx'[o].nonce = n
      BY <1>1, <2>2 DEF Reads
    <3>2. 0 .. n - 1 \subseteq KnownNonces(Chain(o))
      BY <1>1, <1>4, PendingNonceIsNext DEF NonceInv
    <3>3. QED
      BY <1>3, <1>4, <3>1, <3>2 DEF NothingBelow
  <2>3. CASE Signs(o)
    <3>1. pc[o] = "fees" /\ tx'[o].nonce = tx[o].nonce
      BY <1>1, <2>3 DEF Signs, Tx
    <3>2. QED
      BY <1>3, <1>4, <1>6, <3>1 DEF NonceInv, NothingBelow
  <2>4. QED
    BY <2>1, <2>2, <2>3
<1>12. QED
  BY <1>7, <1>8, <1>9, <1>10, <1>11

\* The node takes run o's transaction, which may displace a cheaper one.
LEMMA HandOverKeepsNonces ==
  ASSUME NonceInv, NEW o \in Ops, OpStep(o) \/ DeadlinePasses(o) \/ Crash(o),
         HandsOver(o)
  PROVE  NonceInv'
<1> DEFINE c == Chain(o)
           t == tx[o]
<1>1. /\ TypeOK' /\ ChainTypeOK /\ tx \in [Ops -> Tx] /\ c \in Chains /\ t \in Tx
      /\ pool \in [Chains -> SUBSET Tx] /\ Len(mined[c]) \in Nat
  <2>1. mined[c] \in Seq(Entry)
    BY DEF NonceInv, TypeOK, ChainTypeOK, Chain, Chains
  <2>2. QED
    BY <2>1, NextType, LenProperties DEF Next, NonceInv, TypeOK, ChainTypeOK, Chain, Chains
<1>2. /\ mined' = mined /\ evictions' = evictions /\ tx' = tx
      /\ \A p \in Ops \ {o} : pc'[p] = pc[p] /\ err'[p] = err[p]
  BY StepIsLocal DEF NonceInv, HandsOver
<1>3. /\ pool'[c] = (pool[c] \ Rivals(c, t)) \cup {t}
      /\ \A d \in Chains \ {c} : pool'[d] = pool[d]
      /\ t.nonce >= Len(mined[c])
      /\ \A u \in Rivals(c, t) : t.fee > u.fee
  BY <1>1 DEF HandsOver, Accept, Acceptable
<1>4. \A d \in Chains \ {c} : InOrder(d)' /\ Known(d)' = Known(d)
  BY <1>2, <1>3 DEF NonceInv, InOrder, Known, Blocks
<1>5. InOrder(c)'
  BY <1>1, <1>2, <1>3 DEF NonceInv, InOrder, Rivals
<1>6. Blocks(c)' = Blocks(c)
  BY <1>2 DEF Blocks
<1>7. Known(c)' \subseteq Known(c) \cup {t} /\ t \in Known(c)'
  BY <1>3, <1>6 DEF Known
<1>8. \A u \in Known(c) : u \in Known(c)' \/ (u.nonce = t.nonce /\ t.fee > u.fee)
  BY <1>3, <1>6 DEF Known, Rivals
<1>9. KnownNonces(c)' = KnownNonces(c) \cup {t.nonce}
  BY <1>7, <1>8 DEF KnownNonces
<1>10. SUFFICES ASSUME evictions = 0
                PROVE  /\ \A d \in Chains : NoHole(d)'
                       /\ \A p \in Ops : NothingBelow(p)' /\ Outlasts(p)'
                       /\ Distinct'
  BY <1>1, <1>2, <1>4, <1>5 DEF NonceInv
<1>11. 0 .. t.nonce - 1 \subseteq KnownNonces(c)
  BY <1>10 DEF NonceInv, NothingBelow, HandsOver
<1>12. ASSUME NEW d \in Chains PROVE NoHole(d)'
  <2>1. CASE d # c
    BY <1>4, <1>10, <2>1 DEF NonceInv, NoHole, KnownNonces
  <2>2. CASE d = c
    <3>1. 0 .. t.nonce \subseteq KnownNonces(c)'
      <4>1. t.nonce \in Nat
        BY <1>1 DEF Tx
      <4>2. 0 .. t.nonce = (0 .. t.nonce - 1) \cup {t.nonce}
        BY <4>1
      <4>3. QED
        BY <1>9, <1>11, <4>2
    <3>2. \A u \in Known(c) : 0 .. u.nonce \subseteq KnownNonces(c)'
      BY <1>1, <1>9, <1>10 DEF NonceInv, NoHole
    <3>3. QED
      BY <1>7, <2>2, <3>1, <3>2 DEF NoHole
  <2>3. QED
    BY <2>1, <2>2
<1>13. \A d \in Chains : KnownNonces(d) \subseteq KnownNonces(d)'
  BY <1>4, <1>9 DEF KnownNonces
<1>14. ASSUME NEW p \in Ops PROVE NothingBelow(p)'
  <2>1. CASE p = o
    BY <2>1 DEF HandsOver, NothingBelow
  <2>2. CASE p # o
    <3>1. Chain(p) \in Chains /\ pc'[p] = pc[p] /\ tx'[p] = tx[p]
      BY <1>2, <2>2 DEF Chain, Chains
    <3>2. QED
      BY <1>10, <1>13, <3>1 DEF NonceInv, NothingBelow
  <2>3. QED
    BY <2>1, <2>2
<1>15. \A p \in Ops \ {o} : Acked(p)' => Acked(p)
  BY <1>2 DEF Acked
<1>16. ASSUME NEW p \in Ops PROVE Outlasts(p)'
  <2>1. CASE p = o
    <3>1. t.fee \in Nat
      BY <1>1 DEF Tx
    <3>2. QED
      BY <1>2, <1>7, <2>1, <3>1 DEF Outlasts
  <2>2. CASE p # o
    <3>1. SUFFICES ASSUME Acked(p)
                   PROVE  \E u \in Known(Chain(p))' : u.nonce = tx[p].nonce /\ u.fee >= tx[p].fee
      BY <1>2, <1>15, <2>2 DEF Outlasts
    <3>2. PICK u \in Known(Chain(p)) : u.nonce = tx[p].nonce /\ u.fee >= tx[p].fee
      BY <1>10, <3>1 DEF NonceInv, Outlasts
    <3>3. CASE u \in Known(Chain(p))'
      BY <3>2, <3>3
    <3>4. CASE u \notin Known(Chain(p))'
      <4>1. Chain(p) = c
        BY <1>4, <3>4 DEF Chain, Chains
      <4>2. u.nonce = t.nonce /\ t.fee > u.fee /\ u \in pool[c]
        BY <1>6, <1>8, <3>4, <4>1 DEF Known
      <4>3. t.fee \in Nat /\ u.fee \in Nat /\ tx[p].fee \in Nat
        BY <1>1, <4>2 DEF Tx
      <4>4. t.fee >= tx[p].fee
        BY <3>2, <4>2, <4>3
      <4>5. QED
        BY <1>7, <3>2, <4>1, <4>2, <4>4
    <3>5. QED
      BY <3>3, <3>4
  <2>3. QED
    BY <2>1, <2>2
<1>17. ASSUME NEW p \in Ops \ {o}, Chain(p) = c, Acked(p) PROVE tx[p] # t
  <2>1. SUFFICES ASSUME tx[p] = t PROVE FALSE
    OBVIOUS
  <2>2. PICK u \in Known(c) : u.nonce = t.nonce /\ u.fee >= t.fee
    BY <1>10, <1>17, <2>1 DEF NonceInv, Outlasts
  <2>3. u \notin Blocks(c)
    <3>1. t.nonce \in Nat
      BY <1>1 DEF Tx
    <3>2. QED
      BY <1>1, <1>3, <2>2, <3>1 DEF NonceInv, InOrder, Blocks
  <2>4. u \in Rivals(c, t) /\ u \in Tx
    BY <1>1, <2>2, <2>3 DEF Known, Rivals
  <2>5. t.fee > u.fee /\ u.fee >= t.fee /\ u.fee \in Nat /\ t.fee \in Nat
    BY <1>1, <1>3, <2>2, <2>4 DEF Tx
  <2>6. QED
    BY <2>5
<1>18. Distinct'
  BY <1>2, <1>10, <1>15, <1>17 DEF NonceInv, Distinct
<1>19. QED
  BY <1>12, <1>14, <1>16, <1>18

LEMMA NextNonce == NonceInv /\ [Next]_vars => NonceInv'
<1> SUFFICES ASSUME NonceInv, [Next]_vars PROVE NonceInv'
  OBVIOUS
<1>1. ASSUME NEW o \in Ops, OpStep(o) \/ DeadlinePasses(o) \/ Crash(o)
      PROVE  NonceInv'
  BY <1>1, StepKinds, OwnStepKeepsNonces, HandOverKeepsNonces DEF NonceInv
<1>2. CASE EnvStep
  BY <1>2, EnvKeepsNonces
<1>3. CASE UNCHANGED vars
  <2>1. TypeOK'
    BY NextType DEF NonceInv
  <2>2. UNCHANGED <<pool, mined, evictions, pc, err, tx>>
    BY <1>3 DEF vars, chainVars, opVars
  <2>3. QED
    BY <2>1, <2>2 DEF NonceInv, InOrder, NoHole, NothingBelow, Outlasts,
       Distinct, KnownNonces, Known, Blocks, Acked
<1>4. QED
  BY <1>1, <1>2, <1>3 DEF Next, Finished

LEMMA NonceInvariant == Spec => []NonceInv
BY InitNonce, NextNonce, PTL DEF Spec

\* However many runs read and hand over with one key, no two of them wait
\* for, report or record the same transaction.
THEOREM NothingIsShared == Spec => []NoSharedTransfer
<1>1. NonceInv => NoSharedTransfer
  BY DEF NonceInv, Distinct, NoSharedTransfer
<1>2. QED
  BY <1>1, NonceInvariant, PTL

\* However many runs read and hand over with one key, none leaves a hole
\* below a pending transaction.
THEOREM NoHoleIsLeft == Spec => []NoNonceGap
<1>1. NonceInv => NoNonceGap
  <2>1. SUFFICES ASSUME NonceInv, evictions = 0, NEW c \in Chains, NEW t \in pool[c],
                        NEW n \in Len(mined[c]) .. t.nonce
                 PROVE  n \in {u.nonce : u \in pool[c]}
    BY DEF NoNonceGap
  <2>2. Len(mined[c]) \in Nat /\ t.nonce \in Nat
    BY <2>1, LenProperties DEF NonceInv, TypeOK, ChainTypeOK, Tx
  <2>3. PICK u \in Known(c) : u.nonce = n
    BY <2>1, <2>2 DEF NonceInv, NoHole, Known, KnownNonces
  <2>4. u \notin Blocks(c)
    BY <2>1, <2>2, <2>3 DEF NonceInv, InOrder, Blocks
  <2>5. QED
    BY <2>3, <2>4 DEF Known
<1>2. QED
  BY <1>1, NonceInvariant, PTL

\* A run that reads its nonce after another was taken never competes with it.
THEOREM RetryIsFresh == Spec => RetryTakesFreshNonce
<1>1. NonceInv /\ [Next]_vars =>
        (evictions = 0 =>
           \A o, p \in Ops :
             Acked(o) /\ pc[p] = "nonce" /\ pc'[p] = "fees" /\ Chain(o) = Chain(p)
               => tx'[p].nonce # tx[o].nonce)
  <2>1. SUFFICES ASSUME NonceInv, [Next]_vars, evictions = 0,
                        NEW o \in Ops, NEW p \in Ops, Acked(o),
                        pc[p] = "nonce", pc'[p] = "fees", Chain(o) = Chain(p)
                 PROVE  tx'[p].nonce # tx[o].nonce
    OBVIOUS
  <2>2. PICK q \in Ops : OpStep(q) \/ DeadlinePasses(q) \/ Crash(q)
    BY <2>1 DEF Next, EnvStep, Finished, vars, opVars
  <2>3. q = p /\ TypeOK
    BY <2>1, <2>2, StepIsLocal DEF NonceInv
  <2>4. Reads(p)
    BY <2>1, <2>2, <2>3, StepKinds DEF Quiet, Signs, HandsOver
  <2>5. PICK n \in PendingNonces(Chain(p)) : tx'[p].nonce = n
    BY <2>3, <2>4 DEF Reads, TypeOK
  <2>6. n \notin KnownNonces(Chain(p))
    BY <2>1, <2>3, PendingNonceIsNext DEF NonceInv, TypeOK, Chain, Chains
  <2>7. tx[o].nonce \in KnownNonces(Chain(p))
    BY <2>1 DEF NonceInv, Outlasts, KnownNonces
  <2>8. QED
    BY <2>5, <2>6, <2>7
<1>2. QED
  BY <1>1, NonceInvariant, PTL DEF Spec, RetryTakesFreshNonce

-----------------------------------------------------------------------------
(* The directory of withdrawal records, for runs that share it, crash, and *)
(* follow each other.  A record's file is named for its transaction.  That *)
(* no run harms another's record is therefore a matter of nonces: no two   *)
(* runs get to record the same transaction.                                *)

\* What run o is about to record, or has recorded, is about its transaction.
Owned(o) ==
  /\ res[o].withdrawal # {}
  /\ \A r \in res[o].withdrawal : r.tx = tx[o]

Recorded(o) == Kind[o] = "withdraw" /\ Ok(o)

RecordInv(o) ==
  /\ pc[o] \in CreditStages => Kind[o] = "deposit"
  /\ pc[o] \in RecordStages => Kind[o] = "withdraw" /\ Owned(o)
  /\ Recorded(o) => res[o].path /\ Owned(o)

OnDisk(o) == res[o].withdrawal \subseteq saved /\ tx[o] \notin torn

DiskInv ==
  /\ NonceInv
  /\ \A o \in Ops : RecordInv(o)
  /\ \A r \in saved : \E o \in Ops : Recorded(o) /\ tx[o] = r.tx
  /\ evictions = 0 => \A o \in Ops : Recorded(o) => OnDisk(o)

LEMMA InitDisk == Init => DiskInv
<1> SUFFICES ASSUME Init PROVE DiskInv
  OBVIOUS
<1>1. saved = {} /\ \A o \in Ops : pc[o] = "start"
  BY DEF Init
<1> QED
  BY <1>1, InitNonce DEF DiskInv, RecordInv, Recorded, Ok, Ended, CreditStages, RecordStages

-----------------------------------------------------------------------------
(* The steps of a run, as seen from the directory.                         *)

Opens(o) ==
  /\ pc[o] = "openRecord" /\ pc'[o] = "writeRecord"
  /\ saved' = OtherRecords(o) /\ torn' = torn \cup {tx[o]}
  /\ tx' = tx /\ res' = res

Writes(o) ==
  /\ pc[o] = "writeRecord" /\ pc'[o] = "done" /\ err'[o] = "nil"
  /\ saved' = OtherRecords(o) \cup res[o].withdrawal /\ torn' = torn \ {tx[o]}
  /\ tx' = tx /\ res' = [res EXCEPT ![o].path = TRUE]

Elsewhere(o) ==
  /\ UNCHANGED diskVars
  /\ RecordInv(o)' /\ ~Recorded(o)'

LEMMA DiskSteps ==
  ASSUME TypeOK, NEW o \in Ops, RecordInv(o), OpStep(o) \/ DeadlinePasses(o) \/ Crash(o)
  PROVE  (Opens(o) \/ Writes(o) \/ Elsewhere(o)) /\ ~Recorded(o)
<1> USE DEF ReceiptStages, CreditStages, RecordStages
<1>0. /\ pc \in [Ops -> Stages] /\ err \in [Ops -> Errors]
      /\ tx \in [Ops -> Tx] /\ res \in [Ops -> Result]
  BY DEF TypeOK
\* Where nothing is claimed: before the receipt, and after a failure.
<1>a. ASSUME UNCHANGED diskVars, pc'[o] \in PreSendStages \cup ReceiptStages
      PROVE  Elsewhere(o)
  BY <1>a DEF Elsewhere, RecordInv, Recorded, Ok, Ended, PreSendStages
<1>b. ASSUME UNCHANGED diskVars, pc'[o] = "done", err'[o] # "nil" PROVE Elsewhere(o)
  BY <1>b DEF Elsewhere, RecordInv, Recorded, Ok, Ended
<1>c. ASSUME NEW e, e # "nil", Fail(o, e) PROVE Elsewhere(o)
  BY <1>0, <1>b, <1>c DEF Fail, Return
<1>d. ASSUME UNCHANGED diskVars, Kind[o] = "deposit", pc'[o] \in CreditStages \cup {"done"}
      PROVE  Elsewhere(o)
  BY <1>d DEF Elsewhere, RecordInv, Recorded
<1>e. ASSUME pc[o] # "done" PROVE ~Recorded(o)
  BY <1>e DEF Recorded, Ok, Ended
<1>1. CASE Start(o) \/ VerifySrc(o) \/ VerifyDst(o) \/ ReadBefore(o) \/ ReadNonce(o)
  <2>1. /\ pc[o] # "done"
        /\ \/ \E e \in Refusals : Fail(o, e)
           \/ UNCHANGED diskVars /\ pc'[o] \in PreSendStages
    BY <1>0, <1>1 DEF Start, VerifySrc, VerifyDst, ReadBefore, ReadNonce, Pass, Go,
       AfterSrc, PreSendStages, Refusals
  <2> QED
    BY <2>1, <1>a, <1>c, <1>e DEF Refusals
<1>2. CASE PrepareFees(o)
  <2>1. CASE Fail(o, "prepare transaction")
    BY <1>2, <2>1, <1>c, <1>e DEF PrepareFees
  <2>2. CASE ~Fail(o, "prepare transaction")
    <3>1. pc[o] = "fees" /\ pc'[o] = "send" /\ UNCHANGED diskVars
      BY <1>0, <1>2, <2>2 DEF PrepareFees, Go
    <3> QED
      BY <3>1, <1>a, <1>e DEF PreSendStages
  <2> QED
    BY <2>1, <2>2
<1>3. CASE Broadcast(o)
  <2>1. /\ pc[o] = "send" /\ UNCHANGED diskVars
        /\ pc'[o] = "receipt" \/ (pc'[o] = "done" /\ err'[o] # "nil")
    BY <1>0, <1>3 DEF Broadcast, Await, Go, Return, Fail
  <2> QED
    BY <2>1, <1>a, <1>b, <1>e
<1>4. CASE ReceiptFound(o)
  <2> DEFINE e == Receipt(Chain(o), tx[o])
  <2>1. pc[o] = "receipt" /\ UNCHANGED <<diskVars, tx>> /\ Confirmed(o)
    BY <1>4 DEF ReceiptFound, Fail
  <2>2. CASE Fail(o, "ErrTxReverted") \/ Fail(o, "no event in receipt")
    BY <2>1, <2>2, <1>c, <1>e
  <2>3. CASE Kind[o] = "same-chain" /\ Return(o, "nil")
    BY <1>0, <2>1, <2>3, <1>e DEF Return, Elsewhere, RecordInv, Recorded
  <2>4. CASE Kind[o] = "deposit" /\ Await(o, "credit")
    BY <1>0, <2>1, <2>4, <1>d, <1>e DEF Await, Go
  <2>5. CASE /\ Kind[o] = "withdraw" /\ Go(o, "openRecord")
             /\ res' = [res EXCEPT ![o].withdrawal = {LogOf(e)}]
    <3>1. pc'[o] = "openRecord" /\ res'[o].withdrawal = {LogOf(e)}
      BY <1>0, <2>5 DEF Go, Result
    <3>2. LogOf(e).tx = tx[o]
      BY <2>1 DEF Confirmed, InBlock, Receipt, LogOf
    <3>3. Owned(o)'
      BY <2>1, <3>1, <3>2 DEF Owned
    <3> QED
      BY <2>1, <2>5, <3>1, <3>3, <1>e DEF Elsewhere, RecordInv, Recorded, Ok, Ended
  <2> QED
    BY <1>4, <2>2, <2>3, <2>4, <2>5 DEF ReceiptFound
<1>5. CASE ReceiptPending(o) \/ ReceiptUnreadable(o) \/ ReceiptCheck(o)
  <2>1. /\ pc[o] # "done" /\ UNCHANGED diskVars
        /\ pc'[o] \in ReceiptStages \/ (pc'[o] = "done" /\ err'[o] # "nil")
    BY <1>0, <1>5 DEF ReceiptPending, ReceiptUnreadable, ReceiptCheck, Pass, Go, Fail, Return
  <2> QED
    BY <2>1, <1>a, <1>b, <1>e
<1>6. CASE CreditSeen(o) \/ CreditPending(o) \/ CreditUnreadable(o) \/ CreditCheck(o)
  <2>1. /\ pc[o] \in CreditStages /\ UNCHANGED diskVars
        /\ pc'[o] \in CreditStages \cup {"done"}
    BY <1>0, <1>6 DEF CreditSeen, CreditPending, CreditUnreadable, CreditCheck,
       Pass, Go, Fail, Return
  <2>2. Kind[o] = "deposit"
    BY <2>1 DEF RecordInv
  <2> QED
    BY <2>1, <2>2, <1>d, <1>e
<1>7. CASE OpenRecord(o)
  <2>1. CASE ~Fail(o, "record withdrawal")
    BY <1>0, <1>7, <2>1, <1>e DEF OpenRecord, Go, Opens
  <2> QED
    BY <1>7, <2>1, <1>c, <1>e DEF OpenRecord
<1>8. CASE WriteRecord(o)
  <2>1. CASE ~Fail(o, "record withdrawal")
    BY <1>0, <1>8, <2>1, <1>e DEF WriteRecord, Return, Writes
  <2> QED
    BY <1>8, <2>1, <1>c, <1>e DEF WriteRecord
<1>9. CASE DeadlinePasses(o)
  <2>1. /\ pc[o] \in ReceiptStages \cup CreditStages /\ UNCHANGED diskVars
        /\ pc'[o] = pc[o]
    BY <1>9 DEF DeadlinePasses
  <2>2. CASE pc[o] \in ReceiptStages
    BY <2>1, <2>2, <1>a, <1>e
  <2>3. CASE pc[o] \in CreditStages
    BY <2>1, <2>3, <1>d, <1>e DEF RecordInv
  <2> QED
    BY <2>1, <2>2, <2>3
<1>10. CASE Crash(o)
  BY <1>0, <1>10, <1>b, <1>e DEF Crash, Return
<1> QED
  BY <1>1, <1>2, <1>3, <1>4, <1>5, <1>6, <1>7, <1>8, <1>9, <1>10 DEF OpStep

LEMMA EvictionsStay ==
  ASSUME TypeOK, NEW o \in Ops, OpStep(o) \/ DeadlinePasses(o) \/ Crash(o)
  PROVE  evictions' = evictions
BY StepKinds DEF Quiet, Reads, Signs, HandsOver

\* A run that gets to its record, and another that is done with its own, have
\* different transactions.
LEMMA RecordsAreApart ==
  ASSUME DiskInv, evictions = 0, NEW o \in Ops, NEW p \in Ops,
         pc[o] \in RecordStages, Recorded(p)
  PROVE  tx[o] # tx[p] /\ o # p
<1>1. o # p
  BY DEF Recorded, Ok, Ended, RecordStages
<1>2. Acked(o) /\ Acked(p)
  BY DEF Acked, Recorded, Ok, Ended
<1>3. Chain(o) = Chain(p)
  BY DEF DiskInv, RecordInv, Recorded, Chain
<1> QED
  BY <1>1, <1>2, <1>3 DEF DiskInv, NonceInv, Distinct

-----------------------------------------------------------------------------
LEMMA OwnStepKeepsDisk ==
  ASSUME DiskInv, NEW o \in Ops, OpStep(o) \/ DeadlinePasses(o) \/ Crash(o)
  PROVE  DiskInv'
<1>1. /\ TypeOK /\ TypeOK' /\ NonceInv' /\ evictions' = evictions
      /\ tx \in [Ops -> Tx] /\ res \in [Ops -> Result]
  BY NextType, NextNonce, EvictionsStay DEF Next, DiskInv, NonceInv, TypeOK
<1>2. \A p \in Ops \ {o} :
        /\ pc'[p] = pc[p] /\ err'[p] = err[p] /\ tx'[p] = tx[p] /\ res'[p] = res[p]
  BY <1>1, StepIsLocal
<1>3. \A p \in Ops \ {o} : RecordInv(p)' /\ (Recorded(p)' <=> Recorded(p))
  BY <1>2 DEF DiskInv, RecordInv, Recorded, Owned, Ok, Ended
<1>4. (Opens(o) \/ Writes(o) \/ Elsewhere(o)) /\ ~Recorded(o) /\ RecordInv(o)
  BY <1>1, DiskSteps DEF DiskInv
<1>5. CASE Opens(o)
  <2>1. RecordInv(o)' /\ ~Recorded(o)'
    BY <1>4, <1>5 DEF Opens, RecordInv, Recorded, Owned, Ok, Ended, CreditStages, RecordStages
  <2>2. \A r \in saved' : \E q \in Ops : Recorded(q)' /\ tx'[q] = r.tx
    BY <1>2, <1>3, <1>4, <1>5 DEF Opens, OtherRecords, DiskInv
  <2>3. ASSUME evictions = 0, NEW p \in Ops, Recorded(p)' PROVE OnDisk(p)'
    <3>1. p # o /\ Recorded(p) /\ OnDisk(p) /\ RecordInv(p)
      BY <1>3, <2>1, <2>3 DEF DiskInv
    <3>2. tx[o] # tx[p]
      BY <1>5, <2>3, <3>1, RecordsAreApart DEF Opens, RecordStages
    <3> QED
      BY <1>2, <1>5, <3>1, <3>2 DEF OnDisk, Opens, OtherRecords, RecordInv, Owned
  <2> QED
    BY <1>1, <1>3, <2>1, <2>2, <2>3 DEF DiskInv
<1>6. CASE Writes(o)
  <2>0. /\ tx'[o] = tx[o] /\ res'[o].withdrawal = res[o].withdrawal /\ res'[o].path
        /\ pc[o] \in RecordStages
    BY <1>1, <1>6 DEF Writes, Result, RecordStages
  <2>1. RecordInv(o)' /\ Recorded(o)'
    BY <1>4, <1>6, <2>0 DEF Writes, RecordInv, Recorded, Owned, Ok, Ended, CreditStages, RecordStages
  <2>2. \A r \in saved' : \E q \in Ops : Recorded(q)' /\ tx'[q] = r.tx
    <3>1. ASSUME NEW r \in saved PROVE \E q \in Ops : Recorded(q)' /\ tx'[q] = r.tx
      BY <1>2, <1>3, <1>4, <3>1 DEF DiskInv
    <3>2. ASSUME NEW r \in res[o].withdrawal PROVE Recorded(o)' /\ tx'[o] = r.tx
      BY <1>4, <2>0, <2>1, <3>2 DEF RecordInv, Owned
    <3> QED
      BY <1>6, <3>1, <3>2 DEF Writes, OtherRecords
  <2>3. ASSUME evictions = 0, NEW p \in Ops \ {o}, Recorded(p)' PROVE OnDisk(p)'
    <3>1. Recorded(p) /\ OnDisk(p) /\ RecordInv(p)
      BY <1>3, <2>3 DEF DiskInv
    <3>2. tx[o] # tx[p]
      BY <2>0, <2>3, <3>1, RecordsAreApart
    <3> QED
      BY <1>2, <1>6, <3>1, <3>2 DEF OnDisk, Writes, OtherRecords, RecordInv, Owned
  <2>4. OnDisk(o)'
    BY <1>6, <2>0 DEF OnDisk, Writes
  <2> QED
    BY <1>1, <1>3, <2>1, <2>2, <2>3, <2>4 DEF DiskInv
<1>7. CASE Elsewhere(o)
  <2>1. saved' = saved /\ torn' = torn /\ RecordInv(o)' /\ ~Recorded(o)'
    BY <1>7 DEF Elsewhere, diskVars
  <2>2. \A r \in saved' : \E q \in Ops : Recorded(q)' /\ tx'[q] = r.tx
    BY <1>2, <1>3, <1>4, <2>1 DEF DiskInv
  <2>3. ASSUME evictions = 0, NEW p \in Ops, Recorded(p)' PROVE OnDisk(p)'
    BY <1>2, <1>3, <2>1, <2>3 DEF DiskInv, OnDisk
  <2> QED
    BY <1>1, <1>3, <2>1, <2>2, <2>3 DEF DiskInv
<1> QED
  BY <1>4, <1>5, <1>6, <1>7

LEMMA NextDisk == DiskInv /\ [Next]_vars => DiskInv'
<1> SUFFICES ASSUME DiskInv, [Next]_vars PROVE DiskInv'
  OBVIOUS
<1>1. NonceInv'
  BY NextNonce DEF DiskInv
<1>2. CASE EnvStep \/ UNCHANGED vars
  <2>1. UNCHANGED <<opVars, diskVars>>
    BY <1>2 DEF EnvStep, vars
  <2>2. evictions' = 0 => evictions = 0
    <3>1. evictions \in Nat
      BY BoundsAssumption DEF DiskInv, NonceInv, TypeOK, ChainTypeOK
    <3>2. CASE \E c \in Chains : Evict(c)
      BY <3>1, <3>2 DEF Evict
    <3>3. CASE UNCHANGED evictions
      BY <3>3
    <3> QED
      BY <1>2, <3>2, <3>3 DEF EnvStep, Mine, Reorg, Relay, Gift, Spend, vars, chainVars
  <2>3. /\ \A o \in Ops : RecordInv(o)' /\ (Recorded(o)' <=> Recorded(o))
        /\ \A o \in Ops : (OnDisk(o)' <=> OnDisk(o)) /\ tx'[o] = tx[o]
        /\ saved' = saved
    BY <2>1 DEF opVars, diskVars, DiskInv, RecordInv, Recorded, OnDisk, Owned, Ok, Ended
  <2> QED
    BY <1>1, <2>2, <2>3 DEF DiskInv
<1>3. ASSUME NEW o \in Ops, OpStep(o) \/ DeadlinePasses(o) \/ Crash(o) PROVE DiskInv'
  BY <1>3, OwnStepKeepsDisk
<1> QED
  BY <1>2, <1>3 DEF Next, Finished

LEMMA DiskInvariant == Spec => []DiskInv
BY InitDisk, NextDisk, PTL DEF Spec

\* bridge.go:500-502: a withdrawal that succeeded has left a complete record
\* of its own event, and whatever runs, fails or crashes later leaves it whole.
THEOREM SuccessIsRecorded == Spec => []WithdrawalRecorded
<1>1. DiskInv => WithdrawalRecorded
  BY DEF DiskInv, RecordInv, Recorded, OnDisk, Owned, WithdrawalRecorded
<1> QED
  BY <1>1, DiskInvariant, PTL

\* No step of any run removes or opens a complete record.
THEOREM RecordsStayOnDisk == Spec => RecordsKept
<1>1. DiskInv /\ [Next]_vars => (evictions = 0 => saved \subseteq saved')
  <2> SUFFICES ASSUME DiskInv, [Next]_vars, evictions = 0, NEW r \in saved
               PROVE  r \in saved'
    OBVIOUS
  <2>1. CASE EnvStep \/ UNCHANGED vars
    BY <2>1 DEF EnvStep, vars, diskVars
  <2>2. ASSUME NEW o \in Ops, OpStep(o) \/ DeadlinePasses(o) \/ Crash(o)
        PROVE  r \in saved'
    <3>1. TypeOK /\ RecordInv(o)
      BY DEF DiskInv, NonceInv
    <3>2. CASE Elsewhere(o)
      BY <3>2 DEF Elsewhere, diskVars
    <3>3. CASE Opens(o) \/ Writes(o)
      <4>1. PICK p \in Ops : Recorded(p) /\ tx[p] = r.tx
        BY DEF DiskInv
      <4>2. tx[o] # r.tx
        BY <3>3, <4>1, RecordsAreApart DEF Opens, Writes, RecordStages
      <4> QED
        BY <3>3, <4>2 DEF Opens, Writes, OtherRecords
    <3> QED
      BY <2>2, <3>1, <3>2, <3>3, DiskSteps
  <2> QED
    BY <2>1, <2>2 DEF Next, Finished
<1> QED
  BY <1>1, DiskInvariant, PTL DEF Spec, RecordsKept
=============================================================================
