------------------------------- MODULE Bridge -------------------------------
(***************************************************************************)
(* internal/bridge/bridge.go: SameChain, Deposit and WithdrawInitiate, each*)
(* call of a node a step of its own, with internal/store's two-step write  *)
(* of the withdrawal record.                                               *)
(*                                                                         *)
(* Ops are runs of the tool with one key: concurrent ones, or an operator's*)
(* retries.  They share the account's nonces on each chain, the            *)
(* destination's balance on L2 and the directory of withdrawal records.    *)
(* A run may crash between any two steps.                                  *)
(*                                                                         *)
(* A definition that stands right before another of the same parameters and*)
(* is used nowhere is a mistake one could make in it; the README says which*)
(* property notices.                                                       *)
(***************************************************************************)
EXTENDS ChainEnv

CONSTANTS
  Ops,            \* runs of the tool
  Kind,           \* Kind[o]: the operation the route resolved to
  Amount,         \* Amount[o]: wei, 0 standing for every non-positive amount
  HasBridge,      \* HasBridge[o]: an L1 bridge address was supplied
  MaybeMisdialed  \* the runs one of whose endpoints may serve another chain

ASSUME OpsAssumption ==
  /\ Kind \in [Ops -> Kinds]
  /\ Amount \in [Ops -> Nat]
  /\ HasBridge \in [Ops -> BOOLEAN]
  /\ MaybeMisdialed \subseteq Ops

VARIABLES
  serves,  \* serves[o]: which endpoints serve the chain the configuration names
  pc,      \* pc[o]: the call the run makes next
  err,     \* err[o]: the error returned, "nil" for none or none yet
  tx,      \* tx[o]: the transaction built; fee 0 until it is signed
  before,  \* before[o]: Deposit's balance reading
  late,    \* late[o]: the deadline of the wait has passed
  res,     \* res[o]: the Result that goes with err
  saved,   \* the complete withdrawal records on disk, one file per hash
  torn     \* the hashes whose record file is truncated and not yet written

opVars == <<serves, pc, err, tx, before, late, res>>
diskVars == <<saved, torn>>
vars == <<chainVars, opVars, diskVars>>

PreSendStages ==
  {"start", "verifySrc", "verifyDst", "before", "nonce", "fees", "send"}
ReceiptStages == {"receipt", "receiptCheck"}
CreditStages == {"credit", "creditCheck"}
RecordStages == {"openRecord", "writeRecord"}
Stages == PreSendStages \cup ReceiptStages \cup CreditStages \cup RecordStages
            \cup {"done"}

\* Errors returned before anything is handed to a node, and after.
Refusals ==
  {"ErrAmountNotPositive", "ErrNoBridgeAddress", "ErrChainMismatch",
   "read chain ID", "read balance before", "prepare transaction"}
LateErrors ==
  {"ErrTxReverted", "ErrReceiptTimeout", "read receipt", "receipt context",
   "no event in receipt", "ErrDepositNotCredited", "read balance",
   "credit context", "record withdrawal"}
Errors == {"nil", "broadcast", "crashed"} \cup Refusals \cup LateErrors

\* SrcTxHash is set or not: it is always the hash of tx[o].  The others are
\* empty or hold the one event they were derived from.
Result == [src : BOOLEAN, dst : SUBSET Log, credited : Nat,
           withdrawal : SUBSET Log, path : BOOLEAN]
EmptyResult == [src |-> FALSE, dst |-> {}, credited |-> 0,
                withdrawal |-> {}, path |-> FALSE]
Draft == [nonce |-> 0, kind |-> "same-chain", amount |-> 0, fee |-> 0]

Chain(o) == IF Kind[o] = "withdraw" THEN "L2" ELSE "L1"

TypeOK ==
  /\ ChainTypeOK
  /\ serves \in [Ops -> [src : BOOLEAN, dst : BOOLEAN]]
  /\ pc \in [Ops -> Stages]
  /\ err \in [Ops -> Errors]
  /\ tx \in [Ops -> Tx]
  /\ before \in [Ops -> Nat]
  /\ late \in [Ops -> BOOLEAN]
  /\ res \in [Ops -> Result]
  /\ saved \subseteq Log
  /\ torn \subseteq Tx

Init ==
  /\ ChainInit
  /\ serves \in [Ops -> [src : BOOLEAN, dst : BOOLEAN]]
  /\ \A o \in Ops \ MaybeMisdialed : serves[o] = [src |-> TRUE, dst |-> TRUE]
  /\ pc = [o \in Ops |-> "start"]
  /\ err = [o \in Ops |-> "nil"]
  /\ tx = [o \in Ops |-> Draft]
  /\ before = [o \in Ops |-> 0]
  /\ late = [o \in Ops |-> FALSE]
  /\ res = [o \in Ops |-> EmptyResult]
  /\ saved = {}
  /\ torn = {}

-----------------------------------------------------------------------------
Go(o, stage) ==
  /\ pc' = [pc EXCEPT ![o] = stage]
  /\ UNCHANGED <<err, serves>>
Return(o, e) ==
  /\ pc' = [pc EXCEPT ![o] = "done"]
  /\ err' = [err EXCEPT ![o] = e]
  /\ UNCHANGED serves

\* A wait begins, with a deadline of its own.
Await(o, stage) == Go(o, stage) /\ late' = [late EXCEPT ![o] = FALSE]

\* An early return that changes nothing else.
Fail(o, e) ==
  Return(o, e) /\ UNCHANGED <<chainVars, tx, before, late, res, diskVars>>

Pass(o, stage) ==
  Go(o, stage) /\ UNCHANGED <<chainVars, tx, before, late, res, diskVars>>

-----------------------------------------------------------------------------
(* From the call to the broadcast.                                         *)

Start(o) ==
  /\ pc[o] = "start"
  /\ \/ Amount[o] = 0 /\ Fail(o, "ErrAmountNotPositive")
     \/ /\ Amount[o] > 0
        /\ Kind[o] = "deposit" /\ ~HasBridge[o]
        /\ Fail(o, "ErrNoBridgeAddress")
     \/ /\ Amount[o] > 0
        /\ Kind[o] = "deposit" => HasBridge[o]
        /\ Pass(o, "verifySrc")

\* Only a deposit goes on to verify the destination.
AfterSrcUnverified(o) == IF Kind[o] = "deposit" THEN "before" ELSE "nonce"
AfterSrc(o) == IF Kind[o] = "deposit" THEN "verifyDst" ELSE "nonce"

\* verifyChain on the source.
VerifySrc(o) ==
  /\ pc[o] = "verifySrc"
  /\ \/ serves[o].src /\ Pass(o, AfterSrc(o))
     \/ ~serves[o].src /\ Fail(o, "ErrChainMismatch")
     \/ Fail(o, "read chain ID")

VerifyDst(o) ==
  /\ pc[o] = "verifyDst"
  /\ \/ serves[o].dst /\ Pass(o, "before")
     \/ ~serves[o].dst /\ Fail(o, "ErrChainMismatch")
     \/ Fail(o, "read chain ID")

ReadBefore(o) ==
  /\ pc[o] = "before"
  /\ \/ /\ Go(o, "nonce")
        /\ before' = [before EXCEPT ![o] = bal]
        /\ UNCHANGED <<chainVars, tx, late, res, diskVars>>
     \/ Fail(o, "read balance before")

NoncesPastNext(o) == {n + 1 : n \in PendingNonces(Chain(o))}
NoncesLatest(o) == {Len(mined[Chain(o)])}
Nonces(o) == PendingNonces(Chain(o))

ReadNonce(o) ==
  /\ pc[o] = "nonce"
  /\ \/ \E n \in Nonces(o) :
          /\ tx' = [tx EXCEPT ![o] = [nonce |-> n, kind |-> Kind[o],
                                      amount |-> Amount[o], fee |-> 0]]
          /\ Go(o, "fees")
          /\ UNCHANGED <<chainVars, before, late, res, diskVars>>
     \/ Fail(o, "prepare transaction")

\* Tip, header, gas estimate and signature: the node chooses the fee, and
\* each of them can fail.
PrepareFees(o) ==
  /\ pc[o] = "fees"
  /\ \/ \E f \in Fees :
          /\ tx' = [tx EXCEPT ![o].fee = f]
          /\ Go(o, "send")
          /\ UNCHANGED <<chainVars, before, late, res, diskVars>>
     \/ Fail(o, "prepare transaction")

TakenOrKnown(o) == Acceptable(Chain(o), tx[o]) \/ tx[o] \in pool[Chain(o)]
Taken(o) == Acceptable(Chain(o), tx[o])

\* SameChain fills its Result at the end, the other two as soon as the node
\* has taken the transaction.
HashOfWithdrawalOnly(o) == Kind[o] = "withdraw"
HashOnSend(o) == Kind[o] # "same-chain"

\* SendTransaction.  The answer is an error when the node refuses, when the
\* request is lost, and also when the node accepted and its answer is lost.
Broadcast(o) ==
  /\ pc[o] = "send"
  /\ \/ /\ Taken(o)
        /\ Accept(Chain(o), tx[o])
        /\ \/ /\ Await(o, "receipt")
              /\ res' = [res EXCEPT ![o].src = HashOnSend(o)]
           \/ Return(o, "broadcast") /\ UNCHANGED <<late, res>>
        /\ UNCHANGED <<mined, bal, minted, relayed, gifts, spent, reorgs,
                       evictions, tx, before, diskVars>>
     \/ Fail(o, "broadcast")

-----------------------------------------------------------------------------
(* Waiting for the receipt, and what each operation does with it.          *)

\* The receipt answers a transaction hash, so only this very transaction.
ConfirmedByNonce(o) == tx[o].nonce < Len(mined[Chain(o)])
Confirmed(o) == InBlock(Chain(o), tx[o])

StatusIgnored(e) == TRUE
Succeeded(e) == e.outcome # "reverted"

\* L2TxHash and ParseMessagePassed fail on a receipt without the event.
AnyEvent(e) == TRUE
HasEvent(e) == e.outcome = "logged"

ReceiptFound(o) ==
  /\ pc[o] = "receipt"
  /\ Confirmed(o)
  /\ LET e == Receipt(Chain(o), tx[o])
     IN  \/ ~Succeeded(e) /\ Fail(o, "ErrTxReverted")
         \/ /\ Succeeded(e) /\ Kind[o] = "same-chain"
            /\ Return(o, "nil")
            /\ res' = [res EXCEPT ![o].src = TRUE]
            /\ UNCHANGED <<chainVars, tx, before, late, diskVars>>
         \/ /\ Succeeded(e) /\ ~HasEvent(e) /\ Kind[o] # "same-chain"
            /\ Fail(o, "no event in receipt")
         \/ /\ Succeeded(e) /\ HasEvent(e) /\ Kind[o] = "deposit"
            /\ Await(o, "credit")
            /\ res' = [res EXCEPT ![o].dst = {LogOf(e)}]
            /\ UNCHANGED <<chainVars, tx, before, diskVars>>
         \/ /\ Succeeded(e) /\ HasEvent(e) /\ Kind[o] = "withdraw"
            /\ Go(o, "openRecord")
            /\ res' = [res EXCEPT ![o].withdrawal = {LogOf(e)}]
            /\ UNCHANGED <<chainVars, tx, before, late, diskVars>>

ReceiptPending(o) ==
  /\ pc[o] = "receipt"
  /\ ~Confirmed(o)
  /\ Pass(o, "receiptCheck")

ReceiptUnreadable(o) == pc[o] = "receipt" /\ Fail(o, "read receipt")

NeverExpired(o) == FALSE
Expired(o) == late[o]

\* The deadline is looked at after the poll, then the run sleeps.
ReceiptCheck(o) ==
  /\ pc[o] = "receiptCheck"
  /\ \/ Expired(o) /\ Fail(o, "ErrReceiptTimeout")
     \/ ~Expired(o) /\ Pass(o, "receipt")
     \/ ~Expired(o) /\ Fail(o, "receipt context")

-----------------------------------------------------------------------------
(* waitForCredit.                                                          *)

RoseOrStayed(o) == bal >= before[o]
RoseByMore(o) == bal > before[o] + Amount[o]
Rose(o) == bal > before[o]

WholeBalance(o) == bal
Fallen(o) == before[o] - bal
Increase(o) == bal - before[o]

CreditSeen(o) ==
  /\ pc[o] = "credit"
  /\ Rose(o)
  /\ Return(o, "nil")
  /\ res' = [res EXCEPT ![o].credited = Increase(o)]
  /\ UNCHANGED <<chainVars, tx, before, late, diskVars>>

CreditPending(o) ==
  /\ pc[o] = "credit"
  /\ ~Rose(o)
  /\ Pass(o, "creditCheck")

CreditUnreadable(o) == pc[o] = "credit" /\ Fail(o, "read balance")

CreditCheck(o) ==
  /\ pc[o] = "creditCheck"
  /\ \/ Expired(o) /\ Fail(o, "ErrDepositNotCredited")
     \/ ~Expired(o) /\ Pass(o, "credit")
     \/ ~Expired(o) /\ Fail(o, "credit context")

-----------------------------------------------------------------------------
(* SaveWithdrawal: os.WriteFile truncates the file, then writes it.        *)

\* The records of other transactions, each in a file named for its hash.
OneFileForAll(o) == {}
OtherRecords(o) == {r \in saved : r.tx # tx[o]}

OpenRecord(o) ==
  /\ pc[o] = "openRecord"
  /\ \/ /\ Go(o, "writeRecord")
        /\ saved' = OtherRecords(o)
        /\ torn' = torn \cup {tx[o]}
        /\ UNCHANGED <<chainVars, tx, before, late, res>>
     \/ Fail(o, "record withdrawal")

WriteRecord(o) ==
  /\ pc[o] = "writeRecord"
  /\ \/ /\ Return(o, "nil")
        /\ saved' = OtherRecords(o) \cup res[o].withdrawal
        /\ torn' = torn \ {tx[o]}
        /\ res' = [res EXCEPT ![o].path = TRUE]
        /\ UNCHANGED <<chainVars, tx, before, late>>
     \/ Fail(o, "record withdrawal")

-----------------------------------------------------------------------------
\* Time passes the deadline that the wait was given when it began.
DeadlinePasses(o) ==
  /\ pc[o] \in ReceiptStages \cup CreditStages
  /\ ~late[o]
  /\ late' = [late EXCEPT ![o] = TRUE]
  /\ UNCHANGED <<chainVars, serves, pc, err, tx, before, res, diskVars>>

\* The process is killed: what it held in memory is gone.
Crash(o) ==
  /\ pc[o] \notin {"start", "done"}
  /\ Return(o, "crashed")
  /\ res' = [res EXCEPT ![o] = EmptyResult]
  /\ UNCHANGED <<chainVars, tx, before, late, diskVars>>

OpStep(o) ==
  \/ Start(o) \/ VerifySrc(o) \/ VerifyDst(o) \/ ReadBefore(o)
  \/ ReadNonce(o) \/ PrepareFees(o) \/ Broadcast(o)
  \/ ReceiptFound(o) \/ ReceiptPending(o) \/ ReceiptUnreadable(o) \/ ReceiptCheck(o)
  \/ CreditSeen(o) \/ CreditPending(o) \/ CreditUnreadable(o) \/ CreditCheck(o)
  \/ OpenRecord(o) \/ WriteRecord(o)

\* The chains go on by themselves.
EnvStep ==
  \/ \E c \in Chains : Mine(c) /\ UNCHANGED <<opVars, diskVars>>
  \/ \E c \in Chains : Evict(c) /\ UNCHANGED <<opVars, diskVars>>
  \/ \E c \in Chains : Reorg(c) /\ UNCHANGED <<opVars, diskVars>>
  \/ Relay /\ UNCHANGED <<opVars, diskVars>>
  \/ Gift /\ UNCHANGED <<opVars, diskVars>>
  \/ Spend /\ UNCHANGED <<opVars, diskVars>>

\* Every run has ended; the chains need not go on.
Finished == (\A o \in Ops : pc[o] = "done") /\ UNCHANGED vars

Next ==
  \/ \E o \in Ops : OpStep(o) \/ DeadlinePasses(o) \/ Crash(o)
  \/ EnvStep
  \/ Finished

Spec == Init /\ [][Next]_vars
=============================================================================
