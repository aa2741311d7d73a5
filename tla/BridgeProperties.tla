-------------------------- MODULE BridgeProperties --------------------------
(***************************************************************************)
(* What the operations of Bridge must do, alone and next to each other.    *)
(***************************************************************************)
EXTENDS Bridge

Ended(o, e) == pc[o] = "done" /\ err[o] = e
Ok(o) == Ended(o, "nil")

\* The node has answered that it took the transaction, and the run knows it.
Acked(o) ==
  \/ pc[o] \in ReceiptStages \cup CreditStages \cup RecordStages
  \/ pc[o] = "done" /\ err[o] \in LateErrors \cup {"nil"}

\* The run's own transaction is in a block and was not reverted.
Moved(o) ==
  /\ tx[o].fee > 0
  /\ InBlock(Chain(o), tx[o])
  /\ Receipt(Chain(o), tx[o]).outcome # "reverted"

-----------------------------------------------------------------------------
(* Safety.                                                                 *)

\* bridge.go:274-283: nothing is signed before the source endpoint, and for a
\* deposit the destination endpoint too, has been seen to serve the
\* configured chain.
SignedOnlyWhenVerified ==
  \A o \in Ops :
    tx[o].fee > 0 =>
      serves[o].src /\ (Kind[o] = "deposit" => serves[o].dst)

\* Success is about this very transaction: while no block is undone, a run
\* that returns no error has its own transaction in a block, not reverted,
\* and a bridge operation has seen the bridge's event in it.
SuccessMeansMoved ==
  reorgs = 0 =>
    \A o \in Ops : Ok(o) =>
      /\ Moved(o)
      /\ Kind[o] # "same-chain" => Receipt(Chain(o), tx[o]).outcome = "logged"

\* Two runs never wait for, report or record the same transaction, however
\* their nonce readings and broadcasts interleave, as long as nodes keep what
\* they accepted.
NoSharedTransfer ==
  evictions = 0 =>
    \A o, p \in Ops :
      o # p /\ Chain(o) = Chain(p) /\ Acked(o) /\ Acked(p) => tx[o] # tx[p]

\* As long as nodes keep what they accepted, no run leaves a hole below a
\* pending transaction: a hole would keep it, and everything sent after it,
\* from being mined.
NoNonceGap ==
  evictions = 0 =>
    \A c \in Chains : \A t \in pool[c] :
      Len(mined[c]) .. t.nonce \subseteq {u.nonce : u \in pool[c]}

\* bridge.go:440: what a deposit reports as credited is an increase, never
\* more than all that flowed in, even while the destination receives from
\* others and pays out.
CreditWithinInflow ==
  \A o \in Ops : Kind[o] = "deposit" /\ Ok(o) =>
    res[o].credited \in 1 .. minted + gifts

\* A deposit that is the only payment to the destination confirms its own
\* arrival: the reported credit is the amount sent, less at most what the
\* destination paid out meanwhile.
SoloCreditExact ==
  \A o \in Ops :
    /\ Kind[o] = "deposit" /\ Ok(o) /\ gifts = 0
    /\ \A p \in Ops \ {o} : Kind[p] = "deposit" => tx[p].fee = 0
    => /\ relayed > tx[o].nonce
       /\ res[o].credited \in Amount[o] - spent .. Amount[o]

\* Errors whose text names the transaction.
HashInText == {"ErrTxReverted", "ErrReceiptTimeout", "read receipt", "receipt context"}

\* run.go:135 and bridge.go:415: once the node has confirmed that it took the
\* transaction, the operator is told its hash, whatever fails afterwards, and
\* a deposit that fails while waiting for the credit tells both hashes.
HashReported ==
  \A o \in Ops : pc[o] = "done" /\ Acked(o) =>
    /\ res[o].src \/ err[o] \in HashInText
    /\ err[o] \in {"ErrDepositNotCredited", "read balance", "credit context"}
         => res[o].src /\ res[o].dst # {}

\* bridge.go:500-502: a withdrawal that succeeds has left a complete record
\* of its own event on disk, and no later run of the tool damages it.
WithdrawalRecorded ==
  evictions = 0 =>
    \A o \in Ops : Kind[o] = "withdraw" /\ Ok(o) =>
      /\ res[o].path /\ res[o].withdrawal # {}
      /\ res[o].withdrawal \subseteq saved
      /\ tx[o] \notin torn

\* While no block is undone, every record on disk describes an event that is
\* on L2: the withdrawal can be proved from it.
RecordsAreProvable ==
  reorgs = 0 =>
    \A r \in saved :
      /\ InBlock("L2", r.tx)
      /\ Receipt("L2", r.tx).outcome = "logged"
      /\ LogOf(Receipt("L2", r.tx)) = r

-----------------------------------------------------------------------------
(* What a comment says and the code does not keep: a run refutes it.       *)

\* cmd/bridge/run.go:135 "A deposit that reached L1 reports its hashes": not
\* when the node's answer to the broadcast was lost.
MovedIsReported ==
  \A o \in Ops :
    Kind[o] = "deposit" /\ pc[o] = "done" /\ err[o] # "crashed" /\ Moved(o)
      => res[o].src

-----------------------------------------------------------------------------
(* Steps.                                                                  *)

\* A run that reads its nonce after another run's broadcast was accepted does
\* not build a transaction that competes with it.
RetryTakesFreshNonce ==
  [][evictions = 0 =>
       \A o, p \in Ops :
         Acked(o) /\ pc[p] = "nonce" /\ pc'[p] = "fees" /\ Chain(o) = Chain(p)
           => tx'[p].nonce # tx[o].nonce]_vars

\* A complete record stays on disk as it is: later runs never open its file.
RecordsKept ==
  [][evictions = 0 => saved \subseteq saved']_vars

\* bridge.go:440-444: a wait does not go on past a credit.  A deposit whose
\* balance reading does not end the wait is not credited yet, as long as the
\* destination pays nothing out and no block is undone.
NoCreditOverlooked ==
  [][spent = 0 /\ reorgs = 0 =>
       \A o \in Ops : pc[o] = "credit" /\ pc'[o] = "creditCheck" =>
         relayed <= tx[o].nonce]_vars

-----------------------------------------------------------------------------
(* Progress.                                                               *)

\* The chains go on.
ChainFairSpec ==
  /\ Spec
  /\ \A c \in Chains : WF_vars(Mine(c) /\ UNCHANGED <<opVars, diskVars>>)

\* An accepted transaction does not stay pending for ever: it is mined, or
\* one that took its nonce is.
NonceSettles ==
  \A o \in Ops : Acked(o) ~> Len(mined[Chain(o)]) > tx[o].nonce

-----------------------------------------------------------------------------
(* The promise of Transfer.                                                *)

Verdict(o) ==
  CASE pc[o] # "done"      -> "pending"
    [] Ok(o)               -> "succeeded"
    [] Ended(o, "crashed") -> "failed"
    [] OTHER -> IF err[o] \in Refusals THEN "refused" ELSE "failed"

Promise == INSTANCE Transfer WITH
  verdict <- [o \in Ops |-> Verdict(o)],
  moved <- [o \in Ops |-> Moved(o)]

\* While no block is undone, every run keeps the promise of Transfer.
KeepsPromise == Promise!TSpec
=============================================================================
