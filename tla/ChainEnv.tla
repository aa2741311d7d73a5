------------------------------ MODULE ChainEnv ------------------------------
(***************************************************************************)
(* The two Ethereum nodes the bridge talks to, as far as the bridge can    *)
(* tell them apart: for each chain the operator's transactions that wait   *)
(* in the pool and those that are in a block, and the ETH balance of the   *)
(* destination address on L2.                                              *)
(*                                                                         *)
(* None of this is code of the repository.  It is what bridge.go expects   *)
(* of chain.Client (src/internal/chain/client.go) and of the OP Stack: one *)
(* account signs everything, a nonce is used once, a pending transaction   *)
(* gives way only to one that pays more, and L1 deposits are credited on   *)
(* L2 in the order of their L1 blocks.                                     *)
(***************************************************************************)
EXTENDS Integers, Sequences, FiniteSets

CONSTANTS
  Fees,            \* fee caps a node may make the tool offer
  InitialBalance,  \* what the destination holds on L2 at the start
  MaxGifts,        \* bound: payments to the destination by third parties
  MaxSpends,       \* bound: payments the destination makes
  MaxReorgs,       \* bound: blocks that are undone
  MaxEvictions     \* bound: transactions a node drops from its pool

ASSUME FeesAssumption == Fees \subseteq Nat \ {0}
ASSUME BalanceAssumption == InitialBalance \in Nat
ASSUME BoundsAssumption ==
  /\ MaxGifts \in Nat
  /\ MaxSpends \in Nat
  /\ MaxReorgs \in Nat
  /\ MaxEvictions \in Nat

VARIABLES
  pool,      \* pool[c]: the operator's transactions chain c has not mined yet
  mined,     \* mined[c]: its mined transactions; the one with nonce n is at n + 1
  bal,       \* the destination's balance on L2
  minted,    \* what deposits have credited to it so far
  relayed,   \* how many entries of mined["L1"] L2 has derived
  gifts,     \* payments to the destination that no deposit made
  spent,     \* payments the destination made
  reorgs,    \* blocks undone so far; a mined entry carries the value it was mined at
  evictions  \* transactions dropped so far

chainVars == <<pool, mined, bal, minted, relayed, gifts, spent, reorgs, evictions>>

Chains == {"L1", "L2"}
Kinds == {"same-chain", "deposit", "withdraw"}

\* A transaction is its content: two transactions with the same fields have
\* the same hash.  Fee 0 marks a draft, which is not signed yet.
Tx == [nonce : Nat, kind : Kinds, amount : Nat, fee : Nat]

\* "reverted", or successful without ("silent") or with ("logged") the event
\* of the bridge contract.
Outcomes == {"reverted", "silent", "logged"}
Entry == [tx : Tx, outcome : Outcomes, fork : Nat]

\* An event in a block: what L2TxHash and ParseMessagePassed derive from.
Log == [tx : Tx, fork : Nat]

ChainTypeOK ==
  /\ pool \in [Chains -> SUBSET Tx]
  /\ mined \in [Chains -> Seq(Entry)]
  /\ bal \in Nat
  /\ minted \in Nat
  /\ relayed \in 0 .. Len(mined["L1"])
  /\ gifts \in 0 .. MaxGifts
  /\ spent \in 0 .. MaxSpends
  /\ reorgs \in 0 .. MaxReorgs
  /\ evictions \in 0 .. MaxEvictions

ChainInit ==
  /\ pool = [c \in Chains |-> {}]
  /\ mined = [c \in Chains |-> <<>>]
  /\ bal = InitialBalance
  /\ minted = 0
  /\ relayed = 0
  /\ gifts = 0
  /\ spent = 0
  /\ reorgs = 0
  /\ evictions = 0

-----------------------------------------------------------------------------
(* What a node answers.                                                    *)

InBlock(c, t) == t.nonce < Len(mined[c]) /\ mined[c][t.nonce + 1].tx = t
Receipt(c, t) == mined[c][t.nonce + 1]
LogOf(e) == [tx |-> e.tx, fork |-> e.fork]

\* eth_getTransactionCount at "pending": the first nonce that is neither
\* mined nor occupied in the pool (a set of one element).
PendingNonces(c) ==
  LET base == Len(mined[c])
      taken == {t.nonce : t \in pool[c]}
  IN  {n \in base .. base + Cardinality(pool[c]) :
         n \notin taken /\ base .. n - 1 \subseteq taken}

Rivals(c, t) == {u \in pool[c] : u.nonce = t.nonce}

\* A node refuses a used nonce, a transaction it already has, and one that
\* does not outbid the pending transaction of the same nonce.
Acceptable(c, t) ==
  /\ t.nonce >= Len(mined[c])
  /\ \A u \in Rivals(c, t) : t.fee > u.fee

Accept(c, t) == pool' = [pool EXCEPT ![c] = (@ \ Rivals(c, t)) \cup {t}]

-----------------------------------------------------------------------------
(* What happens on the chains by itself.                                   *)

\* The next nonce in order is mined; calldata decides what comes of it.
Mine(c) ==
  \E t \in pool[c], out \in Outcomes :
    /\ t.nonce = Len(mined[c])
    /\ out = "logged" => t.kind # "same-chain"
    /\ pool' = [pool EXCEPT ![c] = @ \ {t}]
    /\ mined' = [mined EXCEPT ![c] =
                   Append(@, [tx |-> t, outcome |-> out, fork |-> reorgs])]
    /\ UNCHANGED <<bal, minted, relayed, gifts, spent, reorgs, evictions>>

\* L2 derives the next L1 transaction, crediting the destination if it is a
\* deposit the portal logged.
Relay ==
  /\ relayed < Len(mined["L1"])
  /\ LET e == mined["L1"][relayed + 1]
         credit == IF e.outcome = "logged" THEN e.tx.amount ELSE 0
     IN  /\ bal' = bal + credit
         /\ minted' = minted + credit
  /\ relayed' = relayed + 1
  /\ UNCHANGED <<pool, mined, gifts, spent, reorgs, evictions>>

\* Somebody else pays the destination on L2.
Gift ==
  /\ gifts < MaxGifts
  /\ gifts' = gifts + 1
  /\ bal' = bal + 1
  /\ UNCHANGED <<pool, mined, minted, relayed, spent, reorgs, evictions>>

\* The destination pays somebody else.
Spend ==
  /\ spent < MaxSpends
  /\ bal > 0
  /\ spent' = spent + 1
  /\ bal' = bal - 1
  /\ UNCHANGED <<pool, mined, minted, relayed, gifts, reorgs, evictions>>

\* A node drops a pending transaction.
Evict(c) ==
  /\ evictions < MaxEvictions
  /\ \E t \in pool[c] : pool' = [pool EXCEPT ![c] = @ \ {t}]
  /\ evictions' = evictions + 1
  /\ UNCHANGED <<mined, bal, minted, relayed, gifts, spent, reorgs>>

\* The last block is undone and its transaction is pending again.  L1 blocks
\* are undone only until L2 has derived them.
Reorg(c) ==
  /\ reorgs < MaxReorgs
  /\ mined[c] # <<>>
  /\ c = "L1" => relayed < Len(mined[c])
  /\ mined' = [mined EXCEPT ![c] = SubSeq(@, 1, Len(@) - 1)]
  /\ pool' = [pool EXCEPT ![c] = @ \cup {mined[c][Len(mined[c])].tx}]
  /\ reorgs' = reorgs + 1
  /\ UNCHANGED <<bal, minted, relayed, gifts, spent, evictions>>
=============================================================================
