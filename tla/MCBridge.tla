------------------------------ MODULE MCBridge ------------------------------
(***************************************************************************)
(* Small instances of Bridge: two or three runs of the tool at a time.     *)
(***************************************************************************)
EXTENDS BridgeProperties, TLC

CONSTANTS a, b, c, d  \* runs

Pair == {a, b}
Three == {a, b, c}
Four == {a, b, c, d}

TwoDeposits == [o \in Pair |-> "deposit"]
ThreeWithdrawals == [o \in Three |-> "withdraw"]
DepositAndTransfer == (a :> "deposit") @@ (b :> "same-chain")
DepositAndWithdrawal == (a :> "deposit") @@ (b :> "withdraw")
AndRefused == DepositAndWithdrawal @@ (c :> "deposit") @@ (d :> "same-chain")

OneEach == [o \in Pair |-> 1]
OneOfThree == [o \in Three |-> 1]
LastIsNothing == [o \in Four |-> IF o = d THEN 0 ELSE 1]

Supplied == [o \in Pair |-> TRUE]
SuppliedToThree == [o \in Three |-> TRUE]
NotToTheThird == [o \in Four |-> o # c]

\* Bound: states past a refusal or a deadline are not explored, nor those past
\* a crash that tears no record.  A run refused before its broadcast is as good
\* as absent; one that crashes, gives up or times out after it leaves behind
\* what one that cannot read its receipt does.
NoneAbsent ==
  \A o \in Ops :
    /\ ~late[o]
    /\ pc[o] = "done" => err[o] \notin Refusals \cup {"receipt context"}
    /\ Ended(o, "crashed") => tx[o] \in torn

\* Bound: the runs that are refused at once come first.  They change nothing,
\* so it makes no difference when they come.
RefusedFirst == pc[a] # "start" \/ pc[b] # "start" => pc[c] = "done" /\ pc[d] = "done"

\* The runs of this instance are alike.
AlikeThree == Permutations(Three)
=============================================================================
