------------------------------- MODULE MCCli -------------------------------
(***************************************************************************)
(* Small instances of Cli: two processes at a time, with every way their   *)
(* arguments can be good or bad.                                           *)
(***************************************************************************)
EXTENDS Cli, MCConfig

CONSTANTS a, b  \* processes

Pair == {a, b}
DepositAndTransfer == (a :> "deposit") @@ (b :> "same-chain")
DepositAndWithdrawal == (a :> "deposit") @@ (b :> "withdraw")
OneEach == [o \in Pair |-> 1]
Supplied == [o \in Pair |-> TRUE]

\* One wei and a half, of which one is sent; nothing; and 10^12, beyond what
\* a float of this instance holds.
Some == [decimal |-> TRUE, n |-> 15, x |-> -3]
Zero == [decimal |-> TRUE, n |-> 0, x |-> 0]
Vast == [decimal |-> TRUE, n |-> 1, x |-> 12]

Send(env) == [sub |-> "send", amount |-> {Some}, env |-> env]
SendAlone == {Send(Bridging)}
OneOfAKind ==
  {Send(Bridging), Send(OnOneChain), Send([Bridging EXCEPT !["SOURCE_PK"] = "keyOfBob"])}
  \cup {[Send(Bridging) EXCEPT !.amount = m] : m \in {{}, {Zero}, {Vast}}}
  \cup {[Send(Bridging) EXCEPT !.sub = s] : s \in {"version", "unknown"}}
=============================================================================
