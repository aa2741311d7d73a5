------------------------------ MODULE MCConfig ------------------------------
(***************************************************************************)
(* Two accounts and the zero address, two chains, and environments that are*)
(* meant and accepted.                                                     *)
(***************************************************************************)
EXTENDS Config, TLC

People == {"alice", "bob"}
Nobody == "0x0"
Accounts == People \cup {Nobody}
Networks == {"1", "2"}
Keys == {"keyOfAlice", "keyOfBob"}
KeyOwner == ("keyOfAlice" :> "alice") @@ ("keyOfBob" :> "bob")
Endpoints == {"url1", "url2"}

None == [v \in Overrides \cup {"WITHDRAWALS_DIR"} |-> Unset]
Bridging == None @@ ("SOURCE_ADDR" :> "alice") @@ ("DEST_ADDR" :> "bob")
  @@ ("SOURCE_CHAIN_ID" :> "1") @@ ("DEST_CHAIN_ID" :> "2")
  @@ ("SOURCE_PK" :> "keyOfAlice")
  @@ ("SOURCE_RPC_URL" :> "url1") @@ ("DEST_RPC_URL" :> "url2")
OnOneChain == ("DEST_CHAIN_ID" :> "1") @@ ("DEST_RPC_URL" :> Unset) @@ Bridging
Overridden == ("L1_STANDARD_BRIDGE" :> "bob") @@ Bridging
=============================================================================
