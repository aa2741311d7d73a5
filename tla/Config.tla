------------------------------- MODULE Config -------------------------------
(***************************************************************************)
(* internal/config: which environments Load accepts, what it makes of one, *)
(* and which variable it complains about first.                            *)
(*                                                                         *)
(* A value is Unset (also one of blanks only), Malformed (set, and nothing *)
(* its variable can hold), or what it is read as: an address, a chain ID   *)
(* that is not zero, a key, a URL.                                         *)
(*                                                                         *)
(* A definition that stands right before another of the same parameters and*)
(* is used nowhere is a mistake one could make in it; the README says which*)
(* property notices.                                                       *)
(***************************************************************************)
EXTENDS Integers

CONSTANTS
  Address,    \* account and contract addresses
  ZeroAddress,\* common.Address{}, which a variable can hold and may stand for none
  ChainID,
  Key,        \* private keys
  AddressOf,  \* AddressOf[k]: the address key k derives to
  URL

Unset == "unset"
Malformed == "malformed"

ASSUME ConfigAssumption ==
  /\ ZeroAddress \in Address
  /\ AddressOf \in [Key -> Address]
  /\ {Unset, Malformed} \cap (Address \cup ChainID \cup Key \cup URL) = {}

\* The order in which Load looks at the variables.
Order == << "SOURCE_ADDR", "DEST_ADDR", "SOURCE_CHAIN_ID", "DEST_CHAIN_ID",
            "SOURCE_PK", "SOURCE_RPC_URL", "DEST_RPC_URL",
            "L1_STANDARD_BRIDGE", "L2_STANDARD_BRIDGE", "OPTIMISM_PORTAL" >>
Overrides == {"L1_STANDARD_BRIDGE", "L2_STANDARD_BRIDGE", "OPTIMISM_PORTAL"}
Variables == {Order[i] : i \in DOMAIN Order}

DefaultWithdrawalsDir == "withdrawals"
EnvVars == Variables \cup {"WITHDRAWALS_DIR"}

-----------------------------------------------------------------------------
OneChain(env) == env["SOURCE_CHAIN_ID"] = env["DEST_CHAIN_ID"]

\* A same-chain transfer needs no second endpoint and does not look for one.
ReadAlways(env, v) == TRUE
Read(env, v) == v = "DEST_RPC_URL" => ~OneChain(env)

Required(v) == v \notin Overrides

DerivesToAny(env) == Key
DerivesToSource(env) == {k \in Key : AddressOf[k] = env["SOURCE_ADDR"]}

Holds(env, v) ==
  CASE v \in {"SOURCE_ADDR", "DEST_ADDR"} \cup Overrides -> Address
    [] v \in {"SOURCE_CHAIN_ID", "DEST_CHAIN_ID"}       -> ChainID
    [] v = "SOURCE_PK"                                  -> DerivesToSource(env)
    [] v \in {"SOURCE_RPC_URL", "DEST_RPC_URL"}         -> URL \cup {Malformed}

Missing(env, v) == Read(env, v) /\ Required(v) /\ env[v] = Unset

\* An optional variable that cannot be read is taken for one that is not set.
InvalidIfRequired(env, v) == Required(v) /\ Read(env, v) /\ env[v] \notin Holds(env, v) \cup {Unset}
Invalid(env, v) == Read(env, v) /\ env[v] \notin Holds(env, v) \cup {Unset}

\* The first variable at fault decides what Load returns.
Faulty(env) == {i \in DOMAIN Order : Missing(env, Order[i]) \/ Invalid(env, Order[i])}
FirstFault(env) == {i \in Faulty(env) : \A j \in Faulty(env) : i <= j}

\* A key that derives to another address is complained about together with
\* the address.
BlamedAlone(env, v) == {v}
Blamed(env, v) ==
  IF v = "SOURCE_PK" /\ env[v] \in Key THEN {"SOURCE_PK", "SOURCE_ADDR"} ELSE {v}

\* The Config of an environment without faults.  An override that is not set
\* and one that is set to the zero address are the same from here on.
Built(env) ==
  [ sourceAddr |-> env["SOURCE_ADDR"], destAddr |-> env["DEST_ADDR"],
    sourceChainID |-> env["SOURCE_CHAIN_ID"], destChainID |-> env["DEST_CHAIN_ID"],
    sourceKey |-> env["SOURCE_PK"],
    sourceRPCURL |-> env["SOURCE_RPC_URL"],
    destRPCURL |-> IF OneChain(env) THEN env["SOURCE_RPC_URL"] ELSE env["DEST_RPC_URL"],
    overrides |-> [v \in Overrides |-> IF env[v] \in Address THEN env[v] ELSE ZeroAddress],
    withdrawalsDir |-> IF env["WITHDRAWALS_DIR"] = Unset THEN DefaultWithdrawalsDir
                       ELSE env["WITHDRAWALS_DIR"] ]

\* Load: the error, the variables it names, and the Config (or none).
Load(env) ==
  IF Faulty(env) = {}
  THEN [err |-> "nil", names |-> {}, cfg |-> {Built(env)}]
  ELSE LET v == Order[CHOOSE i \in FirstFault(env) : TRUE]
       IN  [err |-> IF Missing(env, v) THEN "ErrMissing" ELSE "ErrInvalid",
            names |-> Blamed(env, v), cfg |-> {}]

\* RPCFor: the endpoint of a configured chain (none for any other).
RPCFor(cfg, id) ==
  CASE id = cfg.sourceChainID -> {cfg.sourceRPCURL}
    [] id = cfg.destChainID /\ id # cfg.sourceChainID -> {cfg.destRPCURL}
    [] OTHER -> {}
=============================================================================
