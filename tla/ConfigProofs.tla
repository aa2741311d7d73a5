---------------------------- MODULE ConfigProofs ----------------------------
(***************************************************************************)
(* What can be relied on of an environment that Load accepts, for any      *)
(* accounts, chains, keys and endpoints.                                   *)
(***************************************************************************)
EXTENDS Config, TLAPS

LEMMA OrderIsVariables ==
  /\ \A v \in Variables : \E i \in DOMAIN Order : v = Order[i]
  /\ Overrides \cup {"SOURCE_ADDR", "SOURCE_PK", "SOURCE_RPC_URL", "DEST_RPC_URL"} \subseteq Variables
<1>1. \A v \in Variables : \E i \in DOMAIN Order : v = Order[i]
  BY DEF Variables
<1>2. /\ Order[1] = "SOURCE_ADDR" /\ Order[5] = "SOURCE_PK"
      /\ Order[6] = "SOURCE_RPC_URL" /\ Order[7] = "DEST_RPC_URL"
      /\ Order[8] = "L1_STANDARD_BRIDGE" /\ Order[9] = "L2_STANDARD_BRIDGE"
      /\ Order[10] = "OPTIMISM_PORTAL" /\ DOMAIN Order = 1 .. 10
  BY DEF Order
<1> QED
  BY <1>1, <1>2 DEF Variables, Overrides

LEMMA OrderIsChains == {"SOURCE_CHAIN_ID", "DEST_CHAIN_ID"} \subseteq Variables
<1>1. Order[3] = "SOURCE_CHAIN_ID" /\ Order[4] = "DEST_CHAIN_ID" /\ DOMAIN Order = 1 .. 10
  BY DEF Order
<1> QED
  BY <1>1 DEF Variables

LEMMA NoFaultIsFound ==
  ASSUME NEW env, NEW cfg \in Load(env).cfg
  PROVE  /\ cfg = Built(env)
         /\ \A v \in Variables : ~Missing(env, v) /\ ~Invalid(env, v)
<1>1. Faulty(env) = {}
  BY DEF Load
<1>2. cfg = Built(env)
  BY <1>1 DEF Load
<1>3. \A i \in DOMAIN Order : ~Missing(env, Order[i]) /\ ~Invalid(env, Order[i])
  BY <1>1 DEF Faulty
<1> QED
  BY <1>2, <1>3, OrderIsVariables

\* It signs for its source account, and has the endpoint of each of its chains.
Usable(env, cfg) ==
  /\ AddressOf[cfg.sourceKey] = cfg.sourceAddr
  /\ RPCFor(cfg, cfg.sourceChainID) = {env["SOURCE_RPC_URL"]}
  /\ ~OneChain(env) => RPCFor(cfg, cfg.destChainID) = {env["DEST_RPC_URL"]}
  /\ Unset \notin RPCFor(cfg, cfg.sourceChainID) \cup RPCFor(cfg, cfg.destChainID)

LEMMA LoadedIsUsable ==
  ASSUME NEW env, NEW cfg \in Load(env).cfg
  PROVE  Usable(env, cfg)
<1>1. /\ cfg = Built(env)
      /\ \A v \in {"SOURCE_ADDR", "SOURCE_PK", "SOURCE_RPC_URL", "DEST_RPC_URL"} :
           ~Missing(env, v) /\ ~Invalid(env, v)
  BY NoFaultIsFound, OrderIsVariables
<1>2. env["SOURCE_PK"] \in DerivesToSource(env)
  BY <1>1 DEF Missing, Invalid, Required, Read, Holds, Overrides
<1>3. Unset \notin URL \cup {Malformed}
  BY ConfigAssumption DEF Unset, Malformed
<1>4. env["SOURCE_RPC_URL"] \in URL \cup {Malformed}
  BY <1>1 DEF Missing, Invalid, Required, Read, Holds, Overrides
<1>5. ~OneChain(env) => env["DEST_RPC_URL"] \in URL \cup {Malformed}
  BY <1>1 DEF Missing, Invalid, Required, Read, Holds, Overrides
<1>6. /\ cfg.sourceKey = env["SOURCE_PK"] /\ cfg.sourceAddr = env["SOURCE_ADDR"]
      /\ cfg.sourceChainID = env["SOURCE_CHAIN_ID"] /\ cfg.destChainID = env["DEST_CHAIN_ID"]
      /\ cfg.sourceRPCURL = env["SOURCE_RPC_URL"]
      /\ ~OneChain(env) => cfg.destRPCURL = env["DEST_RPC_URL"]
  BY <1>1 DEF Built
<1>7. AddressOf[cfg.sourceKey] = cfg.sourceAddr
  BY <1>2, <1>6 DEF DerivesToSource
<1>8. RPCFor(cfg, cfg.sourceChainID) = {env["SOURCE_RPC_URL"]}
  BY <1>6 DEF RPCFor
<1>9. ~OneChain(env) => RPCFor(cfg, cfg.destChainID) = {env["DEST_RPC_URL"]}
  BY <1>6 DEF RPCFor, OneChain
<1>10. OneChain(env) => cfg.destChainID = cfg.sourceChainID
  BY <1>6 DEF OneChain
<1> QED
  BY <1>3, <1>4, <1>5, <1>7, <1>8, <1>9, <1>10 DEF Usable

\* What is set for a chain is what is dialed, be it a URL or not.
LEMMA LoadedIsDialed ==
  ASSUME NEW env, NEW cfg \in Load(env).cfg
  PROVE  /\ OneChain(env) <=> cfg.destChainID = cfg.sourceChainID
         /\ env["SOURCE_RPC_URL"] \in URL \cup {Malformed}
         /\ ~OneChain(env) => env["DEST_RPC_URL"] \in URL \cup {Malformed}
<1>1. /\ cfg = Built(env)
      /\ \A v \in {"SOURCE_RPC_URL", "DEST_RPC_URL"} : ~Missing(env, v) /\ ~Invalid(env, v)
  BY NoFaultIsFound, OrderIsVariables
<1>2. cfg.sourceChainID = env["SOURCE_CHAIN_ID"] /\ cfg.destChainID = env["DEST_CHAIN_ID"]
  BY <1>1 DEF Built
<1> QED
  BY <1>1, <1>2 DEF OneChain, Missing, Invalid, Required, Read, Holds, Overrides

\* The zero address, which an override is left at, stands for no other value.
LEMMA LoadedKeepsOverrides ==
  ASSUME NEW env, NEW cfg \in Load(env).cfg, NEW v \in Overrides
  PROVE  IF env[v] \in {Unset, ZeroAddress} THEN cfg.overrides[v] = ZeroAddress
         ELSE cfg.overrides[v] = env[v] /\ cfg.overrides[v] # ZeroAddress
<1>1. cfg = Built(env) /\ ~Invalid(env, v)
  BY NoFaultIsFound, OrderIsVariables
<1>2. env[v] \in Address \cup {Unset}
  BY <1>1 DEF Invalid, Read, Holds, Overrides
<1>3. Unset \notin Address /\ ZeroAddress \in Address
  BY ConfigAssumption
<1>4. cfg.overrides[v] = IF env[v] \in Address THEN env[v] ELSE ZeroAddress
  BY <1>1 DEF Built
<1> QED
  BY <1>2, <1>3, <1>4

\* The fault that decides is one, and all that is looked at before it is as it
\* should be.
LEMMA FaultIsFirst ==
  ASSUME NEW env, Faulty(env) # {}
  PROVE  LET i == CHOOSE i \in FirstFault(env) : TRUE
         IN  /\ i \in DOMAIN Order
             /\ Missing(env, Order[i]) \/ Invalid(env, Order[i])
             /\ \A j \in DOMAIN Order : j < i => ~Missing(env, Order[j]) /\ ~Invalid(env, Order[j])
<1>1. DOMAIN Order = 1 .. 10
  BY DEF Order
<1>2. Faulty(env) \subseteq 1 .. 10
  BY <1>1 DEF Faulty
<1>3. \E i \in Faulty(env) : \A j \in Faulty(env) : i <= j
  <2> HIDE DEF Faulty
  <2> QED
    BY <1>2
<1>4. FirstFault(env) # {}
  BY <1>3 DEF FirstFault
<1> DEFINE i == CHOOSE i \in FirstFault(env) : TRUE
<1>5. i \in FirstFault(env)
  BY <1>4
<1>6. i \in Faulty(env) /\ \A j \in Faulty(env) : i <= j
  BY <1>5 DEF FirstFault
<1> HIDE DEF i
<1>7. /\ i \in 1 .. 10 /\ (Missing(env, Order[i]) \/ Invalid(env, Order[i]))
      /\ \A j \in 1 .. 10 : j < i => j \notin Faulty(env)
  BY <1>1, <1>6 DEF Faulty
<1>8. \A j \in DOMAIN Order : j < i => ~Missing(env, Order[j]) /\ ~Invalid(env, Order[j])
  BY <1>1, <1>7 DEF Faulty
<1> QED
  BY <1>1, <1>7, <1>8 DEF i

\* A value that is read as it is meant is at fault only if the meaning is.
LEMMA SameIsAsGood ==
  ASSUME NEW env, NEW meant, NEW v \in Variables,
         \A w \in Blamed(env, v) : env[w] = meant[w],
         v = "DEST_RPC_URL" => (OneChain(env) <=> OneChain(meant)),
         Missing(env, v) \/ Invalid(env, v)
  PROVE  Missing(meant, v) \/ Invalid(meant, v)
<1>1. v \in Blamed(env, v)
  BY DEF Blamed
<1>2. env[v] = meant[v] /\ (Read(env, v) <=> Read(meant, v))
  BY <1>1 DEF Read
<1>3. CASE v # "SOURCE_PK"
  <2>1. /\ DOMAIN Order = 1 .. 10
        /\ \A i \in 1 .. 10 : Order[i] \in {"SOURCE_ADDR", "DEST_ADDR", "SOURCE_CHAIN_ID", "DEST_CHAIN_ID",
                                            "SOURCE_PK", "SOURCE_RPC_URL", "DEST_RPC_URL"} \cup Overrides
    BY DEF Order, Overrides
  <2>2. v \in {"SOURCE_ADDR", "DEST_ADDR", "SOURCE_CHAIN_ID", "DEST_CHAIN_ID",
               "SOURCE_RPC_URL", "DEST_RPC_URL"} \cup Overrides
    BY <1>3, <2>1 DEF Variables
  <2>3. Holds(env, v) = Holds(meant, v)
    BY <2>2 DEF Holds, Overrides
  <2> QED
    BY <1>2, <2>3 DEF Missing, Invalid
<1>4. CASE v = "SOURCE_PK" /\ env[v] \in Key
  <2>1. env["SOURCE_ADDR"] = meant["SOURCE_ADDR"]
    BY <1>4 DEF Blamed
  <2>2. Holds(env, v) = Holds(meant, v)
    BY <1>4, <2>1 DEF Holds, DerivesToSource
  <2> QED
    BY <1>2, <2>2 DEF Missing, Invalid
<1>5. CASE v = "SOURCE_PK" /\ env[v] \notin Key
  <2>1. meant[v] \notin Holds(meant, v)
    BY <1>2, <1>5 DEF Holds, DerivesToSource, Overrides
  <2> QED
    BY <1>2, <1>5, <2>1 DEF Missing, Invalid
<1> QED
  BY <1>3, <1>4, <1>5

\* Whatever is mistaken besides, an error names a variable that is: none is
\* complained about for another's sake.
LEMMA LoadComplainsTruly ==
  ASSUME NEW env, NEW meant, Faulty(meant) = {},
         \A v \in {"SOURCE_CHAIN_ID", "DEST_CHAIN_ID"} : env[v] \in {Unset, Malformed, meant[v]},
         Load(env).err # "nil"
  PROVE  \E v \in Load(env).names : env[v] # meant[v]
<1> DEFINE i == CHOOSE i \in FirstFault(env) : TRUE
           v == Order[i]
<1>1. Faulty(env) # {}
  BY DEF Load
<1>2. Load(env).names = Blamed(env, v)
  BY <1>1 DEF Load
<1>3. /\ i \in DOMAIN Order /\ (Missing(env, v) \/ Invalid(env, v))
      /\ \A j \in DOMAIN Order : j < i => ~Missing(env, Order[j]) /\ ~Invalid(env, Order[j])
  BY <1>1, FaultIsFirst
<1>4. v \in Variables /\ ~Missing(meant, v) /\ ~Invalid(meant, v)
  BY <1>3 DEF Faulty, Variables
<1>5. ASSUME v = "DEST_RPC_URL" PROVE OneChain(env) <=> OneChain(meant)
  <2>1. i = 7 /\ 3 \in DOMAIN Order /\ 4 \in DOMAIN Order
        /\ Order[3] = "SOURCE_CHAIN_ID" /\ Order[4] = "DEST_CHAIN_ID"
    BY <1>3, <1>5 DEF Order
  <2>2. \A w \in {"SOURCE_CHAIN_ID", "DEST_CHAIN_ID"} : ~Missing(env, w) /\ ~Invalid(env, w)
    BY <1>3, <2>1
  <2>3. \A w \in {"SOURCE_CHAIN_ID", "DEST_CHAIN_ID"} : env[w] \in ChainID
    BY <2>2 DEF Missing, Invalid, Read, Required, Holds, Overrides
  <2>4. \A w \in {"SOURCE_CHAIN_ID", "DEST_CHAIN_ID"} : env[w] = meant[w]
    BY <2>3, ConfigAssumption
  <2> QED
    BY <2>4 DEF OneChain
<1>6. ASSUME \A w \in Blamed(env, v) : env[w] = meant[w] PROVE FALSE
  <2> HIDE DEF v
  <2> QED
    BY <1>3, <1>4, <1>5, <1>6, SameIsAsGood
<1> QED
  BY <1>2, <1>6
=============================================================================
