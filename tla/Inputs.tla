------------------------------- MODULE Inputs -------------------------------
(***************************************************************************)
(* What the tool is given from outside and judges before it relies on it:  *)
(* the amount and the environment of an invocation, a node's gas estimate, *)
(* and the logs of a receipt.  Each is given once and judged once, except  *)
(* that an operator whose environment is refused corrects a variable that  *)
(* the error names and tries again.                                        *)
(*                                                                         *)
(* Numbers, Config and Decode are the judgements.  What is given is a      *)
(* constant set of inputs of each kind.                                    *)
(***************************************************************************)
EXTENDS Numbers, Config, Decode

CONSTANTS
  AmountTexts,   \* what --amount may be
  Estimates,     \* what eth_estimateGas may answer
  Environments,  \* the environment that is there, and the one that is meant
  Receipts       \* [topic, sent, logs, harm]: the event a contract emitted, and
                 \* the logs the node answers with

\* Words of the event's fixed part, and its bytes.
Events == [words : Seq(Nat), payload : Seq(Nat)]

\* "none": the event as it was emitted, among other logs.  "cut": its data
\* ends within what it declares.  "any": anything else.
Harms == {"none", "cut", "any"}

\* A log's data has a length, a slice's, and a number wherever it is read.
ReadableLog(log) ==
  /\ log.data.len \in 0 .. MaxInt64
  /\ \A i \in DOMAIN log.data.word : log.data.word[i] \in Nat

\* The contracts' encoding of an event: the numbers that stand before its
\* payload, and where the payload begins.  The offset of a deposit's bytes,
\* which nobody reads, is left out.
Field(at, n, value) == [at |-> at, n |-> n, value |-> value]
Fields(topic, e) ==
  IF topic = "MessagePassed"
  THEN { Field(0, WordLen, e.words[1]), Field(WordLen, WordLen, e.words[2]),
         Field(2 * WordLen, WordLen, 4 * WordLen), Field(3 * WordLen, WordLen, e.words[3]),
         Field(4 * WordLen, WordLen, Len(e.payload)) }
  ELSE { Field(WordLen, WordLen, 2 * WordLen + GasLen + 1 + Len(e.payload)),
         Field(2 * WordLen, WordLen, e.words[1]), Field(3 * WordLen, WordLen, e.words[2]),
         Field(4 * WordLen, GasLen, e.words[3]), Field(4 * WordLen + GasLen, 1, e.words[4]) }
PayloadFrom(topic) ==
  IF topic = "MessagePassed" THEN 5 * WordLen ELSE 4 * WordLen + GasLen + 1

\* The data is that encoding, as far as the data goes.
Encodes(data, topic, e) ==
  /\ \A f \in Fields(topic, e) : f.at + f.n <= data.len =>
       f.at \in DOMAIN data.word /\ data.word[f.at] = f.value
  /\ \A i \in DOMAIN e.payload : PayloadFrom(topic) + i <= data.len =>
       /\ PayloadFrom(topic) + i - 1 \in DOMAIN data.word
       /\ data.word[PayloadFrom(topic) + i - 1] = e.payload[i]

Ends(topic, e) == PayloadFrom(topic) + Len(e.payload)

\* The log that is the event: the first with its topic.
Carriers(r) ==
  {i \in DOMAIN r.logs : /\ HasTopic(r.logs[i], r.topic)
                         /\ \A j \in DOMAIN r.logs : j < i => ~HasTopic(r.logs[j], r.topic)}

\* An environment whose values are what they should be and fit each other.
FitsTogether(env) ==
  /\ {env["SOURCE_ADDR"], env["DEST_ADDR"]} \subseteq Address
  /\ {env["SOURCE_CHAIN_ID"], env["DEST_CHAIN_ID"]} \subseteq ChainID
  /\ env["SOURCE_PK"] \in Key /\ AddressOf[env["SOURCE_PK"]] = env["SOURCE_ADDR"]
  /\ env["SOURCE_RPC_URL"] \in URL
  /\ env["SOURCE_CHAIN_ID"] # env["DEST_CHAIN_ID"] => env["DEST_RPC_URL"] \in URL
  /\ \A v \in Overrides : env[v] \in Address \cup {Unset}

ASSUME InputsAssumption ==
  /\ AmountTexts \subseteq Texts
  /\ Estimates \subseteq 0 .. Uint64s - 1
  /\ \A e \in Environments : DOMAIN e.env = EnvVars /\ DOMAIN e.meant = EnvVars
  /\ \A r \in Receipts :
       /\ r.topic \in Topics /\ r.harm \in Harms
       /\ \A i \in DOMAIN r.logs : ReadableLog(r.logs[i])

\* The operator means an environment that fits together.  Of the chains that
\* there are, nobody else can tell which are meant: a chain ID that is wrong is
\* missing, or cannot be read.
ASSUME MeantAssumption ==
  \A e \in Environments :
    /\ FitsTogether(e.meant)
    /\ \A v \in {"SOURCE_CHAIN_ID", "DEST_CHAIN_ID"} : e.env[v] \in {Unset, Malformed, e.meant[v]}

\* What becomes of an event on its way.
ASSUME HarmAssumption ==
  \A r \in Receipts :
    /\ r.sent \in Events
    /\ Len(r.sent.words) = (IF r.topic = "MessagePassed" THEN 3 ELSE 4)
    /\ r.harm = "none" => Carriers(r) # {}
    /\ \A i \in Carriers(r) :
         LET data == r.logs[i].data
         IN  /\ r.harm # "any" => Encodes(data, r.topic, r.sent)
             /\ r.harm = "none" => /\ Len(r.logs[i].topics) = LogTopics
                                   /\ Ends(r.topic, r.sent) <= data.len
             /\ r.harm = "cut" => data.len < Ends(r.topic, r.sent)

VARIABLES
  given,  \* the input
  answer  \* what it was judged to be: nothing yet, or one answer

vars == <<given, answer>>

Init ==
  /\ \/ \E t \in AmountTexts : given = [what |-> "amount", text |-> t]
     \/ \E g \in Estimates : given = [what |-> "gas", estimate |-> g]
     \/ \E e \in Environments : given = [what |-> "env", env |-> e.env, meant |-> e.meant]
     \/ \E r \in Receipts : given = [what |-> "receipt", receipt |-> r]
  /\ answer = {}

Is(what) == given.what = what
Judge(a) == answer = {} /\ answer' = {a} /\ UNCHANGED given

ReadAmount == Is("amount") /\ Judge(ParseEther(given.text))
AddMargin == Is("gas") /\ Judge(GasLimit(given.estimate))
LoadConfig == Is("env") /\ Judge(Load(given.env))
ReadReceipt == Is("receipt") /\ Judge(Parse(given.receipt.topic, given.receipt.logs))

\* The operator looks at the variables that the error names.
Correct ==
  /\ Is("env")
  /\ \E a \in answer : \E v \in a.names :
       /\ given.env[v] # given.meant[v]
       /\ given' = [given EXCEPT !.env[v] = given.meant[v]]
  /\ answer' = {}

\* Nothing more need happen.
Finished == answer # {} /\ UNCHANGED vars

Next ==
  \/ ReadAmount \/ AddMargin \/ LoadConfig \/ ReadReceipt
  \/ Correct
  \/ Finished

Spec == Init /\ [][Next]_vars

\* The operator keeps trying.
FairSpec == Spec /\ WF_vars(LoadConfig) /\ WF_vars(Correct)

-----------------------------------------------------------------------------
(* The amount and the gas limit.                                           *)

\* The text as wei, and whether that is a whole number of them.
InWei(t) == Num(t) * Pow(10, WeiDecimals)
Exact(t) == InWei(t) % Den(t) = 0

\* Far enough below the precision that two roundings stay below one wei, and
\* no more than two decimals that wei do not have.
WithinRange(t) ==
  /\ t.decimal /\ t.n > 0 /\ t.x \in -WeiDecimals - 2 .. WeiDecimals
  /\ 4 * InWei(t) <= Den(t) * Pow(2, AmountPrec)

\* run.go:39: what is sent is never above the amount rounded up to whole wei,
\* and one below the amount rounded down at most.
AtMostOneWeiOff ==
  \A a \in answer : Is("amount") /\ WithinRange(given.text) =>
    LET t == given.text
    IN  /\ a.err # "panic"
        /\ a.wei * Den(t) \in InWei(t) - 2 * Den(t) + 1 .. InWei(t) + Den(t) - 1

\* bridge.go:320: the limit is the estimate with all of its margin, rounded
\* down once, and even where the product wraps it is never below the estimate,
\* short of the last hundredth of the range.
MarginIsKept ==
  \A a \in answer : Is("gas") =>
    LET margin == given.estimate * GasMarginPercent
    IN  /\ given.estimate + margin \div Hundred < Uint64s /\ margin < Uint64s
             => Hundred * a \in Hundred * given.estimate + margin - Hundred + 1
                                  .. Hundred * given.estimate + margin
        /\ given.estimate + Uint64s \div Hundred < Uint64s => a >= given.estimate

-----------------------------------------------------------------------------
(* The environment.                                                        *)

\* config.go:104: a refusal names a variable that really is not what the
\* operator means: none is complained about because another one is wrong, or
\* although this route has no use for it.
ComplaintIsTrue ==
  \A a \in answer : Is("env") /\ a.err # "nil" =>
    \E v \in a.names : given.env[v] # given.meant[v]

\* config.go:31-43: an accepted configuration signs for its source account,
\* and has for both of its chains the endpoint that was set for that chain.
AcceptedIsUsable ==
  \A a \in answer : Is("env") => \A cfg \in a.cfg :
    /\ AddressOf[cfg.sourceKey] = cfg.sourceAddr
    /\ RPCFor(cfg, cfg.sourceChainID) = {given.env["SOURCE_RPC_URL"]}
    /\ ~OneChain(given.env) => RPCFor(cfg, cfg.destChainID) = {given.env["DEST_RPC_URL"]}
    /\ Unset \notin RPCFor(cfg, cfg.sourceChainID) \cup RPCFor(cfg, cfg.destChainID)

\* config.go:47-49 and 139-141: what falls through to discovery is an override
\* that is not set or set to the zero address, and no other.  Anything else
\* that is set is used as it is, or the configuration is refused.
OnlyZeroIsDiscovered ==
  \A a \in answer : Is("env") => \A cfg \in a.cfg : \A v \in Overrides :
    IF given.env[v] \in {Unset, ZeroAddress} THEN cfg.overrides[v] = ZeroAddress
    ELSE cfg.overrides[v] = given.env[v] /\ cfg.overrides[v] # ZeroAddress

\* Correcting what the errors name, one variable at a time, leads to a
\* configuration that is accepted.
Settles == Is("env") ~> \E a \in answer : Is("env") /\ a.err = "nil"

-----------------------------------------------------------------------------
(* The receipt.                                                            *)

Chosen == FirstWith(given.receipt.logs, given.receipt.topic)
DataRead == given.receipt.logs[CHOOSE i \in Chosen : TRUE].data

\* deposit.go:218 and withdraw.go:128: whatever a log declares, nothing outside
\* its data is read or cut out.
InBounds ==
  \A a \in answer : Is("receipt") =>
    \A s \in a.looked : Whole(s, DataRead.len)

\* An event that is there is found, behind and before other logs, and decoded
\* to what the contract emitted.
IntactIsExact ==
  \A a \in answer : Is("receipt") /\ given.receipt.harm = "none" =>
    /\ a.err = "nil"
    /\ a.words = given.receipt.sent.words
    /\ a.payload.n = Len(given.receipt.sent.payload)
    /\ \A i \in 1 .. a.payload.n :
         DataRead.word[a.payload.at + i - 1] = given.receipt.sent.payload[i]

\* An event whose data ends before its payload does is refused and not taken
\* for one with a shorter payload.
CutIsRefused ==
  \A a \in answer : Is("receipt") /\ given.receipt.harm = "cut" => a.err # "nil"

-----------------------------------------------------------------------------
(* What a comment says and the code does not keep: each has a run that     *)
(* refutes it.                                                             *)

\* run.go:39-41 "so that a decimal ETH amount does not round on its way to an
\* integer": some do.
AmountIsExact ==
  \A a \in answer : Is("amount") /\ WithinRange(given.text) /\ Exact(given.text) =>
    a.wei = InWei(given.text) \div Den(given.text)

\* run.go:264 "ErrBadAmount is returned when --amount cannot be turned into a
\* positive number of wei": not when the number is too large for a float.
BadAmountIsRefused ==
  \A a \in answer : Is("amount") => a.err \in {"nil", "ErrBadAmount"}
=============================================================================
