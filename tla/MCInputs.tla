------------------------------ MODULE MCInputs ------------------------------
(***************************************************************************)
(* Small inputs: floats of a few bits with two decimals of a coin, words of*)
(* one byte in integers that end well below what a word can hold, and the  *)
(* environments of two accounts and two chains.                            *)
(***************************************************************************)
EXTENDS Inputs, MCConfig

-----------------------------------------------------------------------------
(* Amounts and estimates.                                                  *)

Text(n, x) == [decimal |-> TRUE, n |-> n, x |-> x]
\* Amounts of few digits, and amounts near the precision with fractions of a wei.
Decimals ==
  {Text(n, x) : n \in 1 .. 420, x \in -4 .. 0} \cup {Text(n, -4) : n \in 90000 .. 91000}
Odd == {[decimal |-> FALSE, n |-> 0, x |-> 0], Text(0, 0), Text(-3, -1),
        Text(1, -12), Text(1, -30), Text(1, 7), Text(1, 8), Text(1, 12), Text(1, 30)}
Tenths == {Text(n, -1) : n \in 1 .. 100}
SomeAmounts == Decimals \cup Odd

AllEstimates == 0 .. Uint64s - 1

-----------------------------------------------------------------------------
(* Environments.                                                           *)

\* A variable may be missing or beyond reading, and what is there may be the
\* address or the key of somebody else, or the zero address.
Mistaken(meant) ==
  [ SOURCE_ADDR : {Unset, Malformed} \cup People,
    DEST_ADDR : {"bob"},
    SOURCE_CHAIN_ID : {Unset, Malformed, meant["SOURCE_CHAIN_ID"]},
    DEST_CHAIN_ID : {Unset, Malformed, meant["DEST_CHAIN_ID"]},
    SOURCE_PK : {Unset, Malformed} \cup Keys,
    SOURCE_RPC_URL : {Unset, "url1"},
    DEST_RPC_URL : {Unset, "url2"},
    L1_STANDARD_BRIDGE : {Unset, Malformed, "bob", Nobody},
    L2_STANDARD_BRIDGE : {Unset},
    OPTIMISM_PORTAL : {Unset, Malformed, Nobody},
    WITHDRAWALS_DIR : {Unset} ]
SomeEnvironments ==
  UNION {[env : Mistaken(m), meant : {m}] : m \in {Bridging, OnOneChain, Overridden}}

-----------------------------------------------------------------------------
(* Receipts.                                                               *)

Data(s) == [len |-> Len(s), word |-> [i \in 0 .. Len(s) - 1 |-> s[i + 1]]]
Log(topics, s) == [topics |-> topics, data |-> Data(s)]
Emitted(topic, s) == Log(<<topic, "t1", "t2", "t3">>, s)

\* What the contracts emit: with the offset and the length of the bytes, and
\* padded behind them.
Padding == {<<>>, <<0>>}
DepositData(e, pad) ==
  <<1, Len(e.words) + Len(e.payload)>> \o e.words \o e.payload \o pad
MessageData(e, pad) ==
  <<e.words[1], e.words[2], 4, e.words[3], Len(e.payload)>> \o e.payload \o pad

DataOf(topic, e, pad) ==
  IF topic = "MessagePassed" THEN MessageData(e, pad) ELSE DepositData(e, pad)

\* The most a word of this instance holds, as seen from MaxInt64.
Edge == {0, 1, 3, 5, MaxInt64, MaxInt64 + 1, 2 * MaxInt64 + 1, 2 * MaxInt64 + 3, 4 * MaxInt64}

Payloads == {<<>>, <<7>>, <<7, 9>>}
Sent(topic) ==
  IF topic = "MessagePassed"
  THEN [words : {<<3, 0, 5>>, <<MaxInt64 + 1, 1, 4 * MaxInt64>>}, payload : Payloads]
  ELSE [words : {<<3, 3, 0, 0>>, <<0, MaxInt64 + 1, 5, 1>>}, payload : Payloads]

Anonymous == Log(<<>>, <<>>)
Others == {<<>>, <<Anonymous>>, <<Emitted("Transfer", <<5>>), Anonymous>>}
Second(topic) == {<<>>, <<Emitted(topic, <<>>)>>}

Around(topic, s) == {b \o <<Emitted(topic, s)>> \o a : b \in Others, a \in Second(topic)}

\* The event as it was emitted; its data ending within the payload; one or two
\* of its words replaced; a topic missing; no such event.
Intact(t) ==
  UNION {[topic : {t}, sent : {e}, logs : Around(t, DataOf(t, e, p)), harm : {"none"}] :
           e \in Sent(t), p \in Padding}
Cut(t) ==
  UNION {[topic : {t}, sent : {e}, logs : {<<Emitted(t, SubSeq(DataOf(t, e, <<>>), 1, n))>> :
                                             n \in 0 .. Len(DataOf(t, e, <<>>)) - 1},
          harm : {"cut"}] : e \in Sent(t)}
Replaced(t) ==
  UNION {LET s == DataOf(t, e, p)
         IN  [topic : {t}, sent : {e},
              logs : {<<Emitted(t, [s EXCEPT ![i] = v, ![j] = w])>> :
                        i \in DOMAIN s, j \in DOMAIN s, v \in Edge, w \in Edge},
              harm : {"any"}] :
           e \in Sent(t), p \in Padding}
Strange(t) ==
  [topic : {t}, sent : Sent(t),
   logs : Others \cup {<<Log(<<t, "t1">>, <<1, 4, 3, 3, 0, 0>>)>>}, harm : {"any"}]

SomeReceipts == UNION {Intact(t) \cup Cut(t) \cup Replaced(t) \cup Strange(t) : t \in Topics}
=============================================================================
