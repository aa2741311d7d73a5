------------------------------- MODULE Decode -------------------------------
(***************************************************************************)
(* internal/opstack/deposit.go and withdraw.go: ParseDeposit and           *)
(* ParseMessagePassed find their event in a receipt and cut its payload    *)
(* out of the log data, by a length or an offset that the data itself      *)
(* declares.                                                               *)
(*                                                                         *)
(* Data is what can be read of it: [len, word], word[i] being the number   *)
(* that a read at byte i yields.  With WordLen = 1 a word is a byte, and   *)
(* every such function is a string of bytes; with more, words that overlap *)
(* are independent, which only adds data.                                  *)
(*                                                                         *)
(* A definition that stands right before another of the same parameters and*)
(* is used nowhere is a mistake one could make in it; the README says which*)
(* property notices.                                                       *)
(***************************************************************************)
EXTENDS Integers, Sequences

CONSTANTS
  WordLen,   \* wordLen: bytes of a word (32)
  GasLen,    \* bytes of the gas limit in opaqueData (8)
  MaxInt64   \* math.MaxInt64; a word can be far larger, a slice cannot

ASSUME DecodeAssumption ==
  /\ WordLen \in Nat \ {0}
  /\ GasLen \in Nat
  /\ MaxInt64 \in Nat

LogTopics == 4
OpaqueHeaderLen == 2 * WordLen
OpaqueDataMinLen == 2 * WordLen + GasLen + 1
MessagePassedFixedLen == 4 * WordLen

-----------------------------------------------------------------------------
(* Reading numbers and slicing.                                            *)

\* A stretch of the data: n bytes from byte at on.
Stretch(at, n) == [at |-> at, n |-> n]
Whole(s, len) == s.at >= 0 /\ s.n >= 0 /\ s.at + s.n <= len

\* What is read where there is no data does not matter: Go does not get there.
Word(data, at) == IF at \in DOMAIN data.word THEN data.word[at] ELSE 0

\* big.Int.Int64: the low 64 bits, as a signed number.
Int64(v) ==
  LET low == v % (2 * (MaxInt64 + 1))
  IN  IF low <= MaxInt64 THEN low ELSE low - 2 * (MaxInt64 + 1)

\* IsInt64, and not more than there is room for.
FitsUnchecked(v, room) == Int64(v) <= room
FitsLoosely(v, room) == v <= MaxInt64 /\ v <= room + 1
Fits(v, room) == v <= MaxInt64 /\ v <= room

-----------------------------------------------------------------------------
(* findLog.                                                                *)

HasTopic(log, topic) == Len(log.topics) > 0 /\ log.topics[1] = topic

\* The first log with this topic0, if there is one.
LastWith(logs, topic) ==
  {i \in DOMAIN logs : /\ HasTopic(logs[i], topic)
                       /\ \A j \in DOMAIN logs : j > i => ~HasTopic(logs[j], topic)}
FirstWith(logs, topic) ==
  {i \in DOMAIN logs : /\ HasTopic(logs[i], topic)
                       /\ \A j \in DOMAIN logs : j < i => ~HasTopic(logs[j], topic)}

-----------------------------------------------------------------------------
(* What a parse returns: an error, or the words and the payload it took;   *)
(* and every stretch of the data it has looked at.                         *)

Refused(e, looked) == [err |-> e, words |-> <<>>, payload |-> Stretch(0, 0), looked |-> looked]
Decoded(words, payload, looked) ==
  [err |-> "nil", words |-> words, payload |-> payload, looked |-> looked]

-----------------------------------------------------------------------------
(* ParseDeposit.                                                           *)

\* The length comes after the offset, which is not looked at.
DeclaredAt == Stretch(WordLen, WordLen)
Available(data) == data.len - OpaqueHeaderLen

OpaqueFits(data) == Fits(Word(data, WordLen), Available(data))
Opaque(data) == Stretch(OpaqueHeaderLen, Int64(Word(data, WordLen)))

\* mint, value, gas and isCreation, packed without padding, then the calldata.
DepositWords(data) ==
  << Word(data, OpaqueHeaderLen), Word(data, OpaqueHeaderLen + WordLen),
     Word(data, OpaqueHeaderLen + 2 * WordLen),
     Word(data, OpaqueHeaderLen + 2 * WordLen + GasLen) >>

PayloadOf(s) == Stretch(s.at + OpaqueDataMinLen, s.n - OpaqueDataMinLen)

DepositOf(log) ==
  LET data == log.data
      opaque == Opaque(data)
  IN  IF Len(log.topics) # LogTopics \/ data.len < OpaqueHeaderLen
      THEN Refused("ErrBadDepositLog", {})
      ELSE IF ~OpaqueFits(data) THEN Refused("ErrBadDepositLog", {DeclaredAt})
      ELSE IF opaque.n < OpaqueDataMinLen
           THEN Refused("ErrBadDepositLog", {DeclaredAt, opaque})
      ELSE Decoded(DepositWords(data), PayloadOf(opaque),
                  {DeclaredAt, opaque, Stretch(opaque.at, OpaqueDataMinLen), PayloadOf(opaque)})

-----------------------------------------------------------------------------
(* ParseMessagePassed.                                                     *)

OffsetAt == Stretch(2 * WordLen, WordLen)

\* The offset leaves room for the length word, the length for nothing more.
RoomForOffset(data) == data.len - WordLen

Offset(data) == Int64(Word(data, 2 * WordLen))
LengthAt(data) == Stretch(Offset(data), WordLen)
PayloadAt(data) == Stretch(Offset(data) + WordLen, Int64(Word(data, Offset(data))))

OffsetFits(data) == Fits(Word(data, 2 * WordLen), RoomForOffset(data))
LengthFits(data) == Fits(Word(data, Offset(data)), data.len - Offset(data) - WordLen)

\* value, gasLimit and withdrawalHash.
MessageWords(data) == <<Word(data, 0), Word(data, WordLen), Word(data, 3 * WordLen)>>

MessageOf(log) ==
  LET data == log.data
      fixed == Stretch(0, MessagePassedFixedLen)
  IN  IF Len(log.topics) # LogTopics \/ data.len < MessagePassedFixedLen
      THEN Refused("ErrBadMessagePassedLog", {})
      ELSE IF ~OffsetFits(data) THEN Refused("ErrBadMessagePassedLog", {OffsetAt})
      ELSE IF ~LengthFits(data)
           THEN Refused("ErrBadMessagePassedLog", {OffsetAt, LengthAt(data)})
      ELSE Decoded(MessageWords(data), PayloadAt(data),
                  {OffsetAt, LengthAt(data), PayloadAt(data), fixed})

-----------------------------------------------------------------------------
Topics == {"TransactionDeposited", "MessagePassed"}
NoLogError == [t \in Topics |-> IF t = "MessagePassed" THEN "ErrNoMessagePassedLog"
                                ELSE "ErrNoDepositLog"]

\* Each parse takes the log that findLog returns, or there is none.
Parse(topic, logs) ==
  IF FirstWith(logs, topic) = {} THEN Refused(NoLogError[topic], {})
  ELSE LET log == logs[CHOOSE i \in FirstWith(logs, topic) : TRUE]
       IN  IF topic = "MessagePassed" THEN MessageOf(log) ELSE DepositOf(log)
=============================================================================
