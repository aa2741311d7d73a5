---------------------------- MODULE InputsProofs ----------------------------
(***************************************************************************)
(* Proofs about Inputs: what holds of every amount, estimate, environment  *)
(* and receipt, in floats, words and integers of every size.               *)
(*                                                                         *)
(* An answer is the judgement of the input it is an answer to (Judged is   *)
(* inductive), so each theorem comes down to a lemma about one judgement.  *)
(* What an operator means has to outlive corrections as well (MeantInv).   *)
(***************************************************************************)
EXTENDS Inputs, ConfigProofs, NumbersProofs

\* What is left of a division by more than there is.
LEMMA SmallRemainder ==
  ASSUME NEW v \in Nat, NEW k \in Nat \ {0}, v < k
  PROVE  v % k = v
  OBVIOUS

\* A number that fits is what Int64 reads, and it is within the room.
LEMMA FitsIsExact ==
  ASSUME NEW v \in Nat, NEW room \in Int, Fits(v, room)
  PROVE  Int64(v) = v /\ v <= room
<1>1. MaxInt64 \in Nat /\ v < 2 * (MaxInt64 + 1)
  BY DecodeAssumption DEF Fits
<1>2. v % (2 * (MaxInt64 + 1)) = v
  BY <1>1, SmallRemainder
<1> QED
  BY <1>1, <1>2 DEF Fits, Int64

\* A uint64 remainder, divided by a hundred, is less than a hundredth of them.
LEMMA MarginIsSmall ==
  ASSUME NEW gas \in 0 .. Uint64s - 1
  PROVE  Margin(gas) \in 0 .. Uint64s \div Hundred
<1>1. /\ Uint64s \in Nat \ {0} /\ gas * GasMarginPercent \in Nat
  BY NumbersAssumption
<1>2. (gas * GasMarginPercent) % Uint64s \in 0 .. Uint64s - 1
  BY <1>1
<1> QED
  BY <1>1, <1>2 DEF Margin, Hundred

\* bridge.go:320, for one estimate.
KeepsMargin(gas, limit) ==
  LET margin == gas * GasMarginPercent
  IN  /\ gas + margin \div Hundred < Uint64s /\ margin < Uint64s
           => Hundred * limit \in Hundred * gas + margin - Hundred + 1 .. Hundred * gas + margin
      /\ gas + Uint64s \div Hundred < Uint64s => limit >= gas

LEMMA LimitKeepsMargin ==
  ASSUME NEW gas \in 0 .. Uint64s - 1
  PROVE  KeepsMargin(gas, GasLimit(gas))
<1> DEFINE margin == gas * GasMarginPercent
<1>1. Uint64s \in Nat \ {0} /\ margin \in Nat /\ gas \in Nat
  BY NumbersAssumption
<1>2. Margin(gas) \in Nat /\ Margin(gas) <= Uint64s \div Hundred
  BY <1>1, MarginIsSmall DEF Hundred
<1>3. ASSUME gas + Margin(gas) < Uint64s
      PROVE  GasLimit(gas) = gas + Margin(gas)
  BY <1>1, <1>2, <1>3, SmallRemainder DEF GasLimit
<1>4. ASSUME gas + margin \div Hundred < Uint64s, margin < Uint64s
      PROVE  Hundred * GasLimit(gas) \in
               Hundred * gas + margin - Hundred + 1 .. Hundred * gas + margin
  <2>1. margin % Uint64s = margin
    BY <1>1, <1>4, SmallRemainder
  <2>2. Margin(gas) = margin \div Hundred
    BY <2>1 DEF Margin
  <2>3. GasLimit(gas) = gas + margin \div Hundred
    BY <1>3, <1>4, <2>2
  <2> HIDE DEF margin
  <2> QED
    BY <1>1, <2>3 DEF Hundred
<1>5. ASSUME gas + Uint64s \div Hundred < Uint64s
      PROVE  GasLimit(gas) >= gas
  <2>1. gas + Margin(gas) < Uint64s
    BY <1>1, <1>2, <1>5 DEF Hundred
  <2> QED
    BY <1>1, <1>2, <1>3, <2>1
<1> QED
  BY <1>4, <1>5 DEF KeepsMargin

-----------------------------------------------------------------------------
(* The logs of a receipt.                                                  *)

LEMMA WordIsNat ==
  ASSUME NEW log, ReadableLog(log), NEW at
  PROVE  Word(log.data, at) \in Nat
  BY DEF ReadableLog, Word

LEMMA LengthIsNat ==
  ASSUME NEW log, ReadableLog(log)
  PROVE  log.data.len \in Nat /\ log.data.len <= MaxInt64
BY DecodeAssumption DEF ReadableLog

AllWithin(looked, len) == \A s \in looked : Whole(s, len)

\* deposit.go:161-228.
LEMMA DepositStaysWithin ==
  ASSUME NEW log, ReadableLog(log)
  PROVE  AllWithin(DepositOf(log).looked, log.data.len)
<1> DEFINE data == log.data
           declared == Word(data, WordLen)
           opaque == Opaque(data)
<1>1. /\ data.len \in Nat /\ declared \in Nat
      /\ WordLen \in Nat \ {0} /\ GasLen \in Nat
  BY WordIsNat, LengthIsNat, DecodeAssumption
<1>2. CASE Len(log.topics) # LogTopics \/ data.len < OpaqueHeaderLen
  BY <1>2 DEF DepositOf, Refused, AllWithin
<1>3. CASE data.len >= OpaqueHeaderLen
  <2>1. Whole(DeclaredAt, data.len)
    BY <1>1, <1>3 DEF Whole, DeclaredAt, Stretch, OpaqueHeaderLen
  <2>2. ASSUME OpaqueFits(data)
        PROVE  /\ opaque.at = OpaqueHeaderLen /\ opaque.n \in Nat
               /\ opaque.at + opaque.n <= data.len
    <3>1. Available(data) \in Int
      BY <1>1 DEF Available, OpaqueHeaderLen
    <3>2. Int64(declared) = declared /\ declared <= Available(data)
      BY <1>1, <2>2, <3>1, FitsIsExact DEF OpaqueFits
    <3> QED
      BY <1>1, <3>2 DEF Opaque, Stretch, Available, OpaqueHeaderLen
  <2>3. CASE ~OpaqueFits(data)
    BY <2>1, <2>3 DEF DepositOf, Refused, AllWithin
  <2>4. CASE OpaqueFits(data) /\ opaque.n < OpaqueDataMinLen
    <3>1. Whole(opaque, data.len)
      BY <1>1, <2>2, <2>4 DEF Whole, OpaqueHeaderLen
    <3> QED
      BY <2>1, <2>4, <3>1 DEF DepositOf, Refused, AllWithin
  <2>5. CASE OpaqueFits(data) /\ opaque.n >= OpaqueDataMinLen
    <3>1. Whole(opaque, data.len)
      BY <1>1, <2>2, <2>5 DEF Whole, OpaqueHeaderLen
    <3>2. Whole(Stretch(opaque.at, OpaqueDataMinLen), data.len)
      BY <1>1, <2>2, <2>5 DEF Whole, Stretch, OpaqueHeaderLen, OpaqueDataMinLen
    <3>3. Whole(PayloadOf(opaque), data.len)
      BY <1>1, <2>2, <2>5 DEF Whole, Stretch, PayloadOf, OpaqueHeaderLen, OpaqueDataMinLen
    <3> QED
      BY <2>1, <2>5, <3>1, <3>2, <3>3 DEF DepositOf, Refused, Decoded, AllWithin
  <2> QED
    BY <1>1, <2>2, <2>3, <2>4, <2>5 DEF OpaqueDataMinLen
<1> QED
  BY <1>1, <1>2, <1>3 DEF OpaqueHeaderLen

\* withdraw.go:94-140.
LEMMA MessageStaysWithin ==
  ASSUME NEW log, ReadableLog(log)
  PROVE  AllWithin(MessageOf(log).looked, log.data.len)
<1> DEFINE data == log.data
           offset == Word(data, 2 * WordLen)
<1>1. /\ data.len \in Nat /\ offset \in Nat /\ WordLen \in Nat \ {0}
      /\ \A at : Word(data, at) \in Nat
  BY WordIsNat, LengthIsNat, DecodeAssumption
<1>2. CASE Len(log.topics) # LogTopics \/ data.len < MessagePassedFixedLen
  BY <1>2 DEF MessageOf, Refused, AllWithin
<1>3. CASE data.len >= MessagePassedFixedLen
  <2>1. Whole(OffsetAt, data.len) /\ Whole(Stretch(0, MessagePassedFixedLen), data.len)
    BY <1>1, <1>3 DEF Whole, OffsetAt, Stretch, MessagePassedFixedLen
  <2>2. ASSUME OffsetFits(data)
        PROVE  Offset(data) \in Nat /\ Offset(data) + WordLen <= data.len
    <3>1. RoomForOffset(data) \in Int
      BY <1>1 DEF RoomForOffset
    <3>2. Int64(offset) = offset /\ offset <= RoomForOffset(data)
      BY <1>1, <2>2, <3>1, FitsIsExact DEF OffsetFits
    <3> QED
      BY <1>1, <3>2 DEF Offset, RoomForOffset
  <2>3. ASSUME OffsetFits(data) PROVE Whole(LengthAt(data), data.len)
    BY <1>1, <2>2, <2>3 DEF Whole, LengthAt, Stretch
  <2>4. ASSUME OffsetFits(data), LengthFits(data) PROVE Whole(PayloadAt(data), data.len)
    <3> DEFINE length == Word(data, Offset(data))
               room == data.len - Offset(data) - WordLen
    <3>1. room \in Int /\ length \in Nat
      BY <1>1, <2>2, <2>4
    <3>2. Int64(length) = length /\ length <= room
      BY <2>4, <3>1, FitsIsExact DEF LengthFits
    <3> QED
      BY <1>1, <2>2, <2>4, <3>1, <3>2 DEF Whole, PayloadAt, Stretch
  <2> QED
    BY <2>1, <2>3, <2>4 DEF MessageOf, Refused, Decoded, AllWithin
<1> QED
  BY <1>1, <1>2, <1>3 DEF MessagePassedFixedLen

LEMMA ParseStaysWithin ==
  ASSUME NEW topic \in Topics, NEW logs,
         \A i \in DOMAIN logs : ReadableLog(logs[i])
  PROVE  \A s \in Parse(topic, logs).looked :
           Whole(s, logs[CHOOSE i \in FirstWith(logs, topic) : TRUE].data.len)
<1>1. CASE FirstWith(logs, topic) = {}
  BY <1>1 DEF Parse, Refused
<1>2. CASE FirstWith(logs, topic) # {}
  <2> DEFINE found == CHOOSE i \in FirstWith(logs, topic) : TRUE
  <2>1. found \in DOMAIN logs
    BY <1>2 DEF FirstWith
  <2>2. /\ AllWithin(DepositOf(logs[found]).looked, logs[found].data.len)
        /\ AllWithin(MessageOf(logs[found]).looked, logs[found].data.len)
    BY <2>1, DepositStaysWithin, MessageStaysWithin
  <2> QED
    BY <1>2, <2>2 DEF Parse, AllWithin
<1> QED
  BY <1>1, <1>2

-----------------------------------------------------------------------------
(* What becomes of an event on its way.                                    *)

\* A number that is not more than there is room for fits.
LEMMA RoomIsEnough ==
  ASSUME NEW v \in Nat, NEW room \in Int, room <= MaxInt64
  PROVE  Fits(v, room) <=> v <= room
BY DecodeAssumption DEF Fits

\* The event that a log carries, as far as its data goes.
LEMMA FieldIsRead ==
  ASSUME NEW log, ReadableLog(log), NEW topic, NEW e, Encodes(log.data, topic, e),
         NEW f \in Fields(topic, e), f.at + f.n <= log.data.len
  PROVE  Word(log.data, f.at) = f.value
BY DEF Encodes, Word

LEMMA DepositIsRead ==
  ASSUME NEW log, ReadableLog(log), NEW e \in Events,
         Encodes(log.data, "TransactionDeposited", e)
  PROVE  LET data == log.data
             size == 2 * WordLen + GasLen + 1 + Len(e.payload)
         IN  /\ size \in Nat
             /\ OpaqueHeaderLen <= data.len => Word(data, WordLen) = size
             /\ OpaqueHeaderLen + size <= data.len =>
                  DepositWords(data) = <<e.words[1], e.words[2], e.words[3], e.words[4]>>
<1> DEFINE data == log.data
           n == Len(e.payload)
           topic == "TransactionDeposited"
<1>1. /\ WordLen \in Nat \ {0} /\ GasLen \in Nat /\ data.len \in Nat /\ n \in Nat
  BY DecodeAssumption, LengthIsNat DEF Events
<1>2. Fields(topic, e) =
        { Field(WordLen, WordLen, 2 * WordLen + GasLen + 1 + n),
          Field(2 * WordLen, WordLen, e.words[1]), Field(3 * WordLen, WordLen, e.words[2]),
          Field(4 * WordLen, GasLen, e.words[3]), Field(4 * WordLen + GasLen, 1, e.words[4]) }
  BY DEF Fields
<1>3. ASSUME NEW at, NEW k, NEW value, Field(at, k, value) \in Fields(topic, e),
             at + k <= data.len
      PROVE  Word(data, at) = value
  BY <1>3, FieldIsRead DEF Field
<1> HIDE DEF data, n, topic
<1>4. ASSUME OpaqueHeaderLen <= data.len
      PROVE  Word(data, WordLen) = 2 * WordLen + GasLen + 1 + n
  <2>1. WordLen + WordLen <= data.len
    BY <1>1, <1>4 DEF OpaqueHeaderLen
  <2> QED
    BY <1>2, <1>3, <2>1
<1>5. ASSUME OpaqueHeaderLen + (2 * WordLen + GasLen + 1 + n) <= data.len
      PROVE  DepositWords(data) = <<e.words[1], e.words[2], e.words[3], e.words[4]>>
  <2>1. /\ 2 * WordLen + WordLen <= data.len /\ 3 * WordLen + WordLen <= data.len
        /\ 4 * WordLen + GasLen <= data.len /\ 4 * WordLen + GasLen + 1 <= data.len
    BY <1>1, <1>5 DEF OpaqueHeaderLen
  <2>2. /\ Word(data, 2 * WordLen) = e.words[1] /\ Word(data, 3 * WordLen) = e.words[2]
        /\ Word(data, 4 * WordLen) = e.words[3] /\ Word(data, 4 * WordLen + GasLen) = e.words[4]
    BY <1>2, <1>3, <2>1
  <2>3. /\ OpaqueHeaderLen = 2 * WordLen /\ OpaqueHeaderLen + WordLen = 3 * WordLen
        /\ OpaqueHeaderLen + 2 * WordLen = 4 * WordLen
        /\ OpaqueHeaderLen + 2 * WordLen + GasLen = 4 * WordLen + GasLen
    BY <1>1 DEF OpaqueHeaderLen
  <2> QED
    BY <2>2, <2>3 DEF DepositWords
<1>6. 2 * WordLen + GasLen + 1 + n \in Nat
  BY <1>1
<1> QED
  BY <1>4, <1>5, <1>6 DEF data, n

\* deposit.go:207-228: a deposit is decoded if all of it is there, and refused
\* if it is not.
LEMMA DepositIsWhole ==
  ASSUME NEW log, ReadableLog(log), NEW e \in Events, Len(e.words) = 4,
         Encodes(log.data, "TransactionDeposited", e)
  PROVE  LET a == DepositOf(log)
         IN  /\ log.data.len < Ends("TransactionDeposited", e) => a.err # "nil"
             /\ Ends("TransactionDeposited", e) <= log.data.len /\ Len(log.topics) = LogTopics =>
                  /\ a.err = "nil" /\ a.words = e.words
                  /\ a.payload = Stretch(PayloadFrom("TransactionDeposited"), Len(e.payload))
<1> DEFINE data == log.data
           n == Len(e.payload)
           size == 2 * WordLen + GasLen + 1 + n
<1>1. /\ WordLen \in Nat \ {0} /\ GasLen \in Nat /\ data.len \in Nat /\ n \in Nat
      /\ data.len <= MaxInt64 /\ MaxInt64 \in Nat
  BY DecodeAssumption, LengthIsNat DEF Events
<1>2. /\ OpaqueHeaderLen <= data.len => Word(data, WordLen) = size
      /\ OpaqueHeaderLen + size <= data.len =>
           DepositWords(data) = <<e.words[1], e.words[2], e.words[3], e.words[4]>>
  BY DepositIsRead
<1>3. /\ Ends("TransactionDeposited", e) = OpaqueHeaderLen + size
      /\ PayloadFrom("TransactionDeposited") = OpaqueHeaderLen + OpaqueDataMinLen
      /\ n = size - OpaqueDataMinLen
  <2>1. /\ PayloadFrom("TransactionDeposited") = 4 * WordLen + GasLen + 1
        /\ Ends("TransactionDeposited", e) = PayloadFrom("TransactionDeposited") + n
    BY DEF PayloadFrom, Ends
  <2> HIDE DEF n
  <2> QED
    BY <1>1, <2>1 DEF OpaqueHeaderLen, OpaqueDataMinLen
<1>4. e.words = <<e.words[1], e.words[2], e.words[3], e.words[4]>>
  BY DEF Events
<1> HIDE DEF n
<1>5. size \in Nat /\ size >= OpaqueDataMinLen
  BY <1>1 DEF OpaqueDataMinLen
<1> HIDE DEF size
<1>6. ASSUME OpaqueHeaderLen <= data.len
      PROVE  /\ OpaqueFits(data) <=> OpaqueHeaderLen + size <= data.len
             /\ OpaqueFits(data) => Opaque(data) = Stretch(OpaqueHeaderLen, size)
  <2>1. Word(data, WordLen) = size
    BY <1>2, <1>6
  <2>2. Available(data) \in Int /\ Available(data) <= MaxInt64
    BY <1>1 DEF Available, OpaqueHeaderLen
  <2>3. OpaqueFits(data) <=> size <= Available(data)
    BY <1>5, <2>1, <2>2, RoomIsEnough DEF OpaqueFits
  <2>4. OpaqueFits(data) => Int64(size) = size
    BY <1>5, <2>1, <2>2, FitsIsExact DEF OpaqueFits
  <2>5. size <= Available(data) <=> OpaqueHeaderLen + size <= data.len
    BY <1>1, <1>5 DEF Available, OpaqueHeaderLen
  <2> QED
    BY <2>1, <2>3, <2>4, <2>5 DEF Opaque
<1>7. ASSUME data.len < OpaqueHeaderLen + size
      PROVE  DepositOf(log).err # "nil"
  <2>1. data.len < OpaqueHeaderLen \/ ~OpaqueFits(data)
    BY <1>1, <1>5, <1>6, <1>7 DEF OpaqueHeaderLen
  <2> QED
    BY <2>1 DEF DepositOf, Refused
<1>8. ASSUME OpaqueHeaderLen + size <= data.len, Len(log.topics) = LogTopics
      PROVE  /\ DepositOf(log).err = "nil" /\ DepositOf(log).words = e.words
             /\ DepositOf(log).payload = Stretch(OpaqueHeaderLen + OpaqueDataMinLen, n)
  <2>1. OpaqueHeaderLen <= data.len
    BY <1>1, <1>5, <1>8 DEF OpaqueHeaderLen
  <2>2. OpaqueFits(data) /\ Opaque(data) = Stretch(OpaqueHeaderLen, size)
    BY <1>6, <1>8, <2>1
  <2>3. Opaque(data).n = size /\ PayloadOf(Opaque(data)) = Stretch(OpaqueHeaderLen + OpaqueDataMinLen, n)
    BY <1>3, <2>2 DEF Stretch, PayloadOf
  <2>4. /\ Len(log.topics) = LogTopics /\ ~(data.len < OpaqueHeaderLen)
        /\ ~(Opaque(data).n < OpaqueDataMinLen)
    BY <1>1, <1>5, <1>8, <2>1, <2>3 DEF OpaqueHeaderLen, OpaqueDataMinLen
  <2>5. /\ DepositOf(log).err = "nil" /\ DepositOf(log).words = DepositWords(data)
        /\ DepositOf(log).payload = PayloadOf(Opaque(data))
    BY <2>2, <2>4 DEF DepositOf, Decoded
  <2> QED
    BY <1>2, <1>4, <1>8, <2>3, <2>5
<1> QED
  BY <1>3, <1>7, <1>8 DEF n

\* withdraw.go:94-140, likewise.
LEMMA MessageIsWhole ==
  ASSUME NEW log, ReadableLog(log), NEW e \in Events, Len(e.words) = 3,
         Encodes(log.data, "MessagePassed", e)
  PROVE  LET a == MessageOf(log)
         IN  /\ log.data.len < Ends("MessagePassed", e) => a.err # "nil"
             /\ Ends("MessagePassed", e) <= log.data.len /\ Len(log.topics) = LogTopics =>
                  /\ a.err = "nil" /\ a.words = e.words
                  /\ a.payload = Stretch(PayloadFrom("MessagePassed"), Len(e.payload))
<1> DEFINE data == log.data
           n == Len(e.payload)
           topic == "MessagePassed"
<1>1. /\ WordLen \in Nat \ {0} /\ data.len \in Nat /\ n \in Nat
      /\ data.len <= MaxInt64 /\ MaxInt64 \in Nat
  BY DecodeAssumption, LengthIsNat DEF Events
<1>2. /\ Fields(topic, e) =
           { Field(0, WordLen, e.words[1]), Field(WordLen, WordLen, e.words[2]),
             Field(2 * WordLen, WordLen, 4 * WordLen), Field(3 * WordLen, WordLen, e.words[3]),
             Field(4 * WordLen, WordLen, n) }
      /\ PayloadFrom(topic) = 5 * WordLen /\ Ends(topic, e) = 5 * WordLen + n
  BY DEF Fields, PayloadFrom, Ends
<1>3. ASSUME NEW at, NEW value, Field(at, WordLen, value) \in Fields(topic, e),
             at + WordLen <= data.len
      PROVE  Word(data, at) = value
  BY <1>3, FieldIsRead DEF Field
<1>4. e.words = <<e.words[1], e.words[2], e.words[3]>>
  BY DEF Events
<1> HIDE DEF n, topic
<1>5. ASSUME MessagePassedFixedLen <= data.len
      PROVE  /\ MessageWords(data) = <<e.words[1], e.words[2], e.words[3]>>
             /\ Word(data, 2 * WordLen) = 4 * WordLen
  <2>1. /\ 0 + WordLen <= data.len /\ WordLen + WordLen <= data.len
        /\ 2 * WordLen + WordLen <= data.len /\ 3 * WordLen + WordLen <= data.len
    BY <1>1, <1>5 DEF MessagePassedFixedLen
  <2>2. /\ Word(data, 0) = e.words[1] /\ Word(data, WordLen) = e.words[2]
        /\ Word(data, 2 * WordLen) = 4 * WordLen /\ Word(data, 3 * WordLen) = e.words[3]
    BY <1>2, <1>3, <2>1
  <2> QED
    BY <2>2 DEF MessageWords
<1>6. ASSUME MessagePassedFixedLen <= data.len
      PROVE  /\ OffsetFits(data) <=> 5 * WordLen <= data.len
             /\ OffsetFits(data) => Offset(data) = 4 * WordLen
  <2>1. /\ Word(data, 2 * WordLen) = 4 * WordLen /\ 4 * WordLen \in Nat
        /\ RoomForOffset(data) \in Int /\ RoomForOffset(data) <= MaxInt64
    BY <1>1, <1>5, <1>6 DEF RoomForOffset
  <2>2. OffsetFits(data) <=> 4 * WordLen <= RoomForOffset(data)
    BY <2>1, RoomIsEnough DEF OffsetFits
  <2>3. OffsetFits(data) => Int64(4 * WordLen) = 4 * WordLen
    BY <2>1, FitsIsExact DEF OffsetFits
  <2>4. 4 * WordLen <= RoomForOffset(data) <=> 5 * WordLen <= data.len
    BY <1>1 DEF RoomForOffset
  <2> QED
    BY <2>1, <2>2, <2>3, <2>4 DEF Offset
<1>7. ASSUME MessagePassedFixedLen <= data.len, OffsetFits(data)
      PROVE  /\ LengthFits(data) <=> 5 * WordLen + n <= data.len
             /\ LengthFits(data) => PayloadAt(data) = Stretch(5 * WordLen, n)
  <2>1. Offset(data) = 4 * WordLen /\ 4 * WordLen + WordLen <= data.len
    BY <1>1, <1>6, <1>7
  <2>2. Word(data, 4 * WordLen) = n
    BY <1>2, <1>3, <2>1
  <2> DEFINE room == data.len - Offset(data) - WordLen
  <2>3. room \in Int /\ room <= MaxInt64 /\ (n <= room <=> 5 * WordLen + n <= data.len)
    BY <1>1, <2>1
  <2>4. /\ LengthFits(data) <=> n <= room
        /\ LengthFits(data) => Int64(n) = n
    <3>1. LengthFits(data) <=> Fits(n, room)
      BY <2>1, <2>2 DEF LengthFits
    <3> HIDE DEF room
    <3> QED
      BY <1>1, <2>3, <3>1, RoomIsEnough, FitsIsExact
  <2>5. Offset(data) + WordLen = 5 * WordLen
    BY <1>1, <2>1
  <2> QED
    BY <2>1, <2>2, <2>3, <2>4, <2>5 DEF PayloadAt
<1>8. ASSUME data.len < 5 * WordLen + n
      PROVE  MessageOf(log).err # "nil"
  <2>1. data.len < MessagePassedFixedLen \/ ~OffsetFits(data) \/ ~LengthFits(data)
    BY <1>1, <1>6, <1>7, <1>8 DEF MessagePassedFixedLen
  <2> QED
    BY <2>1 DEF MessageOf, Refused
<1>9. ASSUME 5 * WordLen + n <= data.len, Len(log.topics) = LogTopics
      PROVE  /\ MessageOf(log).err = "nil" /\ MessageOf(log).words = e.words
             /\ MessageOf(log).payload = Stretch(5 * WordLen, n)
  <2>1. MessagePassedFixedLen <= data.len /\ 5 * WordLen <= data.len
    BY <1>1, <1>9 DEF MessagePassedFixedLen
  <2>2. OffsetFits(data) /\ LengthFits(data) /\ PayloadAt(data) = Stretch(5 * WordLen, n)
    BY <1>6, <1>7, <1>9, <2>1
  <2>3. ~(data.len < MessagePassedFixedLen)
    BY <1>1, <2>1 DEF MessagePassedFixedLen
  <2>4. MessageWords(data) = e.words
    BY <1>4, <1>5, <2>1
  <2> QED
    BY <1>9, <2>2, <2>3, <2>4 DEF MessageOf, Decoded
<1> QED
  BY <1>2, <1>8, <1>9 DEF n, topic

-----------------------------------------------------------------------------
(* Every answer there is.                                                  *)

\* Inductive: what is given stays one of the inputs, and an answer judges it.
Judged ==
  /\ "what" \in DOMAIN given
  /\ Is("amount") => given.text \in AmountTexts
  /\ Is("gas") => given.estimate \in Estimates
  /\ Is("receipt") => given.receipt \in Receipts
  /\ \A a \in answer :
       /\ Is("amount") => a = ParseEther(given.text)
       /\ Is("gas") => a = GasLimit(given.estimate)
       /\ Is("env") => a = Load(given.env)
       /\ Is("receipt") => a = Parse(given.receipt.topic, given.receipt.logs)

LEMMA JudgedAtFirst == Init => Judged
<1> SUFFICES ASSUME Init PROVE Judged
  OBVIOUS
<1>1. answer = {} /\ "what" \in DOMAIN given
  BY DEF Init
<1>2. Is("gas") => given.estimate \in Estimates
  BY DEF Init, Is
<1>3. Is("receipt") => given.receipt \in Receipts
  BY DEF Init, Is
<1>4. Is("amount") => given.text \in AmountTexts
  BY DEF Init, Is
<1> QED
  BY <1>1, <1>2, <1>3, <1>4 DEF Judged

LEMMA JudgedStays == Judged /\ [Next]_vars => Judged'
<1> SUFFICES ASSUME Judged, [Next]_vars PROVE Judged'
  OBVIOUS
<1> USE DEF Judged, Is
<1>1. CASE ReadAmount
  BY <1>1 DEF ReadAmount, Judge
<1>2. CASE AddMargin
  BY <1>2 DEF AddMargin, Judge
<1>3. CASE LoadConfig
  BY <1>3 DEF LoadConfig, Judge
<1>4. CASE ReadReceipt
  BY <1>4 DEF ReadReceipt, Judge
<1>5. CASE Correct
  <2>1. given.what = "env" /\ answer' = {}
    BY <1>5 DEF Correct
  <2>2. given'.what = "env" /\ "what" \in DOMAIN given'
    BY <1>5, <2>1 DEF Correct
  <2> QED
    BY <2>1, <2>2
<1>6. CASE UNCHANGED vars
  BY <1>6 DEF vars
<1>7. CASE Finished
  BY <1>7 DEF Finished, vars
<1> QED
  BY <1>1, <1>2, <1>3, <1>4, <1>5, <1>6, <1>7 DEF Next

THEOREM AlwaysJudged == Spec => []Judged
<1> QED
  BY JudgedAtFirst, JudgedStays, PTL DEF Spec

\* parseEther turns an amount into the wei above or below it, or one wei less,
\* and does not panic, for mantissas of every length and coins of any number of
\* decimals (run.go:39, run.go:289).
THEOREM AmountStaysClose == Spec => []AtMostOneWeiOff
<1>1. Judged => AtMostOneWeiOff
  <2> SUFFICES ASSUME Judged, NEW a \in answer, Is("amount"), WithinRange(given.text)
               PROVE  LET t == given.text
                      IN  /\ a.err # "panic"
                          /\ a.wei * Den(t) \in InWei(t) - 2 * Den(t) + 1 .. InWei(t) + Den(t) - 1
    BY DEF AtMostOneWeiOff
  <2> DEFINE t == given.text
  <2>1. t \in Texts /\ a = ParseEther(t)
    BY InputsAssumption DEF Judged
  <2>2. IsAmount(t)
    BY <2>1 DEF WithinRange, IsAmount, InWei
  <2> HIDE DEF t
  <2>3. /\ a.err # "panic" /\ a.wei \in Nat
        /\ a.wei * Den(t) < InWei(t) + Den(t)
        /\ InWei(t) < a.wei * Den(t) + 2 * Den(t)
    BY <2>1, <2>2, ParsedIsClose DEF InWei
  <2>4. Den(t) \in Nat /\ a.wei * Den(t) \in Nat /\ InWei(t) \in Nat
    <3>1. Num(t) \in Nat /\ Den(t) \in Nat /\ Pow(10, WeiDecimals) \in Nat
      BY <2>1, <2>2, TextIsQuotient, PowIsPositive, NumbersAssumption DEF IsAmount
    <3> QED
      BY <2>3, <3>1, ProductIsNat DEF InWei
  <2>5. a.wei * Den(t) \in InWei(t) - 2 * Den(t) + 1 .. InWei(t) + Den(t) - 1
    <3> DEFINE i == InWei(t)
               d == Den(t)
               q == a.wei * Den(t)
    <3>1. i \in Nat /\ d \in Nat /\ q \in Nat /\ q < i + d /\ i < q + 2 * d
      BY <2>3, <2>4
    <3> HIDE DEF i, d, q
    <3>2. q \in i - 2 * d + 1 .. i + d - 1
      BY <3>1
    <3> QED
      BY <3>2 DEF i, d, q
  <2> QED
    BY <2>3, <2>5 DEF t
<1> QED
  BY <1>1, AlwaysJudged, PTL

\* Whatever a log declares, no parse reads or slices outside its data, in
\* words and integers of every size (deposit.go:218, withdraw.go:128).
THEOREM StaysInBounds == Spec => []InBounds
<1>1. Judged => InBounds
  <2> SUFFICES ASSUME Judged, NEW a \in answer, Is("receipt")
               PROVE  \A s \in a.looked : Whole(s, DataRead.len)
    BY DEF InBounds
  <2> DEFINE r == given.receipt
  <2>1. /\ r.topic \in Topics
        /\ \A i \in DOMAIN r.logs : ReadableLog(r.logs[i])
    BY InputsAssumption DEF Judged
  <2>2. a = Parse(r.topic, r.logs)
    BY DEF Judged
  <2> QED
    BY <2>1, <2>2, ParseStaysWithin DEF DataRead, Chosen
<1> QED
  BY <1>1, AlwaysJudged, PTL

\* The gas limit has all of its margin, or where uint64 wraps is at least not
\* below the estimate, for every margin and width (bridge.go:320).
THEOREM MarginStays == Spec => []MarginIsKept
<1>1. Judged => MarginIsKept
  <2> SUFFICES ASSUME Judged, NEW a \in answer, Is("gas")
               PROVE  KeepsMargin(given.estimate, a)
    BY DEF MarginIsKept, KeepsMargin
  <2>1. given.estimate \in 0 .. Uint64s - 1 /\ a = GasLimit(given.estimate)
    BY InputsAssumption DEF Judged
  <2> QED
    BY <2>1, LimitKeepsMargin
<1> QED
  BY <1>1, AlwaysJudged, PTL

\* Every environment that Load accepts can be used as it stands: its key signs
\* for its source account, and each chain has the endpoint set for it
\* (config.go:31-43).
THEOREM UsableIfAccepted == Spec => []AcceptedIsUsable
<1>1. Judged => AcceptedIsUsable
  <2> SUFFICES ASSUME Judged, NEW a \in answer, Is("env"), NEW cfg \in a.cfg
               PROVE  Usable(given.env, cfg)
    BY DEF AcceptedIsUsable, Usable
  <2>1. a = Load(given.env)
    BY DEF Judged
  <2> QED
    BY <2>1, LoadedIsUsable
<1> QED
  BY <1>1, AlwaysJudged, PTL

\* In any environment, an override falls through to discovery if it is not set
\* or zero, and only then (config.go:47-49, config.go:139-141).
THEOREM OverridesStay == Spec => []OnlyZeroIsDiscovered
<1>1. Judged => OnlyZeroIsDiscovered
  <2> SUFFICES ASSUME Judged, NEW a \in answer, Is("env"), NEW cfg \in a.cfg, NEW v \in Overrides
               PROVE  IF given.env[v] \in {Unset, ZeroAddress} THEN cfg.overrides[v] = ZeroAddress
                      ELSE cfg.overrides[v] = given.env[v] /\ cfg.overrides[v] # ZeroAddress
    BY DEF OnlyZeroIsDiscovered
  <2>1. a = Load(given.env)
    BY DEF Judged
  <2> QED
    BY <2>1, LoadedKeepsOverrides
<1> QED
  BY <1>1, AlwaysJudged, PTL

-----------------------------------------------------------------------------
(* What is meant.                                                          *)

ChainIDs == {"SOURCE_CHAIN_ID", "DEST_CHAIN_ID"}

\* Inductive: the operator goes on meaning an environment that Load accepts,
\* and corrects towards it.
MeantInv ==
  Is("env") =>
    /\ DOMAIN given = {"what", "env", "meant"} /\ DOMAIN given.env = EnvVars
    /\ Faulty(given.meant) = {}
    /\ \A v \in ChainIDs : given.env[v] \in {Unset, Malformed, given.meant[v]}

\* Load accepts whatever fits together.
LEMMA WhatFitsIsAccepted ==
  ASSUME NEW env, FitsTogether(env)
  PROVE  Faulty(env) = {}
<1> SUFFICES ASSUME NEW i \in DOMAIN Order PROVE ~Missing(env, Order[i]) /\ ~Invalid(env, Order[i])
  BY DEF Faulty
<1> DEFINE v == Order[i]
<1>1. v \in {"SOURCE_ADDR", "DEST_ADDR", "SOURCE_CHAIN_ID", "DEST_CHAIN_ID",
            "SOURCE_PK", "SOURCE_RPC_URL", "DEST_RPC_URL"} \cup Overrides
  BY DEF Order, Overrides
<1>2. Unset \notin Address \cup ChainID \cup Key \cup URL
  BY ConfigAssumption
<1>3. /\ v \in {"SOURCE_ADDR", "DEST_ADDR"} => env[v] \in Address /\ Holds(env, v) = Address
      /\ v \in {"SOURCE_CHAIN_ID", "DEST_CHAIN_ID"} => env[v] \in ChainID /\ Holds(env, v) = ChainID
      /\ v = "SOURCE_PK" => env[v] \in Key /\ env[v] \in Holds(env, v)
      /\ v = "SOURCE_RPC_URL" => env[v] \in URL /\ Holds(env, v) = URL \cup {Malformed}
      /\ v = "DEST_RPC_URL" /\ Read(env, v) => env[v] \in URL /\ Holds(env, v) = URL \cup {Malformed}
      /\ v \in Overrides => env[v] \in Address \cup {Unset} /\ Holds(env, v) = Address
  BY DEF FitsTogether, Holds, DerivesToSource, Overrides, Read, OneChain
<1> QED
  BY <1>1, <1>2, <1>3 DEF Missing, Invalid, Required

LEMMA MeantAtFirst == Init => MeantInv
<1> SUFFICES ASSUME Init, Is("env") PROVE MeantInv
  BY DEF MeantInv
<1>1. PICK e \in Environments : given = [what |-> "env", env |-> e.env, meant |-> e.meant]
  BY DEF Init, Is
<1> QED
  BY <1>1, InputsAssumption, MeantAssumption, WhatFitsIsAccepted DEF MeantInv, ChainIDs

LEMMA MeantStays == MeantInv /\ [Next]_vars => MeantInv'
<1> SUFFICES ASSUME MeantInv, [Next]_vars PROVE MeantInv'
  OBVIOUS
<1>1. CASE UNCHANGED given
  BY <1>1 DEF MeantInv, Is
<1>2. CASE Correct
  <2>1. PICK v : given' = [given EXCEPT !.env[v] = given.meant[v]]
    BY <1>2 DEF Correct
  <2>2. /\ DOMAIN given = {"what", "env", "meant"} /\ DOMAIN given.env = EnvVars
        /\ Faulty(given.meant) = {}
        /\ \A w \in ChainIDs : given.env[w] \in {Unset, Malformed, given.meant[w]}
    BY <1>2 DEF Correct, MeantInv
  <2>3. /\ DOMAIN given' = DOMAIN given /\ given'.meant = given.meant
        /\ given'.env = [given.env EXCEPT ![v] = given.meant[v]]
    BY <2>1, <2>2
  <2>4. \A w \in ChainIDs : w \in EnvVars
    BY OrderIsChains DEF ChainIDs, EnvVars
  <2>5. \A w \in ChainIDs : given'.env[w] \in {given.env[w], given.meant[w]}
    BY <2>2, <2>3, <2>4
  <2>6. /\ DOMAIN given'.env = EnvVars /\ Faulty(given'.meant) = {}
        /\ \A w \in ChainIDs : given'.env[w] \in {Unset, Malformed, given'.meant[w]}
    BY <2>2, <2>3, <2>5
  <2> QED
    BY <2>2, <2>3, <2>6 DEF MeantInv
<1> QED
  BY <1>1, <1>2 DEF Next, vars, ReadAmount, AddMargin, LoadConfig, ReadReceipt, Judge, Finished

\* A refusal names a variable that is not what the operator means, however
\* many are mistaken and whichever of them have been corrected by now
\* (config.go:104).
THEOREM ComplaintStaysTrue == Spec => []ComplaintIsTrue
<1>1. Judged /\ MeantInv => ComplaintIsTrue
  <2> SUFFICES ASSUME Judged, MeantInv, NEW a \in answer, Is("env"), a.err # "nil"
               PROVE  \E v \in a.names : given.env[v] # given.meant[v]
    BY DEF ComplaintIsTrue
  <2>1. a = Load(given.env)
    BY DEF Judged
  <2>2. /\ Faulty(given.meant) = {}
        /\ \A v \in ChainIDs : given.env[v] \in {Unset, Malformed, given.meant[v]}
    BY DEF MeantInv
  <2> QED
    BY <2>1, <2>2, LoadComplainsTruly DEF ChainIDs
<1>2. Spec => []MeantInv
  BY MeantAtFirst, MeantStays, PTL DEF Spec
<1> QED
  BY <1>1, <1>2, AlwaysJudged, PTL

-----------------------------------------------------------------------------
(* The event that was sent.                                                *)

LEMMA CarriersAreFirst ==
  ASSUME NEW r
  PROVE  FirstWith(r.logs, r.topic) = Carriers(r)
BY DEF FirstWith, Carriers

LEMMA ParseIsWhole ==
  ASSUME NEW r \in Receipts, NEW i, i = CHOOSE k \in FirstWith(r.logs, r.topic) : TRUE
  PROVE  LET a == Parse(r.topic, r.logs)
         IN  /\ r.harm = "cut" => a.err # "nil"
             /\ r.harm = "none" =>
                  /\ a.err = "nil" /\ a.words = r.sent.words
                  /\ a.payload = Stretch(PayloadFrom(r.topic), Len(r.sent.payload))
                  /\ PayloadFrom(r.topic) + Len(r.sent.payload) <= r.logs[i].data.len
                  /\ Encodes(r.logs[i].data, r.topic, r.sent)
<1>1. /\ r.topic \in Topics /\ \A k \in DOMAIN r.logs : ReadableLog(r.logs[k])
  BY InputsAssumption
<1>2. CASE FirstWith(r.logs, r.topic) = {}
  <2>1. r.harm # "none"
    BY <1>2, CarriersAreFirst, HarmAssumption
  <2>2. Parse(r.topic, r.logs).err = NoLogError[r.topic]
    BY <1>2 DEF Parse, Refused
  <2>3. NoLogError[r.topic] # "nil"
    BY <1>1 DEF NoLogError, Topics
  <2> QED
    BY <2>1, <2>2, <2>3
<1>3. CASE FirstWith(r.logs, r.topic) # {}
  <2> DEFINE log == r.logs[i]
             e == r.sent
             t == r.topic
  <2>1. i \in FirstWith(r.logs, t)
    BY <1>3
  <2>2. ReadableLog(log)
    BY <1>1, <2>1 DEF FirstWith
  <2>3. /\ e \in Events /\ Len(e.words) = (IF t = "MessagePassed" THEN 3 ELSE 4)
        /\ r.harm # "any" => Encodes(log.data, t, e)
        /\ r.harm = "none" => Len(log.topics) = LogTopics /\ Ends(t, e) <= log.data.len
        /\ r.harm = "cut" => log.data.len < Ends(t, e)
    BY <2>1, CarriersAreFirst, HarmAssumption
  <2>4. Parse(t, r.logs) = IF t = "MessagePassed" THEN MessageOf(log) ELSE DepositOf(log)
    BY <1>3 DEF Parse
  <2>5. Ends(t, e) = PayloadFrom(t) + Len(e.payload)
    BY DEF Ends
  <2>6. CASE t = "MessagePassed"
    <3>1. Len(e.words) = 3
      BY <2>3, <2>6
    <3> HIDE DEF e, log
    <3> QED
      BY <2>2, <2>3, <2>4, <2>5, <2>6, <3>1, MessageIsWhole DEF e, log
  <2>7. CASE t = "TransactionDeposited"
    <3>1. Len(e.words) = 4
      BY <2>3, <2>7
    <3> HIDE DEF e, log
    <3> QED
      BY <2>2, <2>3, <2>4, <2>5, <2>7, <3>1, DepositIsWhole DEF e, log
  <2> QED
    BY <1>1, <2>6, <2>7 DEF Topics
<1> QED
  BY <1>2, <1>3

\* An event that is there is found and decoded to what the contract emitted,
\* whatever its payload and whatever stands before and behind it, for words of
\* every size (deposit.go:207, withdraw.go:94).
THEOREM IntactStaysExact == Spec => []IntactIsExact
<1>1. Judged => IntactIsExact
  <2> DEFINE r == given.receipt
             e == r.sent
             from == PayloadFrom(r.topic)
  <2> SUFFICES ASSUME Judged, NEW a \in answer, Is("receipt"), r.harm = "none"
               PROVE  /\ a.err = "nil" /\ a.words = e.words
                      /\ a.payload.n = Len(e.payload)
                      /\ \A i \in 1 .. a.payload.n : DataRead.word[a.payload.at + i - 1] = e.payload[i]
    BY DEF IntactIsExact
  <2>1. r \in Receipts /\ a = Parse(r.topic, r.logs)
    BY DEF Judged
  <2>2. /\ a.err = "nil" /\ a.words = e.words /\ a.payload = Stretch(from, Len(e.payload))
        /\ from + Len(e.payload) <= DataRead.len /\ Encodes(DataRead, r.topic, e)
    BY <2>1, ParseIsWhole DEF DataRead, Chosen
  <2>3. a.payload.n = Len(e.payload) /\ a.payload.at = from
    BY <2>2 DEF Stretch
  <2>4. /\ Len(e.payload) \in Nat /\ DOMAIN e.payload = 1 .. Len(e.payload)
        /\ from \in Nat /\ DataRead.len \in Nat
    <3>1. e \in Events
      BY <2>1, HarmAssumption
    <3>2. from \in Nat
      BY DecodeAssumption DEF PayloadFrom
    <3>3. FirstWith(r.logs, r.topic) # {}
      BY <2>1, CarriersAreFirst, HarmAssumption
    <3>4. ReadableLog(r.logs[CHOOSE i \in Chosen : TRUE])
      BY <2>1, <3>3, InputsAssumption DEF FirstWith, Chosen
    <3>5. DataRead.len \in Nat
      BY <3>4, LengthIsNat DEF DataRead
    <3> QED
      BY <3>1, <3>2, <3>5 DEF Events
  <2> DEFINE n == Len(e.payload)
  <2> HIDE DEF n, from
  <2>5. ASSUME NEW i \in 1 .. n
        PROVE  DataRead.word[from + i - 1] = e.payload[i]
    <3>1. from + i <= DataRead.len /\ i \in DOMAIN e.payload
      BY <2>2, <2>4, <2>5 DEF n
    <3> QED
      BY <2>2, <3>1 DEF Encodes, from
  <2> QED
    BY <2>2, <2>3, <2>5 DEF n
<1> QED
  BY <1>1, AlwaysJudged, PTL

\* An event whose data ends before its payload does is refused, wherever the
\* data ends (deposit.go:218, withdraw.go:136).
THEOREM CutStaysRefused == Spec => []CutIsRefused
<1>1. Judged => CutIsRefused
  <2> SUFFICES ASSUME Judged, NEW a \in answer, Is("receipt"), given.receipt.harm = "cut"
               PROVE  a.err # "nil"
    BY DEF CutIsRefused
  <2>1. /\ given.receipt \in Receipts
        /\ a = Parse(given.receipt.topic, given.receipt.logs)
    BY DEF Judged
  <2> QED
    BY <2>1, ParseIsWhole
<1> QED
  BY <1>1, AlwaysJudged, PTL
=============================================================================
