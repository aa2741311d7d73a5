------------------------------ MODULE Numbers ------------------------------
(***************************************************************************)
(* The arithmetic of the tool: parseEther (cmd/bridge/run.go), which turns *)
(* --amount into wei in binary floating point, and the gas margin of       *)
(* signedTransfer (internal/bridge/bridge.go), in uint64.                  *)
(*                                                                         *)
(* Precision, decimals, exponent range and width are parameters, so that a *)
(* scaled-down instance rounds, overflows and wraps within small numbers.  *)
(*                                                                         *)
(* A definition that stands right before another of the same parameters and*)
(* is used nowhere is a mistake one could make in it; the README says which*)
(* property notices.                                                       *)
(***************************************************************************)
EXTENDS Integers

CONSTANTS
  AmountPrec,   \* amountPrec: the bits of a mantissa (256)
  WeiDecimals,  \* one ETH is 10^WeiDecimals wei (18)
  MaxExp,       \* big.MaxExp: a finite big.Float is below 2^MaxExp
  Uint64s,      \* how many uint64 values there are
  GasMarginPercent

ASSUME NumbersAssumption ==
  /\ AmountPrec \in Nat \ {0}
  /\ WeiDecimals \in Nat
  /\ MaxExp \in Nat
  /\ Uint64s \in Nat \ {0}
  /\ GasMarginPercent \in 0 .. Uint64s - 1

\* The n-th power of b, in a form that a proof can unfold.
Pow(b, n) ==
  LET p[k \in Nat] == IF k = 0 THEN 1 ELSE b * p[k - 1]
  IN  p[n]

\* The range of a float goes well beyond its mantissa, and beyond the decimals
\* of a coin.
ASSUME RangeAssumption ==
  /\ AmountPrec + 4 <= MaxExp
  /\ Pow(5, WeiDecimals + 2) < Pow(2, MaxExp)

-----------------------------------------------------------------------------
(* big.Float: [m, e] stands for m * 2^e.                                   *)

BitLen[n \in Nat] == IF n = 0 THEN 0 ELSE 1 + BitLen[n \div 2]

Shift(n, s) == IF s > 0 THEN n * Pow(2, s) ELSE n

\* The integer nearest to num / den, the even one of two.
Nearest(num, den) ==
  LET q == num \div den
      twice == 2 * (num % den)
  IN  IF twice > den \/ (twice = den /\ q % 2 = 1) THEN q + 1 ELSE q

\* num / den rounded to prec bits.
Float(num, den, prec) ==
  LET low == BitLen[num] - BitLen[den] - prec
      e == IF Shift(num, -low) >= Shift(den, low) * Pow(2, prec) THEN low + 1 ELSE low
  IN  [m |-> Nearest(Shift(num, -e), Shift(den, e)), e |-> e]

\* Beyond the largest exponent a big.Float is infinite.
IsInf(f) == BitLen[f.m] + f.e > MaxExp

\* Int(nil): towards zero.
Truncated(f) == IF f.e >= 0 THEN f.m * Pow(2, f.e) ELSE f.m \div Pow(2, -f.e)

-----------------------------------------------------------------------------
(* parseEther of a text: n * 10^x if it is a decimal number.               *)

Texts == [decimal : BOOLEAN, n : Int, x : Int]
Amounts == [err : {"nil", "ErrBadAmount", "panic"}, wei : Nat]

\* SetString refuses an exponent out of range.
Unreadable(t) == ~t.decimal \/ BitLen[t.n] + t.x \notin -MaxExp .. MaxExp

\* A power of five that is out of range: infinite, or zero when divided by.
Huge(t) == t.x > 0 /\ Pow(5, t.x) >= Pow(2, MaxExp)
Tiny(t) == t.x < 0 /\ Pow(5, -t.x) >= Pow(2, MaxExp)

\* The decimal as a float, rounded once.
Num(t) == t.n * Pow(10, IF t.x > 0 THEN t.x ELSE 0)
Den(t) == Pow(10, IF t.x < 0 THEN -t.x ELSE 0)

\* A big.Float that SetPrec was not called for: 64 bits, a quarter.
AsFloatAtDefault(t) == Float(Num(t), Den(t), AmountPrec \div 4)
AsFloat(t) == Float(Num(t), Den(t), AmountPrec)

Product(t) ==
  LET f == AsFloat(t)
      p == Float(f.m * Pow(10, WeiDecimals), 1, AmountPrec)
  IN  [p EXCEPT !.e = @ + f.e]

BadAmount == [err |-> "ErrBadAmount", wei |-> 0]
Panic == [err |-> "panic", wei |-> 0]

\* Int(nil) of an infinity is a nil *big.Int, which has no Sign.
ParseEther(t) ==
  IF t.n <= 0 \/ Unreadable(t) \/ Tiny(t) THEN BadAmount
  ELSE IF Huge(t) \/ IsInf(AsFloat(t)) \/ IsInf(Product(t)) THEN Panic
  ELSE LET wei == Truncated(Product(t))
       IN  IF wei = 0 THEN BadAmount ELSE [err |-> "nil", wei |-> wei]

-----------------------------------------------------------------------------
(* gas += gas * gasMarginPercent / 100.                                    *)

Hundred == 100

\* Divided first, and so rounded before it is multiplied.
MarginDividedFirst(gas) == (gas \div Hundred) * GasMarginPercent
Margin(gas) == ((gas * GasMarginPercent) % Uint64s) \div Hundred

GasLimit(gas) == (gas + Margin(gas)) % Uint64s
=============================================================================
