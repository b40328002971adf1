------------------------------ MODULE Decimals ------------------------------
(***************************************************************************)
(* The conversions between texts and scaled integers: DecimalToScaled of   *)
(* src/exchange/binance_depth.cpp, ScaledToDecimal and the client order    *)
(* ids of src/exchange/signing.cpp, and FractionalScale of main.cpp.       *)
(*                                                                         *)
(* They were written one by one and have to agree with each other; a       *)
(* reference gives a text the number it stands for.  The one variable is   *)
(* the text, which is typed character by character.                        *)
(***************************************************************************)
EXTENDS Integers, Sequences, FiniteSets

CONSTANTS Digits,     \* the digits that are typed, of 0 .. 9
          MaxInt,     \* INT64_MAX, and the largest client id
          MaxScale,   \* bound: px_scale, qty_scale
          MaxLength   \* bound: the length of the text

ASSUME DigitsAssumption == Digits \subseteq 0 .. 9
ASSUME MaxIntAssumption == MaxInt \in Nat /\ MaxInt >= 9
ASSUME ScaleAssumption == MaxLength \in Nat \ {0} /\ MaxScale \in 0 .. MaxLength - 1

Dot == -1
Minus == -2
Letter == -3

VARIABLE text

DecInit == text = <<>>

DecNext ==
  /\ Len(text) < MaxLength
  /\ \E c \in Digits \cup {Dot, Minus, Letter} : text' = Append(text, c)

DecSpec == DecInit /\ [][DecNext]_text
-----------------------------------------------------------------------------
(* The code *)

\* One round of the loop of DecimalToScaled.  TakeMutant drops the digits beyond
\* the scale whatever they are.
TakeMutant(acc, c, scale) ==
  IF c = Dot THEN [acc EXCEPT !.ok = @ /\ ~acc.dot, !.dot = TRUE]
  ELSE IF c < 0 THEN [acc EXCEPT !.ok = FALSE]
  ELSE IF acc.dot /\ acc.frac >= scale THEN [acc EXCEPT !.any = TRUE]
  ELSE IF acc.value > (MaxInt - 9) \div 10 THEN [acc EXCEPT !.ok = FALSE]
  ELSE [acc EXCEPT !.any = TRUE, !.value = 10 * @ + c,
                   !.frac = IF acc.dot THEN @ + 1 ELSE @]

Take(acc, c, scale) ==
  IF c = Dot THEN [acc EXCEPT !.ok = @ /\ ~acc.dot, !.dot = TRUE]
  ELSE IF c < 0 THEN [acc EXCEPT !.ok = FALSE]
  ELSE IF acc.dot /\ acc.frac >= scale THEN [acc EXCEPT !.any = TRUE, !.ok = @ /\ c = 0]
  ELSE IF acc.value > (MaxInt - 9) \div 10 THEN [acc EXCEPT !.ok = FALSE]
  ELSE [acc EXCEPT !.any = TRUE, !.value = 10 * @ + c,
                   !.frac = IF acc.dot THEN @ + 1 ELSE @]

\* One round of the loop that supplies the missing decimals.
Pad(acc) ==
  IF acc.value > MaxInt \div 10 THEN [acc EXCEPT !.ok = FALSE]
  ELSE [acc EXCEPT !.value = 10 * @]

\* The two loops: over the characters, and up to the scale.
Unread == [ok |-> TRUE, any |-> FALSE, dot |-> FALSE, frac |-> 0, value |-> 0]

Read(s, scale) ==
  LET acc[n \in 0 .. Len(s)] == IF n = 0 THEN Unread ELSE Take(acc[n - 1], s[n], scale)
  IN  acc[Len(s)]

Padded(read, n) ==
  LET acc[k \in 0 .. n] == IF k = 0 THEN read ELSE Pad(acc[k - 1])
  IN  acc[n]

Rejected == [ok |-> FALSE, value |-> 0]

IsNegative(s) == s # <<>> /\ Head(s) = Minus

\* The text behind the sign.
Unsigned(s) == IF IsNegative(s) THEN Tail(s) ELSE s

DecimalToScaled(s, scale) ==
  LET read == Read(Unsigned(s), scale)
      full == Padded(read, scale - read.frac)
  IN  IF ~full.ok \/ ~full.any THEN Rejected
      ELSE [ok |-> TRUE, value |-> IF IsNegative(s) THEN -full.value ELSE full.value]

\* The divisor of a scale.
Pow10[n \in Nat] == IF n = 0 THEN 1 ELSE 10 * Pow10[n - 1]

\* std::to_string of a number that is not negative.
DigitsOf(n) ==
  LET len == CHOOSE k \in 1 .. n + 1 : n < Pow10[k] /\ (k = 1 \/ n >= Pow10[k - 1])
  IN  [i \in 1 .. len |-> (n \div Pow10[len - i]) % 10]

Zeros(n) == [i \in 1 .. n |-> 0]

\* ScaledToDecimalMutant leaves out the zeros behind the point.
ScaledToDecimalMutant(value, scale) ==
  LET mag   == IF value < 0 THEN -value ELSE value
      whole == DigitsOf(mag \div Pow10[scale])
      frac  == DigitsOf(mag % Pow10[scale])
      body  == IF scale = 0 THEN DigitsOf(mag) ELSE whole \o <<Dot>> \o frac
  IN  IF value < 0 THEN <<Minus>> \o body ELSE body

ScaledToDecimal(value, scale) ==
  LET mag   == IF value < 0 THEN -value ELSE value
      whole == DigitsOf(mag \div Pow10[scale])
      frac  == DigitsOf(mag % Pow10[scale])
      body  == IF scale = 0 THEN DigitsOf(mag)
               ELSE whole \o <<Dot>> \o Zeros(scale - Len(frac)) \o frac
  IN  IF value < 0 THEN <<Minus>> \o body ELSE body

\* FractionalScale: how far behind the point the last digit is that is not 0.
FractionalScale(s) ==
  LET dots == {i \in DOMAIN s : s[i] = Dot}
      dot  == CHOOSE i \in dots : \A j \in dots : i <= j
      ends == {i \in DOMAIN s : i > dot /\ s[i] # 0}
  IN  IF dots = {} \/ ends = {} THEN 0
      ELSE (CHOOSE i \in ends : \A j \in ends : i >= j) - dot

EncodeClientId(prefix, id) == prefix \o <<Minus>> \o DigitsOf(id)

FromChars(digits) ==
  LET value[n \in 0 .. Len(digits)] == IF n = 0 THEN 0 ELSE 10 * value[n - 1] + digits[n]
  IN  value[Len(digits)]

\* DecodeClientId: from_chars must read all that follows the prefix, and fit.
DecodeClientId(prefix, s) ==
  LET want   == Len(prefix) + 1
      digits == SubSeq(s, want + 1, Len(s))
      value  == FromChars(digits)
  IN  IF \/ Len(s) <= want
         \/ SubSeq(s, 1, Len(prefix)) # prefix
         \/ s[want] # Minus
         \/ \E i \in DOMAIN digits : digits[i] < 0
         \/ value > MaxInt
        THEN Rejected
        ELSE [ok |-> TRUE, value |-> value]
-----------------------------------------------------------------------------
(* The reference: the number a text stands for, in units of 10^-Places *)

Places == MaxLength - 1

Dots(body) == {i \in DOMAIN body : body[i] = Dot}

IsDecimal(s) ==
  LET body == Unsigned(s)
  IN  /\ Cardinality(Dots(body)) <= 1
      /\ \A i \in DOMAIN body \ Dots(body) : body[i] >= 0
      /\ DOMAIN body # Dots(body)

\* Where the point is, or would be.
Point(body) == IF Dots(body) = {} THEN Len(body) + 1 ELSE CHOOSE i \in Dots(body) : TRUE

\* A digit counts by its distance from the point.
Weight(body, i) ==
  Pow10[Places + Point(body) - i - (IF i < Point(body) THEN 1 ELSE 0)]

Size(body) ==
  LET sum[n \in 0 .. Len(body)] ==
        IF n = 0 THEN 0
        ELSE sum[n - 1] + (IF body[n] >= 0 THEN body[n] * Weight(body, n) ELSE 0)
  IN  sum[Len(body)]

Number(s) == IF IsNegative(s) THEN -Size(Unsigned(s)) ELSE Size(Unsigned(s))

Magnitude(n) == IF n < 0 THEN -n ELSE n
-----------------------------------------------------------------------------
(* Properties *)

\* DecimalToScaled never returns another number than the one the text stands for,
\* at any scale and at either end of the range; and it rejects nothing but texts
\* that are no decimals, numbers finer than the scale, and numbers within 9 of
\* INT64_MAX or beyond.
ParseIsExact ==
  \A scale \in 0 .. MaxScale :
    LET r    == DecimalToScaled(text, scale)
        unit == Pow10[Places - scale]
    IN  IF r.ok
          THEN /\ IsDecimal(text)
               /\ r.value * unit = Number(text)
               /\ Magnitude(r.value) <= MaxInt
          ELSE IsDecimal(text) =>
                 \/ Magnitude(Number(text)) % unit # 0
                 \/ Magnitude(Number(text)) \div unit > MaxInt - 9

\* The conversions undo one another: a number written by ScaledToDecimal is read
\* back by DecimalToScaled, an id by DecodeClientId; and FractionalScale of a
\* tick size is the least scale at which DecimalToScaled can read it.
ConversionsAgree ==
  \A scale \in 0 .. MaxScale :
    LET r == DecimalToScaled(text, scale)
    IN  r.ok /\ Magnitude(r.value) <= MaxInt - 9 =>
          /\ DecimalToScaled(ScaledToDecimal(r.value, scale), scale) = r
          /\ r.value >= 0 =>
               DecodeClientId(<<Letter>>, EncodeClientId(<<Letter>>, r.value)) = r
          /\ FractionalScale(text) <= scale
          /\ scale > 0 => (FractionalScale(text) = scale <=>
                             ~DecimalToScaled(text, scale - 1).ok)
=============================================================================
