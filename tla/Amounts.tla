------------------------------ MODULE Amounts ------------------------------
(***************************************************************************)
(* Exact decimals and minor units: domain/money.ts for imported files, the *)
(* case currencies of cases/currency.ts, and what the operator console     *)
(* makes of an amount that was typed.  A text is absent, malformed, or its *)
(* digits with the number of them after the point: 1.50 is <<150, 2>>.     *)
(***************************************************************************)
EXTENDS Integers, Sequences, SequencesExt

CONSTANT MaxSafeInteger  \* Number.MAX_SAFE_INTEGER, scaled down

ASSUME SafeAssumption == MaxSafeInteger \in Nat \ {0}

Absent == [kind |-> "absent"]
Malformed == [kind |-> "malformed"]
Text(n, scale) == [kind |-> "text", n |-> n, scale |-> scale]
Parses(t) == t.kind = "text"

Scales == 0..4  \* bound: digits after the point
Texts == [kind: {"text"}, n: Nat, scale: Scales]
Pow10(k) == CASE k = 0 -> 1 [] k = 1 -> 10 [] k = 2 -> 100 [] k = 3 -> 1000 [] k = 4 -> 10000

----------------------------------------------------------------------------
(* parseExactDecimal, addExactDecimals, exactDecimalsEqual.  The code also *)
(* strips trailing zeros, which changes no sum and no comparison.          *)

Widest(a, b) == IF a.scale > b.scale THEN a.scale ELSE b.scale
Scaled(a, scale) == a.n * Pow10(scale - a.scale)

AddExact(a, b) == LET s == Widest(a, b) IN Text(Scaled(a, s) + Scaled(b, s), s)
EqualExact(a, b) == LET s == Widest(a, b) IN Scaled(a, s) = Scaled(b, s)
AtMost(a, b) == LET s == Widest(a, b) IN Scaled(a, s) <= Scaled(b, s)

\* The sum of the amounts that parse; the others are reported elsewhere.
Plus(sum, a) == IF Parses(a) THEN AddExact(sum, a) ELSE sum
Total(amounts) == FoldLeft(Plus, Text(0, 0), amounts)

----------------------------------------------------------------------------
(* decimalToMinorUnits.                                                    *)

CurrencyMinorUnits ==
  [c \in {"BGN", "CHF", "CZK", "DKK", "EUR", "GBP", "HUF", "ISK", "JPY", "NOK",
          "PLN", "RON", "SEK", "USD"} |-> IF c \in {"ISK", "JPY"} THEN 0 ELSE 2]

\* Digits beyond the smallest unit that are not all zero.
Finer(t, units) == t.scale > units /\ t.n % Pow10(t.scale - units) # 0

InUnits(t, units) ==
  IF t.scale > units THEN t.n \div Pow10(t.scale - units) ELSE t.n * Pow10(units - t.scale)

\* The minor units of a text, or 0 where the code refuses it.
\* Mutant: what is finer than the smallest unit is cut off.
ToMinor_Cut(t, units) ==
  IF Parses(t) /\ InUnits(t, units) <= MaxSafeInteger THEN InUnits(t, units) ELSE 0
ToMinor(t, units) ==
  IF Parses(t) /\ ~Finer(t, units) /\ InUnits(t, units) <= MaxSafeInteger
  THEN InUnits(t, units) ELSE 0

DecimalToMinorUnits(t, currency) ==
  IF currency \in DOMAIN CurrencyMinorUnits
  THEN ToMinor(t, CurrencyMinorUnits[currency]) ELSE 0

----------------------------------------------------------------------------
(* The case currencies, and the console's amounts: parseDecimalToMinor of  *)
(* what was typed, minorUnitsToDecimal of what is shown.                   *)

CanonicalCurrencyExponent ==
  [c \in {"USD", "EUR", "GBP", "CHF", "JPY", "BHD", "KWD", "OMR", "TND"} |->
    CASE c = "JPY" -> 0 [] c \in {"BHD", "KWD", "OMR", "TND"} -> 3 [] OTHER -> 2]

ParseDecimalToMinor(t, exponent) == ToMinor(t, exponent)
MinorUnitsToDecimal(minor, exponent) == Text(minor, exponent)

\* "amountMinor must be a positive safe integer" of a currency of the cases, at
\* its exponent.
ValidMoney(money) ==
  /\ money.amount \in 1..MaxSafeInteger
  /\ money.currency \in DOMAIN CanonicalCurrencyExponent
  /\ money.exponent = CanonicalCurrencyExponent[money.currency]

=============================================================================
