------------------------------ MODULE Decimals -------------------------------
(***************************************************************************)
(* How the example script (drt-examples/mean) reads the number in a cell:  *)
(* parse_f64_bytes, its loops byte by byte.                                *)
(*                                                                         *)
(* Floating point is left out: a number is what was read of it (sign,      *)
(* digits before and after the point, exponent).                           *)
(***************************************************************************)
EXTENDS Datasets

CONSTANTS
    CellAsks,      \* [value, field]: a cell of an upload and its field of the schema
    Modulus,       \* 2^64, where the integer part wraps
    FracCap,       \* 18, the digits kept after the point
    ExpMax,        \* i32::MAX, where the exponent saturates
    SafeDigits     \* 19, the digits that an integer part may have without wrapping

Pow10[n \in 0..(SafeDigits + FracCap)] == IF n = 0 THEN 1 ELSE 10 * Pow10[n - 1]

\* 10^19 and 10^18 are below 2^64, and so is the largest i64.
ASSUME DigitsAssumption ==
    /\ Modulus \in Nat /\ FracCap \in Nat \ {0} /\ ExpMax \in Nat /\ SafeDigits \in Nat /\ IntMax \in Nat
    /\ Pow10[SafeDigits] <= Modulus /\ Pow10[FracCap] <= Modulus /\ IntMax + 1 < Modulus

ASSUME CellAsksAssumption ==
    \A a \in CellAsks : IsSeq(a.value) /\ a.field.precision \in Nat /\ a.field.scale \in Nat

VARIABLES
    cellAsk,
    numeral,     \* b: the cell without the blanks around it
    pos,         \* i, from 1
    part,        \* what is read next, and in the end "number" or "none"
    num          \* what was read: the parts, and the number of digits of each

decimalVars == <<cellAsk, numeral, pos, part, num>>

NoDigits ==
    [neg |-> FALSE, int |-> 0, ints |-> 0, frac |-> 0, fracs |-> 0,
     expNeg |-> FALSE, exp |-> 0, exps |-> 0]

DecimalStart ==
    /\ numeral = trim_ascii(cellAsk.value)
    /\ pos = 1
    /\ part = "sign"
    /\ num = NoDigits
DecimalInit == cellAsk \in CellAsks /\ DecimalStart

-----------------------------------------------------------------------------
(* drt-examples/mean/src/lib.rs                                            *)

At(p, S) == p <= Len(numeral) /\ numeral[p] \in S
Digit == DigitValue(numeral[pos])

ReadSign ==
    /\ part = "sign"
    /\ num' = [num EXCEPT !.neg = At(1, {"-"})]
    /\ pos' = IF At(1, Signs) THEN 2 ELSE 1
    /\ part' = IF pos' > Len(numeral) THEN "none" ELSE "int"
    /\ UNCHANGED <<cellAsk, numeral>>

\* wrapping_mul, wrapping_add
IntDigit ==
    /\ part = "int" /\ At(pos, Digits)
    /\ num' = [num EXCEPT !.int = (@ * 10 + Digit) % Modulus, !.ints = @ + 1]
    /\ pos' = pos + 1
    /\ UNCHANGED <<cellAsk, numeral, part>>

AfterDigits == IF num.ints = 0 /\ num.fracs = 0 THEN "none" ELSE "mark"

IntEnd ==
    /\ part = "int" /\ ~At(pos, Digits)
    /\ part' = IF At(pos, {"."}) THEN "frac" ELSE AfterDigits
    /\ pos' = IF At(pos, {"."}) THEN pos + 1 ELSE pos
    /\ UNCHANGED <<cellAsk, numeral, num>>

\* Digits past the cap are read and dropped.
FracDigit ==
    /\ part = "frac" /\ At(pos, Digits)
    /\ num' = IF num.fracs < FracCap
              THEN [num EXCEPT !.frac = (@ * 10 + Digit) % Modulus, !.fracs = @ + 1]
              ELSE num
    /\ pos' = pos + 1
    /\ UNCHANGED <<cellAsk, numeral, part>>

FracEnd ==
    /\ part = "frac" /\ ~At(pos, Digits)
    /\ part' = AfterDigits
    /\ UNCHANGED <<cellAsk, numeral, pos, num>>

ReadMark ==
    /\ part = "mark"
    /\ part' = IF At(pos, {"e", "E"}) THEN "exp" ELSE "end"
    /\ num' = [num EXCEPT !.expNeg = At(pos, {"e", "E"}) /\ At(pos + 1, {"-"})]
    /\ pos' = IF ~At(pos, {"e", "E"}) THEN pos ELSE IF At(pos + 1, Signs) THEN pos + 2 ELSE pos + 1
    /\ UNCHANGED <<cellAsk, numeral>>

\* saturating_mul, saturating_add
ExpDigit ==
    /\ part = "exp" /\ At(pos, Digits)
    /\ num' = [num EXCEPT !.exp = Min({@ * 10 + Digit, ExpMax}), !.exps = @ + 1]
    /\ pos' = pos + 1
    /\ UNCHANGED <<cellAsk, numeral, part>>

\* (Mutant) An exponent may have no digits.
ExpEndBare ==
    /\ part = "exp" /\ ~At(pos, Digits)
    /\ part' = "end"
    /\ UNCHANGED <<cellAsk, numeral, pos, num>>

ExpEnd ==
    /\ part = "exp" /\ ~At(pos, Digits)
    /\ part' = IF num.exps = 0 THEN "none" ELSE "end"
    /\ UNCHANGED <<cellAsk, numeral, pos, num>>

ReadEnd ==
    /\ part = "end"
    /\ part' = IF pos > Len(numeral) THEN "number" ELSE "none"
    /\ UNCHANGED <<cellAsk, numeral, pos, num>>

DecimalNext ==
    \/ ReadSign \/ IntDigit \/ IntEnd \/ FracDigit \/ FracEnd
    \/ ReadMark \/ ExpDigit \/ ExpEnd \/ ReadEnd

DecimalSpec == DecimalInit /\ [][DecimalNext]_decimalVars

-----------------------------------------------------------------------------

\* parse_f64_bytes reads exactly the decimal numerals, each with its value:
\* the integer part as long as it is below 2^64, the digits behind the point
\* up to the cap, the exponent up to the largest i32.
NumeralsRead ==
    part \in {"number", "none"} =>
        /\ part = "number" <=> IsNumeral(numeral)
        /\ \A i, j, k \in Places(numeral) :
              Written(numeral, i, j, k) =>
                  /\ num.neg <=> numeral[1] = "-"
                  /\ Value(numeral, i, j - 1) < Modulus => num.int = Value(numeral, i, j - 1)
                  /\ num.fracs = Min({Max({0, k - j - 1}), FracCap})
                  /\ num.frac = Value(numeral, j + 1, j + num.fracs)
                  /\ IF k > Len(numeral) THEN num.exp = 0
                     ELSE /\ num.exp = Min({Value(numeral, ExpFrom(numeral, k), Len(numeral)), ExpMax})
                          /\ num.expNeg <=> numeral[k + 1] = "-"

\* A cell that passed the validation of a number column is a number for the
\* script, with the same value, or empty: no row of a validated column is
\* skipped or changed, provided the column's precision cannot wrap.
ValidCellsCount ==
    LET f     == cellAsk.field
        point == Find(numeral, 1, {"."})
    IN  /\ part \in {"number", "none"} /\ numeral # <<>> /\ FieldFits(cellAsk.value, f)
        /\ \/ f.type = "integer"
           \/ f.type = "decimal" /\ f.precision <= SafeDigits /\ f.scale <= FracCap
        =>
        /\ part = "number" /\ num.exp = 0
        /\ num.int = Value(numeral, Unsigned(numeral), point - 1)
        /\ num.frac = Value(numeral, point + 1, Len(numeral))
        /\ num.fracs = Max({0, Len(numeral) - point})
=============================================================================
