--------------------------- MODULE DecimalsProofs ---------------------------
(***************************************************************************)
(* Proofs about Decimals, for any cell, any field of a schema and any      *)
(* limits of the number formats.                                           *)
(*                                                                         *)
(* NumeralsRead says what the whole text means, and a step reads a byte:   *)
(* DecimalInv says, for each part of a numeral, that the digits read so    *)
(* far have the value kept, and that a text is given up only when it is no *)
(* numeral.  ValidCellsCount follows from it and from what                 *)
(* validate_decimal lets through.                                          *)
(*                                                                         *)
(* The lemmas before are about texts: the first byte of a set (Find), the  *)
(* value of digits (Value), which grows digit by digit, and the places at  *)
(* which a numeral can be cut (Written), of which there is one choice.     *)
(* What a recursive function computes is shown by induction over a set of  *)
(* numbers without a counterexample (NatSet).                              *)
(***************************************************************************)
EXTENDS Decimals, FiniteSetTheorems, WellFoundedInduction, TLAPS

\* A set that has 0 and with every number the next has all numbers.
LEMMA NatSet ==
  ASSUME NEW S, 0 \in S, \A n \in Nat : n \in S => n + 1 \in S
  PROVE  Nat \subseteq S
<1> DEFINE R == OpToRel(<, Nat)
<1> SUFFICES ASSUME Nat \ S # {} PROVE FALSE
  OBVIOUS
<1>1. PICK m \in Nat \ S : \A y \in Nat \ S : ~(<<y, m>> \in R)
  BY NatLessThanWellFounded, WFMin
<1>2. m # 0 /\ m - 1 \in Nat /\ (m - 1) + 1 = m
  OBVIOUS
<1>3. <<m - 1, m>> \in R
  BY <1>2 DEF OpToRel
<1> QED
  BY Zenon, <1>1, <1>2, <1>3

\* The powers of ten are what their definition says.
LEMMA Pow10Def ==
  /\ Pow10[0] = 1
  /\ \A n \in 0..(SafeDigits + FracCap) : n + 1 \in 0..(SafeDigits + FracCap) => Pow10[n + 1] = 10 * Pow10[n]
<1> DEFINE Is(g, n) == g = [k \in 0..n |-> IF k = 0 THEN 1 ELSE 10 * g[k - 1]]
           S == {n \in Nat : \E g : Is(g, n)}
           top == SafeDigits + FracCap
<1>0. top \in Nat
  BY DigitsAssumption
<1>1. 0 \in S
  <2>1. Is([k \in 0..0 |-> 1], 0)
    OBVIOUS
  <2> QED
    BY <2>1
<1>2. ASSUME NEW n \in Nat, n \in S PROVE n + 1 \in S
  <2>1. PICK g : Is(g, n)
    BY <1>2
  <2> DEFINE h == [k \in 0..(n + 1) |-> IF k = 0 THEN 1 ELSE 10 * g[k - 1]]
  <2>2. \A k \in 0..n : h[k] = g[k]
    BY <2>1
  <2>3. \A k \in 0..(n + 1) : k # 0 => k - 1 \in 0..n
    OBVIOUS
  <2>4. \A k \in 0..(n + 1) : (IF k = 0 THEN 1 ELSE 10 * g[k - 1]) = (IF k = 0 THEN 1 ELSE 10 * h[k - 1])
    <3> HIDE DEF h
    <3> QED
      BY <2>2, <2>3
  <2>5. Is(h, n + 1)
    BY Zenon, <2>4
  <2>6. n + 1 \in Nat
    OBVIOUS
  <2> HIDE DEF Is
  <2> QED
    BY Zenon, <2>5, <2>6
<1>3. \E g : Is(g, top)
  <2> HIDE DEF S
  <2>1. top \in S
    BY Zenon, <1>0, <1>1, <1>2, NatSet
  <2> USE DEF S
  <2> QED
    BY Zenon, <2>1
<1>4. Pow10 = [k \in 0..top |-> IF k = 0 THEN 1 ELSE 10 * Pow10[k - 1]]
  BY Zenon, <1>3 DEF Pow10
<1> HIDE DEF top
<1> QED
  BY <1>0, <1>4 DEF top

\* The powers of ten grow.
LEMMA Pow10Grows ==
  \A n \in 0..(SafeDigits + FracCap) : \A m \in 0..n : Pow10[m] \in Nat /\ Pow10[m] <= Pow10[n]
<1> DEFINE top == SafeDigits + FracCap
           S == {n \in Nat : n <= top => \A m \in 0..n : Pow10[m] \in Nat /\ Pow10[m] <= Pow10[n]}
<1>0. top \in Nat
  BY DigitsAssumption
<1>1. 0 \in S
  BY Pow10Def
<1>2. ASSUME NEW n \in Nat, n \in S PROVE n + 1 \in S
  <2> SUFFICES ASSUME n + 1 <= top, NEW m \in 0..(n + 1)
               PROVE  Pow10[m] \in Nat /\ Pow10[m] <= Pow10[n + 1]
    OBVIOUS
  <2>1. n \in 0..top /\ n + 1 \in 0..top /\ n \in 0..n /\ (m \in 0..n \/ m = n + 1)
    BY <1>0
  <2>2. \A k \in 0..n : Pow10[k] \in Nat /\ Pow10[k] <= Pow10[n]
    BY <1>0, <1>2, <2>1
  <2>3. Pow10[n + 1] = 10 * Pow10[n]
    BY Zenon, <2>1, Pow10Def
  <2>4. Pow10[n] \in Nat /\ (m \in 0..n => Pow10[m] \in Nat /\ Pow10[m] <= Pow10[n])
    BY Zenon, <2>1, <2>2
  <2> QED
    BY <2>1, <2>3, <2>4
<1>3. Nat \subseteq S
  BY <1>1, <1>2, NatSet
<1> QED
  BY <1>0, <1>3

\* A digit has a value below ten, and is no sign, point or letter.
LEMMA DigitFacts ==
  /\ \A c \in Digits : DigitValue(c) \in 0..9
  /\ \A c \in Digits : c \notin {"+", "-", ".", "e", "E"}
<1>1. /\ DigitList[0 + 1] = "0" /\ DigitList[1 + 1] = "1" /\ DigitList[2 + 1] = "2"
      /\ DigitList[3 + 1] = "3" /\ DigitList[4 + 1] = "4" /\ DigitList[5 + 1] = "5"
      /\ DigitList[6 + 1] = "6" /\ DigitList[7 + 1] = "7" /\ DigitList[8 + 1] = "8" /\ DigitList[9 + 1] = "9"
  BY DEF DigitList
<1>2. {0, 1, 2, 3, 4, 5, 6, 7, 8, 9} \subseteq 0..9
  OBVIOUS
<1>3. ASSUME NEW c \in Digits PROVE \E n \in 0..9 : DigitList[n + 1] = c
  BY <1>1, <1>2 DEF Digits
<1>4. \A c \in Digits : DigitValue(c) \in 0..9
  BY Zenon, <1>3 DEF DigitValue
<1>5. \A c \in Digits : c \notin {"+", "-", ".", "e", "E"}
  BY DEF Digits
<1> QED
  BY Zenon, <1>4, <1>5

\* The value of digits is what its definition says.
LEMMA ValueDef ==
  ASSUME NEW s, Len(s) \in Nat, NEW from \in Nat \ {0}, NEW to \in 0..(Len(s) + 1)
  PROVE  Value(s, from, to) = IF to < from THEN 0 ELSE Value(s, from, to - 1) * 10 + DigitValue(s[to])
<1> DEFINE Is(g, n) == g = [k \in 0..n |-> IF k < from THEN 0 ELSE g[k - 1] * 10 + DigitValue(s[k])]
           S == {n \in Nat : \E g : Is(g, n)}
           top == Len(s) + 1
<1>1. 0 \in S
  <2>1. Is([k \in 0..0 |-> 0], 0)
    OBVIOUS
  <2> QED
    BY <2>1
<1>2. ASSUME NEW n \in Nat, n \in S PROVE n + 1 \in S
  <2>1. PICK g : Is(g, n)
    BY <1>2
  <2> DEFINE h == [k \in 0..(n + 1) |-> IF k < from THEN 0 ELSE g[k - 1] * 10 + DigitValue(s[k])]
  <2>2. \A k \in 0..n : h[k] = g[k]
    BY <2>1
  <2>3. \A k \in 0..(n + 1) : ~(k < from) => k - 1 \in 0..n
    OBVIOUS
  <2>4. \A k \in 0..(n + 1) : (IF k < from THEN 0 ELSE g[k - 1] * 10 + DigitValue(s[k]))
                               = (IF k < from THEN 0 ELSE h[k - 1] * 10 + DigitValue(s[k]))
    <3> HIDE DEF h
    <3> QED
      BY <2>2, <2>3
  <2>5. Is(h, n + 1)
    BY Zenon, <2>4
  <2>6. n + 1 \in Nat
    OBVIOUS
  <2> HIDE DEF Is
  <2> QED
    BY Zenon, <2>5, <2>6
<1>3. \E g : Is(g, top)
  <2> HIDE DEF S
  <2>1. top \in S
    BY <1>1, <1>2, NatSet
  <2> USE DEF S
  <2> QED
    BY Zenon, <2>1
<1> DEFINE f == CHOOSE g : Is(g, top)
<1>4. Is(f, top)
  BY Zenon, <1>3
<1>5. Value(s, from, to) = f[to] /\ Value(s, from, to - 1) = f[to - 1]
  BY Zenon DEF Value
<1>6. f[to] = IF to < from THEN 0 ELSE f[to - 1] * 10 + DigitValue(s[to])
  <2> HIDE DEF f
  <2> QED
    BY <1>4
<1> HIDE DEF f
<1> QED
  BY <1>5, <1>6

\* Digits make a number.
LEMMA ValueNat ==
  ASSUME NEW s, Len(s) \in Nat, NEW from \in Nat \ {0}, NEW to \in 0..(Len(s) + 1), AllDigits(s, from, to)
  PROVE  Value(s, from, to) \in Nat
<1> DEFINE S == {n \in Nat : n <= to => Value(s, from, n) \in Nat}
<1>1. 0 \in S
  BY ValueDef
<1>2. ASSUME NEW n \in Nat, n \in S PROVE n + 1 \in S
  <2> SUFFICES ASSUME n + 1 <= to PROVE Value(s, from, n + 1) \in Nat
    OBVIOUS
  <2>1. n \in 0..(Len(s) + 1) /\ n + 1 \in 0..(Len(s) + 1) /\ (n + 1) - 1 = n /\ n <= to
    OBVIOUS
  <2>2. Value(s, from, n + 1) = IF n + 1 < from THEN 0 ELSE Value(s, from, n) * 10 + DigitValue(s[n + 1])
    BY <2>1, ValueDef
  <2>3. Value(s, from, n) \in Nat
    BY <1>2, <2>1
  <2>4. ~(n + 1 < from) => DigitValue(s[n + 1]) \in 0..9
    BY <2>1, DigitFacts DEF AllDigits
  <2> DEFINE v == Value(s, from, n)
             d == DigitValue(s[n + 1])
  <2>5. ASSUME NEW a \in Nat, NEW b \in 0..9 PROVE a * 10 + b \in Nat
    OBVIOUS
  <2>6. ~(n + 1 < from) => v * 10 + d \in Nat
    BY Zenon, <2>3, <2>4, <2>5
  <2> HIDE DEF v, d
  <2>7. 0 \in Nat
    OBVIOUS
  <2>8. Value(s, from, n + 1) = IF n + 1 < from THEN 0 ELSE v * 10 + d
    BY Zenon, <2>2 DEF v, d
  <2> QED
    BY Zenon, <2>6, <2>7, <2>8
<1>3. Nat \subseteq S
  BY <1>1, <1>2, NatSet
<1> QED
  BY <1>3

\* The lesser and the greater of two.
LEMMA MinMax ==
  ASSUME NEW a \in Int, NEW b \in Int
  PROVE  Min({a, b}) = (IF a <= b THEN a ELSE b) /\ Max({a, b}) = (IF a <= b THEN b ELSE a)
  BY DEF Min, Max

\* A set of numbers has a least one.
LEMMA MinOf ==
  ASSUME NEW S \in SUBSET Nat, S # {}
  PROVE  Min(S) \in S /\ \A x \in S : Min(S) <= x
<1> DEFINE R == OpToRel(<, Nat)
<1>1. PICK m \in S : \A y \in S : ~(<<y, m>> \in R)
  BY NatLessThanWellFounded, WFMin
<1>2. \A y \in S : ~(y < m)
  BY <1>1 DEF OpToRel
<1>3. \A y \in S : m <= y
  BY <1>2
<1> QED
  BY Zenon, <1>3 DEF Min

\* A bounded set of numbers has a greatest one.
LEMMA MaxOf ==
  ASSUME NEW n \in Nat, NEW S \in SUBSET (0..n), S # {}
  PROVE  Max(S) \in S /\ \A x \in S : x <= Max(S)
<1> DEFINE T == {n - x : x \in S}
<1>1. T \in SUBSET Nat /\ T # {}
  <2>1. \A x \in S : x \in Nat /\ x <= n
    OBVIOUS
  <2>2. \A x \in S : n - x \in Nat
    BY <2>1
  <2> QED
    BY Zenon, <2>2
<1>2. Min(T) \in T /\ \A y \in T : Min(T) <= y
  BY Zenon, <1>1, MinOf
<1>3. PICK m \in S : Min(T) = n - m
  BY Zenon, <1>2
<1>4. ASSUME NEW x \in S PROVE x <= m
  <2>1. n - m <= n - x
    BY Zenon, <1>2, <1>3
  <2> QED
    BY <2>1
<1> QED
  BY Zenon, <1>4 DEF Max

\* What the proofs use of a sequence.
Listed(s) == Len(s) \in Nat /\ DOMAIN s = 1..Len(s) /\ (s = <<>> <=> Len(s) = 0)

\* A sequence is one.
LEMMA SeqListed == ASSUME NEW T, NEW s \in Seq(T) PROVE Listed(s)
  BY DEF Listed

\* A text without the blanks around it is a text.
LEMMA TrimListed ==
  ASSUME NEW s, IsSeq(s)
  PROVE  Listed(trim_ascii(s))
<1> DEFINE kept == {i \in 1..Len(s) : s[i] \notin Blank}
           T == {s[k] : k \in DOMAIN s}
<1>1. s \in Seq(T) /\ Len(s) \in Nat
  BY DEF IsSeq
<1>2. CASE kept = {}
  <2>1. trim_ascii(s) = <<>>
    BY Zenon, <1>2 DEF trim_ascii
  <2> QED
    BY <2>1 DEF Listed
<1>3. CASE kept # {}
  <2>1. trim_ascii(s) = SubSeq(s, Min(kept), Max(kept))
    BY Zenon, <1>3 DEF trim_ascii
  <2>2. kept \in SUBSET Nat /\ kept \in SUBSET (0..Len(s)) /\ kept \subseteq 1..Len(s)
    BY <1>1
  <2>3. Min(kept) \in 1..Len(s) /\ Max(kept) \in 1..Len(s)
    BY Zenon, <1>1, <1>3, <2>2, MinOf, MaxOf
  <2> HIDE DEF kept, T
  <2>4. SubSeq(s, Min(kept), Max(kept)) \in Seq(T)
    BY <1>1, <2>3
  <2> QED
    BY Zenon, <2>1, <2>4, SeqListed
<1> QED
  BY <1>2, <1>3

\* Where a byte is found.
LEMMA FindFacts ==
  ASSUME NEW s, Len(s) \in Nat, NEW i \in Nat \ {0}, i <= Len(s) + 1, NEW S
  PROVE  /\ Find(s, i, S) \in i..(Len(s) + 1)
         /\ Find(s, i, S) <= Len(s) => s[Find(s, i, S)] \in S
         /\ \A k \in i..(Find(s, i, S) - 1) : s[k] \notin S
<1> DEFINE T == {j \in i..Len(s) : s[j] \in S} \cup {Len(s) + 1}
           m == Find(s, i, S)
<1>1. T \in SUBSET Nat /\ T # {} /\ T \subseteq i..(Len(s) + 1)
  OBVIOUS
<1>2. m \in T /\ \A x \in T : m <= x
  BY Zenon, <1>1, MinOf DEF Find
<1>3. m \in i..(Len(s) + 1)
  BY Zenon, <1>1, <1>2
<1> HIDE DEF m
<1>4. m <= Len(s) => s[m] \in S
  BY <1>2, <1>3
<1>5. ASSUME NEW k \in i..(m - 1), s[k] \in S PROVE FALSE
  <2>1. k \in T
    BY <1>3, <1>5
  <2>2. m <= k
    BY Zenon, <1>2, <2>1
  <2> QED
    BY <1>3, <2>2
<1> QED
  BY Zenon, <1>3, <1>4, <1>5 DEF m
Nums == [neg : BOOLEAN, int : Nat, ints : Nat, frac : Nat, fracs : Nat,
         expNeg : BOOLEAN, exp : Nat, exps : Nat]

\* Where the digits of the integer part end.
Dot(s, n) == Unsigned(s) + n.ints
Ended(s, p) == p <= Len(s) => s[p] \notin Digits

\* The integer part that was read.
IntRead(s, n) ==
    /\ Unsigned(s) <= Dot(s, n) /\ Dot(s, n) <= Len(s) + 1
    /\ AllDigits(s, Unsigned(s), Dot(s, n) - 1)
    /\ Value(s, Unsigned(s), Dot(s, n) - 1) < Modulus => n.int = Value(s, Unsigned(s), Dot(s, n) - 1)
    /\ n.ints <= SafeDigits =>
          n.int = Value(s, Unsigned(s), Dot(s, n) - 1) /\ n.int < Pow10[n.ints]

\* The digits behind the point, which is at dot, up to q: c digits of the
\* value v.  When there is no point, q is dot.
Behind(s, dot, q, c, v) ==
    /\ dot <= q /\ q <= Len(s) + 1
    /\ dot < q => s[dot] = "." /\ AllDigits(s, dot + 1, q - 1)
    /\ c = Min({Max({0, q - dot - 1}), FracCap})
    /\ v = Value(s, dot + 1, dot + c)
    /\ v < Pow10[c]
FracRead(s, n, q) == Behind(s, Dot(s, n), q, n.fracs, n.frac)

\* All of the number but the exponent, which starts at k or is missing.
Mantissa(s, n, k) ==
    /\ FracRead(s, n, k)
    /\ Ended(s, Dot(s, n)) /\ Ended(s, k)
    /\ k = Dot(s, n) => ~(k <= Len(s) /\ s[k] = ".")
    /\ n.ints # 0 \/ n.fracs # 0

\* The exponent whose letter is at k, up to p.
ExpRead(s, n, k, p) ==
    /\ k \in 1..Len(s) /\ s[k] \in {"e", "E"}
    /\ p = ExpFrom(s, k) + n.exps /\ p <= Len(s) + 1
    /\ AllDigits(s, ExpFrom(s, k), p - 1)
    /\ n.exp = Min({Value(s, ExpFrom(s, k), p - 1), ExpMax})
    /\ n.expNeg <=> k < Len(s) /\ s[k + 1] = "-"

\* Where the digits start.
LEMMA UnsignedFacts ==
  ASSUME NEW s, Listed(s)
  PROVE  /\ Unsigned(s) \in {1, 2} /\ Unsigned(s) <= Len(s) + 1
         /\ Unsigned(s) = 2 => Len(s) >= 1 /\ s[1] \in Signs
         /\ Unsigned(s) = 1 /\ Len(s) >= 1 => s[1] \notin Signs
  BY DEF Unsigned, Listed

\* A number below a modulus is itself.
LEMMA SmallMod == \A m \in Nat \ {0} : \A x \in Nat : x % m \in Nat /\ (x < m => x % m = x)
  OBVIOUS

\* One more digit.
LEMMA Horner == \A v, d, p, m \in Nat : d <= 9 =>
    /\ v * 10 + d \in Nat
    /\ v * 10 + d < m => v < m
    /\ v < p => v * 10 + d < 10 * p
  OBVIOUS

\* The value of one more digit.
LEMMA ValueStep ==
  ASSUME NEW s, Len(s) \in Nat, NEW f \in Nat \ {0}, NEW p \in Nat, f <= p, p <= Len(s),
         AllDigits(s, f, p - 1), s[p] \in Digits
  PROVE  /\ AllDigits(s, f, p)
         /\ Value(s, f, p - 1) \in Nat /\ DigitValue(s[p]) \in Nat /\ DigitValue(s[p]) <= 9
         /\ Value(s, f, p) = Value(s, f, p - 1) * 10 + DigitValue(s[p])
<1>1. DigitValue(s[p]) \in 0..9
  BY Zenon, DigitFacts
<1>2. \A d \in 0..9 : d \in Nat /\ d <= 9
  OBVIOUS
<1>3. p - 1 \in 0..(Len(s) + 1) /\ p \in 0..(Len(s) + 1) /\ ~(p < f)
  OBVIOUS
<1>4. \A k \in f..p : k \in f..(p - 1) \/ k = p
  OBVIOUS
<1>5. AllDigits(s, f, p)
  BY Zenon, <1>4 DEF AllDigits
<1>6. Value(s, f, p - 1) \in Nat
  BY Zenon, <1>3, ValueNat
<1>7. Value(s, f, p) = Value(s, f, p - 1) * 10 + DigitValue(s[p])
  BY Zenon, <1>3, ValueDef
<1> QED
  BY Zenon, <1>1, <1>2, <1>5, <1>6, <1>7

\* One more digit of a number that wraps.
LEMMA Wrap ==
  ASSUME NEW v \in Nat, NEW d \in Nat, d <= 9, NEW i \in Nat, NEW c \in Nat,
         v < Modulus => i = v,
         c <= SafeDigits => i = v /\ i < Pow10[c]
  PROVE  /\ (i * 10 + d) % Modulus \in Nat
         /\ v * 10 + d < Modulus => (i * 10 + d) % Modulus = v * 10 + d
         /\ c + 1 <= SafeDigits => /\ (i * 10 + d) % Modulus = v * 10 + d
                                   /\ (i * 10 + d) % Modulus < Pow10[c + 1]
<1>0. /\ Modulus \in Nat \ {0} /\ SafeDigits \in Nat /\ FracCap \in Nat
      /\ Pow10[SafeDigits] <= Modulus
  BY DigitsAssumption
<1>1. i * 10 + d \in Nat /\ v * 10 + d \in Nat /\ (v * 10 + d < Modulus => v < Modulus)
  BY <1>0
<1>2. (i * 10 + d) % Modulus \in Nat
  BY Zenon, <1>0, <1>1, SmallMod
<1>3. ASSUME v * 10 + d < Modulus PROVE (i * 10 + d) % Modulus = v * 10 + d
  <2>1. i = v
    BY Zenon, <1>1, <1>3
  <2> QED
    BY Zenon, <1>0, <1>1, <1>3, <2>1, SmallMod
<1>4. ASSUME c + 1 <= SafeDigits
      PROVE  v * 10 + d < Modulus /\ v * 10 + d < Pow10[c + 1]
  <2>1. /\ c \in 0..(SafeDigits + FracCap) /\ c + 1 \in 0..(SafeDigits + FracCap) /\ c \in 0..c
        /\ c + 1 \in 0..SafeDigits /\ SafeDigits \in 0..(SafeDigits + FracCap) /\ c <= SafeDigits
        /\ SafeDigits \in 0..SafeDigits
    BY <1>0, <1>4
  <2>2. Pow10[c + 1] = 10 * Pow10[c]
    BY Zenon, <2>1, Pow10Def
  <2>3. Pow10[c + 1] \in Nat /\ Pow10[c + 1] <= Pow10[SafeDigits]
    BY Zenon, <2>1, Pow10Grows
  <2>4. Pow10[c] \in Nat /\ Pow10[SafeDigits] \in Nat
    BY Zenon, <2>1, Pow10Grows
  <2>5. v < Pow10[c]
    BY <2>1
  <2>6. v * 10 + d < Pow10[c + 1]
    BY <2>2, <2>4, <2>5
  <2> QED
    BY <1>0, <1>1, <2>3, <2>4, <2>6
<1> QED
  BY <1>2, <1>3, <1>4

\* A digit of the integer part.
LEMMA IntStep ==
  ASSUME NEW s, Listed(s), NEW n \in Nums, IntRead(s, n), Dot(s, n) <= Len(s), s[Dot(s, n)] \in Digits
  PROVE  LET m == [n EXCEPT !.int = (n.int * 10 + DigitValue(s[Dot(s, n)])) % Modulus, !.ints = n.ints + 1]
         IN  m \in Nums /\ IntRead(s, m) /\ Dot(s, m) = Dot(s, n) + 1
<1> DEFINE f == Unsigned(s)
           dot == Dot(s, n)
           d == DigitValue(s[dot])
           v == Value(s, f, dot - 1)
           i == n.int
           c == n.ints
           w == (i * 10 + d) % Modulus
           m == [n EXCEPT !.int = w, !.ints = c + 1]
<1>1. f \in {1, 2} /\ Len(s) \in Nat
  BY Zenon, UnsignedFacts DEF Listed
<1>2. c \in Nat /\ i \in Nat
  BY Zenon DEF Nums
<1>3. dot = f + c
  BY Zenon DEF Dot
<1>4. f <= dot /\ dot <= Len(s)
  BY Zenon DEF IntRead
<1>5. AllDigits(s, f, dot - 1)
  BY Zenon DEF IntRead
<1>6. /\ v < Modulus => i = v
      /\ c <= SafeDigits => i = v /\ i < Pow10[c]
  BY Zenon DEF IntRead
<1>7. s[dot] \in Digits
  BY Zenon
<1>8. m.int = w /\ m.ints = c + 1 /\ (w \in Nat /\ c + 1 \in Nat => m \in Nums)
  <2> HIDE DEF w, c
  <2> QED
    BY DEF Nums
<1>9. Dot(s, m) = f + m.ints
  BY Zenon DEF Dot
<1>10. ASSUME Dot(s, m) = dot + 1, (dot + 1) - 1 = dot, f <= dot + 1, dot + 1 <= Len(s) + 1,
              AllDigits(s, f, dot),
              Value(s, f, dot) < Modulus => m.int = Value(s, f, dot),
              m.ints <= SafeDigits => m.int = Value(s, f, dot) /\ m.int < Pow10[m.ints]
       PROVE  IntRead(s, m)
  BY Zenon, <1>10 DEF IntRead
<1> HIDE DEF f, dot, i, c, m
<1>11. f \in Nat \ {0} /\ dot \in Nat
  BY <1>1, <1>2, <1>3
<1>12. /\ AllDigits(s, f, dot) /\ v \in Nat /\ d \in Nat /\ d <= 9
       /\ Value(s, f, dot) = v * 10 + d
  BY Zenon, <1>1, <1>4, <1>5, <1>7, <1>11, ValueStep
<1> HIDE DEF d, v
<1>13. /\ w \in Nat
       /\ v * 10 + d < Modulus => w = v * 10 + d
       /\ c + 1 <= SafeDigits => w = v * 10 + d /\ w < Pow10[c + 1]
  BY Zenon, <1>2, <1>6, <1>12, Wrap
<1>14. /\ f + (c + 1) = dot + 1 /\ (dot + 1) - 1 = dot /\ f <= dot + 1 /\ dot + 1 <= Len(s) + 1
       /\ c + 1 \in Nat
  BY <1>1, <1>2, <1>3, <1>4, <1>11
<1>15. Dot(s, m) = dot + 1
  BY Zenon, <1>8, <1>9, <1>14
<1>16. IntRead(s, m)
  BY Zenon, <1>8, <1>10, <1>12, <1>13, <1>14, <1>15
<1>17. m \in Nums
  BY Zenon, <1>8, <1>13, <1>14
<1> QED
  BY Zenon, <1>15, <1>16, <1>17 DEF m, w, i, d, c, dot

\* The integer part does not depend on the rest of the number.
LEMMA IntSame ==
  ASSUME NEW s, NEW n, NEW m, IntRead(s, n), m.int = n.int, m.ints = n.ints
  PROVE  IntRead(s, m) /\ Dot(s, m) = Dot(s, n)
<1>1. Dot(s, m) = Dot(s, n)
  BY Zenon DEF Dot
<1> QED
  BY Zenon, <1>1 DEF IntRead

\* Nor does the mantissa depend on the exponent.
LEMMA MantissaSame ==
  ASSUME NEW s, NEW n, NEW m, NEW k, Mantissa(s, n, k),
         m.ints = n.ints, m.frac = n.frac, m.fracs = n.fracs
  PROVE  Mantissa(s, m, k)
<1>1. Dot(s, m) = Dot(s, n)
  BY Zenon DEF Dot
<1>2. FracRead(s, m, k)
  BY Zenon, <1>1 DEF Mantissa, FracRead
<1> QED
  BY Zenon, <1>1, <1>2 DEF Mantissa

\* One more digit behind the point, below the cap and at it.
LEMMA Capped ==
  ASSUME NEW s, Len(s) \in Nat, NEW dot \in Nat \ {0}, NEW q \in Nat, dot < q, q <= Len(s), s[q] \in Digits,
         NEW c \in Nat, NEW v \in Nat, Behind(s, dot, q, c, v)
  PROVE  /\ c >= FracCap => Behind(s, dot, q + 1, c, v)
         /\ c < FracCap => /\ (v * 10 + DigitValue(s[q])) % Modulus \in Nat
                           /\ Behind(s, dot, q + 1, c + 1, (v * 10 + DigitValue(s[q])) % Modulus)
<1> DEFINE a == q - dot - 1
           b == (q + 1) - dot - 1
           d == DigitValue(s[q])
           w == (v * 10 + d) % Modulus
<1>0. /\ Modulus \in Nat \ {0} /\ SafeDigits \in Nat /\ FracCap \in Nat
      /\ Pow10[FracCap] <= Modulus
  BY DigitsAssumption
<1>a. /\ s[dot] = "." /\ AllDigits(s, dot + 1, q - 1)
      /\ c = Min({Max({0, a}), FracCap}) /\ v = Value(s, dot + 1, dot + c) /\ v < Pow10[c]
  BY Zenon DEF Behind
<1>b. dot <= q + 1 /\ q + 1 <= Len(s) + 1 /\ (q + 1) - 1 = q /\ dot + 1 \in Nat \ {0} /\ dot + 1 <= q
  OBVIOUS
<1>c. AllDigits(s, dot + 1, (q + 1) - 1)
  BY Zenon, <1>a, <1>b, ValueStep
<1>d. ASSUME NEW x, NEW y, x = Min({Max({0, b}), FracCap}), y = Value(s, dot + 1, dot + x), y < Pow10[x]
      PROVE  Behind(s, dot, q + 1, x, y)
  BY Zenon, <1>a, <1>b, <1>c, <1>d DEF Behind
<1>1. a \in Nat /\ b = a + 1 /\ a \in Int /\ b \in Int /\ 0 \in Int /\ FracCap \in Int /\ b \in Nat
  BY <1>0
<1> HIDE DEF a, b
<1>2. Max({0, a}) = a /\ Max({0, b}) = b
  <2>1. Max({0, a}) = (IF 0 <= a THEN a ELSE 0) /\ Max({0, b}) = (IF 0 <= b THEN b ELSE 0)
    BY Zenon, <1>1, MinMax
  <2> QED
    BY <1>1, <2>1
<1>3. c = (IF a <= FracCap THEN a ELSE FracCap)
  <2>1. Min({a, FracCap}) = (IF a <= FracCap THEN a ELSE FracCap)
    BY Zenon, <1>1, MinMax
  <2>2. c = Min({Max({0, a}), FracCap})
    BY Zenon, <1>a
  <2> QED
    BY <1>2, <2>1, <2>2
<1>4. Min({Max({0, b}), FracCap}) = (IF b <= FracCap THEN b ELSE FracCap)
  <2>1. Min({b, FracCap}) = (IF b <= FracCap THEN b ELSE FracCap)
    BY Zenon, <1>1, MinMax
  <2> QED
    BY <1>2, <2>1
<1>5. ASSUME c >= FracCap PROVE c = Min({Max({0, b}), FracCap})
  BY <1>0, <1>1, <1>3, <1>4, <1>5
<1>6. ASSUME c < FracCap
      PROVE  /\ c + 1 = Min({Max({0, b}), FracCap})
             /\ (v * 10 + d) % Modulus \in Nat
             /\ (v * 10 + d) % Modulus = Value(s, dot + 1, dot + (c + 1))
             /\ (v * 10 + d) % Modulus < Pow10[c + 1]
  <2>1. c = a /\ c + 1 = b /\ b <= FracCap
    BY <1>0, <1>1, <1>3, <1>6
  <2>2. dot + c = q - 1 /\ dot + (c + 1) = q /\ dot + 1 \in Nat \ {0} /\ dot + 1 <= q
    BY <2>1 DEF a
  <2>3. v = Value(s, dot + 1, q - 1)
    BY Zenon, <1>a, <2>2
  <2>4. d \in Nat /\ d <= 9 /\ Value(s, dot + 1, q) = v * 10 + d
    <3>1. /\ Value(s, dot + 1, q - 1) \in Nat /\ d \in Nat /\ d <= 9
          /\ Value(s, dot + 1, q) = Value(s, dot + 1, q - 1) * 10 + d
      BY Zenon, <1>a, <2>2, ValueStep
    <3> QED
      BY Zenon, <2>3, <3>1
  <2> HIDE DEF d
  <2>5. /\ c \in 0..(SafeDigits + FracCap) /\ c + 1 \in 0..(SafeDigits + FracCap) /\ c \in 0..c
        /\ c + 1 \in 0..FracCap /\ FracCap \in 0..(SafeDigits + FracCap) /\ FracCap \in 0..FracCap
    BY <1>0, <1>6
  <2>6. Pow10[c + 1] = 10 * Pow10[c]
    BY Zenon, <2>5, Pow10Def
  <2>7. Pow10[c + 1] \in Nat /\ Pow10[c + 1] <= Pow10[FracCap] /\ Pow10[c] \in Nat /\ Pow10[FracCap] \in Nat
    BY Zenon, <2>5, Pow10Grows
  <2>8. v * 10 + d < Pow10[c + 1] /\ v * 10 + d \in Nat
    <3>1. v * 10 + d < 10 * Pow10[c] /\ v * 10 + d \in Nat
      BY Zenon, <1>a, <2>4, <2>7, Horner
    <3> QED
      BY Zenon, <2>6, <3>1
  <2>9. v * 10 + d < Modulus
    <3>1. \A x, y, z, t \in Nat : x < y /\ y <= z /\ z <= t => x < t
      OBVIOUS
    <3>2. Modulus \in Nat
      BY Zenon, <1>0
    <3> QED
      BY Zenon, <1>0, <2>7, <2>8, <3>1, <3>2
  <2>10. (v * 10 + d) % Modulus = v * 10 + d
    BY Zenon, <1>0, <2>8, <2>9, SmallMod
  <2>11. c + 1 = Min({Max({0, b}), FracCap})
    BY Zenon, <1>4, <2>1
  <2>12. Value(s, dot + 1, dot + (c + 1)) = v * 10 + d
    BY Zenon, <2>2, <2>4
  <2> QED
    BY Zenon, <2>8, <2>10, <2>11, <2>12
<1>7. c >= FracCap => Behind(s, dot, q + 1, c, v)
  BY Zenon, <1>5, <1>a, <1>d
<1>8. c < FracCap => w \in Nat /\ Behind(s, dot, q + 1, c + 1, w)
  BY Zenon, <1>6, <1>d
<1> QED
  BY Zenon, <1>7, <1>8

\* The number with one more digit behind the point.
FracNext(n, d) ==
    IF n.fracs < FracCap THEN [n EXCEPT !.frac = (n.frac * 10 + d) % Modulus, !.fracs = n.fracs + 1] ELSE n

\* A digit behind the point.
LEMMA FracStep ==
  ASSUME NEW s, Listed(s), NEW n \in Nums, NEW q \in Nat, FracRead(s, n, q), Dot(s, n) < q,
         q <= Len(s), s[q] \in Digits
  PROVE  LET m == FracNext(n, DigitValue(s[q]))
         IN  /\ m \in Nums /\ m.ints = n.ints /\ m.int = n.int /\ m.neg = n.neg /\ m.exp = n.exp /\ m.exps = n.exps
             /\ FracRead(s, m, q + 1)
<1> DEFINE dot == Dot(s, n)
           c == n.fracs
           v == n.frac
           w == (v * 10 + DigitValue(s[q])) % Modulus
           e == [n EXCEPT !.frac = w, !.fracs = c + 1]
           m == IF c < FracCap THEN e ELSE n
<1>1. Len(s) \in Nat /\ dot \in Nat \ {0}
  <2>1. Unsigned(s) \in {1, 2} /\ Len(s) \in Nat /\ n.ints \in Nat /\ dot = Unsigned(s) + n.ints
    BY Zenon, UnsignedFacts DEF Listed, Nums, Dot
  <2> HIDE DEF dot
  <2> QED
    BY <2>1
<1>2. c \in Nat /\ v \in Nat
  BY Zenon DEF Nums
<1>3. Behind(s, dot, q, c, v) /\ dot < q
  BY Zenon DEF FracRead
<1>4. /\ e.frac = w /\ e.fracs = c + 1 /\ e.ints = n.ints /\ e.int = n.int
      /\ e.neg = n.neg /\ e.exp = n.exp /\ e.exps = n.exps
      /\ w \in Nat /\ c + 1 \in Nat => e \in Nums
  <2> HIDE DEF w, c
  <2> QED
    BY DEF Nums
<1>5. Dot(s, e) = dot
  BY Zenon, <1>4 DEF Dot
<1>6. /\ c >= FracCap => Behind(s, dot, q + 1, c, v)
      /\ c < FracCap => w \in Nat /\ Behind(s, dot, q + 1, c + 1, w)
  <2> HIDE DEF dot, c, v
  <2> QED
    BY Zenon, <1>1, <1>2, <1>3, Capped
<1>7. CASE c < FracCap
  <2>1. FracRead(s, e, q + 1)
    BY Zenon, <1>4, <1>5, <1>6, <1>7 DEF FracRead
  <2>2. c + 1 \in Nat
    BY <1>2
  <2> HIDE DEF e
  <2>3. m = e
    BY Zenon, <1>7
  <2>4. /\ e \in Nums /\ e.ints = n.ints /\ e.int = n.int /\ e.neg = n.neg /\ e.exp = n.exp /\ e.exps = n.exps
    BY Zenon, <1>4, <1>6, <1>7, <2>2
  <2> HIDE DEF m
  <2>5. /\ m \in Nums /\ m.ints = n.ints /\ m.int = n.int /\ m.neg = n.neg /\ m.exp = n.exp /\ m.exps = n.exps
        /\ FracRead(s, m, q + 1)
    BY Zenon, <2>1, <2>3, <2>4
  <2> QED
    BY Zenon, <2>5 DEF m, e, FracNext
<1>8. CASE ~(c < FracCap)
  <2>1. c >= FracCap
    <3>1. FracCap \in Nat
      BY DigitsAssumption
    <3>2. c \in Nat
      BY Zenon, <1>2
    <3> HIDE DEF c
    <3> QED
      BY <1>8, <3>1, <3>2
  <2>2. FracRead(s, n, q + 1)
    BY Zenon, <1>6, <2>1 DEF FracRead
  <2> QED
    BY Zenon, <2>2, <1>8 DEF FracNext
<1> QED
  BY Zenon, <1>7, <1>8

\* One more digit of a number that saturates.
LEMMA Saturate ==
  ASSUME NEW v \in Nat, NEW d \in Nat
  PROVE  /\ Min({Min({v, ExpMax}) * 10 + d, ExpMax}) \in Nat
         /\ Min({Min({v, ExpMax}) * 10 + d, ExpMax}) = Min({v * 10 + d, ExpMax})
<1> DEFINE x == Min({v, ExpMax})
<1>0. ExpMax \in Nat
  BY DigitsAssumption
<1>1. x = IF v <= ExpMax THEN v ELSE ExpMax
  BY <1>0, MinMax
<1> HIDE DEF x
<1>2. x * 10 + d \in Int /\ v * 10 + d \in Int /\ ExpMax \in Int
  BY <1>0, <1>1
<1>3. Min({x * 10 + d, ExpMax}) = IF x * 10 + d <= ExpMax THEN x * 10 + d ELSE ExpMax
  BY Zenon, <1>2, MinMax
<1>4. Min({v * 10 + d, ExpMax}) = IF v * 10 + d <= ExpMax THEN v * 10 + d ELSE ExpMax
  BY Zenon, <1>2, MinMax
<1>5. Min({x * 10 + d, ExpMax}) \in Nat /\ Min({x * 10 + d, ExpMax}) = Min({v * 10 + d, ExpMax})
  BY <1>0, <1>1, <1>3, <1>4
<1> QED
  BY Zenon, <1>5 DEF x

\* The digits of an exponent from the place g on, up to p: c digits, of the
\* value x.
LEMMA ExpFromFacts ==
  ASSUME NEW s, Len(s) \in Nat, NEW k \in 1..Len(s)
  PROVE  ExpFrom(s, k) \in Nat \ {0} /\ k + 1 <= ExpFrom(s, k) /\ ExpFrom(s, k) <= Len(s) + 1
  BY DEF ExpFrom

\* The number with one more digit of the exponent.
ExpNext(n, d) == [n EXCEPT !.exp = Min({n.exp * 10 + d, ExpMax}), !.exps = n.exps + 1]

\* A digit of the exponent.
LEMMA ExpStep ==
  ASSUME NEW s, Listed(s), NEW n \in Nums, NEW k, NEW p \in Nat, ExpRead(s, n, k, p), p <= Len(s), s[p] \in Digits
  PROVE  LET m == ExpNext(n, DigitValue(s[p]))
         IN  /\ m \in Nums /\ m.ints = n.ints /\ m.int = n.int /\ m.neg = n.neg
             /\ m.frac = n.frac /\ m.fracs = n.fracs /\ m.exps > 0
             /\ ExpRead(s, m, k, p + 1)
<1> DEFINE g == ExpFrom(s, k)
           v == Value(s, g, p - 1)
           d == DigitValue(s[p])
           x == n.exp
           c == n.exps
           w == Min({x * 10 + d, ExpMax})
           m == [n EXCEPT !.exp = w, !.exps = c + 1]
<1>1. Len(s) \in Nat /\ k \in 1..Len(s) /\ g \in Nat \ {0} /\ x \in Nat /\ c \in Nat
  BY Zenon, ExpFromFacts DEF Listed, ExpRead, Nums
<1>2. p = g + c /\ AllDigits(s, g, p - 1) /\ x = Min({v, ExpMax})
  BY Zenon DEF ExpRead
<1>3. /\ m.exp = w /\ m.exps = c + 1 /\ m.ints = n.ints /\ m.int = n.int
      /\ m.neg = n.neg /\ m.expNeg = n.expNeg /\ m.frac = n.frac /\ m.fracs = n.fracs
      /\ w \in Nat /\ c + 1 \in Nat => m \in Nums
  <2> HIDE DEF w, c
  <2> QED
    BY DEF Nums
<1>4. ASSUME p + 1 = g + (c + 1), p + 1 <= Len(s) + 1, AllDigits(s, g, (p + 1) - 1),
             w = Min({Value(s, g, (p + 1) - 1), ExpMax})
      PROVE  ExpRead(s, m, k, p + 1)
  <2> HIDE DEF m, w
  <2> QED
    BY Zenon, <1>3, <1>4 DEF ExpRead
<1> HIDE DEF g, x, c
<1>5. /\ p + 1 = g + (c + 1) /\ p + 1 <= Len(s) + 1 /\ (p + 1) - 1 = p /\ g <= p
      /\ c + 1 \in Nat /\ c + 1 > 0
  BY <1>1, <1>2
<1>6. /\ AllDigits(s, g, p) /\ v \in Nat /\ d \in Nat /\ Value(s, g, p) = v * 10 + d
  BY Zenon, <1>1, <1>2, <1>5, ValueStep
<1> HIDE DEF d, v
<1>7. w \in Nat /\ w = Min({v * 10 + d, ExpMax})
  <2>1. /\ Min({Min({v, ExpMax}) * 10 + d, ExpMax}) \in Nat
        /\ Min({Min({v, ExpMax}) * 10 + d, ExpMax}) = Min({v * 10 + d, ExpMax})
    BY Zenon, <1>6, Saturate
  <2> QED
    BY <1>2, <2>1
<1> HIDE DEF w
<1>8. w = Min({Value(s, g, (p + 1) - 1), ExpMax})
  <2>1. Value(s, g, (p + 1) - 1) = v * 10 + d
    BY Zenon, <1>5, <1>6
  <2> QED
    BY <1>7, <2>1
<1>9. ExpRead(s, m, k, p + 1)
  BY Zenon, <1>4, <1>5, <1>6, <1>8
<1>10. m \in Nums /\ m.exps > 0
  BY Zenon, <1>3, <1>5, <1>7
<1> HIDE DEF m
<1>11. /\ m \in Nums /\ m.ints = n.ints /\ m.int = n.int /\ m.neg = n.neg
       /\ m.frac = n.frac /\ m.fracs = n.fracs /\ m.exps > 0
       /\ ExpRead(s, m, k, p + 1)
  BY Zenon, <1>3, <1>9, <1>10
<1> QED
  BY Zenon, <1>11 DEF m, w, x, c, d, ExpNext
\* A numeral can be cut in one way only: where the digits start and the
\* integer part ends,
LEMMA CutsAtDot ==
  ASSUME NEW s, Listed(s), NEW p \in Nat, Unsigned(s) <= p, p <= Len(s) + 1,
         AllDigits(s, Unsigned(s), p - 1), Ended(s, p),
         NEW i \in Places(s), NEW j \in Places(s), NEW k \in Places(s), Written(s, i, j, k)
  PROVE  i = Unsigned(s) /\ j = p
<1> DEFINE f == Unsigned(s)
<1>0. /\ Len(s) \in Nat /\ f \in {1, 2} /\ f <= Len(s) + 1
      /\ f = 2 => Len(s) >= 1 /\ s[1] \in Signs
      /\ f = 1 /\ Len(s) >= 1 => s[1] \notin Signs
  BY Zenon, UnsignedFacts DEF Listed
<1>1. /\ i \in Nat /\ j \in Nat /\ k \in Nat /\ i >= 1 /\ j >= 1 /\ k >= 1
      /\ i <= Len(s) + 1 /\ j <= Len(s) + 1 /\ k <= Len(s) + 1
  BY <1>0 DEF Places
<1>2. /\ i = 1 \/ (i = 2 /\ s[1] \in Signs)
      /\ i <= j /\ j <= k /\ (i < j \/ j + 1 < k)
      /\ j < k => s[j] = "."
      /\ k <= Len(s) => s[k] \in {"e", "E"}
  BY Zenon DEF Written
<1>3. \A x \in i..(j - 1) : s[x] \in Digits
  BY Zenon DEF Written, AllDigits
<1>4. \A x \in f..(p - 1) : s[x] \in Digits
  BY Zenon DEF AllDigits
<1>5. p <= Len(s) => s[p] \notin Digits
  BY Zenon DEF Ended
<1>6. \A c \in Digits : c \notin {"+", "-", ".", "e", "E"}
  BY Zenon, DigitFacts
<1> HIDE DEF f
<1>7. \A c : c \in Signs => c # "." /\ c \notin Digits
  BY <1>6 DEF Signs
<1>8. i = f
  <2>1. ASSUME i = 1, f = 2 PROVE FALSE
    <3>1. s[1] \in Signs
      BY <1>0, <2>1
    <3>2. s[1] \notin Digits /\ s[1] # "."
      BY Zenon, <1>7, <3>1
    <3>3. ~(j > 1)
      <4>1. j > 1 => 1 \in i..(j - 1)
        BY <1>1, <2>1
      <4> QED
        BY Zenon, <1>3, <3>2, <4>1
    <3>4. j = 1 /\ j < k
      BY <1>1, <1>2, <2>1, <3>3
    <3> QED
      BY Zenon, <1>2, <3>2, <3>4
  <2>2. ASSUME i = 2, f = 1 PROVE FALSE
    <3>1. Len(s) >= 1
      BY <1>0, <1>1, <2>2
    <3> QED
      BY <1>0, <1>2, <2>2, <3>1
  <2> QED
    BY <1>0, <1>2, <2>1, <2>2
<1>9. ~(j < p)
  <2> SUFFICES ASSUME j < p PROVE FALSE
    OBVIOUS
  <2>1. j \in f..(p - 1) /\ (j < k \/ j = k) /\ j <= Len(s)
    BY <1>0, <1>1, <1>2, <1>8
  <2>2. s[j] \in Digits
    BY Zenon, <1>4, <2>1
  <2>3. s[j] # "." /\ s[j] \notin {"e", "E"}
    BY <1>6, <2>2
  <2> QED
    BY Zenon, <1>2, <2>1, <2>3
<1>10. ~(p < j)
  <2> SUFFICES ASSUME p < j PROVE FALSE
    OBVIOUS
  <2>1. p \in i..(j - 1) /\ p <= Len(s)
    BY <1>0, <1>1, <1>8 DEF f
  <2> QED
    BY Zenon, <1>3, <1>5, <2>1
<1> QED
  BY <1>1, <1>8, <1>9, <1>10 DEF f

\* and where the digits behind the point end.
LEMMA CutsAtMark ==
  ASSUME NEW s, Listed(s), NEW p \in Nat \ {0}, NEW q \in Nat, p <= q, q <= Len(s) + 1,
         p < q => s[p] = "." /\ AllDigits(s, p + 1, q - 1), Ended(s, q),
         q = p => ~(q <= Len(s) /\ s[q] = "."),
         NEW i \in Places(s), NEW k \in Places(s), Written(s, i, p, k)
  PROVE  k = q
<1>0. Len(s) \in Nat
  BY Zenon DEF Listed
<1>1. k \in Nat /\ k >= 1 /\ k <= Len(s) + 1
  BY <1>0 DEF Places
<1>2. /\ p <= k
      /\ p < k => s[p] = "."
      /\ k <= Len(s) => s[k] \in {"e", "E"}
  BY Zenon DEF Written
<1>3. p < k => \A x \in (p + 1)..(k - 1) : s[x] \in Digits
  BY Zenon DEF Written, AllDigits
<1>4. p < q => \A x \in (p + 1)..(q - 1) : s[x] \in Digits
  BY Zenon DEF AllDigits
<1>5. q <= Len(s) => s[q] \notin Digits
  BY Zenon DEF Ended
<1>6. \A c \in Digits : c \notin {"+", "-", ".", "e", "E"}
  BY Zenon, DigitFacts
<1>7. ~(k < q)
  <2> SUFFICES ASSUME k < q PROVE FALSE
    OBVIOUS
  <2>1. p < q /\ k <= Len(s) /\ (k = p \/ k \in (p + 1)..(q - 1))
    BY <1>0, <1>1, <1>2
  <2>2. s[k] \in {"e", "E"} /\ s[p] = "."
    BY Zenon, <1>2, <2>1
  <2>3. k # p
    BY <2>2
  <2>4. s[k] \in Digits
    BY Zenon, <1>4, <2>1, <2>3
  <2> QED
    BY <1>6, <2>2, <2>4
<1>8. ~(q < k)
  <2> SUFFICES ASSUME q < k PROVE FALSE
    OBVIOUS
  <2>1. q <= Len(s) /\ p < k /\ (p = q \/ q \in (p + 1)..(k - 1))
    BY <1>0, <1>1, <1>2
  <2>2. s[p] = "."
    BY Zenon, <1>2, <2>1
  <2>3. p # q
    BY Zenon, <2>1, <2>2
  <2> QED
    BY Zenon, <1>3, <1>5, <2>1, <2>3
<1> QED
  BY <1>1, <1>7, <1>8

\* What was read, down to the place where the exponent may start, cuts every
\* reading of the text.
LEMMA CutsOnce ==
  ASSUME NEW s, Listed(s), NEW n \in Nums, NEW q \in Nat, IntRead(s, n), FracRead(s, n, q),
         Ended(s, Dot(s, n)), Ended(s, q), q = Dot(s, n) => ~(q <= Len(s) /\ s[q] = "."),
         NEW i \in Places(s), NEW j \in Places(s), NEW k \in Places(s), Written(s, i, j, k)
  PROVE  i = Unsigned(s) /\ j = Dot(s, n) /\ k = q
<1> DEFINE p == Dot(s, n)
<1>1. Unsigned(s) <= p /\ p <= Len(s) + 1 /\ AllDigits(s, Unsigned(s), p - 1)
  BY Zenon DEF IntRead
<1>2. p \in Nat \ {0}
  <2>1. Unsigned(s) \in {1, 2} /\ n.ints \in Nat /\ p = Unsigned(s) + n.ints
    BY Zenon, UnsignedFacts DEF Nums, Dot
  <2> HIDE DEF p
  <2> QED
    BY <2>1
<1>3. p <= q /\ q <= Len(s) + 1 /\ (p < q => s[p] = "." /\ AllDigits(s, p + 1, q - 1))
  BY Zenon DEF FracRead, Behind
<1>4. p \in Nat
  BY Zenon, <1>2
<1>5. i = Unsigned(s) /\ j = p
  BY Zenon, <1>1, <1>4, CutsAtDot
<1>6. Written(s, i, p, k)
  BY Zenon, <1>5
<1>7. k = q
  BY Zenon, <1>2, <1>3, <1>6, CutsAtMark
<1> QED
  BY Zenon, <1>5, <1>7

\* The same, for a number that was read down to its exponent.
LEMMA MantissaCuts ==
  ASSUME NEW s, Listed(s), NEW n \in Nums, NEW q \in Nat, IntRead(s, n), Mantissa(s, n, q),
         NEW i \in Places(s), NEW j \in Places(s), NEW k \in Places(s), Written(s, i, j, k)
  PROVE  j = Dot(s, n) /\ k = q
<1>1. /\ FracRead(s, n, q) /\ Ended(s, Dot(s, n)) /\ Ended(s, q)
      /\ q = Dot(s, n) => ~(q <= Len(s) /\ s[q] = ".")
  BY Zenon DEF Mantissa
<1> QED
  BY <1>1, CutsOnce

\* What is read when the exponent, if there is one, has been read up to p.
Finished(s, n, p) ==
    \/ Mantissa(s, n, p) /\ ~(p <= Len(s) /\ s[p] \in {"e", "E"}) /\ n.exp = 0
    \/ \E k \in 1..Len(s) : Mantissa(s, n, k) /\ ExpRead(s, n, k, p) /\ n.exps > 0 /\ Ended(s, p)

\* The digits read so far are those of the text up to the place reached, and
\* a text is given up only when it is no numeral.
DecimalInv ==
    /\ cellAsk \in CellAsks /\ numeral = trim_ascii(cellAsk.value)
    /\ num \in Nums /\ pos \in 1..(Len(numeral) + 1)
    /\ part \in {"sign", "int", "frac", "mark", "exp", "end", "number", "none"}
    /\ part = "sign" => pos = 1 /\ num = NoDigits
    /\ part # "sign" => (num.neg <=> Len(numeral) >= 1 /\ numeral[1] = "-")
    /\ part \notin {"sign", "none"} => Unsigned(numeral) <= Len(numeral) /\ IntRead(numeral, num)
    /\ part = "int" => pos = Dot(numeral, num) /\ num.frac = 0 /\ num.fracs = 0
    /\ part \in {"int", "frac", "mark"} => num.exp = 0 /\ num.exps = 0
    /\ part = "frac" => /\ Ended(numeral, Dot(numeral, num)) /\ Dot(numeral, num) < pos
                        /\ FracRead(numeral, num, pos)
    /\ part = "mark" => Mantissa(numeral, num, pos)
    /\ part = "exp" => \E k \in 1..Len(numeral) : Mantissa(numeral, num, k) /\ ExpRead(numeral, num, k, pos)
    /\ part \in {"end", "number"} => Finished(numeral, num, pos)
    /\ part = "number" => pos = Len(numeral) + 1
    /\ part = "none" => ~IsNumeral(numeral)

\* Where the integer part ends is a place of the text.
LEMMA DotPlace ==
  ASSUME NEW s, Listed(s), NEW n \in Nums, IntRead(s, n)
  PROVE  Dot(s, n) \in Nat \ {0} /\ Unsigned(s) <= Dot(s, n) /\ Dot(s, n) <= Len(s) + 1
<1>1. Unsigned(s) \in {1, 2} /\ n.ints \in Nat /\ Dot(s, n) = Unsigned(s) + n.ints
  BY Zenon, UnsignedFacts DEF Nums, Dot
<1>2. Dot(s, n) \in Nat \ {0}
  BY <1>1
<1> QED
  BY Zenon, <1>2 DEF IntRead

\* A difference, or zero when it is negative.
LEMMA MaxZero == \A x \in Int : Max({0, x}) = (IF 0 <= x THEN x ELSE 0)
<1>1. 0 \in Int
  OBVIOUS
<1> QED
  BY Zenon, <1>1, MinMax

\* Before any digit.
LEMMA NoValue ==
  ASSUME NEW s, Len(s) \in Nat, NEW f \in Nat \ {0}, NEW to \in 0..(Len(s) + 1), to < f
  PROVE  Value(s, f, to) = 0
  BY Zenon, ValueDef

\* Before any digit of the integer part.
LEMMA IntStart ==
  ASSUME NEW s, Listed(s), NEW n, n.ints = 0, n.int = 0
  PROVE  IntRead(s, n) /\ Dot(s, n) = Unsigned(s)
<1> DEFINE f == Unsigned(s)
<1>1. f \in {1, 2} /\ f <= Len(s) + 1 /\ Len(s) \in Nat
  BY Zenon, UnsignedFacts DEF Listed
<1>2. Dot(s, n) = f + 0
  BY Zenon DEF Dot
<1> HIDE DEF f
<1>3. /\ Dot(s, n) = f /\ f <= f /\ f - 1 \in 0..(Len(s) + 1) /\ f - 1 < f /\ f \in Nat \ {0}
  BY <1>1, <1>2
<1>4. Value(s, f, f - 1) = 0
  BY Zenon, <1>1, <1>3, NoValue
<1>5. AllDigits(s, f, f - 1)
  BY <1>1 DEF AllDigits
<1>6. 0 < Pow10[0]
  BY Pow10Def
<1>7. 0 < Pow10[n.ints]
  BY Zenon, <1>6
<1> QED
  BY Zenon, <1>1, <1>3, <1>4, <1>5, <1>7 DEF f, IntRead

\* Before any digit behind the point.
LEMMA BehindStart ==
  ASSUME NEW s, Len(s) \in Nat, NEW dot \in Nat \ {0}, NEW q \in {dot, dot + 1}, q <= Len(s) + 1,
         q = dot + 1 => s[dot] = "."
  PROVE  Behind(s, dot, q, 0, 0)
<1>1. /\ dot <= q /\ q - dot - 1 \in {-1, 0} /\ dot + 0 \in 0..(Len(s) + 1) /\ dot + 0 < dot + 1
      /\ dot + 1 \in Nat \ {0} /\ (dot < q => q = dot + 1 /\ q - 1 = dot)
  OBVIOUS
<1>2. \A x \in {-1, 0} : Max({0, x}) = 0
  BY MaxZero
<1>3. Min({0, FracCap}) = 0
  BY MinMax, DigitsAssumption
<1>4. 0 = Min({Max({0, q - dot - 1}), FracCap})
  <2>1. Max({0, q - dot - 1}) = 0
    BY Zenon, <1>1, <1>2
  <2> QED
    BY <1>3, <2>1
<1>5. 0 = Value(s, dot + 1, dot + 0)
  BY Zenon, <1>1, NoValue
<1>6. AllDigits(s, dot + 1, dot)
  BY DEF AllDigits
<1>7. 0 < Pow10[0]
  BY Pow10Def
<1> QED
  BY Zenon, <1>1, <1>4, <1>5, <1>6, <1>7 DEF Behind

\* A sign alone is no numeral, nor is an empty text.
LEMMA SignIsNone ==
  ASSUME NEW s, Listed(s), Unsigned(s) > Len(s)
  PROVE  ~IsNumeral(s)
<1> SUFFICES ASSUME NEW i \in Places(s), NEW j \in Places(s), NEW k \in Places(s), Written(s, i, j, k)
             PROVE  FALSE
  BY Zenon DEF IsNumeral
<1> DEFINE f == Unsigned(s)
<1>1. f \in {1, 2} /\ f <= Len(s) + 1 /\ Len(s) \in Nat /\ f > Len(s)
  BY Zenon, UnsignedFacts DEF Listed
<1>2. i <= j /\ j <= k /\ (i < j \/ j + 1 < k)
  BY Zenon DEF Written
<1> HIDE DEF f
<1>3. f = Len(s) + 1 /\ f \in Nat /\ f <= f
  BY <1>1
<1>4. AllDigits(s, f, f - 1)
  BY <1>1 DEF AllDigits
<1>5. Ended(s, f)
  BY <1>1 DEF Ended
<1>6. i = f /\ j = f
  BY Zenon, <1>3, <1>4, <1>5, CutsAtDot DEF f
<1> QED
  BY <1>1, <1>2, <1>3, <1>6 DEF Places

\* A number without digits is none.
LEMMA BareIsNone ==
  ASSUME NEW s, Listed(s), NEW n \in Nums, NEW q \in Nat, IntRead(s, n), FracRead(s, n, q),
         Ended(s, Dot(s, n)), Ended(s, q), q = Dot(s, n) => ~(q <= Len(s) /\ s[q] = "."),
         n.ints = 0, n.fracs = 0
  PROVE  ~IsNumeral(s)
<1> SUFFICES ASSUME NEW i \in Places(s), NEW j \in Places(s), NEW k \in Places(s), Written(s, i, j, k)
             PROVE  FALSE
  BY Zenon DEF IsNumeral
<1>1. i = Unsigned(s) /\ j = Dot(s, n) /\ k = q
  BY Zenon, CutsOnce
<1>2. Dot(s, n) = Unsigned(s) + 0 /\ Unsigned(s) \in {1, 2} /\ Dot(s, n) <= q
  BY Zenon, UnsignedFacts DEF Dot, FracRead, Behind
<1>3. i < j \/ j + 1 < k
  BY Zenon DEF Written
<1>4. j + 1 < k
  BY <1>1, <1>2, <1>3
<1>5. n.fracs = Min({Max({0, q - Dot(s, n) - 1}), FracCap})
  BY Zenon DEF FracRead, Behind
<1> DEFINE x == q - Dot(s, n) - 1
<1>6. x \in Nat /\ x > 0
  BY <1>1, <1>2, <1>4
<1> HIDE DEF x
<1>7. Max({0, x}) = x
  BY <1>6, MaxZero
<1>8. Min({x, FracCap}) # 0
  BY <1>6, MinMax, DigitsAssumption
<1> QED
  BY <1>5, <1>7, <1>8 DEF x

\* A letter must have digits behind it.
LEMMA LetterIsNone ==
  ASSUME NEW s, Listed(s), NEW n \in Nums, NEW k \in 1..Len(s), NEW p \in Nat, IntRead(s, n), Mantissa(s, n, k),
         ExpRead(s, n, k, p), Ended(s, p), n.exps = 0 \/ p <= Len(s)
  PROVE  ~IsNumeral(s)
<1> SUFFICES ASSUME NEW i \in Places(s), NEW j \in Places(s), NEW l \in Places(s), Written(s, i, j, l)
             PROVE  FALSE
  BY Zenon DEF IsNumeral
<1>0. Len(s) \in Nat /\ k \in Nat /\ k <= Len(s)
  BY DEF Listed
<1>1. l = k
  BY Zenon, <1>0, CutsOnce DEF Mantissa
<1>2. ExpFrom(s, k) <= Len(s) /\ AllDigits(s, ExpFrom(s, k), Len(s))
  BY Zenon, <1>0, <1>1 DEF Written
<1>3. p = ExpFrom(s, k) + n.exps /\ n.exps \in Nat
  BY Zenon DEF ExpRead, Nums
<1>4. ExpFrom(s, k) \in Nat \ {0}
  BY Zenon, <1>0, ExpFromFacts
<1>5. p \in ExpFrom(s, k)..Len(s) /\ p <= Len(s)
  BY <1>0, <1>2, <1>3, <1>4
<1> QED
  BY Zenon, <1>2, <1>5 DEF AllDigits, Ended

\* Nothing may follow a number.
LEMMA RestIsNone ==
  ASSUME NEW s, Listed(s), NEW n \in Nums, NEW p \in Nat, IntRead(s, n), Finished(s, n, p), p <= Len(s)
  PROVE  ~IsNumeral(s)
<1>1. CASE Mantissa(s, n, p) /\ ~(p <= Len(s) /\ s[p] \in {"e", "E"}) /\ n.exp = 0
  <2> SUFFICES ASSUME NEW i \in Places(s), NEW j \in Places(s), NEW l \in Places(s), Written(s, i, j, l)
               PROVE  FALSE
    BY Zenon DEF IsNumeral
  <2>1. l = p
    BY Zenon, <1>1, CutsOnce DEF Mantissa
  <2> QED
    BY Zenon, <1>1, <2>1 DEF Written
<1>2. CASE \E k \in 1..Len(s) : Mantissa(s, n, k) /\ ExpRead(s, n, k, p) /\ n.exps > 0 /\ Ended(s, p)
  BY Zenon, <1>2, LetterIsNone
<1> QED
  BY Zenon, <1>1, <1>2 DEF Finished

\* A number read to the end of the text is a numeral.
LEMMA NumberIsOne ==
  ASSUME NEW s, Listed(s), NEW n \in Nums, IntRead(s, n), Finished(s, n, Len(s) + 1)
  PROVE  IsNumeral(s)
<1> DEFINE f == Unsigned(s)
           p == Dot(s, n)
<1>1. /\ Len(s) \in Nat /\ f \in {1, 2} /\ f <= Len(s) + 1 /\ p \in Nat \ {0} /\ f <= p /\ p <= Len(s) + 1
      /\ f = 2 => s[1] \in Signs
  BY Zenon, UnsignedFacts, DotPlace DEF Listed
<1>2. AllDigits(s, f, p - 1)
  BY Zenon DEF IntRead
<1>3. p = f + n.ints /\ n.ints \in Nat
  BY Zenon DEF Dot, Nums
<1>4. ASSUME NEW k \in Places(s), Mantissa(s, n, k),
             k <= Len(s) => /\ s[k] \in {"e", "E"}
                            /\ ExpFrom(s, k) <= Len(s) /\ AllDigits(s, ExpFrom(s, k), Len(s))
      PROVE  IsNumeral(s)
  <2>1. p <= k /\ (p < k => s[p] = "." /\ AllDigits(s, p + 1, k - 1)) /\ n.fracs = Min({Max({0, k - p - 1}), FracCap})
    BY Zenon, <1>4 DEF Mantissa, FracRead, Behind
  <2>2. n.ints # 0 \/ n.fracs # 0
    BY Zenon, <1>4 DEF Mantissa
  <2>3. f < p \/ p + 1 < k
    <3> HIDE DEF f, p
    <3> DEFINE m == n.ints
    <3>0. m \in Nat /\ p = f + m
      BY Zenon, <1>3
    <3> HIDE DEF m
    <3>4. m # 0 => f < p
      BY <1>1, <3>0
    <3> SUFFICES ASSUME n.ints = 0, ~(p + 1 < k) PROVE FALSE
      BY Zenon, <3>4 DEF m
    <3>1. k - p - 1 \in Int /\ k - p - 1 <= 0
      BY <1>1 DEF Places
    <3> DEFINE x == k - p - 1
    <3> HIDE DEF x
    <3>2. Max({0, x}) = 0
      BY <3>1, MaxZero DEF x
    <3>3. Min({0, FracCap}) = 0
      BY MinMax, DigitsAssumption
    <3> QED
      BY <2>1, <2>2, <3>2, <3>3 DEF x
  <2>4. f \in Places(s) /\ p \in Places(s)
    <3> HIDE DEF f, p
    <3> QED
      BY <1>1 DEF Places
  <2>5. Written(s, f, p, k)
    <3> HIDE DEF f, p
    <3>1. f = 1 \/ (f = 2 /\ s[1] \in Signs)
      BY <1>1
    <3> QED
      BY Zenon, <1>1, <1>2, <1>4, <2>1, <2>3, <3>1 DEF Written
  <2> QED
    BY Zenon, <1>4, <2>4, <2>5 DEF IsNumeral
<1> HIDE DEF f, p
<1>5. CASE Mantissa(s, n, Len(s) + 1)
  <2>1. Len(s) + 1 \in Places(s) /\ ~(Len(s) + 1 <= Len(s))
    BY <1>1 DEF Places
  <2> QED
    BY Zenon, <1>4, <1>5, <2>1
<1>6. ASSUME NEW k \in 1..Len(s), Mantissa(s, n, k), ExpRead(s, n, k, Len(s) + 1), n.exps > 0
      PROVE  IsNumeral(s)
  <2>1. k \in Places(s)
    BY <1>1 DEF Places
  <2>2. /\ s[k] \in {"e", "E"} /\ Len(s) + 1 = ExpFrom(s, k) + n.exps /\ n.exps \in Nat
        /\ AllDigits(s, ExpFrom(s, k), (Len(s) + 1) - 1)
    BY Zenon, <1>6 DEF ExpRead, Nums
  <2>3. ExpFrom(s, k) \in Nat \ {0}
    BY Zenon, <1>1, ExpFromFacts
  <2>4. ExpFrom(s, k) <= Len(s) /\ (Len(s) + 1) - 1 = Len(s)
    BY <1>1, <1>6, <2>2, <2>3
  <2> QED
    BY Zenon, <1>4, <1>6, <2>1, <2>2, <2>4
<1> QED
  BY Zenon, <1>5, <1>6 DEF Finished

\* What every state has.
LEMMA DecimalFacts ==
  ASSUME DecimalInv
  PROVE  /\ Listed(numeral) /\ Len(numeral) \in Nat /\ pos \in Nat /\ pos >= 1 /\ pos <= Len(numeral) + 1
<1>1. IsSeq(cellAsk.value)
  BY Zenon, CellAsksAssumption DEF DecimalInv
<1>2. Listed(numeral)
  BY Zenon, <1>1, TrimListed DEF DecimalInv
<1>3. Len(numeral) \in Nat /\ pos \in 1..(Len(numeral) + 1)
  BY Zenon, <1>2 DEF DecimalInv, Listed
<1> QED
  BY <1>2, <1>3

\* The start.
LEMMA DecimalStarts == DecimalInit => DecimalInv
<1> SUFFICES ASSUME DecimalInit PROVE DecimalInv
  OBVIOUS
<1>1. cellAsk \in CellAsks /\ numeral = trim_ascii(cellAsk.value) /\ pos = 1 /\ part = "sign" /\ num = NoDigits
  BY Zenon DEF DecimalInit, DecimalStart
<1>2. Listed(numeral)
  BY Zenon, <1>1, CellAsksAssumption, TrimListed
<1>3. num \in Nums
  BY <1>1 DEF NoDigits, Nums
<1>4. 1 \in 1..(Len(numeral) + 1)
  BY <1>2 DEF Listed
<1> QED
  BY <1>1, <1>3, <1>4 DEF DecimalInv

\* Reading the sign.
LEMMA SignKeeps == DecimalInv /\ ReadSign => DecimalInv'
<1> SUFFICES ASSUME DecimalInv, ReadSign PROVE DecimalInv'
  OBVIOUS
<1> DEFINE s == numeral
           m == [NoDigits EXCEPT !.neg = At(1, {"-"})]
<1>1. Listed(s) /\ Len(s) \in Nat
  BY Zenon, DecimalFacts
<1>2. /\ num' = m /\ pos' = Unsigned(s) /\ numeral' = s /\ cellAsk' = cellAsk
      /\ part' = IF Unsigned(s) > Len(s) THEN "none" ELSE "int"
  <2>1. num = NoDigits
    BY Zenon DEF ReadSign, DecimalInv
  <2>2. (IF At(1, Signs) THEN 2 ELSE 1) = Unsigned(s)
    <3>1. 1 <= Len(s) <=> s # <<>>
      BY <1>1 DEF Listed
    <3> QED
      BY Zenon, <3>1 DEF At, Unsigned
  <2> QED
    BY Zenon, <2>1, <2>2 DEF ReadSign
<1>3. /\ m \in Nums /\ m.int = 0 /\ m.ints = 0 /\ m.frac = 0 /\ m.fracs = 0 /\ m.exp = 0 /\ m.exps = 0
      /\ m.neg <=> Len(s) >= 1 /\ s[1] = "-"
  <2>1. At(1, {"-"}) \in BOOLEAN
    BY DEF At
  <2>2. At(1, {"-"}) <=> Len(s) >= 1 /\ s[1] = "-"
    BY <1>1 DEF At
  <2> QED
    BY <2>1, <2>2 DEF NoDigits, Nums
<1>4. IntRead(s, m) /\ Dot(s, m) = Unsigned(s)
  BY Zenon, <1>1, <1>3, IntStart
<1>5. Unsigned(s) \in 1..(Len(s) + 1) /\ (Unsigned(s) <= Len(s) \/ Unsigned(s) > Len(s))
  BY <1>1, UnsignedFacts
<1>6. Unsigned(s) > Len(s) => ~IsNumeral(s)
  BY Zenon, <1>1, SignIsNone
<1>7. cellAsk \in CellAsks /\ s = trim_ascii(cellAsk.value)
  BY Zenon DEF DecimalInv
<1> HIDE DEF s, m
<1>8. CASE Unsigned(s) > Len(s)
  <2>1. part' = "none"
    BY Zenon, <1>2, <1>8
  <2> QED
    BY <1>2, <1>3, <1>5, <1>6, <1>7, <1>8, <2>1 DEF DecimalInv
<1>9. CASE Unsigned(s) <= Len(s)
  <2>1. part' = "int"
    BY <1>1, <1>2, <1>5, <1>9
  <2> QED
    BY <1>2, <1>3, <1>4, <1>5, <1>7, <1>9, <2>1 DEF DecimalInv
<1> QED
  BY Zenon, <1>5, <1>8, <1>9

\* Reading a digit of the integer part.
LEMMA IntDigitKeeps == DecimalInv /\ IntDigit => DecimalInv'
<1> SUFFICES ASSUME DecimalInv, IntDigit PROVE DecimalInv'
  OBVIOUS
<1> DEFINE s == numeral
           n == num
           m == [n EXCEPT !.int = (n.int * 10 + DigitValue(s[Dot(s, n)])) % Modulus, !.ints = n.ints + 1]
<1>1. Listed(s) /\ Len(s) \in Nat /\ pos \in Nat /\ pos >= 1
  BY Zenon, DecimalFacts
<1>2. /\ part = "int" /\ pos = Dot(s, n) /\ pos <= Len(s) /\ s[pos] \in Digits /\ n \in Nums
  BY Zenon DEF IntDigit, DecimalInv, At
<1>3. /\ n.frac = 0 /\ n.fracs = 0 /\ n.exp = 0 /\ n.exps = 0 /\ (n.neg <=> Len(s) >= 1 /\ s[1] = "-")
      /\ cellAsk \in CellAsks /\ s = trim_ascii(cellAsk.value) /\ Unsigned(s) <= Len(s) /\ IntRead(s, n)
  BY <1>2 DEF DecimalInv
<1>4. num' = m /\ pos' = pos + 1 /\ numeral' = s /\ cellAsk' = cellAsk /\ part' = "int"
  BY Zenon, <1>2 DEF IntDigit, Digit
<1>5. m \in Nums /\ IntRead(s, m) /\ Dot(s, m) = pos + 1
  BY Zenon, <1>1, <1>2, <1>3, IntStep
<1>6. m.frac = 0 /\ m.fracs = 0 /\ m.exp = 0 /\ m.exps = 0 /\ m.neg = n.neg
  BY <1>2, <1>3 DEF Nums
<1>7. pos + 1 \in 1..(Len(s) + 1)
  BY <1>1, <1>2
<1> HIDE DEF s, m, n
<1> QED
  BY <1>3, <1>4, <1>5, <1>6, <1>7 DEF DecimalInv

\* The end of the integer part.
LEMMA IntEndKeeps == DecimalInv /\ IntEnd => DecimalInv'
<1> SUFFICES ASSUME DecimalInv, IntEnd PROVE DecimalInv'
  OBVIOUS
<1> DEFINE s == numeral
           n == num
<1>1. Listed(s) /\ Len(s) \in Nat /\ pos \in Nat /\ pos >= 1 /\ pos <= Len(s) + 1
  BY Zenon, DecimalFacts
<1>2. /\ part = "int" /\ pos = Dot(s, n) /\ n \in Nums
  BY Zenon DEF IntEnd, DecimalInv
<1>3. /\ n.frac = 0 /\ n.fracs = 0 /\ n.exp = 0 /\ n.exps = 0 /\ (n.neg <=> Len(s) >= 1 /\ s[1] = "-")
      /\ cellAsk \in CellAsks /\ s = trim_ascii(cellAsk.value) /\ Unsigned(s) <= Len(s) /\ IntRead(s, n)
  BY <1>2 DEF DecimalInv
<1>4. /\ part' = IF pos <= Len(s) /\ s[pos] \in {"."} THEN "frac" ELSE AfterDigits
      /\ pos' = IF pos <= Len(s) /\ s[pos] \in {"."} THEN pos + 1 ELSE pos
      /\ num' = n /\ numeral' = s /\ cellAsk' = cellAsk
  BY Zenon DEF IntEnd, At
<1>5. Ended(s, pos)
  BY Zenon DEF IntEnd, At, Ended
<1>6. AfterDigits = IF n.ints = 0 /\ n.fracs = 0 THEN "none" ELSE "mark"
  BY Zenon DEF AfterDigits
<1> HIDE DEF s, n
<1>7. pos \in 1..(Len(s) + 1) /\ pos \in Nat \ {0} /\ pos + 1 \in Nat /\ pos < pos + 1
      /\ (pos <= Len(s) => pos + 1 \in 1..(Len(s) + 1) /\ pos + 1 <= Len(s) + 1) /\ pos # pos + 1
  BY <1>1
<1>8. CASE pos <= Len(s) /\ s[pos] = "."
  <2>1. part' = "frac" /\ pos' = pos + 1
    BY <1>4, <1>8
  <2>2. Behind(s, pos, pos + 1, 0, 0)
    BY <1>1, <1>7, <1>8, BehindStart
  <2>3. FracRead(s, n, pos + 1)
    BY Zenon, <1>2, <1>3, <2>2 DEF FracRead
  <2> QED
    BY <1>2, <1>3, <1>4, <1>5, <1>7, <1>8, <2>1, <2>3 DEF DecimalInv
<1>9. CASE ~(pos <= Len(s) /\ s[pos] = ".")
  <2>1. part' = AfterDigits /\ pos' = pos
    BY <1>4, <1>9
  <2>2. Behind(s, pos, pos, 0, 0)
    BY <1>1, <1>7, BehindStart
  <2>3. FracRead(s, n, pos)
    BY Zenon, <1>2, <1>3, <2>2 DEF FracRead
  <2>4. CASE n.ints = 0
    <3>1. ~IsNumeral(s)
      BY Zenon, <1>1, <1>2, <1>3, <1>5, <1>9, <2>3, <2>4, BareIsNone
    <3>2. part' = "none"
      BY Zenon, <1>3, <1>6, <2>1, <2>4
    <3> QED
      BY <1>2, <1>3, <1>4, <1>7, <2>1, <3>1, <3>2 DEF DecimalInv
  <2>5. CASE n.ints # 0
    <3>1. Mantissa(s, n, pos)
      BY Zenon, <1>2, <1>5, <1>9, <2>3, <2>5 DEF Mantissa
    <3>2. part' = "mark"
      BY Zenon, <1>6, <2>1, <2>5
    <3> QED
      BY <1>2, <1>3, <1>4, <1>7, <2>1, <3>1, <3>2 DEF DecimalInv
  <2> QED
    BY Zenon, <2>4, <2>5
<1> QED
  BY Zenon, <1>8, <1>9

\* Reading a digit behind the point.
LEMMA FracDigitKeeps == DecimalInv /\ FracDigit => DecimalInv'
<1> SUFFICES ASSUME DecimalInv, FracDigit PROVE DecimalInv'
  OBVIOUS
<1> DEFINE s == numeral
           n == num
           m == FracNext(n, DigitValue(s[pos]))
<1>1. Listed(s) /\ Len(s) \in Nat /\ pos \in Nat /\ pos >= 1
  BY Zenon, DecimalFacts
<1>2. part = "frac" /\ pos <= Len(s) /\ s[pos] \in Digits /\ n \in Nums
  BY Zenon DEF FracDigit, DecimalInv, At
<1>3. /\ n.exp = 0 /\ n.exps = 0 /\ (n.neg <=> Len(s) >= 1 /\ s[1] = "-")
      /\ cellAsk \in CellAsks /\ s = trim_ascii(cellAsk.value) /\ Unsigned(s) <= Len(s) /\ IntRead(s, n)
      /\ Ended(s, Dot(s, n)) /\ Dot(s, n) < pos /\ FracRead(s, n, pos)
  BY <1>2 DEF DecimalInv
<1>4. num' = m /\ pos' = pos + 1 /\ numeral' = s /\ cellAsk' = cellAsk /\ part' = "frac"
  BY Zenon, <1>2 DEF FracDigit, Digit, FracNext
<1>5. /\ m \in Nums /\ m.ints = n.ints /\ m.int = n.int /\ m.neg = n.neg /\ m.exp = n.exp /\ m.exps = n.exps
      /\ FracRead(s, m, pos + 1)
  <2> HIDE DEF s, n
  <2>1. Listed(s) /\ n \in Nums /\ pos \in Nat /\ FracRead(s, n, pos) /\ Dot(s, n) < pos /\ pos <= Len(s)
        /\ s[pos] \in Digits
    BY Zenon, <1>1, <1>2, <1>3
  <2> QED
    BY Zenon, <2>1, FracStep
<1> HIDE DEF s, m, n
<1>6. IntRead(s, m) /\ Dot(s, m) = Dot(s, n)
  BY Zenon, <1>3, <1>5, IntSame
<1>7. Dot(s, n) \in Nat
  BY Zenon, <1>1, <1>2, <1>3, DotPlace
<1>8. pos + 1 \in 1..(Len(s) + 1) /\ Dot(s, n) < pos + 1
  BY <1>1, <1>2, <1>3, <1>7
<1>9. Ended(s, Dot(s, m)) /\ Dot(s, m) < pos + 1
  BY Zenon, <1>3, <1>6, <1>8
<1> QED
  BY <1>3, <1>4, <1>5, <1>6, <1>8, <1>9 DEF DecimalInv

\* The end of the digits behind the point.
LEMMA FracEndKeeps == DecimalInv /\ FracEnd => DecimalInv'
<1> SUFFICES ASSUME DecimalInv, FracEnd PROVE DecimalInv'
  OBVIOUS
<1> DEFINE s == numeral
           n == num
<1>1. Listed(s) /\ Len(s) \in Nat /\ pos \in Nat /\ pos >= 1 /\ pos <= Len(s) + 1
  BY Zenon, DecimalFacts
<1>2. part = "frac" /\ n \in Nums /\ pos \in 1..(Len(s) + 1)
  BY Zenon DEF FracEnd, DecimalInv
<1>3. /\ n.exp = 0 /\ n.exps = 0 /\ (n.neg <=> Len(s) >= 1 /\ s[1] = "-")
      /\ cellAsk \in CellAsks /\ s = trim_ascii(cellAsk.value) /\ Unsigned(s) <= Len(s) /\ IntRead(s, n)
      /\ Ended(s, Dot(s, n)) /\ Dot(s, n) < pos /\ FracRead(s, n, pos)
  BY <1>2 DEF DecimalInv
<1>4. /\ part' = AfterDigits /\ pos' = pos /\ num' = n /\ numeral' = s /\ cellAsk' = cellAsk
  BY Zenon DEF FracEnd
<1>5. Ended(s, pos)
  BY Zenon DEF FracEnd, At, Ended
<1>6. AfterDigits = IF n.ints = 0 /\ n.fracs = 0 THEN "none" ELSE "mark"
  BY Zenon DEF AfterDigits
<1> HIDE DEF s, n
<1>7. pos # Dot(s, n)
  <2>1. Dot(s, n) \in Nat
    BY Zenon, <1>1, <1>2, <1>3, DotPlace
  <2> QED
    BY <1>1, <1>3, <2>1
<1>8. CASE n.ints = 0 /\ n.fracs = 0
  <2>1. ~IsNumeral(s)
    BY Zenon, <1>1, <1>2, <1>3, <1>5, <1>7, <1>8, BareIsNone
  <2>2. part' = "none"
    BY Zenon, <1>4, <1>6, <1>8
  <2> QED
    BY <1>2, <1>3, <1>4, <2>1, <2>2 DEF DecimalInv
<1>9. CASE ~(n.ints = 0 /\ n.fracs = 0)
  <2>1. Mantissa(s, n, pos)
    BY Zenon, <1>3, <1>5, <1>7, <1>9 DEF Mantissa
  <2>2. part' = "mark"
    BY Zenon, <1>4, <1>6, <1>9
  <2> QED
    BY <1>2, <1>3, <1>4, <2>1, <2>2 DEF DecimalInv
<1> QED
  BY Zenon, <1>8, <1>9

\* Reading the letter of an exponent and its sign.
LEMMA MarkKeeps == DecimalInv /\ ReadMark => DecimalInv'
<1> SUFFICES ASSUME DecimalInv, ReadMark PROVE DecimalInv'
  OBVIOUS
<1> DEFINE s == numeral
           n == num
           letter == pos <= Len(s) /\ s[pos] \in {"e", "E"}
           minus == pos + 1 <= Len(s) /\ s[pos + 1] \in {"-"}
           m == [n EXCEPT !.expNeg = letter /\ minus]
<1>1. Listed(s) /\ Len(s) \in Nat /\ pos \in Nat /\ pos >= 1 /\ pos <= Len(s) + 1
  BY Zenon, DecimalFacts
<1>2. part = "mark" /\ n \in Nums /\ pos \in 1..(Len(s) + 1)
  BY Zenon DEF ReadMark, DecimalInv
<1>3. /\ n.exp = 0 /\ n.exps = 0 /\ (n.neg <=> Len(s) >= 1 /\ s[1] = "-")
      /\ cellAsk \in CellAsks /\ s = trim_ascii(cellAsk.value) /\ Unsigned(s) <= Len(s) /\ IntRead(s, n)
      /\ Mantissa(s, n, pos)
  BY <1>2 DEF DecimalInv
<1>4. /\ part' = IF letter THEN "exp" ELSE "end"
      /\ num' = m /\ numeral' = s /\ cellAsk' = cellAsk
      /\ pos' = IF ~letter THEN pos ELSE IF pos + 1 <= Len(s) /\ s[pos + 1] \in Signs THEN pos + 2 ELSE pos + 1
  BY Zenon DEF ReadMark, At
<1>5. /\ m \in Nums /\ m.ints = n.ints /\ m.int = n.int /\ m.neg = n.neg /\ m.frac = n.frac /\ m.fracs = n.fracs
      /\ m.exp = n.exp /\ m.exps = n.exps /\ (m.expNeg <=> letter /\ minus)
  <2> DEFINE b == letter /\ minus
  <2>1. b \in BOOLEAN
    OBVIOUS
  <2>2. m = [n EXCEPT !.expNeg = b]
    BY Zenon
  <2> HIDE DEF m, b, n
  <2>3. /\ m \in Nums /\ m.ints = n.ints /\ m.int = n.int /\ m.neg = n.neg /\ m.frac = n.frac /\ m.fracs = n.fracs
        /\ m.exp = n.exp /\ m.exps = n.exps /\ m.expNeg = b
    BY <1>2, <2>1, <2>2 DEF Nums
  <2> QED
    BY Zenon, <2>3 DEF b
<1> HIDE DEF s, m, n
<1>6. IntRead(s, m) /\ Mantissa(s, m, pos)
  BY Zenon, <1>3, <1>5, IntSame, MantissaSame
<1>7. CASE ~letter
  <2>1. Finished(s, m, pos)
    BY Zenon, <1>3, <1>5, <1>6, <1>7 DEF Finished
  <2>2. part' = "end" /\ pos' = pos
    BY Zenon, <1>4, <1>7
  <2> HIDE DEF letter
  <2> QED
    BY <1>2, <1>3, <1>4, <1>5, <1>6, <2>1, <2>2 DEF DecimalInv
<1>8. CASE letter
  <2>1. pos \in 1..Len(s) /\ (pos + 1 <= Len(s) <=> pos < Len(s))
    BY <1>1, <1>8
  <2>2. part' = "exp" /\ pos' = ExpFrom(s, pos)
    BY Zenon, <1>4, <1>8, <2>1 DEF ExpFrom
  <2> DEFINE g == ExpFrom(s, pos)
  <2>3. g \in Nat \ {0} /\ g <= Len(s) + 1
    BY Zenon, <1>1, <2>1, ExpFromFacts
  <2>4. ExpRead(s, m, pos, g)
    <3>1. m.expNeg <=> pos < Len(s) /\ s[pos + 1] = "-"
      BY Zenon, <1>5, <1>8, <2>1
    <3> HIDE DEF g
    <3>2. g = g + 0 /\ g - 1 \in 0..(Len(s) + 1) /\ g - 1 < g
      BY <1>1, <2>3
    <3>3. AllDigits(s, g, g - 1)
      BY <2>3 DEF AllDigits
    <3>4. Value(s, g, g - 1) = 0
      BY Zenon, <1>1, <2>3, <3>2, NoValue
    <3>5. Min({0, ExpMax}) = 0
      BY MinMax, DigitsAssumption
    <3>6. m.exp = Min({Value(s, g, g - 1), ExpMax})
      BY <1>3, <1>5, <3>4, <3>5
    <3>7. g = g + m.exps
      BY <1>3, <1>5, <3>2
    <3> QED
      BY Zenon, <1>8, <2>1, <2>3, <3>1, <3>3, <3>6, <3>7 DEF ExpRead, g
  <2>5. g \in 1..(Len(s) + 1)
    <3> HIDE DEF g
    <3> QED
      BY <1>1, <2>3
  <2>6. \E k \in 1..Len(s) : Mantissa(s, m, k) /\ ExpRead(s, m, k, g)
    BY Zenon, <1>6, <2>1, <2>4
  <2> HIDE DEF g, letter
  <2>7. pos' = g
    BY Zenon, <2>2 DEF g
  <2> QED
    BY <1>3, <1>4, <1>5, <1>6, <2>2, <2>5, <2>6, <2>7 DEF DecimalInv
<1> QED
  BY Zenon, <1>7, <1>8

\* Reading a digit of the exponent.
LEMMA ExpDigitKeeps == DecimalInv /\ ExpDigit => DecimalInv'
<1> SUFFICES ASSUME DecimalInv, ExpDigit PROVE DecimalInv'
  OBVIOUS
<1> DEFINE s == numeral
           n == num
           m == ExpNext(n, DigitValue(s[pos]))
<1>1. Listed(s) /\ Len(s) \in Nat /\ pos \in Nat /\ pos >= 1
  BY Zenon, DecimalFacts
<1>2. part = "exp" /\ pos <= Len(s) /\ s[pos] \in Digits /\ n \in Nums
  BY Zenon DEF ExpDigit, DecimalInv, At
<1>3. /\ (n.neg <=> Len(s) >= 1 /\ s[1] = "-")
      /\ cellAsk \in CellAsks /\ s = trim_ascii(cellAsk.value) /\ Unsigned(s) <= Len(s) /\ IntRead(s, n)
  BY <1>2 DEF DecimalInv
<1>4. PICK k \in 1..Len(s) : Mantissa(s, n, k) /\ ExpRead(s, n, k, pos)
  BY Zenon, <1>2 DEF DecimalInv
<1>5. num' = m /\ pos' = pos + 1 /\ numeral' = s /\ cellAsk' = cellAsk /\ part' = "exp"
  BY Zenon, <1>2 DEF ExpDigit, Digit, ExpNext
<1>6. /\ m \in Nums /\ m.ints = n.ints /\ m.int = n.int /\ m.neg = n.neg
      /\ m.frac = n.frac /\ m.fracs = n.fracs
      /\ ExpRead(s, m, k, pos + 1)
  <2>1. /\ Listed(s) /\ pos \in Nat /\ pos <= Len(s) /\ s[pos] \in Digits
        /\ n \in Nums /\ ExpRead(s, n, k, pos)
    BY Zenon, <1>1, <1>2, <1>4
  <2> HIDE DEF s, n
  <2> QED
    BY Zenon, <2>1, ExpStep
<1> HIDE DEF s, m, n
<1>7. IntRead(s, m) /\ Mantissa(s, m, k)
  BY Zenon, <1>3, <1>4, <1>6, IntSame, MantissaSame
<1>8. pos + 1 \in 1..(Len(s) + 1)
  BY <1>1, <1>2
<1>9. \E l \in 1..Len(s) : Mantissa(s, m, l) /\ ExpRead(s, m, l, pos + 1)
  BY Zenon, <1>6, <1>7
<1> QED
  BY <1>3, <1>5, <1>6, <1>7, <1>8, <1>9 DEF DecimalInv

\* The end of the exponent.
LEMMA ExpEndKeeps == DecimalInv /\ ExpEnd => DecimalInv'
<1> SUFFICES ASSUME DecimalInv, ExpEnd PROVE DecimalInv'
  OBVIOUS
<1> DEFINE s == numeral
           n == num
<1>1. Listed(s) /\ Len(s) \in Nat /\ pos \in Nat
  BY Zenon, DecimalFacts
<1>2. part = "exp" /\ n \in Nums /\ pos \in 1..(Len(s) + 1)
  BY Zenon DEF ExpEnd, DecimalInv
<1>3. /\ (n.neg <=> Len(s) >= 1 /\ s[1] = "-")
      /\ cellAsk \in CellAsks /\ s = trim_ascii(cellAsk.value) /\ Unsigned(s) <= Len(s) /\ IntRead(s, n)
  BY <1>2 DEF DecimalInv
<1>4. PICK k \in 1..Len(s) : Mantissa(s, n, k) /\ ExpRead(s, n, k, pos)
  BY Zenon, <1>2 DEF DecimalInv
<1>5. /\ part' = IF n.exps = 0 THEN "none" ELSE "end"
      /\ pos' = pos /\ num' = n /\ numeral' = s /\ cellAsk' = cellAsk
  BY Zenon DEF ExpEnd
<1>6. Ended(s, pos)
  BY Zenon DEF ExpEnd, At, Ended
<1>7. n.exps \in Nat
  BY Zenon, <1>2 DEF Nums
<1> HIDE DEF s, n
<1>8. CASE n.exps = 0
  <2>1. ~IsNumeral(s)
    BY Zenon, <1>1, <1>2, <1>3, <1>4, <1>6, <1>8, LetterIsNone
  <2>2. part' = "none"
    BY Zenon, <1>5, <1>8
  <2> QED
    BY <1>2, <1>3, <1>5, <2>1, <2>2 DEF DecimalInv
<1>9. CASE n.exps # 0
  <2>1. n.exps > 0
    BY <1>7, <1>9
  <2>2. Finished(s, n, pos)
    BY Zenon, <1>4, <1>6, <2>1 DEF Finished
  <2>3. part' = "end"
    BY Zenon, <1>5, <1>9
  <2> QED
    BY <1>2, <1>3, <1>5, <2>2, <2>3 DEF DecimalInv
<1> QED
  BY Zenon, <1>8, <1>9

\* The end of the text, or something that follows the number.
LEMMA EndKeeps == DecimalInv /\ ReadEnd => DecimalInv'
<1> SUFFICES ASSUME DecimalInv, ReadEnd PROVE DecimalInv'
  OBVIOUS
<1> DEFINE s == numeral
           n == num
<1>1. Listed(s) /\ Len(s) \in Nat /\ pos \in Nat /\ pos <= Len(s) + 1
  BY Zenon, DecimalFacts
<1>2. part = "end" /\ n \in Nums /\ pos \in 1..(Len(s) + 1)
  BY Zenon DEF ReadEnd, DecimalInv
<1>3. /\ (n.neg <=> Len(s) >= 1 /\ s[1] = "-")
      /\ cellAsk \in CellAsks /\ s = trim_ascii(cellAsk.value) /\ Unsigned(s) <= Len(s) /\ IntRead(s, n)
      /\ Finished(s, n, pos)
  BY <1>2 DEF DecimalInv
<1>4. /\ part' = IF pos > Len(s) THEN "number" ELSE "none"
      /\ pos' = pos /\ num' = n /\ numeral' = s /\ cellAsk' = cellAsk
  BY Zenon DEF ReadEnd
<1> HIDE DEF s, n
<1>5. CASE pos <= Len(s)
  <2>1. ~IsNumeral(s)
    BY Zenon, <1>1, <1>2, <1>3, <1>5, RestIsNone
  <2>2. part' = "none"
    BY <1>1, <1>4, <1>5
  <2> QED
    BY <1>2, <1>3, <1>4, <2>1, <2>2 DEF DecimalInv
<1>6. CASE pos = Len(s) + 1
  <2>1. part' = "number"
    BY <1>1, <1>4, <1>6
  <2> QED
    BY <1>2, <1>3, <1>4, <1>6, <2>1 DEF DecimalInv
<1> QED
  BY <1>1, <1>5, <1>6

\* In every state, the digits read so far are those of the text up to the
\* place that parse_f64_bytes has reached, and it has given up only a text
\* that is no numeral.
THEOREM DecimalInvariant == DecimalSpec => []DecimalInv
<1>1. DecimalInit => DecimalInv
  BY DecimalStarts
<1>2. DecimalInv /\ [DecimalNext]_decimalVars => DecimalInv'
  <2> SUFFICES ASSUME DecimalInv, [DecimalNext]_decimalVars PROVE DecimalInv'
    OBVIOUS
  <2>1. CASE DecimalNext
    BY Zenon, <2>1, SignKeeps, IntDigitKeeps, IntEndKeeps, FracDigitKeeps, FracEndKeeps, MarkKeeps,
       ExpDigitKeeps, ExpEndKeeps, EndKeeps DEF DecimalNext
  <2>2. CASE UNCHANGED decimalVars
    BY Zenon, <2>2 DEF decimalVars, DecimalInv
  <2> QED
    BY Zenon, <2>1, <2>2
<1> QED
  BY <1>1, <1>2, PTL DEF DecimalSpec

\* NumeralsRead, for every cell and every width of the numbers.
THEOREM DecimalsCorrect == DecimalSpec => []NumeralsRead
<1>1. DecimalInv => NumeralsRead
  <2> SUFFICES ASSUME DecimalInv, part \in {"number", "none"} PROVE
        /\ part = "number" <=> IsNumeral(numeral)
        /\ \A i, j, k \in Places(numeral) :
              Written(numeral, i, j, k) =>
                  /\ num.neg <=> numeral[1] = "-"
                  /\ Value(numeral, i, j - 1) < Modulus => num.int = Value(numeral, i, j - 1)
                  /\ num.fracs = Min({Max({0, k - j - 1}), FracCap})
                  /\ num.frac = Value(numeral, j + 1, j + num.fracs)
                  /\ IF k > Len(numeral) THEN num.exp = 0
                     ELSE /\ num.exp = Min({Value(numeral, ExpFrom(numeral, k), Len(numeral)), ExpMax})
                          /\ num.expNeg <=> numeral[k + 1] = "-"
    BY Zenon DEF NumeralsRead
  <2> DEFINE s == numeral
             n == num
             f == Unsigned(s)
             p == Dot(s, n)
  <2>1. Listed(s) /\ Len(s) \in Nat /\ n \in Nums
    BY Zenon, DecimalFacts DEF DecimalInv
  <2>2. CASE part = "none"
    <3>1. ~IsNumeral(s)
      BY Zenon, <2>2 DEF DecimalInv
    <3> QED
      BY Zenon, <2>2, <3>1 DEF IsNumeral
  <2>3. CASE part = "number"
    <3>1. /\ n.neg <=> Len(s) >= 1 /\ s[1] = "-"
          /\ f <= Len(s) /\ IntRead(s, n) /\ Finished(s, n, pos) /\ pos = Len(s) + 1
      BY <2>3 DEF DecimalInv
    <3>2. Finished(s, n, Len(s) + 1)
      BY Zenon, <3>1
    <3>3. IsNumeral(s)
      BY Zenon, <2>1, <3>1, <3>2, NumberIsOne
    <3>4. n.neg <=> s[1] = "-"
      <4>1. f \in {1, 2}
        BY Zenon, <2>1, UnsignedFacts
      <4>2. Len(s) >= 1
        BY <2>1, <3>1, <4>1
      <4> QED
        BY Zenon, <3>1, <4>2
    <3> SUFFICES ASSUME NEW i \in Places(s), NEW j \in Places(s), NEW k \in Places(s), Written(s, i, j, k)
                 PROVE  /\ Value(s, i, j - 1) < Modulus => n.int = Value(s, i, j - 1)
                        /\ n.fracs = Min({Max({0, k - j - 1}), FracCap})
                        /\ n.frac = Value(s, j + 1, j + n.fracs)
                        /\ IF k > Len(s) THEN n.exp = 0
                           ELSE /\ n.exp = Min({Value(s, ExpFrom(s, k), Len(s)), ExpMax})
                                /\ n.expNeg <=> s[k + 1] = "-"
      BY Zenon, <2>3, <3>3, <3>4
    <3>5. ASSUME NEW q \in Nat, Mantissa(s, n, q)
          PROVE  /\ k = q
                 /\ Value(s, i, j - 1) < Modulus => n.int = Value(s, i, j - 1)
                 /\ n.fracs = Min({Max({0, k - j - 1}), FracCap})
                 /\ n.frac = Value(s, j + 1, j + n.fracs)
      <4>1. i = f /\ j = p /\ k = q
        BY Zenon, <2>1, <3>1, <3>5, CutsOnce DEF Mantissa
      <4>2. Value(s, f, p - 1) < Modulus => n.int = Value(s, f, p - 1)
        BY Zenon, <3>1 DEF IntRead
      <4>3. n.fracs = Min({Max({0, q - p - 1}), FracCap}) /\ n.frac = Value(s, p + 1, p + n.fracs)
        BY Zenon, <3>5 DEF Mantissa, FracRead, Behind
      <4> HIDE DEF s, n, f, p
      <4> QED
        BY <4>1, <4>2, <4>3
    <3>6. CASE Mantissa(s, n, Len(s) + 1) /\ n.exp = 0
      <4>1. Len(s) + 1 \in Nat /\ Len(s) + 1 > Len(s)
        BY <2>1
      <4>2. k = Len(s) + 1
        BY Zenon, <3>5, <3>6, <4>1
      <4>3. k > Len(s)
        BY Zenon, <4>1, <4>2
      <4> QED
        BY Zenon, <3>5, <3>6, <4>1, <4>3
    <3>7. ASSUME NEW q \in 1..Len(s), Mantissa(s, n, q), ExpRead(s, n, q, Len(s) + 1), n.exps > 0
          PROVE  /\ Value(s, i, j - 1) < Modulus => n.int = Value(s, i, j - 1)
                 /\ n.fracs = Min({Max({0, k - j - 1}), FracCap})
                 /\ n.frac = Value(s, j + 1, j + n.fracs)
                 /\ IF k > Len(s) THEN n.exp = 0
                    ELSE /\ n.exp = Min({Value(s, ExpFrom(s, k), Len(s)), ExpMax})
                         /\ n.expNeg <=> s[k + 1] = "-"
      <4>1. q \in Nat /\ q <= Len(s) /\ (Len(s) + 1) - 1 = Len(s)
        BY <2>1
      <4>2. k = q
        BY Zenon, <3>5, <3>7, <4>1
      <4>3. /\ Len(s) + 1 = ExpFrom(s, q) + n.exps /\ n.exps \in Nat
            /\ n.exp = Min({Value(s, ExpFrom(s, q), (Len(s) + 1) - 1), ExpMax})
            /\ n.expNeg <=> q < Len(s) /\ s[q + 1] = "-"
        BY Zenon, <2>1, <3>7 DEF ExpRead, Nums
      <4>4. ExpFrom(s, q) \in Nat \ {0} /\ q + 1 <= ExpFrom(s, q)
        BY Zenon, <2>1, ExpFromFacts
      <4>5. q < Len(s) /\ ~(q > Len(s))
        BY <2>1, <3>7, <4>1, <4>3, <4>4
      <4>6. n.exp = Min({Value(s, ExpFrom(s, q), Len(s)), ExpMax})
        BY Zenon, <4>1, <4>3
      <4>7. n.expNeg <=> s[q + 1] = "-"
        BY Zenon, <4>3, <4>5
      <4>8. ~(k > Len(s)) /\ n.exp = Min({Value(s, ExpFrom(s, k), Len(s)), ExpMax}) /\ (n.expNeg <=> s[k + 1] = "-")
        BY Zenon, <4>2, <4>5, <4>6, <4>7
      <4> QED
        BY Zenon, <3>5, <3>7, <4>1, <4>8
    <3> QED
      BY Zenon, <3>2, <3>6, <3>7 DEF Finished
  <2> QED
    BY Zenon, <2>2, <2>3
<1> QED
  BY <1>1, DecimalInvariant, PTL

\* A text without the blanks around it is a sequence.
LEMMA TrimSeq ==
  ASSUME NEW s, IsSeq(s)
  PROVE  \E T : trim_ascii(s) \in Seq(T)
<1> DEFINE kept == {i \in 1..Len(s) : s[i] \notin Blank}
           T == {s[k] : k \in DOMAIN s}
<1>1. s \in Seq(T) /\ Len(s) \in Nat
  BY DEF IsSeq
<1>2. CASE kept = {}
  <2>1. trim_ascii(s) = <<>>
    BY Zenon, <1>2 DEF trim_ascii
  <2>2. <<>> \in Seq(T)
    OBVIOUS
  <2> QED
    BY Zenon, <2>1, <2>2
<1>3. CASE kept # {}
  <2>1. trim_ascii(s) = SubSeq(s, Min(kept), Max(kept))
    BY Zenon, <1>3 DEF trim_ascii
  <2>2. kept \in SUBSET Nat /\ kept \in SUBSET (0..Len(s)) /\ kept \subseteq 1..Len(s)
    BY <1>1
  <2>3. Min(kept) \in 1..Len(s) /\ Max(kept) \in 1..Len(s)
    BY Zenon, <1>1, <1>3, <2>2, MinOf, MaxOf
  <2> HIDE DEF kept, T
  <2>4. SubSeq(s, Min(kept), Max(kept)) \in Seq(T)
    BY <1>1, <2>3
  <2> QED
    BY Zenon, <2>1, <2>4
<1> QED
  BY <1>2, <1>3

\* The rest of a sequence.
LEMMA RestOf ==
  ASSUME NEW T, NEW v \in Seq(T), NEW f \in 1..(Len(v) + 1)
  PROVE  /\ Len(SubSeq(v, f, Len(v))) = Len(v) - f + 1
         /\ f <= Len(v) => SubSeq(v, f, Len(v))[1] = v[f]
<1>1. Len(v) \in Nat
  OBVIOUS
<1>2. f \in Nat /\ 1 <= f /\ f <= Len(v) + 1
  BY <1>1
<1> QED
  BY <1>1, <1>2

\* A token is no number.
LEMMA NanAlone ==
  ASSUME NEW T, NEW v \in Seq(T), NEW f \in {1, 2}, f <= Len(v) + 1, SubSeq(v, f, Len(v)) = <<"nan">>
  PROVE  f \in f..Len(v) /\ v[f] = "nan"
<1>1. Len(v) \in Nat
  OBVIOUS
<1>2. f \in 1..(Len(v) + 1) /\ Len(v) \in (f - 1)..Len(v)
  BY <1>1
<1>3. Len(SubSeq(v, f, Len(v))) = Len(v) - f + 1
  BY Zenon, <1>2, RestOf
<1>4. Len(<<"nan">>) = 1 /\ <<"nan">>[1] = "nan"
  OBVIOUS
<1>5. Len(v) - f + 1 = 1
  BY Zenon, <1>3, <1>4
<1>6. f = Len(v)
  BY <1>1, <1>5
<1>7. f \in 1..Len(v) /\ 1 \in 1..(Len(v) - f + 1) /\ f + 1 - 1 = f
  BY <1>1, <1>2, <1>6
<1>8. SubSeq(v, f, Len(v))[1] = v[f]
  <2>1. f <= Len(v)
    BY <1>1, <1>6
  <2> QED
    BY Zenon, <1>2, <2>1, RestOf
<1> QED
  BY <1>1, <1>4, <1>6, <1>7, <1>8

\* The place of the point.
LEMMA PointFacts ==
  ASSUME NEW v, Listed(v)
  PROVE  LET point == Find(v, 1, {"."})
         IN  /\ point \in Nat /\ Unsigned(v) <= point /\ point <= Len(v) + 1
             /\ point <= Len(v) => v[point] = "." /\ point \in Points(v)
             /\ \A k \in Unsigned(v)..(point - 1) : k \notin Points(v)
<1> DEFINE point == Find(v, 1, {"."})
           f == Unsigned(v)
<1>1. /\ Len(v) \in Nat /\ f \in {1, 2} /\ f <= Len(v) + 1
      /\ f = 2 => Len(v) >= 1 /\ v[1] \in Signs
  BY Zenon, UnsignedFacts DEF Listed
<1>2. 1 \in Nat \ {0} /\ 1 <= Len(v) + 1
  BY <1>1
<1>3. /\ point \in 1..(Len(v) + 1)
      /\ point <= Len(v) => v[point] \in {"."}
      /\ \A k \in 1..(point - 1) : v[k] \notin {"."}
  BY Zenon, <1>1, <1>2, FindFacts
<1> HIDE DEF point, f
<1>4. f <= point
  <2>1. f = 2 => v[1] # "."
    BY <1>1 DEF Signs
  <2> QED
    BY <1>1, <1>3, <2>1
<1>5. point <= Len(v) => v[point] = "." /\ point \in Points(v)
  BY <1>1, <1>3, <1>4 DEF Points, f
<1>6. \A k \in f..(point - 1) : k \notin Points(v)
  BY <1>1, <1>3, <1>4 DEF Points
<1> QED
  BY <1>1, <1>3, <1>4, <1>5, <1>6 DEF point, f

\* A cell of a number column is a numeral without an exponent, cut at its
\* point, and short enough.
LEMMA NumberCell ==
  ASSUME NEW T, NEW v \in Seq(T), v # <<>>, NEW field, validate_field_value(v, field),
         field.precision \in Nat, field.scale \in Nat,
         \/ field.type = "integer"
         \/ field.type = "decimal" /\ field.precision <= SafeDigits /\ field.scale <= FracCap
  PROVE  LET point == Find(v, 1, {"."})
         IN  /\ Written(v, Unsigned(v), point, Len(v) + 1)
             /\ Len(v) - point <= FracCap
             /\ \/ Value(v, Unsigned(v), point - 1) < Modulus
                \/ point - Unsigned(v) <= SafeDigits
<1> DEFINE point == Find(v, 1, {"."})
           f == Unsigned(v)
<1>0. Listed(v) /\ Len(v) \in Nat
  BY SeqListed
<1>1. f \in {1, 2} /\ f <= Len(v) + 1 /\ (f = 2 => v[1] \in Signs)
  BY Zenon, <1>0, UnsignedFacts
<1>2. /\ point \in Nat /\ f <= point /\ point <= Len(v) + 1
      /\ point <= Len(v) => v[point] = "." /\ point \in Points(v)
      /\ \A k \in f..(point - 1) : k \notin Points(v)
  BY Zenon, <1>0, PointFacts
<1>3. \A c \in Digits : c # "."
  BY DigitFacts
<1>4. FracCap \in Nat /\ SafeDigits \in Nat /\ Modulus \in Nat /\ IntMax \in Nat /\ IntMax + 1 < Modulus
  BY DigitsAssumption
<1>5. \A p \in Points(v) : p \in f..Len(v) /\ v[p] = "."
  BY Zenon DEF Points
<1>6. ASSUME \A p, q \in Points(v) : p = q,
             \A k \in (f..Len(v)) \ Points(v) : v[k] \in Digits,
             \E k \in f..Len(v) : v[k] \in Digits
      PROVE  Written(v, f, point, Len(v) + 1)
  <2> HIDE DEF f, point
  <2>1. f = 1 \/ (f = 2 /\ v[1] \in Signs)
    BY <1>1
  <2>2. AllDigits(v, f, point - 1)
    <3>1. \A k \in f..(point - 1) : k \in f..Len(v)
      BY <1>0, <1>1, <1>2
    <3> QED
      BY Zenon, <1>2, <1>6, <3>1 DEF AllDigits
  <2>3. ASSUME point < Len(v) + 1
        PROVE  v[point] = "." /\ AllDigits(v, point + 1, (Len(v) + 1) - 1)
    <3>1. point <= Len(v) /\ (Len(v) + 1) - 1 = Len(v)
      BY <1>0, <1>2, <2>3
    <3>2. \A k \in (point + 1)..Len(v) : k \in f..Len(v) /\ k # point
      BY <1>0, <1>1, <1>2
    <3>3. \A k \in (point + 1)..Len(v) : v[k] \in Digits
      BY Zenon, <1>2, <1>6, <3>1, <3>2
    <3> QED
      BY Zenon, <1>2, <3>1, <3>3 DEF AllDigits
  <2>4. f < point \/ point + 1 < Len(v) + 1
    <3>1. PICK k \in f..Len(v) : v[k] \in Digits
      BY Zenon, <1>6
    <3>2. k # point
      <4>1. k = point => v[point] = "."
        BY <1>0, <1>1, <1>2
      <4> QED
        BY Zenon, <1>3, <3>1, <4>1
    <3> QED
      BY <1>0, <1>1, <1>2, <3>2
  <2>5. point <= Len(v) + 1 /\ ~(Len(v) + 1 <= Len(v))
    BY <1>0, <1>2
  <2> QED
    BY Zenon, <1>2, <2>1, <2>2, <2>3, <2>4, <2>5 DEF Written
<1>7. CASE field.type = "integer"
  <2>1. ParsesAsI64(v)
    BY <1>7 DEF validate_field_value
  <2>2. /\ f <= Len(v) /\ \A k \in f..Len(v) : v[k] \in Digits
        /\ Value(v, f, Len(v)) <= IF v[1] = "-" THEN IntMax + 1 ELSE IntMax
    BY Zenon, <2>1 DEF ParsesAsI64
  <2>3. Points(v) = {}
    BY Zenon, <1>3, <1>5, <2>2
  <2> HIDE DEF f, point
  <2>4. f \in f..Len(v)
    BY <1>0, <1>1, <2>2
  <2>5. Written(v, f, point, Len(v) + 1)
    BY Zenon, <1>6, <2>2, <2>3, <2>4
  <2>6. point = Len(v) + 1 /\ point - 1 = Len(v) /\ Len(v) - point <= FracCap
    BY <1>0, <1>2, <1>4, <2>3
  <2>7. Value(v, f, Len(v)) \in Nat
    <3>1. AllDigits(v, f, Len(v))
      BY Zenon, <2>2 DEF AllDigits
    <3>2. Len(v) \in 0..(Len(v) + 1) /\ f \in Nat \ {0}
      BY <1>0, <1>1
    <3> QED
      BY Zenon, <1>0, <3>1, <3>2, ValueNat
  <2>8. Value(v, f, Len(v)) < Modulus
    BY <1>4, <2>2, <2>7
  <2>9. Value(v, f, point - 1) < Modulus
    BY Zenon, <2>6, <2>8
  <2> QED
    BY Zenon, <2>5, <2>6, <2>9 DEF f, point
<1>8. CASE field.type = "decimal" /\ field.precision <= SafeDigits /\ field.scale <= FracCap
  <2>1. validate_decimal(v, field.precision, field.scale)
    BY <1>8 DEF validate_field_value
  <2>2. /\ ParsesAsF64(v)
        /\ \A p, q \in Points(v) : p = q
        /\ \A k \in (f..Len(v)) \ Points(v) : v[k] \in Digits
        /\ \A p \in Points(v) : Len(v) - p <= field.scale
        /\ Cardinality({k \in 1..Len(v) : v[k] \in Digits}) <= field.precision
    BY Zenon, <2>1 DEF validate_decimal
  <2>3. SubSeq(v, f, Len(v)) # <<"nan">>
    <3> SUFFICES ASSUME SubSeq(v, f, Len(v)) = <<"nan">> PROVE FALSE
      OBVIOUS
    <3>1. f \in f..Len(v) /\ v[f] = "nan"
      BY Zenon, <1>1, NanAlone
    <3>2. f \notin Points(v)
      BY <1>5, <3>1
    <3>3. v[f] \in Digits
      BY Zenon, <2>2, <3>1, <3>2
    <3> QED
      BY <3>1, <3>3 DEF Digits
  <2>4. \E k \in f..Len(v) : v[k] \in Digits
    BY Zenon, <2>2, <2>3 DEF ParsesAsF64
  <2>5. Written(v, f, point, Len(v) + 1)
    BY Zenon, <1>6, <2>2, <2>4
  <2> HIDE DEF f, point
  <2>6. Len(v) - point <= FracCap
    <3>1. CASE point <= Len(v)
      <4>1. Len(v) - point <= field.scale
        BY Zenon, <1>2, <2>2, <3>1
      <4> QED
        BY <1>0, <1>2, <1>4, <1>8, <4>1
    <3>2. CASE point > Len(v)
      BY <1>0, <1>2, <1>4, <3>2
    <3> QED
      BY <1>0, <1>2, <3>1, <3>2
  <2>7. point - f <= SafeDigits
    <3> DEFINE A == f..(point - 1)
               B == {k \in 1..Len(v) : v[k] \in Digits}
    <3>1. A \subseteq B
      <4>1. \A k \in A : k \in f..Len(v) /\ k \in 1..Len(v)
        BY <1>0, <1>1, <1>2
      <4>2. \A k \in A : v[k] \in Digits
        BY Zenon, <1>2, <2>2, <4>1
      <4> QED
        BY Zenon, <4>1, <4>2
    <3>2. IsFiniteSet(1..Len(v)) /\ B \subseteq 1..Len(v)
      BY <1>0, FS_Interval
    <3>3. IsFiniteSet(B)
      BY Zenon, <3>2, FS_Subset
    <3>4. Cardinality(A) <= Cardinality(B) /\ IsFiniteSet(A)
      BY Zenon, <3>1, <3>3, FS_Subset
    <3>5. f \in Int /\ point - 1 \in Int
      BY <1>1, <1>2
    <3>6. Cardinality(A) = IF f > point - 1 THEN 0 ELSE (point - 1) - f + 1
      BY Zenon, <3>5, FS_Interval
    <3>7. Cardinality(A) \in Nat /\ Cardinality(B) \in Nat
      BY Zenon, <3>3, <3>4, FS_CardinalityType
    <3>8. Cardinality(B) <= field.precision
      BY Zenon, <2>2
    <3> HIDE DEF A, B
    <3>9. Cardinality(A) <= SafeDigits
      BY <1>4, <1>8, <3>4, <3>7, <3>8
    <3> QED
      BY <1>1, <1>2, <1>4, <3>6, <3>9
  <2> QED
    BY Zenon, <2>5, <2>6, <2>7 DEF f, point
<1> QED
  BY Zenon, <1>7, <1>8

\* ValidCellsCount, for every cell and every schema whose numbers fit.
THEOREM ValidCellsCorrect == DecimalSpec => []ValidCellsCount
<1>1. DecimalInv /\ NumeralsRead => ValidCellsCount
  <2> DEFINE s == numeral
             n == num
             field == cellAsk.field
             point == Find(s, 1, {"."})
             f == Unsigned(s)
  <2> SUFFICES ASSUME DecimalInv, NumeralsRead,
                      part \in {"number", "none"}, s # <<>>, FieldFits(cellAsk.value, field),
                      \/ field.type = "integer"
                      \/ field.type = "decimal" /\ field.precision <= SafeDigits /\ field.scale <= FracCap
               PROVE  /\ part = "number" /\ n.exp = 0
                      /\ n.int = Value(s, f, point - 1)
                      /\ n.frac = Value(s, point + 1, Len(s))
                      /\ n.fracs = Max({0, Len(s) - point})
    BY Zenon DEF ValidCellsCount
  <2>1. Listed(s) /\ Len(s) \in Nat /\ n \in Nums
    BY Zenon, DecimalFacts DEF DecimalInv
  <2>2. /\ cellAsk \in CellAsks /\ s = trim_ascii(cellAsk.value)
        /\ IsSeq(cellAsk.value) /\ field.precision \in Nat /\ field.scale \in Nat
    BY Zenon, CellAsksAssumption DEF DecimalInv
  <2>3. PICK T : s \in Seq(T)
    BY Zenon, <2>2, TrimSeq
  <2>4. validate_field_value(s, field)
    BY Zenon, <2>2 DEF FieldFits
  <2>5. /\ Written(s, f, point, Len(s) + 1) /\ Len(s) - point <= FracCap
        /\ Value(s, f, point - 1) < Modulus \/ point - f <= SafeDigits
    BY Zenon, <2>2, <2>3, <2>4, NumberCell
  <2>6. /\ f \in {1, 2} /\ f <= Len(s) + 1 /\ point \in Nat /\ f <= point /\ point <= Len(s) + 1
    BY Zenon, <2>1, UnsignedFacts, PointFacts
  <2>7. f \in Places(s) /\ point \in Places(s) /\ Len(s) + 1 \in Places(s) /\ Len(s) + 1 > Len(s)
    <3> HIDE DEF f, point, s
    <3> QED
      BY <2>1, <2>6 DEF Places
  <2>8. IsNumeral(s)
    BY Zenon, <2>5, <2>7 DEF IsNumeral
  <2>9. part = "number"
    BY Zenon, <2>8 DEF NumeralsRead
  <2>10. /\ Value(s, f, point - 1) < Modulus => n.int = Value(s, f, point - 1)
         /\ n.fracs = Min({Max({0, (Len(s) + 1) - point - 1}), FracCap})
         /\ n.frac = Value(s, point + 1, point + n.fracs)
         /\ n.exp = 0
    BY Zenon, <2>5, <2>7 DEF NumeralsRead
  <2>11. IntRead(s, n) /\ Finished(s, n, pos)
    BY Zenon, <2>9 DEF DecimalInv
  <2>12. PICK q \in Nat : Mantissa(s, n, q)
    <3>1. \A k \in 1..Len(s) : k \in Nat
      BY <2>1
    <3>2. pos \in Nat
      BY Zenon, DecimalFacts
    <3> QED
      BY Zenon, <2>11, <3>1, <3>2 DEF Finished
  <2>13. point = Dot(s, n)
    <3> HIDE DEF f, point, s, n
    <3> QED
      BY Zenon, <2>1, <2>5, <2>7, <2>11, <2>12, MantissaCuts
  <2>14. point - f = n.ints
    <3>1. Dot(s, n) = f + n.ints /\ n.ints \in Nat
      BY Zenon, <2>1 DEF Dot, Nums
    <3> HIDE DEF f, point, s, n
    <3> QED
      BY <2>6, <2>13, <3>1
  <2>15. n.int = Value(s, f, point - 1)
    BY Zenon, <2>5, <2>10, <2>11, <2>13, <2>14 DEF IntRead
  <2> HIDE DEF f, point, s, n
  <2>16. (Len(s) + 1) - point - 1 = Len(s) - point /\ Len(s) - point \in Int /\ FracCap \in Nat /\ FracCap \in Int
    BY <2>1, <2>6, DigitsAssumption
  <2> DEFINE x == Max({0, Len(s) - point})
  <2>17. x = IF 0 <= Len(s) - point THEN Len(s) - point ELSE 0
    BY Zenon, <2>16, MaxZero
  <2>18. n.fracs = Min({x, FracCap})
    BY <2>10, <2>16
  <2> HIDE DEF x
  <2>19. x \in Int /\ x <= FracCap
    BY <2>5, <2>16, <2>17
  <2>20. n.fracs = x
    BY <2>16, <2>18, <2>19, MinMax
  <2>21. n.frac = Value(s, point + 1, Len(s))
    <3>1. CASE point <= Len(s)
      <4>1. point + n.fracs = Len(s)
        BY <2>1, <2>6, <2>17, <2>20, <3>1
      <4> QED
        BY Zenon, <2>10, <4>1
    <3>2. CASE point = Len(s) + 1
      <4>1. n.fracs = 0
        BY <2>1, <2>17, <2>20, <3>2
      <4>2. /\ point + n.fracs \in 0..(Len(s) + 1) /\ point + n.fracs < point + 1 /\ Len(s) \in 0..(Len(s) + 1)
            /\ Len(s) < point + 1 /\ point + 1 \in Nat \ {0}
        BY <2>1, <3>2, <4>1
      <4>3. Value(s, point + 1, point + n.fracs) = 0 /\ Value(s, point + 1, Len(s)) = 0
        BY Zenon, <2>1, <4>2, NoValue
      <4> QED
        BY Zenon, <2>10, <4>3
    <3> QED
      BY <2>1, <2>6, <3>1, <3>2
  <2> QED
    BY Zenon, <2>9, <2>10, <2>15, <2>20, <2>21 DEF x
<1> QED
  BY <1>1, DecimalInvariant, DecimalsCorrect, PTL
=============================================================================
