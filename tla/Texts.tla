-------------------------------- MODULE Texts ---------------------------------
(***************************************************************************)
(* Texts, as the server and the example script (drt-examples/mean) read    *)
(* them.                                                                   *)
(*                                                                         *)
(* A text is a sequence of bytes; the bytes are strings of one character,  *)
(* and "LF", "CR", "SP", "TAB".  Single tokens stand for what needs no     *)
(* more detail: "date" for a day of the calendar in one of the two forms,  *)
(* "nan" for a float that is no number, "bad" for a byte that is not       *)
(* UTF-8, "yes" and "no" for the words of a flag.  Quoted cells are left   *)
(* out.                                                                    *)
(***************************************************************************)
EXTENDS Integers, Sequences, FiniteSetsExt

IsSeq(s) == s \in Seq({s[k] : k \in DOMAIN s})

Blank == {"SP", "TAB"}
Eol == {"CR", "LF"}
Signs == {"+", "-"}
DigitList == <<"0", "1", "2", "3", "4", "5", "6", "7", "8", "9">>
Digits == {"0", "1", "2", "3", "4", "5", "6", "7", "8", "9"}
DigitValue(c) == CHOOSE n \in 0..9 : DigitList[n + 1] = c

\* The first place from i on that has a byte of S, or one past the end.
Find(s, i, S) == Min({j \in i..Len(s) : s[j] \in S} \cup {Len(s) + 1})

trim_ascii(s) ==
    LET kept == {i \in 1..Len(s) : s[i] \notin Blank}
    IN  IF kept = {} THEN <<>> ELSE SubSeq(s, Min(kept), Max(kept))

\* The pieces between the separators: piece k starts after the cut that has
\* k - 1 cuts before it.
Cut(s, separators) ==
    LET cuts     == {0, Len(s) + 1} \cup {i \in 1..Len(s) : s[i] \in separators}
        after(i) == Min({j \in cuts : j > i})
    IN  [k \in 1..(Cardinality(cuts) - 1) |->
            LET i == CHOOSE c \in cuts : Cardinality({d \in cuts : d < c}) = k - 1
            IN  SubSeq(s, i + 1, after(i) - 1)]

Cells(row) == Cut(row, {","})

\* The number that the digits of s from one place to another make.
Value(s, from, to) ==
    LET horner[k \in 0..(Len(s) + 1)] ==
            IF k < from THEN 0 ELSE horner[k - 1] * 10 + DigitValue(s[k])
    IN  horner[to]

-----------------------------------------------------------------------------
(* What a decimal numeral is.                                              *)

AllDigits(s, from, to) == \A n \in from..to : s[n] \in Digits

\* The digits of an exponent whose letter is at k.
ExpFrom(s, k) == IF k < Len(s) /\ s[k + 1] \in Signs THEN k + 2 ELSE k + 1

\* s is a numeral: digits from i on, behind at most a sign, from j on possibly
\* a point and digits, from k on possibly an exponent.
Written(s, i, j, k) ==
    /\ i = 1 \/ (i = 2 /\ s[1] \in Signs)
    /\ i <= j /\ j <= k
    /\ AllDigits(s, i, j - 1)
    /\ j < k => s[j] = "." /\ AllDigits(s, j + 1, k - 1)
    /\ i < j \/ j + 1 < k
    /\ k <= Len(s) =>
          /\ s[k] \in {"e", "E"}
          /\ ExpFrom(s, k) <= Len(s) /\ AllDigits(s, ExpFrom(s, k), Len(s))

Places(s) == 1..(Len(s) + 1)
IsNumeral(s) == \E i, j, k \in Places(s) : Written(s, i, j, k)
=============================================================================
