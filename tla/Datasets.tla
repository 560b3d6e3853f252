------------------------------- MODULE Datasets -------------------------------
(***************************************************************************)
(* The validation of a cell of an upload against its field of the schema   *)
(* (data_validation.rs), and the records that the crate csv gives.  The    *)
(* validation of a whole upload is UploadCheck.                            *)
(***************************************************************************)
EXTENDS Texts

CONSTANT IntMax            \* i64::MAX

-----------------------------------------------------------------------------
(* Libraries: the parsers of i64 and f64, and the crate csv.               *)

\* Where a number starts behind its sign, and its points.
Unsigned(v) == IF v # <<>> /\ v[1] \in Signs THEN 2 ELSE 1
Points(v) == {k \in Unsigned(v)..Len(v) : v[k] = "."}

ParsesAsI64(v) ==
    /\ Unsigned(v) <= Len(v)
    /\ \A k \in Unsigned(v)..Len(v) : v[k] \in Digits
    /\ Value(v, Unsigned(v), Len(v)) <= IF v[1] = "-" THEN IntMax + 1 ELSE IntMax

\* (Without an exponent.)
ParsesAsF64(v) ==
    \/ SubSeq(v, Unsigned(v), Len(v)) = <<"nan">>
    \/ /\ \A p, q \in Points(v) : p = q
       /\ \A k \in (Unsigned(v)..Len(v)) \ Points(v) : v[k] \in Digits
       /\ \E k \in Unsigned(v)..Len(v) : v[k] \in Digits

\* Records end at CR or LF; empty lines are no records.
Starts(s) == {i \in 1..Len(s) : s[i] \notin Eol /\ (i = 1 \/ s[i - 1] \in Eol)}
RecordAt(s, i) == SubSeq(s, i, Find(s, i, Eol) - 1)
csv_records(text) ==
    [k \in 1..Cardinality(Starts(text)) |->
        LET nth == CHOOSE i \in Starts(text) : Cardinality({j \in Starts(text) : j < i}) = k - 1
        IN  Cells(RecordAt(text, nth))]

IsUtf8(cell) == \A k \in DOMAIN cell : cell[k] # "bad"

-----------------------------------------------------------------------------
(* data_validation.rs                                                      *)

\* (Mutant) Only the digits behind the point count.
validate_decimal_scale(v, precision, scale) ==
    /\ ParsesAsF64(v)
    /\ \A k \in (Unsigned(v)..Len(v)) \ Points(v) : v[k] \in Digits
    /\ \A p \in Points(v) : Len(v) - p <= scale

validate_decimal(v, precision, scale) ==
    /\ \A k \in DOMAIN v : v[k] \notin {"e", "E"}
    /\ ParsesAsF64(v)
    /\ \A p, q \in Points(v) : p = q
    /\ \A k \in (Unsigned(v)..Len(v)) \ Points(v) : v[k] \in Digits
    /\ \A p \in Points(v) : Len(v) - p <= scale
    /\ Cardinality({k \in 1..Len(v) : v[k] \in Digits}) <= precision

\* Whatever follows the first space or "T" is a time, and ignored.
validate_date_lenient(v) == SubSeq(v, 1, Find(v, 1, {"SP", "T"}) - 1) = <<"date">>

validate_flag(v) ==
    \E word \in {"0", "1", "true", "false", "yes", "no", "y", "n"} : v = <<word>>

validate_field_value(v, field) ==
    IF v = <<>> THEN field.nullable
    ELSE CASE field.type = "varchar" -> Len(v) <= field.max
           [] field.type = "integer" -> ParsesAsI64(v)
           [] field.type = "decimal" -> validate_decimal(v, field.precision, field.scale)
           [] field.type = "date"    -> validate_date_lenient(v)
           [] field.type = "flag"    -> validate_flag(v)

\* A cell as it comes from the reader.
FieldFits(cell, field) == validate_field_value(trim_ascii(cell), field)
=============================================================================
