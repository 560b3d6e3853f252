----------------------------- MODULE UploadCheck -----------------------------
(***************************************************************************)
(* validate_csv_bytes of data_validation.rs: the loops that look for what  *)
(* is wrong with an upload and stop at the cap of the list of errors.  One *)
(* step is one turn of a loop.                                             *)
(*                                                                         *)
(* An upload comes as the records that the reader of the crate csv gives,  *)
(* of which the first is the header.  An error is its row and its field.   *)
(* What a cell must be is a parameter here: the model in which TLC runs    *)
(* this module has the parser and the checks of Datasets for it.           *)
(***************************************************************************)
EXTENDS Texts

CONSTANTS
    CsvUploads,               \* [records, schema, mode]
    MAX_VALIDATION_ERRORS,
    TextCell(_),              \* whether a cell is UTF-8
    CellPasses(_, _)          \* validate_field_value of the trimmed cell and a field

Modes == {"none", "headers_only", "strict"}

ASSUME CsvUploadsAssumption ==
    /\ MAX_VALIDATION_ERRORS \in Nat \ {0}
    /\ \A u \in CsvUploads :
          /\ IsSeq(u.records) /\ IsSeq(u.schema) /\ u.mode \in Modes
          /\ \A n \in DOMAIN u.records : IsSeq(u.records[n])

VARIABLES
    upload,
    loop,      \* the loop, or where the function is before and after them
    row,       \* the row that is looked at, from 1
    place,     \* the field of the schema or the column, from 1
    errors,
    rows_validated,
    valid

uploadVars == <<upload, loop, row, place, errors, rows_validated, valid>>

headers(u) == IF u.records = <<>> THEN <<>> ELSE u.records[1]
Body(u) == 1..(Len(u.records) - 1)
Record(u, n) == u.records[n + 1]

UploadStart ==
    /\ loop = "header"
    /\ row = 1
    /\ place = 1
    /\ errors = <<>>
    /\ rows_validated = 0
    /\ valid = FALSE
UploadInit == upload \in CsvUploads /\ UploadStart

Full(list) == Len(list) >= MAX_VALIDATION_ERRORS
Push(wrong, e) == errors' = IF wrong /\ ~Full(errors) THEN Append(errors, e) ELSE errors

IsText(record) == \A k \in DOMAIN record : TextCell(record[k])

\* A record of another length than the header is an error of the reader, so
\* that the later check for rows that are too short never finds one.
ReadableRow(u, n) == IsText(Record(u, n)) /\ Len(Record(u, n)) = Len(headers(u))

Go(s, n, k) == loop' = s /\ row' = n /\ place' = k
Conclude(verdict) == Go("done", row, place) /\ valid' = verdict

ReadHeader ==
    /\ loop = "header"
    /\ \/ /\ ~IsText(headers(upload))
          /\ errors' = <<<<0, "header">>>>
          /\ Conclude(FALSE)
       \/ /\ IsText(headers(upload))
          /\ Go(IF upload.mode = "none" THEN "count" ELSE "missing", 1, 1)
          /\ UNCHANGED <<errors, valid>>
    /\ UNCHANGED <<upload, rows_validated>>

\* The last column of a name counts.
Columns(u, name) == {c \in 1..Len(headers(u)) : headers(u)[c] = name}
IsMissing(u, k) == Columns(u, u.schema[k].name) = {}

CheckMissing ==
    /\ loop = "missing"
    /\ \/ /\ place <= Len(upload.schema)
          /\ IsMissing(upload, place)
          /\ errors' = Append(errors, <<0, upload.schema[place].name>>)
          /\ \/ Full(errors') /\ Conclude(FALSE)
             \/ ~Full(errors') /\ Go("missing", 1, place + 1) /\ UNCHANGED valid
       \/ /\ place <= Len(upload.schema)
          /\ ~IsMissing(upload, place)
          /\ Go("missing", 1, place + 1)
          /\ UNCHANGED <<errors, valid>>
       \/ /\ place > Len(upload.schema)
          /\ Go("extra", 1, 1)
          /\ UNCHANGED <<errors, valid>>
    /\ UNCHANGED <<upload, rows_validated>>

IsExtra(u, c) == \A k \in 1..Len(u.schema) : u.schema[k].name # headers(u)[c]

\* (Mutant) The last column is not looked at.
CheckExtraShort ==
    /\ loop = "extra"
    /\ \/ /\ place < Len(headers(upload))
          /\ Push(IsExtra(upload, place), <<0, headers(upload)[place]>>)
          /\ Go("extra", 1, place + 1)
       \/ /\ place >= Len(headers(upload))
          /\ Go(IF upload.mode = "strict" THEN "rows" ELSE "count", 1, 1)
          /\ UNCHANGED errors
    /\ UNCHANGED <<upload, rows_validated, valid>>

CheckExtra ==
    /\ loop = "extra"
    /\ \/ /\ place <= Len(headers(upload))
          /\ Push(IsExtra(upload, place), <<0, headers(upload)[place]>>)
          /\ Go("extra", 1, place + 1)
       \/ /\ place > Len(headers(upload))
          /\ Go(IF upload.mode = "strict" THEN "rows" ELSE "count", 1, 1)
          /\ UNCHANGED errors
    /\ UNCHANGED <<upload, rows_validated, valid>>

\* Without looking at cells, only the rows that can be read are counted.
CountRows ==
    /\ loop = "count"
    /\ rows_validated' = Cardinality({n \in Body(upload) : ReadableRow(upload, n)})
    /\ Conclude(errors = <<>>)
    /\ UNCHANGED <<upload, errors>>

NextRow ==
    /\ loop = "rows"
    /\ \/ /\ row \notin Body(upload) \/ Full(errors)
          /\ Conclude(errors = <<>>)
          /\ UNCHANGED <<errors, rows_validated>>
       \/ /\ row \in Body(upload) /\ ~Full(errors)
          /\ ~ReadableRow(upload, row)
          /\ errors' = Append(errors, <<row, "row">>)
          /\ Go("rows", row + 1, 1)
          /\ UNCHANGED <<rows_validated, valid>>
       \/ /\ row \in Body(upload) /\ ~Full(errors)
          /\ ReadableRow(upload, row)
          /\ rows_validated' = rows_validated + 1
          /\ Go("cells", row, 1)
          /\ UNCHANGED <<errors, valid>>
    /\ UNCHANGED upload

CellFits(u, n, k) ==
    \/ IsMissing(u, k)
    \/ CellPasses(Record(u, n)[Max(Columns(u, u.schema[k].name))], u.schema[k])

CheckField ==
    /\ loop = "cells"
    /\ \/ /\ place <= Len(upload.schema) /\ ~Full(errors)
          /\ Push(~CellFits(upload, row, place), <<row, upload.schema[place].name>>)
          /\ Go("cells", row, place + 1)
       \/ /\ place > Len(upload.schema) \/ Full(errors)
          /\ Push(Len(Record(upload, row)) < Len(headers(upload)), <<row, "row">>)
          /\ Go("rows", row + 1, 1)
    /\ UNCHANGED <<upload, rows_validated, valid>>

UploadNext ==
    ReadHeader \/ CheckMissing \/ CheckExtra \/ CountRows \/ NextRow \/ CheckField
UploadSpec == UploadInit /\ [][UploadNext]_uploadVars

-----------------------------------------------------------------------------

Repeats(s) == \E i, j \in DOMAIN s : i # j /\ s[i] = s[j]

\* The header has exactly the names of the schema, and in strict mode every
\* row can be read and every cell fits each field that names its column.
Conforms(records, schema, mode) ==
    LET head == IF records = <<>> THEN <<>> ELSE records[1]
    IN  /\ IsText(head)
        /\ mode # "none" => {head[c] : c \in DOMAIN head} = {schema[k].name : k \in DOMAIN schema}
        /\ mode = "strict" =>
              \A n \in DOMAIN records \ {1} :
                  /\ IsText(records[n]) /\ Len(records[n]) = Len(head)
                  /\ \A c \in DOMAIN head, k \in DOMAIN schema :
                        head[c] = schema[k].name =>
                            CellPasses(records[n][c], schema[k])

\* validate_csv_bytes accepts exactly the uploads that conform, although it
\* stops at the cap of its list of errors: the cap hides errors, never the
\* fact that there are some, and the list stays within it.
UploadVerdict ==
    /\ Len(errors) <= MAX_VALIDATION_ERRORS
    /\ loop = "done" =>
          /\ valid <=> errors = <<>>
          /\ ~Repeats(headers(upload)) =>
                (valid <=> Conforms(upload.records, upload.schema, upload.mode))
=============================================================================
