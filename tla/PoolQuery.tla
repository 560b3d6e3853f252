------------------------------ MODULE PoolQuery -------------------------------
(***************************************************************************)
(* A query over a pool with the example script: the one text that the      *)
(* server makes of all CSV files of the pool (handlers.rs), and the column *)
(* that the script (drt-examples/mean) reads from it.  One step is one     *)
(* turn of a loop.                                                         *)
(*                                                                         *)
(* The sum is left out: a cell that is a number adds to it, another one    *)
(* is skipped.  Which cells are numbers is Decimals.                       *)
(***************************************************************************)
EXTENDS Datasets

CONSTANT PoolQueries      \* [files, column]; a file is [text, opens]

ASSUME PoolQueriesAssumption ==
    \A q \in PoolQueries :
        IsSeq(q.files) /\ \A f \in DOMAIN q.files : IsSeq(q.files[f].text)

VARIABLES
    query,
    doing,     \* the loop, and in the end "done" or "failed"
    file,      \* the file that is read, from 1
    cursor,    \* the next byte, of the file or of the text for the script
    csv,       \* out of the server, the text for the script
    col,       \* the column that the script reads
    cells      \* what it has read of each row

queryVars == <<query, doing, file, cursor, csv, col, cells>>

NoColumn == 0

QueryStart ==
    /\ doing = "files"
    /\ file = 1
    /\ cursor = 1
    /\ csv = <<>>
    /\ col = NoColumn
    /\ cells = <<>>
QueryInit == query \in PoolQueries /\ QueryStart

-----------------------------------------------------------------------------
(* handlers.rs: load_and_concat_pool_csvs                                  *)

LineEnd(s, i) == Find(s, i, {"LF"})

\* The line from i on.  str::lines drops a CR only before the LF that ends
\* the line; the script drops it at the end of the text too.
line(s, i) ==
    LET j == LineEnd(s, i)
    IN  SubSeq(s, i, IF i < j /\ j <= Len(s) /\ s[j - 1] = "CR" THEN j - 2 ELSE j - 1)
row_at(s, i) ==
    LET j == LineEnd(s, i)
    IN  SubSeq(s, i, IF i < j /\ s[j - 1] = "CR" THEN j - 2 ELSE j - 1)

Text(f) == query.files[f].text
Readable(f) == query.files[f].opens /\ IsUtf8(Text(f)) /\ Text(f) # <<>>

\* (Mutant) Every file brings its header.
OpenFileHeaded ==
    /\ doing = "files" /\ file <= Len(query.files)
    /\ \/ /\ ~Readable(file)
          /\ file' = file + 1
          /\ UNCHANGED <<doing, cursor, csv>>
       \/ /\ Readable(file)
          /\ csv' = csv \o Append(line(Text(file), 1), "LF")
          /\ cursor' = LineEnd(Text(file), 1) + 1
          /\ doing' = "lines"
          /\ UNCHANGED file
    /\ UNCHANGED <<query, col, cells>>

\* A file that cannot be read as text, or has no line, is passed over.  Once
\* a header was put out, the text is not empty.
OpenFile ==
    /\ doing = "files" /\ file <= Len(query.files)
    /\ \/ /\ ~Readable(file)
          /\ file' = file + 1
          /\ UNCHANGED <<doing, cursor, csv>>
       \/ /\ Readable(file)
          /\ csv' = IF csv = <<>> THEN Append(line(Text(file), 1), "LF") ELSE csv
          /\ cursor' = LineEnd(Text(file), 1) + 1
          /\ doing' = "lines"
          /\ UNCHANGED file
    /\ UNCHANGED <<query, col, cells>>

PushLine ==
    /\ doing = "lines" /\ cursor <= Len(Text(file))
    /\ csv' = IF line(Text(file), cursor) = <<>> THEN csv
              ELSE csv \o Append(line(Text(file), cursor), "LF")
    /\ cursor' = LineEnd(Text(file), cursor) + 1
    /\ UNCHANGED <<query, doing, file, col, cells>>

EndFile ==
    /\ doing = "lines" /\ cursor > Len(Text(file))
    /\ file' = file + 1
    /\ doing' = "files"
    /\ UNCHANGED <<query, cursor, csv, col, cells>>

-----------------------------------------------------------------------------
(* drt-examples/mean/src/lib.rs: compute_mean                              *)

\* The first cell of the header that is the name.
header_column_index(header, column) ==
    LET named == {k \in DOMAIN Cells(header) : trim_ascii(Cells(header)[k]) = column}
    IN  IF named = {} THEN NoColumn ELSE Min(named)

\* A row that is too short counts like one with an empty cell: both are skipped.
field_at(row, n) ==
    IF n \in DOMAIN Cells(row) THEN trim_ascii(Cells(row)[n]) ELSE <<>>

\* The server refuses a query when there is no data, the script one for a
\* column that is not in the header.
StartScript ==
    /\ doing = "files" /\ file > Len(query.files)
    /\ col' = header_column_index(row_at(csv, 1), query.column)
    /\ cursor' = LineEnd(csv, 1) + 1
    /\ doing' = IF csv = <<>> \/ col' = NoColumn THEN "failed" ELSE "scan"
    /\ UNCHANGED <<query, file, csv, cells>>

SkipEnd ==
    /\ doing = "scan" /\ cursor <= Len(csv) /\ csv[cursor] \in Eol
    /\ cursor' = cursor + 1
    /\ UNCHANGED <<query, doing, file, csv, col, cells>>

ScanRow ==
    /\ doing = "scan" /\ cursor <= Len(csv) /\ csv[cursor] \notin Eol
    /\ cells' = Append(cells, field_at(row_at(csv, cursor), col))
    /\ cursor' = LineEnd(csv, cursor) + 1
    /\ UNCHANGED <<query, doing, file, csv, col>>

ScanEnd ==
    /\ doing = "scan" /\ cursor > Len(csv)
    /\ doing' = IF \E n \in DOMAIN cells : IsNumeral(cells[n]) THEN "done" ELSE "failed"
    /\ UNCHANGED <<query, file, cursor, csv, col, cells>>

QueryNext ==
    \/ OpenFile \/ PushLine \/ EndFile
    \/ StartScript \/ SkipEnd \/ ScanRow \/ ScanEnd

QuerySpec == QueryInit /\ [][QueryNext]_queryVars

-----------------------------------------------------------------------------
(* What the uploads hold, as their validation read them (csv_records).     *)

\* The records of all files but their headers, by file and start.
Uploaded == UNION {{<<f, i>> : i \in Starts(Text(f)) \ {1}} : f \in 1..Len(query.files)}
Precedes(r, q) == r[1] < q[1] \/ (r[1] = q[1] /\ r[2] < q[2])
UploadedRecord(r) == RecordAt(Text(r[1]), r[2])
ColumnOf(f) == header_column_index(RecordAt(Text(f), 1), query.column)

\* The text starts with its header, and a CR is part of the end of a line.
CrEnds(s) == \A i \in 1..(Len(s) - 1) : s[i] = "CR" => s[i + 1] = "LF"
Plain(s) == s[1] \notin Eol /\ CrEnds(s)

SameColumns ==
    /\ query.files # <<>>
    /\ \A f \in 1..Len(query.files) :
          Readable(f) /\ Plain(Text(f)) /\ RecordAt(Text(f), 1) = RecordAt(Text(1), 1)

\* A query over a pool reads exactly the cells that its uploads brought for
\* the column, each once and in their order: validation (crate csv),
\* concatenation (str::lines) and scan (bytes) cut the texts alike, whether
\* LF or CR LF ends their lines, as long as all files have the same header.
\* (Validation does not ask for that, nor for plain texts: see the README.)
QueryMeansUploads ==
    doing \in {"done", "failed"} /\ SameColumns =>
        IF ColumnOf(1) = NoColumn THEN doing = "failed"
        ELSE /\ \E e \in [1..Len(cells) -> Uploaded] :
                   /\ \A m, n \in 1..Len(cells) : m < n => Precedes(e[m], e[n])
                   /\ \A r \in Uploaded : \E n \in 1..Len(cells) : e[n] = r
                   /\ \A n \in 1..Len(cells) :
                         cells[n] = field_at(UploadedRecord(e[n]), ColumnOf(e[n][1]))
             /\ doing = "done" <=> \E n \in 1..Len(cells) : IsNumeral(cells[n])
=============================================================================
