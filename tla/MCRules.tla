------------------------------- MODULE MCRules -------------------------------
(* What TLC gives to the parts of Rules.                                     *)
EXTENDS Rules, SequencesExt

Upto(S, n) == UNION {[1..k -> S] : k \in 0..n}

\* A text of rows, each a sequence of cells.
Joined(parts, separator) ==
    FoldLeft(LAMBDA acc, k : acc \o (IF k = 1 THEN <<>> ELSE separator) \o parts[k],
             <<>>, [k \in DOMAIN parts |-> k])
CsvText(rows) ==
    Append(Joined([k \in DOMAIN rows |-> Joined(rows[k], <<",">>)], <<"LF">>), "LF")

Field(n, t, null) ==
    [name |-> <<n>>, type |-> t, nullable |-> null, max |-> 1, precision |-> 2, scale |-> 1]

Headers == {<<<<"a">>, <<"b">>>>, <<<<"b">>, <<"a">>>>, <<<<"a">>>>, <<<<"a">>, <<"b">>, <<"c">>>>,
            <<<<"a">>, <<"a">>, <<"b">>>>, <<<<"c">>, <<"d">>, <<"e">>>>, <<<<"a">>, <<"bad">>>>}
BodyRows == {<<x, y>> : x \in {<<"1">>, <<"3", "0">>},
                        y \in {<<>>, <<"SP", "1">>, <<"date", "SP", "7">>, <<"no">>, <<"1", ".", "1">>}}
            \cup {<<<<"1">>>>, <<<<"1">>, <<"bad">>>>}
MCUploads ==
    UNION {[records : {csv_records(CsvText(<<h>> \o b)) : h \in Headers, b \in Upto(BodyRows, 2)},
            schema : {<<Field("a", "integer", FALSE), Field("b", t, t # "flag")>> :
                         t \in {"varchar", "integer", "decimal", "date", "flag"}},
            mode : Modes],
           {[records |-> <<>>, schema |-> <<Field("a", "integer", TRUE)>>, mode |-> "strict"]}}

\* Numerals in a column that takes any text, and cells of columns of numbers.
MCCellAsks ==
    UNION {[value : Upto({"-", "+", ".", "e", "0", "7"}, 5), field : {Field("a", "varchar", TRUE)}],
           [value : Upto({"-", "+", ".", "1", "7", "e", "SP"}, 4) \cup {<<"nan">>, <<"-", "nan">>},
            field : {Field("a", "integer", TRUE), Field("a", "decimal", TRUE),
                     [Field("a", "decimal", TRUE) EXCEPT !.precision = 3],
                     [Field("a", "decimal", TRUE) EXCEPT !.scale = 0]}]}

\* Files of one column with any ends of lines, files of two columns, and files
\* that are empty, unreadable, or start with an empty line.
File(s) == [text |-> s, opens |-> TRUE]
OneColumn(n) == {File(<<"a">> \o t) : t \in Upto({"1", "LF", "CR"}, n)}
Tails ==
    {<<>>, <<"LF">>, <<"CR", "LF">>, <<"LF", "1">>,
     <<"CR", "LF", "LF", "1", ",", "7", "CR", "LF">>, <<"LF", "x", ",", "1", "CR">>,
     <<"LF", ",", "LF", "1", ",", "SP", "7">>, <<"LF", ",", "x", ",", "7", "LF">>}
TwoColumns ==
    {File(h \o t) : h \in {<<"a", ",", "b">>, <<"b", ",", "SP", "a">>, <<"a", ",", "a">>}, t \in Tails}
OddFiles ==
    {File(<<>>), File(<<"a", "LF", "bad">>), File(<<"LF", "a", "LF", "1">>),
     [text |-> <<"a", "LF", "1">>, opens |-> FALSE]}
MCPoolQueries ==
    {[files |-> f, column |-> <<"a">>] :
        f \in Upto(OneColumn(4), 1) \cup Upto(OneColumn(3), 2)
              \cup Upto(OneColumn(2) \cup OddFiles, 2) \cup Upto(OneColumn(1) \cup OddFiles, 3)}
    \cup {[files |-> f, column |-> <<"b">>] : f \in Upto(TwoColumns, 2)}

\* Two pools; two rows of one time, one that does not parse.
Row(p, t, i, z, k) ==
    [pool |-> p, ts |-> t, id |-> i, name |-> 1, rows |-> 5 - k, parses |-> z, kind |-> k]
MCRows == {Row(1, 1, 1, TRUE, 1), Row(1, 1, 2, TRUE, 2), Row(1, 2, 3, FALSE, 1),
           Row(1, 3, 4, TRUE, 1), Row(1, 4, 5, TRUE, 2), Row(2, 2, 6, TRUE, 1)}
MCListQueries ==
    [of : {"audit"} \cup Sorts, pool : {1}, filter : {NoFilter, {1}}, limit : 1..3]
    \cup [of : {"issuance", "revocations"}, pool : {1}, filter : {NoFilter}, limit : 0..3]

Word(i, n, p) == [id |-> i, len |-> n, padded |-> p]
Drt(n, s, u, h) == [name |-> n, supply |-> s, url |-> u, hash |-> h]
SomeDrts ==
    {Drt(n, s, u, h) :
        n \in {Word("append", 1, FALSE), Word("x", 2, FALSE), Word("xx", 3, FALSE), Word("", 0, FALSE),
               Word("y", 2, TRUE)},
        s \in {0, 1, 3},
        u \in {Word("", 0, FALSE), Word("u", 2, FALSE), Word("v", 2, TRUE), Word("w", 3, FALSE)},
        h \in {<<>>, <<"0", "0">>, <<"0", "x", "F", "1">>}}
GoodDrts ==
    {Drt(Word("append", 1, FALSE), 1, Word("", 0, FALSE), <<>>),
     Drt(Word("x", 2, FALSE), 2, Word("u", 2, FALSE), <<"1", "0">>),
     Drt(Word("z", 2, FALSE), 1, Word("u", 1, FALSE), <<"0", "x", "1", "0">>)}
SomeSchemas ==
    [id : {[len |-> 0, plain |-> TRUE], [len |-> 2, plain |-> FALSE], [len |-> 3, plain |-> TRUE]},
     fields : Upto({Field("a", "integer", TRUE), Field("a", "flag", TRUE), Field("b", "date", FALSE),
                    Field("b", "unknown", TRUE), [Field("a", "integer", TRUE) EXCEPT !.name = <<>>]}, 3)]
GoodSchema == [id |-> [len |-> 2, plain |-> TRUE], fields |-> <<Field("a", "integer", TRUE)>>]
MCCreateRequests ==
    UNION {[malta : BOOLEAN, pool_name : {Word("p", 1, FALSE)}, schema : {GoodSchema},
            drts : UNION {Upto(GoodDrts, 3), {<<d, e>> : d \in GoodDrts, e \in SomeDrts},
                          {<<Drt(Word("x", 2, FALSE), 1, Word("u", 2, FALSE), h)>> :
                              h \in Upto({"0", "1", "A", "x", "+", "g"}, 4)}}],
           [malta : BOOLEAN, schema : SomeSchemas, drts : {<<d>> : d \in GoodDrts},
            pool_name : {Word("p", 1, FALSE), Word("", 0, FALSE), Word("q", 2, TRUE), Word("r", 3, FALSE)}]}
=============================================================================
