------------------------------- MODULE Listings -------------------------------
(***************************************************************************)
(* The listings of the embedded database (tx_database.rs) as the handlers  *)
(* answer them (credentials.rs) and as a reader pages through them, while  *)
(* others add records.                                                     *)
(*                                                                         *)
(* A table is a set of rows; redb keeps it in the order of the keys, which *)
(* are numbers in the order of their text.  A page and the total that is   *)
(* answered with it come from two read transactions, except where the      *)
(* handler filters or sorts all rows itself.  No row is ever removed.      *)
(* Rows of pools do not change here: their names and times never do, their *)
(* state and number of rows may (see the README).                          *)
(***************************************************************************)
EXTENDS Integers, FiniteSets, Sequences

CONSTANTS
    Rows,           \* [pool, ts, id, name, rows, parses, kind]
    ListQueries,    \* [of, pool, filter, limit]
    MaxTs,          \* 2^64 - 1
    PageMax,        \* 200 (100 for pools), the largest page
    FetchMax        \* 1000, the rows that a filter is applied to

Sorts == {"created_asc", "created_desc", "name_asc", "credentials_desc"}

\* An id (of a record, an event, a pool) is given out once.
ASSUME RowsAssumption ==
    /\ Rows \subseteq [pool : Nat, ts : Nat, id : Nat, name : Nat, rows : Nat,
                       parses : BOOLEAN, kind : Nat]
    /\ \A r, s \in Rows : r.id = s.id => r = s
ASSUME ListQueriesAssumption ==
    ListQueries \subseteq [of : {"issuance", "revocations", "audit"} \cup Sorts, pool : Nat,
                       filter : SUBSET Nat, limit : Nat]
ASSUME LimitsAssumption == MaxTs \in Nat /\ PageMax \in Nat /\ FetchMax \in Nat

VARIABLES
    table,          \* the rows
    reader,         \* who reads what
    reading,        \* how far: "idle", "list", "count", "done", "misled"
    offset,         \* of the next page
    pages,          \* what was shown, page by page
    start           \* the rows that were there when the reading began

listingVars == <<table, reader, reading, offset, pages, start>>

ListingsInit ==
    /\ table = {}
    /\ reader \in ListQueries
    /\ reading = "idle"
    /\ offset = 0
    /\ pages = <<>>
    /\ start = {}

-----------------------------------------------------------------------------
(* Keys.                                                                   *)

\* 16 hex digits of the complement: the newest row comes first.
make_pool_ts_key(prefix, ts, id) == <<prefix, MaxTs - ts, id>>

\* Revocations, without time stamp.
make_plain_key(prefix, id) == <<prefix, 0, id>>

\* What list_all_pools sorts by; the sort is stable, and the pools come in
\* the order of their addresses.
SortKey(r, sort) ==
    CASE sort = "created_asc"      -> r.ts
      [] sort = "name_asc"         -> r.name
      [] sort = "credentials_desc" -> -r.rows
      [] OTHER                     -> -r.ts

\* The key of r for a query (of a reader).
Key(q, r) ==
    CASE q.of \in Sorts       -> <<0, SortKey(r, q.of), r.id>>
      [] q.of = "revocations" -> make_plain_key(r.pool, r.id)
      [] OTHER                -> make_pool_ts_key(r.pool, r.ts, r.id)

KeyBefore(a, b) ==
    \/ a[1] < b[1]
    \/ a[1] = b[1] /\ a[2] < b[2]
    \/ a[1] = b[1] /\ a[2] = b[2] /\ a[3] < b[3]

Before(q, r, s) == KeyBefore(Key(q, r), Key(q, s))

\* How many of S come before r.
Place(q, S, r) == Cardinality({s \in S : Before(q, s, r)})

-----------------------------------------------------------------------------
(* Scans and handlers.                                                     *)

\* (Mutant) The row at the offset is skipped too.
PageBehind(q, S, from, limit) ==
    LET rest == {r \in S : r.parses /\ Place(q, S, r) > from}
    IN  {r \in rest : Place(q, rest, r) < limit}

\* The offset counts every row, the limit only those that parse.
Page(q, S, from, limit) ==
    LET rest == {r \in S : r.parses /\ Place(q, S, r) >= from}
    IN  {r \in rest : Place(q, rest, r) < limit}

\* PaginationQuery::clamped_limit, or .min(..) in pool_audit and list_all_pools.
Size(q) ==
    LET least == IF q.of \in {"issuance", "revocations"} /\ q.limit < 1 THEN 1 ELSE q.limit
    IN  IF least > PageMax THEN PageMax ELSE least

NoFilter == {}
Filtered(q) == q.filter # NoFilter
Passes(q, r) == Filtered(q) => r.kind \in q.filter

\* The rows under the prefix; all pools that parse.
OwnRows(q, t) ==
    IF q.of \in Sorts THEN {r \in t : r.parses} ELSE {r \in t : r.pool = q.pool}

\* What the offset and the total count.  With a filter, pool_audit reads the
\* FetchMax newest events and cuts the page from those that pass.
Listed(q, t) ==
    CASE q.of \in Sorts ->
             {r \in OwnRows(q, t) : Passes(q, r)}
      [] q.of = "audit" /\ Filtered(q) ->
             {r \in Page(q, OwnRows(q, t), 0, FetchMax) : Passes(q, r)}
      [] OTHER -> OwnRows(q, t)

\* One snapshot gives the page and the total.
AtOnce(q) == q.of \in Sorts \/ (q.of = "audit" /\ Filtered(q))

Begin ==
    /\ reading = "idle"
    /\ reading' = "list"
    /\ start' = table
    /\ UNCHANGED <<table, reader, offset, pages>>

\* The reader, who knows the largest page, goes on until the total.
Turn(total) ==
    /\ offset' = offset + Size(reader)
    /\ reading' = IF offset + Size(reader) < total THEN "list" ELSE "done"

\* pool_audit with a filter, list_all_pools.
ListAtOnce ==
    /\ reading = "list" /\ AtOnce(reader)
    /\ pages' = Append(pages, Page(reader, Listed(reader, table), offset, Size(reader)))
    /\ Turn(Cardinality(Listed(reader, table)))
    /\ UNCHANGED <<table, reader, start>>

\* list_issuance_records, list_revocations, list_audit_by_resource ...
ListPage ==
    /\ reading = "list" /\ ~AtOnce(reader)
    /\ pages' = Append(pages, Page(reader, Listed(reader, table), offset, Size(reader)))
    /\ reading' = "count"
    /\ UNCHANGED <<table, reader, offset, start>>

\* ... and then the count.
CountTotal ==
    /\ reading = "count"
    /\ Turn(Cardinality(Listed(reader, table)))
    /\ UNCHANGED <<table, reader, pages, start>>

\* The count fails: the total is said to be the length of the page, or 0.
\* Neither lets the reader go on.
CountFails ==
    /\ reading = "count"
    /\ reading' = "misled"
    /\ UNCHANGED <<table, reader, offset, pages, start>>

\* upsert_issuance_record, upsert_revocation, log_audit_event, upsert_pool_meta.
AddRow(r) ==
    /\ table' = table \cup {r}
    /\ UNCHANGED <<reader, reading, offset, pages, start>>

ListingsNext ==
    \/ Begin
    \/ ListAtOnce
    \/ ListPage
    \/ CountTotal
    \/ CountFails
    \/ \E r \in Rows \ table : AddRow(r)

ListingsSpec == ListingsInit /\ [][ListingsNext]_listingVars

-----------------------------------------------------------------------------

Shown == UNION {pages[k] : k \in DOMAIN pages}

\* The rows that a reader of q is after.
Wanted(q, t) == {r \in OwnRows(q, t) : r.parses /\ Passes(q, r)}

\* A filter is applied to all events of the pool.
FilterWhole(q, t) ==
    q.of = "audit" /\ Filtered(q) => Cardinality({r \in OwnRows(q, t) : r.parses}) <= FetchMax

\* Who reads a listing page by page, to the total, meets every record that
\* was there at the start, passes the filter and can be read, although
\* records are added meanwhile, between the pages and between a page and its
\* total; with a filter on audit events, while there are no more of them
\* than the FetchMax newest that it is applied to.  As long as nothing is
\* added and everything can be read, nothing is shown twice and each page
\* goes on, in the order of the keys, where the one before ended.
PagesComplete ==
    /\ reading = "done" /\ FilterWhole(reader, table) => Wanted(reader, start) \subseteq Shown
    /\ table = start /\ (\A r \in table : r.parses) =>
          \A i, j \in DOMAIN pages : i < j =>
              \A r \in pages[i], s \in pages[j] : Before(reader, r, s)
=============================================================================
