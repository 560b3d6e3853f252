----------------------------- MODULE PoolRequests -----------------------------
(***************************************************************************)
(* What a request to create a pool must look like (create_malta_pool and   *)
(* create_iob_erp_pool of api/pools.rs up to their first effect, with      *)
(* blockchain/drt/validation.rs), and the hash of a script on its way from *)
(* the request over the metadata to the fetch.                             *)
(*                                                                         *)
(* A name or URL is its length and whether trimming would shorten it, and  *)
(* an id; a hash is written as a sequence of characters.  Only requests    *)
(* for Malta pools have a schema: an id (of length 0: a new UUID) and its  *)
(* fields.  A field whose type is not known has the type "unknown".        *)
(***************************************************************************)
EXTENDS UploadCheck

CONSTANTS
    CreateRequests,          \* [malta, pool_name, drts, schema]
    HashBytes,               \* 32
    MAX_POOL_NAME_LEN, MAX_DRT_NAME_LEN, MAX_CODE_REPO_URL_LEN, MAX_DRTS_PER_POOL, MAX_SUPPLY,
    MaxSchemaId              \* 128

\* The types of the payloads; the names of columns are text.
ASSUME CreateRequestsAssumption ==
    /\ HashBytes \in Nat \ {0}
    /\ {MAX_POOL_NAME_LEN, MAX_DRT_NAME_LEN, MAX_CODE_REPO_URL_LEN, MAX_DRTS_PER_POOL, MAX_SUPPLY}
          \subseteq Nat
    /\ \A r \in CreateRequests :
          /\ r.malta \in BOOLEAN /\ r.pool_name.len \in Nat /\ IsSeq(r.drts)
          /\ \A k \in DOMAIN r.drts :
                LET d == r.drts[k]
                IN  d.name.len \in Nat /\ d.url.len \in Nat /\ d.supply \in Nat /\ IsSeq(d.hash)
          /\ r.malta =>
                /\ IsSeq(r.schema.fields)
                /\ \A k \in DOMAIN r.schema.fields : TextCell(r.schema.fields[k].name)

HexDigits == <<"0", "1", "2", "3", "4", "5", "6", "7", "8", "9", "a", "b", "c", "d", "e", "f">>
HexValue(c) ==
    LET lower == IF c = "A" THEN "a" ELSE IF c = "F" THEN "f" ELSE c
    IN  CHOOSE n \in 0..15 : HexDigits[n + 1] = lower
IsHex(c) == c \in Range(HexDigits) \cup {"A", "F"}

Zeros == [k \in 1..HashBytes |-> 0]
BadHash == <<>>

\* hex::encode
hex_encode(bytes) ==
    [k \in 1..(2 * HashBytes) |->
        HexDigits[1 + IF k % 2 = 1 THEN bytes[(k + 1) \div 2] \div 16
                                   ELSE bytes[k \div 2] % 16]]

\* u8::from_str_radix of two characters, of which the first may be a plus.
FromRadix(c, d) == IF c = "+" THEN HexValue(d) ELSE HexValue(c) * 16 + HexValue(d)

\* (Mutant) The two digits of a byte are swapped.
parse_code_hash_swapped(hex) ==
    IF Len(hex) # 2 * HashBytes \/ \E k \in DOMAIN hex : ~IsHex(hex[k]) THEN BadHash
    ELSE [k \in 1..HashBytes |-> FromRadix(hex[2 * k], hex[2 * k - 1])]

parse_code_hash(hex) ==
    LET clean == IF Len(hex) >= 2 /\ hex[1] = "0" /\ hex[2] = "x" THEN SubSeq(hex, 3, Len(hex)) ELSE hex
    IN  IF hex = <<>> THEN Zeros
        ELSE IF \/ Len(clean) # 2 * HashBytes
                \/ \E k \in 1..HashBytes :
                      ~(IsHex(clean[2 * k]) /\ (IsHex(clean[2 * k - 1]) \/ clean[2 * k - 1] = "+"))
        THEN BadHash
        ELSE [k \in 1..HashBytes |-> FromRadix(clean[2 * k - 1], clean[2 * k])]

\* decode_hash of drt/verified_fetch.rs.
decode_hash(hex) ==
    IF Len(hex) # 2 * HashBytes \/ \E k \in DOMAIN hex : ~IsHex(hex[k]) THEN BadHash
    ELSE [k \in 1..HashBytes |-> HexValue(hex[2 * k - 1]) * 16 + HexValue(hex[2 * k])]

-----------------------------------------------------------------------------
(* The DRTs of a request.                                                  *)

validate_name(name, max) == name.len > 0 /\ ~name.padded /\ name.len <= max

APPEND_DRT_NAME == "append"

\* The code of a DRT: none for append, a URL and a hash for any other.
CodeOk(d) ==
    LET hash == parse_code_hash(d.hash)
    IN  IF d.name.id = APPEND_DRT_NAME
        THEN d.url.len = 0 /\ hash = Zeros
        ELSE /\ d.url.len > 0 /\ ~d.url.padded /\ d.url.len <= MAX_CODE_REPO_URL_LEN
             /\ hash # BadHash /\ hash # Zeros

\* What the loop asks of the next DRT, after those already resolved.
DrtOk(r, d, before) ==
    /\ validate_name(d.name, MAX_DRT_NAME_LEN)
    /\ \A k \in DOMAIN before : before[k].name # d.name
    /\ r.malta \/ d.name.id # APPEND_DRT_NAME
    /\ d.supply > 0 /\ d.supply <= MAX_SUPPLY
    /\ CodeOk(d)

\* Whether there is a schema to keep; its fields are kept as they are.
parse_schema(req) ==
    /\ req.id.len <= MaxSchemaId /\ req.id.plain
    /\ req.fields # <<>>
    /\ \A k \in DOMAIN req.fields : req.fields[k].name # <<>> /\ req.fields[k].type # "unknown"

VARIABLES
    request,
    phase,       \* "start", "drts", "accepted" or "refused"
    resolved     \* the DRTs that were resolved so far

requestVars == <<request, phase, resolved>>

RequestStart == phase = "start" /\ resolved = <<>>
RequestInit == request \in CreateRequests /\ RequestStart

BeginRequest ==
    /\ phase = "start"
    /\ phase' = IF /\ validate_name(request.pool_name, MAX_POOL_NAME_LEN)
                   /\ request.drts # <<>> /\ Len(request.drts) <= MAX_DRTS_PER_POOL
                THEN "drts" ELSE "refused"
    /\ UNCHANGED <<request, resolved>>

ResolveDrt ==
    LET d == request.drts[Len(resolved) + 1]
    IN  /\ phase = "drts"
        /\ Len(resolved) < Len(request.drts)
        /\ \/ /\ DrtOk(request, d, resolved)
              /\ resolved' = Append(resolved, [name |-> d.name, supply |-> d.supply,
                                               url |-> d.url, hash |-> parse_code_hash(d.hash)])
              /\ UNCHANGED phase
           \/ /\ ~DrtOk(request, d, resolved)
              /\ phase' = "refused"
              /\ UNCHANGED resolved
        /\ UNCHANGED request

\* A Malta pool needs the DRT for uploads, and a schema.
FinishRequest ==
    /\ phase = "drts"
    /\ Len(resolved) = Len(request.drts)
    /\ phase' = IF request.malta => /\ \E k \in DOMAIN resolved : resolved[k].name.id = APPEND_DRT_NAME
                                    /\ parse_schema(request.schema)
                THEN "accepted" ELSE "refused"
    /\ UNCHANGED <<request, resolved>>

RequestNext == BeginRequest \/ ResolveDrt \/ FinishRequest
RequestSpec == RequestInit /\ [][RequestNext]_requestVars

-----------------------------------------------------------------------------

\* What a request must satisfy as a whole.
Acceptable(r) ==
    /\ r.pool_name.len \in 1..MAX_POOL_NAME_LEN /\ ~r.pool_name.padded
    /\ Len(r.drts) \in 1..MAX_DRTS_PER_POOL
    /\ \A i, j \in DOMAIN r.drts : i # j => r.drts[i].name # r.drts[j].name
    /\ \A k \in DOMAIN r.drts :
          LET d == r.drts[k]
          IN  /\ d.name.len \in 1..MAX_DRT_NAME_LEN /\ ~d.name.padded
              /\ d.supply \in 1..MAX_SUPPLY
              /\ IF d.name.id = APPEND_DRT_NAME
                 THEN r.malta /\ d.url.len = 0 /\ parse_code_hash(d.hash) = Zeros
                 ELSE /\ d.url.len \in 1..MAX_CODE_REPO_URL_LEN /\ ~d.url.padded
                      /\ parse_code_hash(d.hash) \notin {BadHash, Zeros}
    /\ r.malta =>
          /\ \E k \in DOMAIN r.drts : r.drts[k].name.id = APPEND_DRT_NAME
          /\ parse_schema(r.schema)

\* A pool is created just when the request as a whole is right, with its
\* DRTs in full and in order; in whichever spelling the hash of a script was
\* given, the form kept in the metadata (hex::encode) is one that the fetch
\* (decode_hash) reads, as the same bytes; and an upload of the bare header,
\* each name once and in any order, passes the schema, also when a name is
\* repeated in it.
CreationsUsable ==
    /\ phase = "refused" => ~Acceptable(request)
    /\ phase = "accepted" =>
          /\ Acceptable(request)
          /\ Len(resolved) = Len(request.drts)
          /\ \A k \in DOMAIN resolved :
                /\ resolved[k].name = request.drts[k].name
                /\ decode_hash(hex_encode(resolved[k].hash)) = resolved[k].hash
                /\ decode_hash(request.drts[k].hash) \in {BadHash, resolved[k].hash}
          /\ request.malta =>
                LET fields == request.schema.fields
                    names  == {fields[k].name : k \in DOMAIN fields}
                IN  \A header \in [1..Cardinality(names) -> names] :
                        ~Repeats(header) => Conforms(<<header>>, fields, "strict")
=============================================================================
