---------------------------- MODULE RequestProofs ----------------------------
(***************************************************************************)
(* Proofs about what a request must pass: the check of its token           *)
(* (JwksCache), of the data it uploads (UploadCheck), of the pool it       *)
(* creates (PoolRequests).  For any clients, keys, tokens and time to      *)
(* live; any uploads, checks of cells and cap of errors; any requests and  *)
(* limits.                                                                 *)
(*                                                                         *)
(* - The keys a request works with come from a fetch several steps before, *)
(*   by itself or by another request through the cache; KnownKeys says     *)
(*   that they are keys the service has published, whatever it retired.    *)
(* - UploadInv: in each loop over an upload the list of errors is empty    *)
(*   just when nothing was wrong so far, full or not.                      *)
(* - CreateInv: the DRTs resolved so far are the first ones of the         *)
(*   request, each of them right beside those before it.                   *)
(***************************************************************************)
EXTENDS JwksCache, PoolRequests, FiniteSetTheorems, TLAPS

KnownKeys ==
    /\ \A c \in Clients : got[c] \subseteq published \cup retired
    /\ cache # NoCache => cache.keys \subseteq published \cup retired

IInv == TypeOK /\ KnownKeys

\* The cache is empty and no key is known at the start.
LEMMA InitInv == Init => IInv
BY BoundsAssumption DEF Init, IInv, TypeOK, KnownKeys, Done

\* A token let in by validate_token under known keys is what GrantedIsEarned
\* asks for: the ranks follow the hierarchy of has_role.
LEMMA RolesRanked ==
    ASSUME NEW t \in Tokens, NEW n \in Needs, HasRole(RoleOf(t), n)
    PROVE  Rank(t.role) >= Rank(n)
<1>1. n \in Roles /\ t.role \in Roles \cup {"none"}
  BY TokensAssumption, NeedsAssumption
<1>2. CASE t.role = "none"
  BY <1>1, <1>2 DEF HasRole, RoleOf, Rank, Roles
<1>3. CASE t.role # "none"
  BY <1>1, <1>3 DEF HasRole, RoleOf, Rank, Roles
<1> QED
  BY <1>2, <1>3

\* A step of a request keeps the invariant.
LEMMA RequestInv ==
    ASSUME IInv, NEW c \in Clients,
           Request(c) \/ Serve(c) \/ FetchJwks(c) \/ FetchFails(c)
    PROVE  IInv'
<1> USE DEF IInv, TypeOK, KnownKeys, Goto, service, Done
<1>1. CASE Request(c)
  BY <1>1 DEF Request
<1>2. CASE ReadCache(c)
  BY <1>2 DEF ReadCache, Fresh
<1>3. CASE FetchJwks(c)
  BY <1>3 DEF FetchJwks
<1>4. CASE FetchFails(c)
  BY <1>4 DEF FetchFails
<1>5. CASE StoreKeys(c)
  <2>1. /\ cache' = [keys |-> got[c], age |-> 0]
        /\ pc' = [pc EXCEPT ![c] = "validate"]
        /\ UNCHANGED <<published, retired, life, got, grant>>
    BY <1>5 DEF StoreKeys
  <2>2. cache' \in [keys : SUBSET Kids, age : 0..TTL] /\ cache'.keys = got[c]
    BY <2>1, BoundsAssumption
  <2> QED
    BY <2>1, <2>2
<1>6. CASE Validate(c)
  <2>1. /\ got' = [got EXCEPT ![c] = {}]
        /\ UNCHANGED <<published, retired, cache, life>>
    BY <1>6 DEF Validate
  <2>2. pc' \in [Clients -> Done \cup {"cache", "fetch", "store", "validate"}]
    BY <1>6 DEF Validate
  <2>3. grant' \in [Clients -> [token : Tokens, need : Needs] \cup {NoGrant}]
    BY <1>6 DEF Validate
  <2> QED
    BY Zenon, <2>1, <2>2, <2>3
<1> QED
  BY <1>1, <1>2, <1>3, <1>4, <1>5, <1>6 DEF Serve

\* A step of the service, of the clock or a restart keeps the invariant.
LEMMA EnvironmentInv ==
    ASSUME IInv, (\E k \in Kids : Publish(k) \/ Retire(k)) \/ Tick \/ Restart
    PROVE  IInv'
<1> USE DEF IInv, TypeOK, KnownKeys, service, Done
<1>1. ASSUME NEW k \in Kids, Publish(k) \/ Retire(k)
      PROVE  IInv'
  BY <1>1 DEF Publish, Retire
<1>2. CASE Tick
  <2>1. /\ cache \in [keys : SUBSET Kids, age : 0..TTL] /\ cache.age < TTL
        /\ cache' = [cache EXCEPT !.age = @ + 1]
        /\ UNCHANGED <<published, retired, life, pc, got, grant>>
    BY <1>2 DEF Tick, Fresh
  <2>2. cache' \in [keys : SUBSET Kids, age : 0..TTL] /\ cache'.keys = cache.keys
    BY <2>1, BoundsAssumption
  <2> QED
    BY <1>2, <2>1, <2>2 DEF Tick, Fresh
<1>3. CASE Restart
  BY <1>3, BoundsAssumption DEF Restart
<1> QED
  BY <1>1, <1>2, <1>3

\* The invariant is inductive.
LEMMA NextInv == IInv /\ [Next]_vars => IInv'
<1> SUFFICES ASSUME IInv, [Next]_vars
             PROVE  IInv'
  OBVIOUS
<1>1. CASE UNCHANGED vars
  BY <1>1 DEF IInv, TypeOK, KnownKeys, vars
<1> QED
  BY <1>1, RequestInv, EnvironmentInv DEF Next

\* The cache, the requests and their grants keep their types.
THEOREM TypeCorrect == Spec => []TypeOK
<1>1. Init => IInv
  BY InitInv
<1>2. IInv /\ [Next]_vars => IInv'
  BY NextInv
<1>3. IInv => TypeOK
  BY DEF IInv
<1> QED
  BY <1>1, <1>2, <1>3, PTL DEF Spec

\* What GrantedIsEarned asks of a step.
Earned ==
    \A c \in Clients : pc[c] # "granted" /\ pc'[c] = "granted" =>
        /\ grant'[c].token.sound
        /\ grant'[c].token.kid \in published \cup retired
        /\ grant'[c].token.life = life
        /\ Rank(grant'[c].token.role) >= Rank(grant'[c].need)

\* Only validate_token lets a request in.
LEMMA GrantStep == IInv /\ [Next]_vars => Earned
<1> SUFFICES ASSUME IInv, [Next]_vars, NEW c \in Clients,
                    pc[c] # "granted", pc'[c] = "granted"
             PROVE  /\ grant'[c].token.sound
                    /\ grant'[c].token.kid \in published \cup retired
                    /\ grant'[c].token.life = life
                    /\ Rank(grant'[c].token.role) >= Rank(grant'[c].need)
  BY DEF Earned
<1> USE DEF Goto
<1>0. TypeOK /\ KnownKeys
  BY DEF IInv
<1>1. ASSUME NEW d \in Clients,
             \/ Request(d) \/ ReadCache(d) \/ StoreKeys(d) \/ FetchJwks(d) \/ FetchFails(d)
      PROVE  FALSE
  BY <1>0, <1>1 DEF TypeOK, Request, ReadCache, StoreKeys, FetchJwks, FetchFails
<1>2. ASSUME NEW d \in Clients, Validate(d), d # c
      PROVE  FALSE
  BY <1>0, <1>2 DEF TypeOK, Validate
<1>3. ASSUME \/ \E k \in Kids : Publish(k) \/ Retire(k)
             \/ Tick \/ Restart \/ UNCHANGED vars
      PROVE  FALSE
  BY <1>0, <1>3 DEF TypeOK, Publish, Retire, Tick, Restart, vars, Done
<1>4. Validate(c)
  BY <1>1, <1>2, <1>3 DEF Next, Serve
<1>5. PICK t \in Tokens, n \in Needs :
        /\ ValidToken(t, got[c]) /\ HasRole(RoleOf(t), n)
        /\ grant' = [grant EXCEPT ![c] = [token |-> t, need |-> n]]
  BY <1>0, <1>4 DEF TypeOK, Validate
<1>6. grant'[c].token = t /\ grant'[c].need = n
  BY <1>0, <1>5 DEF TypeOK
<1>7. t.sound /\ t.kid \in published \cup retired /\ t.life = life
  BY <1>0, <1>5 DEF ValidToken, KnownKeys
<1> QED
  BY <1>5, <1>6, <1>7, RolesRanked

\* A request is let in by validate_token only with a sound token, under a key
\* that was published, bound to this process, of a role that suffices.
THEOREM GrantedIsEarnedHolds == Spec => GrantedIsEarned
<1>1. Init => IInv
  BY InitInv
<1>2. IInv /\ [Next]_vars => IInv'
  BY NextInv
<1>3. IInv /\ [Next]_vars => [Earned]_vars
  BY GrantStep
<1>4. Spec => [][Earned]_vars
  BY <1>1, <1>2, <1>3, PTL DEF Spec
<1> QED
  BY <1>4 DEF GrantedIsEarned, Earned

-----------------------------------------------------------------------------
(* UploadCheck.                                                            *)

\* What the loops look for in the header, and in a row.
HeaderOk(u) ==
    /\ \A k \in 1..Len(u.schema) : ~IsMissing(u, k)
    /\ \A c \in 1..Len(headers(u)) : ~IsExtra(u, c)

RowOk(u, n) == ReadableRow(u, n) /\ \A k \in 1..Len(u.schema) : CellFits(u, n, k)

\* What the loops look for in an upload, taken together.
Accepts(u) ==
    /\ IsText(headers(u))
    /\ u.mode # "none" => HeaderOk(u)
    /\ u.mode = "strict" => \A n \in Body(u) : RowOk(u, n)

\* The types, and the cap of the list.
UploadType ==
    /\ upload \in CsvUploads
    /\ loop \in {"header", "missing", "extra", "count", "rows", "cells", "done"}
    /\ row \in Nat \ {0} /\ place \in Nat \ {0}
    /\ IsSeq(errors) /\ Len(errors) <= MAX_VALIDATION_ERRORS
    /\ valid \in BOOLEAN

\* In each loop the list of errors is empty just when nothing was wrong so
\* far.
Progress(u, l, n, k, clean) ==
    /\ l = "header" => clean
    /\ l \in {"missing", "extra", "count", "rows", "cells"} => IsText(headers(u))
    /\ l = "missing" =>
          /\ u.mode # "none"
          /\ clean <=> \A j \in 1..(k - 1) : j <= Len(u.schema) => ~IsMissing(u, j)
    /\ l = "extra" =>
          /\ u.mode # "none"
          /\ clean <=> /\ \A j \in 1..Len(u.schema) : ~IsMissing(u, j)
                       /\ \A c \in 1..(k - 1) : c <= Len(headers(u)) => ~IsExtra(u, c)
    /\ l = "count" =>
          /\ u.mode # "strict"
          /\ clean <=> (u.mode = "none" \/ HeaderOk(u))
    /\ l = "rows" =>
          /\ u.mode = "strict"
          /\ clean <=> HeaderOk(u) /\ \A m \in Body(u) : m < n => RowOk(u, m)
    /\ l = "cells" =>
          /\ u.mode = "strict" /\ n \in Body(u) /\ ReadableRow(u, n)
          /\ clean <=> /\ HeaderOk(u)
                       /\ \A m \in Body(u) : m < n => RowOk(u, m)
                       /\ \A j \in 1..(k - 1) : j <= Len(u.schema) => CellFits(u, n, j)
    /\ l = "done" => (clean <=> Accepts(u))

UploadInv ==
    /\ UploadType
    /\ Progress(upload, loop, row, place, errors = <<>>)
    /\ loop = "missing" => ~Full(errors)
    /\ loop = "done" => (valid <=> errors = <<>>)

\* Lists.
LEMMA SeqFacts ==
  ASSUME NEW s, IsSeq(s)
  PROVE  /\ DOMAIN s = 1..Len(s) /\ Len(s) \in Nat
         /\ s = <<>> <=> Len(s) = 0
         /\ s # <<>> => 1 \in DOMAIN s
  BY DEF IsSeq

\* A list with one more element.
LEMMA AppendFacts ==
  ASSUME NEW s, IsSeq(s), NEW e
  PROVE  /\ IsSeq(Append(s, e))
         /\ Len(Append(s, e)) = Len(s) + 1
         /\ Append(s, e) # <<>>
<1> DEFINE S == {s[k] : k \in DOMAIN s} \cup {e}
           t == Append(s, e)
<1>1. s \in Seq({s[k] : k \in DOMAIN s})
  BY DEF IsSeq
<1>2. s \in Seq(S)
  BY <1>1
<1> HIDE DEF S
<1>3. e \in S
  BY DEF S
<1>4. t \in Seq(S) /\ Len(t) = Len(s) + 1 /\ Len(s) \in Nat
  BY <1>2, <1>3
<1> HIDE DEF t
<1>5. t \in Seq({t[k] : k \in DOMAIN t})
  BY <1>4
<1>6. t # <<>>
  BY <1>4
<1> QED
  BY <1>4, <1>5, <1>6 DEF IsSeq, t

\* The lists that an upload brings.
LEMMA UploadLists ==
  ASSUME NEW u \in CsvUploads
  PROVE  /\ u.mode \in Modes
         /\ IsSeq(u.schema) /\ IsSeq(u.records) /\ IsSeq(headers(u))
         /\ Len(u.schema) \in Nat /\ Len(u.records) \in Nat /\ Len(headers(u)) \in Nat
<1>1. u.mode \in Modes /\ IsSeq(u.schema) /\ IsSeq(u.records)
      /\ \A n \in DOMAIN u.records : IsSeq(u.records[n])
  BY CsvUploadsAssumption
<1>2. IsSeq(<<>>)
  BY DEF IsSeq
<1>3. IsSeq(headers(u))
  BY <1>1, <1>2, SeqFacts DEF headers
<1> QED
  BY <1>1, <1>3, SeqFacts

\* What Push does to the list of errors.
LEMMA PushFacts ==
  ASSUME UploadType, NEW wrong \in BOOLEAN, NEW e, Push(wrong, e)
  PROVE  /\ IsSeq(errors') /\ Len(errors') <= MAX_VALIDATION_ERRORS
         /\ errors' = <<>> <=> errors = <<>> /\ ~wrong
<1>1. MAX_VALIDATION_ERRORS \in Nat \ {0} /\ IsSeq(errors) /\ Len(errors) \in Nat
      /\ Len(errors) <= MAX_VALIDATION_ERRORS /\ (errors = <<>> <=> Len(errors) = 0)
  BY CsvUploadsAssumption, SeqFacts DEF UploadType
<1>2. CASE wrong /\ ~Full(errors)
  <2>1. errors' = Append(errors, e)
    BY <1>2 DEF Push
  <2>2. IsSeq(errors') /\ Len(errors') = Len(errors) + 1 /\ errors' # <<>>
    BY <1>1, <2>1, AppendFacts
  <2> QED
    BY <1>1, <1>2, <2>2 DEF Full
<1>3. CASE ~(wrong /\ ~Full(errors))
  <2>1. errors' = errors
    BY <1>3 DEF Push
  <2>2. Full(errors) => errors # <<>>
    BY <1>1 DEF Full
  <2> QED
    BY <1>1, <1>3, <2>1, <2>2
<1> QED
  BY <1>2, <1>3

\* reader.headers(), and the way on from there.
LEMMA ReadHeaderInv ==
  ASSUME UploadInv, ReadHeader
  PROVE  UploadInv'
<1>1. UploadType /\ upload' = upload /\ upload \in CsvUploads /\ loop = "header" /\ errors = <<>>
      /\ upload.mode \in Modes
  BY UploadLists DEF UploadInv, UploadType, ReadHeader, Progress
<1>2. CASE ~IsText(headers(upload))
  <2>0. errors' = <<<<0, "header">>>>
    BY <1>2 DEF ReadHeader
  <2>1. Conclude(FALSE)
    BY <1>2 DEF ReadHeader
  <2>2. IsSeq(errors') /\ Len(errors') = 1 /\ errors' # <<>>
    BY <2>0 DEF IsSeq
  <2>3. UploadType'
    <3>1. Len(errors') <= MAX_VALIDATION_ERRORS
      BY <2>2, CsvUploadsAssumption
    <3>2. /\ upload' \in CsvUploads /\ loop' = "done" /\ row' \in Nat \ {0} /\ place' \in Nat \ {0}
          /\ valid' \in BOOLEAN
      BY <1>1, <2>1 DEF UploadType, Conclude, Go
    <3> QED
      BY <2>2, <3>1, <3>2 DEF UploadType
  <2>4. ~Accepts(upload)
    BY <1>2 DEF Accepts
  <2> QED
    BY <1>1, <2>1, <2>2, <2>3, <2>4 DEF UploadInv, Progress, Conclude, Go
<1>3. CASE IsText(headers(upload))
  <2>1. Go(IF upload.mode = "none" THEN "count" ELSE "missing", 1, 1) /\ UNCHANGED <<errors, valid>>
    BY <1>3 DEF ReadHeader
  <2>2. UploadType'
    BY <1>1, <2>1 DEF UploadType, Go
  <2>3. ~Full(errors)
    BY <1>1, CsvUploadsAssumption DEF Full
  <2>4. ~Full(errors)'
    BY <2>1, <2>3 DEF Full
  <2> QED
    BY <1>1, <1>3, <2>1, <2>2, <2>4 DEF UploadInv, Progress, Go, Modes
<1> QED
  BY <1>2, <1>3

\* A turn of the loop over the columns that must be there; it is left early
\* at the cap.
LEMMA CheckMissingInv ==
  ASSUME UploadInv, CheckMissing
  PROVE  UploadInv'
<1>1. /\ UploadType /\ upload' = upload /\ upload \in CsvUploads /\ loop = "missing" /\ ~Full(errors)
      /\ upload.mode # "none" /\ IsText(headers(upload)) /\ place \in Nat \ {0}
      /\ Len(upload.schema) \in Nat /\ IsSeq(errors) /\ MAX_VALIDATION_ERRORS \in Nat
      /\ Len(errors) \in Nat
      /\ errors = <<>> <=> \A j \in 1..(place - 1) : j <= Len(upload.schema) => ~IsMissing(upload, j)
  BY UploadLists, CsvUploadsAssumption, SeqFacts DEF UploadInv, UploadType, CheckMissing, Progress
<1>0. place \in Nat \ {0} /\ Len(upload.schema) \in Nat
  BY <1>1
<1>2. CASE place <= Len(upload.schema) /\ IsMissing(upload, place)
  <2>1. PICK e : errors' = Append(errors, e)
    BY <1>0, <1>2 DEF CheckMissing, Go, Conclude
  <2>2. IsSeq(errors') /\ Len(errors') <= MAX_VALIDATION_ERRORS /\ errors' # <<>>
    BY <1>1, <2>1, AppendFacts DEF Full
  <2>3. CASE Full(errors') /\ Conclude(FALSE)
    <3>1. UploadType'
      BY <1>1, <2>2, <2>3 DEF UploadType, Conclude, Go
    <3>2. ~Accepts(upload)
      BY <1>1, <1>2 DEF Accepts, HeaderOk
    <3> QED
      BY <1>1, <2>2, <2>3, <3>1, <3>2 DEF UploadInv, Progress, Conclude, Go
  <2>4. CASE ~Full(errors') /\ Go("missing", 1, place + 1) /\ UNCHANGED valid
    <3>1. UploadType'
      BY <1>1, <2>2, <2>4 DEF UploadType, Go
    <3>2. place' = place + 1 /\ place \in 1..(place' - 1)
      BY <1>1, <2>4 DEF Go
    <3>3. Full(errors)' <=> Full(errors')
      BY DEF Full
    <3> QED
      BY <1>1, <1>2, <2>2, <2>4, <3>1, <3>2, <3>3 DEF UploadInv, Progress, Go
  <2>5. \/ Full(errors') /\ Conclude(FALSE)
        \/ ~Full(errors') /\ Go("missing", 1, place + 1) /\ UNCHANGED valid
    BY <1>0, <1>2 DEF CheckMissing, Go, Conclude
  <2> QED
    BY <2>3, <2>4, <2>5
<1>3. CASE place <= Len(upload.schema) /\ ~IsMissing(upload, place)
  <2>1. Go("missing", 1, place + 1) /\ UNCHANGED <<errors, valid>>
    BY <1>0, <1>3 DEF CheckMissing, Go, Conclude
  <2>2. UploadType'
    BY <1>1, <2>1 DEF UploadType, Go
  <2>3. \A j : j \in 1..(place' - 1) <=> j \in 1..(place - 1) \/ j = place
    BY <1>1, <2>1 DEF Go
  <2>4. ~Full(errors)'
    BY <1>1, <2>1 DEF Full
  <2> QED
    BY <1>1, <1>3, <2>1, <2>2, <2>3, <2>4 DEF UploadInv, Progress, Go
<1>4. CASE place > Len(upload.schema)
  <2>1. Go("extra", 1, 1) /\ UNCHANGED <<errors, valid>>
    BY <1>0, <1>4 DEF CheckMissing, Go, Conclude
  <2>2. UploadType'
    BY <1>1, <2>1 DEF UploadType, Go
  <2>3. errors = <<>> <=> \A j \in 1..Len(upload.schema) : ~IsMissing(upload, j)
    BY <1>1, <1>4
  <2> QED
    BY <1>1, <2>1, <2>2, <2>3 DEF UploadInv, Progress, Go
<1> QED
  BY <1>1, <1>2, <1>3, <1>4

\* A turn of the loop over the columns of the header; at the cap it goes on
\* without a note.
LEMMA CheckExtraInv ==
  ASSUME UploadInv, CheckExtra
  PROVE  UploadInv'
<1>1. /\ UploadType /\ upload' = upload /\ upload \in CsvUploads /\ loop = "extra"
      /\ upload.mode # "none" /\ IsText(headers(upload)) /\ valid' = valid
  BY DEF UploadInv, UploadType, CheckExtra, Progress
<1>2. place \in Nat \ {0} /\ Len(headers(upload)) \in Nat
  BY <1>1, UploadLists DEF UploadType
<1>3. errors = <<>> <=> /\ \A j \in 1..Len(upload.schema) : ~IsMissing(upload, j)
                        /\ \A c \in 1..(place - 1) : c <= Len(headers(upload)) => ~IsExtra(upload, c)
  BY <1>1 DEF UploadInv, Progress
<1>4. CASE place <= Len(headers(upload))
  <2>1. Push(IsExtra(upload, place), <<0, headers(upload)[place]>>) /\ Go("extra", 1, place + 1)
    BY <1>2, <1>4 DEF CheckExtra, Push, Go
  <2>2. IsExtra(upload, place) \in BOOLEAN
    BY DEF IsExtra
  <2>3. /\ IsSeq(errors') /\ Len(errors') <= MAX_VALIDATION_ERRORS
        /\ errors' = <<>> <=> errors = <<>> /\ ~IsExtra(upload, place)
    BY <1>1, <2>1, <2>2, PushFacts
  <2>4. UploadType'
    BY <1>1, <2>1, <2>3 DEF UploadType, Go
  <2>5. place' = place + 1 /\ \A c : c \in 1..(place' - 1) <=> c \in 1..(place - 1) \/ c = place
    BY <1>2, <2>1 DEF Go
  <2>6. errors' = <<>> <=> /\ \A j \in 1..Len(upload.schema) : ~IsMissing(upload, j)
                           /\ \A c \in 1..(place' - 1) : c <= Len(headers(upload)) => ~IsExtra(upload, c)
    BY Zenon, <1>3, <1>4, <2>3, <2>5
  <2> QED
    BY <1>1, <2>1, <2>4, <2>6 DEF UploadInv, Progress, Go
<1>5. CASE place > Len(headers(upload))
  <2>1. Go(IF upload.mode = "strict" THEN "rows" ELSE "count", 1, 1) /\ UNCHANGED errors
    BY <1>2, <1>5 DEF CheckExtra, Push, Go
  <2>2. UploadType'
    BY <1>1, <2>1 DEF UploadType, Go
  <2>3. \A c : c \in 1..Len(headers(upload)) <=> c \in 1..(place - 1) /\ c <= Len(headers(upload))
    BY <1>2, <1>5
  <2>4. errors = <<>> <=> HeaderOk(upload)
    BY Zenon, <1>3, <2>3 DEF HeaderOk
  <2>5. row' = 1 /\ \A m \in Body(upload) : ~(m < row')
    BY <2>1 DEF Body, Go
  <2>6. (errors = <<>>)' <=> HeaderOk(upload)
    BY <2>1, <2>4
  <2>7. CASE upload.mode = "strict"
    <3>1. loop' = "rows"
      BY <2>1, <2>7 DEF Go
    <3>2. (errors = <<>>)' <=> HeaderOk(upload) /\ \A m \in Body(upload) : m < row' => RowOk(upload, m)
      BY Zenon, <2>5, <2>6
    <3> QED
      BY <1>1, <2>2, <2>7, <3>1, <3>2 DEF UploadInv, Progress
  <2>8. CASE upload.mode # "strict"
    <3>1. loop' = "count"
      BY <2>1, <2>8 DEF Go
    <3> QED
      BY <1>1, <2>2, <2>6, <2>8, <3>1 DEF UploadInv, Progress
  <2> QED
    BY <2>7, <2>8
<1> QED
  BY <1>2, <1>4, <1>5

\* The count of rows changes no verdict.
LEMMA CountRowsInv ==
  ASSUME UploadInv, CountRows
  PROVE  UploadInv'
<1>1. /\ UploadType /\ upload' = upload /\ loop = "count" /\ errors' = errors
      /\ upload.mode # "strict" /\ IsText(headers(upload))
      /\ errors = <<>> <=> (upload.mode = "none" \/ HeaderOk(upload))
  BY DEF UploadInv, UploadType, CountRows, Progress
<1>2. loop' = "done" /\ row' = row /\ place' = place /\ valid' = (errors = <<>>)
  BY DEF CountRows, Conclude, Go
<1>3. UploadType'
  BY <1>1, <1>2 DEF UploadType
<1>4. errors = <<>> <=> Accepts(upload)
  BY <1>1 DEF Accepts
<1> QED
  BY <1>1, <1>2, <1>3, <1>4 DEF UploadInv, Progress

\* The loop over the rows is left at the end or at the cap; a row that cannot
\* be read is an error.
LEMMA NextRowInv ==
  ASSUME UploadInv, NextRow
  PROVE  UploadInv'
<1>1. /\ UploadType /\ upload' = upload /\ upload \in CsvUploads /\ loop = "rows"
      /\ upload.mode = "strict" /\ IsText(headers(upload))
  BY DEF UploadInv, UploadType, NextRow, Progress
<1>2. /\ row \in Nat \ {0} /\ IsSeq(errors) /\ Len(errors) \in Nat
      /\ MAX_VALIDATION_ERRORS \in Nat \ {0} /\ Len(errors) <= MAX_VALIDATION_ERRORS
      /\ errors = <<>> <=> Len(errors) = 0
  BY <1>1, SeqFacts, CsvUploadsAssumption DEF UploadType
<1>3. errors = <<>> <=> HeaderOk(upload) /\ \A m \in Body(upload) : m < row => RowOk(upload, m)
  BY <1>1 DEF UploadInv, Progress
<1>4. CASE row \notin Body(upload) \/ Full(errors)
  <2>1. loop' = "done" /\ row' = row /\ place' = place /\ valid' = (errors = <<>>) /\ errors' = errors
    BY <1>4 DEF NextRow, Conclude, Go
  <2>2. UploadType'
    BY <1>1, <2>1 DEF UploadType
  <2>3. Full(errors) => errors # <<>>
    BY <1>2 DEF Full
  <2>4. row \notin Body(upload) => \A m \in Body(upload) : m < row
    <3>1. Len(upload.records) \in Nat
      BY <1>1, UploadLists
    <3> QED
      BY <1>2, <3>1 DEF Body
  <2>5. errors = <<>> <=> Accepts(upload)
    <3>1. ASSUME errors = <<>> PROVE Accepts(upload)
      <4>1. \A m \in Body(upload) : RowOk(upload, m)
        BY Zenon, <1>3, <1>4, <2>3, <2>4, <3>1
      <4> QED
        BY <1>1, <1>3, <3>1, <4>1 DEF Accepts
    <3>2. ASSUME Accepts(upload) PROVE errors = <<>>
      BY <1>1, <1>3, <3>2 DEF Accepts
    <3> QED
      BY <3>1, <3>2
  <2> QED
    BY <1>1, <2>1, <2>2, <2>5 DEF UploadInv, Progress
<1>5. CASE row \in Body(upload) /\ ~Full(errors) /\ ~ReadableRow(upload, row)
  <2>1. /\ errors' = Append(errors, <<row, "row">>) /\ loop' = "rows" /\ row' = row + 1 /\ place' = 1
        /\ valid' = valid
    BY <1>5 DEF NextRow, Go
  <2>2. IsSeq(errors') /\ Len(errors') = Len(errors) + 1 /\ errors' # <<>>
    BY <1>2, <2>1, AppendFacts
  <2>3. Len(errors') <= MAX_VALIDATION_ERRORS /\ row' \in Nat \ {0} /\ row < row'
    BY <1>2, <1>5, <2>1, <2>2 DEF Full
  <2>4. UploadType'
    BY <1>1, <2>1, <2>2, <2>3 DEF UploadType
  <2>5. ~RowOk(upload, row)
    BY <1>5 DEF RowOk
  <2>6. errors' = <<>> <=> HeaderOk(upload) /\ \A m \in Body(upload) : m < row' => RowOk(upload, m)
    BY Zenon, <1>5, <2>2, <2>3, <2>5
  <2> QED
    BY <1>1, <2>1, <2>4, <2>6 DEF UploadInv, Progress
<1>6. CASE row \in Body(upload) /\ ~Full(errors) /\ ReadableRow(upload, row)
  <2>1. UNCHANGED <<errors, valid>> /\ loop' = "cells" /\ row' = row /\ place' = 1
    BY <1>6 DEF NextRow, Go
  <2>2. UploadType'
    BY <1>1, <2>1 DEF UploadType
  <2>3. \A j : ~(j \in 1..(place' - 1))
    BY <2>1
  <2>4. errors' = <<>> <=> /\ HeaderOk(upload)
                           /\ \A m \in Body(upload) : m < row' => RowOk(upload, m)
                           /\ \A j \in 1..(place' - 1) : j <= Len(upload.schema) => CellFits(upload, row', j)
    BY Zenon, <1>3, <2>1, <2>3
  <2> QED
    BY <1>1, <1>6, <2>1, <2>2, <2>4 DEF UploadInv, Progress
<1> QED
  BY <1>4, <1>5, <1>6 DEF NextRow

\* A turn of the loop over the fields of a row, which also stops at the cap.
LEMMA CheckFieldInv ==
  ASSUME UploadInv, CheckField
  PROVE  UploadInv'
<1>1. /\ UploadType /\ upload' = upload /\ upload \in CsvUploads /\ loop = "cells"
      /\ upload.mode = "strict" /\ IsText(headers(upload)) /\ valid' = valid
      /\ row \in Body(upload) /\ ReadableRow(upload, row)
  BY DEF UploadInv, UploadType, CheckField, Progress
<1>2. /\ row \in Nat \ {0} /\ place \in Nat \ {0} /\ Len(upload.schema) \in Nat
      /\ Len(headers(upload)) \in Nat
  BY <1>1, UploadLists DEF UploadType
<1>3. errors = <<>> <=> /\ HeaderOk(upload)
                        /\ \A m \in Body(upload) : m < row => RowOk(upload, m)
                        /\ \A j \in 1..(place - 1) : j <= Len(upload.schema) => CellFits(upload, row, j)
  BY <1>1 DEF UploadInv, Progress
<1>4. CASE place <= Len(upload.schema) /\ ~Full(errors)
  <2>1. Push(~CellFits(upload, row, place), <<row, upload.schema[place].name>>) /\ Go("cells", row, place + 1)
    BY <1>2, <1>4 DEF CheckField, Push, Go
  <2>2. (~CellFits(upload, row, place)) \in BOOLEAN
    OBVIOUS
  <2>3. /\ IsSeq(errors') /\ Len(errors') <= MAX_VALIDATION_ERRORS
        /\ errors' = <<>> <=> errors = <<>> /\ CellFits(upload, row, place)
    BY <1>1, <2>1, <2>2, PushFacts
  <2>4. UploadType'
    BY <1>1, <2>1, <2>3 DEF UploadType, Go
  <2>5. \A c : c \in 1..(place' - 1) <=> c \in 1..(place - 1) \/ c = place
    BY <1>2, <2>1 DEF Go
  <2>6. errors' = <<>> <=> /\ HeaderOk(upload)
                           /\ \A m \in Body(upload) : m < row => RowOk(upload, m)
                           /\ \A j \in 1..(place' - 1) : j <= Len(upload.schema) => CellFits(upload, row, j)
    BY Zenon, <1>3, <1>4, <2>3, <2>5
  <2> QED
    BY <1>1, <2>1, <2>4, <2>6 DEF UploadInv, Progress, Go
<1>5. CASE place > Len(upload.schema) \/ Full(errors)
  <2>1. Push(Len(Record(upload, row)) < Len(headers(upload)), <<row, "row">>) /\ Go("rows", row + 1, 1)
    BY <1>2, <1>5 DEF CheckField, Push, Go
  <2>2. ~(Len(Record(upload, row)) < Len(headers(upload)))
    BY <1>1, <1>2 DEF ReadableRow
  <2>3. errors' = errors
    BY <2>1, <2>2 DEF Push
  <2>4. UploadType'
    BY <1>1, <2>1, <2>3 DEF UploadType, Go
  <2>5. row' = row + 1 /\ \A m \in Body(upload) : m < row' <=> m < row \/ m = row
    BY <1>2, <2>1 DEF Go, Body
  <2>6. Full(errors) => errors # <<>>
    BY <1>1, CsvUploadsAssumption DEF Full, UploadType
  <2>7. place > Len(upload.schema) => \A j : j \in 1..Len(upload.schema) <=> j \in 1..(place - 1) /\ j <= Len(upload.schema)
    BY <1>2
  <2>8. \A j : j \in 1..(place - 1) /\ j <= Len(upload.schema) => j \in 1..Len(upload.schema)
    BY <1>2
  <2>9. ASSUME errors = <<>> PROVE RowOk(upload, row)
    BY Zenon, <1>1, <1>3, <1>5, <2>6, <2>7, <2>9 DEF RowOk
  <2>10. errors = <<>> <=> HeaderOk(upload) /\ \A m \in Body(upload) : m < row' => RowOk(upload, m)
    <3>1. ASSUME errors = <<>>
          PROVE  HeaderOk(upload) /\ \A m \in Body(upload) : m < row' => RowOk(upload, m)
      BY Zenon, <1>3, <2>5, <2>9, <3>1
    <3>2. ASSUME HeaderOk(upload), \A m \in Body(upload) : m < row' => RowOk(upload, m)
          PROVE  errors = <<>>
      <4>1. RowOk(upload, row) /\ \A m \in Body(upload) : m < row => RowOk(upload, m)
        BY Zenon, <1>1, <2>5, <3>2
      <4>2. \A j \in 1..(place - 1) : j <= Len(upload.schema) => CellFits(upload, row, j)
        BY Zenon, <2>8, <4>1 DEF RowOk
      <4> QED
        BY Zenon, <1>3, <3>2, <4>1, <4>2
    <3> QED
      BY <3>1, <3>2
  <2> QED
    BY <1>1, <2>1, <2>3, <2>4, <2>10 DEF UploadInv, Progress, Go
<1> QED
  BY <1>2, <1>4, <1>5

\* A name that is not repeated is the name of one column.
LEMMA SeqColumn ==
  ASSUME NEW u \in CsvUploads, NEW c \in 1..Len(headers(u)), ~Repeats(headers(u))
  PROVE  Columns(u, headers(u)[c]) = {c} /\ Max(Columns(u, headers(u)[c])) = c
<1>1. DOMAIN headers(u) = 1..Len(headers(u)) /\ Len(headers(u)) \in Nat
  BY UploadLists, SeqFacts
<1>2. Columns(u, headers(u)[c]) = {c}
  BY Zenon, <1>1 DEF Columns, Repeats
<1>3. Max({c}) = c
  <2>1. c \in Int /\ c >= c
    BY <1>1
  <2> QED
    BY <2>1 DEF Max
<1> QED
  BY <1>2, <1>3

\* The loops ask for what Conforms says, if no column is repeated.
LEMMA AcceptsConforms ==
  ASSUME NEW u \in CsvUploads, ~Repeats(headers(u))
  PROVE  Accepts(u) <=> Conforms(u.records, u.schema, u.mode)
<1> DEFINE H == headers(u)
           names == {H[c] : c \in DOMAIN H}
           wanted == {u.schema[k].name : k \in DOMAIN u.schema}
           Fits(n) == /\ IsText(u.records[n]) /\ Len(u.records[n]) = Len(H)
                      /\ \A c \in DOMAIN H, k \in DOMAIN u.schema :
                            H[c] = u.schema[k].name =>
                                CellPasses(u.records[n][c], u.schema[k])
<1>1. /\ DOMAIN H = 1..Len(H) /\ DOMAIN u.schema = 1..Len(u.schema)
      /\ DOMAIN u.records = 1..Len(u.records)
      /\ Len(H) \in Nat /\ Len(u.schema) \in Nat /\ Len(u.records) \in Nat
  BY UploadLists, SeqFacts
<1>2. Conforms(u.records, u.schema, u.mode) <=>
        /\ IsText(H)
        /\ u.mode # "none" => names = wanted
        /\ u.mode = "strict" => \A n \in DOMAIN u.records \ {1} : Fits(n)
  BY Zenon DEF Conforms, headers
<1>3. HeaderOk(u) <=> names = wanted
  <2>1. (\A k \in 1..Len(u.schema) : ~IsMissing(u, k)) <=> wanted \subseteq names
    BY Zenon, <1>1 DEF IsMissing, Columns
  <2>2. (\A c \in 1..Len(H) : ~IsExtra(u, c)) <=> names \subseteq wanted
    BY Zenon, <1>1 DEF IsExtra
  <2> QED
    BY Zenon, <2>1, <2>2 DEF HeaderOk
<1>4. ASSUME NEW n \in Body(u) PROVE RowOk(u, n) <=> Fits(n + 1)
  <2>1. ReadableRow(u, n) <=> IsText(u.records[n + 1]) /\ Len(u.records[n + 1]) = Len(H)
    BY Zenon DEF ReadableRow, Record
  <2>2. ASSUME NEW k \in 1..Len(u.schema)
        PROVE  CellFits(u, n, k) <=>
                 \A c \in DOMAIN H : H[c] = u.schema[k].name =>
                     CellPasses(u.records[n + 1][c], u.schema[k])
    <3>1. CASE IsMissing(u, k)
      BY Zenon, <1>1, <3>1 DEF CellFits, IsMissing, Columns
    <3>2. CASE ~IsMissing(u, k)
      <4>1. PICK c \in 1..Len(H) : H[c] = u.schema[k].name
        BY Zenon, <3>2 DEF IsMissing, Columns
      <4>2. Columns(u, u.schema[k].name) = {c} /\ Max(Columns(u, u.schema[k].name)) = c
        BY Zenon, <4>1, SeqColumn
      <4>3. CellFits(u, n, k) <=> CellPasses(u.records[n + 1][c], u.schema[k])
        BY Zenon, <3>2, <4>2 DEF CellFits, Record
      <4>4. \A d \in DOMAIN H : H[d] = u.schema[k].name <=> d = c
        BY Zenon, <1>1, <4>1, <4>2 DEF Columns
      <4> QED
        BY Zenon, <1>1, <4>3, <4>4
    <3> QED
      BY <3>1, <3>2
  <2> QED
    BY Zenon, <1>1, <2>1, <2>2 DEF RowOk
<1> HIDE DEF H, names, wanted, Fits
<1>5. (\A n \in Body(u) : RowOk(u, n)) <=> \A n \in DOMAIN u.records \ {1} : Fits(n)
  <2>1. \A n \in Body(u) : n + 1 \in DOMAIN u.records \ {1}
    BY <1>1 DEF Body
  <2>2. \A n \in DOMAIN u.records \ {1} : n - 1 \in Body(u) /\ (n - 1) + 1 = n
    BY <1>1 DEF Body
  <2>3. ASSUME \A n \in Body(u) : RowOk(u, n), NEW n \in DOMAIN u.records \ {1}
        PROVE  Fits(n)
    <3>1. Fits((n - 1) + 1)
      BY Zenon, <1>4, <2>2, <2>3
    <3> QED
      BY Zenon, <2>2, <3>1
  <2> QED
    BY Zenon, <1>4, <2>1, <2>3
<1> QED
  BY Zenon, <1>2, <1>3, <1>5 DEF Accepts, H

\* Nothing was looked at.
LEMMA UploadInitInv == UploadInit => UploadInv
<1> SUFFICES ASSUME UploadInit PROVE UploadInv
  OBVIOUS
<1>1. IsSeq(<<>>) /\ Len(<<>>) = 0
  BY DEF IsSeq
<1>2. MAX_VALIDATION_ERRORS \in Nat /\ 0 <= MAX_VALIDATION_ERRORS
  BY CsvUploadsAssumption
<1>3. UploadType
  <2>1. upload \in CsvUploads /\ loop = "header" /\ row = 1 /\ place = 1 /\ valid \in BOOLEAN
    BY DEF UploadInit, UploadStart
  <2>2. IsSeq(errors) /\ Len(errors) <= MAX_VALIDATION_ERRORS
    BY <1>1, <1>2 DEF UploadInit, UploadStart
  <2> QED
    BY <2>1, <2>2 DEF UploadType
<1>4. loop = "header" /\ errors = <<>>
  BY DEF UploadInit, UploadStart
<1> QED
  BY <1>3, <1>4 DEF UploadInv, Progress

\* For any uploads, schemas and cap: validate_csv_bytes accepts exactly what
\* conforms, and its list of errors stays within the cap.
THEOREM UploadVerdictHolds == UploadSpec => []UploadVerdict
<1>1. UploadInv /\ [UploadNext]_uploadVars => UploadInv'
  <2>1. ASSUME UploadInv, UNCHANGED uploadVars PROVE UploadInv'
    BY Zenon, <2>1 DEF UploadInv, UploadType, uploadVars, Full
  <2> QED
    BY <2>1, ReadHeaderInv, CheckMissingInv, CheckExtraInv, CountRowsInv, NextRowInv, CheckFieldInv
       DEF UploadNext
<1>2. UploadInv => UploadVerdict
  <2> SUFFICES ASSUME UploadInv PROVE UploadVerdict
    OBVIOUS
  <2>1. Len(errors) <= MAX_VALIDATION_ERRORS /\ upload \in CsvUploads
    BY DEF UploadInv, UploadType
  <2>2. ASSUME loop = "done" PROVE (valid <=> errors = <<>>) /\ (errors = <<>> <=> Accepts(upload))
    BY <2>2 DEF UploadInv, Progress
  <2>3. ~Repeats(headers(upload)) =>
          (Accepts(upload) <=> Conforms(upload.records, upload.schema, upload.mode))
    BY <2>1, AcceptsConforms
  <2> QED
    BY Zenon, <2>1, <2>2, <2>3 DEF UploadVerdict
<1> QED
  BY <1>1, <1>2, UploadInitInv, PTL DEF UploadSpec

-----------------------------------------------------------------------------
(* PoolRequests: hashes.                                                   *)

\* The sixteen digits differ.
LEMMA HexDistinct ==
  /\ \A m, n \in 0..15 : HexDigits[m + 1] = HexDigits[n + 1] => m = n
  /\ \A n \in 0..15 : HexDigits[n + 1] \notin {"A", "F", "x", "+"}
<1>1. \A n \in 0..15 : n \in {0, 1, 2, 3, 4, 5, 6, 7, 8, 9, 10, 11, 12, 13, 14, 15}
  OBVIOUS
<1>2. /\ HexDigits[1] = "0" /\ HexDigits[2] = "1" /\ HexDigits[3] = "2" /\ HexDigits[4] = "3"
      /\ HexDigits[5] = "4" /\ HexDigits[6] = "5" /\ HexDigits[7] = "6" /\ HexDigits[8] = "7"
      /\ HexDigits[9] = "8" /\ HexDigits[10] = "9" /\ HexDigits[11] = "a" /\ HexDigits[12] = "b"
      /\ HexDigits[13] = "c" /\ HexDigits[14] = "d" /\ HexDigits[15] = "e" /\ HexDigits[16] = "f"
  BY DEF HexDigits
<1> QED
  BY <1>1, <1>2

\* The digits of hex::encode.
LEMMA HexDomain == /\ DOMAIN HexDigits = 1..16
                   /\ \A c : c \in Range(HexDigits) <=> \E n \in 0..15 : c = HexDigits[n + 1]
<1>1. DOMAIN HexDigits = 1..16
  BY DEF HexDigits
<1>2. \A n \in 0..15 : n + 1 \in 1..16
  OBVIOUS
<1>3. \A n \in 1..16 : n - 1 \in 0..15 /\ (n - 1) + 1 = n
  OBVIOUS
<1> QED
  BY Zenon, <1>1, <1>2, <1>3 DEF Range

\* A digit written is read as itself.
LEMMA HexWritten ==
  ASSUME NEW n \in 0..15
  PROVE  IsHex(HexDigits[n + 1]) /\ HexValue(HexDigits[n + 1]) = n
<1>1. IsHex(HexDigits[n + 1])
  BY Zenon, HexDomain DEF IsHex
<1>2. HexValue(HexDigits[n + 1]) = CHOOSE m \in 0..15 : HexDigits[m + 1] = HexDigits[n + 1]
  BY Zenon, HexDistinct DEF HexValue
<1> QED
  BY Zenon, <1>1, <1>2, HexDistinct

\* A digit has a value below 16, and is neither the x of a prefix nor a sign.
LEMMA HexRead ==
  ASSUME NEW c, IsHex(c)
  PROVE  HexValue(c) \in 0..15 /\ c \notin {"x", "+"}
<1>1. HexDigits[10 + 1] = "a" /\ HexDigits[15 + 1] = "f" /\ 10 \in 0..15 /\ 15 \in 0..15
  BY DEF HexDigits
<1> DEFINE lower == IF c = "A" THEN "a" ELSE IF c = "F" THEN "f" ELSE c
<1>2. \E n \in 0..15 : HexDigits[n + 1] = lower
  BY Zenon, <1>1, HexDomain DEF IsHex
<1>3. HexValue(c) = CHOOSE n \in 0..15 : HexDigits[n + 1] = lower
  BY Zenon DEF HexValue
<1>4. HexValue(c) \in 0..15
  BY Zenon, <1>2, <1>3
<1>5. c \notin {"x", "+"}
  BY HexDomain, HexDistinct DEF IsHex
<1> QED
  BY <1>4, <1>5

\* A hash as bytes.
Hashes == [1..HashBytes -> 0..255]

\* The hash of append is a hash, a failure is none.
LEMMA ZerosHash == Zeros \in Hashes /\ BadHash \notin Hashes
<1>1. HashBytes \in Nat \ {0}
  BY CreateRequestsAssumption
<1>2. Zeros \in Hashes
  BY DEF Zeros, Hashes
<1>3. 1 \in 1..HashBytes
  BY <1>1
<1>4. BadHash \notin Hashes
  BY <1>3 DEF BadHash, Hashes
<1> QED
  BY <1>2, <1>4

\* A byte is its two digits.
LEMMA Nibbles == \A b \in 0..255 : /\ b \div 16 \in 0..15 /\ b % 16 \in 0..15
                                   /\ (b \div 16) * 16 + (b % 16) = b
  OBVIOUS

\* Two digits, or one, are a byte.
LEMMA DigitsMakeByte == \A a, b \in 0..15 : a * 16 + b \in 0..255 /\ b \in 0..255
  OBVIOUS

\* What hex::encode writes, decode_hash reads.
LEMMA HashRoundTrip ==
  ASSUME NEW h \in Hashes
  PROVE  decode_hash(hex_encode(h)) = h
<1> DEFINE t == hex_encode(h)
<1>0. HashBytes \in Nat \ {0}
  BY CreateRequestsAssumption
<1>1. t = [k \in 1..(2 * HashBytes) |->
             HexDigits[1 + IF k % 2 = 1 THEN h[(k + 1) \div 2] \div 16 ELSE h[k \div 2] % 16]]
  BY DEF hex_encode
<1> HIDE DEF t
<1>2. Len(t) = 2 * HashBytes /\ DOMAIN t = 1..(2 * HashBytes)
  BY <1>0, <1>1
<1>3. ASSUME NEW k \in 1..HashBytes
      PROVE  /\ h[k] \in 0..255 /\ h[k] \div 16 \in 0..15 /\ h[k] % 16 \in 0..15
             /\ (h[k] \div 16) * 16 + (h[k] % 16) = h[k]
             /\ t[2 * k - 1] = HexDigits[(h[k] \div 16) + 1]
             /\ t[2 * k] = HexDigits[(h[k] % 16) + 1]
  <2>1. h[k] \in 0..255
    BY DEF Hashes
  <2>2. h[k] \div 16 \in 0..15 /\ h[k] % 16 \in 0..15 /\ (h[k] \div 16) * 16 + (h[k] % 16) = h[k]
    BY Zenon, <2>1, Nibbles
  <2>3. /\ 2 * k - 1 \in 1..(2 * HashBytes) /\ 2 * k \in 1..(2 * HashBytes)
        /\ (2 * k - 1) % 2 = 1 /\ (2 * k) % 2 = 0
        /\ ((2 * k - 1) + 1) \div 2 = k /\ (2 * k) \div 2 = k
    BY <1>0
  <2>4. t[2 * k - 1] = HexDigits[1 + (h[k] \div 16)]
    BY Zenon, <1>1, <2>3
  <2>5. t[2 * k] = HexDigits[1 + (h[k] % 16)]
    <3>1. (2 * k) % 2 # 1
      BY <2>3
    <3> QED
      BY Zenon, <1>1, <2>3, <3>1
  <2>6. 1 + (h[k] \div 16) = (h[k] \div 16) + 1 /\ 1 + (h[k] % 16) = (h[k] % 16) + 1
    BY <2>2
  <2> QED
    BY <2>1, <2>2, <2>4, <2>5, <2>6
<1>4. ASSUME NEW k \in 1..HashBytes
      PROVE  /\ IsHex(t[2 * k - 1]) /\ IsHex(t[2 * k])
             /\ HexValue(t[2 * k - 1]) * 16 + HexValue(t[2 * k]) = h[k]
  <2>1. IsHex(t[2 * k - 1]) /\ HexValue(t[2 * k - 1]) = h[k] \div 16
    BY Zenon, <1>3, HexWritten
  <2>2. IsHex(t[2 * k]) /\ HexValue(t[2 * k]) = h[k] % 16
    BY Zenon, <1>3, HexWritten
  <2> QED
    BY Zenon, <1>3, <2>1, <2>2
<1>5. ASSUME NEW k \in DOMAIN t PROVE IsHex(t[k])
  <2>1. \E j \in 1..HashBytes : k = 2 * j - 1 \/ k = 2 * j
    <3>1. CASE k % 2 = 1
      <4>1. (k + 1) \div 2 \in 1..HashBytes /\ k = 2 * ((k + 1) \div 2) - 1
        BY <1>0, <1>2, <3>1
      <4> QED
        BY <4>1
    <3>2. CASE k % 2 = 0
      <4>1. k \div 2 \in 1..HashBytes /\ k = 2 * (k \div 2)
        BY <1>0, <1>2, <3>2
      <4> QED
        BY <4>1
    <3> QED
      BY <1>0, <1>2, <3>1, <3>2
  <2> QED
    BY Zenon, <1>4, <2>1
<1>6. decode_hash(t) = [k \in 1..HashBytes |-> HexValue(t[2 * k - 1]) * 16 + HexValue(t[2 * k])]
  BY Zenon, <1>2, <1>5 DEF decode_hash
<1>7. decode_hash(t) = [k \in 1..HashBytes |-> h[k]]
  BY <1>4, <1>6
<1>8. h = [k \in 1..HashBytes |-> h[k]]
  BY DEF Hashes
<1> QED
  BY <1>7, <1>8 DEF t

\* What from_str_radix reads from a digit or a sign and a digit is a byte.
LEMMA FromRadixByte ==
  ASSUME NEW c, NEW d, IsHex(d), IsHex(c) \/ c = "+"
  PROVE  FromRadix(c, d) \in 0..255
<1>1. HexValue(d) \in 0..15
  BY Zenon, HexRead
<1>2. CASE c = "+"
  <2>1. FromRadix(c, d) = HexValue(d)
    BY Zenon, <1>2 DEF FromRadix
  <2>2. \A b \in 0..15 : b \in 0..255
    OBVIOUS
  <2>3. HexValue(d) \in 0..255
    BY Zenon, <1>1, <2>2
  <2> QED
    BY <2>1, <2>3
<1>3. CASE c # "+"
  <2>1. HexValue(c) \in 0..15
    BY Zenon, <1>3, HexRead
  <2>2. FromRadix(c, d) = HexValue(c) * 16 + HexValue(d)
    BY Zenon, <1>3 DEF FromRadix
  <2>3. HexValue(c) * 16 + HexValue(d) \in 0..255
    BY Zenon, <1>1, <2>1, DigitsMakeByte
  <2> QED
    BY <2>2, <2>3
<1> QED
  BY Zenon, <1>2, <1>3

\* parse_code_hash gives bytes or fails, and agrees with decode_hash on
\* whatever both read.
LEMMA ParsedHash ==
  ASSUME NEW hex, IsSeq(hex), parse_code_hash(hex) # BadHash
  PROVE  /\ parse_code_hash(hex) \in Hashes
         /\ decode_hash(hex) \in {BadHash, parse_code_hash(hex)}
<1>0. HashBytes \in Nat \ {0} /\ Len(hex) \in Nat /\ DOMAIN hex = 1..Len(hex) /\ (hex = <<>> => Len(hex) = 0)
  BY CreateRequestsAssumption, SeqFacts
<1>1. CASE hex = <<>>
  <2>1. parse_code_hash(hex) = Zeros
    BY <1>1 DEF parse_code_hash
  <2>2. Len(hex) # 2 * HashBytes
    BY <1>0, <1>1
  <2>3. decode_hash(hex) = BadHash
    BY Zenon, <2>2 DEF decode_hash
  <2> QED
    BY <2>1, <2>3, ZerosHash
<1>2. CASE hex # <<>>
  <2> DEFINE prefixed == Len(hex) >= 2 /\ hex[1] = "0" /\ hex[2] = "x"
             clean == IF prefixed THEN SubSeq(hex, 3, Len(hex)) ELSE hex
             bad == \/ Len(clean) # 2 * HashBytes
                    \/ \E k \in 1..HashBytes :
                         ~(IsHex(clean[2 * k]) /\ (IsHex(clean[2 * k - 1]) \/ clean[2 * k - 1] = "+"))
             out == [k \in 1..HashBytes |-> FromRadix(clean[2 * k - 1], clean[2 * k])]
  <2>1. parse_code_hash(hex) = IF bad THEN BadHash ELSE out
    BY Zenon, <1>2 DEF parse_code_hash
  <2>2. ~bad /\ parse_code_hash(hex) = out
    BY Zenon, <2>1
  <2>3. ASSUME NEW k \in 1..HashBytes
        PROVE  FromRadix(clean[2 * k - 1], clean[2 * k]) \in 0..255
    <3>1. IsHex(clean[2 * k]) /\ (IsHex(clean[2 * k - 1]) \/ clean[2 * k - 1] = "+")
      BY Zenon, <2>2
    <3> HIDE DEF clean
    <3> QED
      BY Zenon, <3>1, FromRadixByte
  <2>4. out \in Hashes
    BY <2>3 DEF Hashes
  <2>5. ASSUME decode_hash(hex) # BadHash PROVE decode_hash(hex) = out
    <3>1. Len(hex) = 2 * HashBytes /\ \A k \in DOMAIN hex : IsHex(hex[k])
      BY Zenon, <2>5 DEF decode_hash
    <3>2. ~prefixed
      <4>1. Len(hex) >= 2 => 2 \in DOMAIN hex
        BY <1>0
      <4>2. IsHex(hex[2]) => hex[2] # "x"
        BY Zenon, HexRead
      <4> QED
        BY Zenon, <3>1, <4>1, <4>2
    <3>3. clean = hex
      BY Zenon, <3>2
    <3>4. decode_hash(hex) = [k \in 1..HashBytes |-> HexValue(hex[2 * k - 1]) * 16 + HexValue(hex[2 * k])]
      BY Zenon, <3>1 DEF decode_hash
    <3>5. out = [k \in 1..HashBytes |-> FromRadix(hex[2 * k - 1], hex[2 * k])]
      BY Zenon, <3>3
    <3>6. ASSUME NEW k \in 1..HashBytes
          PROVE  FromRadix(hex[2 * k - 1], hex[2 * k]) = HexValue(hex[2 * k - 1]) * 16 + HexValue(hex[2 * k])
      <4>1. 2 * k - 1 \in DOMAIN hex
        BY <1>0, <3>1
      <4>2. hex[2 * k - 1] # "+"
        BY Zenon, <3>1, <4>1, HexRead
      <4> QED
        BY Zenon, <4>2 DEF FromRadix
    <3> HIDE DEF out, clean, prefixed
    <3> QED
      BY Zenon, <3>4, <3>5, <3>6
  <2> QED
    BY Zenon, <2>2, <2>4, <2>5
<1> QED
  BY <1>1, <1>2

-----------------------------------------------------------------------------
(* PoolRequests: the checks of a request.                                  *)

\* What the loop asks of the k-th DRT of a request.
DrtGood(r, k) ==
    LET d == r.drts[k]
    IN  /\ validate_name(d.name, MAX_DRT_NAME_LEN)
        /\ \A j \in 1..Len(r.drts) : j < k => r.drts[j].name # d.name
        /\ r.malta \/ d.name.id # APPEND_DRT_NAME
        /\ d.supply > 0 /\ d.supply <= MAX_SUPPLY
        /\ CodeOk(d)

\* What is asked before the loop, and after it.
Begins(r) ==
    /\ validate_name(r.pool_name, MAX_POOL_NAME_LEN)
    /\ r.drts # <<>> /\ Len(r.drts) <= MAX_DRTS_PER_POOL

Ends(r) ==
    r.malta => /\ \E k \in 1..Len(r.drts) : r.drts[k].name.id = APPEND_DRT_NAME
               /\ parse_schema(r.schema)

\* The checks of the code one after the other are those of Acceptable.
LEMMA AcceptableParts ==
  ASSUME NEW r \in CreateRequests
  PROVE  Acceptable(r) <=> Begins(r) /\ (\A k \in 1..Len(r.drts) : DrtGood(r, k)) /\ Ends(r)
<1>1. /\ DOMAIN r.drts = 1..Len(r.drts) /\ Len(r.drts) \in Nat /\ (r.drts = <<>> <=> Len(r.drts) = 0)
      /\ r.pool_name.len \in Nat /\ r.malta \in BOOLEAN
  BY CreateRequestsAssumption, SeqFacts
<1>2. \A m \in {MAX_POOL_NAME_LEN, MAX_DRT_NAME_LEN, MAX_CODE_REPO_URL_LEN, MAX_DRTS_PER_POOL, MAX_SUPPLY} : m \in Nat
  BY Zenon, CreateRequestsAssumption
<1>3. Begins(r) <=> /\ r.pool_name.len \in 1..MAX_POOL_NAME_LEN /\ ~r.pool_name.padded
                    /\ Len(r.drts) \in 1..MAX_DRTS_PER_POOL
  BY <1>1, <1>2 DEF Begins, validate_name
<1> DEFINE Differs(k) == \A j \in 1..Len(r.drts) : j < k => r.drts[j].name # r.drts[k].name
           Fine(k) ==
              LET d == r.drts[k]
              IN  /\ d.name.len \in 1..MAX_DRT_NAME_LEN /\ ~d.name.padded
                  /\ d.supply \in 1..MAX_SUPPLY
                  /\ IF d.name.id = APPEND_DRT_NAME
                     THEN r.malta /\ d.url.len = 0 /\ parse_code_hash(d.hash) = Zeros
                     ELSE /\ d.url.len \in 1..MAX_CODE_REPO_URL_LEN /\ ~d.url.padded
                          /\ parse_code_hash(d.hash) \notin {BadHash, Zeros}
<1>4. ASSUME NEW k \in 1..Len(r.drts) PROVE DrtGood(r, k) <=> Differs(k) /\ Fine(k)
  <2> DEFINE d == r.drts[k]
  <2>1. d.name.len \in Nat /\ d.url.len \in Nat /\ d.supply \in Nat
    BY Zenon, <1>1, CreateRequestsAssumption
  <2> HIDE DEF d
  <2>2. validate_name(d.name, MAX_DRT_NAME_LEN) <=> d.name.len \in 1..MAX_DRT_NAME_LEN /\ ~d.name.padded
    BY <1>2, <2>1 DEF validate_name
  <2>3. d.supply > 0 /\ d.supply <= MAX_SUPPLY <=> d.supply \in 1..MAX_SUPPLY
    BY <1>2, <2>1
  <2>4. d.url.len > 0 /\ d.url.len <= MAX_CODE_REPO_URL_LEN <=> d.url.len \in 1..MAX_CODE_REPO_URL_LEN
    BY <1>2, <2>1
  <2>5. (r.malta \/ d.name.id # APPEND_DRT_NAME) /\ CodeOk(d) <=>
          IF d.name.id = APPEND_DRT_NAME
          THEN r.malta /\ d.url.len = 0 /\ parse_code_hash(d.hash) = Zeros
          ELSE /\ d.url.len \in 1..MAX_CODE_REPO_URL_LEN /\ ~d.url.padded
               /\ parse_code_hash(d.hash) \notin {BadHash, Zeros}
    BY Zenon, <2>4 DEF CodeOk
  <2> QED
    BY Zenon, <2>2, <2>3, <2>5 DEF DrtGood, d
<1>5. (\A i, j \in DOMAIN r.drts : i # j => r.drts[i].name # r.drts[j].name)
        <=> \A k \in 1..Len(r.drts) : Differs(k)
  <2>1. \A i, j \in 1..Len(r.drts) : i # j <=> i < j \/ j < i
    BY <1>1
  <2> QED
    BY Zenon, <1>1, <2>1
<1>6. Ends(r) <=> (r.malta => /\ \E k \in DOMAIN r.drts : r.drts[k].name.id = APPEND_DRT_NAME
                              /\ parse_schema(r.schema))
  BY Zenon, <1>1 DEF Ends
<1>7. (\A k \in 1..Len(r.drts) : DrtGood(r, k)) <=>
        /\ \A i, j \in DOMAIN r.drts : i # j => r.drts[i].name # r.drts[j].name
        /\ \A k \in DOMAIN r.drts : Fine(k)
  <2> HIDE DEF Fine, Differs
  <2> QED
    BY Zenon, <1>1, <1>4, <1>5
<1> QED
  BY Zenon, <1>3, <1>6, <1>7 DEF Acceptable

\* The form in which a DRT is kept.
Kept(d) == [name |-> d.name, supply |-> d.supply, url |-> d.url, hash |-> parse_code_hash(d.hash)]

\* Name and hash are kept.
LEMMA KeptParts ==
  ASSUME NEW d
  PROVE  Kept(d).name = d.name /\ Kept(d).hash = parse_code_hash(d.hash)
  BY DEF Kept

\* The types.
RequestType ==
    /\ request \in CreateRequests
    /\ phase \in {"start", "drts", "accepted", "refused"}
    /\ IsSeq(resolved) /\ Len(resolved) <= Len(request.drts)

\* The DRTs resolved so far are the first ones of the request, each of them
\* right; a request that was refused has something wrong.
CreateInv ==
    /\ RequestType
    /\ phase = "start" => resolved = <<>>
    /\ phase \in {"drts", "accepted"} => Begins(request)
    /\ \A k \in 1..Len(resolved) : resolved[k] = Kept(request.drts[k]) /\ DrtGood(request, k)
    /\ phase = "accepted" => Len(resolved) = Len(request.drts) /\ Ends(request)
    /\ phase = "refused" => ~Acceptable(request)

\* The checks before the loop.
LEMMA BeginRequestInv ==
  ASSUME CreateInv, BeginRequest
  PROVE  CreateInv'
<1>1. request' = request /\ resolved' = resolved /\ request \in CreateRequests /\ resolved = <<>>
  BY DEF CreateInv, RequestType, BeginRequest
<1>2. phase' = IF Begins(request) THEN "drts" ELSE "refused"
  BY Zenon DEF BeginRequest, Begins
<1>3. ~Begins(request) => ~Acceptable(request)
  BY Zenon, <1>1, AcceptableParts
<1> QED
  BY <1>1, <1>2, <1>3 DEF CreateInv, RequestType

\* The checks of a Malta pool after the loop.
LEMMA FinishRequestInv ==
  ASSUME CreateInv, FinishRequest
  PROVE  CreateInv'
<1>1. /\ request' = request /\ resolved' = resolved /\ request \in CreateRequests
      /\ Len(resolved) = Len(request.drts) /\ phase = "drts"
  BY DEF CreateInv, RequestType, FinishRequest
<1>2. DOMAIN resolved = 1..Len(request.drts)
  BY <1>1, SeqFacts DEF CreateInv, RequestType
<1>3. \A k \in DOMAIN resolved : resolved[k].name = request.drts[k].name
  BY Zenon, <1>1, <1>2, KeptParts DEF CreateInv
<1>4. phase' = IF Ends(request) THEN "accepted" ELSE "refused"
  BY Zenon, <1>2, <1>3 DEF FinishRequest, Ends
<1>5. ~Ends(request) => ~Acceptable(request)
  BY Zenon, <1>1, AcceptableParts
<1> QED
  BY <1>1, <1>4, <1>5 DEF CreateInv, RequestType

\* A turn of the loop over the DRTs of validate_drt_requests.
LEMMA ResolveDrtInv ==
  ASSUME CreateInv, ResolveDrt
  PROVE  CreateInv'
<1> DEFINE n == Len(resolved) + 1
           d == request.drts[n]
<1>1. /\ request' = request /\ request \in CreateRequests /\ phase = "drts"
      /\ Len(resolved) < Len(request.drts) /\ IsSeq(resolved)
  BY DEF CreateInv, RequestType, ResolveDrt
<1>2. /\ Len(resolved) \in Nat /\ DOMAIN resolved = 1..Len(resolved) /\ Len(request.drts) \in Nat
      /\ n \in 1..Len(request.drts) /\ n - 1 = Len(resolved)
  <2>1. IsSeq(request.drts)
    BY Zenon, <1>1, CreateRequestsAssumption
  <2>2. Len(resolved) \in Nat /\ DOMAIN resolved = 1..Len(resolved) /\ Len(request.drts) \in Nat
    BY Zenon, <1>1, <2>1, SeqFacts
  <2> QED
    BY <1>1, <2>2
<1>3. \A k \in 1..Len(resolved) : resolved[k] = Kept(request.drts[k]) /\ DrtGood(request, k)
  BY DEF CreateInv
<1>4. DrtOk(request, d, resolved) <=> DrtGood(request, n)
  <2>1. \A k \in 1..Len(resolved) : resolved[k].name = request.drts[k].name
    BY Zenon, <1>3, KeptParts
  <2>2. \A j \in 1..Len(request.drts) : j < n <=> j \in 1..Len(resolved)
    BY <1>2
  <2>3. \A j : j \in 1..Len(resolved) => j \in 1..Len(request.drts)
    BY <1>2
  <2>4. (\A k \in DOMAIN resolved : resolved[k].name # d.name) <=>
          \A j \in 1..Len(request.drts) : j < n => request.drts[j].name # d.name
    BY Zenon, <1>2, <2>1, <2>2, <2>3
  <2> QED
    BY Zenon, <2>4 DEF DrtOk, DrtGood
<1>5. CASE DrtOk(request, d, resolved)
  <2>1. resolved' = Append(resolved, Kept(d)) /\ phase' = phase
    BY Zenon, <1>5 DEF ResolveDrt, Kept
  <2>2. IsSeq(resolved') /\ Len(resolved') = n
    BY <1>1, <2>1, AppendFacts
  <2>3. \A k \in 1..Len(resolved) : resolved'[k] = resolved[k]
    BY <1>1, <2>1 DEF IsSeq
  <2>4. resolved'[n] = Kept(d)
    BY <1>1, <2>1 DEF IsSeq
  <2>5. \A k \in 1..Len(resolved') : k \in 1..Len(resolved) \/ k = n
    BY <1>2, <2>2
  <2>6. \A k \in 1..Len(resolved') : resolved'[k] = Kept(request.drts[k]) /\ DrtGood(request, k)
    BY Zenon, <1>3, <1>4, <1>5, <2>3, <2>4, <2>5
  <2>7. Len(resolved') <= Len(request.drts)
    BY <1>2, <2>2
  <2> QED
    BY <1>1, <2>1, <2>2, <2>6, <2>7 DEF CreateInv, RequestType
<1>6. CASE ~DrtOk(request, d, resolved)
  <2>1. resolved' = resolved /\ phase' = "refused"
    BY Zenon, <1>6 DEF ResolveDrt
  <2>2. ~Acceptable(request)
    BY Zenon, <1>1, <1>2, <1>4, <1>6, AcceptableParts
  <2> QED
    BY <1>1, <2>1, <2>2 DEF CreateInv, RequestType
<1> QED
  BY <1>5, <1>6

\* No DRT is resolved.
LEMMA RequestInitInv == RequestInit => CreateInv
<1> SUFFICES ASSUME RequestInit PROVE CreateInv
  OBVIOUS
<1>1. request \in CreateRequests /\ phase = "start" /\ resolved = <<>>
  BY DEF RequestInit, RequestStart
<1>2. IsSeq(resolved) /\ Len(resolved) = 0 /\ Len(request.drts) \in Nat
  <2>1. IsSeq(resolved) /\ Len(resolved) = 0
    BY <1>1 DEF IsSeq
  <2>2. IsSeq(request.drts)
    BY Zenon, <1>1, CreateRequestsAssumption
  <2> QED
    BY Zenon, <2>1, <2>2, SeqFacts
<1>3. 1..Len(resolved) = {} /\ Len(resolved) <= Len(request.drts)
  BY <1>2
<1> QED
  BY <1>1, <1>2, <1>3 DEF CreateInv, RequestType

\* A list of the members of a finite set, as many as there are and none
\* twice, has all of them.
LEMMA SetListed ==
  ASSUME NEW S, IsFiniteSet(S), NEW h \in [1..Cardinality(S) -> S], ~Repeats(h)
  PROVE  {h[c] : c \in DOMAIN h} = S
<1> DEFINE N == 1..Cardinality(S)
<1>1. DOMAIN h = N /\ \A c \in N : h[c] \in S
  BY Zenon
<1>2. h \in Injection(N, S)
  BY Zenon, <1>1 DEF Injection, IsInjective, Repeats
<1>3. IsFiniteSet(N) /\ Cardinality(N) = Cardinality(S)
  BY FS_CardinalityType, FS_Interval
<1>4. h \in Surjection(N, S)
  BY Zenon, <1>2, <1>3, FS_Injection
<1>5. \A x \in S : \E c \in N : h[c] = x
  BY Zenon, <1>4 DEF Surjection
<1> HIDE DEF N
<1> QED
  BY <1>1, <1>5

\* The columns of a schema, each once, are a header that conforms.
LEMMA BareHeader ==
  ASSUME NEW r \in CreateRequests, r.malta
  PROVE  LET fields == r.schema.fields
             names  == {fields[k].name : k \in DOMAIN fields}
         IN  \A header \in [1..Cardinality(names) -> names] :
                 ~Repeats(header) => Conforms(<<header>>, fields, "strict")
<1> DEFINE F == r.schema.fields
           names == {F[k].name : k \in DOMAIN F}
           g == [k \in 1..Len(F) |-> F[k].name]
<1>1. DOMAIN F = 1..Len(F) /\ Len(F) \in Nat
  BY CreateRequestsAssumption, SeqFacts
<1>2. \A x \in names : TextCell(x)
  BY CreateRequestsAssumption
<1>3. IsFiniteSet(names)
  <2>1. IsFiniteSet(1..Len(F))
    BY <1>1, FS_Interval
  <2>2. g \in Surjection(1..Len(F), names)
    BY Zenon, <1>1 DEF Surjection
  <2> HIDE DEF g, F, names
  <2> QED
    BY <2>1, <2>2, FS_Surjection
<1>4. ASSUME NEW h \in [1..Cardinality(names) -> names], ~Repeats(h)
      PROVE  Conforms(<<h>>, F, "strict")
  <2>1. {h[c] : c \in DOMAIN h} = names
    <3> HIDE DEF names
    <3> QED
      BY Zenon, <1>3, <1>4, SetListed
  <2>2. IsText(h)
    <3> HIDE DEF names
    <3> QED
      BY Zenon, <1>2, <2>1 DEF IsText
  <2>3. <<h>> # <<>> /\ <<h>>[1] = h /\ DOMAIN <<h>> \ {1} = {}
    OBVIOUS
  <2> QED
    BY Zenon, <2>1, <2>2, <2>3 DEF Conforms
<1> QED
  BY Zenon, <1>4

\* For any requests and limits: create_malta_pool and create_iob_erp_pool go on
\* just with what is acceptable as a whole, and with hashes that decode_hash
\* reads back.
THEOREM CreationsUsableHolds == RequestSpec => []CreationsUsable
<1>1. CreateInv /\ [RequestNext]_requestVars => CreateInv'
  <2>1. ASSUME CreateInv, UNCHANGED requestVars PROVE CreateInv'
    BY Zenon, <2>1 DEF CreateInv, RequestType, requestVars
  <2> QED
    BY <2>1, BeginRequestInv, ResolveDrtInv, FinishRequestInv DEF RequestNext
<1>2. CreateInv => CreationsUsable
  <2> SUFFICES ASSUME CreateInv PROVE CreationsUsable
    OBVIOUS
  <2>1. request \in CreateRequests /\ (phase = "refused" => ~Acceptable(request))
    BY DEF CreateInv, RequestType
  <2>2. ASSUME phase = "accepted"
        PROVE  /\ Acceptable(request) /\ Len(resolved) = Len(request.drts)
               /\ \A k \in DOMAIN resolved :
                     /\ resolved[k].name = request.drts[k].name
                     /\ decode_hash(hex_encode(resolved[k].hash)) = resolved[k].hash
                     /\ decode_hash(request.drts[k].hash) \in {BadHash, resolved[k].hash}
    <3>1. /\ Len(resolved) = Len(request.drts) /\ Begins(request) /\ Ends(request)
          /\ \A k \in 1..Len(resolved) : resolved[k] = Kept(request.drts[k]) /\ DrtGood(request, k)
      BY <2>2 DEF CreateInv
    <3>2. Acceptable(request)
      BY Zenon, <2>1, <3>1, AcceptableParts
    <3>3. DOMAIN resolved = 1..Len(resolved) /\ DOMAIN request.drts = 1..Len(request.drts)
      BY <2>1, SeqFacts, CreateRequestsAssumption DEF CreateInv, RequestType
    <3>4. ASSUME NEW k \in DOMAIN resolved
          PROVE  /\ resolved[k].name = request.drts[k].name
                 /\ decode_hash(hex_encode(resolved[k].hash)) = resolved[k].hash
                 /\ decode_hash(request.drts[k].hash) \in {BadHash, resolved[k].hash}
      <4> DEFINE d == request.drts[k]
      <4>1. resolved[k].name = d.name /\ resolved[k].hash = parse_code_hash(d.hash) /\ CodeOk(d)
        BY Zenon, <3>1, <3>3, KeptParts DEF DrtGood
      <4>2. IsSeq(d.hash)
        BY Zenon, <2>1, <3>1, <3>3, CreateRequestsAssumption
      <4>3. parse_code_hash(d.hash) # BadHash
        BY Zenon, <4>1, ZerosHash DEF CodeOk
      <4>4. resolved[k].hash \in Hashes /\ decode_hash(d.hash) \in {BadHash, resolved[k].hash}
        BY Zenon, <4>1, <4>2, <4>3, ParsedHash
      <4> QED
        BY Zenon, <4>1, <4>4, HashRoundTrip
    <3> QED
      BY <3>1, <3>2, <3>4
  <2>3. ASSUME request.malta
        PROVE  LET fields == request.schema.fields
                   names  == {fields[k].name : k \in DOMAIN fields}
               IN  \A header \in [1..Cardinality(names) -> names] :
                       ~Repeats(header) => Conforms(<<header>>, fields, "strict")
    BY Zenon, <2>1, <2>3, BareHeader
  <2> QED
    BY Zenon, <2>1, <2>2, <2>3 DEF CreationsUsable
<1> QED
  BY <1>1, <1>2, RequestInitInv, PTL DEF RequestSpec
=============================================================================
