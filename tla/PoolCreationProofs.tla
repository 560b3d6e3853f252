------------------------- MODULE PoolCreationProofs -------------------------
(***************************************************************************)
(* Proofs about PoolCreation with its AuditTrail, for any creations and    *)
(* uploads and any number of restarts: metadata and audit trail are never  *)
(* ahead of what they report, a creation that was answered is whole, and   *)
(* the audit file can be verified.                                         *)
(*                                                                         *)
(* KeyOK says why the file stays verifiable: as long as no key was lost,   *)
(* whatever is tagged is tagged with the key in the key file, and a new    *)
(* key is made only while nothing is.  RequestOK ties the label of a       *)
(* request to the chain, to its files and to its audit event, and PoolOK   *)
(* a schema file to the writes of it that are under way.                   *)
(*                                                                         *)
(* At the end, proofs about Wallets: its indexes name wallets that are     *)
(* there and do not change hands, for any number of users and of calls.    *)
(***************************************************************************)
EXTENDS PoolCreation, Wallets, TLAPS

\* The state of AuditTrail.
TagsTyped ==
    \A e \in Events : stage[e] \in {"append", "mirror", "logged"} \/ e \in pending =>
        tag[e] \in Keys

KeyOK ==
    /\ keying # "idle" => key = NoKey
    /\ ~rekeyed =>
        /\ key # NoKey => key = keyFile
        /\ keying # "idle" => keyFile \notin Keys
        /\ \A e \in Events : tag[e] \in Keys => tag[e] = keyFile
        /\ \A i \in DOMAIN log : log[i].key = keyFile

Begun(e) == e \in redb \cup pending \/ \E i \in DOMAIN log : log[i].event = e

AuditOK ==
    /\ AuditTypeOK
    /\ TagsTyped
    /\ KeyOK
    /\ \A e \in Events : Begun(e) => stage[e] # "none"

\* The state of PoolCreation.
PoolTypeOK ==
    /\ malta \subseteq Creations
    /\ tx \in [Creations -> {"none", "sent", "executed", "failed", "dropped"}]
    /\ metas \subseteq Creations
    /\ mirror \subseteq Creations
    /\ schema \in [Creations -> Requests \cup {NoSchema, TornSchema}]
    /\ pc \in [Requests -> Labels]
    /\ late \in [Creations -> BOOLEAN]
    /\ spoilt \subseteq Creations

NamesSchema(r) == r \in malta \cup Uploads

RequestOK(r) ==
    /\ r \in Uploads => pc[r] \in Ended \cup {"start", "schema", "writing", "audit"}
    /\ r \in Creations =>
        /\ pc[r] \in {"events", "persist"} => tx[r] = "executed"
        /\ r \in metas =>
            /\ tx[r] = "executed"
            /\ pc[r] \in {"mirror", "schema", "writing", "audit", "ok", "internal", "lost"}
        /\ pc[r] \in {"mirror", "schema", "writing", "audit", "ok"} => r \in metas
    /\ pc[r] \in {"schema", "writing"} => PoolOf(r) \in metas \cap malta
    /\ pc[r] \in {"writing", "audit", "ok"} /\ NamesSchema(r) => schema[PoolOf(r)] # NoSchema
    /\ stage[r] # "none" =>
        /\ PoolOf(r) \in metas
        /\ pc[r] \in {"audit", "ok", "lost"}
        /\ NamesSchema(r) => schema[PoolOf(r)] # NoSchema

PoolOK(p) ==
    /\ schema[p] # NoSchema => p \in metas
    /\ schema[p] = TornSchema => Writers(p) # {} \/ p \in spoilt

IInv ==
    /\ AuditOK
    /\ PoolTypeOK
    /\ mirror \subseteq metas
    /\ \A r \in Requests : RequestOK(r)
    /\ \A p \in Creations : PoolOK(p)

-----------------------------------------------------------------------------
(* The audit trail.                                                        *)

\* Nothing is logged and there is no key at the start.
LEMMA AuditInitOK == AuditInit => AuditOK
<1> SUFFICES ASSUME AuditInit
             PROVE  AuditOK
  OBVIOUS
<1>1. log \in Seq(Chunks) /\ DOMAIN log = {}
  BY DEF AuditInit
<1>2. 1 \in Keys
  BY KeysAssumption DEF Keys
<1>3. AuditTypeOK
  BY Zenon, <1>1, <1>2 DEF AuditInit, AuditTypeOK, Stages
<1>4. TagsTyped
  BY DEF AuditInit, TagsTyped
<1>5. KeyOK
  BY <1>1, KeysAssumption DEF AuditInit, KeyOK, Keys
<1> QED
  BY <1>1, <1>3, <1>4, <1>5 DEF AuditInit, AuditOK, Begun

\* A key that is no number is none of the keys.
LEMMA KeyNames == NoKey \notin Keys /\ TornKey \notin Keys /\ NoKey # TornKey
BY KeysAssumption DEF Keys

\* Without a key in the file nothing is tagged and nothing is logged.
LEMMA NothingTagged ==
    ASSUME AuditOK, ~rekeyed, keyFile \notin Keys
    PROVE  /\ \A e \in Events : tag[e] \notin Keys
           /\ DOMAIN log = {}
<1>1. \A e \in Events : tag[e] \notin Keys
  BY Zenon DEF AuditOK, KeyOK
<1>2. \A i \in DOMAIN log : log[i] \in Chunks
  BY DEF AuditOK, AuditTypeOK
<1>3. \A i \in DOMAIN log : log[i].key \in Keys
  BY <1>2 DEF Chunks
<1> QED
  BY Zenon, <1>1, <1>3 DEF AuditOK, KeyOK

\* Steps of audit_hmac_key.
LEMMA KeyStep ==
    ASSUME AuditOK, AuditHmacKey
    PROVE  AuditOK' /\ stage' = stage
<1> USE DEF AuditOK
<1>0. /\ AuditTypeOK /\ TagsTyped /\ KeyOK
      /\ UNCHANGED <<life, stage, tag, pending, log, redb>>
  BY DEF AuditHmacKey, KeyRead, KeyReadFails, KeyOpen, KeyWritten, KeyWriteFails
<1>1. TagsTyped' /\ \A e \in Events : Begun(e)' => stage'[e] # "none"
  BY <1>0 DEF TagsTyped, Begun
<1>2. CASE KeyRead
  BY <1>0, <1>1, <1>2, KeyNames DEF KeyRead, KeyWanted, AuditTypeOK, KeyOK
<1>3. CASE KeyReadFails
  BY <1>0, <1>1, <1>3 DEF KeyReadFails, KeyWanted, AuditTypeOK, KeyOK
<1>4. CASE KeyOpen
  <2>1. ~rekeyed => keyFile \notin Keys
    BY <1>0, <1>4 DEF KeyOpen, KeyOK
  <2>2. ~rekeyed => (\A e \in Events : tag[e] \notin Keys) /\ DOMAIN log = {}
    BY <2>1, NothingTagged
  <2> QED
    BY <1>0, <1>1, <1>4, <2>2, KeyNames DEF KeyOpen, AuditTypeOK, KeyOK
<1>5. CASE KeyWritten
  <2>1. ~rekeyed => keyFile \notin Keys
    BY <1>0, <1>5 DEF KeyWritten, KeyOK
  <2>2. ~rekeyed => (\A e \in Events : tag[e] \notin Keys) /\ DOMAIN log = {}
    BY <2>1, NothingTagged
  <2> QED
    BY <1>0, <1>1, <1>5, <2>2 DEF KeyWritten, AuditTypeOK, KeyOK
<1>6. CASE KeyWriteFails
  BY <1>0, <1>1, <1>6 DEF KeyWriteFails, AuditTypeOK, KeyOK
<1> QED
  BY <1>0, <1>2, <1>3, <1>4, <1>5, <1>6 DEF AuditHmacKey

\* A chunk of the event e at the end of the file keeps the key and the events.
LEMMA AppendKeeps ==
    ASSUME AuditOK, NEW e \in pending, NEW whole \in BOOLEAN,
           log' = Append(log, Chunk(e, whole)), UNCHANGED <<keyFile, rekeyed, tag>>
    PROVE  /\ log' \in Seq(Chunks)
           /\ ~rekeyed => \A i \in DOMAIN log' : log'[i].key = keyFile
           /\ \A f \in Events : (\E i \in DOMAIN log' : log'[i].event = f) => Begun(f)
<1> DEFINE c == Chunk(e, whole)
<1>0. /\ AuditTypeOK /\ log \in Seq(Chunks) /\ e \in Events /\ tag[e] \in Keys
      /\ ~rekeyed => tag[e] = keyFile
      /\ ~rekeyed => \A i \in DOMAIN log : log[i].key = keyFile
  BY DEF AuditOK, AuditTypeOK, TagsTyped, KeyOK
<1>1. c \in Chunks /\ c.event = e /\ c.key = tag[e]
  BY <1>0 DEF Chunk, Chunks
<1> HIDE DEF c
<1>2. log' = Append(log, c)
  BY DEF c
<1>3. /\ DOMAIN log = 1..Len(log) /\ Len(log) \in Nat
      /\ DOMAIN log' = 1..(Len(log) + 1) /\ log' \in Seq(Chunks)
      /\ \A i \in 1..Len(log) : log'[i] = log[i]
      /\ log'[Len(log) + 1] = c
  BY <1>0, <1>1, <1>2
<1>4. ASSUME NEW i \in DOMAIN log'
      PROVE  log'[i] = c \/ (i \in DOMAIN log /\ log'[i] = log[i])
  BY <1>3
<1> QED
  BY <1>0, <1>1, <1>3, <1>4 DEF Begun

\* Steps of log and of the blocking pool.
LEMMA LogStep ==
    ASSUME AuditOK, NEW e \in Events, LogEvent(e) \/ WriteLine(e)
    PROVE  AuditOK' /\ \A f \in Events : stage'[f] # "none" => stage[f] # "none"
<1> USE DEF keyVars
<1>0. /\ AuditTypeOK /\ TagsTyped /\ KeyOK
      /\ \A f \in Events : Begun(f) => stage[f] # "none"
  BY DEF AuditOK
<1>1. CASE Sign(e)
  <2>1. /\ stage[e] = "sign" /\ key \in Keys /\ stage' = [stage EXCEPT ![e] = "append"]
        /\ tag' = [tag EXCEPT ![e] = key]
        /\ UNCHANGED <<life, keyFile, key, keying, rekeyed, pending, log, redb>>
    BY <1>0, <1>1 DEF Sign, AuditTypeOK
  <2>2. AuditTypeOK'
    BY <1>0, <2>1 DEF AuditTypeOK, Stages
  <2>3. TagsTyped'
    BY <1>0, <2>1 DEF AuditTypeOK, TagsTyped
  <2>4. KeyOK'
    BY <1>0, <2>1, KeyNames DEF AuditTypeOK, KeyOK
  <2>5. \A f \in Events : (Begun(f)' => stage'[f] # "none")
                          /\ (stage'[f] # "none" => stage[f] # "none")
    BY <1>0, <2>1 DEF AuditTypeOK, Begun
  <2> QED
    BY <2>2, <2>3, <2>4, <2>5 DEF AuditOK
<1>2. CASE AppendLine(e) \/ Mirror(e)
  <2>1. /\ stage[e] \in {"append", "mirror"}
        /\ \E l \in {"mirror", "logged"} : stage' = [stage EXCEPT ![e] = l]
        /\ pending' \subseteq pending \cup {e} /\ redb' \subseteq redb \cup {e}
        /\ UNCHANGED <<life, keyFile, key, keying, rekeyed, tag, log>>
    BY <1>2 DEF AppendLine, Mirror
  <2>2. AuditTypeOK'
    BY <1>0, <2>1 DEF AuditTypeOK, Stages
  <2>3. TagsTyped' /\ KeyOK'
    BY <1>0, <2>1 DEF AuditTypeOK, TagsTyped, KeyOK
  <2>4. \A f \in Events : (Begun(f)' => stage'[f] # "none")
                          /\ (stage'[f] # "none" => stage[f] # "none")
    BY <1>0, <2>1 DEF AuditTypeOK, Begun
  <2> QED
    BY <2>2, <2>3, <2>4 DEF AuditOK
<1>3. CASE WriteLine(e)
  <2>1. /\ e \in pending /\ pending' = pending \ {e}
        /\ UNCHANGED <<life, keyFile, key, keying, rekeyed, stage, tag, redb>>
    BY <1>3 DEF WriteLine
  <2>2. PICK whole \in BOOLEAN : log' = Append(log, Chunk(e, whole))
    BY <1>3 DEF WriteLine
  <2>3. /\ log' \in Seq(Chunks)
        /\ ~rekeyed => \A i \in DOMAIN log' : log'[i].key = keyFile
        /\ \A f \in Events : (\E i \in DOMAIN log' : log'[i].event = f) => Begun(f)
    BY <2>1, <2>2, AppendKeeps
  <2>4. AuditTypeOK' /\ TagsTyped' /\ KeyOK'
    BY <1>0, <2>1, <2>3 DEF AuditTypeOK, TagsTyped, KeyOK
  <2>5. \A f \in Events : Begun(f)' => stage'[f] # "none"
    BY <1>0, <2>1, <2>3 DEF Begun
  <2> QED
    BY <2>1, <2>4, <2>5 DEF AuditOK
<1> QED
  BY <1>1, <1>2, <1>3 DEF LogEvent

\* The end of a process keeps the file verifiable.
LEMMA AuditRestartStep ==
    ASSUME AuditOK, AuditRestart
    PROVE  AuditOK' /\ \A f \in Events : stage'[f] # "none" => stage[f] # "none"
<1>0. /\ AuditTypeOK /\ TagsTyped /\ KeyOK
      /\ \A f \in Events : Begun(f) => stage[f] # "none"
  BY DEF AuditOK
<1>1. /\ life' = life + 1 /\ life < MaxLife /\ key' = NoKey /\ keying' = "idle"
      /\ stage' = [e \in Events |->
                     IF stage[e] \in {"sign", "append", "mirror"} THEN "lost" ELSE stage[e]]
      /\ pending' = {} /\ UNCHANGED <<keyFile, rekeyed, tag, redb>>
  BY DEF AuditRestart
<1>2. /\ log' \in Seq(Chunks)
      /\ ~rekeyed => \A i \in DOMAIN log' : log'[i].key = keyFile
      /\ \A f \in Events : (\E i \in DOMAIN log' : log'[i].event = f) => Begun(f)
  <2>1. CASE log' = log
    BY <1>0, <2>1 DEF AuditTypeOK, KeyOK, Begun
  <2>2. ASSUME NEW e \in pending, log' = Append(log, Chunk(e, FALSE))
        PROVE  /\ log' \in Seq(Chunks)
               /\ ~rekeyed => \A i \in DOMAIN log' : log'[i].key = keyFile
               /\ \A f \in Events : (\E i \in DOMAIN log' : log'[i].event = f) => Begun(f)
    BY Zenon, <1>1, <2>2, AppendKeeps
  <2> QED
    BY Zenon, <2>1, <2>2 DEF AuditRestart
<1>3. life' \in Keys
  BY <1>0, <1>1, KeysAssumption DEF AuditTypeOK, Keys
<1>4. AuditTypeOK'
  BY <1>0, <1>1, <1>2, <1>3 DEF AuditTypeOK, Stages
<1>5. TagsTyped' /\ KeyOK'
  BY <1>0, <1>1, <1>2 DEF AuditTypeOK, TagsTyped, KeyOK
<1>6. \A f \in Events : (Begun(f)' => stage'[f] # "none")
                        /\ (stage'[f] # "none" => stage[f] # "none")
  BY <1>0, <1>1, <1>2 DEF Begun
<1> QED
  BY <1>4, <1>5, <1>6 DEF AuditOK

\* A step that leaves the audit trail alone.
LEMMA AuditSame ==
    ASSUME AuditOK, UNCHANGED auditVars
    PROVE  AuditOK' /\ stage' = stage
<1>1. UNCHANGED <<life, keyFile, key, keying, rekeyed, stage, tag, pending, log, redb>>
  BY DEF auditVars, keyVars
<1>2. AuditTypeOK' /\ TagsTyped' /\ KeyOK'
  BY <1>1 DEF AuditOK, AuditTypeOK, TagsTyped, KeyOK
<1> QED
  BY <1>1, <1>2 DEF AuditOK, Begun

\* A handler calls log.
LEMMA StartLogKeeps ==
    ASSUME AuditOK, NEW e \in Events, StartLog(e),
           UNCHANGED <<keyVars, tag, pending, log, redb>>
    PROVE  AuditOK' /\ \A f \in Events \ {e} : stage'[f] = stage[f]
<1>1. /\ UNCHANGED <<life, keyFile, key, keying, rekeyed, tag, pending, log, redb>>
      /\ stage' = [stage EXCEPT ![e] = "sign"] /\ stage \in [Events -> Stages]
  BY DEF keyVars, StartLog, AuditOK, AuditTypeOK
<1>2. AuditTypeOK' /\ KeyOK'
  BY <1>1 DEF AuditOK, AuditTypeOK, KeyOK, Stages
<1>3. TagsTyped' /\ \A f \in Events : Begun(f)' => stage'[f] # "none"
  BY <1>1 DEF AuditOK, TagsTyped, Begun
<1> QED
  BY <1>1, <1>2, <1>3 DEF AuditOK

-----------------------------------------------------------------------------
(* The requests.                                                           *)

\* Every request is about a pool that some creation names.
LEMMA PoolOfType ==
    /\ \A r \in Requests : PoolOf(r) \in Creations /\ r \in Events
    /\ \A r \in Creations : r \in Requests /\ PoolOf(r) = r /\ r \notin Uploads
    /\ \A r \in Uploads : r \in Requests /\ r \notin Creations
    /\ NoSchema \notin Requests /\ TornSchema \notin Requests /\ NoSchema # TornSchema
BY RequestsAssumption, SchemaAssumption DEF PoolOf, Requests

\* What a step of the request r, or of the chain or the audit trail, leaves
\* true of the others: metadata is only added and by its creation, and a
\* schema file does not disappear.
LEMMA OthersKeep ==
    ASSUME IInv, NEW r, NEW q \in Requests \ {r},
           pc'[q] = pc[q], stage'[q] # "none" => stage[q] # "none",
           malta' = malta, metas \subseteq metas', metas' \subseteq metas \cup {r},
           q \in Creations => tx'[q] = tx[q],
           \A p \in Creations : schema[p] # NoSchema => schema'[p] # NoSchema
    PROVE  RequestOK(q)'
<1>1. RequestOK(q) /\ PoolOf(q) \in Creations
  BY PoolOfType DEF IInv
<1>2. schema[PoolOf(q)] # NoSchema => schema'[PoolOf(q)] # NoSchema
  BY <1>1
<1>3. PoolOf(q)' = PoolOf(q) /\ (NamesSchema(q)' <=> NamesSchema(q))
  BY DEF PoolOf, NamesSchema
<1>4. /\ q \in metas' <=> q \in metas
      /\ PoolOf(q) \in metas => PoolOf(q) \in metas'
  OBVIOUS
<1> QED
  BY <1>1, <1>2, <1>3, <1>4 DEF RequestOK

\* A pool keeps PoolOK when its schema file and its writers do.
LEMMA PoolKeeps ==
    ASSUME IInv, NEW p \in Creations, schema'[p] = schema[p],
           metas \subseteq metas', spoilt \subseteq spoilt', Writers(p) \subseteq Writers(p)'
    PROVE  PoolOK(p)'
BY DEF IInv, PoolOK

\* A step that only takes r from one label to another.
LEMMA MoveKeeps ==
    ASSUME IInv, NEW r \in Requests, NEW label \in Labels, pc[r] # "writing",
           Goto(r, label), UNCHANGED <<auditVars, malta, tx, metas, mirror, schema, late, spoilt>>,
           RequestOK(r)'
    PROVE  IInv'
<1>1. AuditOK' /\ stage' = stage
  BY AuditSame DEF IInv
<1>2. /\ pc \in [Requests -> Labels] /\ pc' \in [Requests -> Labels]
      /\ \A q \in Requests \ {r} : pc'[q] = pc[q]
  BY DEF IInv, PoolTypeOK, Goto
<1>3. PoolTypeOK' /\ mirror' \subseteq metas'
  BY <1>2 DEF IInv, PoolTypeOK
<1>4. \A q \in Requests : RequestOK(q)'
  BY Zenon, <1>1, <1>2, OthersKeep
<1>5. ASSUME NEW p \in Creations
      PROVE  PoolOK(p)'
  <2>1. Writers(p) \subseteq Writers(p)'
    BY <1>2 DEF Writers, PoolOf
  <2> QED
    BY <2>1, PoolKeeps
<1> QED
  BY <1>1, <1>3, <1>4, <1>5 DEF IInv

\* The steps of a request that change nothing but its label.
LEMMA MoveStep ==
    ASSUME IInv, NEW r \in Requests,
           \/ Reject(r) \/ Build(r) \/ SendFails(r) \/ Poll(r) \/ PollFails(r)
           \/ PersistFails(r) \/ UploadCheck(r) \/ Answer(r)
           \/ (r \in Creations /\ Node(r))
    PROVE  IInv'
<1> USE DEF Ended
<1>0. /\ RequestOK(r) /\ pc \in [Requests -> Labels] /\ AuditOK
      /\ tx \in [Creations -> {"none", "sent", "executed", "failed", "dropped"}]
  BY DEF IInv, PoolTypeOK
<1>1. /\ UNCHANGED <<auditVars, malta, tx, metas, mirror, schema, late, spoilt>>
      /\ pc[r] # "writing"
  BY DEF Reject, Build, SendFails, Poll, PollFails, PersistFails, UploadCheck, Answer,
         Node, PollHead, PollAnswers, ParseEvents
<1>2. stage' = stage
  BY <1>0, <1>1, AuditSame
<1>3. PICK label \in Labels :
          /\ Goto(r, label)
          /\ \/ label \in {"rejected", "unavailable", "internal"}
                /\ pc[r] \in {"start", "send", "poll", "persist", "body"}
             \/ label \in {"send", "head", "poll", "body"} /\ r \in Creations
                /\ pc[r] \in {"start", "poll", "head", "body"}
             \/ label = "events" /\ pc[r] = "body" /\ r \in Creations /\ tx[r] = "executed"
             \/ label = "persist" /\ pc[r] = "events" /\ r \in Creations
             \/ label = "schema" /\ pc[r] = "start" /\ r \in Uploads /\ Pool[r] \in metas \cap malta
             \/ label = "ok" /\ pc[r] = "audit"
  <2>1. pc[r] \in {"head", "poll", "send", "persist"} => r \in Creations
    BY Zenon, <1>0 DEF RequestOK, Requests
  <2>2. CASE Reject(r)
    BY <2>2 DEF Reject, Labels
  <2>3. CASE Build(r) \/ PollFails(r)
    BY <2>1, <2>3 DEF Build, PollFails, Labels
  <2>4. CASE SendFails(r) \/ PersistFails(r)
    BY Zenon, <2>4 DEF SendFails, PersistFails, Labels
  <2>5. CASE Poll(r) /\ late[r]
    BY <2>5 DEF Poll, Labels
  <2>6. CASE Poll(r) /\ ~late[r]
    BY <2>1, <2>6 DEF Poll, Labels
  <2>7. CASE UploadCheck(r)
    BY <2>7 DEF UploadCheck, Labels
  <2>8. CASE Answer(r)
    BY <2>8 DEF Answer, Labels
  <2>9. CASE r \in Creations /\ (PollHead(r) \/ ParseEvents(r))
    BY Zenon, <2>9 DEF PollHead, ParseEvents, Labels
  <2>10. CASE r \in Creations /\ PollAnswers(r)
    <3>1. CASE tx[r] = "executed"
      BY <2>10, <3>1 DEF PollAnswers, Labels
    <3>2. CASE tx[r] = "failed"
      BY <2>10, <3>2 DEF PollAnswers, Labels
    <3>3. CASE tx[r] # "executed" /\ tx[r] # "failed"
      BY <2>10, <3>3 DEF PollAnswers, Labels
    <3> QED
      BY <3>1, <3>2, <3>3
  <2> QED
    BY Zenon, <2>2, <2>3, <2>4, <2>5, <2>6, <2>7, <2>8, <2>9, <2>10 DEF Node
<1>4. pc'[r] = label
  BY Zenon, <1>0, <1>3 DEF Goto
<1>5. PoolOf(r)' = PoolOf(r) /\ (NamesSchema(r)' <=> NamesSchema(r))
  BY <1>1 DEF PoolOf, NamesSchema
<1>6. r \in Uploads => PoolOf(r) = Pool[r] /\ r \notin Creations
  BY Zenon, PoolOfType DEF PoolOf
<1>7. RequestOK(r)'
  BY Zenon, <1>0, <1>1, <1>2, <1>3, <1>4, <1>5, <1>6 DEF RequestOK
<1> QED
  BY <1>1, <1>3, <1>7, MoveKeeps

\* The transaction is sent, or its fate on chain is decided.
LEMMA ChainStep ==
    ASSUME IInv, NEW r \in Requests, Send(r) \/ (r \in Creations /\ ChainExecute(r))
    PROVE  IInv'
<1>0. /\ RequestOK(r) /\ pc \in [Requests -> Labels] /\ AuditOK
      /\ tx \in [Creations -> {"none", "sent", "executed", "failed", "dropped"}]
  BY DEF IInv, PoolTypeOK
<1>1. UNCHANGED <<auditVars, malta, metas, mirror, schema, late, spoilt>>
  BY DEF Send, ChainExecute
<1>2. AuditOK' /\ stage' = stage
  BY <1>0, <1>1, AuditSame
<1>3. /\ r \in Creations /\ r \notin Uploads
      /\ r \notin metas /\ pc[r] \notin {"events", "persist"}
  BY <1>0, PoolOfType DEF Send, ChainExecute, RequestOK, Ended, Requests
<1>4. /\ tx' \in [Creations -> {"none", "sent", "executed", "failed", "dropped"}]
      /\ \A q \in Creations \ {r} : tx'[q] = tx[q]
  BY <1>0 DEF Send, ChainExecute
<1>5. /\ pc' \in [Requests -> Labels]
      /\ \A q \in Requests \ {r} : pc'[q] = pc[q]
      /\ pc'[r] = pc[r] \/ (pc[r] = "send" /\ pc'[r] \in {"poll", "unavailable"})
  BY <1>0 DEF Send, ChainExecute, Goto, Labels, Ended
<1>6. PoolTypeOK' /\ mirror' \subseteq metas'
  BY <1>1, <1>4, <1>5 DEF IInv, PoolTypeOK
<1>7. RequestOK(r)'
  BY Zenon, <1>0, <1>1, <1>2, <1>3, <1>5 DEF RequestOK, NamesSchema, PoolOf
<1>8. ASSUME NEW q \in Requests \ {r}
      PROVE  RequestOK(q)'
  <2>1. pc'[q] = pc[q] /\ (q \in Creations => tx'[q] = tx[q])
    BY <1>4, <1>5
  <2> QED
    BY <1>1, <1>2, <2>1, OthersKeep
<1>9. ASSUME NEW p \in Creations
      PROVE  PoolOK(p)'
  <2>1. Writers(p) \subseteq Writers(p)'
    BY <1>5 DEF Writers, PoolOf
  <2> QED
    BY <1>1, <2>1, PoolKeeps
<1> QED
  BY <1>2, <1>6, <1>7, <1>8, <1>9 DEF IInv

\* A poll becomes late.
LEMMA ElapseStep ==
    ASSUME IInv, NEW r \in Creations, Elapse(r)
    PROVE  IInv'
<1>1. UNCHANGED <<auditVars, malta, tx, metas, mirror, schema, pc, spoilt>>
  BY DEF Elapse
<1>2. AuditOK' /\ stage' = stage
  BY <1>1, AuditSame DEF IInv
<1>3. PoolTypeOK' /\ mirror' \subseteq metas'
  BY Zenon DEF Elapse, IInv, PoolTypeOK
<1>4. \A q \in Requests : RequestOK(q)'
  BY Zenon, <1>1, <1>2 DEF IInv, RequestOK, NamesSchema, PoolOf
<1>5. \A p \in Creations : PoolOK(p)'
  BY <1>1 DEF IInv, PoolOK, Writers, PoolOf
<1> QED
  BY <1>2, <1>3, <1>4, <1>5 DEF IInv

\* persist_pool_metadata: the file, then the mirror.
LEMMA PersistStep ==
    ASSUME IInv, NEW r \in Requests, Persist(r) \/ PersistMirror(r)
    PROVE  IInv'
<1>0. /\ RequestOK(r) /\ pc \in [Requests -> Labels] /\ AuditOK /\ PoolTypeOK
      /\ mirror \subseteq metas /\ r \in Events
  BY PoolOfType DEF IInv, PoolTypeOK
<1>1. UNCHANGED <<malta, tx, schema, late, spoilt>>
  BY Zenon DEF Persist, PersistMirror
<1>2. r \in Creations /\ r \notin Uploads /\ PoolOf(r) = r
  BY Zenon, <1>0, PoolOfType DEF Persist, PersistMirror, RequestOK, Ended, Requests
<1>3. /\ metas \subseteq metas' /\ metas' \subseteq metas \cup {r} /\ r \in metas'
      /\ mirror' \subseteq mirror \cup {r} /\ tx[r] = "executed"
      /\ pc[r] \in {"persist", "mirror"}
  BY <1>0, <1>2 DEF Persist, PersistMirror, RequestOK
<1>4. /\ pc' \in [Requests -> Labels]
      /\ \A q \in Requests \ {r} : pc'[q] = pc[q]
      /\ \/ pc'[r] = "mirror" /\ UNCHANGED auditVars
         \/ pc'[r] = "schema" /\ r \in malta /\ UNCHANGED auditVars
         \/ /\ pc'[r] = "audit" /\ r \notin malta /\ StartLog(r)
            /\ UNCHANGED <<keyVars, tag, pending, log, redb>>
  <2>1. CASE Persist(r)
    BY <1>0, <2>1 DEF Persist, Goto, Labels
  <2>2. CASE PersistMirror(r) /\ r \in malta
    BY <1>0, <2>2 DEF PersistMirror, Goto, Labels, auditVars
  <2>3. CASE PersistMirror(r) /\ r \notin malta
    BY <1>0, <2>3 DEF PersistMirror, Goto, Labels
  <2> QED
    BY <2>1, <2>2, <2>3
<1>5. /\ AuditOK' /\ \A f \in Events \ {r} : stage'[f] = stage[f]
      /\ pc'[r] = "audit" \/ stage'[r] = stage[r]
  BY Zenon, <1>0, <1>4, AuditSame, StartLogKeeps
<1>6. PoolTypeOK' /\ mirror' \subseteq metas'
  BY Zenon, <1>0, <1>1, <1>2, <1>3, <1>4 DEF PoolTypeOK
<1>7. RequestOK(r)'
  <2>1. stage[r] = "none"
    BY <1>0, <1>3 DEF RequestOK
  <2>2. PoolOf(r)' = r /\ (NamesSchema(r)' <=> r \in malta)
    BY Zenon, <1>1, <1>2 DEF PoolOf, NamesSchema
  <2> QED
    BY <1>1, <1>2, <1>3, <1>4, <1>5, <2>1, <2>2 DEF RequestOK
<1>8. ASSUME NEW q \in Requests \ {r}
      PROVE  RequestOK(q)'
  <2>1. pc'[q] = pc[q] /\ stage'[q] = stage[q]
    BY <1>4, <1>5, PoolOfType
  <2> QED
    BY <1>1, <1>3, <2>1, OthersKeep
<1>9. ASSUME NEW p \in Creations
      PROVE  PoolOK(p)'
  <2>1. Writers(p) \subseteq Writers(p)'
    BY Zenon, <1>3, <1>4 DEF Writers, PoolOf
  <2> QED
    BY Zenon, <1>1, <1>3, <2>1, PoolKeeps
<1> QED
  BY <1>5, <1>6, <1>7, <1>8, <1>9 DEF IInv

\* save_pool_schema: opened, written or failed.
LEMMA SchemaStep ==
    ASSUME IInv, NEW r \in Requests, SchemaOpen(r) \/ SchemaWritten(r) \/ SchemaFails(r)
    PROVE  IInv'
<1> DEFINE p == PoolOf(r)
<1>0. /\ RequestOK(r) /\ pc \in [Requests -> Labels] /\ AuditOK /\ PoolTypeOK
      /\ mirror \subseteq metas /\ r \in Events /\ p \in Creations
      /\ NoSchema \notin Requests /\ TornSchema \notin Requests /\ NoSchema # TornSchema
  BY PoolOfType DEF IInv, PoolTypeOK
<1>1. UNCHANGED <<malta, tx, metas, mirror, late>> /\ pc[r] \in {"schema", "writing"}
  BY DEF SchemaOpen, SchemaWritten, SchemaFails
<1>2. p \in metas \cap malta /\ stage[r] = "none" /\ (pc[r] = "writing" => schema[p] # NoSchema)
  <2>1. p \in metas \cap malta /\ stage[r] = "none"
    BY <1>0, <1>1 DEF RequestOK
  <2>2. NamesSchema(r)
    BY <2>1 DEF NamesSchema, PoolOf, Requests
  <2> QED
    BY <1>0, <2>1, <2>2 DEF RequestOK
<1>3. /\ pc' \in [Requests -> Labels]
      /\ \A q \in Requests \ {r} : pc'[q] = pc[q]
      /\ pc'[r] \in {"writing", "audit", "internal"}
  BY <1>0 DEF SchemaOpen, SchemaWritten, SchemaFails, Goto, Labels, Ended
<1>4. /\ schema' \in [Creations -> Requests \cup {NoSchema, TornSchema}]
      /\ schema'[p] # NoSchema /\ \A q \in Creations \ {p} : schema'[q] = schema[q]
      /\ schema'[p] = TornSchema => pc'[r] = "writing" \/ p \in spoilt'
  <2>1. schema \in [Creations -> Requests \cup {NoSchema, TornSchema}]
    BY <1>0 DEF PoolTypeOK
  <2>2. CASE SchemaOpen(r)
    BY <1>0, <2>1, <2>2 DEF SchemaOpen, Goto
  <2>3. CASE SchemaWritten(r)
    BY <1>0, <2>1, <2>3 DEF SchemaWritten
  <2>4. CASE SchemaFails(r)
    BY Zenon, <1>0, <1>2, <2>1, <2>4 DEF SchemaFails
  <2> QED
    BY <2>2, <2>3, <2>4
<1>5. /\ spoilt' \subseteq Creations
      /\ \A q \in Creations \ {p} : q \in spoilt => q \in spoilt'
  BY Zenon, <1>0 DEF SchemaOpen, SchemaWritten, SchemaFails, PoolTypeOK
<1>6. \/ pc'[r] \in {"writing", "internal"} /\ UNCHANGED auditVars
      \/ /\ pc'[r] = "audit" /\ StartLog(r)
         /\ UNCHANGED <<keyVars, tag, pending, log, redb>>
  BY Zenon, <1>0 DEF SchemaOpen, SchemaWritten, SchemaFails, Goto
<1>7. /\ AuditOK' /\ \A f \in Events \ {r} : stage'[f] = stage[f]
      /\ pc'[r] = "audit" \/ stage'[r] = stage[r]
  BY Zenon, <1>0, <1>6, AuditSame, StartLogKeeps
<1>8. PoolTypeOK' /\ mirror' \subseteq metas'
  BY Zenon, <1>0, <1>1, <1>3, <1>4, <1>5 DEF PoolTypeOK
<1>9. RequestOK(r)'
  <2>1. PoolOf(r)' = p /\ (r \in Creations => p = r)
    BY Zenon DEF PoolOf
  <2> HIDE DEF p
  <2>2. r \in metas /\ r \in Creations => tx[r] = "executed"
    BY Zenon, <1>0 DEF RequestOK
  <2> QED
    BY <1>1, <1>2, <1>3, <1>4, <1>7, <2>1, <2>2 DEF RequestOK, Ended
<1>10. ASSUME NEW q \in Requests \ {r}
       PROVE  RequestOK(q)'
  <2>1. pc'[q] = pc[q] /\ stage'[q] = stage[q]
    BY Zenon, <1>3, <1>7, PoolOfType
  <2>2. \A o \in Creations : schema[o] # NoSchema => schema'[o] # NoSchema
    BY Zenon, <1>4
  <2> QED
    BY Zenon, <1>1, <2>1, <2>2, OthersKeep
<1>11. ASSUME NEW o \in Creations
       PROVE  PoolOK(o)'
  <2>1. CASE o = p
    <3>1. pc'[r] = "writing" => r \in Writers(p)'
      BY Zenon DEF Writers, PoolOf
    <3> QED
      BY Zenon, <1>1, <1>2, <1>4, <2>1, <3>1 DEF PoolOK
  <2>2. CASE o # p
    <3>1. Writers(o) \subseteq Writers(o)'
      BY <1>3, <2>2 DEF Writers, PoolOf
    <3>2. PoolOK(o)
      BY Zenon DEF IInv
    <3> QED
      BY Zenon, <1>1, <1>4, <1>5, <2>2, <3>1, <3>2 DEF PoolOK
  <2> QED
    BY Zenon, <2>1, <2>2
<1> QED
  BY <1>7, <1>8, <1>9, <1>10, <1>11 DEF IInv

\* A step of the audit trail alone.
LEMMA LogKeeps ==
    ASSUME IInv, Log
    PROVE  IInv'
<1>1. UNCHANGED <<malta, tx, metas, mirror, schema, pc, late, spoilt>>
  BY DEF Log, poolVars
<1>2. AuditOK' /\ \A f \in Events : stage'[f] # "none" => stage[f] # "none"
  BY KeyStep, LogStep DEF IInv, Log, AuditSteps
<1>3. PoolTypeOK' /\ mirror' \subseteq metas'
  BY Zenon, <1>1 DEF IInv, PoolTypeOK
<1>4. \A q \in Requests : RequestOK(q)'
  <2> SUFFICES ASSUME NEW q \in Requests
               PROVE  RequestOK(q)'
    BY Zenon
  <2>1. RequestOK(q) /\ (stage'[q] # "none" => stage[q] # "none")
    BY <1>2, PoolOfType DEF IInv
  <2> QED
    BY <1>1, <2>1 DEF RequestOK, NamesSchema, PoolOf
<1>5. \A p \in Creations : PoolOK(p)'
  BY <1>1 DEF IInv, PoolOK, Writers, PoolOf
<1> QED
  BY <1>2, <1>3, <1>4, <1>5 DEF IInv

\* The process ends: requests under way are lost, and the schema files they
\* were writing may be spoilt.
LEMMA RestartKeeps ==
    ASSUME IInv, Restart
    PROVE  IInv'
<1>1. UNCHANGED <<malta, tx, metas, mirror, schema, late>>
  BY DEF Restart
<1>2. AuditOK' /\ \A f \in Events : stage'[f] # "none" => stage[f] # "none"
  BY AuditRestartStep DEF IInv, Restart
<1>3. /\ pc' \in [Requests -> Labels]
      /\ \A q \in Requests :
            \/ pc'[q] = pc[q] /\ pc[q] \in Ended \cup {"start"}
            \/ pc'[q] = "lost" /\ pc[q] \notin Ended \cup {"start"}
  BY DEF IInv, PoolTypeOK, Restart, Labels, Ended
<1>4. /\ spoilt \subseteq spoilt' /\ spoilt' \subseteq Creations
      /\ \A p \in Creations : Writers(p) # {} => p \in spoilt'
  BY DEF IInv, PoolTypeOK, Restart
<1>5. PoolTypeOK' /\ mirror' \subseteq metas'
  BY <1>1, <1>3, <1>4 DEF IInv, PoolTypeOK
<1>6. ASSUME NEW q \in Requests
      PROVE  RequestOK(q)'
  <2>1. RequestOK(q) /\ (stage'[q] # "none" => stage[q] # "none")
    BY <1>2, PoolOfType DEF IInv
  <2>2. PoolOf(q)' = PoolOf(q) /\ (NamesSchema(q)' <=> NamesSchema(q))
    BY Zenon, <1>1 DEF NamesSchema, PoolOf
  <2>3. CASE pc'[q] = pc[q]
    BY Zenon, <1>1, <2>1, <2>2, <2>3 DEF RequestOK
  <2>4. CASE pc'[q] = "lost" /\ pc[q] \notin Ended \cup {"start"}
    BY Zenon, <1>1, <2>1, <2>2, <2>4 DEF RequestOK, Ended
  <2> QED
    BY <1>3, <2>3, <2>4
<1>7. \A p \in Creations : PoolOK(p)'
  BY <1>1, <1>4 DEF IInv, PoolOK
<1> QED
  BY <1>2, <1>5, <1>6, <1>7 DEF IInv

-----------------------------------------------------------------------------
(* The theorems.                                                           *)

\* The invariant holds at the start.
LEMMA InitIInv == Init => IInv
<1> SUFFICES ASSUME Init
             PROVE  IInv
  OBVIOUS
<1>1. AuditOK /\ \A r \in Requests : stage[r] = "none"
  BY AuditInitOK, PoolOfType DEF Init, AuditInit
<1>2. PoolTypeOK /\ mirror \subseteq metas
  BY DEF Init, PoolTypeOK, Labels
<1>3. \A r \in Requests : RequestOK(r)
  BY <1>1 DEF Init, RequestOK
<1>4. \A p \in Creations : PoolOK(p)
  BY PoolOfType DEF Init, PoolOK
<1> QED
  BY <1>1, <1>2, <1>3, <1>4 DEF IInv

\* Every step keeps the invariant.
LEMMA NextIInv == IInv /\ [Next]_vars => IInv'
<1> SUFFICES ASSUME IInv, [Next]_vars
             PROVE  IInv'
  OBVIOUS
<1>1. ASSUME NEW r \in Requests, Serve(r)
      PROVE  IInv'
  BY <1>1, MoveStep, ChainStep, PersistStep, SchemaStep DEF Serve
<1>2. ASSUME NEW r \in Creations, Node(r) \/ Elapse(r) \/ ChainExecute(r)
      PROVE  IInv'
  BY <1>2, PoolOfType, MoveStep, ChainStep, ElapseStep
<1>3. CASE UNCHANGED vars
  <2>1. UNCHANGED auditVars /\ UNCHANGED <<malta, tx, metas, mirror, schema, pc, late, spoilt>>
    BY <1>3 DEF vars, poolVars
  <2>2. AuditOK' /\ stage' = stage
    BY <2>1, AuditSame DEF IInv
  <2>3. PoolTypeOK' /\ mirror' \subseteq metas'
    BY Zenon, <2>1 DEF IInv, PoolTypeOK
  <2>4. \A q \in Requests : RequestOK(q)'
    BY <2>1, <2>2 DEF IInv, RequestOK, NamesSchema, PoolOf
  <2>5. \A p \in Creations : PoolOK(p)'
    BY <2>1 DEF IInv, PoolOK, Writers, PoolOf
  <2> QED
    BY <2>2, <2>3, <2>4, <2>5 DEF IInv
<1> QED
  BY <1>1, <1>2, <1>3, LogKeeps, RestartKeeps DEF Next

\* The invariant holds throughout.
LEMMA Inductive == Spec => []IInv
BY InitIInv, NextIInv, PTL DEF Spec

\* Every variable of pool creation and audit trail keeps its type.
THEOREM TypeCorrect == Spec => []TypeOK
<1>1. IInv => TypeOK
  BY DEF IInv, AuditOK, PoolTypeOK, TypeOK
<1> QED
  BY <1>1, Inductive, PTL

\* Metadata, mirror and schema of a pool are only on disk once its creation
\* is executed on chain (create_malta_pool, create_iob_erp_pool and
\* upload_schema), whatever the poll for the confirmation reported.
THEOREM MetaIsOnChainHolds == Spec => []MetaIsOnChain
<1>1. IInv => MetaIsOnChain
  BY PoolOfType DEF IInv, PoolTypeOK, RequestOK, PoolOK, MetaIsOnChain
<1> QED
  BY <1>1, Inductive, PTL

\* A pool whose creation answered 201 reads as what it is, and a Malta pool
\* has its schema unless a write of the file is under way or was cut short.
THEOREM CreatedIsWholeHolds == Spec => []CreatedIsWhole
<1>1. IInv => CreatedIsWhole
  <2> SUFFICES ASSUME IInv, NEW p \in Creations, pc[p] = "ok"
               PROVE  /\ PoolView(p) = IF p \in malta THEN "malta" ELSE "iob_erp"
                      /\ p \in malta => SchemaFound(p) \/ Writers(p) # {} \/ p \in spoilt
    BY DEF CreatedIsWhole
  <2>1. RequestOK(p) /\ PoolOK(p) /\ PoolOf(p) = p
    BY PoolOfType DEF IInv
  <2>2. p \in metas /\ tx[p] = "executed"
    BY Zenon, <2>1 DEF RequestOK
  <2>3. p \in malta => schema[p] # NoSchema
    BY <2>1 DEF RequestOK, NamesSchema
  <2>4. schema[p] \in Requests \cup {NoSchema, TornSchema}
    BY Zenon DEF IInv, PoolTypeOK
  <2> QED
    BY <2>1, <2>2, <2>3, <2>4 DEF PoolView, SchemaFound, PoolOK
<1> QED
  BY <1>1, Inductive, PTL

\* An event of a pool or of a schema is in a sink of the audit trail only
\* after the metadata, and the schema it names, were written.
THEOREM AuditNotAheadHolds == Spec => []AuditNotAhead
<1>1. IInv => AuditNotAhead
  <2> SUFFICES ASSUME IInv, NEW r \in Requests, Begun(r)
               PROVE  /\ PoolOf(r) \in metas
                      /\ r \in malta \cup Uploads =>
                             schema[PoolOf(r)] # NoSchema /\ pc[r] \in {"audit", "ok", "lost"}
    BY DEF AuditNotAhead, Begun
  <2>1. RequestOK(r) /\ stage[r] # "none"
    BY PoolOfType DEF IInv, AuditOK
  <2> QED
    BY <2>1 DEF RequestOK, NamesSchema
<1> QED
  BY <1>1, Inductive, PTL

\* As long as no key file was lost to an error, the key of the process
\* verifies every line of the audit file that can be read, also when the
\* process ended while the key or a line was being written.
THEOREM LogVerifiableHolds == Spec => []LogVerifiable
<1>1. IInv => LogVerifiable
  <2> SUFFICES ASSUME IInv, key # NoKey, ~rekeyed
               PROVE  VerifiedEvents = {log[i].event : i \in {j \in DOMAIN log : Readable(j)}}
    BY DEF LogVerifiable
  <2>1. \A i \in DOMAIN log : log[i].key = key
    BY DEF IInv, AuditOK, KeyOK
  <2>2. {j \in DOMAIN log : Readable(j) /\ log[j].key = key} = {j \in DOMAIN log : Readable(j)}
    BY <2>1
  <2> QED
    BY Zenon, <2>2 DEF VerifiedEvents
<1> QED
  BY <1>1, Inductive, PTL

-----------------------------------------------------------------------------
(* The custodial wallets.                                                  *)

\* What create_wallet has written when it is at a label.
FilesFirst ==
    \A r \in Creates :
        /\ step[r] \in {"keypair", "address", "owner", "audit", "ok"} => status[r] # "NoFile"
        /\ step[r] \in {"address", "owner", "audit", "ok"} => r \in keypair

\* A deletion and a change past their first step have a wallet with a file.
TargetsThere ==
    \A r \in Deletes \cup Changes :
        step[r] \in {"save_deleted", "unregister", "save_status"} =>
            target[r] \in Wallets /\ status[target[r]] # "NoFile"

\* Only a deletion is ever at "unregister".
LabelsOfDeletes ==
    /\ \A r \in Creates : step[r] \notin {"save_deleted", "unregister", "save_status"}
    /\ \A r \in Changes : step[r] \notin {"unregister", "save_deleted", "owner"}
    /\ \A r \in Deletes : step[r] \notin {"owner", "address", "keypair", "save_status"}

WalletInv == WalletTypeOK /\ FilesFirst /\ TargetsThere /\ LabelsOfDeletes /\ IndexBacked

\* The induction starts: no wallet, no file and no index entry.
LEMMA WalletInvInit ==
  WalletInit => WalletInv
BY CallsAssumption DEF WalletInit, WalletInv, WalletTypeOK, FilesFirst, TargetsThere, LabelsOfDeletes, IndexBacked,
       Calls, Wallets, CallLabels, Terminal

\* A call that ends, or goes on with its audit event, writes nothing.
LEMMA EndKeeps ==
  ASSUME WalletInv, NEW r \in Calls, RejectCall(r) \/ StorageFails(r) \/ Audit(r)
  PROVE  WalletInv'
<1> USE DEF WalletInv
<1>1. PICK label \in {"rejected", "failed", "ok", "lost"} :
          StepTo(r, label) /\ (label = "ok" => step[r] = "audit")
  BY DEF RejectCall, StorageFails, Audit
<1>2. UNCHANGED <<status, keypair, addresses, walletOf, target, goal, unindexed>>
  BY DEF RejectCall, StorageFails, Audit
<1>3. step \in [Calls -> CallLabels] /\ label \in CallLabels
  BY DEF WalletTypeOK, CallLabels, Terminal
<1>4. step'[r] = label /\ \A q \in Calls \ {r} : step'[q] = step[q]
  BY <1>1, <1>3 DEF StepTo
<1>5. WalletTypeOK'
  BY <1>1, <1>2, <1>3 DEF WalletTypeOK, StepTo
<1>6. FilesFirst'
  BY <1>1, <1>2, <1>4 DEF FilesFirst, Calls
<1>7. TargetsThere'
  BY <1>1, <1>2, <1>4 DEF TargetsThere, Calls
<1>8. LabelsOfDeletes'
  BY <1>1, <1>4 DEF LabelsOfDeletes, Calls
<1>9. IndexBacked'
  BY <1>2 DEF IndexBacked
<1> QED
  BY <1>5, <1>6, <1>7, <1>8, <1>9

\* The steps of create_wallet.
LEMMA CreateKeeps ==
  ASSUME WalletInv, NEW r \in Creates, CreateWallet(r) PROVE WalletInv'
<1>1. r \in Calls /\ r \in Wallets /\ r \notin Deletes \cup Changes /\ By[r] \in Users /\ r # None
  BY CallsAssumption, ByAssumption DEF Calls, Wallets
<1> USE DEF WalletInv
<1>2. CASE RejectCall(r) \/ StorageFails(r) \/ Audit(r)
  BY <1>1, <1>2, EndKeeps
<1>3. CASE CreateMeta(r)
  <2>1. step' = [step EXCEPT ![r] = "keypair"] /\ step \in [Calls -> CallLabels]
    BY <1>3 DEF CreateMeta, StepTo, WalletTypeOK
  <2>2. step'[r] = "keypair" /\ \A q \in Calls \ {r} : step'[q] = step[q]
    BY <1>1, <2>1
  <2>3. WalletTypeOK'
    BY <1>1, <1>3, <2>1 DEF CreateMeta, WalletTypeOK, CallLabels, Terminal, Wallets
  <2>4. FilesFirst'
    BY <1>1, <1>3, <2>2 DEF CreateMeta, FilesFirst, WalletTypeOK, Calls, Wallets
  <2>5. TargetsThere'
    BY <1>1, <1>3, <2>2 DEF CreateMeta, TargetsThere, WalletTypeOK, Calls, Wallets
  <2>6. LabelsOfDeletes'
    BY <1>1, <2>2 DEF LabelsOfDeletes, Calls
  <2>7. IndexBacked'
    BY <1>1, <1>3 DEF CreateMeta, IndexBacked, WalletTypeOK, Wallets
  <2> QED
    BY <2>3, <2>4, <2>5, <2>6, <2>7
<1>4. CASE CreateKeypair(r)
  <2>1. step' = [step EXCEPT ![r] = "address"] /\ step \in [Calls -> CallLabels]
    BY <1>4 DEF CreateKeypair, StepTo, WalletTypeOK
  <2>2. step'[r] = "address" /\ \A q \in Calls \ {r} : step'[q] = step[q]
    BY <1>1, <2>1
  <2>3. WalletTypeOK'
    BY <1>1, <1>4, <2>1 DEF CreateKeypair, WalletTypeOK, CallLabels, Terminal, Wallets
  <2>4. FilesFirst'
    BY <1>1, <1>4, <2>2 DEF CreateKeypair, FilesFirst, WalletTypeOK, Calls, Wallets
  <2>5. TargetsThere'
    BY <1>1, <1>4, <2>2 DEF CreateKeypair, TargetsThere, WalletTypeOK, Calls, Wallets
  <2>6. LabelsOfDeletes'
    BY <1>1, <2>2 DEF LabelsOfDeletes, Calls
  <2>7. IndexBacked'
    BY <1>1, <1>4 DEF CreateKeypair, IndexBacked, WalletTypeOK, Wallets
  <2> QED
    BY <2>3, <2>4, <2>5, <2>6, <2>7
<1>5. CASE RegisterAddress(r)
  <2>1. step' = [step EXCEPT ![r] = "owner"] /\ step \in [Calls -> CallLabels]
    BY <1>5 DEF RegisterAddress, StepTo, WalletTypeOK
  <2>2. step'[r] = "owner" /\ \A q \in Calls \ {r} : step'[q] = step[q]
    BY <1>1, <2>1
  <2>3. WalletTypeOK'
    BY <1>1, <1>5, <2>1 DEF RegisterAddress, WalletTypeOK, CallLabels, Terminal, Wallets
  <2>4. FilesFirst'
    BY <1>1, <1>5, <2>2 DEF RegisterAddress, FilesFirst, WalletTypeOK, Calls, Wallets
  <2>5. TargetsThere'
    BY <1>1, <1>5, <2>2 DEF RegisterAddress, TargetsThere, WalletTypeOK, Calls, Wallets
  <2>6. LabelsOfDeletes'
    BY <1>1, <2>2 DEF LabelsOfDeletes, Calls
  <2>7. IndexBacked'
    BY <1>1, <1>5 DEF RegisterAddress, IndexBacked, WalletTypeOK, FilesFirst, Wallets
  <2> QED
    BY <2>3, <2>4, <2>5, <2>6, <2>7
<1>6. CASE RegisterOwner(r)
  <2>1. /\ status[r] # "NoFile" /\ r \in keypair
        /\ UNCHANGED <<status, keypair, addresses, target, goal>>
        /\ unindexed' \subseteq Wallets
    BY <1>1, <1>6 DEF RegisterOwner, FilesFirst, WalletTypeOK
  <2>2. PICK end \in {"audit", "rejected"} : StepTo(r, end)
    BY <1>6 DEF RegisterOwner
  <2>3. UNCHANGED walletOf \/ walletOf' = [walletOf EXCEPT ![By[r]] = r]
    BY <1>6 DEF RegisterOwner
  <2>4. step \in [Calls -> CallLabels] /\ end \in CallLabels
    BY DEF WalletTypeOK, CallLabels, Terminal
  <2>5. step'[r] = end /\ \A q \in Calls \ {r} : step'[q] = step[q]
    BY <1>1, <2>2, <2>4 DEF StepTo
  <2>6. WalletTypeOK'
    BY <1>1, <2>1, <2>2, <2>3, <2>4 DEF WalletTypeOK, StepTo
  <2>7. FilesFirst'
    BY <1>1, <2>1, <2>5 DEF FilesFirst, Calls
  <2>8. TargetsThere' /\ LabelsOfDeletes'
    BY <1>1, <2>1, <2>5 DEF TargetsThere, LabelsOfDeletes, Calls
  <2>9. IndexBacked'
    <3>1. \A u \in Users : walletOf'[u] = walletOf[u] \/ (u = By[r] /\ walletOf'[u] = r)
      BY <1>1, <2>3 DEF WalletTypeOK
    <3>2. status' = status /\ keypair' = keypair /\ addresses' = addresses
      BY Zenon, <2>1
    <3> QED
      BY <2>1, <3>1, <3>2 DEF IndexBacked
  <2> QED
    BY <2>6, <2>7, <2>8, <2>9
<1> QED
  BY <1>2, <1>3, <1>4, <1>5, <1>6 DEF CreateWallet

\* The steps of delete_wallet.
LEMMA DeleteKeeps ==
  ASSUME WalletInv, NEW r \in Deletes, DeleteWallet(r) PROVE WalletInv'
<1>1. r \in Calls /\ r \notin Creates \cup Changes /\ By[r] \in Users
  BY CallsAssumption, ByAssumption DEF Calls
<1> USE DEF WalletInv
<1>2. CASE RejectCall(r) \/ StorageFails(r) \/ Audit(r)
  BY <1>1, <1>2, EndKeeps
<1>3. CASE DeleteLoad(r)
  <2>1. step' = [step EXCEPT ![r] = "save_deleted"] /\ step \in [Calls -> CallLabels]
    BY <1>3 DEF DeleteLoad, StepTo, WalletTypeOK
  <2>2. step'[r] = "save_deleted" /\ \A q \in Calls \ {r} : step'[q] = step[q]
    BY <1>1, <2>1
  <2>3. WalletTypeOK'
    BY <1>1, <1>3, <2>1 DEF DeleteLoad, WalletTypeOK, CallLabels, Terminal, Wallets
  <2>4. FilesFirst'
    BY <1>1, <1>3, <2>2 DEF DeleteLoad, FilesFirst, WalletTypeOK, Calls, Wallets
  <2>5. TargetsThere'
    BY <1>1, <1>3, <2>2 DEF DeleteLoad, TargetsThere, WalletTypeOK, Calls, Wallets
  <2>6. LabelsOfDeletes'
    BY <1>1, <2>2 DEF LabelsOfDeletes, Calls
  <2>7. IndexBacked'
    BY <1>1, <1>3 DEF DeleteLoad, IndexBacked, WalletTypeOK
  <2> QED
    BY <2>3, <2>4, <2>5, <2>6, <2>7
<1>4. CASE DeleteSave(r)
  <2>1. step' = [step EXCEPT ![r] = "unregister"] /\ step \in [Calls -> CallLabels]
    BY <1>4 DEF DeleteSave, StepTo, WalletTypeOK
  <2>2. step'[r] = "unregister" /\ \A q \in Calls \ {r} : step'[q] = step[q]
    BY <1>1, <2>1
  <2>3. WalletTypeOK'
    BY <1>1, <1>4, <2>1 DEF DeleteSave, WalletTypeOK, CallLabels, Terminal, Wallets
  <2>4. FilesFirst'
    BY <1>1, <1>4, <2>2 DEF DeleteSave, FilesFirst, WalletTypeOK, Calls, Wallets
  <2>5. TargetsThere'
    BY <1>1, <1>4, <2>2 DEF DeleteSave, TargetsThere, WalletTypeOK, Calls, Wallets
  <2>6. LabelsOfDeletes'
    BY <1>1, <2>2 DEF LabelsOfDeletes, Calls
  <2>7. IndexBacked'
    BY <1>1, <1>4 DEF DeleteSave, IndexBacked, WalletTypeOK
  <2> QED
    BY <2>3, <2>4, <2>5, <2>6, <2>7
<1>5. CASE Unregister(r)
  <2>1. step' = [step EXCEPT ![r] = "audit"] /\ step \in [Calls -> CallLabels]
    BY <1>5 DEF Unregister, StepTo, WalletTypeOK
  <2>2. step'[r] = "audit" /\ \A q \in Calls \ {r} : step'[q] = step[q]
    BY <1>1, <2>1
  <2>3. WalletTypeOK'
    BY <1>1, <1>5, <2>1 DEF Unregister, WalletTypeOK, CallLabels, Terminal, Wallets
  <2>4. FilesFirst'
    BY <1>1, <1>5, <2>2 DEF Unregister, FilesFirst, WalletTypeOK, Calls, Wallets
  <2>5. TargetsThere'
    BY <1>1, <1>5, <2>2 DEF Unregister, TargetsThere, WalletTypeOK, Calls, Wallets
  <2>6. LabelsOfDeletes'
    BY <1>1, <2>2 DEF LabelsOfDeletes, Calls
  <2>7. IndexBacked'
    BY <1>1, <1>5 DEF Unregister, IndexBacked, WalletTypeOK
  <2> QED
    BY <2>3, <2>4, <2>5, <2>6, <2>7
<1> QED
  BY <1>2, <1>3, <1>4, <1>5 DEF DeleteWallet

\* The steps of suspend_wallet and activate_wallet.
LEMMA ChangeKeeps ==
  ASSUME WalletInv, NEW r \in Changes, ChangeStatus(r) PROVE WalletInv'
<1>1. r \in Calls /\ r \notin Creates \cup Deletes
  BY CallsAssumption DEF Calls
<1> USE DEF WalletInv
<1>2. CASE RejectCall(r) \/ StorageFails(r) \/ Audit(r)
  BY <1>1, <1>2, EndKeeps
<1>3. CASE ChangeLoad(r)
  <2>1. step' = [step EXCEPT ![r] = "save_status"] /\ step \in [Calls -> CallLabels]
    BY <1>3 DEF ChangeLoad, StepTo, WalletTypeOK
  <2>2. step'[r] = "save_status" /\ \A q \in Calls \ {r} : step'[q] = step[q]
    BY <1>1, <2>1
  <2>3. WalletTypeOK'
    BY <1>1, <1>3, <2>1 DEF ChangeLoad, WalletTypeOK, CallLabels, Terminal, Wallets
  <2>4. FilesFirst'
    BY <1>1, <1>3, <2>2 DEF ChangeLoad, FilesFirst, WalletTypeOK, Calls, Wallets
  <2>5. TargetsThere'
    BY <1>1, <1>3, <2>2 DEF ChangeLoad, TargetsThere, WalletTypeOK, Calls, Wallets
  <2>6. LabelsOfDeletes'
    BY <1>1, <2>2 DEF LabelsOfDeletes, Calls
  <2>7. IndexBacked'
    BY <1>1, <1>3 DEF ChangeLoad, IndexBacked, WalletTypeOK
  <2> QED
    BY <2>3, <2>4, <2>5, <2>6, <2>7
<1>4. CASE ChangeSave(r)
  <2>1. step' = [step EXCEPT ![r] = "audit"] /\ step \in [Calls -> CallLabels]
    BY <1>4 DEF ChangeSave, StepTo, WalletTypeOK
  <2>2. step'[r] = "audit" /\ \A q \in Calls \ {r} : step'[q] = step[q]
    BY <1>1, <2>1
  <2>3. WalletTypeOK'
    BY <1>1, <1>4, <2>1 DEF ChangeSave, WalletTypeOK, CallLabels, Terminal, Wallets
  <2>4. FilesFirst'
    BY <1>1, <1>4, <2>2 DEF ChangeSave, FilesFirst, WalletTypeOK, Calls, Wallets
  <2>5. TargetsThere'
    BY <1>1, <1>4, <2>2 DEF ChangeSave, TargetsThere, WalletTypeOK, Calls, Wallets
  <2>6. LabelsOfDeletes'
    BY <1>1, <2>2 DEF LabelsOfDeletes, Calls
  <2>7. IndexBacked'
    BY <1>1, <1>4 DEF ChangeSave, IndexBacked, WalletTypeOK
  <2> QED
    BY <2>3, <2>4, <2>5, <2>6, <2>7
<1> QED
  BY <1>2, <1>3, <1>4 DEF ChangeStatus

\* A restart ends the requests and leaves the files and the tables.
LEMMA WalletRestartKeeps ==
  ASSUME WalletInv, WalletRestart PROVE WalletInv'
BY DEF WalletRestart, WalletInv, WalletTypeOK, FilesFirst, TargetsThere, LabelsOfDeletes, IndexBacked, Wallets,
       CallLabels, Terminal, Calls

\* Every step of a handler and a restart keeps the invariant.
LEMMA WalletInvNext ==
  WalletInv /\ [WalletNext]_walletVars => WalletInv'
<1> SUFFICES ASSUME WalletInv, [WalletNext]_walletVars PROVE WalletInv'
  OBVIOUS
<1>1. CASE UNCHANGED walletVars
  BY <1>1 DEF WalletInv, WalletTypeOK, FilesFirst, TargetsThere, LabelsOfDeletes, IndexBacked, walletVars
<1>2. CASE \E r \in Creates : CreateWallet(r)
  BY <1>2, CreateKeeps
<1>3. CASE \E r \in Deletes : DeleteWallet(r)
  BY <1>3, DeleteKeeps
<1>4. CASE \E r \in Changes : ChangeStatus(r)
  BY <1>4, ChangeKeeps
<1>5. CASE WalletRestart
  BY <1>5, WalletRestartKeeps
<1> QED
  BY <1>1, <1>2, <1>3, <1>4, <1>5 DEF WalletNext

\* The inductive invariant holds in every reachable state.
LEMMA WalletInvariance ==
  WalletSpec => []WalletInv
BY WalletInvInit, WalletInvNext, PTL DEF WalletSpec

\* Every variable keeps its type.
THEOREM WalletTypeCorrect ==
  WalletSpec => []WalletTypeOK
<1>1. WalletInv => WalletTypeOK
  BY DEF WalletInv
<1> QED
  BY <1>1, WalletInvariance, PTL

\* What WALLET_BY_OWNER and ADDRESS_WALLET_MAP name is there, whatever
\* fails or restarts between the writes of create_wallet.
THEOREM IndexBackedHolds ==
  WalletSpec => []IndexBacked
<1>1. WalletInv => IndexBacked
  BY DEF WalletInv
<1> QED
  BY <1>1, WalletInvariance, PTL

\* Only a deletion by the user takes the user's wallet out of the index, and
\* nothing ever puts another in its place.
THEOREM IndexIsStableHolds ==
  WalletSpec => IndexIsStable
<1> DEFINE Stable == \A u \in Users :
          walletOf[u] # None /\ walletOf'[u] # walletOf[u]
          => walletOf'[u] = None /\ ~NothingDeleted(u)
<1>1. ASSUME WalletInv, [WalletNext]_walletVars PROVE [Stable]_walletVars
  <2>1. CASE UNCHANGED walletVars
    BY <2>1
  <2>2. ASSUME NEW r \in Creates, CreateWallet(r) PROVE Stable
    BY <1>1, <2>2, ByAssumption
       DEF CreateWallet, RejectCall, StorageFails, CreateMeta, CreateKeypair, RegisterAddress,
           RegisterOwner, Audit, WalletInv, WalletTypeOK
  <2>3. ASSUME NEW r \in Deletes, DeleteWallet(r) PROVE Stable
    <3>1. CASE Unregister(r)
      BY <1>1, <2>3, <3>1, ByAssumption, CallsAssumption
         DEF Unregister, WalletInv, WalletTypeOK, TargetsThere, Wallets, Calls, NothingDeleted
    <3> QED
      BY <2>3, <3>1 DEF DeleteWallet, RejectCall, StorageFails, DeleteLoad, DeleteSave, Audit
  <2>4. ASSUME NEW r \in Changes, ChangeStatus(r) PROVE Stable
    BY <2>4 DEF ChangeStatus, RejectCall, StorageFails, ChangeLoad, ChangeSave, Audit
  <2>5. CASE WalletRestart
    BY <2>5 DEF WalletRestart
  <2> QED
    BY <1>1, <2>1, <2>2, <2>3, <2>4, <2>5 DEF WalletNext
<1>2. [][Stable]_walletVars => IndexIsStable
  BY PTL DEF IndexIsStable
<1> QED
  BY <1>1, <1>2, WalletInvariance, PTL DEF WalletSpec

\* DeletionIsFinal: a status change starts only on a wallet that is not
\* deleted, a creation writes only its own new file, and nothing else writes
\* another status than "Deleted".
THEOREM DeletionIsFinalHolds ==
  WalletSpec => DeletionIsFinal
<1> DEFINE Final == \A w \in Wallets :
          status[w] = "Deleted" /\ ~ChangeUnderWay(w) =>
              status'[w] = "Deleted" /\ ~ChangeUnderWay(w)'
<1>1. ASSUME WalletInv, [WalletNext]_walletVars PROVE [Final]_walletVars
  <2> USE <1>1 DEF WalletInv, WalletTypeOK, StepTo, ChangeUnderWay
  <2>1. CASE UNCHANGED walletVars
    BY <2>1
  <2>2. ASSUME NEW r \in Creates, CreateWallet(r) PROVE Final
    BY <2>2, CallsAssumption
       DEF CreateWallet, RejectCall, StorageFails, CreateMeta, CreateKeypair, RegisterAddress,
           RegisterOwner, Audit, Calls, Wallets, FilesFirst
  <2>3. ASSUME NEW r \in Deletes, DeleteWallet(r) PROVE Final
    BY <2>3, CallsAssumption
       DEF DeleteWallet, RejectCall, StorageFails, DeleteLoad, DeleteSave, Unregister, Audit,
           Calls, Wallets
  <2>4. ASSUME NEW r \in Changes, ChangeStatus(r) PROVE Final
    <3>1. CASE ChangeLoad(r)
      BY <3>1, CallsAssumption DEF ChangeLoad, Calls, Wallets
    <3>2. CASE ChangeSave(r)
      BY <3>2, CallsAssumption DEF ChangeSave, Calls, Wallets
    <3> QED
      BY <2>4, <3>1, <3>2, CallsAssumption
         DEF ChangeStatus, RejectCall, StorageFails, Audit, Calls, Wallets
  <2>5. CASE WalletRestart
    BY <2>5 DEF WalletRestart, Calls
  <2> QED
    BY <2>1, <2>2, <2>3, <2>4, <2>5 DEF WalletNext
<1>2. [][Final]_walletVars => DeletionIsFinal
  BY PTL DEF DeletionIsFinal
<1> QED
  BY <1>1, <1>2, WalletInvariance, PTL DEF WalletSpec

\* What makes OneCreated inductive: the wallet of a create_wallet that has
\* registered stays in the index until its user starts a deletion.
OwnerKept ==
    \A r \in Creates \ unindexed :
        step[r] \in {"audit", "ok"} /\ NothingDeleted(By[r]) => walletOf[By[r]] = r

\* No step takes a registered wallet out of the index before its user
\* deletes it: what a step needs to leave alone.
LEMMA OwnerStays ==
  ASSUME OwnerKept,
         \A q \in Creates \ unindexed' : step'[q] \in {"audit", "ok"} => q \notin unindexed /\ step[q] \in {"audit", "ok"},
         \A d \in Deletes : target[d] # None => target'[d] # None,
         \A u \in Users : walletOf'[u] = walletOf[u] \/ \E d \in Deletes : By[d] = u /\ target'[d] # None
  PROVE  OwnerKept'
<1> SUFFICES ASSUME NEW q \in Creates \ unindexed', step'[q] \in {"audit", "ok"}, NothingDeleted(By[q])'
             PROVE  walletOf'[By[q]] = q
  BY Zenon DEF OwnerKept
<1>1. \A d \in Deletes : By[d] = By[q] => target'[d] = None
  BY Zenon DEF NothingDeleted
<1>2. NothingDeleted(By[q])
  BY Zenon, <1>1 DEF NothingDeleted
<1>3. walletOf[By[q]] = q
  BY Zenon, <1>2 DEF OwnerKept
<1>4. By[q] \in Users
  BY ByAssumption
<1> QED
  BY Zenon, <1>1, <1>3, <1>4

\* A call that ends, or goes on with its audit event, leaves the index alone.
LEMMA OwnerEnds ==
  ASSUME WalletInv, OwnerKept, NEW r \in Calls, RejectCall(r) \/ StorageFails(r) \/ Audit(r)
  PROVE  OwnerKept'
<1>1. step \in [Calls -> CallLabels] /\ Creates \subseteq Calls
  BY DEF WalletInv, WalletTypeOK, Calls
<1>2. /\ UNCHANGED <<walletOf, target, unindexed>>
      /\ \A q \in Calls \ {r} : step'[q] = step[q]
      /\ step'[r] \in {"audit", "ok"} => step[r] = "audit"
  BY <1>1 DEF RejectCall, StorageFails, Audit, StepTo
<1>3. \A q \in Creates \ unindexed' : step'[q] \in {"audit", "ok"} => q \notin unindexed /\ step[q] \in {"audit", "ok"}
  BY <1>1, <1>2
<1>4. UNCHANGED walletOf /\ UNCHANGED target
  BY Zenon, <1>2
<1> QED
  BY <1>3, <1>4, OwnerStays

\* Every step of a handler and a restart keeps OwnerKept.
LEMMA OwnerKeptStep ==
  ASSUME WalletInv, OwnerKept, [WalletNext]_walletVars PROVE OwnerKept'
<1>1. /\ step \in [Calls -> CallLabels] /\ walletOf \in [Users -> Wallets \cup {None}]
      /\ target \in [Deletes \cup Changes -> Wallets \cup {None}]
  BY DEF WalletInv, WalletTypeOK
<1>2. Creates \subseteq Calls /\ Deletes \subseteq Calls /\ Changes \subseteq Calls /\ None \notin Wallets
  BY CallsAssumption DEF Calls, Wallets
<1>3. CASE UNCHANGED walletVars
  BY <1>3 DEF walletVars, OwnerKept, NothingDeleted
<1>4. ASSUME NEW r \in Calls, RejectCall(r) \/ StorageFails(r) \/ Audit(r) PROVE OwnerKept'
  BY <1>4, OwnerEnds
<1>5. ASSUME NEW r \in Creates, CreateMeta(r) \/ CreateKeypair(r) \/ RegisterAddress(r) PROVE OwnerKept'
  <2>1. /\ UNCHANGED <<walletOf, target, unindexed>>
        /\ \A q \in Calls \ {r} : step'[q] = step[q]
        /\ step'[r] \notin {"audit", "ok"}
    BY <1>1, <1>2, <1>5 DEF CreateMeta, CreateKeypair, RegisterAddress, StepTo
  <2>2. \A q \in Creates \ unindexed' : step'[q] \in {"audit", "ok"} => q \notin unindexed /\ step[q] \in {"audit", "ok"}
    BY <1>2, <2>1
  <2>3. UNCHANGED walletOf /\ UNCHANGED target
    BY Zenon, <2>1
  <2> QED
    BY <2>2, <2>3, OwnerStays
<1>6. ASSUME NEW r \in Creates, RegisterOwner(r) PROVE OwnerKept'
  <2>1. /\ UNCHANGED target
        /\ \A q \in Calls \ {r} : step'[q] = step[q]
        /\ By[r] \in Users
    BY <1>1, <1>2, <1>6, ByAssumption DEF RegisterOwner, StepTo
  <2>2. CASE UNCHANGED walletOf /\ unindexed \subseteq unindexed' /\ (step'[r] \in {"audit", "ok"} => r \in unindexed')
    <3>1. \A q \in Creates \ unindexed' : step'[q] \in {"audit", "ok"} => q \notin unindexed /\ step[q] \in {"audit", "ok"}
      BY <1>2, <2>1, <2>2
    <3>2. UNCHANGED walletOf /\ UNCHANGED target
      BY Zenon, <2>1, <2>2
    <3> QED
      BY <3>1, <3>2, OwnerStays
  <2>3. CASE walletOf[By[r]] = None /\ walletOf' = [walletOf EXCEPT ![By[r]] = r] /\ UNCHANGED unindexed
    <3>1. walletOf'[By[r]] = r /\ \A u \in Users \ {By[r]} : walletOf'[u] = walletOf[u]
      BY <1>1, <2>1, <2>3
    <3> SUFFICES ASSUME NEW q \in Creates \ unindexed', step'[q] \in {"audit", "ok"}, NothingDeleted(By[q])'
                 PROVE  walletOf'[By[q]] = q
      BY Zenon DEF OwnerKept
    <3>2. CASE q = r
      BY <3>1, <3>2
    <3>3. CASE q # r
      <4>1. step[q] \in {"audit", "ok"} /\ q \notin unindexed
        BY <1>2, <2>1, <2>3, <3>3
      <4>2. NothingDeleted(By[q])
        BY <2>1 DEF NothingDeleted
      <4>3. walletOf[By[q]] = q /\ By[q] \in Users /\ q # None
        BY <1>2, <4>1, <4>2, ByAssumption DEF OwnerKept, Wallets
      <4> QED
        BY <2>3, <3>1, <4>3
    <3> QED
      BY <3>2, <3>3
  <2> QED
    BY <1>1, <1>2, <1>6, <2>2, <2>3 DEF RegisterOwner, StepTo
<1>7. ASSUME NEW r \in Deletes, DeleteLoad(r) \/ DeleteSave(r) \/ Unregister(r) PROVE OwnerKept'
  <2>1. /\ UNCHANGED unindexed
        /\ \A q \in Calls \ {r} : step'[q] = step[q]
        /\ r \notin Creates /\ By[r] \in Users
    BY <1>1, <1>2, <1>7, CallsAssumption, ByAssumption DEF DeleteLoad, DeleteSave, Unregister, StepTo
  <2>2. \A d \in Deletes : target[d] # None => target'[d] # None
    BY <1>1, <1>2, <1>7 DEF DeleteLoad, DeleteSave, Unregister
  <2>3. \A u \in Users : walletOf'[u] = walletOf[u] \/ (u = By[r] /\ target[r] # None)
    <3>1. CASE UNCHANGED walletOf
      BY <3>1
    <3>2. CASE Unregister(r)
      <4>1. target[r] # None
        BY <1>2, <3>2 DEF Unregister, WalletInv, TargetsThere
      <4>2. \A u \in Users \ {By[r]} : walletOf'[u] = walletOf[u]
        BY <1>1, <3>2 DEF Unregister
      <4> QED
        BY <4>1, <4>2
    <3> QED
      BY <1>7, <3>1, <3>2 DEF DeleteLoad, DeleteSave
  <2>4. \A q \in Creates \ unindexed' : step'[q] \in {"audit", "ok"} => q \notin unindexed /\ step[q] \in {"audit", "ok"}
    BY <1>2, <2>1
  <2>5. \A u \in Users : walletOf'[u] = walletOf[u] \/ \E d \in Deletes : By[d] = u /\ target'[d] # None
    BY Zenon, <2>2, <2>3
  <2> QED
    BY <2>2, <2>4, <2>5, OwnerStays
<1>8. ASSUME NEW r \in Changes, ChangeLoad(r) \/ ChangeSave(r) PROVE OwnerKept'
  <2>1. r \notin Creates \cup Deletes
    BY CallsAssumption
  <2>2. /\ UNCHANGED <<walletOf, unindexed>>
        /\ \A q \in Calls \ {r} : step'[q] = step[q]
        /\ \A d \in Deletes : target'[d] = target[d]
    BY <1>1, <1>2, <1>8, <2>1 DEF ChangeLoad, ChangeSave, StepTo
  <2>3. \A q \in Creates \ unindexed' : step'[q] \in {"audit", "ok"} => q \notin unindexed /\ step[q] \in {"audit", "ok"}
    BY <1>2, <2>1, <2>2
  <2>4. UNCHANGED walletOf
    BY Zenon, <2>2
  <2> QED
    BY <2>2, <2>3, <2>4, OwnerStays
<1>9. CASE WalletRestart
  <2>1. /\ UNCHANGED <<walletOf, target, unindexed>>
        /\ \A q \in Calls : step'[q] \in {"audit", "ok"} => step'[q] = step[q]
    BY <1>9 DEF WalletRestart, Terminal
  <2>2. \A q \in Creates \ unindexed' : step'[q] \in {"audit", "ok"} => q \notin unindexed /\ step[q] \in {"audit", "ok"}
    BY <1>2, <2>1
  <2>3. UNCHANGED walletOf /\ UNCHANGED target
    BY Zenon, <2>1
  <2> QED
    BY <2>2, <2>3, OwnerStays
<1>10. ASSUME NEW r \in Creates, CreateWallet(r) PROVE OwnerKept'
  BY Zenon, <1>2, <1>4, <1>5, <1>6, <1>10 DEF CreateWallet
<1>11. ASSUME NEW r \in Deletes, DeleteWallet(r) PROVE OwnerKept'
  BY Zenon, <1>2, <1>4, <1>7, <1>11 DEF DeleteWallet
<1>12. ASSUME NEW r \in Changes, ChangeStatus(r) PROVE OwnerKept'
  BY Zenon, <1>2, <1>4, <1>8, <1>12 DEF ChangeStatus
<1> QED
  BY Zenon, <1>3, <1>9, <1>10, <1>11, <1>12 DEF WalletNext

\* A user that deletes nothing is answered 201 at most once, however many
\* create_wallet calls run at the same time, except where the write to the
\* index failed.
THEOREM OneCreatedHolds ==
  WalletSpec => []OneCreated
<1>1. WalletInit => OwnerKept
  BY DEF WalletInit, OwnerKept, Calls
<1>2. WalletInv /\ OwnerKept /\ [WalletNext]_walletVars => OwnerKept'
  BY OwnerKeptStep
<1>3. OwnerKept => OneCreated
  BY DEF OwnerKept, OneCreated
<1> QED
  BY <1>1, <1>2, <1>3, WalletInvariance, PTL DEF WalletSpec
=============================================================================
