---------------------------- MODULE PoolCreation -----------------------------
(***************************************************************************)
(* The creation of DRT pools (api/pools.rs, create_malta_pool and          *)
(* create_iob_erp_pool) and the upload of a pool's schema                  *)
(* (api/credentials.rs, upload_schema), with the audit trail they end in.  *)
(*                                                                         *)
(*   - One transaction creates and seals the pool on chain; its            *)
(*     confirmation is polled for at most 30 s, and it may be executed     *)
(*     after the poll has given up.                                        *)
(*   - Then the metadata file (atomic), its mirror in redb (best effort),  *)
(*     the schema file (a plain fs::write: truncated, then written) and    *)
(*     the audit event are written one after the other.                    *)
(*                                                                         *)
(* A creation gets fresh identifiers, so r also names the pool it creates. *)
(* The process may end between any two steps.                              *)
(***************************************************************************)
EXTENDS AuditTrail

CONSTANTS
    Creations,    \* calls of create_malta_pool and create_iob_erp_pool
    Uploads,      \* calls of upload_schema
    Pool,         \* Pool[u]: the pool u uploads a schema for
    NoSchema,     \* no schema file
    TornSchema    \* a schema file that does not parse

Requests == Creations \cup Uploads

ASSUME RequestsAssumption ==
    /\ Creations \cap Uploads = {}
    /\ Pool \in [Uploads -> Creations]
    /\ Requests \subseteq Events
ASSUME SchemaAssumption ==
    {NoSchema, TornSchema} \cap Requests = {} /\ NoSchema # TornSchema

VARIABLES
    malta,        \* the creations that are calls of create_malta_pool
    tx,           \* tx[r]: what became of the transaction of r
    metas,        \* pools with a metadata file
    mirror,       \* pools in POOL_META of redb
    schema,       \* schema[p]: the schema file, named after its writer
    pc,           \* pc[r]: where the request r is
    late,         \* late[r]: the poll has lasted longer than its timeout
    spoilt        \* history: pools whose schema file a write that failed,
                  \* ended with the process or met another may have spoilt

poolVars == <<malta, tx, metas, mirror, schema, pc, late, spoilt>>
vars == <<auditVars, poolVars>>

Ended == {"ok", "rejected", "unavailable", "internal", "lost"}
Labels == Ended \cup {"start", "send", "poll", "head", "body", "events",
                      "persist", "mirror", "schema", "writing", "audit"}

PoolOf(r) == IF r \in Creations THEN r ELSE Pool[r]
Writers(p) == {r \in Requests : pc[r] = "writing" /\ PoolOf(r) = p}
Goto(r, label) == pc' = [pc EXCEPT ![r] = label]

Init ==
    /\ AuditInit
    /\ malta \in SUBSET Creations
    /\ tx = [r \in Creations |-> "none"]
    /\ metas = {}
    /\ mirror = {}
    /\ schema = [r \in Creations |-> NoSchema]
    /\ pc = [r \in Requests |-> "start"]
    /\ late = [r \in Creations |-> FALSE]
    /\ spoilt = {}

-----------------------------------------------------------------------------
(* create_pool_atomic, sign_send_and_parse, await_confirmation.            *)

\* Names, DRTs, schema or wallet are refused, or the blockhash cannot be had.
Reject(r) ==
    /\ pc[r] = "start"
    /\ \E a \in {"rejected", "unavailable"} : Goto(r, a)
    /\ UNCHANGED <<auditVars, malta, tx, metas, mirror, schema, late, spoilt>>

Build(r) ==
    /\ r \in Creations
    /\ pc[r] = "start"
    /\ Goto(r, "send")
    /\ UNCHANGED <<auditVars, malta, tx, metas, mirror, schema, late, spoilt>>

\* The node takes the transaction, and its answer may get lost.
Send(r) ==
    /\ pc[r] = "send"
    /\ tx' = [tx EXCEPT ![r] = "sent"]
    /\ \E label \in {"poll", "unavailable"} : Goto(r, label)
    /\ UNCHANGED <<auditVars, malta, metas, mirror, schema, late, spoilt>>

SendFails(r) ==
    /\ pc[r] = "send"
    /\ Goto(r, "unavailable")
    /\ UNCHANGED <<auditVars, malta, tx, metas, mirror, schema, late, spoilt>>

\* (Mutant) The loop does not look at the clock.
PollForever(r) ==
    /\ pc[r] = "poll"
    /\ Goto(r, "head")
    /\ UNCHANGED <<auditVars, malta, tx, metas, mirror, schema, late, spoilt>>

\* One turn of the loop: give up, or ask for the status.
Poll(r) ==
    /\ pc[r] = "poll"
    /\ Goto(r, IF late[r] THEN "unavailable" ELSE "head")
    /\ UNCHANGED <<auditVars, malta, tx, metas, mirror, schema, late, spoilt>>

\* No head within the client's timeout, or an error: sleep and ask again.
PollFails(r) ==
    /\ pc[r] = "head"
    /\ Goto(r, "poll")
    /\ UNCHANGED <<auditVars, malta, tx, metas, mirror, schema, late, spoilt>>

PollHead(r) ==
    /\ pc[r] = "head"
    /\ Goto(r, "body")
    /\ UNCHANGED <<auditVars, malta, tx, metas, mirror, schema, late, spoilt>>

\* (Mutant) A transaction the node knows is taken for a confirmed one.
PollAnswersSent(r) ==
    /\ pc[r] = "body"
    /\ Goto(r, IF tx[r] \in {"sent", "executed"} THEN "events" ELSE "unavailable")
    /\ UNCHANGED <<auditVars, malta, tx, metas, mirror, schema, late, spoilt>>

\* The status: confirmed, failed on chain, or nothing yet.
PollAnswers(r) ==
    /\ pc[r] = "body"
    /\ Goto(r, CASE tx[r] = "executed" -> "events"
                 [] tx[r] = "failed"   -> "unavailable"
                 [] OTHER              -> "poll")
    /\ UNCHANGED <<auditVars, malta, tx, metas, mirror, schema, late, spoilt>>

Elapse(r) ==
    /\ pc[r] \in {"poll", "head", "body"}
    /\ late' = [late EXCEPT ![r] = TRUE]
    /\ UNCHANGED <<auditVars, malta, tx, metas, mirror, schema, pc, spoilt>>

\* The events of the transaction, or none when they cannot be had.
ParseEvents(r) ==
    /\ pc[r] = "events"
    /\ Goto(r, "persist")
    /\ UNCHANGED <<auditVars, malta, tx, metas, mirror, schema, late, spoilt>>

-----------------------------------------------------------------------------
(* persist_pool_metadata, save_pool_schema, the audit event.               *)

Persist(r) ==
    /\ pc[r] = "persist"
    /\ metas' = metas \cup {r}
    /\ Goto(r, "mirror")
    /\ UNCHANGED <<auditVars, malta, tx, mirror, schema, late, spoilt>>

PersistFails(r) ==
    /\ pc[r] = "persist"
    /\ Goto(r, "internal")
    /\ UNCHANGED <<auditVars, malta, tx, metas, mirror, schema, late, spoilt>>

\* (Mutant) The audit event of a Malta pool precedes its schema.
PersistMirrorThenAudit(r) ==
    /\ pc[r] = "mirror"
    /\ mirror' \in {mirror, mirror \cup {r}}
    /\ StartLog(r)
    /\ Goto(r, IF r \in malta THEN "schema" ELSE "audit")
    /\ UNCHANGED <<keyVars, tag, pending, log, redb, malta, tx, metas, schema, late, spoilt>>

\* upsert_pool_meta: an error is only logged.
PersistMirror(r) ==
    /\ pc[r] = "mirror"
    /\ mirror' \in {mirror, mirror \cup {r}}
    /\ IF r \in malta
       THEN Goto(r, "schema") /\ UNCHANGED stage
       ELSE Goto(r, "audit") /\ StartLog(r)
    /\ UNCHANGED <<keyVars, tag, pending, log, redb, malta, tx, metas, schema, late, spoilt>>

\* upload_schema: the pool is on chain, has metadata and names the schema.
UploadCheck(u) ==
    /\ u \in Uploads
    /\ pc[u] = "start"
    /\ tx[Pool[u]] = "executed"
    /\ Pool[u] \in metas \cap malta
    /\ Goto(u, "schema")
    /\ UNCHANGED <<auditVars, malta, tx, metas, mirror, schema, late, spoilt>>

\* save_pool_schema opens the file: what it held is gone.
SchemaOpen(r) ==
    LET p == PoolOf(r)
    IN  /\ pc[r] = "schema"
        /\ schema' = [schema EXCEPT ![p] = TornSchema]
        /\ spoilt' = IF Writers(p) = {} THEN spoilt \ {p} ELSE spoilt \cup {p}
        /\ Goto(r, "writing")
        /\ UNCHANGED <<auditVars, malta, tx, metas, mirror, late>>

SchemaWritten(r) ==
    LET p == PoolOf(r)
    IN  /\ pc[r] = "writing"
        /\ \E s \in {r, TornSchema} :
              /\ s = TornSchema => p \in spoilt
              /\ schema' = [schema EXCEPT ![p] = s]
        /\ StartLog(r)
        /\ Goto(r, "audit")
        /\ UNCHANGED <<keyVars, tag, pending, log, redb, malta, tx, metas, mirror, late, spoilt>>

\* (Mutant) An error of the write is only logged.
SchemaFailsUnnoticed(r) ==
    /\ pc[r] = "writing"
    /\ StartLog(r)
    /\ Goto(r, "audit")
    /\ UNCHANGED <<keyVars, tag, pending, log, redb, malta, tx, metas, mirror, schema, late, spoilt>>

SchemaFails(r) ==
    /\ pc[r] = "writing"
    /\ spoilt' = spoilt \cup {PoolOf(r)}
    /\ Goto(r, "internal")
    /\ UNCHANGED <<auditVars, malta, tx, metas, mirror, schema, late>>

\* (Mutant) The answer waits for the event to be in redb.
AnswerIfMirrored(r) ==
    /\ pc[r] = "audit"
    /\ stage[r] = "logged"
    /\ r \in redb
    /\ Goto(r, "ok")
    /\ UNCHANGED <<auditVars, malta, tx, metas, mirror, schema, late, spoilt>>

\* log has returned.
Answer(r) ==
    /\ pc[r] = "audit"
    /\ stage[r] = "logged"
    /\ Goto(r, "ok")
    /\ UNCHANGED <<auditVars, malta, tx, metas, mirror, schema, late, spoilt>>

\* What the server does for r; the answers of the RPC node are not its own.
Serve(r) ==
    \/ Reject(r)
    \/ Build(r)
    \/ Send(r)
    \/ SendFails(r)
    \/ Poll(r)
    \/ PollFails(r)
    \/ Persist(r)
    \/ PersistFails(r)
    \/ PersistMirror(r)
    \/ UploadCheck(r)
    \/ SchemaOpen(r)
    \/ SchemaWritten(r)
    \/ SchemaFails(r)
    \/ Answer(r)

Node(r) == PollHead(r) \/ PollAnswers(r) \/ ParseEvents(r)

-----------------------------------------------------------------------------

\* The chain executes a transaction, refuses it or forgets it.
ChainExecute(r) ==
    /\ tx[r] = "sent"
    /\ \E fate \in {"executed", "failed", "dropped"} : tx' = [tx EXCEPT ![r] = fate]
    /\ UNCHANGED <<auditVars, malta, metas, mirror, schema, pc, late, spoilt>>

Log == AuditSteps /\ UNCHANGED poolVars

Restart ==
    /\ AuditRestart
    /\ pc' = [r \in Requests |-> IF pc[r] \in Ended \cup {"start"} THEN pc[r] ELSE "lost"]
    /\ spoilt' = spoilt \cup {p \in Creations : Writers(p) # {}}
    /\ UNCHANGED <<malta, tx, metas, mirror, schema, late>>

Next ==
    \/ \E r \in Requests : Serve(r)
    \/ \E r \in Creations : Node(r) \/ Elapse(r) \/ ChainExecute(r)
    \/ Log
    \/ Restart

\* Server and clock go on; the RPC node and the chain owe nothing.
Fairness ==
    /\ \A r \in Requests : WF_vars(Serve(r))
    /\ \A r \in Creations : WF_vars(Elapse(r))
    /\ WF_vars(Log)

Spec == Init /\ [][Next]_vars /\ Fairness

-----------------------------------------------------------------------------

\* get_pool: the pool on chain with what the metadata file says of it.
PoolView(p) ==
    CASE tx[p] # "executed" -> "not_found"
      [] p \notin metas     -> "unknown"
      [] p \in malta        -> "malta"
      [] OTHER              -> "iob_erp"

\* get_schema, and validate_payload of an upload.
SchemaFound(p) == schema[p] \in Requests

TypeOK ==
    /\ AuditTypeOK
    /\ malta \subseteq Creations
    /\ tx \in [Creations -> {"none", "sent", "executed", "failed", "dropped"}]
    /\ metas \subseteq Creations
    /\ mirror \subseteq Creations
    /\ schema \in [Creations -> Requests \cup {NoSchema, TornSchema}]
    /\ pc \in [Requests -> Labels]
    /\ late \in [Creations -> BOOLEAN]
    /\ spoilt \subseteq Creations

\* Metadata, mirror and schema are never ahead of the chain: a pool known to
\* the enclave is executed and sealed there, also when the poll for its
\* confirmation gave up, the process ended or the transaction came late.
MetaIsOnChain ==
    /\ \A p \in metas : tx[p] = "executed"
    /\ mirror \subseteq metas
    /\ \A p \in Creations : schema[p] # NoSchema => p \in metas

\* A creation that answered 201 leaves a pool that reads as what it is, and
\* a Malta pool has its schema, unless an upload is rewriting it or a write
\* of the schema file was cut short ("then persist the inline schema").
CreatedIsWhole ==
    \A p \in Creations : pc[p] = "ok" =>
        /\ PoolView(p) = IF p \in malta THEN "malta" ELSE "iob_erp"
        /\ p \in malta => SchemaFound(p) \/ Writers(p) # {} \/ p \in spoilt

\* The audit trail is never ahead of what it reports: an event in either
\* sink is of a pool with its metadata or of a schema that was written.
AuditNotAhead ==
    \A r \in Requests :
        r \in redb \cup pending \/ (\E i \in DOMAIN log : log[i].event = r) =>
            /\ PoolOf(r) \in metas
            /\ r \in malta \cup Uploads =>
                   schema[PoolOf(r)] # NoSchema /\ pc[r] \in {"audit", "ok", "lost"}

\* await_confirmation ends, whatever becomes of the transaction, or waits
\* for the rest of an answer of the RPC node.
PollEnds ==
    \A r \in Creations :
        pc[r] = "poll" ~> (pc[r] \notin {"poll", "head", "body"} \/ [](pc[r] = "body"))

\* "audit logging must never block business logic": whatever fails in log,
\* a request that has come to it is answered, or lost with the process.
AuditNeverBlocks ==
    \A r \in Requests : pc[r] = "audit" ~> pc[r] \in Ended
=============================================================================
