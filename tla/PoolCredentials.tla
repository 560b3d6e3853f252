--------------------------- MODULE PoolCredentials ---------------------------
(***************************************************************************)
(* The credential operations of one DRT pool (api/credentials.rs):         *)
(* initialize_pool, issue_credentials and revoke_credentials, running      *)
(* concurrently on two worker threads, over                                *)
(*                                                                         *)
(*   - the chain: the owner's balance of append DRTs, burned by grant_right;*)
(*   - the encrypted file system: pool.meta.json, the datasets with their  *)
(*     anchors, revocations.jsonl;                                         *)
(*   - redb: the mirror of the metadata, the issuance and the revocation   *)
(*     records (each write is one transaction and best-effort);            *)
(*   - the per-pool mutex, which issue_credentials alone takes.            *)
(*                                                                         *)
(* A request is one call of a handler, with the steps it takes on shared   *)
(* state.  The record id of an issuance is a fresh UUID: the request       *)
(* itself.  Restarts end every request; a disconnecting client ends one at *)
(* an await.  A file save is one step (see AtomicWrite for when it is).    *)
(* Pools share nothing here, so one pool is modelled, as it is left by     *)
(* create_malta_pool.                                                      *)
(***************************************************************************)
EXTENDS Naturals, Sequences, FiniteSets

CONSTANTS
    Inits,        \* calls of initialize_pool
    Issues,       \* calls of issue_credentials
    Revokes,      \* calls of revoke_credentials
    Rows,         \* Rows[r]: data rows of the CSV that the upload r carries
    Payloads,     \* the credential_ids a revocation may ask for
    Supply,       \* append DRTs minted for the pool
    DbMayFail,    \* whether a redb write may fail (it is only logged)
    Initial,      \* the record id "initial"
    NoFile,       \* no such file
    Free          \* the mutex is not held

Uploads == Inits \cup Issues
Requests == Uploads \cup Revokes
RecordIds == Issues \cup {Initial}

ASSUME RequestsAssumption ==
    /\ Inits \cap Issues = {} /\ Uploads \cap Revokes = {}
    /\ Initial \notin Requests /\ NoFile \notin Requests /\ Free \notin Requests
    /\ IsFiniteSet(Issues)
ASSUME RowsAssumption == Rows \in [Uploads -> Nat]
ASSUME PayloadsAssumption == Payloads \subseteq Seq(RecordIds)
ASSUME SupplyAssumption == Supply \in Nat
ASSUME DbAssumption == DbMayFail \in BOOLEAN

VARIABLES
    balance,      \* append DRTs the owner still holds
    tx,           \* tx[r]: what became of the burn transaction of r
    meta,         \* pool.meta.json: state, total_credentials, revoked_count
    dataset,      \* dataset[id]: the upload whose bytes are in {id}.csv
    anchor,       \* anchor[id]: the upload whose hash is in {id}.meta.json
    revocations,  \* revocations.jsonl: the record ids, in order
    dbMeta,       \* the mirror of meta in redb
    dbIssued,     \* issuance records in redb
    dbRevoked,    \* revocation records in redb
    audit,        \* audit events: <<event type, request>>
    lock,         \* the holder of the pool's mutex, or Free
    pc,           \* pc[r]: where the request r is
    copy,         \* copy[r]: the PoolMetadata that r has loaded
    ids           \* ids[r]: the credential_ids of the revocation r

chainVars == <<balance, tx>>
fileVars == <<meta, dataset, anchor, revocations>>
dbVars == <<dbMeta, dbIssued, dbRevoked>>
vars == <<chainVars, fileVars, dbVars, audit, lock, pc, copy, ids>>

\* How a request ends: 200; a 4xx before any effect; an error of
\* sign_send_and_parse; a 500; no answer (restart, disconnect).
Terminal == {"ok", "rejected", "chain_error", "failed", "lost"}
\* The part of issue_credentials that holds the mutex.
Critical == {"send", "confirm", "csv", "anchor", "reload", "save", "mirror",
             "record", "audit"}
Labels == Terminal \cup Critical \cup
    {"start", "balance", "lock",
     "init_csv", "init_anchor", "init_save", "init_mirror", "init_record", "init_audit",
     "rev_append", "rev_load", "rev_save", "rev_mirror", "rev_records", "rev_audit"}

Metas == [state : {"NeedsInit", "Ready"}, total : Nat, revoked : Nat]
\* As persist_pool_metadata writes it.
NewMeta == [state |-> "NeedsInit", total |-> 0, revoked |-> 0]

Init ==
    /\ balance = Supply
    /\ tx = [r \in Issues |-> "none"]
    /\ meta = NewMeta
    /\ dataset = [id \in RecordIds |-> NoFile]
    /\ anchor = [id \in RecordIds |-> NoFile]
    /\ revocations = <<>>
    /\ dbMeta = NewMeta
    /\ dbIssued = {}
    /\ dbRevoked = {}
    /\ audit = {}
    /\ lock = Free
    /\ pc = [r \in Requests |-> "start"]
    /\ copy = [r \in Requests |-> NewMeta]
    /\ ids = [r \in Revokes |-> <<>>]

-----------------------------------------------------------------------------
(* Steps the handlers share.                                               *)

Goto(r, label) == pc' = [pc EXCEPT ![r] = label]

\* The guard of the mutex is dropped when the handler returns.
Return(r, label) ==
    /\ Goto(r, label)
    /\ lock' = IF lock = r THEN Free ELSE lock

\* The audit event is written with awaits: the client may go away meanwhile.
Answer(r, label) == \E end \in {label, "lost"} : Return(r, end)

\* A redb write is one transaction; its failure is logged and ignored.
UpsertPoolMeta(m) == dbMeta' = m \/ (DbMayFail /\ dbMeta' = dbMeta)
UpsertIssuance(id) ==
    dbIssued' = dbIssued \cup {id} \/ (DbMayFail /\ dbIssued' = dbIssued)

\* AuditRepository::log never fails the request.
Log(event, r) == audit' = audit \cup {<<event, r>>} \/ audit' = audit

\* Token, wallet, ownership or CSV checks fail; nothing has been changed.
Reject(r) ==
    /\ pc[r] = "start" \/ (r \in Issues /\ pc[r] = "balance")
    /\ Goto(r, "rejected")
    /\ UNCHANGED <<chainVars, fileVars, dbVars, audit, lock, copy, ids>>

\* A file operation whose error the handler returns with "?".
StorageFails(r) ==
    /\ pc[r] \in {"init_csv", "init_anchor", "init_save", "reload", "save",
                  "rev_load", "rev_save"}
    /\ Return(r, "failed")
    /\ UNCHANGED <<chainVars, fileVars, dbVars, audit, copy, ids>>

-----------------------------------------------------------------------------
(* initialize_pool: takes no lock.                                         *)

InitLoad(r) ==
    /\ pc[r] = "start"
    /\ meta.state = "NeedsInit"
    /\ copy' = [copy EXCEPT ![r] = meta]
    /\ Goto(r, "init_csv")
    /\ UNCHANGED <<chainVars, fileVars, dbVars, audit, lock, ids>>

InitWriteCsv(r) ==
    /\ pc[r] = "init_csv"
    /\ dataset' = [dataset EXCEPT ![Initial] = r]
    /\ Goto(r, "init_anchor")
    /\ UNCHANGED <<chainVars, meta, anchor, revocations, dbVars, audit, lock, copy, ids>>

InitWriteAnchor(r) ==
    /\ pc[r] = "init_anchor"
    /\ anchor' = [anchor EXCEPT ![Initial] = r]
    /\ Goto(r, "init_save")
    /\ UNCHANGED <<chainVars, meta, dataset, revocations, dbVars, audit, lock, copy, ids>>

\* The metadata loaded at the start is written back.
InitSave(r) ==
    LET m == [copy[r] EXCEPT !.state = "Ready", !.total = Rows[r]]
    IN  /\ pc[r] = "init_save"
        /\ meta' = m
        /\ copy' = [copy EXCEPT ![r] = m]
        /\ Goto(r, "init_mirror")
        /\ UNCHANGED <<chainVars, dataset, anchor, revocations, dbVars, audit, lock, ids>>

InitMirror(r) ==
    /\ pc[r] = "init_mirror"
    /\ UpsertPoolMeta(copy[r])
    /\ Goto(r, "init_record")
    /\ UNCHANGED <<chainVars, fileVars, dbIssued, dbRevoked, audit, lock, copy, ids>>

InitRecord(r) ==
    /\ pc[r] = "init_record"
    /\ UpsertIssuance(Initial)
    /\ Goto(r, "init_audit")
    /\ UNCHANGED <<chainVars, fileVars, dbMeta, dbRevoked, audit, lock, copy, ids>>

InitAudit(r) ==
    /\ pc[r] = "init_audit"
    /\ Log("DatasetInitialized", r)
    /\ Answer(r, "ok")
    /\ UNCHANGED <<chainVars, fileVars, dbVars, copy, ids>>

InitializePool(r) ==
    \/ Reject(r) \/ StorageFails(r)
    \/ InitLoad(r) \/ InitWriteCsv(r) \/ InitWriteAnchor(r) \/ InitSave(r)
    \/ InitMirror(r) \/ InitRecord(r) \/ InitAudit(r)

-----------------------------------------------------------------------------
(* issue_credentials: validation, then the mutex, then what cannot be      *)
(* undone.                                                                 *)

\* (Mutant) The state of the pool is not checked.
IssueValidateAnyState(r) ==
    /\ pc[r] = "start"
    /\ Goto(r, "balance")
    /\ UNCHANGED <<chainVars, fileVars, dbVars, audit, lock, copy, ids>>

IssueValidate(r) ==
    /\ pc[r] = "start"
    /\ meta.state = "Ready"
    /\ Goto(r, "balance")
    /\ UNCHANGED <<chainVars, fileVars, dbVars, audit, lock, copy, ids>>

\* The balance is read before the mutex is awaited.
IssueCheckBalance(r) ==
    /\ pc[r] = "balance"
    /\ balance >= 1
    /\ Goto(r, "lock")
    /\ UNCHANGED <<chainVars, fileVars, dbVars, audit, lock, copy, ids>>

\* (Mutant) Every call makes a mutex of its own.
IssueAcquireOwn(r) ==
    /\ pc[r] = "lock"
    /\ lock' = r
    /\ Goto(r, "send")
    /\ UNCHANGED <<chainVars, fileVars, dbVars, audit, copy, ids>>

IssueAcquire(r) ==
    /\ pc[r] = "lock"
    /\ lock = Free
    /\ lock' = r
    /\ Goto(r, "send")
    /\ UNCHANGED <<chainVars, fileVars, dbVars, audit, copy, ids>>

IssueSend(r) ==
    /\ pc[r] = "send"
    /\ tx' = [tx EXCEPT ![r] = "sent"]
    /\ Goto(r, "confirm")
    /\ UNCHANGED <<balance, fileVars, dbVars, audit, lock, copy, ids>>

\* No blockhash, or the answer to sendTransaction is lost on its way back.
IssueSendFails(r) ==
    /\ pc[r] = "send"
    /\ tx' = tx \/ tx' = [tx EXCEPT ![r] = "sent"]
    /\ Return(r, "chain_error")
    /\ UNCHANGED <<balance, fileVars, dbVars, audit, copy, ids>>

\* (Mutant) Any final status of the transaction passes for success.
IssueConfirmedFinal(r) ==
    /\ pc[r] = "confirm"
    /\ tx[r] # "sent"
    /\ Goto(r, "csv")
    /\ UNCHANGED <<chainVars, fileVars, dbVars, audit, lock, copy, ids>>

IssueConfirmed(r) ==
    /\ pc[r] = "confirm"
    /\ tx[r] = "burned"
    /\ Goto(r, "csv")
    /\ UNCHANGED <<chainVars, fileVars, dbVars, audit, lock, copy, ids>>

\* (Mutant) The early return keeps the mutex locked.
IssueUnconfirmedLocked(r) ==
    /\ pc[r] = "confirm"
    /\ Goto(r, "chain_error")
    /\ UNCHANGED <<chainVars, fileVars, dbVars, audit, lock, copy, ids>>

\* await_confirmation sees the transaction fail, or sees nothing it accepts
\* within its 60 seconds.
IssueUnconfirmed(r) ==
    /\ pc[r] = "confirm"
    /\ Return(r, "chain_error")
    /\ UNCHANGED <<chainVars, fileVars, dbVars, audit, copy, ids>>

IssueWriteCsv(r) ==
    /\ pc[r] = "csv"
    /\ dataset' = [dataset EXCEPT ![r] = r]
    /\ Goto(r, "anchor")
    /\ UNCHANGED <<chainVars, meta, anchor, revocations, dbVars, audit, lock, copy, ids>>

\* (Mutant) The write fails after the file has been created in place.
IssueWriteCsvFailsDirty(r) ==
    /\ pc[r] = "csv"
    /\ dataset' = [dataset EXCEPT ![r] = r]
    /\ Log("CredentialIssuanceFailed", r)
    /\ Answer(r, "failed")
    /\ UNCHANGED <<chainVars, meta, anchor, revocations, dbVars, copy, ids>>

IssueWriteCsvFails(r) ==
    /\ pc[r] = "csv"
    /\ Log("CredentialIssuanceFailed", r)
    /\ Answer(r, "failed")
    /\ UNCHANGED <<chainVars, fileVars, dbVars, copy, ids>>

\* Best-effort.
IssueWriteAnchor(r) ==
    /\ pc[r] = "anchor"
    /\ anchor' = [anchor EXCEPT ![r] = r] \/ anchor' = anchor
    /\ Goto(r, "reload")
    /\ UNCHANGED <<chainVars, meta, dataset, revocations, dbVars, audit, lock, copy, ids>>

IssueReload(r) ==
    /\ pc[r] = "reload"
    /\ copy' = [copy EXCEPT ![r] = meta]
    /\ Goto(r, "save")
    /\ UNCHANGED <<chainVars, fileVars, dbVars, audit, lock, ids>>

IssueSave(r) ==
    LET m == [copy[r] EXCEPT !.total = @ + Rows[r]]
    IN  /\ pc[r] = "save"
        /\ meta' = m
        /\ copy' = [copy EXCEPT ![r] = m]
        /\ Goto(r, "mirror")
        /\ UNCHANGED <<chainVars, dataset, anchor, revocations, dbVars, audit, lock, ids>>

IssueMirror(r) ==
    /\ pc[r] = "mirror"
    /\ UpsertPoolMeta(copy[r])
    /\ Goto(r, "record")
    /\ UNCHANGED <<chainVars, fileVars, dbIssued, dbRevoked, audit, lock, copy, ids>>

IssueRecord(r) ==
    /\ pc[r] = "record"
    /\ UpsertIssuance(r)
    /\ Goto(r, "audit")
    /\ UNCHANGED <<chainVars, fileVars, dbMeta, dbRevoked, audit, lock, copy, ids>>

IssueAudit(r) ==
    /\ pc[r] = "audit"
    /\ Log("CredentialIssued", r)
    /\ Answer(r, "ok")
    /\ UNCHANGED <<chainVars, fileVars, dbVars, copy, ids>>

IssueCredentials(r) ==
    \/ Reject(r) \/ StorageFails(r)
    \/ IssueValidate(r) \/ IssueCheckBalance(r) \/ IssueAcquire(r)
    \/ IssueSend(r) \/ IssueSendFails(r) \/ IssueConfirmed(r) \/ IssueUnconfirmed(r)
    \/ IssueWriteCsv(r) \/ IssueWriteCsvFails(r) \/ IssueWriteAnchor(r)
    \/ IssueReload(r) \/ IssueSave(r) \/ IssueMirror(r) \/ IssueRecord(r)
    \/ IssueAudit(r)

-----------------------------------------------------------------------------
(* revoke_credentials: takes no lock, and neither looks for an earlier     *)
(* revocation of the same record nor for duplicates in the payload.        *)

\* (Mutant) The datasets to revoke are not looked up.
RevokeValidateBlind(r) ==
    /\ pc[r] = "start"
    /\ \E p \in Payloads :
          /\ p # <<>>
          /\ ids' = [ids EXCEPT ![r] = p]
    /\ Goto(r, "rev_append")
    /\ UNCHANGED <<chainVars, fileVars, dbVars, audit, lock, copy>>

RevokeValidate(r) ==
    /\ pc[r] = "start"
    /\ \E p \in Payloads :
          /\ p # <<>>
          /\ \A i \in DOMAIN p : dataset[p[i]] # NoFile
          /\ ids' = [ids EXCEPT ![r] = p]
    /\ Goto(r, "rev_append")
    /\ UNCHANGED <<chainVars, fileVars, dbVars, audit, lock, copy>>

RevokeAppend(r) ==
    /\ pc[r] = "rev_append"
    /\ revocations' = revocations \o ids[r]
    /\ Goto(r, "rev_load")
    /\ UNCHANGED <<chainVars, meta, dataset, anchor, dbVars, audit, lock, copy, ids>>

\* The file does not open, or write_all stops part of the way.
RevokeAppendFails(r) ==
    /\ pc[r] = "rev_append"
    /\ \E n \in 0..(Len(ids[r]) - 1) :
          revocations' = revocations \o SubSeq(ids[r], 1, n)
    /\ Return(r, "failed")
    /\ UNCHANGED <<chainVars, meta, dataset, anchor, dbVars, audit, copy, ids>>

RevokeLoad(r) ==
    /\ pc[r] = "rev_load"
    /\ copy' = [copy EXCEPT ![r] = meta]
    /\ Goto(r, "rev_save")
    /\ UNCHANGED <<chainVars, fileVars, dbVars, audit, lock, ids>>

RevokeSave(r) ==
    LET m == [copy[r] EXCEPT !.revoked = @ + Len(ids[r])]
    IN  /\ pc[r] = "rev_save"
        /\ meta' = m
        /\ copy' = [copy EXCEPT ![r] = m]
        /\ Goto(r, "rev_mirror")
        /\ UNCHANGED <<chainVars, dataset, anchor, revocations, dbVars, audit, lock, ids>>

RevokeMirror(r) ==
    /\ pc[r] = "rev_mirror"
    /\ UpsertPoolMeta(copy[r])
    /\ Goto(r, "rev_records")
    /\ UNCHANGED <<chainVars, fileVars, dbIssued, dbRevoked, audit, lock, copy, ids>>

\* One transaction per credential id, each of which may fail.
RevokeRecords(r) ==
    LET asked == {ids[r][i] : i \in DOMAIN ids[r]}
    IN  /\ pc[r] = "rev_records"
        /\ \E written \in SUBSET asked :
              /\ DbMayFail \/ written = asked
              /\ dbRevoked' = dbRevoked \cup written
        /\ Goto(r, "rev_audit")
        /\ UNCHANGED <<chainVars, fileVars, dbMeta, dbIssued, audit, lock, copy, ids>>

RevokeAudit(r) ==
    /\ pc[r] = "rev_audit"
    /\ Log("CredentialRevoked", r)
    /\ Answer(r, "ok")
    /\ UNCHANGED <<chainVars, fileVars, dbVars, copy, ids>>

RevokeCredentials(r) ==
    \/ Reject(r) \/ StorageFails(r)
    \/ RevokeValidate(r) \/ RevokeAppend(r) \/ RevokeAppendFails(r)
    \/ RevokeLoad(r) \/ RevokeSave(r) \/ RevokeMirror(r) \/ RevokeRecords(r)
    \/ RevokeAudit(r)

-----------------------------------------------------------------------------
(* The environment.                                                        *)

\* The DRT program burns one append DRT, or the transaction fails.
ChainExecute(r) ==
    /\ tx[r] = "sent"
    /\ IF balance >= 1
       THEN /\ balance' = balance - 1
            /\ tx' = [tx EXCEPT ![r] = "burned"]
       ELSE /\ balance' = balance
            /\ tx' = [tx EXCEPT ![r] = "failed"]
    /\ UNCHANGED <<fileVars, dbVars, audit, lock, pc, copy, ids>>

\* The transaction is dropped: its blockhash expires.
ChainExpire(r) ==
    /\ tx[r] = "sent"
    /\ tx' = [tx EXCEPT ![r] = "expired"]
    /\ UNCHANGED <<balance, fileVars, dbVars, audit, lock, pc, copy, ids>>

\* The client goes away while the handler awaits: the handler is dropped.
Disconnect(r) ==
    /\ pc[r] \in {"balance", "lock", "send", "confirm"}
    /\ Return(r, "lost")
    /\ UNCHANGED <<chainVars, fileVars, dbVars, audit, copy, ids>>

\* The enclave stops and is started again: mutexes are in memory.
Restart ==
    /\ \E r \in Requests : pc[r] \notin Terminal \cup {"start"}
    /\ pc' = [r \in Requests |->
                 IF pc[r] \in Terminal \cup {"start"} THEN pc[r] ELSE "lost"]
    /\ lock' = Free
    /\ UNCHANGED <<chainVars, fileVars, dbVars, audit, copy, ids>>

Next ==
    \/ \E r \in Inits : InitializePool(r)
    \/ \E r \in Issues : IssueCredentials(r) \/ Disconnect(r)
    \/ \E r \in Revokes : RevokeCredentials(r)
    \/ \E r \in Issues : ChainExecute(r) \/ ChainExpire(r)
    \/ Restart

Spec == Init /\ [][Next]_vars

\* The runtime polls every task that can go on, and await_confirmation gives
\* up after its timeout: each handler takes its next step eventually.
Fairness ==
    /\ \A r \in Inits : WF_vars(InitializePool(r))
    /\ \A r \in Issues : WF_vars(IssueCredentials(r))
    /\ \A r \in Revokes : WF_vars(RevokeCredentials(r))

FairSpec == Spec /\ Fairness

-----------------------------------------------------------------------------
(* Correctness.                                                            *)

TypeOK ==
    /\ balance \in 0..Supply
    /\ tx \in [Issues -> {"none", "sent", "burned", "failed", "expired"}]
    /\ meta \in Metas
    /\ dataset \in [RecordIds -> Uploads \cup {NoFile}]
    /\ anchor \in [RecordIds -> Uploads \cup {NoFile}]
    /\ revocations \in Seq(RecordIds)
    /\ dbMeta \in Metas
    /\ dbIssued \subseteq RecordIds
    /\ dbRevoked \subseteq RecordIds
    /\ audit \subseteq {"DatasetInitialized", "CredentialIssued",
                        "CredentialIssuanceFailed", "CredentialRevoked"} \X Requests
    /\ lock \in Issues \cup {Free}
    /\ pc \in [Requests -> Labels]
    /\ copy \in [Requests -> Metas]
    /\ ids \in [Revokes -> Seq(RecordIds)]

Stored == {id \in RecordIds : dataset[id] # NoFile}

\* Every stored issuance has cost one append DRT: what the supply has paid
\* for bounds what is stored, whatever times out, fails or restarts (the
\* burn comes first in issue_credentials).
IssuancesPaid == Cardinality(Stored \ {Initial}) + balance <= Supply

\* The records never run ahead of the files: an issuance record in redb has
\* its dataset, a revocation in redb is in revocations.jsonl, and what is
\* revoked there is a stored dataset (the order of the writes in
\* initialize_pool, issue_credentials and revoke_credentials).
RecordsBacked ==
    /\ dbIssued \subseteq Stored
    /\ dbRevoked \subseteq {revocations[i] : i \in DOMAIN revocations}
    /\ \A i \in DOMAIN revocations : revocations[i] \in Stored

\* No append DRT is spent, and the pool is nowhere Ready, before the initial
\* dataset and its anchor are on disk (the check of meta.state comes before
\* the burn, and initialize_pool saves Ready last).
NothingBeforeInitial ==
    (\/ meta.state = "Ready" \/ dbMeta.state = "Ready"
     \/ \E r \in Issues : tx[r] # "none")
    => dataset[Initial] # NoFile /\ anchor[Initial] # NoFile

\* The audit trail tells what happened: CredentialIssued only for a paid and
\* stored issuance, CredentialIssuanceFailed only for a DRT that was burned
\* with nothing stored.
AuditTruthful ==
    \A r \in Issues :
        /\ <<"CredentialIssued", r>> \in audit => tx[r] = "burned" /\ r \in Stored
        /\ <<"CredentialIssuanceFailed", r>> \in audit => tx[r] = "burned" /\ r \notin Stored

\* "Per-pool mutexes to serialize issuance operations" (state.rs): no two
\* issuances are past the mutex at once, restarts and disconnects included.
IssuersSerialized ==
    \A r, q \in Issues : pc[r] \in Critical /\ pc[q] \in Critical => r = q

Begun(r) == pc[r] \notin {"start", "rejected"}

\* No revocation, and at most one initialization, has passed its checks:
\* they do not take the mutex.
Undisturbed ==
    /\ \A v \in Revokes : ~Begun(v)
    /\ \A m, n \in Inits : Begun(m) /\ Begun(n) => m = n

\* An issuance adds its own rows to the total as it is, and nothing else
\* changes in pool.meta.json: the load and the save of issue_credentials
\* are as good as one step, as long as the pool is Undisturbed.
IssueAddsItsRows ==
    [][\A r \in Issues :
          Undisturbed /\ pc[r] = "save" /\ pc'[r] = "mirror"
          => meta' = [meta EXCEPT !.total = @ + Rows[r]]]_vars

\* An Undisturbed pool that has become Ready stays Ready (no handler goes
\* back, but each saves the metadata it loaded earlier).
ReadyIsPermanent ==
    [][Undisturbed /\ meta.state = "Ready" => meta'.state = "Ready"]_vars

\* The data rows that the uploads in S carry, and their number.
DataRows(S) == UNION {{r} \X (1..Rows[r]) : r \in S}
RowsOf(S) == Cardinality(DataRows(S))

\* PoolSummaryResponse.total_rows: "Total CSV rows that have been uploaded
\* into this pool across all initialize + issue calls" (credentials.rs),
\* for the calls that were answered 200.
TotalRowsCounted == RowsOf({r \in Uploads : pc[r] = "ok"}) <= meta.total

\* The rows of issuances that the mutex serializes are all counted.
RowsCountedUndisturbed == Undisturbed => TotalRowsCounted

\* Every request that has started is answered: the mutex is always released
\* (or the process restarts), and nothing waits for a transaction for ever.
RequestsEnd == \A r \in Requests : pc[r] # "start" ~> pc[r] \in Terminal

=============================================================================
