----------------------------- MODULE AuditTrail ------------------------------
(***************************************************************************)
(* AuditRepository::log (storage/audit.rs): an event is tagged with an     *)
(* HMAC, appended to the day's JSONL file and written to redb.             *)
(*                                                                         *)
(*   - The key is read from a file on the first use in a process, or made  *)
(*     and saved with a plain fs::write (open with truncation, then write).*)
(*   - write_all on a tokio File hands the line to the blocking pool; the  *)
(*     File is dropped without a flush, so the line reaches the file after *)
(*     log has gone on, and an error of that write is never seen.          *)
(*   - Whatever fails is only logged: log never fails.                     *)
(*                                                                         *)
(* A crash loses the lines that are not yet written, or leaves part of     *)
(* one; the line appended after such a part continues it and is not read.  *)
(***************************************************************************)
EXTENDS Naturals, Sequences

CONSTANTS
    Events,       \* calls of log, each with its event
    NoKey,        \* no key, no such file
    TornKey,      \* a key file that does not hold 32 bytes
    MaxLife       \* bound: processes that run one after the other

ASSUME KeysAssumption ==
    /\ MaxLife \in Nat \ {0}
    /\ {NoKey, TornKey} \cap Nat = {} /\ NoKey # TornKey

VARIABLES
    life,         \* which process runs; also names the key it would make
    keyFile,      \* /data/audit/.hmac-key
    key,          \* AUDIT_HMAC_KEY of this process
    keying,       \* where get_or_init is
    stage,        \* stage[e]: where the call of log for e is
    tag,          \* tag[e]: the key e is tagged with
    pending,      \* events handed to the blocking pool, not yet written
    log,          \* the chunks of the JSONL file, in order
    redb,         \* events in the audit tables of redb
    rekeyed       \* history: a key file could not be read, or not be written

keyVars == <<life, keyFile, key, keying, rekeyed>>
auditVars == <<keyVars, stage, tag, pending, log, redb>>

Keys == 1..MaxLife
Chunks == [event : Events, key : Keys, whole : BOOLEAN]
Stages == {"none", "sign", "append", "mirror", "logged", "lost"}

AuditInit ==
    /\ life = 1
    /\ keyFile = NoKey
    /\ key = NoKey
    /\ keying = "idle"
    /\ rekeyed = FALSE
    /\ stage = [e \in Events |-> "none"]
    /\ tag = [e \in Events |-> NoKey]
    /\ pending = {}
    /\ log = <<>>
    /\ redb = {}

Chunk(e, whole) == [event |-> e, key |-> tag[e], whole |-> whole]

-----------------------------------------------------------------------------
(* audit_hmac_key: the first caller initialises the key, others wait.      *)

KeyWanted == key = NoKey /\ \E e \in Events : stage[e] = "sign"

\* (Mutant) Every process makes its own key.
KeyReadNever ==
    /\ KeyWanted
    /\ keying = "idle"
    /\ keying' = "generate"
    /\ UNCHANGED <<life, keyFile, key, rekeyed, stage, tag, pending, log, redb>>

\* A file of the wrong length is taken for no key.
KeyRead ==
    /\ KeyWanted
    /\ keying = "idle"
    /\ IF keyFile \in Keys
       THEN key' = keyFile /\ UNCHANGED keying
       ELSE keying' = "generate" /\ UNCHANGED key
    /\ UNCHANGED <<life, keyFile, rekeyed, stage, tag, pending, log, redb>>

\* Any error of the read, not only "not found", leads to a new key.
KeyReadFails ==
    /\ KeyWanted
    /\ keying = "idle"
    /\ keying' = "generate"
    /\ rekeyed' = TRUE
    /\ UNCHANGED <<life, keyFile, key, stage, tag, pending, log, redb>>

KeyOpen ==
    /\ keying = "generate"
    /\ keying' = "opened"
    /\ keyFile' = TornKey
    /\ UNCHANGED <<life, key, rekeyed, stage, tag, pending, log, redb>>

KeyWritten ==
    /\ keying = "opened"
    /\ keying' = "idle"
    /\ keyFile' = life
    /\ key' = life
    /\ UNCHANGED <<life, rekeyed, stage, tag, pending, log, redb>>

\* "Failed to persist audit HMAC key": the process goes on with its key.
KeyWriteFails ==
    /\ keying \in {"generate", "opened"}
    /\ keying' = "idle"
    /\ key' = life
    /\ rekeyed' = TRUE
    /\ UNCHANGED <<life, keyFile, stage, tag, pending, log, redb>>

AuditHmacKey == KeyRead \/ KeyReadFails \/ KeyOpen \/ KeyWritten \/ KeyWriteFails

-----------------------------------------------------------------------------
(* log.                                                                    *)

StartLog(e) == stage' = [stage EXCEPT ![e] = "sign"]

\* compute_hmac over the event without its tag.
Sign(e) ==
    /\ stage[e] = "sign"
    /\ key # NoKey
    /\ tag' = [tag EXCEPT ![e] = key]
    /\ stage' = [stage EXCEPT ![e] = "append"]
    /\ UNCHANGED <<keyVars, pending, log, redb>>

\* The file is opened and the line handed over; or it cannot be opened.
AppendLine(e) ==
    /\ stage[e] = "append"
    /\ stage' = [stage EXCEPT ![e] = "mirror"]
    /\ pending' \in {pending, pending \cup {e}}
    /\ UNCHANGED <<keyVars, tag, log, redb>>

\* log_audit_event: three tables in one transaction, or a warning.
Mirror(e) ==
    /\ stage[e] = "mirror"
    /\ stage' = [stage EXCEPT ![e] = "logged"]
    /\ redb' \in {redb, redb \cup {e}}
    /\ UNCHANGED <<keyVars, tag, pending, log>>

LogEvent(e) == Sign(e) \/ AppendLine(e) \/ Mirror(e)

\* The blocking pool writes the line, in part when the disk is full.
WriteLine(e) ==
    /\ e \in pending
    /\ pending' = pending \ {e}
    /\ \E whole \in BOOLEAN : log' = Append(log, Chunk(e, whole))
    /\ UNCHANGED <<keyVars, stage, tag, redb>>

AuditSteps == AuditHmacKey \/ \E e \in Events : LogEvent(e) \/ WriteLine(e)

\* The process ends; the file keeps what was written of it.
AuditRestart ==
    /\ life < MaxLife
    /\ life' = life + 1
    /\ key' = NoKey
    /\ keying' = "idle"
    /\ stage' = [e \in Events |->
                   IF stage[e] \in {"sign", "append", "mirror"} THEN "lost" ELSE stage[e]]
    /\ pending' = {}
    /\ log' \in {log} \cup {Append(log, Chunk(e, FALSE)) : e \in pending}
    /\ UNCHANGED <<keyFile, rekeyed, tag, redb>>

\* read_verified_events: lines that parse and whose tag the key confirms.
\* A part of a line has no newline, so the next line does not parse either.
Readable(i) == log[i].whole /\ (i > 1 => log[i - 1].whole)
VerifiedEvents == {log[i].event : i \in {j \in DOMAIN log : Readable(j) /\ log[j].key = key}}

-----------------------------------------------------------------------------

AuditTypeOK ==
    /\ life \in Keys
    /\ keyFile \in Keys \cup {NoKey, TornKey}
    /\ key \in Keys \cup {NoKey}
    /\ keying \in {"idle", "generate", "opened"}
    /\ rekeyed \in BOOLEAN
    /\ stage \in [Events -> Stages]
    /\ tag \in [Events -> Keys \cup {NoKey}]
    /\ pending \subseteq Events
    /\ log \in Seq(Chunks)
    /\ redb \subseteq Events

\* "Stable 32-byte HMAC key": across restarts, and crashes while the key is
\* saved, the process that has its key verifies every line that can be read,
\* unless a key file could once not be read or not be written.
LogVerifiable ==
    key # NoKey /\ ~rekeyed =>
        VerifiedEvents = {log[i].event : i \in {j \in DOMAIN log : Readable(j)}}
=============================================================================
