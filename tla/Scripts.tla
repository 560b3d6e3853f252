------------------------------- MODULE Scripts -------------------------------
(***************************************************************************)
(* How data_query (handlers.rs) comes by the script it runs, and runs it:  *)
(*                                                                         *)
(*   - drt/verified_fetch.rs: the cache of scripts by hash on the          *)
(*     encrypted file system, the download on a miss, the hash check;      *)
(*   - drt/runtime.rs: the cache of compiled artifacts, which only the     *)
(*     engine that compiled them loads, the worker on the blocking pool    *)
(*     that instantiates and runs the module, the wall-clock timeout;      *)
(*   - http_client.rs: a timeout on the head of an answer, none on its     *)
(*     body.                                                               *)
(*                                                                         *)
(* Queries of the same script overlap: they share both cache entries.  A   *)
(* query that timed out, or whose client went away, leaves its worker      *)
(* running.  A restart ends everything under way and may bring another     *)
(* engine (a new wasmtime, Config or CPU).                                 *)
(*                                                                         *)
(* A write of the script cache goes through EncryptedStorage::atomic_write *)
(* (one temporary name per file), one of the artifact cache through        *)
(* atomic_write of drt/runtime.rs (a temporary of its own per call): the   *)
(* module AtomicWrite shows what each of them guarantees, and the steps    *)
(* below use just that.                                                    *)
(***************************************************************************)
EXTENDS Naturals

CONSTANTS
    Queries,      \* clients: each issues one data_query after the other
    Hashes,       \* hashes of registered scripts; h also names the script
    Valid,        \* contents that are WASM modules the engine compiles
    Other,        \* a body that is not the script asked for
    Torn,         \* what two overlapping writes may leave
    NoFile,       \* no such file, no bytes
    MaxEngine     \* bound: how often the engine changes

ASSUME ContentsAssumption ==
    /\ Other \notin Hashes
    /\ Torn \notin Hashes \cup {Other}
    /\ NoFile \notin Hashes \cup {Other, Torn}
    /\ NoFile \notin [of : Hashes \cup {Other}, engine : 0..MaxEngine]
ASSUME ValidAssumption == Valid \subseteq Hashes \cup {Other}
ASSUME EngineAssumption == MaxEngine \in Nat

VARIABLES
    script,       \* script[q]: the hash on record for the DRT q names
    wasm,         \* wasm[h]: the file /data/drt-scripts/{h}
    cwasm,        \* cwasm[h]: the artifact /data/drt-scripts/{h}.wt37.cwasm
    engine,       \* the engine of this process
    pc,           \* pc[q]: where the query q is
    bytes,        \* bytes[q]: the script q holds
    worker,       \* worker[q]: where the blocking task of q is
    module,       \* module[q]: the script the task of q has loaded
    cached,       \* cached[q]: the artifact existed when q was handed over
    mixed,        \* writes of the script cache that met another of their file
    unsaved       \* history: scripts whose last artifact write failed

files == <<wasm, cwasm>>
task == <<worker, module, cached>>
history == <<mixed, unsaved>>
vars == <<script, files, engine, pc, bytes, task, history>>

Contents == Hashes \cup {Other}
Artifacts == [of : Contents, engine : 0..MaxEngine]
Running == {"lookup", "head", "body", "store", "storing", "prime",
            "compile", "exec", "wait"}
Answers == {"ok", "bad_request", "internal"}
Done == Answers \cup {"gone"}

Goto(q, label) == pc' = [pc EXCEPT ![q] = label]

\* An earlier life of the process may have left files.
Init ==
    /\ script \in [Queries -> Hashes]
    /\ wasm \in [Hashes -> {NoFile, Torn}]
    /\ cwasm \in {f \in [Hashes -> {NoFile} \cup Artifacts] :
                    \A h \in Hashes : f[h] # NoFile =>
                        f[h].of = h /\ h \in Valid /\ f[h].engine = 0}
    /\ engine \in {0, 1} \cap 0..MaxEngine
    /\ pc = [q \in Queries |-> "gone"]
    /\ bytes = [q \in Queries |-> NoFile]
    /\ worker = [q \in Queries |-> "none"]
    /\ module = [q \in Queries |-> NoFile]
    /\ cached = [q \in Queries |-> FALSE]
    /\ mixed = {}
    /\ unsaved = {}

\* A client that has its answer asks again.
Issue(q) ==
    /\ pc[q] \in Done
    /\ worker[q] = "none"
    /\ Goto(q, "lookup")
    /\ bytes' = [bytes EXCEPT ![q] = NoFile]
    /\ UNCHANGED <<script, files, engine, task, history>>

-----------------------------------------------------------------------------
(* fetch_and_verify.                                                       *)

\* The URL is not on the allowlist, or the hash is not 64 hex digits.
RejectUrl(q) ==
    /\ pc[q] = "lookup"
    /\ Goto(q, "bad_request")
    /\ UNCHANGED <<script, files, engine, bytes, task, history>>

\* try_load_from_cache: the bytes are hashed again; anything but the script
\* is a miss.
TryLoad(q) ==
    /\ pc[q] = "lookup"
    /\ IF wasm[script[q]] = script[q]
       THEN Goto(q, "prime") /\ bytes' = [bytes EXCEPT ![q] = script[q]]
       ELSE Goto(q, "head") /\ UNCHANGED bytes
    /\ UNCHANGED <<script, files, engine, task, history>>

HeadArrives(q) ==
    /\ pc[q] = "head"
    /\ Goto(q, "body")
    /\ UNCHANGED <<script, files, engine, bytes, task, history>>

\* (Mutant) The client waits for the head as long as it takes.
HeadTimeoutNever(q) ==
    /\ FALSE
    /\ UNCHANGED vars

\* No connection, or no head within FETCH_TIMEOUT.
HeadTimeout(q) ==
    /\ pc[q] = "head"
    /\ Goto(q, "internal")
    /\ UNCHANGED <<script, files, engine, bytes, task, history>>

\* (Mutant) The body goes to the cache before it is hashed.
BodyArrivesUnchecked(q) ==
    /\ pc[q] = "body"
    /\ \E c \in {script[q], Other} :
          /\ Goto(q, "store")
          /\ bytes' = [bytes EXCEPT ![q] = c]
    /\ UNCHANGED <<script, files, engine, task, history>>

\* The body is complete: a script is kept only if its hash is the one asked.
BodyArrives(q) ==
    /\ pc[q] = "body"
    /\ \E c \in Contents :
          IF c = script[q]
          THEN Goto(q, "store") /\ bytes' = [bytes EXCEPT ![q] = c]
          ELSE Goto(q, "bad_request") /\ UNCHANGED bytes
    /\ UNCHANGED <<script, files, engine, task, history>>

\* A status other than 2xx, a connection lost (500), or a body over
\* MAX_SCRIPT_BYTES (400).
BodyFails(q) ==
    /\ pc[q] = "body"
    /\ \E a \in {"internal", "bad_request"} : Goto(q, a)
    /\ UNCHANGED <<script, files, engine, bytes, task, history>>

\* store_in_cache opens the temporary; another write of the file may be
\* under way.
StoreOpen(q) ==
    LET rivals == {p \in Queries \ {q} : pc[p] = "storing" /\ script[p] = script[q]}
    IN  /\ pc[q] = "store"
        /\ Goto(q, "storing")
        /\ mixed' = IF rivals = {} THEN mixed \ {q} ELSE mixed \cup rivals \cup {q}
        /\ UNCHANGED <<script, files, engine, bytes, task, unsaved>>

\* What the file may hold after the write of q: alone, the bytes or, when
\* the write failed, what it held; both or neither whole, when writes met.
Outcomes(q, alone) ==
    IF q \in mixed THEN {bytes[q], Torn, wasm[script[q]]} ELSE {alone}

StoreOk(q) ==
    /\ pc[q] = "storing"
    /\ \E c \in Outcomes(q, bytes[q]) : wasm' = [wasm EXCEPT ![script[q]] = c]
    /\ Goto(q, "prime")
    /\ UNCHANGED <<script, cwasm, engine, bytes, task, history>>

\* (Mutant) The file is written in place: a failure leaves part of it.
StoreFailsTorn(q) ==
    /\ pc[q] = "storing"
    /\ wasm' = [wasm EXCEPT ![script[q]] = Torn]
    /\ Goto(q, "internal")
    /\ UNCHANGED <<script, cwasm, engine, bytes, task, history>>

\* No space, or the temporary was renamed away: the query fails (Cache).
StoreFails(q) ==
    /\ pc[q] = "storing"
    /\ \E c \in Outcomes(q, wasm[script[q]]) : wasm' = [wasm EXCEPT ![script[q]] = c]
    /\ Goto(q, "internal")
    /\ UNCHANGED <<script, cwasm, engine, bytes, task, history>>

\* What the host of the scripts does for q.
HttpGet(q) ==
    \/ HeadArrives(q)
    \/ BodyArrives(q)
    \/ BodyFails(q)

\* What the server does for q.
FetchAndVerify(q) ==
    \/ RejectUrl(q)
    \/ TryLoad(q)
    \/ HeadTimeout(q)
    \/ StoreOpen(q)
    \/ StoreOk(q)
    \/ StoreFails(q)

-----------------------------------------------------------------------------
(* ensure_precompiled, execute_cached and the caches of artifacts.         *)

Loadable(h) == cwasm[h] # NoFile /\ cwasm[h].engine = engine

\* atomic_write of the artifact of the module c under the name of h.
Save(h, c) ==
    /\ cwasm' = [cwasm EXCEPT ![h] = [of |-> c, engine |-> engine]]
    /\ unsaved' = unsaved \ {h}

SaveFails(h) == unsaved' = unsaved \cup {h} /\ UNCHANGED cwasm

\* The pool has no data yet.
NoData(q) ==
    /\ pc[q] = "prime"
    /\ Goto(q, "bad_request")
    /\ UNCHANGED <<script, files, engine, bytes, task, history>>

\* (Mutant) An artifact that exists is taken for a good one.
PrecompiledExists(q) ==
    /\ pc[q] = "prime"
    /\ Goto(q, IF cwasm[script[q]] # NoFile THEN "exec" ELSE "compile")
    /\ UNCHANGED <<script, files, engine, bytes, task, history>>

\* The existing artifact is loaded to see whether this engine accepts it.
Precompiled(q) ==
    /\ pc[q] = "prime"
    /\ Goto(q, IF Loadable(script[q]) THEN "exec" ELSE "compile")
    /\ UNCHANGED <<script, files, engine, bytes, task, history>>

\* precompile_module and the write; data_query goes on when either fails.
Precompile(q) ==
    /\ pc[q] = "compile"
    /\ Goto(q, "exec")
    /\ \/ bytes[q] \notin Valid /\ UNCHANGED <<cwasm, unsaved>>
       \/ bytes[q] \in Valid /\ (Save(script[q], bytes[q]) \/ SaveFails(script[q]))
    /\ UNCHANGED <<script, wasm, engine, bytes, task, mixed>>

\* csv.len() > MAX_INPUT_BYTES.
InputTooLarge(q) ==
    /\ pc[q] = "exec"
    /\ Goto(q, "bad_request")
    /\ UNCHANGED <<script, files, engine, bytes, task, history>>

\* execute_cached looks for the artifact and hands over to spawn_blocking.
Spawn(q) ==
    /\ pc[q] = "exec"
    /\ Goto(q, "wait")
    /\ cached' = [cached EXCEPT ![q] = cwasm[script[q]] # NoFile]
    /\ worker' = [worker EXCEPT ![q] = "load"]
    /\ UNCHANGED <<script, files, engine, bytes, module, history>>

\* DEFAULT_WALL_TIMEOUT: the answer is given, the task stays.
WallTimeout(q) ==
    /\ pc[q] = "wait"
    /\ Goto(q, "bad_request")
    /\ UNCHANGED <<script, files, engine, bytes, task, history>>

Execute(q) ==
    \/ NoData(q)
    \/ Precompiled(q)
    \/ Precompile(q)
    \/ InputTooLarge(q)
    \/ Spawn(q)
    \/ WallTimeout(q)

-----------------------------------------------------------------------------
(* run_blocking, on a thread of the blocking pool.                         *)

\* The task ends with the answer a, for a query that still waits.
Finish(q, a) ==
    /\ worker' = [worker EXCEPT ![q] = "none"]
    /\ module' = [module EXCEPT ![q] = NoFile]
    /\ IF pc[q] = "wait" THEN Goto(q, a) ELSE UNCHANGED pc

UseArtifact(q) == cached[q] /\ Loadable(script[q])

\* deserialize_file, or Module::new on the bytes: a bad artifact is healed.
LoadModule(q) ==
    /\ worker[q] = "load"
    /\ UseArtifact(q) \/ bytes[q] \in Valid
    /\ module' = [module EXCEPT ![q] =
                    IF UseArtifact(q) THEN cwasm[script[q]].of ELSE bytes[q]]
    /\ worker' = [worker EXCEPT ![q] =
                    IF cached[q] /\ ~Loadable(script[q]) THEN "heal" ELSE "running"]
    /\ UNCHANGED <<script, files, engine, pc, bytes, cached, history>>

LoadFails(q) ==
    /\ worker[q] = "load"
    /\ ~UseArtifact(q)
    /\ bytes[q] \notin Valid
    /\ Finish(q, "internal")
    /\ UNCHANGED <<script, files, engine, bytes, cached, history>>

\* heal_cwasm: best effort.
HealCwasm(q) ==
    /\ worker[q] = "heal"
    /\ worker' = [worker EXCEPT ![q] = "running"]
    /\ Save(script[q], module[q]) \/ SaveFails(script[q])
    /\ UNCHANGED <<script, wasm, engine, pc, bytes, module, cached, mixed>>

\* (Mutant) The end of a task nobody waits for is not noticed.
RunEndsIfAwaited(q) ==
    /\ worker[q] = "running"
    /\ pc[q] = "wait"
    /\ \E a \in Answers : Finish(q, a)
    /\ UNCHANGED <<script, files, engine, bytes, cached, history>>

\* The run ends, by itself or for lack of fuel: an output (ok), a trap or a
\* limit (bad_request), an export that is missing (internal).
RunEnds(q) ==
    /\ worker[q] = "running"
    /\ \E a \in Answers : Finish(q, a)
    /\ UNCHANGED <<script, files, engine, bytes, cached, history>>

RunBlocking(q) ==
    \/ LoadModule(q)
    \/ LoadFails(q)
    \/ HealCwasm(q)
    \/ RunEnds(q)

-----------------------------------------------------------------------------
(* Faults.                                                                 *)

\* The client is gone: the handler's future is dropped at its await.
Disconnect(q) ==
    /\ pc[q] \in {"head", "body", "wait"}
    /\ Goto(q, "gone")
    /\ UNCHANGED <<script, files, engine, bytes, task, history>>

Restart ==
    /\ engine' \in {engine, engine + 1} \cap 0..MaxEngine
    /\ pc' = [q \in Queries |-> IF pc[q] \in Done THEN pc[q] ELSE "gone"]
    /\ worker' = [q \in Queries |-> "none"]
    /\ module' = [q \in Queries |-> NoFile]
    /\ mixed' = {}
    /\ unsaved' = {}
    /\ UNCHANGED <<script, files, bytes, cached>>

Step(q) == FetchAndVerify(q) \/ Execute(q)

Next ==
    \/ \E q \in Queries :
          \/ Issue(q)
          \/ Step(q)
          \/ HttpGet(q)
          \/ RunBlocking(q)
          \/ Disconnect(q)
    \/ Restart

\* The steps of the server are taken; the host of the scripts owes nothing.
Fairness == \A q \in Queries : WF_vars(Step(q)) /\ WF_vars(RunBlocking(q))

Spec == Init /\ [][Next]_vars /\ Fairness

-----------------------------------------------------------------------------

\* Types; a query past its download holds a script, a task has one loaded.
TypeOK ==
    /\ script \in [Queries -> Hashes]
    /\ wasm \in [Hashes -> Contents \cup {NoFile, Torn}]
    /\ cwasm \in [Hashes -> Artifacts \cup {NoFile}]
    /\ engine \in 0..MaxEngine
    /\ pc \in [Queries -> Running \cup Done]
    /\ bytes \in [Queries -> Contents \cup {NoFile}]
    /\ worker \in [Queries -> {"none", "load", "heal", "running"}]
    /\ module \in [Queries -> Contents \cup {NoFile}]
    /\ cached \in [Queries -> BOOLEAN]
    /\ mixed \subseteq Queries
    /\ unsaved \subseteq Hashes

\* What runs is the script whose hash is on record, whichever of the two
\* caches, the network or an earlier life of the process it came from
\* (data_query, "SHA-256 verify against on-chain hash").
OnlyVerifiedRuns ==
    \A q \in Queries : worker[q] \in {"heal", "running"} => module[q] = script[q]

\* An artifact this engine does not load is replaced by the first query that
\* meets it: from ensure_precompiled on, the artifact of a query's script
\* loads, unless the last attempt to write it failed ("a stale artifact can
\* never pin us to per-query JIT").
StaleReplaced ==
    \A q \in Queries :
        /\ pc[q] \in {"exec", "wait"} \/ worker[q] = "running"
        /\ script[q] \in Valid
        /\ script[q] \notin unsaved
        => Loadable(script[q])

\* A script that is in the cache stays there, whatever the host of the
\* scripts serves later, while no two writes of its file meet.
CachedStays ==
    [][\A h \in Hashes :
          /\ wasm[h] = h
          /\ \A q \in mixed : script[q] = h => pc[q] # "storing"
          => wasm'[h] = h]_vars

\* Every query is answered, or waits for the rest of a body: send's timeout
\* covers the head only.
QuerySettles ==
    \A q \in Queries : pc[q] \in Running ~> pc[q] \in Done \cup {"body"}

\* A task outlives the query that timed out, and yet ends: fuel is finite.
TaskEnds ==
    \A q \in Queries : worker[q] # "none" ~> worker[q] = "none"
=============================================================================
