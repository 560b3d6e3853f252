---------------------------- MODULE ScriptsProofs -----------------------------
(***************************************************************************)
(* Proofs about Scripts, for any clients, scripts and number of engines:   *)
(* only the script on record runs, stale artifacts are replaced, and what  *)
(* the script cache holds stays there; about ScriptMemory, for any sizes   *)
(* and alignments; and about GuestMemory, for any guest and any width of   *)
(* its integers.                                                           *)
(*                                                                         *)
(* OnlyVerifiedRuns rests on what a query holds from its hash check on     *)
(* (Holds) and on what every artifact on disk was compiled from            *)
(* (ArtifactsVerified), whichever query or process wrote it.               *)
(* StaleReplaced is not inductive: a task is spawned several steps before  *)
(* it runs, and its query may have gone since; Replaced speaks of every    *)
(* task from its start.                                                    *)
(*                                                                         *)
(* BlocksDisjoint follows from the order in which blocks are handed out    *)
(* (InOrder) and from where each allocator goes on (Frontiers).            *)
(* HostStaysInside is inductive with the types of what the guest returned. *)
(***************************************************************************)
EXTENDS Scripts, ScriptMemory, GuestMemory, TLAPS

\* From the check of the hash on a query holds its script, until its task
\* has ended; before, it has no task.
Holds(q) ==
    /\ pc[q] \in {"store", "storing", "prime", "compile", "exec"} \/ worker[q] # "none" =>
           bytes[q] = script[q]
    /\ pc[q] \in Running \ {"wait"} => worker[q] = "none"
    /\ worker[q] \in {"heal", "running"} => module[q] = script[q]

ArtifactsVerified ==
    \A h \in Hashes : cwasm[h] # NoFile => cwasm[h].of = h

Replaced(q) ==
    /\ pc[q] \in {"exec", "wait"} \/ worker[q] # "none"
    /\ script[q] \in Valid
    /\ script[q] \notin unsaved
    => Loadable(script[q])

IInv ==
    /\ TypeOK
    /\ ArtifactsVerified
    /\ \A q \in Queries : Holds(q) /\ Replaced(q)

-----------------------------------------------------------------------------

\* An earlier process has left only artifacts of the scripts they are named
\* after, and no query is under way.
LEMMA InitInv == Init => IInv
<1> SUFFICES ASSUME Init
             PROVE  IInv
  OBVIOUS
<1>1. TypeOK
  BY EngineAssumption DEF Init, TypeOK, Done, Answers
<1>2. ArtifactsVerified
  BY DEF Init, ArtifactsVerified
<1>3. \A q \in Queries : Holds(q) /\ Replaced(q)
  BY Zenon DEF Init, Holds, Replaced, Running
<1> QED
  BY <1>1, <1>2, <1>3 DEF IInv

\* Steps that leave the artifacts alone and move only the query q, which
\* comes to hold its script or already does, keep the invariant.
LEMMA QueryStep ==
    ASSUME IInv, NEW q \in Queries, NEW label \in Running \cup Done,
           Goto(q, label),
           UNCHANGED <<script, cwasm, engine, task, unsaved>>,
           wasm' \in [Hashes -> Contents \cup {NoFile, Torn}],
           mixed' \subseteq Queries,
           bytes' = bytes \/ (worker[q] = "none" /\ \E c \in Contents \cup {NoFile} :
                                  bytes' = [bytes EXCEPT ![q] = c]),
           label \in {"store", "storing", "prime", "compile", "exec"} => bytes'[q] = script[q],
           label \in Running \ {"wait"} => worker[q] = "none",
           label \in {"exec", "wait"} => Replaced(q)'
    PROVE  IInv'
<1> USE DEF Goto, task
<1>0. TypeOK /\ ArtifactsVerified /\ \A p \in Queries : Holds(p) /\ Replaced(p)
  BY DEF IInv
<1>1. TypeOK'
  BY <1>0 DEF TypeOK
<1>2. ArtifactsVerified'
  BY <1>0 DEF ArtifactsVerified
<1>3. ASSUME NEW p \in Queries
      PROVE  Holds(p)' /\ Replaced(p)'
  <2>1. CASE p = q
    <3>1. pc'[p] = label /\ worker'[p] = worker[p] /\ module'[p] = module[p]
      BY <1>0, <2>1 DEF TypeOK
    <3>2. worker[p] # "none" => bytes'[p] = script[p]
      BY <1>0, <2>1 DEF Holds
    <3>3. Holds(p)'
      BY <1>0, <2>1, <3>1, <3>2 DEF Holds
    <3>4. Replaced(p)'
      BY <1>0, <2>1, <3>1 DEF Replaced, Loadable
    <3> QED
      BY <3>3, <3>4
  <2>2. CASE p # q
    <3>1. pc'[p] = pc[p] /\ bytes'[p] = bytes[p]
      BY <1>0, <2>2 DEF TypeOK
    <3> QED
      BY <1>0, <3>1 DEF Holds, Replaced, Loadable
  <2> QED
    BY <2>1, <2>2
<1> QED
  BY <1>1, <1>2, <1>3 DEF IInv

\* Issuing, rejecting, downloading and storing keep the invariant.
LEMMA FetchInv ==
    ASSUME IInv, NEW q \in Queries, Issue(q) \/ FetchAndVerify(q) \/ HttpGet(q)
    PROVE  IInv'
<1> USE DEF files, history, Running, Done, Answers
<1>0. /\ TypeOK /\ Holds(q) /\ script[q] \in Hashes /\ script[q] \in Contents
      /\ bytes[q] \in Contents \cup {NoFile}
  BY DEF IInv, TypeOK, Contents
<1>1. CASE Issue(q)
  BY Zenon, <1>0, <1>1, QueryStep DEF Issue, TypeOK
<1>2. CASE RejectUrl(q) \/ HeadTimeout(q) \/ HeadArrives(q) \/ BodyFails(q)
  BY <1>0, <1>2, QueryStep DEF RejectUrl, HeadTimeout, HeadArrives, BodyFails, TypeOK, Holds
<1>3. CASE TryLoad(q)
  <2>1. CASE wasm[script[q]] = script[q]
    <3>1. Goto(q, "prime") /\ bytes' = [bytes EXCEPT ![q] = script[q]] /\ worker[q] = "none"
      BY <1>0, <1>3, <2>1 DEF TryLoad, Holds
    <3> QED
      BY Zenon, <1>0, <1>3, <3>1, QueryStep DEF TryLoad, TypeOK
  <2>2. CASE wasm[script[q]] # script[q]
    BY <1>0, <1>3, <2>2, QueryStep DEF TryLoad, TypeOK, Holds
  <2> QED
    BY <2>1, <2>2
<1>4. CASE BodyArrives(q)
  <2>1. worker[q] = "none"
    BY <1>0, <1>4 DEF BodyArrives, Holds
  <2>2. CASE Goto(q, "store") /\ bytes' = [bytes EXCEPT ![q] = script[q]]
    BY Zenon, <1>0, <1>4, <2>1, <2>2, QueryStep DEF BodyArrives, TypeOK
  <2>3. CASE Goto(q, "bad_request") /\ bytes' = bytes
    BY <1>0, <1>4, <2>1, <2>3, QueryStep DEF BodyArrives, TypeOK
  <2> QED
    BY <1>4, <2>2, <2>3 DEF BodyArrives
<1>5. CASE StoreOpen(q)
  <2>1. mixed' \subseteq Queries
    BY <1>0, <1>5 DEF StoreOpen, TypeOK
  <2> QED
    BY <1>0, <1>5, <2>1, QueryStep DEF StoreOpen, TypeOK, Holds
<1>6. CASE StoreOk(q) \/ StoreFails(q)
  <2>1. wasm' \in [Hashes -> Contents \cup {NoFile, Torn}]
    BY <1>0, <1>6 DEF StoreOk, StoreFails, Outcomes, TypeOK
  <2> QED
    BY <1>0, <1>6, <2>1, QueryStep DEF StoreOk, StoreFails, TypeOK, Holds
<1> QED
  BY <1>1, <1>2, <1>3, <1>4, <1>5, <1>6 DEF FetchAndVerify, HttpGet

\* Writing the artifact of a script, or failing to, keeps what is known of
\* the artifacts and of every query whose label and task stay.
LEMMA SaveKeeps ==
    ASSUME IInv, NEW h \in Hashes, Save(h, h) \/ SaveFails(h),
           UNCHANGED <<script, engine>>
    PROVE  /\ cwasm' \in [Hashes -> Artifacts \cup {NoFile}]
           /\ unsaved' \subseteq Hashes
           /\ ArtifactsVerified'
           /\ h \in unsaved' \/ Loadable(h)'
           /\ \A g \in Hashes : g \notin unsaved' =>
                  g \notin unsaved \/ Loadable(g)'
           /\ \A g \in Hashes : Loadable(g) => Loadable(g)'
<1>0. TypeOK /\ ArtifactsVerified
  BY DEF IInv
<1>1. CASE Save(h, h)
  <2> DEFINE a == [of |-> h, engine |-> engine]
  <2>1. a \in Artifacts /\ a # NoFile /\ a.of = h /\ a.engine = engine
    BY <1>0, ContentsAssumption DEF TypeOK, Artifacts, Contents
  <2>2. cwasm' = [cwasm EXCEPT ![h] = a] /\ unsaved' = unsaved \ {h}
    BY <1>1 DEF Save
  <2> HIDE DEF a
  <2> QED
    BY <1>0, <2>1, <2>2 DEF TypeOK, ArtifactsVerified, Loadable
<1>2. CASE SaveFails(h)
  BY <1>0, <1>2 DEF SaveFails, TypeOK, ArtifactsVerified, Loadable
<1> QED
  BY <1>1, <1>2

\* ensure_precompiled, execute_cached and the timeout keep the invariant.
LEMMA ExecuteInv ==
    ASSUME IInv, NEW q \in Queries, Execute(q) \/ Disconnect(q)
    PROVE  IInv'
<1> USE DEF files, history, task, Running, Done, Answers
<1>0. /\ TypeOK /\ ArtifactsVerified /\ script[q] \in Hashes
      /\ \A p \in Queries : Holds(p) /\ Replaced(p)
  BY DEF IInv, TypeOK
<1>1. CASE NoData(q) \/ InputTooLarge(q) \/ WallTimeout(q) \/ Disconnect(q)
  BY <1>0, <1>1, QueryStep DEF NoData, InputTooLarge, WallTimeout, Disconnect, TypeOK
<1>2. CASE Precompiled(q)
  <2>1. bytes[q] = script[q] /\ worker[q] = "none"
    BY <1>0, <1>2 DEF Precompiled, Holds
  <2>2. CASE Loadable(script[q])
    <3>1. Goto(q, "exec") /\ Replaced(q)'
      BY <1>2, <2>2 DEF Precompiled, Replaced, Loadable
    <3> QED
      BY <1>0, <1>2, <2>1, <3>1, QueryStep DEF Precompiled, TypeOK
  <2>3. CASE ~Loadable(script[q])
    <3>1. Goto(q, "compile")
      BY <1>2, <2>3 DEF Precompiled
    <3> QED
      BY <1>0, <1>2, <2>1, <3>1, QueryStep DEF Precompiled, TypeOK
  <2> QED
    BY <2>2, <2>3
<1>3. CASE Precompile(q)
  <2>1. bytes[q] = script[q] /\ worker[q] = "none" /\ pc' = [pc EXCEPT ![q] = "exec"]
    BY <1>0, <1>3 DEF Precompile, Holds, Goto
  <2>2. UNCHANGED <<script, wasm, engine, bytes, worker, module, cached, mixed>>
    BY <1>3 DEF Precompile
  <2>3. CASE script[q] \notin Valid /\ UNCHANGED <<cwasm, unsaved>>
    <3>1. Goto(q, "exec") /\ Replaced(q)'
      BY <2>1, <2>2, <2>3 DEF Replaced, Goto
    <3> QED
      BY <1>0, <2>1, <2>2, <2>3, <3>1, QueryStep DEF TypeOK
  <2>4. CASE Save(script[q], script[q]) \/ SaveFails(script[q])
    <3>1. /\ cwasm' \in [Hashes -> Artifacts \cup {NoFile}]
          /\ unsaved' \subseteq Hashes
          /\ ArtifactsVerified'
          /\ script[q] \in unsaved' \/ Loadable(script[q])'
          /\ \A g \in Hashes : g \notin unsaved' => g \notin unsaved \/ Loadable(g)'
          /\ \A g \in Hashes : Loadable(g) => Loadable(g)'
      BY <1>0, <2>2, <2>4, SaveKeeps
    <3>2. TypeOK'
      BY <1>0, <2>1, <2>2, <3>1 DEF TypeOK
    <3>3. ASSUME NEW p \in Queries
          PROVE  Holds(p)' /\ Replaced(p)'
      <4>1. script[p] \in Hashes
        BY <1>0 DEF TypeOK
      <4>2. CASE p = q
        BY <1>0, <2>1, <2>2, <3>1, <4>2 DEF TypeOK, Holds, Replaced, Loadable
      <4>3. CASE p # q
        BY <1>0, <2>1, <2>2, <3>1, <4>1, <4>3 DEF TypeOK, Holds, Replaced, Loadable
      <4> QED
        BY <4>2, <4>3
    <3> QED
      BY <3>1, <3>2, <3>3 DEF IInv
  <2> QED
    BY <1>3, <2>1, <2>3, <2>4 DEF Precompile
<1>4. CASE Spawn(q)
  <2>1. /\ bytes[q] = script[q] /\ worker[q] = "none" /\ Replaced(q) /\ pc[q] = "exec"
        /\ pc' = [pc EXCEPT ![q] = "wait"]
        /\ worker' = [worker EXCEPT ![q] = "load"]
        /\ UNCHANGED <<script, wasm, cwasm, engine, bytes, module, mixed, unsaved>>
    BY <1>0, <1>4 DEF Spawn, Holds, Goto
  <2>2. TypeOK' /\ ArtifactsVerified'
    BY <1>0, <1>4, <2>1 DEF Spawn, TypeOK, ArtifactsVerified
  <2>3. ASSUME NEW p \in Queries
        PROVE  Holds(p)' /\ Replaced(p)'
    BY <1>0, <2>1 DEF TypeOK, Holds, Replaced, Loadable
  <2> QED
    BY <2>2, <2>3 DEF IInv
<1> QED
  BY <1>1, <1>2, <1>3, <1>4 DEF Execute

\* The steps of a task keep the invariant, whether or not its query waits.
LEMMA TaskInv ==
    ASSUME IInv, NEW q \in Queries, RunBlocking(q)
    PROVE  IInv'
<1> USE DEF files, history, Goto
<1>0. /\ TypeOK /\ ArtifactsVerified /\ script[q] \in Hashes
      /\ \A p \in Queries : Holds(p) /\ Replaced(p)
  BY DEF IInv, TypeOK
<1>1. ASSUME NEW a \in Answers, Finish(q, a), worker[q] # "none",
             UNCHANGED <<script, wasm, cwasm, engine, bytes, cached, mixed, unsaved>>
      PROVE  IInv'
  <2>1. /\ worker' = [worker EXCEPT ![q] = "none"]
        /\ module' = [module EXCEPT ![q] = NoFile]
        /\ pc' = pc \/ (pc[q] = "wait" /\ pc' = [pc EXCEPT ![q] = a])
    BY <1>1 DEF Finish
  <2>2. TypeOK' /\ ArtifactsVerified'
    BY <1>0, <1>1, <2>1 DEF TypeOK, ArtifactsVerified, Done
  <2>3. ASSUME NEW p \in Queries
        PROVE  Holds(p)' /\ Replaced(p)'
    <3>1. CASE p = q
      <4>1. /\ worker'[p] = "none" /\ pc'[p] \in Answers \cup {pc[p]}
            /\ pc[p] \notin Running \ {"wait"}
        BY <1>0, <1>1, <2>1, <3>1 DEF TypeOK, Holds
      <4> QED
        BY <1>0, <1>1, <3>1, <4>1 DEF Holds, Replaced, Loadable, Answers, Running
    <3>2. CASE p # q
      <4>1. worker'[p] = worker[p] /\ module'[p] = module[p] /\ pc'[p] = pc[p]
        BY <1>0, <2>1, <3>2 DEF TypeOK
      <4> QED
        BY <1>0, <1>1, <4>1 DEF Holds, Replaced, Loadable
    <3> QED
      BY <3>1, <3>2
  <2> QED
    BY <2>2, <2>3 DEF IInv
<1>2. CASE LoadModule(q)
  <2>1. /\ worker[q] = "load" /\ bytes[q] = script[q]
        /\ UNCHANGED <<script, wasm, cwasm, engine, pc, bytes, cached, mixed, unsaved>>
    BY <1>0, <1>2 DEF LoadModule, Holds
  <2>2. PICK l \in {"heal", "running"} : worker' = [worker EXCEPT ![q] = l]
    BY Zenon, <1>2 DEF LoadModule
  <2>3. module' = [module EXCEPT ![q] = script[q]]
    <3>1. UseArtifact(q) => cwasm[script[q]].of = script[q]
      BY <1>0 DEF UseArtifact, Loadable, ArtifactsVerified
    <3> QED
      BY Zenon, <1>2, <2>1, <3>1 DEF LoadModule
  <2>4. TypeOK' /\ ArtifactsVerified'
    BY <1>0, <2>1, <2>2, <2>3 DEF TypeOK, ArtifactsVerified, Contents
  <2>5. ASSUME NEW p \in Queries
        PROVE  Holds(p)' /\ Replaced(p)'
    BY <1>0, <2>1, <2>2, <2>3 DEF TypeOK, Holds, Replaced, Loadable
  <2> QED
    BY <2>4, <2>5 DEF IInv
<1>3. CASE LoadFails(q)
  BY <1>1, <1>3 DEF LoadFails, Answers
<1>4. CASE HealCwasm(q)
  <2>1. /\ worker[q] = "heal" /\ module[q] = script[q] /\ bytes[q] = script[q]
        /\ worker' = [worker EXCEPT ![q] = "running"]
        /\ UNCHANGED <<script, wasm, engine, pc, bytes, module, cached, mixed>>
    BY <1>0, <1>4 DEF HealCwasm, Holds
  <2>2. /\ cwasm' \in [Hashes -> Artifacts \cup {NoFile}]
        /\ unsaved' \subseteq Hashes
        /\ ArtifactsVerified'
        /\ script[q] \in unsaved' \/ Loadable(script[q])'
        /\ \A g \in Hashes : g \notin unsaved' => g \notin unsaved \/ Loadable(g)'
        /\ \A g \in Hashes : Loadable(g) => Loadable(g)'
    <3>1. Save(script[q], script[q]) \/ SaveFails(script[q])
      BY <1>4, <2>1 DEF HealCwasm
    <3> QED
      BY <1>0, <2>1, <3>1, SaveKeeps
  <2>3. TypeOK'
    BY <1>0, <2>1, <2>2 DEF TypeOK
  <2>4. ASSUME NEW p \in Queries
        PROVE  Holds(p)' /\ Replaced(p)'
    <3>1. script[p] \in Hashes
      BY <1>0 DEF TypeOK
    <3>2. Holds(p)'
      BY <1>0, <2>1 DEF TypeOK, Holds
    <3>3. Replaced(p)'
      BY <1>0, <2>1, <2>2, <3>1 DEF TypeOK, Replaced, Loadable
    <3> QED
      BY <3>2, <3>3
  <2> QED
    BY <2>2, <2>3, <2>4 DEF IInv
<1>5. CASE RunEnds(q)
  BY <1>1, <1>5 DEF RunEnds
<1> QED
  BY <1>2, <1>3, <1>4, <1>5 DEF RunBlocking

\* A restart, with the same engine or another, keeps the invariant.
LEMMA RestartInv == IInv /\ Restart => IInv'
<1> SUFFICES ASSUME IInv, Restart
             PROVE  IInv'
  OBVIOUS
<1> USE DEF files
<1>0. TypeOK /\ ArtifactsVerified
  BY DEF IInv
<1>1. TypeOK' /\ ArtifactsVerified'
  BY <1>0 DEF Restart, TypeOK, ArtifactsVerified, Done
<1>2. ASSUME NEW q \in Queries
      PROVE  Holds(q)' /\ Replaced(q)'
  <2>1. worker'[q] = "none" /\ pc'[q] \in Done
    BY DEF Restart, Done
  <2> QED
    BY <2>1 DEF Holds, Replaced, Done, Answers, Running
<1> QED
  BY <1>1, <1>2 DEF IInv

\* The invariant is inductive.
LEMMA NextInv == IInv /\ [Next]_vars => IInv'
<1> SUFFICES ASSUME IInv, [Next]_vars
             PROVE  IInv'
  OBVIOUS
<1>1. CASE UNCHANGED vars
  BY <1>1 DEF IInv, TypeOK, ArtifactsVerified, Holds, Replaced, Loadable, vars, files, task,
              history
<1> QED
  BY <1>1, FetchInv, ExecuteInv, TaskInv, RestartInv DEF Next, Step

\* The invariant holds in every state.
LEMMA Invariance == Spec => []IInv
<1>1. Init => IInv
  BY InitInv
<1>2. IInv /\ [Next]_vars => IInv'
  BY NextInv
<1> QED
  BY <1>1, <1>2, PTL DEF Spec

\* Caches, queries and tasks keep their types through overlapping queries and
\* restarts with other engines.
THEOREM TypeCorrect == Spec => []TypeOK
<1>1. IInv => TypeOK
  BY DEF IInv
<1> QED
  BY <1>1, Invariance, PTL

\* run_blocking runs only the script whose hash is on record.
THEOREM OnlyVerifiedRunsHolds == Spec => []OnlyVerifiedRuns
<1>1. IInv => OnlyVerifiedRuns
  BY DEF IInv, Holds, OnlyVerifiedRuns
<1> QED
  BY <1>1, Invariance, PTL

\* After ensure_precompiled or heal_cwasm the artifact of a query loads,
\* unless its last write failed.
THEOREM StaleReplacedHolds == Spec => []StaleReplaced
<1>1. IInv => StaleReplaced
  BY DEF IInv, Replaced, StaleReplaced
<1> QED
  BY <1>1, Invariance, PTL

\* What CachedStays asks of a step.
Stays ==
    \A h \in Hashes :
        /\ wasm[h] = h
        /\ \A q \in mixed : script[q] = h => pc[q] # "storing"
        => wasm'[h] = h

\* Only store_in_cache writes a script, and it writes what was verified.
LEMMA StaysStep == IInv /\ [Next]_vars => Stays
<1> SUFFICES ASSUME IInv, [Next]_vars
             PROVE  Stays
  OBVIOUS
<1> USE DEF files
<1>0. TypeOK /\ \A q \in Queries : Holds(q)
  BY DEF IInv
<1>1. ASSUME NEW q \in Queries, StoreOk(q) \/ StoreFails(q)
      PROVE  Stays
  <2>1. pc[q] = "storing" /\ bytes[q] = script[q]
    BY <1>0, <1>1 DEF StoreOk, StoreFails, Holds
  <2>2. SUFFICES ASSUME NEW h \in Hashes, wasm[h] = h,
                        \A p \in mixed : script[p] = h => pc[p] # "storing"
                 PROVE  wasm'[h] = h
    BY DEF Stays
  <2>3. CASE script[q] = h
    <3>1. q \notin mixed
      BY <2>1, <2>2, <2>3
    <3>2. wasm' = [wasm EXCEPT ![h] = h]
      BY <1>1, <2>1, <2>2, <2>3, <3>1 DEF StoreOk, StoreFails, Outcomes
    <3> QED
      BY <1>0, <3>2 DEF TypeOK
  <2>4. CASE script[q] # h
    BY Zenon, <1>0, <1>1, <2>2, <2>4 DEF StoreOk, StoreFails, TypeOK
  <2> QED
    BY <2>3, <2>4
<1>2. ASSUME NEW q \in Queries,
             \/ Issue(q) \/ HttpGet(q) \/ Execute(q) \/ RunBlocking(q) \/ Disconnect(q)
             \/ RejectUrl(q) \/ TryLoad(q) \/ HeadTimeout(q) \/ StoreOpen(q)
      PROVE  wasm' = wasm
  BY Zenon, <1>2 DEF Issue, HttpGet, HeadArrives, BodyArrives, BodyFails, Execute, NoData,
     Precompiled, Precompile, InputTooLarge, Spawn, WallTimeout, RunBlocking, LoadModule,
     LoadFails, HealCwasm, RunEnds, Disconnect, RejectUrl, TryLoad, HeadTimeout, StoreOpen
<1>3. Restart \/ UNCHANGED vars => wasm' = wasm
  BY DEF Restart, vars
<1>4. wasm' = wasm => Stays
  BY DEF Stays
<1> QED
  BY <1>1, <1>2, <1>3, <1>4 DEF Next, Step, FetchAndVerify

\* A script in the cache stays there while no two writes of its file meet.
THEOREM CachedStaysHolds == Spec => CachedStays
<1>1. Init => IInv
  BY InitInv
<1>2. IInv /\ [Next]_vars => IInv'
  BY NextInv
<1>3. IInv /\ [Next]_vars => [Stays]_vars
  BY StaysStep
<1>4. Spec => [][Stays]_vars
  BY <1>1, <1>2, <1>3, PTL DEF Spec
<1> QED
  BY <1>4 DEF CachedStays, Stays

-----------------------------------------------------------------------------
(* ScriptMemory.                                                           *)

\* Alignment goes up, to a multiple.
LEMMA AlignedUp ==
  ASSUME NEW n \in Nat, NEW a \in Nat \ {0}
  PROVE  AlignUp(n, a) \in Nat /\ AlignUp(n, a) >= n
<1> DEFINE q == (n + a - 1) \div a
<1>1. q \in Int /\ n + a - 1 >= 0
  OBVIOUS
<1>2. a * q <= n + a - 1 /\ n + a - 1 < a * q + a
  OBVIOUS
<1>3. q >= 0
  OBVIOUS
<1>4. q * a = a * q /\ q * a \in Nat
  BY <1>1, <1>3
<1> QED
  BY <1>2, <1>4 DEF AlignUp

\* The memory grows far enough, and never shrinks.
LEMMA GrownFar ==
  ASSUME memory \in Nat, NEW next \in Nat
  PROVE  Grown(next) \in Nat /\ Grown(next) >= memory /\ next <= Grown(next) * PageSize
<1> DEFINE needed == next - memory * PageSize
           q == (needed + PageSize - 1) \div PageSize
<1>1. PageSize \in Nat \ {0} /\ memory * PageSize \in Nat
  BY ScriptMemoryAssumption
<1>2. CASE needed > 0
  <2>1. needed \in Int /\ q \in Int
    BY <1>1
  <2>2. needed + PageSize - 1 < PageSize * q + PageSize
    BY <1>1, <2>1
  <2>3. q >= 0
    BY <1>1, <1>2, <2>1
  <2>4. (memory + q) * PageSize = memory * PageSize + PageSize * q
    BY <1>1, <2>1
  <2>5. Grown(next) = memory + q
    BY <1>2 DEF Grown
  <2> HIDE DEF q
  <2> QED
    BY <1>1, <2>1, <2>2, <2>3, <2>4, <2>5
<1>3. CASE ~(needed > 0)
  BY <1>1, <1>3 DEF Grown
<1> QED
  BY <1>2, <1>3

BlockRecords == [at : Nat, size : Nat, public : BOOLEAN]

ScriptMemoryType ==
    /\ memory \in Nat /\ publicOffset \in Nat /\ globalOffset \in Nat
    /\ blocks \in Seq(BlockRecords)

\* Each allocator stands at the end of its blocks.
Frontiers ==
    /\ publicOffset = 0 \/ publicOffset >= HeapBase
    /\ globalOffset = 0 \/ globalOffset >= HeapBase + Gap
    /\ \A k \in DOMAIN blocks :
          IF blocks[k].public
          THEN HeapBase <= blocks[k].at /\ publicOffset # 0 /\ End(blocks[k]) <= publicOffset
          ELSE HeapBase + Gap <= blocks[k].at /\ globalOffset # 0 /\ End(blocks[k]) <= globalOffset

\* Blocks of one allocator follow each other, inside the memory.
InOrder ==
    /\ \A k \in DOMAIN blocks : End(blocks[k]) <= memory * PageSize
    /\ \A i, j \in DOMAIN blocks :
          i < j /\ blocks[i].public = blocks[j].public => End(blocks[i]) <= blocks[j].at

ScriptMemoryInv == ScriptMemoryType /\ Frontiers /\ InOrder

\* What the allocators have in common: a block that starts at or after the
\* ends of all of its kind keeps the order.
LEMMA GrantInOrder ==
  ASSUME ScriptMemoryType, InOrder, NEW at \in Nat, NEW size \in Nat, NEW public \in BOOLEAN,
         \A k \in DOMAIN blocks : blocks[k].public = public => End(blocks[k]) <= at,
         memory' = Grown(at + size), blocks' = Append(blocks, Block(at, size, public))
  PROVE  /\ memory' \in Nat
         /\ blocks' \in Seq(BlockRecords)
         /\ InOrder'
<1> DEFINE new == Block(at, size, public)
<1>1. new \in BlockRecords
      /\ new.at = at /\ new.public = public /\ End(new) = at + size
  BY DEF Block, End, BlockRecords
<1> HIDE DEF new
<1>2. memory' \in Nat /\ memory' >= memory /\ at + size <= memory' * PageSize
  <2>1. at + size \in Nat /\ memory \in Nat
    BY DEF ScriptMemoryType
  <2> QED
    BY Zenon, <2>1, GrownFar
<1>3. /\ blocks' \in Seq(BlockRecords)
      /\ DOMAIN blocks = 1..Len(blocks) /\ DOMAIN blocks' = 1..(Len(blocks) + 1) /\ Len(blocks) \in Nat
      /\ \A k \in DOMAIN blocks : blocks'[k] = blocks[k]
      /\ blocks'[Len(blocks) + 1] = new
  BY <1>1 DEF ScriptMemoryType, new
<1>4. \A k \in DOMAIN blocks : blocks[k] \in BlockRecords
  BY DEF ScriptMemoryType
<1>5. \A k \in DOMAIN blocks : End(blocks[k]) \in Nat
  BY <1>4 DEF End, BlockRecords
<1>6. memory * PageSize <= memory' * PageSize /\ memory * PageSize \in Nat /\ memory' * PageSize \in Nat
  BY <1>2, ScriptMemoryAssumption DEF ScriptMemoryType
<1>7. \A k \in DOMAIN blocks' : End(blocks'[k]) <= memory' * PageSize
  <2>1. \A k \in DOMAIN blocks : End(blocks'[k]) <= memory' * PageSize
    BY <1>3, <1>5, <1>6 DEF InOrder
  <2> QED
    BY <1>1, <1>2, <1>3, <2>1
<1>8. ASSUME NEW i \in DOMAIN blocks', NEW j \in DOMAIN blocks', i < j,
             blocks'[i].public = blocks'[j].public
      PROVE  End(blocks'[i]) <= blocks'[j].at
  <2>1. i \in DOMAIN blocks
    BY <1>3, <1>8
  <2>2. CASE j \in DOMAIN blocks
    BY <1>3, <1>8, <2>1, <2>2 DEF InOrder
  <2>3. CASE j = Len(blocks) + 1
    BY <1>1, <1>3, <1>8, <2>1, <2>3
  <2> QED
    BY <1>3, <2>2, <2>3
<1> QED
  BY <1>2, <1>3, <1>7, <1>8 DEF InOrder

\* The exported alloc keeps the blocks apart.
LEMMA PublicAllocInv ==
  ASSUME ScriptMemoryInv, NEW size \in Sizes, PublicAlloc(size)
  PROVE  ScriptMemoryInv'
<1> DEFINE cur == IF publicOffset = 0 THEN HeapBase ELSE publicOffset
           at == AlignUp(cur, 8)
<1>1. cur \in Nat /\ cur >= HeapBase /\ size \in Nat
  BY ScriptMemoryAssumption DEF ScriptMemoryInv, ScriptMemoryType, Frontiers
<1>2. at \in Nat /\ at >= cur
  BY <1>1, AlignedUp
<1>3. /\ memory' = Grown(at + size) /\ publicOffset' = at + size
      /\ blocks' = Append(blocks, Block(at, size, TRUE)) /\ globalOffset' = globalOffset
  BY DEF PublicAlloc
<1>4. \A k \in DOMAIN blocks : blocks[k].public = TRUE => publicOffset # 0 /\ End(blocks[k]) <= publicOffset
  BY DEF ScriptMemoryInv, Frontiers
<1>5. \A k \in DOMAIN blocks : blocks[k] \in BlockRecords
  BY DEF ScriptMemoryInv, ScriptMemoryType
<1>6. \A k \in DOMAIN blocks : End(blocks[k]) \in Nat
  BY <1>5 DEF End, BlockRecords
<1>7. publicOffset \in Nat
  BY DEF ScriptMemoryInv, ScriptMemoryType
<1>8. publicOffset # 0 => publicOffset <= at
  BY <1>2, <1>7
<1> HIDE DEF at, cur
<1>9. \A k \in DOMAIN blocks : blocks[k].public = TRUE => End(blocks[k]) <= at
  BY <1>2, <1>4, <1>6, <1>7, <1>8
<1>10. /\ memory' \in Nat /\ blocks' \in Seq(BlockRecords)
       /\ InOrder'
  BY <1>1, <1>2, <1>3, <1>9, GrantInOrder DEF ScriptMemoryInv
<1>11. Frontiers'
  <2> DEFINE new == Block(at, size, TRUE)
  <2>1. new \in BlockRecords /\ new.at = at /\ new.public = TRUE /\ End(new) = at + size
    BY <1>1, <1>2 DEF Block, End, BlockRecords
  <2>0. blocks' = Append(blocks, new) /\ blocks \in Seq(BlockRecords)
    BY Zenon, <1>3 DEF ScriptMemoryInv, ScriptMemoryType
  <2> HIDE DEF new
  <2>2. /\ DOMAIN blocks = 1..Len(blocks) /\ DOMAIN blocks' = 1..(Len(blocks) + 1) /\ Len(blocks) \in Nat
        /\ \A k \in DOMAIN blocks : blocks'[k] = blocks[k]
        /\ blocks'[Len(blocks) + 1] = new
    BY <2>0, <2>1
  <2>3. HeapBase \in Nat \ {0}
    BY ScriptMemoryAssumption
  <2>4. publicOffset' # 0 /\ publicOffset' >= HeapBase /\ at >= HeapBase
    BY <1>1, <1>2, <1>3, <2>3
  <2>5. \A k \in DOMAIN blocks : blocks[k].public => HeapBase <= blocks[k].at /\ End(blocks[k]) <= publicOffset'
    BY <1>1, <1>2, <1>3, <1>5, <1>6, <1>9 DEF ScriptMemoryInv, Frontiers
  <2>6. \A k \in DOMAIN blocks : ~blocks[k].public =>
           HeapBase + Gap <= blocks[k].at /\ globalOffset # 0 /\ End(blocks[k]) <= globalOffset
    BY DEF ScriptMemoryInv, Frontiers
  <2>7. End(new) <= publicOffset'
    BY <1>1, <1>2, <1>3, <2>1
  <2>8. globalOffset' = 0 \/ globalOffset' >= HeapBase + Gap
    BY <1>3 DEF ScriptMemoryInv, Frontiers
  <2>9. \A k \in DOMAIN blocks' : k \in DOMAIN blocks \/ k = Len(blocks) + 1
    BY <2>2
  <2> QED
    BY <1>3, <2>1, <2>2, <2>4, <2>5, <2>6, <2>7, <2>8, <2>9 DEF Frontiers
<1>12. ScriptMemoryType'
  <2>1. at + size \in Nat
    BY <1>1, <1>2
  <2> QED
    BY Zenon, <1>3, <1>10, <2>1 DEF ScriptMemoryInv, ScriptMemoryType
<1> QED
  BY Zenon, <1>10, <1>11, <1>12 DEF ScriptMemoryInv

\* So does the global allocator, for any size and alignment it is asked for.
LEMMA GlobalAllocInv ==
  ASSUME ScriptMemoryInv, NEW size \in Sizes, NEW align \in Aligns, GlobalAlloc(size, align)
  PROVE  ScriptMemoryInv'
<1> DEFINE cur == IF globalOffset = 0 THEN HeapBase + Gap ELSE globalOffset
           at == AlignUp(cur, align)
<1>1. cur \in Nat /\ cur >= HeapBase + Gap /\ size \in Nat /\ align \in Nat \ {0}
  BY ScriptMemoryAssumption DEF ScriptMemoryInv, ScriptMemoryType, Frontiers
<1>2. at \in Nat /\ at >= cur
  BY <1>1, AlignedUp
<1>3. /\ memory' = Grown(at + size) /\ globalOffset' = at + size
      /\ blocks' = Append(blocks, Block(at, size, FALSE)) /\ publicOffset' = publicOffset
  BY DEF GlobalAlloc
<1>4. \A k \in DOMAIN blocks : blocks[k].public = FALSE => globalOffset # 0 /\ End(blocks[k]) <= globalOffset
  BY DEF ScriptMemoryInv, Frontiers
<1>5. \A k \in DOMAIN blocks : blocks[k] \in BlockRecords
  BY DEF ScriptMemoryInv, ScriptMemoryType
<1>6. \A k \in DOMAIN blocks : End(blocks[k]) \in Nat
  BY <1>5 DEF End, BlockRecords
<1>7. globalOffset \in Nat
  BY DEF ScriptMemoryInv, ScriptMemoryType
<1>8. globalOffset # 0 => globalOffset <= at
  BY <1>2, <1>7
<1> HIDE DEF at, cur
<1>9. \A k \in DOMAIN blocks : blocks[k].public = FALSE => End(blocks[k]) <= at
  BY <1>2, <1>4, <1>6, <1>7, <1>8
<1>10. /\ memory' \in Nat /\ blocks' \in Seq(BlockRecords)
       /\ InOrder'
  BY <1>1, <1>2, <1>3, <1>9, GrantInOrder DEF ScriptMemoryInv
<1>11. Frontiers'
  <2> DEFINE new == Block(at, size, FALSE)
  <2>1. new \in BlockRecords /\ new.at = at /\ new.public = FALSE /\ End(new) = at + size
    BY <1>1, <1>2 DEF Block, End, BlockRecords
  <2>0. blocks' = Append(blocks, new) /\ blocks \in Seq(BlockRecords)
    BY Zenon, <1>3 DEF ScriptMemoryInv, ScriptMemoryType
  <2> HIDE DEF new
  <2>2. /\ DOMAIN blocks = 1..Len(blocks) /\ DOMAIN blocks' = 1..(Len(blocks) + 1) /\ Len(blocks) \in Nat
        /\ \A k \in DOMAIN blocks : blocks'[k] = blocks[k]
        /\ blocks'[Len(blocks) + 1] = new
    BY <2>0, <2>1
  <2>3. HeapBase + Gap \in Nat \ {0}
    BY ScriptMemoryAssumption
  <2>4. globalOffset' # 0 /\ globalOffset' >= HeapBase + Gap /\ at >= HeapBase + Gap
    BY <1>1, <1>2, <1>3, <2>3
  <2>5. \A k \in DOMAIN blocks : ~blocks[k].public =>
           HeapBase + Gap <= blocks[k].at /\ End(blocks[k]) <= globalOffset'
    BY <1>1, <1>2, <1>3, <1>5, <1>6, <1>9 DEF ScriptMemoryInv, Frontiers
  <2>6. \A k \in DOMAIN blocks : blocks[k].public =>
           HeapBase <= blocks[k].at /\ publicOffset # 0 /\ End(blocks[k]) <= publicOffset
    BY DEF ScriptMemoryInv, Frontiers
  <2>7. End(new) <= globalOffset'
    BY <1>1, <1>2, <1>3, <2>1
  <2>8. publicOffset' = 0 \/ publicOffset' >= HeapBase
    BY <1>3 DEF ScriptMemoryInv, Frontiers
  <2>9. \A k \in DOMAIN blocks' : k \in DOMAIN blocks \/ k = Len(blocks) + 1
    BY <2>2
  <2> QED
    BY <1>3, <2>1, <2>2, <2>4, <2>5, <2>6, <2>7, <2>8, <2>9 DEF Frontiers
<1>12. ScriptMemoryType'
  <2>1. at + size \in Nat
    BY <1>1, <1>2
  <2> QED
    BY Zenon, <1>3, <1>10, <2>1 DEF ScriptMemoryInv, ScriptMemoryType
<1> QED
  BY Zenon, <1>10, <1>11, <1>12 DEF ScriptMemoryInv

\* Blocks of the two allocators cannot meet while the public ones stay low.
LEMMA InvDisjoint == ScriptMemoryInv => BlocksDisjoint
<1> SUFFICES ASSUME ScriptMemoryInv PROVE BlocksDisjoint
  OBVIOUS
<1>1. HeapBase \in Nat /\ Gap \in Nat
  BY ScriptMemoryAssumption
<1>2. \A k \in DOMAIN blocks : blocks[k] \in BlockRecords
  BY DEF ScriptMemoryInv, ScriptMemoryType
<1>3. \A k \in DOMAIN blocks : blocks[k].at \in Nat /\ End(blocks[k]) \in Nat /\ blocks[k].public \in BOOLEAN
  BY <1>2 DEF End, BlockRecords
<1>4. \A k \in DOMAIN blocks : HeapBase <= blocks[k].at /\ End(blocks[k]) <= memory * PageSize
  BY <1>1, <1>3 DEF ScriptMemoryInv, Frontiers, InOrder
<1>5. ASSUME \A k \in DOMAIN blocks : blocks[k].public => End(blocks[k]) <= HeapBase + Gap,
             NEW i \in DOMAIN blocks, NEW j \in DOMAIN blocks, i < j
      PROVE  End(blocks[i]) <= blocks[j].at \/ End(blocks[j]) <= blocks[i].at
  <2>1. CASE blocks[i].public = blocks[j].public
    BY <1>5, <2>1 DEF ScriptMemoryInv, InOrder
  <2>2. CASE blocks[i].public /\ ~blocks[j].public
    <3>1. End(blocks[i]) <= HeapBase + Gap /\ HeapBase + Gap <= blocks[j].at
      BY <1>5, <2>2 DEF ScriptMemoryInv, Frontiers
    <3> QED
      BY <1>1, <1>3, <3>1
  <2>3. CASE ~blocks[i].public /\ blocks[j].public
    <3>1. End(blocks[j]) <= HeapBase + Gap /\ HeapBase + Gap <= blocks[i].at
      BY <1>5, <2>3 DEF ScriptMemoryInv, Frontiers
    <3> QED
      BY <1>1, <1>3, <3>1
  <2> QED
    BY <1>3, <2>1, <2>2, <2>3
<1> QED
  BY <1>4, <1>5 DEF BlocksDisjoint

\* For any heap base, gap, page size and any sizes and alignments: what
\* alloc and GlobalAlloc hand out lies inside the memory and is disjoint.
THEOREM BlocksDisjointHolds == ScriptMemorySpec => []BlocksDisjoint
<1>1. ScriptMemoryInit => ScriptMemoryInv
  BY ScriptMemoryAssumption DEF ScriptMemoryInit, ScriptMemoryInv, ScriptMemoryType, Frontiers, InOrder
<1>2. ScriptMemoryInv /\ [ScriptMemoryNext]_scriptVars => ScriptMemoryInv'
  <2> SUFFICES ASSUME ScriptMemoryInv, [ScriptMemoryNext]_scriptVars PROVE ScriptMemoryInv'
    OBVIOUS
  <2>1. CASE UNCHANGED scriptVars
    BY <2>1 DEF scriptVars, ScriptMemoryInv, ScriptMemoryType, Frontiers, InOrder
  <2> QED
    BY <2>1, PublicAllocInv, GlobalAllocInv DEF ScriptMemoryNext
<1> QED
  BY <1>1, <1>2, InvDisjoint, PTL DEF ScriptMemorySpec

-----------------------------------------------------------------------------
(* GuestMemory.                                                            *)

\* A cast to usize is a number below 2^64.
LEMMA AsUsize == ASSUME NEW i \in Int PROVE as_usize(i) \in Nat /\ as_usize(i) < Usize
  BY GuestMemoryAssumption DEF as_usize

\* Wrapping an integer to 32 bits gives an integer.
LEMMA WrapI32 == ASSUME NEW i \in Int PROVE wrap_i32(i) \in Int
<1>1. I32 \in Nat \ {0} /\ I32 \div 2 \in Int
  BY GuestMemoryAssumption
<1>2. (i + I32 \div 2) % I32 \in Int
  BY <1>1
<1> QED
  BY <1>1, <1>2 DEF wrap_i32

\* What the guest can return is an integer.
LEMMA I32sAreIntegers == I32s \subseteq Int
<1> SUFFICES ASSUME NEW i \in (-I32)..I32 PROVE i \in Int
  BY DEF I32s
<1> QED
  BY GuestMemoryAssumption

GuestType ==
    /\ dataSize \in Nat /\ ptr \in Int /\ outPtr \in Int /\ outLen \in Int
    /\ touched \in [from : Nat, to : Nat]

GuestInv == GuestType /\ HostStaysInside

\* What the checked accesses touch is inside the memory.
LEMMA TouchInside ==
  ASSUME GuestType, NEW offset \in Nat, NEW len \in Nat, Accessible(offset, len), Touch(offset, len)
  PROVE  /\ touched' \in [from : Nat, to : Nat]
         /\ 0 <= touched'.from /\ touched'.from <= touched'.to /\ touched'.to <= dataSize
         /\ touched'.to - touched'.from = len
  BY DEF GuestType, Accessible, Inside, Touch

\* Every step of the host and of the guest keeps the invariant of the memory.
LEMMA GuestNextInv ==
  ASSUME GuestInv, [GuestNext]_guestVars
  PROVE  GuestInv'
<1>0. GuestType /\ I32s \subseteq Int
  BY I32sAreIntegers DEF GuestInv
<1> USE GuestMemoryAssumption DEF GuestInv, HostStaysInside, out
<1>1. CASE GuestGrows
  <2>1. dataSize' \in Nat /\ dataSize' > dataSize /\ stage # "ok" /\ UNCHANGED <<stage, touched, ptr, out>>
    BY <1>1 DEF GuestGrows, Calls
  <2>2. touched.from \in Nat /\ touched.to \in Nat
    BY DEF GuestType
  <2>3. touched.to <= dataSize'
    BY <1>0, <2>1, <2>2 DEF GuestType
  <2> QED
    BY <2>1, <2>3 DEF GuestType
<1>2. CASE AllocReturns
  BY <1>0, <1>2 DEF AllocReturns, GuestType
<1>3. CASE RunReturns \/ CallFails
  BY <1>3 DEF RunReturns, CallFails, GuestType
<1>4. ASSUME NEW src \in I32s, NEW len \in I32s, host_log(src, len) PROVE GuestInv'
  <2>1. as_usize(src) \in Nat /\ as_usize(len) \in Nat
    BY <1>0, AsUsize
  <2> DEFINE to == (as_usize(src) + IF as_usize(len) < LogMax THEN as_usize(len) ELSE LogMax) % Usize
  <2>2. to \in Nat
    BY <2>1
  <2>3. /\ touched' = [from |-> as_usize(src), to |-> to] /\ as_usize(src) <= to /\ to <= dataSize
        /\ UNCHANGED <<stage, dataSize, ptr, out>> /\ stage # "ok"
    BY <1>4 DEF host_log, Inside, Calls
  <2> HIDE DEF to
  <2> QED
    BY <2>1, <2>2, <2>3 DEF GuestType
<1>5. ASSUME NEW len \in InputLens, write_into_memory(len) PROVE GuestInv'
  <2>1. as_usize(ptr) \in Nat /\ len \in Nat
    BY AsUsize DEF GuestType
  <2>2. CASE Accessible(as_usize(ptr), len)
    <3>1. Touch(as_usize(ptr), len) /\ UNCHANGED <<dataSize, ptr, out>> /\ stage' # "ok"
      BY <1>5, <2>2 DEF write_into_memory
    <3> QED
      BY <1>0, <2>1, <2>2, <3>1, TouchInside DEF GuestType
  <2>3. CASE ~Accessible(as_usize(ptr), len)
    BY <1>5, <2>3 DEF write_into_memory, GuestType
  <2> QED
    BY <2>2, <2>3
<1>6. CASE read_cells
  <2> DEFINE first == as_usize(ptr)
             second == as_usize(wrap_i32(ptr + CellSize))
  <2>1. first \in Nat /\ second \in Nat /\ CellSize \in Nat
    BY AsUsize, WrapI32 DEF GuestType
  <2>2. CASE stage' = "trap"
    BY <1>6, <2>2 DEF read_cells, GuestType
  <2>3. CASE stage' # "trap"
    <3>1. /\ \/ Accessible(first, CellSize) /\ Touch(first, CellSize) /\ outPtr' \in I32s /\ outLen' = outLen
             \/ Accessible(second, CellSize) /\ Touch(second, CellSize) /\ outLen' \in I32s /\ outPtr' = outPtr
          /\ UNCHANGED <<dataSize, ptr>> /\ stage' # "ok"
      BY <1>6, <2>3 DEF read_cells
    <3> HIDE DEF first, second
    <3>2. /\ touched' \in [from : Nat, to : Nat]
          /\ 0 <= touched'.from /\ touched'.from <= touched'.to /\ touched'.to <= dataSize
      BY Zenon, <1>0, <2>1, <3>1, TouchInside
    <3>3. GuestType'
      BY <1>0, <3>1, <3>2 DEF GuestType
    <3> QED
      BY <3>1, <3>2, <3>3
  <2> QED
    BY <2>2, <2>3
<1>7. CASE read_body
  <2>1. as_usize(outPtr) \in Nat
    BY AsUsize DEF GuestType
  <2>2. CASE stage' = "ok"
    <3>1. /\ ~(outLen < 0) /\ ~(outLen > MaxOutput) /\ UNCHANGED <<dataSize, ptr, out>>
          /\ Accessible(as_usize(outPtr), outLen) /\ Touch(as_usize(outPtr), outLen)
      BY Zenon, <1>7, <2>2 DEF read_body
    <3>2. outLen \in Nat /\ outLen <= MaxOutput
      BY <3>1 DEF GuestType
    <3> QED
      BY <1>0, <2>1, <3>1, <3>2, TouchInside DEF GuestType
  <2>3. CASE stage' # "ok"
    BY <1>7, <2>3 DEF read_body, GuestType
  <2> QED
    BY <2>2, <2>3
<1>8. CASE UNCHANGED guestVars
  BY <1>8 DEF guestVars, GuestType
<1> QED
  BY <1>1, <1>2, <1>3, <1>4, <1>5, <1>6, <1>7, <1>8 DEF GuestNext

\* For integers of any width, memories of any dataSize and any guest, run_blocking
\* and host_log stay inside the memory of the guest.
THEOREM HostStaysInsideHolds == GuestSpec => []HostStaysInside
<1>1. GuestInit => GuestInv
  <2> SUFFICES ASSUME GuestInit PROVE GuestInv
    OBVIOUS
  <2>1. touched = [from |-> 0, to |-> 0] /\ dataSize = 0 /\ stage # "ok"
    BY DEF GuestInit
  <2>2. touched \in [from : Nat, to : Nat] /\ touched.from = 0 /\ touched.to = 0
    BY <2>1
  <2>3. GuestType
    <3>1. dataSize = 0 /\ ptr = 0 /\ outPtr = 0 /\ outLen = 0
      BY Zenon DEF GuestInit
    <3>2. dataSize \in Nat /\ ptr \in Int /\ outPtr \in Int /\ outLen \in Int
      BY <3>1
    <3> QED
      BY Zenon, <2>2, <3>2 DEF GuestType
  <2> QED
    BY <2>1, <2>2, <2>3 DEF GuestInv, HostStaysInside
<1>2. GuestInv => HostStaysInside
  BY DEF GuestInv
<1> QED
  BY <1>1, <1>2, GuestNextInv, PTL DEF GuestSpec
=============================================================================
