---------------------------- MODULE StorageProofs ----------------------------
(***************************************************************************)
(* Proofs about what is kept on disk: AtomicWrite, for any number of calls *)
(* and reads; Nonces, for any nonces, age and clock; and Listings, for any *)
(* rows, queries and limits.                                               *)
(*                                                                         *)
(* AtomicWrite: as long as no two calls under way share a temporary, the   *)
(* inode a call writes to is named by its own temporary only (Owns), an    *)
(* inode with a temporary name has never been published (Unpublished), so  *)
(* no published inode is ever written to again; and a call renames only    *)
(* what it has completely written (Complete).                              *)
(*                                                                         *)
(* Nonces: what was answered "new" is in the table or too old to count     *)
(* (NoncesKept), although a purge commits a cutoff it computed before.     *)
(*                                                                         *)
(* Listings: rows are only added, so that a row's place in the order of    *)
(* the keys only grows, and what was not shown yet is at or after the edge *)
(* of the last page (Covered); what was shown is before it (Ordered).      *)
(***************************************************************************)
EXTENDS AtomicWrite, Nonces, Listings, FiniteSetTheorems, TLAPS

\* A call under way has its own temporary, which names the inode it writes.
Owns ==
    /\ \A w \in Active : fd[w] # Nothing /\ tmp[name[w]] = fd[w]
    /\ \A v, w \in Active : name[v] = name[w] => v = w
    /\ unique => \A w \in Active : name[w] < seq
    /\ ~unique => \A w \in Active : name[w] = 0
    /\ \A m, n \in Names : tmp[m] = tmp[n] /\ tmp[m] # Nothing => m = n

\* An inode that a temporary names, or that a call has yet to create, has
\* never been visible under the path.
Unpublished ==
    /\ \A n \in Names : tmp[n] # target
    /\ \A n \in Names, r \in Readers : tmp[n] # Nothing => rfd[r] # tmp[n]
    /\ \A w \in Writers : pc[w] = "start" =>
          /\ target # w
          /\ \A n \in Names : tmp[n] # w
          /\ \A r \in Readers : rfd[r] # w

\* What has been visible is whole, and so is what is about to be.
Complete ==
    /\ content[target] \in Whole
    /\ \A r \in Readers : rfd[r] # Nothing => content[rfd[r]] \in Whole
    /\ \A r \in Readers : got[r] # Torn
    /\ \A w \in Writers : pc[w] = "rename" => content[fd[w]] = w
    /\ \A w \in Writing : mixers[fd[w]] = {w}
    /\ \A w \in Writers : content[target] = w => pc[w] = "ok"

IInv == TypeOK /\ (Exclusive => Owns /\ Unpublished /\ Complete)

-----------------------------------------------------------------------------

\* The name of a temporary is one of the names of the model.
LEMMA TmpNameType == TypeOK => TmpName \in Names
  BY MaxSeqAssumption DEF TypeOK, TmpName, Names

\* TypeOK holds in every reachable state.
LEMMA TypeStep == TypeOK /\ [Next]_vars => TypeOK'
<1> SUFFICES ASSUME TypeOK, [Next]_vars PROVE TypeOK'
  OBVIOUS
<1> USE DEF TypeOK, Inodes, Whole
<1>1. ASSUME NEW w \in Writers, Open(w) PROVE TypeOK'
  <2> DEFINE inode == IF tmp[TmpName] = Nothing THEN w ELSE tmp[TmpName]
  <2>1. TmpName \in Names
    BY TmpNameType
  <2>2. inode \in Inodes
    BY <2>1
  <2>3. seq' \in Names
    BY <1>1, MaxSeqAssumption DEF Open, Names
  <2>4. mixers' \in [Inodes -> SUBSET Writers]
    BY <1>1, <2>2 DEF Open, Writing
  <2> QED
    BY <1>1, <2>1, <2>2, <2>3, <2>4 DEF Open
<1>2. ASSUME NEW w \in Writers, WriteSome(w) PROVE TypeOK'
  BY <1>2 DEF WriteSome
<1>3. ASSUME NEW w \in Writers, WriteRest(w) PROVE TypeOK'
  <2>1. PICK c \in {w, Torn} : content' = [content EXCEPT ![fd[w]] = c]
    BY <1>3 DEF WriteRest
  <2>2. content' \in [Inodes -> Whole \cup {Torn}]
    BY <2>1
  <2> QED
    BY <1>3, <2>2 DEF WriteRest
<1>4. ASSUME NEW w \in Writers, Rename(w) PROVE TypeOK'
  BY <1>4 DEF Rename
<1>5. ASSUME NEW w \in Writers, RenameMissing(w) PROVE TypeOK'
  BY <1>5 DEF RenameMissing
<1>6. ASSUME NEW w \in Writers, WriteFails(w) PROVE TypeOK'
  BY <1>6 DEF WriteFails
<1>7. ASSUME NEW w \in Writers, RenameFails(w) PROVE TypeOK'
  BY <1>7 DEF RenameFails
<1>8. ASSUME NEW r \in Readers, ReadOpen(r) PROVE TypeOK'
  BY <1>8 DEF ReadOpen
<1>9. ASSUME NEW r \in Readers, ReadAll(r) PROVE TypeOK'
  BY <1>9 DEF ReadAll
<1>10. ASSUME Restart PROVE TypeOK'
  BY <1>10, MaxSeqAssumption DEF Restart, Active, Names
<1>11. ASSUME UNCHANGED vars PROVE TypeOK'
  BY <1>11 DEF vars
<1> QED
  BY <1>1, <1>2, <1>3, <1>4, <1>5, <1>6, <1>7, <1>8, <1>9, <1>10, <1>11 DEF Next

-----------------------------------------------------------------------------

\* The induction starts: the target holds the old content, and no call is under way.
LEMMA InitIInv == Init => IInv
<1> SUFFICES ASSUME Init PROVE IInv
  OBVIOUS
<1>1. TypeOK
  <2>1. content \in [Inodes -> Whole \cup {Torn}] /\ target \in Inodes
    BY DEF Init, Inodes, Whole
  <2>2. seq \in Names /\ name \in [Writers -> Names]
    BY MaxSeqAssumption DEF Init, Names
  <2>3. overlapped \in BOOLEAN
    BY DEF Init
  <2> QED
    BY <2>1, <2>2, <2>3 DEF Init, TypeOK
<1>2. Active = {} /\ Writing = {}
  BY DEF Init, Active, Writing
<1>3. Owns
  BY <1>2, MaxSeqAssumption DEF Init, Owns, Names
<1>4. Unpublished
  BY DistinctAssumption DEF Init, Unpublished
<1>5. Complete
  BY <1>2, DistinctAssumption DEF Init, Complete, Inodes, Whole
<1> QED
  BY <1>1, <1>3, <1>4, <1>5 DEF IInv

\* Opening the temporary: it is a new inode, or the leftover of a call that
\* a failure or a restart ended; never one that a live call writes to.
LEMMA OpenStep ==
  ASSUME NEW w \in Writers, TypeOK, Owns, Unpublished, Complete, Exclusive',
         Open(w)
  PROVE  Owns' /\ Unpublished' /\ Complete'
<1> DEFINE inode == IF tmp[TmpName] = Nothing THEN w ELSE tmp[TmpName]
<1>1. TmpName \in Names /\ inode \in Inodes /\ inode # Nothing
  BY TmpNameType, DistinctAssumption DEF TypeOK, Inodes
<1>2. /\ tmp' = [tmp EXCEPT ![TmpName] = inode]
      /\ fd' = [fd EXCEPT ![w] = inode]
      /\ name' = [name EXCEPT ![w] = TmpName]
      /\ pc' = [pc EXCEPT ![w] = "writing"]
      /\ content' = [content EXCEPT ![inode] = Torn]
      /\ mixers' = [mixers EXCEPT ![inode] = {w} \cup {v \in Writing : fd[v] = inode}]
      /\ seq' = seq + 1
      /\ UNCHANGED <<unique, target, rfd, got>>
      /\ pc[w] = "start"
  BY DEF Open
<1>3. w \notin Active /\ w \notin Writing
  BY <1>2 DEF Active, Writing
<1>4. Active' = Active \cup {w} /\ Writing' = Writing \cup {w}
  BY <1>2 DEF Active, Writing, TypeOK
<1>5. \A v \in Active : name[v] # TmpName
  <2>1. CASE unique
    BY <2>1 DEF Owns, TmpName, TypeOK, Names, Active
  <2>2. CASE ~unique
    BY <2>2 DEF Exclusive, Open
  <2> QED
    BY <2>1, <2>2
<1>6. \A v \in Active : fd[v] # inode
  BY <1>1, <1>2, <1>5 DEF Owns, Unpublished, TypeOK, Active
<1>7. Owns'
  <2>1. \A v \in Active' : fd'[v] # Nothing /\ tmp'[name'[v]] = fd'[v]
    BY <1>1, <1>2, <1>3, <1>4, <1>5 DEF Owns, TypeOK, Active
  <2>2. \A u, v \in Active' : name'[u] = name'[v] => u = v
    BY <1>1, <1>2, <1>3, <1>4, <1>5 DEF Owns, TypeOK, Active
  <2>3. ASSUME unique PROVE \A v \in Active' : name'[v] < seq'
    BY <2>3, <1>1, <1>2, <1>3, <1>4 DEF Owns, TypeOK, Active, TmpName, Names
  <2>4. ASSUME ~unique PROVE \A v \in Active' : name'[v] = 0
    BY <2>4, <1>1, <1>2, <1>3, <1>4 DEF Owns, TypeOK, Active, TmpName
  <2>5. \A m, n \in Names : tmp'[m] = tmp'[n] /\ tmp'[m] # Nothing => m = n
    BY <1>1, <1>2 DEF Owns, Unpublished, TypeOK
  <2>6. unique' = unique
    BY <1>2
  <2> QED
    BY <2>1, <2>2, <2>3, <2>4, <2>5, <2>6 DEF Owns
<1>8. inode # target /\ \A r \in Readers : rfd[r] # inode
  BY <1>1, <1>2 DEF Unpublished
<1>9. Unpublished'
  BY <1>1, <1>2, <1>8 DEF Unpublished, TypeOK
<1>10. Complete'
  <2>1. \A v \in Writers : pc'[v] = "rename" => content'[fd'[v]] = v
    BY <1>1, <1>2, <1>6 DEF Complete, TypeOK, Active, Owns
  <2>2. \A v \in Writing' : mixers'[fd'[v]] = {v}
    BY <1>1, <1>2, <1>3, <1>4, <1>6 DEF Complete, TypeOK, Active, Writing
  <2> QED
    BY <1>1, <1>2, <1>8, <2>1, <2>2 DEF Complete, TypeOK
<1> QED
  BY <1>7, <1>9, <1>10

\* Writing touches the inode of this call's temporary only.
LEMMA WriteStep ==
  ASSUME NEW w \in Writers, TypeOK, Owns, Unpublished, Complete,
         WriteSome(w) \/ WriteRest(w)
  PROVE  Owns' /\ Unpublished' /\ Complete'
<1>1. w \in Active /\ w \in Writing
  BY DEF WriteSome, WriteRest, Active, Writing
<1>2. PICK c \in {w, Torn}, p \in {"halfway", "rename"} :
         /\ content' = [content EXCEPT ![fd[w]] = c]
         /\ pc' = [pc EXCEPT ![w] = p]
         /\ p = "rename" /\ c = Torn => mixers[fd[w]] # {w}
  <2>1. CASE WriteSome(w)
    BY <2>1 DEF WriteSome
  <2>2. CASE WriteRest(w)
    BY <2>2 DEF WriteRest
  <2> QED
    BY <2>1, <2>2
<1>3. UNCHANGED <<unique, target, tmp, seq, name, fd, mixers, rfd, got>>
  BY DEF WriteSome, WriteRest
<1>4. Active' = Active /\ Writing' \subseteq Writing
  BY <1>1, <1>2 DEF Active, Writing, TypeOK
<1>5. fd[w] \in Inodes /\ fd[w] # target /\ \A r \in Readers : rfd[r] # fd[w]
  BY <1>1 DEF Owns, Unpublished, TypeOK
<1>6. \A v \in Active \ {w} : fd[v] # fd[w]
  <2>1. \A v \in Active : /\ v \in Writers /\ name[v] \in Names
                          /\ tmp[name[v]] = fd[v] /\ fd[v] # Nothing
    BY DEF Owns, TypeOK, Active
  <2>2. \A v \in Active : name[v] = name[w] => v = w
    BY Zenon, <1>1 DEF Owns
  <2>3. \A m, n \in Names : tmp[m] = tmp[n] /\ tmp[m] # Nothing => m = n
    BY Zenon DEF Owns
  <2>4. ASSUME NEW v \in Active, fd[v] = fd[w] PROVE v = w
    <3>1. name[v] \in Names /\ name[w] \in Names /\ tmp[name[v]] = fd[v] /\ fd[v] # Nothing
      BY Zenon, <1>1, <2>1
    <3>2. tmp[name[v]] = tmp[name[w]] /\ tmp[name[v]] # Nothing
      BY <1>1, <2>1, <2>4, <3>1
    <3>3. name[v] = name[w]
      BY Zenon, <2>3, <3>1, <3>2
    <3> QED
      BY Zenon, <2>2, <3>3
  <2> QED
    BY Zenon, <2>4
<1>7. Owns'
  BY <1>3, <1>4 DEF Owns
<1>8. Unpublished'
  BY <1>2, <1>3 DEF Unpublished, TypeOK
<1>9. Complete'
  <2>1. \A v \in Writers : pc'[v] = "rename" => content'[fd'[v]] = v
    BY <1>1, <1>2, <1>3, <1>5, <1>6 DEF Complete, TypeOK, Active
  <2>2. \A v \in Writing' : mixers'[fd'[v]] = {v}
    BY <1>3, <1>4 DEF Complete
  <2>3. \A v \in Writers : content'[target'] = v => pc'[v] = "ok"
    BY <1>1, <1>2, <1>3, <1>5 DEF Complete, TypeOK, Active
  <2>4. \A i \in Inodes \ {fd[w]} : content'[i] = content[i]
    BY <1>2 DEF TypeOK
  <2>5. /\ target' = target /\ target \in Inodes \ {fd[w]} /\ rfd' = rfd /\ got' = got
        /\ \A r \in Readers : rfd[r] # Nothing => rfd[r] \in Inodes \ {fd[w]}
    BY <1>3, <1>5 DEF TypeOK
  <2> QED
    BY Zenon, <2>1, <2>2, <2>3, <2>4, <2>5 DEF Complete
<1> QED
  BY <1>7, <1>8, <1>9

\* The rename publishes the inode of this call's temporary.
LEMMA RenameStep ==
  ASSUME NEW w \in Writers, TypeOK, Owns, Unpublished, Complete, Rename(w)
  PROVE  Owns' /\ Unpublished' /\ Complete' /\ content'[target'] = w
<1>1. w \in Active /\ pc[w] = "rename" /\ w \notin Writing
  BY DEF Rename, Active, Writing
<1>2. /\ target' = tmp[name[w]]
      /\ tmp' = [tmp EXCEPT ![name[w]] = Nothing]
      /\ pc' = [pc EXCEPT ![w] = "ok"]
      /\ UNCHANGED <<unique, content, seq, name, fd, mixers, rfd, got>>
  BY DEF Rename
<1>3. tmp[name[w]] = fd[w] /\ fd[w] \in Inodes /\ content[fd[w]] = w /\ name[w] \in Names
  BY <1>1 DEF Owns, Complete, TypeOK
<1>4. Active' = Active \ {w} /\ Writing' = Writing
  BY <1>1, <1>2 DEF Active, Writing, TypeOK
<1>5. \A v \in Active' : name[v] # name[w]
  BY <1>1, <1>4 DEF Owns
<1>6. Owns'
  BY <1>2, <1>3, <1>4, <1>5 DEF Owns, TypeOK, Active
<1>7. Unpublished'
  BY <1>1, <1>2, <1>3, DistinctAssumption DEF Unpublished, TypeOK, Owns, Inodes
<1>8. Complete'
  BY <1>1, <1>2, <1>3, <1>4 DEF Complete, TypeOK, Whole
<1> QED
  BY <1>2, <1>3, <1>6, <1>7, <1>8

\* A call that ends with an error, alone or in a restart, publishes nothing.
LEMMA ErrorStep ==
  ASSUME TypeOK, Owns, Unpublished, Complete,
         Restart \/ \E w \in Writers : RenameMissing(w) \/ WriteFails(w) \/ RenameFails(w)
  PROVE  Owns' /\ Unpublished' /\ Complete'
<1>1. PICK D \in SUBSET Active :
         /\ pc' = [w \in Writers |-> IF w \in D THEN "error" ELSE pc[w]]
         /\ UNCHANGED <<unique, target, content, name, fd, mixers, rfd>>
         /\ D = Active \/ seq' = seq
         /\ \A r \in Readers : got'[r] = got[r] \/ got'[r] = Ended
         /\ tmp' = tmp \/ \E w \in D : tmp' = [tmp EXCEPT ![name[w]] = Nothing]
  <2>1. CASE Restart
    BY <2>1 DEF Restart, Active
  <2>2. ASSUME NEW w \in Writers, RenameMissing(w) \/ WriteFails(w) \/ RenameFails(w)
        PROVE  /\ {w} \in SUBSET Active
               /\ pc' = [v \in Writers |-> IF v \in {w} THEN "error" ELSE pc[v]]
               /\ UNCHANGED <<unique, target, content, name, fd, mixers, rfd, seq, got>>
               /\ tmp' = tmp \/ \E v \in {w} : tmp' = [tmp EXCEPT ![name[v]] = Nothing]
    BY <2>2 DEF RenameMissing, WriteFails, RenameFails, Active, TypeOK
  <2> QED
    BY <2>1, <2>2
<1>2. Active' = Active \ D /\ Writing' = Writing \ D
  BY <1>1 DEF Active, Writing
<1>3. \A n \in Names : tmp'[n] = tmp[n] \/ (tmp'[n] = Nothing /\ \E w \in D : n = name[w])
  BY <1>1 DEF TypeOK, Active
<1>4. Owns'
  <2>1. \A v \in Active' : tmp'[name'[v]] = fd'[v] /\ fd'[v] # Nothing
    <3> SUFFICES ASSUME NEW v \in Active' PROVE tmp'[name'[v]] = fd'[v] /\ fd'[v] # Nothing
      OBVIOUS
    <3>1. v \in Active /\ v \notin D /\ name' = name /\ fd' = fd /\ D \subseteq Active
      BY Zenon, <1>1, <1>2
    <3>2. tmp[name[v]] = fd[v] /\ fd[v] # Nothing /\ \A u \in D : name[u] # name[v]
      BY Zenon, <3>1 DEF Owns
    <3>3. name[v] \in Names
      BY <3>1 DEF TypeOK, Active
    <3> QED
      BY Zenon, <1>3, <3>1, <3>2, <3>3
  <2>2. unique => \A v \in Active' : name'[v] < seq'
    <3>1. CASE D = Active
      BY Zenon, <1>2, <3>1
    <3>2. CASE seq' = seq
      BY Zenon, <1>1, <1>2, <3>2 DEF Owns
    <3> QED
      BY Zenon, <1>1, <3>1, <3>2
  <2>3. \A m, n \in Names : tmp'[m] = tmp'[n] /\ tmp'[m] # Nothing => m = n
    BY <1>3 DEF Owns
  <2> QED
    BY <1>1, <1>2, <2>1, <2>2, <2>3 DEF Owns
<1>5. Unpublished'
  <2>1. \A w \in Writers : pc'[w] = "start" => pc[w] = "start"
    BY <1>1
  <2>2. target # Nothing
    BY DistinctAssumption DEF TypeOK, Inodes
  <2>3. \A w \in Writers : w # Nothing
    BY DistinctAssumption
  <2> QED
    BY <1>1, <1>3, <2>1, <2>2, <2>3 DEF Unpublished
<1>6. Complete'
  <2>1. \A w \in Writers : pc'[w] = "rename" => pc[w] = "rename"
    BY <1>1
  <2>2. \A w \in Writers : pc[w] = "ok" => pc'[w] = "ok"
    BY <1>1 DEF Active
  <2>3. \A r \in Readers : got'[r] # Torn
    BY <1>1, DistinctAssumption DEF Complete
  <2> QED
    BY <1>1, <1>2, <2>1, <2>2, <2>3 DEF Complete
<1> QED
  BY <1>4, <1>5, <1>6

\* Readers change nothing but what they hold.
LEMMA ReadStep ==
  ASSUME NEW r \in Readers, TypeOK, Owns, Unpublished, Complete,
         ReadOpen(r) \/ ReadAll(r)
  PROVE  Owns' /\ Unpublished' /\ Complete'
<1>1. UNCHANGED <<unique, target, tmp, content, seq, pc, name, fd, mixers>>
  BY DEF ReadOpen, ReadAll
<1>2. Active' = Active /\ Writing' = Writing
  BY <1>1 DEF Active, Writing
<1>3. Owns'
  BY <1>1, <1>2 DEF Owns
<1>4. \A q \in Readers : rfd'[q] = rfd[q] \/ rfd'[q] = target
  BY DEF ReadOpen, ReadAll, TypeOK
<1>5. \A q \in Readers : got'[q] = got[q] \/ (rfd[q] # Nothing /\ got'[q] = content[rfd[q]])
  BY DEF ReadOpen, ReadAll, TypeOK
<1>6. Unpublished'
  BY <1>1, <1>4 DEF Unpublished
<1>7. Complete'
  BY <1>1, <1>2, <1>4, <1>5, DistinctAssumption DEF Complete, Whole
<1> QED
  BY <1>3, <1>6, <1>7

\* The choice of temporary names never changes in a run.
LEMMA UniqueFixed == ASSUME [Next]_vars PROVE unique' = unique
  BY DEF Next, vars, Open, WriteSome, WriteRest, Rename, RenameMissing, WriteFails,
         RenameFails, Restart, ReadOpen, ReadAll

\* Once two calls have overlapped, they have: Exclusive is never regained.
LEMMA ExclusiveShrinks == ASSUME TypeOK, [Next]_vars, Exclusive' PROVE Exclusive
<1>1. overlapped => overlapped'
  BY DEF Next, vars, Open, WriteSome, WriteRest, Rename, RenameMissing, WriteFails,
         RenameFails, Restart, ReadOpen, ReadAll, TypeOK
<1> QED
  BY <1>1, UniqueFixed DEF Exclusive

\* Every step of a writer, a reader and a restart keeps the invariant.
LEMMA NextIInv == IInv /\ [Next]_vars => IInv'
<1> SUFFICES ASSUME IInv, [Next]_vars PROVE IInv'
  OBVIOUS
<1>1. TypeOK'
  BY TypeStep DEF IInv
<1>2. ASSUME Exclusive' PROVE Owns' /\ Unpublished' /\ Complete'
  <2>1. TypeOK /\ Owns /\ Unpublished /\ Complete
    BY <1>2, ExclusiveShrinks DEF IInv
  <2>2. CASE \E w \in Writers : Open(w)
    BY <1>2, <2>1, <2>2, OpenStep
  <2>3. CASE \E w \in Writers : WriteSome(w) \/ WriteRest(w)
    BY <2>1, <2>3, WriteStep
  <2>4. CASE \E w \in Writers : Rename(w)
    BY <2>1, <2>4, RenameStep
  <2>5. CASE Restart \/ \E w \in Writers : RenameMissing(w) \/ WriteFails(w) \/ RenameFails(w)
    BY <2>1, <2>5, ErrorStep
  <2>6. CASE \E r \in Readers : ReadOpen(r) \/ ReadAll(r)
    BY <2>1, <2>6, ReadStep
  <2>7. CASE UNCHANGED vars
    BY <2>1, <2>7 DEF vars, Owns, Unpublished, Complete, Active, Writing
  <2> QED
    BY <2>2, <2>3, <2>4, <2>5, <2>6, <2>7 DEF Next
<1> QED
  BY <1>1, <1>2 DEF IInv

\* The inductive invariant of atomic_write holds in every reachable state.
THEOREM Invariance == Spec => []IInv
  BY InitIInv, NextIInv, PTL DEF Spec

-----------------------------------------------------------------------------

\* TypeOK of AtomicWrite: in particular the path always names an inode, so
\* an atomic_write under way never makes the file disappear.
THEOREM TypeCorrect == Spec => []TypeOK
<1>1. IInv => TypeOK
  BY DEF IInv
<1> QED
  BY <1>1, Invariance, PTL

\* Readers never see a torn file: always with runtime.rs's unique temporary
\* names, and with encrypted_fs.rs's fixed name until two calls overlap.
THEOREM NeverTornHolds == Spec => []NeverTorn
<1>1. IInv => NeverTorn
  BY DEF IInv, NeverTorn, Complete
<1> QED
  BY <1>1, Invariance, PTL

\* An error return of atomic_write means that its bytes are not the file.
THEOREM ErrorPublishesNothingHolds == Spec => []ErrorPublishesNothing
<1>1. IInv => ErrorPublishesNothing
  BY DEF IInv, ErrorPublishesNothing, Complete
<1> QED
  BY <1>1, Invariance, PTL

\* An Ok return of atomic_write means that its bytes became the file.
THEOREM OkPublishesOwnBytesHolds == Spec => OkPublishesOwnBytes
<1> DEFINE Own == \A w \in Writers :
       Exclusive /\ pc[w] # "ok" /\ pc'[w] = "ok" => content'[target'] = w
<1>1. IInv /\ [Next]_vars => [Own]_vars
  <2> SUFFICES ASSUME IInv, Next, NEW w \in Writers, Exclusive, pc[w] # "ok", pc'[w] = "ok"
               PROVE  content'[target'] = w
    OBVIOUS
  <2>1. TypeOK /\ Owns /\ Unpublished /\ Complete
    BY DEF IInv
  <2>2. Rename(w)
    <3>1. pc \in [Writers -> {pc[v] : v \in Writers}]
      BY Zenon, <2>1 DEF TypeOK
    <3>2. ASSUME NEW v \in Writers, Rename(v) PROVE Rename(w)
      BY <3>1, <3>2 DEF Rename
    <3>3. ASSUME NEW v \in Writers, Open(v) \/ WriteSome(v) \/ WriteRest(v) PROVE FALSE
      BY <3>1, <3>3 DEF Open, WriteSome, WriteRest
    <3>4. ASSUME NEW v \in Writers, RenameMissing(v) \/ WriteFails(v) \/ RenameFails(v) PROVE FALSE
      BY <3>1, <3>4 DEF RenameMissing, WriteFails, RenameFails
    <3>5. ASSUME NEW r \in Readers, ReadOpen(r) \/ ReadAll(r) PROVE FALSE
      BY <3>5 DEF ReadOpen, ReadAll
    <3>6. ASSUME Restart PROVE FALSE
      BY <3>6 DEF Restart
    <3> QED
      BY Zenon, <3>2, <3>3, <3>4, <3>5, <3>6 DEF Next
  <2> QED
    BY <2>1, <2>2, RenameStep
<1> QED
  BY <1>1, Invariance, PTL DEF Spec, OkPublishesOwnBytes

-----------------------------------------------------------------------------
(* Refinement of FileRegister.                                              *)

\* A step that leaves the published inodes, the returned codes and the open
\* reads alone does not show in the register.
LEMMA Stutters ==
  ASSUME TypeOK, UNCHANGED <<unique, target, rfd>>,
         content'[target] = content[target],
         \A r \in Readers : rfd[r] # Nothing => content'[rfd[r]] = content[rfd[r]],
         \A w \in Writers : \/ pc'[w] = pc[w]
                            \/ pc[w] \notin {"ok", "error"} /\ pc'[w] \notin {"ok", "error"}
  PROVE  UNCHANGED <<Value, Ack, Answer>>
<1>1. Value' = Value
  BY DEF Value
<1>2. Ack' = Ack
  BY DEF Ack
<1>3. Answer' = Answer
  BY DEF Answer
<1> QED
  BY <1>1, <1>2, <1>3

\* With unique temporary names, every step is a step of the register or a stutter.
LEMMA StepSimulation ==
  ASSUME unique, unique', IInv, [Next]_vars
  PROVE  [Register!Next]_(Register!vars)
<1> SUFFICES \/ UNCHANGED <<Value, Ack, Answer>>
             \/ \E w \in Writers : Register!Write(w)
             \/ \E S \in SUBSET Writers : Register!Fail(S)
             \/ \E r \in Readers : Register!Read(r)
  BY DEF Register!Next, Register!vars
<1> USE DEF Register!Write, Register!Fail, Register!Read
<1>0. TypeOK /\ Owns /\ Unpublished /\ Complete
  BY DEF IInv, Exclusive
<1>1. CASE \E w \in Writers : Open(w)
  <2>1. PICK w \in Writers : Open(w)
    BY <1>1
  <2> DEFINE inode == IF tmp[TmpName] = Nothing THEN w ELSE tmp[TmpName]
  <2>2. inode # target /\ \A r \in Readers : rfd[r] # inode
    BY <1>0, <2>1, TmpNameType DEF Unpublished, Open
  <2>3. content' = [content EXCEPT ![inode] = Torn] /\ target' = target /\ rfd' = rfd
    BY <2>1 DEF Open
  <2>4. \A v \in Writers : pc'[v] = pc[v] \/ (pc[v] = "start" /\ pc'[v] = "writing")
    BY <1>0, <2>1 DEF Open, TypeOK
  <2> QED
    BY <1>0, <2>2, <2>3, <2>4, Stutters DEF TypeOK
<1>2. CASE \E w \in Writers : WriteSome(w) \/ WriteRest(w)
  <2>1. PICK w \in Writers : WriteSome(w) \/ WriteRest(w)
    BY <1>2
  <2>2. fd[w] # target /\ \A r \in Readers : rfd[r] # fd[w]
    <3>1. w \in Active
      BY <2>1 DEF Active, WriteSome, WriteRest
    <3>2. tmp[name[w]] = fd[w] /\ fd[w] # Nothing
      BY Zenon, <1>0, <3>1 DEF Owns
    <3>3. name[w] \in Names
      BY <1>0, <3>1 DEF TypeOK, Active
    <3> QED
      BY Zenon, <1>0, <3>2, <3>3 DEF Unpublished
  <2>3. target' = target /\ rfd' = rfd /\ \E c : content' = [content EXCEPT ![fd[w]] = c]
    BY <2>1 DEF WriteSome, WriteRest
  <2>4. \A v \in Writers : \/ pc'[v] = pc[v]
                           \/ pc[v] \in {"writing", "halfway"} /\ pc'[v] \in {"halfway", "rename"}
    BY <1>0, <2>1 DEF WriteSome, WriteRest, TypeOK
  <2> QED
    BY <1>0, <2>2, <2>3, <2>4, Stutters DEF TypeOK
<1>3. CASE \E w \in Writers : Rename(w)
  <2>1. PICK w \in Writers : Rename(w)
    BY <1>3
  <2>2. Value' = w
    BY <1>0, <2>1, RenameStep DEF Value
  <2>3. Ack[w] = "pending" /\ Ack' = [Ack EXCEPT ![w] = "ok"]
    BY <1>0, <2>1 DEF Rename, Ack, TypeOK
  <2>4. Answer' = Answer
    BY <2>1 DEF Rename, Answer
  <2> QED
    BY <2>2, <2>3, <2>4
<1>4. CASE Restart \/ \E w \in Writers : RenameMissing(w) \/ WriteFails(w) \/ RenameFails(w)
  <2>1. PICK D \in SUBSET Active :
          pc' = [w \in Writers |-> IF w \in D THEN "error" ELSE pc[w]]
    <3>1. CASE Restart
      BY <3>1 DEF Restart
    <3>2. ASSUME NEW w \in Writers, RenameMissing(w) \/ WriteFails(w) \/ RenameFails(w)
          PROVE  /\ {w} \in SUBSET Active
                 /\ pc' = [v \in Writers |-> IF v \in {w} THEN "error" ELSE pc[v]]
      BY <1>0, <3>2 DEF RenameMissing, WriteFails, RenameFails, Active, TypeOK
    <3> QED
      BY <1>4, <3>1, <3>2
  <2>2. UNCHANGED <<unique, target, content, rfd>>
    BY <1>4 DEF Restart, RenameMissing, WriteFails, RenameFails
  <2>3. \A w \in D : Ack[w] = "pending"
    BY DEF Ack, Active
  <2>4. Ack' = [w \in Writers |-> IF w \in D THEN "failed" ELSE Ack[w]]
    BY <2>1 DEF Ack
  <2>5. UNCHANGED <<Value, Answer>>
    BY <2>2 DEF Value, Answer
  <2>6. D \in SUBSET Writers
    BY DEF Active
  <2> QED
    BY <2>3, <2>4, <2>5, <2>6
<1>5. CASE \E r \in Readers : ReadOpen(r)
  <2>1. PICK r \in Readers : ReadOpen(r)
    BY <1>5
  <2>2. UNCHANGED <<Value, Ack>>
    BY <2>1 DEF ReadOpen, Value, Ack
  <2>3. Answer[r] = Nothing
    BY <2>1 DEF ReadOpen, Answer
  <2>4. target # Nothing
    BY <1>0, DistinctAssumption DEF TypeOK, Inodes
  <2>5. Answer' = [Answer EXCEPT ![r] = Value]
    BY <1>0, <2>1, <2>4 DEF ReadOpen, Answer, Value, TypeOK
  <2> QED
    BY <2>2, <2>3, <2>5
<1>6. CASE \E r \in Readers : ReadAll(r)
  BY <1>0, <1>6, Stutters DEF ReadAll
<1>7. CASE UNCHANGED vars
  BY <1>0, <1>7, Stutters DEF vars
<1> QED
  BY <1>1, <1>2, <1>3, <1>4, <1>5, <1>6, <1>7 DEF Next

\* With unique temporary names (drt/runtime.rs), atomic_write implements the
\* atomic register that the doc comments promise.
THEOREM Refinement == Spec => ImplementsRegister
<1>1. Init => Register!Init
  BY DistinctAssumption DEF Init, Register!Init, Value, Ack, Answer, Inodes
<1>2. IInv /\ [Next]_vars => [Register!Next]_(Register!vars)
  <2> SUFFICES ASSUME IInv, [Next]_vars PROVE [Register!Next]_(Register!vars)
    OBVIOUS
  <2>1. unique' = unique
    BY UniqueFixed
  <2>2. CASE unique
    BY <2>1, <2>2, StepSimulation
  <2>3. CASE ~unique
    BY <2>1, <2>3 DEF Register!vars, Value, Ack, Answer
  <2> QED
    BY <2>2, <2>3
<1> QED
  BY <1>1, <1>2, Invariance, PTL DEF Spec, ImplementsRegister, Register!Spec

-----------------------------------------------------------------------------
(* Nonces.                                                                 *)

NonceRecords == [nonce : NonceIds, at : Nat]

NoncesType ==
    /\ now \in Nat
    /\ nonces \subseteq NonceRecords
    /\ fresh \in Seq(NonceRecords)
    /\ cutoff \subseteq Int
    /\ swept \subseteq Int

\* What was answered "new" is still in the table or too old to count, and no
\* purge asks for more than the age allows.
NoncesKept ==
    /\ \A i \in DOMAIN fresh : fresh[i].at <= now
          /\ (fresh[i] \in nonces \/ now - fresh[i].at > MaxAge)
    /\ \A c \in cutoff \cup swept : c <= now - MaxAge

NoncesInv == NoncesType /\ NoncesKept /\ NonceOnce

\* An empty table.
LEMMA NoncesInitInv == NoncesInit => NoncesInv
  BY DEF NoncesInit, NoncesInv, NoncesType, NoncesKept, NonceOnce

\* A recording that is answered "new" comes more than MaxAge after every
\* earlier one of the same nonce: those have left the table.
LEMMA RecordInv ==
  ASSUME NoncesInv, NEW n \in NonceIds, record_nonce(n)
  PROVE  NoncesInv'
<1> USE NoncesAssumption DEF NoncesInv, NoncesType
<1>1. CASE \E m \in nonces : m.nonce = n
  BY <1>1 DEF record_nonce, NoncesKept, NonceOnce
<1>2. CASE ~\E m \in nonces : m.nonce = n
  <2> DEFINE new == [nonce |-> n, at |-> now]
  <2>1. /\ nonces' = nonces \cup {new} /\ fresh' = Append(fresh, new)
        /\ UNCHANGED <<now, cutoff, swept>>
    BY <1>2 DEF record_nonce
  <2>2. new \in NonceRecords /\ new.nonce = n /\ new.at = now
    BY DEF NonceRecords
  <2> HIDE DEF new
  <2>3. NoncesType'
    BY <2>1, <2>2
  <2>4. /\ DOMAIN fresh = 1..Len(fresh) /\ DOMAIN fresh' = 1..(Len(fresh) + 1) /\ Len(fresh) \in Nat
        /\ \A i \in DOMAIN fresh : fresh'[i] = fresh[i] /\ fresh[i] \in NonceRecords
        /\ fresh'[Len(fresh) + 1] = new
    BY <2>1, <2>2
  <2>5. \A i \in DOMAIN fresh : fresh[i].nonce = n => now - fresh[i].at > MaxAge
    BY <1>2 DEF NoncesKept
  <2>6. NoncesKept'
    <3>1. \A i \in DOMAIN fresh : fresh'[i].at <= now' /\ (fresh'[i] \in nonces' \/ now' - fresh'[i].at > MaxAge)
      BY <2>1, <2>4 DEF NoncesKept
    <3>2. new.at <= now' /\ new \in nonces'
      BY <2>1, <2>2
    <3> QED
      BY <2>1, <2>4, <3>1, <3>2 DEF NoncesKept
  <2>7. \A i, j \in DOMAIN fresh' :
          i < j /\ fresh'[i].nonce = fresh'[j].nonce => fresh'[j].at - fresh'[i].at > MaxAge
    <3> SUFFICES ASSUME NEW i \in DOMAIN fresh', NEW j \in DOMAIN fresh', i < j,
                        fresh'[i].nonce = fresh'[j].nonce
                 PROVE  fresh'[j].at - fresh'[i].at > MaxAge
      OBVIOUS
    <3>1. i \in DOMAIN fresh
      BY <2>4
    <3>2. CASE j \in DOMAIN fresh
      BY <2>4, <3>1, <3>2 DEF NonceOnce
    <3>3. CASE j = Len(fresh) + 1
      BY <2>2, <2>4, <2>5, <3>1, <3>3
    <3> QED
      BY <2>4, <3>2, <3>3
  <2>8. \A m \in nonces', c \in swept' : m.at >= c
    <3>1. \A c \in swept : c \in Int /\ c <= now - MaxAge
      BY DEF NoncesKept
    <3>2. now \in Nat /\ MaxAge \in Nat
      OBVIOUS
    <3>3. \A c \in swept : new.at >= c
      BY <2>2, <3>1, <3>2
    <3> QED
      BY Zenon, <2>1, <3>3 DEF NonceOnce
  <2> QED
    BY <2>3, <2>6, <2>7, <2>8 DEF NonceOnce
<1> QED
  BY <1>1, <1>2

\* A purge removes only what is older than MaxAge by the time it is committed.
LEMMA PurgeInv ==
  ASSUME NoncesInv, Second \/ PurgeBegin \/ PurgeCommit \/ PurgeFails
  PROVE  NoncesInv'
<1> USE NoncesAssumption DEF NoncesInv, NoncesType
<1>0. \A i \in DOMAIN fresh : fresh[i] \in NonceRecords /\ fresh[i].at \in Nat
  <2>1. \A i \in DOMAIN fresh : fresh[i] \in NonceRecords
    OBVIOUS
  <2> QED
    BY <2>1 DEF NonceRecords
<1>1. CASE Second
  <2>1. now' = now + 1 /\ UNCHANGED <<nonces, fresh, cutoff, swept>>
    BY <1>1 DEF Second
  <2>2. now \in Nat /\ now' \in Nat /\ now' = now + 1 /\ MaxAge \in Nat
    BY <2>1
  <2>3. \A i \in DOMAIN fresh : fresh[i].at <= now' /\ (fresh[i] \in nonces \/ now' - fresh[i].at > MaxAge)
    <3> TAKE i \in DOMAIN fresh
    <3>1. fresh[i].at <= now /\ (fresh[i] \in nonces \/ now - fresh[i].at > MaxAge)
      BY DEF NoncesKept
    <3> QED
      BY <1>0, <2>2, <3>1
  <2>4. \A c \in cutoff \cup swept : c <= now' - MaxAge
    <3> TAKE c \in cutoff \cup swept
    <3>1. c \in Int /\ c <= now - MaxAge
      BY DEF NoncesKept
    <3> QED
      BY <2>2, <3>1
  <2>5. NoncesKept'
    BY Zenon, <2>1, <2>3, <2>4 DEF NoncesKept
  <2> QED
    BY <2>1, <2>5 DEF NonceOnce
<1>2. CASE PurgeBegin
  <2>1. cutoff' = {now - MaxAge} /\ UNCHANGED <<now, nonces, fresh, swept>>
    BY <1>2 DEF PurgeBegin
  <2>2. NoncesKept'
    <3>1. \A c \in cutoff' \cup swept' : c <= now - MaxAge
      BY <2>1 DEF NoncesKept
    <3> QED
      BY Zenon, <2>1, <3>1 DEF NoncesKept
  <2> QED
    BY <2>1, <2>2 DEF NonceOnce
<1>3. CASE PurgeCommit
  <2>1. /\ nonces' = {m \in nonces : \A c \in cutoff : ~(m.at < c)}
        /\ swept' = cutoff /\ cutoff' = {} /\ UNCHANGED <<now, fresh>>
    BY <1>3 DEF PurgeCommit
  <2>2. NoncesType'
    BY <2>1
  <2>3. ASSUME NEW i \in DOMAIN fresh, fresh[i] \notin nonces' PROVE now - fresh[i].at > MaxAge
    BY <1>0, <2>1, <2>3 DEF NoncesKept
  <2>4. NoncesKept'
    BY <2>1, <2>3 DEF NoncesKept
  <2>5. NonceOnce'
    <3>1. \A m \in nonces', c \in swept' : m.at >= c
      BY <2>1 DEF NonceRecords
    <3> QED
      BY <2>1, <3>1 DEF NonceOnce
  <2> QED
    BY <2>2, <2>4, <2>5
<1>4. CASE PurgeFails
  BY <1>4 DEF PurgeFails, NoncesKept, NonceOnce
<1> QED
  BY <1>1, <1>2, <1>3, <1>4

\* For any nonces, any age and any clock that does not go back: record_nonce
\* answers "new" once per MaxAge, however purge_expired_nonces interleaves.
THEOREM NonceOnceHolds == NoncesSpec => []NonceOnce
<1>1. NoncesInv /\ [NoncesNext]_nonceVars => NoncesInv'
  <2> SUFFICES ASSUME NoncesInv, [NoncesNext]_nonceVars PROVE NoncesInv'
    OBVIOUS
  <2>1. CASE UNCHANGED nonceVars
    BY <2>1 DEF nonceVars, NoncesInv, NoncesType, NoncesKept, NonceOnce
  <2> QED
    BY <2>1, RecordInv, PurgeInv DEF NoncesNext
<1>2. NoncesInv => NonceOnce
  BY DEF NoncesInv
<1> QED
  BY <1>1, <1>2, NoncesInitInv, PTL DEF NoncesSpec

-----------------------------------------------------------------------------
(* Listings: the order of the keys.                                        *)

\* The parts of a sort key are integers, and the last one is the id of the row.
LEMMA KeyParts ==
  ASSUME NEW q \in ListQueries, NEW r \in Rows
  PROVE  Key(q, r)[1] \in Int /\ Key(q, r)[2] \in Int /\ Key(q, r)[3] = r.id /\ r.id \in Int
<1>1. /\ r.pool \in Int /\ r.ts \in Int /\ r.id \in Int /\ r.name \in Int /\ r.rows \in Int
      /\ MaxTs \in Int
  BY RowsAssumption, LimitsAssumption
<1>2. SortKey(r, q.of) \in Int
  BY <1>1 DEF SortKey
<1>3. CASE q.of \in Sorts
  BY <1>1, <1>2, <1>3 DEF Key, Sorts
<1>4. CASE q.of \notin Sorts /\ q.of = "revocations"
  BY <1>1, <1>4 DEF Key, make_plain_key
<1>5. CASE q.of \notin Sorts /\ q.of # "revocations"
  BY <1>1, <1>5 DEF Key, make_pool_ts_key
<1> QED
  BY <1>3, <1>4, <1>5

\* Triples of integers in the order of their parts.
LEMMA TripleOrder ==
  ASSUME NEW a, NEW b, NEW c,
         a[1] \in Int, a[2] \in Int, a[3] \in Int, b[1] \in Int, b[2] \in Int, b[3] \in Int,
         c[1] \in Int, c[2] \in Int, c[3] \in Int
  PROVE  /\ ~KeyBefore(a, a)
         /\ KeyBefore(a, b) /\ KeyBefore(b, c) => KeyBefore(a, c)
         /\ a[3] = b[3] \/ KeyBefore(a, b) \/ KeyBefore(b, a)
  BY DEF KeyBefore

\* The keys are in a strict total order, and no two rows have the same.
LEMMA BeforeOrder ==
  ASSUME NEW q \in ListQueries
  PROVE  /\ \A r \in Rows : ~Before(q, r, r)
         /\ \A r, s, u \in Rows : Before(q, r, s) /\ Before(q, s, u) => Before(q, r, u)
         /\ \A r, s \in Rows : r = s \/ Before(q, r, s) \/ Before(q, s, r)
<1>1. \A r \in Rows : Key(q, r)[1] \in Int /\ Key(q, r)[2] \in Int /\ Key(q, r)[3] \in Int
  BY KeyParts
<1>2. \A r, s \in Rows : Key(q, r)[3] = Key(q, s)[3] => r = s
  BY KeyParts, RowsAssumption
<1>3. \A r \in Rows : ~Before(q, r, r)
  BY Zenon, <1>1, TripleOrder DEF Before
<1>4. \A r, s, u \in Rows : Before(q, r, s) /\ Before(q, s, u) => Before(q, r, u)
  BY Zenon, <1>1, TripleOrder DEF Before
<1>5. \A r, s \in Rows : r = s \/ Before(q, r, s) \/ Before(q, s, r)
  BY Zenon, <1>1, <1>2, TripleOrder DEF Before
<1> QED
  BY <1>3, <1>4, <1>5

-----------------------------------------------------------------------------
(* Places.                                                                 *)

\* The place of a row is a natural number.
LEMMA PlaceType ==
  ASSUME NEW q, NEW S, IsFiniteSet(S), NEW r
  PROVE  IsFiniteSet({s \in S : Before(q, s, r)}) /\ Place(q, S, r) \in Nat
<1>1. {s \in S : Before(q, s, r)} \in SUBSET S
  OBVIOUS
<1>2. IsFiniteSet({s \in S : Before(q, s, r)})
  BY Zenon, <1>1, FS_Subset
<1> QED
  BY Zenon, <1>2, FS_CardinalityType DEF Place

\* A row that is followed by all of T in U comes on top of T.
LEMMA OneMore ==
  ASSUME NEW U, IsFiniteSet(U), NEW T \in SUBSET U, NEW x \in U, x \notin T
  PROVE  Cardinality(T) < Cardinality(U)
<1>1. IsFiniteSet(T)
  BY Zenon, FS_Subset
<1>2. IsFiniteSet(T \cup {x}) /\ Cardinality(T \cup {x}) = Cardinality(T) + 1
  BY Zenon, <1>1, FS_AddElement
<1>3. T \cup {x} \in SUBSET U
  OBVIOUS
<1>4. Cardinality(T \cup {x}) <= Cardinality(U)
  BY Zenon, <1>3, FS_Subset
<1>5. Cardinality(T) \in Nat /\ Cardinality(U) \in Nat
  BY Zenon, <1>1, FS_CardinalityType
<1> QED
  BY <1>2, <1>4, <1>5

\* An earlier row has a smaller place.
LEMMA PlaceLess ==
  ASSUME NEW q \in ListQueries, NEW S \in SUBSET Rows, IsFiniteSet(S),
         NEW r \in S, NEW s \in Rows, Before(q, r, s)
  PROVE  Place(q, S, r) < Place(q, S, s)
<1> DEFINE R == {x \in S : Before(q, x, r)}
           U == {x \in S : Before(q, x, s)}
<1>1. R \in SUBSET U /\ r \in U /\ r \notin R
  BY BeforeOrder
<1>2. IsFiniteSet(U)
  BY Zenon, PlaceType
<1> HIDE DEF R, U
<1>3. Cardinality(R) < Cardinality(U)
  BY Zenon, <1>1, <1>2, OneMore
<1> QED
  BY Zenon, <1>3 DEF Place, R, U

\* Every row has its place below the number of rows.
LEMMA PlaceBelow ==
  ASSUME NEW q \in ListQueries, NEW S \in SUBSET Rows, IsFiniteSet(S), NEW r \in S
  PROVE  Place(q, S, r) < Cardinality(S)
<1> DEFINE R == {x \in S : Before(q, x, r)}
<1>1. R \in SUBSET S /\ r \notin R
  BY BeforeOrder
<1> HIDE DEF R
<1>2. Cardinality(R) < Cardinality(S)
  BY Zenon, <1>1, OneMore
<1> QED
  BY Zenon, <1>2 DEF Place, R

\* Rows that are added push others back, never forward.
LEMMA PlaceGrows ==
  ASSUME NEW q, NEW T, IsFiniteSet(T), NEW S \in SUBSET T, NEW r
  PROVE  Place(q, S, r) <= Place(q, T, r)
<1> DEFINE R == {x \in S : Before(q, x, r)}
           U == {x \in T : Before(q, x, r)}
<1>1. R \in SUBSET U
  OBVIOUS
<1>2. IsFiniteSet(U)
  BY Zenon, PlaceType
<1> HIDE DEF R, U
<1>3. Cardinality(R) <= Cardinality(U)
  BY Zenon, <1>1, <1>2, FS_Subset
<1> QED
  BY Zenon, <1>3 DEF Place, R, U

\* Distinct rows have distinct places: as many rows as there are between two
\* places at most.
LEMMA PlacesBetween ==
  ASSUME NEW q \in ListQueries, NEW S \in SUBSET Rows, IsFiniteSet(S),
         NEW from \in Nat, NEW to \in Nat, from <= to,
         NEW B \in SUBSET S, \A s \in B : from <= Place(q, S, s) /\ Place(q, S, s) < to
  PROVE  IsFiniteSet(B) /\ Cardinality(B) <= to - from
<1> DEFINE f == [s \in B |-> Place(q, S, s)]
           I == from..(to - 1)
<1>1. \A s \in B : Place(q, S, s) \in Nat
  BY Zenon, PlaceType
<1>2. f \in [B -> I]
  BY <1>1
<1>3. \A s, u \in B : f[s] = f[u] => s = u
  <2> SUFFICES ASSUME NEW s \in B, NEW u \in B, f[s] = f[u], s # u PROVE FALSE
    OBVIOUS
  <2>1. Place(q, S, s) = Place(q, S, u)
    OBVIOUS
  <2>2. Before(q, s, u) \/ Before(q, u, s)
    BY Zenon, BeforeOrder
  <2>3. Place(q, S, s) < Place(q, S, u) \/ Place(q, S, u) < Place(q, S, s)
    BY Zenon, <2>2, PlaceLess
  <2> QED
    BY <1>1, <2>1, <2>3
<1>4. f \in Injection(B, I)
  BY Zenon, <1>2, <1>3 DEF Injection, IsInjective
<1>5. IsFiniteSet(I) /\ Cardinality(I) = IF from > to - 1 THEN 0 ELSE (to - 1) - from + 1
  <2>1. from \in Int /\ to - 1 \in Int
    OBVIOUS
  <2> QED
    BY Zenon, <2>1, FS_Interval
<1>6. Cardinality(I) = to - from
  BY <1>5
<1> HIDE DEF f, I
<1>7. IsFiniteSet(B) /\ Cardinality(B) <= Cardinality(I)
  BY Zenon, <1>4, <1>5, FS_Injection
<1> QED
  BY Zenon, <1>6, <1>7

-----------------------------------------------------------------------------
(* Pages.                                                                  *)

\* A page is part of the listing: rows that can be read, from the offset on.
LEMMA PageSubset ==
  ASSUME NEW q, NEW S, NEW from, NEW limit
  PROVE  /\ Page(q, S, from, limit) \subseteq S
         /\ \A r \in Page(q, S, from, limit) : r.parses /\ Place(q, S, r) >= from
  BY DEF Page

\* A row that can be read is on the page into which its place falls.
LEMMA PageHas ==
  ASSUME NEW q \in ListQueries, NEW S \in SUBSET Rows, IsFiniteSet(S),
         NEW from \in Nat, NEW limit \in Nat, NEW r \in S, r.parses,
         from <= Place(q, S, r), Place(q, S, r) < from + limit
  PROVE  r \in Page(q, S, from, limit)
<1> DEFINE rest == {s \in S : s.parses /\ Place(q, S, s) >= from}
           B == {s \in rest : Before(q, s, r)}
<1>1. Place(q, S, r) \in Nat /\ \A s \in S : Place(q, S, s) \in Nat
  BY Zenon, PlaceType
<1>2. \A s \in B : from <= Place(q, S, s) /\ Place(q, S, s) < Place(q, S, r)
  <2> TAKE s \in B
  <2>1. s \in S /\ Before(q, s, r) /\ Place(q, S, s) >= from
    OBVIOUS
  <2>2. Place(q, S, s) < Place(q, S, r)
    BY Zenon, <2>1, PlaceLess
  <2> QED
    BY <1>1, <2>1, <2>2
<1>3. B \in SUBSET S /\ r \in rest
  BY <1>1
<1> HIDE DEF B
<1>4. Cardinality(B) <= Place(q, S, r) - from /\ IsFiniteSet(B)
  BY Zenon, <1>1, <1>2, <1>3, PlacesBetween
<1>5. Cardinality(B) \in Nat
  BY Zenon, <1>4, FS_CardinalityType
<1>6. Cardinality(B) < limit
  BY <1>1, <1>4, <1>5
<1>7. Place(q, rest, r) < limit
  BY Zenon, <1>6 DEF Place, B
<1> QED
  BY Zenon, <1>3, <1>7 DEF Page

\* Where everything can be read, a page ends where the next one begins.
LEMMA PageBound ==
  ASSUME NEW q \in ListQueries, NEW S \in SUBSET Rows, IsFiniteSet(S), \A s \in S : s.parses,
         NEW from \in Nat, NEW limit \in Nat, NEW r \in Page(q, S, from, limit)
  PROVE  Place(q, S, r) < from + limit
<1> DEFINE rest == {s \in S : s.parses /\ Place(q, S, s) >= from}
           B == {s \in rest : Before(q, s, r)}
           A == {s \in S : Before(q, s, r) /\ Place(q, S, s) < from}
<1>1. r \in S /\ Place(q, rest, r) < limit
  BY Zenon DEF Page
<1>2. \A s \in S : Place(q, S, s) \in Nat
  BY Zenon, PlaceType
<1>3. {s \in S : Before(q, s, r)} = A \cup B /\ A \in SUBSET S /\ B \in SUBSET S
  BY <1>2
<1>4. \A s \in A : 0 <= Place(q, S, s) /\ Place(q, S, s) < from
  BY <1>2
<1> HIDE DEF A
<1>5. IsFiniteSet(A) /\ Cardinality(A) <= from - 0
  <2>1. 0 \in Nat /\ 0 <= from
    OBVIOUS
  <2> QED
    BY Zenon, <1>3, <1>4, <2>1, PlacesBetween
<1>6. IsFiniteSet(B) /\ Cardinality(B) < limit
  <2>1. Cardinality(B) < limit
    BY Zenon, <1>1 DEF Place
  <2> HIDE DEF B
  <2> QED
    BY Zenon, <1>3, <2>1, FS_Subset
<1> HIDE DEF B
<1>7. IsFiniteSet(A \cap B)
      /\ Cardinality(A \cup B) = Cardinality(A) + Cardinality(B) - Cardinality(A \cap B)
  <2>1. A \cap B \in SUBSET A
    OBVIOUS
  <2> QED
    BY Zenon, <1>5, <1>6, <2>1, FS_Union, FS_Subset
<1>8. Cardinality(A) \in Nat /\ Cardinality(B) \in Nat /\ Cardinality(A \cap B) \in Nat
  BY Zenon, <1>5, <1>6, <1>7, FS_CardinalityType
<1>9. Cardinality(A \cup B) < from + limit
  BY <1>5, <1>6, <1>7, <1>8
<1> QED
  BY Zenon, <1>3, <1>9 DEF Place

-----------------------------------------------------------------------------
(* What the offset counts.                                                 *)

\* The size of a page is a natural number.
LEMMA SizeType == ASSUME NEW q \in ListQueries PROVE Size(q) \in Nat
<1>1. q.limit \in Nat /\ PageMax \in Nat
  BY ListQueriesAssumption, LimitsAssumption
<1> QED
  BY <1>1 DEF Size

\* Rows added to the table take none from those a query is about.
LEMMA OwnRowsSubset ==
  ASSUME NEW q, NEW u, NEW t \in SUBSET u
  PROVE  OwnRows(q, t) \subseteq OwnRows(q, u) /\ OwnRows(q, u) \subseteq u
  BY DEF OwnRows

\* What a query lists are rows it is about.
LEMMA ListedSubset ==
  ASSUME NEW q, NEW t
  PROVE  Listed(q, t) \subseteq OwnRows(q, t) /\ Listed(q, t) \subseteq t
<1>1. OwnRows(q, t) \subseteq t
  BY DEF OwnRows
<1>2. Page(q, OwnRows(q, t), 0, FetchMax) \subseteq OwnRows(q, t)
  BY Zenon, PageSubset
<1> QED
  BY <1>1, <1>2 DEF Listed

\* Part of a finite table is finite.
LEMMA FiniteSubset ==
  ASSUME NEW t, IsFiniteSet(t), NEW S \in SUBSET t
  PROVE  IsFiniteSet(S)
  BY Zenon, FS_Subset

\* Nothing that the reader is after is cut off, under FilterWhole.
LEMMA ListedHasWanted ==
  ASSUME NEW q \in ListQueries, NEW t \in SUBSET Rows, IsFiniteSet(t), FilterWhole(q, t)
  PROVE  Wanted(q, t) \subseteq Listed(q, t)
<1>1. CASE q.of \in Sorts
  BY <1>1 DEF Wanted, Listed, Sorts
<1>2. CASE q.of \notin Sorts /\ q.of = "audit" /\ Filtered(q)
  <2> DEFINE O == OwnRows(q, t)
             P == {r \in O : r.parses}
  <2>1. O \in SUBSET Rows /\ P \in SUBSET Rows /\ O \in SUBSET t /\ P \in SUBSET t
    BY DEF OwnRows
  <2>2. IsFiniteSet(O) /\ IsFiniteSet(P)
    BY Zenon, <2>1, FiniteSubset
  <2>3. Cardinality(P) <= FetchMax
    BY Zenon, <1>2 DEF FilterWhole
  <2>4. FetchMax \in Nat /\ Cardinality(P) \in Nat
    BY <2>2, LimitsAssumption, FS_CardinalityType
  <2>5. \A r \in O : Place(q, O, r) >= 0
    <3> TAKE r \in O
    <3>1. Place(q, O, r) \in Nat
      BY Zenon, <2>2, PlaceType
    <3> QED
      BY <3>1
  <2>6. P = {r \in O : r.parses /\ Place(q, O, r) >= 0}
    BY Zenon, <2>5
  <2>7. ASSUME NEW r \in P PROVE Place(q, P, r) < FetchMax
    <3>1. Place(q, P, r) < Cardinality(P) /\ Place(q, P, r) \in Nat
      BY Zenon, <2>1, <2>2, PlaceBelow, PlaceType
    <3> QED
      BY <2>3, <2>4, <3>1
  <2>8. Page(q, O, 0, FetchMax) = {r \in P : Place(q, P, r) < FetchMax}
    BY Zenon, <2>6 DEF Page
  <2>9. P \subseteq Page(q, O, 0, FetchMax)
    BY Zenon, <2>7, <2>8
  <2>10. Listed(q, t) = {r \in Page(q, O, 0, FetchMax) : Passes(q, r)}
    BY <1>2 DEF Listed
  <2> QED
    BY Zenon, <2>9, <2>10 DEF Wanted
<1>3. CASE q.of \notin Sorts /\ ~(q.of = "audit" /\ Filtered(q))
  BY <1>3 DEF Wanted, Listed
<1> QED
  BY <1>1, <1>2, <1>3

\* A filter that sees all of a table sees all of any part of it.
LEMMA WholeShrinks ==
  ASSUME NEW q, NEW u, IsFiniteSet(u), NEW t \in SUBSET u, FilterWhole(q, u)
  PROVE  FilterWhole(q, t)
<1> SUFFICES ASSUME q.of = "audit" /\ Filtered(q)
             PROVE  Cardinality({r \in OwnRows(q, t) : r.parses}) <= FetchMax
  BY Zenon DEF FilterWhole
<1> DEFINE T == {r \in OwnRows(q, t) : r.parses}
           U == {r \in OwnRows(q, u) : r.parses}
<1>1. T \in SUBSET U /\ U \in SUBSET u
  BY Zenon, OwnRowsSubset
<1>2. Cardinality(U) <= FetchMax
  BY Zenon DEF FilterWhole
<1> HIDE DEF T, U
<1>3. IsFiniteSet(U) /\ IsFiniteSet(T) /\ Cardinality(T) <= Cardinality(U)
  BY Zenon, <1>1, FS_Subset
<1>4. Cardinality(U) \in Nat /\ Cardinality(T) \in Nat
  BY Zenon, <1>3, FS_CardinalityType
<1>5. Cardinality(T) <= FetchMax
  BY <1>2, <1>3, <1>4, LimitsAssumption
<1> QED
  BY Zenon, <1>5 DEF T

\* When the filter sees the whole table, rows added to it take none off the listing.
LEMMA ListedGrows ==
  ASSUME NEW q \in ListQueries, NEW u \in SUBSET Rows, IsFiniteSet(u), NEW t \in SUBSET u, FilterWhole(q, u)
  PROVE  Listed(q, t) \subseteq Listed(q, u)
<1>1. CASE q.of \in Sorts
  BY <1>1, OwnRowsSubset DEF Listed, Sorts
<1>2. CASE q.of \notin Sorts /\ q.of = "audit" /\ Filtered(q)
  <2>1. Listed(q, t) = {r \in Page(q, OwnRows(q, t), 0, FetchMax) : Passes(q, r)}
    BY <1>2 DEF Listed
  <2>2. Listed(q, t) \subseteq Wanted(q, t)
    BY Zenon, <2>1, PageSubset DEF Wanted
  <2>3. Wanted(q, t) \subseteq Wanted(q, u)
    BY Zenon, OwnRowsSubset DEF Wanted
  <2> QED
    BY Zenon, <2>2, <2>3, ListedHasWanted
<1>3. CASE q.of \notin Sorts /\ ~(q.of = "audit" /\ Filtered(q))
  BY <1>3, OwnRowsSubset DEF Listed
<1> QED
  BY <1>1, <1>2, <1>3

-----------------------------------------------------------------------------
(* The invariant.                                                          *)

ListingsType ==
    /\ table \subseteq Rows /\ IsFiniteSet(table) /\ start \subseteq table
    /\ reader \in ListQueries
    /\ reading \in {"idle", "list", "count", "done", "misled"}
    /\ offset \in Nat
    /\ pages \in Seq(SUBSET Rows)
    /\ reading = "idle" => pages = <<>> /\ offset = 0

\* Up to where the pages reach.
Edge == IF reading \in {"count", "misled"} THEN offset + Size(reader) ELSE offset

\* What was not shown yet is still to come.
Covered ==
    reading # "idle" /\ FilterWhole(reader, table) =>
        \A r \in Wanted(reader, start) :
            \/ r \in Shown
            \/ reading # "done" /\ Edge <= Place(reader, Listed(reader, table), r)

\* Nothing that comes later was shown already.
Ordered ==
    table = start /\ (\A r \in table : r.parses) =>
        /\ \A k \in DOMAIN pages : \A r \in pages[k] :
              r \in Listed(reader, table) /\ Place(reader, Listed(reader, table), r) < Edge
        /\ \A i, j \in DOMAIN pages : i < j =>
              \A r \in pages[i], s \in pages[j] : Before(reader, r, s)

ListingsInv == ListingsType /\ Covered /\ Ordered

\* The listing is a finite set of rows.
LEMMA ListedFinite ==
  ASSUME ListingsType
  PROVE  /\ Listed(reader, table) \in SUBSET Rows /\ IsFiniteSet(Listed(reader, table))
         /\ Cardinality(Listed(reader, table)) \in Nat
         /\ \A r : Place(reader, Listed(reader, table), r) \in Nat
<1>1. Listed(reader, table) \in SUBSET table /\ Listed(reader, table) \in SUBSET Rows
  BY Zenon, ListedSubset DEF ListingsType
<1>2. IsFiniteSet(Listed(reader, table))
  BY Zenon, <1>1, FiniteSubset DEF ListingsType
<1> QED
  BY Zenon, <1>1, <1>2, FS_CardinalityType, PlaceType

\* A page appended.
LEMMA PageAppended ==
  ASSUME pages \in Seq(SUBSET Rows), NEW P \in SUBSET Rows, pages' = Append(pages, P)
  PROVE  /\ pages' \in Seq(SUBSET Rows)
         /\ DOMAIN pages = 1..Len(pages) /\ DOMAIN pages' = 1..(Len(pages) + 1) /\ Len(pages) \in Nat
         /\ \A k \in DOMAIN pages : pages'[k] = pages[k]
         /\ pages'[Len(pages) + 1] = P
         /\ Shown' = Shown \cup P
<1>1. /\ pages' \in Seq(SUBSET Rows)
      /\ DOMAIN pages = 1..Len(pages) /\ DOMAIN pages' = 1..(Len(pages) + 1) /\ Len(pages) \in Nat
      /\ \A k \in DOMAIN pages : pages'[k] = pages[k]
      /\ pages'[Len(pages) + 1] = P
  OBVIOUS
<1>2. DOMAIN pages' = DOMAIN pages \cup {Len(pages) + 1}
  BY <1>1
<1>3. {pages'[k] : k \in DOMAIN pages'} = {pages[k] : k \in DOMAIN pages} \cup {P}
  BY <1>1, <1>2
<1>4. Shown' = UNION {pages'[k] : k \in DOMAIN pages'}
  BY Zenon DEF Shown
<1>5. Shown' = Shown \cup P
  BY Zenon, <1>3, <1>4 DEF Shown
<1> QED
  BY Zenon, <1>1, <1>5

\* The offsets and places of two pages one after the other.
LEMMA NatOrder ==
  /\ \A a, b, n \in Nat : a < b => a < b + n
  /\ \A a, b, c \in Nat : a < b /\ c >= b => a < c /\ ~(c < a)
  /\ \A m \in Nat : \A i, j \in 1..(m + 1) : (i \in 1..m \/ i = m + 1) /\ (i < j => i \in 1..m)
  OBVIOUS

\* The next page covers the places from the offset on, and only those.
LEMMA PageStep ==
  ASSUME ListingsInv, reading = "list",
         pages' = Append(pages, Page(reader, Listed(reader, table), offset, Size(reader))),
         UNCHANGED <<table, reader, start>>
  PROVE  /\ pages' \in Seq(SUBSET Rows)
         /\ FilterWhole(reader, table) =>
               \A r \in Wanted(reader, start) :
                  r \in Shown' \/ offset + Size(reader) <= Place(reader, Listed(reader, table), r)
         /\ table = start /\ (\A r \in table : r.parses) =>
               /\ \A k \in DOMAIN pages' : \A r \in pages'[k] :
                     /\ r \in Listed(reader, table)
                     /\ Place(reader, Listed(reader, table), r) < offset + Size(reader)
               /\ \A i, j \in DOMAIN pages' : i < j =>
                     \A r \in pages'[i], s \in pages'[j] : Before(reader, r, s)
<1> DEFINE L == Listed(reader, table)
           n == Size(reader)
           P == Page(reader, L, offset, n)
           at(r) == Place(reader, L, r)
<1>1. ListingsType /\ Covered /\ Ordered
  BY DEF ListingsInv
<1>2. L \in SUBSET Rows /\ IsFiniteSet(L) /\ \A r : at(r) \in Nat
  BY Zenon, <1>1, ListedFinite
<1>3. offset \in Nat /\ n \in Nat /\ reader \in ListQueries
  BY Zenon, <1>1, SizeType DEF ListingsType
<1>4. P \in SUBSET L /\ P \in SUBSET Rows /\ \A r \in P : at(r) >= offset
  BY Zenon, <1>2, PageSubset
<1>5. /\ pages' \in Seq(SUBSET Rows)
      /\ DOMAIN pages = 1..Len(pages) /\ DOMAIN pages' = 1..(Len(pages) + 1) /\ Len(pages) \in Nat
      /\ \A k \in DOMAIN pages : pages'[k] = pages[k]
      /\ pages'[Len(pages) + 1] = P
      /\ Shown' = Shown \cup P
  BY Zenon, <1>1, <1>4, PageAppended DEF ListingsType
<1>6. ASSUME FilterWhole(reader, table), NEW r \in Wanted(reader, start)
      PROVE  r \in Shown' \/ offset + n <= at(r)
  <2>1. r \in Shown \/ offset <= at(r)
    BY Zenon, <1>1, <1>6 DEF Covered, Edge
  <2>2. r \in L /\ r.parses
    <3>1. FilterWhole(reader, start) /\ start \in SUBSET table
      BY Zenon, <1>1, <1>6, WholeShrinks DEF ListingsType
    <3>2. r \in Wanted(reader, table)
      BY Zenon, <3>1, OwnRowsSubset DEF Wanted
    <3> QED
      BY Zenon, <1>1, <1>6, <3>2, ListedHasWanted DEF ListingsType, Wanted
  <2>3. CASE r \in Shown
    BY Zenon, <1>5, <2>3
  <2>4. CASE offset <= at(r) /\ at(r) < offset + n
    BY Zenon, <1>2, <1>3, <1>5, <2>2, <2>4, PageHas
  <2>5. CASE ~(at(r) < offset + n)
    BY <1>2, <1>3, <2>5
  <2> QED
    BY Zenon, <2>1, <2>3, <2>4, <2>5
<1>7. ASSUME table = start, \A r \in table : r.parses
      PROVE  /\ \A k \in DOMAIN pages' : \A r \in pages'[k] : r \in L /\ at(r) < offset + n
             /\ \A i, j \in DOMAIN pages' : i < j =>
                   \A r \in pages'[i], s \in pages'[j] : Before(reader, r, s)
  <2>1. \A r \in P : at(r) < offset + n
    <3>1. \A s \in L : s.parses
      BY Zenon, <1>7, ListedSubset
    <3> QED
      BY Zenon, <1>2, <1>3, <3>1, PageBound
  <2>2. \A k \in DOMAIN pages : \A r \in pages[k] : r \in L /\ at(r) < offset
    BY Zenon, <1>1, <1>7 DEF Ordered, Edge
  <2>3. \A k \in DOMAIN pages' : k \in DOMAIN pages \/ k = Len(pages) + 1
    BY Zenon, <1>5, NatOrder
  <2>4. ASSUME NEW k \in DOMAIN pages', NEW r \in pages'[k] PROVE r \in L /\ at(r) < offset + n
    <3>1. CASE k \in DOMAIN pages
      <4>1. r \in L /\ at(r) < offset
        BY Zenon, <1>5, <2>2, <2>4, <3>1
      <4> QED
        BY Zenon, <1>2, <1>3, <4>1, NatOrder
    <3>2. CASE k = Len(pages) + 1
      BY Zenon, <1>4, <1>5, <2>1, <2>4, <3>2
    <3> QED
      BY Zenon, <2>3, <3>1, <3>2
  <2>5. ASSUME NEW i \in DOMAIN pages', NEW j \in DOMAIN pages', i < j,
               NEW r \in pages'[i], NEW s \in pages'[j]
        PROVE  Before(reader, r, s)
    <3>1. i \in DOMAIN pages
      BY Zenon, <1>5, <2>5, NatOrder
    <3>2. CASE j \in DOMAIN pages
      BY Zenon, <1>1, <1>5, <1>7, <2>5, <3>1, <3>2 DEF Ordered
    <3>3. CASE j = Len(pages) + 1
      <4>1. r \in L /\ at(r) < offset /\ s \in L /\ at(s) >= offset
        BY Zenon, <1>4, <1>5, <2>2, <2>5, <3>1, <3>3
      <4>2. at(r) < at(s) /\ ~(at(s) < at(r))
        BY Zenon, <1>2, <1>3, <4>1, NatOrder
      <4>3. r # s /\ ~Before(reader, s, r)
        <5>1. Before(reader, s, r) => at(s) < at(r)
          BY Zenon, <1>2, <1>3, <4>1, PlaceLess
        <5>2. r # s
          BY Zenon, <4>2
        <5> QED
          BY Zenon, <4>2, <5>1, <5>2
      <4>4. reader \in ListQueries /\ r \in Rows /\ s \in Rows
        BY <1>2, <1>3, <4>1
      <4> QED
        BY Zenon, <4>3, <4>4, BeforeOrder
    <3> QED
      BY Zenon, <2>3, <3>2, <3>3
  <2> QED
    BY Zenon, <2>4, <2>5
<1> QED
  BY Zenon, <1>5, <1>6, <1>7
-----------------------------------------------------------------------------
(* The steps.                                                              *)

\* After the last page nothing is left.
LEMMA TurnInv ==
  ASSUME ListingsType, NEW shown, NEW n, n = offset + Size(reader),
         FilterWhole(reader, table), Turn(Cardinality(Listed(reader, table))),
         UNCHANGED <<table, reader, start>>,
         NEW r \in Wanted(reader, start),
         r \in shown \/ n <= Place(reader, Listed(reader, table), r)
  PROVE  r \in shown \/ (reading' # "done" /\ Edge' <= Place(reader, Listed(reader, table), r))
<1> DEFINE L == Listed(reader, table)
<1>1. L \in SUBSET Rows /\ IsFiniteSet(L) /\ Place(reader, L, r) \in Nat /\ Cardinality(L) \in Nat
  BY Zenon, ListedFinite
<1>2. reader \in ListQueries /\ offset \in Nat /\ Size(reader) \in Nat
  BY Zenon, SizeType DEF ListingsType
<1>3. r \in L
  <2>1. r \in Wanted(reader, table)
    BY Zenon, OwnRowsSubset DEF ListingsType, Wanted
  <2> QED
    BY Zenon, <2>1, ListedHasWanted DEF ListingsType
<1>4. Place(reader, L, r) < Cardinality(L)
  BY Zenon, <1>1, <1>2, <1>3, PlaceBelow
<1> HIDE DEF L
<1>5. /\ offset' = n
      /\ reading' = IF n < Cardinality(L) THEN "list" ELSE "done"
  BY Zenon DEF Turn, L
<1>6. Edge' = n
  BY <1>5 DEF Edge
<1>7. r \in shown \/ n <= Place(reader, L, r)
  BY Zenon DEF L
<1>8. n \in Nat
  BY <1>2
<1>9. r \in shown \/ (reading' # "done" /\ Edge' <= Place(reader, L, r))
  BY <1>1, <1>4, <1>5, <1>6, <1>7, <1>8
<1> QED
  BY Zenon, <1>9 DEF L

\* The start of a listing keeps the invariant.
LEMMA BeginInv ==
  ASSUME ListingsInv, Begin
  PROVE  ListingsInv'
<1>1. ListingsType /\ reading = "idle" /\ pages = <<>> /\ offset = 0
  BY DEF ListingsInv, ListingsType, Begin
<1>2. /\ reading' = "list" /\ start' = table /\ table' = table /\ reader' = reader
      /\ offset' = 0 /\ pages' = <<>>
  BY <1>1 DEF Begin
<1>3. ListingsType'
  BY <1>1, <1>2 DEF ListingsType
<1>4. \A r : Place(reader, Listed(reader, table), r) \in Nat
  BY Zenon, <1>1, ListedFinite
<1>5. \A r : 0 <= Place(reader, Listed(reader, table), r)
  BY <1>4
<1>6. Edge' = 0
  BY <1>2 DEF Edge
<1>7. Covered'
  BY Zenon, <1>2, <1>5, <1>6 DEF Covered
<1>8. DOMAIN pages' = {}
  BY <1>2
<1>9. Ordered'
  BY Zenon, <1>8 DEF Ordered
<1> QED
  BY Zenon, <1>3, <1>7, <1>9 DEF ListingsInv

\* A listing answered in one transaction keeps the invariant.
LEMMA ListAtOnceInv ==
  ASSUME ListingsInv, ListAtOnce
  PROVE  ListingsInv'
<1>1. ListingsType /\ reading = "list"
  BY Zenon DEF ListingsInv, ListAtOnce
<1>2. /\ pages' = Append(pages, Page(reader, Listed(reader, table), offset, Size(reader)))
      /\ table' = table /\ reader' = reader /\ start' = start
      /\ Turn(Cardinality(Listed(reader, table)))
  BY Zenon DEF ListAtOnce
<1>3. /\ pages' \in Seq(SUBSET Rows)
      /\ FilterWhole(reader, table) =>
            \A r \in Wanted(reader, start) :
               r \in Shown' \/ offset + Size(reader) <= Place(reader, Listed(reader, table), r)
      /\ table = start /\ (\A r \in table : r.parses) =>
            /\ \A k \in DOMAIN pages' : \A r \in pages'[k] :
                  /\ r \in Listed(reader, table)
                  /\ Place(reader, Listed(reader, table), r) < offset + Size(reader)
            /\ \A i, j \in DOMAIN pages' : i < j =>
                  \A r \in pages'[i], s \in pages'[j] : Before(reader, r, s)
  BY Zenon, <1>1, <1>2, PageStep
<1>4. /\ offset \in Nat /\ Size(reader) \in Nat
  BY Zenon, <1>1, SizeType DEF ListingsType
<1>5. offset' = offset + Size(reader) /\ reading' \in {"list", "done"}
  BY <1>2 DEF Turn
<1>6. ListingsType'
  <2>1. /\ table' \subseteq Rows /\ IsFiniteSet(table') /\ start' \subseteq table'
        /\ reader' \in ListQueries /\ pages' \in Seq(SUBSET Rows)
    BY Zenon, <1>1, <1>2, <1>3 DEF ListingsType
  <2>2. offset' \in Nat
    BY <1>4, <1>5
  <2>3. reading' \in {"idle", "list", "count", "done", "misled"} /\ reading' # "idle"
    BY <1>5
  <2> QED
    BY Zenon, <2>1, <2>2, <2>3 DEF ListingsType
<1>7. Edge' = offset + Size(reader)
  BY <1>5 DEF Edge
<1>8. Covered'
  BY Zenon, <1>1, <1>2, <1>3, TurnInv DEF Covered
<1>9. Ordered'
  BY Zenon, <1>2, <1>3, <1>7 DEF Ordered
<1> QED
  BY Zenon, <1>6, <1>8, <1>9 DEF ListingsInv

\* Reading a page keeps the invariant.
LEMMA ListPageInv ==
  ASSUME ListingsInv, ListPage
  PROVE  ListingsInv'
<1>1. ListingsType /\ reading = "list"
  BY Zenon DEF ListingsInv, ListPage
<1>2. /\ pages' = Append(pages, Page(reader, Listed(reader, table), offset, Size(reader)))
      /\ table' = table /\ reader' = reader /\ start' = start
      /\ offset' = offset /\ reading' = "count"
  BY Zenon DEF ListPage
<1>3. /\ pages' \in Seq(SUBSET Rows)
      /\ FilterWhole(reader, table) =>
            \A r \in Wanted(reader, start) :
               r \in Shown' \/ offset + Size(reader) <= Place(reader, Listed(reader, table), r)
      /\ table = start /\ (\A r \in table : r.parses) =>
            /\ \A k \in DOMAIN pages' : \A r \in pages'[k] :
                  /\ r \in Listed(reader, table)
                  /\ Place(reader, Listed(reader, table), r) < offset + Size(reader)
            /\ \A i, j \in DOMAIN pages' : i < j =>
                  \A r \in pages'[i], s \in pages'[j] : Before(reader, r, s)
  BY Zenon, <1>1, <1>2, PageStep
<1>4. ListingsType'
  BY <1>1, <1>2, <1>3 DEF ListingsType
<1>5. Edge' = offset' + Size(reader')
  BY <1>2 DEF Edge
<1>6. Edge' = offset + Size(reader) /\ reading' # "done"
  BY <1>2, <1>5
<1>7. Covered'
  BY Zenon, <1>2, <1>3, <1>6 DEF Covered
<1>8. Ordered'
  BY Zenon, <1>2, <1>3, <1>6 DEF Ordered
<1> QED
  BY Zenon, <1>4, <1>7, <1>8 DEF ListingsInv

\* Counting the rows keeps the invariant.
LEMMA CountTotalInv ==
  ASSUME ListingsInv, CountTotal
  PROVE  ListingsInv'
<1>1. ListingsType /\ Covered /\ Ordered /\ reading = "count"
  BY Zenon DEF ListingsInv, CountTotal
<1>2. /\ pages' = pages /\ table' = table /\ reader' = reader /\ start' = start
      /\ Turn(Cardinality(Listed(reader, table)))
  BY Zenon DEF CountTotal
<1>3. offset \in Nat /\ Size(reader) \in Nat
  BY Zenon, <1>1, SizeType DEF ListingsType
<1>4. offset' = offset + Size(reader) /\ reading' \in {"list", "done"}
  BY <1>2 DEF Turn
<1>5. ListingsType'
  BY <1>1, <1>2, <1>3, <1>4 DEF ListingsType
<1>6. Edge = offset + Size(reader) /\ Edge' = Edge
  BY <1>1, <1>4 DEF Edge
<1>7. Shown' = Shown
  BY <1>2 DEF Shown
<1>8. reading # "idle" /\ reading # "done"
  BY <1>1
<1>9. Covered'
  BY Zenon, <1>1, <1>2, <1>6, <1>7, <1>8, TurnInv DEF Covered
<1>10. Ordered'
  BY Zenon, <1>1, <1>2, <1>6 DEF Ordered
<1> QED
  BY Zenon, <1>5, <1>9, <1>10 DEF ListingsInv

\* A count that fails keeps the invariant.
LEMMA CountFailsInv ==
  ASSUME ListingsInv, CountFails
  PROVE  ListingsInv'
<1>1. ListingsType /\ Covered /\ Ordered /\ reading = "count"
  BY Zenon DEF ListingsInv, CountFails
<1>2. /\ pages' = pages /\ table' = table /\ reader' = reader /\ start' = start
      /\ offset' = offset /\ reading' = "misled"
  BY Zenon DEF CountFails
<1>3. ListingsType'
  BY <1>1, <1>2 DEF ListingsType
<1>4. Edge' = Edge
  BY <1>1, <1>2 DEF Edge
<1>5. Shown' = Shown
  BY <1>2 DEF Shown
<1>6. reading # "idle" /\ reading # "done" /\ reading' # "done"
  BY <1>1, <1>2
<1>7. Covered'
  BY Zenon, <1>1, <1>2, <1>4, <1>5, <1>6 DEF Covered
<1>8. Ordered'
  BY Zenon, <1>1, <1>2, <1>4 DEF Ordered
<1> QED
  BY Zenon, <1>3, <1>7, <1>8 DEF ListingsInv

\* A row that is added moves others only further back.
LEMMA AddRowInv ==
  ASSUME ListingsInv, NEW r \in Rows \ table, AddRow(r)
  PROVE  ListingsInv'
<1>1. ListingsType /\ Covered
  BY Zenon DEF ListingsInv
<1>2. /\ table' = table \cup {r} /\ pages' = pages /\ reader' = reader /\ start' = start
      /\ offset' = offset /\ reading' = reading
  BY Zenon DEF AddRow
<1>3. IsFiniteSet(table')
  BY Zenon, <1>1, <1>2, FS_AddElement DEF ListingsType
<1>4. ListingsType'
  BY <1>1, <1>2, <1>3 DEF ListingsType
<1>5. ~(table' = start')
  BY Zenon, <1>1, <1>2 DEF ListingsType
<1>6. Ordered'
  BY Zenon, <1>5 DEF Ordered
<1>7. Edge' = Edge
  BY <1>2 DEF Edge
<1>8. Shown' = Shown
  BY <1>2 DEF Shown
<1>9. ASSUME reading # "idle", FilterWhole(reader, table'), NEW s \in Wanted(reader, start)
      PROVE  s \in Shown \/ (reading # "done" /\ Edge <= Place(reader, Listed(reader, table'), s))
  <2>1. table \in SUBSET table' /\ table' \in SUBSET Rows /\ reader \in ListQueries
    BY Zenon, <1>1, <1>2 DEF ListingsType
  <2>2. FilterWhole(reader, table)
    BY Zenon, <1>3, <1>9, <2>1, WholeShrinks
  <2>3. s \in Shown \/ (reading # "done" /\ Edge <= Place(reader, Listed(reader, table), s))
    BY Zenon, <1>1, <1>9, <2>2 DEF Covered
  <2>4. Listed(reader, table) \in SUBSET Listed(reader, table')
    BY Zenon, <1>3, <1>9, <2>1, ListedGrows
  <2>5. IsFiniteSet(Listed(reader, table'))
    BY Zenon, <1>3, ListedSubset, FiniteSubset
  <2>6. Place(reader, Listed(reader, table), s) <= Place(reader, Listed(reader, table'), s)
    BY Zenon, <2>4, <2>5, PlaceGrows
  <2>7. /\ Place(reader, Listed(reader, table), s) \in Nat
        /\ Place(reader, Listed(reader, table'), s) \in Nat
    BY Zenon, <1>1, <2>5, ListedFinite, PlaceType
  <2>8. Edge \in Nat
    <3>1. offset \in Nat /\ Size(reader) \in Nat
      BY Zenon, <1>1, SizeType DEF ListingsType
    <3> QED
      BY <3>1 DEF Edge
  <2> QED
    BY <2>3, <2>6, <2>7, <2>8
<1>10. Covered'
  BY Zenon, <1>2, <1>7, <1>8, <1>9 DEF Covered
<1> QED
  BY Zenon, <1>4, <1>6, <1>10 DEF ListingsInv

\* Who pages through a listing to its total (list_all_pools, pool_audit,
\* list_revocations, get_issuance_log) meets every record that was there at
\* the start, whatever is added meanwhile, for any rows, limits and readers.
THEOREM PagesCompleteHolds == ListingsSpec => []PagesComplete
<1>1. ListingsInit => ListingsInv
  <2> SUFFICES ASSUME ListingsInit PROVE ListingsInv
    OBVIOUS
  <2>1. /\ table = {} /\ start = {} /\ reader \in ListQueries /\ reading = "idle"
        /\ offset = 0 /\ pages = <<>>
    BY Zenon DEF ListingsInit
  <2>2. IsFiniteSet(table)
    BY Zenon, <2>1, FS_EmptySet
  <2>3. ListingsType
    BY <2>1, <2>2 DEF ListingsType
  <2>4. DOMAIN pages = {}
    BY <2>1
  <2> QED
    BY Zenon, <2>1, <2>3, <2>4 DEF ListingsInv, Covered, Ordered
<1>2. ListingsInv /\ [ListingsNext]_listingVars => ListingsInv'
  <2> SUFFICES ASSUME ListingsInv, [ListingsNext]_listingVars PROVE ListingsInv'
    OBVIOUS
  <2>1. CASE UNCHANGED listingVars
    <3>1. /\ table' = table /\ pages' = pages /\ reader' = reader /\ start' = start
          /\ offset' = offset /\ reading' = reading
      BY Zenon, <2>1 DEF listingVars
    <3> QED
      BY <3>1 DEF ListingsInv, ListingsType, Covered, Ordered, Edge, Shown
  <2> QED
    BY Zenon, <2>1, BeginInv, ListAtOnceInv, ListPageInv, CountTotalInv, CountFailsInv, AddRowInv
       DEF ListingsNext
<1>3. ListingsInv => PagesComplete
  BY Zenon DEF ListingsInv, Covered, Ordered, PagesComplete
<1> QED
  BY <1>1, <1>2, <1>3, PTL DEF ListingsSpec
=============================================================================
