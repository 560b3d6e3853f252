------------------------ MODULE PoolCredentialsProofs ------------------------
(***************************************************************************)
(* Proofs about PoolCredentials, for any number of requests, any payloads  *)
(* and any supply.                                                         *)
(***************************************************************************)
EXTENDS PoolCredentials, FiniteSetTheorems, TLAPS

-----------------------------------------------------------------------------
(* The rows that uploads carry.                                             *)

\* No upload, no row.
LEMMA DataRowsNone == IsFiniteSet(DataRows({})) /\ RowsOf({}) = 0
<1>1. DataRows({}) = {}
  BY DEF DataRows
<1> QED
  BY <1>1, FS_EmptySet DEF RowsOf

\* One more upload brings its own rows.
LEMMA DataRowsAdd ==
  ASSUME NEW S \in SUBSET Uploads, NEW r \in Uploads, r \notin S, IsFiniteSet(DataRows(S))
  PROVE  /\ IsFiniteSet(DataRows(S \cup {r}))
         /\ RowsOf(S \cup {r}) = RowsOf(S) + Rows[r]
<1> DEFINE N == {r} \X (1..Rows[r])
<1>1. Rows[r] \in Nat
  BY RowsAssumption
<1>2. DataRows(S \cup {r}) = DataRows(S) \cup N
  BY Zenon DEF DataRows
<1>3. DataRows(S) \cap N = {}
  BY DEF DataRows
<1>4. IsFiniteSet(1..Rows[r]) /\ Cardinality(1..Rows[r]) = Rows[r]
  <2>1. 1 \in Int /\ Rows[r] \in Int
    BY <1>1
  <2>2. /\ IsFiniteSet(1..Rows[r])
        /\ Cardinality(1..Rows[r]) = IF 1 > Rows[r] THEN 0 ELSE Rows[r] - 1 + 1
    BY <2>1, FS_Interval, Zenon
  <2> QED
    BY <1>1, <2>2
<1>5. IsFiniteSet({r}) /\ Cardinality({r}) = 1
  BY FS_Singleton
<1>6. IsFiniteSet(N) /\ Cardinality(N) = Rows[r]
  <2>1. IsFiniteSet(N) /\ Cardinality(N) = Cardinality({r}) * Cardinality(1..Rows[r])
    BY <1>4, <1>5, FS_Product, Zenon
  <2> QED
    BY <1>1, <1>4, <1>5, <2>1
<1>7. IsFiniteSet(DataRows(S) \cup N)
      /\ Cardinality(DataRows(S) \cup N)
           = Cardinality(DataRows(S)) + Cardinality(N) - Cardinality(DataRows(S) \cap N)
  BY <1>6, FS_Union, Zenon
<1>8. Cardinality(DataRows(S)) \in Nat
  BY FS_CardinalityType, Zenon
<1>9. Cardinality(DataRows(S) \cap N) = 0
  BY <1>3, FS_EmptySet
<1> HIDE DEF N
<1>10. Cardinality(DataRows(S) \cup N) = Cardinality(DataRows(S)) + Rows[r]
  BY <1>1, <1>6, <1>7, <1>8, <1>9
<1> QED
  BY <1>2, <1>7, <1>10, Zenon DEF RowsOf

\* Fewer uploads bring no more rows.
LEMMA DataRowsFewer ==
  ASSUME NEW S \in SUBSET Uploads, NEW T \in SUBSET S, IsFiniteSet(DataRows(S))
  PROVE  /\ IsFiniteSet(DataRows(T))
         /\ RowsOf(T) <= RowsOf(S)
<1>1. DataRows(T) \in SUBSET DataRows(S)
  BY Zenon DEF DataRows
<1> QED
  BY <1>1, FS_Subset DEF RowsOf

-----------------------------------------------------------------------------
(* Types.                                                                   *)

\* The variables start with their types.
LEMMA InitType == Init => TypeOK
<1> SUFFICES ASSUME Init PROVE TypeOK
  OBVIOUS
<1>1. NewMeta \in Metas
  BY DEF NewMeta, Metas
<1>2. "start" \in Labels
  BY DEF Labels
<1> QED
  BY <1>1, <1>2, SupplyAssumption DEF Init, TypeOK


\* Every label a handler goes to is one, and the mutex stays with a request.
LEMMA GotoType ==
  ASSUME TypeOK, NEW r \in Requests, NEW label \in Labels, Goto(r, label)
  PROVE  pc' \in [Requests -> Labels]
  BY DEF TypeOK, Goto

\* Ending a request moves it to a label and gives back the mutex it may hold.
LEMMA ReturnType ==
  ASSUME TypeOK, NEW r \in Requests, NEW label \in Labels, Return(r, label)
  PROVE  pc' \in [Requests -> Labels] /\ lock' \in Issues \cup {Free}
  BY GotoType DEF TypeOK, Return

\* Every step of initialize_pool keeps the types.
LEMMA InitializeType ==
  ASSUME TypeOK, NEW r \in Inits, InitializePool(r) PROVE TypeOK'
<1> r \in Requests /\ r \in Uploads
  BY DEF Requests, Uploads
<1> USE DEF chainVars, fileVars, dbVars
<1>1. CASE Reject(r)
  BY <1>1, GotoType, ReturnType, Zenon DEF Reject, TypeOK, Labels, Terminal, Critical, Metas
<1>2. CASE StorageFails(r)
  BY Zenon, <1>2, GotoType, ReturnType DEF StorageFails, TypeOK, Labels, Terminal, Critical, Metas
<1>3. CASE InitLoad(r)
  BY <1>3, GotoType, ReturnType, Zenon DEF InitLoad, TypeOK, Labels, Terminal, Critical, Metas
<1>4. CASE InitWriteCsv(r)
  BY <1>4, GotoType, ReturnType, Zenon DEF InitWriteCsv, TypeOK, Labels, Terminal, Critical, Metas, RecordIds
<1>5. CASE InitWriteAnchor(r)
  BY <1>5, GotoType, ReturnType, Zenon DEF InitWriteAnchor, TypeOK, Labels, Terminal, Critical, Metas, RecordIds
<1>6. CASE InitSave(r)
  BY <1>6, GotoType, ReturnType, RowsAssumption, Zenon DEF InitSave, TypeOK, Labels, Terminal, Critical, Metas
<1>7. CASE InitMirror(r)
  BY <1>7, GotoType, ReturnType, ZenonT(40) DEF InitMirror, TypeOK, Labels, Terminal, Critical, Metas, UpsertPoolMeta
<1>8. CASE InitRecord(r)
  BY <1>8, GotoType, ReturnType, Zenon DEF InitRecord, TypeOK, Labels, Terminal, Critical, Metas, UpsertIssuance, RecordIds
<1>9. CASE InitAudit(r)
  <2>1. pc' \in [Requests -> Labels] /\ lock' \in Issues \cup {Free}
    BY <1>9, ReturnType DEF InitAudit, Answer, Labels, Terminal
  <2> QED
    BY <1>9, <2>1 DEF InitAudit, TypeOK, Log
<1> QED
  BY <1>1, <1>2, <1>3, <1>4, <1>5, <1>6, <1>7, <1>8, <1>9 DEF InitializePool

\* Every step of issue_credentials keeps the types.
LEMMA IssueType ==
  ASSUME TypeOK, NEW r \in Issues, IssueCredentials(r) PROVE TypeOK'
<1> r \in Requests /\ r \in Uploads
  BY DEF Requests, Uploads
<1> USE DEF chainVars, fileVars, dbVars
<1>1. CASE Reject(r)
  BY Zenon, <1>1, GotoType, ReturnType DEF Reject, TypeOK, Labels, Terminal, Critical, Metas
<1>2. CASE StorageFails(r)
  BY <1>2, GotoType, ReturnType, Zenon DEF StorageFails, TypeOK, Labels, Terminal, Critical, Metas
<1>3. CASE IssueValidate(r)
  BY Zenon, <1>3, GotoType, ReturnType DEF IssueValidate, TypeOK, Labels, Terminal, Critical, Metas
<1>4. CASE IssueCheckBalance(r)
  BY <1>4, GotoType, ReturnType, Zenon DEF IssueCheckBalance, TypeOK, Labels, Terminal, Critical, Metas
<1>5. CASE IssueAcquire(r)
  BY Zenon, <1>5, GotoType, ReturnType DEF IssueAcquire, TypeOK, Labels, Terminal, Critical, Metas
<1>6. CASE IssueSend(r)
  BY <1>6, GotoType, ReturnType, Zenon DEF IssueSend, TypeOK, Labels, Terminal, Critical, Metas
<1>7. CASE IssueSendFails(r)
  BY <1>7, GotoType, ReturnType, Zenon DEF IssueSendFails, TypeOK, Labels, Terminal, Critical, Metas
<1>8. CASE IssueConfirmed(r)
  BY <1>8, GotoType, ReturnType, Zenon DEF IssueConfirmed, TypeOK, Labels, Terminal, Critical, Metas
<1>9. CASE IssueUnconfirmed(r)
  BY Zenon, <1>9, GotoType, ReturnType DEF IssueUnconfirmed, TypeOK, Labels, Terminal, Critical, Metas
<1>10. CASE IssueWriteCsv(r)
  BY <1>10, GotoType, ReturnType, Zenon DEF IssueWriteCsv, TypeOK, Labels, Terminal, Critical, Metas
<1>11. CASE IssueWriteCsvFails(r)
  <2>1. pc' \in [Requests -> Labels] /\ lock' \in Issues \cup {Free}
    BY <1>11, ReturnType DEF IssueWriteCsvFails, Answer, Labels, Terminal
  <2> QED
    BY <1>11, <2>1 DEF IssueWriteCsvFails, TypeOK, Log
<1>12. CASE IssueWriteAnchor(r)
  <2>1. pc' \in [Requests -> Labels]
    BY <1>12, GotoType DEF IssueWriteAnchor, Labels, Critical
  <2>2. anchor' \in [RecordIds -> Uploads \cup {NoFile}]
    BY Zenon, <1>12 DEF IssueWriteAnchor, TypeOK
  <2> QED
    BY <1>12, <2>1, <2>2 DEF IssueWriteAnchor, TypeOK
<1>13. CASE IssueReload(r)
  BY <1>13, GotoType, ReturnType, Zenon DEF IssueReload, TypeOK, Labels, Terminal, Critical, Metas
<1>14. CASE IssueSave(r)
  <2>1. pc' \in [Requests -> Labels]
    BY <1>14, GotoType DEF IssueSave, Labels, Critical
  <2>2. [copy[r] EXCEPT !.total = @ + Rows[r]] \in Metas
    <3>1. copy[r] \in Metas /\ Rows[r] \in Nat
      BY RowsAssumption DEF TypeOK
    <3> QED
      BY <3>1 DEF Metas
  <2> QED
    BY <1>14, <2>1, <2>2, Zenon DEF IssueSave, TypeOK
<1>15. CASE IssueMirror(r)
  BY <1>15, GotoType, ReturnType, Zenon DEF IssueMirror, TypeOK, Labels, Terminal, Critical, Metas, UpsertPoolMeta
<1>16. CASE IssueRecord(r)
  BY <1>16, GotoType, ReturnType, Zenon DEF IssueRecord, TypeOK, Labels, Terminal, Critical, Metas, UpsertIssuance, RecordIds
<1>17. CASE IssueAudit(r)
  <2>1. pc' \in [Requests -> Labels] /\ lock' \in Issues \cup {Free}
    BY <1>17, ReturnType DEF IssueAudit, Answer, Labels, Terminal
  <2>2. audit' \subseteq {"DatasetInitialized", "CredentialIssued",
                         "CredentialIssuanceFailed", "CredentialRevoked"} \X Requests
    BY <1>17 DEF IssueAudit, Log, TypeOK
  <2> QED
    BY <1>17, <2>1, <2>2 DEF IssueAudit, TypeOK
<1> QED
  BY <1>1, <1>2, <1>3, <1>4, <1>5, <1>6, <1>7, <1>8, <1>9, <1>10, <1>11, <1>12, <1>13, <1>14, <1>15, <1>16, <1>17 DEF IssueCredentials

\* Every step of revoke_credentials keeps the types.
LEMMA RevokeType ==
  ASSUME TypeOK, NEW r \in Revokes, RevokeCredentials(r) PROVE TypeOK'
<1> r \in Requests
  BY DEF Requests
<1> USE DEF chainVars, fileVars, dbVars
<1>1. CASE Reject(r)
  BY <1>1, GotoType, ReturnType, Zenon DEF Reject, TypeOK, Labels, Terminal, Critical, Metas
<1>2. CASE StorageFails(r)
  BY Zenon, <1>2, GotoType, ReturnType DEF StorageFails, TypeOK, Labels, Terminal, Critical, Metas
<1>3. CASE RevokeValidate(r)
  BY <1>3, GotoType, ReturnType, PayloadsAssumption, ZenonT(40) DEF RevokeValidate, TypeOK, Labels, Terminal, Critical, Metas
<1>4. CASE RevokeAppend(r)
  <2>1. pc' \in [Requests -> Labels]
    BY <1>4, GotoType DEF RevokeAppend, Labels
  <2>2. revocations' \in Seq(RecordIds)
    BY <1>4 DEF RevokeAppend, TypeOK
  <2> QED
    BY <1>4, <2>1, <2>2 DEF RevokeAppend, TypeOK
<1>5. CASE RevokeAppendFails(r)
  <2>1. pc' \in [Requests -> Labels] /\ lock' \in Issues \cup {Free}
    BY <1>5, ReturnType DEF RevokeAppendFails, Labels, Terminal
  <2>2. revocations' \in Seq(RecordIds)
    <3>1. PICK n \in 0..(Len(ids[r]) - 1) : revocations' = revocations \o SubSeq(ids[r], 1, n)
      BY <1>5 DEF RevokeAppendFails
    <3>2. ids[r] \in Seq(RecordIds) /\ revocations \in Seq(RecordIds)
      BY DEF TypeOK
    <3>3. SubSeq(ids[r], 1, n) \in Seq(RecordIds)
      BY <3>2
    <3> QED
      BY <3>1, <3>2, <3>3
  <2> QED
    BY <1>5, <2>1, <2>2 DEF RevokeAppendFails, TypeOK
<1>6. CASE RevokeLoad(r)
  BY <1>6, GotoType, ReturnType, Zenon DEF RevokeLoad, TypeOK, Labels, Terminal, Critical, Metas
<1>7. CASE RevokeSave(r)
  <2>1. pc' \in [Requests -> Labels]
    BY <1>7, GotoType DEF RevokeSave, Labels, Critical
  <2>2. [copy[r] EXCEPT !.revoked = @ + Len(ids[r])] \in Metas
    <3>1. copy[r] \in Metas /\ Len(ids[r]) \in Nat
      BY DEF TypeOK
    <3> QED
      BY <3>1 DEF Metas
  <2> QED
    BY <1>7, <2>1, <2>2, Zenon DEF RevokeSave, TypeOK
<1>8. CASE RevokeMirror(r)
  <2>1. pc' \in [Requests -> Labels]
    BY <1>8, GotoType DEF RevokeMirror, Labels
  <2> QED
    BY Zenon, <1>8, <2>1 DEF RevokeMirror, UpsertPoolMeta, TypeOK
<1>9. CASE RevokeRecords(r)
  <2>1. pc' \in [Requests -> Labels]
    BY <1>9, GotoType DEF RevokeRecords, Labels
  <2>2. \A k \in DOMAIN ids[r] : ids[r][k] \in RecordIds
    BY DEF TypeOK
  <2>3. dbRevoked' \subseteq RecordIds
    BY <1>9, <2>2 DEF RevokeRecords, TypeOK
  <2> QED
    BY <1>9, <2>1, <2>3 DEF RevokeRecords, TypeOK
<1>10. CASE RevokeAudit(r)
  <2>1. pc' \in [Requests -> Labels] /\ lock' \in Issues \cup {Free}
    BY <1>10, ReturnType DEF RevokeAudit, Answer, Labels, Terminal
  <2>2. audit' \subseteq {"DatasetInitialized", "CredentialIssued",
                         "CredentialIssuanceFailed", "CredentialRevoked"} \X Requests
    BY <1>10 DEF RevokeAudit, Log, TypeOK
  <2> QED
    BY <1>10, <2>1, <2>2 DEF RevokeAudit, TypeOK
<1> QED
  BY <1>1, <1>2, <1>3, <1>4, <1>5, <1>6, <1>7, <1>8, <1>9, <1>10 DEF RevokeCredentials

\* Every step of the system keeps the types.
LEMMA TypeStep == TypeOK /\ [Next]_vars => TypeOK'
<1> SUFFICES ASSUME TypeOK, [Next]_vars PROVE TypeOK'
  OBVIOUS
<1> USE DEF chainVars, fileVars, dbVars
<1>1. ASSUME NEW r \in Issues, Disconnect(r) PROVE TypeOK'
  <2>1. r \in Requests /\ "lost" \in Labels
    BY DEF Requests, Uploads, Labels, Terminal
  <2> QED
    BY <1>1, <2>1, ReturnType DEF Disconnect, TypeOK
<1>2. ASSUME NEW r \in Issues, ChainExecute(r) PROVE TypeOK'
  <2>1. balance' \in 0..Supply
    BY <1>2, SupplyAssumption DEF ChainExecute, TypeOK
  <2>2. tx' \in [Issues -> {"none", "sent", "burned", "failed", "expired"}]
    BY <1>2, Zenon DEF ChainExecute, TypeOK
  <2> QED
    BY <1>2, <2>1, <2>2 DEF ChainExecute, TypeOK
<1>3. ASSUME NEW r \in Issues, ChainExpire(r) PROVE TypeOK'
  BY <1>3 DEF ChainExpire, TypeOK
<1>4. CASE Restart
  BY <1>4 DEF Restart, TypeOK, Labels, Terminal
<1>5. CASE UNCHANGED vars
  BY <1>5 DEF vars, TypeOK
<1> QED
  BY <1>1, <1>2, <1>3, <1>4, <1>5, InitializeType, IssueType, RevokeType DEF Next

\* TypeOK: the shape of the files, of redb and of the requests.
THEOREM TypeCorrect == Spec => []TypeOK
  BY InitType, TypeStep, PTL DEF Spec

-----------------------------------------------------------------------------
(* Issuances: the mutex, the burn, what is stored for it, what is audited.  *)

AfterBurn == {"csv", "anchor", "reload", "save", "mirror", "record", "audit", "ok"}
AfterCsv == AfterBurn \ {"csv"}
Burned == {r \in Issues : tx[r] = "burned"}

\* The request past the mutex is the one that holds it.
MutexInv == \A r \in Issues : pc[r] \in Critical <=> lock = r

\* A request stores and reports only after its own burn.
BurnsFirst(r) ==
    /\ pc[r] \in {"start", "balance", "lock", "send"} => tx[r] = "none"
    /\ pc[r] \in AfterBurn => tx[r] = "burned"
    /\ dataset[r] # NoFile => tx[r] = "burned"
    /\ pc[r] \in AfterCsv => dataset[r] # NoFile
    /\ pc[r] \in {"confirm", "csv"} => dataset[r] = NoFile
    /\ <<"CredentialIssued", r>> \in audit => dataset[r] # NoFile
    /\ <<"CredentialIssuanceFailed", r>> \in audit =>
           tx[r] = "burned" /\ dataset[r] = NoFile /\ pc[r] \in {"failed", "lost"}

BurnInv == \A r \in Issues : BurnsFirst(r)

\* Every append DRT is in the wallet or was burned for some request.
Conservation == balance + Cardinality(Burned) = Supply

IssueInv == MutexInv /\ BurnInv /\ Conservation

\* What the other two handlers leave alone.
OthersFrame ==
    /\ chainVars' = chainVars
    /\ lock' = lock
    /\ \A q \in Issues : pc'[q] = pc[q] /\ dataset'[q] = dataset[q]
    /\ \A q \in Issues :
          /\ <<"CredentialIssued", q>> \in audit' => <<"CredentialIssued", q>> \in audit
          /\ <<"CredentialIssuanceFailed", q>> \in audit' =>
                <<"CredentialIssuanceFailed", q>> \in audit

\* initialize_pool touches nothing the issuance invariant speaks of.
LEMMA InitializeFrame ==
  ASSUME TypeOK, NEW r \in Inits, InitializePool(r) PROVE OthersFrame
<1>1. r \in Requests /\ r \notin Issues /\ lock # r /\ Initial \notin Issues
  BY RequestsAssumption DEF TypeOK, Requests, Uploads
<1> USE DEF chainVars, fileVars, dbVars, OthersFrame, Goto, Return, TypeOK
<1>2. CASE Reject(r)
  BY <1>1, <1>2 DEF Reject
<1>3. CASE StorageFails(r)
  BY <1>1, <1>3 DEF StorageFails
<1>4. CASE InitLoad(r)
  BY <1>1, <1>4 DEF InitLoad
<1>5. CASE InitWriteCsv(r)
  BY <1>1, <1>5 DEF InitWriteCsv
<1>6. CASE InitWriteAnchor(r)
  BY <1>1, <1>6 DEF InitWriteAnchor
<1>7. CASE InitSave(r)
  BY <1>1, <1>7 DEF InitSave
<1>8. CASE InitMirror(r)
  BY <1>1, <1>8 DEF InitMirror
<1>9. CASE InitRecord(r)
  BY <1>1, <1>9 DEF InitRecord
<1>10. CASE InitAudit(r)
  BY <1>1, <1>10 DEF InitAudit, Answer, Log
<1> QED
  BY <1>2, <1>3, <1>4, <1>5, <1>6, <1>7, <1>8, <1>9, <1>10 DEF InitializePool

\* Neither does revoke_credentials.
LEMMA RevokeFrame ==
  ASSUME TypeOK, NEW r \in Revokes, RevokeCredentials(r) PROVE OthersFrame
<1>1. r \in Requests /\ r \notin Issues /\ lock # r
  BY RequestsAssumption DEF TypeOK, Requests, Uploads
<1> USE DEF chainVars, fileVars, dbVars, OthersFrame, Goto, Return, TypeOK
<1>2. CASE Reject(r)
  BY <1>1, <1>2 DEF Reject
<1>3. CASE StorageFails(r)
  BY <1>1, <1>3 DEF StorageFails
<1>4. CASE RevokeValidate(r)
  BY <1>1, <1>4 DEF RevokeValidate
<1>5. CASE RevokeAppend(r)
  BY <1>1, <1>5 DEF RevokeAppend
<1>6. CASE RevokeAppendFails(r)
  BY <1>1, <1>6 DEF RevokeAppendFails
<1>7. CASE RevokeLoad(r)
  BY <1>1, <1>7 DEF RevokeLoad
<1>8. CASE RevokeSave(r)
  BY <1>1, <1>8 DEF RevokeSave
<1>9. CASE RevokeMirror(r)
  BY <1>1, <1>9 DEF RevokeMirror
<1>10. CASE RevokeRecords(r)
  BY <1>1, <1>10 DEF RevokeRecords
<1>11. CASE RevokeAudit(r)
  BY <1>1, <1>11 DEF RevokeAudit, Answer, Log
<1> QED
  BY Zenon, <1>2, <1>3, <1>4, <1>5, <1>6, <1>7, <1>8, <1>9, <1>10, <1>11 DEF RevokeCredentials

\* What touches nothing of the issuances keeps their invariant.
LEMMA FrameKeepsIssueInv == ASSUME IssueInv, OthersFrame PROVE IssueInv'
<1> USE DEF OthersFrame, chainVars
<1>1. MutexInv'
  BY DEF IssueInv, MutexInv
<1>2. BurnInv'
  <2> SUFFICES ASSUME NEW q \in Issues
               PROVE  BurnsFirst(q)'
    BY DEF BurnInv
  <2>1. pc'[q] = pc[q] /\ dataset'[q] = dataset[q] /\ tx'[q] = tx[q]
    OBVIOUS
  <2> QED
    BY <2>1 DEF IssueInv, BurnInv, BurnsFirst
<1>3. Burned' = Burned
  BY DEF Burned
<1>4. Conservation'
  BY <1>3 DEF IssueInv, Conservation
<1> QED
  BY <1>1, <1>2, <1>4 DEF IssueInv

\* What an issuance leaves alone of the other issuances.
IssuerFrame(r) ==
    \A q \in Issues \ {r} :
        /\ pc'[q] = pc[q] /\ tx'[q] = tx[q] /\ dataset'[q] = dataset[q]
        /\ <<"CredentialIssued", q>> \in audit' => <<"CredentialIssued", q>> \in audit
        /\ <<"CredentialIssuanceFailed", q>> \in audit' =>
              <<"CredentialIssuanceFailed", q>> \in audit

\* One step of an issuance keeps the invariants of that issuance.
LEMMA IssueStep ==
  ASSUME TypeOK, IssueInv, NEW r \in Issues, IssueCredentials(r) \/ Disconnect(r)
  PROVE  /\ IssuerFrame(r)
         /\ BurnsFirst(r)'
         /\ (tx[r] = "burned" <=> tx'[r] = "burned")
         /\ balance' = balance
         /\ \/ lock' = lock /\ (pc[r] \in Critical <=> pc'[r] \in Critical)
            \/ lock = Free /\ lock' = r /\ pc'[r] \in Critical
            \/ lock = r /\ lock' = Free /\ pc'[r] \notin Critical
<1>1. r \in Requests /\ r \in RecordIds /\ r # NoFile /\ r # Free
  BY RequestsAssumption DEF Requests, Uploads, RecordIds
<1>2. BurnsFirst(r) /\ (pc[r] \in Critical <=> lock = r)
  BY DEF IssueInv, BurnInv, MutexInv
<1> USE DEF chainVars, fileVars, dbVars, IssuerFrame, BurnsFirst, Goto, Return, TypeOK,
            AfterBurn, AfterCsv, Critical
<1>3. CASE Reject(r)
  BY <1>1, <1>2, <1>3 DEF Reject
<1>4. CASE StorageFails(r)
  BY <1>1, <1>2, <1>4 DEF StorageFails
<1>5. CASE IssueValidate(r)
  BY <1>1, <1>2, <1>5 DEF IssueValidate
<1>6. CASE IssueCheckBalance(r)
  BY <1>1, <1>2, <1>6 DEF IssueCheckBalance
<1>7. CASE IssueAcquire(r)
  BY <1>1, <1>2, <1>7 DEF IssueAcquire
<1>8. CASE IssueSend(r)
  BY <1>1, <1>2, <1>8 DEF IssueSend
<1>9. CASE IssueSendFails(r)
  BY <1>1, <1>2, <1>9 DEF IssueSendFails
<1>10. CASE IssueConfirmed(r)
  BY <1>1, <1>2, <1>10 DEF IssueConfirmed
<1>11. CASE IssueUnconfirmed(r)
  BY <1>1, <1>2, <1>11 DEF IssueUnconfirmed
<1>12. CASE IssueWriteCsv(r)
  BY <1>1, <1>2, <1>12 DEF IssueWriteCsv
<1>13. CASE IssueWriteCsvFails(r)
  BY <1>1, <1>2, <1>13 DEF IssueWriteCsvFails, Answer, Log
<1>14. CASE IssueWriteAnchor(r)
  BY <1>1, <1>2, <1>14 DEF IssueWriteAnchor
<1>15. CASE IssueReload(r)
  BY <1>1, <1>2, <1>15 DEF IssueReload
<1>16. CASE IssueSave(r)
  BY <1>1, <1>2, <1>16 DEF IssueSave
<1>17. CASE IssueMirror(r)
  BY <1>1, <1>2, <1>17 DEF IssueMirror
<1>18. CASE IssueRecord(r)
  BY <1>1, <1>2, <1>18 DEF IssueRecord
<1>19. CASE IssueAudit(r)
  BY <1>1, <1>2, <1>19 DEF IssueAudit, Answer, Log
<1>20. CASE Disconnect(r)
  BY <1>1, <1>2, <1>20 DEF Disconnect
<1> QED
  BY <1>3, <1>4, <1>5, <1>6, <1>7, <1>8, <1>9, <1>10, <1>11, <1>12, <1>13, <1>14, <1>15, <1>16, <1>17, <1>18, <1>19, <1>20, Zenon DEF IssueCredentials

\* Every step of issue_credentials, and losing its client, keeps the issuance invariant.
LEMMA IssueKeepsInv ==
  ASSUME TypeOK, IssueInv, NEW r \in Issues, IssueCredentials(r) \/ Disconnect(r)
  PROVE  IssueInv'
<1>1. /\ IssuerFrame(r)
      /\ BurnsFirst(r)'
      /\ (tx[r] = "burned" <=> tx'[r] = "burned")
      /\ balance' = balance
      /\ \/ lock' = lock /\ (pc[r] \in Critical <=> pc'[r] \in Critical)
         \/ lock = Free /\ lock' = r /\ pc'[r] \in Critical
         \/ lock = r /\ lock' = Free /\ pc'[r] \notin Critical
  BY IssueStep
<1>2. Free \notin Issues
  BY RequestsAssumption DEF Requests, Uploads
<1>3. MutexInv'
  <2> SUFFICES ASSUME NEW q \in Issues PROVE pc'[q] \in Critical <=> lock' = q
    BY Zenon DEF MutexInv
  <2>1. CASE q = r
    BY <1>1, <1>2, <2>1 DEF IssueInv, MutexInv
  <2>2. CASE q # r
    BY <1>1, <1>2, <2>2, Zenon DEF IssueInv, MutexInv, IssuerFrame
  <2> QED
    BY <2>1, <2>2
<1>4. BurnInv'
  <2> SUFFICES ASSUME NEW q \in Issues, q # r PROVE BurnsFirst(q)'
    BY <1>1 DEF BurnInv
  <2>1. BurnsFirst(q)
    BY DEF IssueInv, BurnInv
  <2> QED
    BY <1>1, <2>1 DEF IssuerFrame, BurnsFirst
<1>5. Burned' = Burned
  BY <1>1, Zenon DEF Burned, IssuerFrame
<1>6. Conservation'
  BY <1>1, <1>5 DEF IssueInv, Conservation
<1> QED
  BY Zenon, <1>3, <1>4, <1>6 DEF IssueInv

\* The chain burns one DRT for the transaction of one request.
LEMMA ChainKeepsInv ==
  ASSUME TypeOK, IssueInv, NEW r \in Issues, ChainExecute(r) \/ ChainExpire(r)
  PROVE  IssueInv'
<1> USE DEF chainVars, fileVars, dbVars
<1>1. UNCHANGED <<pc, lock, dataset, audit>> /\ tx[r] = "sent"
  BY DEF ChainExecute, ChainExpire
<1>2. \A q \in Issues : q # r => tx'[q] = tx[q]
  BY DEF ChainExecute, ChainExpire, TypeOK
<1>3. MutexInv'
  BY <1>1 DEF IssueInv, MutexInv
<1>4. BurnInv'
  <2> SUFFICES ASSUME NEW q \in Issues PROVE BurnsFirst(q)'
    BY DEF BurnInv
  <2>1. BurnsFirst(q)
    BY DEF IssueInv, BurnInv
  <2> QED
    BY <1>1, <1>2, <2>1 DEF BurnsFirst
<1>5. IsFiniteSet(Burned) /\ r \notin Burned /\ Cardinality(Burned) \in Nat
  BY <1>1, RequestsAssumption, FS_Subset, FS_CardinalityType DEF Burned
<1>6. Conservation'
  <2>1. CASE tx'[r] = "burned"
    <3>1. Burned' = Burned \cup {r}
      BY <1>2, <2>1 DEF Burned
    <3>2. Cardinality(Burned') = Cardinality(Burned) + 1
      BY <1>5, <3>1, FS_AddElement
    <3>3. balance' = balance - 1 /\ balance \in Nat
      BY <2>1, SupplyAssumption DEF ChainExecute, ChainExpire, TypeOK
    <3> QED
      BY <1>5, <3>2, <3>3, SupplyAssumption DEF IssueInv, Conservation
  <2>2. CASE tx'[r] # "burned"
    <3>1. Burned' = Burned
      BY <1>1, <1>2, <2>2 DEF Burned
    <3>2. balance' = balance
      BY <2>2 DEF ChainExecute, ChainExpire, TypeOK
    <3> QED
      BY <3>1, <3>2 DEF IssueInv, Conservation
  <2> QED
    BY <2>1, <2>2
<1> QED
  BY <1>3, <1>4, <1>6 DEF IssueInv

\* A restart frees the mutex and forgets the requests, not the payments.
LEMMA RestartKeepsInv == ASSUME TypeOK, IssueInv, Restart PROVE IssueInv'
<1>1. lock' = Free /\ UNCHANGED <<balance, tx, dataset, audit>>
  BY DEF Restart, chainVars, fileVars
<1>2. ASSUME NEW q \in Issues
      PROVE  pc'[q] = IF pc[q] \in Terminal \cup {"start"} THEN pc[q] ELSE "lost"
  BY DEF Restart, Requests, Uploads
<1>3. Free \notin Issues
  BY RequestsAssumption DEF Requests, Uploads
<1>4. MutexInv'
  BY <1>1, <1>2, <1>3 DEF MutexInv, Critical, Terminal
<1>5. BurnInv'
  <2> SUFFICES ASSUME NEW q \in Issues PROVE BurnsFirst(q)'
    BY DEF BurnInv
  <2>1. BurnsFirst(q)
    BY DEF IssueInv, BurnInv
  <2> QED
    BY <1>1, <1>2, <2>1 DEF BurnsFirst, AfterBurn, AfterCsv, Terminal
<1>6. Conservation'
  BY <1>1 DEF IssueInv, Conservation, Burned
<1> QED
  BY <1>4, <1>5, <1>6 DEF IssueInv

\* The issuance invariant holds before the first request.
LEMMA InitIssueInv == Init => IssueInv
<1> SUFFICES ASSUME Init PROVE IssueInv
  OBVIOUS
<1>1. \A r \in Issues : pc[r] = "start" /\ lock # r /\ tx[r] = "none" /\ dataset[r] = NoFile
  BY RequestsAssumption DEF Init, Requests, Uploads, RecordIds
<1>2. MutexInv
  BY <1>1 DEF MutexInv, Critical
<1>3. BurnInv
  BY <1>1 DEF Init, BurnInv, BurnsFirst, AfterBurn, AfterCsv
<1>4. Burned = {}
  BY <1>1 DEF Burned
<1>5. Conservation
  BY <1>4, FS_EmptySet, SupplyAssumption DEF Init, Conservation
<1> QED
  BY <1>2, <1>3, <1>5 DEF IssueInv

\* Every step of the system keeps the issuance invariant.
LEMMA NextIssueInv == TypeOK /\ IssueInv /\ [Next]_vars => IssueInv'
<1> SUFFICES ASSUME TypeOK, IssueInv, [Next]_vars PROVE IssueInv'
  OBVIOUS
<1>1. CASE \E r \in Inits : InitializePool(r)
  BY <1>1, InitializeFrame, FrameKeepsIssueInv
<1>2. CASE \E r \in Revokes : RevokeCredentials(r)
  BY <1>2, RevokeFrame, FrameKeepsIssueInv
<1>3. CASE \E r \in Issues : IssueCredentials(r) \/ Disconnect(r)
  BY <1>3, IssueKeepsInv
<1>4. CASE \E r \in Issues : ChainExecute(r) \/ ChainExpire(r)
  BY <1>4, ChainKeepsInv
<1>5. CASE Restart
  BY <1>5, RestartKeepsInv
<1>6. CASE UNCHANGED vars
  BY <1>6, FrameKeepsIssueInv DEF vars, OthersFrame, fileVars
<1> QED
  BY <1>1, <1>2, <1>3, <1>4, <1>5, <1>6 DEF Next

\* In every reachable state the mutex has at most one holder and every stored
\* issuance is paid for.
THEOREM IssueInvariance == Spec => []IssueInv
  BY InitIssueInv, NextIssueInv, TypeCorrect, PTL DEF Spec

\* At most one issuance is past the pool's mutex, for any number of requests
\* and through restarts and disconnects.
THEOREM IssuersSerializedHolds == Spec => []IssuersSerialized
<1>1. IssueInv => IssuersSerialized
  BY DEF IssueInv, MutexInv, IssuersSerialized
<1> QED
  BY <1>1, IssueInvariance, PTL

\* Nothing is stored that the supply of append DRTs has not paid for.
THEOREM IssuancesPaidHolds == Spec => []IssuancesPaid
<1>1. TypeOK /\ IssueInv => IssuancesPaid
  <2> SUFFICES ASSUME TypeOK, IssueInv PROVE IssuancesPaid
    OBVIOUS
  <2>1. Stored \ {Initial} \subseteq Burned
    BY Zenon DEF Stored, RecordIds, Burned, IssueInv, BurnInv, BurnsFirst
  <2>2. IsFiniteSet(Burned)
    BY RequestsAssumption, FS_Subset DEF Burned
  <2>3. /\ Cardinality(Stored \ {Initial}) <= Cardinality(Burned)
        /\ Cardinality(Stored \ {Initial}) \in Nat /\ Cardinality(Burned) \in Nat
    BY <2>1, <2>2, FS_Subset, FS_CardinalityType
  <2> QED
    BY <2>3, SupplyAssumption DEF IssueInv, Conservation, IssuancesPaid, TypeOK
<1> QED
  BY <1>1, TypeCorrect, IssueInvariance, PTL

\* The audit trail never claims an issuance, or a failed one, that was not.
THEOREM AuditTruthfulHolds == Spec => []AuditTruthful
<1>1. IssueInv => AuditTruthful
  BY Zenon DEF IssueInv, BurnInv, BurnsFirst, AuditTruthful, Stored, RecordIds
<1> QED
  BY <1>1, IssueInvariance, PTL

-----------------------------------------------------------------------------
(* Files and records: what is claimed somewhere is on disk.                 *)

HasInitial == dataset[Initial] # NoFile /\ anchor[Initial] # NoFile
AfterInitCsv == {"init_anchor", "init_save", "init_mirror", "init_record", "init_audit"}
InRevoke == {"rev_append", "rev_load", "rev_save", "rev_mirror", "rev_records", "rev_audit"}
Revoked == {revocations[i] : i \in DOMAIN revocations}

\* A sign that the pool was initialized, in any place it can be read from.
SaysReady ==
    \/ meta.state = "Ready" \/ dbMeta.state = "Ready"
    \/ \E r \in Requests : copy[r].state = "Ready"
    \/ \E r \in Issues : tx[r] # "none" \/ pc[r] \in Critical \cup {"balance", "lock"}

InitialInv ==
    /\ \A r \in Inits : pc[r] \in AfterInitCsv => dataset[Initial] # NoFile
    /\ \A r \in Inits : pc[r] \in AfterInitCsv \ {"init_anchor"} => anchor[Initial] # NoFile
    /\ SaysReady => HasInitial

RevokeInv ==
    \A r \in Revokes :
        /\ pc[r] \in InRevoke => \A k \in DOMAIN ids[r] : ids[r][k] \in Stored
        /\ pc[r] \in InRevoke \ {"rev_append"} =>
              \A k \in DOMAIN ids[r] : ids[r][k] \in Revoked

RecordInv == dbIssued \subseteq Stored /\ dbRevoked \subseteq Revoked /\ Revoked \subseteq Stored

DataInv == InitialInv /\ RevokeInv /\ RecordInv

\* Nothing is ever deleted.
Grows == /\ Stored \subseteq Stored' /\ Revoked \subseteq Revoked'
         /\ dataset[Initial] # NoFile => dataset'[Initial] # NoFile
         /\ anchor[Initial] # NoFile => anchor'[Initial] # NoFile

\* A step that changes neither the records nor the revocation list, and that
\* makes the pool look initialized only if it was or is.
LEMMA GrowsKeeps ==
  ASSUME DataInv, Grows,
         dbIssued' \subseteq Stored', dbRevoked' \subseteq Revoked', Revoked' \subseteq Stored',
         SaysReady' => SaysReady \/ HasInitial',
         \A r \in Inits : pc'[r] \in AfterInitCsv =>
             \/ pc[r] = pc'[r]
             \/ dataset'[Initial] # NoFile /\ (pc'[r] = "init_anchor" \/ anchor'[Initial] # NoFile),
         \A r \in Revokes : pc'[r] \in InRevoke =>
             /\ \A k \in DOMAIN ids'[r] : ids'[r][k] \in Stored'
             /\ pc'[r] # "rev_append" => \A k \in DOMAIN ids'[r] : ids'[r][k] \in Revoked'
  PROVE  DataInv'
<1>1. InitialInv'
  BY DEF DataInv, InitialInv, Grows, HasInitial
<1>2. RevokeInv'
  BY DEF RevokeInv
<1>3. RecordInv'
  BY DEF RecordInv
<1> QED
  BY <1>1, <1>2, <1>3 DEF DataInv

\* What an issuance does to the files and the records: it adds its dataset,
\* then its record, and passes on a Ready it has seen.
LEMMA IssueDataFrame ==
  ASSUME TypeOK, IssueInv, NEW r \in Issues, IssueCredentials(r) \/ Disconnect(r)
  PROVE  /\ \A q \in Inits \cup Revokes : pc'[q] = pc[q]
         /\ UNCHANGED <<ids, revocations, dbRevoked>>
         /\ dataset'[Initial] = dataset[Initial] /\ anchor'[Initial] = anchor[Initial]
         /\ \A id \in RecordIds : dataset[id] # NoFile => dataset'[id] # NoFile
         /\ dbIssued' \subseteq dbIssued \cup {r}
         /\ r \in dbIssued' => r \in dbIssued \/ dataset'[r] # NoFile
         /\ meta'.state \in {meta.state, copy[r].state}
         /\ dbMeta'.state \in {dbMeta.state, copy[r].state}
         /\ \A q \in Requests : copy'[q].state \in {copy[q].state, meta.state}
         /\ \A q \in Issues \ {r} : pc'[q] = pc[q] /\ tx'[q] = tx[q]
         /\ pc'[r] \in Critical \cup {"balance", "lock"} \/ tx'[r] # "none" =>
               \/ pc[r] \in Critical \cup {"balance", "lock"} \/ tx[r] # "none"
               \/ meta.state = "Ready"
<1>1. /\ r \in Requests /\ r \in RecordIds /\ r # NoFile /\ r # Initial /\ Initial \in RecordIds
      /\ r \notin Inits \cup Revokes /\ Inits \cup Revokes \subseteq Requests
  BY RequestsAssumption DEF Requests, Uploads, RecordIds
<1>2. pc[r] = "record" => dataset[r] # NoFile
  BY Zenon DEF IssueInv, BurnInv, BurnsFirst, AfterCsv, AfterBurn
<1> USE DEF chainVars, fileVars, dbVars, Goto, Return, TypeOK, Critical, Metas
<1>3. CASE Reject(r)
  BY <1>1, <1>2, <1>3 DEF Reject
<1>4. CASE StorageFails(r)
  BY <1>1, <1>2, <1>4 DEF StorageFails
<1>5. CASE IssueValidate(r)
  BY <1>1, <1>2, <1>5 DEF IssueValidate
<1>6. CASE IssueCheckBalance(r)
  BY <1>1, <1>2, <1>6 DEF IssueCheckBalance
<1>7. CASE IssueAcquire(r)
  BY <1>1, <1>2, <1>7 DEF IssueAcquire
<1>8. CASE IssueSend(r)
  BY <1>1, <1>2, <1>8 DEF IssueSend
<1>9. CASE IssueSendFails(r)
  BY <1>1, <1>2, <1>9 DEF IssueSendFails
<1>10. CASE IssueConfirmed(r)
  BY <1>1, <1>2, <1>10 DEF IssueConfirmed
<1>11. CASE IssueUnconfirmed(r)
  BY <1>1, <1>2, <1>11 DEF IssueUnconfirmed
<1>12. CASE IssueWriteCsv(r)
  BY <1>1, <1>2, <1>12 DEF IssueWriteCsv
<1>13. CASE IssueWriteCsvFails(r)
  BY <1>1, <1>2, <1>13 DEF IssueWriteCsvFails, Answer
<1>14. CASE IssueWriteAnchor(r)
  BY <1>1, <1>2, <1>14 DEF IssueWriteAnchor
<1>15. CASE IssueReload(r)
  BY <1>1, <1>2, <1>15 DEF IssueReload
<1>16. CASE IssueSave(r)
  BY <1>1, <1>2, <1>16 DEF IssueSave
<1>17. CASE IssueMirror(r)
  BY <1>1, <1>2, <1>17 DEF IssueMirror, UpsertPoolMeta
<1>18. CASE IssueRecord(r)
  BY <1>1, <1>2, <1>18 DEF IssueRecord, UpsertIssuance
<1>19. CASE IssueAudit(r)
  BY <1>1, <1>2, <1>19 DEF IssueAudit, Answer
<1>20. CASE Disconnect(r)
  BY <1>1, <1>2, <1>20 DEF Disconnect
<1> QED
  BY <1>3, <1>4, <1>5, <1>6, <1>7, <1>8, <1>9, <1>10, <1>11, <1>12, <1>13, <1>14, <1>15, <1>16, <1>17, <1>18, <1>19, <1>20, Zenon DEF IssueCredentials

\* issue_credentials keeps the invariant of the files and the mirror.
LEMMA IssueKeepsData ==
  ASSUME TypeOK, IssueInv, DataInv, NEW r \in Issues, IssueCredentials(r) \/ Disconnect(r)
  PROVE  DataInv'
<1>1. /\ r \in Requests /\ r \in RecordIds
      /\ Inits \subseteq Inits \cup Revokes /\ Revokes \subseteq Inits \cup Revokes
  BY DEF Requests, Uploads, RecordIds
<1>2. Stored \subseteq Stored' /\ Revoked' = Revoked
  BY IssueDataFrame DEF Stored, Revoked
<1>3. Grows
  BY <1>2, IssueDataFrame DEF Grows
<1>4. dbIssued' \subseteq Stored' /\ dbRevoked' \subseteq Revoked' /\ Revoked' \subseteq Stored'
  <2>1. r \in dbIssued' => r \in Stored'
    BY Zenon, <1>1, <1>2, IssueDataFrame DEF Stored, DataInv, RecordInv
  <2> QED
    BY Zenon, <1>2, <2>1, IssueDataFrame DEF DataInv, RecordInv
<1>5. SaysReady' => SaysReady
  <2>0. /\ meta'.state = meta.state \/ meta'.state = copy[r].state
        /\ dbMeta'.state = dbMeta.state \/ dbMeta'.state = copy[r].state
        /\ \A q \in Requests : copy'[q].state = copy[q].state \/ copy'[q].state = meta.state
    BY Zenon, IssueDataFrame
  <2>1. meta'.state = "Ready" \/ dbMeta'.state = "Ready" => SaysReady
    BY <1>1, <2>0 DEF SaysReady
  <2>2. ASSUME NEW q \in Requests, copy'[q].state = "Ready" PROVE SaysReady
    BY <2>0, <2>2 DEF SaysReady
  <2>3. ASSUME NEW q \in Issues, tx'[q] # "none" \/ pc'[q] \in Critical \cup {"balance", "lock"}
        PROVE  SaysReady
    BY Zenon, <2>3, IssueDataFrame DEF SaysReady
  <2> QED
    BY Zenon, <2>1, <2>2, <2>3 DEF SaysReady
<1>6. \A q \in Revokes : pc'[q] \in InRevoke =>
         /\ \A k \in DOMAIN ids'[q] : ids'[q][k] \in Stored'
         /\ pc'[q] # "rev_append" => \A k \in DOMAIN ids'[q] : ids'[q][k] \in Revoked'
  BY <1>1, <1>2, IssueDataFrame DEF DataInv, RevokeInv
<1>7. \A q \in Inits : pc'[q] = pc[q]
  BY <1>1, IssueDataFrame, Zenon
<1> QED
  BY <1>3, <1>4, <1>5, <1>6, <1>7, GrowsKeeps

\* What an initialization does: the dataset, the anchor, and Ready last.
LEMMA InitializeDataFrame ==
  ASSUME TypeOK, DataInv, NEW r \in Inits, InitializePool(r)
  PROVE  /\ \A q \in Requests \ {r} : pc'[q] = pc[q]
         /\ UNCHANGED <<ids, revocations, dbRevoked, tx>>
         /\ \A id \in RecordIds : dataset[id] # NoFile => dataset'[id] # NoFile
         /\ anchor[Initial] # NoFile => anchor'[Initial] # NoFile
         /\ pc'[r] \in AfterInitCsv => dataset'[Initial] # NoFile
         /\ pc'[r] \in AfterInitCsv \ {"init_anchor"} => anchor'[Initial] # NoFile
         /\ dbIssued' \subseteq dbIssued \cup {Initial}
         /\ dbIssued' = dbIssued \/ dataset'[Initial] # NoFile
         /\ dbMeta'.state \in {dbMeta.state, copy[r].state}
         /\ \/ pc'[r] = "init_mirror"
            \/ /\ meta'.state = meta.state
               /\ \A q \in Requests : copy'[q].state \in {copy[q].state, meta.state}
<1>1. r \in Requests /\ r # NoFile /\ Initial \in RecordIds
  BY RequestsAssumption DEF Requests, Uploads, RecordIds
<1>2. /\ pc[r] \in AfterInitCsv => dataset[Initial] # NoFile
      /\ pc[r] \in AfterInitCsv \ {"init_anchor"} => anchor[Initial] # NoFile
  BY DEF DataInv, InitialInv
<1> USE DEF chainVars, fileVars, dbVars, Goto, Return, TypeOK, Metas, AfterInitCsv
<1>3. CASE Reject(r)
  BY Zenon, <1>1, <1>2, <1>3 DEF Reject
<1>4. CASE StorageFails(r)
  BY Zenon, <1>1, <1>2, <1>4 DEF StorageFails
<1>5. CASE InitLoad(r)
  BY Zenon, <1>1, <1>2, <1>5 DEF InitLoad
<1>6. CASE InitWriteCsv(r)
  BY <1>1, <1>2, <1>6 DEF InitWriteCsv
<1>7. CASE InitWriteAnchor(r)
  BY <1>1, <1>2, <1>7 DEF InitWriteAnchor
<1>8. CASE InitSave(r)
  BY Zenon, <1>1, <1>2, <1>8 DEF InitSave
<1>9. CASE InitMirror(r)
  BY Zenon, <1>1, <1>2, <1>9 DEF InitMirror, UpsertPoolMeta
<1>10. CASE InitRecord(r)
  BY Zenon, <1>1, <1>2, <1>10 DEF InitRecord, UpsertIssuance
<1>11. CASE InitAudit(r)
  BY Zenon, <1>1, <1>2, <1>11 DEF InitAudit, Answer
<1> QED
  BY <1>3, <1>4, <1>5, <1>6, <1>7, <1>8, <1>9, <1>10, <1>11, Zenon DEF InitializePool

\* initialize_pool keeps the invariant of the files and the mirror.
LEMMA InitializeKeepsData ==
  ASSUME TypeOK, DataInv, NEW r \in Inits, InitializePool(r)
  PROVE  DataInv'
<1>1. /\ r \in Requests /\ Initial \in RecordIds /\ r \notin Revokes /\ r \notin Issues
      /\ Issues \subseteq Requests /\ Revokes \subseteq Requests /\ Inits \subseteq Requests
  BY Zenon, RequestsAssumption DEF Requests, Uploads, RecordIds
<1>2. Stored \subseteq Stored' /\ Revoked' = Revoked
  <2>1. \A id \in RecordIds : dataset[id] # NoFile => dataset'[id] # NoFile
    BY Zenon, InitializeDataFrame
  <2>2. revocations' = revocations
    BY Zenon, InitializeDataFrame
  <2> QED
    BY <2>1, <2>2 DEF Stored, Revoked
<1>3. Grows
  BY <1>1, <1>2, InitializeDataFrame DEF Grows
<1>4. dbIssued' \subseteq Stored' /\ dbRevoked' \subseteq Revoked' /\ Revoked' \subseteq Stored'
  <2>1. dbIssued' = dbIssued \/ Initial \in Stored'
    BY <1>1, InitializeDataFrame DEF Stored
  <2> QED
    BY <1>2, <2>1, InitializeDataFrame DEF DataInv, RecordInv
<1>5. SaysReady' => SaysReady \/ HasInitial'
  <2>1. CASE pc'[r] = "init_mirror"
    BY Zenon, <2>1, InitializeDataFrame DEF HasInitial, AfterInitCsv
  <2>2. CASE pc'[r] # "init_mirror"
    BY <1>1, <2>2, InitializeDataFrame DEF SaysReady
  <2> QED
    BY <2>1, <2>2
<1>6. \A q \in Revokes : pc'[q] \in InRevoke =>
         /\ \A k \in DOMAIN ids'[q] : ids'[q][k] \in Stored'
         /\ pc'[q] # "rev_append" => \A k \in DOMAIN ids'[q] : ids'[q][k] \in Revoked'
  BY Zenon, <1>1, <1>2, InitializeDataFrame DEF DataInv, RevokeInv
<1>7. \A q \in Inits : pc'[q] \in AfterInitCsv =>
         \/ pc[q] = pc'[q]
         \/ dataset'[Initial] # NoFile /\ (pc'[q] = "init_anchor" \/ anchor'[Initial] # NoFile)
  BY <1>1, InitializeDataFrame
<1> QED
  BY Zenon, <1>3, <1>4, <1>5, <1>6, <1>7, GrowsKeeps

Elems(s) == {s[k] : k \in DOMAIN s}

\* What a concatenation holds.
LEMMA ConcatElems ==
  ASSUME NEW a \in Seq(RecordIds), NEW b \in Seq(RecordIds), NEW s, s = a \o b
  PROVE  Elems(s) = Elems(a) \cup Elems(b)
<1>1. /\ DOMAIN s = 1..(Len(a) + Len(b)) /\ DOMAIN a = 1..Len(a) /\ DOMAIN b = 1..Len(b)
      /\ Len(a) \in Nat /\ Len(b) \in Nat
  OBVIOUS
<1>2. \A k \in DOMAIN s : s[k] = IF k <= Len(a) THEN a[k] ELSE b[k - Len(a)]
  OBVIOUS
<1>3. ASSUME NEW k \in DOMAIN s
      PROVE  (\E j \in DOMAIN a : s[k] = a[j]) \/ (\E j \in DOMAIN b : s[k] = b[j])
  BY <1>1, <1>2
<1>4. ASSUME NEW k \in DOMAIN a PROVE \E j \in DOMAIN s : a[k] = s[j]
  BY <1>1, <1>2
<1>5. ASSUME NEW k \in DOMAIN b PROVE \E j \in DOMAIN s : b[k] = s[j]
  <2>1. k + Len(a) \in DOMAIN s /\ s[k + Len(a)] = b[k]
    BY <1>1, <1>2
  <2> QED
    BY <2>1
<1>6. {s[k] : k \in DOMAIN s} \subseteq {a[k] : k \in DOMAIN a} \cup {b[k] : k \in DOMAIN b}
  BY <1>3, Zenon
<1>7. {a[k] : k \in DOMAIN a} \subseteq {s[k] : k \in DOMAIN s}
  BY <1>4, Zenon
<1>8. {b[k] : k \in DOMAIN b} \subseteq {s[k] : k \in DOMAIN s}
  BY <1>5, ZenonT(40)
<1> QED
  BY <1>6, <1>7, <1>8, Zenon DEF Elems

\* What a revocation does: it appends records it has found, then mirrors them.
LEMMA RevokeDataFrame ==
  ASSUME TypeOK, DataInv, NEW r \in Revokes, RevokeCredentials(r)
  PROVE  /\ \A q \in Requests \ {r} : pc'[q] = pc[q]
         /\ \A q \in Revokes \ {r} : ids'[q] = ids[q]
         /\ UNCHANGED <<dataset, anchor, dbIssued, tx>>
         /\ meta'.state \in {meta.state, copy[r].state}
         /\ dbMeta'.state \in {dbMeta.state, copy[r].state}
         /\ \A q \in Requests : copy'[q].state \in {copy[q].state, meta.state}
<1>1. r \in Requests
  BY DEF Requests
<1> USE DEF chainVars, fileVars, dbVars, Goto, Return, TypeOK, Metas
<1>2. CASE Reject(r)
  BY Zenon, <1>1, <1>2 DEF Reject
<1>3. CASE StorageFails(r)
  BY Zenon, <1>1, <1>3 DEF StorageFails
<1>4. CASE RevokeValidate(r)
  BY <1>1, <1>4 DEF RevokeValidate
<1>5. CASE RevokeAppend(r)
  BY Zenon, <1>1, <1>5 DEF RevokeAppend
<1>6. CASE RevokeAppendFails(r)
  BY Zenon, <1>1, <1>6 DEF RevokeAppendFails
<1>7. CASE RevokeLoad(r)
  BY <1>1, <1>7 DEF RevokeLoad
<1>8. CASE RevokeSave(r)
  BY Zenon, <1>1, <1>8 DEF RevokeSave
<1>9. CASE RevokeMirror(r)
  BY Zenon, <1>1, <1>9 DEF RevokeMirror, UpsertPoolMeta
<1>10. CASE RevokeRecords(r)
  BY Zenon, <1>1, <1>10 DEF RevokeRecords
<1>11. CASE RevokeAudit(r)
  BY Zenon, <1>1, <1>11 DEF RevokeAudit, Answer
<1> QED
  BY <1>2, <1>3, <1>4, <1>5, <1>6, <1>7, <1>8, <1>9, <1>10, <1>11 DEF RevokeCredentials

\* revoke_credentials only adds to the revocation list, and only ids of stored
\* records.
LEMMA RevokeLists ==
  ASSUME TypeOK, DataInv, NEW r \in Revokes, RevokeCredentials(r)
  PROVE  /\ Revoked \subseteq Revoked' /\ Revoked' \subseteq Stored
         /\ dbRevoked' \subseteq Revoked'
         /\ pc'[r] \in InRevoke =>
               /\ \A k \in DOMAIN ids'[r] : ids'[r][k] \in Stored
               /\ pc'[r] # "rev_append" => \A k \in DOMAIN ids'[r] : ids'[r][k] \in Revoked'
<1>1. r \in Requests
  BY DEF Requests
<1>2. /\ pc[r] \in InRevoke => \A k \in DOMAIN ids[r] : ids[r][k] \in Stored
      /\ pc[r] \in InRevoke \ {"rev_append"} => \A k \in DOMAIN ids[r] : ids[r][k] \in Revoked
      /\ dbRevoked \subseteq Revoked /\ Revoked \subseteq Stored
  BY DEF DataInv, RevokeInv, RecordInv
<1>3. CASE RevokeValidate(r)
  <2>1. PICK p \in Payloads : /\ \A k \in DOMAIN p : dataset[p[k]] # NoFile
                              /\ ids' = [ids EXCEPT ![r] = p]
    BY Zenon, <1>3 DEF RevokeValidate
  <2>2. ids'[r] = p /\ \A k \in DOMAIN p : p[k] \in Stored
    BY <2>1, PayloadsAssumption DEF TypeOK, Stored
  <2>3. pc'[r] = "rev_append" /\ Revoked' = Revoked /\ dbRevoked' = dbRevoked
    BY <1>1, <1>3 DEF RevokeValidate, Goto, TypeOK, Revoked, fileVars, dbVars
  <2> QED
    BY <1>2, <2>2, <2>3
<1>4. CASE RevokeAppend(r)
  <2>1. Revoked' = Revoked \cup {ids[r][k] : k \in DOMAIN ids[r]}
    <3>1. revocations' = revocations \o ids[r]
      BY <1>4 DEF RevokeAppend
    <3>2. revocations \in Seq(RecordIds) /\ ids[r] \in Seq(RecordIds)
      BY DEF TypeOK
    <3>3. Elems(revocations') = Elems(revocations) \cup Elems(ids[r])
      BY <3>1, <3>2, ConcatElems, Zenon
    <3> QED
      BY <3>3 DEF Revoked, Elems
  <2>2. pc[r] = "rev_append" /\ ids' = ids /\ dbRevoked' = dbRevoked
    BY <1>4 DEF RevokeAppend, dbVars
  <2> QED
    BY Zenon, <1>2, <2>1, <2>2 DEF InRevoke
<1>5. CASE RevokeAppendFails(r)
  <2>1. PICK n \in 0..(Len(ids[r]) - 1) : revocations' = revocations \o SubSeq(ids[r], 1, n)
    BY Zenon, <1>5 DEF RevokeAppendFails
  <2> DEFINE p == SubSeq(ids[r], 1, n)
  <2>2. p \in Seq(RecordIds) /\ DOMAIN p = 1..n /\ \A k \in 1..n : p[k] = ids[r][k] /\ k \in DOMAIN ids[r]
    <3>1. ids[r] \in Seq(RecordIds)
      BY DEF TypeOK
    <3>2. Len(ids[r]) \in Nat /\ n \in Nat /\ n <= Len(ids[r]) /\ 1..n \subseteq DOMAIN ids[r]
      BY <3>1
    <3>3. \A k \in 1..n : ids[r][k] \in RecordIds
      BY <3>1, <3>2
    <3>4. p = [k \in 1..n |-> ids[r][k]]
      BY <3>1, <3>2
    <3> QED
      BY <3>2, <3>3, <3>4
  <2>3. Revoked' = Revoked \cup {p[k] : k \in DOMAIN p}
    <3>1. revocations \in Seq(RecordIds)
      BY DEF TypeOK
    <3> HIDE DEF p
    <3>2. revocations' = revocations \o p
      BY <2>1 DEF p
    <3>3. Elems(revocations') = Elems(revocations) \cup Elems(p)
      BY <2>2, <3>1, <3>2, ConcatElems, Zenon
    <3> QED
      BY Zenon, <3>3 DEF Revoked, Elems
  <2>4. pc[r] = "rev_append" /\ pc'[r] = "failed" /\ dbRevoked' = dbRevoked
    BY <1>1, <1>5 DEF RevokeAppendFails, Return, Goto, TypeOK, dbVars
  <2> QED
    BY <1>2, <2>2, <2>3, <2>4 DEF InRevoke
<1>6. CASE RevokeRecords(r)
  <2>1. dbRevoked' \subseteq dbRevoked \cup {ids[r][k] : k \in DOMAIN ids[r]}
    BY <1>6 DEF RevokeRecords
  <2>2. pc[r] = "rev_records" /\ ids' = ids /\ Revoked' = Revoked
    BY Zenon, <1>6 DEF RevokeRecords, fileVars, Revoked
  <2> QED
    BY <1>2, <2>1, <2>2 DEF InRevoke
<1>7. CASE Reject(r) \/ StorageFails(r) \/ RevokeLoad(r) \/ RevokeSave(r)
           \/ RevokeMirror(r) \/ RevokeAudit(r)
  <2>1. revocations' = revocations /\ dbRevoked' = dbRevoked /\ ids' = ids
    BY <1>7 DEF Reject, StorageFails, RevokeLoad, RevokeSave, RevokeMirror, RevokeAudit,
                fileVars, dbVars
  <2>2. pc'[r] \in InRevoke => pc[r] \in InRevoke \ {"rev_append"}
    BY Zenon, <1>1, <1>7 DEF Reject, StorageFails, RevokeLoad, RevokeSave, RevokeMirror, RevokeAudit,
                      Goto, Return, TypeOK, InRevoke
  <2> QED
    BY <1>2, <2>1, <2>2 DEF Revoked
<1> QED
  BY Zenon, <1>3, <1>4, <1>5, <1>6, <1>7 DEF RevokeCredentials

\* revoke_credentials keeps the invariant of the files and the mirror.
LEMMA RevokeKeepsData ==
  ASSUME TypeOK, DataInv, NEW r \in Revokes, RevokeCredentials(r)
  PROVE  DataInv'
<1>1. /\ r \in Requests /\ r \notin Inits /\ r \notin Issues
      /\ Issues \subseteq Requests /\ Revokes \subseteq Requests /\ Inits \subseteq Requests
  BY RequestsAssumption DEF Requests, Uploads
<1>2. Stored' = Stored
  BY RevokeDataFrame DEF Stored
<1>3. Grows
  BY Zenon, <1>2, RevokeDataFrame, RevokeLists DEF Grows
<1>4. dbIssued' \subseteq Stored' /\ dbRevoked' \subseteq Revoked' /\ Revoked' \subseteq Stored'
  BY Zenon, <1>2, RevokeDataFrame, RevokeLists DEF DataInv, RecordInv
<1>5. SaysReady' => SaysReady
  <2>1. meta'.state = "Ready" \/ dbMeta'.state = "Ready" => SaysReady
    BY ZenonT(40), <1>1, RevokeDataFrame DEF SaysReady
  <2>2. (\E q \in Requests : copy'[q].state = "Ready") => SaysReady
    BY Zenon, <1>1, RevokeDataFrame DEF SaysReady
  <2>3. (\E q \in Issues : tx'[q] # "none" \/ pc'[q] \in Critical \cup {"balance", "lock"})
          => SaysReady
    BY ZenonT(40), <1>1, RevokeDataFrame DEF SaysReady
  <2> QED
    BY Zenon, <2>1, <2>2, <2>3 DEF SaysReady
<1>6. ASSUME NEW q \in Revokes, pc'[q] \in InRevoke
      PROVE  /\ \A k \in DOMAIN ids'[q] : ids'[q][k] \in Stored'
             /\ pc'[q] # "rev_append" => \A k \in DOMAIN ids'[q] : ids'[q][k] \in Revoked'
  <2>1. CASE q = r
    BY Zenon, <1>2, <1>6, <2>1, RevokeLists
  <2>2. CASE q # r
    <3>1. pc'[q] = pc[q] /\ ids'[q] = ids[q] /\ Revoked \subseteq Revoked'
      BY Zenon, <1>1, <2>2, RevokeDataFrame, RevokeLists
    <3> QED
      BY Zenon, <1>2, <1>6, <3>1 DEF DataInv, RevokeInv
  <2> QED
    BY <2>1, <2>2
<1>7. \A q \in Inits : pc'[q] = pc[q]
  BY <1>1, RevokeDataFrame
<1> QED
  BY <1>3, <1>4, <1>5, <1>6, <1>7, GrowsKeeps

\* The environment touches neither the files nor the records.
LEMMA EnvironmentKeepsData ==
  ASSUME TypeOK, DataInv,
         (\E r \in Issues : ChainExecute(r) \/ ChainExpire(r)) \/ Restart \/ UNCHANGED vars
  PROVE  DataInv'
<1>1. UNCHANGED <<meta, dataset, anchor, revocations, dbMeta, dbIssued, dbRevoked, copy, ids>>
  BY DEF ChainExecute, ChainExpire, Restart, fileVars, dbVars, vars
<1>2. \A q \in Requests : pc'[q] = pc[q] \/ pc'[q] = "lost"
  BY DEF ChainExecute, ChainExpire, Restart, vars
<1>3. ASSUME NEW q \in Issues, tx[q] = "none" PROVE tx'[q] = "none"
  BY <1>3 DEF ChainExecute, ChainExpire, Restart, chainVars, vars, TypeOK
<1>4. Issues \subseteq Requests /\ Revokes \subseteq Requests /\ Inits \subseteq Requests
  BY DEF Requests, Uploads
<1>5. Grows
  BY <1>1 DEF Grows, Stored, Revoked
<1>6. dbIssued' \subseteq Stored' /\ dbRevoked' \subseteq Revoked' /\ Revoked' \subseteq Stored'
  BY Zenon, <1>1 DEF DataInv, RecordInv, Stored, Revoked
<1>7. SaysReady' => SaysReady
  BY Zenon, <1>1, <1>2, <1>3, <1>4 DEF SaysReady, Critical
<1>8. ASSUME NEW q \in Revokes, pc'[q] \in InRevoke
      PROVE  /\ \A k \in DOMAIN ids'[q] : ids'[q][k] \in Stored'
             /\ pc'[q] # "rev_append" => \A k \in DOMAIN ids'[q] : ids'[q][k] \in Revoked'
  <2>1. pc'[q] = pc[q]
    BY <1>2, <1>4, <1>8 DEF InRevoke
  <2> QED
    BY <1>1, <1>8, <2>1 DEF DataInv, RevokeInv, Stored, Revoked
<1>9. \A q \in Inits : pc'[q] \in AfterInitCsv => pc'[q] = pc[q]
  BY <1>2, <1>4 DEF AfterInitCsv
<1> QED
  BY Zenon, <1>5, <1>6, <1>7, <1>8, <1>9, GrowsKeeps

\* A new pool has no files and no mirrored rows.
LEMMA InitDataInv == Init => DataInv
<1> SUFFICES ASSUME Init PROVE DataInv
  OBVIOUS
<1>1. /\ \A r \in Requests : pc[r] = "start" /\ copy[r] = NewMeta
      /\ \A r \in Issues : tx[r] = "none"
      /\ meta = NewMeta /\ dbMeta = NewMeta /\ revocations = <<>> /\ dbIssued = {} /\ dbRevoked = {}
  BY DEF Init
<1>2. Issues \subseteq Requests /\ Revokes \subseteq Requests /\ Inits \subseteq Requests
  BY DEF Requests, Uploads
<1>3. ~SaysReady
  <2>1. NewMeta.state # "Ready" /\ "start" \notin Critical \cup {"balance", "lock"}
    BY DEF NewMeta, Critical
  <2> QED
    BY Zenon, <1>1, <1>2, <2>1 DEF SaysReady
<1>4. InitialInv
  BY Zenon, <1>1, <1>2, <1>3 DEF InitialInv, AfterInitCsv
<1>5. RevokeInv
  BY Zenon, <1>1, <1>2 DEF RevokeInv, InRevoke
<1>6. RecordInv
  BY <1>1 DEF RecordInv, Revoked
<1> QED
  BY <1>4, <1>5, <1>6 DEF DataInv

\* Every step of the system keeps the invariant of the files and the mirror.
LEMMA NextDataInv == TypeOK /\ IssueInv /\ DataInv /\ [Next]_vars => DataInv'
<1> SUFFICES ASSUME TypeOK, IssueInv, DataInv, [Next]_vars PROVE DataInv'
  OBVIOUS
<1>1. ASSUME NEW r \in Inits, InitializePool(r) PROVE DataInv'
  BY <1>1, InitializeKeepsData
<1>2. ASSUME NEW r \in Issues, IssueCredentials(r) \/ Disconnect(r) PROVE DataInv'
  BY <1>2, IssueKeepsData
<1>3. ASSUME NEW r \in Revokes, RevokeCredentials(r) PROVE DataInv'
  BY <1>3, RevokeKeepsData
<1>4. CASE (\E r \in Issues : ChainExecute(r) \/ ChainExpire(r)) \/ Restart \/ UNCHANGED vars
  BY <1>4, EnvironmentKeepsData
<1> QED
  BY <1>1, <1>2, <1>3, <1>4 DEF Next

\* The inductive invariant behind the two theorems that follow.
THEOREM DataInvariance == Spec => []DataInv
  BY InitDataInv, NextDataInv, TypeCorrect, IssueInvariance, PTL DEF Spec

\* No append DRT is spent, and the pool is nowhere Ready, before the initial
\* dataset and its anchor are on disk.
THEOREM NothingBeforeInitialHolds == Spec => []NothingBeforeInitial
<1>1. DataInv => NothingBeforeInitial
  BY DEF DataInv, InitialInv, SaysReady, HasInitial, NothingBeforeInitial
<1> QED
  BY <1>1, DataInvariance, PTL

\* The records in redb and in revocations.jsonl never run ahead of the files.
THEOREM RecordsBackedHolds == Spec => []RecordsBacked
<1>1. DataInv => RecordsBacked
  BY Zenon DEF DataInv, RecordInv, Revoked, RecordsBacked
<1> QED
  BY <1>1, DataInvariance, PTL

-----------------------------------------------------------------------------
(* The read-modify-write of pool.meta.json in issue_credentials, while no    *)
(* revocation and at most one initialization has begun (Undisturbed).       *)

Unlocked == {"init_csv", "init_anchor", "init_save"}

\* Where the rows of an upload are in the total.
Counting == {"mirror", "record", "audit", "init_mirror", "init_record", "init_audit", "ok"}
Counted == {r \in Uploads : pc[r] \in Counting}

FreshInv ==
    /\ \A r \in Issues : pc[r] = "save" => copy[r] = meta
    /\ \A r \in Issues : pc[r] \in Critical \cup {"balance", "lock"} => meta.state = "Ready"
    /\ \A r \in Inits : pc[r] \in Unlocked => meta.state = "NeedsInit"

\* What one step of an issuance does to the metadata and the other requests.
LEMMA IssueMetaFrame ==
  ASSUME TypeOK, FreshInv, NEW r \in Issues, IssueCredentials(r) \/ Disconnect(r)
  PROVE  /\ \A q \in Requests \ {r} : pc'[q] = pc[q] /\ copy'[q] = copy[q]
         /\ meta' = meta \/ (pc[r] = "save" /\ pc'[r] = "mirror")
         /\ meta'.state = meta.state
         /\ pc[r] = "save" /\ pc'[r] = "mirror" => meta' = [meta EXCEPT !.total = @ + Rows[r]]
         /\ pc'[r] \in Critical \cup {"balance", "lock"} => meta.state = "Ready"
         /\ pc'[r] = "save" => copy'[r] = meta
         /\ pc'[r] \in Counting => pc[r] \in Counting \/ (pc[r] = "save" /\ pc'[r] = "mirror")
<1>1. r \in Requests /\ pc \in [Requests -> Labels] /\ copy \in [Requests -> Metas]
  BY DEF Requests, Uploads, TypeOK
<1>2. pc[r] = "save" => copy[r] = meta
  BY DEF FreshInv
<1>3. pc[r] \in Critical \cup {"balance", "lock"} => meta.state = "Ready"
  BY DEF FreshInv
<1> USE DEF chainVars, fileVars, dbVars, Goto, Return, Critical, Counting
<1>4. CASE Reject(r)
  BY <1>1, <1>2, <1>3, <1>4 DEF Reject
<1>5. CASE StorageFails(r)
  BY <1>1, <1>2, <1>3, <1>5 DEF StorageFails
<1>6. CASE IssueValidate(r)
  BY <1>1, <1>2, <1>3, <1>6 DEF IssueValidate
<1>7. CASE IssueCheckBalance(r)
  BY <1>1, <1>2, <1>3, <1>7 DEF IssueCheckBalance
<1>8. CASE IssueAcquire(r)
  BY <1>1, <1>2, <1>3, <1>8 DEF IssueAcquire
<1>9. CASE IssueSend(r)
  BY <1>1, <1>2, <1>3, <1>9 DEF IssueSend
<1>10. CASE IssueSendFails(r)
  BY <1>1, <1>2, <1>3, <1>10 DEF IssueSendFails
<1>11. CASE IssueConfirmed(r)
  BY <1>1, <1>2, <1>3, <1>11 DEF IssueConfirmed
<1>12. CASE IssueUnconfirmed(r)
  BY <1>1, <1>2, <1>3, <1>12 DEF IssueUnconfirmed
<1>13. CASE IssueWriteCsv(r)
  BY <1>1, <1>2, <1>3, <1>13 DEF IssueWriteCsv
<1>14. CASE IssueWriteCsvFails(r)
  BY <1>1, <1>2, <1>3, <1>14 DEF IssueWriteCsvFails, Answer
<1>15. CASE IssueWriteAnchor(r)
  BY <1>1, <1>2, <1>3, <1>15 DEF IssueWriteAnchor
<1>16. CASE IssueReload(r)
  BY <1>1, <1>2, <1>3, <1>16 DEF IssueReload
<1>17. CASE IssueSave(r)
  BY <1>1, <1>2, <1>3, <1>17 DEF IssueSave
<1>18. CASE IssueMirror(r)
  BY <1>1, <1>2, <1>3, <1>18 DEF IssueMirror
<1>19. CASE IssueRecord(r)
  BY <1>1, <1>2, <1>3, <1>19 DEF IssueRecord
<1>20. CASE IssueAudit(r)
  BY <1>1, <1>2, <1>3, <1>20 DEF IssueAudit, Answer
<1>21. CASE Disconnect(r)
  BY <1>1, <1>2, <1>3, <1>21 DEF Disconnect
<1> QED
  BY Zenon, <1>4, <1>5, <1>6, <1>7, <1>8, <1>9, <1>10, <1>11, <1>12, <1>13, <1>14, <1>15, <1>16, <1>17, <1>18, <1>19, <1>20, <1>21 DEF IssueCredentials

\* What initialize_pool does to the metadata and to the copies of it.
LEMMA InitializeMetaFrame ==
  ASSUME TypeOK, FreshInv, NEW r \in Inits, InitializePool(r)
  PROVE  /\ \A q \in Requests \ {r} : pc'[q] = pc[q] /\ copy'[q] = copy[q]
         /\ meta' = meta \/ (pc[r] = "init_save" /\ pc'[r] = "init_mirror" /\ meta'.state = "Ready")
         /\ pc'[r] \in Unlocked => meta.state = "NeedsInit" /\ meta' = meta
         /\ pc'[r] \in Counting => \/ pc[r] \in Counting
                                  \/ /\ pc[r] = "init_save"
                                     /\ meta'.state = "Ready" /\ meta'.total = Rows[r]
<1>1. r \in Requests /\ pc \in [Requests -> Labels] /\ copy \in [Requests -> Metas]
  BY Zenon DEF Requests, Uploads, TypeOK
<1>2. pc[r] \in Unlocked => meta.state = "NeedsInit"
  BY Zenon DEF FreshInv
<1> USE DEF chainVars, fileVars, dbVars, Goto, Return, Unlocked, Counting
<1>3. CASE Reject(r)
  BY <1>1, <1>2, <1>3 DEF Reject
<1>4. CASE StorageFails(r)
  BY <1>1, <1>2, <1>4 DEF StorageFails
<1>5. CASE InitLoad(r)
  BY <1>1, <1>2, <1>5 DEF InitLoad
<1>6. CASE InitWriteCsv(r)
  BY <1>1, <1>2, <1>6 DEF InitWriteCsv
<1>7. CASE InitWriteAnchor(r)
  BY <1>1, <1>2, <1>7 DEF InitWriteAnchor
<1>8. CASE InitSave(r)
  BY <1>1, <1>2, <1>8 DEF InitSave
<1>9. CASE InitMirror(r)
  BY <1>1, <1>2, <1>9 DEF InitMirror
<1>10. CASE InitRecord(r)
  BY <1>1, <1>2, <1>10 DEF InitRecord
<1>11. CASE InitAudit(r)
  BY Zenon, <1>1, <1>2, <1>11 DEF InitAudit, Answer
<1> QED
  BY <1>3, <1>4, <1>5, <1>6, <1>7, <1>8, <1>9, <1>10, <1>11 DEF InitializePool

\* What one step of a revocation does to the metadata and the other requests.
LEMMA RevokeMetaFrame ==
  ASSUME TypeOK, NEW r \in Revokes, RevokeCredentials(r)
  PROVE  /\ \A q \in Requests \ {r} : pc'[q] = pc[q] /\ copy'[q] = copy[q]
         /\ pc[r] = "start" => meta' = meta
         /\ pc'[r] = "rejected" => pc[r] = "start"
         /\ pc'[r] # "start"
<1>1. r \in Requests /\ r \notin Issues /\ pc \in [Requests -> Labels] /\ copy \in [Requests -> Metas]
  BY Zenon, RequestsAssumption DEF Requests, Uploads, TypeOK
<1> USE DEF chainVars, fileVars, dbVars, Goto, Return
<1>2. CASE Reject(r) \/ StorageFails(r) \/ RevokeValidate(r) \/ RevokeAppend(r)
  BY Zenon, <1>1, <1>2 DEF Reject, StorageFails, RevokeValidate, RevokeAppend
<1>3. CASE RevokeAppendFails(r) \/ RevokeLoad(r) \/ RevokeMirror(r)
  BY <1>1, <1>3 DEF RevokeAppendFails, RevokeLoad, RevokeMirror
<1>4. CASE RevokeSave(r)
  BY Zenon, <1>1, <1>4 DEF RevokeSave
<1>5. CASE RevokeRecords(r) \/ RevokeAudit(r)
  BY Zenon, <1>1, <1>5 DEF RevokeRecords, RevokeAudit, Answer
<1> QED
  BY Zenon, <1>2, <1>3, <1>4, <1>5 DEF RevokeCredentials

\* A step of one request leaves the others where they are.
LEMMA IssueMovesAlone ==
  ASSUME NEW r \in Issues, IssueCredentials(r) \/ Disconnect(r), pc \in [Requests -> Labels]
  PROVE  \A q \in Requests \ {r} : pc'[q] = pc[q]
<1> USE DEF Goto, Return
<1>1. CASE Reject(r) \/ StorageFails(r) \/ Disconnect(r)
  BY <1>1 DEF Reject, StorageFails, Disconnect
<1>2. CASE IssueValidate(r) \/ IssueCheckBalance(r) \/ IssueAcquire(r) \/ IssueSend(r)
  BY <1>2 DEF IssueValidate, IssueCheckBalance, IssueAcquire, IssueSend
<1>3. CASE IssueSendFails(r) \/ IssueConfirmed(r) \/ IssueUnconfirmed(r) \/ IssueWriteCsv(r)
  BY <1>3 DEF IssueSendFails, IssueConfirmed, IssueUnconfirmed, IssueWriteCsv
<1>4. CASE IssueWriteCsvFails(r) \/ IssueAudit(r)
  BY <1>4 DEF IssueWriteCsvFails, IssueAudit, Answer
<1>5. CASE IssueWriteAnchor(r) \/ IssueReload(r) \/ IssueSave(r) \/ IssueMirror(r) \/ IssueRecord(r)
  BY <1>5 DEF IssueWriteAnchor, IssueReload, IssueSave, IssueMirror, IssueRecord
<1> QED
  BY Zenon, <1>1, <1>2, <1>3, <1>4, <1>5 DEF IssueCredentials

\* A step of initialize_pool moves no other request.
LEMMA InitializeMovesAlone ==
  ASSUME NEW r \in Inits, InitializePool(r), pc \in [Requests -> Labels]
  PROVE  /\ \A q \in Requests \ {r} : pc'[q] = pc[q]
         /\ pc'[r] = "rejected" => pc[r] = "start"
         /\ pc'[r] # "start"
<1>1. r \in Requests /\ r \notin Issues
  BY RequestsAssumption DEF Requests, Uploads
<1> USE DEF Goto, Return
<1>2. CASE Reject(r) \/ StorageFails(r)
  BY <1>1, <1>2 DEF Reject, StorageFails
<1>3. CASE InitLoad(r) \/ InitWriteCsv(r) \/ InitWriteAnchor(r) \/ InitSave(r)
  BY <1>1, <1>3 DEF InitLoad, InitWriteCsv, InitWriteAnchor, InitSave
<1>4. CASE InitMirror(r) \/ InitRecord(r) \/ InitAudit(r)
  BY <1>1, <1>4 DEF InitMirror, InitRecord, InitAudit, Answer
<1> QED
  BY <1>2, <1>3, <1>4 DEF InitializePool

\* A call that has begun has begun for good.
LEMMA BegunStays ==
  ASSUME TypeOK, [Next]_vars, NEW q \in Inits \cup Revokes, Begun(q)
  PROVE  Begun(q)'
<1>1. q \in Requests /\ q \notin Issues /\ pc \in [Requests -> Labels]
  BY RequestsAssumption DEF Requests, Uploads, TypeOK
<1>2. CASE \E r \in Issues : IssueCredentials(r) \/ Disconnect(r)
  BY <1>1, <1>2, IssueMovesAlone DEF Begun
<1>3. CASE \E r \in Inits : InitializePool(r)
  BY <1>1, <1>3, InitializeMovesAlone DEF Begun
<1>4. CASE \E r \in Revokes : RevokeCredentials(r)
  BY Zenon, <1>1, <1>4, RevokeMetaFrame DEF Begun
<1>5. CASE (\E r \in Issues : ChainExecute(r) \/ ChainExpire(r)) \/ Restart \/ UNCHANGED vars
  BY <1>1, <1>5 DEF ChainExecute, ChainExpire, Restart, vars, Begun
<1> QED
  BY Zenon, <1>2, <1>3, <1>4, <1>5 DEF Next

\* A revocation, or a second initialization, that has begun has begun for good.
LEMMA UndisturbedShrinks ==
  ASSUME TypeOK, [Next]_vars, Undisturbed' PROVE Undisturbed
  BY BegunStays DEF Undisturbed

\* As long as the system is undisturbed, the copy a request saves is up to date.
LEMMA NextFreshInv ==
  TypeOK /\ IssueInv /\ (Undisturbed => FreshInv) /\ [Next]_vars => (Undisturbed => FreshInv)'
<1> SUFFICES ASSUME TypeOK, IssueInv, Undisturbed => FreshInv, [Next]_vars, Undisturbed'
             PROVE  FreshInv'
  OBVIOUS
<1>0. Undisturbed /\ FreshInv
  BY UndisturbedShrinks
<1>1. /\ Issues \subseteq Requests /\ Inits \subseteq Requests /\ Revokes \subseteq Requests
      /\ Issues \cap Inits = {} /\ Revokes \cap (Issues \cup Inits) = {}
  BY Zenon, RequestsAssumption DEF Requests, Uploads
<1>2. ASSUME NEW r \in Issues, IssueCredentials(r) \/ Disconnect(r) PROVE FreshInv'
  <2>1. \A q \in Issues \ {r} : pc'[q] = "save" => copy'[q] = meta'
    <3> SUFFICES ASSUME NEW q \in Issues \ {r}, pc'[q] = "save" PROVE copy'[q] = meta'
      OBVIOUS
    <3>1. pc[q] = "save" /\ copy'[q] = copy[q]
      BY <1>1, <1>2, <1>0, IssueMetaFrame
    <3>2. pc[r] # "save"
      BY <3>1 DEF IssueInv, MutexInv, Critical
    <3> QED
      BY <1>2, <3>1, <3>2, <1>0, IssueMetaFrame DEF FreshInv
  <2>2. pc'[r] = "save" => copy'[r] = meta'
    BY <1>2, <1>0, IssueMetaFrame
  <2>3. \A q \in Issues : pc'[q] \in Critical \cup {"balance", "lock"} => meta'.state = "Ready"
    BY <1>1, <1>2, <1>0, IssueMetaFrame DEF FreshInv
  <2>4. \A q \in Inits : pc'[q] \in Unlocked => meta'.state = "NeedsInit"
    BY Zenon, <1>1, <1>2, <1>0, IssueMetaFrame DEF FreshInv
  <2> QED
    BY <2>1, <2>2, <2>3, <2>4 DEF FreshInv
<1>3. ASSUME NEW r \in Inits, InitializePool(r) PROVE FreshInv'
  <2>1. CASE meta' = meta
    BY Zenon, <1>1, <1>3, <2>1, <1>0, InitializeMetaFrame DEF FreshInv
  <2>2. CASE pc[r] = "init_save" /\ pc'[r] = "init_mirror" /\ meta'.state = "Ready"
    <3>1. meta.state = "NeedsInit"
      BY Zenon, <1>0, <2>2 DEF FreshInv, Unlocked
    <3>2. \A q \in Issues : pc'[q] = pc[q] /\ pc[q] \notin Critical
      BY <1>1, <1>3, <3>1, <1>0, InitializeMetaFrame DEF FreshInv
    <3>3. \A q \in Inits : q = r \/ pc'[q] \notin Unlocked
      BY <2>2 DEF Undisturbed, Begun, Unlocked
    <3> QED
      BY Zenon, <1>0, <2>2, <3>2, <3>3 DEF FreshInv, Unlocked, Critical
  <2> QED
    BY Zenon, <1>3, <2>1, <2>2, <1>0, InitializeMetaFrame
<1>4. CASE (\E r \in Issues : ChainExecute(r) \/ ChainExpire(r)) \/ Restart \/ UNCHANGED vars
  <2>1. UNCHANGED <<meta, copy>> /\ \A q \in Requests : pc'[q] = pc[q] \/ pc'[q] = "lost"
    BY Zenon, <1>4 DEF ChainExecute, ChainExpire, Restart, fileVars, vars
  <2> QED
    BY <1>0, <1>1, <2>1 DEF FreshInv, Critical, Unlocked
<1>5. ASSUME NEW r \in Revokes, RevokeCredentials(r) PROVE FreshInv'
  <2>1. meta' = meta /\ \A q \in Issues \cup Inits : pc'[q] = pc[q] /\ copy'[q] = copy[q]
    <3>1. pc'[r] = "rejected" /\ pc[r] = "start"
      BY <1>5, RevokeMetaFrame DEF Undisturbed, Begun
    <3> QED
      BY Zenon, <1>1, <1>5, <3>1, RevokeMetaFrame
  <2> QED
    BY Zenon, <1>0, <2>1 DEF FreshInv
<1> QED
  BY <1>2, <1>3, <1>4, <1>5 DEF Next

\* No request holds a copy at first.
LEMMA InitFreshInv == Init => FreshInv
  BY DEF Init, FreshInv, Requests, Uploads, Critical, Unlocked

\* In every undisturbed reachable state the copies are up to date.
LEMMA FreshInvariance == Spec => [](Undisturbed => FreshInv)
  BY InitFreshInv, NextFreshInv, TypeCorrect, IssueInvariance, PTL DEF Spec

\* The load and the save of pool.meta.json in issue_credentials are as good
\* as one step, for any number of issuances, as long as no revocation and at
\* most one initialization has begun.
THEOREM IssueAddsItsRowsHolds == Spec => IssueAddsItsRows
<1>1. TypeOK /\ (Undisturbed => FreshInv) /\ [Next]_vars =>
        [\A r \in Issues : Undisturbed /\ pc[r] = "save" /\ pc'[r] = "mirror"
            => meta' = [meta EXCEPT !.total = @ + Rows[r]]]_vars
  <2> SUFFICES ASSUME TypeOK, FreshInv, Next, NEW r \in Issues,
                      pc[r] = "save", pc'[r] = "mirror"
               PROVE  meta' = [meta EXCEPT !.total = @ + Rows[r]]
    OBVIOUS
  <2>1. r \in Requests /\ r \notin Inits /\ r \notin Revokes
    BY RequestsAssumption DEF Requests, Uploads
  <2>2. ~\E q \in Inits : InitializePool(q)
    BY <2>1, InitializeMetaFrame
  <2>3. ~\E q \in Issues \ {r} : IssueCredentials(q) \/ Disconnect(q)
    BY <2>1, IssueMetaFrame
  <2>4. ~((\E q \in Issues : ChainExecute(q) \/ ChainExpire(q)) \/ Restart)
    BY <2>1 DEF ChainExecute, ChainExpire, Restart
  <2>5. ~\E q \in Revokes : RevokeCredentials(q)
    BY Zenon, <2>1, RevokeMetaFrame
  <2>6. IssueCredentials(r) \/ Disconnect(r)
    BY <2>2, <2>3, <2>4, <2>5 DEF Next
  <2> QED
    BY <2>6, IssueMetaFrame
<1> QED
  BY <1>1, FreshInvariance, TypeCorrect, PTL DEF Spec, IssueAddsItsRows

\* Under the same condition a pool that has become Ready stays Ready.
THEOREM ReadyIsPermanentHolds == Spec => ReadyIsPermanent
<1>1. TypeOK /\ (Undisturbed => FreshInv) /\ [Next]_vars =>
        [Undisturbed /\ meta.state = "Ready" => meta'.state = "Ready"]_vars
  <2> SUFFICES ASSUME TypeOK, Undisturbed, FreshInv, Next, meta.state = "Ready"
               PROVE  meta'.state = "Ready"
    OBVIOUS
  <2>1. ASSUME NEW r \in Inits, InitializePool(r) PROVE meta'.state = "Ready"
    BY <2>1, InitializeMetaFrame
  <2>2. ASSUME NEW r \in Issues, IssueCredentials(r) \/ Disconnect(r) PROVE meta'.state = "Ready"
    BY <2>2, IssueMetaFrame
  <2>3. CASE (\E r \in Issues : ChainExecute(r) \/ ChainExpire(r)) \/ Restart
    BY <2>3 DEF ChainExecute, ChainExpire, Restart, fileVars
  <2>4. ASSUME NEW r \in Revokes, RevokeCredentials(r) PROVE meta'.state = "Ready"
    <3>1. pc[r] = "start"
      <4>1. pc[r] \in {"start", "rejected"}
        BY DEF Undisturbed, Begun
      <4>2. pc[r] # "rejected"
        BY <2>4, RequestsAssumption
           DEF RevokeCredentials, Reject, StorageFails, RevokeValidate, RevokeAppend,
               RevokeAppendFails, RevokeLoad, RevokeSave, RevokeMirror, RevokeRecords, RevokeAudit
      <4> QED
        BY <4>1, <4>2
    <3> QED
      BY <2>4, <3>1, RevokeMetaFrame
  <2> QED
    BY <2>1, <2>2, <2>3, <2>4 DEF Next
<1> QED
  BY <1>1, FreshInvariance, TypeCorrect, PTL DEF Spec, ReadyIsPermanent

\* What the total owes to the uploads under Undisturbed: the rows of every
\* upload that has saved the metadata, of which there is none before Ready.
RowsInv ==
    /\ IsFiniteSet(DataRows(Counted)) /\ RowsOf(Counted) <= meta.total
    /\ meta.state = "NeedsInit" => Counted = {}

\* Fewer counted uploads are no harder to cover.
LEMMA RowsInvShrinks ==
  ASSUME TypeOK, RowsInv, meta' = meta,
         \A r \in Uploads : pc'[r] \in Counting => pc[r] \in Counting
  PROVE  RowsInv'
<1>1. Counted' \subseteq Counted
  BY Zenon DEF Counted
<1>2. IsFiniteSet(DataRows(Counted')) /\ RowsOf(Counted') <= RowsOf(Counted)
  <2>1. Counted \in SUBSET Uploads /\ IsFiniteSet(DataRows(Counted))
    BY Zenon DEF Counted, RowsInv
  <2> QED
    BY Zenon, <1>1, <2>1, DataRowsFewer
<1>3. meta.total \in Nat
  BY DEF TypeOK, Metas
<1>4. RowsOf(Counted) \in Nat /\ RowsOf(Counted') \in Nat
  BY Zenon, <1>2, FS_CardinalityType DEF RowsInv, RowsOf
<1>5. RowsOf(Counted') <= meta.total
  BY <1>2, <1>3, <1>4 DEF RowsInv
<1>6. DataRows(Counted)' = DataRows(Counted') /\ RowsOf(Counted)' = RowsOf(Counted')
  BY Zenon DEF DataRows, RowsOf
<1>7. meta'.state = "NeedsInit" => Counted' = {}
  BY Zenon, <1>1 DEF RowsInv
<1> QED
  BY Zenon, <1>2, <1>5, <1>6, <1>7 DEF RowsInv

\* A count and a total that grow by the same number.
LEMMA GrowTogether ==
  \A c, t, n \in Nat : (c <= t => c + n <= t + n) /\ (c = 0 => c + n <= n)
  OBVIOUS

\* An upload that is counted only now has added its rows to the total.
LEMMA RowsInvGrows ==
  ASSUME TypeOK, RowsInv, NEW r \in Uploads, pc[r] \notin Counting, pc'[r] \in Counting,
         \A q \in Uploads \ {r} : pc'[q] = pc[q],
         meta'.total = meta.total + Rows[r] \/ (Counted = {} /\ meta'.total = Rows[r]),
         meta'.state = "Ready"
  PROVE  RowsInv'
<1>1. Counted' = Counted \cup {r} /\ r \notin Counted
  BY Zenon DEF Counted
<1>2. IsFiniteSet(DataRows(Counted')) /\ RowsOf(Counted') = RowsOf(Counted) + Rows[r]
  <2>1. Counted \in SUBSET Uploads /\ IsFiniteSet(DataRows(Counted))
    BY Zenon DEF Counted, RowsInv
  <2> QED
    BY Zenon, <1>1, <2>1, DataRowsAdd
<1>3. meta.total \in Nat /\ Rows[r] \in Nat
  BY RowsAssumption DEF TypeOK, Metas
<1>4. RowsOf(Counted) \in Nat
  BY Zenon, FS_CardinalityType DEF RowsInv, RowsOf
<1>5. RowsOf(Counted') <= meta'.total
  <2>1. Counted = {} => RowsOf(Counted) = 0
    BY Zenon, DataRowsNone
  <2>2. RowsOf(Counted) <= meta.total
    BY Zenon DEF RowsInv
  <2> QED
    BY Zenon, <1>2, <1>3, <1>4, <2>1, <2>2, GrowTogether
<1>6. DataRows(Counted)' = DataRows(Counted') /\ RowsOf(Counted)' = RowsOf(Counted')
  BY Zenon DEF DataRows, RowsOf
<1> QED
  BY Zenon, <1>2, <1>5, <1>6 DEF RowsInv

\* Every undisturbed step keeps the total at or above the rows that are counted.
LEMMA NextRowsInv ==
  ASSUME TypeOK, Undisturbed => FreshInv /\ RowsInv, [Next]_vars, Undisturbed'
  PROVE  RowsInv'
<1>0. Undisturbed /\ FreshInv /\ RowsInv
  BY Zenon, UndisturbedShrinks
<1>1. /\ Issues \subseteq Requests /\ Inits \subseteq Requests /\ Revokes \subseteq Requests
      /\ Uploads = Inits \cup Issues /\ Uploads \subseteq Requests
      /\ Issues \cap Inits = {} /\ Revokes \cap (Issues \cup Inits) = {}
  BY Zenon, RequestsAssumption DEF Requests, Uploads
<1>2. ASSUME NEW r \in Issues, IssueCredentials(r) \/ Disconnect(r) PROVE RowsInv'
  <2>1. r \in Uploads /\ \A q \in Uploads \ {r} : pc'[q] = pc[q]
    BY Zenon, <1>0, <1>1, <1>2, IssueMetaFrame
  <2>2. CASE pc[r] = "save" /\ pc'[r] = "mirror"
    <3>1. meta' = [meta EXCEPT !.total = @ + Rows[r]] /\ meta'.state = meta.state
      BY Zenon, <1>0, <1>2, <2>2, IssueMetaFrame
    <3>2. meta.state = "Ready"
      BY Zenon, <1>0, <2>2 DEF FreshInv, Critical
    <3>3. meta'.total = meta.total + Rows[r]
      BY <3>1 DEF TypeOK, Metas
    <3>4. pc[r] \notin Counting /\ pc'[r] \in Counting
      BY <2>2 DEF Counting
    <3> QED
      BY Zenon, <1>0, <2>1, <3>1, <3>2, <3>3, <3>4, RowsInvGrows
  <2>3. CASE ~(pc[r] = "save" /\ pc'[r] = "mirror")
    <3>1. meta' = meta /\ (pc'[r] \in Counting => pc[r] \in Counting)
      BY Zenon, <1>0, <1>2, <2>3, IssueMetaFrame
    <3> QED
      BY Zenon, <1>0, <2>1, <3>1, RowsInvShrinks
  <2> QED
    BY Zenon, <2>2, <2>3
<1>3. ASSUME NEW r \in Inits, InitializePool(r) PROVE RowsInv'
  <2>1. r \in Uploads /\ \A q \in Uploads \ {r} : pc'[q] = pc[q]
    BY Zenon, <1>0, <1>1, <1>3, InitializeMetaFrame
  <2>2. CASE pc'[r] \in Counting /\ pc[r] \notin Counting
    <3>1. pc[r] = "init_save" /\ meta'.state = "Ready" /\ meta'.total = Rows[r]
      BY Zenon, <1>0, <1>3, <2>2, InitializeMetaFrame
    <3>2. Counted = {}
      BY Zenon, <1>0, <3>1 DEF FreshInv, Unlocked, RowsInv
    <3> QED
      BY Zenon, <1>0, <2>1, <2>2, <3>1, <3>2, RowsInvGrows
  <2>3. CASE pc'[r] \in Counting => pc[r] \in Counting
    <3>1. ~(pc[r] = "init_save" /\ pc'[r] = "init_mirror")
      BY <2>3 DEF Counting
    <3>2. meta' = meta
      BY Zenon, <1>0, <1>3, <3>1, InitializeMetaFrame
    <3> QED
      BY Zenon, <1>0, <2>1, <2>3, <3>2, RowsInvShrinks
  <2> QED
    BY Zenon, <2>2, <2>3
<1>4. CASE (\E r \in Issues : ChainExecute(r) \/ ChainExpire(r)) \/ Restart \/ UNCHANGED vars
  <2>1. meta' = meta /\ \A q \in Requests : pc'[q] = pc[q] \/ pc'[q] = "lost"
    BY Zenon, <1>4 DEF ChainExecute, ChainExpire, Restart, fileVars, vars
  <2>2. "lost" \notin Counting
    BY DEF Counting
  <2> QED
    BY Zenon, <1>0, <1>1, <2>1, <2>2, RowsInvShrinks
<1>5. ASSUME NEW r \in Revokes, RevokeCredentials(r) PROVE RowsInv'
  <2>1. meta' = meta /\ \A q \in Uploads : pc'[q] = pc[q]
    <3>1. pc'[r] = "rejected" /\ pc[r] = "start"
      BY Zenon, <1>5, RevokeMetaFrame DEF Undisturbed, Begun
    <3> QED
      BY Zenon, <1>1, <1>5, <3>1, RevokeMetaFrame
  <2> QED
    BY Zenon, <1>0, <2>1, RowsInvShrinks
<1> QED
  BY Zenon, <1>2, <1>3, <1>4, <1>5 DEF Next

\* A new pool counts no rows.
LEMMA InitRowsInv == Init => RowsInv
<1> SUFFICES ASSUME Init PROVE RowsInv
  OBVIOUS
<1>1. Counted = {}
  BY DEF Init, Counted, Counting, Uploads, Requests
<1>2. RowsOf(Counted) = 0 /\ meta.total = 0
  BY Zenon, <1>1, DataRowsNone DEF Init, NewMeta
<1>3. RowsOf(Counted) <= meta.total
  BY <1>2
<1> QED
  BY Zenon, <1>1, <1>3, DataRowsNone DEF RowsInv

\* Every row that initialize_pool or issue_credentials answered 200 for is in
\* total_rows, for any number of uploads of any size, as long as no
\* revocation and at most one initialization has begun.
THEOREM RowsCountedUndisturbedHolds == Spec => []RowsCountedUndisturbed
<1>1. TypeOK /\ (Undisturbed => FreshInv) /\ (Undisturbed => RowsInv) /\ [Next]_vars
        => (Undisturbed => RowsInv)'
  BY Zenon, NextRowsInv
<1>2. Spec => [](Undisturbed => RowsInv)
  BY <1>1, InitRowsInv, FreshInvariance, TypeCorrect, PTL DEF Spec
<1>3. TypeOK /\ (Undisturbed => RowsInv) => RowsCountedUndisturbed
  <2> SUFFICES ASSUME TypeOK, RowsInv PROVE TotalRowsCounted
    BY Zenon DEF RowsCountedUndisturbed
  <2> DEFINE Done == {r \in Uploads : pc[r] = "ok"}
  <2>1. Done \subseteq Counted /\ Counted \in SUBSET Uploads
    BY DEF Counted, Counting
  <2>2. IsFiniteSet(DataRows(Counted)) /\ RowsOf(Counted) <= meta.total
    BY Zenon DEF RowsInv
  <2> HIDE DEF Done
  <2>3. IsFiniteSet(DataRows(Done)) /\ RowsOf(Done) <= RowsOf(Counted)
    BY Zenon, <2>1, <2>2, DataRowsFewer
  <2>4. meta.total \in Nat
    BY DEF TypeOK, Metas
  <2>5. RowsOf(Counted) \in Nat /\ RowsOf(Done) \in Nat
    BY Zenon, <2>2, <2>3, FS_CardinalityType DEF RowsOf
  <2>6. RowsOf(Done) <= meta.total
    BY <2>2, <2>3, <2>4, <2>5
  <2> QED
    BY Zenon, <2>6 DEF TotalRowsCounted, Done
<1> QED
  BY <1>2, <1>3, TypeCorrect, PTL
=============================================================================
