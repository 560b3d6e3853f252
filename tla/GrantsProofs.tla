---------------------------- MODULE GrantsProofs ----------------------------
(***************************************************************************)
(* What the mirror of the grants is worth, for any number of analysts and  *)
(* of calls, with transactions that fail, time out or are dropped, redb    *)
(* writes that fail, and restarts; and what a query under a grant reads,   *)
(* for any files and any column.                                           *)
(*                                                                         *)
(* QueryMeansUploads relates the cells of the script to the records of the *)
(* uploads, two loops later.  QueryInv follows the records through both:   *)
(* while the pool's text is put together, its rows are the records passed  *)
(* so far, in their order (Made, with the record of each row as witness);  *)
(* while the script scans it, the cells are those of the rows before its   *)
(* place (Scanned, with the row of each cell as witness).  At the end the  *)
(* two witnesses composed are the order that the property asks for.        *)
(***************************************************************************)
EXTENDS Grants, PoolQuery, WellFoundedInduction, TLAPS

\* The calls that only some steps concern.
LabelsInv ==
    /\ \A r \in Changes : pc[r] # "run"
    /\ \A r \in Queries : pc[r] \notin Running
    /\ \A r \in Changes : pc[r] = "start" => tx[r] = "none"
    /\ \A r \in Changes : pc[r] = "send" => tx[r] = "none"
    /\ \A r \in Changes : pc[r] \in {"mirror", "audit"} => tx[r] = "done"

\* Whoever the mirror knows was granted on the chain.
Earned ==
    /\ \A a \in Analysts : byPool[a] # "NoRecord" =>
          \E g \in Grantings : For[g] = a /\ tx[g] = "done"
    /\ QueriesEarned

IInv == TypeOK /\ LabelsInv /\ TablesAgree /\ Earned

\* The induction starts: no grant, no transaction and no record of one.
LEMMA InitIInv ==
  Init => IInv
BY SupplyAssumption, RequestsAssumption DEF Init, IInv, TypeOK, LabelsInv, TablesAgree, Earned, QueriesEarned,
       Labels, Terminal, Running, Requests, Changes

\* The steps that grant_right and revoke_grant share keep the tables as they
\* are.
LEMMA SharedKeeps ==
  ASSUME IInv, NEW r \in Changes,
         \/ Reject(r) \/ Start(r) \/ Send(r) \/ SendFails(r)
         \/ Confirmed(r) \/ Unconfirmed(r) \/ Audit(r)
  PROVE  IInv'
<1>1. r \in Requests /\ r \notin Queries /\ Changes \subseteq Requests /\ Queries \subseteq Requests
      /\ Grantings \subseteq Changes /\ For[r] \in Analysts
  BY RequestsAssumption, ForAssumption DEF Requests, Changes
<1> USE DEF IInv, TypeOK, LabelsInv, TablesAgree, Earned, QueriesEarned, Goto, Labels, Terminal, Running
<1>2. CASE Reject(r)
  BY <1>1, <1>2 DEF Reject
<1>3. CASE Start(r)
  BY <1>1, <1>3 DEF Start
<1>4. CASE Send(r)
  BY <1>1, <1>4 DEF Send
<1>5. CASE SendFails(r)
  BY <1>1, <1>5 DEF SendFails
<1>6. CASE Confirmed(r)
  BY <1>1, <1>6 DEF Confirmed
<1>7. CASE Unconfirmed(r)
  BY <1>1, <1>7 DEF Unconfirmed
<1>8. CASE Audit(r)
  BY <1>1, <1>8 DEF Audit
<1> QED
  BY <1>2, <1>3, <1>4, <1>5, <1>6, <1>7, <1>8

\* upsert_grant.
LEMMA UpsertKeeps ==
  ASSUME IInv, NEW r \in Grantings, UpsertGrant(r) PROVE IInv'
<1>1. r \in Requests /\ r \in Changes /\ r \notin Queries /\ Changes \subseteq Requests
      /\ Queries \subseteq Requests /\ For[r] \in Analysts
  BY RequestsAssumption, ForAssumption DEF Requests, Changes
<1>2. tx[r] = "done"
  BY <1>1 DEF UpsertGrant, IInv, LabelsInv
<1> USE DEF IInv, TypeOK, LabelsInv, TablesAgree, Earned, QueriesEarned, Goto, Labels, Terminal, Running
<1>3. CASE /\ byPool' = [byPool EXCEPT ![For[r]] = "Active"]
           /\ byAnalyst' = byAnalyst \cup {For[r]}
           /\ tidy' = tidy
  BY <1>1, <1>2, <1>3 DEF UpsertGrant
<1>4. CASE tidy' = tidy \ {For[r]} /\ UNCHANGED <<byPool, byAnalyst>>
  BY <1>1, <1>2, <1>4 DEF UpsertGrant
<1> QED
  BY <1>3, <1>4 DEF UpsertGrant

\* revoke_grant_local.
LEMMA RevokeLocalKeeps ==
  ASSUME IInv, NEW r \in Revokings, RevokeGrantLocal(r) PROVE IInv'
<1>1. r \in Requests /\ r \in Changes /\ r \notin Queries /\ Changes \subseteq Requests
      /\ Queries \subseteq Requests /\ For[r] \in Analysts
  BY RequestsAssumption, ForAssumption DEF Requests, Changes
<1> USE DEF IInv, TypeOK, LabelsInv, TablesAgree, Earned, QueriesEarned, Goto, Labels, Terminal, Running
<1>2. CASE /\ byPool' = [byPool EXCEPT ![For[r]] = IF @ = "NoRecord" THEN @ ELSE "Revoked"]
           /\ byAnalyst' = byAnalyst \ {For[r]}
           /\ tidy' = tidy
  BY <1>1, <1>2 DEF RevokeGrantLocal
<1>3. CASE tidy' = tidy \ {For[r]} /\ UNCHANGED <<byPool, byAnalyst>>
  BY <1>1, <1>3 DEF RevokeGrantLocal
<1> QED
  BY <1>2, <1>3 DEF RevokeGrantLocal

\* data_query: an analyst that is admitted has an active record.
LEMMA QueryKeeps ==
  ASSUME IInv, NEW r \in Queries, DataQuery(r) PROVE IInv'
<1>1. r \in Requests /\ r \notin Changes /\ Changes \subseteq Requests /\ Queries \subseteq Requests
      /\ For[r] \in Analysts
  BY RequestsAssumption, ForAssumption DEF Requests, Changes
<1> USE DEF IInv, TypeOK, LabelsInv, TablesAgree, Earned, QueriesEarned, Goto, Labels, Terminal, Running
<1>2. CASE QueryCheck(r)
  BY <1>1, <1>2 DEF QueryCheck
<1>3. CASE QueryRefused(r)
  BY <1>1, <1>3 DEF QueryRefused
<1>4. CASE QueryRun(r)
  BY <1>1, <1>4 DEF QueryRun
<1> QED
  BY <1>2, <1>3, <1>4 DEF DataQuery

\* The environment: a transaction that is done stays done.
LEMMA EnvironmentKeeps ==
  ASSUME IInv,
         \/ \E r \in Requests : Disconnect(r)
         \/ \E r \in Changes : ChainExecute(r) \/ ChainExpire(r)
         \/ Restart
  PROVE  IInv'
<1>1. Changes \subseteq Requests /\ Queries \subseteq Requests /\ Grantings \subseteq Changes
      /\ Changes \cap Queries = {} /\ \A r \in Requests : For[r] \in Analysts
  BY RequestsAssumption, ForAssumption DEF Requests, Changes
<1> USE DEF IInv, TypeOK, LabelsInv, TablesAgree, Earned, QueriesEarned, Goto, Labels, Terminal, Running
<1>2. ASSUME NEW r \in Requests, Disconnect(r) PROVE IInv'
  BY <1>1, <1>2 DEF Disconnect
<1>3. ASSUME NEW r \in Changes, ChainExecute(r) PROVE IInv'
  <2>1. /\ tx[r] = "sent" /\ UNCHANGED <<byPool, byAnalyst, pc, tidy>>
        /\ \E s \in {"done", "failed"} : tx' = [tx EXCEPT ![r] = s]
    BY <1>3 DEF ChainExecute
  <2>2. supply' \in 0..Supply
    BY <1>3, SupplyAssumption DEF ChainExecute
  <2>3. pdas' \subseteq Analysts
    BY <1>1, <1>3 DEF ChainExecute
  <2> QED
    BY <1>1, <2>1, <2>2, <2>3
<1>4. ASSUME NEW r \in Changes, ChainExpire(r) PROVE IInv'
  BY <1>1, <1>4 DEF ChainExpire
<1>5. CASE Restart
  BY <1>1, <1>5 DEF Restart
<1> QED
  BY <1>2, <1>3, <1>4, <1>5

\* Every step of a handler, a disconnect and a restart keeps the invariant.
LEMMA NextIInv ==
  IInv /\ [Next]_vars => IInv'
<1> SUFFICES ASSUME IInv, [Next]_vars PROVE IInv'
  OBVIOUS
<1>1. CASE UNCHANGED vars
  BY <1>1 DEF IInv, TypeOK, LabelsInv, TablesAgree, Earned, QueriesEarned, vars
<1>2. ASSUME NEW r \in Grantings, GrantRight(r) PROVE IInv'
  BY <1>2, SharedKeeps, UpsertKeeps DEF GrantRight, GrantCheck, Changes
<1>3. ASSUME NEW r \in Revokings, RevokeGrant(r) PROVE IInv'
  BY <1>3, SharedKeeps, RevokeLocalKeeps DEF RevokeGrant, Changes
<1>4. ASSUME NEW r \in Queries, DataQuery(r) PROVE IInv'
  BY <1>4, QueryKeeps
<1> QED
  BY <1>1, <1>2, <1>3, <1>4, EnvironmentKeeps DEF Next

\* The inductive invariant holds in every reachable state.
LEMMA Invariance ==
  Spec => []IInv
BY InitIInv, NextIInv, PTL DEF Spec

\* Every variable keeps its type.
THEOREM TypeCorrect ==
  Spec => []TypeOK
<1>1. IInv => TypeOK
  BY DEF IInv
<1> QED
  BY <1>1, Invariance, PTL

\* The two tables of the mirror always say the same.
THEOREM TablesAgreeHolds ==
  Spec => []TablesAgree
<1>1. IInv => TablesAgree
  BY DEF IInv
<1> QED
  BY <1>1, Invariance, PTL

\* No query runs for an analyst that was never granted the right on chain.
THEOREM QueriesEarnedHolds ==
  Spec => []QueriesEarned
<1>1. IInv => QueriesEarned
  BY DEF IInv, Earned
<1> QED
  BY <1>1, Invariance, PTL
-----------------------------------------------------------------------------
(* MirrorFollowsChain.  Between the execution of a transaction and the     *)
(* write of the mirror the two differ in a known way, as long as the       *)
(* analyst is tidy: one call is in flight, no other transaction is pending.*)

\* The call r has changed the chain and not yet the mirror.
Ahead(r) == pc[r] \in {"confirm", "mirror"} /\ tx[r] = "done"

TidyFor(a) ==
    /\ \A r, q \in InFlight(a) : r = q
    /\ \A r \in Changes : For[r] = a /\ tx[r] = "sent" => pc[r] = "confirm"
    /\ \A r \in InFlight(a) : Ahead(r) => (a \in pdas <=> r \in Grantings)
    /\ (\A r \in InFlight(a) : ~Ahead(r)) => (a \in byAnalyst <=> a \in pdas)

TidyInv == \A a \in tidy : TidyFor(a)

\* Steps of calls about other analysts leave all of this alone.
LEMMA FrameTidy ==
  ASSUME NEW a \in Analysts, TidyFor(a),
         \A q \in Changes : For[q] = a => pc'[q] = pc[q] /\ tx'[q] = tx[q],
         a \in pdas' <=> a \in pdas, a \in byAnalyst' <=> a \in byAnalyst
  PROVE  TidyFor(a)'
BY DEF TidyFor, InFlight, Ahead

\* A step about the analyst a that moves the call r and neither the chain
\* nor the mirror.
LEMMA MoveTidy ==
  ASSUME IInv, NEW a \in Analysts, TidyFor(a), NEW r \in Changes, For[r] = a,
         \/ Reject(r) \/ (Start(r) /\ a \in tidy') \/ Send(r) \/ Confirmed(r) \/ Audit(r)
  PROVE  TidyFor(a)'
<1>1. r \in Requests /\ Changes \subseteq Requests
  BY DEF Requests, Changes
<1> USE DEF IInv, TypeOK, LabelsInv, TidyFor, InFlight, Ahead, Goto, Running
<1>2. CASE Reject(r)
  BY <1>1, <1>2 DEF Reject
<1>3. CASE Start(r) /\ a \in tidy'
  <2>1. \A q \in Changes : ~(For[q] = a /\ pc[q] \in Running)
    BY <1>3 DEF Start
  <2>2. pc'[r] = "send" /\ tx[r] = "none" /\ \A q \in Changes \ {r} : pc'[q] = pc[q]
    BY <1>1, <1>3 DEF Start
  <2>3. UNCHANGED <<tx, pdas, byAnalyst>>
    BY <1>3 DEF Start
  <2> QED
    BY <1>1, <2>1, <2>2, <2>3
<1>4. CASE Send(r)
  BY <1>1, <1>4 DEF Send
<1>5. CASE Confirmed(r)
  BY <1>1, <1>5 DEF Confirmed
<1>6. CASE Audit(r)
  BY <1>1, <1>6 DEF Audit
<1> QED
  BY <1>2, <1>3, <1>4, <1>5, <1>6

\* The write of the mirror catches up with the chain.
LEMMA MirrorTidy ==
  ASSUME IInv, NEW a \in Analysts, TidyFor(a), NEW r \in Changes, For[r] = a,
         \/ r \in Grantings /\ UpsertGrant(r) /\ a \in tidy'
         \/ r \in Revokings /\ RevokeGrantLocal(r) /\ a \in tidy'
  PROVE  TidyFor(a)'
<1>1. r \in Requests /\ Changes \subseteq Requests /\ (r \in Grantings <=> r \notin Revokings)
  BY RequestsAssumption DEF Requests, Changes
<1>2. pc[r] = "mirror" /\ tx[r] = "done" /\ UNCHANGED <<tx, pdas>> /\ Goto(r, "audit")
  BY <1>1 DEF UpsertGrant, RevokeGrantLocal, IInv, LabelsInv
<1>3. r \in InFlight(a) /\ Ahead(r)
  BY <1>2 DEF InFlight, Ahead, Running
<1>4. a \in pdas <=> r \in Grantings
  BY <1>3 DEF TidyFor
<1>5. a \in byAnalyst' <=> r \in Grantings
  BY <1>1 DEF UpsertGrant, RevokeGrantLocal
<1>6. pc'[r] = "audit" /\ \A q \in Changes \ {r} : pc'[q] = pc[q]
  BY <1>1, <1>2 DEF Goto, IInv, TypeOK
<1> QED
  BY <1>2, <1>3, <1>4, <1>5, <1>6 DEF TidyFor, InFlight, Ahead, Running

\* The execution of a transaction: its call is the one in flight.
LEMMA ExecuteTidy ==
  ASSUME IInv, NEW a \in Analysts, TidyFor(a), NEW r \in Changes, For[r] = a,
         ChainExecute(r) \/ ChainExpire(r)
  PROVE  TidyFor(a)'
<1>1. r \in InFlight(a) /\ pc[r] = "confirm" /\ tx[r] = "sent" /\ UNCHANGED <<pc, byAnalyst>>
  BY DEF ChainExecute, ChainExpire, TidyFor, InFlight, Running
<1>2. a \in byAnalyst <=> a \in pdas
  BY <1>1 DEF TidyFor, Ahead
<1>3. \A q \in Changes \ {r} : tx'[q] = tx[q]
  BY DEF ChainExecute, ChainExpire, IInv, TypeOK
<1>4. CASE tx'[r] = "done"
  <2>1. a \in pdas' <=> r \in Grantings
    BY <1>4 DEF ChainExecute, ChainExpire, IInv, TypeOK
  <2> QED
    BY <1>1, <1>3, <1>4, <2>1 DEF TidyFor, InFlight, Ahead
<1>5. CASE tx'[r] \in {"failed", "expired"}
  <2>1. pdas' = pdas
    BY <1>5 DEF ChainExecute, ChainExpire, IInv, TypeOK
  <2> QED
    BY <1>1, <1>2, <1>3, <1>5, <2>1 DEF TidyFor, InFlight, Ahead
<1> QED
  BY <1>4, <1>5 DEF ChainExecute, ChainExpire, IInv, TypeOK

\* A step of a call about a: those that end a call otherwise than the code
\* means it to end make the analyst untidy.
LEMMA OwnStepTidy ==
  ASSUME IInv, NEW a \in Analysts, TidyFor(a), a \in tidy', NEW r \in Changes, For[r] = a,
         \/ (r \in Grantings /\ GrantRight(r)) \/ (r \in Revokings /\ RevokeGrant(r))
  PROVE  TidyFor(a)'
<1>1. ~SendFails(r) /\ ~Unconfirmed(r)
  BY DEF SendFails, Unconfirmed
<1>2. CASE (r \in Grantings /\ UpsertGrant(r)) \/ (r \in Revokings /\ RevokeGrantLocal(r))
  BY <1>2, MirrorTidy
<1>3. CASE Reject(r) \/ Start(r) \/ Send(r) \/ Confirmed(r) \/ Audit(r)
  BY <1>3, MoveTidy
<1> QED
  BY <1>1, <1>2, <1>3 DEF GrantRight, GrantCheck, RevokeGrant

\* A step of a call about another analyst.
LEMMA OtherStepTidy ==
  ASSUME IInv, NEW a \in Analysts, TidyFor(a), NEW r \in Changes, For[r] # a,
         \/ GrantRight(r) \/ RevokeGrant(r) \/ ChainExecute(r) \/ ChainExpire(r)
  PROVE  TidyFor(a)'
<1>1. \A q \in Changes : q # r => pc'[q] = pc[q] /\ tx'[q] = tx[q]
  BY DEF GrantRight, RevokeGrant, ChainExecute, ChainExpire, Reject, GrantCheck, Start, Send,
         SendFails, Confirmed, Unconfirmed, UpsertGrant, RevokeGrantLocal, Audit, Goto,
         IInv, TypeOK, Requests
<1>2. a \in pdas' <=> a \in pdas
  BY DEF GrantRight, RevokeGrant, ChainExecute, ChainExpire, Reject, GrantCheck, Start, Send,
         SendFails, Confirmed, Unconfirmed, UpsertGrant, RevokeGrantLocal, Audit
<1>3. a \in byAnalyst' <=> a \in byAnalyst
  BY DEF GrantRight, RevokeGrant, ChainExecute, ChainExpire, Reject, GrantCheck, Start, Send,
         SendFails, Confirmed, Unconfirmed, UpsertGrant, RevokeGrantLocal, Audit
<1> QED
  BY <1>1, <1>2, <1>3, FrameTidy

\* A dropped connection leaves a tidy analyst tidy, or no longer counted as one.
LEMMA DisconnectTidy ==
  ASSUME IInv, NEW a \in Analysts, TidyFor(a), a \in tidy', NEW r \in Requests, Disconnect(r)
  PROVE  TidyFor(a)'
<1>1. UNCHANGED <<tx, pdas, byAnalyst>> /\ \A q \in Changes \ {r} : pc'[q] = pc[q]
  BY DEF Disconnect, Goto, IInv, TypeOK, Requests
<1>2. CASE r \notin Changes \/ For[r] # a
  BY <1>1, <1>2, FrameTidy
<1>3. CASE r \in Changes /\ For[r] = a
  <2>1. pc[r] = "audit" /\ pc'[r] = "lost" /\ tx[r] = "done"
    BY <1>3 DEF Disconnect, Goto, IInv, TypeOK, LabelsInv
  <2> QED
    BY <1>1, <1>3, <2>1 DEF TidyFor, InFlight, Ahead, Running
<1> QED
  BY <1>2, <1>3

\* So does a restart.
LEMMA RestartTidy ==
  ASSUME IInv, NEW a \in Analysts, TidyFor(a), a \in tidy', Restart
  PROVE  TidyFor(a)'
<1>1. \A r \in InFlight(a) : pc[r] = "audit"
  BY DEF Restart
<1>2. UNCHANGED <<tx, pdas, byAnalyst>> /\ \A q \in Changes : pc'[q] \notin Running
  BY DEF Restart, Terminal, Running, Requests, Changes
<1>3. \A r \in Changes : For[r] = a => tx[r] # "sent"
  BY <1>1 DEF TidyFor, InFlight, Running
<1>4. a \in byAnalyst <=> a \in pdas
  BY <1>1 DEF TidyFor, Ahead
<1> QED
  BY <1>2, <1>3, <1>4 DEF TidyFor, InFlight

\* The record of an analyst nothing went wrong for stays as it should be.
LEMMA NextTidy ==
  IInv /\ TidyInv /\ [Next]_vars => TidyInv'
<1> SUFFICES ASSUME IInv, TidyInv, [Next]_vars, NEW a \in tidy' PROVE TidyFor(a)'
  BY DEF TidyInv
<1>1. a \in tidy /\ a \in Analysts
  BY DEF Next, vars, GrantRight, RevokeGrant, DataQuery, Disconnect, ChainExecute, ChainExpire,
         Restart, Reject, GrantCheck, Start, Send, SendFails, Confirmed, Unconfirmed, UpsertGrant,
         RevokeGrantLocal, Audit, QueryCheck, QueryRefused, QueryRun, IInv, TypeOK
<1>2. TidyFor(a)
  BY <1>1 DEF TidyInv
<1>3. CASE UNCHANGED vars
  BY <1>1, <1>2, <1>3, FrameTidy DEF vars
<1>4. ASSUME NEW r \in Grantings, GrantRight(r) PROVE TidyFor(a)'
  BY <1>1, <1>2, <1>4, OwnStepTidy, OtherStepTidy DEF Changes
<1>5. ASSUME NEW r \in Revokings, RevokeGrant(r) PROVE TidyFor(a)'
  BY <1>1, <1>2, <1>5, OwnStepTidy, OtherStepTidy DEF Changes
<1>6. ASSUME NEW r \in Queries, DataQuery(r) PROVE TidyFor(a)'
  <2>1. UNCHANGED <<tx, pdas, byAnalyst>> /\ \A q \in Changes : pc'[q] = pc[q]
    BY <1>6, RequestsAssumption
       DEF DataQuery, QueryCheck, QueryRefused, QueryRun, Goto, IInv, TypeOK, Requests
  <2> QED
    BY <1>1, <1>2, <2>1, FrameTidy
<1>7. ASSUME NEW r \in Requests, Disconnect(r) PROVE TidyFor(a)'
  BY <1>1, <1>2, <1>7, DisconnectTidy
<1>8. ASSUME NEW r \in Changes, ChainExecute(r) \/ ChainExpire(r) PROVE TidyFor(a)'
  BY <1>1, <1>2, <1>8, ExecuteTidy, OtherStepTidy
<1>9. CASE Restart
  BY <1>1, <1>2, <1>9, RestartTidy
<1> QED
  BY <1>3, <1>4, <1>5, <1>6, <1>7, <1>8, <1>9 DEF Next

\* For an analyst whose calls ran one at a time and to their end, the mirror
\* that data_query asks is the chain.
THEOREM MirrorFollowsChainHolds ==
  Spec => []MirrorFollowsChain
<1>1. Init => TidyInv
  BY DEF Init, TidyInv, TidyFor, InFlight, Running, Requests, Changes
<1>2. TidyInv => MirrorFollowsChain
  BY DEF TidyInv, TidyFor, MirrorFollowsChain
<1> QED
  BY <1>1, <1>2, NextTidy, Invariance, PTL DEF Spec

-----------------------------------------------------------------------------
(* What a query over a pool reads.                                         *)

\* A set of numbers has a least one.
LEMMA MinOf ==
  ASSUME NEW S \in SUBSET Nat, S # {}
  PROVE  Min(S) \in S /\ \A x \in S : Min(S) <= x
<1> DEFINE R == OpToRel(<, Nat)
<1>1. PICK m \in S : \A y \in S : ~(<<y, m>> \in R)
  BY NatLessThanWellFounded, WFMin
<1>2. \A y \in S : ~(y < m)
  BY <1>1 DEF OpToRel
<1>3. \A y \in S : m <= y
  BY <1>2
<1> QED
  BY Zenon, <1>3 DEF Min

\* Where a byte is found.
LEMMA FindFacts ==
  ASSUME NEW s, Len(s) \in Nat, NEW i \in Nat \ {0}, i <= Len(s) + 1, NEW S
  PROVE  /\ Find(s, i, S) \in i..(Len(s) + 1)
         /\ Find(s, i, S) <= Len(s) => s[Find(s, i, S)] \in S
         /\ \A k \in i..(Find(s, i, S) - 1) : s[k] \notin S
<1> DEFINE T == {j \in i..Len(s) : s[j] \in S} \cup {Len(s) + 1}
           m == Find(s, i, S)
<1>1. T \in SUBSET Nat /\ T # {} /\ T \subseteq i..(Len(s) + 1)
  OBVIOUS
<1>2. m \in T /\ \A x \in T : m <= x
  BY Zenon, <1>1, MinOf DEF Find
<1>3. m \in i..(Len(s) + 1)
  BY Zenon, <1>1, <1>2
<1> HIDE DEF m
<1>4. m <= Len(s) => s[m] \in S
  BY <1>2, <1>3
<1>5. ASSUME NEW k \in i..(m - 1), s[k] \in S PROVE FALSE
  <2>1. k \in T
    BY <1>3, <1>5
  <2>2. m <= k
    BY Zenon, <1>2, <2>1
  <2> QED
    BY <1>3, <2>2
<1> QED
  BY Zenon, <1>3, <1>4, <1>5 DEF m
Nums == [neg : BOOLEAN, int : Nat, ints : Nat, frac : Nat, fracs : Nat,
         expNeg : BOOLEAN, exp : Nat, exps : Nat]

\* Two sequences with the same elements are one.
LEMMA SeqSame ==
  ASSUME NEW B, NEW s \in Seq(B), NEW t \in Seq(B), Len(s) = Len(t), \A i \in 1..Len(s) : s[i] = t[i]
  PROVE  s = t
  OBVIOUS

\* A part of a sequence.
LEMMA PartFacts ==
  ASSUME NEW B, NEW s \in Seq(B), NEW a \in 1..(Len(s) + 1), NEW b \in (a - 1)..Len(s)
  PROVE  /\ SubSeq(s, a, b) \in Seq(B)
         /\ Len(SubSeq(s, a, b)) = b - a + 1
         /\ \A i \in 1..(b - a + 1) : SubSeq(s, a, b)[i] = s[a + i - 1]
  OBVIOUS

\* A text with one more line.
LEMMA PushFacts ==
  ASSUME NEW B, "LF" \in B, NEW s \in Seq(B), NEW w \in Seq(B)
  PROVE  LET u == s \o Append(w, "LF") IN
         /\ u \in Seq(B) /\ Len(u) = Len(s) + Len(w) + 1
         /\ \A i \in 1..Len(s) : u[i] = s[i]
         /\ \A i \in 1..Len(w) : u[Len(s) + i] = w[i]
         /\ u[Len(s) + Len(w) + 1] = "LF"
  OBVIOUS

\* A text whose bytes are in a set.
LEMMA SeqOf ==
  ASSUME NEW B, NEW t, IsSeq(t), \A k \in DOMAIN t : t[k] \in B
  PROVE  t \in Seq(B)
  BY DEF IsSeq

\* A place that has a byte of S, with none before it, is the one that is found.
LEMMA FindIs ==
  ASSUME NEW s, Len(s) \in Nat, NEW i \in Nat \ {0}, NEW S, NEW m \in i..(Len(s) + 1),
         m <= Len(s) => s[m] \in S,
         \A k \in i..(m - 1) : s[k] \notin S
  PROVE  Find(s, i, S) = m
<1> DEFINE f == Find(s, i, S)
<1>1. i <= Len(s) + 1
  OBVIOUS
<1>2. /\ f \in i..(Len(s) + 1)
      /\ f <= Len(s) => s[f] \in S
      /\ \A k \in i..(f - 1) : s[k] \notin S
  BY <1>1, FindFacts
<1> HIDE DEF f
<1>3. ~(f < m)
  BY <1>2
<1>4. ~(m < f)
  BY <1>2
<1>5. f = m
  BY <1>2, <1>3, <1>4
<1> QED
  BY Zenon, <1>5 DEF f

\* The same parts of two texts.
Matches(s, a, b, t, c, d) == b - a = d - c /\ \A n \in 0..(b - a) : s[a + n] = t[c + n]

\* They are equal as sequences.
LEMMA SameParts ==
  ASSUME NEW B, NEW s \in Seq(B), NEW t \in Seq(B),
         NEW a \in 1..(Len(s) + 1), NEW b \in (a - 1)..Len(s),
         NEW c \in 1..(Len(t) + 1), NEW d \in (c - 1)..Len(t),
         Matches(s, a, b, t, c, d)
  PROVE  SubSeq(s, a, b) = SubSeq(t, c, d)
<1> DEFINE v == SubSeq(s, a, b)
           w == SubSeq(t, c, d)
<1>1. v \in Seq(B) /\ Len(v) = b - a + 1 /\ \A i \in 1..(b - a + 1) : v[i] = s[a + i - 1]
  BY PartFacts
<1>2. w \in Seq(B) /\ Len(w) = d - c + 1 /\ \A i \in 1..(d - c + 1) : w[i] = t[c + i - 1]
  BY PartFacts
<1>3. a \in Int /\ b \in Int /\ c \in Int /\ d \in Int
      /\ b - a = d - c /\ \A n \in 0..(b - a) : s[a + n] = t[c + n]
  BY DEF Matches
<1> HIDE DEF v, w
<1>4. Len(v) = Len(w)
  BY <1>1, <1>2, <1>3
<1>5. ASSUME NEW i \in 1..Len(v) PROVE v[i] = w[i]
  <2>1. i - 1 \in 0..(b - a) /\ i \in 1..(b - a + 1) /\ i \in 1..(d - c + 1) /\ i \in Int
    BY <1>1, <1>3
  <2>2. v[i] = s[a + i - 1] /\ w[i] = t[c + i - 1]
    BY Zenon, <2>1, <1>1, <1>2
  <2>3. a + i - 1 = a + (i - 1) /\ c + i - 1 = c + (i - 1)
    BY <2>1, <1>3
  <2> QED
    BY Zenon, <2>1, <2>2, <2>3, <1>3
<1>6. v = w
  BY Zenon, <1>1, <1>2, <1>4, <1>5, SeqSame
<1> QED
  BY Zenon, <1>6 DEF v, w

\* Where a line ends for each of the three readers: the LF, and before it
\* possibly the CR that ends the record.
LEMMA LineFacts ==
  ASSUME NEW B, NEW s \in Seq(B), CrEnds(s), NEW i \in 1..Len(s)
  PROVE  LET j == LineEnd(s, i)
             e == Find(s, i, Eol)
         IN  /\ j \in i..(Len(s) + 1) /\ (j <= Len(s) => s[j] = "LF")
             /\ \A k \in i..(j - 1) : s[k] # "LF"
             /\ e \in i..(Len(s) + 1) /\ (e <= Len(s) => s[e] \in Eol)
             /\ \A k \in i..(e - 1) : s[k] \notin Eol
             /\ e = j \/ (e = j - 1 /\ s[e] = "CR")
<1> DEFINE j == LineEnd(s, i)
           e == Find(s, i, Eol)
<1>1. Len(s) \in Nat /\ i \in Nat \ {0} /\ i <= Len(s) + 1 /\ i <= Len(s)
  OBVIOUS
<1>2. /\ j \in i..(Len(s) + 1) /\ (j <= Len(s) => s[j] \in {"LF"})
      /\ \A k \in i..(j - 1) : s[k] \notin {"LF"}
  BY Zenon, <1>1, FindFacts DEF LineEnd
<1>3. /\ e \in i..(Len(s) + 1) /\ (e <= Len(s) => s[e] \in Eol)
      /\ \A k \in i..(e - 1) : s[k] \notin Eol
  BY Zenon, <1>1, FindFacts
<1> HIDE DEF j, e
<1>4. ~(j < e)
  BY <1>1, <1>2, <1>3 DEF Eol
<1>5. ASSUME e < j PROVE e = j - 1 /\ s[e] = "CR"
  <2>1. e \in i..(j - 1) /\ e <= Len(s)
    BY <1>1, <1>2, <1>3, <1>5
  <2>2. s[e] = "CR"
    BY <2>1, <1>2, <1>3 DEF Eol
  <2>3. CASE e = Len(s)
    BY <2>2, <2>3, <1>1, <1>2, <1>3, <1>5
  <2>4. CASE e # Len(s)
    <3>1. e \in 1..(Len(s) - 1)
      BY <2>1, <2>4, <1>1, <1>3
    <3>2. s[e + 1] = "LF"
      BY Zenon, <3>1, <2>2 DEF CrEnds
    <3>3. ~(e + 1 \in i..(j - 1))
      BY Zenon, <3>2, <1>2
    <3> QED
      BY <3>3, <2>1, <2>2, <1>1, <1>2, <1>3, <1>5
  <2> QED
    BY <2>3, <2>4
<1>6. e = j \/ (e = j - 1 /\ s[e] = "CR")
  BY <1>4, <1>5, <1>2, <1>3
<1> QED
  BY Zenon, <1>2, <1>3, <1>6 DEF j, e

\* No row starts inside a line.
LEMMA OneStart ==
  ASSUME NEW B, NEW s \in Seq(B), CrEnds(s), NEW i \in 1..Len(s), NEW k \in Starts(s), i < k
  PROVE  LineEnd(s, i) < k
<1> DEFINE j == LineEnd(s, i)
           e == Find(s, i, Eol)
<1>1. /\ j \in i..(Len(s) + 1) /\ (j <= Len(s) => s[j] = "LF")
      /\ e \in i..(Len(s) + 1)
      /\ \A n \in i..(e - 1) : s[n] \notin Eol
      /\ e = j \/ (e = j - 1 /\ s[e] = "CR")
  BY Zenon, LineFacts
<1>2. k \in 1..Len(s) /\ s[k] \notin Eol /\ (k = 1 \/ s[k - 1] \in Eol)
  BY Zenon DEF Starts
<1>3. Len(s) \in Nat /\ "LF" \in Eol
  BY DEF Eol
<1> HIDE DEF j, e
<1>4. k - 1 \notin i..(e - 1)
  BY <1>1, <1>2
<1>5. k # j
  BY <1>1, <1>2, <1>3
<1>6. j < k
  BY <1>1, <1>2, <1>3, <1>4, <1>5
<1> QED
  BY Zenon, <1>6 DEF j

\* The script reads the record that starts where a line does.
LEMMA RowIsRecord ==
  ASSUME NEW B, NEW s \in Seq(B), CrEnds(s), NEW i \in 1..Len(s), s[i] \notin Eol
  PROVE  row_at(s, i) = RecordAt(s, i)
<1> DEFINE j == LineEnd(s, i)
           e == Find(s, i, Eol)
           b == IF i < j /\ s[j - 1] = "CR" THEN j - 2 ELSE j - 1
<1>1. /\ j \in i..(Len(s) + 1)
      /\ e \in i..(Len(s) + 1) /\ (e <= Len(s) => s[e] \in Eol)
      /\ \A n \in i..(e - 1) : s[n] \notin Eol
      /\ e = j \/ (e = j - 1 /\ s[e] = "CR")
  BY Zenon, LineFacts
<1>2. row_at(s, i) = SubSeq(s, i, b) /\ RecordAt(s, i) = SubSeq(s, i, e - 1)
  BY Zenon DEF row_at, RecordAt
<1>3. Len(s) \in Nat /\ "CR" \in Eol
  BY DEF Eol
<1> HIDE DEF j, e
<1>4. e = j => ~(i < j /\ s[j - 1] = "CR")
  BY <1>1, <1>3
<1>5. b = e - 1
  BY <1>1, <1>3, <1>4
<1> QED
  BY Zenon, <1>2, <1>5

\* What the server makes of a line is its record, and the CR that ends the text.
LEMMA LineIs ==
  ASSUME NEW B, NEW s \in Seq(B), CrEnds(s), NEW i \in 1..Len(s)
  PROVE  LET e == Find(s, i, Eol) IN
         \E b \in {e - 1, e} : line(s, i) = SubSeq(s, i, b) /\ (b = e => e = Len(s) /\ s[e] = "CR")
<1> DEFINE j == LineEnd(s, i)
           e == Find(s, i, Eol)
           b == IF i < j /\ j <= Len(s) /\ s[j - 1] = "CR" THEN j - 2 ELSE j - 1
<1>1. /\ j \in i..(Len(s) + 1)
      /\ e \in i..(Len(s) + 1) /\ (e <= Len(s) => s[e] \in Eol)
      /\ \A n \in i..(e - 1) : s[n] \notin Eol
      /\ e = j \/ (e = j - 1 /\ s[e] = "CR")
  BY Zenon, LineFacts
<1>2. line(s, i) = SubSeq(s, i, b)
  BY Zenon DEF line
<1>3. Len(s) \in Nat /\ "CR" \in Eol
  BY DEF Eol
<1> HIDE DEF j, e
<1>4. e = j => ~(i < j /\ s[j - 1] = "CR")
  BY <1>1, <1>3
<1>5. b \in {e - 1, e} /\ (b = e => e = Len(s) /\ s[e] = "CR")
  BY <1>1, <1>3, <1>4
<1> QED
  BY Zenon, <1>2, <1>5 DEF e

\* u is s and behind it the record of t that starts at i, with its end.
Adds(s, t, i, u) ==
    LET r == Find(t, i, Eol) - i
        L == Len(s)
    IN  /\ \A k \in 1..L : u[k] = s[k]
        /\ \A n \in 1..r : u[L + n] = t[i + n - 1] /\ u[L + n] \notin Eol
        /\ \/ Len(u) = L + r + 1 /\ u[L + r + 1] = "LF"
           \/ Len(u) = L + r + 2 /\ u[L + r + 1] = "CR" /\ u[L + r + 2] = "LF"

\* What a line adds to the text.
LEMMA LineAdds ==
  ASSUME NEW B, "LF" \in B, NEW s \in Seq(B), NEW t \in Seq(B), CrEnds(t), NEW i \in 1..Len(t)
  PROVE  LET u == s \o Append(line(t, i), "LF")
         IN  u \in Seq(B) /\ Adds(s, t, i, u)
<1> DEFINE e == Find(t, i, Eol)
           w == line(t, i)
           u == s \o Append(w, "LF")
           L == Len(s)
           r == e - i
<1>1. Len(s) \in Nat /\ Len(t) \in Nat /\ i \in Nat \ {0} /\ i <= Len(t)
  OBVIOUS
<1>2. /\ e \in i..(Len(t) + 1)
      /\ \A n \in i..(e - 1) : t[n] \notin Eol
  BY Zenon, LineFacts
<1>3. PICK b \in {e - 1, e} : w = SubSeq(t, i, b) /\ (b = e => e = Len(t) /\ t[e] = "CR")
  BY Zenon, LineIs
<1> HIDE DEF e, w
<1>4. i \in 1..(Len(t) + 1) /\ b \in (i - 1)..Len(t)
  BY <1>1, <1>2, <1>3
<1>5. w \in Seq(B) /\ Len(w) = b - i + 1 /\ \A n \in 1..(b - i + 1) : w[n] = t[i + n - 1]
  BY <1>3, <1>4, PartFacts
<1>6. /\ u \in Seq(B) /\ Len(u) = Len(s) + Len(w) + 1
      /\ \A k \in 1..Len(s) : u[k] = s[k]
      /\ \A k \in 1..Len(w) : u[Len(s) + k] = w[k]
      /\ u[Len(s) + Len(w) + 1] = "LF"
  BY <1>5, PushFacts
<1> HIDE DEF u
<1>7. ASSUME NEW n \in 1..r PROVE u[L + n] = t[i + n - 1] /\ u[L + n] \notin Eol
  <2>1. n \in 1..(b - i + 1) /\ n \in 1..Len(w) /\ i + n - 1 \in i..(e - 1)
    BY <1>1, <1>2, <1>3, <1>5
  <2> QED
    BY Zenon, <2>1, <1>2, <1>5, <1>6
<1>8. CASE b = e - 1
  <2>1. Len(w) = r
    BY <1>1, <1>2, <1>5, <1>8
  <2> QED
    BY Zenon, <1>6, <1>7, <2>1 DEF Adds, e, u, w
<1>9. CASE b = e
  <2>1. Len(w) = r + 1 /\ L + (r + 1) + 1 = L + r + 2 /\ L + (r + 1) = L + r + 1
    BY <1>1, <1>2, <1>5, <1>9
  <2>2. r + 1 \in 1..(b - i + 1) /\ r + 1 \in 1..Len(w) /\ i + (r + 1) - 1 = e
    BY <1>1, <1>2, <1>5, <1>9
  <2>3. u[L + (r + 1)] = "CR"
    BY Zenon, <2>2, <1>3, <1>5, <1>6, <1>9
  <2> QED
    BY Zenon, <1>6, <1>7, <2>1, <2>3 DEF Adds, e, u, w
<1> QED
  BY Zenon, <1>3, <1>8, <1>9

\* Behind a text that is empty or ends with a line, ...
Complete(s) == s = <<>> \/ s[Len(s)] = "LF"

\* ... a line with its end leaves a CR only at ends of lines, ...
LEMMA AddedEnds ==
  ASSUME NEW B, NEW s \in Seq(B), NEW t \in Seq(B), NEW i \in 1..Len(t), NEW u \in Seq(B),
         Complete(s), CrEnds(s), CrEnds(t), Adds(s, t, i, u)
  PROVE  CrEnds(u) /\ u # <<>> /\ u[Len(u)] = "LF"
<1> DEFINE r == Find(t, i, Eol) - i
           L == Len(s)
<1>1. Find(t, i, Eol) \in i..(Len(t) + 1)
  BY Zenon, LineFacts
<1>2. L \in Nat /\ r \in Nat
  BY <1>1
<1>3. /\ \A k \in 1..L : u[k] = s[k]
      /\ \A n \in 1..r : u[L + n] \notin Eol
      /\ \/ Len(u) = L + r + 1 /\ u[L + r + 1] = "LF"
         \/ Len(u) = L + r + 2 /\ u[L + r + 1] = "CR" /\ u[L + r + 2] = "LF"
  BY Zenon DEF Adds
<1>4. L > 0 => s[L] = "LF"
  BY <1>2 DEF Complete
<1> HIDE DEF r
<1>5. ASSUME NEW p \in 1..(Len(u) - 1), u[p] = "CR" PROVE u[p + 1] = "LF"
  <2>1. CASE p < L
    <3>1. p \in 1..(Len(s) - 1) /\ p \in 1..L /\ p + 1 \in 1..L
      BY <1>2, <2>1
    <3> QED
      BY Zenon, <1>3, <1>5, <3>1 DEF CrEnds
  <2>2. CASE p = L
    BY <1>2, <1>3, <1>4, <1>5, <2>2
  <2>3. CASE p \in (L + 1)..(L + r)
    <3>1. p - L \in 1..r /\ L + (p - L) = p
      BY <1>2, <2>3
    <3> QED
      BY <3>1, <1>3, <1>5 DEF Eol
  <2>4. CASE p = L + r + 1
    BY <1>2, <1>3, <1>5, <2>4
  <2> QED
    BY <1>2, <1>3, <2>1, <2>2, <2>3, <2>4
<1>6. u # <<>> /\ u[Len(u)] = "LF"
  BY <1>2, <1>3
<1> QED
  BY Zenon, <1>5, <1>6 DEF CrEnds

\* ... keeps the rows that were there, ...
LEMMA AddedKeeps ==
  ASSUME NEW B, NEW s \in Seq(B), NEW t \in Seq(B), NEW i \in 1..Len(t), NEW u \in Seq(B),
         Complete(s), CrEnds(t), Adds(s, t, i, u), NEW k \in Starts(s)
  PROVE  k \in Starts(u) /\ RecordAt(u, k) = RecordAt(s, k)
<1> DEFINE r == Find(t, i, Eol) - i
           L == Len(s)
           f == Find(s, k, Eol)
<1>1. Find(t, i, Eol) \in i..(Len(t) + 1)
  BY Zenon, LineFacts
<1>2. L \in Nat /\ r \in Nat
  BY <1>1
<1>3. /\ \A n \in 1..L : u[n] = s[n]
      /\ Len(u) = L + r + 1 \/ Len(u) = L + r + 2
  BY Zenon DEF Adds
<1>4. k \in 1..L /\ s[k] \notin Eol /\ (k = 1 \/ s[k - 1] \in Eol)
  BY Zenon DEF Starts
<1>5. s[L] = "LF" /\ "LF" \in Eol
  BY <1>2, <1>4 DEF Complete, Eol
<1> HIDE DEF r
<1>6. k \in Nat \ {0} /\ k <= L + 1 /\ L <= Len(u) /\ Len(u) \in Nat
  BY <1>2, <1>3, <1>4
<1>7. /\ f \in k..(L + 1) /\ (f <= L => s[f] \in Eol)
      /\ \A n \in k..(f - 1) : s[n] \notin Eol
  BY Zenon, <1>2, <1>6, FindFacts
<1> HIDE DEF f
<1>8. f <= L
  BY <1>2, <1>4, <1>5, <1>7
<1>9. Find(u, k, Eol) = f
  <2>1. f \in k..(Len(u) + 1) /\ f \in 1..L
    BY <1>2, <1>4, <1>6, <1>7, <1>8
  <2>2. u[f] \in Eol
    BY Zenon, <1>3, <1>7, <1>8, <2>1
  <2>3. \A n \in k..(f - 1) : n \in 1..L
    BY <1>2, <1>4, <1>7, <1>8
  <2>4. \A n \in k..(f - 1) : u[n] \notin Eol
    BY Zenon, <2>3, <1>3, <1>7
  <2> QED
    BY Zenon, <2>1, <2>2, <2>4, <1>6, FindIs
<1>10. RecordAt(u, k) = SubSeq(u, k, f - 1) /\ RecordAt(s, k) = SubSeq(s, k, f - 1)
  BY Zenon, <1>9 DEF RecordAt, f
<1>11. SubSeq(u, k, f - 1) = SubSeq(s, k, f - 1)
  <2>1. k \in 1..(Len(u) + 1) /\ k \in 1..(Len(s) + 1) /\ f - 1 \in (k - 1)..Len(u) /\ f - 1 \in (k - 1)..Len(s)
    BY <1>2, <1>4, <1>6, <1>7, <1>8
  <2>2. \A n \in 0..(f - 1 - k) : k + n \in 1..L
    BY <1>2, <1>4, <1>7, <1>8
  <2> DEFINE b == f - 1
  <2>3. \A n \in 0..(b - k) : u[k + n] = s[k + n]
    BY Zenon, <2>2, <1>3
  <2>4. b \in (k - 1)..Len(u) /\ b \in (k - 1)..Len(s) /\ Matches(u, k, b, s, k, b)
    BY Zenon, <2>1, <2>3 DEF Matches
  <2> HIDE DEF b
  <2>5. SubSeq(u, k, b) = SubSeq(s, k, b)
    BY <2>1, <2>4, SameParts
  <2> QED
    BY Zenon, <2>5 DEF b
<1>12. k \in Starts(u)
  <2>1. k \in 1..Len(u) /\ u[k] \notin Eol
    BY <1>2, <1>3, <1>4, <1>6
  <2>2. k = 1 \/ u[k - 1] \in Eol
    BY <1>2, <1>3, <1>4
  <2> QED
    BY Zenon, <2>1, <2>2 DEF Starts
<1> QED
  BY Zenon, <1>10, <1>11, <1>12

\* ... adds no row but its record, ...
LEMMA AddedOnly ==
  ASSUME NEW B, NEW s \in Seq(B), NEW t \in Seq(B), NEW i \in 1..Len(t), NEW u \in Seq(B),
         CrEnds(t), Adds(s, t, i, u), NEW k \in Starts(u), k \notin Starts(s)
  PROVE  k = Len(s) + 1 /\ t[i] \notin Eol
<1> DEFINE r == Find(t, i, Eol) - i
           L == Len(s)
<1>1. Find(t, i, Eol) \in i..(Len(t) + 1)
  BY Zenon, LineFacts
<1>2. L \in Nat /\ r \in Nat /\ i \in Nat
  BY <1>1
<1>3. /\ \A n \in 1..L : u[n] = s[n]
      /\ \A n \in 1..r : u[L + n] = t[i + n - 1] /\ u[L + n] \notin Eol
      /\ \/ Len(u) = L + r + 1 /\ u[L + r + 1] = "LF"
         \/ Len(u) = L + r + 2 /\ u[L + r + 1] = "CR" /\ u[L + r + 2] = "LF"
  BY Zenon DEF Adds
<1>4. k \in 1..Len(u) /\ u[k] \notin Eol /\ (k = 1 \/ u[k - 1] \in Eol)
  BY Zenon DEF Starts
<1> HIDE DEF r
<1>5. ~(k <= L)
  <2> SUFFICES ASSUME k <= L PROVE FALSE
    OBVIOUS
  <2>1. k \in 1..L /\ (k # 1 => k - 1 \in 1..L)
    BY <1>2, <1>4
  <2>2. s[k] \notin Eol /\ (k = 1 \/ s[k - 1] \in Eol)
    BY Zenon, <2>1, <1>3, <1>4
  <2> QED
    BY Zenon, <2>1, <2>2 DEF Starts
<1>6. k <= L + r
  <2>1. u[k] # "LF" /\ u[k] # "CR"
    BY Zenon, <1>4 DEF Eol
  <2>2. Len(u) = L + r + 1 \/ Len(u) = L + r + 2
    BY Zenon, <1>3
  <2>3. k # L + r + 1 /\ (Len(u) = L + r + 2 => k # L + r + 2)
    BY <1>2, <1>3, <2>1
  <2> DEFINE top == L + r
  <2>4. k \in 1..Len(u) /\ top \in Nat
    BY <1>2, <1>4
  <2> HIDE DEF L, top
  <2>5. CASE Len(u) = top + 1
    BY <2>3, <2>4, <2>5 DEF top
  <2>6. CASE Len(u) = top + 2
    BY <2>3, <2>4, <2>6 DEF top
  <2> QED
    BY Zenon, <2>2, <2>5, <2>6 DEF top
<1>7. ~(k > L + 1)
  <2> SUFFICES ASSUME k > L + 1 PROVE FALSE
    OBVIOUS
  <2>1. k - 1 - L \in 1..r /\ L + (k - 1 - L) = k - 1 /\ k # 1
    BY <1>2, <1>4, <1>6
  <2> QED
    BY <2>1, <1>3, <1>4
<1>8. k = L + 1 /\ 1 \in 1..r /\ i + 1 - 1 = i
  BY <1>2, <1>4, <1>5, <1>6, <1>7
<1>9. t[i] \notin Eol
  BY Zenon, <1>3, <1>8
<1> QED
  BY Zenon, <1>8, <1>9

\* ... and that one is the record of the upload.
LEMMA AddedRecord ==
  ASSUME NEW B, NEW s \in Seq(B), NEW t \in Seq(B), NEW i \in 1..Len(t), NEW u \in Seq(B),
         Complete(s), CrEnds(t), Adds(s, t, i, u), t[i] \notin Eol
  PROVE  Len(s) + 1 \in Starts(u) /\ RecordAt(u, Len(s) + 1) = RecordAt(t, i)
<1> DEFINE e == Find(t, i, Eol)
           r == e - i
           L == Len(s)
<1>1. e \in i..(Len(t) + 1) /\ (e <= Len(t) => t[e] \in Eol)
  BY Zenon, LineFacts
<1>2. L \in Nat /\ r \in Nat /\ i \in Nat /\ e \in Nat /\ Len(u) \in Nat /\ Len(t) \in Nat /\ 1 <= i /\ i <= Len(t)
  BY <1>1
<1>3. /\ \A n \in 1..L : u[n] = s[n]
      /\ \A n \in 1..r : u[L + n] = t[i + n - 1] /\ u[L + n] \notin Eol
      /\ \/ Len(u) = L + r + 1 /\ u[L + r + 1] = "LF"
         \/ Len(u) = L + r + 2 /\ u[L + r + 1] = "CR" /\ u[L + r + 2] = "LF"
  BY Zenon DEF Adds
<1>4. L > 0 => s[L] = "LF"
  BY <1>2 DEF Complete
<1> HIDE DEF e
<1>5. r >= 1
  BY <1>1, <1>2
<1>6. L + 1 \in Starts(u)
  <2>1. L + 1 \in 1..Len(u) /\ u[L + 1] \notin Eol
    BY <1>2, <1>3, <1>5
  <2>2. L + 1 = 1 \/ u[L + 1 - 1] \in Eol
    <3>1. L = 0 => L + 1 = 1
      OBVIOUS
    <3>2. L # 0 => L > 0 /\ L \in 1..L /\ L + 1 - 1 = L
      BY <1>2
    <3>3. L # 0 => u[L] = "LF"
      BY Zenon, <1>3, <1>4, <3>2
    <3> QED
      BY <3>1, <3>2, <3>3 DEF Eol
  <2> QED
    BY <2>1, <2>2 DEF Starts
<1> DEFINE a == L + 1
           b == L + r
           c == L + r + 1
           d == e - 1
<1>7. /\ a \in Nat \ {0} /\ b \in Nat /\ d \in Nat /\ c \in a..(Len(u) + 1)
      /\ a \in 1..(Len(u) + 1) /\ b \in (a - 1)..Len(u)
      /\ i \in 1..(Len(t) + 1) /\ d \in (i - 1)..Len(t)
      /\ b - a = d - i /\ c - 1 = b
  <2>1. Len(u) = L + r + 1 \/ Len(u) = L + r + 2
    BY Zenon, <1>3
  <2> QED
    BY <1>1, <1>2, <1>5, <2>1
<1>8. u[c] \in Eol
  BY <1>3 DEF Eol
<1>9. ASSUME NEW n \in a..(c - 1) PROVE u[n] \notin Eol
  <2>1. n - L \in 1..r /\ L + (n - L) = n
    BY <1>2
  <2> QED
    BY <2>1, <1>3
<1>10. ASSUME NEW n \in 0..(b - a) PROVE u[a + n] = t[i + n]
  <2>1. n + 1 \in 1..r /\ L + (n + 1) = L + 1 + n /\ i + (n + 1) - 1 = i + n
    BY <1>2
  <2> QED
    BY <2>1, <1>3
<1>11. RecordAt(u, a) = SubSeq(u, a, Find(u, a, Eol) - 1) /\ RecordAt(t, i) = SubSeq(t, i, d)
  BY Zenon DEF RecordAt, e
<1> HIDE DEF a, b, c, d
<1>12. Find(u, a, Eol) = c
  BY Zenon, <1>2, <1>7, <1>8, <1>9, FindIs
<1>13. Matches(u, a, b, t, i, d)
  BY Zenon, <1>7, <1>10 DEF Matches
<1>14. SubSeq(u, a, b) = SubSeq(t, i, d)
  BY <1>7, <1>13, SameParts
<1>15. Find(u, a, Eol) - 1 = b
  BY Zenon, <1>7, <1>12
<1>16. RecordAt(u, a) = RecordAt(t, i)
  BY Zenon, <1>11, <1>14, <1>15
<1> QED
  BY Zenon, <1>6, <1>16 DEF a

\* The bytes of all files, and the one that ends a line.
Bytes == {"LF"} \cup UNION {{Text(f)[k] : k \in DOMAIN Text(f)} : f \in 1..Len(query.files)}

\* g says which record of an upload each row of s but the first comes from:
\* all of R, in their order.
Copies(s, g, R) ==
    /\ g \in [Starts(s) \ {1} -> R]
    /\ \A i, k \in Starts(s) \ {1} : i < k => Precedes(g[i], g[k])
    /\ \A r \in R : \E i \in Starts(s) \ {1} : g[i] = r
    /\ \A i \in Starts(s) \ {1} : RecordAt(s, i) = UploadedRecord(g[i])

\* The records before a place in a file.
Passed(f, i) == {r \in Uploaded : Precedes(r, <<f, i>>)}

\* s starts with the header of the first file, and has the records in R as rows.
Made(s, R) ==
    /\ s \in Seq(Bytes) /\ s # <<>> /\ s[Len(s)] = "LF"
    /\ Plain(s)
    /\ RecordAt(s, 1) = RecordAt(Text(1), 1)
    /\ \E g : Copies(s, g, R)

\* What the names mean for the files of a query with one header.
LEMMA FileFacts ==
  ASSUME query \in PoolQueries, SameColumns
  PROVE  /\ Len(query.files) \in Nat \ {0}
         /\ "LF" \in Bytes
         /\ \A f \in 1..Len(query.files) :
               /\ Text(f) \in Seq(Bytes) /\ Text(f) # <<>> /\ Len(Text(f)) \in Nat \ {0}
               /\ Plain(Text(f)) /\ CrEnds(Text(f)) /\ Text(f)[1] \notin Eol
               /\ RecordAt(Text(f), 1) = RecordAt(Text(1), 1)
<1>1. IsSeq(query.files) /\ query.files # <<>>
  BY Zenon, PoolQueriesAssumption DEF SameColumns
<1>2. Len(query.files) \in Nat \ {0} /\ DOMAIN query.files = 1..Len(query.files)
  <2>1. \E T : query.files \in Seq(T)
    BY Zenon, <1>1 DEF IsSeq
  <2> QED
    BY <1>1, <2>1
<1>3. "LF" \in Bytes
  BY Zenon DEF Bytes
<1>4. ASSUME NEW f \in 1..Len(query.files)
      PROVE  /\ Text(f) \in Seq(Bytes) /\ Text(f) # <<>> /\ Len(Text(f)) \in Nat \ {0}
             /\ Plain(Text(f)) /\ CrEnds(Text(f)) /\ Text(f)[1] \notin Eol
             /\ RecordAt(Text(f), 1) = RecordAt(Text(1), 1)
  <2>1. Readable(f) /\ Plain(Text(f)) /\ RecordAt(Text(f), 1) = RecordAt(Text(1), 1)
    BY Zenon DEF SameColumns
  <2>2. Text(f) # <<>>
    BY Zenon, <2>1 DEF Readable
  <2>3. IsSeq(Text(f))
    BY Zenon, <1>2, PoolQueriesAssumption DEF Text
  <2>4. ASSUME NEW k \in DOMAIN Text(f) PROVE Text(f)[k] \in Bytes
    <3>1. Text(f)[k] \in {Text(f)[n] : n \in DOMAIN Text(f)}
      BY Zenon
    <3> QED
      BY Zenon, <3>1 DEF Bytes
  <2>5. Text(f) \in Seq(Bytes)
    BY Zenon, <2>3, <2>4, SeqOf
  <2>6. Len(Text(f)) \in Nat \ {0}
    BY <2>2, <2>5
  <2> QED
    BY Zenon, <2>1, <2>2, <2>5, <2>6 DEF Plain
<1> QED
  BY Zenon, <1>2, <1>3, <1>4

\* The records of the uploads are pairs of a file and a start in it.
LEMMA UploadedFacts ==
  ASSUME NEW r \in Uploaded
  PROVE  /\ r[1] \in 1..Len(query.files) /\ r[2] \in Starts(Text(r[1])) /\ r[2] # 1
         /\ r = <<r[1], r[2]>>
<1>1. PICK f \in 1..Len(query.files) : r \in {<<f, i>> : i \in Starts(Text(f)) \ {1}}
  BY Zenon DEF Uploaded
<1>2. PICK i \in Starts(Text(f)) \ {1} : r = <<f, i>>
  BY Zenon, <1>1
<1>3. r[1] = f /\ r[2] = i
  BY <1>2
<1> QED
  BY Zenon, <1>2, <1>3

\* A start in a file, but the first, is such a record.
LEMMA InUploaded ==
  ASSUME NEW f \in 1..Len(query.files), NEW i \in Starts(Text(f)), i # 1
  PROVE  <<f, i>> \in Uploaded
<1>1. <<f, i>> \in {<<f, k>> : k \in Starts(Text(f)) \ {1}}
  OBVIOUS
<1> QED
  BY Zenon, <1>1 DEF Uploaded

\* Precedes the first file there is no record, ...
LEMMA PassedNone ==
  ASSUME query \in PoolQueries, SameColumns
  PROVE  Passed(1, 1) = {}
<1> SUFFICES ASSUME NEW r \in Uploaded, Precedes(r, <<1, 1>>) PROVE FALSE
  BY Zenon DEF Passed
<1>1. r[1] \in 1..Len(query.files) /\ r[2] \in Starts(Text(r[1]))
  BY Zenon, UploadedFacts
<1>2. r[2] \in Nat /\ r[2] >= 1 /\ r[1] \in Nat /\ r[1] >= 1
  BY <1>1, FileFacts DEF Starts
<1> QED
  BY <1>2 DEF Precedes

\* ... behind the last one there are all, ...
LEMMA PassedAll ==
  ASSUME query \in PoolQueries, SameColumns
  PROVE  Passed(Len(query.files) + 1, 1) = Uploaded
<1> SUFFICES ASSUME NEW r \in Uploaded PROVE Precedes(r, <<Len(query.files) + 1, 1>>)
  BY Zenon DEF Passed
<1>1. r[1] \in 1..Len(query.files) /\ Len(query.files) \in Nat
  BY UploadedFacts, FileFacts
<1> QED
  BY <1>1 DEF Precedes

\* ... the header of a file is none, ...
LEMMA PassedHeader ==
  ASSUME query \in PoolQueries, SameColumns, NEW f \in 1..Len(query.files)
  PROVE  Passed(f, LineEnd(Text(f), 1) + 1) = Passed(f, 1)
<1> DEFINE t == Text(f)
           j == LineEnd(t, 1)
<1>1. t \in Seq(Bytes) /\ CrEnds(t) /\ Len(t) \in Nat \ {0} /\ Len(query.files) \in Nat
  BY Zenon, FileFacts
<1>2. 1 \in 1..Len(t)
  BY <1>1
<1>3. j \in 1..(Len(t) + 1)
  BY Zenon, <1>1, <1>2, LineFacts
<1>4. \A k \in Starts(t) : 1 < k => j < k
  BY Zenon, <1>1, <1>2, OneStart
<1>5. ASSUME NEW r \in Uploaded PROVE Precedes(r, <<f, j + 1>>) <=> Precedes(r, <<f, 1>>)
  <2>1. r[1] \in 1..Len(query.files) /\ r[2] \in Starts(Text(r[1])) /\ r[2] # 1
    BY Zenon, UploadedFacts
  <2>2. r[1] \in Nat /\ f \in Nat
    BY <1>1, <2>1
  <2>3. ASSUME r[1] = f PROVE r[2] \in Nat /\ r[2] > j
    <3>1. r[2] \in Starts(t)
      BY Zenon, <2>1, <2>3
    <3>2. r[2] \in 1..Len(t)
      BY Zenon, <3>1 DEF Starts
    <3> HIDE DEF t, j
    <3>3. r[2] \in Nat /\ 1 < r[2]
      BY <3>2, <2>1, <1>1
    <3> QED
      BY <3>1, <3>3, <1>3, <1>4, <1>1
  <2> HIDE DEF t, j
  <2>4. j \in Nat /\ j >= 1
    BY <1>1, <1>3
  <2> QED
    BY <2>2, <2>3, <2>4 DEF Precedes
<1> QED
  BY Zenon, <1>5 DEF Passed

\* ... a line is at most one, ...
LEMMA PassedLine ==
  ASSUME query \in PoolQueries, SameColumns, NEW f \in 1..Len(query.files),
         NEW i \in 2..Len(Text(f)), Text(f)[i - 1] = "LF"
  PROVE  /\ Text(f)[i] \in Eol => Passed(f, LineEnd(Text(f), i) + 1) = Passed(f, i)
         /\ Text(f)[i] \notin Eol =>
               <<f, i>> \in Uploaded /\ Passed(f, LineEnd(Text(f), i) + 1) = Passed(f, i) \cup {<<f, i>>}
<1> DEFINE t == Text(f)
           j == LineEnd(t, i)
<1>1. t \in Seq(Bytes) /\ CrEnds(t) /\ Len(t) \in Nat \ {0} /\ Len(query.files) \in Nat
  BY Zenon, FileFacts
<1>2. i \in 1..Len(t) /\ i # 1
  BY <1>1
<1>3. j \in i..(Len(t) + 1)
  BY Zenon, <1>1, <1>2, LineFacts
<1>4. \A k \in Starts(t) : i < k => j < k
  BY Zenon, <1>1, <1>2, OneStart
<1>5. t[i] \in Eol <=> i \notin Starts(t)
  BY Zenon, <1>2 DEF Starts, Eol
<1>6. ASSUME NEW r \in Uploaded
      PROVE  Precedes(r, <<f, j + 1>>) <=> Precedes(r, <<f, i>>) \/ r = <<f, i>>
  <2>1. r[1] \in 1..Len(query.files) /\ r[2] \in Starts(Text(r[1])) /\ r[2] # 1 /\ r = <<r[1], r[2]>>
    BY Zenon, UploadedFacts
  <2>2. r[1] \in Nat /\ f \in Nat
    BY <1>1, <2>1
  <2>3. ASSUME r[1] = f PROVE r[2] \in Nat /\ (r[2] > i => r[2] > j)
    <3>1. r[2] \in Starts(t)
      BY Zenon, <2>1, <2>3
    <3>2. r[2] \in 1..Len(t)
      BY Zenon, <3>1 DEF Starts
    <3> HIDE DEF t, j
    <3> QED
      BY <3>1, <3>2, <1>3, <1>4, <1>1
  <2> HIDE DEF t, j
  <2>4. j \in Nat /\ i \in Nat /\ j >= i
    BY <1>1, <1>2, <1>3
  <2>5. r = <<f, i>> <=> r[1] = f /\ r[2] = i
    BY <2>1
  <2>6. Precedes(r, <<f, j + 1>>) <=> r[1] < f \/ (r[1] = f /\ r[2] < j + 1)
    BY DEF Precedes
  <2>7. Precedes(r, <<f, i>>) <=> r[1] < f \/ (r[1] = f /\ r[2] < i)
    BY DEF Precedes
  <2> QED
    BY <2>2, <2>3, <2>4, <2>5, <2>6, <2>7
<1>7. t[i] \notin Eol => <<f, i>> \in Uploaded
  BY Zenon, <1>2, <1>5, InUploaded
<1>8. t[i] \in Eol => <<f, i>> \notin Uploaded
  <2> SUFFICES ASSUME t[i] \in Eol, <<f, i>> \in Uploaded PROVE FALSE
    OBVIOUS
  <2>1. <<f, i>>[1] = f /\ <<f, i>>[2] = i
    OBVIOUS
  <2> QED
    BY Zenon, <2>1, <1>5, UploadedFacts
<1> QED
  BY Zenon, <1>6, <1>7, <1>8 DEF Passed

\* ... and the end of a file is the start of the next one.
LEMMA PassedFile ==
  ASSUME query \in PoolQueries, SameColumns, NEW f \in 1..Len(query.files),
         NEW i \in Nat, i > Len(Text(f))
  PROVE  Passed(f, i) = Passed(f + 1, 1)
<1> DEFINE t == Text(f)
<1>1. Len(t) \in Nat \ {0} /\ Len(query.files) \in Nat
  BY Zenon, FileFacts
<1>2. ASSUME NEW r \in Uploaded PROVE Precedes(r, <<f, i>>) <=> Precedes(r, <<f + 1, 1>>)
  <2>1. r[1] \in 1..Len(query.files) /\ r[2] \in Starts(Text(r[1]))
    BY Zenon, UploadedFacts
  <2>2. r[1] \in Nat /\ f \in Nat
    BY <1>1, <2>1
  <2>3. r[2] \in 1..Len(Text(r[1]))
    BY Zenon, <2>1 DEF Starts
  <2>4. r[2] \in Nat /\ r[2] >= 1
    BY <2>1, <2>3, FileFacts
  <2>5. r[1] = f => r[2] <= Len(Text(f))
    BY <2>3, <1>1
  <2>6. Precedes(r, <<f, i>>) <=> r[1] < f \/ (r[1] = f /\ r[2] < i)
    BY DEF Precedes
  <2>7. Precedes(r, <<f + 1, 1>>) <=> r[1] < f + 1 \/ (r[1] = f + 1 /\ r[2] < 1)
    BY DEF Precedes
  <2> QED
    BY <1>1, <2>2, <2>4, <2>5, <2>6, <2>7
<1> QED
  BY Zenon, <1>2 DEF Passed

\* An empty line has no record.
LEMMA EmptyLine ==
  ASSUME NEW B, NEW t \in Seq(B), CrEnds(t), NEW i \in 1..Len(t), t[i] \notin Eol
  PROVE  line(t, i) # <<>>
<1> DEFINE e == Find(t, i, Eol)
<1>1. Len(t) \in Nat /\ i \in Nat \ {0} /\ i <= Len(t)
  OBVIOUS
<1>2. e \in i..(Len(t) + 1) /\ (e <= Len(t) => t[e] \in Eol)
  BY Zenon, LineFacts
<1>3. PICK b \in {e - 1, e} : line(t, i) = SubSeq(t, i, b) /\ (b = e => e = Len(t) /\ t[e] = "CR")
  BY Zenon, LineIs
<1> HIDE DEF e
<1>4. e # i
  BY <1>1, <1>2
<1>5. i \in 1..(Len(t) + 1) /\ b \in (i - 1)..Len(t) /\ b - i + 1 >= 1
  BY <1>1, <1>2, <1>3, <1>4
<1>6. Len(SubSeq(t, i, b)) = b - i + 1
  BY <1>5, PartFacts
<1>7. Len(line(t, i)) >= 1
  BY Zenon, <1>3, <1>5, <1>6
<1> QED
  BY <1>7

\* The row that a line adds comes from its record.
LEMMA RowCopied ==
  ASSUME NEW B, NEW s \in Seq(B), NEW t \in Seq(B), NEW i \in 1..Len(t), NEW u \in Seq(B),
         s # <<>>, Complete(s), CrEnds(t), Adds(s, t, i, u), t[i] \notin Eol,
         NEW R, NEW r, \A q \in R : Precedes(q, r), RecordAt(t, i) = UploadedRecord(r),
         NEW g, Copies(s, g, R)
  PROVE  \E h : Copies(u, h, R \cup {r})
<1> DEFINE L == Len(s)
           S == Starts(s) \ {1}
           T == Starts(u) \ {1}
           h == [k \in T |-> IF k \in S THEN g[k] ELSE r]
<1>1. L \in Nat /\ L >= 1
  OBVIOUS
<1>2. \A k \in Starts(s) : k \in Starts(u) /\ RecordAt(u, k) = RecordAt(s, k)
  BY Zenon, AddedKeeps
<1>3. \A k \in Starts(u) : k \notin Starts(s) => k = L + 1
  BY Zenon, AddedOnly
<1>4. L + 1 \in Starts(u) /\ RecordAt(u, L + 1) = UploadedRecord(r)
  <2>1. L + 1 \in Starts(u) /\ RecordAt(u, L + 1) = RecordAt(t, i)
    BY AddedRecord
  <2> QED
    BY Zenon, <2>1
<1>5. \A k \in S : k \in Nat /\ k < L + 1
  BY <1>1 DEF Starts
<1>6. L + 1 \in T /\ L + 1 \notin S /\ S \subseteq T /\ \A k \in T : k \in S \/ k = L + 1
  <2>1. L + 1 # 1
    BY <1>1
  <2>2. L + 1 \notin S
    BY <1>1, <1>5
  <2> QED
    BY Zenon, <2>1, <2>2, <1>2, <1>3, <1>4
<1>7. /\ g \in [S -> R]
      /\ \A k, m \in S : k < m => Precedes(g[k], g[m])
      /\ \A q \in R : \E k \in S : g[k] = q
      /\ \A k \in S : RecordAt(s, k) = UploadedRecord(g[k])
  BY Zenon DEF Copies
<1>8. \A k \in S : RecordAt(u, k) = RecordAt(s, k)
  BY Zenon, <1>2
<1> HIDE DEF S, T, L
<1>9. h[L + 1] = r /\ (\A k \in S : h[k] = g[k])
  BY Zenon, <1>6
<1>10. h \in [T -> R \cup {r}]
  BY <1>7
<1> HIDE DEF h
<1>11. ASSUME NEW k \in T, NEW m \in T, k < m PROVE Precedes(h[k], h[m])
  <2>1. CASE m \in S
    <3>1. k # L + 1
      BY <1>1, <1>5, <1>11, <2>1
    <3>2. k \in S
      BY Zenon, <3>1, <1>6
    <3> QED
      BY Zenon, <2>1, <3>2, <1>7, <1>9, <1>11
  <2>2. CASE m = L + 1
    <3>1. k # L + 1
      BY <1>1, <1>11, <2>2
    <3>2. k \in S
      BY Zenon, <3>1, <1>6
    <3>3. g[k] \in R
      BY Zenon, <3>2, <1>7
    <3> QED
      BY Zenon, <2>2, <3>2, <3>3, <1>9
  <2> QED
    BY Zenon, <2>1, <2>2, <1>6
<1>12. \A q \in R \cup {r} : \E k \in T : h[k] = q
  BY Zenon, <1>6, <1>7, <1>9
<1>13. \A k \in T : RecordAt(u, k) = UploadedRecord(h[k])
  BY Zenon, <1>4, <1>6, <1>7, <1>8, <1>9 DEF L
<1>14. Copies(u, h, R \cup {r})
  BY Zenon, <1>10, <1>11, <1>12, <1>13 DEF Copies, T
<1> QED
  BY Zenon, <1>14

\* A line without a record adds no row.
LEMMA NoRowCopied ==
  ASSUME NEW B, NEW s \in Seq(B), NEW t \in Seq(B), NEW i \in 1..Len(t), NEW u \in Seq(B),
         Complete(s), CrEnds(t), Adds(s, t, i, u), t[i] \in Eol,
         NEW R, NEW g, Copies(s, g, R)
  PROVE  Copies(u, g, R)
<1>1. \A k \in Starts(s) : k \in Starts(u) /\ RecordAt(u, k) = RecordAt(s, k)
  BY Zenon, AddedKeeps
<1>2. \A k \in Starts(u) : k \in Starts(s)
  BY Zenon, AddedOnly
<1>3. Starts(u) = Starts(s)
  BY Zenon, <1>1, <1>2
<1> QED
  BY Zenon, <1>1, <1>3 DEF Copies

\* The text that the first header makes has no rows.
LEMMA HeaderMade ==
  ASSUME query \in PoolQueries, SameColumns
  PROVE  Made(Append(line(Text(1), 1), "LF"), {})
<1> DEFINE t == Text(1)
           e == <<>>
           u == e \o Append(line(t, 1), "LF")
<1>1. 1 \in 1..Len(query.files) /\ "LF" \in Bytes
  BY FileFacts
<1>2. t \in Seq(Bytes) /\ CrEnds(t) /\ t[1] \notin Eol /\ Len(t) \in Nat \ {0}
  BY Zenon, <1>1, FileFacts
<1>3. 1 \in 1..Len(t)
  BY <1>2
<1>4. e \in Seq(Bytes) /\ Complete(e) /\ Len(e) = 0 /\ Starts(e) = {} /\ CrEnds(e)
  BY DEF Complete, Starts, CrEnds
<1>5. u \in Seq(Bytes) /\ Adds(e, t, 1, u)
  BY Zenon, <1>1, <1>2, <1>3, <1>4, LineAdds
<1>6. u = Append(line(t, 1), "LF")
  <2>1. line(t, 1) \in Seq(Bytes)
    <3>1. PICK b \in {Find(t, 1, Eol) - 1, Find(t, 1, Eol)} :
             line(t, 1) = SubSeq(t, 1, b) /\ (b = Find(t, 1, Eol) => Find(t, 1, Eol) = Len(t) /\ t[Find(t, 1, Eol)] = "CR")
      BY Zenon, <1>2, <1>3, LineIs
    <3>2. Find(t, 1, Eol) \in 1..(Len(t) + 1)
      BY Zenon, <1>2, <1>3, LineFacts
    <3>3. 1 \in 1..(Len(t) + 1) /\ b \in (1 - 1)..Len(t)
      BY <1>2, <3>1, <3>2
    <3>4. SubSeq(t, 1, b) \in Seq(Bytes)
      BY <1>2, <3>3, PartFacts
    <3> QED
      BY Zenon, <3>1, <3>4
  <2>2. Append(line(t, 1), "LF") \in Seq(Bytes)
    BY <2>1, <1>1
  <2> QED
    BY <2>2
<1> HIDE DEF e, u
<1>7. CrEnds(u) /\ u # <<>> /\ u[Len(u)] = "LF"
  BY Zenon, <1>2, <1>3, <1>4, <1>5, AddedEnds
<1>8. Len(e) + 1 = 1
  BY <1>4
<1>9. 1 \in Starts(u) /\ RecordAt(u, 1) = RecordAt(t, 1)
  <2>1. Len(e) + 1 \in Starts(u) /\ RecordAt(u, Len(e) + 1) = RecordAt(t, 1)
    BY Zenon, <1>2, <1>3, <1>4, <1>5, AddedRecord
  <2> QED
    BY Zenon, <2>1, <1>8
<1>10. \A k \in Starts(u) : k = 1
  <2>1. \A k \in Starts(u) : k = Len(e) + 1
    <3> SUFFICES ASSUME NEW k \in Starts(u) PROVE k = Len(e) + 1
      OBVIOUS
    <3>1. k \notin Starts(e)
      BY Zenon, <1>4
    <3>2. e \in Seq(Bytes) /\ t \in Seq(Bytes) /\ CrEnds(t) /\ 1 \in 1..Len(t) /\ u \in Seq(Bytes) /\ Adds(e, t, 1, u)
      BY Zenon, <1>2, <1>3, <1>4, <1>5
    <3> HIDE DEF t
    <3>3. k = Len(e) + 1 /\ t[1] \notin Eol
      BY Zenon, <3>1, <3>2, AddedOnly
    <3> QED
      BY Zenon, <3>3
  <2> QED
    BY Zenon, <2>1, <1>8
<1>11. Plain(u)
  BY Zenon, <1>7, <1>9 DEF Plain, Starts
<1>12. Copies(u, [k \in {} |-> k], {})
  <2>1. Starts(u) \ {1} = {}
    BY Zenon, <1>10
  <2>2. [k \in {} |-> k] \in [{} -> {}]
    OBVIOUS
  <2> QED
    BY Zenon, <2>1, <2>2 DEF Copies
<1>13. Made(u, {})
  BY Zenon, <1>5, <1>7, <1>9, <1>11, <1>12 DEF Made
<1> QED
  BY Zenon, <1>6, <1>13

\* A line of a file adds its record, or nothing.
LEMMA LineMade ==
  ASSUME query \in PoolQueries, SameColumns, NEW f \in 1..Len(query.files),
         NEW i \in 2..Len(Text(f)), Text(f)[i - 1] = "LF",
         NEW s, Made(s, Passed(f, i))
  PROVE  Made(IF line(Text(f), i) = <<>> THEN s ELSE s \o Append(line(Text(f), i), "LF"),
              Passed(f, LineEnd(Text(f), i) + 1))
<1> DEFINE t == Text(f)
           R == Passed(f, i)
           N == Passed(f, LineEnd(t, i) + 1)
           u == s \o Append(line(t, i), "LF")
<1>1. t \in Seq(Bytes) /\ CrEnds(t) /\ Len(t) \in Nat \ {0} /\ "LF" \in Bytes
  BY Zenon, FileFacts
<1>2. i \in 1..Len(t)
  BY <1>1
<1>3. /\ t[i] \in Eol => N = R
      /\ t[i] \notin Eol => <<f, i>> \in Uploaded /\ N = R \cup {<<f, i>>}
  BY Zenon, PassedLine
<1>4. /\ s \in Seq(Bytes) /\ s # <<>> /\ s[Len(s)] = "LF" /\ Plain(s) /\ CrEnds(s) /\ Complete(s)
      /\ RecordAt(s, 1) = RecordAt(Text(1), 1)
  BY Zenon DEF Made, Plain, Complete
<1>5. PICK g : Copies(s, g, R)
  BY Zenon DEF Made
<1>6. \A q \in R : Precedes(q, <<f, i>>)
  BY Zenon DEF Passed
<1>7. RecordAt(t, i) = UploadedRecord(<<f, i>>)
  BY DEF UploadedRecord
<1> HIDE DEF t, R, N
<1>8. CASE line(t, i) = <<>>
  <2>1. t[i] \in Eol
    BY Zenon, <1>1, <1>2, <1>8, EmptyLine
  <2> QED
    BY Zenon, <2>1, <1>3, <1>8 DEF t, R, N
<1>9. CASE line(t, i) # <<>>
  <2>1. u \in Seq(Bytes) /\ Adds(s, t, i, u)
    BY Zenon, <1>1, <1>2, <1>4, LineAdds
  <2> HIDE DEF u
  <2>2. CrEnds(u) /\ u # <<>> /\ u[Len(u)] = "LF"
    BY Zenon, <2>1, <1>1, <1>2, <1>4, AddedEnds
  <2>3. 1 \in Starts(s)
    <3>1. Len(s) \in Nat \ {0}
      BY <1>4
    <3>2. 1 \in 1..Len(s)
      BY <3>1
    <3> QED
      BY Zenon, <3>2, <1>4 DEF Starts, Plain
  <2>4. 1 \in Starts(u) /\ RecordAt(u, 1) = RecordAt(s, 1)
    BY Zenon, <2>1, <2>3, <1>1, <1>2, <1>4, AddedKeeps
  <2>5. \E h : Copies(u, h, N)
    <3>1. CASE t[i] \in Eol
      <4>1. Copies(u, g, R)
        BY Zenon, <3>1, <2>1, <1>1, <1>2, <1>4, <1>5, NoRowCopied
      <4> QED
        BY Zenon, <4>1, <3>1, <1>3
    <3>2. CASE t[i] \notin Eol
      <4>1. \E h : Copies(u, h, R \cup {<<f, i>>})
        BY Zenon, <3>2, <2>1, <1>1, <1>2, <1>4, <1>5, <1>6, <1>7, RowCopied
      <4> QED
        BY Zenon, <4>1, <3>2, <1>3
    <3> QED
      BY Zenon, <3>1, <3>2
  <2>6. Plain(u)
    BY Zenon, <2>2, <2>4 DEF Plain, Starts
  <2>7. RecordAt(u, 1) = RecordAt(Text(1), 1)
    BY Zenon, <2>4, <1>4
  <2>8. Made(u, N)
    BY Zenon, <2>1, <2>2, <2>5, <2>6, <2>7 DEF Made
  <2> QED
    BY Zenon, <2>8, <1>9 DEF t, N, u
<1> QED
  BY Zenon, <1>8, <1>9

\* h says which row of s each cell comes from: all rows before the place i.
Reads(s, cs, h, i) ==
    /\ h \in [1..Len(cs) -> Starts(s) \ {1}]
    /\ \A m, n \in 1..Len(cs) : m < n => h[m] < h[n]
    /\ \A n \in 1..Len(cs) : h[n] < i
    /\ \A k \in Starts(s) \ {1} : k < i => \E n \in 1..Len(cs) : h[n] = k
    /\ \A n \in 1..Len(cs) : cs[n] = field_at(RecordAt(s, h[n]), ColumnOf(1))

\* The cells of the rows before i were read.
Scanned(s, cs, i) == IsSeq(cs) /\ \E h : Reads(s, cs, h, i)

\* A place behind the first line, where a line may start.
LinePlace(s, i) == i \in 2..(Len(s) + 2) /\ (i <= Len(s) => s[i - 1] \in Eol)

\* A list with one more element.
LEMMA AppendFacts ==
  ASSUME NEW cs, IsSeq(cs), NEW x
  PROVE  /\ IsSeq(Append(cs, x)) /\ Len(cs) \in Nat /\ Len(Append(cs, x)) = Len(cs) + 1
         /\ \A n \in 1..Len(cs) : Append(cs, x)[n] = cs[n]
         /\ Append(cs, x)[Len(cs) + 1] = x
<1> DEFINE V == {cs[k] : k \in DOMAIN cs} \cup {x}
           d == Append(cs, x)
<1>1. cs \in Seq(V) /\ x \in V
  BY DEF IsSeq
<1> HIDE DEF V
<1>2. /\ d \in Seq(V) /\ Len(cs) \in Nat /\ Len(d) = Len(cs) + 1
      /\ \A n \in 1..Len(cs) : d[n] = cs[n]
      /\ d[Len(cs) + 1] = x
  BY <1>1
<1> HIDE DEF d
<1>3. d \in Seq({d[k] : k \in DOMAIN d})
  BY <1>2
<1> QED
  BY Zenon, <1>2, <1>3 DEF d, IsSeq

\* At first no row was passed.
LEMMA ScanStarts ==
  ASSUME NEW B, NEW s \in Seq(B), s # <<>>, CrEnds(s)
  PROVE  Scanned(s, <<>>, LineEnd(s, 1) + 1) /\ LinePlace(s, LineEnd(s, 1) + 1)
<1> DEFINE j == LineEnd(s, 1)
           e == <<>>
           h == [n \in {} |-> n]
<1>1. 1 \in 1..Len(s) /\ Len(s) \in Nat
  OBVIOUS
<1>2. j \in 1..(Len(s) + 1) /\ (j <= Len(s) => s[j] = "LF")
  BY Zenon, <1>1, LineFacts
<1>3. \A k \in Starts(s) : 1 < k => j < k
  BY Zenon, <1>1, OneStart
<1>4. IsSeq(e) /\ 1..Len(e) = {}
  BY DEF IsSeq
<1> HIDE DEF j, e
<1>5. ASSUME NEW k \in Starts(s) \ {1} PROVE ~(k < j + 1)
  <2>1. k \in Nat /\ 1 < k
    BY <1>1 DEF Starts
  <2> QED
    BY <2>1, <1>2, <1>3, <1>1
<1>6. h \in [1..Len(e) -> Starts(s) \ {1}]
  BY <1>4
<1>7. Reads(s, e, h, j + 1)
  BY Zenon, <1>4, <1>5, <1>6 DEF Reads
<1>8. LinePlace(s, j + 1)
  BY <1>1, <1>2 DEF LinePlace, Eol
<1> QED
  BY Zenon, <1>4, <1>7, <1>8 DEF Scanned, j, e

\* A byte that ends a line is no row.
LEMMA ScanSkips ==
  ASSUME NEW B, NEW s \in Seq(B), NEW cs, NEW i, LinePlace(s, i), i <= Len(s), s[i] \in Eol,
         Scanned(s, cs, i)
  PROVE  Scanned(s, cs, i + 1) /\ LinePlace(s, i + 1)
<1>1. i \in 2..(Len(s) + 2) /\ Len(s) \in Nat
  BY DEF LinePlace
<1>2. PICK h : Reads(s, cs, h, i)
  BY Zenon DEF Scanned
<1>3. /\ h \in [1..Len(cs) -> Starts(s) \ {1}]
      /\ \A m, n \in 1..Len(cs) : m < n => h[m] < h[n]
      /\ \A n \in 1..Len(cs) : h[n] < i
      /\ \A k \in Starts(s) \ {1} : k < i => \E n \in 1..Len(cs) : h[n] = k
      /\ \A n \in 1..Len(cs) : cs[n] = field_at(RecordAt(s, h[n]), ColumnOf(1))
  BY Zenon, <1>2 DEF Reads
<1>4. \A k \in Starts(s) : k \in 1..Len(s) /\ s[k] \notin Eol
  BY Zenon DEF Starts
<1>5. \A k \in Starts(s) : k \in Nat /\ (k < i + 1 => k < i)
  BY <1>1, <1>4
<1>6. \A k \in Starts(s) : k < i => k < i + 1
  BY <1>1, <1>4
<1>7. \A n \in 1..Len(cs) : h[n] < i + 1
  BY Zenon, <1>3, <1>6
<1>8. Reads(s, cs, h, i + 1)
  BY Zenon, <1>3, <1>5, <1>7 DEF Reads
<1>9. LinePlace(s, i + 1)
  BY <1>1 DEF LinePlace
<1> QED
  BY Zenon, <1>8, <1>9 DEF Scanned

\* A row that is read is the next one.
LEMMA ScanReads ==
  ASSUME NEW B, NEW s \in Seq(B), CrEnds(s), NEW cs, NEW i, LinePlace(s, i), i <= Len(s), s[i] \notin Eol,
         Scanned(s, cs, i)
  PROVE  /\ Scanned(s, Append(cs, field_at(row_at(s, i), ColumnOf(1))), LineEnd(s, i) + 1)
         /\ LinePlace(s, LineEnd(s, i) + 1)
<1> DEFINE j == LineEnd(s, i)
           x == field_at(row_at(s, i), ColumnOf(1))
           d == Append(cs, x)
           N == Len(cs)
           S == Starts(s) \ {1}
<1>1. i \in 2..(Len(s) + 2) /\ Len(s) \in Nat /\ s[i - 1] \in Eol
  BY DEF LinePlace
<1>2. i \in 1..Len(s) /\ i # 1
  BY <1>1
<1>3. j \in i..(Len(s) + 1) /\ (j <= Len(s) => s[j] = "LF")
  BY Zenon, <1>2, LineFacts
<1>4. \A k \in Starts(s) : i < k => j < k
  BY Zenon, <1>2, OneStart
<1>5. x = field_at(RecordAt(s, i), ColumnOf(1))
  <2>1. row_at(s, i) = RecordAt(s, i)
    BY Zenon, <1>2, RowIsRecord
  <2> QED
    BY Zenon, <2>1
<1>6. i \in S
  BY Zenon, <1>1, <1>2 DEF Starts
<1>7. IsSeq(cs)
  BY Zenon DEF Scanned
<1>8. PICK h : Reads(s, cs, h, i)
  BY Zenon DEF Scanned
<1>9. /\ h \in [1..N -> S]
      /\ \A m, n \in 1..N : m < n => h[m] < h[n]
      /\ \A n \in 1..N : h[n] < i
      /\ \A k \in S : k < i => \E n \in 1..N : h[n] = k
      /\ \A n \in 1..N : cs[n] = field_at(RecordAt(s, h[n]), ColumnOf(1))
  BY Zenon, <1>8 DEF Reads
<1>10. \A k \in S : k \in Nat
  BY <1>1 DEF Starts
<1> HIDE DEF x
<1>11. /\ IsSeq(d) /\ N \in Nat /\ Len(d) = N + 1
       /\ \A n \in 1..N : d[n] = cs[n]
       /\ d[N + 1] = x
  BY Zenon, <1>7, AppendFacts
<1> HIDE DEF j, d, N, S
<1> DEFINE M == 1..(N + 1)
           g == [n \in M |-> IF n \in 1..N THEN h[n] ELSE i]
<1>12. 1..Len(d) = M /\ (\A n \in M : n \in 1..N \/ n = N + 1) /\ N + 1 \in M /\ N + 1 \notin 1..N /\ 1..N \subseteq M
  BY <1>11
<1>13. \A n \in 1..N : h[n] \in S
  BY Zenon, <1>9
<1> HIDE DEF M
<1>14. g[N + 1] = i /\ \A n \in 1..N : g[n] = h[n]
  BY Zenon, <1>12
<1>15. g \in [M -> S]
  BY <1>6, <1>13
<1> HIDE DEF g
<1>16. ASSUME NEW m \in M, NEW n \in M, m < n PROVE g[m] < g[n]
  <2>1. CASE n \in 1..N
    <3>1. m # N + 1
      BY <1>11, <1>16, <2>1
    <3> QED
      BY Zenon, <1>9, <1>12, <1>14, <1>16, <2>1, <3>1
  <2>2. CASE n = N + 1
    <3>1. m # N + 1
      BY <1>11, <1>16, <2>2
    <3> QED
      BY Zenon, <1>9, <1>12, <1>14, <2>2, <3>1
  <2> QED
    BY Zenon, <1>12, <2>1, <2>2
<1>17. ASSUME NEW n \in M PROVE g[n] < j + 1
  <2>1. g[n] = i \/ (g[n] < i /\ g[n] \in S)
    BY Zenon, <1>9, <1>12, <1>13, <1>14
  <2> QED
    BY <2>1, <1>1, <1>3, <1>10
<1>18. ASSUME NEW k \in S, k < j + 1 PROVE \E n \in M : g[n] = k
  <2>1. k \in Nat /\ ~(i < k)
    <3>1. k \in Starts(s)
      BY Zenon DEF S
    <3> QED
      BY <3>1, <1>1, <1>3, <1>4, <1>10, <1>18
  <2>2. k = i \/ k < i
    BY <2>1, <1>1
  <2> QED
    BY Zenon, <2>2, <1>9, <1>12, <1>14
<1>19. \A n \in M : d[n] = field_at(RecordAt(s, g[n]), ColumnOf(1))
  BY Zenon, <1>5, <1>9, <1>11, <1>12, <1>14
<1>20. Reads(s, d, g, j + 1)
  BY Zenon, <1>12, <1>15, <1>16, <1>17, <1>18, <1>19 DEF Reads, S
<1>21. LinePlace(s, j + 1)
  BY <1>1, <1>3 DEF LinePlace, Eol
<1> QED
  BY Zenon, <1>11, <1>20, <1>21 DEF Scanned, j, d, x

\* The cells that were read are those of the uploads.
LEMMA Answered ==
  ASSUME query \in PoolQueries, SameColumns, NEW s, Made(s, Uploaded), NEW cs, NEW i,
         LinePlace(s, i), i > Len(s), Scanned(s, cs, i)
  PROVE  \E e \in [1..Len(cs) -> Uploaded] :
            /\ \A m, n \in 1..Len(cs) : m < n => Precedes(e[m], e[n])
            /\ \A r \in Uploaded : \E n \in 1..Len(cs) : e[n] = r
            /\ \A n \in 1..Len(cs) : cs[n] = field_at(UploadedRecord(e[n]), ColumnOf(e[n][1]))
<1> DEFINE S == Starts(s) \ {1}
           N == 1..Len(cs)
<1>1. PICK g : Copies(s, g, Uploaded)
  BY Zenon DEF Made
<1>2. /\ g \in [S -> Uploaded]
      /\ \A k, m \in S : k < m => Precedes(g[k], g[m])
      /\ \A r \in Uploaded : \E k \in S : g[k] = r
      /\ \A k \in S : RecordAt(s, k) = UploadedRecord(g[k])
  BY Zenon, <1>1 DEF Copies
<1>3. PICK h : Reads(s, cs, h, i)
  BY Zenon DEF Scanned
<1>4. /\ h \in [N -> S]
      /\ \A m, n \in N : m < n => h[m] < h[n]
      /\ \A k \in S : k < i => \E n \in N : h[n] = k
      /\ \A n \in N : cs[n] = field_at(RecordAt(s, h[n]), ColumnOf(1))
  BY Zenon, <1>3 DEF Reads
<1>5. \A k \in S : k < i
  <2>1. i \in Nat /\ Len(s) \in Nat
    BY DEF LinePlace, Made
  <2> QED
    BY <2>1 DEF Starts
<1>6. ASSUME NEW r \in Uploaded PROVE ColumnOf(r[1]) = ColumnOf(1)
  <2>1. r[1] \in 1..Len(query.files)
    BY Zenon, UploadedFacts
  <2>2. RecordAt(Text(r[1]), 1) = RecordAt(Text(1), 1)
    BY Zenon, <2>1, FileFacts
  <2> QED
    BY Zenon, <2>2 DEF ColumnOf
<1> HIDE DEF S, N
<1> DEFINE e == [n \in N |-> g[h[n]]]
<1>7. \A n \in N : h[n] \in S
  BY Zenon, <1>4
<1>8. \A k \in S : g[k] \in Uploaded
  BY Zenon, <1>2
<1>9. e \in [N -> Uploaded] /\ \A n \in N : e[n] = g[h[n]]
  BY Zenon, <1>7, <1>8
<1> HIDE DEF e
<1>10. ASSUME NEW m \in N, NEW n \in N, m < n PROVE Precedes(e[m], e[n])
  <2>1. h[m] \in S /\ h[n] \in S /\ h[m] < h[n]
    BY Zenon, <1>4, <1>7, <1>10
  <2>2. Precedes(g[h[m]], g[h[n]])
    BY Zenon, <2>1, <1>2
  <2> QED
    BY Zenon, <2>2, <1>9
<1>11. ASSUME NEW r \in Uploaded PROVE \E n \in N : e[n] = r
  <2>1. PICK k \in S : g[k] = r
    BY Zenon, <1>2
  <2>2. PICK n \in N : h[n] = k
    BY Zenon, <2>1, <1>4, <1>5
  <2>3. e[n] = r
    BY Zenon, <2>1, <2>2, <1>9
  <2> QED
    BY Zenon, <2>3
<1>12. ASSUME NEW n \in N PROVE cs[n] = field_at(UploadedRecord(e[n]), ColumnOf(e[n][1]))
  <2>1. RecordAt(s, h[n]) = UploadedRecord(e[n])
    BY Zenon, <1>2, <1>7, <1>9
  <2>2. e[n] \in Uploaded
    BY Zenon, <1>9
  <2>3. ColumnOf(e[n][1]) = ColumnOf(1)
    BY Zenon, <2>2, <1>6
  <2> QED
    BY Zenon, <2>1, <2>3, <1>4
<1> QED
  BY Zenon, <1>9, <1>10, <1>11, <1>12 DEF N

\* The loop over the files.
InFiles ==
    /\ file \in 1..(Len(query.files) + 1)
    /\ IF file = 1 THEN csv = <<>> ELSE Made(csv, Passed(file, 1))
    /\ cells = <<>>

\* The loop over the lines of a file.
InLines ==
    /\ file \in 1..Len(query.files)
    /\ cursor \in 2..(Len(Text(file)) + 2)
    /\ cursor <= Len(Text(file)) => Text(file)[cursor - 1] = "LF"
    /\ Made(csv, Passed(file, cursor))
    /\ cells = <<>>

\* The loop over the rows.
InScan ==
    /\ Made(csv, Uploaded)
    /\ col = ColumnOf(1) /\ col # NoColumn
    /\ LinePlace(csv, cursor) /\ Scanned(csv, cells, cursor)

QueryEnded ==
    IF ColumnOf(1) = NoColumn THEN doing = "failed"
    ELSE /\ InScan /\ cursor > Len(csv)
         /\ doing = "done" <=> \E n \in 1..Len(cells) : IsNumeral(cells[n])

QueryInv ==
    /\ query \in PoolQueries
    /\ SameColumns =>
        /\ doing = "files" => InFiles
        /\ doing = "lines" => InLines
        /\ doing = "scan" => InScan
        /\ doing \in {"done", "failed"} => QueryEnded

\* A query does not change.
LEMMA QuerySame ==
  ASSUME query' = query
  PROVE  /\ SameColumns' = SameColumns /\ Uploaded' = Uploaded /\ Bytes' = Bytes /\ ColumnOf(1)' = ColumnOf(1)
         /\ \A f : Text(f)' = Text(f)
         /\ \A f, i : Passed(f, i)' = Passed(f, i)
         /\ \A s, R : Made(s, R)' = Made(s, R)
         /\ \A s, cs, i : Scanned(s, cs, i)' = Scanned(s, cs, i)
<1>1. \A f : Text(f)' = Text(f)
  BY DEF Text
<1>2. SameColumns' = SameColumns
  BY Zenon, <1>1 DEF SameColumns, Readable, Text
<1>3. Uploaded' = Uploaded
  BY DEF Uploaded, Text
<1>4. Bytes' = Bytes
  BY DEF Bytes, Text
<1>5. ColumnOf(1)' = ColumnOf(1)
  BY Zenon DEF ColumnOf, Text
<1>6. \A r : UploadedRecord(r)' = UploadedRecord(r)
  BY Zenon DEF UploadedRecord, Text
<1>7. \A f, i : Passed(f, i)' = Passed(f, i)
  BY Zenon, <1>3 DEF Passed
<1>8. \A s, R : Made(s, R)' = Made(s, R)
  <2> SUFFICES ASSUME NEW s, NEW R PROVE Made(s, R)' = Made(s, R)
    BY Zenon
  <2>1. \A g : Copies(s, g, R)' <=> Copies(s, g, R)
    BY Zenon, <1>6 DEF Copies
  <2> QED
    BY Zenon, <1>1, <1>4, <2>1 DEF Made
<1>9. \A s, cs, i : Scanned(s, cs, i)' = Scanned(s, cs, i)
  <2> SUFFICES ASSUME NEW s, NEW cs, NEW i PROVE Scanned(s, cs, i)' = Scanned(s, cs, i)
    BY Zenon
  <2>1. \A h : Reads(s, cs, h, i)' <=> Reads(s, cs, h, i)
    BY Zenon, <1>5 DEF Reads
  <2> QED
    BY Zenon, <2>1 DEF Scanned
<1> QED
  BY Zenon, <1>1, <1>2, <1>3, <1>4, <1>5, <1>7, <1>8, <1>9

\* At the start of a query.
LEMMA QueryStarts ==
  ASSUME QueryInit
  PROVE  QueryInv
<1>1. query \in PoolQueries /\ doing = "files" /\ file = 1 /\ csv = <<>> /\ cells = <<>>
  BY Zenon DEF QueryInit, QueryStart
<1>2. ASSUME SameColumns PROVE InFiles
  <2>1. 1 \in 1..(Len(query.files) + 1)
    BY <1>1, <1>2, FileFacts
  <2> QED
    BY Zenon, <1>1, <2>1 DEF InFiles
<1>3. doing # "lines" /\ doing # "scan" /\ doing \notin {"done", "failed"}
  BY <1>1
<1> QED
  BY Zenon, <1>1, <1>2, <1>3 DEF QueryInv

\* What a step has to show.
LEMMA QueryStarted ==
  ASSUME QueryInv, query' = query,
         SameColumns =>
            \/ doing' = "files" /\ InFiles'
            \/ doing' = "lines" /\ InLines'
            \/ doing' = "scan" /\ InScan'
            \/ doing' \in {"done", "failed"} /\ QueryEnded'
  PROVE  QueryInv'
<1>1. SameColumns' = SameColumns
  BY Zenon, QuerySame
<1>2. query' \in PoolQueries
  BY Zenon DEF QueryInv
<1>3. /\ doing' = "files" => doing' # "lines" /\ doing' # "scan" /\ doing' \notin {"done", "failed"}
      /\ doing' = "lines" => doing' # "scan" /\ doing' \notin {"done", "failed"}
      /\ doing' = "scan" => doing' \notin {"done", "failed"}
  OBVIOUS
<1> QED
  BY Zenon, <1>1, <1>2, <1>3 DEF QueryInv

\* A file is opened, or passed over, ...
LEMMA OpenFileKeeps ==
  ASSUME QueryInv, OpenFile
  PROVE  QueryInv'
<1>1. query' = query /\ doing = "files" /\ file <= Len(query.files) /\ cells' = cells
  BY Zenon DEF OpenFile
<1>2. ASSUME SameColumns PROVE doing' = "lines" /\ InLines'
  <2>1. InFiles /\ query \in PoolQueries
    BY Zenon, <1>1, <1>2 DEF QueryInv
  <2>2. Len(query.files) \in Nat \ {0} /\ file \in Nat /\ file >= 1
    BY <2>1, <1>2, FileFacts DEF InFiles
  <2>3. file \in 1..Len(query.files)
    BY <1>1, <2>2
  <2>4. Readable(file)
    BY Zenon, <1>2, <2>3 DEF SameColumns
  <2> DEFINE t == Text(file)
             j == LineEnd(t, 1)
  <2>5. /\ csv' = IF csv = <<>> THEN Append(line(t, 1), "LF") ELSE csv
        /\ cursor' = j + 1 /\ doing' = "lines" /\ file' = file
    BY Zenon, <2>4 DEF OpenFile
  <2>6. t \in Seq(Bytes) /\ CrEnds(t) /\ Len(t) \in Nat \ {0}
    BY Zenon, <1>2, <2>1, <2>3, FileFacts
  <2>7. 1 \in 1..Len(t)
    BY <2>6
  <2>8. j \in 1..(Len(t) + 1) /\ (j <= Len(t) => t[j] = "LF")
    BY Zenon, <2>6, <2>7, LineFacts
  <2>9. Passed(file, j + 1) = Passed(file, 1)
    BY Zenon, <1>2, <2>1, <2>3, PassedHeader
  <2>10. Made(csv', Passed(file, 1))
    <3>1. CASE file = 1
      <4>1. csv' = Append(line(Text(1), 1), "LF")
        BY Zenon, <2>1, <2>5, <3>1 DEF InFiles
      <4>2. Passed(file, 1) = {}
        BY Zenon, <1>2, <2>1, <3>1, PassedNone
      <4>3. Made(Append(line(Text(1), 1), "LF"), {})
        BY Zenon, <1>2, <2>1, HeaderMade
      <4> QED
        BY Zenon, <4>1, <4>2, <4>3
    <3>2. CASE file # 1
      <4>1. Made(csv, Passed(file, 1))
        BY Zenon, <2>1, <3>2 DEF InFiles
      <4>2. csv # <<>>
        BY Zenon, <4>1 DEF Made
      <4> QED
        BY Zenon, <2>5, <4>1, <4>2
    <3> QED
      BY Zenon, <3>1, <3>2
  <2> HIDE DEF t, j
  <2>11. cursor' \in 2..(Len(t) + 2) /\ (cursor' <= Len(t) => t[cursor' - 1] = "LF")
    BY <2>5, <2>6, <2>8
  <2>12. cells' = <<>>
    BY Zenon, <1>1, <2>1 DEF InFiles
  <2>13. Made(csv', Passed(file', cursor'))
    BY Zenon, <2>5, <2>9, <2>10
  <2>14. Text(file)' = t
    BY Zenon, <1>1, <2>5 DEF Text, t
  <2>15. file' \in 1..Len(query'.files)
    BY Zenon, <1>1, <2>3, <2>5
  <2>16. Made(csv, Passed(file, cursor))'
    BY Zenon, <1>1, <2>13, QuerySame
  <2> QED
    BY Zenon, <2>5, <2>11, <2>12, <2>14, <2>15, <2>16 DEF InLines
<1> QED
  BY Zenon, <1>1, <1>2, QueryStarted

\* ... a line of it is put out, ...
LEMMA PushLineKeeps ==
  ASSUME QueryInv, PushLine
  PROVE  QueryInv'
<1> DEFINE t == Text(file)
           j == LineEnd(t, cursor)
<1>1. /\ query' = query /\ doing = "lines" /\ cursor <= Len(t) /\ cells' = cells /\ doing' = doing /\ file' = file
      /\ csv' = IF line(t, cursor) = <<>> THEN csv ELSE csv \o Append(line(t, cursor), "LF")
      /\ cursor' = j + 1
  BY Zenon DEF PushLine
<1>2. ASSUME SameColumns PROVE doing' = "lines" /\ InLines'
  <2>1. InLines /\ query \in PoolQueries
    BY Zenon, <1>1, <1>2 DEF QueryInv
  <2>2. file \in 1..Len(query.files) /\ cursor \in 2..(Len(t) + 2) /\ t[cursor - 1] = "LF" /\ Made(csv, Passed(file, cursor)) /\ cells = <<>>
    BY Zenon, <1>1, <2>1 DEF InLines
  <2>3. t \in Seq(Bytes) /\ CrEnds(t) /\ Len(t) \in Nat \ {0}
    BY Zenon, <1>2, <2>1, <2>2, FileFacts
  <2>4. cursor \in 2..Len(t) /\ cursor \in 1..Len(t)
    BY <1>1, <2>2, <2>3
  <2>5. j \in cursor..(Len(t) + 1) /\ (j <= Len(t) => t[j] = "LF")
    BY Zenon, <2>3, <2>4, LineFacts
  <2>6. Made(csv', Passed(file', cursor'))
    <3>1. Made(IF line(t, cursor) = <<>> THEN csv ELSE csv \o Append(line(t, cursor), "LF"), Passed(file, j + 1))
      BY Zenon, <1>2, <2>1, <2>2, <2>4, LineMade
    <3> QED
      BY Zenon, <3>1, <1>1
  <2>7. Text(file)' = t
    BY Zenon, <1>1 DEF Text
  <2> HIDE DEF t, j
  <2>8. cursor' \in 2..(Len(t) + 2) /\ (cursor' <= Len(t) => t[cursor' - 1] = "LF")
    BY <1>1, <2>3, <2>4, <2>5
  <2>9. Made(csv, Passed(file, cursor))'
    BY Zenon, <1>1, <2>6, QuerySame
  <2>10. file' \in 1..Len(query'.files)
    BY Zenon, <1>1, <2>2
  <2> QED
    BY Zenon, <1>1, <2>2, <2>7, <2>8, <2>9, <2>10 DEF InLines
<1> QED
  BY Zenon, <1>1, <1>2, QueryStarted

\* ... until it ends.
LEMMA EndFileKeeps ==
  ASSUME QueryInv, EndFile
  PROVE  QueryInv'
<1>1. /\ query' = query /\ doing = "lines" /\ cursor > Len(Text(file)) /\ cells' = cells /\ csv' = csv
      /\ doing' = "files" /\ file' = file + 1
  BY Zenon DEF EndFile
<1>2. ASSUME SameColumns PROVE doing' = "files" /\ InFiles'
  <2>1. InLines /\ query \in PoolQueries
    BY Zenon, <1>1, <1>2 DEF QueryInv
  <2>2. file \in 1..Len(query.files) /\ cursor \in 2..(Len(Text(file)) + 2) /\ Made(csv, Passed(file, cursor)) /\ cells = <<>>
    BY Zenon, <2>1 DEF InLines
  <2>3. Len(query.files) \in Nat /\ Len(Text(file)) \in Nat
    BY <1>2, <2>1, <2>2, FileFacts
  <2>4. cursor \in Nat /\ file + 1 \in 1..(Len(query.files) + 1) /\ file + 1 # 1
    BY <2>2, <2>3
  <2>5. Passed(file, cursor) = Passed(file + 1, 1)
    BY Zenon, <1>1, <1>2, <2>1, <2>2, <2>4, PassedFile
  <2>6. Made(csv', Passed(file', 1))
    BY Zenon, <1>1, <2>2, <2>5
  <2>7. Made(csv, Passed(file, 1))'
    BY Zenon, <1>1, <2>6, QuerySame
  <2>8. file' \in 1..(Len(query'.files) + 1) /\ file' # 1
    BY Zenon, <1>1, <2>4
  <2> QED
    BY Zenon, <1>1, <2>2, <2>7, <2>8 DEF InFiles
<1> QED
  BY Zenon, <1>1, <1>2, QueryStarted

\* The script starts with the column of the header, ...
LEMMA StartScriptKeeps ==
  ASSUME QueryInv, StartScript
  PROVE  QueryInv'
<1>1. /\ query' = query /\ doing = "files" /\ file > Len(query.files) /\ cells' = cells /\ csv' = csv
      /\ col' = header_column_index(row_at(csv, 1), query.column)
      /\ cursor' = LineEnd(csv, 1) + 1
      /\ doing' = IF csv = <<>> \/ col' = NoColumn THEN "failed" ELSE "scan"
  BY Zenon DEF StartScript
<1>2. ASSUME SameColumns
      PROVE  (doing' = "scan" /\ InScan') \/ (doing' = "failed" /\ QueryEnded')
  <2>1. InFiles /\ query \in PoolQueries
    BY Zenon, <1>1, <1>2 DEF QueryInv
  <2>2. Len(query.files) \in Nat \ {0} /\ file \in 1..(Len(query.files) + 1)
    BY Zenon, <1>2, <2>1, FileFacts DEF InFiles
  <2>3. file = Len(query.files) + 1 /\ file # 1
    BY <1>1, <2>2
  <2>4. Made(csv, Passed(file, 1)) /\ cells = <<>>
    BY Zenon, <2>1, <2>3 DEF InFiles
  <2>5. Made(csv, Uploaded)
    BY Zenon, <1>2, <2>1, <2>3, <2>4, PassedAll
  <2>6. /\ csv \in Seq(Bytes) /\ csv # <<>> /\ CrEnds(csv) /\ csv[1] \notin Eol
        /\ RecordAt(csv, 1) = RecordAt(Text(1), 1)
    BY Zenon, <2>5 DEF Made, Plain
  <2>7. 1 \in 1..Len(csv)
    BY <2>6
  <2>8. row_at(csv, 1) = RecordAt(csv, 1)
    BY Zenon, <2>6, <2>7, RowIsRecord
  <2>9. col' = ColumnOf(1)
    BY Zenon, <1>1, <2>6, <2>8 DEF ColumnOf
  <2>10. Scanned(csv', cells', cursor') /\ LinePlace(csv', cursor')
    BY Zenon, <1>1, <2>4, <2>6, ScanStarts
  <2>11. ColumnOf(1)' = ColumnOf(1) /\ Made(csv, Uploaded)' /\ Scanned(csv, cells, cursor)'
    BY Zenon, <1>1, <2>5, <2>10, QuerySame
  <2>12. CASE ColumnOf(1) = NoColumn
    BY Zenon, <1>1, <2>9, <2>11, <2>12 DEF QueryEnded
  <2>13. CASE ColumnOf(1) # NoColumn
    <3>1. LinePlace(csv, cursor)'
      BY Zenon, <2>10 DEF LinePlace
    <3> QED
      BY Zenon, <1>1, <2>6, <2>9, <2>11, <2>13, <3>1 DEF InScan
  <2> QED
    BY Zenon, <2>12, <2>13
<1> QED
  BY <1>1, <1>2, QueryStarted

\* ... passes over the ends of lines, ...
LEMMA SkipEndKeeps ==
  ASSUME QueryInv, SkipEnd
  PROVE  QueryInv'
<1>1. /\ query' = query /\ doing = "scan" /\ cursor <= Len(csv) /\ csv[cursor] \in Eol
      /\ cursor' = cursor + 1 /\ doing' = doing /\ csv' = csv /\ col' = col /\ cells' = cells
  BY Zenon DEF SkipEnd
<1>2. ASSUME SameColumns PROVE doing' = "scan" /\ InScan'
  <2>1. InScan
    BY Zenon, <1>1, <1>2 DEF QueryInv
  <2>2. /\ Made(csv, Uploaded) /\ col = ColumnOf(1) /\ col # NoColumn /\ csv \in Seq(Bytes)
        /\ LinePlace(csv, cursor) /\ Scanned(csv, cells, cursor)
    BY Zenon, <2>1 DEF InScan, Made
  <2>3. Scanned(csv', cells', cursor') /\ LinePlace(csv', cursor')
    BY Zenon, <1>1, <2>2, ScanSkips
  <2>4. ColumnOf(1)' = ColumnOf(1) /\ Made(csv, Uploaded)' /\ Scanned(csv, cells, cursor)'
    BY Zenon, <1>1, <2>2, <2>3, QuerySame
  <2>5. LinePlace(csv, cursor)'
    BY Zenon, <2>3 DEF LinePlace
  <2> QED
    BY Zenon, <1>1, <2>2, <2>4, <2>5 DEF InScan
<1> QED
  BY Zenon, <1>1, <1>2, QueryStarted

\* ... reads a cell of every row, ...
LEMMA ScanRowKeeps ==
  ASSUME QueryInv, ScanRow
  PROVE  QueryInv'
<1>1. /\ query' = query /\ doing = "scan" /\ cursor <= Len(csv) /\ csv[cursor] \notin Eol
      /\ cells' = Append(cells, field_at(row_at(csv, cursor), col))
      /\ cursor' = LineEnd(csv, cursor) + 1 /\ doing' = doing /\ csv' = csv /\ col' = col
  BY Zenon DEF ScanRow
<1>2. ASSUME SameColumns PROVE doing' = "scan" /\ InScan'
  <2>1. InScan
    BY Zenon, <1>1, <1>2 DEF QueryInv
  <2>2. /\ Made(csv, Uploaded) /\ col = ColumnOf(1) /\ col # NoColumn /\ csv \in Seq(Bytes) /\ CrEnds(csv)
        /\ LinePlace(csv, cursor) /\ Scanned(csv, cells, cursor)
    BY Zenon, <2>1 DEF InScan, Made, Plain
  <2>3. Scanned(csv', cells', cursor') /\ LinePlace(csv', cursor')
    <3>1. /\ Scanned(csv, Append(cells, field_at(row_at(csv, cursor), ColumnOf(1))), LineEnd(csv, cursor) + 1)
          /\ LinePlace(csv, LineEnd(csv, cursor) + 1)
      BY Zenon, <1>1, <2>2, ScanReads
    <3> QED
      BY Zenon, <1>1, <2>2, <3>1
  <2>4. ColumnOf(1)' = ColumnOf(1) /\ Made(csv, Uploaded)' /\ Scanned(csv, cells, cursor)'
    BY Zenon, <1>1, <2>2, <2>3, QuerySame
  <2>5. LinePlace(csv, cursor)'
    BY Zenon, <2>3 DEF LinePlace
  <2> QED
    BY Zenon, <1>1, <2>2, <2>4, <2>5 DEF InScan
<1> QED
  BY Zenon, <1>1, <1>2, QueryStarted

\* ... and answers when there is a number among them.
LEMMA ScanEndKeeps ==
  ASSUME QueryInv, ScanEnd
  PROVE  QueryInv'
<1>1. /\ query' = query /\ doing = "scan" /\ cursor > Len(csv)
      /\ doing' = IF \E n \in DOMAIN cells : IsNumeral(cells[n]) THEN "done" ELSE "failed"
      /\ cursor' = cursor /\ csv' = csv /\ col' = col /\ cells' = cells
  BY Zenon DEF ScanEnd
<1>2. ASSUME SameColumns PROVE doing' \in {"done", "failed"} /\ QueryEnded'
  <2>1. InScan
    BY Zenon, <1>1, <1>2 DEF QueryInv
  <2>2. /\ Made(csv, Uploaded) /\ col = ColumnOf(1) /\ col # NoColumn
        /\ LinePlace(csv, cursor) /\ Scanned(csv, cells, cursor)
    BY Zenon, <2>1 DEF InScan
  <2>3. ColumnOf(1)' = ColumnOf(1) /\ Made(csv, Uploaded)' /\ Scanned(csv, cells, cursor)'
    BY Zenon, <1>1, <2>2, QuerySame
  <2>4. LinePlace(csv, cursor)'
    BY Zenon, <1>1, <2>2 DEF LinePlace
  <2>5. InScan' /\ ColumnOf(1)' # NoColumn
    BY Zenon, <1>1, <2>2, <2>3, <2>4 DEF InScan
  <2>6. DOMAIN cells = 1..Len(cells)
    BY <2>2 DEF Scanned, IsSeq
  <2>7. doing' = "done" <=> \E n \in 1..Len(cells) : IsNumeral(cells[n])
    BY <1>1, <2>6
  <2>8. cursor' > Len(csv') /\ (doing' = "done" <=> \E n \in 1..Len(cells') : IsNumeral(cells'[n]))
    BY Zenon, <1>1, <2>7
  <2>9. QueryEnded'
    BY Zenon, <2>5, <2>8 DEF QueryEnded
  <2>10. doing' \in {"done", "failed"}
    BY <1>1
  <2> QED
    BY Zenon, <2>9, <2>10
<1> QED
  BY Zenon, <1>1, <1>2, QueryStarted

\* Throughout a query over files with one header, the text for the script is
\* the header and the records of the files so far, and the cells are those of
\* the rows so far.
THEOREM QueryInvariant == QuerySpec => []QueryInv
<1>1. QueryInit => QueryInv
  BY Zenon, QueryStarts
<1>2. QueryInv /\ [QueryNext]_queryVars => QueryInv'
  <2> SUFFICES ASSUME QueryInv, [QueryNext]_queryVars PROVE QueryInv'
    BY Zenon
  <2>1. CASE UNCHANGED queryVars
    <3>1. query' = query /\ doing' = doing /\ file' = file /\ cursor' = cursor /\ csv' = csv /\ col' = col /\ cells' = cells
      BY <2>1 DEF queryVars
    <3>2. /\ SameColumns' = SameColumns /\ Uploaded' = Uploaded /\ ColumnOf(1)' = ColumnOf(1)
          /\ \A f : Text(f)' = Text(f)
          /\ \A f, i : Passed(f, i)' = Passed(f, i)
          /\ \A s, R : Made(s, R)' = Made(s, R)
          /\ \A s, cs, i : Scanned(s, cs, i)' = Scanned(s, cs, i)
      BY Zenon, <3>1, QuerySame
    <3>3. InFiles' = InFiles
      BY <3>1, <3>2 DEF InFiles
    <3>4. InLines' = InLines
      BY <3>1, <3>2 DEF InLines
    <3>5. InScan' = InScan
      BY <3>1, <3>2 DEF InScan, LinePlace
    <3>6. QueryEnded' = QueryEnded
      BY Zenon, <3>1, <3>2, <3>5 DEF QueryEnded
    <3> QED
      BY Zenon, <3>1, <3>2, <3>3, <3>4, <3>5, <3>6 DEF QueryInv
  <2>2. CASE QueryNext
    BY Zenon, <2>2, OpenFileKeeps, PushLineKeeps, EndFileKeeps, StartScriptKeeps, SkipEndKeeps,
       ScanRowKeeps, ScanEndKeeps DEF QueryNext
  <2> QED
    BY Zenon, <2>1, <2>2
<1> QED
  BY <1>1, <1>2, PTL DEF QuerySpec

\* A query answers from exactly the cells that the uploads brought for its
\* column, whatever the files are.
THEOREM QueriesCorrect == QuerySpec => []QueryMeansUploads
<1>1. QueryInv => QueryMeansUploads
  <2> SUFFICES ASSUME QueryInv, doing \in {"done", "failed"}, SameColumns, ColumnOf(1) # NoColumn
               PROVE  /\ \E e \in [1..Len(cells) -> Uploaded] :
                            /\ \A m, n \in 1..Len(cells) : m < n => Precedes(e[m], e[n])
                            /\ \A r \in Uploaded : \E n \in 1..Len(cells) : e[n] = r
                            /\ \A n \in 1..Len(cells) :
                                  cells[n] = field_at(UploadedRecord(e[n]), ColumnOf(e[n][1]))
                      /\ doing = "done" <=> \E n \in 1..Len(cells) : IsNumeral(cells[n])
    BY Zenon DEF QueryMeansUploads, QueryInv, QueryEnded
  <2>1. QueryEnded /\ query \in PoolQueries
    BY Zenon DEF QueryInv
  <2>2. /\ Made(csv, Uploaded) /\ LinePlace(csv, cursor) /\ Scanned(csv, cells, cursor) /\ cursor > Len(csv)
        /\ doing = "done" <=> \E n \in 1..Len(cells) : IsNumeral(cells[n])
    BY Zenon, <2>1 DEF QueryEnded, InScan
  <2>3. \E e \in [1..Len(cells) -> Uploaded] :
           /\ \A m, n \in 1..Len(cells) : m < n => Precedes(e[m], e[n])
           /\ \A r \in Uploaded : \E n \in 1..Len(cells) : e[n] = r
           /\ \A n \in 1..Len(cells) :
                 cells[n] = field_at(UploadedRecord(e[n]), ColumnOf(e[n][1]))
    BY <2>1, <2>2, Answered
  <2> QED
    BY Zenon, <2>2, <2>3
<1> QED
  BY <1>1, QueryInvariant, PTL
=============================================================================
