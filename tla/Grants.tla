-------------------------------- MODULE Grants --------------------------------
(***************************************************************************)
(* The rights of analysts to run one DRT of one pool: grant_right and      *)
(* revoke_grant (api/admin.rs), data_query (handlers.rs), over             *)
(*                                                                         *)
(*   - the chain: a Grant PDA per analyst, created by a transaction that   *)
(*     burns one of the owner's DRTs, closed by a revocation;              *)
(*   - redb: its mirror in two tables, GRANTS_BY_POOL (the record with its *)
(*     status) and GRANTS_BY_ANALYST (an entry while the grant is active), *)
(*     written together in one transaction.                                *)
(*                                                                         *)
(* Nothing serializes the calls: a handler sends its transaction, awaits   *)
(* its finalization and then writes the mirror, while others do the same.  *)
(* data_query looks at the mirror only.                                    *)
(***************************************************************************)
EXTENDS Naturals, FiniteSets

CONSTANTS
    Analysts,
    Grantings,    \* calls of grant_right
    Revokings,    \* calls of revoke_grant
    Queries,      \* calls of data_query
    For,          \* For[r]: the analyst the call r is about
    Supply,       \* DRTs the owner holds at first
    DbMayFail     \* whether a redb write may fail (it is only logged)

Changes == Grantings \cup Revokings
Requests == Changes \cup Queries

ASSUME RequestsAssumption ==
    Grantings \cap Revokings = {} /\ Changes \cap Queries = {}
ASSUME ForAssumption == For \in [Requests -> Analysts]
ASSUME SupplyAssumption == Supply \in Nat
ASSUME DbAssumption == DbMayFail \in BOOLEAN

VARIABLES
    supply,       \* DRTs the owner still holds
    pdas,         \* the analysts whose Grant PDA exists
    tx,           \* tx[r]: what became of the transaction of r
    byPool,       \* GRANTS_BY_POOL: byPool[a], or "NoRecord"
    byAnalyst,    \* GRANTS_BY_ANALYST: the analysts with an entry
    pc,           \* pc[r]: where the request r is
    tidy          \* history: the analysts whose grantings and revokings ran
                  \* one at a time, each to its end (or to a 4xx)

vars == <<supply, pdas, tx, byPool, byAnalyst, pc, tidy>>

Terminal == {"ok", "rejected", "chain_error", "failed", "lost"}
\* The part of grant_right and revoke_grant after the checks.
Running == {"send", "confirm", "mirror", "audit"}
Labels == Terminal \cup Running \cup {"start", "run"}

Init ==
    /\ supply = Supply
    /\ pdas = {}
    /\ tx = [r \in Changes |-> "none"]
    /\ byPool = [a \in Analysts |-> "NoRecord"]
    /\ byAnalyst = {}
    /\ pc = [r \in Requests |-> "start"]
    /\ tidy = Analysts

Goto(r, label) == pc' = [pc EXCEPT ![r] = label]

\* The calls about the analyst a that are past their checks.
InFlight(a) == {r \in Changes : For[r] = a /\ pc[r] \in Running}

-----------------------------------------------------------------------------
(* Steps that grant_right and revoke_grant share.                          *)

\* Bad input, no such DRT, no wallet, not the owner, script not verified.
Reject(r) ==
    /\ pc[r] = "start"
    /\ Goto(r, "rejected")
    /\ UNCHANGED <<supply, pdas, tx, byPool, byAnalyst, tidy>>

Start(r) ==
    /\ pc[r] = "start"
    /\ Goto(r, "send")
    /\ tidy' = IF InFlight(For[r]) = {} THEN tidy ELSE tidy \ {For[r]}
    /\ UNCHANGED <<supply, pdas, tx, byPool, byAnalyst>>

Send(r) ==
    /\ pc[r] = "send"
    /\ tx' = [tx EXCEPT ![r] = "sent"]
    /\ Goto(r, "confirm")
    /\ UNCHANGED <<supply, pdas, byPool, byAnalyst, tidy>>

\* No blockhash, or the answer to sendTransaction is lost on its way back.
SendFails(r) ==
    /\ pc[r] = "send"
    /\ tx' = tx \/ tx' = [tx EXCEPT ![r] = "sent"]
    /\ Goto(r, "chain_error")
    /\ tidy' = tidy \ {For[r]}
    /\ UNCHANGED <<supply, pdas, byPool, byAnalyst>>

\* (Mutant) The status of the transaction is not looked at.
ConfirmedAny(r) ==
    /\ pc[r] = "confirm"
    /\ Goto(r, "mirror")
    /\ UNCHANGED <<supply, pdas, tx, byPool, byAnalyst, tidy>>

Confirmed(r) ==
    /\ pc[r] = "confirm"
    /\ tx[r] = "done"
    /\ Goto(r, "mirror")
    /\ UNCHANGED <<supply, pdas, tx, byPool, byAnalyst, tidy>>

\* The transaction has failed, or await_confirmation gives up.
Unconfirmed(r) ==
    /\ pc[r] = "confirm"
    /\ Goto(r, "chain_error")
    /\ tidy' = tidy \ {For[r]}
    /\ UNCHANGED <<supply, pdas, tx, byPool, byAnalyst>>

\* The handler awaits: the client may have gone.
Disconnect(r) ==
    /\ pc[r] \in {"send", "confirm", "audit", "run"}
    /\ Goto(r, "lost")
    /\ tidy' = IF pc[r] \in {"send", "confirm"} THEN tidy \ {For[r]} ELSE tidy
    /\ UNCHANGED <<supply, pdas, tx, byPool, byAnalyst>>

Audit(r) ==
    /\ pc[r] = "audit"
    /\ Goto(r, "ok")
    /\ UNCHANGED <<supply, pdas, tx, byPool, byAnalyst, tidy>>

-----------------------------------------------------------------------------
(* grant_right: a grant that the mirror shows as active is refused.        *)

GrantCheck(r) == For[r] \notin byAnalyst /\ Start(r)

UpsertGrant(r) ==
    /\ pc[r] = "mirror"
    /\ \/ /\ byPool' = [byPool EXCEPT ![For[r]] = "Active"]
          /\ byAnalyst' = byAnalyst \cup {For[r]}
          /\ tidy' = tidy
       \/ /\ DbMayFail
          /\ tidy' = tidy \ {For[r]}
          /\ UNCHANGED <<byPool, byAnalyst>>
    /\ Goto(r, "audit")
    /\ UNCHANGED <<supply, pdas, tx>>

GrantRight(r) ==
    \/ Reject(r) \/ GrantCheck(r) \/ Send(r) \/ SendFails(r)
    \/ Confirmed(r) \/ Unconfirmed(r) \/ UpsertGrant(r) \/ Audit(r)

-----------------------------------------------------------------------------
(* revoke_grant: it does not look at the mirror before.                    *)

RevokeGrantLocal(r) ==
    /\ pc[r] = "mirror"
    /\ \/ /\ byPool' = [byPool EXCEPT ![For[r]] = IF @ = "NoRecord" THEN @ ELSE "Revoked"]
          /\ byAnalyst' = byAnalyst \ {For[r]}
          /\ tidy' = tidy
       \/ /\ DbMayFail
          /\ tidy' = tidy \ {For[r]}
          /\ UNCHANGED <<byPool, byAnalyst>>
    /\ Goto(r, "audit")
    /\ UNCHANGED <<supply, pdas, tx>>

RevokeGrant(r) ==
    \/ Reject(r) \/ Start(r) \/ Send(r) \/ SendFails(r)
    \/ Confirmed(r) \/ Unconfirmed(r) \/ RevokeGrantLocal(r) \/ Audit(r)

-----------------------------------------------------------------------------
(* data_query: the check, then awaits (fetch, execution), then the answer. *)

QueryCheck(r) ==
    /\ pc[r] = "start"
    /\ For[r] \in byAnalyst
    /\ Goto(r, "run")
    /\ UNCHANGED <<supply, pdas, tx, byPool, byAnalyst, tidy>>

\* No active grant; or bad input, no such pool or DRT, which come before.
QueryRefused(r) ==
    /\ pc[r] = "start"
    /\ Goto(r, "rejected")
    /\ UNCHANGED <<supply, pdas, tx, byPool, byAnalyst, tidy>>

\* The script runs to its end, or is not fetched, traps or times out.
QueryRun(r) ==
    /\ pc[r] = "run"
    /\ \E end \in {"ok", "failed"} : Goto(r, end)
    /\ UNCHANGED <<supply, pdas, tx, byPool, byAnalyst, tidy>>

DataQuery(r) == QueryCheck(r) \/ QueryRefused(r) \/ QueryRun(r)

-----------------------------------------------------------------------------
(* The environment.                                                        *)

\* The DRT program: the PDA of a grant must not exist and costs a DRT; that
\* of a revocation must exist.  Otherwise the transaction fails.
ChainExecute(r) ==
    LET a == For[r]
        possible == IF r \in Grantings THEN a \notin pdas /\ supply >= 1 ELSE a \in pdas
    IN  /\ tx[r] = "sent"
        /\ tx' = [tx EXCEPT ![r] = IF possible THEN "done" ELSE "failed"]
        /\ supply' = IF possible /\ r \in Grantings THEN supply - 1 ELSE supply
        /\ pdas' = CASE ~possible -> pdas
                     [] possible /\ r \in Grantings -> pdas \cup {a}
                     [] OTHER -> pdas \ {a}
        /\ UNCHANGED <<byPool, byAnalyst, pc, tidy>>

\* The transaction is dropped: its blockhash expires.
ChainExpire(r) ==
    /\ tx[r] = "sent"
    /\ tx' = [tx EXCEPT ![r] = "expired"]
    /\ UNCHANGED <<supply, pdas, byPool, byAnalyst, pc, tidy>>

\* The enclave stops and is started again; the chain and redb stay.
Restart ==
    /\ \E r \in Requests : pc[r] \notin Terminal \cup {"start"}
    /\ pc' = [r \in Requests |->
                 IF pc[r] \in Terminal \cup {"start"} THEN pc[r] ELSE "lost"]
    /\ tidy' = {a \in tidy : \A r \in InFlight(a) : pc[r] = "audit"}
    /\ UNCHANGED <<supply, pdas, tx, byPool, byAnalyst>>

Next ==
    \/ \E r \in Grantings : GrantRight(r)
    \/ \E r \in Revokings : RevokeGrant(r)
    \/ \E r \in Queries : DataQuery(r)
    \/ \E r \in Requests : Disconnect(r)
    \/ \E r \in Changes : ChainExecute(r) \/ ChainExpire(r)
    \/ Restart

Spec == Init /\ [][Next]_vars

-----------------------------------------------------------------------------
(* Correctness.                                                            *)

TypeOK ==
    /\ supply \in 0..Supply
    /\ pdas \subseteq Analysts
    /\ tx \in [Changes -> {"none", "sent", "done", "failed", "expired"}]
    /\ byPool \in [Analysts -> {"NoRecord", "Active", "Revoked"}]
    /\ byAnalyst \subseteq Analysts
    /\ pc \in [Requests -> Labels]
    /\ tidy \subseteq Analysts

\* The access list of a pool and the check of data_query never disagree:
\* the entry in GRANTS_BY_ANALYST is there exactly while the record in
\* GRANTS_BY_POOL is Active (upsert_grant and revoke_grant_local write both).
TablesAgree == byAnalyst = {a \in Analysts : byPool[a] = "Active"}

\* A query runs only for an analyst to whom a grant was made on the chain,
\* and for which a DRT was burned: no failure, timeout or restart on the
\* way makes the mirror show a grant that never was.
QueriesEarned ==
    \A q \in Queries :
        pc[q] \in {"run", "ok"} => \E g \in Grantings : For[g] = For[q] /\ tx[g] = "done"

\* For an analyst whose grantings and revokings ran one at a time and to
\* their end, the mirror is the chain: after a revocation that is answered
\* 200 data_query refuses, after a granting it admits.
MirrorFollowsChain ==
    \A a \in tidy : InFlight(a) = {} => (a \in byAnalyst <=> a \in pdas)

=============================================================================
