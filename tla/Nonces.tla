-------------------------------- MODULE Nonces --------------------------------
(***************************************************************************)
(* The table of nonces against replays (tx_database.rs) and the background *)
(* task that purges it (main.rs).                                          *)
(*                                                                         *)
(* A recording is one write transaction and reads the clock inside it.  A  *)
(* purge computes its cutoff before it asks for its write transaction:     *)
(* recordings come in between, and the transaction may fail or the process *)
(* may stop.  The table outlives the process.  The clock does not go back. *)
(***************************************************************************)
EXTENDS Integers, Sequences

CONSTANTS
    NonceIds,
    MaxAge,         \* NONCE_MAX_AGE_SECS
    LastSecond      \* bound of the clock

ASSUME NoncesAssumption == MaxAge \in Nat /\ LastSecond \in Nat

VARIABLES
    now,            \* the clock, in seconds
    nonces,         \* the table: [nonce, at]
    fresh,          \* the recordings that were answered "new", in their order
    cutoff,         \* {} or the cutoff of the purge that is under way
    swept           \* {} or the cutoff of the last purge that was committed

nonceVars == <<now, nonces, fresh, cutoff, swept>>

NoncesInit ==
    /\ now = 0
    /\ nonces = {}
    /\ fresh = <<>>
    /\ cutoff = {}
    /\ swept = {}

Second ==
    /\ now < LastSecond
    /\ now' = now + 1
    /\ UNCHANGED <<nonces, fresh, cutoff, swept>>

\* A nonce that is in the table is answered "not new", whatever its age.
record_nonce(n) ==
    /\ IF \E m \in nonces : m.nonce = n
       THEN UNCHANGED <<nonces, fresh>>
       ELSE /\ nonces' = nonces \cup {[nonce |-> n, at |-> now]}
            /\ fresh' = Append(fresh, [nonce |-> n, at |-> now])
    /\ UNCHANGED <<now, cutoff, swept>>

\* (Mutant) A nonce is removed in the last second of its age.
PurgeBeginEarly ==
    /\ cutoff = {}
    /\ cutoff' = {now - MaxAge + 1}
    /\ UNCHANGED <<now, nonces, fresh, swept>>

PurgeBegin ==
    /\ cutoff = {}
    /\ cutoff' = {now - MaxAge}
    /\ UNCHANGED <<now, nonces, fresh, swept>>

PurgeCommit ==
    /\ cutoff # {}
    /\ nonces' = {m \in nonces : \A c \in cutoff : ~(m.at < c)}
    /\ swept' = cutoff
    /\ cutoff' = {}
    /\ UNCHANGED <<now, fresh>>

\* The transaction fails, or the process stops before it is committed.
PurgeFails ==
    /\ cutoff # {}
    /\ cutoff' = {}
    /\ UNCHANGED <<now, nonces, fresh, swept>>

NoncesNext ==
    \/ Second
    \/ \E n \in NonceIds : record_nonce(n)
    \/ PurgeBegin
    \/ PurgeCommit
    \/ PurgeFails

NoncesSpec == NoncesInit /\ [][NoncesNext]_nonceVars

-----------------------------------------------------------------------------

\* A nonce is answered "new" a second time only when more than MaxAge has
\* passed since the first, whenever purges ran, failed or were overtaken by
\* recordings in between; and nothing is left that the last purge was to
\* remove.
NonceOnce ==
    /\ \A i, j \in DOMAIN fresh :
          i < j /\ fresh[i].nonce = fresh[j].nonce => fresh[j].at - fresh[i].at > MaxAge
    /\ \A m \in nonces, c \in swept : m.at >= c
=============================================================================
