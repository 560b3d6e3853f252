------------------------------ MODULE TxHistory -------------------------------
(***************************************************************************)
(* Transfers and the transaction history of the wallets:                   *)
(* send_transaction, list_transactions and get_transaction_status          *)
(* (api/transactions.rs) with the synchronisation on demand                *)
(* (indexer/poller.rs), over                                               *)
(*                                                                         *)
(*   - the chain: transactions, in the order in which they are confirmed;  *)
(*   - redb: TRANSACTIONS (one record per signature), WALLET_TX_INDEX (an  *)
(*     entry per address and transaction) and INDEXER_STATE (per address   *)
(*     the last signature seen and the time of the last synchronisation);  *)
(*   - the first-page cache in memory (storage/tx_cache.rs).               *)
(*                                                                         *)
(* A wallet stands for its address and a transaction for its signature.    *)
(***************************************************************************)
EXTENDS Integers, FiniteSets

CONSTANTS
    Wallets,      \* the registered wallets
    Outside,      \* an address that is no wallet's
    NoTx,         \* no signature
    Sends,        \* calls of send_transaction
    Deposits,     \* transactions that others send
    From, To,     \* From[t] pays for the transaction t, To[t] receives
    Lists,        \* clients that call list_transactions, again and again
    Statuses,     \* calls of get_transaction_status
    For,          \* For[r]: the wallet that the calls of r are about
    PageSize,     \* signatures asked for in one poll (50)
    Limit,        \* transactions in a page of the history
    DbMayFail     \* whether a redb operation may fail

Txs == Sends \cup Deposits
Readers == Lists \cup Statuses
Requests == Sends \cup Readers
Addresses == Wallets \cup {Outside}

ASSUME OutsideAssumption == Outside \notin Wallets
ASSUME CallsAssumption ==
    /\ Sends \cap Deposits = {} /\ Lists \cap Statuses = {}
    /\ Sends \cap Readers = {}
ASSUME PartiesAssumption ==
    /\ From \in [Txs -> Addresses] /\ To \in [Txs -> Addresses]
    /\ \A s \in Sends : From[s] \in Wallets
ASSUME ReadersAssumption == For \in [Readers -> Wallets]
ASSUME SizesAssumption == PageSize \in Nat \ {0} /\ Limit \in Nat \ {0}
ASSUME TxsAssumption == IsFiniteSet(Txs) /\ NoTx \notin Txs

VARIABLES
    fate,         \* fate[t]: "none", "sent", or how it executed
    at,           \* at[t]: the place of t on the chain, 0 when it has none
    accounts,     \* the addresses that have an account for the SPL token
    record,       \* TRANSACTIONS: record[t], or <<>>
    index,        \* WALLET_TX_INDEX
    lastSig,      \* INDEXER_STATE, last_sig:{address}
    cooling,      \* the wallets with a last_sync_ts within the cooldown
    page,         \* TxCache: page[w] is <<the transactions>>, or <<>>
    pc,           \* pc[p]: where the request or the indexer is
    spl,          \* the calls that send an SPL token, not native SOL
    creates,      \* the SPL sends that create the recipient's account
    target,       \* target[p]: the wallet that the poll of p is about
    until,        \* until[p]: the last_sig that the poll of p has read
    todo,         \* todo[p]: signatures of the page not yet looked at
    newest,       \* newest[p]: the first signature of the page
    got,          \* got[p]: what list_by_wallet returned, until it is cached
    missed,       \* history: <<w, t>> when a poll of w passed over t
    asOf,         \* history: asOf[p], the length of the chain when p fetched
    synced        \* history: asOf of the poll that started w's cooldown

chainVars == <<fate, at, accounts>>
dbVars == <<record, index, lastSig, cooling>>
pollVars == <<target, until, todo, newest, asOf>>
histVars == <<missed, synced>>
sendVars == <<spl, creates>>
vars == <<chainVars, dbVars, page, pc, sendVars, pollVars, got, histVars>>

\* "error": an answer other than 200, or none because the client has gone.
Done == {"ok", "error"}
Polling == {"fetch", "scan", "detail", "invalidate", "cool"}
Labels ==
    Done \cup Polling
    \cup {"start", "ata", "submit", "confirm", "store", "read", "put"}

Init ==
    /\ fate = [t \in Txs |-> "none"]
    /\ at = [t \in Txs |-> 0]
    /\ accounts = {}
    /\ record = [t \in Txs |-> <<>>]
    /\ index = {}
    /\ lastSig = [w \in Wallets |-> NoTx]
    /\ cooling = {}
    /\ page = [w \in Wallets |-> <<>>]
    /\ pc = [p \in Requests |-> "start"]
    /\ spl = {}
    /\ creates = {}
    /\ target = [p \in Readers |-> Outside]
    /\ until = [p \in Readers |-> NoTx]
    /\ todo = [p \in Readers |-> {}]
    /\ newest = [p \in Readers |-> NoTx]
    /\ got = [p \in Lists |-> {}]
    /\ missed = {}
    /\ asOf = [p \in Readers |-> 0]
    /\ synced = [w \in Wallets |-> 0]

Goto(p, label) == pc' = [pc EXCEPT ![p] = label]

\* The chain has Height transactions, at places 1 to Height.
Height == Cardinality({t \in Txs : at[t] # 0})
Place(t) == IF t = NoTx THEN 0 ELSE at[t]
Touches(t, w) == w \in {From[t], To[t]}

-----------------------------------------------------------------------------
(* redb.                                                                   *)

\* created_at of a record: the time of the call, or of the block; seconds
\* since 1970, so neither is negative.
BlockTime == 1
Now == 2

IndexKey(w, stamp, t, direction) ==
    [addr |-> w, stamp |-> stamp, sig |-> t, direction |-> direction]

\* (Mutant) The index entries are committed before the record.
UpsertTransactionTwice(t, rec, entries) ==
    /\ record' = record \/ record' = [record EXCEPT ![t] = <<rec>>]
    /\ index' = index \cup entries

\* upsert_transaction: the record and its index entries in one transaction.
\* An entry for an address that has one with the same stamp replaces it.
UpsertTransaction(t, rec, entries) ==
    /\ record' = [record EXCEPT ![t] = <<rec>>]
    /\ index' = {k \in index : \A e \in entries :
                    <<k.addr, k.stamp, k.sig>> # <<e.addr, e.stamp, e.sig>>} \cup entries

\* The key holds the eight bytes of !stamp, which for a stamp of 0 or more
\* (and less than 2^56) begin with 255: no UTF-8 text, so the key reads "".
KeyIsText(k) == k.stamp < 0

\* list_by_wallet for the first page: from the newest key on, until one does
\* not begin with the address, at most limit of them.
ListByWallet(w, limit) ==
    LET mine == {k \in index : k.addr = w}
        Before(j, k) == j.stamp > k.stamp
        Reached(k) == \A j \in mine : Before(k, j) \/ KeyIsText(j)
    IN  {k.sig : k \in {k \in mine :
            Reached(k) /\ Cardinality({j \in mine : Before(j, k)}) < limit}}

\* lookup_wallet_by_address, for an address that may be no wallet's.
LookupWallet(a) == IF a \in Wallets THEN a ELSE Outside

Invalidate(w) == page' = IF w \in Wallets THEN [page EXCEPT ![w] = <<>>] ELSE page

-----------------------------------------------------------------------------
(* send_transaction.                                                       *)

\* No such wallet, not the owner's or not Active; a bad recipient, amount,
\* token or key file.
SendReject(s) ==
    /\ pc[s] = "start"
    /\ Goto(s, "error")
    /\ UNCHANGED <<chainVars, dbVars, page, sendVars, pollVars, got, histVars>>

SendCheck(s) ==
    /\ pc[s] = "start"
    /\ \/ Goto(s, "submit") /\ spl' = spl
       \/ Goto(s, "ata") /\ spl' = spl \cup {s}
    /\ UNCHANGED <<chainVars, dbVars, page, creates, pollVars, got, histVars>>

\* send_spl_token asks for the recipient's token account; an error of the
\* RPC counts as "there is none".
SendLookAta(s) ==
    /\ pc[s] = "ata"
    /\ creates' = creates \cup {s} \/ (To[s] \in accounts /\ creates' = creates)
    /\ Goto(s, "submit")
    /\ UNCHANGED <<chainVars, dbVars, page, spl, pollVars, got, histVars>>

SendSubmit(s) ==
    /\ pc[s] = "submit"
    /\ fate' = [fate EXCEPT ![s] = "sent"]
    /\ Goto(s, "confirm")
    /\ UNCHANGED <<at, accounts, dbVars, page, sendVars, pollVars, got, histVars>>

\* No blockhash, or sendTransaction fails; its answer may be lost after the
\* transaction was received.
SendFails(s) ==
    /\ pc[s] = "submit"
    /\ fate' = fate \/ fate' = [fate EXCEPT ![s] = "sent"]
    /\ Goto(s, "error")
    /\ UNCHANGED <<at, accounts, dbVars, page, sendVars, pollVars, got, histVars>>

\* (Mutant) The confirmation does not look at status.err.
SendConfirmedAnyway(s) ==
    /\ pc[s] = "confirm"
    /\ at[s] # 0
    /\ Goto(s, "store")
    /\ UNCHANGED <<chainVars, dbVars, page, sendVars, pollVars, got, histVars>>

SendConfirmed(s) ==
    /\ pc[s] = "confirm"
    /\ fate[s] = "Confirmed"
    /\ Goto(s, "store")
    /\ UNCHANGED <<chainVars, dbVars, page, sendVars, pollVars, got, histVars>>

\* The transaction has failed, or 30 s have passed.
SendUnconfirmed(s) ==
    /\ pc[s] = "confirm"
    /\ Goto(s, "error")
    /\ UNCHANGED <<chainVars, dbVars, page, sendVars, pollVars, got, histVars>>

\* Best-effort: the record, with an entry for both parties (of a transfer to
\* oneself the second replaces the first), then the sender's page.
SendStore(s) ==
    /\ pc[s] = "store"
    /\ \/ UpsertTransaction(s,
            [wallet |-> From[s], other |-> Outside, status |-> "Confirmed",
             token |-> IF s \in spl THEN "spl" ELSE "native"],
            {IndexKey(To[s], Now, s, "received")}
            \cup IF From[s] = To[s] THEN {} ELSE {IndexKey(From[s], Now, s, "sent")})
       \/ DbMayFail /\ UNCHANGED <<record, index>>
    /\ Invalidate(From[s])
    /\ Goto(s, "ok")
    /\ UNCHANGED <<chainVars, lastSig, cooling, sendVars, pollVars, got, histVars>>

SendTransaction(s) ==
    \/ SendReject(s) \/ SendCheck(s) \/ SendLookAta(s) \/ SendSubmit(s) \/ SendFails(s)
    \/ SendConfirmed(s) \/ SendUnconfirmed(s) \/ SendStore(s)

-----------------------------------------------------------------------------
(* poll_address.                                                           *)

\* The poll of w begins with the checkpoint, and then awaits the RPC.
StartPoll(p, w) ==
    /\ target' = [target EXCEPT ![p] = w]
    /\ until' = [until EXCEPT ![p] = lastSig[w]]
    /\ Goto(p, "fetch")
    /\ UNCHANGED <<todo, newest, asOf>>

\* The poll returns, and its locals with it.
EndPoll(p, label) ==
    /\ target' = [target EXCEPT ![p] = Outside]
    /\ until' = [until EXCEPT ![p] = NoTx]
    /\ todo' = [todo EXCEPT ![p] = {}]
    /\ newest' = [newest EXCEPT ![p] = NoTx]
    /\ asOf' = [asOf EXCEPT ![p] = 0]
    /\ Goto(p, label)

\* An error ends a poll; the reader logs it and goes on.
PollFails(p) == EndPoll(p, "read")

Newer(w, sig) == {t \in Txs : at[t] > Place(sig) /\ Touches(t, w)}

\* getSignaturesForAddress: what is newer than until, newest first, at most
\* PageSize of them.
Page(w, sig) ==
    {t \in Newer(w, sig) : Cardinality({u \in Newer(w, sig) : at[u] > at[t]}) < PageSize}

IsNewest(t, S) == t \in S /\ \A u \in S : at[u] <= at[t]

FetchSigs(p) ==
    LET w == target[p]
        sigs == Page(w, until[p])
    IN  /\ pc[p] = "fetch"
        /\ todo' = [todo EXCEPT ![p] = sigs]
        /\ \E t \in sigs : IsNewest(t, sigs) /\ newest' = [newest EXCEPT ![p] = t]
        /\ asOf' = [asOf EXCEPT ![p] = Height]
        /\ missed' = missed \cup {<<w, t>> : t \in Newer(w, until[p]) \ sigs}
        /\ Goto(p, "scan")
        /\ UNCHANGED <<chainVars, dbVars, page, sendVars, target, until, got, synced>>

\* Nothing new: Ok at once, and the cached page stays.
FetchNothing(p) ==
    /\ pc[p] = "fetch"
    /\ Newer(target[p], until[p]) = {}
    /\ asOf' = [asOf EXCEPT ![p] = Height]
    /\ Goto(p, "cool")
    /\ UNCHANGED <<chainVars, dbVars, page, sendVars, target, until, todo, newest, got, histVars>>

\* (Mutant) The cooldown starts whether or not the poll succeeded.
FetchFailsCooling(p) ==
    /\ pc[p] = "fetch"
    /\ asOf' = [asOf EXCEPT ![p] = Height]
    /\ Goto(p, "cool")
    /\ UNCHANGED <<chainVars, dbVars, page, sendVars, target, until, todo, newest, got,
                   histVars>>

FetchFails(p) ==
    /\ pc[p] = "fetch"
    /\ PollFails(p)
    /\ UNCHANGED <<chainVars, dbVars, page, sendVars, got, histVars>>

\* The next signature: one that has a record is skipped.
Scan(p) ==
    /\ pc[p] = "scan"
    /\ \E t \in todo[p] :
        /\ IsNewest(t, todo[p])
        /\ IF record[t] # <<>>
           THEN todo' = [todo EXCEPT ![p] = @ \ {t}] /\ pc' = pc
           ELSE Goto(p, "detail") /\ todo' = todo
    /\ UNCHANGED <<chainVars, dbVars, page, sendVars, target, until, newest, asOf, got,
                   histVars>>

\* (Mutant) The status of the record ignores the err of the signature.
PollRecordConfirmed(w, t) ==
    [wallet |-> w, status |-> "Confirmed", token |-> "native",
     other |-> IF From[t] = w THEN To[t] ELSE From[t]]

\* What the poll of w records of t: the wallet of the other party if it is
\* registered, and every transfer as native.
PollRecord(w, t) ==
    [wallet |-> w, status |-> fate[t], token |-> "native",
     other |-> LookupWallet(IF From[t] = w THEN To[t] ELSE From[t])]

\* After getTransaction, which is awaited: the record with an entry for w.
PollStore(p) ==
    LET w == target[p]
    IN  /\ pc[p] = "detail"
        /\ \E t \in todo[p] :
            /\ IsNewest(t, todo[p])
            /\ UpsertTransaction(t, PollRecord(w, t),
                 {IndexKey(w, BlockTime, t, IF From[t] = w THEN "sent" ELSE "received")})
            /\ todo' = [todo EXCEPT ![p] = @ \ {t}]
        /\ Goto(p, "scan")
        /\ UNCHANGED <<chainVars, lastSig, cooling, page, sendVars, target, until, newest, asOf,
                       got, histVars>>

\* No detail, or the record is not stored: logged, and passed over.
PollStoreFails(p) ==
    /\ pc[p] = "detail"
    /\ \E t \in todo[p] :
        /\ IsNewest(t, todo[p])
        /\ missed' = missed \cup {<<target[p], t>>}
        /\ todo' = [todo EXCEPT ![p] = @ \ {t}]
    /\ Goto(p, "scan")
    /\ UNCHANGED <<chainVars, dbVars, page, sendVars, target, until, newest, asOf, got,
                   synced>>

\* (Mutant) The checkpoint is written before the page is gone through.
CheckpointFirst(p) ==
    /\ pc[p] = "scan"
    /\ newest[p] # NoTx
    /\ lastSig' = [lastSig EXCEPT ![target[p]] = newest[p]]
    /\ Goto(p, IF todo[p] = {} THEN "invalidate" ELSE "scan")
    /\ UNCHANGED <<chainVars, record, index, cooling, page, sendVars, pollVars, got, histVars>>

\* The page is gone through.
Checkpoint(p) ==
    /\ pc[p] = "scan"
    /\ todo[p] = {}
    /\ lastSig' = [lastSig EXCEPT ![target[p]] = newest[p]]
    /\ Goto(p, "invalidate")
    /\ UNCHANGED <<chainVars, record, index, cooling, page, sendVars, pollVars, got, histVars>>

\* A redb error in get_transaction or in set_indexer_state.
PollDbFails(p) ==
    /\ DbMayFail
    /\ pc[p] = "scan"
    /\ PollFails(p)
    /\ UNCHANGED <<chainVars, dbVars, page, sendVars, got, histVars>>

PollInvalidate(p) ==
    /\ pc[p] = "invalidate"
    /\ Invalidate(target[p])
    /\ Goto(p, "cool")
    /\ UNCHANGED <<chainVars, dbVars, sendVars, pollVars, got, histVars>>

PollAddress(p) ==
    \/ FetchSigs(p) \/ FetchNothing(p) \/ FetchFails(p) \/ Scan(p) \/ PollStore(p)
    \/ PollStoreFails(p) \/ Checkpoint(p) \/ PollDbFails(p) \/ PollInvalidate(p)

-----------------------------------------------------------------------------
(* list_transactions and get_transaction_status.                           *)

\* No such wallet, not the owner's or not Active.
ReadReject(p) ==
    /\ pc[p] = "start"
    /\ Goto(p, "error")
    /\ UNCHANGED <<chainVars, dbVars, page, sendVars, pollVars, got, histVars>>

ListCached(p) ==
    /\ pc[p] = "start"
    /\ page[For[p]] # <<>>
    /\ Goto(p, "ok")
    /\ UNCHANGED <<chainVars, dbVars, page, sendVars, pollVars, got, histVars>>

\* sync_address_once: no poll within the cooldown of the last one.
Sync(p) ==
    /\ pc[p] = "start"
    /\ p \in Lists => page[For[p]] = <<>>
    /\ IF For[p] \in cooling
       THEN Goto(p, "read") /\ UNCHANGED pollVars
       ELSE StartPoll(p, For[p])
    /\ UNCHANGED <<chainVars, dbVars, page, sendVars, got, histVars>>

SyncDone(p) ==
    LET w == target[p]
    IN  /\ pc[p] = "cool"
        /\ \/ /\ cooling' = cooling \cup {w}
              /\ synced' = [synced EXCEPT ![w] = asOf[p]]
           \/ DbMayFail /\ UNCHANGED <<cooling, synced>>
        /\ EndPoll(p, "read")
        /\ UNCHANGED <<chainVars, record, index, lastSig, page, sendVars, got, missed>>

ListRead(p) ==
    /\ pc[p] = "read"
    /\ got' = [got EXCEPT ![p] = ListByWallet(For[p], Limit)]
    /\ Goto(p, "put")
    /\ UNCHANGED <<chainVars, dbVars, page, sendVars, pollVars, histVars>>

ListPut(p) ==
    /\ pc[p] = "put"
    /\ page' = [page EXCEPT ![For[p]] = <<got[p]>>]
    /\ got' = [got EXCEPT ![p] = {}]
    /\ Goto(p, "ok")
    /\ UNCHANGED <<chainVars, dbVars, sendVars, pollVars, histVars>>

\* A record of another wallet counts as none.
StatusRead(p) ==
    /\ pc[p] = "read"
    /\ \E t \in Txs :
        Goto(p, IF record[t] # <<>> /\ record[t][1].wallet = For[p] THEN "ok" ELSE "error")
    /\ UNCHANGED <<chainVars, dbVars, page, sendVars, pollVars, got, histVars>>

ReadFails(p) ==
    /\ DbMayFail
    /\ pc[p] = "read"
    /\ Goto(p, "error")
    /\ UNCHANGED <<chainVars, dbVars, page, sendVars, pollVars, got, histVars>>

ListTransactions(p) ==
    \/ ReadReject(p) \/ ListCached(p) \/ Sync(p) \/ SyncDone(p)
    \/ ListRead(p) \/ ReadFails(p) \/ ListPut(p)

GetTransactionStatus(p) ==
    ReadReject(p) \/ Sync(p) \/ SyncDone(p) \/ StatusRead(p) \/ ReadFails(p)

-----------------------------------------------------------------------------
(* The environment.                                                        *)

\* A client that has its answer makes the next call.
AskAgain(p) ==
    /\ pc[p] \in Done
    /\ Goto(p, "start")
    /\ UNCHANGED <<chainVars, dbVars, page, sendVars, pollVars, got, histVars>>

\* A transfer succeeds or fails, or stays "sent" for ever when its blockhash
\* expires first; one that creates a token account fails when
\* there is one, and one of SPL tokens that does not when there is none.
ChainExecute(t) ==
    \E outcome \in {"Confirmed", "Failed"} :
        /\ fate[t] = IF t \in Sends THEN "sent" ELSE "none"
        /\ t \in spl /\ outcome = "Confirmed" => (t \in creates <=> To[t] \notin accounts)
        /\ fate' = [fate EXCEPT ![t] = outcome]
        /\ at' = [at EXCEPT ![t] = Height + 1]
        /\ \/ accounts' = accounts
           \/ accounts' = accounts \cup {To[t]} /\ outcome = "Confirmed" /\ t \in spl \cup Deposits
        /\ t \in spl /\ outcome = "Confirmed" => To[t] \in accounts'
        /\ UNCHANGED <<dbVars, page, pc, sendVars, pollVars, got, histVars>>

\* SYNC_COOLDOWN_SECS have passed.
CooldownEnds(w) ==
    /\ w \in cooling
    /\ cooling' = cooling \ {w}
    /\ UNCHANGED <<chainVars, record, index, lastSig, page, pc, sendVars, pollVars, got, histVars>>

\* The time to live of the page has passed, or the cache is full.
PageExpires(w) ==
    /\ page[w] # <<>>
    /\ page' = [page EXCEPT ![w] = <<>>]
    /\ UNCHANGED <<chainVars, dbVars, pc, sendVars, pollVars, got, histVars>>

\* A handler awaits: its client may have gone.
Disconnect(r) ==
    /\ pc[r] \in {"ata", "submit", "confirm", "fetch", "detail"}
    /\ IF r \in Readers
       THEN EndPoll(r, "error")
       ELSE Goto(r, "error") /\ UNCHANGED pollVars
    /\ UNCHANGED <<chainVars, dbVars, page, sendVars, got, histVars>>

\* The enclave stops and is started again: the chain and redb stay.
Restart ==
    /\ \E p \in Requests : pc[p] \notin Done \cup {"start"}
    /\ pc' = [p \in Requests |->
                IF pc[p] \in Done \cup {"start"} THEN pc[p] ELSE "error"]
    /\ page' = [w \in Wallets |-> <<>>]
    /\ got' = [p \in Lists |-> {}]
    /\ target' = [p \in Readers |-> Outside]
    /\ until' = [p \in Readers |-> NoTx]
    /\ todo' = [p \in Readers |-> {}]
    /\ newest' = [p \in Readers |-> NoTx]
    /\ asOf' = [p \in Readers |-> 0]
    /\ UNCHANGED <<chainVars, dbVars, sendVars, histVars>>

Next ==
    \/ \E s \in Sends : SendTransaction(s)
    \/ \E p \in Lists : ListTransactions(p) \/ AskAgain(p)
    \/ \E p \in Statuses : GetTransactionStatus(p)
    \/ \E p \in Readers : PollAddress(p)
    \/ \E t \in Txs : ChainExecute(t)
    \/ \E w \in Wallets : CooldownEnds(w) \/ PageExpires(w)
    \/ \E r \in Requests : Disconnect(r)
    \/ Restart

Spec == Init /\ [][Next]_vars

-----------------------------------------------------------------------------
(* Correctness.                                                            *)

Records ==
    [wallet : Wallets, other : Addresses, status : {"Confirmed", "Failed"},
     token : {"native", "spl"}]
Keys == [addr : Addresses, stamp : {BlockTime, Now}, sig : Txs, direction : {"sent", "received"}]

TypeOK ==
    /\ fate \in [Txs -> {"none", "sent", "Confirmed", "Failed"}]
    /\ at \in [Txs -> Nat]
    /\ accounts \subseteq Addresses
    /\ record \in [Txs -> {<<>>} \cup {<<r>> : r \in Records}]
    /\ index \subseteq Keys
    /\ lastSig \in [Wallets -> Txs \cup {NoTx}]
    /\ cooling \subseteq Wallets
    /\ page \in [Wallets -> {<<>>} \cup {<<S>> : S \in SUBSET Txs}]
    /\ pc \in [Requests -> Labels]
    /\ creates \subseteq spl /\ spl \subseteq Sends
    /\ target \in [Readers -> Addresses]
    /\ until \in [Readers -> Txs \cup {NoTx}]
    /\ todo \in [Readers -> SUBSET Txs]
    /\ newest \in [Readers -> Txs \cup {NoTx}]
    /\ got \in [Lists -> SUBSET Txs]
    /\ missed \subseteq Wallets \X Txs
    /\ asOf \in [Readers -> Nat]
    /\ synced \in [Wallets -> Nat]

\* Whoever recorded a transaction, and however the calls overlapped, timed
\* out or were cut off: a record tells what the chain did (a failed or a
\* dropped transfer is never recorded as Confirmed) and belongs to a party.
RecordsTruthful ==
    \A t \in Txs : record[t] # <<>> =>
        /\ record[t][1].status = fate[t]
        /\ Touches(t, record[t][1].wallet)

\* An index entry has a record behind it, and shows a transfer between two
\* addresses as "sent" to its payer only; the wallet of a record has an entry.
IndexMatchesRecords ==
    /\ \A k \in index :
        /\ record[k.sig] # <<>> /\ Touches(k.sig, k.addr)
        /\ From[k.sig] # To[k.sig] => (k.direction = "sent" <=> k.addr = From[k.sig])
    /\ \A t \in Txs : record[t] # <<>> =>
        \E k \in index : k.sig = t /\ k.addr = record[t][1].wallet

\* Everything of w up to the place n of the chain has a record, or a poll of
\* w has reported that it passes it over.
Covered(w, n) ==
    \A t \in Txs : at[t] \in 1..n /\ Touches(t, w) => record[t] # <<>> \/ <<w, t>> \in missed

\* The checkpoint of a wallet never passes a transaction in silence: one
\* that is neither recorded nor passed over (because its detail could not be
\* fetched, or the page was full) is asked for again by the next poll,
\* whatever crashed or ran at the same time.
CheckpointCovers == \A w \in Wallets : Covered(w, Place(lastSig[w]))

\* The cooldown only skips polls that a successful poll stands in for: what
\* was on the chain when that poll fetched its page is covered.
CooldownEarned == \A w \in cooling : Covered(w, synced[w])

\* A transfer answered with 200 was executed, also when its decision to create
\* the recipient's token account was out of date by then.
OkExecuted == \A s \in Sends : pc[s] \in {"store", "ok"} => fate[s] = "Confirmed"

\* "List transactions for a wallet address" (list_by_wallet), "transaction
\* history for a wallet" (list_transactions): what fits a page is on it.
HistoryListed ==
    \A w \in Wallets :
        LET mine == {k.sig : k \in {k \in index : k.addr = w}}
        IN  Cardinality({k \in index : k.addr = w}) <= Limit => ListByWallet(w, Limit) = mine

=============================================================================
