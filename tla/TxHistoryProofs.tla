--------------------------- MODULE TxHistoryProofs ----------------------------
(***************************************************************************)
(* Proofs about TxHistory, for any wallets, transfers, calls and page size:*)
(* what the index, the records and the answers say is what the chain did,  *)
(* and neither the checkpoint nor the cooldown of a wallet passes over a   *)
(* transaction in silence.                                                 *)
(*                                                                         *)
(* CheckpointCovers is not inductive: a poll in flight moves the           *)
(* checkpoint to a signature it has picked several steps before.  PollOK   *)
(* says what such a poll knows: what its page does not hold any more has a *)
(* record or was passed over, up to the height it has seen.  It survives   *)
(* the steps of others because records stay, and because a new transaction *)
(* gets a place above every height that was seen (Grow).                   *)
(***************************************************************************)
EXTENDS TxHistory, FiniteSetTheorems, TLAPS

Executed == {"Confirmed", "Failed"}

\* Signatures a poll has read were on the chain.
OnChain(sig) == sig = NoTx \/ at[sig] # 0

ChainOK(t) ==
    /\ at[t] # 0 <=> fate[t] \in Executed
    /\ at[t] <= Height

SendOK(s) ==
    /\ pc[s] \in {"start", "ata", "submit"} => fate[s] = "none"
    /\ pc[s] \in {"store", "ok"} => fate[s] = "Confirmed"
    /\ pc[s] = "ata" => s \in spl

\* Everything of w up to the place n is covered, or still in S.
CoveredBut(w, n, S) ==
    \A t \in Txs : at[t] \in 1..n /\ Touches(t, w) =>
        record[t] # <<>> \/ <<w, t>> \in missed \/ t \in S

PollOK(p) ==
    pc[p] \in Polling =>
        /\ target[p] \in Wallets
        /\ OnChain(until[p])
        /\ pc[p] # "fetch" => asOf[p] <= Height
        /\ pc[p] = "fetch" => Covered(target[p], Place(until[p]))
        /\ pc[p] \in {"scan", "detail"} =>
            /\ newest[p] \in Txs /\ at[newest[p]] # 0 /\ at[newest[p]] <= asOf[p]
            /\ \A t \in todo[p] : at[t] # 0 /\ Touches(t, target[p])
            /\ CoveredBut(target[p], asOf[p], todo[p])
        /\ pc[p] \in {"invalidate", "cool"} => Covered(target[p], asOf[p])

WalletOK(w) ==
    /\ OnChain(lastSig[w])
    /\ synced[w] <= Height
    /\ Covered(w, Place(lastSig[w]))
    /\ w \in cooling => Covered(w, synced[w])

IInv ==
    /\ TypeOK
    /\ \A t \in Txs : ChainOK(t)
    /\ \A s \in Sends : SendOK(s)
    /\ RecordsTruthful
    /\ IndexMatchesRecords
    /\ \A p \in Readers : PollOK(p)
    /\ \A w \in Wallets : WalletOK(w)

\* What no step undoes.
Grow ==
    /\ Height <= Height'
    /\ \A t \in Txs :
        /\ record[t] # <<>> => record'[t] # <<>>
        /\ at'[t] = at[t] \/ at'[t] > Height
        /\ at[t] # 0 => at'[t] = at[t]
    /\ missed \subseteq missed'

-----------------------------------------------------------------------------
(* Order and tables.                                                       *)

\* Places on the chain are ordered like natural numbers: reflexivity.
LEMMA LeqRefl == \A a \in Nat : a <= a
OBVIOUS

\* Places on the chain are ordered like natural numbers: transitivity.
LEMMA LeqTrans == \A a, b, c \in Nat : a <= b /\ b <= c => a <= c
OBVIOUS

\* A place is either up to a checkpoint or after it.
LEMMA LeqOrOver == \A a, b \in Nat : (a <= b \/ a > b) /\ ~(a <= b /\ a > b)
OBVIOUS

\* A place after a checkpoint is a place.
LEMMA OverZero == \A a, b \in Nat : a > b => a # 0
OBVIOUS

\* The place that ChainExecute gives is new.
LEMMA NextPlace ==
    \A n \in Nat : n + 1 \in Nat /\ n <= n + 1 /\ n + 1 # 0 /\ n + 1 > n
OBVIOUS

\* Before the first transaction the height is 0.
LEMMA ZeroLeq == 0 \in Nat /\ \A n \in Nat : 0 <= n
OBVIOUS

\* The places up to b.
LEMMA UpTo == \A b \in Nat : \A a : a \in 1..b <=> a \in Nat /\ a # 0 /\ a <= b
OBVIOUS

\* A row that is there holds one record.
LEMMA OneRecord == \A r : <<r>> # <<>> /\ <<r>>[1] = r
OBVIOUS

MissedT == missed \subseteq Wallets \X Txs

\* What a poll passes over is a transaction of a wallet.
LEMMA PassedOver ==
    ASSUME MissedT, NEW w \in Wallets, NEW S, S \subseteq Txs,
           missed' = missed \cup {<<w, t>> : t \in S}
    PROVE  MissedT'
BY DEF MissedT

\* It is one when its detail could not be fetched, too.
LEMMA PassedOverOne ==
    ASSUME MissedT, NEW w \in Wallets, NEW t \in Txs,
           missed' = missed \cup {<<w, t>>}
    PROVE  MissedT'
BY DEF MissedT

\* A record says Confirmed or Failed.
LEMMA RecordStatus ==
    ASSUME record \in [Txs -> {<<>>} \cup {<<r>> : r \in Records}],
           NEW t \in Txs, record[t] # <<>>
    PROVE  record[t][1].status \in Executed
BY DEF Records, Executed

\* What send_transaction records of s, and the index entries it writes.
SendRecord(s) ==
    [wallet |-> From[s], other |-> Outside, status |-> "Confirmed",
     token |-> IF s \in spl THEN "spl" ELSE "native"]
SendEntries(s) ==
    {IndexKey(To[s], Now, s, "received")}
    \cup IF From[s] = To[s] THEN {} ELSE {IndexKey(From[s], Now, s, "sent")}
PollEntry(w, t) == IndexKey(w, BlockTime, t, IF From[t] = w THEN "sent" ELSE "received")

\* They have the types of the tables.
LEMMA SendEntriesType ==
    ASSUME NEW s \in Sends
    PROVE  SendRecord(s) \in Records /\ SendEntries(s) \subseteq Keys
<1>1. s \in Txs
  BY DEF Txs
<1>2. SendRecord(s) \in Records
  BY <1>1, PartiesAssumption DEF SendRecord, Records, Addresses
<1>3. SendEntries(s) \subseteq Keys
  BY <1>1, PartiesAssumption DEF SendEntries, Keys, IndexKey
<1> QED
  BY <1>2, <1>3

\* So has the entry of a poll.
LEMMA PollEntryType ==
    ASSUME NEW w \in Wallets, NEW t \in Txs
    PROVE  PollEntry(w, t) \in Keys
BY DEF PollEntry, IndexKey, Keys, Addresses

-----------------------------------------------------------------------------
(* The height of the chain.                                                *)

\* The number of transactions on the chain is a natural number.
LEMMA HeightType == Height \in Nat
<1>1. IsFiniteSet({t \in Txs : at[t] # 0})
  BY TxsAssumption, FS_Subset
<1> QED
  BY <1>1, FS_CardinalityType DEF Height

\* It is one after a step, too.
LEMMA HeightTypeNext == Height' \in Nat
<1>1. IsFiniteSet({t \in Txs : at'[t] # 0})
  BY TxsAssumption, FS_Subset
<1> QED
  BY <1>1, FS_CardinalityType DEF Height

\* Executing a transaction that has no place adds one to the height.
LEMMA HeightGrows ==
    ASSUME at \in [Txs -> Nat], NEW t \in Txs, at[t] = 0,
           at' = [at EXCEPT ![t] = Height + 1]
    PROVE  Height' = Height + 1
<1> DEFINE S == {u \in Txs : at[u] # 0}
<1>1. IsFiniteSet(S)
  BY TxsAssumption, FS_Subset
<1>2. {u \in Txs : at'[u] # 0} = S \cup {t}
  BY HeightType
<1>3. Cardinality(S \cup {t}) = Cardinality(S) + 1
  BY Zenon, <1>1, FS_AddElement
<1> QED
  BY <1>2, <1>3 DEF Height

\* The invariant holds at the start: nothing is on the chain or in redb.
LEMMA InitInv == Init => IInv
<1> SUFFICES ASSUME Init
             PROVE  IInv
  BY Zenon
<1>1. TypeOK
  BY Zenon DEF Init, TypeOK, Labels, Addresses
<1>2. \A t \in Txs : ChainOK(t)
  BY HeightType DEF Init, ChainOK, Executed
<1>3. \A s \in Sends : SendOK(s)
  BY Zenon DEF Init, SendOK, Txs, Requests
<1>4. RecordsTruthful /\ IndexMatchesRecords
  BY Zenon DEF Init, RecordsTruthful, IndexMatchesRecords
<1>5. \A p \in Readers : PollOK(p)
  BY Zenon DEF Init, PollOK, Polling, Requests
<1>6. \A w \in Wallets : WalletOK(w)
  BY HeightType DEF Init, WalletOK, OnChain, Covered, Place
<1> QED
  BY Zenon, <1>1, <1>2, <1>3, <1>4, <1>5, <1>6 DEF IInv

-----------------------------------------------------------------------------
(* Type correctness, group by group of variables.                          *)

ChainT ==
    /\ fate \in [Txs -> {"none", "sent", "Confirmed", "Failed"}]
    /\ at \in [Txs -> Nat]
    /\ accounts \subseteq Addresses
RecordT ==
    /\ record \in [Txs -> {<<>>} \cup {<<r>> : r \in Records}]
    /\ index \subseteq Keys
SyncT ==
    /\ lastSig \in [Wallets -> Txs \cup {NoTx}]
    /\ cooling \subseteq Wallets
    /\ synced \in [Wallets -> Nat]
PageT == page \in [Wallets -> {<<>>} \cup {<<S>> : S \in SUBSET Txs}]
GotT == got \in [Lists -> SUBSET Txs]
PcT == pc \in [Requests -> Labels]
SendT == creates \subseteq spl /\ spl \subseteq Sends
PollT ==
    /\ target \in [Readers -> Addresses]
    /\ until \in [Readers -> Txs \cup {NoTx}]
    /\ todo \in [Readers -> SUBSET Txs]
    /\ newest \in [Readers -> Txs \cup {NoTx}]
    /\ asOf \in [Readers -> Nat]

Types == ChainT /\ RecordT /\ SyncT /\ PageT /\ GotT /\ PcT /\ SendT /\ PollT /\ MissedT

\* The groups make up TypeOK.
LEMMA TypeParts == TypeOK <=> Types
BY Zenon DEF TypeOK, Types, ChainT, RecordT, SyncT, PageT, GotT, PcT, SendT, PollT, MissedT

\* They do after a step, too.
LEMMA TypePartsNext == TypeOK' <=> Types'
BY Zenon DEF TypeOK, Types, ChainT, RecordT, SyncT, PageT, GotT, PcT, SendT, PollT, MissedT

\* What a handler leaves alone keeps its type.
LEMMA Untouched ==
    ASSUME Types
    PROVE  /\ UNCHANGED <<fate, at, accounts>> => ChainT'
           /\ UNCHANGED <<record, index>> => RecordT'
           /\ UNCHANGED <<lastSig, cooling, synced>> => SyncT'
           /\ UNCHANGED page => PageT'
           /\ UNCHANGED got => GotT'
           /\ UNCHANGED pc => PcT'
           /\ UNCHANGED <<spl, creates>> => SendT'
           /\ UNCHANGED <<target, until, todo, newest, asOf>> => PollT'
           /\ UNCHANGED missed => MissedT'
<1>1. UNCHANGED <<fate, at, accounts>> => ChainT'
  BY DEF Types, ChainT
<1>2. UNCHANGED <<record, index>> => RecordT'
  BY DEF Types, RecordT
<1>3. UNCHANGED <<lastSig, cooling, synced>> => SyncT'
  BY DEF Types, SyncT
<1>4. UNCHANGED page => PageT'
  BY DEF Types, PageT
<1>5. UNCHANGED got => GotT'
  BY DEF Types, GotT
<1>6. UNCHANGED pc => PcT'
  BY DEF Types, PcT
<1>7. UNCHANGED <<spl, creates>> => SendT'
  BY DEF Types, SendT
<1>8. UNCHANGED <<target, until, todo, newest, asOf>> => PollT'
  BY Zenon DEF Types, PollT
<1>9. UNCHANGED missed => MissedT'
  BY Zenon DEF Types, MissedT
<1> QED
  BY Zenon, <1>1, <1>2, <1>3, <1>4, <1>5, <1>6, <1>7, <1>8, <1>9

\* A handler that goes on to one of its labels is at a label.
LEMMA GotoType ==
    ASSUME Types, NEW r \in Requests, NEW l \in Labels, Goto(r, l)
    PROVE  PcT'
BY Zenon DEF Types, PcT, Goto

\* The labels the steps go to.
LEMMA LabelNames ==
    {"start", "ata", "submit", "confirm", "store", "fetch", "scan", "detail", "invalidate",
     "cool", "read", "put", "ok", "error"} \subseteq Labels
BY Zenon DEF Labels, Polling, Done

\* A step that only moves a handler keeps the types.
LEMMA MoveType ==
    ASSUME Types, NEW r \in Requests, NEW l \in Labels, Goto(r, l),
           UNCHANGED <<chainVars, dbVars, page, sendVars, pollVars, got, histVars>>
    PROVE  Types'
<1>1. /\ UNCHANGED <<fate, at, accounts>> /\ UNCHANGED <<record, index>>
      /\ UNCHANGED <<lastSig, cooling, synced>> /\ UNCHANGED page /\ UNCHANGED got
      /\ UNCHANGED <<spl, creates>> /\ UNCHANGED <<target, until, todo, newest, asOf>>
      /\ UNCHANGED missed
  BY Zenon DEF chainVars, dbVars, sendVars, pollVars, histVars
<1> QED
  BY Zenon, <1>1, Untouched, GotoType DEF Types

\* The poll's locals are initialised when it returns.
LEMMA EndPollType ==
    ASSUME Types, NEW p \in Readers, NEW l \in Labels, EndPoll(p, l)
    PROVE  PollT' /\ PcT'
<1>1. p \in Requests /\ Goto(p, l)
  BY Zenon DEF Requests, EndPoll
<1>2. Outside \in Addresses
  BY Zenon DEF Addresses
<1>3. PollT'
  BY Zenon, <1>2 DEF Types, PollT, EndPoll
<1> QED
  BY Zenon, <1>1, <1>3, GotoType

\* An upsert of a record with its entries keeps the types of the tables.
LEMMA UpsertType ==
    ASSUME Types, NEW t \in Txs, NEW rec \in Records, NEW entries \in SUBSET Keys,
           UpsertTransaction(t, rec, entries)
    PROVE  RecordT'
<1>1. record' = [record EXCEPT ![t] = <<rec>>]
  BY Zenon DEF UpsertTransaction
<1>2. record' \in [Txs -> {<<>>} \cup {<<r>> : r \in Records}]
  BY Zenon, <1>1 DEF Types, RecordT
<1>3. index' \subseteq index \cup entries
  BY Zenon DEF UpsertTransaction
<1> QED
  BY Zenon, <1>2, <1>3 DEF Types, RecordT

\* Dropping a page keeps the type of the cache.
LEMMA InvalidateType ==
    ASSUME Types, NEW w, Invalidate(w)
    PROVE  PageT'
<1>1. CASE w \in Wallets
  BY Zenon, <1>1 DEF Types, PageT, Invalidate
<1>2. CASE w \notin Wallets
  BY Zenon, <1>2 DEF Types, PageT, Invalidate
<1> QED
  BY Zenon, <1>1, <1>2

\* A step of send_transaction keeps the types.
LEMMA SendType ==
    ASSUME TypeOK, NEW s \in Sends, SendOK(s), SendTransaction(s)
    PROVE  TypeOK'
<1> USE DEF chainVars, dbVars, sendVars, pollVars, histVars
<1> SUFFICES Types'
  BY Zenon, TypePartsNext
<1>0. Types /\ s \in Requests /\ s \in Txs
  BY Zenon, TypeParts DEF Requests, Txs
<1>1. CASE SendReject(s) \/ SendConfirmed(s) \/ SendUnconfirmed(s)
  <2>1. PICK l \in {"error", "store"} : Goto(s, l)
    BY Zenon, <1>1 DEF SendReject, SendConfirmed, SendUnconfirmed
  <2>2. UNCHANGED <<chainVars, dbVars, page, sendVars, pollVars, got, histVars>>
    BY Zenon, <1>1 DEF SendReject, SendConfirmed, SendUnconfirmed
  <2> QED
    BY Zenon, <1>0, <2>1, <2>2, MoveType, LabelNames
<1>2. CASE SendCheck(s)
  <2>1. PICK l \in {"submit", "ata"} : Goto(s, l)
    BY Zenon, <1>2 DEF SendCheck
  <2>2. spl' \in {spl, spl \cup {s}} /\ creates' = creates
    BY Zenon, <1>2 DEF SendCheck
  <2>3. SendT'
    BY Zenon, <1>0, <2>2 DEF Types, SendT
  <2>4. PcT'
    BY Zenon, <1>0, <2>1, GotoType, LabelNames
  <2>5. /\ UNCHANGED <<fate, at, accounts>> /\ UNCHANGED <<record, index>>
        /\ UNCHANGED <<lastSig, cooling, synced>> /\ UNCHANGED page /\ UNCHANGED got
        /\ UNCHANGED <<target, until, todo, newest, asOf>> /\ UNCHANGED missed
    BY Zenon, <1>2 DEF SendCheck
  <2> QED
    BY Zenon, <1>0, <2>3, <2>4, <2>5, Untouched DEF Types
<1>3. CASE SendLookAta(s)
  <2>1. s \in spl /\ creates' \in {creates, creates \cup {s}} /\ spl' = spl
    BY Zenon, <1>3 DEF SendLookAta, SendOK
  <2>2. SendT'
    BY Zenon, <1>0, <2>1 DEF Types, SendT
  <2>3. PcT'
    <3>1. Goto(s, "submit")
      BY Zenon, <1>3 DEF SendLookAta
    <3> QED
      BY Zenon, <1>0, <3>1, GotoType, LabelNames
  <2>4. /\ UNCHANGED <<fate, at, accounts>> /\ UNCHANGED <<record, index>>
        /\ UNCHANGED <<lastSig, cooling, synced>> /\ UNCHANGED page /\ UNCHANGED got
        /\ UNCHANGED <<target, until, todo, newest, asOf>> /\ UNCHANGED missed
    BY Zenon, <1>3 DEF SendLookAta
  <2> QED
    BY Zenon, <1>0, <2>2, <2>3, <2>4, Untouched DEF Types
<1>4. CASE SendSubmit(s) \/ SendFails(s)
  <2>1. PICK l \in {"confirm", "error"} : Goto(s, l)
    BY Zenon, <1>4 DEF SendSubmit, SendFails
  <2>2. fate' \in {fate, [fate EXCEPT ![s] = "sent"]} /\ UNCHANGED <<at, accounts>>
    BY Zenon, <1>4 DEF SendSubmit, SendFails
  <2>3. ChainT'
    BY Zenon, <1>0, <2>2 DEF Types, ChainT
  <2>4. PcT'
    BY Zenon, <1>0, <2>1, GotoType, LabelNames
  <2>5. /\ UNCHANGED <<record, index>> /\ UNCHANGED <<lastSig, cooling, synced>>
        /\ UNCHANGED page /\ UNCHANGED got /\ UNCHANGED <<spl, creates>>
        /\ UNCHANGED <<target, until, todo, newest, asOf>> /\ UNCHANGED missed
    BY Zenon, <1>4 DEF SendSubmit, SendFails
  <2> QED
    BY Zenon, <1>0, <2>3, <2>4, <2>5, Untouched DEF Types
<1>5. CASE SendStore(s)
  <2>3. UpsertTransaction(s, SendRecord(s), SendEntries(s)) \/ UNCHANGED <<record, index>>
    BY Zenon, <1>5 DEF SendStore, SendRecord, SendEntries
  <2>4. RecordT'
    BY Zenon, <1>0, <2>3, SendEntriesType, UpsertType, Untouched
  <2>5. Invalidate(From[s]) /\ Goto(s, "ok")
    BY Zenon, <1>5 DEF SendStore
  <2>6. PageT' /\ PcT'
    BY Zenon, <1>0, <2>5, InvalidateType, GotoType, LabelNames
  <2>7. /\ UNCHANGED <<fate, at, accounts>> /\ UNCHANGED <<lastSig, cooling, synced>>
        /\ UNCHANGED got /\ UNCHANGED <<spl, creates>>
        /\ UNCHANGED <<target, until, todo, newest, asOf>> /\ UNCHANGED missed
    BY Zenon, <1>5 DEF SendStore
  <2> QED
    BY Zenon, <1>0, <2>4, <2>6, <2>7, Untouched DEF Types
<1> QED
  BY Zenon, <1>1, <1>2, <1>3, <1>4, <1>5 DEF SendTransaction

\* A step of poll_address keeps the types.
LEMMA PollType ==
    ASSUME TypeOK, \A t \in Txs : ChainOK(t),
           NEW p \in Readers, PollOK(p), PollAddress(p)
    PROVE  TypeOK'
<1> USE DEF chainVars, dbVars, sendVars, pollVars, histVars
<1> SUFFICES Types'
  BY Zenon, TypePartsNext
<1>0. Types /\ p \in Requests /\ Height \in Nat
  BY Zenon, TypeParts, HeightType DEF Requests
<1>a. todo[p] \subseteq Txs /\ newest[p] \in Txs \cup {NoTx}
  BY Zenon, <1>0 DEF Types, PollT
<1>1. CASE FetchSigs(p)
  <2> DEFINE w == target[p]
             sigs == Page(w, until[p])
             over == Newer(w, until[p]) \ sigs
  <2>1. w \in Wallets
    BY Zenon, <1>1 DEF FetchSigs, PollOK, Polling
  <2>2. sigs \subseteq Txs /\ over \subseteq Txs
    BY Zenon DEF Page, Newer
  <2>3. /\ todo' = [todo EXCEPT ![p] = sigs] /\ asOf' = [asOf EXCEPT ![p] = Height]
        /\ missed' = missed \cup {<<w, t>> : t \in over}
        /\ Goto(p, "scan") /\ UNCHANGED <<target, until>>
        /\ \E t \in sigs : newest' = [newest EXCEPT ![p] = t]
    BY Zenon, <1>1 DEF FetchSigs
  <2>4. /\ UNCHANGED <<fate, at, accounts>> /\ UNCHANGED <<record, index>>
        /\ UNCHANGED <<lastSig, cooling, synced>> /\ UNCHANGED page /\ UNCHANGED got
        /\ UNCHANGED <<spl, creates>>
    BY Zenon, <1>1 DEF FetchSigs
  <2> HIDE DEF w, sigs, over
  <2>5. PollT'
    BY Zenon, <1>0, <2>2, <2>3 DEF Types, PollT
  <2>6. MissedT'
    BY Zenon, <1>0, <2>1, <2>2, <2>3, PassedOver DEF Types
  <2>7. PcT'
    BY Zenon, <1>0, <2>3, GotoType, LabelNames
  <2> QED
    BY Zenon, <1>0, <2>4, <2>5, <2>6, <2>7, Untouched DEF Types
<1>2. CASE FetchNothing(p)
  <2>1. /\ asOf' = [asOf EXCEPT ![p] = Height] /\ Goto(p, "cool")
        /\ UNCHANGED <<target, until, todo, newest>>
    BY Zenon, <1>2 DEF FetchNothing
  <2>2. PollT'
    BY Zenon, <1>0, <2>1 DEF Types, PollT
  <2>3. PcT'
    BY Zenon, <1>0, <2>1, GotoType, LabelNames
  <2>4. /\ UNCHANGED <<fate, at, accounts>> /\ UNCHANGED <<record, index>>
        /\ UNCHANGED <<lastSig, cooling, synced>> /\ UNCHANGED page /\ UNCHANGED got
        /\ UNCHANGED <<spl, creates>> /\ UNCHANGED missed
    BY Zenon, <1>2 DEF FetchNothing
  <2> QED
    BY Zenon, <1>0, <2>2, <2>3, <2>4, Untouched DEF Types
<1>3. CASE FetchFails(p) \/ PollDbFails(p)
  <2>1. EndPoll(p, "read")
    BY Zenon, <1>3 DEF FetchFails, PollDbFails, PollFails
  <2>2. PollT' /\ PcT'
    BY Zenon, <1>0, <2>1, EndPollType, LabelNames
  <2>3. /\ UNCHANGED <<fate, at, accounts>> /\ UNCHANGED <<record, index>>
        /\ UNCHANGED <<lastSig, cooling, synced>> /\ UNCHANGED page /\ UNCHANGED got
        /\ UNCHANGED <<spl, creates>> /\ UNCHANGED missed
    BY Zenon, <1>3 DEF FetchFails, PollDbFails
  <2> QED
    BY Zenon, <1>0, <2>2, <2>3, Untouched DEF Types
<1>4. CASE Scan(p)
  <2>1. PICK t \in todo[p] :
          \/ todo' = [todo EXCEPT ![p] = @ \ {t}] /\ pc' = pc
          \/ Goto(p, "detail") /\ todo' = todo
    BY Zenon, <1>4 DEF Scan
  <2>2. UNCHANGED <<target, until, newest, asOf>>
    BY Zenon, <1>4 DEF Scan
  <2>3. PollT'
    BY Zenon, <1>0, <2>1, <2>2 DEF Types, PollT
  <2>4. PcT'
    BY Zenon, <1>0, <2>1, GotoType, Untouched, LabelNames
  <2>5. /\ UNCHANGED <<fate, at, accounts>> /\ UNCHANGED <<record, index>>
        /\ UNCHANGED <<lastSig, cooling, synced>> /\ UNCHANGED page /\ UNCHANGED got
        /\ UNCHANGED <<spl, creates>> /\ UNCHANGED missed
    BY Zenon, <1>4 DEF Scan
  <2> QED
    BY Zenon, <1>0, <2>3, <2>4, <2>5, Untouched DEF Types
<1>5. CASE PollStore(p)
  <2>1. PICK t \in todo[p] :
          /\ UpsertTransaction(t, PollRecord(target[p], t), {PollEntry(target[p], t)})
          /\ todo' = [todo EXCEPT ![p] = @ \ {t}]
    BY Zenon, <1>5 DEF PollStore, PollEntry
  <2>2. pc[p] = "detail" /\ Goto(p, "scan") /\ UNCHANGED <<target, until, newest, asOf>>
    BY Zenon, <1>5 DEF PollStore
  <2>3. target[p] \in Wallets /\ t \in Txs /\ at[t] # 0
    BY Zenon, <1>a, <2>1, <2>2 DEF PollOK, Polling
  <2>4. fate[t] \in {"Confirmed", "Failed"}
    BY Zenon, <2>3 DEF ChainOK, Executed
  <2>5. PollRecord(target[p], t) \in Records
    BY Zenon, <2>3, <2>4, PartiesAssumption DEF PollRecord, Records, LookupWallet, Addresses
  <2>6. {PollEntry(target[p], t)} \in SUBSET Keys
    BY Zenon, <2>3, PollEntryType
  <2>7. RecordT'
    BY Zenon, <1>0, <2>1, <2>3, <2>5, <2>6, UpsertType
  <2>8. PollT'
    BY Zenon, <1>0, <2>1, <2>2 DEF Types, PollT
  <2>9. PcT'
    BY Zenon, <1>0, <2>2, GotoType, LabelNames
  <2>10. /\ UNCHANGED <<fate, at, accounts>> /\ UNCHANGED <<lastSig, cooling, synced>>
         /\ UNCHANGED page /\ UNCHANGED got /\ UNCHANGED <<spl, creates>> /\ UNCHANGED missed
    BY Zenon, <1>5 DEF PollStore
  <2> QED
    BY Zenon, <1>0, <2>7, <2>8, <2>9, <2>10, Untouched DEF Types
<1>6. CASE PollStoreFails(p)
  <2>1. PICK t \in todo[p] : /\ missed' = missed \cup {<<target[p], t>>}
                             /\ todo' = [todo EXCEPT ![p] = @ \ {t}]
    BY Zenon, <1>6 DEF PollStoreFails
  <2>2. pc[p] = "detail" /\ Goto(p, "scan") /\ UNCHANGED <<target, until, newest, asOf>>
    BY Zenon, <1>6 DEF PollStoreFails
  <2>3. target[p] \in Wallets /\ t \in Txs
    BY Zenon, <1>a, <2>1, <2>2 DEF PollOK, Polling
  <2>4. MissedT'
    BY Zenon, <1>0, <2>1, <2>3, PassedOverOne DEF Types
  <2>5. PollT'
    BY Zenon, <1>0, <2>1, <2>2 DEF Types, PollT
  <2>6. PcT'
    BY Zenon, <1>0, <2>2, GotoType, LabelNames
  <2>7. /\ UNCHANGED <<fate, at, accounts>> /\ UNCHANGED <<record, index>>
        /\ UNCHANGED <<lastSig, cooling, synced>> /\ UNCHANGED page /\ UNCHANGED got
        /\ UNCHANGED <<spl, creates>>
    BY Zenon, <1>6 DEF PollStoreFails
  <2> QED
    BY Zenon, <1>0, <2>4, <2>5, <2>6, <2>7, Untouched DEF Types
<1>7. CASE Checkpoint(p)
  <2>1. /\ lastSig' = [lastSig EXCEPT ![target[p]] = newest[p]] /\ Goto(p, "invalidate")
        /\ UNCHANGED <<cooling, synced>>
    BY Zenon, <1>7 DEF Checkpoint
  <2>2. SyncT'
    BY Zenon, <1>0, <1>a, <2>1 DEF Types, SyncT
  <2>3. PcT'
    BY Zenon, <1>0, <2>1, GotoType, LabelNames
  <2>4. /\ UNCHANGED <<fate, at, accounts>> /\ UNCHANGED <<record, index>>
        /\ UNCHANGED page /\ UNCHANGED got /\ UNCHANGED <<spl, creates>>
        /\ UNCHANGED <<target, until, todo, newest, asOf>> /\ UNCHANGED missed
    BY Zenon, <1>7 DEF Checkpoint
  <2> QED
    BY Zenon, <1>0, <2>2, <2>3, <2>4, Untouched DEF Types
<1>8. CASE PollInvalidate(p)
  <2>1. Invalidate(target[p]) /\ Goto(p, "cool")
    BY Zenon, <1>8 DEF PollInvalidate
  <2>2. PageT' /\ PcT'
    BY Zenon, <1>0, <2>1, InvalidateType, GotoType, LabelNames
  <2>3. /\ UNCHANGED <<fate, at, accounts>> /\ UNCHANGED <<record, index>>
        /\ UNCHANGED <<lastSig, cooling, synced>> /\ UNCHANGED got /\ UNCHANGED <<spl, creates>>
        /\ UNCHANGED <<target, until, todo, newest, asOf>> /\ UNCHANGED missed
    BY Zenon, <1>8 DEF PollInvalidate
  <2> QED
    BY Zenon, <1>0, <2>2, <2>3, Untouched DEF Types
<1> QED
  BY Zenon, <1>1, <1>2, <1>3, <1>4, <1>5, <1>6, <1>7, <1>8 DEF PollAddress

\* A step of list_transactions or get_transaction_status keeps the types.
LEMMA ReadType ==
    ASSUME TypeOK, NEW p \in Readers, PollOK(p),
           \/ p \in Lists /\ (ListTransactions(p) \/ AskAgain(p))
           \/ GetTransactionStatus(p)
    PROVE  TypeOK'
<1> USE DEF chainVars, dbVars, sendVars, pollVars, histVars
<1> SUFFICES Types'
  BY Zenon, TypePartsNext
<1>0. Types /\ p \in Requests /\ For[p] \in Wallets /\ For[p] \in Addresses
  BY Zenon, TypeParts, ReadersAssumption DEF Requests, Addresses
<1>1. CASE ReadReject(p) \/ ListCached(p) \/ StatusRead(p) \/ ReadFails(p) \/ AskAgain(p)
  <2>1. \E l \in {"error", "ok", "start"} : Goto(p, l)
    BY Zenon, <1>1 DEF ReadReject, ListCached, StatusRead, ReadFails, AskAgain
  <2>2. UNCHANGED <<chainVars, dbVars, page, sendVars, pollVars, got, histVars>>
    BY Zenon, <1>1 DEF ReadReject, ListCached, StatusRead, ReadFails, AskAgain
  <2> QED
    BY Zenon, <1>0, <2>1, <2>2, MoveType, LabelNames
<1>2. CASE Sync(p)
  <2>1. /\ UNCHANGED <<fate, at, accounts>> /\ UNCHANGED <<record, index>>
        /\ UNCHANGED <<lastSig, cooling, synced>> /\ UNCHANGED page /\ UNCHANGED got
        /\ UNCHANGED <<spl, creates>> /\ UNCHANGED missed
    BY Zenon, <1>2 DEF Sync
  <2>2. \/ Goto(p, "read") /\ UNCHANGED <<target, until, todo, newest, asOf>>
        \/ StartPoll(p, For[p])
    BY Zenon, <1>2 DEF Sync
  <2>3. CASE Goto(p, "read") /\ UNCHANGED <<target, until, todo, newest, asOf>>
    BY Zenon, <1>0, <2>1, <2>3, Untouched, GotoType, LabelNames DEF Types
  <2>4. CASE StartPoll(p, For[p])
    <3>1. /\ target' = [target EXCEPT ![p] = For[p]]
          /\ until' = [until EXCEPT ![p] = lastSig[For[p]]]
          /\ Goto(p, "fetch") /\ UNCHANGED <<todo, newest, asOf>>
      BY Zenon, <2>4 DEF StartPoll
    <3>2. lastSig[For[p]] \in Txs \cup {NoTx}
      BY Zenon, <1>0 DEF Types, SyncT
    <3>3. PollT'
      BY Zenon, <1>0, <3>1, <3>2 DEF Types, PollT
    <3>4. PcT'
      BY Zenon, <1>0, <3>1, GotoType, LabelNames
    <3> QED
      BY Zenon, <1>0, <2>1, <3>3, <3>4, Untouched DEF Types
  <2> QED
    BY Zenon, <2>2, <2>3, <2>4
<1>3. CASE SyncDone(p)
  <2>1. target[p] \in Wallets /\ asOf[p] \in Nat
    BY Zenon, <1>0, <1>3 DEF SyncDone, PollOK, Polling, Types, PollT
  <2>2. EndPoll(p, "read") /\ lastSig' = lastSig
    BY Zenon, <1>3 DEF SyncDone
  <2>3. PollT' /\ PcT'
    BY Zenon, <1>0, <2>2, EndPollType, LabelNames
  <2>4. \/ /\ cooling' = cooling \cup {target[p]}
           /\ synced' = [synced EXCEPT ![target[p]] = asOf[p]]
        \/ UNCHANGED <<cooling, synced>>
    BY Zenon, <1>3 DEF SyncDone
  <2>5. SyncT'
    BY Zenon, <1>0, <2>1, <2>2, <2>4 DEF Types, SyncT
  <2>6. /\ UNCHANGED <<fate, at, accounts>> /\ UNCHANGED <<record, index>>
        /\ UNCHANGED page /\ UNCHANGED got /\ UNCHANGED <<spl, creates>> /\ UNCHANGED missed
    BY Zenon, <1>3 DEF SyncDone
  <2> QED
    BY Zenon, <1>0, <2>3, <2>5, <2>6, Untouched DEF Types
<1>4. CASE p \in Lists /\ (ListRead(p) \/ ListPut(p))
  <2>1. ListByWallet(For[p], Limit) \in SUBSET Txs
    <3> SUFFICES ASSUME NEW t \in ListByWallet(For[p], Limit)
                 PROVE  t \in Txs
      BY Zenon
    <3>1. PICK k \in index : k.sig = t
      BY Zenon DEF ListByWallet
    <3>2. k \in Keys
      BY Zenon, <1>0 DEF Types, RecordT
    <3> QED
      BY Zenon, <3>1, <3>2 DEF Keys
  <2>2. got' \in {[got EXCEPT ![p] = ListByWallet(For[p], Limit)], [got EXCEPT ![p] = {}]}
    BY Zenon, <1>4 DEF ListRead, ListPut
  <2>3. GotT'
    BY Zenon, <1>0, <1>4, <2>1, <2>2 DEF Types, GotT
  <2>4. page' = page \/ page' = [page EXCEPT ![For[p]] = <<got[p]>>]
    BY Zenon, <1>4 DEF ListRead, ListPut
  <2>5. got[p] \in SUBSET Txs
    BY Zenon, <1>0, <1>4 DEF Types, GotT
  <2>6. PageT'
    BY Zenon, <1>0, <2>4, <2>5 DEF Types, PageT
  <2>7. \E l \in {"put", "ok"} : Goto(p, l)
    BY Zenon, <1>4 DEF ListRead, ListPut
  <2>8. PcT'
    BY Zenon, <1>0, <2>7, GotoType, LabelNames
  <2>9. /\ UNCHANGED <<fate, at, accounts>> /\ UNCHANGED <<record, index>>
        /\ UNCHANGED <<lastSig, cooling, synced>> /\ UNCHANGED <<spl, creates>>
        /\ UNCHANGED <<target, until, todo, newest, asOf>> /\ UNCHANGED missed
    BY Zenon, <1>4 DEF ListRead, ListPut
  <2> QED
    BY Zenon, <1>0, <2>3, <2>6, <2>8, <2>9, Untouched DEF Types
<1>5. \/ ReadReject(p) \/ ListCached(p) \/ StatusRead(p) \/ ReadFails(p) \/ AskAgain(p)
      \/ Sync(p)
      \/ SyncDone(p)
      \/ p \in Lists /\ (ListRead(p) \/ ListPut(p))
  BY Zenon DEF ListTransactions, GetTransactionStatus
<1> QED
  BY Zenon, <1>1, <1>2, <1>3, <1>4, <1>5

\* A step of the environment keeps the types.
LEMMA EnvironmentType ==
    ASSUME TypeOK,
           \/ \E t \in Txs : ChainExecute(t)
           \/ \E w \in Wallets : CooldownEnds(w) \/ PageExpires(w)
           \/ \E r \in Requests : Disconnect(r)
           \/ Restart
    PROVE  TypeOK'
<1> USE DEF chainVars, dbVars, sendVars, pollVars, histVars
<1> SUFFICES Types'
  BY Zenon, TypePartsNext
<1>0. Types
  BY Zenon, TypeParts
<1>1. ASSUME NEW t \in Txs, ChainExecute(t)
      PROVE  Types'
  <2>1. To[t] \in Addresses /\ Height + 1 \in Nat
    BY Zenon, PartiesAssumption, HeightType, NextPlace
  <2>2. PICK outcome \in {"Confirmed", "Failed"} : fate' = [fate EXCEPT ![t] = outcome]
    BY Zenon, <1>1 DEF ChainExecute
  <2>3. at' = [at EXCEPT ![t] = Height + 1] /\ accounts' \in {accounts, accounts \cup {To[t]}}
    BY Zenon, <1>1 DEF ChainExecute
  <2>4. ChainT'
    BY Zenon, <1>0, <2>1, <2>2, <2>3 DEF Types, ChainT
  <2>5. /\ UNCHANGED <<record, index>> /\ UNCHANGED <<lastSig, cooling, synced>>
        /\ UNCHANGED page /\ UNCHANGED got /\ UNCHANGED pc /\ UNCHANGED <<spl, creates>>
        /\ UNCHANGED <<target, until, todo, newest, asOf>> /\ UNCHANGED missed
    BY Zenon, <1>1 DEF ChainExecute
  <2> QED
    BY Zenon, <1>0, <2>4, <2>5, Untouched DEF Types
<1>2. ASSUME NEW w \in Wallets, CooldownEnds(w) \/ PageExpires(w)
      PROVE  Types'
  <2>1. /\ UNCHANGED <<fate, at, accounts>> /\ UNCHANGED <<record, index>>
        /\ UNCHANGED <<lastSig, synced>> /\ UNCHANGED got /\ UNCHANGED pc
        /\ UNCHANGED <<spl, creates>> /\ UNCHANGED <<target, until, todo, newest, asOf>>
        /\ UNCHANGED missed
    BY Zenon, <1>2 DEF CooldownEnds, PageExpires
  <2>2. /\ cooling' \subseteq cooling
        /\ page' = page \/ page' = [page EXCEPT ![w] = <<>>]
    BY Zenon, <1>2 DEF CooldownEnds, PageExpires
  <2>3. SyncT'
    BY Zenon, <1>0, <2>1, <2>2 DEF Types, SyncT
  <2>4. PageT'
    BY Zenon, <1>0, <2>2 DEF Types, PageT
  <2> QED
    BY Zenon, <1>0, <2>1, <2>3, <2>4, Untouched DEF Types
<1>3. ASSUME NEW r \in Requests, Disconnect(r)
      PROVE  Types'
  <2>1. CASE r \in Readers
    <3>1. EndPoll(r, "error")
      BY Zenon, <1>3, <2>1 DEF Disconnect
    <3>2. PollT' /\ PcT'
      BY Zenon, <1>0, <2>1, <3>1, EndPollType, LabelNames
    <3>3. /\ UNCHANGED <<fate, at, accounts>> /\ UNCHANGED <<record, index>>
          /\ UNCHANGED <<lastSig, cooling, synced>> /\ UNCHANGED page /\ UNCHANGED got
          /\ UNCHANGED <<spl, creates>> /\ UNCHANGED missed
      BY Zenon, <1>3 DEF Disconnect
    <3> QED
      BY Zenon, <1>0, <3>2, <3>3, Untouched DEF Types
  <2>2. CASE r \notin Readers
    <3>1. Goto(r, "error")
      BY Zenon, <1>3, <2>2 DEF Disconnect
    <3>2. UNCHANGED <<chainVars, dbVars, page, sendVars, pollVars, got, histVars>>
      BY Zenon, <1>3, <2>2 DEF Disconnect
    <3> QED
      BY Zenon, <1>0, <3>1, <3>2, MoveType, LabelNames
  <2> QED
    BY Zenon, <2>1, <2>2
<1>4. CASE Restart
  <2>1. PcT'
    <3>1. pc' = [q \in Requests |->
                   IF pc[q] \in Done \cup {"start"} THEN pc[q] ELSE "error"]
      BY Zenon, <1>4 DEF Restart
    <3>2. "error" \in Labels
      BY Zenon, LabelNames
    <3> QED
      BY Zenon, <1>0, <3>1, <3>2 DEF Types, PcT
  <2>2. PageT' /\ GotT'
    BY Zenon, <1>4 DEF Restart, PageT, GotT
  <2>3. PollT'
    BY Zenon, <1>4 DEF Restart, PollT, Addresses
  <2>4. /\ UNCHANGED <<fate, at, accounts>> /\ UNCHANGED <<record, index>>
        /\ UNCHANGED <<lastSig, cooling, synced>> /\ UNCHANGED <<spl, creates>>
        /\ UNCHANGED missed
    BY Zenon, <1>4 DEF Restart
  <2> QED
    BY Zenon, <1>0, <2>1, <2>2, <2>3, <2>4, Untouched DEF Types
<1> QED
  BY Zenon, <1>1, <1>2, <1>3, <1>4

\* The disjuncts of the next-state relation, and the stuttering step.
LEMMA Steps ==
    ASSUME [Next]_vars
    PROVE  \/ \E s \in Sends : SendTransaction(s)
           \/ \E p \in Readers : PollAddress(p)
           \/ \E p \in Readers : \/ p \in Lists /\ (ListTransactions(p) \/ AskAgain(p))
                               \/ GetTransactionStatus(p)
           \/ \/ \E t \in Txs : ChainExecute(t)
              \/ \E w \in Wallets : CooldownEnds(w) \/ PageExpires(w)
              \/ \E r \in Requests : Disconnect(r)
              \/ Restart
           \/ UNCHANGED vars
BY Zenon DEF Next, Readers

\* Every step keeps the types.
LEMMA TypeStep == IInv /\ [Next]_vars => TypeOK'
<1> SUFFICES ASSUME IInv, [Next]_vars
             PROVE  TypeOK'
  BY Zenon
<1>1. CASE UNCHANGED vars
  BY Zenon, <1>1 DEF IInv, TypeOK, vars, chainVars, dbVars, sendVars, pollVars, histVars
<1> QED
  BY Zenon, <1>1, Steps, SendType, PollType, ReadType, EnvironmentType DEF IInv

-----------------------------------------------------------------------------
(* What grows.                                                             *)

\* The chain changes when a transfer is submitted or executed.
ChainStep ==
    \/ at' = at /\ fate' = fate
    \/ \E s \in Sends : /\ pc[s] = "submit" /\ pc'[s] \in {"confirm", "error"}
                        /\ at' = at /\ fate' = [fate EXCEPT ![s] = "sent"]
    \/ \E t \in Txs : ChainExecute(t)

\* Records are written by send_transaction and by polls.
RecordStep ==
    \/ UNCHANGED <<record, index>>
    \/ \E s \in Sends : SendStore(s)
    \/ \E p \in Readers : PollStore(p)

\* Which steps change the chain and the records.
LEMMA FrameStep ==
    ASSUME TypeOK, [Next]_vars
    PROVE  ChainStep /\ RecordStep /\ missed \subseteq missed'
<1> USE DEF chainVars, dbVars, histVars
<1>1. ASSUME NEW s \in Sends, SendTransaction(s)
      PROVE  ChainStep /\ RecordStep /\ missed \subseteq missed'
  <2>0. s \in Requests
    BY Zenon DEF Requests
  <2>1. CASE SendSubmit(s) \/ SendFails(s)
    <3>1. pc[s] = "submit" /\ pc'[s] \in {"confirm", "error"} /\ at' = at
      BY Zenon, <2>0, <2>1 DEF SendSubmit, SendFails, Goto, TypeOK
    <3>2. fate' = fate \/ fate' = [fate EXCEPT ![s] = "sent"]
      BY Zenon, <2>1 DEF SendSubmit, SendFails
    <3> QED
      BY Zenon, <2>1, <3>1, <3>2 DEF SendSubmit, SendFails, ChainStep, RecordStep
  <2>2. CASE SendStore(s)
    BY Zenon, <2>2 DEF SendStore, ChainStep, RecordStep
  <2>3. CASE ~(SendSubmit(s) \/ SendFails(s) \/ SendStore(s))
    <3>1. at' = at /\ fate' = fate /\ UNCHANGED <<record, index>> /\ missed' = missed
      BY Zenon, <1>1, <2>3 DEF SendTransaction, SendReject, SendCheck, SendLookAta, SendConfirmed,
                        SendUnconfirmed
    <3> QED
      BY Zenon, <3>1 DEF ChainStep, RecordStep
  <2> QED
    BY Zenon, <2>1, <2>2, <2>3
<1>2. ASSUME NEW p \in Readers, PollAddress(p)
      PROVE  ChainStep /\ RecordStep /\ missed \subseteq missed'
  <2>1. CASE PollStore(p)
    BY Zenon, <2>1 DEF PollStore, ChainStep, RecordStep
  <2>2. CASE ~PollStore(p)
    <3>1. at' = at /\ fate' = fate /\ UNCHANGED <<record, index>> /\ missed \subseteq missed'
      BY Zenon, <1>2, <2>2 DEF PollAddress, FetchSigs, FetchNothing, FetchFails, Scan,
                        PollStoreFails, Checkpoint, PollDbFails, PollInvalidate
    <3> QED
      BY Zenon, <3>1 DEF ChainStep, RecordStep
  <2> QED
    BY Zenon, <2>1, <2>2
<1>3. ASSUME NEW p \in Readers,
             ListTransactions(p) \/ AskAgain(p) \/ GetTransactionStatus(p)
      PROVE  ChainStep /\ RecordStep /\ missed \subseteq missed'
  <2>1. at' = at /\ fate' = fate /\ UNCHANGED <<record, index>> /\ missed' = missed
    BY Zenon, <1>3 DEF ListTransactions, AskAgain, GetTransactionStatus, ReadReject, ListCached,
                Sync, SyncDone, ListRead, ListPut, StatusRead, ReadFails
  <2> QED
    BY Zenon, <2>1 DEF ChainStep, RecordStep
<1>4. ASSUME NEW t \in Txs, ChainExecute(t)
      PROVE  ChainStep /\ RecordStep /\ missed \subseteq missed'
  <2>1. UNCHANGED <<record, index>> /\ missed' = missed
    BY Zenon, <1>4 DEF ChainExecute
  <2> QED
    BY Zenon, <1>4, <2>1 DEF ChainStep, RecordStep
<1>5. ASSUME \/ \E w \in Wallets : CooldownEnds(w) \/ PageExpires(w)
             \/ \E r \in Requests : Disconnect(r)
             \/ Restart
             \/ UNCHANGED vars
      PROVE  ChainStep /\ RecordStep /\ missed \subseteq missed'
  <2>1. at' = at /\ fate' = fate /\ UNCHANGED <<record, index>> /\ missed' = missed
    BY Zenon, <1>5 DEF CooldownEnds, PageExpires, Disconnect, Restart, vars
  <2> QED
    BY Zenon, <2>1 DEF ChainStep, RecordStep
<1> QED
  BY Zenon, <1>1, <1>2, <1>3, <1>4, <1>5, Steps

\* The chain stays consistent: what has a place was executed and keeps both.
LEMMA ChainStays ==
    ASSUME IInv, [Next]_vars
    PROVE  /\ \A t \in Txs : ChainOK(t)'
           /\ Height <= Height'
           /\ \A t \in Txs : at[t] # 0 => at'[t] = at[t] /\ fate'[t] = fate[t]
           /\ \A t \in Txs : at'[t] = at[t] \/ at'[t] > Height
<1> USE DEF ChainOK, Executed
<1>0. TypeOK /\ ChainStep /\ Height \in Nat
  BY Zenon, FrameStep, HeightType DEF IInv
<1>a. \A t \in Txs : at[t] \in Nat /\ ChainOK(t)
  BY Zenon, <1>0 DEF IInv, TypeOK
<1>b. /\ fate \in [Txs -> {"none", "sent", "Confirmed", "Failed"}]
      /\ at \in [Txs -> Nat]
  BY Zenon, <1>0 DEF TypeOK
<1>1. CASE at' = at /\ fate' = fate
  <2>1. Height' = Height
    BY Zenon, <1>1 DEF Height
  <2> QED
    BY Zenon, <1>0, <1>a, <1>1, <2>1, LeqRefl
<1>2. ASSUME NEW s \in Sends, pc[s] = "submit", at' = at,
             fate' = [fate EXCEPT ![s] = "sent"]
      PROVE  /\ \A t \in Txs : ChainOK(t)'
             /\ Height <= Height'
             /\ \A t \in Txs : at[t] # 0 => at'[t] = at[t] /\ fate'[t] = fate[t]
             /\ \A t \in Txs : at'[t] = at[t] \/ at'[t] > Height
  <2>1. Height' = Height
    BY Zenon, <1>2 DEF Height
  <2>2. s \in Txs /\ fate[s] = "none" /\ at[s] = 0
    BY Zenon, <1>2 DEF IInv, SendOK, Txs
  <2> QED
    BY Zenon, <1>0, <1>a, <1>b, <1>2, <2>1, <2>2, LeqRefl
<1>3. ASSUME NEW t \in Txs, ChainExecute(t)
      PROVE  /\ \A u \in Txs : ChainOK(u)'
             /\ Height <= Height'
             /\ \A u \in Txs : at[u] # 0 => at'[u] = at[u] /\ fate'[u] = fate[u]
             /\ \A u \in Txs : at'[u] = at[u] \/ at'[u] > Height
  <2>1. at[t] = 0 /\ at' = [at EXCEPT ![t] = Height + 1]
    BY Zenon, <1>a, <1>3 DEF ChainExecute
  <2>2. PICK outcome \in Executed : fate' = [fate EXCEPT ![t] = outcome]
    BY Zenon, <1>3 DEF ChainExecute
  <2>3. Height' = Height + 1
    BY Zenon, <1>b, <2>1, HeightGrows
  <2>4. at'[t] = Height + 1 /\ fate'[t] \in Executed
    BY Zenon, <1>b, <2>1, <2>2
  <2>5. \A u \in Txs : u # t => at'[u] = at[u] /\ fate'[u] = fate[u]
    BY Zenon, <1>b, <2>1, <2>2
  <2>6. /\ Height + 1 \in Nat /\ Height <= Height + 1 /\ Height + 1 # 0
        /\ Height + 1 > Height /\ Height + 1 <= Height + 1
    BY Zenon, <1>0, NextPlace, LeqRefl
  <2>7. ASSUME NEW u \in Txs
        PROVE  /\ ChainOK(u)'
               /\ at[u] # 0 => at'[u] = at[u] /\ fate'[u] = fate[u]
               /\ at'[u] = at[u] \/ at'[u] > Height
    <3>1. CASE u = t
      BY Zenon, <2>1, <2>3, <2>4, <2>6, <3>1
    <3>2. CASE u # t
      BY Zenon, <1>0, <1>a, <2>3, <2>5, <2>6, <3>2, LeqTrans
    <3> QED
      BY Zenon, <3>1, <3>2
  <2> QED
    BY Zenon, <2>3, <2>6, <2>7
<1> QED
  BY Zenon, <1>0, <1>1, <1>2, <1>3 DEF ChainStep

-----------------------------------------------------------------------------
(* Transfers, records and the index.                                       *)

\* How the handler of a transfer moves when it is not its own step.
LEMMA OthersMove ==
    ASSUME TypeOK, NEW s \in Sends, [Next]_vars, ~SendTransaction(s)
    PROVE  (pc'[s] = pc[s] \/ pc'[s] = "error") /\ spl \subseteq spl'
<1> USE DEF Goto, sendVars, TypeOK
<1>0. s \in Requests /\ \A p \in Readers : p # s /\ p \in Requests
  BY Zenon, CallsAssumption DEF Requests
<1>1. ASSUME NEW q \in Sends, SendTransaction(q), q # s
      PROVE  pc'[s] = pc[s] /\ spl \subseteq spl'
  BY Zenon, <1>0, <1>1 DEF SendTransaction, SendReject, SendCheck, SendLookAta, SendSubmit,
              SendFails, SendConfirmed, SendUnconfirmed, SendStore, Requests
<1>2. ASSUME NEW p \in Readers, PollAddress(p)
      PROVE  pc'[s] = pc[s] /\ spl' = spl
  BY Zenon, <1>0, <1>2 DEF PollAddress, FetchSigs, FetchNothing, FetchFails, Scan, PollStore,
              PollStoreFails, Checkpoint, PollDbFails, PollInvalidate, PollFails, EndPoll
<1>3. ASSUME NEW p \in Readers,
             ListTransactions(p) \/ AskAgain(p) \/ GetTransactionStatus(p)
      PROVE  pc'[s] = pc[s] /\ spl' = spl
  BY Zenon, <1>0, <1>3 DEF ListTransactions, AskAgain, GetTransactionStatus, ReadReject, ListCached,
              Sync, SyncDone, ListRead, ListPut, StatusRead, ReadFails, StartPoll, EndPoll
<1>4. ASSUME \/ \E t \in Txs : ChainExecute(t)
             \/ \E w \in Wallets : CooldownEnds(w) \/ PageExpires(w)
             \/ UNCHANGED vars
      PROVE  pc'[s] = pc[s] /\ spl' = spl
  BY Zenon, <1>4 DEF ChainExecute, CooldownEnds, PageExpires, vars
<1>5. ASSUME NEW r \in Requests, Disconnect(r)
      PROVE  (pc'[s] = pc[s] \/ pc'[s] = "error") /\ spl' = spl
  BY Zenon, <1>0, <1>5 DEF Disconnect, EndPoll
<1>6. CASE Restart
  BY Zenon, <1>0, <1>6 DEF Restart
<1> QED
  BY Zenon, <1>1, <1>2, <1>3, <1>4, <1>5, <1>6, Steps

\* What a transfer's label says of its fate stays true.
LEMMA SendStays ==
    ASSUME IInv, [Next]_vars, NEW s \in Sends
    PROVE  SendOK(s)'
<1> USE DEF SendOK
<1>0. TypeOK /\ SendOK(s) /\ s \in Txs /\ s \in Requests /\ ChainOK(s)
  BY Zenon DEF IInv, Txs, Requests
<1>1. fate[s] = "Confirmed" => fate'[s] = "Confirmed"
  BY Zenon, <1>0, ChainStays DEF ChainOK, Executed
<1>2. pc'[s] # "error" /\ pc'[s] \in {"start", "ata", "submit"} /\ fate[s] = "none"
        => fate'[s] = "none"
  <2>1. ASSUME NEW t \in Txs, ChainExecute(t), fate[s] = "none"
        PROVE  fate'[s] = "none"
    BY Zenon, <1>0, <2>1 DEF ChainExecute, TypeOK
  <2>2. ASSUME NEW q \in Sends, pc[q] = "submit", pc'[q] \in {"confirm", "error"},
               fate' = [fate EXCEPT ![q] = "sent"], fate[s] = "none",
               pc'[s] \in {"start", "ata", "submit"}
        PROVE  fate'[s] = "none"
    BY Zenon, <1>0, <2>2 DEF TypeOK
  <2> QED
    BY Zenon, <1>0, <2>1, <2>2, FrameStep DEF ChainStep
<1>3. CASE ~SendTransaction(s)
  BY Zenon, <1>0, <1>1, <1>2, <1>3, OthersMove
<1>4. CASE SendTransaction(s)
  <2> USE DEF Goto, TypeOK
  <2>1. CASE SendReject(s) \/ SendFails(s) \/ SendUnconfirmed(s)
    BY Zenon, <1>0, <2>1 DEF SendReject, SendFails, SendUnconfirmed
  <2>2. CASE SendCheck(s)
    BY Zenon, <1>0, <1>2, <2>2 DEF SendCheck
  <2>3. CASE SendLookAta(s)
    BY Zenon, <1>0, <1>2, <2>3 DEF SendLookAta
  <2>4. CASE SendSubmit(s)
    BY Zenon, <1>0, <2>4 DEF SendSubmit
  <2>5. CASE SendConfirmed(s)
    BY Zenon, <1>0, <1>1, <2>5 DEF SendConfirmed
  <2>6. CASE SendStore(s)
    BY Zenon, <1>0, <1>1, <2>6 DEF SendStore
  <2> QED
    BY Zenon, <1>4, <2>1, <2>2, <2>3, <2>4, <2>5, <2>6 DEF SendTransaction
<1> QED
  BY Zenon, <1>3, <1>4

\* What entry e says of the transfer t.
EntryFits(e, t) ==
    /\ e.sig = t /\ Touches(t, e.addr)
    /\ From[t] # To[t] => (e.direction = "sent" <=> e.addr = From[t])

\* upsert_transaction keeps records and index together when the entries fit
\* the transfer and one of them is for the wallet of the record.
LEMMA UpsertKeeps ==
    ASSUME TypeOK, IndexMatchesRecords, NEW t \in Txs, NEW rec, NEW entries,
           UpsertTransaction(t, rec, entries), entries \subseteq Keys,
           \A e \in entries : EntryFits(e, t),
           \E e \in entries : e.addr = rec.wallet
    PROVE  /\ IndexMatchesRecords'
           /\ record'[t] = <<rec>>
           /\ \A u \in Txs : u # t => record'[u] = record[u]
<1>1. /\ record'[t] = <<rec>> /\ record'[t] # <<>> /\ record'[t][1] = rec
      /\ \A u \in Txs : u # t => record'[u] = record[u]
  BY Zenon DEF UpsertTransaction, TypeOK
<1>2. ASSUME NEW k \in index'
      PROVE  /\ record'[k.sig] # <<>> /\ Touches(k.sig, k.addr)
             /\ From[k.sig] # To[k.sig] => (k.direction = "sent" <=> k.addr = From[k.sig])
  <2>1. CASE k \in entries
    BY Zenon, <1>1, <2>1 DEF EntryFits
  <2>2. CASE k \in index
    BY Zenon, <1>1, <2>2 DEF IndexMatchesRecords, TypeOK, Keys
  <2> QED
    BY Zenon, <2>1, <2>2 DEF UpsertTransaction
<1>3. ASSUME NEW u \in Txs, record'[u] # <<>>
      PROVE  \E k \in index' : k.sig = u /\ k.addr = record'[u][1].wallet
  <2>1. CASE u = t
    BY Zenon, <1>1, <2>1 DEF UpsertTransaction, EntryFits
  <2>2. CASE u # t
    <3>1. PICK k \in index : k.sig = u /\ k.addr = record[u][1].wallet
      BY Zenon, <1>1, <1>3, <2>2 DEF IndexMatchesRecords
    <3>2. \A e \in entries : <<k.addr, k.stamp, k.sig>> # <<e.addr, e.stamp, e.sig>>
      BY Zenon, <3>1, <2>2 DEF EntryFits
    <3>3. k \in index'
      BY Zenon, <3>2 DEF UpsertTransaction
    <3> QED
      BY Zenon, <1>1, <2>2, <3>1, <3>3
  <2> QED
    BY Zenon, <2>1, <2>2
<1> QED
  BY Zenon, <1>1, <1>2, <1>3 DEF IndexMatchesRecords

\* Records stay, tell what the chain did, and agree with the index.
LEMMA RecordsStay ==
    ASSUME IInv, [Next]_vars
    PROVE  /\ RecordsTruthful' /\ IndexMatchesRecords'
           /\ \A t \in Txs : record[t] # <<>> => record'[t] # <<>>
<1>0. /\ TypeOK /\ RecordsTruthful /\ IndexMatchesRecords /\ RecordStep
      /\ \A t \in Txs : ChainOK(t)
  BY Zenon, FrameStep DEF IInv
<1>1. \A t \in Txs : fate[t] \in Executed => fate'[t] = fate[t]
  BY Zenon, <1>0, ChainStays DEF ChainOK
<1>2. \A t \in Txs : record[t] # <<>> => fate'[t] = fate[t]
  <2>1. record \in [Txs -> {<<>>} \cup {<<r>> : r \in Records}]
    BY Zenon, <1>0 DEF TypeOK
  <2> QED
    BY Zenon, <1>0, <1>1, <2>1, RecordStatus DEF RecordsTruthful
<1>3. CASE UNCHANGED <<record, index>>
  BY Zenon, <1>0, <1>2, <1>3 DEF RecordsTruthful, IndexMatchesRecords
<1>4. ASSUME NEW t \in Txs, NEW rec, NEW entries,
             UpsertTransaction(t, rec, entries), entries \subseteq Keys,
             \A e \in entries : EntryFits(e, t),
             \E e \in entries : e.addr = rec.wallet,
             rec.status = fate[t], fate[t] \in Executed, Touches(t, rec.wallet)
      PROVE  /\ RecordsTruthful' /\ IndexMatchesRecords'
             /\ \A u \in Txs : record[u] # <<>> => record'[u] # <<>>
  <2>1. /\ IndexMatchesRecords'
        /\ record'[t] = <<rec>>
        /\ \A u \in Txs : u # t => record'[u] = record[u]
    BY Zenon, <1>0, <1>4, UpsertKeeps
  <2>2. fate'[t] = fate[t]
    BY Zenon, <1>1, <1>4
  <2>3. record'[t] # <<>> /\ record'[t][1] = rec
    BY Zenon, <2>1, OneRecord
  <2>4. ASSUME NEW u \in Txs, record'[u] # <<>>
        PROVE  record'[u][1].status = fate'[u] /\ Touches(u, record'[u][1].wallet)
    <3>1. CASE u = t
      BY Zenon, <1>4, <2>2, <2>3, <3>1
    <3>2. CASE u # t
      BY Zenon, <1>0, <1>2, <2>1, <2>4, <3>2 DEF RecordsTruthful
    <3> QED
      BY Zenon, <3>1, <3>2
  <2>5. RecordsTruthful'
    BY Zenon, <2>4 DEF RecordsTruthful
  <2> QED
    BY Zenon, <2>1, <2>3, <2>5
<1>5. ASSUME NEW s \in Sends, SendStore(s)
      PROVE  /\ RecordsTruthful' /\ IndexMatchesRecords'
             /\ \A u \in Txs : record[u] # <<>> => record'[u] # <<>>
  <2> DEFINE rec == SendRecord(s)
             entries == SendEntries(s)
  <2>1. UpsertTransaction(s, rec, entries) \/ UNCHANGED <<record, index>>
    BY Zenon, <1>5 DEF SendStore, SendRecord, SendEntries
  <2>2. s \in Txs /\ fate[s] = "Confirmed"
    BY Zenon, <1>5 DEF IInv, SendOK, SendStore, Txs
  <2>3. entries \subseteq Keys
    BY Zenon, SendEntriesType
  <2>4. \A e \in entries : EntryFits(e, s)
    <3>1. EntryFits(IndexKey(To[s], Now, s, "received"), s)
      BY Zenon DEF EntryFits, IndexKey, Touches
    <3>2. From[s] # To[s] => EntryFits(IndexKey(From[s], Now, s, "sent"), s)
      BY Zenon DEF EntryFits, IndexKey, Touches
    <3> QED
      BY Zenon, <3>1, <3>2 DEF SendEntries
  <2>5. \E e \in entries : e.addr = From[s]
    <3>1. CASE From[s] = To[s]
      <4>1. IndexKey(To[s], Now, s, "received").addr = From[s]
        BY Zenon, <3>1 DEF IndexKey
      <4> QED
        BY Zenon, <4>1 DEF SendEntries
    <3>2. CASE From[s] # To[s]
      <4>1. IndexKey(From[s], Now, s, "sent").addr = From[s]
        BY Zenon DEF IndexKey
      <4>2. IndexKey(From[s], Now, s, "sent") \in entries
        BY Zenon, <3>2 DEF SendEntries
      <4> QED
        BY Zenon, <4>1, <4>2
    <3> QED
      BY Zenon, <3>1, <3>2
  <2>6. rec.wallet = From[s] /\ rec.status = "Confirmed" /\ Touches(s, From[s])
    BY Zenon DEF Touches, SendRecord
  <2> HIDE DEF rec, entries
  <2> QED
    BY Zenon, <1>3, <1>4, <2>1, <2>2, <2>3, <2>4, <2>5, <2>6 DEF Executed
<1>6. ASSUME NEW p \in Readers, PollStore(p)
      PROVE  /\ RecordsTruthful' /\ IndexMatchesRecords'
             /\ \A u \in Txs : record[u] # <<>> => record'[u] # <<>>
  <2> DEFINE w == target[p]
             rec(t) == PollRecord(w, t)
             key(t) == PollEntry(w, t)
  <2>1. PICK t \in todo[p] : UpsertTransaction(t, rec(t), {key(t)})
    BY Zenon, <1>6 DEF PollStore, PollEntry
  <2>2. /\ w \in Wallets /\ t \in Txs /\ Touches(t, w)
        /\ fate[t] \in Executed
    BY Zenon, <1>0, <1>6 DEF IInv, PollStore, PollOK, ChainOK, TypeOK, Polling
  <2>3. key(t) \in Keys /\ EntryFits(key(t), t) /\ key(t).addr = w
    <3>1. key(t) \in Keys
      BY Zenon, <2>2, PollEntryType
    <3> QED
      BY Zenon, <2>2, <3>1 DEF PollEntry, IndexKey, EntryFits, Touches
  <2>4. rec(t).wallet = w /\ rec(t).status = fate[t]
    BY Zenon DEF PollRecord
  <2> HIDE DEF w, rec, key
  <2>5. {key(t)} \subseteq Keys /\ (\A e \in {key(t)} : EntryFits(e, t))
        /\ (\E e \in {key(t)} : e.addr = rec(t).wallet) /\ Touches(t, rec(t).wallet)
    BY Zenon, <2>2, <2>3, <2>4
  <2> QED
    BY Zenon, <1>4, <2>1, <2>2, <2>4, <2>5
<1> QED
  BY Zenon, <1>0, <1>3, <1>5, <1>6 DEF RecordStep

-----------------------------------------------------------------------------
(* Coverage.                                                               *)

\* Every step grows.
LEMMA GrowStep == IInv /\ [Next]_vars => Grow
BY Zenon, ChainStays, RecordsStay, FrameStep DEF Grow, IInv

\* What is covered up to a height that was reached stays covered.
LEMMA CoveredStays ==
    ASSUME Grow, at \in [Txs -> Nat], at' \in [Txs -> Nat],
           NEW w, NEW n \in Nat, n <= Height, NEW S,
           \A t \in Txs : at[t] \in 1..n /\ Touches(t, w) =>
               record[t] # <<>> \/ <<w, t>> \in missed \/ t \in S
    PROVE  \A t \in Txs : at'[t] \in 1..n /\ Touches(t, w) =>
               record'[t] # <<>> \/ <<w, t>> \in missed' \/ t \in S
<1> SUFFICES ASSUME NEW t \in Txs, at'[t] \in 1..n, Touches(t, w)
             PROVE  record'[t] # <<>> \/ <<w, t>> \in missed' \/ t \in S
  BY Zenon
<1>1. at'[t] = at[t]
  <2>1. at'[t] \in Nat /\ Height \in Nat /\ at'[t] <= n
    BY Zenon, HeightType, UpTo
  <2>2. ~(at'[t] > Height)
    BY Zenon, <2>1, LeqTrans, LeqOrOver
  <2> QED
    BY Zenon, <2>2 DEF Grow
<1> QED
  BY Zenon, <1>1 DEF Grow

\* The same for Covered.
LEMMA CoveredFully ==
    ASSUME Grow, at \in [Txs -> Nat], at' \in [Txs -> Nat],
           NEW w, NEW n \in Nat, n <= Height,
           \A t \in Txs : at[t] \in 1..n /\ Touches(t, w) =>
               record[t] # <<>> \/ <<w, t>> \in missed
    PROVE  \A t \in Txs : at'[t] \in 1..n /\ Touches(t, w) =>
               record'[t] # <<>> \/ <<w, t>> \in missed'
<1> SUFFICES ASSUME NEW t \in Txs, at'[t] \in 1..n, Touches(t, w)
             PROVE  record'[t] # <<>> \/ <<w, t>> \in missed'
  BY Zenon
<1>1. at'[t] = at[t]
  <2>1. at'[t] \in Nat /\ Height \in Nat /\ at'[t] <= n
    BY Zenon, HeightType, UpTo
  <2>2. ~(at'[t] > Height)
    BY Zenon, <2>1, LeqTrans, LeqOrOver
  <2> QED
    BY Zenon, <2>2 DEF Grow
<1> QED
  BY Zenon, <1>1 DEF Grow

\* A signature that was on the chain keeps its place, which is in the chain.
LEMMA PlaceStays ==
    ASSUME IInv, Grow, NEW x \in Txs \cup {NoTx}, OnChain(x)
    PROVE  /\ x = NoTx \/ at'[x] # 0
           /\ (IF x = NoTx THEN 0 ELSE at'[x]) = Place(x)
           /\ Place(x) \in Nat /\ Place(x) <= Height
<1>1. Height \in Nat /\ 0 \in Nat /\ 0 <= Height
  BY Zenon, HeightType, ZeroLeq
<1>2. CASE x = NoTx
  BY Zenon, <1>1, <1>2 DEF Place
<1>3. CASE x # NoTx
  <2>1. x \in Txs /\ at[x] # 0 /\ Place(x) = at[x]
    BY Zenon, <1>3 DEF OnChain, Place
  <2>2. at[x] \in Nat /\ at[x] <= Height
    BY Zenon, <2>1 DEF IInv, TypeOK, ChainOK
  <2>3. at'[x] = at[x]
    BY Zenon, <2>1 DEF Grow
  <2> QED
    BY Zenon, <1>3, <2>1, <2>2, <2>3
<1> QED
  BY Zenon, <1>2, <1>3

\* What a wallet's checkpoint and cooldown promise survives every step that
\* leaves them alone.
LEMMA WalletFrame ==
    ASSUME IInv, Grow, TypeOK', NEW w \in Wallets, lastSig'[w] = lastSig[w],
           w \in cooling' => w \in cooling /\ synced'[w] = synced[w],
           synced'[w] = synced[w]
    PROVE  WalletOK(w)'
<1>0. WalletOK(w) /\ TypeOK /\ lastSig[w] \in Txs \cup {NoTx} /\ synced[w] \in Nat
  BY Zenon DEF IInv, TypeOK
<1>1. /\ OnChain(lastSig[w])' /\ Place(lastSig[w])' = Place(lastSig[w])
      /\ Place(lastSig[w]) \in Nat /\ Place(lastSig[w]) <= Height
  BY Zenon, <1>0, PlaceStays DEF WalletOK, OnChain, Place
<1>2. synced'[w] <= Height'
  <2>1. synced[w] <= Height
    BY Zenon, <1>0 DEF WalletOK
  <2>2. Height <= Height'
    BY Zenon DEF Grow
  <2>3. synced'[w] = synced[w] /\ synced[w] \in Nat
    BY Zenon, <1>0
  <2> QED
    BY Zenon, <2>1, <2>2, <2>3, HeightType, HeightTypeNext, LeqTrans
<1>3. Covered(w, Place(lastSig[w]))'
  <2>1. Covered(w, Place(lastSig[w]))
    BY Zenon, <1>0 DEF WalletOK
  <2> QED
    BY Zenon, <1>0, <1>1, <2>1, CoveredFully DEF Covered, TypeOK
<1>4. w \in cooling' => Covered(w, synced[w])'
  <2>1. w \in cooling => Covered(w, synced[w]) /\ synced[w] <= Height
    BY Zenon, <1>0 DEF WalletOK
  <2> QED
    BY Zenon, <1>0, <2>1, CoveredFully DEF Covered, TypeOK
<1> QED
  BY Zenon, <1>1, <1>2, <1>3, <1>4 DEF WalletOK

\* What a poll in flight knows survives every step of others.
LEMMA PollFrame ==
    ASSUME IInv, Grow, TypeOK', NEW q \in Readers, pc'[q] = pc[q],
           target'[q] = target[q], until'[q] = until[q], todo'[q] = todo[q],
           newest'[q] = newest[q], asOf'[q] = asOf[q]
    PROVE  PollOK(q)'
<1> SUFFICES ASSUME pc[q] \in Polling
             PROVE  PollOK(q)'
  BY Zenon DEF PollOK
<1>0. /\ PollOK(q) /\ TypeOK /\ target[q] \in Wallets /\ asOf[q] \in Nat
      /\ until[q] \in Txs \cup {NoTx} /\ OnChain(until[q])
      /\ pc[q] # "fetch" => asOf[q] <= Height
  BY Zenon DEF IInv, TypeOK, PollOK
<1>1. /\ OnChain(until[q])' /\ Place(until[q])' = Place(until[q])
      /\ Place(until[q]) \in Nat /\ Place(until[q]) <= Height
  BY Zenon, <1>0, PlaceStays DEF OnChain, Place
<1>2. pc[q] # "fetch" => asOf'[q] <= Height'
  BY Zenon, <1>0, HeightType, HeightTypeNext, LeqTrans DEF Grow
<1>3. pc[q] = "fetch" => Covered(target[q], Place(until[q]))'
  <2>1. pc[q] = "fetch" => Covered(target[q], Place(until[q]))
    BY Zenon, <1>0 DEF PollOK
  <2> QED
    BY Zenon, <1>0, <1>1, <2>1, CoveredFully DEF Covered, TypeOK
<1>4. ASSUME pc[q] \in {"scan", "detail"}
      PROVE  /\ newest'[q] \in Txs /\ at'[newest'[q]] # 0 /\ at'[newest'[q]] <= asOf'[q]
             /\ \A t \in todo'[q] : at'[t] # 0 /\ Touches(t, target'[q])
             /\ CoveredBut(target[q], asOf[q], todo[q])'
  <2>1. /\ newest[q] \in Txs /\ at[newest[q]] # 0 /\ at[newest[q]] <= asOf[q]
        /\ \A t \in todo[q] : t \in Txs /\ at[t] # 0 /\ Touches(t, target[q])
        /\ CoveredBut(target[q], asOf[q], todo[q])
    BY Zenon, <1>0, <1>4 DEF PollOK, TypeOK
  <2>2. CoveredBut(target[q], asOf[q], todo[q])'
    <3>1. asOf[q] <= Height
      BY Zenon, <1>0, <1>4
    <3> QED
      BY Zenon, <1>0, <2>1, <3>1, CoveredStays DEF CoveredBut, TypeOK
  <2> QED
    BY Zenon, <2>1, <2>2 DEF Grow
<1>5. pc[q] \in {"invalidate", "cool"} => Covered(target[q], asOf[q])'
  <2>1. pc[q] \in {"invalidate", "cool"} =>
            Covered(target[q], asOf[q]) /\ asOf[q] <= Height
    BY Zenon, <1>0 DEF PollOK
  <2> QED
    BY Zenon, <1>0, <2>1, CoveredFully DEF Covered, TypeOK
<1> QED
  BY Zenon, <1>0, <1>1, <1>2, <1>3, <1>4, <1>5 DEF PollOK

\* How a reader moves when it is not its own step.
LEMMA OthersPoll ==
    ASSUME TypeOK, NEW q \in Readers, [Next]_vars, ~PollAddress(q),
           ~ListTransactions(q), ~AskAgain(q), ~GetTransactionStatus(q)
    PROVE  \/ /\ pc'[q] = pc[q]
              /\ target'[q] = target[q] /\ until'[q] = until[q] /\ todo'[q] = todo[q]
              /\ newest'[q] = newest[q] /\ asOf'[q] = asOf[q]
           \/ pc'[q] \notin Polling
<1> USE DEF Goto, pollVars, TypeOK
<1>0. q \in Requests /\ \A s \in Sends : s # q /\ s \in Requests
  BY Zenon, CallsAssumption DEF Requests
<1> DEFINE Same == /\ pc'[q] = pc[q]
                   /\ target'[q] = target[q] /\ until'[q] = until[q] /\ todo'[q] = todo[q]
                   /\ newest'[q] = newest[q] /\ asOf'[q] = asOf[q]
<1>1. ASSUME NEW s \in Sends, SendTransaction(s)
      PROVE  Same
  BY Zenon, <1>0, <1>1 DEF SendTransaction, SendReject, SendCheck, SendLookAta, SendSubmit,
              SendFails, SendConfirmed, SendUnconfirmed, SendStore
<1>2. ASSUME NEW p \in Readers, PollAddress(p), p # q
      PROVE  Same
  <2>1. p \in Requests
    BY Zenon DEF Requests
  <2>2. CASE FetchSigs(p) \/ FetchNothing(p) \/ Scan(p) \/ PollStore(p) \/ PollStoreFails(p)
    BY Zenon, <1>0, <1>2, <2>1, <2>2 DEF FetchSigs, FetchNothing, Scan, PollStore, PollStoreFails
  <2>3. CASE FetchFails(p) \/ Checkpoint(p) \/ PollDbFails(p) \/ PollInvalidate(p)
    BY Zenon, <1>0, <1>2, <2>1, <2>3 DEF FetchFails, Checkpoint, PollDbFails, PollInvalidate,
       PollFails, EndPoll
  <2> QED
    BY Zenon, <1>2, <2>2, <2>3 DEF PollAddress
<1>3. ASSUME NEW p \in Readers, p # q,
             ListTransactions(p) \/ AskAgain(p) \/ GetTransactionStatus(p)
      PROVE  Same
  <2>1. p \in Requests
    BY Zenon DEF Requests
  <2>2. CASE Sync(p) \/ SyncDone(p)
    BY Zenon, <1>0, <1>3, <2>1, <2>2 DEF Sync, SyncDone, StartPoll, EndPoll
  <2>3. CASE ~(Sync(p) \/ SyncDone(p))
    BY Zenon, <1>0, <1>3, <2>1, <2>3 DEF ListTransactions, AskAgain, GetTransactionStatus,
       ReadReject, ListCached, ListRead, ListPut, StatusRead, ReadFails
  <2> QED
    BY Zenon, <2>2, <2>3
<1>4. ASSUME \/ \E t \in Txs : ChainExecute(t)
             \/ \E w \in Wallets : CooldownEnds(w) \/ PageExpires(w)
             \/ UNCHANGED vars
      PROVE  Same
  BY Zenon, <1>4 DEF ChainExecute, CooldownEnds, PageExpires, vars
<1>5. ASSUME NEW r \in Requests, Disconnect(r)
      PROVE  Same \/ pc'[q] = "error"
  <2>1. CASE r = q
    BY Zenon, <1>0, <1>5, <2>1 DEF Disconnect, EndPoll
  <2>2. CASE r # q
    BY Zenon, <1>0, <1>5, <2>2 DEF Disconnect, EndPoll
  <2> QED
    BY Zenon, <2>1, <2>2
<1>6. CASE Restart
  BY Zenon, <1>0, <1>6 DEF Restart, Polling, Done
<1> QED
  BY Zenon, <1>1, <1>2, <1>3, <1>4, <1>5, <1>6, Steps DEF Polling

\* What a poll in flight knows after a step of its own.
LEMMA PollOwn ==
    ASSUME IInv, Grow, TypeOK', NEW p \in Readers, PollAddress(p)
    PROVE  PollOK(p)'
<1> USE DEF Goto, chainVars, dbVars, histVars, pollVars
<1> DEFINE w == target[p]
<1>0. /\ TypeOK /\ PollOK(p) /\ p \in Requests /\ Height \in Nat
      /\ \A t \in Txs : at[t] \in Nat /\ at[t] <= Height
  BY Zenon, HeightType DEF IInv, TypeOK, ChainOK, Requests
<1>1. CASE FetchSigs(p)
  <2> DEFINE sigs == Page(w, until[p])
  <2>1. /\ w \in Wallets /\ OnChain(until[p]) /\ Covered(w, Place(until[p]))
        /\ until[p] \in Txs \cup {NoTx} /\ Place(until[p]) \in Nat
    <3>1. pc[p] = "fetch" /\ until[p] \in Txs \cup {NoTx}
      BY Zenon, <1>0, <1>1 DEF FetchSigs, TypeOK
    <3>2. Place(until[p]) \in Nat
      BY Zenon, <1>0, <3>1 DEF Place
    <3> QED
      BY Zenon, <1>0, <3>1, <3>2 DEF PollOK, Polling
  <2>2. PICK t \in sigs : newest' = [newest EXCEPT ![p] = t]
    BY Zenon, <1>1 DEF FetchSigs
  <2>3. /\ pc'[p] = "scan" /\ target'[p] = w /\ until'[p] = until[p]
        /\ todo'[p] = sigs /\ newest'[p] = t /\ asOf'[p] = Height
        /\ at' = at /\ record' = record
        /\ missed' = missed \cup {<<w, u>> : u \in Newer(w, until[p]) \ sigs}
    BY Zenon, <1>0, <1>1, <2>2 DEF FetchSigs, TypeOK
  <2>4. Height' = Height
    BY Zenon, <2>3 DEF Height
  <2>5. ASSUME NEW u \in sigs
        PROVE  u \in Txs /\ at[u] # 0 /\ Touches(u, w)
    <3>1. u \in Txs /\ at[u] > Place(until[p]) /\ Touches(u, w)
      BY Zenon DEF Page, Newer
    <3>2. at[u] \in Nat
      BY Zenon, <1>0, <3>1
    <3> QED
      BY Zenon, <2>1, <3>1, <3>2, OverZero
  <2>6. ASSUME NEW u \in Txs, at[u] \in 1..Height, Touches(u, w)
        PROVE  record[u] # <<>> \/ <<w, u>> \in missed' \/ u \in sigs
    <3>0. at[u] \in Nat /\ at[u] # 0 /\ Place(until[p]) \in Nat
      BY Zenon, <1>0, <2>1, <2>6, UpTo
    <3>1. CASE at[u] <= Place(until[p])
      <4>1. at[u] \in 1..Place(until[p])
        BY Zenon, <3>0, <3>1, UpTo
      <4>2. record[u] # <<>> \/ <<w, u>> \in missed
        BY Zenon, <2>1, <2>6, <4>1 DEF Covered
      <4> QED
        BY Zenon, <2>3, <4>2
    <3>2. CASE ~(at[u] <= Place(until[p]))
      <4>1. at[u] > Place(until[p])
        BY Zenon, <3>0, <3>2, LeqOrOver
      <4>2. u \in Newer(w, until[p])
        BY Zenon, <2>6, <4>1 DEF Newer
      <4> QED
        BY Zenon, <2>3, <4>2
    <3> QED
      BY Zenon, <3>1, <3>2
  <2>7. CoveredBut(target[p], asOf[p], todo[p])'
    BY Zenon, <2>3, <2>6 DEF CoveredBut
  <2>8. OnChain(until[p])' /\ target'[p] \in Wallets
    BY Zenon, <2>1, <2>3 DEF OnChain
  <2>9. /\ newest'[p] \in Txs /\ at'[newest'[p]] # 0 /\ at'[newest'[p]] <= asOf'[p]
        /\ asOf'[p] <= Height'
    <3>1. t \in Txs /\ at[t] # 0 /\ at[t] <= Height /\ Height <= Height
      BY Zenon, <1>0, <2>2, <2>5, LeqRefl
    <3> QED
      BY Zenon, <2>3, <2>4, <3>1
  <2>10. \A u \in todo'[p] : at'[u] # 0 /\ Touches(u, target'[p])
    BY Zenon, <2>3, <2>5
  <2> HIDE DEF w, sigs
  <2> QED
    BY Zenon, <2>3, <2>7, <2>8, <2>9, <2>10 DEF PollOK
<1>2. CASE FetchNothing(p)
  <2>1. /\ w \in Wallets /\ OnChain(until[p]) /\ Covered(w, Place(until[p]))
        /\ until[p] \in Txs \cup {NoTx} /\ Place(until[p]) \in Nat
    BY Zenon, <1>0, <1>2 DEF FetchNothing, PollOK, Polling, Place, TypeOK
  <2>2. /\ pc'[p] = "cool" /\ target'[p] = w /\ until'[p] = until[p] /\ asOf'[p] = Height
        /\ at' = at /\ record' = record /\ missed' = missed /\ Newer(w, until[p]) = {}
    BY Zenon, <1>0, <1>2 DEF FetchNothing, TypeOK
  <2>3. Height' = Height
    BY Zenon, <2>2 DEF Height
  <2>4. ASSUME NEW u \in Txs, at[u] \in 1..Height, Touches(u, w)
        PROVE  record[u] # <<>> \/ <<w, u>> \in missed
    <3>0. at[u] \in Nat /\ at[u] # 0 /\ Place(until[p]) \in Nat
      BY Zenon, <1>0, <2>1, <2>4, UpTo
    <3>1. ~(at[u] > Place(until[p]))
      BY Zenon, <2>2, <2>4 DEF Newer
    <3>2. at[u] \in 1..Place(until[p])
      BY Zenon, <3>0, <3>1, UpTo, LeqOrOver
    <3> QED
      BY Zenon, <2>1, <2>4, <3>2 DEF Covered
  <2>5. Covered(target[p], asOf[p])'
    BY Zenon, <2>2, <2>4 DEF Covered
  <2>6. OnChain(until[p])' /\ target'[p] \in Wallets /\ asOf'[p] <= Height'
    BY Zenon, <1>0, <2>1, <2>2, <2>3, LeqRefl DEF OnChain
  <2> HIDE DEF w
  <2> QED
    BY Zenon, <2>2, <2>5, <2>6 DEF PollOK
<1>3. CASE FetchFails(p) \/ PollDbFails(p)
  <2>1. pc'[p] = "read"
    BY Zenon, <1>0, <1>3 DEF FetchFails, PollDbFails, PollFails, EndPoll, TypeOK
  <2> QED
    BY Zenon, <2>1 DEF PollOK, Polling
<1>4. ASSUME NEW t \in todo[p], pc[p] \in {"scan", "detail"}, pc'[p] = "scan",
             at' = at, target'[p] = w, until'[p] = until[p], newest'[p] = newest[p],
             asOf'[p] = asOf[p], todo'[p] = todo[p] \ {t},
             record'[t] # <<>> \/ <<w, t>> \in missed'
      PROVE  PollOK(p)'
  <2>1. Height' = Height
    BY Zenon, <1>4 DEF Height
  <2>2. CoveredBut(target[p], asOf[p], todo[p])'
    BY Zenon, <1>0, <1>4 DEF PollOK, Polling, CoveredBut, Grow
  <2> QED
    BY Zenon, <1>0, <1>4, <2>1, <2>2 DEF PollOK, OnChain, Polling
<1>5. CASE Scan(p)
  <2>1. PICK t \in todo[p] :
          IF record[t] # <<>>
          THEN todo' = [todo EXCEPT ![p] = @ \ {t}] /\ pc' = pc
          ELSE pc' = [pc EXCEPT ![p] = "detail"] /\ todo' = todo
    BY Zenon, <1>5 DEF Scan
  <2>2. /\ pc[p] = "scan" /\ at' = at /\ target' = target /\ until' = until
        /\ newest' = newest /\ asOf' = asOf /\ record' = record /\ missed' = missed
    BY Zenon, <1>5 DEF Scan
  <2>3. CASE record[t] # <<>>
    BY Zenon, <1>0, <1>4, <2>1, <2>2, <2>3 DEF TypeOK
  <2>4. CASE record[t] = <<>>
    <3>1. pc'[p] = "detail" /\ todo' = todo
      BY Zenon, <1>0, <2>1, <2>4 DEF TypeOK
    <3>2. Height' = Height
      BY Zenon, <2>2 DEF Height
    <3> QED
      BY Zenon, <1>0, <2>2, <3>1, <3>2 DEF PollOK, OnChain, Polling, CoveredBut
  <2> QED
    BY Zenon, <2>3, <2>4
<1>6. CASE PollStore(p)
  <2>1. PICK t \in todo[p] :
          /\ record' = [record EXCEPT ![t] = <<PollRecord(w, t)>>]
          /\ todo' = [todo EXCEPT ![p] = @ \ {t}]
    BY Zenon, <1>6 DEF PollStore, UpsertTransaction
  <2>2. /\ pc[p] = "detail" /\ at' = at /\ target' = target /\ until' = until
        /\ newest' = newest /\ asOf' = asOf /\ pc'[p] = "scan"
    BY Zenon, <1>0, <1>6 DEF PollStore, TypeOK
  <2>3. t \in Txs /\ record'[t] # <<>> /\ todo'[p] = todo[p] \ {t}
    BY Zenon, <1>0, <2>1 DEF TypeOK
  <2> QED
    BY Zenon, <1>4, <2>2, <2>3
<1>7. CASE PollStoreFails(p)
  <2>1. PICK t \in todo[p] :
          /\ missed' = missed \cup {<<w, t>>}
          /\ todo' = [todo EXCEPT ![p] = @ \ {t}]
    BY Zenon, <1>7 DEF PollStoreFails
  <2>2. /\ pc[p] = "detail" /\ at' = at /\ target' = target /\ until' = until
        /\ newest' = newest /\ asOf' = asOf /\ pc'[p] = "scan"
    BY Zenon, <1>0, <1>7 DEF PollStoreFails, TypeOK
  <2>3. <<w, t>> \in missed' /\ todo'[p] = todo[p] \ {t}
    BY Zenon, <1>0, <2>1 DEF TypeOK
  <2> QED
    BY Zenon, <1>4, <2>2, <2>3
<1>8. CASE Checkpoint(p) \/ PollInvalidate(p)
  <2>1. /\ pc'[p] \in {"invalidate", "cool"} /\ at' = at /\ record' = record
        /\ missed' = missed /\ target' = target /\ until' = until /\ asOf' = asOf
    BY Zenon, <1>0, <1>8 DEF Checkpoint, PollInvalidate, TypeOK
  <2>2. Height' = Height
    BY Zenon, <2>1 DEF Height
  <2>3. /\ w \in Wallets /\ OnChain(until[p]) /\ asOf[p] <= Height
        /\ Covered(w, asOf[p])
    BY Zenon, <1>0, <1>8 DEF Checkpoint, PollInvalidate, PollOK, Polling, Covered, CoveredBut
  <2> QED
    BY Zenon, <2>1, <2>2, <2>3 DEF PollOK, OnChain, Covered
<1> QED
  BY Zenon, <1>1, <1>2, <1>3, <1>5, <1>6, <1>7, <1>8 DEF PollAddress

\* Every poll in flight knows what PollOK says after every step.
LEMMA PollStays ==
    ASSUME IInv, [Next]_vars, NEW q \in Readers
    PROVE  PollOK(q)'
<1> USE DEF Goto
<1>0. /\ TypeOK /\ TypeOK' /\ Grow /\ q \in Requests /\ PollOK(q)
      /\ For[q] \in Wallets
  BY Zenon, TypeStep, GrowStep, ReadersAssumption DEF IInv, Requests
<1>1. CASE PollAddress(q)
  BY Zenon, <1>0, <1>1, PollOwn
<1>2. CASE ListTransactions(q) \/ AskAgain(q) \/ GetTransactionStatus(q)
  <2>1. CASE Sync(q)
    <3>1. CASE For[q] \in cooling
      <4>1. pc'[q] = "read"
        BY Zenon, <1>0, <2>1, <3>1 DEF Sync, TypeOK
      <4> QED
        BY Zenon, <4>1 DEF PollOK, Polling
    <3>2. CASE For[q] \notin cooling
      <4>1. /\ pc'[q] = "fetch" /\ target'[q] = For[q] /\ until'[q] = lastSig[For[q]]
            /\ at' = at /\ record' = record /\ missed' = missed
        BY Zenon, <1>0, <2>1, <3>2 DEF Sync, StartPoll, TypeOK, chainVars, dbVars, histVars
      <4>2. OnChain(lastSig[For[q]]) /\ Covered(For[q], Place(lastSig[For[q]]))
        BY Zenon, <1>0 DEF IInv, WalletOK
      <4> QED
        BY Zenon, <1>0, <4>1, <4>2 DEF PollOK, OnChain, Covered, Place
    <3> QED
      BY Zenon, <3>1, <3>2
  <2>2. CASE SyncDone(q)
    <3>1. pc'[q] = "read"
      BY Zenon, <1>0, <2>2 DEF SyncDone, EndPoll, TypeOK
    <3> QED
      BY Zenon, <3>1 DEF PollOK, Polling
  <2>3. CASE ~(Sync(q) \/ SyncDone(q))
    <3>1. pc'[q] \in {"start", "ok", "error", "put"}
      BY Zenon, <1>0, <1>2, <2>3 DEF ListTransactions, AskAgain, GetTransactionStatus, ReadReject,
         ListCached, ListRead, ListPut, StatusRead, ReadFails, TypeOK
    <3> QED
      BY Zenon, <3>1 DEF PollOK, Polling
  <2> QED
    BY Zenon, <2>1, <2>2, <2>3
<1>3. CASE ~(PollAddress(q) \/ ListTransactions(q) \/ AskAgain(q) \/ GetTransactionStatus(q))
  <2>1. CASE pc'[q] \notin Polling
    BY Zenon, <2>1 DEF PollOK
  <2> QED
    BY Zenon, <1>0, <1>3, <2>1, OthersPoll, PollFrame
<1> QED
  BY Zenon, <1>1, <1>2, <1>3

\* Which steps touch a checkpoint or a cooldown.
LEMMA WalletStep ==
    ASSUME TypeOK, [Next]_vars
    PROVE  \/ lastSig' = lastSig /\ synced' = synced /\ cooling' \subseteq cooling
           \/ \E p \in Readers : Checkpoint(p) \/ SyncDone(p)
<1> USE DEF dbVars, histVars
<1> DEFINE Same == lastSig' = lastSig /\ synced' = synced /\ cooling' \subseteq cooling
<1>1. ASSUME NEW s \in Sends, SendTransaction(s)
      PROVE  Same
  BY Zenon, <1>1 DEF SendTransaction, SendReject, SendCheck, SendLookAta, SendSubmit,
              SendFails, SendConfirmed, SendUnconfirmed, SendStore
<1>2. ASSUME NEW p \in Readers, PollAddress(p), ~Checkpoint(p)
      PROVE  Same
  BY Zenon, <1>2 DEF PollAddress, FetchSigs, FetchNothing, FetchFails, Scan, PollStore,
              PollStoreFails, PollDbFails, PollInvalidate
<1>3. ASSUME NEW p \in Readers, ~SyncDone(p),
             ListTransactions(p) \/ AskAgain(p) \/ GetTransactionStatus(p)
      PROVE  Same
  BY Zenon, <1>3 DEF ListTransactions, AskAgain, GetTransactionStatus, ReadReject, ListCached,
              Sync, ListRead, ListPut, StatusRead, ReadFails
<1>4. ASSUME \/ \E t \in Txs : ChainExecute(t)
             \/ \E w \in Wallets : CooldownEnds(w) \/ PageExpires(w)
             \/ \E r \in Requests : Disconnect(r)
             \/ Restart
             \/ UNCHANGED vars
      PROVE  Same
  BY Zenon, <1>4 DEF ChainExecute, CooldownEnds, PageExpires, Disconnect, Restart, vars
<1> QED
  BY Zenon, <1>1, <1>2, <1>3, <1>4, Steps

\* Every wallet's checkpoint and cooldown keep their promise.
LEMMA WalletStays ==
    ASSUME IInv, [Next]_vars, NEW w \in Wallets
    PROVE  WalletOK(w)'
<1> USE DEF chainVars, dbVars, histVars
<1>0. TypeOK /\ TypeOK' /\ Grow /\ WalletOK(w) /\ Height \in Nat
  BY Zenon, TypeStep, GrowStep, HeightType DEF IInv
<1>1. CASE lastSig' = lastSig /\ synced' = synced /\ cooling' \subseteq cooling
  BY Zenon, <1>0, <1>1, WalletFrame
<1>2. ASSUME NEW p \in Readers, Checkpoint(p)
      PROVE  WalletOK(w)'
  <2>1. /\ at' = at /\ record' = record /\ missed' = missed /\ synced' = synced
        /\ cooling' = cooling /\ lastSig' = [lastSig EXCEPT ![target[p]] = newest[p]]
        /\ todo[p] = {}
    BY Zenon, <1>2 DEF Checkpoint
  <2>2. CASE w # target[p]
    BY Zenon, <1>0, <2>1, <2>2, WalletFrame DEF TypeOK
  <2>3. CASE w = target[p]
    <3>1. lastSig'[w] = newest[p] /\ Height' = Height
      BY Zenon, <1>0, <2>1, <2>3 DEF TypeOK, Height
    <3>2. /\ newest[p] \in Txs /\ at[newest[p]] # 0 /\ at[newest[p]] <= asOf[p]
          /\ asOf[p] \in Nat /\ at[newest[p]] \in Nat
          /\ CoveredBut(w, asOf[p], {})
      <4>1. PollOK(p) /\ pc[p] = "scan" /\ asOf[p] \in Nat
        BY Zenon, <1>0, <1>2 DEF Checkpoint, IInv, TypeOK
      <4>2. /\ newest[p] \in Txs /\ at[newest[p]] # 0 /\ at[newest[p]] <= asOf[p]
            /\ CoveredBut(target[p], asOf[p], todo[p])
        BY Zenon, <4>1 DEF PollOK, Polling
      <4> QED
        BY Zenon, <1>0, <2>1, <2>3, <4>1, <4>2 DEF CoveredBut, TypeOK
    <3>3. Place(newest[p]) = at[newest[p]]
      BY Zenon, <3>2, TxsAssumption DEF Place
    <3>4. Covered(w, Place(lastSig[w]))'
      <4>1. Place(lastSig[w])' = at[newest[p]]
        BY Zenon, <2>1, <3>1, <3>3 DEF Place
      <4>2. ASSUME NEW t \in Txs, at[t] \in 1..at[newest[p]], Touches(t, w)
            PROVE  record[t] # <<>> \/ <<w, t>> \in missed
        <5>1. at[t] \in 1..asOf[p]
          BY Zenon, <1>0, <3>2, <4>2, UpTo, LeqTrans
        <5> QED
          BY Zenon, <3>2, <4>2, <5>1 DEF CoveredBut
      <4> QED
        BY Zenon, <2>1, <4>1, <4>2 DEF Covered
    <3> QED
      <4>1. synced'[w] <= Height' /\ (w \in cooling' => Covered(w, synced[w])')
        BY Zenon, <1>0, <2>1, <3>1 DEF WalletOK, Covered
      <4> QED
        BY Zenon, <2>1, <3>1, <3>2, <3>4, <4>1 DEF WalletOK, OnChain
  <2> QED
    BY Zenon, <2>2, <2>3
<1>3. ASSUME NEW p \in Readers, SyncDone(p)
      PROVE  WalletOK(w)'
  <2>1. /\ at' = at /\ record' = record /\ missed' = missed /\ lastSig' = lastSig
        /\ \/ /\ cooling' = cooling \cup {target[p]}
              /\ synced' = [synced EXCEPT ![target[p]] = asOf[p]]
           \/ UNCHANGED <<cooling, synced>>
    BY Zenon, <1>3 DEF SyncDone
  <2>2. Height' = Height
    BY Zenon, <2>1 DEF Height
  <2>3. /\ asOf[p] <= Height
        /\ Covered(target[p], asOf[p])
    BY Zenon, <1>3 DEF SyncDone, IInv, PollOK, Polling
  <2>4. CASE w = target[p] /\ w \in cooling' /\ synced'[w] = asOf[p]
    BY Zenon, <1>0, <2>1, <2>2, <2>3, <2>4 DEF WalletOK, OnChain, Covered, Place
  <2>5. CASE ~(w = target[p] /\ w \in cooling' /\ synced'[w] = asOf[p])
    <3>1. synced'[w] = synced[w] /\ (w \in cooling' => w \in cooling)
      BY Zenon, <1>0, <2>1, <2>5 DEF TypeOK
    <3> QED
      BY Zenon, <1>0, <2>1, <3>1, WalletFrame
  <2> QED
    BY Zenon, <2>4, <2>5
<1> QED
  BY Zenon, <1>0, <1>1, <1>2, <1>3, WalletStep

-----------------------------------------------------------------------------
(* The theorems.                                                           *)

\* The invariant is inductive.
LEMMA NextInv == IInv /\ [Next]_vars => IInv'
<1> SUFFICES ASSUME IInv, [Next]_vars
             PROVE  IInv'
  BY Zenon
<1>1. TypeOK' /\ RecordsTruthful' /\ IndexMatchesRecords' /\ \A t \in Txs : ChainOK(t)'
  BY Zenon, TypeStep, RecordsStay, ChainStays
<1>2. \A s \in Sends : SendOK(s)'
  BY Zenon, SendStays
<1>3. \A p \in Readers : PollOK(p)'
  BY Zenon, PollStays
<1>4. \A w \in Wallets : WalletOK(w)'
  BY Zenon, WalletStays
<1> QED
  BY Zenon, <1>1, <1>2, <1>3, <1>4 DEF IInv

\* The invariant holds in every state.
LEMMA Invariance == Spec => []IInv
<1>1. Init => IInv
  BY Zenon, InitInv
<1>2. IInv /\ [Next]_vars => IInv'
  BY Zenon, NextInv
<1> QED
  BY <1>1, <1>2, PTL DEF Spec

\* The chain, redb, the cache and the locals of the handlers keep their types
\* through overlapping calls, failed writes and restarts.
THEOREM TypeCorrect == Spec => []TypeOK
<1>1. IInv => TypeOK
  BY Zenon DEF IInv
<1> QED
  BY <1>1, Invariance, PTL

\* A record tells what the chain did, whoever wrote it: send_transaction after
\* its confirmation or poll_address after its await.
THEOREM RecordsTruthfulHolds == Spec => []RecordsTruthful
<1>1. IInv => RecordsTruthful
  BY Zenon DEF IInv
<1> QED
  BY <1>1, Invariance, PTL

\* The index of upsert_transaction and the records agree in every state.
THEOREM IndexMatchesRecordsHolds == Spec => []IndexMatchesRecords
<1>1. IInv => IndexMatchesRecords
  BY Zenon DEF IInv
<1> QED
  BY <1>1, Invariance, PTL

\* The checkpoint of poll_address passes no transaction in silence, for any
\* number of overlapping polls, page size, failures and restarts.
THEOREM CheckpointCoversHolds == Spec => []CheckpointCovers
<1>1. IInv => CheckpointCovers
  BY Zenon DEF IInv, WalletOK, CheckpointCovers
<1> QED
  BY <1>1, Invariance, PTL

\* sync_address_once skips a poll only when a successful one stands in for it.
THEOREM CooldownEarnedHolds == Spec => []CooldownEarned
<1>1. IInv => CooldownEarned
  BY Zenon DEF IInv, WalletOK, CooldownEarned, TypeOK
<1> QED
  BY <1>1, Invariance, PTL

\* A transfer answered with 200 by send_transaction was executed.
THEOREM OkExecutedHolds == Spec => []OkExecuted
<1>1. IInv => OkExecuted
  BY Zenon DEF IInv, SendOK, OkExecuted
<1> QED
  BY <1>1, Invariance, PTL

=============================================================================
