------------------------------- MODULE Wallets -------------------------------
(***************************************************************************)
(* The custodial wallets: create_wallet and delete_wallet (api/wallets.rs),*)
(* suspend_wallet and activate_wallet (api/admin.rs), running concurrently *)
(* on two worker threads, over                                             *)
(*                                                                         *)
(*   - the encrypted file system: wallet.meta.json and keypair.json of     *)
(*     each wallet (WalletRepository);                                     *)
(*   - redb: the table WALLET_BY_OWNER (user -> wallet), which is how a    *)
(*     user's wallet is found, and ADDRESS_WALLET_MAP, which the indexer   *)
(*     polls.                                                              *)
(*                                                                         *)
(* A wallet id is a fresh UUID, so the wallet is named after the call that *)
(* creates it.  The metadata other than the status never changes, so a     *)
(* metadata file is its status.  Everything up to the audit event runs     *)
(* without an await; calls still interleave, on the two threads.           *)
(***************************************************************************)
EXTENDS Naturals, FiniteSets

CONSTANTS
    Creates,      \* calls of create_wallet, and the wallets they create
    Deletes,      \* calls of delete_wallet
    Changes,      \* calls of suspend_wallet and activate_wallet
    Users,
    By,           \* By[r]: the user (token.sub) of the call r
    DbMayFail,    \* whether a redb write may fail (it is only logged)
    None          \* no wallet

Wallets == Creates
Calls == Creates \cup Deletes \cup Changes

ASSUME CallsAssumption ==
    /\ Creates \cap Deletes = {} /\ Creates \cap Changes = {} /\ Deletes \cap Changes = {}
    /\ None \notin Calls
ASSUME ByAssumption == By \in [Creates \cup Deletes -> Users]
ASSUME DbAssumption == DbMayFail \in BOOLEAN

VARIABLES
    status,       \* status[w]: the status in w's metadata file, or "NoFile"
    keypair,      \* the wallets whose keypair file is there
    addresses,    \* ADDRESS_WALLET_MAP: the wallets whose address is polled
    walletOf,     \* WALLET_BY_OWNER: walletOf[u], or None
    step,         \* step[r]: where the call r is
    target,       \* target[r]: the wallet a deletion or a change is about
    goal,         \* goal[r]: the status a change will write
    unindexed     \* (history) creations whose write to WALLET_BY_OWNER failed

walletVars == <<status, keypair, addresses, walletOf, step, target, goal, unindexed>>

Terminal == {"ok", "rejected", "failed", "lost"}
CallLabels == Terminal \cup
    {"start", "keypair", "address", "owner", "save_deleted", "unregister",
     "save_status", "audit"}

WalletInit ==
    /\ status = [w \in Wallets |-> "NoFile"]
    /\ keypair = {}
    /\ addresses = {}
    /\ walletOf = [u \in Users |-> None]
    /\ step = [r \in Calls |-> "start"]
    /\ target = [r \in Deletes \cup Changes |-> None]
    /\ goal = [r \in Changes |-> "Active"]
    /\ unindexed = {}

StepTo(r, label) == step' = [step EXCEPT ![r] = label]

\* Missing, not owned, deleted: the handler returns before any effect.
RejectCall(r) ==
    /\ step[r] = "start"
    /\ StepTo(r, "rejected")
    /\ UNCHANGED <<status, keypair, addresses, walletOf, target, goal, unindexed>>

\* A file cannot be written: the handler returns the error.
StorageFails(r) ==
    /\ step[r] \in {"start", "keypair", "save_deleted", "save_status"}
    /\ StepTo(r, "failed")
    /\ UNCHANGED <<status, keypair, addresses, walletOf, target, goal, unindexed>>

\* The audit event is written with awaits: the client may go away meanwhile.
Audit(r) ==
    /\ step[r] = "audit"
    /\ \E end \in {"ok", "lost"} : StepTo(r, end)
    /\ UNCHANGED <<status, keypair, addresses, walletOf, target, goal, unindexed>>

-----------------------------------------------------------------------------
(* create_wallet: the files first, then the indexes.                       *)

CreateMeta(r) ==
    /\ step[r] = "start"
    /\ status[r] = "NoFile"
    /\ status' = [status EXCEPT ![r] = "Active"]
    /\ StepTo(r, "keypair")
    /\ UNCHANGED <<keypair, addresses, walletOf, target, goal, unindexed>>

\* (Mutant) A failed write of the keypair is only logged.
CreateKeypairUnchecked(r) ==
    /\ step[r] = "keypair"
    /\ keypair' \in {keypair, keypair \cup {r}}
    /\ StepTo(r, "address")
    /\ UNCHANGED <<status, addresses, walletOf, target, goal, unindexed>>

CreateKeypair(r) ==
    /\ step[r] = "keypair"
    /\ keypair' = keypair \cup {r}
    /\ StepTo(r, "address")
    /\ UNCHANGED <<status, addresses, walletOf, target, goal, unindexed>>

RegisterAddress(r) ==
    /\ step[r] = "address"
    /\ \/ addresses' = addresses \cup {r}
       \/ DbMayFail /\ addresses' = addresses
    /\ StepTo(r, "owner")
    /\ UNCHANGED <<status, keypair, walletOf, target, goal, unindexed>>

\* (Mutant) The look-up of an earlier wallet is left out.
RegisterOwnerBlind(r) ==
    /\ step[r] = "owner"
    /\ walletOf' = [walletOf EXCEPT ![By[r]] = r]
    /\ StepTo(r, "audit")
    /\ UNCHANGED <<status, keypair, addresses, target, goal, unindexed>>

\* register_wallet_owner looks and inserts in one transaction.  A duplicate
\* is reported, with the files of the new wallet left in place; any other
\* error is only logged.
RegisterOwner(r) ==
    /\ step[r] = "owner"
    /\ \/ /\ walletOf[By[r]] = None
          /\ walletOf' = [walletOf EXCEPT ![By[r]] = r]
          /\ StepTo(r, "audit")
          /\ UNCHANGED unindexed
       \/ /\ walletOf[By[r]] # None
          /\ StepTo(r, "rejected")
          /\ UNCHANGED <<walletOf, unindexed>>
       \/ /\ DbMayFail
          /\ StepTo(r, "audit")
          /\ unindexed' = unindexed \cup {r}
          /\ UNCHANGED walletOf
    /\ UNCHANGED <<status, keypair, addresses, target, goal>>

CreateWallet(r) ==
    \/ RejectCall(r) \/ StorageFails(r)
    \/ CreateMeta(r) \/ CreateKeypair(r) \/ RegisterAddress(r) \/ RegisterOwner(r)
    \/ Audit(r)

-----------------------------------------------------------------------------
(* delete_wallet: any wallet of the caller, deleted already or not.        *)

DeleteLoad(r) ==
    /\ step[r] = "start"
    /\ \E w \in Wallets :
          /\ status[w] # "NoFile"
          /\ By[w] = By[r]
          /\ target' = [target EXCEPT ![r] = w]
    /\ StepTo(r, "save_deleted")
    /\ UNCHANGED <<status, keypair, addresses, walletOf, goal, unindexed>>

DeleteSave(r) ==
    /\ step[r] = "save_deleted"
    /\ status' = [status EXCEPT ![target[r]] = "Deleted"]
    /\ StepTo(r, "unregister")
    /\ UNCHANGED <<keypair, addresses, walletOf, target, goal, unindexed>>

\* The caller's entry is removed, whichever wallet it names.
Unregister(r) ==
    /\ step[r] = "unregister"
    /\ \/ walletOf' = [walletOf EXCEPT ![By[r]] = None]
       \/ DbMayFail /\ UNCHANGED walletOf
    /\ StepTo(r, "audit")
    /\ UNCHANGED <<status, keypair, addresses, target, goal, unindexed>>

DeleteWallet(r) ==
    \/ RejectCall(r) \/ StorageFails(r)
    \/ DeleteLoad(r) \/ DeleteSave(r) \/ Unregister(r) \/ Audit(r)

-----------------------------------------------------------------------------
(* suspend_wallet and activate_wallet: load, check, write back.            *)

\* (Mutant) A deleted wallet is not refused.
ChangeLoadAny(r) ==
    /\ step[r] = "start"
    /\ \E w \in Wallets, s \in {"Suspended", "Active"} :
          /\ status[w] # "NoFile"
          /\ target' = [target EXCEPT ![r] = w]
          /\ goal' = [goal EXCEPT ![r] = s]
    /\ StepTo(r, "save_status")
    /\ UNCHANGED <<status, keypair, addresses, walletOf, unindexed>>

ChangeLoad(r) ==
    /\ step[r] = "start"
    /\ \E w \in Wallets, s \in {"Suspended", "Active"} :
          /\ status[w] \notin {"NoFile", "Deleted"}
          /\ target' = [target EXCEPT ![r] = w]
          /\ goal' = [goal EXCEPT ![r] = s]
    /\ StepTo(r, "save_status")
    /\ UNCHANGED <<status, keypair, addresses, walletOf, unindexed>>

ChangeSave(r) ==
    /\ step[r] = "save_status"
    /\ status' = [status EXCEPT ![target[r]] = goal[r]]
    /\ StepTo(r, "audit")
    /\ UNCHANGED <<keypair, addresses, walletOf, target, goal, unindexed>>

ChangeStatus(r) ==
    \/ RejectCall(r) \/ StorageFails(r)
    \/ ChangeLoad(r) \/ ChangeSave(r) \/ Audit(r)

-----------------------------------------------------------------------------

\* The enclave stops and is started again; files and redb stay.
WalletRestart ==
    /\ \E r \in Calls : step[r] \notin Terminal \cup {"start"}
    /\ step' = [r \in Calls |->
                 IF step[r] \in Terminal \cup {"start"} THEN step[r] ELSE "lost"]
    /\ UNCHANGED <<status, keypair, addresses, walletOf, target, goal, unindexed>>

WalletNext ==
    \/ \E r \in Creates : CreateWallet(r)
    \/ \E r \in Deletes : DeleteWallet(r)
    \/ \E r \in Changes : ChangeStatus(r)
    \/ WalletRestart

WalletSpec == WalletInit /\ [][WalletNext]_walletVars

-----------------------------------------------------------------------------
(* Correctness.                                                            *)

WalletTypeOK ==
    /\ status \in [Wallets -> {"NoFile", "Active", "Suspended", "Deleted"}]
    /\ keypair \subseteq Wallets
    /\ addresses \subseteq Wallets
    /\ walletOf \in [Users -> Wallets \cup {None}]
    /\ step \in [Calls -> CallLabels]
    /\ target \in [Deletes \cup Changes -> Wallets \cup {None}]
    /\ goal \in [Changes -> {"Active", "Suspended"}]
    /\ unindexed \subseteq Wallets

\* What the index names can be used: get_active_wallet_for_user finds a
\* wallet of this very user with both its files, and an address that is
\* polled has its wallet's files (create_wallet writes the files first,
\* whatever fails or restarts in between).
IndexBacked ==
    /\ \A u \in Users :
          walletOf[u] # None => /\ By[walletOf[u]] = u
                                /\ status[walletOf[u]] # "NoFile"
                                /\ walletOf[u] \in keypair
    /\ \A w \in addresses : status[w] # "NoFile" /\ w \in keypair

NothingDeleted(u) == \A d \in Deletes : By[d] = u => target[d] = None

\* The wallet of a user that has deleted nothing stays the user's wallet:
\* no concurrent or later create_wallet replaces it (register_wallet_owner).
IndexIsStable ==
    [][\A u \in Users :
          walletOf[u] # None /\ walletOf'[u] # walletOf[u]
          => walletOf'[u] = None /\ ~NothingDeleted(u)]_walletVars

\* Of all the create_wallet calls of a user that has deleted nothing, at
\* most one is answered 201 ("enforces 1-wallet-per-user", api/wallets.rs),
\* those set aside whose write to the index failed and was only logged.
OneCreated ==
    \A r, q \in Creates \ unindexed :
        /\ By[r] = By[q] /\ NothingDeleted(By[r])
        /\ step[r] = "ok" /\ step[q] = "ok"
        => r = q

ChangeUnderWay(w) == \E r \in Changes : step[r] = "save_status" /\ target[r] = w

\* A deletion that no status change overlaps is final: whatever is created,
\* refused ("cannot activate a deleted wallet"), failed or restarted later,
\* the wallet stays deleted.  (A status change that loaded the wallet before
\* its deletion writes it back as it was.)
DeletionIsFinal ==
    [][\A w \in Wallets :
          status[w] = "Deleted" /\ ~ChangeUnderWay(w) =>
              status'[w] = "Deleted" /\ ~ChangeUnderWay(w)']_walletVars

=============================================================================
