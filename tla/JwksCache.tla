------------------------------ MODULE JwksCache ------------------------------
(***************************************************************************)
(* Authentication (auth.rs): a request carries a token of the attestation  *)
(* service (AVS); its signing key is looked up in a cache of the service's *)
(* published keys, which any request that finds it older than the TTL      *)
(* fetches again.                                                          *)
(*                                                                         *)
(* The lock of the cache is not held during the fetch: several requests    *)
(* fetch at once, and the last to answer overwrites what the others        *)
(* stored, with a new time stamp, however old its answer is.  The service  *)
(* publishes and retires keys at any time.  A restart brings an empty      *)
(* cache and a new enclave key, to which tokens are bound.                 *)
(***************************************************************************)
EXTENDS Naturals

CONSTANTS
    Clients,      \* each sends one request after the other
    Kids,         \* key ids of the service
    Tokens,       \* what the clients send
    Needs,        \* the roles the routes ask for
    TTL,          \* JWKS_CACHE_TTL_SECS, in ticks
    MaxLife,      \* bound: processes that run one after the other
    NoCache, NoGrant

Roles == {"admin", "user", "analyst", "read_only"}

ASSUME TokensAssumption ==
    Tokens \subseteq [kid   : Kids,
                      life  : 0..MaxLife,            \* 0: no enclave claim
                      role  : Roles \cup {"none"},
                      sound : BOOLEAN]               \* signature, exp, aud, iss
ASSUME NeedsAssumption == Needs \subseteq Roles
ASSUME BoundsAssumption == TTL \in Nat \ {0} /\ MaxLife \in Nat \ {0}

VARIABLES
    published,    \* the keys the service serves
    retired,      \* the keys it has withdrawn for good
    cache,        \* jwks_cache: keys and their age in ticks
    life,         \* which process runs
    pc,           \* pc[c]: where the request of c is
    got,          \* got[c]: the keys it works with
    grant         \* grant[c]: the token that was let in, for which role

vars == <<published, retired, cache, life, pc, got, grant>>
service == <<published, retired>>

Done == {"granted", "unauthorized", "forbidden"}
Goto(c, label) == pc' = [pc EXCEPT ![c] = label]

Fresh == cache # NoCache /\ cache.age < TTL

Init ==
    /\ published = {}
    /\ retired = {}
    /\ cache = NoCache
    /\ life = 1
    /\ pc = [c \in Clients |-> "unauthorized"]
    /\ got = [c \in Clients |-> {}]
    /\ grant = [c \in Clients |-> NoGrant]

-----------------------------------------------------------------------------
(* get_decoding_keys and fetch_jwks.                                       *)

\* A header that is missing or not "Bearer ..." is refused at once.
Request(c) ==
    /\ pc[c] \in Done
    /\ \E label \in {"cache", "unauthorized"} : Goto(c, label)
    /\ grant' = [grant EXCEPT ![c] = NoGrant]
    /\ UNCHANGED <<service, cache, life, got>>

\* (Mutant) A hit makes the keys young again.
ReadCacheRenewing(c) ==
    /\ pc[c] = "cache"
    /\ IF Fresh
       THEN /\ got' = [got EXCEPT ![c] = cache.keys]
            /\ cache' = [cache EXCEPT !.age = 0]
            /\ Goto(c, "validate")
       ELSE Goto(c, "fetch") /\ UNCHANGED <<got, cache>>
    /\ UNCHANGED <<service, life, grant>>

ReadCache(c) ==
    /\ pc[c] = "cache"
    /\ IF Fresh
       THEN got' = [got EXCEPT ![c] = cache.keys] /\ Goto(c, "validate")
       ELSE Goto(c, "fetch") /\ UNCHANGED got
    /\ UNCHANGED <<service, cache, life, grant>>

\* The service answers with its EC keys; others are skipped.
FetchJwks(c) ==
    /\ pc[c] = "fetch"
    /\ got' = [got EXCEPT ![c] = published]
    /\ Goto(c, "store")
    /\ UNCHANGED <<service, cache, life, grant>>

\* No answer within 10 s, a status other than 2xx, no JSON.
FetchFails(c) ==
    /\ pc[c] = "fetch"
    /\ Goto(c, "unauthorized")
    /\ UNCHANGED <<service, cache, life, got, grant>>

StoreKeys(c) ==
    /\ pc[c] = "store"
    /\ cache' = [keys |-> got[c], age |-> 0]
    /\ Goto(c, "validate")
    /\ UNCHANGED <<service, life, got, grant>>

-----------------------------------------------------------------------------
(* validate_token and the extractors.                                      *)

\* (Mutant) The role a token does not name is "user".
RoleOfUser(t) == IF t.role = "none" THEN "user" ELSE t.role

RoleOf(t) == IF t.role = "none" THEN "read_only" ELSE t.role

HasRole(role, required) ==
    CASE required = "read_only" -> role \in {"admin", "user", "analyst", "read_only"}
      [] required = "analyst"   -> role \in {"admin", "user", "analyst"}
      [] required = "user"      -> role \in {"admin", "user"}
      [] required = "admin"     -> role = "admin"
      [] OTHER                  -> FALSE

\* The kid is among the keys, claims and signature hold, and the token is
\* bound to the key of this enclave.
ValidToken(t, keys) ==
    /\ t.kid \in keys
    /\ t.sound
    /\ t.life = life

\* The token and the route's role are looked at here for the first time.
Validate(c) ==
    /\ pc[c] = "validate"
    /\ \E t \in Tokens, n \in Needs :
          \/ /\ ~ValidToken(t, got[c])
             /\ Goto(c, "unauthorized")
             /\ UNCHANGED grant
          \/ /\ ValidToken(t, got[c])
             /\ ~HasRole(RoleOf(t), n)
             /\ Goto(c, "forbidden")
             /\ UNCHANGED grant
          \/ /\ ValidToken(t, got[c])
             /\ HasRole(RoleOf(t), n)
             /\ Goto(c, "granted")
             /\ grant' = [grant EXCEPT ![c] = [token |-> t, need |-> n]]
    /\ got' = [got EXCEPT ![c] = {}]
    /\ UNCHANGED <<service, cache, life>>

-----------------------------------------------------------------------------

Publish(k) ==
    /\ k \notin published \cup retired
    /\ published' = published \cup {k}
    /\ UNCHANGED <<retired, cache, life, pc, got, grant>>

Retire(k) ==
    /\ k \in published
    /\ published' = published \ {k}
    /\ retired' = retired \cup {k}
    /\ UNCHANGED <<cache, life, pc, got, grant>>

Tick ==
    /\ Fresh
    /\ cache' = [cache EXCEPT !.age = @ + 1]
    /\ UNCHANGED <<service, life, pc, got, grant>>

Restart ==
    /\ life < MaxLife
    /\ life' = life + 1
    /\ cache' = NoCache
    /\ pc' = [c \in Clients |-> IF pc[c] \in Done THEN pc[c] ELSE "unauthorized"]
    /\ got' = [c \in Clients |-> {}]
    /\ UNCHANGED <<service, grant>>

Serve(c) == ReadCache(c) \/ StoreKeys(c) \/ Validate(c)

Next ==
    \/ \E c \in Clients : Request(c) \/ Serve(c) \/ FetchJwks(c) \/ FetchFails(c)
    \/ \E k \in Kids : Publish(k) \/ Retire(k)
    \/ Tick
    \/ Restart

\* The server and the clock go on; the service owes nothing.
Fairness == WF_vars(Tick) /\ \A c \in Clients : WF_vars(Serve(c))

Spec == Init /\ [][Next]_vars /\ Fairness

-----------------------------------------------------------------------------

TypeOK ==
    /\ published \subseteq Kids
    /\ retired \subseteq Kids \ published
    /\ cache \in [keys : SUBSET Kids, age : 0..TTL] \cup {NoCache}
    /\ life \in 1..MaxLife
    /\ pc \in [Clients -> Done \cup {"cache", "fetch", "store", "validate"}]
    /\ got \in [Clients -> SUBSET Kids]
    /\ grant \in [Clients -> [token : Tokens, need : Needs] \cup {NoGrant}]

\* The hierarchy "admin > user > analyst > read_only", as a rank.
Rank(role) ==
    CASE role = "admin" -> 3 [] role = "user" -> 2 [] role = "analyst" -> 1 [] OTHER -> 0

\* Who is let in holds a sound token under a key the service has published,
\* bound to the process that answers (a token of an earlier life is refused
\* after a restart), of a rank that suffices; no role counts as the lowest.
GrantedIsEarned ==
    [][\A c \in Clients : pc[c] # "granted" /\ pc'[c] = "granted" =>
          /\ grant'[c].token.sound
          /\ grant'[c].token.kid \in published \cup retired
          /\ grant'[c].token.life = life
          /\ Rank(grant'[c].token.role) >= Rank(grant'[c].need)]_vars

\* A request may still let in a token under the key k.
Usable(k) ==
    \/ Fresh /\ k \in cache.keys
    \/ \E c \in Clients : pc[c] \in {"store", "validate"} /\ k \in got[c]

\* A key the service has retired goes out of use for good, although an old
\* answer may overwrite a newer one in the cache, and whether or not the
\* service can still be reached: every entry of the cache grows old.
RetiredKeyDies ==
    \A k \in Kids : k \in retired ~> []~Usable(k)
=============================================================================
