------------------------------ MODULE JwksCache ------------------------------
(***************************************************************************)
(* Token validation of the gateway: fetch_jwks, the key set each process   *)
(* caches (api_gateway/keycloak_config.py), and what _decode_token and     *)
(* _extract_user_context make of a token (api_gateway/auth_middleware.py). *)
(*                                                                         *)
(* fetch_jwks awaits Keycloak's answer, so other calls of its process run  *)
(* between its two halves.  Keycloak is external: it publishes a set of    *)
(* keys, replaces it as it likes and answers some calls.                   *)
(***************************************************************************)
EXTENDS GatewayRequests, Integers, Sequences, SequencesExt

CONSTANTS
    MaxKeys,     \* bound on the keys Keycloak publishes, numbered in this order
    CacheTTL,    \* _JWKS_CACHE_TTL
    Never,       \* a time no clock reaches
    VERIFY_ISSUER, VERIFY_AUDIENCE

ASSUME JwksAssumption ==
    /\ CacheTTL \in Nat \ {0}
    /\ MaxKeys \in Nat \ {0}
    /\ Never \in Nat /\ Never > MaxClock
    /\ {VERIFY_ISSUER, VERIFY_AUDIENCE} \subseteq BOOLEAN

VARIABLES
    key,         \* of each key: when Keycloak published and when it retired it
    cache,       \* of each process: _jwks_cache with _jwks_cache_ts, or None
    call         \* of each request: how far its fetch_jwks is, its local now and,
                 \* until it returns, its process and the keys it received

jwks_vars == <<key, cache, call>>

KeyIds == 1 .. MaxKeys

JwksTypeOK ==
    /\ key \in [KeyIds -> [from : Times \cup {Never}, until : Times \cup {Never}]]
    /\ cache \in [Hosts -> [keys : SUBSET KeyIds, ts : Times] \cup {None}]
    /\ call \in [Requests ->
         [pc : {"none", "asking", "answered", "failed", "fresh", "stale", "raised", "lost"},
          host : Hosts \cup {None}, now : Times, keys : SUBSET KeyIds]]

Published == {k \in KeyIds : key[k].from <= clock /\ key[k].until = Never}

JwksInit ==
    /\ key = [k \in KeyIds |-> [from |-> IF k = 1 THEN 0 ELSE Never, until |-> Never]]
    /\ cache = [h \in Hosts |-> None]
    /\ call = [c \in Requests |-> [pc |-> "none", host |-> None, now |-> 0, keys |-> {}]]

-----------------------------------------------------------------------------
\* Faulty variant of Cached: the cache is never refreshed.
Cached_Forever(h) == cache[h] # None

\* The cached key set is young enough to be used.
Cached(h) == cache[h] # None /\ clock - cache[h].ts < CacheTTL

\* fetch_jwks up to its await, or to its return of a cached key set.
StartFetch(c, h) ==
    /\ call[c].pc = "none"
    /\ call' = [call EXCEPT
         ![c] = [pc |-> IF Cached(h) THEN "fresh" ELSE "asking",
                 host |-> IF Cached(h) THEN None ELSE h, now |-> clock, keys |-> {}]]
    /\ UNCHANGED <<clock, key, cache>>

\* Faulty variant of CachedAt: the key set counts as new when it arrives.
CachedAt_Arrival(c) == clock

\* The timestamp a fetched key set is cached under: the local variable now.
CachedAt(c) == call[c].now

\* fetch_jwks resumes: it caches and returns what Keycloak answered, or falls
\* back on the cache as it is now, or raises.
FinishFetch(c) ==
    LET h == call[c].host
        Return(pc) == call' = [call EXCEPT ![c] = [pc |-> pc, host |-> None, now |-> @.now,
                                                   keys |-> {}]]
    IN
    \/ /\ call[c].pc = "answered"
       /\ cache' = [cache EXCEPT ![h] = [keys |-> call[c].keys, ts |-> CachedAt(c)]]
       /\ Return("fresh")
       /\ UNCHANGED <<clock, key>>
    \/ /\ call[c].pc = "failed"
       /\ Return(IF cache[h] = None THEN "raised" ELSE "stale")
       /\ UNCHANGED <<clock, key, cache>>

\* The key set that fetch_jwks returns when it returns one.
KeySet(c, h) == IF call[c].pc = "answered" THEN call[c].keys ELSE cache[h].keys

\* Keycloak's certs endpoint answers with the keys of the moment, or the
\* request fails or times out.
KeycloakAnswers(c) ==
    /\ call[c].pc = "asking"
    /\ \/ call' = [call EXCEPT ![c].pc = "answered", ![c].keys = Published]
       \/ call' = [call EXCEPT ![c].pc = "failed"]
    /\ UNCHANGED <<clock, key, cache>>

\* Keycloak starts to sign with a new key and retires some of the others.
Rotate ==
    /\ \E k \in KeyIds, retired \in SUBSET Published :
         /\ key[k].from = Never /\ key[k - 1].from # Never
         /\ key' = [j \in KeyIds |->
              CASE j = k -> [key[j] EXCEPT !.from = clock]
                [] j \in retired -> [key[j] EXCEPT !.until = clock]
                [] OTHER -> key[j]]
    /\ UNCHANGED <<clock, cache, call>>

\* A process restarts: its cache and the calls it was serving are gone.
ForgetKeys(h) ==
    /\ cache' = [cache EXCEPT ![h] = None]
    /\ call' = [c \in Requests |->
         IF call[c].host = h /\ call[c].pc \in {"asking", "answered", "failed"}
         THEN [call[c] EXCEPT !.pc = "lost", !.host = None, !.keys = {}] ELSE call[c]]
    /\ UNCHANGED <<clock, key>>

-----------------------------------------------------------------------------
\* _decode_token succeeds: the token names a key of the set, its signature
\* (made with that key) verifies, and its claims pass.
Decodes(token, keys) ==
    /\ token.kid \in keys
    /\ clock < token.exp
    /\ VERIFY_ISSUER => token.iss
    /\ VERIFY_AUDIENCE => token.aud

DefaultRoles == {"default-roles-forensics", "offline_access", "uma_authorization"}

_extract_roles(token) == token.realm \o token.client

\* _extract_user_context: role is the first role that Keycloak does not give
\* everyone.  Without a subject it raises, and get_current_user answers 401.
_extract_user_context(token) ==
    LET roles == _extract_roles(token)
        own == {i \in DOMAIN roles : /\ roles[i] \notin DefaultRoles
                                     /\ \A j \in 1 .. i - 1 : roles[j] \in DefaultRoles}
    IN [user_id |-> token.sub,
        role |-> IF own = {} THEN None
                 ELSE roles[CHOOSE i \in own : TRUE],
        roles |-> ToSet(roles)]

\* get_current_user returns a user for a token, given the key set.
Authenticates(token, keys) == Decodes(token, keys) /\ token.sub # None

-----------------------------------------------------------------------------
\* A cached key set is one that Keycloak published at its timestamp or later:
\* it has no key retired before and every key published before and not retired
\* (whichever of several concurrent fetches of the process finished last).
CacheHoldsItsTime ==
    \A h \in Hosts : cache[h] # None =>
      \A k \in KeyIds :
        /\ k \in cache[h].keys => key[k].until >= cache[h].ts
        /\ key[k].from < cache[h].ts /\ key[k].until = Never => k \in cache[h].keys
=============================================================================
