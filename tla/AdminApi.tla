------------------------------- MODULE AdminApi -------------------------------
(***************************************************************************)
(* The admin endpoints behind get_current_user: JwksCache decides who may  *)
(* enter AdminStore.  A request's token is validated as soon as its        *)
(* process has a key set, in the same step of the event loop; its handler  *)
(* runs in a later one.                                                    *)
(***************************************************************************)
EXTENDS AdminStore, JwksCache

CONSTANTS
    Roles,       \* the roles Keycloak may put in a token
    Tokens       \* the tokens clients present

\* What a bearer token comes down to: the key it names and was signed with
\* (None: no such key), its subject, if any, its roles, its expiry, and whether
\* its issuer and its audience are the expected ones.
ASSUME TokensAssumption ==
    /\ None \notin Roles \cup {"admin", "ADMIN"}
    /\ \A t \in Tokens :
         /\ t.kid \in KeyIds \cup {None}
         /\ {t.realm, t.client} \subseteq Seq(Roles)
         /\ t.exp \in Times \cup {Never}
         /\ {t.iss, t.aud} \subseteq BOOLEAN
         /\ t.sub # None => _extract_user_context(t) \in Users

VARIABLE token    \* of each request: the bearer token it presented

vars == <<clock, jwks_vars, admin_vars, token>>

Init ==
    /\ clock = 0
    /\ JwksInit
    /\ AdminInit
    /\ token = [r \in Requests |-> None]

\* get_current_user after fetch_jwks: with a key set the token decides, after
\* an exception nobody enters.  A token signed by Keycloak was signed before
\* its request arrived.
Validate(r, h) ==
    \/ /\ call'[r].pc = "asking"
       /\ UNCHANGED <<admin_vars, token>>
    \/ /\ call'[r].pc = "raised"
       /\ RefuseRequest(r)
       /\ UNCHANGED token
    \/ /\ call'[r].pc \in {"fresh", "stale"}
       /\ \E t \in Tokens :
            /\ t.kid # None => key[t.kid].from <= call'[r].now
            /\ token' = [token EXCEPT ![r] = t]
            /\ IF Authenticates(t, KeySet(r, h))
               THEN AcceptRequest(r, h, _extract_user_context(t))
               ELSE RefuseRequest(r)

\* A request without an Authorization header is refused at once.
ArriveAnonymous(r) ==
    /\ \E h \in Hosts : Idle(h)
    /\ call[r].pc = "none"
    /\ RefuseRequest(r)
    /\ UNCHANGED <<jwks_vars, token>>

Arrive(r, h) ==
    /\ Idle(h)
    /\ request[r].pc = "none"
    /\ StartFetch(r, h)
    /\ Validate(r, h)

ResumeValidation(r) ==
    /\ Idle(call[r].host)
    /\ FinishFetch(r)
    /\ Validate(r, call[r].host)

RunHandler(r) ==
    /\ \/ \E p \in Payloads : Handle(r, p)
       \/ CommitRow(r) \/ CommitAudit(r)
    /\ UNCHANGED <<jwks_vars, token>>

Keycloak ==
    /\ Rotate \/ \E r \in Requests : KeycloakAnswers(r)
    /\ UNCHANGED <<admin_vars, token>>

Restart(h) ==
    /\ ForgetKeys(h)
    /\ CrashHost(h)
    /\ UNCHANGED token

Tick ==
    /\ clock < MaxClock
    /\ clock' = clock + 1
    /\ UNCHANGED <<jwks_vars, admin_vars, token>>

Next ==
    \/ \E r \in Requests, h \in Hosts : Arrive(r, h)
    \/ \E r \in Requests : ArriveAnonymous(r) \/ ResumeValidation(r) \/ RunHandler(r)
    \/ Keycloak
    \/ \E h \in Hosts : Restart(h)
    \/ Tick

Spec == Init /\ [][Next]_vars

-----------------------------------------------------------------------------
\* Whoever stored a row or read a listing presented an unexpired admin token
\* signed with a key that Keycloak had not retired CacheTTL before, unless the
\* process could not reach Keycloak; and a good token is refused only if its
\* key is younger than CacheTTL, retired, or Keycloak out of reach
\* (fetch_jwks, _decode_token and _require_admin together).
AuthorityIsRecent ==
    \A r \in Requests :
      LET t == token[r] IN
      /\ request[r].id # 0 \/ request[r].pc = "listed" =>
           /\ "admin" \in {Lower(role) : role \in ToSet(t.realm \o t.client)}
           /\ call[r].now < t.exp
           /\ VERIFY_ISSUER => t.iss
           /\ call[r].pc = "fresh" => key[t.kid].until > call[r].now - CacheTTL
      /\ /\ request[r].pc = "unauthorized" /\ call[r].pc = "fresh"
         /\ t.kid # None /\ t.sub # None /\ t.exp = Never /\ t.iss /\ t.aud
         => \/ key[t.kid].from > call[r].now - CacheTTL
            \/ key[t.kid].until # Never
=============================================================================
