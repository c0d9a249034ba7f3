--------------------------- MODULE DashboardSession ---------------------------
(***************************************************************************)
(* The dashboard's session of one browser (dashboard/app.py).  Flask keeps *)
(* the session in a signed cookie: a request works on the copy it arrived  *)
(* with, and its response replaces the browser's whole cookie if the       *)
(* session was modified or is permanent.  Requests run in threads of their *)
(* own, so the response that arrives last decides what the session is.     *)
(*                                                                         *)
(* Keycloak and the gateway are external: a rotated refresh token works    *)
(* once, any access token may have expired when it is used, and any call   *)
(* may fail, with or without having taken effect.  The dashboard's own     *)
(* response may be lost, or its worker die before there is one.            *)
(***************************************************************************)
EXTENDS Naturals, Sequences

CONSTANTS
    Threads,     \* requests that may be in flight at once
    Users, Admins,
    MaxTokens,   \* bound on the tokens Keycloak issues
    None

ASSUME DashboardAssumption ==
    /\ Admins \subseteq Users
    /\ MaxTokens \in Nat
    /\ None \notin Nat

VARIABLES
    cookie,      \* the session as the browser holds it
    thread,      \* of each thread: the request it serves
    owner,       \* of each grant of Keycloak: the user it was made to; its
                 \* number names the access and the refresh token issued
    spent,       \* refresh tokens that Keycloak has replaced
    dropped,     \* those of them whose request was lost with its response
    signed,      \* what the user did last: signed "in" or "out", or "revived"
                 \* once an answer to an earlier request undid a logout
    overlapped   \* whether requests have ever overlapped

vars == <<cookie, thread, owner, spent, dropped, signed, overlapped>>

Pasted == 0      \* an access token that this dashboard did not obtain
Grants == 1 .. MaxTokens

\* oidc_state says whether there is one; user stands for preferred_username,
\* email and roles.
Sessions == [oidc_state : BOOLEAN, access : {Pasted, None} \cup Grants,
             refresh : Grants \cup {None}, user : Users \cup {None}, permanent : BOOLEAN]

NoSession == [oidc_state |-> FALSE, access |-> None, refresh |-> None, user |-> None,
              permanent |-> FALSE]

Kinds == {"callback", "logout", "save", "call", "other"}

IdleThread == [pc |-> "idle", kind |-> "other", session |-> NoSession, modified |-> FALSE,
               token |-> None, ok |-> FALSE, runs |-> 0, replaced |-> None,
               late |-> FALSE]

TypeOK ==
    /\ cookie \in Sessions
    /\ thread \in [Threads ->
         [pc : {"idle", "exchange", "userinfo", "call", "refresh", "retry", "respond"},
          kind : Kinds, session : Sessions, modified : BOOLEAN,
          token : {Pasted, None} \cup Grants, ok : BOOLEAN, runs : Nat,
          replaced : Grants \cup {None}, late : BOOLEAN]]
    /\ owner \in Seq(Users)
    /\ spent \subseteq Grants /\ dropped \subseteq Grants
    /\ signed \in {"in", "out", "revived"}
    /\ overlapped \in BOOLEAN

Init ==
    /\ cookie = NoSession
    /\ thread = [t \in Threads |-> IdleThread]
    /\ owner = <<>> /\ spent = {} /\ dropped = {}
    /\ signed = "out" /\ overlapped = FALSE

-----------------------------------------------------------------------------
\* A thread takes up a request with a copy of the cookie.
Begin(t, request) ==
    /\ thread[t].pc = "idle"
    /\ thread' = [thread EXCEPT ![t] = request]
    /\ overlapped' = (overlapped \/ \E u \in Threads \ {t} : thread[u].pc # "idle")
    /\ UNCHANGED <<cookie, owner, spent, dropped, signed>>

\* The request k has its response: with the session, if that is written back.
Answered(k, ok, session, modified, runs) ==
    LET writes == modified \/ session.permanent IN
    [k EXCEPT !.pc = "respond", !.ok = ok, !.token = None, !.runs = runs,
              !.modified = writes, !.session = IF writes THEN session ELSE NoSession]

\* A request that its handler answers at once.
Handle(t, kind, session, modified) ==
    Begin(t, Answered([IdleThread EXCEPT !.kind = kind], TRUE, session, modified, 0))

\* /auth/login: a new state, and a redirect to Keycloak.
auth_login(t) == Handle(t, "other", [cookie EXCEPT !.oidc_state = TRUE], TRUE)

\* /auth/callback up to the token exchange.  Without the state of the latest
\* login it is refused, like a page.
auth_callback(t) ==
    /\ cookie.oidc_state
    /\ Begin(t, [IdleThread EXCEPT !.pc = "exchange", !.kind = "callback", !.modified = TRUE,
                                   !.session = [cookie EXCEPT !.oidc_state = FALSE]])

\* Faulty variant of SignedOut: only the access token goes.
SignedOut_AccessOnly == [cookie EXCEPT !.access = None]

\* session.clear()
SignedOut == NoSession

auth_logout(t) == Handle(t, "logout", SignedOut, TRUE)

\* /session/token: the user pastes an access token.
save_session_token(t) == Handle(t, "save", [cookie EXCEPT !.access = Pasted], TRUE)

\* /session/token/clear: every pop that finds its key modifies the session.
clear_session_token(t) ==
    LET left == [cookie EXCEPT !.access = None, !.refresh = None, !.user = None]
    IN Handle(t, "other", left, left # cookie)

\* Every request whose handler leaves the session alone: public pages, the
\* token status, and what _require_login, _is_admin or a check of the state or
\* the token turns away.
Page(t) == Handle(t, "other", cookie, FALSE)

\* _api_get and _api_post with auth_required, behind the guards of the page
\* that makes the call, and the evidence download: a token that comes with the
\* request goes before the session's.
ApiCall(t) ==
    \E token \in {cookie.access, Pasted} :
      Begin(t, [IdleThread EXCEPT !.pc = "call", !.kind = "call", !.session = cookie,
                                  !.token = token])

\* /admin: the page calls the gateway for a session with the admin role.
admin_panel(t) ==
    /\ cookie.access # None /\ cookie.user \in Admins
    /\ Begin(t, [IdleThread EXCEPT !.pc = "call", !.kind = "call", !.session = cookie,
                                   !.token = cookie.access])

-----------------------------------------------------------------------------
\* The thread's request continues at pc, or has its response.
Continue(t, pc) == thread' = [thread EXCEPT ![t].pc = pc]

Answer(t, ok, session, runs) ==
    thread' = [thread EXCEPT
      ![t] = Answered(@, ok, session, @.modified \/ session # @.session, runs)]

\* Keycloak's answer to the exchange of the code.  An exception, too, ends the
\* callback with the state popped and nothing else changed.
ExchangeCode(t) ==
    /\ thread[t].pc = "exchange"
    /\ \/ /\ Len(owner) < MaxTokens
          /\ \E u \in Users : owner' = Append(owner, u)
          /\ thread' = [thread EXCEPT ![t].pc = "userinfo", ![t].token = Len(owner')]
       \/ /\ Answer(t, FALSE, thread[t].session, 0)
          /\ UNCHANGED owner
    /\ UNCHANGED <<cookie, spent, dropped, signed, overlapped>>

\* Faulty variant of SignedIn: a user who is known keeps his name and roles.
SignedIn_KeepsUser(session, n) ==
    [session EXCEPT !.access = n, !.refresh = n, !.permanent = TRUE,
                    !.user = IF @ = None THEN owner[n] ELSE @]

SignedIn(session, n) ==
    [session EXCEPT !.access = n, !.refresh = n, !.permanent = TRUE, !.user = owner[n]]

\* The userinfo call: without its claims those of the access token are used, so
\* only an exception makes a difference.
FetchUserinfo(t) ==
    /\ thread[t].pc = "userinfo"
    /\ \/ Answer(t, TRUE, SignedIn(thread[t].session, thread[t].token), 0)
       \/ Answer(t, FALSE, thread[t].session, 0)
    /\ UNCHANGED <<cookie, owner, spent, dropped, signed, overlapped>>

\* What _auth_fail_response leaves of the session after an "expired" answer.
Reauth(session) == [session EXCEPT !.access = None, !.refresh = None]

\* Faulty variant of Failed: the request is sent again after a network error.
Failed_Resends(t, runs) ==
    IF thread[t].pc = "call"
    THEN thread' = [thread EXCEPT ![t].pc = "retry", ![t].runs = runs]
    ELSE Answer(t, FALSE, thread[t].session, runs)

\* requests raised: the answer is 500, and nobody knows whether the gateway
\* executed the request.
Failed(t, runs) == Answer(t, FALSE, thread[t].session, runs)

\* A call of the gateway.  It executes the request, or fails before or after
\* that; refuses the token for another reason; or finds it expired, which is
\* followed by one refresh and one more attempt.
CallGateway(t) ==
    LET k == thread[t] IN
    /\ k.pc \in {"call", "retry"}
    /\ \/ /\ k.token # None
          /\ \/ \E ok \in BOOLEAN : Answer(t, ok, k.session, k.runs + 1)
             \/ Failed(t, k.runs + 1)
       \/ Failed(t, k.runs)
       \/ Answer(t, FALSE, k.session, k.runs)
       \/ /\ k.token # None
          /\ IF k.pc = "call" /\ k.session.refresh # None
             THEN Continue(t, "refresh")
             ELSE Answer(t, FALSE, Reauth(k.session), k.runs)
    /\ UNCHANGED <<cookie, owner, spent, dropped, signed, overlapped>>

\* Faulty variant of Refreshed: a rotated refresh token is not kept.
Refreshed_AccessOnly(session, n, rotates) == [session EXCEPT !.access = n]

\* The session after a refresh; Keycloak may or may not send a refresh token.
Refreshed(session, n, rotates) ==
    [session EXCEPT !.access = n, !.refresh = IF rotates THEN n ELSE @]

\* _refresh_access_token_if_needed, and what its caller does with the result.
RefreshToken(t) ==
    LET old == thread[t].session.refresh
        n == Len(owner) + 1
        Failing(request) ==
          Answered(request, FALSE, Reauth(request.session), TRUE, request.runs)
    IN
    /\ thread[t].pc = "refresh"
    /\ \/ /\ old \notin spent /\ n <= MaxTokens
          /\ owner' = Append(owner, owner[old])
          /\ \E rotates \in BOOLEAN :
               LET k == [thread[t] EXCEPT !.replaced = IF rotates THEN old ELSE None] IN
               /\ spent' = IF rotates THEN spent \cup {old} ELSE spent
               /\ \/ thread' = [thread EXCEPT
                       ![t] = [k EXCEPT !.pc = "retry", !.token = n, !.modified = TRUE,
                                        !.session = Refreshed(@, n, rotates)]]
                  \/ thread' = [thread EXCEPT ![t] = Failing(k)]
       \/ /\ thread' = [thread EXCEPT ![t] = Failing(@)]
          /\ UNCHANGED <<owner, spent>>
    /\ UNCHANGED <<cookie, dropped, signed, overlapped>>

\* The response reaches the browser.
Respond(t) ==
    LET k == thread[t]
        tokens == {k.session.access, k.session.refresh} # {None}
    IN
    /\ k.pc = "respond"
    /\ cookie' = IF k.modified THEN k.session ELSE cookie
    /\ signed' = CASE k.kind = "logout" -> "out"
                   [] k.kind = "save" \/ (k.kind = "callback" /\ k.ok) -> "in"
                   [] k.late /\ k.modified /\ tokens -> "revived"
                   [] OTHER -> signed
    /\ thread' = [u \in Threads |->
         IF u = t THEN IdleThread
         ELSE [thread[u] EXCEPT !.late = thread[u].pc # "idle" /\ (@ \/ k.kind = "logout")]]
    /\ UNCHANGED <<owner, spent, dropped, overlapped>>

\* The browser never gets the response: the connection is lost, or the worker
\* dies wherever it is.  What Keycloak and the gateway have done stays.
Lose(t) ==
    /\ thread[t].pc # "idle"
    /\ dropped' = dropped \cup ({thread[t].replaced} \ {None})
    /\ thread' = [thread EXCEPT ![t] = IdleThread]
    /\ UNCHANGED <<cookie, owner, spent, signed, overlapped>>

Receive(t) ==
    \/ auth_login(t) \/ auth_logout(t) \/ save_session_token(t) \/ clear_session_token(t)
    \/ auth_callback(t) \/ Page(t) \/ ApiCall(t) \/ admin_panel(t)

Work(t) ==
    \/ ExchangeCode(t) \/ FetchUserinfo(t) \/ CallGateway(t) \/ RefreshToken(t)
    \/ Respond(t) \/ Lose(t)

Next == \E t \in Threads : Receive(t) \/ Work(t)

Spec == Init /\ [][Next]_vars

-----------------------------------------------------------------------------
\* The gateway executes a call at most once, although the dashboard may send it
\* twice, and exactly once if the answer is a success (_api_post, _api_get).
CalledOnce ==
    \A t \in Threads :
      /\ thread[t].runs <= 1
      /\ thread[t].kind = "call" /\ thread[t].ok => thread[t].runs = 1

\* Whatever order responses arrive in, the browser never holds the tokens of
\* one user with the name and roles of another; nor does a request work with
\* them.  A pasted access token is the exception.
SessionBelongsTogether ==
    \A s \in {cookie} \cup {thread[t].session : t \in Threads} :
      s.user # None =>
        /\ s.access \in Grants => owner[s.access] = s.user
        /\ s.refresh \in Grants => owner[s.refresh] = s.user

\* After a logout the browser holds no token until the user signs in or pastes
\* one, unless a request that was in flight during the logout is answered later.
LogoutSticks == signed = "out" => cookie.access = None /\ cookie.refresh = None

\* As long as requests do not overlap, the browser's refresh token is spent only
\* while the request that had Keycloak replace it is being served, or once that
\* request's own response was lost: the answers of Keycloak and of the gateway
\* may be lost at any point without leaving a spent token behind.
RefreshTokenLive ==
    ~overlapped /\ cookie.refresh \in spent =>
      cookie.refresh \in dropped \cup {thread[t].replaced : t \in Threads}
=============================================================================
