------------------------ MODULE DashboardSession_proofs ------------------------
(***************************************************************************)
(* The dashboard's session, for any number of users, of requests in flight *)
(* and of tokens: types, and the four invariants of DashboardSession.      *)
(*                                                                         *)
(* One inductive invariant, IInv, carries all of them.                     *)
(***************************************************************************)
EXTENDS DashboardSession, TLAPS

-----------------------------------------------------------------------------
(* The inductive invariant                                                 *)

Requests == [pc : {"idle", "exchange", "userinfo", "call", "refresh", "retry", "respond"},
             kind : Kinds, session : Sessions, modified : BOOLEAN,
             token : {Pasted, None} \cup Grants, ok : BOOLEAN, runs : Nat,
             replaced : Grants \cup {None}, late : BOOLEAN]

\* The tokens of a session were issued, and issued to its user; o is owner.
SessionOK(s, o) ==
    /\ s.access \in {Pasted, None} \cup 1 .. Len(o)
    /\ s.refresh \in {None} \cup 1 .. Len(o)
    /\ s.user # None =>
         /\ s.access \in 1 .. Len(o) => o[s.access] = s.user
         /\ s.refresh \in 1 .. Len(o) => o[s.refresh] = s.user

NoTokens(s) == s.access = None /\ s.refresh = None

\* What is known of a request where it is: the gateway has executed nothing
\* until the response is there.
RequestOK(k, o) ==
    /\ k.runs <= 1
    /\ k.pc # "respond" => k.runs = 0 /\ ~k.ok
    /\ k.pc \notin {"retry", "respond"} => k.replaced = None
    /\ k.kind = "call" /\ k.ok => k.runs = 1
    /\ k.pc \in {"exchange", "userinfo"} => k.kind = "callback"
    /\ k.pc \in {"call", "refresh", "retry"} => k.kind = "call"
    /\ k.pc = "userinfo" => k.token \in 1 .. Len(o)
    /\ k.pc = "refresh" => k.session.refresh # None
    /\ k.pc = "idle" => k = IdleThread
    /\ k.kind = "logout" => k.modified /\ NoTokens(k.session)

\* The response to a request that began after the logout brings no token,
\* unless it is a new sign-in.
OutOK(k) ==
    \/ k.late
    \/ k.kind = "save"
    \/ k.kind = "callback" /\ k.ok
    \/ NoTokens(k.session)

AfterLogout == signed = "out" => NoTokens(cookie) /\ \A t \in Threads : OutOK(thread[t])

Busy(t) == thread[t].pc # "idle"

\* Neither the request's session nor the grant it is about to sign in with has
\* a refresh token of sp.
Fresh(k, sp) ==
    k.session.refresh \notin sp /\ (k.pc = "userinfo" => k.token \notin sp)

\* The refresh tokens that were replaced by a request of which the browser has
\* had the response or may still get it.
Stale == spent \ dropped

\* Without overlaps one request is in flight; it works with a spent refresh token
\* only if an earlier request was lost, and when the browser's is spent for
\* another reason, this one had it replaced and will write the session.
OneByOne ==
    ~overlapped =>
      /\ \A t, u \in Threads : Busy(t) /\ Busy(u) => t = u
      /\ \A t \in Threads : Fresh(thread[t], Stale)
      /\ cookie.refresh \in Stale =>
           \E t \in Threads : /\ Busy(t) /\ thread[t].modified
                             /\ thread[t].replaced = cookie.refresh

GrantsOK == Len(owner) <= MaxTokens /\ spent \subseteq 1 .. Len(owner)

SessionsOK ==
    /\ SessionOK(cookie, owner)
    /\ \A t \in Threads : SessionOK(thread[t].session, owner) /\ RequestOK(thread[t], owner)

IInv == TypeOK /\ GrantsOK /\ SessionsOK /\ AfterLogout /\ OneByOne

-----------------------------------------------------------------------------
(* Steps in general                                                        *)

\* The initial state, and that a thread at rest holds an empty session.
LEMMA IdleType == IdleThread \in Requests /\ NoSession \in Sessions
  BY DashboardAssumption DEF IdleThread, Requests, NoSession, Sessions, Kinds, Pasted, Grants

LEMMA InitOK == Init => IInv
<1> SUFFICES ASSUME Init PROVE IInv
  OBVIOUS
<1> USE DEF Init
<1>1. TypeOK
  <2>1. owner \in Seq(Users) /\ spent \subseteq Grants /\ dropped \subseteq Grants
    OBVIOUS
  <2>2. thread \in [Threads -> Requests]
    BY IdleType
  <2> QED
    BY IdleType, <2>1, <2>2 DEF TypeOK, Requests
<1>2. GrantsOK
  BY DashboardAssumption DEF GrantsOK
<1>3. SessionsOK
  BY DEF SessionsOK, SessionOK, RequestOK, IdleThread, NoSession
<1>4. AfterLogout
  BY DEF AfterLogout, NoTokens, OutOK, IdleThread, NoSession
<1>5. OneByOne
  BY DEF OneByOne, Stale, Busy, Fresh, IdleThread, NoSession
<1> QED
  BY <1>1, <1>2, <1>3, <1>4, <1>5 DEF IInv

\* None is no refresh token.
LEMMA NoneUnspent == ASSUME IInv PROVE None \notin spent
<1>1. spent \subseteq Grants
  BY DEF IInv, TypeOK
<1>2. Grants \subseteq Nat
  BY DEF Grants
<1>3. None \notin Nat
  BY DashboardAssumption
<1> QED
  BY <1>1, <1>2, <1>3

\* More grants leave what is known of a session and of a request.
LEMMA MoreGrants ==
  ASSUME NEW s, NEW k, NEW o \in Seq(Users), NEW p \in Seq(Users), None \notin Nat,
         Len(o) <= Len(p), \A i \in 1 .. Len(o) : p[i] = o[i]
  PROVE  /\ SessionOK(s, o) => SessionOK(s, p)
         /\ RequestOK(k, o) => RequestOK(k, p)
<1>1. 1 .. Len(o) \subseteq 1 .. Len(p)
  OBVIOUS
<1>2. SessionOK(s, o) => SessionOK(s, p)
  BY <1>1 DEF SessionOK, Pasted
<1>3. RequestOK(k, o) => RequestOK(k, p)
  BY <1>1 DEF RequestOK
<1> QED
  BY <1>2, <1>3

\* A thread that takes up a request works on the browser's session.
LEMMA BeginKeeps ==
  ASSUME IInv, NEW t \in Threads, NEW k \in Requests, Begin(t, k),
         k.pc # "idle", ~k.late, RequestOK(k, owner), SessionOK(k.session, owner),
         NoTokens(cookie) => OutOK(k), k.session.refresh \in {cookie.refresh, None},
         k.pc # "userinfo"
  PROVE  IInv'
<1> USE DEF IInv, Begin
<1>1. TypeOK'
  BY DEF TypeOK, Requests
<1>2. GrantsOK'
  BY DEF GrantsOK
<1>3. \A u \in Threads : thread'[u] = IF u = t THEN k ELSE thread[u]
  BY DEF TypeOK
<1>4. SessionsOK'
  BY <1>3 DEF SessionsOK
<1>5. AfterLogout'
  BY <1>3 DEF AfterLogout
<1>6. OneByOne'
  <2> SUFFICES ASSUME ~overlapped'
               PROVE  /\ \A u, v \in Threads : Busy(u)' /\ Busy(v)' => u = v
                      /\ \A u \in Threads : Fresh(thread'[u], Stale)
                      /\ cookie.refresh \notin Stale
    BY DEF OneByOne, Stale
  <2>1. ~overlapped /\ \A u \in Threads : u # t => ~Busy(u)
    BY DEF Busy, TypeOK
  <2>2. ~Busy(t)
    BY DEF Busy
  <2>3. cookie.refresh \notin Stale
    BY <2>1, <2>2 DEF OneByOne
  <2>4. None \notin Stale
    BY NoneUnspent DEF Stale
  <2> QED
    BY <1>3, <2>1, <2>3, <2>4 DEF OneByOne, Busy, Fresh
<1> QED
  BY <1>1, <1>2, <1>4, <1>5, <1>6

\* Grants and spent refresh tokens only become more.
GrantStep ==
    /\ owner' \in Seq(Users) /\ Len(owner) <= Len(owner') /\ Len(owner') <= MaxTokens
    /\ \A i \in 1 .. Len(owner) : owner'[i] = owner[i]
    /\ spent \subseteq spent' /\ spent' \subseteq 1 .. Len(owner')

LEMMA SameGrants == ASSUME IInv, UNCHANGED <<owner, spent>> PROVE GrantStep
  BY DEF GrantStep, IInv, TypeOK, GrantsOK

LEMMA NewGrant ==
  ASSUME IInv, NEW u \in Users, Len(owner) < MaxTokens, owner' = Append(owner, u),
         NEW old \in 1 .. Len(owner), spent' \in {spent, spent \cup {old}}
  PROVE  GrantStep /\ Len(owner') = Len(owner) + 1 /\ owner'[Len(owner) + 1] = u
<1>1. owner \in Seq(Users) /\ Len(owner) \in Nat /\ MaxTokens \in Nat
  BY DashboardAssumption DEF IInv, TypeOK
<1>2. /\ owner' \in Seq(Users) /\ Len(owner') = Len(owner) + 1
      /\ owner'[Len(owner) + 1] = u
      /\ \A i \in 1 .. Len(owner) : owner'[i] = owner[i]
  BY <1>1
<1>3. 1 .. Len(owner) \subseteq 1 .. Len(owner')
  BY <1>1, <1>2
<1> QED
  BY <1>1, <1>2, <1>3 DEF GrantStep, IInv, GrantsOK

LEMMA NoneUnspentAfter == ASSUME IInv, GrantStep PROVE None \notin spent'
<1>1. owner' \in Seq(Users) /\ spent' \subseteq 1 .. Len(owner')
  BY DEF GrantStep
<1>2. 1 .. Len(owner') \subseteq Nat
  BY <1>1
<1> QED
  BY <1>1, <1>2, DashboardAssumption

\* A request that goes on in its thread, with or without a new grant.
LEMMA WorkKeeps ==
  ASSUME IInv, NEW t \in Threads, Busy(t), thread'[t] \in Requests,
         thread' = [thread EXCEPT ![t] = thread'[t]],
         UNCHANGED <<cookie, dropped, signed, overlapped>>,
         GrantStep, thread'[t].pc # "idle",
         RequestOK(thread'[t], owner'), SessionOK(thread'[t].session, owner'),
         OutOK(thread[t]) => OutOK(thread'[t]),
         ~overlapped => Fresh(thread'[t], Stale'),
         thread[t].modified \/ spent' # spent => thread'[t].modified,
         thread[t].replaced \in {thread'[t].replaced, None},
         spent' \subseteq spent \cup {thread'[t].replaced}
  PROVE  IInv'
<1> USE DEF IInv, GrantStep
<1>1. TypeOK'
  <2>1. spent' \subseteq Grants
    BY DashboardAssumption DEF Grants
  <2> QED
    BY <2>1 DEF TypeOK, Requests
<1>2. GrantsOK'
  BY DEF GrantsOK
<1>3. \A u \in Threads : u # t => thread'[u] = thread[u]
  BY DEF TypeOK
<1>4. SessionsOK'
  <2>1. owner \in Seq(Users) /\ owner' \in Seq(Users) /\ Len(owner) <= Len(owner')
        /\ \A i \in 1 .. Len(owner) : owner'[i] = owner[i]
    BY DEF TypeOK
  <2>2. /\ SessionOK(cookie, owner)
        /\ \A u \in Threads : SessionOK(thread[u].session, owner) /\ RequestOK(thread[u], owner)
    BY DEF SessionsOK
  <2> HIDE DEF IInv, GrantStep
  <2>3. \A x, k : /\ SessionOK(x, owner) => SessionOK(x, owner')
                  /\ RequestOK(k, owner) => RequestOK(k, owner')
    BY <2>1, MoreGrants, DashboardAssumption
  <2> QED
    BY <1>3, <2>2, <2>3 DEF SessionsOK
<1>5. AfterLogout'
  BY <1>3 DEF AfterLogout
<1>6. OneByOne'
  <2> SUFFICES ASSUME ~overlapped
               PROVE  /\ \A u, v \in Threads : Busy(u)' /\ Busy(v)' => u = v
                      /\ \A u \in Threads : Fresh(thread'[u], Stale')
                      /\ cookie.refresh \in Stale' =>
                           \E u \in Threads : /\ Busy(u)' /\ thread'[u].modified
                                             /\ thread'[u].replaced = cookie.refresh
    BY DEF OneByOne
  <2>1. \A u \in Threads : u # t => thread[u] = IdleThread
    BY DEF OneByOne, Busy, SessionsOK, RequestOK
  <2>2. None \notin Stale'
    BY NoneUnspentAfter DEF Stale
  <2>3. \A u \in Threads : Fresh(thread'[u], Stale')
    BY <1>3, <2>1, <2>2 DEF Fresh, IdleThread, NoSession
  <2>4. \A u, v \in Threads : Busy(u)' /\ Busy(v)' => u = v
    BY <1>3 DEF OneByOne, Busy
  <2>5. ASSUME cookie.refresh \in Stale'
        PROVE  Busy(t)' /\ thread'[t].modified /\ thread'[t].replaced = cookie.refresh
    <3>1. Busy(t)'
      BY DEF Busy
    <3>2. CASE cookie.refresh \in Stale
      <4>1. PICK u \in Threads : /\ Busy(u) /\ thread[u].modified
                                /\ thread[u].replaced = cookie.refresh
        BY <3>2 DEF OneByOne
      <4>2. u = t
        BY <4>1 DEF OneByOne
      <4>3. cookie.refresh # None
        BY <2>2, <2>5
      <4> QED
        BY <3>1, <4>1, <4>2, <4>3
    <3>3. CASE cookie.refresh \notin Stale
      <4>1. cookie.refresh \in spent' /\ cookie.refresh \notin spent
        BY <2>5, <3>3 DEF Stale
      <4> QED
        BY <3>1, <4>1
    <3> QED
      BY <3>2, <3>3
  <2> QED
    BY <2>3, <2>4, <2>5
<1> QED
  BY <1>1, <1>2, <1>4, <1>5, <1>6

-----------------------------------------------------------------------------
(* A request arrives                                                       *)

IsAnswer(a, k, ok, session, modified, runs) ==
    /\ a \in Requests
    /\ a.pc = "respond" /\ a.kind = k.kind /\ a.ok = ok /\ a.late = k.late /\ a.runs = runs
    /\ a.replaced = k.replaced
    /\ a.modified = (modified \/ session.permanent)
    /\ a.session = IF a.modified THEN session ELSE NoSession

\* A response has what it was given, and the session only when it writes it.
LEMMA AnsweredType ==
  ASSUME NEW k \in Requests, NEW ok \in BOOLEAN, NEW session \in Sessions,
         NEW modified \in BOOLEAN, NEW runs \in Nat
  PROVE  IsAnswer(Answered(k, ok, session, modified, runs), k, ok, session, modified, runs)
<1> DEFINE writes == modified \/ session.permanent
           s == IF writes THEN session ELSE NoSession
           a == [k EXCEPT !.pc = "respond", !.ok = ok, !.token = None, !.runs = runs,
                          !.modified = writes, !.session = s]
<1>1. writes \in BOOLEAN
  BY DEF Sessions
<1>2. s \in Sessions
  BY IdleType
<1> HIDE DEF writes, s
<1>3. /\ a \in Requests
      /\ a.pc = "respond" /\ a.kind = k.kind /\ a.ok = ok /\ a.late = k.late
      /\ a.runs = runs /\ a.modified = writes /\ a.session = s /\ a.replaced = k.replaced
  BY <1>1, <1>2 DEF Requests
<1> QED
  BY <1>3 DEF IsAnswer, Answered, writes, s

LEMMA HandleKeeps ==
  ASSUME IInv, NEW t \in Threads, NEW kind \in Kinds, NEW session \in Sessions,
         NEW modified \in BOOLEAN, Handle(t, kind, session, modified),
         kind # "call", SessionOK(session, owner),
         session.refresh \in {cookie.refresh, None},
         kind = "save" \/ (NoTokens(cookie) => NoTokens(session)),
         kind = "logout" => modified /\ NoTokens(session)
  PROVE  IInv'
<1> DEFINE idle == [IdleThread EXCEPT !.kind = kind]
           k == Answered(idle, TRUE, session, modified, 0)
<1>a. idle \in Requests /\ idle.kind = kind /\ ~idle.late
  BY IdleType DEF IdleThread, Requests
<1>5. Begin(t, k)
  BY DEF Handle
<1> HIDE DEF idle
<1>b. IsAnswer(k, idle, TRUE, session, modified, 0)
  <2>1. 0 \in Nat /\ TRUE \in BOOLEAN
    OBVIOUS
  <2> QED
    BY <1>a, <2>1, AnsweredType, Zenon
<1> HIDE DEF k
<1>1. /\ k \in Requests /\ k.pc = "respond" /\ k.kind = kind /\ k.ok /\ ~k.late
      /\ k.runs = 0 /\ k.session \in {session, NoSession} /\ (modified => k.modified)
  BY <1>a, <1>b DEF IsAnswer
<1>2. RequestOK(k, owner)
  BY <1>1 DEF RequestOK, NoTokens, NoSession
<1>3. SessionOK(k.session, owner) /\ k.session.refresh \in {cookie.refresh, None}
  BY <1>1 DEF SessionOK, NoSession
<1>4. NoTokens(cookie) => OutOK(k)
  BY <1>1 DEF OutOK, NoTokens, NoSession
<1> QED
  BY <1>1, <1>2, <1>3, <1>4, <1>5, BeginKeeps

\* Changing no token of the browser's session, or removing some.
LEMMA CookieOK ==
  ASSUME IInv
  PROVE  cookie \in Sessions /\ SessionOK(cookie, owner) /\ None \notin Nat
  BY DashboardAssumption DEF IInv, TypeOK, SessionsOK

LEMMA LoginKeeps == ASSUME IInv, NEW t \in Threads, auth_login(t) PROVE IInv'
<1> DEFINE session == [cookie EXCEPT !.oidc_state = TRUE]
<1>1. /\ session \in Sessions /\ session.access = cookie.access
      /\ session.refresh = cookie.refresh /\ session.user = cookie.user
  BY CookieOK DEF Sessions
<1>2. SessionOK(session, owner) /\ (NoTokens(cookie) => NoTokens(session))
  BY <1>1, CookieOK DEF SessionOK, NoTokens
<1>3. Handle(t, "other", session, TRUE)
  BY DEF auth_login
<1> HIDE DEF session
<1> QED
  BY <1>1, <1>2, <1>3, HandleKeeps DEF Kinds

LEMMA LogoutKeeps == ASSUME IInv, NEW t \in Threads, auth_logout(t) PROVE IInv'
<1>1. SessionOK(NoSession, owner) /\ NoTokens(NoSession) /\ NoSession.refresh = None
  BY DEF SessionOK, NoSession, NoTokens
<1>2. Handle(t, "logout", NoSession, TRUE)
  BY DEF auth_logout, SignedOut
<1> QED
  BY <1>1, <1>2, HandleKeeps, IdleType DEF Kinds

LEMMA SaveKeeps == ASSUME IInv, NEW t \in Threads, save_session_token(t) PROVE IInv'
<1> DEFINE session == [cookie EXCEPT !.access = Pasted]
<1>1. /\ session \in Sessions /\ session.access = Pasted
      /\ session.refresh = cookie.refresh /\ session.user = cookie.user
  BY CookieOK DEF Sessions
<1>2. SessionOK(session, owner)
  BY <1>1, CookieOK DEF SessionOK, Pasted
<1>3. Handle(t, "save", session, TRUE)
  BY DEF save_session_token
<1> HIDE DEF session
<1> QED
  BY <1>1, <1>2, <1>3, HandleKeeps DEF Kinds

LEMMA ClearKeeps == ASSUME IInv, NEW t \in Threads, clear_session_token(t) PROVE IInv'
<1> DEFINE session == [cookie EXCEPT !.access = None, !.refresh = None, !.user = None]
<1>1. /\ session \in Sessions /\ session.access = None
      /\ session.refresh = None /\ session.user = None
  BY CookieOK DEF Sessions
<1>2. SessionOK(session, owner) /\ NoTokens(session)
  BY <1>1 DEF SessionOK, NoTokens
<1>3. Handle(t, "other", session, session # cookie)
  BY DEF clear_session_token
<1> HIDE DEF session
<1> QED
  BY <1>1, <1>2, <1>3, HandleKeeps DEF Kinds

LEMMA PageKeeps == ASSUME IInv, NEW t \in Threads, Page(t) PROVE IInv'
  BY CookieOK, HandleKeeps DEF Page, Kinds

\* The callback goes on with the session less its state; calls with the whole.
LEMMA CallbackKeeps == ASSUME IInv, NEW t \in Threads, auth_callback(t) PROVE IInv'
<1> DEFINE session == [cookie EXCEPT !.oidc_state = FALSE]
           k == [IdleThread EXCEPT !.pc = "exchange", !.kind = "callback",
                                   !.modified = TRUE, !.session = session]
<1>1. /\ session \in Sessions /\ session.access = cookie.access
      /\ session.refresh = cookie.refresh /\ session.user = cookie.user
  BY CookieOK DEF Sessions
<1>2. SessionOK(session, owner) /\ (NoTokens(cookie) => NoTokens(session))
  BY <1>1, CookieOK DEF SessionOK, NoTokens
<1>3. Begin(t, k)
  BY DEF auth_callback
<1> HIDE DEF session
<1>4. /\ k \in Requests /\ k.pc = "exchange" /\ k.kind = "callback" /\ ~k.ok
      /\ ~k.late /\ k.runs = 0 /\ k.session = session /\ k.replaced = None
  BY <1>1, IdleType DEF IdleThread, Requests, Kinds
<1> HIDE DEF k
<1>5. RequestOK(k, owner) /\ (NoTokens(cookie) => OutOK(k))
  BY <1>2, <1>4 DEF RequestOK, OutOK
<1> QED
  BY <1>1, <1>2, <1>3, <1>4, <1>5, BeginKeeps

LEMMA SendKeeps ==
  ASSUME IInv, NEW t \in Threads, NEW token \in {cookie.access, Pasted},
         Begin(t, [IdleThread EXCEPT !.pc = "call", !.kind = "call",
                                     !.session = cookie, !.token = token])
  PROVE  IInv'
<1> DEFINE k == [IdleThread EXCEPT !.pc = "call", !.kind = "call",
                                   !.session = cookie, !.token = token]
<1>1. token \in {Pasted, None} \cup Grants
  BY CookieOK DEF Sessions
<1>2. /\ k \in Requests /\ k.pc = "call" /\ k.kind = "call" /\ ~k.ok
      /\ ~k.late /\ k.runs = 0 /\ k.session = cookie /\ k.replaced = None
  BY <1>1, CookieOK, IdleType DEF IdleThread, Requests, Kinds
<1>3. Begin(t, k)
  OBVIOUS
<1> HIDE DEF k
<1>4. RequestOK(k, owner) /\ (NoTokens(cookie) => OutOK(k))
  BY <1>2 DEF RequestOK, OutOK
<1> QED
  BY <1>2, <1>3, <1>4, CookieOK, BeginKeeps

LEMMA ReceiveKeeps == ASSUME IInv, NEW t \in Threads, Receive(t) PROVE IInv'
<1>1. CASE ApiCall(t)
  BY <1>1, SendKeeps DEF ApiCall
<1>2. CASE admin_panel(t)
  BY <1>2, SendKeeps DEF admin_panel
<1> QED
  BY <1>1, <1>2, LoginKeeps, LogoutKeeps, SaveKeeps, ClearKeeps, CallbackKeeps, PageKeeps
     DEF Receive

-----------------------------------------------------------------------------
(* A request is worked on                                                  *)

LEMMA ThreadType ==
  ASSUME IInv, NEW t \in Threads
  PROVE  /\ thread[t] \in Requests /\ thread[t].session \in Sessions
         /\ SessionOK(thread[t].session, owner) /\ RequestOK(thread[t], owner)
         /\ ~overlapped => Fresh(thread[t], Stale)
  BY DEF IInv, TypeOK, Requests, SessionsOK, OneByOne

\* The request q, which is thread t's but for the refresh token it has had
\* replaced in this step, has its response.
LEMMA AnsweredKeeps ==
  ASSUME IInv, NEW t \in Threads, Busy(t), thread[t].pc # "respond",
         NEW q \in Requests, q.kind = thread[t].kind, q.late = thread[t].late,
         NEW ok \in BOOLEAN, NEW session \in Sessions, NEW modified \in BOOLEAN,
         NEW runs \in {0, 1},
         thread' = [thread EXCEPT ![t] = Answered(q, ok, session, modified, runs)],
         UNCHANGED <<cookie, dropped, signed, overlapped>>, GrantStep,
         thread[t].replaced \in {q.replaced, None}, spent' \subseteq spent \cup {q.replaced},
         thread[t].modified \/ spent' # spent => modified,
         session # thread[t].session => modified,
         thread[t].kind = "call" /\ ok => runs = 1,
         SessionOK(session, owner'),
         NoTokens(thread[t].session) => NoTokens(session) \/ (thread[t].kind = "callback" /\ ok),
         ~overlapped => session.refresh \notin Stale'
  PROVE  IInv'
<1> DEFINE k == thread[t]
           a == Answered(q, ok, session, modified, runs)
<1>1. thread' = [thread EXCEPT ![t] = a]
  OBVIOUS
<1>2. thread'[t] = a
  BY <1>1 DEF IInv, TypeOK
<1>3. k \in Requests /\ RequestOK(k, owner) /\ ~k.ok
  BY ThreadType DEF RequestOK
<1>4. runs \in Nat
  OBVIOUS
<1>5. IsAnswer(a, q, ok, session, modified, runs)
  BY <1>4, AnsweredType, Zenon
<1> HIDE DEF a
<1>6. a \in Requests /\ a.pc = "respond" /\ a.kind = k.kind /\ a.ok = ok /\ a.late = k.late
      /\ a.runs = runs /\ a.session \in {session, NoSession} /\ (modified => a.modified)
      /\ (modified => a.session = session) /\ a.replaced = q.replaced
  BY <1>4, <1>5 DEF IsAnswer
<1>7. RequestOK(a, owner')
  <2>1. k.kind \in {"callback", "call"}
    BY <1>3 DEF RequestOK, Requests, Busy
  <2> QED
    BY <1>3, <1>6, <2>1 DEF RequestOK
<1>8. SessionOK(a.session, owner')
  BY <1>6 DEF SessionOK, NoSession
<1>9. OutOK(k) => OutOK(a)
  BY <1>3, <1>6 DEF OutOK, NoTokens, NoSession
<1>10. None \notin Stale'
  BY NoneUnspentAfter DEF Stale
<1>11. ~overlapped => Fresh(a, Stale')
  BY <1>6, <1>10 DEF Fresh, NoSession
<1>12. k.modified \/ spent' # spent => a.modified
  BY <1>6
<1>13. k.replaced \in {a.replaced, None} /\ spent' \subseteq spent \cup {a.replaced}
  BY <1>6
<1> QED
  BY <1>1, <1>2, <1>6, <1>7, <1>8, <1>9, <1>11, <1>12, <1>13, WorkKeeps

LEMMA AnswerKeeps ==
  ASSUME IInv, NEW t \in Threads, Busy(t), thread[t].pc # "respond",
         NEW ok \in BOOLEAN, NEW session \in Sessions, NEW runs \in {0, 1},
         Answer(t, ok, session, runs),
         UNCHANGED <<cookie, spent, dropped, signed, overlapped>>, GrantStep,
         thread[t].kind = "call" /\ ok => runs = 1,
         SessionOK(session, owner'),
         NoTokens(thread[t].session) => NoTokens(session) \/ (thread[t].kind = "callback" /\ ok),
         ~overlapped => session.refresh \notin Stale
  PROVE  IInv'
<1> DEFINE q == thread[t]
           modified == q.modified \/ session # q.session
<1>1. q \in Requests /\ q.modified \in BOOLEAN /\ modified \in BOOLEAN
  BY ThreadType DEF Requests
<1>2. thread' = [thread EXCEPT ![t] = Answered(q, ok, session, modified, runs)]
  BY DEF Answer
<1>3. Stale' = Stale /\ spent' \subseteq spent \cup {q.replaced}
  BY DEF Stale
<1>4. (q.modified \/ spent' # spent => modified) /\ (session # q.session => modified)
  OBVIOUS
<1> HIDE DEF modified
<1> QED
  BY <1>1, <1>2, <1>3, <1>4, AnsweredKeeps

LEMMA ExchangeKeeps == ASSUME IInv, NEW t \in Threads, ExchangeCode(t) PROVE IInv'
<1>1. Busy(t) /\ thread[t].pc = "exchange" /\ thread[t].kind = "callback"
  BY ThreadType DEF ExchangeCode, Busy, RequestOK
<1>2. CASE UNCHANGED owner /\ Answer(t, FALSE, thread[t].session, 0)
  <2>1. GrantStep /\ SessionOK(thread[t].session, owner')
    BY <1>2, SameGrants, ThreadType DEF ExchangeCode
  <2>2. ~overlapped => thread[t].session.refresh \notin Stale
    BY ThreadType DEF Fresh
  <2> QED
    BY <1>1, <1>2, <2>1, <2>2, ThreadType, AnswerKeeps DEF ExchangeCode
<1>3. ASSUME NEW u \in Users, Len(owner) < MaxTokens, owner' = Append(owner, u),
             thread' = [thread EXCEPT ![t].pc = "userinfo", ![t].token = Len(owner')]
      PROVE  IInv'
  <2>1. UNCHANGED <<cookie, spent, dropped, signed, overlapped>> /\ Stale' = Stale
    BY DEF ExchangeCode, Stale
  <2>2. GrantStep /\ Len(owner') \in 1 .. MaxTokens
    <3>1. owner \in Seq(Users) /\ Len(owner) \in Nat /\ MaxTokens \in Nat
      BY DashboardAssumption DEF IInv, TypeOK
    <3>2. /\ owner' \in Seq(Users) /\ Len(owner') = Len(owner) + 1
          /\ \A i \in 1 .. Len(owner) : owner'[i] = owner[i]
      BY <1>3, <3>1
    <3> QED
      BY <1>3, <2>1, <3>1, <3>2 DEF GrantStep, IInv, GrantsOK
  <2> DEFINE k == [thread[t] EXCEPT !.pc = "userinfo", !.token = Len(owner')]
  <2>3. thread' = [thread EXCEPT ![t] = k] /\ thread'[t] = k
    BY <1>3 DEF IInv, TypeOK
  <2>4. /\ k \in Requests /\ k.pc = "userinfo" /\ k.token = Len(owner')
        /\ k.kind = thread[t].kind /\ k.session = thread[t].session
        /\ k.ok = thread[t].ok /\ k.runs = thread[t].runs /\ k.late = thread[t].late
        /\ k.modified = thread[t].modified /\ k.replaced = thread[t].replaced
    BY <2>2, ThreadType DEF Requests, Grants
  <2> HIDE DEF k
  <2>5. RequestOK(k, owner') /\ (OutOK(thread[t]) => OutOK(k))
    BY <1>1, <2>2, <2>4, ThreadType DEF RequestOK, OutOK
  <2>7. ~overlapped => Fresh(k, Stale')
    <3>1. Len(owner') \notin spent
      BY <1>3, DashboardAssumption DEF IInv, TypeOK, GrantsOK
    <3> QED
      BY <2>1, <2>4, <3>1, ThreadType DEF Fresh, Stale
  <2>6. SessionOK(k.session, owner')
    BY <2>2, <2>4, ThreadType, MoreGrants, DashboardAssumption DEF GrantStep, IInv, TypeOK
  <2> QED
    BY <1>1, <2>1, <2>2, <2>3, <2>4, <2>5, <2>6, <2>7, WorkKeeps
<1> QED
  BY <1>2, <1>3 DEF ExchangeCode

LEMMA UserinfoKeeps == ASSUME IInv, NEW t \in Threads, FetchUserinfo(t) PROVE IInv'
<1>1. /\ Busy(t) /\ thread[t].pc = "userinfo" /\ thread[t].kind = "callback"
      /\ thread[t].token \in 1 .. Len(owner)
  BY ThreadType DEF FetchUserinfo, Busy, RequestOK
<1>2. GrantStep /\ SessionOK(thread[t].session, owner')
  BY SameGrants, ThreadType DEF FetchUserinfo
<1>5. /\ ~overlapped => thread[t].session.refresh \notin Stale
      /\ ~overlapped => thread[t].token \notin Stale
  BY <1>1, ThreadType DEF Fresh
<1>3. CASE Answer(t, FALSE, thread[t].session, 0)
  BY <1>1, <1>2, <1>3, <1>5, ThreadType, AnswerKeeps DEF FetchUserinfo
<1>4. CASE Answer(t, TRUE, SignedIn(thread[t].session, thread[t].token), 0)
  <2> DEFINE n == thread[t].token
             session == SignedIn(thread[t].session, n)
  <2>1. /\ session \in Sessions /\ session.access = n /\ session.refresh = n
        /\ session.user = owner[n]
    <3>1. n \in Grants /\ owner[n] \in Users
      BY <1>1, DashboardAssumption DEF IInv, TypeOK, GrantsOK, Grants
    <3> HIDE DEF n
    <3> QED
      BY <3>1, ThreadType DEF SignedIn, Sessions
  <2> HIDE DEF session
  <2>2. SessionOK(session, owner')
    BY <1>1, <2>1 DEF SessionOK, FetchUserinfo
  <2> QED
    BY <1>1, <1>2, <1>4, <1>5, <2>1, <2>2, AnswerKeeps DEF FetchUserinfo, session
<1> QED
  BY <1>3, <1>4 DEF FetchUserinfo

\* What an expired token leaves of a session holds no token.
LEMMA ReauthOK ==
  ASSUME NEW s \in Sessions, NEW o, None \notin Nat
  PROVE  /\ Reauth(s) \in Sessions /\ NoTokens(Reauth(s)) /\ SessionOK(Reauth(s), o)
         /\ Reauth(s).refresh = None
<1>1. /\ Reauth(s) \in Sessions /\ Reauth(s).access = None
      /\ Reauth(s).refresh = None /\ Reauth(s).user = s.user
  BY DEF Reauth, Sessions
<1>2. None \notin 1 .. Len(o)
  BY DEF Sessions
<1> QED
  BY <1>1, <1>2 DEF NoTokens, SessionOK

LEMMA CallKeeps == ASSUME IInv, NEW t \in Threads, CallGateway(t) PROVE IInv'
<1> DEFINE k == thread[t]
<1>1. /\ Busy(t) /\ k.pc \in {"call", "retry"} /\ k.kind = "call" /\ k.runs = 0
      /\ k \in Requests /\ k.session \in Sessions
  BY ThreadType DEF CallGateway, Busy, RequestOK
<1>2. UNCHANGED <<cookie, owner, spent, dropped, signed, overlapped>> /\ GrantStep
      /\ Stale' = Stale
  BY SameGrants DEF CallGateway, Stale
<1>3. SessionOK(k.session, owner') /\ (~overlapped => k.session.refresh \notin Stale')
  BY <1>2, ThreadType DEF Fresh
<1>4. ASSUME NEW ok \in BOOLEAN, NEW runs \in {0, 1}, ok => runs = 1,
             NEW session \in {k.session, Reauth(k.session)}, Answer(t, ok, session, runs)
      PROVE  IInv'
  <2>1. /\ session \in Sessions /\ SessionOK(session, owner')
        /\ NoTokens(k.session) => NoTokens(session)
        /\ ~overlapped => session.refresh \notin Stale'
    BY <1>1, <1>2, <1>3, <1>4, ReauthOK, NoneUnspentAfter, DashboardAssumption DEF Stale
  <2> QED
    BY <1>1, <1>2, <1>4, <2>1, AnswerKeeps
<1>5. CASE k.pc = "call" /\ k.session.refresh # None /\ Continue(t, "refresh")
  <2> DEFINE r == [k EXCEPT !.pc = "refresh"]
  <2>1. thread' = [thread EXCEPT ![t] = r] /\ thread'[t] = r
    BY <1>5 DEF Continue, IInv, TypeOK
  <2>2. /\ r \in Requests /\ r.pc = "refresh" /\ r.kind = k.kind /\ r.session = k.session
        /\ r.ok = k.ok /\ r.runs = k.runs /\ r.late = k.late /\ r.modified = k.modified
        /\ r.replaced = k.replaced
    BY <1>1 DEF Requests
  <2> HIDE DEF r
  <2>3. RequestOK(r, owner') /\ (OutOK(k) => OutOK(r))
    BY <1>1, <1>5, <2>2, ThreadType DEF RequestOK, OutOK
  <2>4. ~overlapped => Fresh(r, Stale')
    BY <1>3, <2>2 DEF Fresh
  <2> QED
    BY <1>1, <1>2, <1>3, <2>1, <2>2, <2>3, <2>4, WorkKeeps
<1>6. k.runs + 1 = 1
  BY <1>1
<1> HIDE DEF k
<1> QED
  BY <1>1, <1>4, <1>5, <1>6 DEF CallGateway, Failed, k

LEMMA RefreshKeeps == ASSUME IInv, NEW t \in Threads, RefreshToken(t) PROVE IInv'
<1> DEFINE k == thread[t]
           old == k.session.refresh
           n == Len(owner) + 1
           Replacing(rotates) == [k EXCEPT !.replaced = IF rotates THEN old ELSE None]
           Failing(q) == Answered(q, FALSE, Reauth(q.session), TRUE, q.runs)
<1>1. /\ Busy(t) /\ k.pc = "refresh" /\ k.kind = "call" /\ k.runs = 0 /\ ~k.ok
      /\ k \in Requests /\ k.session \in Sessions /\ old \in 1 .. Len(owner)
      /\ SessionOK(k.session, owner) /\ k.replaced = None
  BY ThreadType DEF RefreshToken, Busy, RequestOK, SessionOK
<1>2. UNCHANGED <<cookie, dropped, signed, overlapped>>
  BY DEF RefreshToken
<1>3. ASSUME GrantStep, NEW q \in Requests, q.kind = "call", q.late = k.late, q.runs = 0,
             q.session = k.session, thread' = [thread EXCEPT ![t] = Failing(q)],
             spent' \subseteq spent \cup {q.replaced}
      PROVE  IInv'
  <2>1. /\ Reauth(k.session) \in Sessions /\ SessionOK(Reauth(k.session), owner')
        /\ NoTokens(Reauth(k.session)) /\ Reauth(k.session).refresh = None
    BY <1>1, ReauthOK, DashboardAssumption
  <2>2. None \notin Stale'
    BY <1>1, <1>3, NoneUnspentAfter DEF Stale
  <2>3. thread' = [thread EXCEPT ![t] = Answered(q, FALSE, Reauth(k.session), TRUE, 0)]
    BY <1>3
  <2> QED
    BY <1>1, <1>2, <1>3, <2>1, <2>2, <2>3, AnsweredKeeps
<1>4. ASSUME n <= MaxTokens, old \notin spent, owner' = Append(owner, owner[old]),
             NEW rotates \in BOOLEAN,
             spent' = IF rotates THEN spent \cup {old} ELSE spent
      PROVE  /\ GrantStep /\ Len(owner') = n /\ owner'[n] = owner[old]
             /\ Replacing(rotates) \in Requests
             /\ spent' \subseteq spent \cup {Replacing(rotates).replaced}
  <2>1. owner[old] \in Users /\ Len(owner) < MaxTokens
    BY <1>1, <1>4, DashboardAssumption DEF IInv, TypeOK
  <2>2. GrantStep /\ Len(owner') = n /\ owner'[n] = owner[old]
    BY <1>1, <1>4, <2>1, NewGrant
  <2>3. old \in Grants
    BY <1>1, DashboardAssumption DEF Grants, IInv, TypeOK, GrantsOK
  <2>4. /\ Replacing(rotates) \in Requests
        /\ Replacing(rotates).replaced = IF rotates THEN old ELSE None
    <3> HIDE DEF old
    <3> QED
      BY <1>1, <2>3 DEF Requests
  <2> QED
    BY <1>4, <2>2, <2>4
<1>5. ASSUME n <= MaxTokens, old \notin spent, owner' = Append(owner, owner[old]),
             NEW rotates \in BOOLEAN,
             spent' = IF rotates THEN spent \cup {old} ELSE spent,
             thread' = [thread EXCEPT ![t] = [Replacing(rotates) EXCEPT
                          !.pc = "retry", !.token = n, !.modified = TRUE,
                          !.session = Refreshed(@, n, rotates)]]
      PROVE  IInv'
  <2> DEFINE session == Refreshed(k.session, n, rotates)
             p == Replacing(rotates)
             r == [p EXCEPT !.pc = "retry", !.token = n, !.modified = TRUE,
                            !.session = session]
  <2>1. /\ GrantStep /\ Len(owner') = n /\ owner'[n] = owner[old]
        /\ p \in Requests /\ spent' \subseteq spent \cup {p.replaced}
    BY <1>4, <1>5
  <2>2. n \in 1 .. Len(owner') /\ n \in Grants /\ n \notin spent /\ n # old
    BY <1>1, <1>5, <2>1, DashboardAssumption DEF Grants, IInv, TypeOK, GrantsOK
  <2>3. /\ session \in Sessions /\ session.access = n
        /\ session.refresh = (IF rotates THEN n ELSE old)
        /\ session.user = k.session.user
    <3> HIDE DEF n
    <3> QED
      BY <1>1, <2>2 DEF Refreshed, Sessions
  <2>4. /\ p.kind = k.kind /\ p.session = k.session /\ p.ok = k.ok /\ p.runs = k.runs
        /\ p.late = k.late
    BY <1>1 DEF Requests
  <2>11. thread' = [thread EXCEPT ![t] = r] /\ thread'[t] = r
    BY <1>5, <2>4 DEF IInv, TypeOK
  <2> HIDE DEF session, n, p
  <2>5. /\ r \in Requests /\ r.pc = "retry" /\ r.kind = k.kind /\ r.session = session
        /\ r.ok = k.ok /\ r.runs = k.runs /\ r.late = k.late /\ r.modified
        /\ r.replaced = p.replaced
    BY <2>1, <2>2, <2>3, <2>4 DEF Requests
  <2> HIDE DEF r
  <2>6. owner'[old] = owner[old] /\ old \in 1 .. Len(owner')
    BY <1>1, <2>1 DEF GrantStep, IInv, TypeOK
  <2>7. SessionOK(r.session, owner')
    BY <1>1, <2>1, <2>2, <2>3, <2>5, <2>6 DEF SessionOK
  <2>8. RequestOK(r, owner')
    BY <1>1, <2>5 DEF RequestOK
  <2>9. OutOK(k) => OutOK(r)
    BY <1>1, <2>5, DashboardAssumption DEF OutOK, NoTokens
  <2>10. Fresh(r, Stale')
    BY <1>5, <2>2, <2>3, <2>5 DEF Fresh, Stale
  <2> QED
    BY <1>1, <1>2, <2>1, <2>11, <2>5, <2>7, <2>8, <2>9, <2>10, WorkKeeps
<1>6. CASE UNCHANGED <<owner, spent>> /\ thread' = [thread EXCEPT ![t] = Failing(k)]
  BY <1>1, <1>3, <1>6, SameGrants
<1>7. ASSUME n <= MaxTokens, old \notin spent, owner' = Append(owner, owner[old]),
             NEW rotates \in BOOLEAN,
             spent' = IF rotates THEN spent \cup {old} ELSE spent,
             thread' = [thread EXCEPT ![t] = Failing(Replacing(rotates))]
      PROVE  IInv'
  <2> DEFINE q == Replacing(rotates)
  <2>1. GrantStep /\ q \in Requests /\ spent' \subseteq spent \cup {q.replaced}
    BY <1>4, <1>7
  <2>2. q.kind = "call" /\ q.late = k.late /\ q.runs = 0 /\ q.session = k.session
    BY <1>1 DEF Requests
  <2>3. thread' = [thread EXCEPT ![t] = Failing(q)]
    BY <1>7
  <2> HIDE DEF q
  <2> QED
    BY <1>3, <2>1, <2>2, <2>3
<1> QED
  BY <1>5, <1>6, <1>7 DEF RefreshToken

\* A response makes the browser's session what the request's was, or leaves it.
LEMMA RespondKeeps == ASSUME IInv, NEW t \in Threads, Respond(t) PROVE IInv'
<1> DEFINE k == thread[t]
<1>1. /\ k.pc = "respond" /\ Busy(t) /\ UNCHANGED <<owner, spent, dropped, overlapped>>
      /\ k \in Requests /\ k.session \in Sessions
      /\ SessionOK(k.session, owner) /\ RequestOK(k, owner)
  BY ThreadType DEF Respond, Busy
<1>2. cookie' = IF k.modified THEN k.session ELSE cookie
  BY DEF Respond
<1>3. /\ thread'[t] = IdleThread
      /\ \A u \in Threads \ {t} :
           thread'[u] = [thread[u] EXCEPT
                           !.late = thread[u].pc # "idle" /\ (@ \/ k.kind = "logout")]
  BY DEF Respond
<1>4. \A u \in Threads \ {t} :
        LET q == thread[u] r == thread'[u] IN
        /\ q \in Requests /\ r \in Requests
        /\ r.pc = q.pc /\ r.kind = q.kind /\ r.session = q.session /\ r.modified = q.modified
        /\ r.token = q.token /\ r.ok = q.ok /\ r.runs = q.runs
        /\ r.replaced = q.replaced
        /\ r.late = (q.pc # "idle" /\ (q.late \/ k.kind = "logout"))
        /\ q.pc = "idle" => q = IdleThread /\ r = IdleThread
  <2> SUFFICES ASSUME NEW u \in Threads \ {t}
               PROVE  LET q == thread[u] r == thread'[u] IN
                      /\ q \in Requests /\ r \in Requests
                      /\ r.pc = q.pc /\ r.kind = q.kind /\ r.session = q.session
                      /\ r.modified = q.modified
                      /\ r.token = q.token /\ r.ok = q.ok /\ r.runs = q.runs
                      /\ r.replaced = q.replaced
                      /\ r.late = (q.pc # "idle" /\ (q.late \/ k.kind = "logout"))
                      /\ q.pc = "idle" => q = IdleThread /\ r = IdleThread
    OBVIOUS
  <2> DEFINE late == thread[u].pc # "idle" /\ (thread[u].late \/ k.kind = "logout")
  <2>1. thread[u] \in Requests /\ (thread[u].pc = "idle" => thread[u] = IdleThread)
    BY ThreadType DEF RequestOK
  <2>2. late \in BOOLEAN /\ thread'[u] = [thread[u] EXCEPT !.late = late]
    BY <1>3, <2>1 DEF Requests
  <2>3. thread[u].pc = "idle" => late = FALSE
    OBVIOUS
  <2> HIDE DEF late, k
  <2>4. thread[u].pc = "idle" => thread'[u] = IdleThread
    <3> SUFFICES ASSUME thread[u].pc = "idle" PROVE thread'[u] = IdleThread
      OBVIOUS
    <3>1. [IdleThread EXCEPT !.late = FALSE] = IdleThread
      <4>1. \A r \in Requests : [r EXCEPT !.late = r.late] = r
        BY DEF Requests
      <4>2. IdleThread \in Requests /\ IdleThread.late = FALSE
        BY IdleType DEF IdleThread
      <4> QED
        BY <4>1, <4>2, Zenon
    <3>2. thread[u] = IdleThread /\ late = FALSE
      BY <2>1, <2>3, Zenon
    <3>3. thread'[u] = [IdleThread EXCEPT !.late = FALSE]
      BY <2>2, <3>2, Zenon
    <3> QED
      BY <3>1, <3>3
  <2>5. LET q == thread[u] r == thread'[u] IN
        /\ r \in Requests
        /\ r.pc = q.pc /\ r.kind = q.kind /\ r.session = q.session /\ r.modified = q.modified
        /\ r.token = q.token /\ r.ok = q.ok /\ r.runs = q.runs /\ r.late = late
        /\ r.replaced = q.replaced
    BY <2>1, <2>2 DEF Requests
  <2> QED
    BY <2>1, <2>4, <2>5 DEF late
<1>5. TypeOK'
  <2>1. DOMAIN thread' = Threads /\ thread' = [u \in Threads |-> thread'[u]]
    BY DEF Respond
  <2>2. \A u \in Threads : thread'[u] \in Requests
    BY <1>3, <1>4, IdleType
  <2>3. thread' \in [Threads -> Requests]
    BY <2>1, <2>2
  <2>4. signed' \in {"in", "out", "revived"}
    BY DEF Respond, IInv, TypeOK
  <2>5. cookie' \in Sessions
    BY <1>1, <1>2, CookieOK
  <2> QED
    BY <1>1, <2>3, <2>4, <2>5 DEF TypeOK, IInv, Requests
<1>6. GrantsOK'
  BY <1>1 DEF IInv, GrantsOK
<1>7. SessionsOK'
  <2>1. SessionOK(cookie', owner)
    BY <1>1, <1>2, CookieOK
  <2>2. SessionOK(IdleThread.session, owner) /\ RequestOK(IdleThread, owner)
    BY DEF SessionOK, RequestOK, IdleThread, NoSession
  <2>3. \A u \in Threads \ {t} :
          SessionOK(thread'[u].session, owner) /\ RequestOK(thread'[u], owner)
    BY <1>4, <2>2, ThreadType DEF RequestOK
  <2> QED
    BY <1>1, <1>3, <2>1, <2>2, <2>3 DEF SessionsOK
<1>8. AfterLogout'
  <2> SUFFICES ASSUME signed' = "out"
               PROVE  NoTokens(cookie') /\ \A u \in Threads : OutOK(thread'[u])
    BY DEF AfterLogout
  <2>1. OutOK(IdleThread)
    BY DEF OutOK, NoTokens, IdleThread, NoSession
  <2>2. CASE k.kind = "logout"
    <3>1. NoTokens(cookie')
      BY <1>1, <1>2, <2>2 DEF RequestOK
    <3>2. \A u \in Threads \ {t} : OutOK(thread'[u])
      BY <1>4, <2>1, <2>2 DEF OutOK
    <3> QED
      BY <1>3, <2>1, <3>1, <3>2
  <2>3. CASE k.kind # "logout"
    <3>1. /\ signed = "out" /\ k.kind # "save" /\ ~(k.kind = "callback" /\ k.ok)
          /\ ~(k.late /\ k.modified /\ {k.session.access, k.session.refresh} # {None})
      BY <2>3 DEF Respond
    <3>2. NoTokens(cookie) /\ \A u \in Threads : OutOK(thread[u])
      BY <3>1 DEF IInv, AfterLogout
    <3>3. NoTokens(cookie')
      BY <1>2, <3>1, <3>2 DEF OutOK, NoTokens
    <3>4. \A u \in Threads \ {t} : OutOK(thread'[u])
      BY <1>4, <2>1, <3>2 DEF OutOK
    <3> QED
      BY <1>3, <2>1, <3>3, <3>4
  <2> QED
    BY <2>2, <2>3
<1>9. OneByOne'
  <2> SUFFICES ASSUME ~overlapped
               PROVE  /\ \A u, v \in Threads : Busy(u)' /\ Busy(v)' => u = v
                      /\ \A u \in Threads : Fresh(thread'[u], Stale)
                      /\ cookie'.refresh \notin Stale
    BY <1>1 DEF OneByOne, Stale
  <2>1. \A u \in Threads \ {t} : thread[u].pc = "idle"
    BY <1>1 DEF IInv, OneByOne, Busy
  <2>2. \A u \in Threads : thread'[u] = IdleThread
    BY <1>3, <1>4, <2>1
  <2>3. Fresh(IdleThread, Stale)
    BY NoneUnspent DEF Stale, Fresh, IdleThread, NoSession
  <2>4. \A u \in Threads : ~Busy(u)'
    BY <2>2 DEF Busy, IdleThread
  <2>5. k.session.refresh \notin Stale
    BY ThreadType DEF Fresh
  <2>6. cookie.refresh \in Stale => k.modified
    BY <2>1 DEF IInv, OneByOne, Busy
  <2> QED
    BY <1>2, <2>2, <2>3, <2>4, <2>5, <2>6
<1> QED
  BY <1>5, <1>6, <1>7, <1>8, <1>9 DEF IInv

\* A request that is lost leaves the browser's session as it was.
LEMMA LoseKeeps == ASSUME IInv, NEW t \in Threads, Lose(t) PROVE IInv'
<1> DEFINE k == thread[t]
<1>1. /\ Busy(t) /\ k \in Requests /\ UNCHANGED <<cookie, owner, spent, signed, overlapped>>
      /\ dropped' = dropped \cup ({k.replaced} \ {None})
      /\ thread' = [thread EXCEPT ![t] = IdleThread]
  BY ThreadType DEF Lose, Busy
<1>2. \A u \in Threads : thread'[u] = IF u = t THEN IdleThread ELSE thread[u]
  BY <1>1 DEF IInv, TypeOK
<1>3. TypeOK'
  <2>1. k.replaced \in Grants \cup {None}
    BY <1>1 DEF Requests
  <2>2. dropped' \subseteq Grants
    BY <1>1, <2>1 DEF IInv, TypeOK
  <2>3. thread' \in [Threads -> Requests]
    BY <1>1, IdleType DEF IInv, TypeOK, Requests
  <2> QED
    BY <1>1, <2>2, <2>3 DEF IInv, TypeOK, Requests
<1>4. GrantsOK'
  BY <1>1 DEF IInv, GrantsOK
<1>5. SessionsOK'
  <2>1. SessionOK(IdleThread.session, owner) /\ RequestOK(IdleThread, owner)
    BY DEF SessionOK, RequestOK, IdleThread, NoSession
  <2> QED
    BY <1>1, <1>2, <2>1 DEF IInv, SessionsOK
<1>6. AfterLogout'
  <2>1. OutOK(IdleThread)
    BY DEF OutOK, NoTokens, IdleThread, NoSession
  <2> QED
    BY <1>1, <1>2, <2>1 DEF IInv, AfterLogout
<1>7. OneByOne'
  <2> SUFFICES ASSUME ~overlapped
               PROVE  /\ \A u, v \in Threads : Busy(u)' /\ Busy(v)' => u = v
                      /\ \A u \in Threads : Fresh(thread'[u], Stale')
                      /\ cookie.refresh \notin Stale'
    BY <1>1 DEF OneByOne
  <2>1. \A u \in Threads : u # t => thread[u] = IdleThread
    BY <1>1 DEF IInv, OneByOne, Busy, SessionsOK, RequestOK
  <2>2. \A u \in Threads : thread'[u] = IdleThread
    BY <1>2, <2>1
  <2>3. None \notin Stale'
    BY <1>1, NoneUnspent DEF Stale
  <2>4. Fresh(IdleThread, Stale')
    BY <2>3 DEF Fresh, IdleThread, NoSession
  <2>5. \A u \in Threads : ~Busy(u)'
    BY <2>2 DEF Busy, IdleThread
  <2>6. Stale' \subseteq Stale
    BY <1>1 DEF Stale
  <2>7. cookie.refresh \in Stale => cookie.refresh = k.replaced
    BY <1>1 DEF IInv, OneByOne
  <2>8. cookie.refresh \notin Stale'
    BY <1>1, <2>3, <2>6, <2>7 DEF Stale
  <2> QED
    BY <2>2, <2>4, <2>5, <2>8
<1> QED
  BY <1>3, <1>4, <1>5, <1>6, <1>7 DEF IInv

LEMMA StepKeeps == ASSUME IInv, [Next]_vars PROVE IInv'
<1>1. ASSUME NEW t \in Threads, Receive(t) PROVE IInv'
  BY <1>1, ReceiveKeeps
<1>2. ASSUME NEW t \in Threads, Work(t) PROVE IInv'
  BY <1>2, ExchangeKeeps, UserinfoKeeps, CallKeeps, RefreshKeeps, RespondKeeps,
     LoseKeeps DEF Work
<1>3. CASE UNCHANGED vars
  BY <1>3 DEF vars, IInv, TypeOK, GrantsOK, SessionsOK, AfterLogout, OneByOne, Stale, Busy
<1> QED
  BY <1>1, <1>2, <1>3 DEF Next

-----------------------------------------------------------------------------
(* The theorems                                                            *)

\* Every reachable state satisfies the inductive invariant.
LEMMA Reachable == Spec => []IInv
<1>1. Init => IInv
  BY InitOK
<1>2. IInv /\ [Next]_vars => IInv'
  BY StepKeeps
<1> QED
  BY <1>1, <1>2, PTL DEF Spec

\* The variables have the types that DashboardSession declares, whatever the
\* requests, answers and failures.
THEOREM TypeCorrect == Spec => []TypeOK
<1>1. IInv => TypeOK
  BY DEF IInv
<1> QED
  BY <1>1, Reachable, PTL

\* The gateway executes a call of the dashboard at most once, and exactly once
\* when the page reports success, although _api_get and _api_post send it a
\* second time after they have refreshed an expired token.
THEOREM CallsOnlyOnce == Spec => []CalledOnce
<1>1. IInv => CalledOnce
  BY DEF IInv, SessionsOK, RequestOK, CalledOnce
<1> QED
  BY <1>1, Reachable, PTL

\* The browser's session and those that requests work with never join one
\* user's tokens to the name and roles of another, whatever order callbacks,
\* refreshes and logouts end in (a pasted token aside).
THEOREM SessionAlwaysTogether == Spec => []SessionBelongsTogether
<1>1. ASSUME IInv PROVE SessionBelongsTogether
  <2>1. \A s \in {cookie} \cup {thread[t].session : t \in Threads} : SessionOK(s, owner)
    BY CookieOK, ThreadType, <1>1
  <2>2. None \notin Grants /\ Pasted \notin Grants
    BY DashboardAssumption DEF Grants, Pasted
  <2> QED
    BY <2>1, <2>2 DEF SessionBelongsTogether, SessionOK
<1> QED
  BY <1>1, Reachable, PTL

\* A logout leaves the browser without tokens until the user signs in or pastes
\* one, or the answer to a request that began before the logout brings it back.
THEOREM LogoutAlwaysSticks == Spec => []LogoutSticks
<1>1. IInv => LogoutSticks
  BY DEF IInv, AfterLogout, NoTokens, LogoutSticks
<1> QED
  BY <1>1, Reachable, PTL

\* As long as requests do not overlap, Keycloak has replaced the refresh token
\* that the browser holds only at the demand of the request being served or of one
\* whose response was lost, whichever of Keycloak's and the gateway's answers to
\* _refresh_access_token_if_needed and its callers are lost.
THEOREM RefreshTokenAlwaysLive == Spec => []RefreshTokenLive
<1>1. IInv => RefreshTokenLive
  BY DEF IInv, OneByOne, Stale, RefreshTokenLive
<1> QED
  BY <1>1, Reachable, PTL
=============================================================================
