----------------------------- MODULE AdminStore -----------------------------
(***************************************************************************)
(* The admin endpoints of the gateway (api_gateway/main.py) over their     *)
(* tables: users, policies, whitelisted locations and devices, and the     *)
(* audit log.                                                              *)
(*                                                                         *)
(* An authenticated request waits for its database session in a thread;    *)
(* its handler then runs without an await, so a process runs one handler   *)
(* at a time.  A creation commits its row and then, separately, its audit  *)
(* entry.  Several processes share the database.                           *)
(***************************************************************************)
EXTENDS GatewayRequests, Sequences, FiniteSets

CONSTANTS
    Users,            \* what get_current_user may return
    Names,            \* usernames
    Payloads,         \* the requests made, among AllPayloads
    TempDays,         \* expires_in_days of a temporary entry
    Limit,            \* limit of an audit listing
    MaxSkew,          \* bound on how far the processes' clocks are apart
    AwareTimestamps   \* whether the database returns expires_at with a zone

VARIABLES
    store,     \* of each table: its rows, numbered by their ids
    audit,     \* admin_audit_logs
    request    \* of each request: how far it is, its process, user and payload,
               \* its handler's utcnow(), the id of the row it stored (0: none),
               \* what it was shown and the creations answered before it

admin_vars == <<store, audit, request>>

Tables == {"admin_user", "admin_policy", "whitelist_location", "whitelist_device"}

\* The payloads: a creation, permanent or temporary, with or without the
\* fields a temporary entry needs; or a listing.
AllPayloads ==
    [op : {"create"}, table : {"admin_user"}, name : Names, temporary : {FALSE},
     complete : {TRUE}]
    \cup [op : {"create"}, table : Tables \ {"admin_user"}, name : {None},
          temporary : {FALSE}, complete : {TRUE}]
    \cup [op : {"create"}, table : {"whitelist_location", "whitelist_device"},
          name : {None}, temporary : {TRUE}, complete : BOOLEAN]
    \cup [op : {"list"}, table : Tables \cup {"admin_audit"}, name : {None},
          temporary : {FALSE}, complete : {TRUE}]

ASSUME AdminAssumption ==
    /\ Payloads \subseteq AllPayloads
    /\ TempDays \in Nat /\ Limit \in Nat \ {0} /\ MaxSkew \in Nat
    /\ None \notin AllPayloads \cup Nat
    /\ AwareTimestamps \in BOOLEAN

Ended == {"unauthorized", "forbidden", "conflict", "incomplete", "created", "listed",
          "error", "lost"}

Rows == [name : Names \cup {None}, created_by : {u.user_id : u \in Users},
         expires_at : Nat \cup {None}]

Action(p) ==
    CASE p.table = "admin_user" -> "CREATE_USER"
      [] p.table = "admin_policy" -> "CREATE_POLICY"
      [] p.table = "whitelist_location" /\ ~p.temporary -> "CREATE_WHITELIST_LOCATION"
      [] p.table = "whitelist_device" /\ ~p.temporary -> "CREATE_WHITELIST_DEVICE"
      [] p.table = "whitelist_location" /\ p.temporary -> "CREATE_TEMP_WHITELIST_LOCATION"
      [] p.table = "whitelist_device" /\ p.temporary -> "CREATE_TEMP_WHITELIST_DEVICE"

Events == [actor_user_id : {u.user_id : u \in Users},
           action : {Action(p) : p \in {q \in AllPayloads : q.op = "create"}},
           target_type : Tables, target_id : Nat, created_at : Times]

AdminTypeOK ==
    /\ store \in [Tables -> Seq(Rows)]
    /\ audit \in Seq(Events)
    /\ request \in [Requests ->
         [pc : {"none", "accepted", "row", "audit"} \cup Ended,
          host : Hosts \cup {None}, user : Users \cup {None},
          payload : AllPayloads \cup {None}, now : Times, id : Nat,
          shown : SUBSET [id : Nat, temporary : BOOLEAN, expired : BOOLEAN],
          before : SUBSET Requests]]

AdminInit ==
    /\ store = [t \in Tables |-> <<>>]
    /\ audit = <<>>
    /\ request = [r \in Requests |->
         [pc |-> "none", host |-> None, user |-> None, payload |-> None,
          now |-> 0, id |-> 0, shown |-> {}, before |-> {}]]

\* The request is over, with this outcome.
End(r, outcome) == [request[r] EXCEPT !.pc = outcome, !.host = None]

\* No handler of the process is running.
Idle(h) == \A r \in Requests : request[r].host = h => request[r].pc \notin {"row", "audit"}

\* get_current_user has returned a user; the session is being opened.  Nothing
\* looks at the payload before the handler does.
AcceptRequest(r, h, u) ==
    /\ request[r].pc = "none"
    /\ request' = [request EXCEPT
         ![r].pc = "accepted", ![r].host = h, ![r].user = u,
         ![r].before = {q \in Requests : request[q].pc = "created"}]
    /\ UNCHANGED <<clock, store, audit>>

-----------------------------------------------------------------------------
Lower(role) == IF role = "ADMIN" THEN "admin" ELSE role

_require_admin(u) == "admin" \in {Lower(role) : role \in u.roles} \cup {Lower(u.role)}

Exists(name) == \E i \in DOMAIN store["admin_user"] : store["admin_user"][i].name = name

\* get_current_user has raised: 401.
RefuseRequest(r) ==
    /\ request[r].pc = "none"
    /\ request' = [request EXCEPT ![r].pc = "unauthorized"]
    /\ UNCHANGED <<clock, store, audit>>

\* A creation up to its first commit.  refusal is what the endpoint finds wrong
\* with the request of an admin, or None.
Create(r, p, refusal) ==
    /\ request[r].pc = "accepted"
    /\ p.op = "create"
    /\ Idle(request[r].host)
    /\ request' = [request EXCEPT ![r] =
         IF ~_require_admin(request[r].user) THEN End(r, "forbidden")
         ELSE IF refusal # None THEN End(r, refusal)
         ELSE [@ EXCEPT !.pc = "row", !.payload = p, !.now = clock]]
    /\ UNCHANGED <<clock, store, audit>>

admin_create_user(r, p) ==
    /\ p.table = "admin_user"
    /\ Create(r, p, IF Exists(p.name) THEN "conflict" ELSE None)

admin_create_policy(r, p) == p.table = "admin_policy" /\ Create(r, p, None)

admin_whitelist_location(r, p) ==
    p.table = "whitelist_location" /\ ~p.temporary /\ Create(r, p, None)

admin_whitelist_device(r, p) ==
    p.table = "whitelist_device" /\ ~p.temporary /\ Create(r, p, None)

admin_create_temporary_whitelist(r, p) ==
    /\ p.temporary
    /\ Create(r, p, IF p.complete THEN None ELSE "incomplete")

\* Faulty variant of Unique: the table has no unique constraint.
Unique_Unchecked(p) == TRUE

\* The constraint uq_admin_users_username, checked by the INSERT.
Unique(p) == p.table = "admin_user" => ~Exists(p.name)

\* The creation's first commit.  A commit that raises (a duplicate, a lost
\* connection before or after the server committed) ends the request with 500.
CommitRow(r) ==
    LET p == request[r].payload
        row == [name |-> p.name, created_by |-> request[r].user.user_id,
                expires_at |-> IF p.temporary THEN request[r].now + TempDays ELSE None]
    IN
    /\ request[r].pc = "row"
    /\ \/ /\ Unique(p)
          /\ store' = [store EXCEPT ![p.table] = Append(@, row)]
          /\ \E next \in {[request[r] EXCEPT !.pc = "audit"], End(r, "error")} :
               request' = [request EXCEPT ![r] = [next EXCEPT !.id = Len(store'[p.table])]]
       \/ /\ request' = [request EXCEPT ![r] = End(r, "error")]
          /\ UNCHANGED store
    /\ UNCHANGED <<clock, audit>>

\* Faulty variant of TargetId: the id is read back as the table's newest.
TargetId_Newest(r) == Len(store[request[r].payload.table])

\* The id of the target, as _admin_audit is given it.
TargetId(r) == request[r].id

\* What the flush may read for created_at: the clock of the process, at some
\* moment between the handler's start and the commit.
Stamps(r) == {t \in Times : request[r].now <= t + MaxSkew /\ t <= clock + MaxSkew}

Event(r, created_at) ==
    LET p == request[r].payload
    IN [actor_user_id |-> request[r].user.user_id, action |-> Action(p),
        target_type |-> p.table, target_id |-> TargetId(r), created_at |-> created_at]

\* Faulty variant of CommitAudit: a failing audit does not fail the request.
CommitAudit_BestEffort(r) ==
    /\ request[r].pc = "audit"
    /\ \E t \in Stamps(r) : audit' \in {audit, Append(audit, Event(r, t))}
    /\ request' = [request EXCEPT ![r] = End(r, "created")]
    /\ UNCHANGED <<clock, store>>

\* The creation's second commit, in _admin_audit.
CommitAudit(r) ==
    /\ request[r].pc = "audit"
    /\ \/ /\ \E t \in Stamps(r) : audit' = Append(audit, Event(r, t))
          /\ \E outcome \in {"created", "error"} :
               request' = [request EXCEPT ![r] = End(r, outcome)]
       \/ /\ request' = [request EXCEPT ![r] = End(r, "error")]
          /\ UNCHANGED audit
    /\ UNCHANGED <<clock, store>>

\* Faulty variant of IsPage: the last ones by id.
IsPage_ById(S) == S = {i \in DOMAIN audit : i > Len(audit) - Limit}

\* S is what ORDER BY created_at DESC LIMIT may return: all events, or Limit
\* of them and none older than one left out.  Events of one time come in any
\* order.
IsPage(S) ==
    /\ Cardinality(S) = IF Len(audit) < Limit THEN Len(audit) ELSE Limit
    /\ \A i \in S, j \in DOMAIN audit \ S : audit[i].created_at >= audit[j].created_at

Page(S) == {[id |-> i, temporary |-> FALSE, expired |-> FALSE] : i \in S}

\* Every row of a table, and whether its time is over.
Listing(t) ==
    {[id |-> i, temporary |-> store[t][i].expires_at # None,
      expired |-> store[t][i].expires_at # None /\ store[t][i].expires_at < clock] :
       i \in DOMAIN store[t]}

\* A listing, one query: it raises, or shows these entries.
Show(r, p, raises, entries) ==
    /\ request[r].pc = "accepted"
    /\ p.op = "list"
    /\ Idle(request[r].host)
    /\ request' = [request EXCEPT ![r] =
         IF ~_require_admin(request[r].user) THEN End(r, "forbidden")
         ELSE IF raises THEN End(r, "error")
         ELSE [End(r, "listed") EXCEPT !.payload = p, !.shown = entries]]
    /\ UNCHANGED <<clock, store, audit>>

admin_list_users(r, p) ==
    p.table = "admin_user" /\ Show(r, p, FALSE, Listing(p.table))

admin_list_policies(r, p) ==
    p.table = "admin_policy" /\ Show(r, p, FALSE, Listing(p.table))

\* Comparing a stored time that has a zone with utcnow() raises.
ShowEntries(r, p) ==
    Show(r, p, AwareTimestamps /\ \E e \in Listing(p.table) : e.temporary, Listing(p.table))

admin_list_whitelist_locations(r, p) == p.table = "whitelist_location" /\ ShowEntries(r, p)

admin_list_whitelist_devices(r, p) == p.table = "whitelist_device" /\ ShowEntries(r, p)

admin_audit_list(r, p) ==
    /\ p.table = "admin_audit"
    /\ \E S \in SUBSET DOMAIN audit : IsPage(S) /\ Show(r, p, FALSE, Page(S))

\* The endpoint that a request with this payload is for.
Handle(r, p) ==
    \/ admin_create_user(r, p) \/ admin_create_policy(r, p)
    \/ admin_whitelist_location(r, p) \/ admin_whitelist_device(r, p)
    \/ admin_create_temporary_whitelist(r, p)
    \/ admin_list_users(r, p) \/ admin_list_policies(r, p)
    \/ admin_list_whitelist_locations(r, p) \/ admin_list_whitelist_devices(r, p)
    \/ admin_audit_list(r, p)

\* A process dies with the requests it was serving; what they committed stays.
CrashHost(h) ==
    /\ request' = [r \in Requests |->
         IF request[r].host = h /\ request[r].pc \in {"accepted", "row", "audit"}
         THEN End(r, "lost") ELSE request[r]]
    /\ UNCHANGED <<clock, store, audit>>

AdminNext ==
    \/ \E r \in Requests, h \in Hosts, u \in Users : AcceptRequest(r, h, u)
    \/ \E r \in Requests : RefuseRequest(r)
    \/ \E r \in Requests :
         \/ \E p \in Payloads : Handle(r, p)
         \/ CommitRow(r) \/ CommitAudit(r)
    \/ \E h \in Hosts : CrashHost(h)

-----------------------------------------------------------------------------
Created == UNION {{t} \X DOMAIN store[t] : t \in Tables}

\* The request that stored a row.
Stored(r, t, i) ==
    request[r].payload # None /\ request[r].payload.table = t /\ request[r].id = i

\* Every audit event names a row, the user who created it and how, and no row
\* is audited twice, whichever processes create rows at the same time
\* (_admin_audit after db.refresh in the handlers of main.py).
AuditTellsTruth ==
    /\ \A i \in DOMAIN audit :
         LET e == audit[i] IN
         /\ e.target_id \in DOMAIN store[e.target_type]
         /\ e.actor_user_id = store[e.target_type][e.target_id].created_by
         /\ \E r \in Requests : /\ Stored(r, e.target_type, e.target_id)
                                /\ e.action = Action(request[r].payload)
    /\ \A i, j \in DOMAIN audit :
         audit[i].target_type = audit[j].target_type /\ audit[i].target_id = audit[j].target_id
         => i = j

\* A row without an audit event is there only while its creation is under way,
\* or because the creation failed or its process died: whoever was answered
\* "created" has exactly that row and its event on record.
UnauditedExplained ==
    /\ \A c \in Created :
         \E r \in Requests :
           /\ Stored(r, c[1], c[2])
           /\ \/ request[r].pc \in {"audit", "error", "lost"}
              \/ \E i \in DOMAIN audit :
                   audit[i].target_type = c[1] /\ audit[i].target_id = c[2]
    /\ \A r \in Requests :
         request[r].pc = "created" => <<request[r].payload.table, request[r].id>> \in Created

\* No two users have one name, although the handler looks a name up in one
\* transaction and inserts it in a later one.
UserNamesUnique ==
    \A i, j \in DOMAIN store["admin_user"] :
      store["admin_user"][i].name = store["admin_user"][j].name => i = j

\* A listing shows every creation answered before it was asked for; the audit
\* log shows its event, unless the page is full of events stamped no earlier,
\* in whatever order the processes stamped and committed them; and no entry
\* counts as expired before the days it was given have passed since its
\* creation.
ListingsTellTruth ==
    \A r, q \in Requests :
      LET t == request[r].payload.table
          shown == {e.id : e \in request[r].shown}
      IN
      request[r].pc = "listed" =>
        /\ q \in request[r].before /\ request[q].payload.table = t =>
             \E e \in request[r].shown :
               e.id = request[q].id /\ e.temporary = request[q].payload.temporary
        /\ q \in request[r].before /\ t = "admin_audit" =>
             \E i \in DOMAIN audit :
               /\ audit[i].target_type = request[q].payload.table
               /\ audit[i].target_id = request[q].id
               /\ i \in shown \/ /\ Cardinality(shown) = Limit
                                 /\ \A j \in shown :
                                      audit[j].created_at >= audit[i].created_at
        /\ \A e \in request[r].shown :
             e.expired /\ Stored(q, t, e.id) => request[q].now + TempDays < clock
=============================================================================
