---------------------------- MODULE AdminApi_proofs ----------------------------
(***************************************************************************)
(* The admin endpoints behind token validation, for any number of requests,*)
(* processes, keys, tokens and restarts: the types, what a cached key set  *)
(* holds and whom it lets in; then the tables, how the rows, the requests  *)
(* that stored them and the audit events correspond, and what a listing    *)
(* may show of them.                                                       *)
(***************************************************************************)
EXTENDS AdminApi, FiniteSetTheorems, TLAPS

-----------------------------------------------------------------------------
(* Types                                                                   *)

KeyRecords == [from : Times \cup {Never}, until : Times \cup {Never}]

Calls == [pc : {"none", "asking", "answered", "failed", "fresh", "stale", "raised", "lost"},
          host : Hosts \cup {None}, now : Times, keys : SUBSET KeyIds]

Entries == [id : Nat, temporary : BOOLEAN, expired : BOOLEAN]

States == [pc : {"none", "accepted", "row", "audit"} \cup Ended,
           host : Hosts \cup {None}, user : Users \cup {None},
           payload : AllPayloads \cup {None}, now : Times, id : Nat,
           shown : SUBSET Entries, before : SUBSET Requests]

\* A handler works for a user; between its commits, on a creation.
UnderWay ==
    \A r \in Requests :
      /\ request[r].pc \in {"accepted", "row", "audit"} => request[r].user \in Users
      /\ request[r].pc \in {"row", "audit"} =>
           request[r].payload \in AllPayloads /\ request[r].payload.op = "create"

TypeInv ==
    /\ clock \in Times
    /\ JwksTypeOK
    /\ AdminTypeOK
    /\ token \in [Requests -> Tokens \cup {None}]
    /\ UnderWay

LEMMA TypesUsed ==
  ASSUME TypeInv
  PROVE  /\ key \in [KeyIds -> KeyRecords] /\ call \in [Requests -> Calls]
         /\ request \in [Requests -> States]
         /\ cache \in [Hosts -> [keys : SUBSET KeyIds, ts : Times] \cup {None}]
         /\ clock \in Times /\ clock \in Nat /\ MaxClock \in Nat /\ Never \in Nat
         /\ MaxClock < Never /\ CacheTTL \in Nat /\ CacheTTL > 0
         /\ store \in [Tables -> Seq(Rows)] /\ audit \in Seq(Events)
  BY JwksAssumption, ClockAssumption
     DEF TypeInv, JwksTypeOK, AdminTypeOK, KeyRecords, Calls, Entries, States, Times

LEMMA InitTypes == Init => TypeInv
<1> SUFFICES ASSUME Init PROVE TypeInv
  OBVIOUS
<1> USE DEF Init
<1>1. 0 \in Times /\ clock \in Times
  BY ClockAssumption DEF Times
<1>2. JwksTypeOK
  BY <1>1 DEF JwksInit, JwksTypeOK
<1>3. AdminTypeOK
  <2>1. store \in [Tables -> Seq(Rows)] /\ audit \in Seq(Events)
    BY DEF AdminInit
  <2>2. request \in [Requests -> States]
    BY <1>1 DEF AdminInit, States
  <2> QED
    BY <2>1, <2>2 DEF AdminTypeOK, States, Entries
<1>4. UnderWay
  BY DEF AdminInit, UnderWay
<1> QED
  BY <1>1, <1>2, <1>3, <1>4 DEF TypeInv

-----------------------------------------------------------------------------
(* The key cache                                                           *)

HoldsTime(keys, ts) ==
    \A k \in KeyIds :
      /\ k \in keys => key[k].until >= ts
      /\ key[k].from < ts /\ key[k].until = Never => k \in keys

\* Key sets hold their times, and these have come; so has a call's now.
CacheInv ==
    /\ \A h \in Hosts : cache[h] # None =>
         cache[h].ts <= clock /\ HoldsTime(cache[h].keys, cache[h].ts)
    /\ \A c \in Requests :
         /\ call[c].now <= clock
         /\ call[c].pc = "answered" => HoldsTime(call[c].keys, call[c].now)
         /\ call[c].pc \in {"asking", "answered", "failed"} => call[c].host \in Hosts

\* What fetch_jwks, an answer of Keycloak and a restart leave alone or change.
LEMMA StartKeeps ==
  ASSUME TypeInv, CacheInv, NEW c \in Requests, NEW h \in Hosts, StartFetch(c, h)
  PROVE  JwksTypeOK' /\ CacheInv'
<1> USE TypesUsed DEF StartFetch
<1> DEFINE k == [pc |-> IF Cached(h) THEN "fresh" ELSE "asking",
                 host |-> IF Cached(h) THEN None ELSE h, now |-> clock, keys |-> {}]
<1>1. /\ k \in Calls /\ k.pc \in {"fresh", "asking"} /\ k.now = clock
      /\ k.pc = "asking" => k.host = h
  BY DEF Calls
<1>2. call' = [call EXCEPT ![c] = k]
  OBVIOUS
<1> HIDE DEF k
<1>3. JwksTypeOK'
  BY <1>1, <1>2 DEF TypeInv, JwksTypeOK, Calls, KeyRecords
<1>4. \A d \in Requests : call'[d] = IF d = c THEN k ELSE call[d]
  BY <1>2
<1>5. CacheInv'
  BY <1>1, <1>4 DEF CacheInv, HoldsTime, Times
<1> QED
  BY <1>3, <1>5

LEMMA FinishKeeps ==
  ASSUME TypeInv, CacheInv, NEW c \in Requests, FinishFetch(c)
  PROVE  JwksTypeOK' /\ CacheInv'
<1> USE TypesUsed
<1> DEFINE h == call[c].host
           Returned(pc) == [pc |-> pc, host |-> None, now |-> call[c].now, keys |-> {}]
<1>1. /\ UNCHANGED <<clock, key>>
      /\ \E pc \in {"fresh", "stale", "raised"} : call' = [call EXCEPT ![c] = Returned(pc)]
      /\ \/ UNCHANGED cache
         \/ /\ call[c].pc = "answered"
            /\ cache' = [cache EXCEPT ![h] = [keys |-> call[c].keys, ts |-> call[c].now]]
  BY DEF FinishFetch, CachedAt
<1>2. PICK pc \in {"fresh", "stale", "raised"} : call' = [call EXCEPT ![c] = Returned(pc)]
  BY <1>1
<1>3. Returned(pc) \in Calls /\ Returned(pc).pc = pc /\ Returned(pc).now = call[c].now
  BY DEF Calls
<1> HIDE DEF Returned
<1>4. call' \in [Requests -> Calls]
      /\ \A d \in Requests : call'[d] = IF d = c THEN Returned(pc) ELSE call[d]
  BY <1>2, <1>3
<1>5. cache' \in [Hosts -> [keys : SUBSET KeyIds, ts : Times] \cup {None}]
  BY <1>1 DEF Calls
<1>6. JwksTypeOK'
  BY <1>1, <1>4, <1>5 DEF TypeInv, JwksTypeOK, Calls, KeyRecords
<1>7. \A g \in Hosts : cache'[g] # None =>
        cache'[g].ts <= clock' /\ HoldsTime(cache'[g].keys, cache'[g].ts)
  BY <1>1 DEF CacheInv
<1>8. \A k, ts : HoldsTime(k, ts)' <=> HoldsTime(k, ts)
  BY <1>1 DEF HoldsTime
<1>9. CacheInv'
  BY <1>1, <1>3, <1>4, <1>7, <1>8 DEF CacheInv
<1> QED
  BY <1>6, <1>9

LEMMA AnswersKeeps ==
  ASSUME TypeInv, CacheInv, NEW c \in Requests, KeycloakAnswers(c)
  PROVE  JwksTypeOK' /\ CacheInv'
<1> USE TypesUsed
<1>1. UNCHANGED <<clock, key, cache>>
  BY DEF KeycloakAnswers
<1>2. PICK k \in Calls :
        /\ call' = [call EXCEPT ![c] = k]
        /\ k.now = call[c].now /\ k.host = call[c].host
        /\ k.pc = "answered" => k.keys = Published
  <2>1. CASE call' = [call EXCEPT ![c].pc = "answered", ![c].keys = Published]
    <3> DEFINE k == [call[c] EXCEPT !.pc = "answered", !.keys = Published]
    <3>1. Published \in SUBSET KeyIds
      BY DEF Published
    <3>2. k \in Calls /\ k.now = call[c].now /\ k.host = call[c].host /\ k.keys = Published
      BY <3>1 DEF Calls
    <3>3. call' = [call EXCEPT ![c] = k]
      BY <2>1
    <3> QED
      BY <3>2, <3>3
  <2>2. CASE call' = [call EXCEPT ![c].pc = "failed"]
    <3> DEFINE k == [call[c] EXCEPT !.pc = "failed"]
    <3>1. k \in Calls /\ k.now = call[c].now /\ k.host = call[c].host /\ k.pc = "failed"
      BY DEF Calls
    <3>2. call' = [call EXCEPT ![c] = k]
      BY <2>2
    <3> QED
      BY <3>1, <3>2
  <2> QED
    BY <2>1, <2>2 DEF KeycloakAnswers
<1>3. call' \in [Requests -> Calls]
      /\ \A d \in Requests : call'[d] = IF d = c THEN k ELSE call[d]
  BY <1>2
<1>4. JwksTypeOK'
  BY <1>1, <1>3 DEF TypeInv, JwksTypeOK, Calls, KeyRecords
<1>5. HoldsTime(Published, call[c].now)
  <2> SUFFICES ASSUME NEW j \in KeyIds
               PROVE  /\ j \in Published => key[j].until >= call[c].now
                      /\ key[j].from < call[c].now /\ key[j].until = Never => j \in Published
    BY DEF HoldsTime
  <2>1. call[c].now <= clock /\ call[c].now \in Nat /\ clock < Never
    BY DEF CacheInv, Calls, Times
  <2>2. key[j].from \in Nat /\ key[j].until \in Nat
    BY DEF KeyRecords, Times
  <2> QED
    BY <2>1, <2>2 DEF Published
<1>6. CacheInv'
  <2>1. call[c].pc = "asking" /\ call[c].host \in Hosts
    BY DEF KeycloakAnswers, CacheInv
  <2> QED
    BY <1>1, <1>2, <1>3, <1>5, <2>1 DEF CacheInv, HoldsTime
<1> QED
  BY <1>4, <1>6

\* Publishing and retiring keys now changes nothing about times that have come.
LEMMA RotateKeeps ==
  ASSUME TypeInv, CacheInv, Rotate
  PROVE  /\ JwksTypeOK' /\ CacheInv'
         /\ \A k \in KeyIds :
              /\ key[k].from # Never => key'[k].from = key[k].from
              /\ key'[k].until \in {key[k].until, clock}
              /\ key[k].until # Never => key'[k].until # Never
<1> USE TypesUsed
<1>1. UNCHANGED <<clock, cache, call>>
  BY DEF Rotate
<1>2. PICK k \in KeyIds, retired \in SUBSET Published :
        /\ key[k].from = Never
        /\ key' = [j \in KeyIds |->
             CASE j = k -> [key[j] EXCEPT !.from = clock]
               [] j \in retired -> [key[j] EXCEPT !.until = clock]
               [] OTHER -> key[j]]
  BY DEF Rotate
<1>3. \A j \in KeyIds :
        /\ key'[j] \in KeyRecords
        /\ key'[j].from = IF j = k THEN clock ELSE key[j].from
        /\ key'[j].until = IF j \in retired THEN clock ELSE key[j].until
  <2>1. k \notin retired
    BY <1>2 DEF Published, Times
  <2> SUFFICES ASSUME NEW j \in KeyIds
               PROVE  /\ key'[j] \in KeyRecords
                      /\ key'[j].from = IF j = k THEN clock ELSE key[j].from
                      /\ key'[j].until = IF j \in retired THEN clock ELSE key[j].until
    OBVIOUS
  <2>2. key[j] \in KeyRecords
    OBVIOUS
  <2>3. CASE j = k
    <3>1. key'[j] = [key[j] EXCEPT !.from = clock]
      BY <1>2, <2>1, <2>3
    <3> QED
      BY <2>1, <2>2, <2>3, <3>1 DEF KeyRecords
  <2>4. CASE j # k /\ j \in retired
    <3>1. key'[j] = [key[j] EXCEPT !.until = clock]
      BY <1>2, <2>4
    <3> QED
      BY <2>2, <2>4, <3>1 DEF KeyRecords
  <2>5. CASE j # k /\ j \notin retired
    <3>1. key'[j] = key[j]
      BY <1>2, <2>5
    <3> QED
      BY <2>2, <2>5, <3>1
  <2> QED
    BY <2>3, <2>4, <2>5
<1>4. JwksTypeOK'
  BY <1>1, <1>2, <1>3 DEF TypeInv, JwksTypeOK, KeyRecords
<1>5. clock # Never
  BY DEF Times
<1>6. \A j \in KeyIds :
        /\ key[j].from # Never => key'[j].from = key[j].from
        /\ key'[j].until \in {key[j].until, clock}
        /\ key[j].until # Never => key'[j].until # Never
  BY <1>2, <1>3, <1>5
<1>7. ASSUME NEW keys, NEW ts \in Nat, ts <= clock, HoldsTime(keys, ts)
      PROVE  HoldsTime(keys, ts)'
  <2> SUFFICES ASSUME NEW j \in KeyIds
               PROVE  /\ j \in keys => key'[j].until >= ts
                      /\ key'[j].from < ts /\ key'[j].until = Never => j \in keys
    BY DEF HoldsTime
  <2> QED
    BY <1>3, <1>5, <1>7 DEF HoldsTime
<1>8. CacheInv'
  <2>1. \A h \in Hosts : cache[h] # None => cache[h].ts \in Nat
    BY DEF Times
  <2>2. \A c \in Requests : call[c].now \in Nat
    BY DEF Calls, Times
  <2> QED
    BY <1>1, <1>7, <2>1, <2>2 DEF CacheInv
<1> QED
  BY <1>4, <1>6, <1>8

LEMMA ForgetKeeps ==
  ASSUME TypeInv, CacheInv, NEW h \in Hosts, ForgetKeys(h)
  PROVE  /\ JwksTypeOK' /\ CacheInv'
         /\ \A c \in Requests : call[c].pc \in {"none", "fresh", "stale", "raised", "lost"} =>
              call'[c] = call[c]
         /\ \A c \in Requests : call'[c].pc \in {"fresh", "stale"} => call'[c] = call[c]
<1> USE TypesUsed
<1>1. UNCHANGED <<clock, key>>
      /\ cache' = [cache EXCEPT ![h] = None]
      /\ DOMAIN call' = Requests /\ call' = [c \in Requests |-> call'[c]]
  BY DEF ForgetKeys
<1>2. \A c \in Requests :
        \/ call'[c] = call[c]
        \/ /\ call[c].pc \in {"asking", "answered", "failed"}
           /\ call'[c] = [call[c] EXCEPT !.pc = "lost", !.host = None, !.keys = {}]
  BY DEF ForgetKeys
<1>3. \A c \in Requests :
        /\ call'[c] \in Calls /\ call'[c].now = call[c].now
        /\ call'[c] = call[c] \/ (call[c].pc \in {"asking", "answered", "failed"}
                                  /\ call'[c].pc = "lost")
  <2> SUFFICES ASSUME NEW c \in Requests
               PROVE  /\ call'[c] \in Calls /\ call'[c].now = call[c].now
                      /\ \/ call'[c] = call[c]
                         \/ /\ call[c].pc \in {"asking", "answered", "failed"}
                            /\ call'[c].pc = "lost"
    OBVIOUS
  <2>1. call[c] \in Calls
    OBVIOUS
  <2>2. CASE call'[c] = call[c]
    BY <2>1, <2>2
  <2>3. CASE /\ call[c].pc \in {"asking", "answered", "failed"}
             /\ call'[c] = [call[c] EXCEPT !.pc = "lost", !.host = None, !.keys = {}]
    BY <2>1, <2>3 DEF Calls
  <2> QED
    BY <1>2, <2>2, <2>3
<1>4. JwksTypeOK'
  BY <1>1, <1>3 DEF TypeInv, JwksTypeOK, KeyRecords, Calls
<1>5. \A g \in Hosts : cache'[g] # None => cache'[g] = cache[g]
  BY <1>1
<1>7. \A k, ts : HoldsTime(k, ts)' <=> HoldsTime(k, ts)
  BY <1>1 DEF HoldsTime
<1>8. \A c \in Requests :
        /\ call'[c].now = call[c].now
        /\ call'[c].pc \in {"asking", "answered", "failed"} => call'[c] = call[c]
  BY <1>3
<1>6. CacheInv'
  <2> USE <1>1, <1>7 DEF CacheInv
  <2>1. \A g \in Hosts : cache'[g] # None =>
          cache'[g].ts <= clock' /\ HoldsTime(cache'[g].keys, cache'[g].ts)
    BY <1>5
  <2>2. \A c \in Requests :
          /\ call'[c].now <= clock'
          /\ call'[c].pc = "answered" => HoldsTime(call'[c].keys, call'[c].now)
          /\ call'[c].pc \in {"asking", "answered", "failed"} => call'[c].host \in Hosts
    BY <1>8
  <2> QED
    BY <2>1, <2>2
<1> QED
  BY <1>3, <1>4, <1>6

-----------------------------------------------------------------------------
(* The requests                                                            *)

\* The request r is now q, and nothing else of the admin endpoints changed
\* but perhaps the tables.
Becomes(r, q) ==
    /\ q \in States
    /\ request' = [request EXCEPT ![r] = q]
    /\ \A x \in Requests : request'[x] = IF x = r THEN q ELSE request[x]

EndsAs(r, q, outcome) ==
    /\ q \in States /\ q.pc = outcome /\ q.user = request[r].user
    /\ q.id = request[r].id /\ q.before = request[r].before
    /\ q.payload = request[r].payload /\ q.now = request[r].now
    /\ q.shown = request[r].shown

LEMMA EndIs ==
  ASSUME TypeInv, NEW r \in Requests, NEW outcome \in Ended
  PROVE  EndsAs(r, End(r, outcome), outcome)
<1>1. request[r] \in States
  BY TypesUsed
<1> QED
  BY <1>1 DEF End, States, EndsAs

\* What a listing of a table, or of the audit log, may show.
IsShown(t, shown) ==
    IF t = "admin_audit" THEN \E S \in SUBSET DOMAIN audit : IsPage(S) /\ shown = Page(S)
                         ELSE shown = Listing(t)

\* What a handler does up to its first commit, or to its end.
Handled(r, p, q) ==
    /\ request[r].pc = "accepted"
    /\ Becomes(r, q)
    /\ q.user = request[r].user /\ q.id = request[r].id /\ q.before = request[r].before
    /\ \/ q.pc \in {"forbidden", "conflict", "incomplete", "error"}
       \/ /\ q.pc = "row" /\ p.op = "create"
          /\ _require_admin(q.user) /\ q.payload = p /\ q.now = clock
       \/ /\ q.pc = "listed" /\ p.op = "list"
          /\ _require_admin(q.user) /\ q.payload = p
          /\ IsShown(p.table, q.shown)

LEMMA CreateIs ==
  ASSUME TypeInv, NEW r \in Requests, NEW p \in AllPayloads,
         NEW refusal \in {None, "conflict", "incomplete"}, Create(r, p, refusal)
  PROVE  \E q : Handled(r, p, q)
<1>1. /\ request[r].pc = "accepted" /\ p.op = "create"
      /\ request' = [request EXCEPT ![r] =
           IF ~_require_admin(request[r].user) THEN End(r, "forbidden")
           ELSE IF refusal # None THEN End(r, refusal)
           ELSE [request[r] EXCEPT !.pc = "row", !.payload = p, !.now = clock]]
  BY DEF Create
<1>2. request[r] \in States /\ clock \in Times /\ request \in [Requests -> States]
  BY TypesUsed
<1>3. CASE ~_require_admin(request[r].user)
  <2> DEFINE q == End(r, "forbidden")
  <2>1. request' = [request EXCEPT ![r] = q]
    BY <1>1, <1>3
  <2>2. "forbidden" \in Ended
    BY DEF Ended
  <2>4. EndsAs(r, q, "forbidden")
    BY <2>2, EndIs
  <2> HIDE DEF q
  <2>3. Handled(r, p, q)
    <3>1. Becomes(r, q)
      BY <1>2, <2>1, <2>4 DEF Becomes, EndsAs
    <3> QED
      BY <1>1, <2>2, <2>4, <3>1 DEF Handled, EndsAs
  <2> QED
    BY <2>3
<1>4. CASE _require_admin(request[r].user) /\ refusal # None
  <2> DEFINE q == End(r, refusal)
  <2>1. request' = [request EXCEPT ![r] = q]
    BY <1>1, <1>4
  <2>2. refusal \in Ended /\ refusal \in {"conflict", "incomplete"}
    BY <1>4 DEF Ended
  <2>4. EndsAs(r, q, refusal)
    BY <2>2, EndIs
  <2> HIDE DEF q
  <2>3. Handled(r, p, q)
    <3>1. Becomes(r, q)
      BY <1>2, <2>1, <2>4 DEF Becomes, EndsAs
    <3> QED
      BY <1>1, <2>2, <2>4, <3>1 DEF Handled, EndsAs
  <2> QED
    BY <2>3
<1>5. CASE _require_admin(request[r].user) /\ refusal = None
  <2> DEFINE q == [request[r] EXCEPT !.pc = "row", !.payload = p, !.now = clock]
  <2>1. request' = [request EXCEPT ![r] = q]
    BY <1>1, <1>5
  <2>2. /\ q \in States /\ q.pc = "row" /\ q.payload = p /\ q.now = clock
        /\ q.user = request[r].user /\ q.id = request[r].id /\ q.before = request[r].before
    BY <1>2 DEF States
  <2> HIDE DEF q
  <2>3. Handled(r, p, q)
    BY <1>1, <1>2, <1>5, <2>1, <2>2 DEF Handled, Becomes
  <2> QED
    BY <2>3
<1> QED
  BY <1>3, <1>4, <1>5

LEMMA ShownTypes ==
  ASSUME TypeInv
  PROVE  /\ \A S \in SUBSET DOMAIN audit : Page(S) \in SUBSET Entries
         /\ \A t \in Tables : Listing(t) \in SUBSET Entries
<1>1. \A i \in Nat, a, b \in BOOLEAN : [id |-> i, temporary |-> a, expired |-> b] \in Entries
  BY DEF Entries
<1>2. \A S \in SUBSET DOMAIN audit : Page(S) \in SUBSET Entries
  <2>1. DOMAIN audit \subseteq Nat
    BY TypesUsed
  <2> QED
    BY <1>1, <2>1 DEF Page
<1>3. ASSUME NEW t \in Tables, NEW e \in Listing(t) PROVE e \in Entries
  <2>1. PICK i \in DOMAIN store[t] :
          e = [id |-> i, temporary |-> store[t][i].expires_at # None,
               expired |-> store[t][i].expires_at # None /\ store[t][i].expires_at < clock]
    BY <1>3 DEF Listing
  <2>2. i \in Nat
    BY TypesUsed
  <2>3. /\ (store[t][i].expires_at # None) \in BOOLEAN
        /\ (store[t][i].expires_at # None /\ store[t][i].expires_at < clock) \in BOOLEAN
    OBVIOUS
  <2> QED
    BY <1>1, <2>1, <2>2, <2>3, Zenon
<1> QED
  BY <1>2, <1>3

LEMMA ShowIs ==
  ASSUME TypeInv, NEW r \in Requests, NEW p \in AllPayloads, NEW raises \in BOOLEAN,
         NEW entries \in SUBSET Entries, Show(r, p, raises, entries),
         IsShown(p.table, entries)
  PROVE  \E q : Handled(r, p, q)
<1>1. /\ request[r].pc = "accepted" /\ p.op = "list"
      /\ request' = [request EXCEPT ![r] =
           IF ~_require_admin(request[r].user) THEN End(r, "forbidden")
           ELSE IF raises THEN End(r, "error")
           ELSE [End(r, "listed") EXCEPT !.payload = p, !.shown = entries]]
  BY DEF Show
<1>2. request[r] \in States /\ request \in [Requests -> States]
  BY TypesUsed
<1>3. CASE ~_require_admin(request[r].user)
  <2> DEFINE q == End(r, "forbidden")
  <2>1. request' = [request EXCEPT ![r] = q]
    BY <1>1, <1>3
  <2>2. "forbidden" \in Ended
    BY DEF Ended
  <2>4. EndsAs(r, q, "forbidden")
    BY <2>2, EndIs
  <2> HIDE DEF q
  <2>3. Handled(r, p, q)
    <3>1. Becomes(r, q)
      BY <1>2, <2>1, <2>4 DEF Becomes, EndsAs
    <3> QED
      BY <1>1, <2>2, <2>4, <3>1 DEF Handled, EndsAs
  <2> QED
    BY <2>3
<1>4. CASE _require_admin(request[r].user) /\ raises
  <2> DEFINE q == End(r, "error")
  <2>1. request' = [request EXCEPT ![r] = q]
    BY <1>1, <1>4
  <2>2. "error" \in Ended
    BY DEF Ended
  <2>4. EndsAs(r, q, "error")
    BY <2>2, EndIs
  <2> HIDE DEF q
  <2>3. Handled(r, p, q)
    <3>1. Becomes(r, q)
      BY <1>2, <2>1, <2>4 DEF Becomes, EndsAs
    <3> QED
      BY <1>1, <2>2, <2>4, <3>1 DEF Handled, EndsAs
  <2> QED
    BY <2>3
<1>5. CASE _require_admin(request[r].user) /\ ~raises
  <2> DEFINE q == [End(r, "listed") EXCEPT !.payload = p, !.shown = entries]
  <2>1. request' = [request EXCEPT ![r] = q]
    BY <1>1, <1>5
  <2>2. "listed" \in Ended
    BY DEF Ended
  <2>3. /\ q \in States /\ q.pc = "listed" /\ q.payload = p /\ q.shown = entries
        /\ q.user = request[r].user /\ q.id = request[r].id /\ q.before = request[r].before
    <3> DEFINE e == End(r, "listed")
    <3>1. /\ e \in States /\ e.pc = "listed" /\ e.user = request[r].user
          /\ e.id = request[r].id /\ e.before = request[r].before
      BY <2>2, EndIs DEF EndsAs
    <3> HIDE DEF e
    <3>2. q = [e EXCEPT !.payload = p, !.shown = entries]
      BY DEF e
    <3> HIDE DEF q
    <3> QED
      BY <3>1, <3>2 DEF States
  <2> HIDE DEF q
  <2>4. Handled(r, p, q)
    BY <1>1, <1>2, <1>5, <2>1, <2>3 DEF Handled, Becomes
  <2> QED
    BY <2>4
<1> QED
  BY <1>3, <1>4, <1>5

LEMMA HandleIs ==
  ASSUME TypeInv, NEW r \in Requests, NEW p \in Payloads, Handle(r, p)
  PROVE  UNCHANGED <<clock, store, audit>> /\ \E q : Handled(r, p, q)
<1>1. p \in AllPayloads
  BY AdminAssumption
<1>2. \A t \in Tables : t # "admin_audit"
  BY DEF Tables
<1>3. {"admin_user", "admin_policy", "whitelist_location", "whitelist_device"} \subseteq Tables
  BY DEF Tables
<1>4. UNCHANGED <<clock, store, audit>>
  BY DEF Handle, admin_create_user, admin_create_policy, admin_whitelist_location,
         admin_whitelist_device, admin_create_temporary_whitelist, Create,
         admin_list_users, admin_list_policies, admin_list_whitelist_locations,
         admin_list_whitelist_devices, admin_audit_list, ShowEntries, Show
<1>5. CASE \/ admin_create_user(r, p) \/ admin_create_policy(r, p)
           \/ admin_whitelist_location(r, p) \/ admin_whitelist_device(r, p)
           \/ admin_create_temporary_whitelist(r, p)
  <2>1. PICK refusal \in {None, "conflict", "incomplete"} : Create(r, p, refusal)
    BY <1>5 DEF admin_create_user, admin_create_policy, admin_whitelist_location,
                admin_whitelist_device, admin_create_temporary_whitelist
  <2>2. \E q : Handled(r, p, q)
    BY <1>1, <2>1, CreateIs
  <2> QED
    BY <1>4, <2>2
<1>6. CASE \/ admin_list_users(r, p) \/ admin_list_policies(r, p)
           \/ admin_list_whitelist_locations(r, p) \/ admin_list_whitelist_devices(r, p)
  <2>1. p.table \in Tables
    BY <1>3, <1>6 DEF admin_list_users, admin_list_policies, admin_list_whitelist_locations,
                      admin_list_whitelist_devices
  <2>2. PICK raises \in BOOLEAN : Show(r, p, raises, Listing(p.table))
    <3>1. (AwareTimestamps /\ \E e \in Listing(p.table) : e.temporary) \in BOOLEAN
      OBVIOUS
    <3>2. \/ Show(r, p, FALSE, Listing(p.table))
          \/ Show(r, p, AwareTimestamps /\ \E e \in Listing(p.table) : e.temporary,
                  Listing(p.table))
      BY <1>6 DEF admin_list_users, admin_list_policies, admin_list_whitelist_locations,
                  admin_list_whitelist_devices, ShowEntries
    <3> QED
      BY <3>1, <3>2, Zenon
  <2>3. \E q : Handled(r, p, q)
    BY <1>1, <1>2, <2>1, <2>2, ShownTypes, ShowIs DEF IsShown
  <2> QED
    BY <1>4, <2>3
<1>7. CASE admin_audit_list(r, p)
  <2>1. PICK S \in SUBSET DOMAIN audit : IsPage(S) /\ Show(r, p, FALSE, Page(S))
    BY <1>7 DEF admin_audit_list
  <2>3. p.table = "admin_audit" /\ IsShown(p.table, Page(S))
    BY <1>7, <2>1 DEF admin_audit_list, IsShown
  <2>2. \E q : Handled(r, p, q)
    BY <1>1, <2>1, <2>3, ShownTypes, ShowIs
  <2> QED
    BY <1>4, <2>2
<1> QED
  BY <1>5, <1>6, <1>7 DEF Handle

\* The row and the event of the creation that r is.
RowOf(r) ==
    LET p == request[r].payload IN
    [name |-> p.name, created_by |-> request[r].user.user_id,
     expires_at |-> IF p.temporary THEN request[r].now + TempDays ELSE None]

\* What an event says, its time left aside.
Untimed(e) ==
    [actor_user_id |-> e.actor_user_id, action |-> e.action,
     target_type |-> e.target_type, target_id |-> e.target_id]

EventOf(r) ==
    LET p == request[r].payload IN
    [actor_user_id |-> request[r].user.user_id, action |-> Action(p),
     target_type |-> p.table, target_id |-> request[r].id]

LEMMA SaysOf ==
  ASSUME NEW e, NEW r, Untimed(e) = EventOf(r)
  PROVE  /\ e.target_type = request[r].payload.table /\ e.target_id = request[r].id
         /\ e.actor_user_id = request[r].user.user_id
         /\ e.action = Action(request[r].payload)
<1>1. /\ Untimed(e).target_type = e.target_type /\ Untimed(e).target_id = e.target_id
      /\ Untimed(e).actor_user_id = e.actor_user_id /\ Untimed(e).action = e.action
  BY DEF Untimed
<1>2. /\ EventOf(r).target_type = request[r].payload.table
      /\ EventOf(r).target_id = request[r].id
      /\ EventOf(r).actor_user_id = request[r].user.user_id
      /\ EventOf(r).action = Action(request[r].payload)
  BY DEF EventOf
<1> QED
  BY <1>1, <1>2

\* What the payload of a creation under way is, and what follows from it.
LEMMA CreationType ==
  ASSUME TypeInv, NEW r \in Requests, request[r].pc \in {"row", "audit"}
  PROVE  /\ request[r].payload \in AllPayloads /\ request[r].payload.op = "create"
         /\ request[r].payload.table \in Tables
         /\ RowOf(r) \in Rows /\ \A t \in Times : Event(r, t) \in Events
         /\ request[r] \in States
<1> DEFINE p == request[r].payload
<1>1. /\ p \in AllPayloads /\ p.op = "create" /\ request[r].user \in Users
      /\ request[r] \in States
  BY TypesUsed DEF TypeInv, UnderWay
<1>2. p.table \in Tables /\ p.name \in Names \cup {None} /\ p.temporary \in BOOLEAN
  BY <1>1 DEF AllPayloads, Tables
<1>3. request[r].now \in Nat /\ request[r].id \in Nat /\ TempDays \in Nat
  BY <1>1, AdminAssumption, ClockAssumption DEF States, Times
<1> HIDE DEF p
<1>4. (IF p.temporary THEN request[r].now + TempDays ELSE None) \in Nat \cup {None}
  BY <1>2, <1>3
<1>5. RowOf(r) \in Rows
  BY <1>1, <1>2, <1>4 DEF RowOf, Rows, p
<1>6. \A t \in Times : Event(r, t) \in Events
  BY <1>1, <1>2, <1>3 DEF Event, TargetId, Events, p
<1> QED
  BY <1>1, <1>2, <1>5, <1>6 DEF p

\* A creation's second half keeps what the first has found.
SameWork(q, x) ==
    /\ q.user = x.user /\ q.payload = x.payload /\ q.now = x.now /\ q.before = x.before
    /\ q.shown = x.shown

RowCommitted(r, q) ==
    /\ request[r].pc = "row"
    /\ Becomes(r, q) /\ SameWork(q, request[r])
    /\ UNCHANGED <<clock, audit>>
    /\ \/ UNCHANGED store /\ q.pc = "error" /\ q.id = request[r].id
       \/ LET t == request[r].payload.table IN
          /\ Unique(request[r].payload)
          /\ store' = [store EXCEPT ![t] = Append(@, RowOf(r))]
          /\ q.pc \in {"audit", "error"} /\ q.id = Len(store[t]) + 1

LEMMA CommitRowIs ==
  ASSUME TypeInv, NEW r \in Requests, CommitRow(r)
  PROVE  \E q : RowCommitted(r, q)
<1> DEFINE p == request[r].payload
           t == p.table
           n == Len(store[t]) + 1
<1>1. request[r].pc = "row" /\ UNCHANGED <<clock, audit>>
  BY DEF CommitRow
<1>2. /\ t \in Tables /\ RowOf(r) \in Rows /\ request[r] \in States
      /\ store \in [Tables -> Seq(Rows)] /\ request \in [Requests -> States]
  BY <1>1, CreationType, TypesUsed
<1>3. n \in Nat
  BY <1>2
<1>4. "error" \in Ended
  BY DEF Ended
<1>5. CASE UNCHANGED store /\ request' = [request EXCEPT ![r] = End(r, "error")]
  <2> DEFINE q == End(r, "error")
  <2>1. RowCommitted(r, q)
    BY <1>1, <1>2, <1>4, <1>5, EndIs DEF RowCommitted, Becomes, SameWork, EndsAs
  <2> QED
    BY <2>1
<1>6. ASSUME Unique(p), store' = [store EXCEPT ![t] = Append(@, RowOf(r))],
             NEW next \in {[request[r] EXCEPT !.pc = "audit"], End(r, "error")},
             request' = [request EXCEPT ![r] = [next EXCEPT !.id = Len(store'[t])]]
      PROVE  \E q : RowCommitted(r, q)
  <2>1. Len(store'[t]) = n
    BY <1>2, <1>6
  <2>2. next \in States /\ next.pc \in {"audit", "error"} /\ SameWork(next, request[r])
    <3>1. CASE next = [request[r] EXCEPT !.pc = "audit"]
      BY <1>2, <3>1 DEF States, SameWork
    <3>2. CASE next = End(r, "error")
      BY <1>4, <3>2, EndIs DEF SameWork, EndsAs
    <3> QED
      BY <1>6, <3>1, <3>2
  <2> DEFINE q == [next EXCEPT !.id = n]
  <2>3. request' = [request EXCEPT ![r] = q]
    BY <1>6, <2>1
  <2> HIDE DEF n
  <2>4. q \in States /\ q.pc = next.pc /\ q.id = n /\ SameWork(q, next)
    BY <1>3, <2>2 DEF States, SameWork
  <2> HIDE DEF q
  <2>5. RowCommitted(r, q)
    BY <1>1, <1>2, <1>6, <2>2, <2>3, <2>4 DEF RowCommitted, Becomes, SameWork, n
  <2> QED
    BY <2>5
<1> QED
  BY <1>5, <1>6 DEF CommitRow, RowOf

EventCommitted(r, q) ==
    /\ request[r].pc = "audit"
    /\ Becomes(r, q) /\ SameWork(q, request[r]) /\ q.id = request[r].id
    /\ UNCHANGED <<clock, store>>
    /\ \/ UNCHANGED audit /\ q.pc = "error"
       \/ /\ \E event \in Events :
               Untimed(event) = EventOf(r) /\ audit' = Append(audit, event)
          /\ q.pc \in {"created", "error"}

LEMMA CommitAuditIs ==
  ASSUME TypeInv, NEW r \in Requests, CommitAudit(r)
  PROVE  \E q : EventCommitted(r, q)
<1>1. request[r].pc = "audit" /\ UNCHANGED <<clock, store>>
  BY DEF CommitAudit
<1>2. request[r] \in States /\ request \in [Requests -> States]
  BY TypesUsed
<1>3. PICK outcome \in {"created", "error"} :
        /\ request' = [request EXCEPT ![r] = End(r, outcome)]
        /\ \/ \E t \in Stamps(r) : audit' = Append(audit, Event(r, t))
           \/ UNCHANGED audit /\ outcome = "error"
  BY DEF CommitAudit
<1>8. ASSUME NEW t \in Stamps(r)
      PROVE  Event(r, t) \in Events /\ Untimed(Event(r, t)) = EventOf(r)
  <2>1. Event(r, t) \in Events
    BY <1>1, CreationType DEF Stamps
  <2>2. Untimed(Event(r, t)) = EventOf(r)
    BY DEF Untimed, Event, TargetId, EventOf
  <2> QED
    BY <2>1, <2>2
<1>4. outcome \in Ended
  BY DEF Ended
<1> DEFINE q == End(r, outcome)
<1>5. q \in States /\ q.pc = outcome /\ SameWork(q, request[r]) /\ q.id = request[r].id
  BY <1>4, EndIs DEF SameWork, EndsAs
<1>6. request' = [request EXCEPT ![r] = q]
  BY <1>3
<1> HIDE DEF q
<1>7. EventCommitted(r, q)
  BY <1>1, <1>2, <1>3, <1>5, <1>6, <1>8 DEF EventCommitted, Becomes
<1> QED
  BY <1>7

Accepted(r, u, q) ==
    /\ request[r].pc = "none" /\ UNCHANGED <<clock, store, audit>>
    /\ Becomes(r, q) /\ q.pc = "accepted" /\ q.user = u /\ q.id = request[r].id
    /\ q.before = {x \in Requests : request[x].pc = "created"}

LEMMA AcceptIs ==
  ASSUME TypeInv, NEW r \in Requests, NEW h \in Hosts, NEW u \in Users, AcceptRequest(r, h, u)
  PROVE  \E q : Accepted(r, u, q)
<1> DEFINE B == {x \in Requests : request[x].pc = "created"}
           q == [request[r] EXCEPT !.pc = "accepted", !.host = h, !.user = u, !.before = B]
<1>1. request[r] \in States /\ request \in [Requests -> States] /\ B \in SUBSET Requests
  BY TypesUsed
<1>2. request' = [request EXCEPT ![r] = q]
  BY <1>1 DEF AcceptRequest
<1> HIDE DEF B
<1>3. q \in States /\ q.pc = "accepted" /\ q.user = u /\ q.id = request[r].id /\ q.before = B
  BY <1>1 DEF States
<1> HIDE DEF q
<1>4. Becomes(r, q)
  BY <1>1, <1>2, <1>3 DEF Becomes
<1> QED
  BY <1>3, <1>4 DEF AcceptRequest, Accepted, B

Refused(r, q) ==
    /\ request[r].pc = "none" /\ UNCHANGED <<clock, store, audit>>
    /\ Becomes(r, q) /\ q.pc = "unauthorized" /\ q.id = request[r].id
    /\ q.before = request[r].before

LEMMA RefuseIs ==
  ASSUME TypeInv, NEW r \in Requests, RefuseRequest(r)
  PROVE  \E q : Refused(r, q)
<1> DEFINE q == [request[r] EXCEPT !.pc = "unauthorized"]
<1>1. request[r] \in States /\ request \in [Requests -> States]
  BY TypesUsed
<1>2. request' = [request EXCEPT ![r] = q]
  BY DEF RefuseRequest
<1>3. /\ q \in States /\ q.pc = "unauthorized" /\ q.id = request[r].id
      /\ q.before = request[r].before
  BY <1>1 DEF States, Ended
<1> HIDE DEF q
<1>4. Becomes(r, q)
  BY <1>1, <1>2, <1>3 DEF Becomes
<1> QED
  BY <1>3, <1>4 DEF RefuseRequest, Refused

Crashed ==
    /\ UNCHANGED <<clock, store, audit>> /\ request' \in [Requests -> States]
    /\ \A r \in Requests :
         \/ request'[r] = request[r]
         \/ /\ request[r].pc \in {"accepted", "row", "audit"}
            /\ request'[r].pc = "lost" /\ request'[r].id = request[r].id
            /\ SameWork(request'[r], request[r])

LEMMA CrashIs == ASSUME TypeInv, NEW h \in Hosts, CrashHost(h) PROVE Crashed
<1>1. request \in [Requests -> States] /\ "lost" \in Ended
  BY TypesUsed DEF Ended
<1>2. \A r \in Requests :
        \/ request'[r] = request[r]
        \/ request[r].pc \in {"accepted", "row", "audit"} /\ request'[r] = End(r, "lost")
  BY DEF CrashHost
<1>3. \A r \in Requests :
        LET q == End(r, "lost") IN
        /\ q \in States /\ q.pc = "lost" /\ q.id = request[r].id
        /\ SameWork(q, request[r])
  BY <1>1, EndIs DEF SameWork, EndsAs
<1>4. request' = [r \in Requests |-> request'[r]]
  BY DEF CrashHost
<1>5. \A r \in Requests : request'[r] \in States
  BY <1>1, <1>2, <1>3
<1>6. request' \in [Requests -> States]
  BY <1>4, <1>5
<1> QED
  BY <1>2, <1>3, <1>6 DEF CrashHost, Crashed

\* What a step of the system is for the admin endpoints.
AdminStep ==
    \/ UNCHANGED <<store, audit, request>> /\ clock <= clock'
    \/ /\ UNCHANGED <<clock, store, audit>>
       /\ \E r \in Requests, p \in AllPayloads : \E q : Handled(r, p, q)
    \/ \E r \in Requests : \E q : RowCommitted(r, q) \/ EventCommitted(r, q) \/ Refused(r, q)
    \/ \E r \in Requests, u \in Users : \E q : Accepted(r, u, q)
    \/ Crashed

LEMMA AdminStepTypes == ASSUME TypeInv, AdminStep PROVE AdminTypeOK' /\ UnderWay'
<1> USE TypesUsed
<1>1. ASSUME store' \in [Tables -> Seq(Rows)], audit' \in Seq(Events),
             request' \in [Requests -> States]
      PROVE  AdminTypeOK'
  BY <1>1 DEF AdminTypeOK, States, Entries
<1>2. ASSUME NEW r \in Requests, NEW q, Becomes(r, q),
             q.pc \in {"accepted", "row", "audit"} => q.user \in Users,
             q.pc \in {"row", "audit"} => q.payload \in AllPayloads /\ q.payload.op = "create"
      PROVE  UnderWay' /\ request' \in [Requests -> States]
  BY <1>2 DEF Becomes, UnderWay, TypeInv
<1>3. CASE UNCHANGED <<store, audit, request>>
  BY <1>1, <1>3 DEF UnderWay, TypeInv
<1>4. ASSUME UNCHANGED <<clock, store, audit>>, NEW r \in Requests, NEW p \in AllPayloads,
             NEW q, Handled(r, p, q)
      PROVE  AdminTypeOK' /\ UnderWay'
  <2>1. request[r].user \in Users
    BY <1>4 DEF Handled, TypeInv, UnderWay
  <2>2. /\ Becomes(r, q) /\ q.user = request[r].user
        /\ q.pc \in {"row", "audit"} => q.payload = p /\ p.op = "create"
    BY <1>4 DEF Handled
  <2> QED
    BY <1>1, <1>2, <1>4, <2>1, <2>2
<1>5. ASSUME NEW r \in Requests, NEW q, RowCommitted(r, q)
      PROVE  AdminTypeOK' /\ UnderWay'
  <2>1. /\ request[r].payload \in AllPayloads /\ request[r].payload.op = "create"
        /\ request[r].payload.table \in Tables /\ RowOf(r) \in Rows
        /\ request[r].user \in Users
    BY <1>5, CreationType DEF RowCommitted, TypeInv, UnderWay
  <2>2. Becomes(r, q) /\ q.user = request[r].user /\ q.payload = request[r].payload
        /\ UNCHANGED audit
    BY <1>5 DEF RowCommitted, SameWork
  <2>3. store' \in [Tables -> Seq(Rows)]
    <3> DEFINE t == request[r].payload.table
               row == RowOf(r)
    <3>1. Append(store[t], row) \in Seq(Rows)
      BY <2>1
    <3>2. UNCHANGED store \/ store' = [store EXCEPT ![t] = Append(store[t], row)]
      BY <1>5 DEF RowCommitted
    <3> HIDE DEF t, row
    <3> QED
      BY <3>1, <3>2
  <2> QED
    BY <1>1, <1>2, <2>1, <2>2, <2>3
<1>6. ASSUME NEW r \in Requests, NEW q, EventCommitted(r, q)
      PROVE  AdminTypeOK' /\ UnderWay'
  <2>2. Becomes(r, q) /\ q.pc \in {"created", "error"} /\ UNCHANGED store
    BY <1>6 DEF EventCommitted
  <2>3. audit' \in Seq(Events)
    <3>1. UNCHANGED audit \/ \E event \in Events : audit' = Append(audit, event)
      BY <1>6 DEF EventCommitted
    <3>2. audit \in Seq(Events)
      BY TypesUsed
    <3> QED
      BY <3>1, <3>2
  <2> QED
    BY <1>1, <1>2, <2>2, <2>3
<1>7. ASSUME NEW r \in Requests, NEW q, Refused(r, q)
      PROVE  AdminTypeOK' /\ UnderWay'
  BY <1>1, <1>2, <1>7 DEF Refused
<1>8. ASSUME NEW r \in Requests, NEW u \in Users, NEW q, Accepted(r, u, q)
      PROVE  AdminTypeOK' /\ UnderWay'
  BY <1>1, <1>2, <1>8 DEF Accepted
<1>9. CASE Crashed
  BY <1>1, <1>9 DEF Crashed, UnderWay, TypeInv
<1> QED
  BY <1>3, <1>4, <1>5, <1>6, <1>7, <1>8, <1>9 DEF AdminStep

-----------------------------------------------------------------------------
(* The steps of the system                                                 *)

LEMMA ValidateIs ==
  ASSUME TypeInv, NEW r \in Requests, NEW h \in Hosts, Validate(r, h), UNCHANGED clock
  PROVE  AdminStep /\ token' \in [Requests -> Tokens \cup {None}]
<1> USE TypesUsed
<1>1. CASE UNCHANGED <<admin_vars, token>>
  BY <1>1 DEF AdminStep, admin_vars, TypeInv
<1>2. CASE RefuseRequest(r) /\ UNCHANGED token
  BY <1>2, RefuseIs DEF AdminStep, TypeInv
<1>3. ASSUME NEW t \in Tokens, token' = [token EXCEPT ![r] = t],
             IF Authenticates(t, KeySet(r, h))
             THEN AcceptRequest(r, h, _extract_user_context(t)) ELSE RefuseRequest(r)
      PROVE  AdminStep /\ token' \in [Requests -> Tokens \cup {None}]
  <2>1. token' \in [Requests -> Tokens \cup {None}]
    BY <1>3 DEF TypeInv
  <2>2. CASE RefuseRequest(r)
    BY <2>1, <2>2, RefuseIs DEF AdminStep
  <2>3. CASE Authenticates(t, KeySet(r, h)) /\ AcceptRequest(r, h, _extract_user_context(t))
    <3>1. _extract_user_context(t) \in Users
      BY <2>3, TokensAssumption DEF Authenticates
    <3> QED
      BY <2>1, <2>3, <3>1, AcceptIs DEF AdminStep
  <2> QED
    BY <1>3, <2>2, <2>3
<1> QED
  BY <1>1, <1>2, <1>3 DEF Validate

LEMMA NextIs ==
  ASSUME TypeInv, CacheInv, [Next]_vars
  PROVE  AdminStep /\ TypeInv' /\ CacheInv'
<1> USE TypesUsed
<1>1. ASSUME AdminStep, JwksTypeOK', CacheInv', clock' \in Times,
             token' \in [Requests -> Tokens \cup {None}]
      PROVE  AdminStep /\ TypeInv' /\ CacheInv'
  BY <1>1, AdminStepTypes DEF TypeInv
<1>2. TypeInv
  OBVIOUS
<1>3. ASSUME NEW r \in Requests, NEW h \in Hosts, Arrive(r, h)
      PROVE  AdminStep /\ TypeInv' /\ CacheInv'
  BY <1>1, <1>3, StartKeeps, ValidateIs DEF Arrive, StartFetch
<1>4. ASSUME NEW r \in Requests, ArriveAnonymous(r)
      PROVE  AdminStep /\ TypeInv' /\ CacheInv'
  <2>1. AdminStep /\ UNCHANGED <<clock, jwks_vars, token>>
    BY <1>4, RefuseIs DEF ArriveAnonymous, AdminStep, RefuseRequest
  <2> QED
    BY <1>1, <2>1 DEF jwks_vars, TypeInv, JwksTypeOK, CacheInv, HoldsTime
<1>5. ASSUME NEW r \in Requests, ResumeValidation(r)
      PROVE  AdminStep /\ TypeInv' /\ CacheInv'
  <2>1. FinishFetch(r) /\ Validate(r, call[r].host) /\ UNCHANGED clock
    BY <1>5 DEF ResumeValidation, FinishFetch
  <2>2. call[r].host \in Hosts
    BY <2>1 DEF FinishFetch, CacheInv
  <2> QED
    BY <1>1, <2>1, <2>2, FinishKeeps, ValidateIs
<1>6. ASSUME NEW r \in Requests, RunHandler(r)
      PROVE  AdminStep /\ TypeInv' /\ CacheInv'
  <2>1. AdminStep /\ UNCHANGED <<clock, jwks_vars, token>>
    <3>1. UNCHANGED <<jwks_vars, token>>
      BY <1>6 DEF RunHandler
    <3>2. ASSUME NEW p \in Payloads, Handle(r, p) PROVE AdminStep /\ UNCHANGED clock
      BY <3>2, HandleIs, AdminAssumption DEF AdminStep
    <3>3. ASSUME CommitRow(r) PROVE AdminStep /\ UNCHANGED clock
      BY <3>3, CommitRowIs DEF AdminStep, CommitRow
    <3>4. ASSUME CommitAudit(r) PROVE AdminStep /\ UNCHANGED clock
      BY <3>4, CommitAuditIs DEF AdminStep, CommitAudit
    <3> QED
      BY <1>6, <3>1, <3>2, <3>3, <3>4 DEF RunHandler
  <2> QED
    BY <1>1, <2>1 DEF jwks_vars, TypeInv, JwksTypeOK, CacheInv, HoldsTime
<1>7. CASE Keycloak
  <2>3. UNCHANGED <<store, audit, request, token, clock>>
    BY <1>7 DEF Keycloak, admin_vars, Rotate, KeycloakAnswers
  <2>1. AdminStep /\ UNCHANGED token /\ UNCHANGED clock
    BY <2>3 DEF AdminStep
  <2>2. JwksTypeOK' /\ CacheInv'
    BY <1>7, RotateKeeps, AnswersKeeps DEF Keycloak
  <2> QED
    BY <1>1, <2>1, <2>2 DEF TypeInv
<1>8. ASSUME NEW h \in Hosts, Restart(h)
      PROVE  AdminStep /\ TypeInv' /\ CacheInv'
  <2>1. AdminStep /\ UNCHANGED token /\ UNCHANGED clock
    BY <1>8, CrashIs DEF Restart, AdminStep, CrashHost
  <2> QED
    BY <1>1, <1>8, <2>1, ForgetKeeps DEF Restart, TypeInv
<1>9. CASE Tick
  <2>2. clock' \in Times /\ clock <= clock'
    BY <1>9 DEF Tick, Times
  <2>1. AdminStep /\ UNCHANGED token /\ UNCHANGED jwks_vars
    BY <1>9, <2>2 DEF Tick, AdminStep, admin_vars
  <2>3. JwksTypeOK'
    BY <2>1, <2>2 DEF jwks_vars, JwksTypeOK, TypeInv
  <2>4. CacheInv'
    <3>1. \A h \in Hosts : cache[h] # None => cache[h].ts \in Nat
      BY DEF Times
    <3>2. \A c \in Requests : call[c].now \in Nat
      BY DEF Calls, Times
    <3>3. \A k, ts : HoldsTime(k, ts)' <=> HoldsTime(k, ts)
      BY <2>1 DEF HoldsTime, jwks_vars
    <3>4. clock' \in Nat
      BY <2>2 DEF Times
    <3> QED
      BY <2>1, <2>2, <3>1, <3>2, <3>3, <3>4 DEF CacheInv, jwks_vars
  <2> QED
    BY <1>1, <2>1, <2>2, <2>3, <2>4 DEF TypeInv
<1>10. CASE UNCHANGED vars
  BY <1>1, <1>10 DEF vars, jwks_vars, admin_vars, AdminStep, TypeInv, JwksTypeOK, CacheInv,
                     HoldsTime
<1> QED
  BY <1>3, <1>4, <1>5, <1>6, <1>7, <1>8, <1>9, <1>10 DEF Next

-----------------------------------------------------------------------------
(* Who is let in                                                           *)

\* The token t of the request q, validated by the call c, was good.
GoodToken(q, c, t) ==
    /\ t \in Tokens /\ q.user = _extract_user_context(t) /\ t.kid \in KeyIds
    /\ c.now < t.exp /\ (VERIFY_ISSUER => t.iss)
    /\ c.pc \in {"fresh", "stale"}
    /\ c.pc = "fresh" => key[t.kid].until > c.now - CacheTTL

\* There was a reason to refuse it.
BadToken(c, t) ==
    /\ t \in Tokens /\ (t.kid # None => key[t.kid].from <= c.now)
    /\ t.kid # None /\ t.sub # None /\ t.exp = Never /\ t.iss /\ t.aud =>
         key[t.kid].from > c.now - CacheTTL \/ key[t.kid].until # Never

AdminOnly(q) ==
    q.id # 0 \/ q.pc \in {"row", "audit", "created", "listed"} => _require_admin(q.user)

AuthOK(q, c, t) ==
    /\ q.pc \in {"none", "unauthorized"} => q.id = 0
    /\ q.pc \notin {"none", "unauthorized"} => GoodToken(q, c, t)
    /\ AdminOnly(q)
    /\ q.pc = "unauthorized" /\ c.pc = "fresh" => BadToken(c, t)

AuthInv == \A r \in Requests : AuthOK(request[r], call[r], token[r])

\* Keys are published and retired from now on only, and a validated call is over.
TimePasses ==
    /\ \A k \in KeyIds :
         /\ key[k].from # Never => key'[k].from = key[k].from
         /\ key'[k].until \in {key[k].until, clock}
         /\ key[k].until # Never => key'[k].until # Never
    /\ \A c \in Requests :
         call[c].pc \in {"fresh", "stale"} \/ call'[c].pc = "fresh" => call'[c] = call[c]

\* A validated request goes on for the same user, a creation or a listing only
\* for an admin.
Progress(q, x) ==
    \/ x = q
    \/ /\ q.pc \notin {"none", "unauthorized"} /\ x.pc \notin {"none", "unauthorized"}
       /\ x.user = q.user /\ AdminOnly(x)

LEMMA ProgressKeeps ==
  ASSUME TypeInv, CacheInv, AuthInv, TimePasses, UNCHANGED token,
         \A r \in Requests : Progress(request[r], request'[r])
  PROVE  AuthInv'
<1> SUFFICES ASSUME NEW r \in Requests
             PROVE  AuthOK(request[r], call[r], token[r])'
  BY DEF AuthInv
<1> DEFINE q == request[r]
           c == call[r]
           t == token[r]
<1>1. /\ AuthOK(q, c, t) /\ c.now <= clock /\ c.now \in Nat /\ clock < Never
      /\ clock \in Nat /\ Never \in Nat /\ CacheTTL \in Nat /\ CacheTTL > 0
      /\ \A k \in KeyIds : key[k].from \in Nat /\ key[k].until \in Nat
  BY TypesUsed DEF AuthInv, CacheInv, Calls, KeyRecords, Times
<1>2. c.pc \in {"fresh", "stale"} \/ call'[r].pc = "fresh" => call'[r] = c
  BY DEF TimePasses
<1>3. t' = t /\ Progress(q, q')
  OBVIOUS
<1>4. ASSUME GoodToken(q, c, t), q'.user = q.user PROVE GoodToken(q, c, t)'
  <2>1. c' = c /\ t \in Tokens /\ t.kid \in KeyIds
    BY <1>2, <1>4 DEF GoodToken
  <2>2. c.pc = "fresh" => key'[t.kid].until > c.now - CacheTTL
    BY <1>1, <1>4, <2>1 DEF GoodToken, TimePasses
  <2> QED
    BY <1>3, <1>4, <2>1, <2>2 DEF GoodToken
<1>5. ASSUME BadToken(c, t), c' = c PROVE BadToken(c, t)'
  <2>1. t \in Tokens /\ (t.kid # None => t.kid \in KeyIds /\ key[t.kid].from <= c.now)
    BY <1>5, TokensAssumption DEF BadToken
  <2>2. t.kid # None => key'[t.kid].from = key[t.kid].from
    BY <1>1, <2>1 DEF TimePasses
  <2>3. t.kid # None /\ key[t.kid].until # Never => key'[t.kid].until # Never
    BY <2>1 DEF TimePasses
  <2> QED
    BY <1>3, <1>5, <2>1, <2>2, <2>3 DEF BadToken
<1>6. CASE q' = q
  <2>1. q.pc \notin {"none", "unauthorized"} => GoodToken(q, c, t)'
    BY <1>1, <1>4, <1>6 DEF AuthOK
  <2>2. q.pc = "unauthorized" /\ c'.pc = "fresh" => BadToken(c, t)'
    BY <1>1, <1>2, <1>5 DEF AuthOK
  <2> QED
    BY <1>1, <1>6, <2>1, <2>2 DEF AuthOK, AdminOnly
<1>7. CASE /\ q.pc \notin {"none", "unauthorized"} /\ q'.pc \notin {"none", "unauthorized"}
           /\ q'.user = q.user /\ AdminOnly(q')
  <2>1. GoodToken(q, c, t)'
    BY <1>1, <1>4, <1>7 DEF AuthOK
  <2> QED
    BY <1>7, <2>1 DEF AuthOK, AdminOnly
<1> QED
  BY <1>3, <1>6, <1>7 DEF Progress

\* The handlers and crashes are progress of this kind.
LEMMA WorkIsProgress ==
  ASSUME TypeInv, AuthInv,
         \/ UNCHANGED request
         \/ \E r \in Requests, p \in AllPayloads : \E q : Handled(r, p, q)
         \/ \E r \in Requests : \E q : RowCommitted(r, q) \/ EventCommitted(r, q)
         \/ Crashed
  PROVE  \A r \in Requests : Progress(request[r], request'[r])
<1>1. CASE UNCHANGED request
  BY <1>1 DEF Progress
<1>2. ASSUME NEW r \in Requests, NEW q, Becomes(r, q), Progress(request[r], q)
      PROVE  \A x \in Requests : Progress(request[x], request'[x])
  BY <1>2 DEF Becomes, Progress
<1>3. ASSUME NEW r \in Requests, NEW p \in AllPayloads, NEW q, Handled(r, p, q)
      PROVE  \A x \in Requests : Progress(request[x], request'[x])
  <2>1. AdminOnly(request[r])
    BY DEF AuthInv, AuthOK
  <2>2. Becomes(r, q) /\ Progress(request[r], q)
    BY <1>3, <2>1 DEF Handled, Progress, AdminOnly
  <2> QED
    BY <1>2, <2>2
<1>4. ASSUME NEW r \in Requests, NEW q, RowCommitted(r, q) \/ EventCommitted(r, q)
      PROVE  \A x \in Requests : Progress(request[x], request'[x])
  <2>1. AdminOnly(request[r])
    BY DEF AuthInv, AuthOK
  <2>2. Becomes(r, q) /\ Progress(request[r], q)
    BY <1>4, <2>1 DEF RowCommitted, EventCommitted, SameWork, Progress, AdminOnly
  <2> QED
    BY <1>2, <2>2
<1>5. CASE Crashed
  BY <1>5 DEF Crashed, AuthInv, AuthOK, Progress, AdminOnly, SameWork
<1> QED
  BY <1>1, <1>3, <1>4, <1>5

\* The keys a call returns with are of the cached set's time, and a set that is
\* no fallback is younger than CacheTTL.
KeysOf(r, keys, now, pc) ==
    /\ keys \in SUBSET KeyIds /\ now <= clock
    /\ pc = "fresh" => \E ts \in Nat : ts > now - CacheTTL /\ HoldsTime(keys, ts)

LEMMA ArrivalKeys ==
  ASSUME TypeInv, CacheInv, NEW r \in Requests, NEW h \in Hosts, StartFetch(r, h)
  PROVE  /\ call'[r].pc \in {"asking", "fresh"} /\ call'[r].now = clock
         /\ call'[r].pc = "fresh" => KeysOf(r, KeySet(r, h), clock, "fresh")
         /\ \A x \in Requests : x # r => call'[x] = call[x]
<1> USE TypesUsed
<1> DEFINE k == [pc |-> IF Cached(h) THEN "fresh" ELSE "asking",
                 host |-> IF Cached(h) THEN None ELSE h, now |-> clock, keys |-> {}]
<1>1. /\ k.pc = (IF Cached(h) THEN "fresh" ELSE "asking") /\ k.now = clock
  OBVIOUS
<1>2. call' = [call EXCEPT ![r] = k] /\ call[r].pc = "none"
  BY DEF StartFetch
<1> HIDE DEF k
<1>3. call'[r] = k /\ \A x \in Requests : x # r => call'[x] = call[x]
  BY <1>2
<1>4. ASSUME Cached(h) PROVE KeysOf(r, KeySet(r, h), clock, "fresh")
  <2>1. KeySet(r, h) = cache[h].keys
    BY <1>2 DEF KeySet
  <2>2. /\ cache[h].keys \in SUBSET KeyIds /\ cache[h].ts \in Nat
        /\ HoldsTime(cache[h].keys, cache[h].ts) /\ clock - cache[h].ts < CacheTTL
    BY <1>4 DEF Cached, CacheInv, Times
  <2>3. cache[h].ts > clock - CacheTTL
    BY <2>2
  <2> QED
    BY <2>1, <2>2, <2>3 DEF KeysOf
<1> QED
  BY <1>1, <1>3, <1>4

LEMMA ResumeKeys ==
  ASSUME TypeInv, CacheInv, NEW r \in Requests, FinishFetch(r)
  PROVE  /\ call'[r].pc \in {"raised", "stale", "fresh"} /\ call'[r].now = call[r].now
         /\ call'[r].pc \in {"fresh", "stale"} =>
              KeysOf(r, KeySet(r, call[r].host), call[r].now, call'[r].pc)
         /\ \A x \in Requests : x # r => call'[x] = call[x]
<1> USE TypesUsed
<1> DEFINE h == call[r].host
           Returned(pc) == [pc |-> pc, host |-> None, now |-> call[r].now, keys |-> {}]
<1>1. h \in Hosts /\ call[r].now <= clock /\ call[r].now \in Nat /\ call[r].keys \in SUBSET KeyIds
  BY DEF CacheInv, FinishFetch, Calls, Times
<1>2. CASE call[r].pc = "answered" /\ call' = [call EXCEPT ![r] = Returned("fresh")]
  <2>1. call'[r].pc = "fresh" /\ call'[r].now = call[r].now
    BY <1>2
  <2>2. HoldsTime(call[r].keys, call[r].now) /\ KeySet(r, h) = call[r].keys
    BY <1>2 DEF CacheInv, KeySet
  <2>3. call[r].now > call[r].now - CacheTTL
    BY <1>1
  <2>4. KeysOf(r, KeySet(r, h), call[r].now, "fresh")
    BY <1>1, <2>2, <2>3 DEF KeysOf
  <2> QED
    BY <1>2, <2>1, <2>4
<1>3. CASE /\ call[r].pc = "failed"
           /\ call' = [call EXCEPT ![r] = Returned(IF cache[h] = None THEN "raised" ELSE "stale")]
  <2>1. /\ call'[r].pc = (IF cache[h] = None THEN "raised" ELSE "stale")
        /\ call'[r].now = call[r].now
    BY <1>3
  <2>2. KeySet(r, h) = cache[h].keys
    BY <1>3 DEF KeySet
  <2>3. cache[h] # None => cache[h].keys \in SUBSET KeyIds
    BY <1>1
  <2> QED
    BY <1>1, <1>3, <2>1, <2>2, <2>3 DEF KeysOf
<1> QED
  BY <1>2, <1>3 DEF FinishFetch

LEMMA ValidateAuth ==
  ASSUME TypeInv, CacheInv, AuthInv, NEW r \in Requests, NEW h \in Hosts, Validate(r, h),
         UNCHANGED <<clock, key>>, call'[r].pc = "asking" => request[r].pc = "none",
         \A x \in Requests : x # r => call'[x] = call[x], call'[r].now \in Nat,
         call'[r].pc \in {"fresh", "stale"} =>
           KeysOf(r, KeySet(r, h), call'[r].now, call'[r].pc)
  PROVE  AuthInv'
<1> DEFINE now == call'[r].now
           pc == call'[r].pc
           K == KeySet(r, h)
<1>1. ASSUME \A x \in Requests : x # r => request'[x] = request[x] /\ token'[x] = token[x],
             AuthOK(request[r], call[r], token[r])'
      PROVE  AuthInv'
  <2> SUFFICES ASSUME NEW x \in Requests, x # r
               PROVE  AuthOK(request[x], call[x], token[x])'
    BY <1>1 DEF AuthInv
  <2>1. AuthOK(request[x], call[x], token[x])
    BY DEF AuthInv
  <2> QED
    BY <1>1, <2>1 DEF AuthOK, GoodToken, BadToken, AdminOnly
<1>2. CASE pc = "asking" /\ UNCHANGED <<admin_vars, token>>
  <2>1. request'[r] = request[r] /\ request[r].pc = "none"
    BY <1>2 DEF admin_vars
  <2>2. AuthOK(request[r], call[r], token[r])'
    BY <2>1 DEF AuthInv, AuthOK, AdminOnly
  <2> QED
    BY <1>1, <1>2, <2>2 DEF admin_vars
<1>3. CASE pc = "raised" /\ RefuseRequest(r) /\ UNCHANGED token
  <2>1. PICK q : Refused(r, q)
    BY <1>3, RefuseIs
  <2>2. request[r].pc = "none" /\ request[r].id = 0
    BY <2>1 DEF Refused, AuthInv, AuthOK
  <2>3. AuthOK(request[r], call[r], token[r])'
    BY <1>3, <2>1, <2>2 DEF Refused, Becomes, AuthOK, AdminOnly
  <2> QED
    BY <1>1, <1>3, <2>1, <2>3 DEF Refused, Becomes
<1>4. ASSUME pc \in {"fresh", "stale"}, NEW t \in Tokens,
             t.kid # None => key[t.kid].from <= now, token' = [token EXCEPT ![r] = t],
             IF Authenticates(t, K) THEN AcceptRequest(r, h, _extract_user_context(t))
             ELSE RefuseRequest(r)
      PROVE  AuthInv'
  <2>1. token'[r] = t /\ \A x \in Requests : x # r => token'[x] = token[x]
    BY <1>4 DEF TypeInv
  <2>2. /\ K \in SUBSET KeyIds /\ now <= clock
        /\ pc = "fresh" => \E ts \in Nat : ts > now - CacheTTL /\ HoldsTime(K, ts)
    BY <1>4 DEF KeysOf
  <2>3. /\ clock \in Nat /\ clock < Never /\ CacheTTL \in Nat /\ Never \in Nat
        /\ \A k \in KeyIds : key[k].from \in Nat /\ key[k].until \in Nat
        /\ t.exp \in Nat /\ (t.kid # None => t.kid \in KeyIds)
    BY TypesUsed, TokensAssumption DEF KeyRecords, Times
  <2>4. CASE Authenticates(t, K)
    <3>1. _extract_user_context(t) \in Users
      BY <2>4, TokensAssumption DEF Authenticates
    <3>2. PICK q : Accepted(r, _extract_user_context(t), q)
      BY <1>4, <2>4, <3>1, AcceptIs
    <3>3. /\ request[r].pc = "none" /\ request[r].id = 0
          /\ request'[r] = q /\ q.pc = "accepted" /\ q.id = 0
          /\ q.user = _extract_user_context(t)
      BY <3>2 DEF Accepted, Becomes, AuthInv, AuthOK
    <3>4. t.kid \in K /\ t.kid \in KeyIds /\ clock < t.exp /\ (VERIFY_ISSUER => t.iss)
      BY <2>2, <2>4 DEF Authenticates, Decodes
    <3>5. now < t.exp
      BY <2>2, <2>3, <3>4
    <3>6. pc = "fresh" => key[t.kid].until > now - CacheTTL
      BY <2>2, <2>3, <3>4 DEF HoldsTime
    <3> HIDE DEF now, pc
    <3>7. GoodToken(q, call[r], t)'
      BY <1>4, <3>3, <3>4, <3>5, <3>6 DEF GoodToken, now, pc
    <3>8. AuthOK(request[r], call[r], token[r])'
      BY <2>1, <3>3, <3>7 DEF AuthOK, AdminOnly
    <3> QED
      BY <1>1, <2>1, <3>2, <3>8 DEF Accepted, Becomes
  <2>5. CASE ~Authenticates(t, K)
    <3>1. PICK q : Refused(r, q)
      BY <1>4, <2>5, RefuseIs
    <3>2. /\ request[r].pc = "none" /\ request[r].id = 0
          /\ request'[r] = q /\ q.pc = "unauthorized" /\ q.id = 0
      BY <3>1 DEF Refused, Becomes, AuthInv, AuthOK
    <3>3. ASSUME pc = "fresh", t.kid # None, t.sub # None, t.exp = Never, t.iss, t.aud
          PROVE  key[t.kid].from > now - CacheTTL \/ key[t.kid].until # Never
      <4>1. t.kid \notin K
        BY <2>3, <2>5, <3>3 DEF Authenticates, Decodes
      <4>2. PICK ts \in Nat : ts > now - CacheTTL /\ HoldsTime(K, ts)
        BY <2>2, <3>3
      <4>3. key[t.kid].from >= ts \/ key[t.kid].until # Never
        BY <2>3, <3>3, <4>1, <4>2 DEF HoldsTime
      <4> QED
        BY <2>3, <3>3, <4>2, <4>3
    <3>4. pc = "fresh" => BadToken(call[r], t)'
      BY <1>4, <3>3 DEF BadToken
    <3>5. AuthOK(request[r], call[r], token[r])'
      BY <2>1, <3>2, <3>4 DEF AuthOK, AdminOnly
    <3> QED
      BY <1>1, <2>1, <3>1, <3>5 DEF Refused, Becomes
  <2> QED
    BY <2>4, <2>5
<1> HIDE DEF now, pc, K
<1> QED
  BY <1>2, <1>3, <1>4 DEF Validate, now, pc, K

LEMMA StepKeepsAuth == ASSUME TypeInv, CacheInv, AuthInv, [Next]_vars PROVE AuthInv'
<1> USE TypesUsed
<1>1. ASSUME NEW r \in Requests, NEW h \in Hosts, Arrive(r, h) PROVE AuthInv'
  <2>1. /\ StartFetch(r, h) /\ Validate(r, h) /\ request[r].pc = "none"
        /\ UNCHANGED <<clock, key>>
    BY <1>1 DEF Arrive, StartFetch
  <2>2. call'[r].now \in Nat
    BY <2>1, ArrivalKeys
  <2> QED
    BY <2>1, <2>2, ArrivalKeys, ValidateAuth
<1>2. ASSUME NEW r \in Requests, ResumeValidation(r) PROVE AuthInv'
  <2>1. FinishFetch(r) /\ Validate(r, call[r].host) /\ UNCHANGED <<clock, key>>
    BY <1>2 DEF ResumeValidation, FinishFetch
  <2>2. call[r].host \in Hosts /\ call[r].now \in Nat
    BY <2>1 DEF FinishFetch, CacheInv, Calls, Times
  <2> QED
    BY <2>1, <2>2, ResumeKeys, ValidateAuth
<1>3. ASSUME NEW r \in Requests, ArriveAnonymous(r) PROVE AuthInv'
  <2>1. PICK q : Refused(r, q)
    BY <1>3, RefuseIs DEF ArriveAnonymous
  <2>2. /\ request[r].id = 0 /\ call[r].pc = "none" /\ UNCHANGED <<clock, jwks_vars, token>>
    BY <1>3, <2>1 DEF ArriveAnonymous, RefuseRequest, Refused, AuthInv, AuthOK
  <2>3. AuthOK(request[r], call[r], token[r])'
    BY <2>1, <2>2 DEF Refused, Becomes, AuthOK, AdminOnly, jwks_vars
  <2>4. ASSUME NEW x \in Requests, x # r PROVE AuthOK(request[x], call[x], token[x])'
    <3>1. AuthOK(request[x], call[x], token[x]) /\ request'[x] = request[x]
      BY <2>1, <2>4 DEF AuthInv, Refused, Becomes
    <3> QED
      BY <2>2, <3>1 DEF AuthOK, GoodToken, BadToken, AdminOnly, jwks_vars
  <2> QED
    BY <2>3, <2>4 DEF AuthInv
<1>4. UNCHANGED <<key, call>> => TimePasses
  BY DEF TimePasses
<1>5. ASSUME NEW r \in Requests, RunHandler(r) PROVE AuthInv'
  <2>1. UNCHANGED token /\ TimePasses
    BY <1>4, <1>5 DEF RunHandler, jwks_vars
  <2>2. \/ \E x \in Requests, p \in AllPayloads : \E q : Handled(x, p, q)
        \/ \E x \in Requests : \E q : RowCommitted(x, q) \/ EventCommitted(x, q)
    BY <1>5, HandleIs, CommitRowIs, CommitAuditIs, AdminAssumption DEF RunHandler
  <2> QED
    BY <2>1, <2>2, WorkIsProgress, ProgressKeeps
<1>6. CASE Keycloak
  <2>1. UNCHANGED token /\ UNCHANGED request
    BY <1>6 DEF Keycloak, admin_vars
  <2>2. CASE Rotate
    BY <2>1, <2>2, RotateKeeps, WorkIsProgress, ProgressKeeps DEF TimePasses, Rotate
  <2>3. ASSUME NEW r \in Requests, KeycloakAnswers(r) PROVE AuthInv'
    <3>1. \A c \in Requests :
            call[c].pc \in {"fresh", "stale"} \/ call'[c].pc = "fresh" => call'[c] = call[c]
      <4>1. call[r].pc = "asking" /\ \A c \in Requests : c # r => call'[c] = call[c]
        BY <2>3 DEF KeycloakAnswers
      <4>2. call'[r].pc \in {"answered", "failed"}
        BY <2>3 DEF KeycloakAnswers, Calls
      <4> QED
        BY <4>1, <4>2
    <3>2. TimePasses
      BY <2>3, <3>1 DEF TimePasses, KeycloakAnswers
    <3> QED
      BY <2>1, <3>2, WorkIsProgress, ProgressKeeps
  <2> QED
    BY <1>6, <2>2, <2>3 DEF Keycloak
<1>7. ASSUME NEW h \in Hosts, Restart(h) PROVE AuthInv'
  <2>1. UNCHANGED token /\ Crashed /\ UNCHANGED key
    BY <1>7, CrashIs DEF Restart, ForgetKeys
  <2>2. TimePasses
    BY <1>7, <2>1, ForgetKeeps DEF Restart, TimePasses
  <2> QED
    BY <2>1, <2>2, WorkIsProgress, ProgressKeeps
<1>8. CASE Tick \/ UNCHANGED vars
  <2>1. UNCHANGED <<token, request, key, call>>
    BY <1>8 DEF Tick, vars, admin_vars, jwks_vars
  <2> QED
    BY <1>4, <2>1, WorkIsProgress, ProgressKeeps
<1> QED
  BY <1>1, <1>2, <1>3, <1>5, <1>6, <1>7, <1>8 DEF Next

-----------------------------------------------------------------------------
(* The theorems                                                            *)

LEMMA Reachable == Spec => [](TypeInv /\ CacheInv /\ AuthInv)
<1>1. Init => TypeInv /\ CacheInv /\ AuthInv
  <2> SUFFICES ASSUME Init PROVE TypeInv /\ CacheInv /\ AuthInv
    OBVIOUS
  <2>1. CacheInv
    BY DEF Init, JwksInit, CacheInv
  <2>2. AuthInv
    BY DEF Init, AdminInit, JwksInit, AuthInv, AuthOK, AdminOnly
  <2> QED
    BY <2>1, <2>2, InitTypes
<1>2. TypeInv /\ CacheInv /\ AuthInv /\ [Next]_vars => (TypeInv /\ CacheInv /\ AuthInv)'
  BY NextIs, StepKeepsAuth
<1> QED
  BY <1>1, <1>2, PTL DEF Spec

\* The key set a process has cached is the one Keycloak had at its timestamp or
\* later: fetch_jwks stamps it with the time before the request, so no key in it
\* was retired before, and none that was published before is missing.
THEOREM CachedKeysHoldTheirTime == Spec => []CacheHoldsItsTime
<1>1. CacheInv => CacheHoldsItsTime
  BY DEF CacheInv, HoldsTime, CacheHoldsItsTime
<1> QED
  BY <1>1, Reachable, PTL

\* The roles of a user are those of his token, and his role is one of them.
LEMMA AdminByToken ==
  ASSUME NEW t \in Tokens, _require_admin(_extract_user_context(t))
  PROVE  "admin" \in {Lower(role) : role \in ToSet(t.realm \o t.client)}
<1> DEFINE roles == _extract_roles(t)
           own == {i \in DOMAIN roles : /\ roles[i] \notin DefaultRoles
                                        /\ \A j \in 1 .. i - 1 : roles[j] \in DefaultRoles}
           role == IF own = {} THEN None ELSE roles[CHOOSE i \in own : TRUE]
           u == _extract_user_context(t)
<1>1. u.role = role /\ u.roles = ToSet(roles)
  BY DEF _extract_user_context
<1>2. role = None \/ \E i \in DOMAIN roles : role = roles[i]
  OBVIOUS
<1>3. ToSet(roles) = {roles[i] : i \in DOMAIN roles}
  BY DEF ToSet
<1>4. Lower(None) # "admin"
  BY TokensAssumption DEF Lower
<1> HIDE DEF role, roles, u
<1>5. "admin" \in {Lower(x) : x \in ToSet(roles)} \cup {Lower(role)}
  BY <1>1 DEF _require_admin, u
<1>6. "admin" \in {Lower(x) : x \in ToSet(roles)}
  BY <1>2, <1>3, <1>4, <1>5
<1> QED
  BY <1>6 DEF roles, _extract_roles

\* Whoever stores a row or reads a listing has presented an unexpired admin
\* token, signed with a key that Keycloak had not retired longer than CacheTTL
\* ago unless the process fell back on its old keys; and a good token is only
\* refused while its key is new or retired, or Keycloak is out of reach.
THEOREM AuthorityAlwaysRecent == Spec => []AuthorityIsRecent
<1>1. ASSUME TypeInv, AuthInv PROVE AuthorityIsRecent
  <2> SUFFICES ASSUME NEW r \in Requests
               PROVE  LET t == token[r] IN
                      /\ request[r].id # 0 \/ request[r].pc = "listed" =>
                           /\ "admin" \in {Lower(role) : role \in ToSet(t.realm \o t.client)}
                           /\ call[r].now < t.exp
                           /\ VERIFY_ISSUER => t.iss
                           /\ call[r].pc = "fresh" => key[t.kid].until > call[r].now - CacheTTL
                      /\ /\ request[r].pc = "unauthorized" /\ call[r].pc = "fresh"
                         /\ t.kid # None /\ t.sub # None /\ t.exp = Never /\ t.iss /\ t.aud
                         => \/ key[t.kid].from > call[r].now - CacheTTL
                            \/ key[t.kid].until # Never
    BY DEF AuthorityIsRecent
  <2>1. AuthOK(request[r], call[r], token[r])
    BY <1>1 DEF AuthInv
  <2>2. ASSUME request[r].id # 0 \/ request[r].pc = "listed"
        PROVE  /\ GoodToken(request[r], call[r], token[r])
               /\ "admin" \in {Lower(role) : role \in ToSet(token[r].realm \o token[r].client)}
    <3>1. GoodToken(request[r], call[r], token[r]) /\ _require_admin(request[r].user)
      BY <2>1, <2>2 DEF AuthOK, AdminOnly
    <3> QED
      BY <3>1, AdminByToken DEF GoodToken
  <2>3. ASSUME request[r].pc = "unauthorized" /\ call[r].pc = "fresh"
        PROVE  BadToken(call[r], token[r])
    BY <2>1, <2>3 DEF AuthOK
  <2> QED
    BY <2>2, <2>3 DEF GoodToken, BadToken
<1> QED
  BY <1>1, Reachable, PTL

-----------------------------------------------------------------------------
(* Rows, requests and events                                               *)

\* A request that stored a row has what the row says, and does not change.
RowsOK ==
    /\ \A r \in Requests :
         /\ request[r].pc \in {"audit", "created"} => request[r].id # 0
         /\ request[r].id # 0 =>
              /\ request[r].pc \in {"audit", "created", "error", "lost"}
              /\ request[r].payload \in AllPayloads /\ request[r].payload.op = "create"
              /\ request[r].payload.table \in Tables
              /\ request[r].id \in DOMAIN store[request[r].payload.table]
              /\ store[request[r].payload.table][request[r].id] = RowOf(r)
    /\ \A r, q \in Requests :
         (/\ request[r].id # 0 /\ request[r].id = request[q].id
          /\ request[r].payload.table = request[q].payload.table) => r = q
    /\ \A t \in Tables : \A i \in DOMAIN store[t] :
         \E r \in Requests : request[r].id = i /\ request[r].payload.table = t

\* Each event is the one event of a creation, and no completed one is missing.
EventsOK ==
    /\ \A i \in DOMAIN audit :
         \E r \in Requests :
           request[r].id # 0 /\ request[r].pc # "audit" /\ Untimed(audit[i]) = EventOf(r)
    /\ \A i, j \in DOMAIN audit :
         audit[i].target_type = audit[j].target_type /\ audit[i].target_id = audit[j].target_id
         => i = j
    /\ \A r \in Requests :
         request[r].pc = "created" => \E i \in DOMAIN audit : Untimed(audit[i]) = EventOf(r)

StoreInv == RowsOK /\ EventsOK /\ UserNamesUnique

LEMMA StoreTypes ==
  ASSUME TypeInv
  PROVE  /\ store \in [Tables -> Seq(Rows)] /\ audit \in Seq(Events)
         /\ request \in [Requests -> States]
         /\ \A t \in Tables : Len(store[t]) \in Nat /\ DOMAIN store[t] = 1 .. Len(store[t])
         /\ Len(audit) \in Nat /\ DOMAIN audit = 1 .. Len(audit)
         /\ \A r \in Requests : request[r].id \in Nat
  BY TypesUsed DEF States

LEMMA InitStore == Init => StoreInv
<1> SUFFICES ASSUME Init PROVE StoreInv
  OBVIOUS
<1>1. /\ \A t \in Tables : store[t] = <<>>
      /\ audit = <<>>
      /\ \A r \in Requests : request[r].pc = "none" /\ request[r].id = 0
  BY DEF Init, AdminInit
<1>2. DOMAIN audit = {} /\ \A t \in Tables : DOMAIN store[t] = {}
  BY <1>1
<1>3. "admin_user" \in Tables
  BY DEF Tables
<1>4. RowsOK
  BY <1>1, <1>2 DEF RowsOK
<1>5. EventsOK
  BY <1>1, <1>2 DEF EventsOK
<1>6. UserNamesUnique
  BY <1>2, <1>3 DEF UserNamesUnique
<1> QED
  BY <1>4, <1>5, <1>6 DEF StoreInv

\* A step of one request that has stored nothing and does not do it now.
LEMMA NothingStored ==
  ASSUME TypeInv, StoreInv, NEW r \in Requests, NEW q, Becomes(r, q),
         request[r].id = 0, q.id = 0, q.pc \notin {"audit", "created"},
         UNCHANGED <<store, audit>>
  PROVE  StoreInv'
<1>1. /\ request'[r].id = 0 /\ request'[r].pc \notin {"audit", "created"}
      /\ \A x \in Requests : x # r => request'[x] = request[x]
  BY DEF Becomes
<1>2. \A x \in Requests : request'[x].id # 0 => x # r /\ request'[x] = request[x]
  BY <1>1
<1>3. \A x \in Requests : request[x].id # 0 => x # r /\ request'[x] = request[x]
  BY <1>1
<1>4. \A x \in Requests : x # r => RowOf(x)' = RowOf(x) /\ EventOf(x)' = EventOf(x)
  BY <1>1 DEF RowOf, EventOf
<1>5. RowsOK'
  <2>1. \A x \in Requests :
          /\ request'[x].pc \in {"audit", "created"} => request'[x].id # 0
          /\ request'[x].id # 0 =>
               /\ request'[x].pc \in {"audit", "created", "error", "lost"}
               /\ request'[x].payload \in AllPayloads /\ request'[x].payload.op = "create"
               /\ request'[x].payload.table \in Tables
               /\ request'[x].id \in DOMAIN store[request'[x].payload.table]
               /\ store[request'[x].payload.table][request'[x].id] = RowOf(x)'
    BY <1>1, <1>2, <1>4 DEF StoreInv, RowsOK
  <2>2. \A x, y \in Requests :
          (/\ request'[x].id # 0 /\ request'[x].id = request'[y].id
           /\ request'[x].payload.table = request'[y].payload.table) => x = y
    BY <1>2 DEF StoreInv, RowsOK
  <2>3. \A t \in Tables : \A i \in DOMAIN store[t] :
          \E x \in Requests : request'[x].id = i /\ request'[x].payload.table = t
    <3> SUFFICES ASSUME NEW t \in Tables, NEW i \in DOMAIN store[t]
                 PROVE  \E x \in Requests : request'[x].id = i /\ request'[x].payload.table = t
      OBVIOUS
    <3>1. PICK x \in Requests : request[x].id = i /\ request[x].payload.table = t
      BY DEF StoreInv, RowsOK
    <3>2. i # 0
      BY StoreTypes
    <3> QED
      BY <1>3, <3>1, <3>2
  <2> QED
    BY <2>1, <2>2, <2>3 DEF RowsOK
<1>6. EventsOK'
  <2>1. \A i \in DOMAIN audit :
          \E x \in Requests :
            request'[x].id # 0 /\ request'[x].pc # "audit" /\ Untimed(audit[i]) = EventOf(x)'
    BY <1>3, <1>4 DEF StoreInv, EventsOK
  <2>2. \A x \in Requests :
          request'[x].pc = "created" => \E i \in DOMAIN audit : Untimed(audit[i]) = EventOf(x)'
    BY <1>1, <1>4 DEF StoreInv, EventsOK
  <2> QED
    BY <2>1, <2>2 DEF StoreInv, EventsOK
<1>7. UserNamesUnique'
  BY DEF StoreInv, UserNamesUnique
<1> QED
  BY <1>5, <1>6, <1>7 DEF StoreInv

\* The first commit of a creation.
LEMMA RowStored ==
  ASSUME TypeInv, StoreInv, NEW r \in Requests, NEW q, RowCommitted(r, q), store' # store
  PROVE  StoreInv'
<1> DEFINE p == request[r].payload
           t == p.table
           n == Len(store[t]) + 1
           row == RowOf(r)
<1>1. /\ Becomes(r, q) /\ SameWork(q, request[r]) /\ request[r].pc = "row"
      /\ UNCHANGED audit /\ Unique(p) /\ q.pc \in {"audit", "error"} /\ q.id = n
      /\ store' = [store EXCEPT ![t] = Append(store[t], row)]
  BY DEF RowCommitted
<1>2. /\ p \in AllPayloads /\ p.op = "create" /\ t \in Tables /\ row.name = p.name
      /\ Len(store[t]) \in Nat /\ n # 0 /\ row \in Rows
  <2>1. row.name = p.name
    BY DEF RowOf
  <2>2. p \in AllPayloads /\ p.op = "create" /\ t \in Tables /\ row \in Rows
    BY <1>1, CreationType
  <2> HIDE DEF p, row
  <2>3. Len(store[t]) \in Nat
    BY <2>2, StoreTypes
  <2> QED
    BY <2>1, <2>2, <2>3
<1>3. request[r].id = 0
  BY <1>1 DEF StoreInv, RowsOK
<1> HIDE DEF row
<1>4. /\ store'[t] = Append(store[t], row) /\ DOMAIN store'[t] = 1 .. n
      /\ DOMAIN store[t] = 1 .. Len(store[t])
      /\ \A i \in DOMAIN store[t] : i \in DOMAIN store'[t] /\ store'[t][i] = store[t][i]
      /\ store'[t][n] = row /\ n \in DOMAIN store'[t] /\ n \notin DOMAIN store[t]
      /\ \A i \in DOMAIN store'[t] : i = n \/ i \in DOMAIN store[t]
  <2>1. store[t] \in Seq(Rows) /\ store'[t] = Append(store[t], row)
    BY <1>1, <1>2, StoreTypes
  <2> HIDE DEF t
  <2> QED
    BY <1>2, <2>1
<1>5. \A u \in Tables \ {t} : store'[u] = store[u]
  BY <1>1, StoreTypes
<1>6. \A u \in Tables : \A i \in DOMAIN store[u] :
        i \in DOMAIN store'[u] /\ store'[u][i] = store[u][i]
  BY <1>4, <1>5
<1>7. /\ request'[r] = q /\ q.payload = p
      /\ \A x \in Requests : x # r => request'[x] = request[x]
  BY <1>1 DEF Becomes, SameWork
<1>8. \A x \in Requests : RowOf(x)' = RowOf(x)
  BY <1>1, <1>7 DEF RowOf, SameWork
<1>9. \A x \in Requests : x # r => EventOf(x)' = EventOf(x)
  BY <1>7 DEF EventOf
<1> HIDE DEF n, p
<1>10. RowsOK'
  <2>1. \A x \in Requests :
          /\ request'[x].pc \in {"audit", "created"} => request'[x].id # 0
          /\ request'[x].id # 0 =>
               /\ request'[x].pc \in {"audit", "created", "error", "lost"}
               /\ request'[x].payload \in AllPayloads /\ request'[x].payload.op = "create"
               /\ request'[x].payload.table \in Tables
               /\ request'[x].id \in DOMAIN store'[request'[x].payload.table]
               /\ store'[request'[x].payload.table][request'[x].id] = RowOf(x)'
    <3> SUFFICES ASSUME NEW x \in Requests
                 PROVE  /\ request'[x].pc \in {"audit", "created"} => request'[x].id # 0
                        /\ request'[x].id # 0 =>
                             /\ request'[x].pc \in {"audit", "created", "error", "lost"}
                             /\ request'[x].payload \in AllPayloads
                             /\ request'[x].payload.op = "create"
                             /\ request'[x].payload.table \in Tables
                             /\ request'[x].id \in DOMAIN store'[request'[x].payload.table]
                             /\ store'[request'[x].payload.table][request'[x].id] = RowOf(x)'
      OBVIOUS
    <3>1. CASE x = r
      BY <1>1, <1>2, <1>4, <1>7, <1>8, <3>1 DEF row
    <3>2. CASE x # r
      BY <1>6, <1>7, <1>8, <3>2 DEF StoreInv, RowsOK
    <3> QED
      BY <3>1, <3>2
  <2>2. ASSUME NEW x \in Requests, NEW y \in Requests, request'[x].id # 0,
               request'[x].id = request'[y].id,
               request'[x].payload.table = request'[y].payload.table
        PROVE  x = y
    <3>1. \A z \in Requests : z # r /\ request[z].id # 0 /\ request[z].payload.table = t =>
            request[z].id # n
      BY <1>4 DEF StoreInv, RowsOK
    <3> QED
      BY <1>1, <1>7, <2>2, <3>1 DEF StoreInv, RowsOK
  <2>3. ASSUME NEW u \in Tables, NEW i \in DOMAIN store'[u]
        PROVE  \E x \in Requests : request'[x].id = i /\ request'[x].payload.table = u
    <3>1. CASE u = t /\ i = n
      BY <1>1, <1>7, <3>1
    <3>2. CASE i \in DOMAIN store[u]
      <4>1. PICK x \in Requests : request[x].id = i /\ request[x].payload.table = u
        BY <3>2 DEF StoreInv, RowsOK
      <4>2. i # 0
        BY <3>2, StoreTypes
      <4> QED
        BY <1>3, <1>7, <4>1, <4>2
    <3> QED
      BY <1>4, <1>5, <3>1, <3>2
  <2> QED
    BY <2>1, <2>2, <2>3 DEF RowsOK
<1>11. EventsOK'
  <2>1. \A i \in DOMAIN audit :
          \E x \in Requests :
            request'[x].id # 0 /\ request'[x].pc # "audit" /\ Untimed(audit[i]) = EventOf(x)'
    BY <1>3, <1>7, <1>9 DEF StoreInv, EventsOK
  <2>2. \A x \in Requests :
          request'[x].pc = "created" => \E i \in DOMAIN audit : Untimed(audit[i]) = EventOf(x)'
    BY <1>1, <1>7, <1>9 DEF StoreInv, EventsOK
  <2> QED
    BY <1>1, <2>1, <2>2 DEF StoreInv, EventsOK
<1>12. UserNamesUnique'
  <2>1. CASE t # "admin_user"
    <3>1. store'["admin_user"] = store["admin_user"]
      BY <1>5, <2>1 DEF Tables
    <3> QED
      BY <3>1 DEF StoreInv, UserNamesUnique
  <2>2. CASE t = "admin_user"
    <3>1. \A i \in DOMAIN store[t] : store[t][i].name # row.name
      BY <1>1, <1>2, <2>2 DEF Unique, Exists
    <3>2. \A i, j \in DOMAIN store[t] : store[t][i].name = store[t][j].name => i = j
      BY <2>2 DEF StoreInv, UserNamesUnique
    <3> HIDE DEF t
    <3>3. \A i, j \in DOMAIN store'[t] : store'[t][i].name = store'[t][j].name => i = j
      BY <1>4, <3>1, <3>2
    <3> QED
      BY <2>2, <3>3 DEF UserNamesUnique
  <2> QED
    BY <2>1, <2>2
<1> QED
  BY <1>10, <1>11, <1>12 DEF StoreInv

\* The second commit, with or without the event.
LEMMA EventStored ==
  ASSUME TypeInv, StoreInv, NEW r \in Requests, NEW q, EventCommitted(r, q)
  PROVE  StoreInv'
<1>1. /\ Becomes(r, q) /\ SameWork(q, request[r]) /\ q.id = request[r].id
      /\ request[r].pc = "audit" /\ UNCHANGED store /\ q.pc \in {"created", "error"}
  BY DEF EventCommitted
<1>2. /\ request'[r] = q
      /\ \A x \in Requests : x # r => request'[x] = request[x]
  BY <1>1 DEF Becomes
<1>3. \A x \in Requests :
        /\ RowOf(x)' = RowOf(x) /\ EventOf(x)' = EventOf(x)
        /\ request'[x].id = request[x].id /\ request'[x].payload = request[x].payload
        /\ x # r => request'[x].pc = request[x].pc
  BY <1>1, <1>2 DEF RowOf, EventOf, SameWork
<1>4. request[r].id # 0
  BY <1>1 DEF StoreInv, RowsOK
<1>5. RowsOK'
  <2>2. ASSUME NEW x \in Requests
        PROVE  /\ request'[x].pc \in {"audit", "created"} => request[x].id # 0
               /\ request[x].pc \in {"audit", "created", "error", "lost"} =>
                    request'[x].pc \in {"audit", "created", "error", "lost"}
    <3>1. CASE x = r
      BY <1>1, <1>2, <1>4, <3>1
    <3>2. CASE x # r
      BY <1>3, <3>2 DEF StoreInv, RowsOK
    <3> QED
      BY <3>1, <3>2
  <2>3. store' = store
    BY <1>1
  <2> QED
    BY <1>3, <2>2, <2>3 DEF StoreInv, RowsOK
<1>6. UserNamesUnique'
  BY <1>1 DEF StoreInv, UserNamesUnique
<1>7. CASE UNCHANGED audit /\ q.pc = "error"
  <2>1. EventsOK'
    BY <1>1, <1>2, <1>3, <1>7 DEF StoreInv, EventsOK
  <2> QED
    BY <1>5, <1>6, <2>1 DEF StoreInv
<1>8. ASSUME NEW event \in Events, Untimed(event) = EventOf(r),
             audit' = Append(audit, event)
      PROVE  StoreInv'
  <2> DEFINE n == Len(audit) + 1
  <2>1. event.target_type = request[r].payload.table /\ event.target_id = request[r].id
    BY <1>8, SaysOf
  <2>2. Untimed(event) = EventOf(r)
    BY <1>8
  <2>3. /\ DOMAIN audit' = 1 .. n /\ DOMAIN audit = 1 .. Len(audit) /\ Len(audit) \in Nat
        /\ \A i \in DOMAIN audit : i \in DOMAIN audit' /\ audit'[i] = audit[i]
        /\ n \in DOMAIN audit' /\ audit'[n] = event
        /\ \A i \in DOMAIN audit' : i = n \/ i \in DOMAIN audit
    BY <1>8, <2>2, StoreTypes
  <2>4. ASSUME NEW i \in DOMAIN audit, audit[i].target_type = event.target_type,
               audit[i].target_id = event.target_id
        PROVE  FALSE
    <3>1. PICK x \in Requests :
            request[x].id # 0 /\ request[x].pc # "audit" /\ Untimed(audit[i]) = EventOf(x)
      BY DEF StoreInv, EventsOK
    <3>2. audit[i].target_type = request[x].payload.table /\ audit[i].target_id = request[x].id
      BY <3>1, SaysOf
    <3>3. request[x].id = request[r].id /\ request[x].payload.table = request[r].payload.table
      BY <2>1, <2>4, <3>2
    <3>4. x = r
      BY <3>1, <3>3 DEF StoreInv, RowsOK
    <3> QED
      BY <1>1, <3>1, <3>4
  <2> HIDE DEF n
  <2>5. \A i \in DOMAIN audit' :
          \E x \in Requests :
            request'[x].id # 0 /\ request'[x].pc # "audit" /\ Untimed(audit'[i]) = EventOf(x)'
    <3> SUFFICES ASSUME NEW i \in DOMAIN audit'
                 PROVE  \E x \in Requests :
                          request'[x].id # 0 /\ request'[x].pc # "audit" /\ Untimed(audit'[i]) = EventOf(x)'
      OBVIOUS
    <3>1. CASE i = n
      BY <1>1, <1>2, <1>3, <1>4, <2>2, <2>3, <3>1
    <3>2. CASE i \in DOMAIN audit
      BY <1>1, <1>2, <1>3, <2>3, <3>2 DEF StoreInv, EventsOK
    <3> QED
      BY <2>3, <3>1, <3>2
  <2>6. \A i, j \in DOMAIN audit' :
          audit'[i].target_type = audit'[j].target_type /\ audit'[i].target_id = audit'[j].target_id
          => i = j
    BY <2>3, <2>4 DEF StoreInv, EventsOK
  <2>7. \A x \in Requests :
          request'[x].pc = "created" => \E i \in DOMAIN audit' : Untimed(audit'[i]) = EventOf(x)'
    BY <1>3, <2>2, <2>3 DEF StoreInv, EventsOK
  <2>8. EventsOK'
    BY <2>5, <2>6, <2>7 DEF EventsOK
  <2> QED
    BY <1>5, <1>6, <2>8 DEF StoreInv
<1> QED
  BY <1>1, <1>7, <1>8 DEF EventCommitted

\* A crash stores nothing.
LEMMA CrashStored == ASSUME TypeInv, StoreInv, Crashed PROVE StoreInv'
<1>1. \A x \in Requests :
        /\ RowOf(x)' = RowOf(x) /\ EventOf(x)' = EventOf(x)
        /\ request'[x].id = request[x].id /\ request'[x].payload = request[x].payload
        /\ \/ request'[x].pc = request[x].pc
           \/ request[x].pc \in {"accepted", "row", "audit"} /\ request'[x].pc = "lost"
  BY DEF Crashed, RowOf, EventOf, SameWork
<1>2. UNCHANGED <<store, audit>>
  BY DEF Crashed
<1>3. RowsOK'
  BY <1>1, <1>2 DEF StoreInv, RowsOK
<1>4. EventsOK'
  BY <1>1, <1>2 DEF StoreInv, EventsOK
<1>5. UserNamesUnique'
  BY <1>2 DEF StoreInv, UserNamesUnique
<1> QED
  BY <1>3, <1>4, <1>5 DEF StoreInv

LEMMA StoreStep == ASSUME TypeInv, StoreInv, AdminStep PROVE StoreInv'
<1>1. CASE UNCHANGED <<store, audit, request>>
  BY <1>1 DEF StoreInv, RowsOK, EventsOK, UserNamesUnique, RowOf, EventOf
<1>2. ASSUME NEW r \in Requests, NEW p \in AllPayloads, NEW q, Handled(r, p, q),
             UNCHANGED <<store, audit>>
      PROVE  StoreInv'
  BY <1>2, NothingStored DEF Handled, StoreInv, RowsOK
<1>3. ASSUME NEW r \in Requests, NEW q, RowCommitted(r, q) PROVE StoreInv'
  <2>1. CASE store' = store
    <3>1. /\ request[r].id = 0 /\ Becomes(r, q) /\ UNCHANGED <<store, audit>>
      BY <1>3, <2>1 DEF RowCommitted, StoreInv, RowsOK
    <3>2. q.id = 0 /\ q.pc = "error"
      <4>1. CASE q.pc = "error" /\ q.id = request[r].id
        BY <3>1, <4>1
      <4>2. CASE LET t == request[r].payload.table IN
                   store' = [store EXCEPT ![t] = Append(@, RowOf(r))]
        <5> DEFINE t == request[r].payload.table
        <5>1. t \in Tables /\ RowOf(r) \in Rows
          BY <1>3, CreationType DEF RowCommitted
        <5>2. Len(store'[t]) = Len(store[t]) + 1 /\ Len(store[t]) \in Nat
          BY <4>2, <5>1, StoreTypes
        <5>3. \A n \in Nat : n # n + 1
          OBVIOUS
        <5>4. Len(store'[t]) = Len(store[t])
          BY <2>1
        <5> QED
          BY <5>2, <5>3, <5>4, Zenon
      <4> QED
        BY <1>3, <4>1, <4>2 DEF RowCommitted
    <3> QED
      BY <3>1, <3>2, NothingStored
  <2> QED
    BY <1>3, <2>1, RowStored
<1>4. ASSUME NEW r \in Requests, NEW q, Refused(r, q) PROVE StoreInv'
  BY <1>4, NothingStored DEF Refused, StoreInv, RowsOK
<1>5. ASSUME NEW r \in Requests, NEW u \in Users, NEW q, Accepted(r, u, q) PROVE StoreInv'
  BY <1>5, NothingStored DEF Accepted, StoreInv, RowsOK
<1> QED
  BY <1>1, <1>2, <1>3, <1>4, <1>5, EventStored, CrashStored DEF AdminStep

-----------------------------------------------------------------------------
(* Listings                                                                *)

Ids(shown) == {e.id : e \in shown}

\* The event of x is on the page S, or S is full of events stamped no earlier.
OnPage(x, S) ==
    \E i \in DOMAIN audit :
      /\ audit[i].target_type = request[x].payload.table
      /\ audit[i].target_id = request[x].id
      /\ \/ i \in S
         \/ /\ Cardinality(S) = Limit
            /\ \A j \in S : audit[j].created_at >= audit[i].created_at

\* What request r was shown has the creations answered before it, and its
\* expired entries had expired.
ListOK(r) ==
    LET t == request[r].payload.table IN
    /\ \A x \in request[r].before : request[x].pc = "created"
    /\ request[r].pc = "listed" =>
         /\ \A x \in request[r].before : request[x].payload.table = t =>
              \E e \in request[r].shown :
                e.id = request[x].id /\ e.temporary = request[x].payload.temporary
         /\ t = "admin_audit" =>
              /\ Ids(request[r].shown) \subseteq DOMAIN audit
              /\ \A x \in request[r].before : OnPage(x, Ids(request[r].shown))
         /\ \A e \in request[r].shown : e.expired =>
              /\ t \in Tables /\ e.id \in DOMAIN store[t]
              /\ store[t][e.id].expires_at # None /\ store[t][e.id].expires_at < clock

ListingsOK == \A r \in Requests : ListOK(r)

\* Rows, events and answered creations stay, and time passes.
Forward ==
    /\ clock <= clock'
    /\ \A t \in Tables : \A i \in DOMAIN store[t] :
         i \in DOMAIN store'[t] /\ store'[t][i] = store[t][i]
    /\ \A i \in DOMAIN audit : i \in DOMAIN audit' /\ audit'[i] = audit[i]
    /\ \A x \in Requests : request[x].pc = "created" => request'[x] = request[x]

LEMMA StepForward == ASSUME TypeInv, AdminStep PROVE Forward
<1>1. clock \in Nat
  BY TypesUsed
<1>2. ASSUME NEW r \in Requests, NEW q, Becomes(r, q), request[r].pc # "created"
      PROVE  \A x \in Requests : request[x].pc = "created" => request'[x] = request[x]
  BY <1>2 DEF Becomes
<1>3. CASE UNCHANGED <<store, audit, request>> /\ clock <= clock'
  BY <1>3 DEF Forward
<1>4. ASSUME NEW r \in Requests, NEW p \in AllPayloads, NEW q, Handled(r, p, q),
             UNCHANGED <<clock, store, audit>>
      PROVE  Forward
  BY <1>1, <1>2, <1>4 DEF Forward, Handled
<1>5. ASSUME NEW r \in Requests, NEW q, RowCommitted(r, q) PROVE Forward
  <2> DEFINE t == request[r].payload.table
             row == RowOf(r)
  <2>1. /\ t \in Tables /\ row \in Rows
        /\ UNCHANGED store \/ store' = [store EXCEPT ![t] = Append(store[t], row)]
    BY <1>5, CreationType DEF RowCommitted
  <2> HIDE DEF t, row
  <2>2. \A u \in Tables : \A i \in DOMAIN store[u] :
          i \in DOMAIN store'[u] /\ store'[u][i] = store[u][i]
    <3> SUFFICES ASSUME NEW u \in Tables, NEW i \in DOMAIN store[u]
                 PROVE  i \in DOMAIN store'[u] /\ store'[u][i] = store[u][i]
      OBVIOUS
    <3>1. store'[u] = store[u] \/ store'[u] = Append(store[u], row)
      BY <2>1, StoreTypes
    <3>2. store[u] \in Seq(Rows) /\ row \in Rows
      BY <2>1, StoreTypes
    <3>3. CASE store'[u] = Append(store[u], row)
      BY <3>2, <3>3
    <3> QED
      BY <3>1, <3>3
  <2> QED
    BY <1>1, <1>2, <1>5, <2>2 DEF Forward, RowCommitted
<1>6. ASSUME NEW r \in Requests, NEW q, EventCommitted(r, q) PROVE Forward
  <2>1. UNCHANGED audit \/ \E event \in Events : audit' = Append(audit, event)
    BY <1>6 DEF EventCommitted
  <2>2. \A i \in DOMAIN audit : i \in DOMAIN audit' /\ audit'[i] = audit[i]
    BY <2>1, StoreTypes
  <2> QED
    BY <1>1, <1>2, <1>6, <2>2 DEF Forward, EventCommitted
<1>7. ASSUME NEW r \in Requests, NEW q, Refused(r, q) PROVE Forward
  BY <1>1, <1>2, <1>7 DEF Forward, Refused
<1>8. ASSUME NEW r \in Requests, NEW u \in Users, NEW q, Accepted(r, u, q) PROVE Forward
  BY <1>1, <1>2, <1>8 DEF Forward, Accepted
<1>9. CASE Crashed
  BY <1>1, <1>9 DEF Forward, Crashed
<1> QED
  BY <1>3, <1>4, <1>5, <1>6, <1>7, <1>8, <1>9 DEF AdminStep

\* A listing that was given stays true.
LEMMA ListingKept ==
  ASSUME TypeInv, TypeInv', Forward, NEW r \in Requests, ListOK(r),
         request'[r].before = request[r].before,
         request'[r].pc = "listed" => request'[r] = request[r]
  PROVE  ListOK(r)'
<1>1. request[r].before \subseteq Requests
  BY TypesUsed DEF States
<1>2. \A x \in request[r].before : request[x].pc = "created" /\ request'[x] = request[x]
  BY <1>1 DEF ListOK, Forward
<1>3. CASE request'[r].pc # "listed"
  BY <1>2, <1>3 DEF ListOK
<1>4. CASE request'[r].pc = "listed"
  <2> DEFINE t == request[r].payload.table
             shown == request[r].shown
  <2>1. request'[r] = request[r] /\ request[r].pc = "listed"
    BY <1>4
  <2>2. \A x \in request[r].before : request[x].payload.table = t =>
          \E e \in shown : e.id = request[x].id /\ e.temporary = request[x].payload.temporary
    BY <2>1 DEF ListOK
  <2>3. ASSUME t = "admin_audit"
        PROVE  /\ Ids(shown) \subseteq DOMAIN audit'
               /\ \A x \in request[r].before : OnPage(x, Ids(shown))'
    <3>1. /\ Ids(shown) \subseteq DOMAIN audit
          /\ \A x \in request[r].before : OnPage(x, Ids(shown))
      BY <2>1, <2>3 DEF ListOK
    <3>2. \A i \in DOMAIN audit : i \in DOMAIN audit' /\ audit'[i] = audit[i]
      BY DEF Forward
    <3>3. PICK S : S = Ids(shown)
      OBVIOUS
    <3>4. S \subseteq DOMAIN audit' /\ Ids(shown)' = S
      BY <2>1, <3>1, <3>2, <3>3 DEF Ids
    <3>5. ASSUME NEW x \in request[r].before
          PROVE  OnPage(x, Ids(shown))'
      <4>1. OnPage(x, S) /\ request'[x] = request[x]
        BY <1>2, <3>1, <3>3
      <4> QED
        BY <3>1, <3>2, <3>3, <3>4, <4>1 DEF OnPage
    <3> QED
      BY <3>3, <3>4, <3>5
  <2>4. \A e \in shown : e.expired =>
          /\ t \in Tables /\ e.id \in DOMAIN store'[t]
          /\ store'[t][e.id].expires_at # None /\ store'[t][e.id].expires_at < clock'
    <3> SUFFICES ASSUME NEW e \in shown, e.expired
                 PROVE  /\ t \in Tables /\ e.id \in DOMAIN store'[t]
                        /\ store'[t][e.id].expires_at # None
                        /\ store'[t][e.id].expires_at < clock'
      OBVIOUS
    <3>1. /\ t \in Tables /\ e.id \in DOMAIN store[t]
          /\ store[t][e.id].expires_at # None /\ store[t][e.id].expires_at < clock
      BY <2>1 DEF ListOK
    <3>2. store[t][e.id] \in Rows
      BY <3>1, StoreTypes
    <3>3. store[t][e.id].expires_at \in Nat
      BY <3>1, <3>2 DEF Rows
    <3>4. clock \in Nat /\ clock' \in Nat /\ clock <= clock'
      BY TypesUsed, ClockAssumption DEF Forward, TypeInv, Times
    <3>5. e.id \in DOMAIN store'[t] /\ store'[t][e.id] = store[t][e.id]
      BY <3>1 DEF Forward
    <3> QED
      BY <3>1, <3>3, <3>4, <3>5
  <2> QED
    BY <1>2, <2>1, <2>2, <2>3, <2>4 DEF ListOK
<1> QED
  BY <1>3, <1>4

\* A listing that is given now is true.
LEMMA ListingGiven ==
  ASSUME TypeInv, StoreInv, NEW r \in Requests, ListOK(r), NEW p \in AllPayloads, NEW q,
         Handled(r, p, q), q.pc = "listed", UNCHANGED <<clock, store, audit>>
  PROVE  ListOK(r)'
<1> DEFINE t == p.table
           shown == q.shown
<1>1. /\ request'[r] = q /\ q.payload = p /\ p.op = "list" /\ IsShown(t, shown)
      /\ q.before = request[r].before /\ request[r].pc = "accepted"
      /\ \A x \in Requests : x # r => request'[x] = request[x]
  BY DEF Handled, Becomes
<1>2. t \in Tables \cup {"admin_audit"} /\ "admin_audit" \notin Tables
  BY <1>1 DEF AllPayloads, Tables
<1>3. \A x \in q.before :
        /\ x \in Requests /\ request[x].pc = "created" /\ request'[x] = request[x]
  BY <1>1, TypesUsed DEF ListOK, States
<1> HIDE DEF shown, t
<1>4. ASSUME NEW x \in q.before, request[x].payload.table = t
      PROVE  \E e \in shown :
               e.id = request[x].id /\ e.temporary = request[x].payload.temporary
  <2> DEFINE i == request[x].id
             row == store[t][i]
             e == [id |-> i, temporary |-> row.expires_at # None,
                   expired |-> row.expires_at # None /\ row.expires_at < clock]
  <2>1. /\ t \in Tables /\ i \in DOMAIN store[t] /\ row = RowOf(x)
        /\ request[x].payload \in AllPayloads
    BY <1>3, <1>4 DEF StoreInv, RowsOK
  <2>2. e \in shown
    BY <1>1, <1>2, <2>1 DEF IsShown, Listing
  <2>3. request[x].now \in Nat /\ TempDays \in Nat /\ None \notin Nat
    BY <1>3, TypesUsed, AdminAssumption, ClockAssumption DEF States, Times
  <2>4. request[x].payload.temporary \in BOOLEAN
    BY <2>1 DEF AllPayloads
  <2>5. e.temporary = request[x].payload.temporary
    <3>1. row.expires_at = IF request[x].payload.temporary
                           THEN request[x].now + TempDays ELSE None
      BY <2>1 DEF RowOf
    <3>2. request[x].now + TempDays # None
      BY <2>3
    <3>3. e.temporary = (row.expires_at # None)
      OBVIOUS
    <3> HIDE DEF e, row
    <3> QED
      BY <2>4, <3>1, <3>2, <3>3, Zenon
  <2>6. e.id = i
    OBVIOUS
  <2> HIDE DEF e, i
  <2> QED
    BY <2>2, <2>5, <2>6 DEF i
<1>5. ASSUME t = "admin_audit"
      PROVE  /\ Ids(shown) \subseteq DOMAIN audit
             /\ \A x \in q.before : OnPage(x, Ids(shown))
  <2>1. PICK S \in SUBSET DOMAIN audit : IsPage(S) /\ shown = Page(S)
    BY <1>1, <1>5 DEF IsShown
  <2>2. Ids(shown) = S
    <3> DEFINE Entry(i) == [id |-> i, temporary |-> FALSE, expired |-> FALSE]
    <3>1. shown = {Entry(i) : i \in S} /\ \A i \in S : Entry(i).id = i
      BY <2>1 DEF Page
    <3> HIDE DEF Entry
    <3> QED
      BY <3>1 DEF Ids
  <2>3. ASSUME NEW x \in q.before
        PROVE  OnPage(x, S)
    <3>1. PICK i \in DOMAIN audit : Untimed(audit[i]) = EventOf(x)
      BY <1>3 DEF StoreInv, EventsOK
    <3>2. /\ audit[i].target_type = request[x].payload.table
          /\ audit[i].target_id = request[x].id
      BY <3>1, SaysOf
    <3>3. ASSUME i \notin S
          PROVE  /\ Cardinality(S) = Limit
                 /\ \A j \in S : audit[j].created_at >= audit[i].created_at
      <4>1. \A j \in S : audit[j].created_at >= audit[i].created_at
        BY <2>1, <3>3 DEF IsPage
      <4>2. Len(audit) \in Nat /\ DOMAIN audit = 1 .. Len(audit)
        BY StoreTypes
      <4>3. IsFiniteSet(DOMAIN audit) /\ Cardinality(DOMAIN audit) = Len(audit)
        <5>1. PICK n \in Nat : n = Len(audit) /\ DOMAIN audit = 1 .. n
          BY <4>2
        <5>2. IsFiniteSet(1 .. n) /\ Cardinality(1 .. n) = IF 1 > n THEN 0 ELSE n - 1 + 1
          BY FS_Interval
        <5>3. (IF 1 > n THEN 0 ELSE n - 1 + 1) = n
          OBVIOUS
        <5> QED
          BY <5>1, <5>2, <5>3
      <4>4. Cardinality(S) # Len(audit)
        <5>1. Cardinality(DOMAIN audit) = Cardinality(S) => DOMAIN audit = S
          BY <4>3, FS_Subset
        <5> QED
          BY <3>3, <4>3, <5>1
      <4> QED
        BY <2>1, <4>1, <4>4 DEF IsPage
    <3> QED
      BY <3>2, <3>3 DEF OnPage
  <2> QED
    BY <2>1, <2>2, <2>3
<1>6. ASSUME NEW e \in shown, e.expired
      PROVE  /\ t \in Tables /\ e.id \in DOMAIN store[t]
             /\ store[t][e.id].expires_at # None /\ store[t][e.id].expires_at < clock
  <2>1. CASE t = "admin_audit"
    BY <1>1, <1>6, <2>1 DEF IsShown, Page
  <2>2. CASE t # "admin_audit"
    <3>1. PICK i \in DOMAIN store[t] :
            e = [id |-> i, temporary |-> store[t][i].expires_at # None,
                 expired |-> store[t][i].expires_at # None /\ store[t][i].expires_at < clock]
      BY <1>1, <1>6, <2>2 DEF IsShown, Listing
    <3>2. e.id = i /\ store[t][i].expires_at # None /\ store[t][i].expires_at < clock
      BY <1>6, <3>1
    <3> QED
      BY <1>2, <2>2, <3>2
  <2> QED
    BY <2>1, <2>2
<1>7. ASSUME t = "admin_audit"
      PROVE  /\ Ids(q.shown) \subseteq DOMAIN audit'
             /\ \A x \in q.before : OnPage(x, Ids(q.shown))'
  <2>1. PICK S : S = Ids(q.shown)
    OBVIOUS
  <2>2. audit' = audit
    OBVIOUS
  <2>3. /\ S \subseteq DOMAIN audit
        /\ \A x \in q.before : OnPage(x, S)
    BY <1>5, <1>7, <2>1 DEF shown
  <2>4. ASSUME NEW x \in q.before
        PROVE  OnPage(x, Ids(q.shown))'
    <3>1. OnPage(x, S) /\ request'[x] = request[x]
      BY <1>3, <2>3
    <3>2. Ids(q.shown)' = S
      BY <2>1 DEF Ids
    <3> QED
      BY <2>2, <3>1, <3>2 DEF OnPage
  <2> QED
    BY <2>1, <2>2, <2>3, <2>4 DEF Ids
<1> QED
  BY <1>1, <1>3, <1>4, <1>6, <1>7 DEF ListOK, t, shown

LEMMA ListingsStep ==
  ASSUME TypeInv, TypeInv', StoreInv, ListingsOK, AdminStep
  PROVE  ListingsOK'
<1>1. Forward
  BY StepForward
<1>2. ASSUME NEW r \in Requests, NEW q, Becomes(r, q), ListOK(r)'
      PROVE  ListingsOK'
  <2>1. \A x \in Requests : x # r => request'[x] = request[x]
    BY <1>2 DEF Becomes
  <2> QED
    BY <1>1, <1>2, <2>1, ListingKept DEF ListingsOK
<1>3. CASE UNCHANGED <<store, audit, request>>
  BY <1>1, <1>3, ListingKept DEF ListingsOK
<1>4. ASSUME NEW r \in Requests, NEW p \in AllPayloads, NEW q, Handled(r, p, q),
             UNCHANGED <<clock, store, audit>>
      PROVE  ListingsOK'
  <2>1. Becomes(r, q) /\ request'[r] = q /\ q.before = request[r].before
    BY <1>4 DEF Handled, Becomes
  <2>2. ListOK(r)'
    BY <1>1, <1>4, <2>1, ListingGiven, ListingKept DEF ListingsOK
  <2> QED
    BY <1>2, <2>1, <2>2
<1>5. ASSUME NEW r \in Requests, NEW q, RowCommitted(r, q) \/ EventCommitted(r, q)
      PROVE  ListingsOK'
  <2>1. Becomes(r, q) /\ request'[r] = q /\ q.before = request[r].before /\ q.pc # "listed"
    BY <1>5 DEF RowCommitted, EventCommitted, SameWork, Becomes
  <2>2. ListOK(r)'
    BY <1>1, <2>1, ListingKept DEF ListingsOK
  <2> QED
    BY <1>2, <2>1, <2>2
<1>6. ASSUME NEW r \in Requests, NEW q, Refused(r, q) PROVE ListingsOK'
  <2>1. Becomes(r, q) /\ request'[r] = q /\ q.before = request[r].before
        /\ q.pc = "unauthorized"
    BY <1>6 DEF Refused, Becomes
  <2>2. ListOK(r)'
    BY <1>1, <2>1, ListingKept DEF ListingsOK
  <2> QED
    BY <1>2, <2>1, <2>2
<1>7. ASSUME NEW r \in Requests, NEW u \in Users, NEW q, Accepted(r, u, q)
      PROVE  ListingsOK'
  <2>1. /\ Becomes(r, q) /\ request'[r] = q /\ q.pc = "accepted"
        /\ q.before = {x \in Requests : request[x].pc = "created"}
    BY <1>7 DEF Accepted, Becomes
  <2>2. ListOK(r)'
    BY <1>1, <2>1 DEF ListOK, Forward
  <2> QED
    BY <1>2, <2>1, <2>2
<1>8. CASE Crashed
  BY <1>1, <1>8, ListingKept DEF ListingsOK, Crashed, SameWork
<1> QED
  BY <1>3, <1>4, <1>5, <1>6, <1>7, <1>8 DEF AdminStep

-----------------------------------------------------------------------------
(* The theorems                                                            *)

LEMMA StoreReachable == Spec => [](TypeInv /\ StoreInv /\ ListingsOK)
<1>1. Init => CacheInv
  BY DEF Init, JwksInit, CacheInv
<1>2. Init => ListingsOK
  <2>1. ASSUME Init, NEW r \in Requests
        PROVE  request[r].pc = "none" /\ request[r].before = {}
    <3>1. request[r] = [pc |-> "none", host |-> None, user |-> None, payload |-> None,
                        now |-> 0, id |-> 0, shown |-> {}, before |-> {}]
      BY <2>1 DEF Init, AdminInit
    <3> QED
      BY <3>1
  <2>2. ASSUME NEW r \in Requests, request[r].pc = "none", request[r].before = {}
        PROVE  ListOK(r)
    <3>1. request[r].pc # "listed" /\ \A x \in request[r].before : FALSE
      BY <2>2
    <3> QED
      BY <3>1, Zenon DEF ListOK
  <2> QED
    BY <2>1, <2>2 DEF ListingsOK
<1>3. TypeInv /\ CacheInv /\ StoreInv /\ ListingsOK /\ [Next]_vars
        => (TypeInv /\ CacheInv /\ StoreInv /\ ListingsOK)'
  BY NextIs, StoreStep, ListingsStep
<1> QED
  BY <1>1, <1>2, <1>3, InitTypes, InitStore, PTL DEF Spec

\* No two users have one name, although admin_create_user looks a name up in one
\* transaction and inserts it in a later one of another process.
THEOREM UserNamesAlwaysUnique == Spec => []UserNamesUnique
<1>1. StoreInv => UserNamesUnique
  BY DEF StoreInv
<1> QED
  BY <1>1, StoreReachable, PTL

\* The audit log is true: each event names a row, who created it and how, and no
\* row has two, whichever processes create rows at the same time and whichever
\* die between a row's commit and its event's.
THEOREM AuditAlwaysTrue == Spec => []AuditTellsTruth
<1>1. ASSUME TypeInv, StoreInv PROVE AuditTellsTruth
  <2>1. ASSUME NEW i \in DOMAIN audit
        PROVE  LET e == audit[i] IN
               /\ e.target_id \in DOMAIN store[e.target_type]
               /\ e.actor_user_id = store[e.target_type][e.target_id].created_by
               /\ \E r \in Requests : /\ Stored(r, e.target_type, e.target_id)
                                      /\ e.action = Action(request[r].payload)
    <3>1. PICK r \in Requests :
            request[r].id # 0 /\ request[r].pc # "audit" /\ Untimed(audit[i]) = EventOf(r)
      BY <1>1 DEF StoreInv, EventsOK
    <3>2. /\ audit[i].target_type = request[r].payload.table
          /\ audit[i].target_id = request[r].id
          /\ audit[i].actor_user_id = request[r].user.user_id
          /\ audit[i].action = Action(request[r].payload)
      BY <3>1, SaysOf
    <3>3. /\ request[r].id \in DOMAIN store[request[r].payload.table]
          /\ store[request[r].payload.table][request[r].id] = RowOf(r)
          /\ request[r].payload \in AllPayloads
      BY <1>1, <3>1 DEF StoreInv, RowsOK
    <3>4. RowOf(r).created_by = request[r].user.user_id
      BY DEF RowOf
    <3>5. request[r].payload # None
      BY <3>3, AdminAssumption
    <3> QED
      BY <3>2, <3>3, <3>4, <3>5 DEF Stored
  <2> QED
    BY <1>1, <2>1 DEF AuditTellsTruth, StoreInv, EventsOK
<1> QED
  BY <1>1, StoreReachable, PTL

\* A row without its event is that of a creation under way or one that failed:
\* whoever was answered "created" finds the row and the event.
THEOREM UnauditedAlwaysExplained == Spec => []UnauditedExplained
<1>1. ASSUME TypeInv, StoreInv PROVE UnauditedExplained
  <2>1. ASSUME NEW c \in Created
        PROVE  \E r \in Requests :
                 /\ Stored(r, c[1], c[2])
                 /\ \/ request[r].pc \in {"audit", "error", "lost"}
                    \/ \E i \in DOMAIN audit :
                         audit[i].target_type = c[1] /\ audit[i].target_id = c[2]
    <3>1. c[1] \in Tables /\ c[2] \in DOMAIN store[c[1]]
      BY <2>1 DEF Created
    <3>2. PICK r \in Requests : request[r].id = c[2] /\ request[r].payload.table = c[1]
      BY <1>1, <3>1 DEF StoreInv, RowsOK
    <3>3. request[r].id # 0
      BY <1>1, <3>1, <3>2, StoreTypes
    <3>4. /\ request[r].payload # None
          /\ request[r].pc \in {"audit", "created", "error", "lost"}
      BY <1>1, <3>3, AdminAssumption DEF StoreInv, RowsOK
    <3>5. ASSUME request[r].pc = "created"
          PROVE  \E i \in DOMAIN audit :
                   audit[i].target_type = c[1] /\ audit[i].target_id = c[2]
      <4>1. PICK i \in DOMAIN audit : Untimed(audit[i]) = EventOf(r)
        BY <1>1, <3>5 DEF StoreInv, EventsOK
      <4> QED
        BY <3>2, <4>1, SaysOf
    <3> QED
      BY <3>2, <3>4, <3>5 DEF Stored
  <2>2. ASSUME NEW r \in Requests, request[r].pc = "created"
        PROVE  <<request[r].payload.table, request[r].id>> \in Created
    BY <1>1, <2>2 DEF StoreInv, RowsOK, Created
  <2> QED
    BY <2>1, <2>2 DEF UnauditedExplained
<1> QED
  BY <1>1, StoreReachable, PTL

\* A listing shows every creation that was answered before it was asked for, the
\* audit log its event, unless its page is full of events stamped no earlier,
\* for any page size, skew of the clocks and order of commits; and it shows
\* nothing as expired too early.
THEOREM ListingsAlwaysTrue == Spec => []ListingsTellTruth
<1>1. ASSUME TypeInv, StoreInv, ListingsOK PROVE ListingsTellTruth
  <2> SUFFICES ASSUME NEW r \in Requests, NEW q \in Requests, request[r].pc = "listed"
               PROVE  LET t == request[r].payload.table
                          shown == {e.id : e \in request[r].shown}
                      IN
                      /\ q \in request[r].before /\ request[q].payload.table = t =>
                           \E e \in request[r].shown :
                             e.id = request[q].id /\ e.temporary = request[q].payload.temporary
                      /\ q \in request[r].before /\ t = "admin_audit" =>
                           \E i \in DOMAIN audit :
                             /\ audit[i].target_type = request[q].payload.table
                             /\ audit[i].target_id = request[q].id
                             /\ i \in shown \/
                                  /\ Cardinality(shown) = Limit
                                  /\ \A j \in shown :
                                       audit[j].created_at >= audit[i].created_at
                      /\ \A e \in request[r].shown :
                           e.expired /\ Stored(q, t, e.id) => request[q].now + TempDays < clock
    BY DEF ListingsTellTruth
  <2> DEFINE t == request[r].payload.table
  <2>1. ListOK(r)
    BY <1>1 DEF ListingsOK
  <2>2. ASSUME NEW e \in request[r].shown, e.expired, Stored(q, t, e.id)
        PROVE  request[q].now + TempDays < clock
    <3>1. /\ t \in Tables /\ e.id \in DOMAIN store[t]
          /\ store[t][e.id].expires_at # None /\ store[t][e.id].expires_at < clock
      BY <2>1, <2>2 DEF ListOK
    <3>2. request[q].id = e.id /\ request[q].payload.table = t /\ e.id # 0
      BY <1>1, <2>2, <3>1, StoreTypes DEF Stored
    <3>3. store[t][e.id] = RowOf(q)
      BY <1>1, <3>2 DEF StoreInv, RowsOK
    <3>4. RowOf(q).expires_at = IF request[q].payload.temporary
                                THEN request[q].now + TempDays ELSE None
      BY DEF RowOf
    <3> QED
      BY <3>1, <3>3, <3>4
  <2>3. ASSUME q \in request[r].before, t = "admin_audit"
        PROVE  OnPage(q, Ids(request[r].shown))
    BY <2>1, <2>3 DEF ListOK
  <2>4. ASSUME q \in request[r].before, request[q].payload.table = t
        PROVE  \E e \in request[r].shown :
                 e.id = request[q].id /\ e.temporary = request[q].payload.temporary
    BY <2>1, <2>4 DEF ListOK
  <2> QED
    BY <2>2, <2>3, <2>4 DEF OnPage, Ids
<1> QED
  BY <1>1, StoreReachable, PTL
=============================================================================
