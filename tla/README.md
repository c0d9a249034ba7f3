# ZTForensics in TLA+

ZTForensics is a zero-trust access gateway that keeps forensic evidence of its
decisions. This directory models what decides and records: the `/access`
handler of `api_gateway/main.py`, the risk scorer and the OPA policy it
consults, the hash chain it writes to, and the one-time passwords it issues;
and what stands around it: token validation with the cached keys of Keycloak,
the admin endpoints and their audit log, the reports over the log, the earlier
analysis libraries the reports replaced, and the dashboard's session. The
modules are model-checked with TLC on small instances; every safety property of
theirs that holds is also proved with TLAPS, for all instances.

All paths below are relative to `src/`.

## Inventory of the system

| Component | State | Operations | Interacts with |
|---|---|---|---|
| **access decision handler**: `api_gateway/main.py:464-574` | per process: the singletons of lines 57-64; per request: local variables; tables `access_logs`, `security_alerts`, `otp_challenges` | `POST /access`, `GET /forensics/verify-chain` | scorer and chain (calls), OPA (awaited HTTP query, 5 s timeout), the database (synchronous commits) |
| **risk scorer**: `api_gateway/risk_scoring.py` | `_failure_counts`, in memory | `calculate_risk`, `record_failure` | called by the handler |
| **policy**: `policies/main.rego` | none | evaluation of package `ztf.authz` | queried by the handler |
| **hash chain**: `api_gateway/blockchain.py` | `_chain`, in memory | `add_block`, `verify_chain`, `get_chain_stats` | called by the handler and by the exports |
| **one-time passwords**: `main.py:358-431` | `otp_challenges` | `/otp/send`, `/otp/verify`; creation by `/access` | the database; several processes may share it |
| **security alerts**: `main.py:185-233, 434-461` | `security_alerts` | creation, listing | created by the handler, one commit each |
| **admin store**: `main.py:264-290, 850-1255`, `database.py:115-191` | users, policies, whitelists of locations and of devices, audit log | create, list | token validation in front; each creation commits its row, then its audit entry |
| **forensic queries and exports**: `main.py:605-824` | none | summary, public summary, timeline, anomalies, JSON and PDF export | several queries each on tables that other processes write to |
| **token validation, JWKS cache**: `keycloak_config.py`, `auth_middleware.py`, `auth_routes.py` | per process: cached key set and its timestamp | `fetch_jwks`, `get_current_user` | Keycloak (awaited) |
| **dashboard**: `dashboard/app.py` | the session, a cookie in the browser: state of a login, tokens, name and roles | login, callback, refresh and retry after 401, pasting and clearing a token, logout, pages that call the gateway | gateway and Keycloak over HTTP, in a thread per request |
| **evidence storage**: `storage.py` | a bucket | ensure bucket, upload, presign | MinIO; constructed by `main.py:61` and reported by `/health`, no other caller |
| **legacy analysis libraries**: `forensic_engine.py`, `timeline_analyzer.py`, `anomaly_detector.py`, `evidence_packager.py`, `report_generator.py` | none, functions of a list of records | link, verify, group, detect, package, print | tests only |
| **legacy services**: `risk_scorer.py`, `opa_client.py`, `auth.py`, `config.py` | none | scoring, query, token decoding | each other and tests |
| **configuration, start-up scripts, simulators** | none that evolves | validation | - |

What is hard about it:

* **Interleaving.** The gateway is one uvicorn worker: handlers are coroutines
  of one event loop and their database calls are synchronous, so they
  interleave only where they `await`. `/access` has one `await`, the query to
  OPA (`main.py:483`), between computing the risk and using it. Scaled out
  (`DOCKER_COMPOSE_GUIDE.md:218`), several processes share the tables and
  nothing else, and interleave at every commit.
* **Partial failure.** One request makes up to three commits (challenge or
  alert, then log row) and two changes in memory (denial counter, block), in
  an order that decides what is left when one of them raises.
  A creation of an admin makes two commits, a report up to seven queries.
* **Crashes.** Chain, counters and cached keys are in memory, the tables are
  not.
* **Stale copies.** A key set is cached while Keycloak rotates its keys, and
  fetched across an `await` (`keycloak_config.py:74`). A dashboard request
  works on the copy of the session it arrived with, and its response replaces
  the browser's whole copy.
* **Lost answers.** Keycloak may have replaced a refresh token, or the gateway
  executed a call, although the dashboard sees an exception, or the browser
  nothing.
* **Clocks.** Each process stamps rows and audit events before it commits them;
  listings are sorted by the stamps.
* **Boundaries.** Bands of the policy that meet at 0.50 and 0.85, rules with
  several bodies, two scales for a risk, attempt limits, expiry.
* **Waiting.** OPA may be slow, wrong or gone; every request must end.

What makes the components correct:

* chain: verifies as long as nobody edits it, an edit is found and located,
  no entry is lost;
* handler: a client that got an answer can find its decision in the log, once;
  a log row has the alert or challenge that goes with it and a block that
  carries the same decision; what a failure leaves behind is explained;
  counters equal the denials they count; every request ends;
* scorer and policy: every score belongs to one band, an undecidable or
  unanswered query is a denial, more denials never relax a verdict;
* OTP: verified only in time, within the attempts and once;
* admin store: the audit log tells the truth, and what it misses is explained
  by a failure; names are unique; a listing has what was created before it;
* token validation: a cached key set was Keycloak's at its timestamp, so a
  retired key is good for the age of a cache and no longer, and a good token is
  refused for no longer either;
* reports: the numbers of one report do not contradict each other, nor the two
  detectors and the three verifiers each other; no denial series is missed;
* dashboard: a repeated call is executed once, the tokens and the roles of two
  users never mix, a logout lasts, the refresh token kept is a live one unless
  the response that carried its successor was lost.

The complete list of hazards, each at its line and with the properties aimed at
it, is `hazards` in `PROJECT.json`.

## Modules

```
HashChain <--- ChainWriters                            the chain, its writers
    ^
    |      RiskPolicy <--- RiskReview                  judging one request
    |        ^      ^
    |        |      +---- ForensicReports ---> LegacyAnalysis       reports
    |        |
    +--- AccessGateway ---(implements)--> AuditLedger  POST /access
OtpChallenge                                           challenges
GatewayRequests <--- AdminStore <--+
       ^                           +--- AdminApi       admin endpoints
       +------------ JwksCache  <--+
DashboardSession                                       the browser's session
```

An arrow points to the module that is extended or instantiated. `MC...` modules
hold values for TLC, `..._proofs` modules the theorems: of `HashChain`,
`AccessGateway`, `ChainWriters`, `RiskReview`, `OtpChallenge`, `AdminApi` (with
its two parts), `DashboardSession` and `ForensicReports` (with
`LegacyAnalysis`).

**HashChain** has no state: the list `_chain` as a value and `blockchain.py`'s
methods as operators on it. SHA-256 is taken to be injective, and a digest is
represented by the content it commits to: the preceding digest extended with
the block's index and data. Two digests are equal exactly when every block
before them has the same content. `verified_blocks` says where the loop of
`verify_chain` stops.

**RiskPolicy** has no state either: the scorer's factors (weights in
hundredths, they all have two decimals), the bodies of each Rego rule, the
values a complete rule gets from its bodies and the conflict OPA reports when
they differ, the gateway's reading of the answer, and the type and severity of
the alert. Strings are reduced to the classes the code distinguishes; the
different case handling of scorer and policy is kept ("DELETE" is a delete for
the scorer and not for the policy; "/API/ADMIN" is sensitive for the scorer
only).

**RiskReview** changes the circumstances under which one request is judged
(its user's denials, the hour, the availability of OPA), so that what a
verdict does along such a sequence is an action property.

**AccessGateway** is the handler of `/access`, for any number of processes:

| Action | Code | What it does |
|---|---|---|
| `Receive` | 464-482 | risk from the request, the hour and the counters as they are now; then `await` |
| `OpaReturns` | 483-511 | the answer or the failure of the query; holds the loop from here |
| `IssueChallenge` | 513-522 | commit of the challenge, may raise |
| `RaiseAlert` | 524-530, 185-233 | `record_failure`, then commit of the alert, may raise |
| `ChainEntry` | 533-546 | `add_block`; the hash is kept for the row |
| `CommitLog` | 548-574 | commit of the row and the response, may raise |
| `Crash` | 57-64 | the process dies and starts again with a new chain and new counters |

`loop[g]` is the request whose coroutine is running on process `g` after its
await; it keeps the other handlers of `g` out, which is what Python's event
loop does. An insert that raises may or may not have reached the table
(`Uncertain`): the code's `commit(); refresh()` can fail after the commit took
effect. Requests arrive with any body of `Forms`, at any hour of
`HoursSeen`, at any process.

**AuditLedger** is the abstract specification: decisions become evidence of a
process, then at most once and unaltered a row of a durable ledger, then an
answer. `AccessGateway` implements it with the mapping in its last section
(`KeepsLedger`): blocks after the genesis block are the evidence, log rows the
ledger.

**ChainWriters** takes `add_block` apart into its three reads and writes and
runs it from several callers, as coroutines (one call at a time) and as threads
(as `tests/test_edge_cases.py:92` does), and edits a block of a finished chain.

**OtpChallenge** is `otp_challenges` under `/otp/send` and `/otp/verify`. A
verification is a read followed by a write of the assigned columns, so that
calls of two processes overlap; the clock passes the expiry; a commit may be
rolled back. `AwareTimestamps` is what the database returns for
`DateTime(timezone=True)`. `RightCodeVerifies` looks at the table when a call
ends: whatever other calls did since this one read the row, if the challenge is
still one that the code should open, it is opened, at the time the call took.
It holds on a database that returns naive datetimes (SQLite) and fails on
PostgreSQL.

**GatewayRequests** has what the next two modules share: requests, processes
and one clock.

**JwksCache** is token validation. `fetch_jwks` is split at its await
(`StartFetch`, `FinishFetch`), so that several fetches of one process overlap
and finish in any order; Keycloak is external and answers with the keys of the
moment or not at all (`KeycloakAnswers`), publishes a new key and retires
others (`Rotate`). The timestamp a key set is cached under is the local `now`
of the call, read before the await. A signature is what it shows, the key it
was made with.

**AdminStore** is every endpoint that creates or lists users, policies,
whitelist entries and audit events, one operator per endpoint under its name in
`main.py`. A creation is `Create` up to the row's commit, then `CommitRow` and
`CommitAudit`, either of which may raise before or after the server has
committed; between them a handler does not await, so its process runs nothing
else (`Idle`), but another process does. The lookup of a username and the
constraint on it are apart. A listing is one query.

An audit event gets its `created_at` from the clock of its process at the flush,
which is before the commit (`database.py:191`). `Stamps` are the times it can
be: any between the start of the handler and the commit, and off by as much as
the clocks of the processes differ (`MaxSkew`). `IsPage` is what `ORDER BY
created_at DESC LIMIT` may return (`main.py:1241`): the newest by stamp, whatever
their ids, and of equal stamps any. The comparison of an entry's expiry with the
clock is made without skew.

**AdminApi** composes the two: a request enters `AdminStore` when its token is
good for the key set `JwksCache` gives its process, and the user it then has is
`_extract_user_context` of the token. A process that dies loses its cache and
its requests (`Restart`).

**LegacyAnalysis** has no state: the evidence chain of `forensic_engine.py`,
the timeline, the five detectors, and what the package and the PDF say of a list
of records. Digests are represented as in `HashChain`.

**ForensicReports** is a table to which `/access` of this or of another process
commits (an alert, then the row; the row may be lost) and a report answered
query by query (`Ask`, `RunQuery`, `Deliver`), each query on what is committed
by then. The timeline and the anomalies are one query each, and are operators
on the table. A row carries the time of its flush, which may be of the hour
before its commit.

**DashboardSession** is one browser's cookie and the threads that serve its
requests:

| Action | Code | What it does |
|---|---|---|
| `auth_login`, `auth_logout`, `save_session_token`, `clear_session_token`, `Page` | `dashboard/app.py` routes of these names, the pages | answered from the copy of the session at once |
| `auth_callback`, `ExchangeCode`, `FetchUserinfo` | callback | pops the state; two calls of Keycloak; then tokens, name and roles together |
| `ApiCall`, `admin_panel`, `CallGateway` | `_api_get`, `_api_post`, evidence download, `/admin` | a call that succeeds, fails before or after it took effect, is refused, or finds the token expired |
| `RefreshToken` | `_refresh_access_token_if_needed` | a new grant, with or without a new refresh token; the answer may be lost |
| `Respond` | Flask's session interface | the cookie is replaced if the session was modified or is permanent |
| `Lose` | connection, worker process | the browser gets no response: the connection breaks, or the worker dies wherever the request is |

A request that had Keycloak replace the refresh token carries the new one in its
response and nowhere else. If that response is lost, or the worker dies after
the refresh, the browser keeps the spent token: Keycloak refuses the next
refresh, `_auth_fail_response` drops both tokens, and the user has to log in
again. `dropped` has the refresh tokens this happened to.

An operator commented as a "faulty
variant" is the definition after it with a plausible mistake; no specification
uses it. Replacing the definition by its variant makes a property of a run fail,
which shows that the property depends on that line of the code.

## Runs

| Run | Instance | What it shows |
|---|---|---|
| `gateway_evidence` | 1 process, 2 requests with 3 bodies of 2 users, 2 restarts; 40 thousand states | types; chains verify; a log row has its alert or challenge; a block without a row is explained; counters equal denials; evidence only grows; a score counts every denial answered before it; every request ends |
| `gateway_replicas` | 2 processes, 3 requests of one user, 1 restart each, symmetric; 1.1 million states | rows are anchored in the chain that is still in memory, in chain order; an answer is logged exactly once; `AuditLedger` is implemented |
| `risk_review` | all 320 classes of body (5 scores claimed in the metadata), 2 hours, up to 4 denials, OPA up or down; 9600 states | the verdict follows the bands; conflicts are denials and occur where they are expected; a suspicious score counts as high risk; more denials or an outage never relax a verdict |
| `chain_writers` | 2 callers with 2 blocks each, on a loop or as threads, 1 edit of any block | the chain verifies on the loop; an edit is found in both uses and located on the loop; no entry is lost in either |
| `otp` | 1 challenge, 2 users, 1 or 2 processes, limits 0, 1, 3, expiry after 1 of 2 ticks; 177 thousand states | verified in time and within the limit, closed stays closed, the right code opens what is still open |
| `admin_api` | 2 requests and, under the constraint below, a third that lists the audit log; 2 processes (symmetric), 2 keys, 4 tokens, clock up to 2, a cache age, a temporary entry's days and an audit page of 1, clocks without skew; 949 thousand states | cached keys hold their time; who stored or read something had recent authority and who is refused had none; the audit log is true and its gaps explained; names unique; listings true |
| `dashboard` | 2 threads, 2 users of whom one is an admin, 2 grants; 1.8 million states | a call is executed once; sessions of two users never mix; a logout lasts; the refresh token is live unless a response was lost; no deadlock |
| `forensic_reports` | 3 kinds of access, 4 rows, 3 alerts, hours 23 and 24, a window of 3 rows, thresholds 2 and 3; 2.2 million states | a report's numbers fit; timelines and detectors agree; an anomaly stays named; edits of evidence are found where they are; no deadlock |
| `gateway_endpoint` | 1 process, 1 request | **violated**: `/forensics/verify-chain` reports every chain broken |
| `risk_conflict` | as `risk_review` | **violated**: a forbidden and very suspicious request makes OPA report a conflict, and is recorded as an outage of the policy engine |
| `chain_threads` | as `chain_writers` | **violated**: two threads in `add_block` leave a chain that does not verify |
| `otp_postgres` | as `otp`, aware timestamps | **violated**: no code is ever accepted on PostgreSQL |

### Bounds, and why they are enough

* *Requests.* The properties of the handler relate at most two log rows or one
  row and one counter. Two requests give every order of two handlers at the
  await; three on two processes give two rows of one chain with a row of
  another between them. Two on one process reach a score that the first one's
  denial raised over a threshold (`Borderline`: 0.45 without, 0.55 with a
  denial).
* *Restarts* (`MaxBoots`). One restart separates a row from its chain; the
  second lets a run of the process begin after a run that itself began with
  rows in the table. Restarts are also reached while a handler is at each of
  its steps.
* *Bodies.* One that is allowed or challenged, one denied by rule, one denied
  by score: each branch of the handler and each kind of alert. What depends on
  the other classes of body is covered by `risk_review`, over all of them.
* *Hours* 5 and 6 are the two sides of the night factor's end; the handler
  runs at 12, where the factor is 0. *Metadata scores* 0.15, 0.60, 1.00 and 15
  put the claimed score inside each band, on the end of the 0-1 scale and above
  it; together with the factors all scores that are a multiple of 0.05 and
  reachable occur, 0.50 and 0.85 among them. *Denials* up to 4 pass both steps
  of the factor (1 and 3) and one beyond.
* *Blocks.* Two writers with two blocks: overlaps of two calls, and a block
  after an overlap.
* *Admin requests.* Two, but for the audit log: the properties relate a creation
  to its event, two creations of one name, or a listing to a creation before
  it. Two processes
  put the second between the lookup, the row and the event of the first, and
  give each a cache of its own. The run makes the payloads of `SomePayloads`: a
  user (the one table with a constraint), a complete temporary location, an
  incomplete temporary device, listings of the locations and of the audit log.
  The endpoints left out differ in the table only; the proofs are about all.
* *Keys and tokens.* Two keys are a rotation. The tokens are an admin by realm
  role in upper case whose token expires, an admin by client role signed with
  the second key, a user, and a token without a subject of the wrong issuer.
  With a cache age of 1 and a clock up to 2 a cached set expires, is renewed, and is
  served beyond its age in an outage.
* *Audit page* of 1, and a third request, `Auditor`, which lists the log after
  two creations have begun. Two events overflow the page: each is shown
  in turn, also the one committed first, since with two processes the event
  that is stamped later may be committed earlier. To keep three requests
  within TLC's reach `Bounds`, a CONSTRAINT of the run, follows the Auditor's
  only where the three users are admins who found fresh key sets, the key was
  not rotated, no process died, the clock is at most 1, and its payload is the
  audit log; the first two meet everything as long as it has not started. Both
  processes have the same clock in the run (`MaxSkew = 0`); the theorem
  `ListingsAlwaysTrue` is for any skew, any page and any number of requests.
* *Dashboard.* Two threads overlap two requests; the second grant is another
  user's login or a refresh, and refreshing it needs no third, since a refresh
  without a grant to give is a failed one. Three threads or three grants add
  nothing to the properties' two requests or two users; the proof covers them.
* *Reports.* Hours 23 and 24 are the two sides of midnight. Four rows exceed
  the anomaly window of 3 and the recent list of 2. The accesses have the scores
  at which the two notions of high risk differ, both kinds of address (one,
  none), and all three decisions.
* *OTP.* Challenges are independent rows; one is enough. Limit 0 is what
  `OTP_MAX_ATTEMPTS=0` gives, 1 the boundary, 3 the default.

`CHECK_DEADLOCK FALSE` stands in the configurations where the system stops
because its bounded inputs run out: all requests have ended and the restarts
are used up, all blocks are added, the clock is at its bound. `risk_review`,
`dashboard` and `forensic_reports` check for deadlock.

### Fairness

`AccessGateway` assumes weak fairness of `OpaReturns` and of a handler's steps
and of nothing else. The query has a timeout of five seconds and every
exception of it is caught (`main.py:236-261`), so an await ends; when it has,
asyncio resumes the coroutine once the loop is free, and a coroutine on the
loop runs to its next await without being suspended. Weak fairness of
`OpaReturns` is enough because arrivals do not hold the loop: the loop is held
only by handlers that finish. Arrivals and crashes are not fair; a crash ends
the requests it hits (`lost`). The other specifications state no fairness and
no liveness.

## Proofs

`tlapm` checks every step; the proofs hold for all values of the constants,
under the assumptions of the modules: `GatewayAssumption` and
`ReviewAssumption` (forms are records of the classes, hours are hours, `None`
is not an element of the other sets), `OtpAssumption` and `NoneAssumption`
(limits and times are naturals, `None` is neither a number nor a row),
`WritersAssumption` (the quota is a natural), `ClockAssumption`,
`JwksAssumption`, `AdminAssumption` and `TokensAssumption` (bounds are naturals,
the age of a cache and an audit page are not 0, tokens have the claims
`JwksCache` reads and their users are users), `DashboardAssumption`, and
`ReportsAssumption` and `AccessesAssumption` (bounds are naturals, the window and
the thresholds not 0; an access has one of the three decisions, an integer
score and a user other than the forger). TLC evaluates all of them. `RightCodeAlwaysVerifies` alone assumes in addition
`~AwareTimestamps`, without which it is false, as `otp_postgres` shows;
`AwareNeverVerifies` assumes the opposite.

**HashChain_proofs**

* `LeastNatural`: a nonempty set of naturals has a least element, from the
  well-foundedness of `<`. It takes the place of induction: "the first block
  that fails" and "the first position at which two chains differ" exist.
* `VerifyChainExact`: `verify_chain` reports a chain valid exactly when every
  block after the genesis block passes both tests. The CHOOSE of
  `verified_blocks` has a value because of `LeastNatural`.
* `LatestHashCommits`: two chains of one length that verify and end in the same
  hash have the same blocks after the genesis block. This is what publishing
  `latest_hash` promises.
* Lemmas for the other module: the types of `NextBlock` and `add_block`, and
  `AddBlockIntact`, that a chain that verifies still does after `add_block`.

**AccessGateway_proofs**

* `TypeCorrect`: `Spec => []TypeOK`. `TypeOK` is not inductive: `RaiseAlert`
  needs that the request has a form and a verdict to read a user and a reason
  from, and that holds because of where its handler is. `TypeInv` adds that
  (`RequestOK`: past the await a request has a host, a form and a verdict whose
  first step is a step of the handler), and that the loop of a process holds a
  request of that process (`LoopOK`).
* `ChainsAlwaysVerify`: `Spec => []ChainsVerify`, by the inductive invariant
  `ChainInv` (`TypeInv` and every chain `Intact`), with `AddBlockIntact` for the
  one action that adds a block, a new chain for `Crash`, and
  `OtherStepsKeepChains` for the rest.
* `AnswersAlwaysLogged`: `Spec => []AnsweredIsLogged`. That nobody gets a second
  row needs that rows belong to requests that have ended (`RowOK`); together
  with "one row per request" and the row of each answered request this is
  `RowsInv`. A commit that raises is the interesting case: it may leave a row,
  and ends its request.
* `LogsAlwaysAnchored` and `LogsAlwaysFollowChain`, by `AnchorInv`: a handler
  about to log has the hash of its chain's last block and that block is its own
  entry (`PendingOK`, true because the loop is held between the two steps); the
  hashes of a chain start with the marker of its process's current run
  (`Rooted`), and a later one extends an earlier one (`Nested`); no row comes
  from a run that has not begun (`RowOrigin`), so that a restart anchors no old
  row by accident.
* `ImplementsLedger`: `Spec => KeepsLedger`, the step simulation: `ChainEntry`
  shows as one more piece of evidence, `CommitLog` as a row with its answer, a
  row whose answer got lost, or a failure, `Crash` as the loss of a process's
  evidence and of its requests, everything before the chain as a stutter.
  `RowsInv` gives "at most one row", `PendingOK` that the row is the evidence's decision, unaltered.
* `LogsAlwaysHaveEvidence`, by `EvidenceInv`: the place of a handler tells its
  decision, and one past its alert or challenge has it in the table
  (`PlaceOK`, `Substantiated`); tables only grow (`Kept`), so what a row was
  logged with stays.
* `OrphansAlwaysExplained`, by `BlocksInv`: behind each block after the genesis
  block there is a handler of the chain's process and of its present run that
  is past the block.
* `FailuresAlwaysCountDenials`: a counter is the cardinality of a set of
  requests. Cardinalities move one at a time, so `CountInv` adds that the set
  is finite and `FailuresCountDenials` is inductive with it: `RaiseAlert` adds
  one element to one set (`RaiseAlertCounts`), `Crash` empties those of its
  process (`CrashCounts`), no other step touches one (`UncountedStep`).
* `AnsweredDenialsAlwaysWeigh`: the denied rows of a user in one run inject into
  the denials counted (`DeniedRowsCounted`), and more failures never lower a
  risk (`RiskGrows`). `EvidenceAlwaysGrows` needs nothing but the actions.
* `EndpointAlwaysContradicts`: what `gateway_endpoint` found holds of every chain
  in every state; `ChainsAlwaysVerify` says that each verifies.

**OtpChallenge_proofs**

* `TypeCorrect`, `AlwaysVerifiedInTime`, `AlwaysAttemptLeft`,
  `AlwaysWithinLimit`, `ClosedForGood` and `RightCodeAlwaysVerifies`, one for
  each property of the run `otp`. The last is about the row as it is when the
  call ends, while the answer was decided by the row the call read: it needs that
  a challenge that is open now was open then, of the same user and with an
  attempt left, however many attempts were counted in between. A call writes what it computed from the row it
  read over the row as it is by then; the inductive invariant `IInv` therefore
  says of both that they satisfy `RowOK`, and that they agree on the expiry and
  the limit and the user, which no call writes, and that a row once closed is not
  open now (`SameChallenge`). For a gateway of one
  process it adds that a call's row is the current one (`Current`) and that
  every compared code is counted (`Exact`).
* `AwareNeverVerifies` states what `otp_postgres` found in general: with aware
  datetimes no challenge leaves its first state and no code is looked at.

**RiskReview_proofs**

* `BandsAlwaysFollowed`, `ConflictAlwaysADenial`, `SuspiciousAlwaysHighRisk` and
  `VerdictNeverRelaxed`, for any scores claimed, in whole hundredths, and any
  number of denials. The
  values of the two complete rules are computed once (`DecisionValues`,
  `ReasonValues`), from them the decision taken in each band
  (`DecisionTaken`); that denials never relax it then is monotonicity of the
  risk in the denials (`RiskRises`) and of the bands in the risk
  (`BandsRise`).

**ChainWriters_proofs**

* `LoopAlwaysVerifies`, `EditsAlwaysLocated` and `EntriesNeverLost`, by one
  invariant `IInv`. `Unedited`: before an edit every block, also one that is
  built and not appended, has the hash of its content and data no forger has.
  Hence an edit leaves a block with the wrong hash (`EditShows`, by
  `EditedHash`), and no later step changes that block. `LoopOK`: on the loop one
  call runs at a time and has built the next block of the chain as it is, so
  that the chain stays `Intact`, or intact before the edited block.
  `EntriesOK`: the chain has one block more than calls have returned, and each
  one's entry. `VerifyChainExact` turns these statements about blocks into what
  `verify_chain` returns.

**AdminApi_proofs**

* `CachedKeysHoldTheirTime`, by `CacheInv`: a call that was answered after the
  time it read has a key set that holds that time, because keys are published
  and retired from now on only (`TimePasses`); so the cache does, whichever
  call finishes last.
* `AuthorityAlwaysRecent`, by `AuthInv`: a request past validation has a token
  that was good by the key set its call returned, and one refused with a fresh
  key set a reason (`GoodToken`, `BadToken`); whoever gets beyond the guard is
  an admin by that token (`AdminOnly`, `AdminByToken`).
* `UserNamesAlwaysUnique`, `AuditAlwaysTrue` and `UnauditedAlwaysExplained`, by
  `StoreInv`. The properties speak of rows and events; the invariant ties both
  to requests: a row is of exactly one request, which agrees with it
  (`RowsOK`), and an event is of exactly one request past its second commit
  (`EventsOK`).
* `ListingsAlwaysTrue`: what was true of a listing when it was given
  (`ListingGiven`) stays true since rows, events and answered creations stay and
  time only passes (`Forward`). An event that a page does not show has a stamp
  no later than each of the page's events, and the page is full (`OnPage`,
  `IsShown`); no assumption relates stamps and ids, so neither skew nor the order
  of the commits matters (`Untimed`).
* `AdminStep` is `Next` as the admin endpoints see it: one request makes
  progress, or its process dies, or only keys and the clock change. The
  endpoints are treated once (`HandleIs`), not each for each invariant.

**DashboardSession_proofs**

* `CallsOnlyOnce`, `SessionAlwaysTogether`, `LogoutAlwaysSticks` and
  `RefreshTokenAlwaysLive`, by `IInv`. `SessionsOK`: every copy of the session,
  the cookie's and each thread's, has tokens that were issued, and to its user;
  a request has executed nothing before its response. `AfterLogout`: as long as
  the user is signed out, every copy that could still be written back belongs
  to a request that will tell (a sign-in, or one that was in flight during the
  logout). `OneByOne`: without overlaps, the cookie holds a spent refresh token only
  while the one request that spent it (`replaced`) is about to deliver the new
  one, or after it was lost with its response (`dropped`).

**ForensicReports_proofs**

The operators of the reports are loops over a log, written as recursive
functions, and counts. Both are reasoned about without induction over data:

* `LeastNatural` gives `UpTo`, that a set of naturals with 0 and with the
  successor of each member has all up to a bound, and `UpTo` gives `Loop`: a
  function given by a first value and a step from one value to the next exists,
  has its equations and its type. The buckets and the sums of the model are
  instances of it; the links of an evidence chain are shown to exist in the
  same way (`EvidenceIs`).
* A count is the cardinality of a set of positions (`HowMany`), so that counts
  of a longer log are not smaller, counts of parts add up, and a loop that adds
  1 for some rows has their number (`CountedUp`).
* A log is sorted by rank: how many positions are not later than this one.
  `Places` shows that such ranks enumerate the set, which makes the rows by
  time a permutation of the rows (`ByTimeCounts`) and the periods of a timeline
  distinct and ascending.

On these rest:

* `SummariesAddUp`, by `ReportInv`. The numbers of a report are of different
  moments. The invariant `Fits` says of a report half answered what
  `SummaryAddsUp` says of a complete one, with the present result of a query
  standing for one that has not run (`Value`): rows come in between, and can
  only add to the later queries. It needs that each logged denial, and the
  pending one, has its alert, and that a process alone is not in the middle
  of an access during a report.
* `EditsAreFound`: a chain of evidence is described by the digests before each
  record (`ChainOf`), an edit by the one record it replaces or takes out; each
  edit has a first record that fails, which is what `verify_chain` returns
  (`EngineFinds`).
* `LastDigestCommits`: the digests of records the engine accepts are their
  contents (`DigestIs`), so that two lists that end in the same digest are equal.
* `DetectorsDoAgree` and `AnomaliesDoPersist`: a window counts no more than the
  log, and the same as long as it holds the log (`WindowCounts`); what both
  detectors count never falls (`CountsGrow`).
* `TimelinesDoAgree`: the rows of a period are counted by its bucket
  (`PeriodCounts`, `BucketCounts`), and the buckets part the rows
  (`PeriodsTotal`).

Only model-checked: `RequestsEnd`, a liveness property under fairness, which the
prover does not do. The four violated properties are counterexamples of TLC.

## Where code, documents and comments disagree

With a run that shows it (`findings` in `PROJECT.json`):

* `/forensics/verify-chain` reads `is_valid`, the manager returns `valid`
  (`main.py:583`, `blockchain.py:102`): always "broken". `TROUBLESHOOTING.md:15`
  explains `valid: false` by a restart; it does not depend on one.
* `otp_verify` compares an aware with a naive datetime on PostgreSQL
  (`main.py:404`).
* `reason` in `main.rego` has two values for a forbidden and very suspicious
  request.
* `add_block` is not thread-safe (`tests/test_edge_cases.py:93`).

Met while modelling, without a run of their own:

* `SECURITY.md:264`, `TROUBLESHOOTING.md:10` and
  `tests/test_error_handling.py:86-99` describe an allow when OPA is
  unavailable; the gateway denies (`main.py:236-261`). `RiskPolicy` has the
  denial.
* The tests mock OPA's answer as `{"allow": True}` (also
  `ARCHITECTURE.md:63`); an answer without `decision` is read as a denial
  (`main.py:485`).
* `SECURITY.md:174`: three denials block a user. They add 0.30 to the score; a
  request with no other factor stays allowed.
* `SECURITY.md:124`: standard users never delete. The policy compares the
  spelling `delete`; "DELETE" is not forbidden by it, only scored.
* `SECURITY.md:11`: every decision is logged. A denial whose alert fails to
  commit is neither chained nor logged (`OrphanBlocksExplained` and
  `AnsweredIsLogged` say what does hold).
* `DOCKER_COMPOSE_GUIDE.md:218`: the gateway scales as stateless. Denial
  counters and chains are per process; a second replica scores the same user
  lower.
* `verify_chain` says "entire chain"; the genesis block's content is never
  recomputed, so an edit of it is not noticed (`LoopChainVerifies` includes
  this case).
* `ARCHITECTURE.md:208`, `SECURITY.md:272`: edits of `access_logs` rows are not
  what `verify-chain` looks at; it checks the memory of one process.
* `main.py:181` takes risks above 1 for a 0-100 scale, on which 75 would be
  high; the policy has no such scale and denies them all.

* `database.py:131-177`: whitelists and policies are stored and listed; nothing in
  `/access` reads them.
* A token may carry `admin` as a role of any client
  (`auth_middleware.py`, `_extract_roles`); the dashboard shows its admin pages
  by realm roles only. Who is an admin to the one need not be to the other.
* A new key of Keycloak is refused for up to the age of a cache:
  `_decode_token` does not fetch again for an unknown `kid`
  (`AuthorityIsRecent` has the bound). While Keycloak cannot be reached there is
  no bound: an expired key set is served for as long as that lasts
  (`keycloak_config.py:79`), and a key retired long ago with it. The property
  exempts those lookups.
* A creation whose commit raised after the server stored the row answers 500,
  and its repetition 409. A row may have no audit entry
  (`UnauditedExplained` says when).
* On PostgreSQL both whitelist listings raise once a temporary entry exists, by
  the comparison `otp_verify` makes too (`main.py:1015, 1089`); `admin_api` runs
  with `AwareTimestamps = FALSE`.
* The response to a request that was in flight during a logout brings the
  tokens back to the browser (`signed = "revived"` in `DashboardSession`).
  `LogoutSticks` exempts this case: nothing in the code prevents it.
* A dashboard response that is lost after a refresh with rotation costs the user
  a login (`Lose`).
* `save_session_token` keeps refresh token, name and roles of the earlier user;
  a refresh later replaces the pasted token by one of that user.
  `SessionBelongsTogether` exempts the pasted token.
* The package states "Hash Chain Status: Valid" whatever it finds
  (`evidence_packager.py:118`), the PDF what its caller says, `True` by default;
  the sections of both that do check compare links only
  (`EditsFound` says what they miss).
* Legacy and present code differ in what is high risk (70 and more of 100
  against 75) and what is night (`risk_scorer.py` after 22, `anomaly_detector.py`
  from 22 on); a challenge is a denial to the legacy timeline and not to the
  legacy package.

## Not modelled

* Scores that are not whole hundredths: a caller may claim 0.855, the model has
  85 and 86.
* An answer of OPA with status 200 and no `result`: the code reads it as a denial
  with the default reason (`main.py:253, 485-486`).
* A key set of Keycloak that is not one: an answer that is not JSON raises and is
  the failed fetch of the model; JSON without keys would be cached for its age
  and every token refused meanwhile. Keycloak's 200 is taken to carry its keys.
* A `risk_score` in the metadata that `float()` cannot parse: the request ends
  in an error before it touched anything. NaN and infinities.
* `get_risk_label`, the geolocation factor (no caller passes a country),
  `require_otp` of the policy (nobody reads it).
* `GET /admin/status`, `GET /security/alerts`, `GET /config/current`, the JSON
  export: they read one query after another, or a configuration, and change
  nothing. `auth_routes.py` forwards requests to Keycloak and keeps nothing;
  `require_auth` is not used.
* `storage.py`: the application constructs the manager and never stores anything
  with it.
* `risk_scorer.py`, `opa_client.py`, `auth.py`, `config.py`: stateless
  predecessors of modelled code, imported by tests or each other only.
* Confidence and severity of an anomaly, averages, the layout of packages, PDFs
  and pages.
* Validation of the environment, start-up scripts, simulators, templates: no
  state that evolves.

## Plan

Done, in this order: `HashChain`, `RiskPolicy`, `AccessGateway` against
`AuditLedger`; `RiskReview`, `ChainWriters`; `OtpChallenge`; the admin endpoints
behind token validation; the dashboard; reports and legacy analysis; the proofs
of all safety properties.

Left:

1. Liveness of the dashboard (every request is answered) and of a fetch of keys,
   once their timeouts are part of the model.
2. `Storage`, should the gateway begin to store exports.
