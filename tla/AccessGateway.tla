---------------------------- MODULE AccessGateway ----------------------------
(***************************************************************************)
(* The /access handler of api_gateway/main.py: how one access request is   *)
(* judged and how the evidence of the judgement is left behind, by one or  *)
(* more gateway processes that share a database.                           *)
(*                                                                         *)
(* A gateway process keeps in memory its hash chain, its denial counters   *)
(* and its event loop.  The handler is a coroutine: it runs alone on the   *)
(* loop up to its one await, the query to OPA, and from the answer to its  *)
(* return.  Requests of one process interleave only while they wait for    *)
(* OPA; those of different processes interleave at every step.  A process  *)
(* may crash and restart between any two steps: its memory is lost and the *)
(* tables stay.  A database commit may raise, and the row may have reached *)
(* the table nevertheless (the commit's acknowledgement or the refresh     *)
(* after it was what failed); the exception ends the handler.              *)
(***************************************************************************)
EXTENDS HashChain, RiskPolicy

CONSTANTS
    Gateways,    \* the gateway processes
    Requests,    \* the requests that may arrive
    Users,       \* the values of user_id
    Forms,       \* the bodies a request may have
    HoursSeen,   \* the hours of the day at which requests arrive
    MaxBoots,    \* bound on the restarts of one process
    None         \* a field not yet set

ASSUME GatewayAssumption ==
    /\ Forms \subseteq [user : Users, ip : IpClasses, agent : AgentClasses,
                        resource : ResourceClasses, action : ActionClasses,
                        metadata_risk : Int]
    /\ HoursSeen \subseteq Hours
    /\ MaxBoots \in Nat
    /\ None \notin Gateways \cup Requests \cup Forms

VARIABLES
    \* memory of each process
    boots,       \* how often it was restarted
    chain,       \* blockchain_manager._chain
    failures,    \* risk_scoring._failure_counts
    loop,        \* the request whose handler holds the event loop, or None
    \* each request's handler: where it is, and its local variables
    pc, host, boot, form, risk, verdict, otp, hash,
    \* the tables, in insertion order
    challenges,  \* otp_challenges
    alerts,      \* security_alerts
    logs         \* access_logs

memory == <<boots, chain, failures, loop>>
handler == <<pc, host, boot, form, risk, verdict, otp, hash>>
tables == <<challenges, alerts, logs>>
vars == <<memory, handler, tables>>

-----------------------------------------------------------------------------
Reasons == {"FORBIDDEN_ACTION_OR_RESOURCE",
            "VERY_SUSPICIOUS_REQUIRE_SECURITY_APPROVAL",
            "STEP_UP_OTP_REQUIRED", "ALLOWED_LOW_RISK", "DENY_BY_DEFAULT",
            "POLICY_ENGINE_UNAVAILABLE"}
Verdicts == [decision : Decisions, reason : Reasons]

\* The log entry a block carries.  The request stands for the fields copied
\* from its body and for the timestamp.
Entries == [request : Requests, decision : Decisions, risk : Int,
            reason : Reasons, otp : Nat]

\* The timestamp of a genesis block tells when which process was started.
GenesisMarkers == [gateway : Gateways, boot : Nat]
Marker(g, b) == [gateway |-> g, boot |-> b]

ChainData == Entries \cup GenesisMarkers

AccessLogs == [request : Requests, decision : Decisions, risk : Int,
               chain_hash : Digests(ChainData)]
Alerts == [request : Requests, alert_type : AlertKinds,
           severity : {"HIGH", "CRITICAL"}, reason : Reasons]
Challenges == [request : Requests, user : Users]

\* Handler states.  In the middle row the handler holds the event loop.
Waiting == {"new", "awaiting"}
Running == {"challenge", "alert", "block", "log"}
Ended   == {"answered", "error", "lost"}

TypeOK ==
    /\ boots \in [Gateways -> 0 .. MaxBoots]
    /\ chain \in [Gateways -> Seq(Blocks(ChainData))]
    /\ failures \in [Gateways -> [Users -> Nat]]
    /\ loop \in [Gateways -> Requests \cup {None}]
    /\ pc \in [Requests -> Waiting \cup Running \cup Ended]
    /\ host \in [Requests -> Gateways \cup {None}]
    /\ boot \in [Requests -> 0 .. MaxBoots]
    /\ form \in [Requests -> Forms \cup {None}]
    /\ risk \in [Requests -> Int]
    /\ verdict \in [Requests -> Verdicts \cup {None}]
    /\ otp \in [Requests -> Nat]
    /\ hash \in [Requests -> Digests(ChainData)]
    /\ challenges \in Seq(Challenges)
    /\ alerts \in Seq(Alerts)
    /\ logs \in Seq(AccessLogs)

Init ==
    /\ boots = [g \in Gateways |-> 0]
    /\ chain = [g \in Gateways |-> NewChain(Marker(g, 0))]
    /\ failures = [g \in Gateways |-> [u \in Users |-> 0]]
    /\ loop = [g \in Gateways |-> None]
    /\ pc = [r \in Requests |-> "new"]
    /\ host = [r \in Requests |-> None]
    /\ boot = [r \in Requests |-> 0]
    /\ form = [r \in Requests |-> None]
    /\ risk = [r \in Requests |-> 0]
    /\ verdict = [r \in Requests |-> None]
    /\ otp = [r \in Requests |-> 0]
    /\ hash = [r \in Requests |-> ZeroHash]
    /\ challenges = << >>
    /\ alerts = << >>
    /\ logs = << >>

-----------------------------------------------------------------------------
(* The handler                                                             *)

\* Faulty variant of Receive: the user's denials are not looked up.
Receive_NoHistory(g, r) ==
    /\ loop[g] = None
    /\ pc[r] = "new"
    /\ \E f \in Forms, hour \in HoursSeen :
         /\ form' = [form EXCEPT ![r] = f]
         /\ risk' = [risk EXCEPT ![r] = RequestRisk(f, hour, 0)]
    /\ host' = [host EXCEPT ![r] = g]
    /\ boot' = [boot EXCEPT ![r] = boots[g]]
    /\ pc' = [pc EXCEPT ![r] = "awaiting"]
    /\ UNCHANGED <<memory, verdict, otp, hash, tables>>

\* Up to the await: the risk is computed from the counters as they are now.
Receive(g, r) ==
    /\ loop[g] = None
    /\ pc[r] = "new"
    /\ \E f \in Forms, hour \in HoursSeen :
         /\ form' = [form EXCEPT ![r] = f]
         /\ risk' = [risk EXCEPT ![r] =
                       RequestRisk(f, hour, failures[g][f.user])]
    /\ host' = [host EXCEPT ![r] = g]
    /\ boot' = [boot EXCEPT ![r] = boots[g]]
    /\ pc' = [pc EXCEPT ![r] = "awaiting"]
    /\ UNCHANGED <<memory, verdict, otp, hash, tables>>

\* Faulty variant of FirstStep: an allowed request goes straight to its row.
FirstStep_AllowUnchained(decision) ==
    CASE decision = "challenge_otp" -> "challenge"
      [] decision = "deny" -> "alert"
      [] OTHER -> "log"

\* Faulty variant of FirstStep: the decision itself is taken for the step.
FirstStep_Verbatim(decision) == decision

\* What the handler does first once it knows the decision.
FirstStep(decision) ==
    CASE decision = "challenge_otp" -> "challenge"
      [] decision = "deny" -> "alert"
      [] OTHER -> "block"

\* The await returns: OPA answered, or the query failed or timed out.
OpaReturns(g, r) ==
    /\ loop[g] = None
    /\ pc[r] = "awaiting"
    /\ host[r] = g
    /\ \E reachable \in BOOLEAN :
         LET v == Verdict(form[r], risk[r], reachable)
         IN  /\ verdict' = [verdict EXCEPT ![r] = v]
             /\ pc' = [pc EXCEPT ![r] = FirstStep(v.decision)]
    /\ loop' = [loop EXCEPT ![g] = r]
    /\ UNCHANGED <<boots, chain, failures, host, boot, form, risk, otp, hash,
                   tables>>

\* The handler goes on to its next step ...
Continue(r, next) ==
    /\ pc' = [pc EXCEPT ![r] = next]
    /\ UNCHANGED loop

\* Faulty variant of Finish: the handler never gives the loop back.
Finish_KeepsLoop(g, r, end) ==
    /\ pc' = [pc EXCEPT ![r] = end]
    /\ UNCHANGED loop

\* ... or leaves the loop for good.
Finish(g, r, end) ==
    /\ pc' = [pc EXCEPT ![r] = end]
    /\ loop' = [loop EXCEPT ![g] = None]

\* What an insert that raises may have left of the table.
Uncertain(table, row) == {table, Append(table, row)}

IssueChallenge(g, r) ==
    LET row == [request |-> r, user |-> form[r].user]
    IN  /\ loop[g] = r
        /\ pc[r] = "challenge"
        /\ \/ /\ challenges' = Append(challenges, row)
              /\ otp' = [otp EXCEPT ![r] = Len(challenges) + 1]
              /\ Continue(r, "block")
           \/ /\ challenges' \in Uncertain(challenges, row)
              /\ Finish(g, r, "error")
              /\ UNCHANGED otp
        /\ UNCHANGED <<boots, chain, failures, host, boot, form, risk,
                       verdict, hash, alerts, logs>>

\* Faulty variant of RaiseAlert: an alert that fails to commit is ignored.
RaiseAlert_BestEffort(g, r) ==
    LET reason == verdict[r].reason
        row == [request |-> r, alert_type |-> alert_type(reason),
                severity |-> severity(reason), reason |-> reason]
    IN  /\ loop[g] = r
        /\ pc[r] = "alert"
        /\ failures' = [failures EXCEPT ![g][form[r].user] = @ + 1]
        /\ alerts' \in Uncertain(alerts, row)
        /\ Continue(r, "block")
        /\ UNCHANGED <<boots, chain, host, boot, form, risk, verdict, otp,
                       hash, challenges, logs>>

\* Faulty variant of RaiseAlert: the denial is counted once the alert is
\* committed.
RaiseAlert_CountsLast(g, r) ==
    LET reason == verdict[r].reason
        row == [request |-> r, alert_type |-> alert_type(reason),
                severity |-> severity(reason), reason |-> reason]
    IN  /\ loop[g] = r
        /\ pc[r] = "alert"
        /\ \/ /\ alerts' = Append(alerts, row)
              /\ failures' = [failures EXCEPT ![g][form[r].user] = @ + 1]
              /\ Continue(r, "block")
           \/ /\ alerts' \in Uncertain(alerts, row)
              /\ UNCHANGED failures
              /\ Finish(g, r, "error")
        /\ UNCHANGED <<boots, chain, host, boot, form, risk, verdict, otp,
                       hash, challenges, logs>>

\* record_failure, then the alert's own commit.
RaiseAlert(g, r) ==
    LET reason == verdict[r].reason
        row == [request |-> r, alert_type |-> alert_type(reason),
                severity |-> severity(reason), reason |-> reason]
    IN  /\ loop[g] = r
        /\ pc[r] = "alert"
        /\ failures' = [failures EXCEPT ![g][form[r].user] = @ + 1]
        /\ \/ /\ alerts' = Append(alerts, row)
              /\ Continue(r, "block")
           \/ /\ alerts' \in Uncertain(alerts, row)
              /\ Finish(g, r, "error")
        /\ UNCHANGED <<boots, chain, host, boot, form, risk, verdict, otp,
                       hash, challenges, logs>>

Entry(r) ==
    [request |-> r, decision |-> verdict[r].decision, risk |-> risk[r],
     reason |-> verdict[r].reason, otp |-> otp[r]]

\* Faulty variant of ChainEntry: the hash is read before the block is added.
ChainEntry_StaleHash(g, r) ==
    /\ loop[g] = r
    /\ pc[r] = "block"
    /\ chain' = [chain EXCEPT ![g] = add_block(@, Entry(r))]
    /\ hash' = [hash EXCEPT ![r] = get_chain_stats(chain[g]).latest_hash]
    /\ Continue(r, "log")
    /\ UNCHANGED <<boots, failures, host, boot, form, risk, verdict, otp,
                   tables>>

ChainEntry(g, r) ==
    /\ loop[g] = r
    /\ pc[r] = "block"
    /\ chain' = [chain EXCEPT ![g] = add_block(@, Entry(r))]
    /\ hash' = [hash EXCEPT ![r] = NextBlock(chain[g], Entry(r)).hash]
    /\ Continue(r, "log")
    /\ UNCHANGED <<boots, failures, host, boot, form, risk, verdict, otp,
                   tables>>

\* Faulty variant of CommitLog: a commit that raises is answered all the same.
CommitLog_Swallows(g, r) ==
    LET row == [request |-> r, decision |-> verdict[r].decision,
                risk |-> risk[r], chain_hash |-> hash[r]]
    IN  /\ loop[g] = r
        /\ pc[r] = "log"
        /\ logs' \in Uncertain(logs, row)
        /\ Finish(g, r, "answered")
        /\ UNCHANGED <<boots, chain, failures, host, boot, form, risk, verdict,
                       otp, hash, challenges, alerts>>

\* Faulty variant of CommitLog: a commit that raises is tried again.
CommitLog_Retries(g, r) ==
    LET row == [request |-> r, decision |-> verdict[r].decision,
                risk |-> risk[r], chain_hash |-> hash[r]]
    IN  /\ loop[g] = r
        /\ pc[r] = "log"
        /\ Len(logs) <= Cardinality(Requests)
        /\ \/ /\ logs' = Append(logs, row)
              /\ Finish(g, r, "answered")
           \/ /\ logs' \in Uncertain(logs, row)
              /\ UNCHANGED <<pc, loop>>
        /\ UNCHANGED <<boots, chain, failures, host, boot, form, risk, verdict,
                       otp, hash, challenges, alerts>>

CommitLog(g, r) ==
    LET row == [request |-> r, decision |-> verdict[r].decision,
                risk |-> risk[r], chain_hash |-> hash[r]]
    IN  /\ loop[g] = r
        /\ pc[r] = "log"
        /\ \/ /\ logs' = Append(logs, row)
              /\ Finish(g, r, "answered")
           \/ /\ logs' \in Uncertain(logs, row)
              /\ Finish(g, r, "error")
        /\ UNCHANGED <<boots, chain, failures, host, boot, form, risk, verdict,
                       otp, hash, challenges, alerts>>

\* The process dies and is started again: the requests it was handling get
\* no answer, its memory is what a new process starts with.
Crash(g) ==
    /\ boots[g] < MaxBoots
    /\ boots' = [boots EXCEPT ![g] = @ + 1]
    /\ chain' = [chain EXCEPT ![g] = NewChain(Marker(g, boots[g] + 1))]
    /\ failures' = [failures EXCEPT ![g] = [u \in Users |-> 0]]
    /\ loop' = [loop EXCEPT ![g] = None]
    /\ pc' = [r \in Requests |->
                IF host[r] = g /\ pc[r] \notin Ended THEN "lost" ELSE pc[r]]
    /\ UNCHANGED <<host, boot, form, risk, verdict, otp, hash, tables>>

\* The handler's steps after the await.
Step(g, r) ==
    \/ IssueChallenge(g, r)
    \/ RaiseAlert(g, r)
    \/ ChainEntry(g, r)
    \/ CommitLog(g, r)

Next ==
    \/ \E g \in Gateways, r \in Requests :
         \/ Receive(g, r)
         \/ OpaReturns(g, r)
         \/ Step(g, r)
    \/ \E g \in Gateways : Crash(g)

\* The query to OPA has a timeout of five seconds, so every await returns;
\* a handler on the loop is not suspended.  Arrivals and crashes are the
\* environment's and are not fair.
Fairness ==
    \A g \in Gateways, r \in Requests :
        WF_vars(OpaReturns(g, r)) /\ WF_vars(Step(g, r))

Spec == Init /\ [][Next]_vars /\ Fairness

-----------------------------------------------------------------------------
(* Safety                                                                  *)

\* Whatever requests interleave and whatever commits fail, verify_chain finds
\* the chain of every process intact.
ChainsVerify == \A g \in Gateways : verify_chain(chain[g]).valid

\* The process, and the run of it, whose chain a digest was computed in.
Origin(digest) == digest[1].data

Extends(longer, shorter) ==
    /\ Len(shorter) < Len(longer)
    /\ SubSeq(longer, 1, Len(shorter)) = shorter

\* A log row whose chain is still in memory is anchored in it: some block
\* has the row's chain_hash and carries the same decision on the same request.
LogsAnchored ==
    \A g \in Gateways, i \in DOMAIN logs :
      Origin(logs[i].chain_hash) = Marker(g, boots[g]) =>
        \E n \in 2 .. Len(chain[g]) :
          /\ chain[g][n].hash = logs[i].chain_hash
          /\ chain[g][n].data.request = logs[i].request
          /\ chain[g][n].data.decision = logs[i].decision
          /\ chain[g][n].data.risk = logs[i].risk

\* Of two log rows of one run of a process the digest of the later commits to
\* the earlier: the table is in chain order, although handlers interleave and
\* rows of other processes lie between.
LogsFollowChain ==
    \A i, j \in DOMAIN logs :
      i < j /\ Origin(logs[i].chain_hash) = Origin(logs[j].chain_hash) =>
        Extends(logs[j].chain_hash, logs[i].chain_hash)

\* The client got the response only after its decision became durable, once,
\* with the values of the response; crashes do not take it away.
AnsweredIsLogged ==
    \A r \in Requests :
      LET rows == {i \in DOMAIN logs : logs[i].request = r}
      IN  /\ Cardinality(rows) <= 1
          /\ pc[r] = "answered" =>
               \E i \in rows : /\ logs[i].decision = verdict[r].decision
                               /\ logs[i].risk = risk[r]
                               /\ logs[i].chain_hash = hash[r]

\* A logged denial has its alert, a logged step-up the challenge whose id the
\* response named, both committed earlier: no crash or failed commit leaves a
\* log row without them.
LogsHaveEvidence ==
    \A i \in DOMAIN logs :
      LET r == logs[i].request
      IN  /\ logs[i].decision = "deny" =>
               \E k \in DOMAIN alerts :
                 /\ alerts[k].request = r
                 /\ alerts[k].reason = verdict[r].reason
          /\ logs[i].decision = "challenge_otp" =>
               /\ otp[r] \in DOMAIN challenges
               /\ challenges[otp[r]].request = r
               /\ challenges[otp[r]].user = form[r].user

\* A block without a log row is explained: its handler is about to insert the
\* row, or the insert raised and the client got an error.
OrphanBlocksExplained ==
    \A g \in Gateways : \A n \in 2 .. Len(chain[g]) :
      LET r == chain[g][n].data.request
      IN  \/ \E i \in DOMAIN logs : logs[i].chain_hash = chain[g][n].hash
          \/ pc[r] \in {"log", "error"}

\* The denials process g counts against user u: those it decided since its
\* last start, also those whose alert or log row failed to commit.
Denials(g, u) ==
    {r \in Requests : /\ host[r] = g
                      /\ boot[r] = boots[g]
                      /\ form[r].user = u
                      /\ pc[r] \in {"block", "log", "answered", "error"}
                      /\ verdict[r].decision = "deny"}

FailuresCountDenials ==
    \A g \in Gateways, u \in Users :
      failures[g][u] = Cardinality(Denials(g, u))

-----------------------------------------------------------------------------
(* Action properties                                                       *)

\* Evidence is only ever added: a process's chain until it restarts, the
\* tables for good.
Grows(before, after) == before = after \/ Extends(after, before)

EvidenceOnlyGrows ==
    [][/\ \A g \in Gateways :
            boots'[g] = boots[g] => Grows(chain[g], chain'[g])
       /\ Grows(challenges, challenges')
       /\ Grows(alerts, alerts')
       /\ Grows(logs, logs')]_vars

\* The score of a request counts every denial its process had answered the
\* same user since its start: what a score can miss by being computed before
\* the await are only denials decided while the request itself was waiting.
DeniedRows(g, u) ==
    {i \in DOMAIN logs : /\ Origin(logs[i].chain_hash) = Marker(g, boots[g])
                         /\ form[logs[i].request].user = u
                         /\ logs[i].decision = "deny"}

AnsweredDenialsWeighIn ==
    [][\A g \in Gateways, r \in Requests :
         pc[r] = "new" /\ pc'[r] = "awaiting" /\ host'[r] = g =>
           \E hour \in HoursSeen :
             risk'[r] >= RequestRisk(form'[r], hour,
                           Cardinality(DeniedRows(g, form'[r].user)))]_vars

-----------------------------------------------------------------------------
(* Liveness                                                                *)

\* No request waits for ever, whatever the other handlers of its process do.
RequestsEnd == \A r \in Requests : pc[r] = "awaiting" ~> pc[r] \in Ended

-----------------------------------------------------------------------------
(* Refinement                                                              *)

Shown(entry) == [request |-> entry.request, decision |-> entry.decision]

\* The blocks after the genesis block are the evidence of a process ...
Evidence(c) == [n \in 1 .. Len(c) - 1 |-> Shown(c[n + 1].data)]

\* ... the log rows the ledger ...
LedgerRows == [i \in 1 .. Len(logs) |-> Shown(logs[i])]

\* ... and a request is decided between its block and its log row.
Status(r) ==
    CASE pc[r] = "log" -> "decided"
      [] pc[r] = "answered" -> "answered"
      [] pc[r] \in {"error", "lost"} -> "failed"
      [] OTHER -> "open"

Ledger == INSTANCE AuditLedger WITH
    evidence <- [g \in Gateways |-> Evidence(chain[g])],
    ledger   <- LedgerRows,
    status   <- [r \in Requests |-> Status(r)]

\* The gateway keeps the promise of AuditLedger.
KeepsLedger == Ledger!Spec

-----------------------------------------------------------------------------
(* The verify-chain endpoint, which changes no state                       *)

\* dict.get
Lookup(dict, key, default) ==
    IF key \in DOMAIN dict THEN dict[key] ELSE default

VerifyChainResponse(g) ==
    LET result   == verify_chain(chain[g])
        is_valid == Lookup(result, "is_valid", FALSE)
    IN  [is_valid        |-> is_valid,
         status          |-> IF is_valid THEN "ok" ELSE "broken",
         records_checked |-> Lookup(result, "checked_blocks", 0),
         total_records   |-> get_chain_stats(chain[g]).total_blocks]

-----------------------------------------------------------------------------
(* A statement of the documentation that does not hold                     *)

\* API_REFERENCE.md:316: valid is true when all blocks pass the integrity
\* checks.  The endpoint reads a key verify_chain does not return.
EndpointReportsValid ==
    \A g \in Gateways :
      verify_chain(chain[g]).valid => VerifyChainResponse(g).is_valid

=============================================================================
