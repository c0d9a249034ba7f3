------------------------- MODULE AccessGateway_proofs -------------------------
(***************************************************************************)
(* Theorems about AccessGateway, for any number of processes, requests,    *)
(* users, forms and restarts.                                              *)
(*                                                                         *)
(* First types, and that chains verify.  Then what the log tells about the *)
(* answers and the chains: an answer is logged once, rows are anchored in  *)
(* the chain and in its order and have the alert or the challenge their    *)
(* decision called for, the denial counters agree with the decisions and   *)
(* the scores with the log, nothing is taken back, and the gateway         *)
(* implements AuditLedger.                                                 *)
(***************************************************************************)
EXTENDS AccessGateway, HashChain_proofs, FiniteSetTheorems

-----------------------------------------------------------------------------
(* The judgement is a number and a verdict                                 *)

\* The score sent to the policy is a number.
LEMMA RiskType ==
    ASSUME NEW f \in Forms, NEW hour \in HoursSeen, NEW count \in Nat
    PROVE  RequestRisk(f, hour, count) \in Int
<1>1. f.metadata_risk \in Int /\ hour \in Int
  BY GatewayAssumption DEF Hours
<1>2. calculate_risk(f, hour, count) \in Int
  BY <1>1 DEF calculate_risk, ip_reputation, user_agent_risk, time_of_day_risk,
     resource_sensitivity, action_type_risk, repeated_failures, Plus
<1> QED
  BY <1>1, <1>2 DEF RequestRisk

\* A rule evaluates to one of its values or to its default.
LEMMA RuleValueType ==
    ASSUME NEW values, NEW default
    PROVE  RuleValue(values, default) \in values \cup {default}
  BY DEF RuleValue

\* Whatever the policy answers, the gateway's reading of it is a verdict.
LEMMA VerdictType ==
    ASSUME NEW f, NEW score, NEW reachable \in BOOLEAN
    PROVE  Verdict(f, score, reachable) \in Verdicts
<1> DEFINE input == PolicyInput(f, score)
           answer == query_opa(input, reachable)
<1>1. decision_values(input) \subseteq Decisions
  BY DEF decision_values, Decisions
<1>2. reason_values(input) \subseteq Reasons
  BY DEF reason_values, Reasons
<1>3. /\ ztf_authz(input).decision \in Decisions
      /\ ztf_authz(input).reason \in Reasons
  <2> HIDE DEF input
  <2>1. /\ RuleValue(decision_values(input), "deny") \in Decisions
        /\ RuleValue(reason_values(input), "DENY_BY_DEFAULT") \in Reasons
    BY <1>1, <1>2, RuleValueType DEF Decisions, Reasons
  <2> QED
    BY <2>1 DEF ztf_authz
<1>4. answer.decision \in Decisions /\ answer.reason \in Reasons
  <2> HIDE DEF input
  <2> QED
    BY <1>3 DEF query_opa, Unavailable, Decisions, Reasons
<1>5. Normalised(answer) = [decision |-> answer.decision,
                            reason |-> answer.reason]
  <2> HIDE DEF answer
  <2> QED
    BY <1>4 DEF Normalised, Absent, Decisions, Reasons
<1> HIDE DEF answer
<1>6. Normalised(answer) \in Verdicts
  BY <1>4, <1>5 DEF Verdicts
<1> QED
  BY <1>6 DEF Verdict, answer

\* The kind and the severity of an alert are among those the table may hold.
LEMMA AlertType ==
    ASSUME NEW reason
    PROVE  /\ alert_type(reason) \in AlertKinds
           /\ severity(reason) \in {"HIGH", "CRITICAL"}
  BY DEF alert_type, severity, AlertKinds

-----------------------------------------------------------------------------
(* Types, and what a handler's place tells about its variables             *)

\* A request that was received has a form and a host; one that was decided
\* has a verdict; the loop of a process is held by exactly the handler that
\* is between the await and its end, which belongs to the process's present
\* run.  TypeOK alone is not inductive: the types of the tables' rows come
\* from a handler's form and verdict, which may be None.
RequestOK(r) ==
    /\ pc[r] = "new" => host[r] = None
    /\ pc[r] # "new" => form[r] \in Forms /\ host[r] \in Gateways
    /\ pc[r] \in Running \cup {"answered", "error"} => verdict[r] \in Verdicts
    /\ pc[r] \in Running \cup {"awaiting"} => boot[r] = boots[host[r]]
    /\ pc[r] \in Running => loop[host[r]] = r

LoopOK(g) == loop[g] # None => pc[loop[g]] \in Running /\ host[loop[g]] = g

HandlerOK ==
    /\ \A r \in Requests : RequestOK(r)
    /\ \A g \in Gateways : LoopOK(g)

TypeInv == TypeOK /\ HandlerOK

\* The initial states satisfy TypeInv.
LEMMA TypeInit == Init => TypeInv
<1> SUFFICES ASSUME Init
             PROVE  TypeInv
  OBVIOUS
<1>1. \A g \in Gateways : Marker(g, 0) \in ChainData
  BY DEF Marker, ChainData, GenesisMarkers
<1>2. \A g \in Gateways : NewChain(Marker(g, 0)) \in Seq(Blocks(ChainData))
  BY <1>1, NewChainType
<1>3. chain \in [Gateways -> Seq(Blocks(ChainData))]
  BY <1>2 DEF Init
<1>4. ZeroHash \in Digests(ChainData)
  BY DEF ZeroHash, Digests
<1>5. TypeOK
  BY <1>3, <1>4, GatewayAssumption DEF Init, TypeOK, Waiting
<1>6. HandlerOK
  BY DEF Init, HandlerOK, RequestOK, LoopOK, Running
<1> QED
  BY <1>5, <1>6 DEF TypeInv


\* A request that arrives leaves TypeInv true.
LEMMA ReceiveType ==
    ASSUME TypeInv, NEW g \in Gateways, NEW r \in Requests, Receive(g, r)
    PROVE  TypeInv'
<1> USE DEF TypeInv
<1>1. PICK f \in Forms, hour \in HoursSeen :
        /\ form' = [form EXCEPT ![r] = f]
        /\ risk' = [risk EXCEPT ![r] = RequestRisk(f, hour, failures[g][f.user])]
  BY DEF Receive
<1>2. failures[g][f.user] \in Nat
  BY GatewayAssumption DEF TypeOK
<1>3. RequestRisk(f, hour, failures[g][f.user]) \in Int
  BY <1>2, RiskType
<1>4. TypeOK'
  BY <1>1, <1>3 DEF TypeOK, Receive, Waiting, memory, tables
<1>5. ASSUME NEW q \in Requests PROVE RequestOK(q)'
  <2>1. RequestOK(q)
    BY DEF HandlerOK
  <2>2. CASE q = r
    BY <1>1, <2>2, GatewayAssumption DEF TypeOK, RequestOK, Receive, Running, memory
  <2>3. CASE q # r
    <3>1. /\ pc'[q] = pc[q] /\ host'[q] = host[q] /\ form'[q] = form[q]
          /\ boot'[q] = boot[q] /\ UNCHANGED <<verdict, memory>>
      BY <1>1, <2>3 DEF TypeOK, Receive
    <3> QED
      BY <2>1, <3>1 DEF RequestOK, memory
  <2> QED
    BY <2>2, <2>3
<1>6. ASSUME NEW h \in Gateways PROVE LoopOK(h)'
  <2>1. LoopOK(h) /\ loop' = loop /\ pc[r] = "new"
    BY DEF HandlerOK, Receive, memory
  <2>2. loop[h] \in Requests \cup {None}
    BY DEF TypeOK
  <2>3. CASE loop[h] = None
    BY <2>1, <2>3 DEF LoopOK
  <2>4. CASE loop[h] # None
    <3>1. pc[loop[h]] \in Running /\ host[loop[h]] = h
      BY <2>1, <2>4 DEF LoopOK
    <3>2. loop[h] # r
      BY <2>1, <3>1 DEF Running
    <3>3. pc'[loop[h]] = pc[loop[h]] /\ host'[loop[h]] = host[loop[h]]
      BY <2>2, <2>4, <3>2 DEF TypeOK, Receive
    <3> QED
      BY <2>1, <3>1, <3>3 DEF LoopOK
  <2> QED
    BY <2>3, <2>4
<1> QED
  BY <1>4, <1>5, <1>6 DEF HandlerOK

\* The answer of OPA leaves TypeInv true.
LEMMA OpaReturnsType ==
    ASSUME TypeInv, NEW g \in Gateways, NEW r \in Requests, OpaReturns(g, r)
    PROVE  TypeInv'
<1> USE DEF TypeInv
<1>1. PICK v \in Verdicts : /\ verdict' = [verdict EXCEPT ![r] = v]
                            /\ pc' = [pc EXCEPT ![r] = FirstStep(v.decision)]
  BY VerdictType DEF OpaReturns
<1>2. FirstStep(v.decision) \in Running
  BY DEF FirstStep, Running
<1>3. TypeOK'
  BY <1>1, <1>2 DEF TypeOK, OpaReturns, tables
<1>4. ASSUME NEW q \in Requests
      PROVE  RequestOK(q)'
  <2>1. RequestOK(q) /\ RequestOK(r)
    BY DEF HandlerOK
  <2>2. CASE q = r
    <3>1. /\ pc[r] # "new" /\ host[r] = g
          /\ pc'[r] = FirstStep(v.decision) /\ verdict'[r] = v
          /\ loop'[g] = r
      BY <1>1 DEF TypeOK, OpaReturns
    <3>2. boot[r] = boots[g]
      BY <2>1, <3>1 DEF OpaReturns, RequestOK
    <3> QED
      BY <1>2, <2>1, <2>2, <3>1, <3>2 DEF RequestOK, OpaReturns, Running
  <2>3. CASE q # r
    <3>1. pc'[q] = pc[q] /\ verdict'[q] = verdict[q]
      BY <1>1, <2>3 DEF TypeOK
    <3>2. pc[q] \in Running => host[q] # g
      BY <2>1, GatewayAssumption DEF RequestOK, OpaReturns
    <3> QED
      BY <2>1, <3>1, <3>2 DEF TypeOK, RequestOK, OpaReturns, Running
  <2> QED
    BY <2>2, <2>3
<1>5. ASSUME NEW h \in Gateways
      PROVE  LoopOK(h)'
  <2>1. /\ loop[g] = None /\ host[r] = g /\ host' = host /\ pc[r] = "awaiting"
        /\ loop' = [loop EXCEPT ![g] = r]
    BY DEF OpaReturns
  <2>2. LoopOK(h) /\ loop \in [Gateways -> Requests \cup {None}]
        /\ pc \in [Requests -> Waiting \cup Running \cup Ended]
    BY DEF TypeOK, HandlerOK
  <2>3. pc'[r] \in Running /\ \A q \in Requests : q # r => pc'[q] = pc[q]
    BY <1>1, <1>2, <2>2
  <2>4. CASE h = g
    BY <2>1, <2>2, <2>3, <2>4 DEF LoopOK
  <2>5. CASE h # g
    <3>1. loop'[h] = loop[h]
      BY <2>1, <2>2, <2>5
    <3>2. loop[h] # None => loop[h] \in Requests /\ pc'[loop[h]] \in Running
      BY <2>2, <2>3 DEF LoopOK
    <3> QED
      BY <2>1, <2>2, <3>1, <3>2 DEF LoopOK
  <2> QED
    BY <2>4, <2>5
<1> QED
  BY <1>3, <1>4, <1>5 DEF HandlerOK

\* What holds of the handler that holds the loop of g.
LEMMA OnLoop ==
    ASSUME TypeInv, NEW g \in Gateways, NEW r \in Requests, loop[g] = r
    PROVE  /\ host[r] = g
           /\ boot[r] = boots[g]
           /\ form[r] \in Forms
           /\ form[r].user \in Users
           /\ pc[r] \in Running
           /\ verdict[r] \in Verdicts
           /\ verdict[r].decision \in Decisions
           /\ verdict[r].reason \in Reasons
<1>1. /\ host[r] = g
      /\ pc[r] \in Running
  BY GatewayAssumption DEF TypeInv, HandlerOK, LoopOK
<1>2. /\ form[r] \in Forms
      /\ verdict[r] \in Verdicts
      /\ boot[r] = boots[g]
  BY <1>1 DEF TypeInv, HandlerOK, RequestOK, Running
<1> QED
  BY <1>1, <1>2, GatewayAssumption DEF Verdicts

\* The handler goes on, or ends, without upsetting the others.
LEMMA MoveHandler ==
    ASSUME TypeInv, NEW g \in Gateways, NEW r \in Requests, loop[g] = r,
           UNCHANGED <<boots, host, boot, form, verdict>>,
           \/ \E next \in Running : Continue(r, next)
           \/ \E end \in {"answered", "error"} : Finish(g, r, end)
    PROVE  /\ HandlerOK'
           /\ pc' \in [Requests -> Waiting \cup Running \cup Ended]
           /\ loop' \in [Gateways -> Requests \cup {None}]
<1> USE DEF TypeInv
<1>1. /\ host[r] = g
      /\ form[r] \in Forms
      /\ pc[r] \in Running
      /\ verdict[r] \in Verdicts
  BY OnLoop
<1>2. PICK next \in Running \cup {"answered", "error"} :
        /\ pc' = [pc EXCEPT ![r] = next]
        /\ \/ next \in Running /\ loop' = loop
           \/ next \notin Running /\ loop' = [loop EXCEPT ![g] = None]
  BY DEF Continue, Finish, Running
<1>3. ASSUME NEW q \in Requests
      PROVE  RequestOK(q)'
  <2>1. RequestOK(q)
    BY DEF HandlerOK
  <2>2. CASE q = r
    BY <1>1, <1>2, <2>1, <2>2 DEF TypeOK, RequestOK, Running
  <2>3. CASE q # r
    <3>1. pc'[q] = pc[q]
      BY <1>2, <2>3 DEF TypeOK
    <3>2. pc[q] \in Running => host[q] # g
      BY <2>1, <2>3 DEF RequestOK
    <3> QED
      BY <1>2, <2>1, <3>1, <3>2 DEF TypeOK, RequestOK, Running
  <2> QED
    BY <2>2, <2>3
<1>4. ASSUME NEW h \in Gateways
      PROVE  LoopOK(h)'
  BY <1>1, <1>2, GatewayAssumption DEF TypeOK, HandlerOK, LoopOK
<1>5. pc' \in [Requests -> Waiting \cup Running \cup Ended]
  BY <1>2 DEF TypeOK, Ended
<1>6. loop' \in [Gateways -> Requests \cup {None}]
  BY <1>2 DEF TypeOK
<1> QED
  BY <1>3, <1>4, <1>5, <1>6 DEF HandlerOK

\* Inserting a row of the right type leaves a table of rows of that type.
LEMMA UncertainType ==
    ASSUME NEW Rows, NEW table \in Seq(Rows), NEW row \in Rows
    PROVE  /\ Append(table, row) \in Seq(Rows)
           /\ Uncertain(table, row) \subseteq Seq(Rows)
  BY DEF Uncertain

\* Creating a challenge leaves TypeInv true.
LEMMA IssueChallengeType ==
    ASSUME TypeInv, NEW g \in Gateways, NEW r \in Requests,
           IssueChallenge(g, r)
    PROVE  TypeInv'
<1> USE DEF TypeInv
<1>1. [request |-> r, user |-> form[r].user] \in Challenges
  BY OnLoop DEF IssueChallenge, Challenges
<1>2. challenges' \in Seq(Challenges)
  <2> DEFINE row == [request |-> r, user |-> form[r].user]
  <2>1. challenges' \in Uncertain(challenges, row)
    BY DEF IssueChallenge, Uncertain
  <2>2. row \in Challenges
    BY <1>1
  <2> HIDE DEF row
  <2> QED
    BY <2>1, <2>2, UncertainType DEF TypeOK
<1>3. otp' \in [Requests -> Nat]
  BY DEF TypeOK, IssueChallenge
<1>4. /\ HandlerOK'
      /\ pc' \in [Requests -> Waiting \cup Running \cup Ended]
      /\ loop' \in [Gateways -> Requests \cup {None}]
  BY MoveHandler DEF IssueChallenge, Running
<1>5. TypeOK'
  BY <1>2, <1>3, <1>4 DEF TypeOK, IssueChallenge
<1> QED
  BY <1>4, <1>5

\* Counting a denial and raising its alert leaves TypeInv true.
LEMMA RaiseAlertType ==
    ASSUME TypeInv, NEW g \in Gateways, NEW r \in Requests, RaiseAlert(g, r)
    PROVE  TypeInv'
<1> USE DEF TypeInv
<1>1. [request |-> r, alert_type |-> alert_type(verdict[r].reason),
       severity |-> severity(verdict[r].reason),
       reason |-> verdict[r].reason] \in Alerts
  BY OnLoop, AlertType DEF RaiseAlert, Alerts
<1>2. alerts' \in Seq(Alerts)
  <2> DEFINE row == [request |-> r,
                     alert_type |-> alert_type(verdict[r].reason),
                     severity |-> severity(verdict[r].reason),
                     reason |-> verdict[r].reason]
  <2>1. alerts' \in Uncertain(alerts, row)
    BY DEF RaiseAlert, Uncertain
  <2>2. row \in Alerts
    BY <1>1
  <2>3. alerts \in Seq(Alerts)
    BY DEF TypeOK
  <2> HIDE DEF row
  <2>4. Uncertain(alerts, row) \subseteq Seq(Alerts)
    BY <2>2, <2>3, UncertainType
  <2> QED
    BY <2>1, <2>4
<1>3. failures' \in [Gateways -> [Users -> Nat]]
  <2>1. form[r].user \in Users
    BY OnLoop DEF RaiseAlert
  <2>2. failures \in [Gateways -> [Users -> Nat]]
    BY DEF TypeOK
  <2>3. failures[g][form[r].user] + 1 \in Nat
    BY <2>1, <2>2
  <2>4. failures' = [failures EXCEPT ![g][form[r].user] = @ + 1]
    BY DEF RaiseAlert
  <2> QED
    BY <2>1, <2>2, <2>3, <2>4
<1>4. /\ HandlerOK'
      /\ pc' \in [Requests -> Waiting \cup Running \cup Ended]
      /\ loop' \in [Gateways -> Requests \cup {None}]
  BY MoveHandler DEF RaiseAlert, Running
<1>5. TypeOK'
  BY <1>2, <1>3, <1>4 DEF TypeOK, RaiseAlert
<1> QED
  BY <1>4, <1>5

\* The entry of a decided request is data a block may carry.
LEMMA EntryType ==
    ASSUME TypeInv, NEW g \in Gateways, NEW r \in Requests, loop[g] = r
    PROVE  /\ Entry(r) \in Entries
           /\ Entry(r) \in ChainData
  BY OnLoop DEF TypeInv, TypeOK, Entry, Entries, ChainData

\* Adding the block leaves TypeInv true, of chains that are not empty.
LEMMA ChainEntryType ==
    ASSUME TypeInv, NEW g \in Gateways, NEW r \in Requests, ChainEntry(g, r),
           Len(chain[g]) >= 1
    PROVE  TypeInv'
<1> USE DEF TypeInv
<1>1. /\ Entry(r) \in ChainData
      /\ chain[g] \in Seq(Blocks(ChainData))
  BY EntryType DEF ChainEntry, TypeOK
<1>2. /\ add_block(chain[g], Entry(r)) \in Seq(Blocks(ChainData))
      /\ NextBlock(chain[g], Entry(r)).hash \in Digests(ChainData)
  BY <1>1, AddBlockType, NextBlockType DEF Blocks
<1>3. /\ chain' \in [Gateways -> Seq(Blocks(ChainData))]
      /\ hash' \in [Requests -> Digests(ChainData)]
  BY <1>2 DEF TypeOK, ChainEntry
<1>4. /\ HandlerOK'
      /\ pc' \in [Requests -> Waiting \cup Running \cup Ended]
      /\ loop' \in [Gateways -> Requests \cup {None}]
  BY MoveHandler DEF ChainEntry, Running
<1>5. TypeOK'
  BY <1>3, <1>4 DEF TypeOK, ChainEntry, tables
<1> QED
  BY <1>4, <1>5

\* Inserting the log row leaves TypeInv true.
LEMMA CommitLogType ==
    ASSUME TypeInv, NEW g \in Gateways, NEW r \in Requests, CommitLog(g, r)
    PROVE  TypeInv'
<1> USE DEF TypeInv
<1>1. [request |-> r, decision |-> verdict[r].decision, risk |-> risk[r],
       chain_hash |-> hash[r]] \in AccessLogs
  BY OnLoop DEF TypeOK, CommitLog, AccessLogs
<1>2. logs' \in Seq(AccessLogs)
  <2> DEFINE row == [request |-> r, decision |-> verdict[r].decision, risk |-> risk[r],
                     chain_hash |-> hash[r]]
  <2>1. logs' \in Uncertain(logs, row)
    BY DEF CommitLog, Uncertain
  <2>2. row \in AccessLogs
    BY <1>1
  <2>3. logs \in Seq(AccessLogs)
    BY DEF TypeOK
  <2> HIDE DEF row
  <2>4. Uncertain(logs, row) \subseteq Seq(AccessLogs)
    BY <2>2, <2>3, UncertainType
  <2> QED
    BY <2>1, <2>4
<1>3. /\ HandlerOK'
      /\ pc' \in [Requests -> Waiting \cup Running \cup Ended]
      /\ loop' \in [Gateways -> Requests \cup {None}]
  BY MoveHandler DEF CommitLog
<1>4. TypeOK'
  BY <1>2, <1>3 DEF TypeOK, CommitLog
<1> QED
  BY <1>3, <1>4

\* The marker of a run of a process is data a genesis block may carry.
LEMMA MarkerType ==
    ASSUME NEW g \in Gateways, NEW b \in Nat
    PROVE  Marker(g, b) \in ChainData
  BY DEF Marker, ChainData, GenesisMarkers

\* A restart leaves TypeInv true.
LEMMA CrashType ==
    ASSUME TypeInv, NEW g \in Gateways, Crash(g)
    PROVE  TypeInv'
<1> USE DEF TypeInv
<1>1. boots[g] + 1 \in 0 .. MaxBoots
  BY GatewayAssumption DEF TypeOK, Crash
<1>2. NewChain(Marker(g, boots[g] + 1)) \in Seq(Blocks(ChainData))
  <2>1. Marker(g, boots[g] + 1) \in ChainData
    BY <1>1, MarkerType
  <2> QED
    BY <2>1, NewChainType
<1>3. chain' \in [Gateways -> Seq(Blocks(ChainData))]
  BY <1>2 DEF TypeOK, Crash
<1>4. TypeOK'
  BY <1>1, <1>3 DEF TypeOK, Crash, Ended, tables
<1>5. ASSUME NEW q \in Requests
      PROVE  RequestOK(q)'
  <2>1. RequestOK(q)
    BY DEF HandlerOK
  <2>2. CASE host[q] = g
    <3>1. pc'[q] \in Ended /\ pc[q] # "new"
      BY <2>1, <2>2, GatewayAssumption DEF TypeOK, RequestOK, Crash, Ended
    <3>2. pc'[q] # "lost" => pc'[q] = pc[q]
      BY DEF Crash
    <3> QED
      BY <2>1, <3>1, <3>2 DEF RequestOK, Crash, Running, Ended
  <2>3. CASE host[q] # g
    <3>1. pc'[q] = pc[q]
      BY <2>3 DEF Crash
    <3>2. host[q] \in Gateways =>
            boots'[host[q]] = boots[host[q]] /\ loop'[host[q]] = loop[host[q]]
      BY <2>3 DEF TypeOK, Crash
    <3> QED
      BY <2>1, <3>1, <3>2 DEF RequestOK, Crash, Running
  <2> QED
    BY <2>2, <2>3
<1>6. ASSUME NEW h \in Gateways
      PROVE  LoopOK(h)'
  <2>1. LoopOK(h)
    BY DEF HandlerOK
  <2>2. CASE h = g
    BY <2>2 DEF TypeOK, LoopOK, Crash
  <2>3. CASE h # g
    <3>1. loop'[h] = loop[h]
      BY <2>3 DEF TypeOK, Crash
    <3>2. loop[h] # None => pc'[loop[h]] = pc[loop[h]]
      BY <2>1, <2>3 DEF TypeOK, LoopOK, Crash
    <3> QED
      BY <2>1, <3>1, <3>2 DEF LoopOK, Crash
  <2> QED
    BY <2>2, <2>3
<1> QED
  BY <1>4, <1>5, <1>6 DEF HandlerOK

-----------------------------------------------------------------------------
(* The chains                                                              *)

\* The chain of a process is never empty, and every block after the genesis
\* block passes the tests of verify_chain.
ChainOK(g) == Len(chain[g]) >= 1 /\ Intact(chain[g])

ChainInv == TypeInv /\ \A g \in Gateways : ChainOK(g)

\* Only ChainEntry and Crash change a chain.
LEMMA OtherStepsKeepChains ==
    ASSUME NEW g \in Gateways, NEW r \in Requests,
           \/ Receive(g, r)
           \/ OpaReturns(g, r)
           \/ IssueChallenge(g, r)
           \/ RaiseAlert(g, r)
           \/ CommitLog(g, r)
    PROVE  chain' = chain /\ boots' = boots
  BY DEF Receive, OpaReturns, IssueChallenge, RaiseAlert, CommitLog, memory

\* Every step leaves the types right and the chains intact.
LEMMA ChainStep == ChainInv /\ [Next]_vars => ChainInv'
<1> SUFFICES ASSUME ChainInv, [Next]_vars
             PROVE  ChainInv'
  OBVIOUS
<1> USE DEF ChainInv
<1>1. ASSUME NEW g \in Gateways, NEW r \in Requests, Receive(g, r)
      PROVE  ChainInv'
  BY <1>1, ReceiveType, OtherStepsKeepChains DEF ChainOK
<1>2. ASSUME NEW g \in Gateways, NEW r \in Requests, OpaReturns(g, r)
      PROVE  ChainInv'
  BY <1>2, OpaReturnsType, OtherStepsKeepChains DEF ChainOK
<1>3. ASSUME NEW g \in Gateways, NEW r \in Requests, IssueChallenge(g, r)
      PROVE  ChainInv'
  BY <1>3, IssueChallengeType, OtherStepsKeepChains DEF ChainOK
<1>4. ASSUME NEW g \in Gateways, NEW r \in Requests, RaiseAlert(g, r)
      PROVE  ChainInv'
  BY <1>4, RaiseAlertType, OtherStepsKeepChains DEF ChainOK
<1>5. ASSUME NEW g \in Gateways, NEW r \in Requests, ChainEntry(g, r)
      PROVE  ChainInv'
  <2>1. /\ chain[g] \in Seq(Blocks(ChainData))
        /\ Len(chain[g]) >= 1
        /\ Intact(chain[g])
        /\ Entry(r) \in ChainData
    BY <1>5, EntryType DEF ChainEntry, ChainOK, TypeInv, TypeOK
  <2>2. /\ Len(add_block(chain[g], Entry(r))) = Len(chain[g]) + 1
        /\ Intact(add_block(chain[g], Entry(r)))
    BY <2>1, AddBlockType, AddBlockIntact
  <2>3. TypeInv'
    BY <1>5, <2>1, ChainEntryType
  <2>4. ASSUME NEW h \in Gateways
        PROVE  ChainOK(h)'
    BY <1>5, <2>1, <2>2 DEF ChainEntry, ChainOK, TypeInv, TypeOK
  <2> QED
    BY <2>3, <2>4
<1>6. ASSUME NEW g \in Gateways, NEW r \in Requests, CommitLog(g, r)
      PROVE  ChainInv'
  BY <1>6, CommitLogType, OtherStepsKeepChains DEF ChainOK
<1>7. ASSUME NEW g \in Gateways, Crash(g)
      PROVE  ChainInv'
  <2>1. boots[g] + 1 \in Nat
    BY DEF TypeInv, TypeOK
  <2>2. Marker(g, boots[g] + 1) \in ChainData
    BY <2>1, MarkerType
  <2>3. /\ Len(NewChain(Marker(g, boots[g] + 1))) = 1
        /\ Intact(NewChain(Marker(g, boots[g] + 1)))
    BY <2>2, NewChainType
  <2>4. ASSUME NEW h \in Gateways
        PROVE  ChainOK(h)'
    <3> DEFINE fresh == NewChain(Marker(g, boots[g] + 1))
    <3>1. chain' = [chain EXCEPT ![g] = fresh]
      BY <1>7 DEF Crash
    <3>2. Len(fresh) = 1 /\ Intact(fresh)
      BY <2>3
    <3> HIDE DEF fresh
    <3>3. chain'[h] = IF h = g THEN fresh ELSE chain[h]
      BY <3>1 DEF TypeInv, TypeOK
    <3> QED
      BY <3>2, <3>3 DEF ChainOK
  <2> QED
    BY <1>7, <2>4, CrashType
<1>8. CASE UNCHANGED vars
  BY <1>8 DEF vars, memory, handler, tables, TypeInv, TypeOK, HandlerOK,
     RequestOK, LoopOK, ChainOK
<1> QED
  BY <1>1, <1>2, <1>3, <1>4, <1>5, <1>6, <1>7, <1>8 DEF Next, Step

\* The chains __init__ leaves are intact.
LEMMA ChainInit == Init => ChainInv
<1> SUFFICES ASSUME Init
             PROVE  ChainInv
  OBVIOUS
<1>1. ASSUME NEW g \in Gateways
      PROVE  ChainOK(g)
  <2>1. Marker(g, 0) \in ChainData
    BY MarkerType
  <2>2. Len(NewChain(Marker(g, 0))) = 1 /\ Intact(NewChain(Marker(g, 0)))
    BY <2>1, NewChainType
  <2>3. chain[g] = NewChain(Marker(g, 0))
    BY DEF Init
  <2> QED
    BY <2>2, <2>3 DEF ChainOK
<1> QED
  BY <1>1, TypeInit DEF ChainInv

\* ChainInv is an invariant of the gateway.
LEMMA ChainInvariant == Spec => []ChainInv
  BY ChainInit, ChainStep, PTL DEF Spec

\* In every run of the gateway, the handlers' variables, the chains, the
\* counters and the rows of the tables have their types.
THEOREM TypeCorrect == Spec => []TypeOK
<1>1. ChainInv => TypeOK
  BY DEF ChainInv, TypeInv
<1> QED
  BY <1>1, ChainInvariant, PTL

\* However requests of however many processes interleave, fail and crash,
\* verify_chain reports the chain of every process valid.
THEOREM ChainsAlwaysVerify == Spec => []ChainsVerify
<1>1. ChainInv => ChainsVerify
  <2> SUFFICES ASSUME ChainInv, NEW g \in Gateways
               PROVE  verify_chain(chain[g]).valid
    BY DEF ChainsVerify
  <2>1. /\ chain[g] \in Seq(Blocks(ChainData))
        /\ Len(chain[g]) >= 1
        /\ Intact(chain[g])
    BY DEF ChainInv, ChainOK, TypeInv, TypeOK
  <2> QED
    BY <2>1, VerifyChainExact
<1> QED
  BY <1>1, ChainInvariant, PTL

\* The verify-chain endpoint calls a chain broken that verifies: the key it reads
\* is not among the keys of the result, and the default it takes is FALSE.
EndpointContradicts ==
    \A g \in Gateways :
      /\ verify_chain(chain[g]).valid
      /\ ~VerifyChainResponse(g).is_valid
      /\ VerifyChainResponse(g).status = "broken"

\* Whatever a process has served, its endpoint answers "broken" for a chain that
\* verifies.
THEOREM EndpointAlwaysContradicts == Spec => []EndpointContradicts
<1>1. ChainsVerify => EndpointContradicts
  <2> SUFFICES ASSUME ChainsVerify, NEW g \in Gateways
               PROVE  /\ verify_chain(chain[g]).valid
                      /\ ~VerifyChainResponse(g).is_valid
                      /\ VerifyChainResponse(g).status = "broken"
    BY DEF EndpointContradicts
  <2>1. "is_valid" \notin DOMAIN verify_chain(chain[g])
    BY DEF verify_chain
  <2>2. Lookup(verify_chain(chain[g]), "is_valid", FALSE) = FALSE
    BY <2>1 DEF Lookup
  <2> QED
    BY <2>2 DEF ChainsVerify, VerifyChainResponse
<1> QED
  BY <1>1, ChainsAlwaysVerify, PTL

-----------------------------------------------------------------------------
(* Rows and answers                                                        *)

\* A row is inserted in the step that ends its request: requests that have not
\* ended have no row, which is why no request gets a second one.
RowOK(i) == pc[logs[i].request] \in {"answered", "error"}

RowOf(i, r) ==
    /\ logs[i].request = r
    /\ logs[i].decision = verdict[r].decision
    /\ logs[i].risk = risk[r]
    /\ logs[i].chain_hash = hash[r]

RowsInv ==
    /\ \A i \in DOMAIN logs : RowOK(i)
    /\ \A i, j \in DOMAIN logs : logs[i].request = logs[j].request => i = j
    /\ \A r \in Requests :
         pc[r] = "answered" => \E i \in DOMAIN logs : RowOf(i, r)

\* Only CommitLog inserts a row or answers a request, and a request that has
\* been answered or refused with an error keeps its variables.
LEMMA OtherStepsKeepLogs ==
    ASSUME TypeInv, NEW g \in Gateways,
           \/ Crash(g)
           \/ \E r \in Requests : \/ Receive(g, r)
                                  \/ OpaReturns(g, r)
                                  \/ IssueChallenge(g, r)
                                  \/ RaiseAlert(g, r)
                                  \/ ChainEntry(g, r),
           NEW q \in Requests
    PROVE  /\ logs' = logs
           /\ pc'[q] = "answered" => pc[q] = "answered"
           /\ pc[q] \in {"answered", "error"} =>
                /\ pc'[q] = pc[q]
                /\ verdict'[q] = verdict[q]
                /\ risk'[q] = risk[q]
                /\ hash'[q] = hash[q]
<1> USE DEF TypeInv
<1>1. CASE Crash(g)
  BY <1>1 DEF TypeOK, Crash, Ended, tables
<1>2. ASSUME NEW r \in Requests, Receive(g, r)
      PROVE  /\ logs' = logs
             /\ pc[r] = "new" /\ pc' = [pc EXCEPT ![r] = "awaiting"]
             /\ verdict' = verdict /\ hash' = hash
             /\ q # r => risk'[q] = risk[q]
  BY <1>2 DEF TypeOK, Receive, tables
<1>3. ASSUME NEW r \in Requests, OpaReturns(g, r)
      PROVE  /\ logs' = logs
             /\ pc[r] = "awaiting"
             /\ \E s \in Running : pc' = [pc EXCEPT ![r] = s]
             /\ risk' = risk /\ hash' = hash
             /\ q # r => verdict'[q] = verdict[q]
  BY <1>3 DEF TypeOK, OpaReturns, FirstStep, Running, tables
<1>4. ASSUME NEW r \in Requests,
             IssueChallenge(g, r) \/ RaiseAlert(g, r) \/ ChainEntry(g, r)
      PROVE  /\ logs' = logs
             /\ pc[r] \in Running
             /\ \E s \in Running \cup {"error"} : pc' = [pc EXCEPT ![r] = s]
             /\ risk' = risk /\ verdict' = verdict
             /\ q # r => hash'[q] = hash[q]
  <2>1. /\ logs' = logs /\ pc[r] \in Running
        /\ risk' = risk /\ verdict' = verdict
    BY <1>4 DEF IssueChallenge, RaiseAlert, ChainEntry, Running, tables
  <2>2. \E s \in Running \cup {"error"} : pc' = [pc EXCEPT ![r] = s]
    <3>1. /\ {"block", "log"} \subseteq Running
      BY DEF Running
    <3> QED
      BY <1>4, <3>1 DEF IssueChallenge, RaiseAlert, ChainEntry, Continue, Finish
  <2>3. q # r => hash'[q] = hash[q]
    BY <1>4 DEF TypeOK, IssueChallenge, RaiseAlert, ChainEntry
  <2> QED
    BY <2>1, <2>2, <2>3
<1>5. pc \in [Requests -> Waiting \cup Running \cup Ended]
  BY DEF TypeOK
<1> QED
  BY <1>1, <1>2, <1>3, <1>4, <1>5 DEF Running

\* What CommitLog does to the log and to its request.
LEMMA CommitLogEffect ==
    ASSUME TypeInv, NEW g \in Gateways, NEW r \in Requests, CommitLog(g, r)
    PROVE  LET row == [request |-> r, decision |-> verdict[r].decision,
                       risk |-> risk[r], chain_hash |-> hash[r]]
           IN  /\ loop[g] = r
               /\ pc[r] = "log"
               /\ row \in AccessLogs
               /\ UNCHANGED <<boots, chain, host, form, risk, verdict, hash>>
               /\ \/ /\ logs' = Append(logs, row)
                     /\ pc'[r] \in {"answered", "error"}
                  \/ logs' = logs /\ pc'[r] = "error"
               /\ \A q \in Requests : q # r => pc'[q] = pc[q]
<1> DEFINE row == [request |-> r, decision |-> verdict[r].decision,
                   risk |-> risk[r], chain_hash |-> hash[r]]
<1>1. row \in AccessLogs
  BY OnLoop DEF TypeInv, TypeOK, CommitLog, AccessLogs
<1>2. /\ loop[g] = r
      /\ pc[r] = "log"
      /\ UNCHANGED <<boots, chain, host, form, risk, verdict, hash>>
  BY DEF CommitLog
<1>3. \/ logs' = Append(logs, row) /\ Finish(g, r, "answered")
      \/ logs' \in Uncertain(logs, row) /\ Finish(g, r, "error")
  BY DEF CommitLog
<1> HIDE DEF row
<1>4. ASSUME NEW end, Finish(g, r, end)
      PROVE  pc'[r] = end /\ \A q \in Requests : q # r => pc'[q] = pc[q]
  BY <1>4 DEF TypeInv, TypeOK, Finish
<1>5. /\ \/ /\ logs' = Append(logs, row)
            /\ pc'[r] \in {"answered", "error"}
         \/ logs' = logs /\ pc'[r] = "error"
      /\ \A q \in Requests : q # r => pc'[q] = pc[q]
  BY <1>3, <1>4 DEF Uncertain
<1> QED
  BY <1>1, <1>2, <1>5 DEF row

\* A row more at the end of the log leaves the other rows where they are.
LEMMA AppendRow ==
    ASSUME TypeInv, NEW row \in AccessLogs, logs' = Append(logs, row)
    PROVE  /\ Len(logs) \in Nat
           /\ DOMAIN logs = 1 .. Len(logs)
           /\ DOMAIN logs' = DOMAIN logs \cup {Len(logs) + 1}
           /\ \A i \in DOMAIN logs : logs'[i] = logs[i]
           /\ logs'[Len(logs) + 1] = row
<1>1. logs \in Seq(AccessLogs)
  BY DEF TypeInv, TypeOK
<1>2. /\ Len(Append(logs, row)) = Len(logs) + 1
      /\ \A i \in 1 .. Len(logs) : Append(logs, row)[i] = logs[i]
      /\ Append(logs, row)[Len(logs) + 1] = row
      /\ Append(logs, row) \in Seq(AccessLogs)
      /\ Len(logs) \in Nat
  BY <1>1
<1>3. DOMAIN logs' = 1 .. Len(logs) + 1
  BY <1>2
<1> QED
  BY <1>1, <1>2, <1>3

\* The type of a row: its request is a request.
LEMMA RowType ==
    ASSUME TypeInv, NEW i \in DOMAIN logs
    PROVE  /\ logs[i] \in AccessLogs
           /\ logs[i].request \in Requests
<1>1. logs \in Seq(AccessLogs)
  BY DEF TypeInv, TypeOK
<1>2. logs[i] \in AccessLogs
  BY <1>1
<1> QED
  BY <1>2 DEF AccessLogs

\* CommitLog keeps RowsInv: its request had no row before.
LEMMA CommitLogRows ==
    ASSUME TypeInv, RowsInv, NEW g \in Gateways, NEW r \in Requests,
           CommitLog(g, r)
    PROVE  RowsInv'
<1> DEFINE row == [request |-> r, decision |-> verdict[r].decision,
                   risk |-> risk[r], chain_hash |-> hash[r]]
<1>1. /\ pc[r] = "log"
      /\ row \in AccessLogs
      /\ UNCHANGED <<risk, verdict, hash>>
      /\ \/ logs' = Append(logs, row) /\ pc'[r] \in {"answered", "error"}
         \/ logs' = logs /\ pc'[r] = "error"
      /\ \A q \in Requests : q # r => pc'[q] = pc[q]
  BY CommitLogEffect
<1>2. /\ row.request = r
      /\ row.decision = verdict[r].decision
      /\ row.risk = risk[r]
      /\ row.chain_hash = hash[r]
  OBVIOUS
<1> HIDE DEF row
<1>3. \A i \in DOMAIN logs : /\ logs[i].request \in Requests
                             /\ logs[i].request # r
                             /\ RowOK(i)
  BY <1>1, RowType DEF RowsInv, RowOK
<1>4. CASE logs' = logs /\ pc'[r] = "error"
  BY <1>1, <1>3, <1>4 DEF RowsInv, RowOK, RowOf
<1>5. CASE logs' = Append(logs, row) /\ pc'[r] \in {"answered", "error"}
  <2> DEFINE last == Len(logs) + 1
  <2>1. /\ DOMAIN logs' = DOMAIN logs \cup {last}
        /\ \A i \in DOMAIN logs : logs'[i] = logs[i]
        /\ logs'[last] = row
    BY <1>1, <1>5, AppendRow
  <2> HIDE DEF last
  <2>2. \A i \in DOMAIN logs' : RowOK(i)'
    BY <1>1, <1>2, <1>3, <1>5, <2>1 DEF RowOK
  <2>3. \A i, j \in DOMAIN logs' : logs'[i].request = logs'[j].request => i = j
    BY <1>2, <1>3, <2>1 DEF RowsInv
  <2>4. ASSUME NEW q \in Requests, pc'[q] = "answered"
        PROVE  \E i \in DOMAIN logs' : RowOf(i, q)'
    <3>1. CASE q = r
      BY <1>1, <1>2, <2>1, <3>1 DEF RowOf
    <3>2. CASE q # r
      <4>1. PICK i \in DOMAIN logs : RowOf(i, q)
        BY <1>1, <2>4, <3>2 DEF RowsInv
      <4> QED
        BY <1>1, <2>1, <4>1 DEF RowOf
    <3> QED
      BY <3>1, <3>2
  <2> QED
    BY <2>2, <2>3, <2>4 DEF RowsInv
<1> QED
  BY <1>1, <1>4, <1>5

\* Every step keeps RowsInv.
LEMMA RowsStep == ChainInv /\ RowsInv /\ [Next]_vars => RowsInv'
<1> SUFFICES ASSUME ChainInv, RowsInv, [Next]_vars
             PROVE  RowsInv'
  OBVIOUS
<1>1. TypeInv
  BY DEF ChainInv
<1>2. ASSUME NEW g \in Gateways, NEW r \in Requests, CommitLog(g, r)
      PROVE  RowsInv'
  BY <1>1, <1>2, CommitLogRows
<1>3. ASSUME NEW g \in Gateways,
             \/ Crash(g)
             \/ \E r \in Requests : \/ Receive(g, r)
                                    \/ OpaReturns(g, r)
                                    \/ IssueChallenge(g, r)
                                    \/ RaiseAlert(g, r)
                                    \/ ChainEntry(g, r)
      PROVE  RowsInv'
  <2>1. \A q \in Requests :
          /\ logs' = logs
          /\ pc'[q] = "answered" => pc[q] = "answered"
          /\ pc[q] \in {"answered", "error"} =>
               /\ pc'[q] = pc[q]
               /\ verdict'[q] = verdict[q]
               /\ risk'[q] = risk[q]
               /\ hash'[q] = hash[q]
    BY <1>1, <1>3, OtherStepsKeepLogs
  <2>2. logs' = logs
    BY <1>3 DEF Crash, Receive, OpaReturns, IssueChallenge, RaiseAlert,
       ChainEntry, tables
  <2>3. \A i \in DOMAIN logs : RowOK(i)'
    BY <1>1, <2>1, <2>2, RowType DEF RowsInv, RowOK
  <2>4. \A r \in Requests :
          pc'[r] = "answered" => \E i \in DOMAIN logs : RowOf(i, r)'
    BY <2>1, <2>2 DEF RowsInv, RowOf
  <2> QED
    BY <2>2, <2>3, <2>4 DEF RowsInv
<1>4. CASE UNCHANGED vars
  BY <1>4 DEF vars, handler, tables, RowsInv, RowOK, RowOf
<1> QED
  BY <1>2, <1>3, <1>4 DEF Next, Step

LEMMA RowsInit == Init => RowsInv
  BY DEF Init, RowsInv

LEMMA RowsInvariant == Spec => []RowsInv
  BY RowsInit, RowsStep, ChainInvariant, PTL DEF Spec

\* A client that got an answer finds it in the log, exactly once and with its
\* values; no request has two rows, whatever commits raised after all.
THEOREM AnswersAlwaysLogged == Spec => []AnsweredIsLogged
<1>1. RowsInv => AnsweredIsLogged
  <2> SUFFICES ASSUME RowsInv, NEW r \in Requests
               PROVE  LET rows == {i \in DOMAIN logs : logs[i].request = r}
                      IN  /\ Cardinality(rows) <= 1
                          /\ pc[r] = "answered" => \E i \in rows : RowOf(i, r)
    BY DEF AnsweredIsLogged, RowOf
  <2> DEFINE rows == {i \in DOMAIN logs : logs[i].request = r}
  <2>1. rows = {} \/ \E i \in DOMAIN logs : rows = {i}
    BY DEF RowsInv
  <2>2. Cardinality(rows) <= 1
    <3> HIDE DEF rows
    <3> QED
      BY <2>1, FS_EmptySet, FS_Singleton
  <2>3. pc[r] = "answered" => \E i \in rows : RowOf(i, r)
    BY DEF RowsInv, RowOf
  <2> QED
    BY <2>2, <2>3
<1> QED
  BY <1>1, RowsInvariant, PTL

-----------------------------------------------------------------------------
(* Digests of one chain                                                    *)

\* Every digest of the chain commits to the genesis block with this data.
Rooted(c, data) ==
    \A n \in 1 .. Len(c) : Len(c[n].hash) >= 1 /\ Origin(c[n].hash) = data

\* The digest of a later block commits to every earlier block.
Nested(c) ==
    \A m, n \in 1 .. Len(c) : m < n => Extends(c[n].hash, c[m].hash)

\* What is appended comes after the first element.
LEMMA AppendKeepsFirst ==
    ASSUME NEW S, NEW s \in Seq(S), NEW e \in S, Len(s) >= 1
    PROVE  /\ Len(Append(s, e)) >= 1
           /\ Append(s, e)[1] = s[1]
<1>1. Len(s) \in Nat /\ Len(Append(s, e)) = Len(s) + 1
  OBVIOUS
<1>2. \A i \in 1 .. Len(s) : Append(s, e)[i] = s[i]
  OBVIOUS
<1>3. 1 \in 1 .. Len(s)
  BY <1>1
<1> QED
  BY <1>1, <1>2, <1>3

\* An element more keeps what a sequence extends.
LEMMA AppendExtends ==
    ASSUME NEW S, NEW long \in Seq(S), NEW short \in Seq(S), NEW x \in S,
           long = short \/ Extends(long, short)
    PROVE  Extends(Append(long, x), short)
<1>1. /\ Len(long) \in Nat
      /\ Len(short) \in Nat
      /\ Len(short) <= Len(long)
      /\ Len(Append(long, x)) = Len(long) + 1
  BY DEF Extends
<1>2. \A i \in 1 .. Len(long) : Append(long, x)[i] = long[i]
  BY <1>1
<1>3. \A i \in 1 .. Len(short) : long[i] = short[i]
  <2>1. CASE long = short
    BY <2>1
  <2>2. CASE Extends(long, short)
    <3>1. SubSeq(long, 1, Len(short)) = short
      BY <2>2 DEF Extends
    <3>2. \A i \in 1 .. Len(short) : SubSeq(long, 1, Len(short))[i] = long[i]
      BY <1>1
    <3> QED
      BY <3>1, <3>2
  <2> QED
    BY <2>1, <2>2
<1> DEFINE sub == SubSeq(Append(long, x), 1, Len(short))
<1>4. /\ sub \in Seq(S)
      /\ Len(sub) = Len(short)
      /\ \A i \in 1 .. Len(short) : sub[i] = Append(long, x)[i]
  BY <1>1
<1> HIDE DEF sub
<1>5. \A i \in 1 .. Len(short) : sub[i] = short[i]
  BY <1>1, <1>2, <1>3, <1>4
<1>6. sub = short
  BY <1>4, <1>5, SeqEqual
<1> QED
  BY <1>1, <1>6 DEF Extends, sub

\* The digests of a new chain: the one of its genesis block.
LEMMA NewChainNested ==
    ASSUME NEW data \in ChainData
    PROVE  Rooted(NewChain(data), data) /\ Nested(NewChain(data))
<1> DEFINE c == NewChain(data)
           content == [index |-> 0, data |-> data]
<1>1. Len(c) = 1 /\ c[1].hash = << content >>
  BY NewChainType
<1> HIDE DEF c
<1>2. \A n \in 1 .. Len(c) : n = 1
  BY <1>1
<1>3. Len(<< content >>) = 1 /\ << content >>[1].data = data
  OBVIOUS
<1> HIDE DEF content
<1>4. Rooted(c, data)
  BY <1>1, <1>2, <1>3 DEF Rooted, Origin
<1>5. Nested(c)
  BY <1>2 DEF Nested
<1> QED
  BY <1>4, <1>5 DEF c

\* add_block keeps the digests rooted and nested.
LEMMA AddBlockNested ==
    ASSUME NEW c \in Seq(Blocks(ChainData)), Len(c) >= 1,
           NEW entry \in ChainData, NEW data, Rooted(c, data), Nested(c)
    PROVE  Rooted(add_block(c, entry), data) /\ Nested(add_block(c, entry))
<1> DEFINE after == add_block(c, entry)
           Content == [index : Nat, data : ChainData]
           last == c[Len(c)].hash
           x == [index |-> Len(c), data |-> entry]
<1>1. /\ Len(c) \in Nat
      /\ Len(after) = Len(c) + 1
      /\ \A i \in 1 .. Len(c) : after[i] = c[i]
      /\ after[Len(c) + 1].hash = Append(last, x)
  BY AddBlockType, NextBlockType DEF create_hash
<1>2. \A i \in 1 .. Len(c) : c[i].hash \in Seq(Content)
  <2>1. \A i \in 1 .. Len(c) : c[i] \in Blocks(ChainData)
    OBVIOUS
  <2>2. \A b \in Blocks(ChainData) : b.hash \in Seq(Content)
    BY DEF Blocks, Digests
  <2> QED
    BY <2>1, <2>2
<1>3. last \in Seq(Content) /\ x \in Content
  <2>1. Len(c) \in 1 .. Len(c)
    BY <1>1
  <2>2. last \in Seq(Content)
    BY <1>2, <2>1
  <2>3. x \in Content
    BY <1>1
  <2> QED
    BY <2>2, <2>3
<1>4. Len(last) >= 1 /\ Origin(last) = data
  <2>1. Len(c) \in 1 .. Len(c)
    BY <1>1
  <2> QED
    BY <2>1 DEF Rooted
<1> HIDE DEF after, Content, x
<1>5. Len(Append(last, x)) >= 1 /\ Append(last, x)[1] = last[1]
  <2>1. Len(last) >= 1
    BY <1>4
  <2> QED
    BY <1>3, <2>1, AppendKeepsFirst
<1>6. Rooted(after, data)
  <2>1. /\ Len(after[Len(c) + 1].hash) >= 1
        /\ Origin(after[Len(c) + 1].hash) = data
    BY <1>1, <1>4, <1>5 DEF Origin
  <2>2. \A m \in 1 .. Len(c) :
          Len(after[m].hash) >= 1 /\ Origin(after[m].hash) = data
    BY <1>1 DEF Rooted
  <2>3. \A m \in 1 .. Len(after) : m \in 1 .. Len(c) \/ m = Len(c) + 1
    BY <1>1
  <2> QED
    BY <2>1, <2>2, <2>3 DEF Rooted
<1>7. ASSUME NEW m \in 1 .. Len(c)
      PROVE  Extends(Append(last, x), c[m].hash)
  <2>1. last = c[m].hash \/ Extends(last, c[m].hash)
    BY <1>1 DEF Nested
  <2> QED
    BY <1>2, <1>3, <2>1, AppendExtends
<1>8. Nested(after)
  <2> SUFFICES ASSUME NEW m \in 1 .. Len(after), NEW n \in 1 .. Len(after),
                      m < n
               PROVE  Extends(after[n].hash, after[m].hash)
    BY DEF Nested
  <2>1. m \in 1 .. Len(c) /\ after[m] = c[m]
    BY <1>1
  <2>2. CASE n \in 1 .. Len(c)
    BY <1>1, <2>1, <2>2 DEF Nested
  <2>3. CASE n = Len(c) + 1
    BY <1>1, <1>7, <2>1, <2>3
  <2> QED
    BY <1>1, <2>2, <2>3
<1> QED
  BY <1>6, <1>8 DEF after

-----------------------------------------------------------------------------
(* Rows and blocks                                                         *)

\* A handler about to insert its row has the hash of the last block of its
\* process's chain, which carries its entry.
PendingOK(r) ==
    pc[r] = "log" =>
      LET c == chain[host[r]]
      IN  /\ Len(c) >= 2
          /\ c[Len(c)].hash = hash[r]
          /\ c[Len(c)].data = Entry(r)

\* A row's digest was computed in a run of some process that is not to come.
RowOrigin(i) ==
    \E h \in Gateways : \E b \in 0 .. boots[h] :
      Origin(logs[i].chain_hash) = Marker(h, b)

AnchorInv ==
    /\ \A r \in Requests : PendingOK(r)
    /\ \A g \in Gateways : /\ Rooted(chain[g], Marker(g, boots[g]))
                           /\ Nested(chain[g])
    /\ \A i \in DOMAIN logs : RowOrigin(i)
    /\ LogsAnchored
    /\ LogsFollowChain

LEMMA AnchorInit == Init => AnchorInv
<1> SUFFICES ASSUME Init
             PROVE  AnchorInv
  OBVIOUS
<1>1. \A r \in Requests : PendingOK(r)
  BY DEF Init, PendingOK
<1>2. ASSUME NEW g \in Gateways
      PROVE  Rooted(chain[g], Marker(g, boots[g])) /\ Nested(chain[g])
  <2>1. chain[g] = NewChain(Marker(g, 0)) /\ boots[g] = 0
    BY DEF Init
  <2> QED
    BY <2>1, MarkerType, NewChainNested
<1>3. DOMAIN logs = {}
  BY DEF Init
<1>4. LogsAnchored /\ LogsFollowChain
  BY <1>3 DEF LogsAnchored, LogsFollowChain
<1> QED
  BY <1>1, <1>2, <1>3, <1>4 DEF AnchorInv

\* The steps before the block leave chains, rows and pending handlers alone.
LEMMA EarlyStepAnchors ==
    ASSUME TypeInv, AnchorInv, NEW g \in Gateways, NEW r \in Requests,
           \/ Receive(g, r)
           \/ OpaReturns(g, r)
           \/ IssueChallenge(g, r)
           \/ RaiseAlert(g, r)
    PROVE  AnchorInv'
<1>1. chain' = chain /\ boots' = boots /\ logs' = logs /\ hash' = hash
  BY DEF Receive, OpaReturns, IssueChallenge, RaiseAlert, memory, tables
<1>2. pc'[r] # "log" /\ \A q \in Requests : q # r => pc'[q] = pc[q]
  BY DEF TypeInv, TypeOK, Receive, OpaReturns, FirstStep, IssueChallenge,
     RaiseAlert, Continue, Finish
<1>3. \A q \in Requests : q # r => /\ host'[q] = host[q]
                                   /\ verdict'[q] = verdict[q]
                                   /\ risk'[q] = risk[q]
                                   /\ otp'[q] = otp[q]
  BY DEF TypeInv, TypeOK, Receive, OpaReturns, IssueChallenge, RaiseAlert
<1>4. \A q \in Requests : PendingOK(q)'
  BY <1>1, <1>2, <1>3 DEF AnchorInv, PendingOK, Entry
<1>5. LogsAnchored' /\ LogsFollowChain'
  BY <1>1 DEF AnchorInv, LogsAnchored, LogsFollowChain
<1> QED
  BY <1>1, <1>4, <1>5 DEF AnchorInv, RowOrigin

\* Adding the block: its handler now has the last hash, and no other handler
\* of the process was about to insert a row.
LEMMA ChainEntryAnchors ==
    ASSUME ChainInv, AnchorInv, NEW g \in Gateways, NEW r \in Requests,
           ChainEntry(g, r)
    PROVE  AnchorInv'
<1> DEFINE entry == Entry(r)
           after == add_block(chain[g], entry)
<1>1. /\ chain[g] \in Seq(Blocks(ChainData))
      /\ Len(chain[g]) >= 1
      /\ entry \in ChainData
  BY EntryType DEF ChainEntry, ChainInv, ChainOK, TypeInv, TypeOK
<1>2. /\ Len(chain[g]) \in Nat
      /\ Len(after) = Len(chain[g]) + 1
      /\ \A n \in 1 .. Len(chain[g]) : after[n] = chain[g][n]
      /\ after[Len(chain[g]) + 1] = NextBlock(chain[g], entry)
      /\ NextBlock(chain[g], entry).data = entry
  BY <1>1, AddBlockType, NextBlockType
<1>3. Rooted(after, Marker(g, boots[g])) /\ Nested(after)
  BY <1>1, AddBlockNested DEF AnchorInv
<1>4. /\ chain' = [chain EXCEPT ![g] = after]
      /\ hash' = [hash EXCEPT ![r] = NextBlock(chain[g], entry).hash]
      /\ pc' = [pc EXCEPT ![r] = "log"]
      /\ UNCHANGED <<boots, host, verdict, risk, otp, logs>>
  BY DEF ChainEntry, Continue, tables
<1>5. host[r] = g /\ loop[g] = r
  BY OnLoop DEF ChainEntry, ChainInv
<1> HIDE DEF after, entry
<1>6. \A h \in Gateways : chain'[h] = IF h = g THEN after ELSE chain[h]
  BY <1>4 DEF ChainInv, TypeInv, TypeOK
<1>7. ASSUME NEW q \in Requests, pc'[q] = "log"
      PROVE  /\ Len(chain'[host'[q]]) >= 2
             /\ chain'[host'[q]][Len(chain'[host'[q]])].hash = hash'[q]
             /\ chain'[host'[q]][Len(chain'[host'[q]])].data = Entry(q)'
  <2>1. CASE q = r
    <3>1. chain'[host'[q]] = after /\ Entry(q)' = entry
      BY <1>4, <1>5, <1>6, <2>1 DEF Entry, entry
    <3>2. hash'[q] = NextBlock(chain[g], entry).hash
      BY <1>4, <2>1 DEF ChainInv, TypeInv, TypeOK
    <3> QED
      BY <1>1, <1>2, <3>1, <3>2
  <2>2. CASE q # r
    <3>1. pc[q] = "log" /\ hash'[q] = hash[q] /\ Entry(q)' = Entry(q)
      BY <1>4, <1>7, <2>2 DEF ChainInv, TypeInv, TypeOK, Entry
    <3>2. host[q] \in Gateways /\ loop[host[q]] = q
      BY <3>1 DEF ChainInv, TypeInv, HandlerOK, RequestOK, Running
    <3>3. chain'[host'[q]] = chain[host[q]]
      BY <1>4, <1>5, <1>6, <2>2, <3>2
    <3> QED
      BY <3>1, <3>3 DEF AnchorInv, PendingOK
  <2> QED
    BY <2>1, <2>2
<1>8. \A q \in Requests : PendingOK(q)'
  BY <1>7 DEF PendingOK
<1>9. \A h \in Gateways : /\ Rooted(chain'[h], Marker(h, boots'[h]))
                          /\ Nested(chain'[h])
  BY <1>3, <1>4, <1>6 DEF AnchorInv
<1>10. ASSUME NEW h \in Gateways, NEW i \in DOMAIN logs,
              Origin(logs[i].chain_hash) = Marker(h, boots[h])
       PROVE  \E n \in 2 .. Len(chain'[h]) :
                /\ chain'[h][n].hash = logs[i].chain_hash
                /\ chain'[h][n].data.request = logs[i].request
                /\ chain'[h][n].data.decision = logs[i].decision
                /\ chain'[h][n].data.risk = logs[i].risk
  <2>1. PICK n \in 2 .. Len(chain[h]) :
          /\ chain[h][n].hash = logs[i].chain_hash
          /\ chain[h][n].data.request = logs[i].request
          /\ chain[h][n].data.decision = logs[i].decision
          /\ chain[h][n].data.risk = logs[i].risk
    BY <1>10 DEF AnchorInv, LogsAnchored
  <2>2. n \in 2 .. Len(chain'[h]) /\ chain'[h][n] = chain[h][n]
    BY <1>2, <1>6
  <2> QED
    BY <2>1, <2>2
<1>11. LogsAnchored'
  BY <1>4, <1>10 DEF LogsAnchored
<1>12. LogsFollowChain'
  BY <1>4 DEF AnchorInv, LogsFollowChain
<1>13. \A i \in DOMAIN logs' : RowOrigin(i)'
  BY <1>4 DEF AnchorInv, RowOrigin
<1> QED
  BY <1>8, <1>9, <1>11, <1>12, <1>13 DEF AnchorInv

\* Markers tell the process and the run.
LEMMA MarkerInjective ==
    ASSUME NEW g, NEW h, NEW a, NEW b, Marker(g, a) = Marker(h, b)
    PROVE  g = h /\ a = b
  BY DEF Marker

\* Inserting the row: it is anchored in the last block of the chain of its
\* process, and the earlier rows of that chain are anchored further down.
LEMMA CommitLogAnchors ==
    ASSUME ChainInv, RowsInv, AnchorInv, NEW g \in Gateways,
           NEW r \in Requests, CommitLog(g, r)
    PROVE  AnchorInv'
<1> DEFINE row == [request |-> r, decision |-> verdict[r].decision,
                   risk |-> risk[r], chain_hash |-> hash[r]]
           c == chain[g]
           top == c[Len(c)]
<1>1. /\ loop[g] = r
      /\ pc[r] = "log"
      /\ row \in AccessLogs
      /\ UNCHANGED <<boots, chain, host, risk, verdict, hash>>
      /\ \/ logs' = Append(logs, row) /\ pc'[r] \in {"answered", "error"}
         \/ logs' = logs /\ pc'[r] = "error"
      /\ \A q \in Requests : q # r => pc'[q] = pc[q]
  BY CommitLogEffect DEF ChainInv
<1>2. otp' = otp
  BY DEF CommitLog
<1>3. host[r] = g
  BY <1>1, OnLoop DEF ChainInv
<1>4. /\ row.request = r
      /\ row.decision = verdict[r].decision
      /\ row.risk = risk[r]
      /\ row.chain_hash = hash[r]
  OBVIOUS
<1>5. /\ Len(c) \in Nat
      /\ Len(c) >= 2
      /\ top.hash = hash[r]
      /\ top.data = Entry(r)
  BY <1>1, <1>3 DEF AnchorInv, PendingOK, ChainInv, TypeInv, TypeOK
<1>6. /\ top.data.request = r
      /\ top.data.decision = verdict[r].decision
      /\ top.data.risk = risk[r]
  BY <1>5 DEF Entry
<1>7. Origin(hash[r]) = Marker(g, boots[g])
  <2>1. Len(c) \in 1 .. Len(c)
    BY <1>5
  <2>2. Origin(top.hash) = Marker(g, boots[g])
    BY <2>1 DEF AnchorInv, Rooted
  <2> QED
    BY <1>5, <2>2
<1> HIDE DEF row
<1>8. \A q \in Requests : PendingOK(q)'
  BY <1>1, <1>2 DEF AnchorInv, PendingOK, Entry
<1>9. CASE logs' = logs
  BY <1>1, <1>8, <1>9 DEF AnchorInv, RowOrigin, LogsAnchored, LogsFollowChain
<1>10. CASE logs' = Append(logs, row)
  <2> DEFINE last == Len(logs) + 1
  <2>1. /\ last \in Nat
        /\ DOMAIN logs = 1 .. Len(logs)
        /\ DOMAIN logs' = DOMAIN logs \cup {last}
        /\ \A i \in DOMAIN logs : logs'[i] = logs[i] /\ i < last
        /\ logs'[last] = row
    BY <1>1, <1>10, AppendRow DEF ChainInv
  <2> HIDE DEF last
  <2>2. \A i \in DOMAIN logs' : RowOrigin(i)'
    <3>1. boots[g] \in 0 .. boots[g]
      BY DEF ChainInv, TypeInv, TypeOK
    <3> QED
      BY <1>1, <1>4, <1>7, <2>1, <3>1 DEF AnchorInv, RowOrigin
  <2>3. ASSUME NEW h \in Gateways, NEW i \in DOMAIN logs',
               Origin(logs'[i].chain_hash) = Marker(h, boots[h])
        PROVE  \E n \in 2 .. Len(chain[h]) :
                 /\ chain[h][n].hash = logs'[i].chain_hash
                 /\ chain[h][n].data.request = logs'[i].request
                 /\ chain[h][n].data.decision = logs'[i].decision
                 /\ chain[h][n].data.risk = logs'[i].risk
    <3>1. CASE i \in DOMAIN logs
      BY <2>1, <2>3, <3>1 DEF AnchorInv, LogsAnchored
    <3>2. CASE i = last
      <4>1. h = g
        BY <1>4, <1>7, <2>1, <2>3, <3>2, MarkerInjective
      <4>2. Len(c) \in 2 .. Len(c)
        BY <1>5
      <4> QED
        BY <1>4, <1>5, <1>6, <2>1, <3>2, <4>1, <4>2
    <3> QED
      BY <2>1, <3>1, <3>2
  <2>4. LogsAnchored'
    BY <1>1, <2>3 DEF LogsAnchored
  <2>5. ASSUME NEW i \in DOMAIN logs,
               Origin(logs[i].chain_hash) = Origin(hash[r])
        PROVE  Extends(hash[r], logs[i].chain_hash)
    <3>1. PICK n \in 2 .. Len(c) : /\ c[n].hash = logs[i].chain_hash
                                   /\ c[n].data.request = logs[i].request
      BY <1>7, <2>5 DEF AnchorInv, LogsAnchored
    <3>2. logs[i].request # r
      BY <1>1 DEF RowsInv, RowOK
    <3>3. n < Len(c) /\ n \in 1 .. Len(c) /\ Len(c) \in 1 .. Len(c)
      BY <1>5, <1>6, <3>1, <3>2
    <3> QED
      BY <1>5, <3>1, <3>3 DEF AnchorInv, Nested
  <2>6. LogsFollowChain'
    BY <1>4, <2>1, <2>5 DEF AnchorInv, LogsFollowChain
  <2> QED
    BY <1>1, <1>8, <2>2, <2>4, <2>6 DEF AnchorInv
<1> QED
  BY <1>1, <1>9, <1>10

\* A restart: no row has the new run for its origin yet.
LEMMA CrashAnchors ==
    ASSUME ChainInv, AnchorInv, NEW g \in Gateways, Crash(g)
    PROVE  AnchorInv'
<1> DEFINE fresh == NewChain(Marker(g, boots[g] + 1))
<1>1. boots[g] \in Nat /\ \A h \in Gateways : boots[h] \in Nat
  BY GatewayAssumption DEF ChainInv, TypeInv, TypeOK
<1>2. /\ \A h \in Gateways :
           /\ chain'[h] = IF h = g THEN fresh ELSE chain[h]
           /\ boots'[h] = IF h = g THEN boots[g] + 1 ELSE boots[h]
      /\ UNCHANGED <<host, risk, verdict, otp, hash, logs>>
  BY DEF ChainInv, TypeInv, TypeOK, Crash, tables
<1>3. Rooted(fresh, Marker(g, boots[g] + 1)) /\ Nested(fresh)
  BY <1>1, MarkerType, NewChainNested
<1> HIDE DEF fresh
<1>4. \A q \in Requests : PendingOK(q)'
  <2>1. ASSUME NEW q \in Requests, pc'[q] = "log"
        PROVE  pc[q] = "log" /\ host[q] \in Gateways \ {g}
    <3>1. pc[q] = "log" /\ host[q] # g
      BY <2>1 DEF Crash, Ended
    <3> QED
      BY <3>1 DEF ChainInv, TypeInv, HandlerOK, RequestOK
  <2> QED
    BY <1>2, <2>1 DEF AnchorInv, PendingOK, Entry
<1>5. \A h \in Gateways : /\ Rooted(chain'[h], Marker(h, boots'[h]))
                          /\ Nested(chain'[h])
  BY <1>2, <1>3 DEF AnchorInv
<1>6. \A i \in DOMAIN logs' : RowOrigin(i)'
  <2> SUFFICES ASSUME NEW i \in DOMAIN logs
               PROVE  \E h \in Gateways : \E b \in 0 .. boots'[h] :
                        Origin(logs[i].chain_hash) = Marker(h, b)
    BY <1>2 DEF RowOrigin
  <2>1. PICK h \in Gateways : \E b \in 0 .. boots[h] :
          Origin(logs[i].chain_hash) = Marker(h, b)
    BY DEF AnchorInv, RowOrigin
  <2>2. 0 .. boots[h] \subseteq 0 .. boots'[h]
    BY <1>1, <1>2
  <2> QED
    BY <2>1, <2>2
<1>7. ASSUME NEW i \in DOMAIN logs
      PROVE  Origin(logs[i].chain_hash) # Marker(g, boots[g] + 1)
  <2>1. PICK h \in Gateways : \E b \in 0 .. boots[h] :
          Origin(logs[i].chain_hash) = Marker(h, b)
    BY DEF AnchorInv, RowOrigin
  <2>2. PICK b \in 0 .. boots[h] : Origin(logs[i].chain_hash) = Marker(h, b)
    BY <2>1
  <2>3. h = g => b # boots[g] + 1
    BY <1>1
  <2> QED
    BY <2>2, <2>3, MarkerInjective
<1>8. LogsAnchored'
  BY <1>2, <1>7 DEF AnchorInv, LogsAnchored
<1>9. LogsFollowChain'
  BY <1>2 DEF AnchorInv, LogsFollowChain
<1> QED
  BY <1>4, <1>5, <1>6, <1>8, <1>9 DEF AnchorInv

\* Every step keeps AnchorInv.
LEMMA AnchorStep ==
    ChainInv /\ RowsInv /\ AnchorInv /\ [Next]_vars => AnchorInv'
<1> SUFFICES ASSUME ChainInv, RowsInv, AnchorInv, [Next]_vars
             PROVE  AnchorInv'
  OBVIOUS
<1>1. ASSUME NEW g \in Gateways, NEW r \in Requests,
             Receive(g, r) \/ OpaReturns(g, r) \/ IssueChallenge(g, r)
               \/ RaiseAlert(g, r)
      PROVE  AnchorInv'
  BY <1>1, EarlyStepAnchors DEF ChainInv
<1>2. ASSUME NEW g \in Gateways, NEW r \in Requests, ChainEntry(g, r)
      PROVE  AnchorInv'
  BY <1>2, ChainEntryAnchors
<1>3. ASSUME NEW g \in Gateways, NEW r \in Requests, CommitLog(g, r)
      PROVE  AnchorInv'
  BY <1>3, CommitLogAnchors
<1>4. ASSUME NEW g \in Gateways, Crash(g)
      PROVE  AnchorInv'
  BY <1>4, CrashAnchors
<1>5. CASE UNCHANGED vars
  BY <1>5 DEF vars, memory, handler, tables, AnchorInv, PendingOK, RowOrigin,
     LogsAnchored, LogsFollowChain, Entry
<1> QED
  BY <1>1, <1>2, <1>3, <1>4, <1>5 DEF Next, Step

LEMMA AnchorInvariant == Spec => []AnchorInv
  BY AnchorInit, AnchorStep, ChainInvariant, RowsInvariant, PTL DEF Spec

\* A row whose chain is still in memory has a block there with its digest and
\* its decision, and no row of an earlier run, or of another process, is ever
\* taken for one of this chain.
THEOREM LogsAlwaysAnchored == Spec => []LogsAnchored
<1>1. AnchorInv => LogsAnchored
  BY DEF AnchorInv
<1> QED
  BY <1>1, AnchorInvariant, PTL

\* The rows of one run of a process are in the order of its chain.
THEOREM LogsAlwaysFollowChain == Spec => []LogsFollowChain
<1>1. AnchorInv => LogsFollowChain
  BY DEF AnchorInv
<1> QED
  BY <1>1, AnchorInvariant, PTL

-----------------------------------------------------------------------------
(* The refinement                                                          *)

\* The decisions as AuditLedger sees them.
ShownData == {Shown(entry) : entry \in ChainData}

\* A chain's evidence is the sequence of its blocks but the first.
LEMMA EvidenceType ==
    ASSUME NEW c \in Seq(Blocks(ChainData)), Len(c) >= 1
    PROVE  /\ Evidence(c) \in Seq(ShownData)
           /\ Len(Evidence(c)) = Len(c) - 1
           /\ \A n \in 1 .. Len(c) - 1 :
                Evidence(c)[n] = Shown(c[n + 1].data)
<1>1. Len(c) - 1 \in Nat
  OBVIOUS
<1>2. \A n \in 1 .. Len(c) - 1 : c[n + 1] \in Blocks(ChainData)
  OBVIOUS
<1>3. \A n \in 1 .. Len(c) - 1 : Shown(c[n + 1].data) \in ShownData
  BY <1>2 DEF Blocks, ShownData
<1> QED
  BY <1>1, <1>3 DEF Evidence

\* A new chain is no evidence, and a block added is evidence added.
LEMMA EvidenceOfNewChain ==
    ASSUME NEW data \in ChainData
    PROVE  Evidence(NewChain(data)) = << >>
<1>1. /\ NewChain(data) \in Seq(Blocks(ChainData))
      /\ Len(NewChain(data)) = 1
  BY NewChainType
<1>2. /\ Evidence(NewChain(data)) \in Seq(ShownData)
      /\ Len(Evidence(NewChain(data))) = 0
  BY <1>1, EvidenceType
<1> QED
  BY <1>2, EmptySeq

LEMMA EvidenceOfAddBlock ==
    ASSUME NEW c \in Seq(Blocks(ChainData)), Len(c) >= 1,
           NEW entry \in ChainData
    PROVE  Evidence(add_block(c, entry)) = Append(Evidence(c), Shown(entry))
<1> DEFINE after == add_block(c, entry)
           s == Evidence(c)
           t == Evidence(after)
           x == Shown(entry)
<1>1. /\ after \in Seq(Blocks(ChainData))
      /\ Len(after) = Len(c) + 1
      /\ \A n \in 1 .. Len(c) : after[n] = c[n]
      /\ after[Len(c) + 1].data = entry
      /\ Len(c) \in Nat
  BY AddBlockType, NextBlockType
<1> HIDE DEF after
<1>2. /\ s \in Seq(ShownData)
      /\ Len(s) = Len(c) - 1
      /\ \A n \in 1 .. Len(c) - 1 : s[n] = Shown(c[n + 1].data)
  BY EvidenceType
<1>3. /\ t \in Seq(ShownData)
      /\ Len(t) = Len(c)
      /\ \A n \in 1 .. Len(c) : t[n] = Shown(after[n + 1].data)
  <2>1. Len(after) >= 1 /\ Len(after) - 1 = Len(c)
    BY <1>1
  <2>2. /\ t \in Seq(ShownData)
        /\ Len(t) = Len(after) - 1
        /\ \A n \in 1 .. Len(after) - 1 : t[n] = Shown(after[n + 1].data)
    BY <1>1, <2>1, EvidenceType
  <2> QED
    BY <2>1, <2>2
<1>4. x \in ShownData
  BY DEF ShownData
<1> HIDE DEF s, t, x
<1>5. /\ Append(s, x) \in Seq(ShownData)
      /\ Len(Append(s, x)) = Len(c)
      /\ \A n \in 1 .. Len(c) - 1 : Append(s, x)[n] = s[n]
      /\ Append(s, x)[Len(c)] = x
  BY <1>1, <1>2, <1>4
<1>6. \A n \in 1 .. Len(c) - 1 : t[n] = Append(s, x)[n]
  <2> SUFFICES ASSUME NEW n \in 1 .. Len(c) - 1
               PROVE  t[n] = Append(s, x)[n]
    OBVIOUS
  <2>1. n \in 1 .. Len(c) /\ n + 1 \in 1 .. Len(c)
    BY <1>1
  <2>2. t[n] = Shown(after[n + 1].data)
    BY <1>3, <2>1
  <2>3. after[n + 1] = c[n + 1]
    BY <1>1, <2>1
  <2>4. Append(s, x)[n] = Shown(c[n + 1].data)
    BY <1>2, <1>5
  <2> QED
    BY <2>2, <2>3, <2>4
<1>7. t[Len(c)] = Append(s, x)[Len(c)]
  <2>1. Len(c) \in 1 .. Len(c)
    BY <1>1
  <2>2. t[Len(c)] = Shown(after[Len(c) + 1].data)
    BY <1>3, <2>1
  <2>3. after[Len(c) + 1].data = entry
    BY <1>1
  <2>4. t[Len(c)] = x
    BY <2>2, <2>3 DEF x
  <2> QED
    BY <1>5, <2>4
<1>8. \A n \in 1 .. Len(c) : t[n] = Append(s, x)[n]
  <2>1. \A n \in 1 .. Len(c) : n \in 1 .. Len(c) - 1 \/ n = Len(c)
    BY <1>1
  <2> QED
    BY <1>6, <1>7, <2>1
<1>9. t = Append(s, x)
  BY <1>3, <1>5, <1>8, SeqEqual
<1> QED
  BY <1>9 DEF s, t, x, after

\* A row added to the log is added to the ledger.
LEMMA LedgerRowsOfAppend ==
    ASSUME TypeInv, NEW row \in AccessLogs, logs' = Append(logs, row)
    PROVE  LedgerRows' = Append(LedgerRows, Shown(row))
<1> DEFINE S == {Shown(l) : l \in AccessLogs}
           x == Shown(row)
           last == Len(logs) + 1
<1>1. /\ Len(logs) \in Nat
      /\ DOMAIN logs' = DOMAIN logs \cup {last}
      /\ DOMAIN logs = 1 .. Len(logs)
      /\ \A i \in DOMAIN logs : logs'[i] = logs[i]
      /\ logs'[last] = row
  BY AppendRow
<1>2. logs \in Seq(AccessLogs) /\ logs' \in Seq(AccessLogs)
  BY DEF TypeInv, TypeOK
<1>3. Len(logs') = last
  BY <1>1, <1>2
<1>4. \A i \in 1 .. Len(logs) : Shown(logs[i]) \in S
  <2>1. \A i \in 1 .. Len(logs) : logs[i] \in AccessLogs
    BY <1>2
  <2> QED
    BY <2>1
<1>5. \A i \in 1 .. Len(logs') : Shown(logs'[i]) \in S
  <2>1. \A i \in 1 .. Len(logs') : logs'[i] \in AccessLogs
    BY <1>2
  <2> QED
    BY <2>1
<1>6. x \in S
  OBVIOUS
<1> HIDE DEF x, S
<1>7. LedgerRows \in Seq(S) /\ Len(LedgerRows) = Len(logs)
  BY <1>1, <1>4 DEF LedgerRows
<1>8. LedgerRows' \in Seq(S) /\ Len(LedgerRows') = last
  BY <1>1, <1>3, <1>5 DEF LedgerRows
<1>9. /\ Append(LedgerRows, x) \in Seq(S)
      /\ Len(Append(LedgerRows, x)) = last
      /\ \A i \in 1 .. Len(logs) : Append(LedgerRows, x)[i] = LedgerRows[i]
      /\ Append(LedgerRows, x)[last] = x
  BY <1>1, <1>6, <1>7
<1>10. \A i \in 1 .. Len(logs) : LedgerRows'[i] = LedgerRows[i]
  BY <1>1, <1>3 DEF LedgerRows
<1>11. LedgerRows'[last] = x
  BY <1>1, <1>3 DEF LedgerRows, x
<1>12. \A i \in 1 .. last : LedgerRows'[i] = Append(LedgerRows, x)[i]
  BY <1>1, <1>9, <1>10, <1>11
<1> QED
  BY <1>8, <1>9, <1>12, SeqEqual DEF x

\* The refinement mapping, as functions.
EvidenceMap == [g \in Gateways |-> Evidence(chain[g])]
StatusMap == [r \in Requests |-> Status(r)]

LEMMA LedgerInit == Init => Ledger!Init
<1> SUFFICES ASSUME Init
             PROVE  Ledger!Init
  OBVIOUS
<1>1. \A g \in Gateways : Evidence(chain[g]) = << >>
  BY MarkerType, EvidenceOfNewChain DEF Init
<1>2. LedgerRows = << >>
  <2>1. LedgerRows \in Seq(Nat) /\ Len(LedgerRows) = 0
    BY DEF Init, LedgerRows
  <2> QED
    BY <2>1, EmptySeq
<1>3. \A r \in Requests : Status(r) = "open"
  BY DEF Init, Status
<1> QED
  BY <1>1, <1>2, <1>3 DEF Ledger!Init

\* A step that keeps chains and log and changes at most the status of one
\* request, from open to failed, is a stutter or a Fail of AuditLedger.
LEMMA EarlyStepShown ==
    ASSUME TypeInv, NEW g \in Gateways, NEW r \in Requests,
           \/ Receive(g, r)
           \/ OpaReturns(g, r)
           \/ IssueChallenge(g, r)
           \/ RaiseAlert(g, r)
    PROVE  [Ledger!Next]_(Ledger!vars)
<1>1. chain' = chain /\ logs' = logs
  BY DEF Receive, OpaReturns, IssueChallenge, RaiseAlert, memory, tables
<1>2. /\ Status(r) = "open"
      /\ Status(r)' \in {"open", "failed"}
      /\ \A q \in Requests : q # r => Status(q)' = Status(q)
  BY DEF TypeInv, TypeOK, Receive, OpaReturns, FirstStep, IssueChallenge,
     RaiseAlert, Continue, Finish, Status
<1>3. EvidenceMap' = EvidenceMap /\ LedgerRows' = LedgerRows
  BY <1>1 DEF EvidenceMap, LedgerRows
<1>4. CASE Status(r)' = "open"
  <2>1. StatusMap' = StatusMap
    BY <1>2, <1>4 DEF StatusMap
  <2> QED
    BY <1>3, <2>1 DEF Ledger!vars, EvidenceMap, StatusMap
<1>5. CASE Status(r)' = "failed"
  <2>1. StatusMap' = [StatusMap EXCEPT ![r] = "failed"]
    BY <1>2, <1>5 DEF StatusMap
  <2>2. Ledger!Fail(r)
    BY <1>2, <1>3, <2>1 DEF Ledger!Fail, EvidenceMap, StatusMap
  <2> QED
    BY <2>2 DEF Ledger!Next
<1> QED
  BY <1>2, <1>4, <1>5

\* Adding the block is taking the decision.
LEMMA ChainEntryShown ==
    ASSUME ChainInv, NEW g \in Gateways, NEW r \in Requests, ChainEntry(g, r)
    PROVE  Ledger!Decide(g, r)
<1> DEFINE d == verdict[r].decision
           shown == [request |-> r, decision |-> d]
<1>1. /\ chain[g] \in Seq(Blocks(ChainData))
      /\ Len(chain[g]) >= 1
      /\ Entry(r) \in ChainData
      /\ d \in Decisions
  BY EntryType, OnLoop DEF ChainEntry, ChainInv, ChainOK, TypeInv, TypeOK
<1>2. Shown(Entry(r)) = shown
  BY DEF Shown, Entry
<1>3. Evidence(add_block(chain[g], Entry(r))) =
        Append(Evidence(chain[g]), shown)
  BY <1>1, <1>2, EvidenceOfAddBlock
<1>4. \A h \in Gateways :
        chain'[h] = IF h = g THEN add_block(chain[g], Entry(r)) ELSE chain[h]
  BY DEF ChainEntry, ChainInv, TypeInv, TypeOK
<1>5. EvidenceMap' = [EvidenceMap EXCEPT ![g] = Append(@, shown)]
  BY <1>3, <1>4 DEF EvidenceMap
<1>6. /\ Status(r) = "open"
      /\ Status(r)' = "decided"
      /\ \A q \in Requests : q # r => Status(q)' = Status(q)
  BY DEF ChainInv, TypeInv, TypeOK, ChainEntry, Continue, Status
<1>7. StatusMap' = [StatusMap EXCEPT ![r] = "decided"]
  BY <1>6 DEF StatusMap
<1>8. LedgerRows' = LedgerRows
  BY DEF ChainEntry, tables, LedgerRows
<1> HIDE DEF d
<1> QED
  BY <1>1, <1>5, <1>6, <1>7, <1>8 DEF Ledger!Decide, EvidenceMap, StatusMap

\* Inserting the row is recording the process's last decision; an insert that
\* leaves no row is a failure.
LEMMA CommitLogShown ==
    ASSUME ChainInv, AnchorInv, NEW g \in Gateways, NEW r \in Requests,
           CommitLog(g, r)
    PROVE  Ledger!Record(g, r) \/ Ledger!Fail(r)
<1> DEFINE row == [request |-> r, decision |-> verdict[r].decision,
                   risk |-> risk[r], chain_hash |-> hash[r]]
           c == chain[g]
           seen == Evidence(c)
<1>1. /\ loop[g] = r
      /\ pc[r] = "log"
      /\ row \in AccessLogs
      /\ UNCHANGED <<chain, verdict>>
      /\ \/ logs' = Append(logs, row) /\ pc'[r] \in {"answered", "error"}
         \/ logs' = logs /\ pc'[r] = "error"
      /\ \A q \in Requests : q # r => pc'[q] = pc[q]
  BY CommitLogEffect DEF ChainInv
<1>2. host[r] = g
  BY <1>1, OnLoop DEF ChainInv
<1>3. /\ c \in Seq(Blocks(ChainData))
      /\ Len(c) \in Nat
      /\ Len(c) >= 2
      /\ c[Len(c)].data = Entry(r)
  BY <1>1, <1>2 DEF AnchorInv, PendingOK, ChainInv, TypeInv, TypeOK
<1>4. /\ seen # << >>
      /\ seen[Len(seen)] = Shown(row)
      /\ Shown(row).request = r
  <2>1. Len(seen) = Len(c) - 1 /\ seen \in Seq(ShownData)
    BY <1>3, EvidenceType
  <2>2. Len(c) - 1 \in 1 .. Len(c) - 1 /\ (Len(c) - 1) + 1 = Len(c)
    BY <1>3
  <2>3. seen[Len(c) - 1] = Shown(c[Len(c)].data)
    BY <1>3, <2>2, EvidenceType
  <2>4. Shown(Entry(r)) = Shown(row) /\ Shown(row).request = r
    BY DEF Shown, Entry
  <2>5. seen # << >>
    BY <1>3, <2>1, EmptySeq
  <2> QED
    BY <1>3, <2>1, <2>3, <2>4, <2>5
<1> HIDE DEF row
<1>5. EvidenceMap' = EvidenceMap
  BY <1>1 DEF EvidenceMap
<1>6. /\ Status(r) = "decided"
      /\ \A q \in Requests : q # r => Status(q)' = Status(q)
  BY <1>1 DEF Status
<1>7. pc'[r] \in {"answered", "error"} => Status(r)' \in {"answered", "failed"}
  BY DEF Status
<1>8. StatusMap' = [StatusMap EXCEPT ![r] = Status(r)']
  BY <1>6 DEF StatusMap
<1>9. CASE logs' = Append(logs, row) /\ pc'[r] \in {"answered", "error"}
  <2>1. LedgerRows' = Append(LedgerRows, Shown(row))
    BY <1>1, <1>9, LedgerRowsOfAppend DEF ChainInv
  <2>2. PICK end \in {"answered", "failed"} : Status(r)' = end
    BY <1>7, <1>9
  <2>3. StatusMap' = [StatusMap EXCEPT ![r] = end]
    BY <1>8, <2>2
  <2> HIDE DEF seen
  <2>4. /\ StatusMap[r] = "decided"
        /\ EvidenceMap[g] = seen
    BY <1>6 DEF StatusMap, EvidenceMap, seen
  <2>5. Ledger!Record(g, r)
    BY <1>4, <1>5, <2>1, <2>3, <2>4 DEF Ledger!Record, EvidenceMap, StatusMap
  <2> QED
    BY <2>5
<1>10. CASE logs' = logs /\ pc'[r] = "error"
  <2>1. LedgerRows' = LedgerRows
    BY <1>10 DEF LedgerRows
  <2>2. Status(r)' = "failed"
    BY <1>10 DEF Status
  <2>3. StatusMap' = [StatusMap EXCEPT ![r] = "failed"]
    BY <1>8, <2>2
  <2>4. Ledger!Fail(r)
    BY <1>5, <1>6, <2>1, <2>3 DEF Ledger!Fail, EvidenceMap, StatusMap
  <2> QED
    BY <2>4
<1> QED
  BY <1>1, <1>9, <1>10

\* A crash is a restart that hits the requests the process was handling.
LEMMA CrashShown ==
    ASSUME ChainInv, NEW g \in Gateways, Crash(g)
    PROVE  Ledger!Restart(g)
<1> DEFINE fresh == NewChain(Marker(g, boots[g] + 1))
           hit == {r \in Requests : host[r] = g /\ pc[r] \notin Ended}
<1>1. Evidence(fresh) = << >>
  <2>1. boots[g] + 1 \in Nat
    BY GatewayAssumption DEF ChainInv, TypeInv, TypeOK
  <2> QED
    BY <2>1, MarkerType, EvidenceOfNewChain
<1>2. \A h \in Gateways : chain'[h] = IF h = g THEN fresh ELSE chain[h]
  BY DEF Crash, ChainInv, TypeInv, TypeOK
<1> HIDE DEF fresh
<1>3. EvidenceMap' = [EvidenceMap EXCEPT ![g] = << >>]
  BY <1>1, <1>2 DEF EvidenceMap
<1>4. LedgerRows' = LedgerRows
  BY DEF Crash, tables, LedgerRows
<1>5. \A r \in Requests :
        Status(r)' = IF r \in hit THEN "failed" ELSE Status(r)
  BY DEF Crash, Status
<1>6. \A r \in hit : Status(r) \in {"open", "decided"}
  BY DEF Status, Ended
<1>7. hit \in SUBSET {r \in Requests : StatusMap[r] \in {"open", "decided"}}
  BY <1>6 DEF StatusMap
<1> HIDE DEF hit
<1>8. StatusMap' =
        [r \in Requests |-> IF r \in hit THEN "failed" ELSE StatusMap[r]]
  BY <1>5 DEF StatusMap
<1> QED
  BY <1>3, <1>4, <1>7, <1>8 DEF Ledger!Restart, EvidenceMap, StatusMap

\* Every step of the gateway is a step of the ledger or none.
LEMMA LedgerStep ==
    ChainInv /\ AnchorInv /\ [Next]_vars => [Ledger!Next]_(Ledger!vars)
<1> SUFFICES ASSUME ChainInv, AnchorInv, [Next]_vars
             PROVE  [Ledger!Next]_(Ledger!vars)
  OBVIOUS
<1>1. ASSUME NEW g \in Gateways, NEW r \in Requests,
             Receive(g, r) \/ OpaReturns(g, r) \/ IssueChallenge(g, r)
               \/ RaiseAlert(g, r)
      PROVE  [Ledger!Next]_(Ledger!vars)
  BY <1>1, EarlyStepShown DEF ChainInv
<1>2. ASSUME NEW g \in Gateways, NEW r \in Requests, ChainEntry(g, r)
      PROVE  Ledger!Next
  BY <1>2, ChainEntryShown DEF Ledger!Next
<1>3. ASSUME NEW g \in Gateways, NEW r \in Requests, CommitLog(g, r)
      PROVE  Ledger!Next
  BY <1>3, CommitLogShown DEF Ledger!Next
<1>4. ASSUME NEW g \in Gateways, Crash(g)
      PROVE  Ledger!Next
  BY <1>4, CrashShown DEF Ledger!Next
<1>5. CASE UNCHANGED vars
  <2>1. EvidenceMap' = EvidenceMap
    BY <1>5 DEF vars, memory, EvidenceMap
  <2>2. LedgerRows' = LedgerRows
    BY <1>5 DEF vars, tables, LedgerRows
  <2>3. StatusMap' = StatusMap
    BY <1>5 DEF vars, handler, StatusMap, Status
  <2> QED
    BY <2>1, <2>2, <2>3 DEF Ledger!vars, EvidenceMap, StatusMap
<1> QED
  BY <1>1, <1>2, <1>3, <1>4, <1>5 DEF Next, Step

\* The gateway implements AuditLedger, for any number of processes, requests
\* and restarts: a decision is evidence first, then durable, then answered.
THEOREM ImplementsLedger == Spec => KeepsLedger
  BY LedgerInit, LedgerStep, ChainInvariant, AnchorInvariant, PTL
     DEF Spec, KeepsLedger, Ledger!Spec

-----------------------------------------------------------------------------
(* The evidence behind a decision                                          *)

\* Places of a handler that has done what its decision calls for.
Settled == {"block", "log", "answered", "error"}

\* A settled handler's variables are final but for its hash.
LEMMA SettledKept ==
    ASSUME TypeInv, NEW g \in Gateways, NEW r \in Requests,
           \/ Receive(g, r)
           \/ OpaReturns(g, r)
           \/ IssueChallenge(g, r)
           \/ RaiseAlert(g, r),
           NEW q \in Requests, pc[q] \in Settled
    PROVE  /\ q # r
           /\ pc'[q] = pc[q]
           /\ form'[q] = form[q]
           /\ verdict'[q] = verdict[q]
           /\ otp'[q] = otp[q]
           /\ host'[q] = host[q]
           /\ boot'[q] = boot[q]
           /\ hash'[q] = hash[q]
<1>1. q # r
  BY DEF Settled, Receive, OpaReturns, IssueChallenge, RaiseAlert
<1> QED
  BY <1>1 DEF TypeInv, TypeOK, Receive, OpaReturns, IssueChallenge,
     RaiseAlert, Continue, Finish

\* A table is as long or longer after an insert, and its rows stay.
LEMMA TableGrows ==
    ASSUME NEW Rows, NEW table \in Seq(Rows), NEW row \in Rows,
           NEW after \in Uncertain(table, row)
    PROVE  \A k \in DOMAIN table : k \in DOMAIN after /\ after[k] = table[k]
<1>1. CASE after = table
  BY <1>1
<1>2. CASE after = Append(table, row)
  BY <1>2
<1> QED
  BY <1>1, <1>2 DEF Uncertain

\* The rows of alerts and challenges stay.
Kept(table, after) ==
    \A k \in DOMAIN table : k \in DOMAIN after /\ after[k] = table[k]

LEMMA AlertAppended ==
    ASSUME TypeInv, NEW g \in Gateways, NEW r \in Requests, RaiseAlert(g, r)
    PROVE  /\ pc[r] = "alert" /\ loop[g] = r
           /\ Kept(alerts, alerts')
           /\ challenges' = challenges
           /\ UNCHANGED <<host, boot, form, verdict, otp, boots>>
           /\ failures' = [failures EXCEPT ![g][form[r].user] = @ + 1]
           /\ pc'[r] \in {"block", "error"}
           /\ \A q \in Requests : q # r => pc'[q] = pc[q]
           /\ pc'[r] = "block" =>
                \E k \in DOMAIN alerts' :
                  /\ alerts'[k].request = r
                  /\ alerts'[k].reason = verdict[r].reason
<1> DEFINE row == [request |-> r,
                   alert_type |-> alert_type(verdict[r].reason),
                   severity |-> severity(verdict[r].reason),
                   reason |-> verdict[r].reason]
<1>1. /\ pc[r] = "alert" /\ loop[g] = r
      /\ challenges' = challenges
      /\ UNCHANGED <<host, boot, form, verdict, otp, boots>>
      /\ failures' = [failures EXCEPT ![g][form[r].user] = @ + 1]
      /\ \/ alerts' = Append(alerts, row) /\ Continue(r, "block")
         \/ alerts' \in Uncertain(alerts, row) /\ Finish(g, r, "error")
  BY DEF RaiseAlert
<1>2. row \in Alerts
  BY <1>1, OnLoop, AlertType DEF Alerts
<1>3. row.request = r /\ row.reason = verdict[r].reason
  OBVIOUS
<1> HIDE DEF row
<1>4. /\ alerts \in Seq(Alerts)
      /\ pc \in [Requests -> Waiting \cup Running \cup Ended]
  BY DEF TypeInv, TypeOK
<1>5. alerts' \in Uncertain(alerts, row)
  BY <1>1 DEF Uncertain
<1>6. Kept(alerts, alerts')
  BY <1>2, <1>4, <1>5, TableGrows DEF Kept
<1>7. /\ pc'[r] \in {"block", "error"}
      /\ \A q \in Requests : q # r => pc'[q] = pc[q]
      /\ pc'[r] = "block" => alerts' = Append(alerts, row)
  BY <1>1, <1>4 DEF Continue, Finish
<1>8. alerts' = Append(alerts, row) =>
        Len(alerts) + 1 \in DOMAIN alerts' /\ alerts'[Len(alerts) + 1] = row
  BY <1>2, <1>4
<1> QED
  BY <1>1, <1>3, <1>6, <1>7, <1>8

LEMMA ChallengeAppended ==
    ASSUME TypeInv, NEW g \in Gateways, NEW r \in Requests,
           IssueChallenge(g, r)
    PROVE  /\ pc[r] = "challenge" /\ loop[g] = r
           /\ Kept(challenges, challenges')
           /\ UNCHANGED <<host, boot, form, verdict, boots, failures, alerts>>
           /\ pc'[r] \in {"block", "error"}
           /\ \A q \in Requests : q # r => pc'[q] = pc[q]
           /\ pc'[r] = "block" =>
                /\ otp'[r] \in DOMAIN challenges'
                /\ challenges'[otp'[r]].request = r
                /\ challenges'[otp'[r]].user = form[r].user
<1> DEFINE row == [request |-> r, user |-> form[r].user]
<1>1. /\ pc[r] = "challenge" /\ loop[g] = r
      /\ UNCHANGED <<host, boot, form, verdict, boots, failures, alerts>>
      /\ \/ /\ challenges' = Append(challenges, row) /\ Continue(r, "block")
            /\ otp' = [otp EXCEPT ![r] = Len(challenges) + 1]
         \/ challenges' \in Uncertain(challenges, row) /\ Finish(g, r, "error")
  BY DEF IssueChallenge
<1>2. row \in Challenges
  BY <1>1, OnLoop DEF Challenges
<1>3. row.request = r /\ row.user = form[r].user
  OBVIOUS
<1> HIDE DEF row
<1>4. /\ challenges \in Seq(Challenges)
      /\ pc \in [Requests -> Waiting \cup Running \cup Ended]
      /\ otp \in [Requests -> Nat]
  BY DEF TypeInv, TypeOK
<1>5. challenges' \in Uncertain(challenges, row)
  BY <1>1 DEF Uncertain
<1>6. Kept(challenges, challenges')
  BY <1>2, <1>4, <1>5, TableGrows DEF Kept
<1>7. /\ pc'[r] \in {"block", "error"}
      /\ \A q \in Requests : q # r => pc'[q] = pc[q]
      /\ pc'[r] = "block" => /\ challenges' = Append(challenges, row)
                             /\ otp'[r] = Len(challenges) + 1
  BY <1>1, <1>4 DEF Continue, Finish
<1>8. challenges' = Append(challenges, row) =>
        /\ Len(challenges) + 1 \in DOMAIN challenges'
        /\ challenges'[Len(challenges) + 1] = row
  BY <1>2, <1>4
<1> QED
  BY <1>1, <1>3, <1>6, <1>7, <1>8

\* A request that was denied has its alert, one that was to be stepped up its
\* challenge.
Substantiated(r) ==
    /\ verdict[r].decision = "deny" =>
         \E k \in DOMAIN alerts : /\ alerts[k].request = r
                                  /\ alerts[k].reason = verdict[r].reason
    /\ verdict[r].decision = "challenge_otp" =>
         /\ otp[r] \in DOMAIN challenges
         /\ challenges[otp[r]].request = r
         /\ challenges[otp[r]].user = form[r].user

\* The place of a handler tells its decision, and how far its evidence is.
PlaceOK(r) ==
    /\ pc[r] = "challenge" => verdict[r].decision = "challenge_otp"
    /\ pc[r] = "alert" => verdict[r].decision = "deny"
    /\ pc[r] \in {"block", "log"} => Substantiated(r)

EvidenceInv ==
    /\ \A r \in Requests : PlaceOK(r)
    /\ \A i \in DOMAIN logs :
         /\ logs[i].decision = verdict[logs[i].request].decision
         /\ Substantiated(logs[i].request)

\* Evidence stays: tables keep their rows.
LEMMA SubstantiatedKept ==
    ASSUME NEW q, Substantiated(q), Kept(alerts, alerts'),
           Kept(challenges, challenges'),
           verdict'[q] = verdict[q], form'[q] = form[q], otp'[q] = otp[q]
    PROVE  Substantiated(q)'
<1>1. verdict[q].decision = "deny" =>
        \E k \in DOMAIN alerts' : /\ alerts'[k].request = q
                                  /\ alerts'[k].reason = verdict[q].reason
  BY DEF Substantiated, Kept
<1>2. verdict[q].decision = "challenge_otp" =>
        /\ otp[q] \in DOMAIN challenges'
        /\ challenges'[otp[q]].request = q
        /\ challenges'[otp[q]].user = form[q].user
  BY DEF Substantiated, Kept
<1> QED
  BY <1>1, <1>2 DEF Substantiated

\* What every step but the insertion of a row does to the evidence.
LEMMA EarlyStepEvidence ==
    ASSUME TypeInv, RowsInv, EvidenceInv, NEW g \in Gateways,
           NEW r \in Requests,
           \/ Receive(g, r)
           \/ OpaReturns(g, r)
           \/ IssueChallenge(g, r)
           \/ RaiseAlert(g, r)
    PROVE  EvidenceInv'
<1>1. logs' = logs
  BY DEF Receive, OpaReturns, IssueChallenge, RaiseAlert, tables
<1>2. Kept(alerts, alerts') /\ Kept(challenges, challenges')
  <2>1. CASE Receive(g, r) \/ OpaReturns(g, r)
    BY <2>1 DEF Receive, OpaReturns, tables, Kept
  <2>2. CASE IssueChallenge(g, r)
    BY <2>2, ChallengeAppended DEF Kept
  <2>3. CASE RaiseAlert(g, r)
    BY <2>3, AlertAppended DEF Kept
  <2> QED
    BY <2>1, <2>2, <2>3
<1>3. ASSUME NEW q \in Requests, pc[q] \in Settled, Substantiated(q)
      PROVE  Substantiated(q)' /\ verdict'[q] = verdict[q]
  <2>1. /\ verdict'[q] = verdict[q] /\ form'[q] = form[q]
        /\ otp'[q] = otp[q]
    BY <1>3, SettledKept
  <2> QED
    BY <1>2, <1>3, <2>1, SubstantiatedKept
<1>4. ASSUME NEW i \in DOMAIN logs
      PROVE  /\ logs[i].decision = verdict'[logs[i].request].decision
             /\ Substantiated(logs[i].request)'
  <2>1. logs[i].request \in Requests /\ pc[logs[i].request] \in Settled
    BY RowType DEF RowsInv, RowOK, Settled
  <2> QED
    BY <1>1, <1>3, <2>1 DEF EvidenceInv
<1>5. ASSUME NEW q \in Requests, q # r
      PROVE  PlaceOK(q)'
  <2>1. pc'[q] = pc[q] /\ verdict'[q] = verdict[q]
    BY <1>5 DEF TypeInv, TypeOK, Receive, OpaReturns, IssueChallenge,
       RaiseAlert, Continue, Finish
  <2>2. PlaceOK(q)
    BY DEF EvidenceInv
  <2>3. pc[q] \in {"block", "log"} => Substantiated(q)'
    BY <1>3, <2>2 DEF PlaceOK, Settled
  <2> QED
    BY <2>1, <2>2, <2>3 DEF PlaceOK
<1>6. PlaceOK(r)'
  <2>1. CASE Receive(g, r)
    BY <2>1 DEF TypeInv, TypeOK, Receive, PlaceOK
  <2>2. CASE OpaReturns(g, r)
    <3>1. PICK v : /\ verdict' = [verdict EXCEPT ![r] = v]
                   /\ pc' = [pc EXCEPT ![r] = FirstStep(v.decision)]
      BY <2>2 DEF OpaReturns
    <3>2. verdict'[r] = v /\ pc'[r] = FirstStep(v.decision)
      BY <3>1 DEF TypeInv, TypeOK
    <3> QED
      BY <3>2 DEF FirstStep, PlaceOK, Substantiated
  <2>3. CASE IssueChallenge(g, r)
    <3>1. verdict'[r].decision = "challenge_otp" /\ form'[r] = form[r]
      BY <2>3, ChallengeAppended DEF EvidenceInv, PlaceOK
    <3>2. /\ pc'[r] \in {"block", "error"}
          /\ pc'[r] = "block" =>
                /\ otp'[r] \in DOMAIN challenges'
                /\ challenges'[otp'[r]].request = r
                /\ challenges'[otp'[r]].user = form[r].user
      BY <2>3, ChallengeAppended
    <3> QED
      BY <3>1, <3>2 DEF PlaceOK, Substantiated
  <2>4. CASE RaiseAlert(g, r)
    <3>1. verdict'[r].decision = "deny" /\ verdict'[r] = verdict[r]
      BY <2>4, AlertAppended DEF EvidenceInv, PlaceOK
    <3>2. /\ pc'[r] \in {"block", "error"}
          /\ pc'[r] = "block" =>
                \E k \in DOMAIN alerts' :
                  /\ alerts'[k].request = r
                  /\ alerts'[k].reason = verdict[r].reason
      BY <2>4, AlertAppended
    <3> QED
      BY <3>1, <3>2 DEF PlaceOK, Substantiated
  <2> QED
    BY <2>1, <2>2, <2>3, <2>4
<1> QED
  BY <1>1, <1>4, <1>5, <1>6 DEF EvidenceInv

\* Adding a block touches no table.
LEMMA ChainEntryEvidence ==
    ASSUME TypeInv, EvidenceInv, NEW g \in Gateways, NEW r \in Requests,
           ChainEntry(g, r)
    PROVE  EvidenceInv'
<1>1. /\ pc[r] = "block" /\ pc' = [pc EXCEPT ![r] = "log"]
      /\ UNCHANGED <<verdict, form, otp, challenges, alerts, logs>>
  BY DEF ChainEntry, Continue, tables
<1>2. \A q \in Requests : pc'[q] = IF q = r THEN "log" ELSE pc[q]
  BY <1>1 DEF TypeInv, TypeOK
<1>3. ASSUME NEW q \in Requests
      PROVE  PlaceOK(q)'
  <2>1. PlaceOK(q)
    BY DEF EvidenceInv
  <2> QED
    BY <1>1, <1>2, <2>1 DEF PlaceOK, Substantiated
<1>4. \A i \in DOMAIN logs' :
        /\ logs'[i].decision = verdict'[logs'[i].request].decision
        /\ Substantiated(logs[i].request)'
  BY <1>1 DEF EvidenceInv, Substantiated
<1> QED
  BY <1>3, <1>4 DEF EvidenceInv

\* The row that is inserted is that of a handler with its evidence.
LEMMA CommitLogEvidence ==
    ASSUME TypeInv, EvidenceInv, NEW g \in Gateways, NEW r \in Requests,
           CommitLog(g, r)
    PROVE  EvidenceInv'
<1> DEFINE row == [request |-> r, decision |-> verdict[r].decision,
                   risk |-> risk[r], chain_hash |-> hash[r]]
<1>1. /\ pc[r] = "log"
      /\ row \in AccessLogs
      /\ \/ logs' = Append(logs, row)
         \/ logs' = logs
      /\ pc'[r] \in {"answered", "error"}
      /\ \A q \in Requests : q # r => pc'[q] = pc[q]
  BY CommitLogEffect
<1>2. UNCHANGED <<verdict, form, otp, challenges, alerts>>
  BY DEF CommitLog
<1>3. row.request = r /\ row.decision = verdict[r].decision
  OBVIOUS
<1> HIDE DEF row
<1>4. Substantiated(r)
  BY <1>1 DEF EvidenceInv, PlaceOK
<1>5. ASSUME NEW q, Substantiated(q)
      PROVE  Substantiated(q)'
  BY <1>2, <1>5 DEF Substantiated
<1>6. ASSUME NEW q \in Requests
      PROVE  PlaceOK(q)'
  <2>1. PlaceOK(q)
    BY DEF EvidenceInv
  <2> QED
    BY <1>1, <1>2, <1>5, <2>1 DEF PlaceOK
<1>7. ASSUME NEW i \in DOMAIN logs', NEW q, q = logs'[i].request
      PROVE  logs'[i].decision = verdict[q].decision /\ Substantiated(q)
  <2>1. CASE i \in DOMAIN logs /\ logs'[i] = logs[i]
    BY <1>7, <2>1 DEF EvidenceInv
  <2>2. CASE logs'[i] = row
    BY <1>3, <1>4, <1>7, <2>2
  <2> QED
    BY <1>1, <2>1, <2>2, AppendRow
<1>8. \A i \in DOMAIN logs' :
        /\ logs'[i].decision = verdict'[logs'[i].request].decision
        /\ Substantiated(logs[i].request)'
  BY <1>2, <1>5, <1>7
<1> QED
  BY <1>6, <1>8 DEF EvidenceInv

\* Every step keeps EvidenceInv; a crash keeps the evidence with the tables.
LEMMA EvidenceStep ==
    ChainInv /\ RowsInv /\ EvidenceInv /\ [Next]_vars => EvidenceInv'
<1> SUFFICES ASSUME ChainInv, RowsInv, EvidenceInv, [Next]_vars
             PROVE  EvidenceInv'
  OBVIOUS
<1>1. ASSUME NEW g \in Gateways, NEW r \in Requests,
             Receive(g, r) \/ OpaReturns(g, r) \/ IssueChallenge(g, r)
               \/ RaiseAlert(g, r)
      PROVE  EvidenceInv'
  BY <1>1, EarlyStepEvidence DEF ChainInv
<1>2. ASSUME NEW g \in Gateways, NEW r \in Requests, ChainEntry(g, r)
      PROVE  EvidenceInv'
  BY <1>2, ChainEntryEvidence DEF ChainInv
<1>3. ASSUME NEW g \in Gateways, NEW r \in Requests, CommitLog(g, r)
      PROVE  EvidenceInv'
  BY <1>3, CommitLogEvidence DEF ChainInv
<1>4. ASSUME NEW g \in Gateways, Crash(g)
      PROVE  EvidenceInv'
  <2>1. UNCHANGED <<verdict, form, otp, challenges, alerts, logs>>
    BY <1>4 DEF Crash, tables
  <2>2. \A q \in Requests : pc'[q] = "lost" \/ pc'[q] = pc[q]
    BY <1>4 DEF Crash
  <2> QED
    BY <2>1, <2>2 DEF EvidenceInv, PlaceOK, Substantiated
<1>5. CASE UNCHANGED vars
  BY <1>5 DEF vars, handler, tables, EvidenceInv, PlaceOK, Substantiated
<1> QED
  BY <1>1, <1>2, <1>3, <1>4, <1>5 DEF Next, Step

LEMMA EvidenceInit == Init => EvidenceInv
  BY DEF Init, EvidenceInv, PlaceOK

LEMMA EvidenceInvariant == Spec => []EvidenceInv
  BY EvidenceInit, EvidenceStep, ChainInvariant, RowsInvariant, PTL DEF Spec

\* A logged denial has its alert and a logged step-up its challenge, however
\* processes crash and whatever commits raise.
THEOREM LogsAlwaysHaveEvidence == Spec => []LogsHaveEvidence
<1>1. EvidenceInv => LogsHaveEvidence
  BY DEF EvidenceInv, Substantiated, LogsHaveEvidence
<1> QED
  BY <1>1, EvidenceInvariant, PTL

-----------------------------------------------------------------------------
(* Blocks without a row                                                    *)

\* The handler behind a block belongs to the chain's process and to its present
\* run, has the block's hash and is past the block.
Behind(g, n) ==
    LET r == chain[g][n].data.request
    IN  /\ r \in Requests
        /\ host[r] = g
        /\ boot[r] = boots[g]
        /\ hash[r] = chain[g][n].hash
        /\ pc[r] \in {"log", "answered", "error"}

BlocksInv == \A g \in Gateways : \A n \in 2 .. Len(chain[g]) : Behind(g, n)

LEMMA BlocksStep == ChainInv /\ BlocksInv /\ [Next]_vars => BlocksInv'
<1> SUFFICES ASSUME ChainInv, BlocksInv, [Next]_vars
             PROVE  BlocksInv'
  OBVIOUS
<1> USE DEF ChainInv
<1>1. ASSUME NEW g \in Gateways, NEW r \in Requests,
             Receive(g, r) \/ OpaReturns(g, r) \/ IssueChallenge(g, r)
               \/ RaiseAlert(g, r)
      PROVE  BlocksInv'
  <2>1. chain' = chain /\ boots' = boots
    BY <1>1, OtherStepsKeepChains
  <2>2. \A q \in Requests : pc[q] \in {"log", "answered", "error"} =>
          /\ host'[q] = host[q] /\ boot'[q] = boot[q]
          /\ hash'[q] = hash[q] /\ pc'[q] = pc[q]
    BY <1>1, SettledKept DEF Settled
  <2> QED
    BY <2>1, <2>2 DEF BlocksInv, Behind
<1>2. ASSUME NEW g \in Gateways, NEW r \in Requests, ChainEntry(g, r)
      PROVE  BlocksInv'
  <2> DEFINE entry == Entry(r)
             after == add_block(chain[g], entry)
  <2>1. /\ chain[g] \in Seq(Blocks(ChainData))
        /\ Len(chain[g]) >= 1
        /\ entry \in ChainData
        /\ host[r] = g /\ boot[r] = boots[g]
    BY <1>2, EntryType, OnLoop DEF ChainEntry, ChainOK, TypeInv, TypeOK
  <2>2. /\ Len(chain[g]) \in Nat
        /\ Len(after) = Len(chain[g]) + 1
        /\ \A n \in 1 .. Len(chain[g]) : after[n] = chain[g][n]
        /\ after[Len(chain[g]) + 1] = NextBlock(chain[g], entry)
        /\ NextBlock(chain[g], entry).data = entry
    BY <2>1, AddBlockType, NextBlockType
  <2>3. entry.request = r
    BY DEF Entry
  <2>4. /\ chain' = [chain EXCEPT ![g] = after]
        /\ hash' = [hash EXCEPT ![r] = NextBlock(chain[g], entry).hash]
        /\ pc[r] = "block" /\ pc' = [pc EXCEPT ![r] = "log"]
        /\ UNCHANGED <<boots, host, boot>>
    BY <1>2 DEF ChainEntry, Continue
  <2> HIDE DEF after, entry
  <2>5. /\ \A h \in Gateways : chain'[h] = IF h = g THEN after ELSE chain[h]
        /\ \A q \in Requests :
             /\ hash'[q] = IF q = r THEN NextBlock(chain[g], entry).hash
                                    ELSE hash[q]
             /\ pc'[q] = IF q = r THEN "log" ELSE pc[q]
    BY <2>4 DEF TypeInv, TypeOK
  <2>6. ASSUME NEW h \in Gateways, NEW n \in 2 .. Len(chain'[h])
        PROVE  Behind(h, n)'
    <3>1. CASE n \in 2 .. Len(chain[h]) /\ chain'[h][n] = chain[h][n]
      <4>1. Behind(h, n)
        BY <3>1 DEF BlocksInv
      <4>2. chain[h][n].data.request # r
        BY <2>4, <4>1 DEF Behind
      <4> QED
        BY <2>4, <2>5, <3>1, <4>1, <4>2 DEF Behind
    <3>2. CASE h = g /\ n = Len(chain[g]) + 1
      <4>1. chain'[h][n].data.request = r
        BY <2>2, <2>3, <2>5, <3>2
      <4>2. chain'[h][n].hash = NextBlock(chain[g], entry).hash
        BY <2>2, <2>5, <3>2
      <4> QED
        BY <2>1, <2>4, <2>5, <3>2, <4>1, <4>2 DEF Behind
    <3> QED
      BY <2>2, <2>5, <3>1, <3>2
  <2> QED
    BY <2>6 DEF BlocksInv
<1>3. ASSUME NEW g \in Gateways, NEW r \in Requests, CommitLog(g, r)
      PROVE  BlocksInv'
  <2>1. /\ UNCHANGED <<chain, boots, host, boot, hash>>
        /\ pc'[r] \in {"answered", "error"}
        /\ \A q \in Requests : q # r => pc'[q] = pc[q]
    BY <1>3, CommitLogEffect DEF CommitLog
  <2> QED
    BY <2>1 DEF BlocksInv, Behind
<1>4. ASSUME NEW g \in Gateways, Crash(g)
      PROVE  BlocksInv'
  <2>1. /\ \A h \in Gateways :
             h # g => chain'[h] = chain[h] /\ boots'[h] = boots[h]
        /\ chain'[g] = NewChain(Marker(g, boots[g] + 1))
        /\ UNCHANGED <<host, boot, hash>>
    BY <1>4 DEF Crash, TypeInv, TypeOK
  <2>2. boots[g] + 1 \in Nat
    BY DEF TypeInv, TypeOK
  <2>3. 2 .. Len(chain'[g]) = {}
    <3>1. Len(chain'[g]) = 1
      BY <2>1, <2>2, MarkerType, NewChainType
    <3> QED
      BY <3>1
  <2>4. \A q \in Requests : host[q] # g => pc'[q] = pc[q]
    BY <1>4 DEF Crash
  <2>5. ASSUME NEW h \in Gateways, NEW n \in 2 .. Len(chain'[h])
        PROVE  Behind(h, n)'
    <3>1. h # g
      BY <2>3
    <3>2. Behind(h, n)
      BY <2>1, <3>1 DEF BlocksInv
    <3> QED
      BY <2>1, <2>4, <3>1, <3>2 DEF Behind
  <2> QED
    BY <2>5 DEF BlocksInv
<1>5. CASE UNCHANGED vars
  BY <1>5 DEF vars, memory, handler, BlocksInv, Behind
<1> QED
  BY <1>1, <1>2, <1>3, <1>4, <1>5 DEF Next, Step

LEMMA BlocksInit == Init => BlocksInv
<1> SUFFICES ASSUME Init, NEW g \in Gateways
             PROVE  Len(chain[g]) = 1
  BY DEF BlocksInv
<1>1. chain[g] = NewChain(Marker(g, 0))
  BY DEF Init
<1> QED
  BY <1>1, MarkerType, NewChainType

LEMMA BlocksInvariant == Spec => []BlocksInv
  BY BlocksInit, BlocksStep, ChainInvariant, PTL DEF Spec

\* A block whose decision is not in the log belongs to a handler that has not
\* tried to insert its row yet, or whose client got an error.
THEOREM OrphansAlwaysExplained == Spec => []OrphanBlocksExplained
<1>1. RowsInv /\ BlocksInv => OrphanBlocksExplained
  BY DEF RowsInv, RowOf, BlocksInv, Behind, OrphanBlocksExplained
<1> QED
  BY <1>1, RowsInvariant, BlocksInvariant, PTL

-----------------------------------------------------------------------------
(* The denial counters                                                     *)

\* A handler belongs to a run of its process that is not to come; together
\* with a finite number of counted denials this makes the count inductive.
CountInv ==
    /\ \A r \in Requests : host[r] \in Gateways => boot[r] <= boots[host[r]]
    /\ \A g \in Gateways, u \in Users : IsFiniteSet(Denials(g, u))
    /\ FailuresCountDenials

\* A step in which no request becomes, or ceases to be, a counted denial.
LEMMA SameDenials ==
    ASSUME CountInv, UNCHANGED failures,
           \A g \in Gateways, u \in Users : Denials(g, u)' = Denials(g, u),
           \A r \in Requests :
             host'[r] \in Gateways => boot'[r] <= boots'[host'[r]]
    PROVE  CountInv'
  BY DEF CountInv, FailuresCountDenials

\* The steps in which a handler neither reaches nor leaves the places where
\* its denial counts.
LEMMA UncountedStep ==
    ASSUME TypeInv, EvidenceInv, CountInv, NEW g \in Gateways,
           NEW r \in Requests,
           \/ Receive(g, r)
           \/ OpaReturns(g, r)
           \/ IssueChallenge(g, r)
           \/ ChainEntry(g, r)
           \/ CommitLog(g, r)
    PROVE  CountInv'
<1>1. boots' = boots /\ failures' = failures
  BY DEF Receive, OpaReturns, IssueChallenge, ChainEntry, CommitLog, memory
<1>2. \A q \in Requests : q # r =>
        /\ pc'[q] = pc[q] /\ host'[q] = host[q] /\ boot'[q] = boot[q]
        /\ form'[q] = form[q] /\ verdict'[q] = verdict[q]
  BY DEF TypeInv, TypeOK, Receive, OpaReturns, IssueChallenge, ChainEntry,
     CommitLog, Continue, Finish
<1>3. ASSUME NEW h \in Gateways, NEW u \in Users
      PROVE  r \in Denials(h, u)' <=> r \in Denials(h, u)
  <2>1. CASE Receive(g, r)
    BY <2>1 DEF TypeInv, TypeOK, Receive, Denials
  <2>2. CASE OpaReturns(g, r)
    <3>1. PICK v : /\ verdict' = [verdict EXCEPT ![r] = v]
                   /\ pc' = [pc EXCEPT ![r] = FirstStep(v.decision)]
      BY <2>2 DEF OpaReturns
    <3>2. verdict'[r] = v /\ pc'[r] = FirstStep(v.decision)
      BY <3>1 DEF TypeInv, TypeOK
    <3>3. pc'[r] = "block" => verdict'[r].decision # "deny"
      BY <3>2 DEF FirstStep
    <3>4. pc'[r] \in {"challenge", "alert", "block"} /\ pc[r] = "awaiting"
      BY <2>2, <3>2 DEF FirstStep, OpaReturns
    <3> QED
      BY <3>3, <3>4 DEF Denials
  <2>3. CASE IssueChallenge(g, r)
    <3>1. verdict'[r].decision = "challenge_otp" /\ pc[r] = "challenge"
      BY <2>3, ChallengeAppended DEF EvidenceInv, PlaceOK
    <3> QED
      BY <3>1 DEF Denials
  <2>4. CASE ChainEntry(g, r)
    <3>1. /\ pc[r] = "block" /\ pc'[r] = "log"
          /\ UNCHANGED <<host, boot, form, verdict>>
      BY <2>4 DEF TypeInv, TypeOK, ChainEntry, Continue
    <3> QED
      BY <1>1, <3>1 DEF Denials
  <2>5. CASE CommitLog(g, r)
    <3>1. /\ pc[r] = "log" /\ pc'[r] \in {"answered", "error"}
      BY <2>5, CommitLogEffect
    <3>2. UNCHANGED <<host, boot, form, verdict>>
      BY <2>5 DEF CommitLog
    <3> QED
      BY <1>1, <3>1, <3>2 DEF Denials
  <2> QED
    BY <2>1, <2>2, <2>3, <2>4, <2>5
<1>4. ASSUME NEW h \in Gateways, NEW u \in Users
      PROVE  Denials(h, u)' = Denials(h, u)
  <2>1. ASSUME NEW q \in Requests, q # r
        PROVE  q \in Denials(h, u)' <=> q \in Denials(h, u)
    BY <1>1, <1>2, <2>1 DEF Denials
  <2>2. Denials(h, u)' \subseteq Requests /\ Denials(h, u) \subseteq Requests
    BY DEF Denials
  <2> QED
    BY <1>3, <2>1, <2>2
<1>5. ASSUME NEW q \in Requests, host'[q] \in Gateways
      PROVE  boot'[q] <= boots'[host'[q]]
  <2>1. CASE q # r
    BY <1>1, <1>2, <1>5, <2>1 DEF CountInv
  <2>2. CASE q = r /\ Receive(g, r)
    BY <2>2 DEF TypeInv, TypeOK, Receive, memory
  <2>3. CASE q = r /\ ~Receive(g, r)
    <3>1. host' = host /\ boot' = boot
      BY <2>3 DEF OpaReturns, IssueChallenge, ChainEntry, CommitLog
    <3> QED
      BY <1>1, <1>5, <3>1 DEF CountInv
  <2> QED
    BY <2>1, <2>2, <2>3
<1> QED
  BY <1>1, <1>4, <1>5, SameDenials

\* Counting a denial adds its request to those that count.
LEMMA RaiseAlertCounts ==
    ASSUME TypeInv, EvidenceInv, CountInv, NEW g \in Gateways,
           NEW r \in Requests, RaiseAlert(g, r)
    PROVE  CountInv'
<1> DEFINE user == form[r].user
<1>1. /\ pc[r] = "alert" /\ pc'[r] \in {"block", "error"}
      /\ UNCHANGED <<host, boot, form, verdict, boots>>
      /\ failures' = [failures EXCEPT ![g][form[r].user] = @ + 1]
      /\ \A q \in Requests : q # r => pc'[q] = pc[q]
  BY AlertAppended
<1>2. /\ host[r] = g /\ boot[r] = boots[g] /\ user \in Users
      /\ verdict[r].decision = "deny"
  BY <1>1, AlertAppended, OnLoop DEF EvidenceInv, PlaceOK
<1>3. ASSUME NEW h \in Gateways, NEW u \in Users
      PROVE  /\ r \notin Denials(h, u)
             /\ Denials(h, u)' = IF h = g /\ u = user
                                   THEN Denials(h, u) \cup {r}
                                   ELSE Denials(h, u)
  <2>1. ASSUME NEW q \in Requests, q # r
        PROVE  q \in Denials(h, u)' <=> q \in Denials(h, u)
    BY <1>1, <2>1 DEF Denials
  <2>2. r \in Denials(h, u)' <=> h = g /\ u = user
    BY <1>1, <1>2 DEF Denials
  <2>3. r \notin Denials(h, u)
    BY <1>1 DEF Denials
  <2>4. Denials(h, u)' \subseteq Requests /\ Denials(h, u) \subseteq Requests
    BY DEF Denials
  <2> QED
    BY <2>1, <2>2, <2>3, <2>4
<1>4. ASSUME NEW h \in Gateways, NEW u \in Users
      PROVE  /\ IsFiniteSet(Denials(h, u)')
             /\ failures'[h][u] = Cardinality(Denials(h, u)')
  <2>1. /\ IsFiniteSet(Denials(h, u))
        /\ failures[h][u] = Cardinality(Denials(h, u))
    BY DEF CountInv, FailuresCountDenials
  <2>2. failures'[h][u] = IF h = g /\ u = user THEN failures[h][u] + 1
                                               ELSE failures[h][u]
    BY <1>1, <1>2 DEF TypeInv, TypeOK
  <2>3. CASE h = g /\ u = user
    <3> DEFINE D == Denials(h, u)
    <3>1. r \notin D /\ Denials(h, u)' = D \cup {r} /\ IsFiniteSet(D)
      BY <1>3, <2>1, <2>3
    <3> HIDE DEF D
    <3>2. /\ IsFiniteSet(D \cup {r})
          /\ Cardinality(D \cup {r}) = Cardinality(D) + 1
      BY <3>1, FS_AddElement
    <3> QED
      BY <2>1, <2>2, <2>3, <3>1, <3>2 DEF D
  <2>4. CASE ~(h = g /\ u = user)
    BY <1>3, <2>1, <2>2, <2>4
  <2> QED
    BY <2>3, <2>4
<1> QED
  BY <1>1, <1>4 DEF CountInv, FailuresCountDenials

\* A restart forgets the denials: none is counted of a new run.
LEMMA CrashCounts ==
    ASSUME TypeInv, CountInv, NEW g \in Gateways, Crash(g)
    PROVE  CountInv'
<1>1. /\ UNCHANGED <<host, boot, form, verdict>>
      /\ \A h \in Gateways :
           /\ boots'[h] = IF h = g THEN boots[g] + 1 ELSE boots[h]
           /\ failures'[h] = IF h = g THEN [u \in Users |-> 0] ELSE failures[h]
      /\ \A q \in Requests : host[q] # g => pc'[q] = pc[q]
  BY DEF TypeInv, TypeOK, Crash
<1>2. \A h \in Gateways : boots[h] \in Nat
  BY DEF TypeInv, TypeOK
<1>3. \A q \in Requests : boot[q] \in Nat
  BY DEF TypeInv, TypeOK
<1>4. ASSUME NEW q \in Requests, host'[q] \in Gateways
      PROVE  boot'[q] <= boots'[host'[q]]
  <2>1. boot[q] <= boots[host[q]] /\ host[q] \in Gateways
    BY <1>1, <1>4 DEF CountInv
  <2> QED
    BY <1>1, <1>2, <1>3, <2>1
<1>5. ASSUME NEW u \in Users
      PROVE  Denials(g, u)' = {}
  <2>1. \A q \in Requests : host[q] = g => boot[q] <= boots[g]
    BY DEF CountInv
  <2>2. \A q \in Requests : host'[q] = g => boot'[q] # boots'[g]
    BY <1>1, <1>2, <1>3, <2>1
  <2> QED
    BY <2>2 DEF Denials
<1>6. ASSUME NEW h \in Gateways, NEW u \in Users, h # g
      PROVE  Denials(h, u)' = Denials(h, u)
  BY <1>1, <1>6 DEF Denials
<1>7. ASSUME NEW h \in Gateways, NEW u \in Users
      PROVE  /\ IsFiniteSet(Denials(h, u)')
             /\ failures'[h][u] = Cardinality(Denials(h, u)')
  <2>1. CASE h = g
    BY <1>1, <1>5, <2>1, FS_EmptySet
  <2>2. CASE h # g
    BY <1>1, <1>6, <2>2 DEF CountInv, FailuresCountDenials
  <2> QED
    BY <2>1, <2>2
<1> QED
  BY <1>4, <1>7 DEF CountInv, FailuresCountDenials

LEMMA CountInit == Init => CountInv
<1> SUFFICES ASSUME Init
             PROVE  CountInv
  OBVIOUS
<1>1. \A g \in Gateways, u \in Users : Denials(g, u) = {}
  BY DEF Init, Denials
<1>2. \A r \in Requests : host[r] \in Gateways => boot[r] <= boots[host[r]]
  BY DEF Init
<1> QED
  BY <1>1, <1>2, FS_EmptySet DEF Init, CountInv, FailuresCountDenials

LEMMA CountStep ==
    ChainInv /\ EvidenceInv /\ CountInv /\ [Next]_vars => CountInv'
<1> SUFFICES ASSUME ChainInv, EvidenceInv, CountInv, [Next]_vars
             PROVE  CountInv'
  OBVIOUS
<1>1. TypeInv
  BY DEF ChainInv
<1>2. ASSUME NEW g \in Gateways, NEW r \in Requests,
             Receive(g, r) \/ OpaReturns(g, r) \/ IssueChallenge(g, r)
               \/ ChainEntry(g, r) \/ CommitLog(g, r)
      PROVE  CountInv'
  BY <1>1, <1>2, UncountedStep
<1>3. ASSUME NEW g \in Gateways, NEW r \in Requests, RaiseAlert(g, r)
      PROVE  CountInv'
  BY <1>1, <1>3, RaiseAlertCounts
<1>4. ASSUME NEW g \in Gateways, Crash(g)
      PROVE  CountInv'
  BY <1>1, <1>4, CrashCounts
<1>5. CASE UNCHANGED vars
  BY <1>5, SameDenials DEF vars, memory, handler, CountInv, Denials
<1> QED
  BY <1>2, <1>3, <1>4, <1>5 DEF Next, Step

LEMMA CountInvariant == Spec => []CountInv
  BY CountInit, CountStep, ChainInvariant, EvidenceInvariant, PTL DEF Spec

\* Whatever handlers interleave and whatever commits raise, the counter of a
\* user is the number of denials the process decided since it was started.
THEOREM FailuresAlwaysCountDenials == Spec => []FailuresCountDenials
<1>1. CountInv => FailuresCountDenials
  BY DEF CountInv
<1> QED
  BY <1>1, CountInvariant, PTL

-----------------------------------------------------------------------------
(* What a score counts                                                     *)

\* One denial more never lowers a score.
LEMMA RiskGrows ==
    ASSUME NEW f \in Forms, NEW hour \in HoursSeen, NEW m \in Nat,
           NEW n \in Nat, m <= n
    PROVE  RequestRisk(f, hour, n) >= RequestRisk(f, hour, m)
<1> DEFINE base == ip_reputation(f.ip) + user_agent_risk(f.agent)
                     + time_of_day_risk(hour)
                     + resource_sensitivity(f.resource)
                     + action_type_risk(f.action)
<1>1. base \in Int /\ f.metadata_risk \in Int
  BY GatewayAssumption DEF ip_reputation, user_agent_risk, time_of_day_risk,
     resource_sensitivity, action_type_risk, Plus
<1>2. /\ repeated_failures(m) \in Nat
      /\ repeated_failures(n) \in Nat
      /\ repeated_failures(n) >= repeated_failures(m)
  BY DEF repeated_failures
<1>3. /\ calculate_risk(f, hour, m) =
           LET score == base + repeated_failures(m)
           IN  IF score > 100 THEN 100 ELSE score
      /\ calculate_risk(f, hour, n) =
           LET score == base + repeated_failures(n)
           IN  IF score > 100 THEN 100 ELSE score
  BY DEF calculate_risk
<1> HIDE DEF base
<1>4. /\ calculate_risk(f, hour, m) \in Int
      /\ calculate_risk(f, hour, n) \in Int
      /\ calculate_risk(f, hour, n) >= calculate_risk(f, hour, m)
  BY <1>1, <1>2, <1>3
<1> QED
  BY <1>1, <1>4 DEF RequestRisk

\* The denials a process has in the log since its start are among those it
\* counts: a row's block tells that its handler belongs to the present run.
LEMMA DeniedRowsCounted ==
    ASSUME RowsInv, LogsAnchored, BlocksInv, EvidenceInv, CountInv, TypeInv,
           NEW g \in Gateways, NEW u \in Users
    PROVE  /\ Cardinality(DeniedRows(g, u)) \in Nat
           /\ Cardinality(DeniedRows(g, u)) <= failures[g][u]
<1> DEFINE R == DeniedRows(g, u)
           D == Denials(g, u)
           of == [i \in R |-> logs[i].request]
<1>1. ASSUME NEW i \in R
      PROVE  i \in DOMAIN logs /\ logs[i].request \in D
  <2>1. /\ i \in DOMAIN logs
        /\ Origin(logs[i].chain_hash) = Marker(g, boots[g])
        /\ form[logs[i].request].user = u
        /\ logs[i].decision = "deny"
    BY DEF DeniedRows
  <2>2. PICK n \in 2 .. Len(chain[g]) :
          chain[g][n].data.request = logs[i].request
    BY <2>1 DEF LogsAnchored
  <2>3. /\ logs[i].request \in Requests
        /\ host[logs[i].request] = g
        /\ boot[logs[i].request] = boots[g]
    BY <2>2 DEF BlocksInv, Behind
  <2>4. /\ pc[logs[i].request] \in {"answered", "error"}
        /\ verdict[logs[i].request].decision = "deny"
    BY <2>1 DEF RowsInv, RowOK, EvidenceInv
  <2> QED
    BY <2>1, <2>3, <2>4 DEF Denials
<1>2. \A i, j \in R : logs[i].request = logs[j].request => i = j
  BY <1>1 DEF RowsInv
<1>3. IsFiniteSet(D) /\ failures[g][u] = Cardinality(D)
  BY DEF CountInv, FailuresCountDenials
<1> HIDE DEF R, D
<1>4. of \in Injection(R, D)
  BY <1>1, <1>2 DEF Injection, IsInjective
<1> HIDE DEF of
<1>5. IsFiniteSet(R) /\ Cardinality(R) <= Cardinality(D)
  BY <1>3, <1>4, FS_Injection
<1>6. Cardinality(R) \in Nat
  BY <1>5, FS_CardinalityType
<1> QED
  BY <1>3, <1>5, <1>6 DEF R

\* Only the arrival of a request moves it from "new" to "awaiting".
LEMMA ArrivalIsReceive ==
    ASSUME TypeInv, Next, NEW g \in Gateways, NEW r \in Requests,
           pc[r] = "new", pc'[r] = "awaiting", host'[r] = g
    PROVE  Receive(g, r)
<1>1. ASSUME NEW h \in Gateways, NEW q \in Requests,
             OpaReturns(h, q) \/ Step(h, q)
      PROVE  FALSE
  <2>1. CASE q = r
    BY <1>1, <2>1 DEF OpaReturns, Step, IssueChallenge, RaiseAlert,
       ChainEntry, CommitLog
  <2>2. CASE q # r
    <3>1. pc'[r] = pc[r]
      BY <1>1, <2>2 DEF TypeInv, TypeOK, OpaReturns, Step, IssueChallenge,
         RaiseAlert, ChainEntry, CommitLog, Continue, Finish
    <3> QED
      BY <3>1
  <2> QED
    BY <2>1, <2>2
<1>2. ASSUME NEW h \in Gateways, Crash(h)
      PROVE  FALSE
  BY <1>2 DEF Crash
<1>3. PICK h \in Gateways, q \in Requests : Receive(h, q)
  BY <1>1, <1>2 DEF Next
<1>4. q = r /\ host'[q] = h
  BY <1>3 DEF TypeInv, TypeOK, Receive
<1> QED
  BY <1>3, <1>4

\* A score counts every denial its process had logged of the user: only those
\* decided while the request waits can escape it.
THEOREM AnsweredDenialsAlwaysWeigh == Spec => AnsweredDenialsWeighIn
<1> DEFINE All == /\ ChainInv /\ RowsInv /\ AnchorInv
                  /\ EvidenceInv /\ BlocksInv /\ CountInv
           Weigh(g, r) ==
             pc[r] = "new" /\ pc'[r] = "awaiting" /\ host'[r] = g =>
               \E hour \in HoursSeen :
                 risk'[r] >= RequestRisk(form'[r], hour,
                               Cardinality(DeniedRows(g, form'[r].user)))
<1>1. All /\ [Next]_vars =>
        [\A g \in Gateways, r \in Requests : Weigh(g, r)]_vars
  <2> SUFFICES ASSUME All, Next, NEW g \in Gateways, NEW r \in Requests,
                      pc[r] = "new", pc'[r] = "awaiting", host'[r] = g
               PROVE  \E hour \in HoursSeen :
                        risk'[r] >=
                          RequestRisk(form'[r], hour,
                            Cardinality(DeniedRows(g, form'[r].user)))
    OBVIOUS
  <2>1. TypeInv
    BY DEF ChainInv
  <2>2. Receive(g, r)
    BY <2>1, ArrivalIsReceive
  <2>3. PICK f \in Forms, hour \in HoursSeen :
          /\ form' = [form EXCEPT ![r] = f]
          /\ risk' = [risk EXCEPT ![r] =
                        RequestRisk(f, hour, failures[g][f.user])]
    BY <2>2 DEF Receive
  <2>4. /\ form'[r] = f
        /\ risk'[r] = RequestRisk(f, hour, failures[g][f.user])
        /\ f.user \in Users
        /\ failures[g][f.user] \in Nat
    BY <2>1, <2>3, GatewayAssumption DEF TypeInv, TypeOK
  <2>5. LogsAnchored
    BY DEF AnchorInv
  <2>6. /\ Cardinality(DeniedRows(g, f.user)) \in Nat
        /\ Cardinality(DeniedRows(g, f.user)) <= failures[g][f.user]
    BY <2>1, <2>4, <2>5, DeniedRowsCounted
  <2>7. risk'[r] >= RequestRisk(f, hour, Cardinality(DeniedRows(g, f.user)))
    BY <2>4, <2>6, RiskGrows
  <2> QED
    BY <2>4, <2>7
<1>2. Spec => []CountInv
  BY CountInvariant
<1> QED
  BY <1>1, <1>2, ChainInvariant, RowsInvariant, AnchorInvariant,
     EvidenceInvariant, BlocksInvariant, PTL DEF Spec, AnsweredDenialsWeighIn

-----------------------------------------------------------------------------
(* Nothing is taken back                                                   *)

\* A sequence with one more element extends the one before.
LEMMA AppendGrows ==
    ASSUME NEW S, NEW s \in Seq(S), NEW x \in S
    PROVE  Grows(s, Append(s, x))
  BY AppendExtends DEF Grows

LEMMA UncertainGrows ==
    ASSUME NEW Rows, NEW table \in Seq(Rows), NEW row \in Rows,
           NEW after \in Uncertain(table, row)
    PROVE  Grows(table, after)
  BY AppendGrows DEF Grows, Uncertain

\* No step shortens a table, or the chain of a process that keeps running, or
\* changes what they hold.
THEOREM EvidenceAlwaysGrows == Spec => EvidenceOnlyGrows
<1> DEFINE Growth == /\ \A g \in Gateways :
                          boots'[g] = boots[g] => Grows(chain[g], chain'[g])
                     /\ Grows(challenges, challenges')
                     /\ Grows(alerts, alerts')
                     /\ Grows(logs, logs')
<1>1. ChainInv /\ [Next]_vars => [Growth]_vars
  <2> SUFFICES ASSUME ChainInv, Next
               PROVE  Growth
    OBVIOUS
  <2> USE DEF ChainInv
  <2>1. ASSUME NEW g \in Gateways, NEW r \in Requests,
               Receive(g, r) \/ OpaReturns(g, r)
        PROVE  Growth
    BY <2>1 DEF Receive, OpaReturns, memory, tables, Grows
  <2>2. ASSUME NEW g \in Gateways, NEW r \in Requests, IssueChallenge(g, r)
        PROVE  Growth
    <3> DEFINE row == [request |-> r, user |-> form[r].user]
    <3>1. row \in Challenges
      BY <2>2, OnLoop DEF IssueChallenge, Challenges
    <3>2. challenges' \in Uncertain(challenges, row)
      BY <2>2 DEF IssueChallenge, Uncertain
    <3>3. UNCHANGED <<chain, alerts, logs>>
      BY <2>2 DEF IssueChallenge
    <3> HIDE DEF row
    <3>4. Grows(challenges, challenges')
      BY <3>1, <3>2, UncertainGrows DEF TypeInv, TypeOK
    <3> QED
      BY <3>3, <3>4 DEF Grows
  <2>3. ASSUME NEW g \in Gateways, NEW r \in Requests, RaiseAlert(g, r)
        PROVE  Growth
    <3> DEFINE row == [request |-> r,
                       alert_type |-> alert_type(verdict[r].reason),
                       severity |-> severity(verdict[r].reason),
                       reason |-> verdict[r].reason]
    <3>1. row \in Alerts
      BY <2>3, OnLoop, AlertType DEF RaiseAlert, Alerts
    <3>2. alerts' \in Uncertain(alerts, row)
      BY <2>3 DEF RaiseAlert, Uncertain
    <3>3. UNCHANGED <<chain, challenges, logs>>
      BY <2>3 DEF RaiseAlert
    <3> HIDE DEF row
    <3>4. Grows(alerts, alerts')
      BY <3>1, <3>2, UncertainGrows DEF TypeInv, TypeOK
    <3> QED
      BY <3>3, <3>4 DEF Grows
  <2>4. ASSUME NEW g \in Gateways, NEW r \in Requests, ChainEntry(g, r)
        PROVE  Growth
    <3>1. /\ chain[g] \in Seq(Blocks(ChainData)) /\ Len(chain[g]) >= 1
          /\ Entry(r) \in ChainData
      BY <2>4, EntryType DEF ChainEntry, ChainOK, TypeInv, TypeOK
    <3>2. /\ UNCHANGED <<challenges, alerts, logs>>
          /\ \A h \in Gateways :
               chain'[h] = IF h = g THEN add_block(chain[g], Entry(r))
                                    ELSE chain[h]
      BY <2>4 DEF ChainEntry, tables, TypeInv, TypeOK
    <3>3. NextBlock(chain[g], Entry(r)) \in Blocks(ChainData)
      BY <3>1, NextBlockType
    <3>4. Grows(chain[g], add_block(chain[g], Entry(r)))
      BY <3>1, <3>3, AppendGrows DEF add_block
    <3> QED
      BY <3>2, <3>4 DEF Grows
  <2>5. ASSUME NEW g \in Gateways, NEW r \in Requests, CommitLog(g, r)
        PROVE  Growth
    <3> DEFINE row == [request |-> r, decision |-> verdict[r].decision,
                       risk |-> risk[r], chain_hash |-> hash[r]]
    <3>1. row \in AccessLogs /\ (logs' = Append(logs, row) \/ logs' = logs)
      BY <2>5, CommitLogEffect
    <3>2. UNCHANGED <<chain, challenges, alerts>>
      BY <2>5 DEF CommitLog
    <3> HIDE DEF row
    <3>3. logs \in Seq(AccessLogs)
      BY DEF TypeInv, TypeOK
    <3>4. Grows(logs, Append(logs, row))
      BY <3>1, <3>3, AppendGrows
    <3>5. Grows(logs, logs')
      BY <3>1, <3>4 DEF Grows
    <3> QED
      BY <3>2, <3>5 DEF Grows
  <2>6. ASSUME NEW g \in Gateways, Crash(g)
        PROVE  Growth
    <3>1. /\ UNCHANGED <<challenges, alerts, logs>>
          /\ \A h \in Gateways : h # g => chain'[h] = chain[h]
          /\ boots'[g] = boots[g] + 1
      BY <2>6 DEF Crash, tables, TypeInv, TypeOK
    <3>2. boots'[g] # boots[g]
      BY <3>1 DEF TypeInv, TypeOK
    <3> QED
      BY <3>1, <3>2 DEF Grows
  <2> QED
    BY <2>1, <2>2, <2>3, <2>4, <2>5, <2>6 DEF Next, Step
<1> QED
  BY <1>1, ChainInvariant, PTL DEF Spec, EvidenceOnlyGrows

=============================================================================
