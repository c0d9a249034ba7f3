------------------------------ MODULE RiskPolicy ------------------------------
(***************************************************************************)
(* How one access request is judged: the risk score of                     *)
(* api_gateway/risk_scoring.py, the Rego rules of policies/main.rego that  *)
(* OPA evaluates, and the gateway's own reading of OPA's answer in         *)
(* api_gateway/main.py.  Everything here is a function of its arguments;   *)
(* the state it is applied to is in AccessGateway.                         *)
(*                                                                         *)
(* Scores are in hundredths (85 is 0.85): every weight of the scorer has   *)
(* two decimals and the sum is rounded to two.  Strings are abstracted to  *)
(* the classes the scorer and the policy distinguish.                      *)
(***************************************************************************)
EXTENDS Integers, FiniteSets

\* Known-bad address, loopback address, any other.
IpClasses == {"suspicious", "loopback", "other"}

\* A scripted client (curl, wget, ...) or not.
AgentClasses == {"scripted", "browser"}

\* A path under /api/admin; the exact name "sensitive-data"; another name
\* that contains one of the scorer's keywords, case ignored (so "/API/ADMIN"
\* too); a name that contains none.
ResourceClasses == {"api_admin", "sensitive-data", "keyword", "ordinary"}

\* The scorer compares the upper-cased action, the policy the action itself:
\* "delete" is the lower-case word and "DELETE" any other spelling of it.
ActionClasses == {"delete", "DELETE", "write", "read"}

Hours == 0 .. 23

Plus(condition, weight) == IF condition THEN weight ELSE 0

-----------------------------------------------------------------------------
(* risk_scoring.py                                                         *)

ip_reputation(ip) ==
    CASE ip = "suspicious" -> 30
      [] ip = "loopback"   -> 0
      [] OTHER             -> 5

user_agent_risk(agent) == Plus(agent = "scripted", 20)
time_of_day_risk(hour) == Plus(hour < 6, 20)
resource_sensitivity(resource) == Plus(resource # "ordinary", 20)
action_type_risk(action) == Plus(action # "read", 15)

\* Faulty variant of repeated_failures: only the third denial weighs fully.
repeated_failures_Exactly(count) ==
    CASE count = 3 -> 30
      [] count \in 1 .. 2 -> 10
      [] OTHER -> 0

repeated_failures(count) ==
    CASE count >= 3 -> 30
      [] count \in 1 .. 2 -> 10
      [] OTHER -> 0

\* The caller passes no country, so the geolocation factor adds nothing.
calculate_risk(request, hour, failures) ==
    LET score == ip_reputation(request.ip) + user_agent_risk(request.agent)
                   + time_of_day_risk(hour)
                   + resource_sensitivity(request.resource)
                   + action_type_risk(request.action)
                   + repeated_failures(failures)
    IN  IF score > 100 THEN 100 ELSE score

\* The score /access sends to the policy: the larger of the computed one and
\* the risk_score the caller put in its metadata, which nothing bounds.
RequestRisk(request, hour, failures) ==
    LET computed == calculate_risk(request, hour, failures)
    IN  IF computed > request.metadata_risk
        THEN computed ELSE request.metadata_risk

\* Faulty variant of is_high_risk: 1.0 is read on the 0-100 scale.
is_high_risk_Open(risk) == IF risk < 100 THEN risk >= 75 ELSE risk >= 7500

\* The 0-1 scale up to 1.0, a 0-100 scale above it.
is_high_risk(risk) == IF risk <= 100 THEN risk >= 75 ELSE risk >= 7500

-----------------------------------------------------------------------------
(* policies/main.rego                                                      *)

hard_deny(input) ==
    \/ input.resource = "api_admin" /\ input.role # "admin"
    \/ input.action = "delete" /\ input.role # "admin"
    \/ input.resource = "sensitive-data" /\ input.action = "delete"

very_suspicious(input) == input.risk >= 85

\* Faulty variant of otp_needed: the band starts above 0.50.
otp_needed_Above(input) ==
    /\ ~hard_deny(input)
    /\ ~very_suspicious(input)
    /\ input.risk \in 51 .. 84

otp_needed(input) ==
    /\ ~hard_deny(input)
    /\ ~very_suspicious(input)
    /\ input.risk \in 50 .. 84

allow_now(input) ==
    /\ ~hard_deny(input)
    /\ ~very_suspicious(input)
    /\ input.risk < 50

\* A complete rule is given by several bodies.  These are the values the
\* bodies that hold produce for the rules decision and reason.
decision_values(input) ==
    UNION {IF hard_deny(input) \/ very_suspicious(input) THEN {"deny"} ELSE {},
           IF otp_needed(input) THEN {"challenge_otp"} ELSE {},
           IF allow_now(input)  THEN {"allow"} ELSE {}}

reason_values(input) ==
    UNION {IF hard_deny(input)
             THEN {"FORBIDDEN_ACTION_OR_RESOURCE"} ELSE {},
           IF very_suspicious(input)
             THEN {"VERY_SUSPICIOUS_REQUIRE_SECURITY_APPROVAL"} ELSE {},
           IF otp_needed(input) THEN {"STEP_UP_OTP_REQUIRED"} ELSE {},
           IF allow_now(input)  THEN {"ALLOWED_LOW_RISK"} ELSE {}}

\* OPA reports an evaluation conflict when a complete rule has two values.
PolicyConflict(input) ==
    \/ Cardinality(decision_values(input)) > 1
    \/ Cardinality(reason_values(input)) > 1

\* A rule with no value takes its default.
RuleValue(values, default) ==
    IF values = {} THEN default ELSE CHOOSE v \in values : TRUE

\* OPA's answer to a query of the whole package, when there is no conflict.
ztf_authz(input) ==
    [decision |-> RuleValue(decision_values(input), "deny"),
     reason   |-> RuleValue(reason_values(input), "DENY_BY_DEFAULT")]

-----------------------------------------------------------------------------
(* main.py: the query, the reading of its answer, the alert                *)

\* A key the answer does not have.
Absent == "absent"

\* The input of the query: the role is always "user", whoever is asking, and
\* the metadata is reduced to the score.
PolicyInput(request, risk) ==
    [role |-> "user", resource |-> request.resource, action |-> request.action,
     risk |-> risk]

\* Faulty variant of Unavailable: the answer of an older, fail-open gateway.
Unavailable_FailOpen == [decision |-> "allow",
                         reason |-> "POLICY_ENGINE_UNAVAILABLE",
                         allow |-> Absent]

Unavailable == [decision |-> "deny", reason |-> "POLICY_ENGINE_UNAVAILABLE",
                allow |-> Absent]

\* An OPA that cannot be reached, times out or answers with an error status
\* (a conflict is one) is read as a denial.
query_opa(input, reachable) ==
    IF reachable /\ ~PolicyConflict(input)
    THEN [decision |-> ztf_authz(input).decision,
          reason   |-> ztf_authz(input).reason, allow |-> Absent]
    ELSE Unavailable

Decisions == {"allow", "deny", "challenge_otp"}

\* The gateway's reading of an answer: a missing decision is a denial, one it
\* does not know is replaced by the answer's allow flag.
Normalised(answer) ==
    LET decision == IF answer.decision = Absent THEN "deny" ELSE answer.decision
        reason   == IF answer.reason = Absent THEN "POLICY_DECISION"
                                              ELSE answer.reason
        allowed  == answer.allow = "true"
    IN  IF decision \in Decisions
        THEN [decision |-> decision, reason |-> reason]
        ELSE [decision |-> IF allowed THEN "allow" ELSE "deny",
              reason   |-> CASE reason # "POLICY_DECISION" -> reason
                             [] allowed -> "ALLOWED_BY_POLICY"
                             [] OTHER   -> "DENIED_BY_POLICY"]

\* The verdict on a request whose score is risk.
Verdict(request, risk, reachable) ==
    Normalised(query_opa(PolicyInput(request, risk), reachable))

AlertKinds == {"hard_deny", "very_suspicious", "forbidden_action"}

\* The type of the alert a denial raises, from its reason ...
alert_type(reason) ==
    CASE reason = "VERY_SUSPICIOUS_REQUIRE_SECURITY_APPROVAL" -> "very_suspicious"
      [] reason = "FORBIDDEN_ACTION_OR_RESOURCE" -> "forbidden_action"
      [] OTHER -> "hard_deny"

\* ... and its severity.
severity(reason) ==
    IF alert_type(reason) = "very_suspicious" THEN "CRITICAL" ELSE "HIGH"

=============================================================================
