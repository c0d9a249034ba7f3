-------------------------- MODULE RiskReview_proofs --------------------------
(***************************************************************************)
(* How the verdict depends on what it is judged from, for every score a    *)
(* caller may claim and any number of denials.                             *)
(***************************************************************************)
EXTENDS RiskReview, FiniteSetTheorems, TLAPS

-----------------------------------------------------------------------------
(* The policy's rules, score by score                                      *)

\* The request is forbidden at any score.
IsForbidden(req) == req.resource = "api_admin" \/ req.action = "delete"

\* What the policy decides where its bodies agree.
Band(req, risk) ==
    CASE IsForbidden(req) \/ risk >= 85 -> "deny"
      [] ~IsForbidden(req) /\ risk >= 50 /\ risk < 85 -> "challenge_otp"
      [] ~IsForbidden(req) /\ risk < 50 -> "allow"

\* The rule hard_deny asks for no more than that: the role is never "admin".
LEMMA HardDeny ==
    ASSUME NEW req, NEW risk
    PROVE  hard_deny(PolicyInput(req, risk)) <=> IsForbidden(req)
  BY DEF hard_deny, PolicyInput, IsForbidden

\* The bodies of the decision rule give one value, that of the band.
LEMMA DecisionValues ==
    ASSUME NEW req, NEW risk \in Int
    PROVE  decision_values(PolicyInput(req, risk)) = {Band(req, risk)}
<1> DEFINE input == PolicyInput(req, risk)
<1>1. input.risk = risk
  BY DEF PolicyInput
<1>2. hard_deny(input) <=> IsForbidden(req)
  BY HardDeny
<1> HIDE DEF input
<1>3. CASE IsForbidden(req) \/ risk >= 85
  <2>1. Band(req, risk) = "deny"
    BY <1>3 DEF Band
  <2> QED
    BY <1>1, <1>2, <1>3, <2>1
       DEF decision_values, very_suspicious, otp_needed, allow_now, input
<1>4. CASE ~IsForbidden(req) /\ risk >= 50 /\ risk < 85
  <2>1. Band(req, risk) = "challenge_otp"
    BY <1>4 DEF Band
  <2> QED
    BY <1>1, <1>2, <1>4, <2>1
       DEF decision_values, very_suspicious, otp_needed, allow_now, input
<1>5. CASE ~IsForbidden(req) /\ risk < 50
  <2>1. Band(req, risk) = "allow"
    BY <1>5 DEF Band
  <2> QED
    BY <1>1, <1>2, <1>5, <2>1
       DEF decision_values, very_suspicious, otp_needed, allow_now, input
<1> QED
  BY <1>3, <1>4, <1>5

\* The bodies of the reason rule give one value or, to a forbidden and very
\* suspicious request, two.
LEMMA ReasonValues ==
    ASSUME NEW req, NEW risk \in Int
    PROVE  LET values == reason_values(PolicyInput(req, risk))
           IN  IF IsForbidden(req) /\ risk >= 85
               THEN values = {"FORBIDDEN_ACTION_OR_RESOURCE",
                              "VERY_SUSPICIOUS_REQUIRE_SECURITY_APPROVAL"}
               ELSE \E v \in {"FORBIDDEN_ACTION_OR_RESOURCE",
                              "VERY_SUSPICIOUS_REQUIRE_SECURITY_APPROVAL",
                              "STEP_UP_OTP_REQUIRED", "ALLOWED_LOW_RISK"} :
                      values = {v}
<1> DEFINE input == PolicyInput(req, risk)
<1>1. input.risk = risk
  BY DEF PolicyInput
<1>2. hard_deny(input) <=> IsForbidden(req)
  BY HardDeny
<1> HIDE DEF input
<1>3. CASE IsForbidden(req) /\ risk >= 85
  BY <1>1, <1>2, <1>3
     DEF reason_values, very_suspicious, otp_needed, allow_now, input
<1>4. CASE IsForbidden(req) /\ ~(risk >= 85)
  <2>1. reason_values(input) = {"FORBIDDEN_ACTION_OR_RESOURCE"}
    BY <1>1, <1>2, <1>4
       DEF reason_values, very_suspicious, otp_needed, allow_now
  <2> QED
    BY <1>4, <2>1 DEF input
<1>5. CASE ~IsForbidden(req) /\ risk >= 85
  <2>1. reason_values(input) = {"VERY_SUSPICIOUS_REQUIRE_SECURITY_APPROVAL"}
    BY <1>1, <1>2, <1>5
       DEF reason_values, very_suspicious, otp_needed, allow_now
  <2> QED
    BY <1>5, <2>1 DEF input
<1>6. CASE ~IsForbidden(req) /\ risk >= 50 /\ risk < 85
  <2>1. reason_values(input) = {"STEP_UP_OTP_REQUIRED"}
    BY <1>1, <1>2, <1>6
       DEF reason_values, very_suspicious, otp_needed, allow_now
  <2> QED
    BY <1>6, <2>1 DEF input
<1>7. CASE ~IsForbidden(req) /\ risk < 50
  <2>1. reason_values(input) = {"ALLOWED_LOW_RISK"}
    BY <1>1, <1>2, <1>7
       DEF reason_values, very_suspicious, otp_needed, allow_now
  <2> QED
    BY <1>7, <2>1 DEF input
<1> QED
  BY <1>3, <1>4, <1>5, <1>6, <1>7

\* So OPA reports a conflict for exactly those requests.
LEMMA Conflict ==
    ASSUME NEW req, NEW risk \in Int
    PROVE  PolicyConflict(PolicyInput(req, risk)) <=>
             IsForbidden(req) /\ risk >= 85
<1> DEFINE input == PolicyInput(req, risk)
           f == "FORBIDDEN_ACTION_OR_RESOURCE"
           s == "VERY_SUSPICIOUS_REQUIRE_SECURITY_APPROVAL"
<1>1. Cardinality(decision_values(input)) = 1
  <2>1. PICK v : decision_values(input) = {v}
    BY DecisionValues
  <2> QED
    BY <2>1, FS_Singleton
<1>2. CASE IsForbidden(req) /\ risk >= 85
  <2>1. reason_values(input) = {f} \cup {s}
    BY <1>2, ReasonValues
  <2>2. IsFiniteSet({f}) /\ Cardinality({f}) = 1 /\ s \notin {f}
    BY FS_Singleton
  <2>3. Cardinality({f} \cup {s}) = 2
    BY <2>2, FS_AddElement
  <2> QED
    BY <1>2, <2>1, <2>3 DEF PolicyConflict
<1>3. CASE ~(IsForbidden(req) /\ risk >= 85)
  <2>1. PICK v : reason_values(input) = {v}
    BY <1>3, ReasonValues
  <2>2. Cardinality(reason_values(input)) = 1
    BY <2>1, FS_Singleton
  <2> QED
    BY <1>1, <1>3, <2>2 DEF PolicyConflict
<1> QED
  BY <1>2, <1>3

\* The decision the gateway takes: the band's while OPA answers, a denial
\* otherwise.
LEMMA DecisionTaken ==
    ASSUME NEW req, NEW risk \in Int, NEW up \in BOOLEAN
    PROVE  Verdict(req, risk, up).decision =
             IF up THEN Band(req, risk) ELSE "deny"
<1> DEFINE input == PolicyInput(req, risk)
           answer == query_opa(input, up)
<1>1. Band(req, risk) \in Decisions
  BY DEF Band, Decisions
<1>2. answer.decision = IF up THEN Band(req, risk) ELSE "deny"
  <2>1. CASE up /\ ~PolicyConflict(input)
    <3>1. decision_values(input) = {Band(req, risk)}
      BY DecisionValues
    <3>2. RuleValue(decision_values(input), "deny") = Band(req, risk)
      BY <3>1 DEF RuleValue
    <3> QED
      BY <2>1, <3>2 DEF query_opa, ztf_authz
  <2>2. CASE up /\ PolicyConflict(input)
    <3>1. Band(req, risk) = "deny"
      BY <2>2, Conflict DEF Band
    <3> QED
      BY <2>2, <3>1 DEF query_opa, Unavailable
  <2>3. CASE ~up
    BY <2>3 DEF query_opa, Unavailable
  <2> QED
    BY <2>1, <2>2, <2>3
<1> HIDE DEF answer
<1>3. answer.decision \in Decisions
  BY <1>1, <1>2 DEF Decisions
<1>4. Normalised(answer).decision = answer.decision
  BY <1>3 DEF Normalised, Decisions, Absent
<1> QED
  BY <1>2, <1>4 DEF Verdict, answer

\* A higher score is decided no more leniently.
LEMMA BandsRise ==
    ASSUME NEW req, NEW low \in Int, NEW high \in Int, low <= high
    PROVE  /\ Strictness(Band(req, low)) \in 0 .. 2
           /\ Strictness(Band(req, high)) >= Strictness(Band(req, low))
  BY DEF Band, Strictness

-----------------------------------------------------------------------------
(* The score                                                               *)

LEMMA RiskIsNumber ==
    ASSUME NEW req \in Requests, NEW h \in HoursSeen, NEW n \in Nat
    PROVE  RequestRisk(req, h, n) \in Int
<1>1. req.metadata_risk \in Int /\ h \in Int
  <2>1. req.metadata_risk \in Int
    <3>1. req.metadata_risk \in MetadataRisks
      BY DEF Requests
    <3>2. MetadataRisks \subseteq Int
      BY ReviewAssumption
    <3> QED
      BY <3>1, <3>2
  <2>2. h \in Int
    <3>1. h \in Hours
      BY ReviewAssumption
    <3> QED
      BY <3>1 DEF Hours
  <2> QED
    BY <2>1, <2>2
<1>2. calculate_risk(req, h, n) \in Int
  BY <1>1 DEF calculate_risk, ip_reputation, user_agent_risk, time_of_day_risk,
     resource_sensitivity, action_type_risk, repeated_failures, Plus
<1> QED
  BY <1>1, <1>2 DEF RequestRisk

\* One denial more never lowers it.
LEMMA RiskRises ==
    ASSUME NEW req \in Requests, NEW h \in HoursSeen, NEW m \in Nat,
           NEW n \in Nat, m <= n
    PROVE  RequestRisk(req, h, m) <= RequestRisk(req, h, n)
<1> DEFINE base == ip_reputation(req.ip) + user_agent_risk(req.agent)
                     + time_of_day_risk(h)
                     + resource_sensitivity(req.resource)
                     + action_type_risk(req.action)
<1>1. base \in Int /\ req.metadata_risk \in Int
  BY ReviewAssumption DEF Requests, ip_reputation, user_agent_risk,
     time_of_day_risk, resource_sensitivity, action_type_risk, Plus
<1>2. /\ repeated_failures(m) \in Nat
      /\ repeated_failures(n) \in Nat
      /\ repeated_failures(m) <= repeated_failures(n)
  BY DEF repeated_failures
<1>3. /\ calculate_risk(req, h, m) =
           LET score == base + repeated_failures(m)
           IN  IF score > 100 THEN 100 ELSE score
      /\ calculate_risk(req, h, n) =
           LET score == base + repeated_failures(n)
           IN  IF score > 100 THEN 100 ELSE score
  BY DEF calculate_risk
<1> HIDE DEF base
<1>4. /\ calculate_risk(req, h, m) \in Int
      /\ calculate_risk(req, h, n) \in Int
      /\ calculate_risk(req, h, m) <= calculate_risk(req, h, n)
  BY <1>1, <1>2, <1>3
<1> QED
  BY <1>1, <1>4 DEF RequestRisk

-----------------------------------------------------------------------------
(* The theorems                                                            *)

\* In every run the request and its circumstances have their types.
THEOREM TypeCorrect == Spec => []TypeOK
<1>1. Init => TypeOK
  BY ReviewAssumption DEF Init, TypeOK
<1>2. TypeOK /\ [Next]_vars => TypeOK'
  <2> SUFFICES ASSUME TypeOK, [Next]_vars
               PROVE  TypeOK'
    OBVIOUS
  <2>1. CASE record_failure
    BY <2>1, ReviewAssumption DEF TypeOK, record_failure
  <2>2. CASE HourPasses
    BY <2>2 DEF TypeOK, HourPasses
  <2>3. CASE PolicyEngineFails
    BY <2>3 DEF TypeOK, PolicyEngineFails
  <2>4. CASE PolicyEngineReturns
    BY <2>4 DEF TypeOK, PolicyEngineReturns
  <2>5. CASE UNCHANGED vars
    BY <2>5 DEF TypeOK, vars
  <2> QED
    BY <2>1, <2>2, <2>3, <2>4, <2>5 DEF Next
<1> QED
  BY <1>1, <1>2, PTL DEF Spec

\* What TypeOK says of the score.
LEMMA CurrentRisk == TypeOK => Risk \in Int /\ reachable \in BOOLEAN
  BY RiskIsNumber, ReviewAssumption DEF TypeOK, Risk

\* Whatever score a caller claims, in whole hundredths, the bands of the policy
\* leave no gap and do not overlap.
THEOREM BandsAlwaysFollowed == Spec => []VerdictFollowsBands
<1>1. TypeOK => VerdictFollowsBands
  <2> SUFFICES ASSUME TypeOK, reachable
               PROVE  CurrentVerdict.decision = Band(request, Risk)
    BY DEF VerdictFollowsBands, Band, IsForbidden, Forbidden
  <2>1. Risk \in Int
    BY CurrentRisk
  <2> QED
    BY <2>1, DecisionTaken DEF CurrentVerdict
<1> QED
  BY <1>1, TypeCorrect, PTL

\* The policy contradicts itself about forbidden, very suspicious requests and
\* no other, and the gateway then denies.
THEOREM ConflictAlwaysADenial == Spec => []ConflictIsADenial
<1>1. TypeOK => ConflictIsADenial
  <2> SUFFICES ASSUME TypeOK
               PROVE  ConflictIsADenial
    OBVIOUS
  <2>1. Risk \in Int /\ reachable \in BOOLEAN
    BY CurrentRisk
  <2>2. PolicyConflict(Input) <=> Forbidden /\ Risk >= 85
    BY <2>1, Conflict DEF Input, Forbidden, IsForbidden
  <2>3. CurrentVerdict.decision =
          IF reachable THEN Band(request, Risk) ELSE "deny"
    BY <2>1, DecisionTaken DEF CurrentVerdict
  <2>4. Forbidden => Band(request, Risk) = "deny"
    BY DEF Forbidden, IsForbidden, Band
  <2> QED
    BY <2>2, <2>3, <2>4 DEF ConflictIsADenial
<1> QED
  BY <1>1, TypeCorrect, PTL

\* The summaries' threshold lies below the policy's at every score of the 0-1
\* scale.
THEOREM SuspiciousAlwaysHighRisk == Spec => []SuspiciousIsHighRisk
<1>1. TypeOK => SuspiciousIsHighRisk
  <2> SUFFICES ASSUME TypeOK, Risk <= 100, very_suspicious(Input)
               PROVE  is_high_risk(Risk)
    BY DEF SuspiciousIsHighRisk
  <2>1. Risk \in Int
    BY CurrentRisk
  <2>2. Risk >= 85
    BY DEF very_suspicious, Input, PolicyInput
  <2> QED
    BY <2>1, <2>2 DEF is_high_risk
<1> QED
  BY <1>1, TypeCorrect, PTL

\* No number of denials and no outage relaxes the verdict on a request.
THEOREM VerdictNeverRelaxed == Spec => NeverRelaxed
<1> DEFINE Stricter ==
             hour' = hour /\ (failures' > failures \/ (reachable /\ ~reachable'))
               => Strictness(CurrentVerdict'.decision) >=
                    Strictness(CurrentVerdict.decision)
<1>1. TypeOK /\ TypeOK' /\ [Next]_vars => [Stricter]_vars
  <2> SUFFICES ASSUME TypeOK, TypeOK', Next, hour' = hour,
                      failures' > failures \/ (reachable /\ ~reachable')
               PROVE  Strictness(CurrentVerdict'.decision) >=
                        Strictness(CurrentVerdict.decision)
    OBVIOUS
  <2>1. /\ Risk \in Int /\ Risk' \in Int
        /\ reachable \in BOOLEAN /\ reachable' \in BOOLEAN
    <3>1. RequestRisk(request', hour', failures') \in Int
      BY RiskIsNumber, ReviewAssumption DEF TypeOK
    <3> QED
      BY <3>1, CurrentRisk DEF Risk, TypeOK
  <2>2. /\ CurrentVerdict.decision =
             IF reachable THEN Band(request, Risk) ELSE "deny"
        /\ CurrentVerdict'.decision =
             IF reachable' THEN Band(request', Risk') ELSE "deny"
    BY <2>1, DecisionTaken DEF CurrentVerdict
  <2>3. request' = request
    BY DEF Next, record_failure, HourPasses, PolicyEngineFails,
       PolicyEngineReturns
  <2>4. failures' >= failures
    BY DEF TypeOK, Next, record_failure, HourPasses, PolicyEngineFails,
       PolicyEngineReturns
  <2>5. Risk <= Risk'
    BY <2>3, <2>4, RiskRises, ReviewAssumption DEF TypeOK, Risk
  <2>6. /\ Strictness(Band(request, Risk)) \in 0 .. 2
        /\ Strictness(Band(request, Risk')) >= Strictness(Band(request, Risk))
    BY <2>1, <2>5, BandsRise
  <2>7. Strictness("deny") = 2
    BY DEF Strictness
  <2>8. reachable' => reachable
    <3>1. failures \in Int
      BY ReviewAssumption DEF TypeOK
    <3>2. CASE PolicyEngineReturns
      <4>1. ~(failures' > failures) /\ ~reachable
        BY <3>1, <3>2 DEF PolicyEngineReturns
      <4> QED
        BY <4>1
    <3>3. CASE record_failure \/ HourPasses
      BY <3>3 DEF record_failure, HourPasses
    <3>4. CASE PolicyEngineFails
      BY <3>4 DEF PolicyEngineFails
    <3> QED
      BY <3>2, <3>3, <3>4 DEF Next
  <2> QED
    BY <2>1, <2>2, <2>3, <2>6, <2>7, <2>8
<1> QED
  BY <1>1, TypeCorrect, PTL DEF Spec, NeverRelaxed

=============================================================================
