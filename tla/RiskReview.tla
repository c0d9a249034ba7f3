------------------------------ MODULE RiskReview ------------------------------
(***************************************************************************)
(* The verdict on one request as the circumstances the gateway judges it   *)
(* in change: the user's denial count grows, the hour passes, OPA goes     *)
(* away and comes back.  The properties say how the verdict of RiskPolicy  *)
(* depends on them.                                                        *)
(***************************************************************************)
EXTENDS RiskPolicy

CONSTANTS
    MetadataRisks,   \* the risk_score values a caller may put in its metadata
    HoursSeen,       \* the hours of the day requests arrive at
    MaxFailures      \* bound on the denial count

ASSUME ReviewAssumption ==
    /\ MetadataRisks \subseteq Int
    /\ HoursSeen \subseteq Hours
    /\ MaxFailures \in Nat

VARIABLES request, hour, failures, reachable

vars == <<request, hour, failures, reachable>>

Requests == [ip : IpClasses, agent : AgentClasses, resource : ResourceClasses,
             action : ActionClasses, metadata_risk : MetadataRisks]

Risk == RequestRisk(request, hour, failures)
Input == PolicyInput(request, Risk)
CurrentVerdict == Verdict(request, Risk, reachable)

TypeOK ==
    /\ request \in Requests
    /\ hour \in HoursSeen
    /\ failures \in 0 .. MaxFailures
    /\ reachable \in BOOLEAN

Init ==
    /\ request \in Requests
    /\ hour \in HoursSeen
    /\ failures = 0
    /\ reachable = TRUE

\* RiskScorer.record_failure, called for a denial of another request.
record_failure ==
    /\ failures < MaxFailures
    /\ failures' = failures + 1
    /\ UNCHANGED <<request, hour, reachable>>

HourPasses ==
    /\ hour' \in HoursSeen \ {hour}
    /\ UNCHANGED <<request, failures, reachable>>

PolicyEngineFails ==
    /\ reachable
    /\ reachable' = FALSE
    /\ UNCHANGED <<request, hour, failures>>

PolicyEngineReturns ==
    /\ ~reachable
    /\ reachable' = TRUE
    /\ UNCHANGED <<request, hour, failures>>

Next ==
    \/ record_failure
    \/ HourPasses
    \/ PolicyEngineFails
    \/ PolicyEngineReturns

Spec == Init /\ [][Next]_vars

-----------------------------------------------------------------------------
(* Properties that hold                                                    *)

Strictness(decision) ==
    CASE decision = "allow" -> 0
      [] decision = "challenge_otp" -> 1
      [] decision = "deny" -> 2

\* The role the gateway sends makes these requests forbidden at any score.
Forbidden == request.resource = "api_admin" \/ request.action = "delete"

\* Every score on the 0-1 scale, and any above it, falls in exactly one band
\* of main.rego, and a forbidden request is denied in each: no score is left
\* to the default rule and none belongs to two bands.
VerdictFollowsBands ==
    reachable =>
      CurrentVerdict.decision =
        CASE Forbidden \/ Risk >= 85 -> "deny"
          [] ~Forbidden /\ Risk >= 50 /\ Risk < 85 -> "challenge_otp"
          [] ~Forbidden /\ Risk < 50 -> "allow"

\* The two bodies of the reason rule that can hold together do so for a
\* forbidden and very suspicious request only; OPA's conflict error then
\* reaches the caller as a denial, so the conflict never opens access.
ConflictIsADenial ==
    /\ PolicyConflict(Input) <=> Forbidden /\ Risk >= 85
    /\ PolicyConflict(Input) => CurrentVerdict.decision = "deny"

\* Counting one more denial, or losing the policy engine, never makes the
\* verdict on the same request at the same hour more lenient.
NeverRelaxed ==
    [][hour' = hour /\ (failures' > failures \/ (reachable /\ ~reachable'))
         => Strictness(CurrentVerdict'.decision) >=
              Strictness(CurrentVerdict.decision)]_vars

\* A denial for suspicion on the 0-1 scale, its end point 1.0 included, is
\* counted as a high-risk event by the summaries (main.py _is_high_risk).
SuspiciousIsHighRisk ==
    Risk <= 100 /\ very_suspicious(Input) => is_high_risk(Risk)

-----------------------------------------------------------------------------
(* A statement of the policy's comments that does not hold                 *)

\* main.rego:40 "Very suspicious => deny + security approval flow": a very
\* suspicious request that OPA evaluates raises the very_suspicious alert.
VerySuspiciousAlert ==
    reachable /\ Risk >= 85 =>
      alert_type(CurrentVerdict.reason) = "very_suspicious"

=============================================================================
