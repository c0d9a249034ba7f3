--------------------------- MODULE MCAccessGateway ---------------------------
(***************************************************************************)
(* Request bodies and bounds for checking AccessGateway.                   *)
(***************************************************************************)
EXTENDS AccessGateway, TLC

CONSTANTS alice, bob

Form(user, ip, agent, resource, action, metadata_risk) ==
    [user |-> user, ip |-> ip, agent |-> agent, resource |-> resource,
     action |-> action, metadata_risk |-> metadata_risk]

\* Score 45: allowed, but challenged once the user has a denial.
Borderline(u) == Form(u, "other", "scripted", "keyword", "read", 0)
\* Denied by hard_deny.
Forbidden(u) == Form(u, "other", "browser", "ordinary", "delete", 0)
\* Denied as very suspicious.
Suspicious(u) == Form(u, "other", "browser", "ordinary", "read", 90)

MixedForms == {Borderline(alice), Forbidden(alice), Suspicious(bob)}
AliceForms == {Borderline(alice), Forbidden(alice)}

Symmetry == Permutations(Requests) \cup Permutations(Gateways)

=============================================================================
