SPECIFICATION Spec
CONSTANTS
    None = None
    alice = alice
    bob = bob
    Gateways = {g1}
    Requests = {r1}
    Users = {alice}
    Forms <- AliceForms
    HoursSeen = {12}
    MaxBoots = 0
INVARIANT EndpointReportsValid
CHECK_DEADLOCK FALSE
