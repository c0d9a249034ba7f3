SPECIFICATION Spec
CONSTANTS
    None = None
    alice = alice
    bob = bob
    Gateways = {g1, g2}
    Requests = {r1, r2, r3}
    Users = {alice}
    Forms <- AliceForms
    HoursSeen = {12}
    MaxBoots = 1
SYMMETRY Symmetry
INVARIANTS
    LogsAnchored
    LogsFollowChain
    AnsweredIsLogged
PROPERTY KeepsLedger
CHECK_DEADLOCK FALSE
