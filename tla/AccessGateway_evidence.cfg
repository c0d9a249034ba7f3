SPECIFICATION Spec
CONSTANTS
    None = None
    alice = alice
    bob = bob
    Gateways = {g1}
    Requests = {r1, r2}
    Users = {alice, bob}
    Forms <- MixedForms
    HoursSeen = {12}
    MaxBoots = 2
INVARIANTS
    TypeOK
    ChainsVerify
    LogsHaveEvidence
    OrphanBlocksExplained
    FailuresCountDenials
PROPERTIES
    EvidenceOnlyGrows
    AnsweredDenialsWeighIn
    RequestsEnd
CHECK_DEADLOCK FALSE
