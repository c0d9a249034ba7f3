SPECIFICATION Spec
CONSTANTS
    MetadataRisks = {0, 15, 60, 100, 1500}
    HoursSeen = {5, 6}
    MaxFailures = 4
INVARIANTS
    VerdictFollowsBands
    ConflictIsADenial
    SuspiciousIsHighRisk
PROPERTY NeverRelaxed
