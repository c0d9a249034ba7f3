SPECIFICATION Spec
CONSTANTS
    MetadataRisks = {0, 15, 60, 100, 1500}
    HoursSeen = {5, 6}
    MaxFailures = 4
INVARIANT VerySuspiciousAlert
