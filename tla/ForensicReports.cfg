SPECIFICATION Spec
CONSTANTS
    Accesses <- SomeAccesses
    NoIp = NoIp
    None = None
    FirstHour = 23
    LastHour = 24
    MaxLogs = 4
    MaxAlerts = 3
    RecentLimit = 2
    PdfLimit = 3
    AnomalyLimit = 3
    ANOMALY_DENY_THRESHOLD = 2
    ANOMALY_IP_ACTIVITY_THRESHOLD = 3
INVARIANTS
    SummaryAddsUp
    TimelinesAgree
    DetectorsAgree
    EditsFound
PROPERTY AnomaliesPersist
