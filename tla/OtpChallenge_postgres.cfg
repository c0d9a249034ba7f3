SPECIFICATION Spec
CONSTANTS
    None = None
    Challenges = {c1}
    Users = {u1, u2}
    Processes = {p1, p2}
    Limits = {0, 1, 3}
    Expiry = 1
    MaxTime = 2
    AwareTimestamps = TRUE
PROPERTY RightCodeVerifies
CHECK_DEADLOCK FALSE
