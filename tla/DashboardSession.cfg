SPECIFICATION Spec
CONSTANTS
    None = None
    Threads = {t1, t2}
    Users = {alice, bob}
    Admins = {alice}
    MaxTokens = 2
INVARIANTS
    CalledOnce
    SessionBelongsTogether
    LogoutSticks
    RefreshTokenLive
