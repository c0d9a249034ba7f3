--------------------------- MODULE GatewayRequests ---------------------------
(***************************************************************************)
(* What token validation (JwksCache) and the admin endpoints (AdminStore)  *)
(* share: the requests, the gateway processes that run them, and a clock.  *)
(***************************************************************************)
EXTENDS Naturals

CONSTANTS
    Requests,
    Hosts,       \* gateway processes
    MaxClock,    \* bound on the clock
    None

ASSUME ClockAssumption == MaxClock \in Nat

VARIABLE clock   \* datetime.utcnow(), time.monotonic() and the time of tokens

Times == 0 .. MaxClock

=============================================================================
