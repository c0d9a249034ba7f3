----------------------------- MODULE OtpChallenge -----------------------------
(***************************************************************************)
(* One-time-password challenges: the rows of otp_challenges, created by    *)
(* /otp/send and by /access for a step-up decision, and checked by         *)
(* /otp/verify (api_gateway/main.py).                                      *)
(*                                                                         *)
(* otp_verify has no await, so one gateway process runs one call at a      *)
(* time.  With several processes (DEPLOYMENT.md, scaling) another process  *)
(* may commit between the SELECT and the commit of a call; SQLAlchemy then *)
(* writes the columns the call assigned, computed from the row as it read  *)
(* it.  replicas, chosen initially, is the set of processes deployed.      *)
(***************************************************************************)
EXTENDS Naturals

CONSTANTS
    Challenges,    \* challenge ids
    Users,
    Processes,     \* the gateway processes that may be deployed
    Limits,        \* values OTP_MAX_ATTEMPTS may have when a row is created
    Expiry,        \* OTP_EXPIRY_MINUTES
    MaxTime,       \* bound on the clock
    AwareTimestamps,  \* what the database returns for a DateTime(timezone=True)
                      \* column: PostgreSQL an aware, SQLite a naive datetime
    None

ASSUME OtpAssumption ==
    /\ Limits \subseteq Nat
    /\ Expiry \in Nat
    /\ MaxTime \in Nat
    /\ AwareTimestamps \in BOOLEAN

VARIABLES
    replicas,      \* the processes deployed
    now,           \* datetime.utcnow()
    rows,          \* otp_challenges
    call,          \* of each process: the otp_verify call in progress, or None
    compared       \* of each challenge: how many submitted codes were compared
                   \* with its code in calls that committed

vars == <<replicas, now, rows, call, compared>>

Statuses == {"pending", "verified", "expired", "failed"}
Rows == [user : Users, status : Statuses, attempts : Nat, max_attempts : Limits,
         expires_at : Nat, verified_at : Nat \cup {None}]

ASSUME NoneAssumption == None \notin Nat \cup Rows

\* A call: whose challenge was named, whether the code is the row's, the row
\* as the call read it, and the clock right after.
Calls == [challenge : Challenges, user : Users, right : BOOLEAN,
          row : Rows \cup {None}, now : 0 .. MaxTime]

TypeOK ==
    /\ replicas \in SUBSET Processes \ {{}}
    /\ now \in 0 .. MaxTime
    /\ rows \in [Challenges -> Rows \cup {None}]
    /\ call \in [Processes -> Calls \cup {None}]
    /\ compared \in [Challenges -> Nat]

Init ==
    /\ replicas \in SUBSET Processes \ {{}}
    /\ now = 0
    /\ rows = [c \in Challenges |-> None]
    /\ call = [p \in Processes |-> None]
    /\ compared = [c \in Challenges |-> 0]

-----------------------------------------------------------------------------
\* A new row, for whoever asks; older challenges stay as they are.  A process
\* in the middle of otp_verify does not answer the call.
otp_send(u) ==
    /\ \E p \in replicas : call[p] = None
    /\ \E c \in Challenges, limit \in Limits :
         /\ rows[c] = None
         /\ rows' = [rows EXCEPT
              ![c] = [user |-> u, status |-> "pending", attempts |-> 0,
                      max_attempts |-> limit, expires_at |-> now + Expiry,
                      verified_at |-> None]]
    /\ UNCHANGED <<replicas, now, call, compared>>

\* otp_verify reads the row.
ReadChallenge(p) ==
    /\ p \in replicas
    /\ call[p] = None
    /\ \E c \in Challenges, u \in Users, right \in BOOLEAN :
         call' = [call EXCEPT
           ![p] = [challenge |-> c, user |-> u, right |-> right,
                   row |-> rows[c], now |-> now]]
    /\ UNCHANGED <<replicas, now, rows, compared>>

\* The checks of otp_verify in their order.
NotFound(k) == k.row = None

NotOwner(k) == k.row.user # k.user

\* Faulty variant of NotOpen: a verified challenge is not refused.
NotOpen_Unsuccessful(k) == k.row.status \in {"failed", "expired"}

NotOpen(k) == k.row.status # "pending"

\* Faulty variants of Expired: a code is still good one minute later, or no
\* longer at the minute of expiry.
Expired_Grace(k) == k.row.expires_at + 1 < k.now

Expired_Early(k) == k.row.expires_at <= k.now

Expired(k) == k.row.expires_at < k.now

Exhausted(k) == k.row.attempts >= k.row.max_attempts

\* The status otp_verify answers.  Comparing an aware with a naive datetime
\* raises TypeError, which the client sees as a server error.
ReplyTo(k) ==
    CASE NotFound(k) -> 404
      [] ~NotFound(k) /\ NotOwner(k) -> 403
      [] ~NotFound(k) /\ ~NotOwner(k) /\ NotOpen(k) -> 400
      [] OTHER -> CASE AwareTimestamps -> 500
                    [] ~AwareTimestamps /\ Expired(k) -> 400
                    [] ~AwareTimestamps /\ ~Expired(k) /\ Exhausted(k) -> 429
                    [] OTHER -> IF k.right THEN 200 ELSE 401

\* Faulty variant of Written: a state the rest of the code does not know.
Written_OtherStatus(k, row) ==
    [row EXCEPT !.attempts = k.row.attempts + 1,
                !.status = IF k.right THEN "used" ELSE @]

\* Faulty variant of Written: the attempt is counted after the limit is
\* tested.
Written_TestsFirst(k, row) ==
    CASE ReplyTo(k) = 400 -> [row EXCEPT !.status = "expired"]
      [] ReplyTo(k) = 429 -> [row EXCEPT !.status = "failed"]
      [] ReplyTo(k) = 200 -> [row EXCEPT !.attempts = k.row.attempts + 1,
                                         !.status = "verified",
                                         !.verified_at = k.now]
      [] ReplyTo(k) = 401 ->
           [row EXCEPT !.attempts = k.row.attempts + 1,
                       !.status = IF k.row.attempts >= k.row.max_attempts
                                  THEN "failed" ELSE @]

\* Faulty variant of Written: a right code is not counted as an attempt.
Written_CountsWrong(k, row) ==
    CASE ReplyTo(k) = 400 -> [row EXCEPT !.status = "expired"]
      [] ReplyTo(k) = 429 -> [row EXCEPT !.status = "failed"]
      [] ReplyTo(k) = 200 -> [row EXCEPT !.status = "verified",
                                         !.verified_at = k.now]
      [] ReplyTo(k) = 401 ->
           [row EXCEPT !.attempts = k.row.attempts + 1,
                       !.status = IF k.row.attempts + 1 >= k.row.max_attempts
                                  THEN "failed" ELSE @]

\* The columns otp_verify assigned, written over the row as it is now.
Written(k, row) ==
    CASE ReplyTo(k) = 400 -> [row EXCEPT !.status = "expired"]
      [] ReplyTo(k) = 429 -> [row EXCEPT !.status = "failed"]
      [] ReplyTo(k) = 200 -> [row EXCEPT !.attempts = k.row.attempts + 1,
                                         !.status = "verified",
                                         !.verified_at = k.now]
      [] ReplyTo(k) = 401 ->
           [row EXCEPT !.attempts = k.row.attempts + 1,
                       !.status = IF k.row.attempts + 1 >= k.row.max_attempts
                                  THEN "failed" ELSE @]

\* Whether the call gets as far as a commit.
Commits(k) ==
    /\ ~NotFound(k)
    /\ ~NotOwner(k)
    /\ ~NotOpen(k)
    /\ ~AwareTimestamps

Return(p) == call' = [call EXCEPT ![p] = None]

\* The call answers ReplyTo(call[p]) without a write ...
Refuse(p) ==
    /\ call[p] # None
    /\ ~Commits(call[p])
    /\ Return(p)
    /\ UNCHANGED <<replicas, now, rows, compared>>

\* ... or after its commit ...
Commit(p) ==
    LET k == call[p]
        c == k.challenge
    IN  /\ k # None
        /\ Commits(k)
        /\ rows' = [rows EXCEPT ![c] = Written(k, @)]
        /\ compared' = [compared EXCEPT
                          ![c] = IF ReplyTo(k) \in {200, 401} THEN @ + 1 ELSE @]
        /\ Return(p)
        /\ UNCHANGED <<replicas, now>>

\* ... or the commit raises, or the process dies first: the write is rolled
\* back and the client sees a server error or nothing.
Rollback(p) ==
    /\ call[p] # None
    /\ Commits(call[p])
    /\ Return(p)
    /\ UNCHANGED <<replicas, now, rows, compared>>

Tick ==
    /\ now < MaxTime
    /\ now' = now + 1
    /\ UNCHANGED <<replicas, rows, call, compared>>

Next ==
    \/ \E u \in Users : otp_send(u)
    \/ \E p \in Processes :
         ReadChallenge(p) \/ Refuse(p) \/ Commit(p) \/ Rollback(p)
    \/ Tick

Spec == Init /\ [][Next]_vars

-----------------------------------------------------------------------------
(* Properties that hold                                                    *)

OneProcess == \E p \in Processes : replicas = {p}

\* However many processes check codes, a challenge is only ever verified by a
\* code that came no later than its expiry, and within its attempts.
VerifiedInTime ==
    \A c \in Challenges :
      rows[c] # None /\ rows[c].status = "verified" =>
        /\ rows[c].verified_at \in 0 .. rows[c].expires_at
        /\ rows[c].attempts \in 1 .. rows[c].max_attempts

\* An open challenge has an attempt left, also at the boundary and after
\* overlapping calls: with a positive limit the "Maximum OTP attempts
\* exceeded" answer (429) is never given, the last wrong code closes the row.
PendingHasAttemptLeft ==
    \A c \in Challenges :
      rows[c] # None /\ rows[c].status = "pending" /\ rows[c].max_attempts > 0
        => rows[c].attempts < rows[c].max_attempts

\* One process counts every code it compares, a right one too, and compares
\* no more than the limit.  (Two processes may lose an increment.)
CodesWithinLimit ==
    OneProcess =>
      \A c \in Challenges :
        rows[c] # None => /\ compared[c] = rows[c].attempts
                          /\ compared[c] <= rows[c].max_attempts

\* A closed challenge is never reopened; with one process it never changes
\* at all, so a verified challenge cannot be spent twice.
ClosedStaysClosed ==
    [][\A c \in Challenges :
         rows[c] # None /\ rows[c].status # "pending" =>
           /\ rows'[c].status # "pending"
           /\ OneProcess => rows'[c] = rows[c]]_vars

-----------------------------------------------------------------------------
(* A statement of the code's comments that does not hold on PostgreSQL     *)

\* The challenge a call named, as the table has it now, is one that its code
\* should open: open, the caller's, unexpired when the call looked at the
\* clock, with attempts to be had, and the code is the right one.  The call
\* found the row, but may have read it before other calls changed it.
ShouldVerify(k) ==
    LET row == rows[k.challenge]
    IN  /\ k.right
        /\ k.row # None
        /\ row.status = "pending"
        /\ row.user = k.user
        /\ k.now <= row.expires_at
        /\ row.max_attempts > 0

\* database.py:83 gives the states a challenge can take as "pending|verified|
\* expired|failed".  A right code that should open the challenge as the table
\* has it when the call ends does: unless its commit raises or its process
\* dies, the answer is 200 and the row is left verified, at the time the call
\* took, however many wrong codes other calls have counted since this one read
\* the row.  It holds where the database returns naive datetimes (SQLite), and
\* is violated on PostgreSQL, where otp_verify raises at main.py:404.
RightCodeVerifies ==
    [][\A p \in Processes :
         LET k == call[p]
         IN  k # None /\ call'[p] = None /\ ~Rollback(p) /\ ShouldVerify(k) =>
               /\ ReplyTo(k) = 200
               /\ rows'[k.challenge].status = "verified"
               /\ rows'[k.challenge].verified_at = k.now]_vars

=============================================================================
