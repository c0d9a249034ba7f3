------------------------- MODULE OtpChallenge_proofs -------------------------
(***************************************************************************)
(* What holds of one-time passwords however many processes check them,     *)
(* whatever the limits and however calls overlap.                          *)
(*                                                                         *)
(* A call writes columns it computed from the row as it read it over the   *)
(* row as it is now.  The inductive invariant therefore relates the two:   *)
(* both satisfy RowOK, and they agree on the columns that never change.    *)
(***************************************************************************)
EXTENDS OtpChallenge, TLAPS

\* What every row satisfies, in the table and in a call's memory.
RowOK(row) ==
    /\ row \in Rows
    /\ row.attempts <= row.max_attempts
    /\ row.status = "pending" /\ row.max_attempts > 0 =>
         row.attempts < row.max_attempts
    /\ row.status = "verified" => /\ row.verified_at \in 0 .. row.expires_at
                                  /\ row.attempts >= 1

\* The row a call read and the row of the same challenge now: the same user's,
\* with the same limits, and open only if it was open then.
SameChallenge(before, row) ==
    /\ row # None
    /\ row.user = before.user
    /\ row.status = "pending" => before.status = "pending"
    /\ row.expires_at = before.expires_at
    /\ row.max_attempts = before.max_attempts

CallOK(p) ==
    call[p] # None /\ call[p].row # None =>
      /\ RowOK(call[p].row)
      /\ SameChallenge(call[p].row, rows[call[p].challenge])

\* With one process nothing comes between a call's read and its write, and
\* the attempts column counts the compared codes exactly.
Exact(c) ==
    compared[c] = IF rows[c] = None THEN 0 ELSE rows[c].attempts

Current(p) ==
    call[p] # None => /\ p \in replicas
                      /\ call[p].row = rows[call[p].challenge]

IInv ==
    /\ TypeOK
    /\ \A c \in Challenges : rows[c] # None => RowOK(rows[c])
    /\ \A p \in Processes : CallOK(p)
    /\ OneProcess => /\ \A c \in Challenges : Exact(c)
                     /\ \A p \in Processes : Current(p)

-----------------------------------------------------------------------------
(* What one call writes                                                    *)

\* A call that commits gives one of four answers, each for one outcome of the
\* checks after the status check.
LEMMA CommitReplies ==
    ASSUME NEW k, Commits(k)
    PROVE  \/ Expired(k) /\ ReplyTo(k) = 400
           \/ ~Expired(k) /\ Exhausted(k) /\ ReplyTo(k) = 429
           \/ ~Expired(k) /\ ~Exhausted(k) /\ ReplyTo(k) \in {200, 401}
  BY DEF Commits, ReplyTo

\* Writing the assigned columns over a row that has changed meanwhile leaves a
\* row in order, opens no closed challenge, and counts the compared code.
LEMMA WriteOK ==
    ASSUME NEW k \in Calls, RowOK(k.row), Commits(k),
           NEW row, RowOK(row), SameChallenge(k.row, row)
    PROVE  /\ RowOK(Written(k, row))
           /\ SameChallenge(k.row, Written(k, row))
           /\ row.status # "pending" => Written(k, row).status # "pending"
           /\ Written(k, row).attempts =
                IF ReplyTo(k) \in {200, 401} THEN k.row.attempts + 1
                                             ELSE row.attempts
<1> DEFINE after == Written(k, row)
           Result(r) == /\ RowOK(r)
                        /\ SameChallenge(k.row, r)
                        /\ row.status # "pending" => r.status # "pending"
<1>1. /\ row \in Rows
      /\ k.row \in Rows
      /\ k.now \in Nat
      /\ k.row.status = "pending"
  BY OtpAssumption DEF RowOK, Calls, Commits, NotOpen
<1>2. \A r \in Rows : r # None
  BY NoneAssumption
<1>3. /\ row.attempts \in Nat
      /\ row.max_attempts \in Nat
      /\ row.expires_at \in Nat
      /\ k.row.attempts \in Nat
      /\ row.max_attempts = k.row.max_attempts
      /\ row.expires_at = k.row.expires_at
  BY <1>1, OtpAssumption DEF Rows, SameChallenge
<1>4. CASE Expired(k) /\ ReplyTo(k) = 400
  <2>1. after = [row EXCEPT !.status = "expired"]
    BY <1>4 DEF Written
  <2>2. Result(after) /\ after.attempts = row.attempts
    BY <1>1, <1>2, <1>3, <2>1 DEF RowOK, SameChallenge, Rows, Statuses
  <2> QED
    BY <1>4, <2>2
<1>5. CASE ~Expired(k) /\ Exhausted(k) /\ ReplyTo(k) = 429
  <2>1. after = [row EXCEPT !.status = "failed"]
    BY <1>5 DEF Written
  <2>2. Result(after) /\ after.attempts = row.attempts
    BY <1>1, <1>2, <1>3, <2>1 DEF RowOK, SameChallenge, Rows, Statuses
  <2> QED
    BY <1>5, <2>2
<1>6. CASE ~Expired(k) /\ ~Exhausted(k) /\ ReplyTo(k) \in {200, 401}
  <2>1. k.row.attempts + 1 <= k.row.max_attempts /\ k.now <= k.row.expires_at
    BY <1>1, <1>3, <1>6 DEF Expired, Exhausted, Rows
  <2>2. CASE ReplyTo(k) = 200
    <3>1. after = [row EXCEPT !.attempts = k.row.attempts + 1,
                              !.status = "verified", !.verified_at = k.now]
      BY <2>2 DEF Written
    <3>2. /\ after \in Rows
          /\ after.user = row.user
          /\ after.attempts = k.row.attempts + 1
          /\ after.status = "verified"
          /\ after.verified_at = k.now
          /\ after.max_attempts = row.max_attempts
          /\ after.expires_at = row.expires_at
      <4>1. after = [user |-> row.user, status |-> "verified",
                    attempts |-> k.row.attempts + 1,
                    max_attempts |-> row.max_attempts,
                    expires_at |-> row.expires_at,
                    verified_at |-> k.now]
        BY <1>1, <3>1 DEF Rows
      <4> HIDE DEF after
      <4> QED
        BY <1>1, <1>3, <4>1 DEF Rows, Statuses
    <3>3. Result(after)
      <4> HIDE DEF after
      <4>1. RowOK(after)
        BY <1>3, RowOK(row), <1>1, <2>1, <3>2 DEF RowOK
      <4>2. SameChallenge(k.row, after)
        BY <1>1, <1>2, <1>3, <3>2, SameChallenge(k.row, row) DEF SameChallenge
      <4> QED
        BY <3>2, <4>1, <4>2
    <3> QED
      BY <2>2, <3>2, <3>3
  <2>3. CASE ReplyTo(k) = 401
    <3>1. after = [row EXCEPT
                     !.attempts = k.row.attempts + 1,
                     !.status = IF k.row.attempts + 1 >= k.row.max_attempts
                                THEN "failed" ELSE @]
      BY <2>3 DEF Written
    <3>2. /\ after \in Rows
          /\ after.user = row.user
          /\ after.attempts = k.row.attempts + 1
          /\ after.status \in {row.status, "failed"}
          /\ k.row.attempts + 1 >= k.row.max_attempts =>
               after.status = "failed"
          /\ after.verified_at = row.verified_at
          /\ after.max_attempts = row.max_attempts
          /\ after.expires_at = row.expires_at
      <4>1. after = [user |-> row.user, status |-> IF k.row.attempts + 1 >= k.row.max_attempts
                               THEN "failed" ELSE row.status,
                    attempts |-> k.row.attempts + 1,
                    max_attempts |-> row.max_attempts,
                    expires_at |-> row.expires_at,
                    verified_at |-> row.verified_at]
        BY <1>1, <3>1 DEF Rows
      <4> HIDE DEF after
      <4> QED
        BY <1>1, <1>3, <4>1 DEF Rows, Statuses
    <3>3. Result(after)
      <4> HIDE DEF after
      <4>1. RowOK(after)
        BY <1>3, RowOK(row), <1>1, <2>1, <3>2 DEF RowOK
      <4>2. SameChallenge(k.row, after)
        BY <1>1, <1>2, <1>3, <3>2, SameChallenge(k.row, row) DEF SameChallenge
      <4> QED
        BY <3>2, <4>1, <4>2
    <3> QED
      BY <2>3, <3>2, <3>3
  <2> QED
    BY <1>6, <2>2, <2>3
<1> QED
  BY <1>4, <1>5, <1>6, CommitReplies

-----------------------------------------------------------------------------
(* The inductive invariant                                                 *)

LEMMA InitOK == Init => IInv
<1> SUFFICES ASSUME Init
             PROVE  IInv
  OBVIOUS
<1>1. TypeOK
  BY OtpAssumption DEF Init, TypeOK
<1> QED
  BY <1>1 DEF Init, IInv, CallOK, Exact, Current

\* A new challenge starts open, with nothing compared; no call in progress has
\* read a row of it, and with one process there is none in progress.
LEMMA SendStep ==
    ASSUME IInv, NEW u \in Users, otp_send(u)
    PROVE  IInv'
<1>1. PICK c \in Challenges, limit \in Limits :
        /\ rows[c] = None
        /\ rows' = [rows EXCEPT
             ![c] = [user |-> u, status |-> "pending", attempts |-> 0,
                     max_attempts |-> limit, expires_at |-> now + Expiry,
                     verified_at |-> None]]
  BY DEF otp_send
<1> DEFINE fresh == [user |-> u, status |-> "pending", attempts |-> 0,
                     max_attempts |-> limit, expires_at |-> now + Expiry,
                     verified_at |-> None]
<1>2. limit \in Nat /\ now + Expiry \in Nat
  BY OtpAssumption DEF IInv, TypeOK
<1>3. fresh \in Rows /\ RowOK(fresh) /\ fresh.attempts = 0
  BY <1>2 DEF Rows, Statuses, RowOK
<1>4. fresh # None
  BY <1>3, NoneAssumption
<1>5. \A d \in Challenges : rows'[d] = IF d = c THEN fresh ELSE rows[d]
  BY <1>1 DEF IInv, TypeOK
<1>6. UNCHANGED <<replicas, now, call, compared>>
  BY DEF otp_send
<1> HIDE DEF fresh
<1>7. TypeOK'
  <2>1. rows' \in [Challenges -> Rows \cup {None}]
    BY <1>1, <1>3 DEF IInv, TypeOK, fresh
  <2> QED
    BY <1>6, <2>1 DEF IInv, TypeOK
<1>8. \A d \in Challenges : rows'[d] # None => RowOK(rows'[d])
  BY <1>3, <1>5 DEF IInv
<1>9. ASSUME NEW p \in Processes
      PROVE  CallOK(p)'
  <2>1. call[p] # None => call[p].challenge \in Challenges
    BY DEF IInv, TypeOK, Calls
  <2>2. CallOK(p)
    BY DEF IInv
  <2> QED
    BY <1>1, <1>5, <1>6, <2>1, <2>2 DEF CallOK, SameChallenge
<1>10. ASSUME OneProcess'
       PROVE  /\ \A d \in Challenges : Exact(d)'
              /\ \A p \in Processes : Current(p)'
  <2>1. /\ OneProcess
        /\ \A d \in Challenges : Exact(d)
        /\ \A p \in Processes : Current(p)
    BY <1>6, <1>10 DEF OneProcess, IInv
  <2>2. \A d \in Challenges : Exact(d)'
    BY <1>1, <1>3, <1>4, <1>5, <1>6, <2>1 DEF Exact
  <2>3. \A p \in Processes : call[p] = None
    BY <2>1 DEF OneProcess, Current, otp_send
  <2> QED
    BY <1>6, <2>2, <2>3 DEF Current
<1> QED
  BY <1>7, <1>8, <1>9, <1>10 DEF IInv

\* What a call reads is in order, and is what the table holds.
LEMMA ReadStep ==
    ASSUME IInv, NEW p \in Processes, ReadChallenge(p)
    PROVE  IInv'
<1>1. PICK c \in Challenges, u \in Users, right \in BOOLEAN :
        call' = [call EXCEPT
          ![p] = [challenge |-> c, user |-> u, right |-> right,
                  row |-> rows[c], now |-> now]]
  BY DEF ReadChallenge
<1> DEFINE k == [challenge |-> c, user |-> u, right |-> right,
                 row |-> rows[c], now |-> now]
<1>2. k \in Calls /\ k.challenge = c /\ k.row = rows[c]
  BY DEF IInv, TypeOK, Calls
<1>3. call' = [call EXCEPT ![p] = k]
  BY <1>1
<1> HIDE DEF k
<1>4. UNCHANGED <<replicas, now, rows, compared>> /\ p \in replicas
  BY DEF ReadChallenge
<1>5. \A q \in Processes : call'[q] = IF q = p THEN k ELSE call[q]
  BY <1>3 DEF IInv, TypeOK
<1>6. TypeOK'
  BY <1>2, <1>3, <1>4 DEF IInv, TypeOK
<1>7. ASSUME NEW q \in Processes
      PROVE  CallOK(q)'
  <2>1. CallOK(q) /\ (rows[c] # None => RowOK(rows[c]))
    BY DEF IInv
  <2>2. CASE q = p
    BY <1>2, <1>4, <1>5, <2>1, <2>2 DEF CallOK, SameChallenge
  <2>3. CASE q # p
    BY <1>4, <1>5, <2>1, <2>3 DEF CallOK, SameChallenge
  <2> QED
    BY <2>2, <2>3
<1>8. ASSUME OneProcess'
      PROVE  /\ \A d \in Challenges : Exact(d)'
             /\ \A q \in Processes : Current(q)'
  <2>1. /\ \A d \in Challenges : Exact(d)
        /\ \A q \in Processes : Current(q)
    BY <1>4, <1>8 DEF OneProcess, IInv
  <2> QED
    BY <1>2, <1>4, <1>5, <2>1 DEF Exact, Current
<1>9. \A d \in Challenges : rows'[d] # None => RowOK(rows'[d])
  BY <1>4 DEF IInv
<1> QED
  BY <1>6, <1>7, <1>8, <1>9 DEF IInv

\* A call that ends without a write leaves one call fewer to say anything of.
LEMMA ReturnStep ==
    ASSUME IInv, NEW p \in Processes, Return(p),
           UNCHANGED <<replicas, now, rows, compared>>
    PROVE  IInv'
<1>1. \A q \in Processes : call'[q] = IF q = p THEN None ELSE call[q]
  BY DEF IInv, TypeOK, Return
<1>2. TypeOK'
  BY DEF IInv, TypeOK, Return
<1>3. \A q \in Processes : CallOK(q)'
  BY <1>1 DEF IInv, CallOK, SameChallenge
<1>4. ASSUME OneProcess'
      PROVE  /\ \A d \in Challenges : Exact(d)'
             /\ \A q \in Processes : Current(q)'
  BY <1>1, <1>4 DEF OneProcess, IInv, Exact, Current
<1> QED
  BY <1>2, <1>3, <1>4 DEF IInv

\* A commit leaves the row in order and the columns other calls rely on.
LEMMA CommitStep ==
    ASSUME IInv, NEW p \in Processes, Commit(p)
    PROVE  IInv'
<1> DEFINE k == call[p]
           c == k.challenge
           after == Written(k, rows[c])
<1>1. /\ k # None
      /\ Commits(k)
      /\ rows' = [rows EXCEPT ![c] = after]
      /\ compared' = [compared EXCEPT
                        ![c] = IF ReplyTo(k) \in {200, 401} THEN @ + 1 ELSE @]
      /\ Return(p)
      /\ UNCHANGED <<replicas, now>>
  BY DEF Commit
<1>2. k \in Calls /\ c \in Challenges /\ k.row # None
  BY <1>1 DEF IInv, TypeOK, Calls, Commits, NotFound
<1>3. RowOK(k.row) /\ SameChallenge(k.row, rows[c]) /\ RowOK(rows[c])
  BY <1>1, <1>2 DEF IInv, CallOK, SameChallenge
<1>4. /\ RowOK(after)
      /\ SameChallenge(k.row, after)
      /\ rows[c].status # "pending" => after.status # "pending"
      /\ after.attempts = IF ReplyTo(k) \in {200, 401}
                          THEN k.row.attempts + 1 ELSE rows[c].attempts
  BY <1>1, <1>2, <1>3, WriteOK
<1> HIDE DEF after
<1>5. \A d \in Challenges : rows'[d] = IF d = c THEN after ELSE rows[d]
  BY <1>1 DEF IInv, TypeOK
<1>6. \A q \in Processes : call'[q] = IF q = p THEN None ELSE call[q]
  BY <1>1 DEF IInv, TypeOK, Return
<1>7. TypeOK'
  <2>1. rows' \in [Challenges -> Rows \cup {None}]
    BY <1>1, <1>4 DEF IInv, TypeOK, RowOK
  <2>2. compared' \in [Challenges -> Nat]
    <3>1. \A d \in Challenges : compared[d] \in Nat /\ compared[d] + 1 \in Nat
      BY DEF IInv, TypeOK
    <3> QED
      BY <1>1, <1>2, <3>1 DEF IInv, TypeOK
  <2>3. call' \in [Processes -> Calls \cup {None}]
    BY <1>1 DEF IInv, TypeOK, Return
  <2> QED
    BY <1>1, <2>1, <2>2, <2>3 DEF IInv, TypeOK
<1>8. \A d \in Challenges : rows'[d] # None => RowOK(rows'[d])
  BY <1>4, <1>5 DEF IInv
<1>9. ASSUME NEW q \in Processes, call'[q] # None, call'[q].row # None
      PROVE  /\ RowOK(call'[q].row)
             /\ SameChallenge(call'[q].row, rows'[call'[q].challenge])
  <2> DEFINE d == call[q].challenge
  <2>1. call'[q] = call[q] /\ call[q] # None /\ call[q].row # None
    BY <1>6, <1>9
  <2>2. d \in Challenges
    BY <2>1 DEF IInv, TypeOK, Calls
  <2>3. RowOK(call[q].row) /\ SameChallenge(call[q].row, rows[d])
    BY <2>1 DEF IInv, CallOK
  <2>4. SameChallenge(call[q].row, rows'[d])
    BY <1>3, <1>4, <1>5, <2>2, <2>3 DEF SameChallenge
  <2> QED
    BY <2>1, <2>3, <2>4
<1>10. ASSUME OneProcess'
       PROVE  /\ \A d \in Challenges : Exact(d)'
              /\ \A q \in Processes : Current(q)'
  <2>1. /\ OneProcess
        /\ \A d \in Challenges : Exact(d)
        /\ \A q \in Processes : Current(q)
    BY <1>1, <1>10 DEF OneProcess, IInv
  <2>2. \A q \in Processes : q # p => call[q] = None
    BY <1>1, <2>1 DEF OneProcess, Current
  <2>3. k.row = rows[c]
    BY <1>1, <2>1 DEF Current
  <2>4. ASSUME NEW d \in Challenges
        PROVE  Exact(d)'
    <3>1. compared[d] = IF rows[d] = None THEN 0 ELSE rows[d].attempts
      BY <2>1 DEF Exact
    <3>2. compared'[d] = IF d = c /\ ReplyTo(k) \in {200, 401}
                         THEN compared[d] + 1 ELSE compared[d]
      BY <1>1 DEF IInv, TypeOK
    <3>3. rows[c] # None /\ after # None
      BY <1>3, <1>4 DEF SameChallenge
    <3>4. compared'[d] = IF rows'[d] = None THEN 0 ELSE rows'[d].attempts
      BY <1>4, <1>5, <2>3, <3>1, <3>2, <3>3
    <3> QED
      BY <3>4 DEF Exact
  <2>5. \A q \in Processes : Current(q)'
    BY <1>6, <2>2 DEF Current
  <2> QED
    BY <2>4, <2>5
<1> QED
  BY <1>7, <1>8, <1>9, <1>10 DEF IInv, CallOK

\* IInv is preserved by every step.
LEMMA StepOK == IInv /\ [Next]_vars => IInv'
<1> SUFFICES ASSUME IInv, [Next]_vars
             PROVE  IInv'
  OBVIOUS
<1>1. ASSUME NEW u \in Users, otp_send(u)
      PROVE  IInv'
  BY <1>1, SendStep
<1>2. ASSUME NEW p \in Processes, ReadChallenge(p)
      PROVE  IInv'
  BY <1>2, ReadStep
<1>3. ASSUME NEW p \in Processes, Refuse(p) \/ Rollback(p)
      PROVE  IInv'
  BY <1>3, ReturnStep DEF Refuse, Rollback
<1>4. ASSUME NEW p \in Processes, Commit(p)
      PROVE  IInv'
  BY <1>4, CommitStep
<1>5. CASE Tick
  <2>1. now' \in 0 .. MaxTime
    BY <1>5, OtpAssumption DEF Tick, IInv, TypeOK
  <2> QED
    BY <1>5, <2>1 DEF Tick, IInv, TypeOK, CallOK, OneProcess, Exact, Current
<1>6. CASE UNCHANGED vars
  BY <1>6 DEF vars, IInv, TypeOK, CallOK, OneProcess, Exact, Current
<1> QED
  BY <1>1, <1>2, <1>3, <1>4, <1>5, <1>6 DEF Next

LEMMA Invariant == Spec => []IInv
  BY InitOK, StepOK, PTL DEF Spec

-----------------------------------------------------------------------------
(* The theorems                                                            *)

\* In every run the challenges and the calls in progress have their types.
THEOREM TypeCorrect == Spec => []TypeOK
<1>1. IInv => TypeOK
  BY DEF IInv
<1> QED
  BY <1>1, Invariant, PTL

\* Any number of processes, any limit, any clock: a verified challenge was
\* verified by its expiry and within its attempts.
THEOREM AlwaysVerifiedInTime == Spec => []VerifiedInTime
<1>1. IInv => VerifiedInTime
  BY OtpAssumption DEF IInv, RowOK, Rows, VerifiedInTime
<1> QED
  BY <1>1, Invariant, PTL

\* No overlap of calls leaves a challenge open that no code can close.
THEOREM AlwaysAttemptLeft == Spec => []PendingHasAttemptLeft
<1>1. IInv => PendingHasAttemptLeft
  BY DEF IInv, RowOK, PendingHasAttemptLeft
<1> QED
  BY <1>1, Invariant, PTL

\* A gateway of one process compares as many codes as it counts attempts, and
\* no more than the limit.
THEOREM AlwaysWithinLimit == Spec => []CodesWithinLimit
<1>1. IInv => CodesWithinLimit
  BY DEF IInv, RowOK, Exact, CodesWithinLimit
<1> QED
  BY <1>1, Invariant, PTL

\* On a database that returns naive datetimes the right code of the owner, in
\* time, verifies a challenge that is still open when its call commits: the
\* row the call read is older than the table's, and the invariant relates them.
THEOREM RightCodeAlwaysVerifies ==
    ASSUME ~AwareTimestamps
    PROVE  Spec => RightCodeVerifies
<1> DEFINE Opens(p) ==
             LET k == call[p]
             IN  k # None /\ call'[p] = None /\ ~Rollback(p)
                   /\ ShouldVerify(k) =>
                     /\ ReplyTo(k) = 200
                     /\ rows'[k.challenge].status = "verified"
                     /\ rows'[k.challenge].verified_at = k.now
<1>1. IInv /\ [Next]_vars => \A p \in Processes : Opens(p)
  <2> SUFFICES ASSUME IInv, [Next]_vars, NEW p \in Processes,
                      call[p] # None, call'[p] = None, ~Rollback(p),
                      ShouldVerify(call[p])
               PROVE  /\ ReplyTo(call[p]) = 200
                      /\ rows'[call[p].challenge].status = "verified"
                      /\ rows'[call[p].challenge].verified_at = call[p].now
    OBVIOUS
  <2>1. PICK k : k = call[p]
    OBVIOUS
  <2>2. PICK row : row = rows[k.challenge]
    OBVIOUS
  <2>3. k \in Calls /\ k # None /\ k.row # None
    BY <2>1 DEF IInv, TypeOK, ShouldVerify
  <2>4. RowOK(k.row) /\ SameChallenge(k.row, row) /\ k.challenge \in Challenges
    BY <2>1, <2>2, <2>3 DEF IInv, CallOK, Calls
  <2>5. /\ k.right
        /\ row.status = "pending"
        /\ row.user = k.user
        /\ k.now <= row.expires_at
        /\ row.max_attempts > 0
    BY <2>1, <2>2 DEF ShouldVerify
  <2>6. /\ k.row.status = "pending"
        /\ k.row.user = k.user
        /\ k.now <= k.row.expires_at
        /\ k.row.attempts < k.row.max_attempts
    BY <2>4, <2>5 DEF RowOK, SameChallenge
  <2>7. Commits(k) /\ ReplyTo(k) = 200
    <3>1. k.now \in Nat
      BY <2>3, OtpAssumption DEF Calls
    <3>2. k.row \in Rows
      BY <2>4 DEF RowOK
    <3>3. /\ k.row.expires_at \in Nat
          /\ k.row.attempts \in Nat
          /\ k.row.max_attempts \in Nat
      BY <3>2, OtpAssumption DEF Rows
    <3>4. ~Expired(k) /\ ~Exhausted(k)
      BY <2>6, <3>1, <3>3 DEF Expired, Exhausted
    <3>5. ~NotFound(k) /\ ~NotOwner(k) /\ ~NotOpen(k)
      BY <2>3, <2>6 DEF NotFound, NotOwner, NotOpen
    <3>6. ReplyTo(k) = 200
      BY <2>5, <3>4, <3>5, ~AwareTimestamps DEF ReplyTo
    <3> QED
      BY <3>5, <3>6, ~AwareTimestamps DEF Commits
  <2>8. Commit(p)
    <3>1. call[p] = k /\ call' # call
      BY <2>1
    <3>2. ASSUME NEW q \in Processes, q # p, Return(q) \/ ReadChallenge(q)
          PROVE  FALSE
      BY <3>2 DEF Return, ReadChallenge, IInv, TypeOK
    <3>3. ~ReadChallenge(p) /\ ~Refuse(p) /\ ~Rollback(p)
      BY <2>1, <2>7 DEF ReadChallenge, Refuse
    <3>4. ~Tick /\ ~UNCHANGED vars /\ \A u \in Users : ~otp_send(u)
      BY <3>1 DEF Tick, vars, otp_send
    <3> QED
      BY <3>2, <3>3, <3>4 DEF Next, Refuse, Rollback, Commit
  <2>9. rows'[k.challenge] = Written(k, row)
    BY <2>1, <2>2, <2>4, <2>8 DEF Commit, IInv, TypeOK
  <2>10. row \in Rows
    <3>1. rows[k.challenge] \in Rows \cup {None}
      BY <2>4 DEF IInv, TypeOK
    <3> QED
      BY <2>2, <2>4, <3>1 DEF SameChallenge
  <2>11. Written(k, row).status = "verified" /\ Written(k, row).verified_at = k.now
    <3>1. Written(k, row) = [row EXCEPT !.attempts = k.row.attempts + 1,
                                        !.status = "verified",
                                        !.verified_at = k.now]
      BY <2>7 DEF Written
    <3> QED
      BY <2>10, <3>1 DEF Rows
  <2> QED
    BY <2>1, <2>7, <2>9, <2>11
<1>2. IInv /\ [Next]_vars => [\A p \in Processes : Opens(p)]_vars
  BY <1>1
<1> QED
  BY <1>2, Invariant, PTL DEF Spec, RightCodeVerifies

\* No call, of whatever process, reopens a closed challenge, and a gateway of
\* one process does not touch it: a verified challenge is spent.
THEOREM ClosedForGood == Spec => ClosedStaysClosed
<1> DEFINE Stays(c) ==
             rows[c] # None /\ rows[c].status # "pending" =>
               /\ rows'[c].status # "pending"
               /\ OneProcess => rows'[c] = rows[c]
<1>1. IInv /\ [Next]_vars => \A c \in Challenges : Stays(c)
  <2> SUFFICES ASSUME IInv, [Next]_vars, NEW c \in Challenges,
                      rows[c] # None, rows[c].status # "pending"
               PROVE  /\ rows'[c].status # "pending"
                      /\ OneProcess => rows'[c] = rows[c]
    OBVIOUS
  <2>1. ASSUME NEW p \in Processes, Commit(p), call[p].challenge = c
        PROVE  /\ rows'[c].status # "pending"
               /\ OneProcess => rows'[c] = rows[c]
    <3>1. /\ call[p] \in Calls
          /\ call[p] # None
          /\ Commits(call[p])
          /\ call[p].row # None
          /\ call[p].row.status = "pending"
          /\ rows'[c] = Written(call[p], rows[c])
      BY <2>1 DEF IInv, TypeOK, Commit, Commits, NotFound, NotOpen
    <3>2. /\ RowOK(call[p].row)
          /\ RowOK(rows[c])
          /\ SameChallenge(call[p].row, rows[c])
      BY <2>1, <3>1 DEF IInv, CallOK
    <3>3. Written(call[p], rows[c]).status # "pending"
      BY <3>1, <3>2, WriteOK
    <3>4. ~OneProcess
      BY <2>1, <3>1 DEF IInv, Current
    <3> QED
      BY <3>1, <3>3, <3>4
  <2>2. ASSUME NEW p \in Processes, Commit(p), call[p].challenge # c
        PROVE  rows'[c] = rows[c]
    BY <2>2 DEF Commit, IInv, TypeOK
  <2>3. ASSUME NEW u \in Users, otp_send(u)
        PROVE  rows'[c] = rows[c]
    BY <2>3 DEF otp_send, IInv, TypeOK
  <2>4. CASE Tick \/ UNCHANGED vars
    BY <2>4 DEF Tick, vars
  <2>5. ASSUME NEW p \in Processes,
               ReadChallenge(p) \/ Refuse(p) \/ Rollback(p)
        PROVE  rows'[c] = rows[c]
    BY <2>5 DEF ReadChallenge, Refuse, Rollback
  <2> QED
    BY <2>1, <2>2, <2>3, <2>4, <2>5 DEF Next
<1>2. IInv /\ [Next]_vars => [\A c \in Challenges : Stays(c)]_vars
  BY <1>1
<1> QED
  BY <1>2, Invariant, PTL DEF Spec, ClosedStaysClosed

-----------------------------------------------------------------------------
(* On a database that returns aware datetimes                              *)

\* A challenge nobody has spent, or counted an attempt of.
Untouched(row) == row.status = "pending" /\ row.attempts = 0

\* The only answers are that there is no such challenge, that it is another
\* user's, and a server error; the code plays no part in them.
NothingVerified ==
    /\ \A c \in Challenges : rows[c] # None => Untouched(rows[c])
    /\ \A p \in Processes : call[p] # None =>
         /\ ReplyTo(call[p]) \in {404, 403, 500}
         /\ call[p].row # None => Untouched(call[p].row)

\* On PostgreSQL no challenge leaves its first state and no call is told
\* whether its code was right, for any number of processes and any codes,
\* limits and times.
THEOREM AwareNeverVerifies ==
    ASSUME AwareTimestamps
    PROVE  Spec => []NothingVerified
<1>1. ASSUME NEW k, k.row # None => Untouched(k.row)
      PROVE  ReplyTo(k) \in {404, 403, 500}
  BY <1>1, AwareTimestamps DEF ReplyTo, NotFound, NotOwner, NotOpen, Untouched
<1>2. Init => NothingVerified
  BY DEF Init, NothingVerified
<1>3. IInv /\ NothingVerified /\ [Next]_vars => NothingVerified'
  <2> SUFFICES ASSUME IInv, NothingVerified, [Next]_vars PROVE NothingVerified'
    OBVIOUS
  <2>1. rows \in [Challenges -> Rows \cup {None}] /\ call \in [Processes -> Calls \cup {None}]
    BY DEF IInv, TypeOK
  <2>2. ASSUME NEW c \in Challenges, rows'[c] # None
        PROVE  Untouched(rows'[c])
    <3>1. ASSUME NEW u \in Users, otp_send(u) PROVE Untouched(rows'[c])
      <4>1. PICK d \in Challenges, limit \in Limits :
              rows' = [rows EXCEPT
                ![d] = [user |-> u, status |-> "pending", attempts |-> 0,
                        max_attempts |-> limit, expires_at |-> now + Expiry,
                        verified_at |-> None]]
        BY <3>1 DEF otp_send
      <4>2. CASE c = d
        BY <2>1, <4>1, <4>2 DEF Untouched
      <4>3. CASE c # d
        BY <2>1, <2>2, <4>1, <4>3 DEF NothingVerified
      <4> QED
        BY <4>2, <4>3
    <3>2. ASSUME NEW p \in Processes PROVE ~Commit(p)
      BY AwareTimestamps DEF Commit, Commits
    <3>3. rows' = rows => Untouched(rows'[c])
      BY <2>2 DEF NothingVerified
    <3> QED
      BY <3>1, <3>2, <3>3 DEF Next, vars, ReadChallenge, Refuse, Rollback, Tick
  <2>3. ASSUME NEW q \in Processes, call'[q] # None
        PROVE  call'[q].row # None => Untouched(call'[q].row)
    <3>1. ASSUME NEW p \in Processes, ReadChallenge(p)
          PROVE  call'[q].row # None => Untouched(call'[q].row)
      <4>1. PICK c \in Challenges, u \in Users, right \in BOOLEAN :
              call' = [call EXCEPT
                ![p] = [challenge |-> c, user |-> u, right |-> right,
                        row |-> rows[c], now |-> now]]
        BY <3>1 DEF ReadChallenge
      <4>2. CASE q = p
        BY <2>1, <4>1, <4>2 DEF NothingVerified
      <4>3. CASE q # p
        BY <2>1, <2>3, <4>1, <4>3 DEF NothingVerified
      <4> QED
        BY <4>2, <4>3
    <3>2. ASSUME NEW p \in Processes, Return(p)
          PROVE  call'[q].row # None => Untouched(call'[q].row)
      BY <2>1, <2>3, <3>2 DEF Return, NothingVerified
    <3>3. call' = call => (call'[q].row # None => Untouched(call'[q].row))
      BY <2>3 DEF NothingVerified
    <3> QED
      BY <3>1, <3>2, <3>3 DEF Next, vars, otp_send, Refuse, Rollback, Commit, Tick
  <2>4. ASSUME NEW q \in Processes, call'[q] # None
        PROVE  ReplyTo(call'[q]) \in {404, 403, 500}
    BY <1>1, <2>3, <2>4
  <2>5. \A q \in Processes : ReplyTo(call[q])' = ReplyTo(call'[q])
    BY DEF ReplyTo, NotFound, NotOwner, NotOpen, Expired, Exhausted
  <2> QED
    BY <2>2, <2>3, <2>4, <2>5 DEF NothingVerified, Untouched
<1> QED
  BY <1>2, <1>3, Invariant, PTL DEF Spec

=============================================================================
