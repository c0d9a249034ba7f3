-------------------------- MODULE MCForensicReports --------------------------
(***************************************************************************)
(* Instances of ForensicReports for TLC.                                   *)
(***************************************************************************)
EXTENDS ForensicReports

\* One user who is denied, at the score where the scales meet, and let in
\* again, from one address; another who is challenged, at a score only the
\* legacy analysis calls high, from none.
SomeAccesses ==
    {[user |-> "alice", ip |-> "ip1", decision |-> "deny", score |-> 100,
      resource |-> "admin", privileged |-> TRUE],
     [user |-> "alice", ip |-> "ip1", decision |-> "allow", score |-> 20,
      resource |-> "docs", privileged |-> FALSE],
     [user |-> "bob", ip |-> NoIp, decision |-> "challenge_otp", score |-> 7000,
      resource |-> "docs", privileged |-> FALSE]}

=============================================================================
