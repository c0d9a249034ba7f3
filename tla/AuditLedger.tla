----------------------------- MODULE AuditLedger -----------------------------
(***************************************************************************)
(* What the gateway promises about its decisions, without saying how: a    *)
(* decision first becomes evidence of the process that took it, then, at   *)
(* most once and unaltered, a row of the durable ledger, and only then is  *)
(* it answered.  A process that restarts loses its evidence, and with it   *)
(* the decisions that were not yet in the ledger.                          *)
(***************************************************************************)
EXTENDS Naturals, Sequences

CONSTANTS Gateways, Requests, Decisions

VARIABLES
    evidence,    \* of each process: the decisions taken since it started
    ledger,      \* the durable decisions
    status       \* of each request

vars == <<evidence, ledger, status>>

Decided == [request : Requests, decision : Decisions]

Init ==
    /\ evidence = [g \in Gateways |-> << >>]
    /\ ledger = << >>
    /\ status = [r \in Requests |-> "open"]

Decide(g, r) ==
    /\ status[r] = "open"
    /\ \E d \in Decisions :
         evidence' = [evidence EXCEPT
                        ![g] = Append(@, [request |-> r, decision |-> d])]
    /\ status' = [status EXCEPT ![r] = "decided"]
    /\ UNCHANGED ledger

\* The last decision of g, which is r's, becomes durable; the answer may
\* still get lost.
Record(g, r) ==
    LET last == evidence[g][Len(evidence[g])]
    IN  /\ status[r] = "decided"
        /\ evidence[g] # << >>
        /\ last.request = r
        /\ ledger' = Append(ledger, last)
        /\ \E end \in {"answered", "failed"} :
             status' = [status EXCEPT ![r] = end]
        /\ UNCHANGED evidence

Fail(r) ==
    /\ status[r] \in {"open", "decided"}
    /\ status' = [status EXCEPT ![r] = "failed"]
    /\ UNCHANGED <<evidence, ledger>>

Restart(g) ==
    /\ evidence' = [evidence EXCEPT ![g] = << >>]
    /\ \E hit \in SUBSET {r \in Requests : status[r] \in {"open", "decided"}} :
         status' = [r \in Requests |->
                      IF r \in hit THEN "failed" ELSE status[r]]
    /\ UNCHANGED ledger

Next ==
    \/ \E g \in Gateways, r \in Requests : Decide(g, r) \/ Record(g, r)
    \/ \E r \in Requests : Fail(r)
    \/ \E g \in Gateways : Restart(g)

Spec == Init /\ [][Next]_vars

=============================================================================
