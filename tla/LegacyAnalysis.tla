---------------------------- MODULE LegacyAnalysis ----------------------------
(***************************************************************************)
(* The analysis libraries of an earlier gateway, which the tests still     *)
(* exercise: forensic_engine.py, timeline_analyzer.py, anomaly_detector.py,*)
(* evidence_packager.py and report_generator.py.  Each is a function of a  *)
(* list of evidence records.                                               *)
(*                                                                         *)
(* An evidence record is a log row with its id, a link and a digest.  As   *)
(* in HashChain a digest stands for what it commits to: the digest of a    *)
(* record is the link it carries extended by its content.                  *)
(*                                                                         *)
(* Scores are hundredths of a point, hours count from a midnight.          *)
(***************************************************************************)
EXTENDS Integers, Sequences, SequencesExt, FiniteSets

CONSTANT NoIp    \* the ip_address of a row that has none

-----------------------------------------------------------------------------
(* forensic_engine.py                                                      *)

\* The previous_hash "0" of the first record.
FirstLink == << >>

make_record_hash(content, previous_hash) == Append(previous_hash, content)

\* The record of a content, with the link it is given.
Evidence(id, content, previous_hash) ==
    [id |-> id, content |-> content, previous_hash |-> previous_hash,
     record_hash |-> make_record_hash(content, previous_hash)]

\* The records of a log, each linked to the one before.
EvidenceOf(logs) ==
    LET record[i \in DOMAIN logs] ==
          Evidence(i, logs[i], IF i = 1 THEN FirstLink ELSE record[i - 1].record_hash)
    IN  record

\* The expected_prev the loops carry to their i-th record.
ExpectedPrev(records, i) ==
    IF i = 1 THEN FirstLink ELSE records[i - 1].record_hash

Linked(records, i) == records[i].previous_hash = ExpectedPrev(records, i)

\* Faulty variant of RecordVerifies: the digest is taken to cover the link.
RecordVerifies_NoLink(records, i) ==
    records[i].record_hash =
        make_record_hash(records[i].content, records[i].previous_hash)

\* The two tests of one turn of verify_chain's loop.
RecordVerifies(records, i) ==
    /\ Linked(records, i)
    /\ records[i].record_hash =
           make_record_hash(records[i].content, records[i].previous_hash)

\* verify_chain stops at the first record that fails; broken_at_id is 0 here
\* when none does.
verify_chain(records) ==
    LET bad == {i \in DOMAIN records : ~RecordVerifies(records, i)}
        first == CHOOSE i \in bad : \A j \in bad : i <= j
    IN  IF bad = {}
        THEN [ok |-> TRUE, checked |-> Len(records), broken_at_id |-> 0]
        ELSE [ok |-> FALSE, checked |-> first - 1,
              broken_at_id |-> records[first].id]

-----------------------------------------------------------------------------
(* timeline_analyzer.py                                                    *)

Period(hour, interval) == IF interval = "day" THEN hour \div 24 ELSE hour

\* The distinct periods of a log in ascending order: sorted(buckets.keys()).
Periods(logs, interval) ==
    LET all == {Period(logs[i].hour, interval) : i \in DOMAIN logs}
    IN  [k \in 1 .. Cardinality(all) |->
           CHOOSE p \in all : Cardinality({q \in all : q <= p}) = k]

\* int(risk_score)
Points(row) == row.score \div 100

NewPeriod(period) ==
    [period |-> period, total_requests |-> 0, allowed |-> 0, denied |-> 0,
     risk_sum |-> 0, high_risk_events |-> 0]

One(condition) == IF condition THEN 1 ELSE 0

\* One turn of the loop over the records; what is not an ALLOW is denied.
AddRecord(bucket, row) ==
    [bucket EXCEPT
       !.total_requests   = @ + 1,
       !.allowed          = @ + One(row.decision = "allow"),
       !.denied           = @ + One(row.decision # "allow"),
       !.risk_sum         = @ + Points(row),
       !.high_risk_events = @ + One(Points(row) >= 70)]

\* The loop over the records; each goes to the bucket of its period.
group_records_by_period(logs, interval) ==
    [k \in DOMAIN Periods(logs, interval) |->
       LET period == Periods(logs, interval)[k]
           bucket[n \in 0 .. Len(logs)] ==
             IF n = 0 THEN NewPeriod(period)
             ELSE IF Period(logs[n].hour, interval) = period
                  THEN AddRecord(bucket[n - 1], logs[n])
                  ELSE bucket[n - 1]
       IN  bucket[Len(logs)]]

-----------------------------------------------------------------------------
(* anomaly_detector.py                                                     *)

\* How many rows of a log pass a test.
Count(logs, Test(_)) == Cardinality({i \in DOMAIN logs : Test(logs[i])})

UsersOf(logs) == {logs[i].user : i \in DOMAIN logs}
IpsOf(logs) == {logs[i].ip : i \in DOMAIN logs} \ {NoIp}

Denials(logs, user) ==
    Count(logs, LAMBDA row : row.decision = "deny" /\ row.user = user)

IpDenials(logs, ip) ==
    Count(logs, LAMBDA row : row.decision = "deny" /\ row.ip = ip)

OffHours(logs, user) ==
    Count(logs, LAMBDA row : /\ row.user = user
                             /\ row.hour % 24 < 6 \/ row.hour % 24 >= 22)

Escalations(logs, user) ==
    Count(logs, LAMBDA row : row.user = user /\ row.privileged)

Resources(logs, user) ==
    {logs[i].resource : i \in {j \in DOMAIN logs : logs[j].user = user}}

detect_anomalies(logs) ==
    {[type |-> "repeated_denials", subject |-> u, count |-> Denials(logs, u)] :
        u \in {v \in UsersOf(logs) : Denials(logs, v) >= 3}}
    \cup
    {[type |-> "repeated_denials_from_ip", subject |-> a,
      count |-> IpDenials(logs, a)] :
        a \in {b \in IpsOf(logs) : IpDenials(logs, b) >= 3}}
    \cup
    {[type |-> "off_hours_access", subject |-> u, count |-> OffHours(logs, u)] :
        u \in {v \in UsersOf(logs) : OffHours(logs, v) >= 2}}
    \cup
    {[type |-> "privilege_escalation_attempt", subject |-> u,
      count |-> Escalations(logs, u)] :
        u \in {v \in UsersOf(logs) : Escalations(logs, v) > 0}}
    \cup
    {[type |-> "resource_hopping", subject |-> u,
      count |-> Cardinality(Resources(logs, u))] :
        u \in {v \in UsersOf(logs) : Cardinality(Resources(logs, v)) >= 5}}

-----------------------------------------------------------------------------
(* evidence_packager.py and report_generator.py                            *)

\* Both documents call a chain valid when every link holds.
generate_hash_verification(records) ==
    \A i \in DOMAIN records : Linked(records, i)

_section_hash_chain(records) ==
    \A i \in DOMAIN records : Linked(records, i)

\* The summary of a package states "Hash Chain Status: Valid" of any records.
generate_forensic_summary(logs) ==
    [total      |-> Len(logs),
     allow      |-> Count(logs, LAMBDA row : row.decision = "allow"),
     deny       |-> Count(logs, LAMBDA row : row.decision = "deny"),
     high_risk  |-> Count(logs, LAMBDA row : Points(row) >= 70),
     chain      |-> "Valid"]

Contents(records) == [i \in DOMAIN records |-> records[i].content]

create_evidence_package(records) ==
    [verdict |-> generate_hash_verification(records),
     summary |-> generate_forensic_summary(Contents(records))]

\* The chain status of this section is what the caller passes, not what
\* _section_hash_chain finds.
_section_executive_summary(logs, chain_ok) ==
    LET allowed == Count(logs, LAMBDA row : row.decision = "allow")
    IN  [total |-> Len(logs), allowed |-> allowed,
         denied |-> Len(logs) - allowed,
         high_risk |-> Count(logs, LAMBDA row : Points(row) >= 70),
         chain |-> chain_ok]

generate_pdf_report(records, chain_ok) ==
    [summary |-> _section_executive_summary(Contents(records), chain_ok),
     verdict |-> _section_hash_chain(records)]

=============================================================================
