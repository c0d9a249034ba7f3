--------------------------- MODULE ForensicReports ---------------------------
(***************************************************************************)
(* The reports of the gateway: summary, public summary, PDF, timeline and  *)
(* anomalies, each a handful of queries on tables to which /access goes on *)
(* adding.                                                                 *)
(*                                                                         *)
(* A database session of the gateway runs in READ COMMITTED: every query   *)
(* sees what was committed when it ran, so the numbers of one report may   *)
(* come from different states of the tables.  In the process that answers  *)
(* the report nothing runs between its queries, which do not await; rows   *)
(* that appear between them are another process's.                         *)
(*                                                                         *)
(* Of /access, which AccessGateway models, only its commits appear here: a *)
(* denial's alert, and later, unless something fails, the log row.         *)
(***************************************************************************)
EXTENDS LegacyAnalysis

CONSTANTS
    Accesses,         \* what an access may leave in its row: users, scores...
    None,             \* no access, no report
    FirstHour,        \* the hour the model starts at
    LastHour,         \* bound on the clock
    MaxLogs,          \* bound on the log rows
    MaxAlerts,        \* bound on the alerts
    RecentLimit,      \* 10
    PdfLimit,         \* 20
    AnomalyLimit,     \* 500
    ANOMALY_DENY_THRESHOLD,
    ANOMALY_IP_ACTIVITY_THRESHOLD

Reports == {"summary", "summary-public", "export-pdf"}

ASSUME ReportsAssumption ==
    /\ FirstHour \in Nat /\ LastHour \in Nat /\ MaxLogs \in Nat
    /\ MaxAlerts \in Nat
    /\ RecentLimit \in Nat /\ PdfLimit \in Nat /\ AnomalyLimit \in Nat \ {0}
    /\ ANOMALY_DENY_THRESHOLD \in Nat \ {0}
    /\ ANOMALY_IP_ACTIVITY_THRESHOLD \in Nat \ {0}
    /\ None \notin Accesses /\ None \notin Reports

ASSUME AccessesAssumption ==
    \A a \in Accesses :
      /\ a.decision \in {"allow", "challenge_otp", "deny"}
      /\ a.score \in Int
      /\ a.user # "forged"

VARIABLES
    replicas,    \* TRUE: another process serves /access meanwhile
    clock,       \* the hour
    logs,        \* the rows of access_logs
    alerts,      \* how many open rows security_alerts has
    pending,     \* the denial whose alert is stored and whose row is not
    report       \* the report being answered: its kind, the queries' results

vars == <<replicas, clock, logs, alerts, pending, report>>

Policy == INSTANCE RiskPolicy

-----------------------------------------------------------------------------
(* Queries                                                                 *)

DecidedAs(decision) == Count(logs, LAMBDA row : row.decision = decision)

HighRisk(rows) == Count(rows, LAMBDA row : Policy!is_high_risk(row.score))

\* The rows in the order of their timestamps, those of one hour in the order of
\* the table.
ByTime(rows) ==
    LET InOrder(i, j) == \/ rows[i].hour < rows[j].hour
                         \/ rows[i].hour = rows[j].hour /\ i <= j
        Place(j) == Cardinality({i \in DOMAIN rows : InOrder(i, j)})
    IN  [k \in DOMAIN rows |-> rows[CHOOSE j \in DOMAIN rows : Place(j) = k]]

\* order_by(timestamp.desc()).limit(n), here with the newest row last.
Newest(rows, n) ==
    SubSeq(ByTime(rows), 1 + (IF Len(rows) > n THEN Len(rows) - n ELSE 0), Len(rows))

Counts == << "total", "allow", "challenge_otp", "deny", "high_risk" >>

\* Faulty variant of SummaryQueries: the total is counted last.
SummaryQueries_TotalLast ==
    << "allow", "challenge_otp", "deny", "high_risk", "total" >>

\* The counts of the summaries, in the order they are queried.
SummaryQueries == Counts

\* The queries of a report, in their order; the PDF lists rows and then takes
\* the summary's numbers.
Queries(kind) ==
    CASE kind = "summary"        -> SummaryQueries \o << "recent" >>
      [] kind = "summary-public" -> SummaryQueries \o << "alerts", "recent" >>
      [] kind = "export-pdf"     ->
             << "listed" >> \o SummaryQueries \o << "recent" >>

Result(query) ==
    CASE query = "total"     -> Len(logs)
      [] query = "high_risk" -> HighRisk(logs)
      [] query = "alerts"    -> alerts
      [] query = "recent"    -> Len(Newest(logs, RecentLimit))
      [] query = "listed"    -> Len(Newest(logs, PdfLimit))
      [] OTHER               -> DecidedAs(query)

NoReport == [kind |-> None, results |-> << >>]

Answered == report.kind # None /\ Len(report.results) = Len(Queries(report.kind))

\* What a report has under the name of one of its queries.
Reported(query) ==
    report.results[CHOOSE i \in DOMAIN Queries(report.kind) :
                     Queries(report.kind)[i] = query]

-----------------------------------------------------------------------------
(* The timeline                                                            *)

NewBucket(period) ==
    [period |-> period, total_requests |-> 0, allowed |-> 0,
     challenge_otp |-> 0, denied |-> 0, risk_sum |-> 0, high_risk_events |-> 0]

\* Faulty variant of AddLog: what is not allowed is denied.
AddLog_TwoWays(bucket, row) ==
    [bucket EXCEPT
       !.total_requests   = @ + 1,
       !.allowed          = @ + One(row.decision = "allow"),
       !.denied           = @ + One(row.decision # "allow"),
       !.risk_sum         = @ + row.score,
       !.high_risk_events = @ + One(Policy!is_high_risk(row.score))]

AddLog(bucket, row) ==
    [bucket EXCEPT
       !.total_requests   = @ + 1,
       !.allowed          = @ + One(row.decision = "allow"),
       !.challenge_otp    = @ + One(row.decision = "challenge_otp"),
       !.denied           = @ + One(row.decision \notin {"allow", "challenge_otp"}),
       !.risk_sum         = @ + row.score,
       !.high_risk_events = @ + One(Policy!is_high_risk(row.score))]

\* The average of a bucket is its risk_sum over its total_requests.
forensics_timeline(interval) ==
    LET rows == ByTime(logs) IN
    [k \in DOMAIN Periods(rows, interval) |->
       LET period == Periods(rows, interval)[k]
           bucket[n \in 0 .. Len(rows)] ==
             IF n = 0 THEN NewBucket(period)
             ELSE IF Period(rows[n].hour, interval) = period
                  THEN AddLog(bucket[n - 1], rows[n])
                  ELSE bucket[n - 1]
       IN  bucket[Len(rows)]]

-----------------------------------------------------------------------------
(* Anomalies                                                               *)

\* Faulty variant of AnomalyWindow: the order is not descending.
AnomalyWindow_Oldest ==
    SubSeq(ByTime(logs), 1, IF Len(logs) > AnomalyLimit THEN AnomalyLimit
                                                        ELSE Len(logs))

AnomalyWindow == Newest(logs, AnomalyLimit)

\* Faulty variant of by_user_denies: an allowed access resets the count.
by_user_denies_Reset(user) ==
    FoldLeft(LAMBDA n, row : IF row.user # user THEN n
                             ELSE IF row.decision = "allow" THEN 0
                             ELSE n + One(row.decision = "deny"),
             0, AnomalyWindow)

by_user_denies(user) == Denials(AnomalyWindow, user)

by_ip_count(ip) == Count(AnomalyWindow, LAMBDA row : row.ip = ip)

forensics_anomalies ==
    {[type |-> "repeated_denials", subject |-> u, count |-> by_user_denies(u)] :
        u \in {v \in UsersOf(logs) :
                 by_user_denies(v) >= ANOMALY_DENY_THRESHOLD}}
    \cup
    {[type |-> "high_activity_ip", subject |-> a, count |-> by_ip_count(a)] :
        a \in {b \in IpsOf(logs) :
                 by_ip_count(b) >= ANOMALY_IP_ACTIVITY_THRESHOLD}}

\* The users a list of anomalies names for their denials, with the counts.
Deniers(anomalies) ==
    {<<a.subject, a.count>> :
        a \in {b \in anomalies : b.type = "repeated_denials"}}

-----------------------------------------------------------------------------
(* Steps                                                                   *)

Init ==
    /\ replicas \in BOOLEAN
    /\ clock = FirstHour
    /\ logs = << >>
    /\ alerts = 0
    /\ pending = None
    /\ report = NoReport

\* No handler of this process is between two statements; an answer is
\* delivered before anything else happens, since nothing of it can change.
Between == ~Answered /\ (replicas \/ (report = NoReport /\ pending = None))

\* The row of an access, with the hour it was flushed in.
Row(a, h) == [user |-> a.user, ip |-> a.ip, decision |-> a.decision, score |-> a.score,
              resource |-> a.resource, privileged |-> a.privileged, hour |-> h]

\* A denial's alert is committed.
CommitAlert(a) ==
    /\ Between /\ pending = None
    /\ a.decision = "deny"
    /\ Len(logs) < MaxLogs /\ alerts < MaxAlerts
    /\ alerts' = alerts + 1
    /\ pending' = a
    /\ UNCHANGED <<replicas, clock, logs, report>>

\* The access is committed with the timestamp it was flushed with, which may
\* be of the hour before.
CommitLog(a) ==
    /\ \/ a.decision # "deny" /\ Between /\ pending = None
       \/ a = pending /\ ~Answered
    /\ Len(logs) < MaxLogs
    /\ \E h \in {clock - 1, clock} \cap (FirstHour .. LastHour) :
         logs' = Append(logs, Row(a, h))
    /\ pending' = None
    /\ UNCHANGED <<replicas, clock, alerts, report>>

\* The row's commit raises, or the process dies before it.
LoseLog ==
    /\ pending # None /\ ~Answered
    /\ pending' = None
    /\ UNCHANGED <<replicas, clock, logs, alerts, report>>

Ask(kind) ==
    /\ report = NoReport
    /\ replicas \/ pending = None
    /\ report' = [kind |-> kind, results |-> << >>]
    /\ UNCHANGED <<replicas, clock, logs, alerts, pending>>

\* The next query of the report runs.
RunQuery ==
    /\ report # NoReport /\ ~Answered
    /\ LET query == Queries(report.kind)[Len(report.results) + 1]
       IN  report' = [report EXCEPT !.results = Append(@, Result(query))]
    /\ UNCHANGED <<replicas, clock, logs, alerts, pending>>

Deliver ==
    /\ Answered
    /\ report' = NoReport
    /\ UNCHANGED <<replicas, clock, logs, alerts, pending>>

Tick ==
    /\ ~Answered
    /\ clock < LastHour
    /\ clock' = clock + 1
    /\ UNCHANGED <<replicas, logs, alerts, pending, report>>

Next ==
    \/ \E a \in Accesses : CommitAlert(a) \/ CommitLog(a)
    \/ LoseLog
    \/ \E kind \in Reports : Ask(kind)
    \/ RunQuery
    \/ Deliver
    \/ Tick

Spec == Init /\ [][Next]_vars

-----------------------------------------------------------------------------
(* Properties that hold                                                    *)

\* The numbers of one report fit together although other processes write
\* between its queries: the decisions are counted after the total and account
\* for at least all of it, the public summary never shows more denials than
\* alerts, the PDF never lists more rows than it counts.  When no other
\* process writes, the decisions add up to the total.
SummaryAddsUp ==
    Answered =>
      LET decided == Reported("allow") + Reported("challenge_otp")
                       + Reported("deny")
          total   == Reported("total")
      IN  /\ total <= decided
          /\ ~replicas => total = decided /\ Reported("high_risk") <= total
          /\ report.kind = "summary-public" =>
               Reported("deny") <= Reported("alerts")
          /\ report.kind = "export-pdf" => Reported("listed") <= total
          /\ Reported("recent") = RecentLimit \/ Reported("recent") >= total

Total(numbers) ==
    LET sum[k \in 0 .. Len(numbers)] == IF k = 0 THEN 0 ELSE sum[k - 1] + numbers[k]
    IN  sum[Len(numbers)]

\* Both timelines of a log, by hour and by day, have the same periods in
\* strictly ascending order; each of their buckets has exactly the rows of
\* its period, and the legacy analyzer's denials are the gateway's together
\* with the challenges.  Summed, the buckets are what the legacy PDF and the
\* legacy package state of all rows.
TimelinesAgree ==
    report = NoReport =>
    \A interval \in {"hour", "day"} :
      LET new == forensics_timeline(interval)
          old == group_records_by_period(logs, interval)
          pdf == _section_executive_summary(logs, TRUE)
          Is(k, decision) ==
              Count(logs, LAMBDA row : /\ Period(row.hour, interval) = new[k].period
                                       /\ row.decision = decision)
      IN  /\ Len(new) = Len(old)
          /\ \A k \in DOMAIN new :
               /\ k > 1 => new[k - 1].period < new[k].period
               /\ new[k].period = old[k].period
               /\ new[k].total_requests = old[k].total_requests
               /\ new[k].allowed = Is(k, "allow") /\ old[k].allowed = Is(k, "allow")
               /\ new[k].challenge_otp = Is(k, "challenge_otp")
               /\ new[k].denied = Is(k, "deny")
               /\ old[k].denied = new[k].denied + new[k].challenge_otp
          /\ Total([k \in DOMAIN old |-> old[k].total_requests]) = pdf.total
          /\ Total([k \in DOMAIN old |-> old[k].denied]) = pdf.denied
          /\ Total([k \in DOMAIN old |-> old[k].high_risk_events]) = pdf.high_risk
          /\ Total([k \in DOMAIN new |-> new[k].denied]) = generate_forensic_summary(logs).deny

\* A user the gateway's detector names for three denials or more the legacy
\* one names too, with at least as many, and as long as all rows are in the
\* window both name the same users with the same counts, but for the
\* threshold each has.  The window is of the newest rows: a user denied in as
\* many of them in a row as the threshold asks for is always named, however
\* long the log has grown.
DetectorsAgree ==
    report = NoReport =>
    LET new == Deniers(forensics_anomalies)
        old == Deniers(detect_anomalies(logs))
        latest == Newest(logs, ANOMALY_DENY_THRESHOLD)
    IN  /\ \A d \in new : d[2] >= 3 => \E o \in old : o[1] = d[1] /\ o[2] >= d[2]
        /\ Len(logs) <= AnomalyLimit =>
             {d \in new : d[2] >= 3} =
               {o \in old : o[2] >= ANOMALY_DENY_THRESHOLD}
        /\ \A u \in UsersOf(logs) :
             /\ ANOMALY_DENY_THRESHOLD <= AnomalyLimit
             /\ Denials(latest, u) = ANOMALY_DENY_THRESHOLD
             => \E d \in new : d[1] = u

\* A user or an address once named stays named, whatever is logged later, in
\* the legacy detector for good, in the gateway's until the log is longer than
\* its window.
AnomaliesPersist ==
    [][report = NoReport /\ logs' # logs =>
       LET Named(anomalies) == {<<a.type, a.subject>> : a \in anomalies}
       IN  /\ Len(logs') <= AnomalyLimit =>
                Named(forensics_anomalies) \subseteq Named(forensics_anomalies')
           /\ Named(detect_anomalies(logs)) \subseteq
                Named(detect_anomalies(logs'))]_vars

-----------------------------------------------------------------------------
(* Edits of legacy evidence                                                *)

ForgedHash == << [user |-> "forged"] >>
Forged(content) == [content EXCEPT !.user = "forged"]

Edits == {"content", "previous_hash", "record_hash", "resealed", "removed"}

\* One field of one record is changed, or its content and the hash to fit, or
\* the record is taken out.
Edited(records, i, edit) ==
    LET forged == Forged(records[i].content)
        link   == records[i].previous_hash
    IN  CASE edit = "content"       -> [records EXCEPT ![i].content = forged]
          [] edit = "previous_hash" -> [records EXCEPT ![i].previous_hash = ForgedHash]
          [] edit = "record_hash"   -> [records EXCEPT ![i].record_hash = ForgedHash]
          [] edit = "resealed"      ->
                 [records EXCEPT ![i].content = forged,
                    ![i].record_hash = make_record_hash(forged, link)]
          [] edit = "removed"       -> RemoveAt(records, i)

\* An untouched chain verifies everywhere.  The engine finds every edit of a
\* record, counts the records before it and names the first that does not fit,
\* but for two edits that nothing contradicts: the last record resealed or
\* removed.  The package and the PDF give one verdict, never condemn what the
\* engine accepts, and miss in addition exactly an edited content and the last
\* record's hash.
EditsFound ==
    report = NoReport =>
    LET records == EvidenceOf(logs)
        last    == Len(records)
    IN  /\ verify_chain(records).ok
        /\ generate_hash_verification(records)
        /\ \A i \in DOMAIN records, edit \in Edits :
             LET edited  == Edited(records, i, edit)
                 engine  == verify_chain(edited)
                 pdf     == generate_pdf_report(edited, engine.ok)
                 package == create_evidence_package(edited).verdict
                 unseen  == edit \in {"resealed", "removed"} /\ i = last
             IN  /\ engine.ok <=> unseen
                 /\ ~unseen =>
                      /\ engine.checked = IF edit = "resealed" THEN i ELSE i - 1
                      /\ engine.broken_at_id =
                           IF edit \in {"resealed", "removed"} THEN i + 1 ELSE i
                 /\ package = pdf.verdict
                 /\ pdf.summary.chain => pdf.verdict
                 /\ package <=> \/ unseen
                                \/ edit = "content"
                                \/ edit = "record_hash" /\ i = last

=============================================================================
