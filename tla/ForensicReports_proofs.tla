------------------------ MODULE ForensicReports_proofs ------------------------
(***************************************************************************)
(* Theorems about ForensicReports, for any accesses, limits and number of  *)
(* rows.                                                                   *)
(***************************************************************************)
EXTENDS ForensicReports, FiniteSetTheorems, SequenceTheorems, TLAPS

-----------------------------------------------------------------------------
(* Induction, without an operator for the induction hypothesis             *)

\* A set of natural numbers that is not empty has a least element.
LEMMA LeastNatural ==
    ASSUME NEW T, T \subseteq Nat, T # {}
    PROVE  \E m \in T : \A k \in T : m <= k
<1>1. \E m \in T : \A k \in T : ~(<<k, m>> \in OpToRel(<, Nat))
  BY WFMin, NatLessThanWellFounded, Zenon
<1>2. \A k, m \in Nat : ~(<<k, m>> \in OpToRel(<, Nat)) => ~(k < m)
  BY Zenon DEF OpToRel
<1>3. \E m \in T : \A k \in T : ~(k < m)
  BY <1>1, <1>2, Zenon
<1> QED
  BY <1>3

\* A set with 0, and with the successor of each of its elements below N, has
\* every number up to N.
LEMMA UpTo ==
    ASSUME NEW N \in Nat, NEW T, 0 \in T, \A n \in 0 .. N - 1 : n \in T => n + 1 \in T
    PROVE  \A n \in 0 .. N : n \in T
<1> DEFINE Bad == {n \in 0 .. N : n \notin T}
<1> SUFFICES ASSUME Bad # {} PROVE FALSE
  OBVIOUS
<1>1. PICK m \in Bad : \A k \in Bad : m <= k
  BY LeastNatural, Bad \subseteq Nat
<1>2. m # 0 /\ m \in Nat /\ m <= N /\ m \notin T
  OBVIOUS
<1>3. m - 1 \in 0 .. N - 1 /\ m - 1 \notin Bad
  BY <1>1, <1>2
<1>4. m - 1 \in T
  BY <1>3
<1> QED
  BY <1>2, <1>3, <1>4

\* The values of a loop of N rounds, from b and after each of them.
Runs(f, N, B, b, step) ==
    f \in [0 .. N -> B] /\ f[0] = b /\ \A n \in 1 .. N : f[n] = step[n][f[n - 1]]

LEMMA Loop ==
    ASSUME NEW N \in Nat, NEW B, NEW b \in B, NEW step, step \in [1 .. N -> [B -> B]]
    PROVE  \E f : Runs(f, N, B, b, step)
<1> DEFINE T == {m \in 0 .. N : \E f : Runs(f, m, B, b, step)}
<1>1. 0 \in T
  <2> DEFINE f == [n \in 0 .. 0 |-> b]
  <2>1. f \in [0 .. 0 -> B] /\ f[0] = b /\ \A n \in 1 .. 0 : f[n] = step[n][f[n - 1]]
    OBVIOUS
  <2>2. Runs(f, 0, B, b, step)
    BY <2>1 DEF Runs
  <2> QED
    BY <2>2
<1>2. ASSUME NEW m \in 0 .. N - 1, m \in T PROVE m + 1 \in T
  <2>1. PICK f : Runs(f, m, B, b, step)
    BY <1>2
  <2>2. f \in [0 .. m -> B] /\ f[0] = b /\ \A n \in 1 .. m : f[n] = step[n][f[n - 1]]
    BY <2>1 DEF Runs
  <2> DEFINE g == [n \in 0 .. m + 1 |-> IF n = m + 1 THEN step[m + 1][f[m]] ELSE f[n]]
  <2>3. step[m + 1] \in [B -> B] /\ f[m] \in B
    BY <2>2
  <2>4. g \in [0 .. m + 1 -> B] /\ g[0] = b
    BY <2>2, <2>3
  <2>5. ASSUME NEW n \in 1 .. m + 1 PROVE g[n] = step[n][g[n - 1]]
    BY <2>2
  <2>6. Runs(g, m + 1, B, b, step)
    BY <2>4, <2>5 DEF Runs
  <2> QED
    BY <2>6
<1>3. \A n \in 0 .. N : n \in T
  <2> HIDE DEF T
  <2> QED
    BY <1>1, <1>2, UpTo
<1>4. N \in T
  BY <1>3
<1> QED
  BY <1>4

-----------------------------------------------------------------------------
(* Ranks                                                                   *)

\* below[j] are the elements up to j in a total order of S.
Ranked(S, below) ==
    /\ IsFiniteSet(S)
    /\ below \in [S -> SUBSET S]
    /\ \A j \in S : j \in below[j]
    /\ \A i, j \in S : i \in below[j] => below[i] \subseteq below[j]
    /\ \A i, j \in S : i \in below[j] /\ j \in below[i] => i = j
    /\ \A i, j \in S : i \in below[j] \/ j \in below[i]

\* The number of elements up to one is its place: places ascend, and each place
\* is taken, once.
LEMMA Places ==
    ASSUME NEW S, NEW below, Ranked(S, below)
    PROVE  /\ Cardinality(S) \in Nat
           /\ \A j \in S : Cardinality(below[j]) \in 1 .. Cardinality(S)
           /\ \A i, j \in S : i \in below[j] /\ i # j =>
                                Cardinality(below[i]) < Cardinality(below[j])
           /\ \A k \in 1 .. Cardinality(S) : \E j \in S : Cardinality(below[j]) = k
<1>1. Cardinality(S) \in Nat
  BY FS_CardinalityType DEF Ranked
<1>2. ASSUME NEW j \in S
      PROVE  IsFiniteSet(below[j]) /\ Cardinality(below[j]) \in 1 .. Cardinality(S)
  <2>1. below[j] \in SUBSET S /\ j \in below[j]
    BY DEF Ranked
  <2>2. IsFiniteSet(below[j]) /\ Cardinality(below[j]) <= Cardinality(S)
    BY <2>1, FS_Subset DEF Ranked
  <2>3. Cardinality(below[j]) \in Nat
    BY <2>2, FS_CardinalityType
  <2>4. Cardinality(below[j]) # 0
    BY <2>1, <2>2, FS_EmptySet
  <2> QED
    BY <1>1, <2>2, <2>3, <2>4
<1>3. ASSUME NEW i \in S, NEW j \in S, i \in below[j], i # j
      PROVE  Cardinality(below[i]) < Cardinality(below[j])
  <2>1. below[i] \in SUBSET below[j] /\ j \in below[j] /\ j \notin below[i]
    BY <1>3 DEF Ranked
  <2>2. /\ Cardinality(below[i]) <= Cardinality(below[j])
        /\ Cardinality(below[i]) # Cardinality(below[j])
    BY <1>2, <2>1, FS_Subset
  <2> QED
    BY <1>2, <2>2
<1> DEFINE place == [j \in S |-> Cardinality(below[j])]
           N == Cardinality(S)
<1>4. place \in Injection(S, 1 .. N)
  <2>1. place \in [S -> 1 .. N]
    BY <1>2
  <2>2. ASSUME NEW i \in S, NEW j \in S, place[i] = place[j] PROVE i = j
    <3>1. CASE i \in below[j]
      BY <1>2, <1>3, <2>2, <3>1
    <3>2. CASE j \in below[i]
      BY <1>2, <1>3, <2>2, <3>2
    <3> QED
      BY <3>1, <3>2 DEF Ranked
  <2> QED
    BY <2>1, <2>2 DEF Injection, IsInjective
<1>5. IsFiniteSet(1 .. N) /\ Cardinality(1 .. N) = N
  BY <1>1, FS_Interval
<1>6. place \in Surjection(S, 1 .. N)
  BY <1>4, <1>5, FS_Injection
<1>7. ASSUME NEW k \in 1 .. N PROVE \E j \in S : Cardinality(below[j]) = k
  BY <1>6 DEF Surjection
<1> QED
  BY <1>1, <1>2, <1>3, <1>7

-----------------------------------------------------------------------------
(* Counting the rows of a log                                              *)

\* The rows the accesses may leave.
Rows == {Row(a, h) : a \in Accesses, h \in Nat}

\* What is known of each of them.
LEMMA RowType ==
    ASSUME NEW row \in Rows
    PROVE  /\ row.decision \in {"allow", "challenge_otp", "deny"}
           /\ row.score \in Int
           /\ row.hour \in Nat
           /\ row.user # "forged"
           /\ row = [user |-> row.user, ip |-> row.ip, decision |-> row.decision,
                     score |-> row.score, resource |-> row.resource,
                     privileged |-> row.privileged, hour |-> row.hour]
<1>1. PICK a \in Accesses, h \in Nat : row = Row(a, h)
  BY DEF Rows
<1> QED
  BY <1>1, AccessesAssumption DEF Row

\* The places of a log at which one of some rows is.
At(rows, these) == {i \in DOMAIN rows : rows[i] \in these}

\* How many of its rows are among these.
HowMany(rows, these) == Cardinality(At(rows, these))

LEMMA OneType ==
    ASSUME NEW condition
    PROVE  /\ One(condition) \in {0, 1}
           /\ condition => One(condition) = 1
           /\ ~condition => One(condition) = 0
BY DEF One

LEMMA CardinalityOfRows ==
    ASSUME NEW S, NEW rows \in Seq(S)
    PROVE  IsFiniteSet(1 .. Len(rows)) /\ Cardinality(1 .. Len(rows)) = Len(rows)
<1>1. Len(rows) \in Nat /\ Len(rows) \in Int /\ 1 \in Int
  OBVIOUS
<1>2. /\ IsFiniteSet(1 .. Len(rows))
      /\ Cardinality(1 .. Len(rows)) = IF 1 > Len(rows) THEN 0 ELSE Len(rows) - 1 + 1
  BY <1>1, FS_Interval, Zenon
<1> QED
  BY <1>1, <1>2

LEMMA HowManyType ==
    ASSUME NEW S, NEW rows \in Seq(S), NEW these
    PROVE  IsFiniteSet(At(rows, these)) /\ HowMany(rows, these) \in 0 .. Len(rows)
<1>1. IsFiniteSet(1 .. Len(rows)) /\ Cardinality(1 .. Len(rows)) = Len(rows)
  BY CardinalityOfRows
<1>2. At(rows, these) \in SUBSET (1 .. Len(rows))
  BY DEF At
<1>3. IsFiniteSet(At(rows, these)) /\ HowMany(rows, these) <= Len(rows)
  BY <1>1, <1>2, FS_Subset DEF HowMany
<1> QED
  BY <1>3, FS_CardinalityType DEF HowMany

\* More rows are found among more.
LEMMA HowManySubset ==
    ASSUME NEW S, NEW rows \in Seq(S), NEW these, NEW those,
           \A row \in S : row \in these => row \in those
    PROVE  HowMany(rows, these) <= HowMany(rows, those)
<1>1. At(rows, these) \in SUBSET At(rows, those)
  BY DEF At
<1> QED
  BY <1>1, HowManyType, FS_Subset DEF HowMany

\* A log that becomes longer counts its new row, or not.
LEMMA HowManyAppend ==
    ASSUME NEW S, NEW rows \in Seq(S), NEW row \in S, NEW these
    PROVE  HowMany(Append(rows, row), these) = HowMany(rows, these) + One(row \in these)
<1> DEFINE n == Len(rows) + 1
           more == Append(rows, row)
<1>1. more \in Seq(S) /\ Len(more) = n /\ more[n] = row
      /\ \A i \in 1 .. Len(rows) : more[i] = rows[i]
  OBVIOUS
<1>2. IsFiniteSet(At(rows, these)) /\ n \notin At(rows, these) /\ HowMany(rows, these) \in Nat
  BY HowManyType DEF At
<1>3. CASE row \in these
  <2>1. At(more, these) = At(rows, these) \cup {n}
    BY <1>1, <1>3 DEF At
  <2> QED
    BY <1>2, <1>3, <2>1, FS_AddElement DEF HowMany, One
<1>4. CASE row \notin these
  <2>1. At(more, these) = At(rows, these)
    BY <1>1, <1>4 DEF At
  <2> QED
    BY <1>2, <1>4, <2>1 DEF HowMany, One
<1> QED
  BY <1>3, <1>4

\* What is in one of two groups of rows that have none in common.
LEMMA HowManyUnion ==
    ASSUME NEW S, NEW rows \in Seq(S), NEW these, NEW those, NEW all,
           \A row \in S : ~(row \in these /\ row \in those),
           \A row \in S : row \in all <=> row \in these \/ row \in those
    PROVE  HowMany(rows, all) = HowMany(rows, these) + HowMany(rows, those)
<1>1. At(rows, all) = At(rows, these) \cup At(rows, those)
      /\ At(rows, these) \cap At(rows, those) = {}
  BY DEF At
<1>2. IsFiniteSet(At(rows, these)) /\ IsFiniteSet(At(rows, those))
  BY HowManyType
<1>3. /\ Cardinality(At(rows, these)) \in Nat /\ Cardinality(At(rows, those)) \in Nat
      /\ Cardinality(At(rows, these) \cap At(rows, those)) = 0
  BY <1>1, <1>2, FS_CardinalityType, FS_EmptySet
<1>4. Cardinality(At(rows, all))
        = Cardinality(At(rows, these)) + Cardinality(At(rows, those))
            - Cardinality(At(rows, these) \cap At(rows, those))
  BY <1>1, <1>2, FS_Union
<1> QED
  BY <1>3, <1>4 DEF HowMany

\* The tests of the reports and of the detectors, as sets of rows.
Decided(decision) == {row \in Rows : row.decision = decision}
DeniedTo(user) == {row \in Rows : row.decision = "deny" /\ row.user = user}
DeniedFrom(ip) == {row \in Rows : row.decision = "deny" /\ row.ip = ip}
SeenFrom(ip) == {row \in Rows : row.ip = ip}
Risky == {row \in Rows : Policy!is_high_risk(row.score)}
Late(user) == {row \in Rows : /\ row.user = user
                              /\ row.hour % 24 < 6 \/ row.hour % 24 >= 22}
Privileged(user) == {row \in Rows : row.user = user /\ row.privileged}
Within(interval, period) == {row \in Rows : Period(row.hour, interval) = period}

\* The counts of the model are of these sets.
LEMMA Counts_are ==
    ASSUME NEW rows \in Seq(Rows)
    PROVE  /\ HighRisk(rows) = HowMany(rows, Risky)
           /\ \A user : /\ Denials(rows, user) = HowMany(rows, DeniedTo(user))
                        /\ OffHours(rows, user) = HowMany(rows, Late(user))
                        /\ Escalations(rows, user) = HowMany(rows, Privileged(user))
           /\ \A ip : IpDenials(rows, ip) = HowMany(rows, DeniedFrom(ip))
           /\ \A ip : Count(rows, LAMBDA row : row.ip = ip) = HowMany(rows, SeenFrom(ip))
<1>1. \A i \in DOMAIN rows : rows[i] \in Rows
  OBVIOUS
<1>2. HighRisk(rows) = HowMany(rows, Risky)
  <2>1. {i \in DOMAIN rows : Policy!is_high_risk(rows[i].score)} = At(rows, Risky)
    BY <1>1 DEF At, Risky
  <2> QED
    BY <2>1 DEF HighRisk, Count, HowMany
<1>3. ASSUME NEW user
      PROVE  /\ Denials(rows, user) = HowMany(rows, DeniedTo(user))
             /\ OffHours(rows, user) = HowMany(rows, Late(user))
             /\ Escalations(rows, user) = HowMany(rows, Privileged(user))
  <2>1. {i \in DOMAIN rows : rows[i].decision = "deny" /\ rows[i].user = user}
          = At(rows, DeniedTo(user))
    BY <1>1 DEF At, DeniedTo
  <2>2. {i \in DOMAIN rows : /\ rows[i].user = user
                             /\ rows[i].hour % 24 < 6 \/ rows[i].hour % 24 >= 22}
          = At(rows, Late(user))
    BY <1>1 DEF At, Late
  <2>3. {i \in DOMAIN rows : rows[i].user = user /\ rows[i].privileged}
          = At(rows, Privileged(user))
    BY <1>1, Zenon DEF At, Privileged
  <2> QED
    BY <2>1, <2>2, <2>3 DEF Denials, OffHours, Escalations, Count, HowMany
<1>4. ASSUME NEW ip PROVE IpDenials(rows, ip) = HowMany(rows, DeniedFrom(ip))
  <2>1. {i \in DOMAIN rows : rows[i].decision = "deny" /\ rows[i].ip = ip}
          = At(rows, DeniedFrom(ip))
    BY <1>1 DEF At, DeniedFrom
  <2> QED
    BY <2>1 DEF IpDenials, Count, HowMany
<1>5. ASSUME NEW ip
      PROVE  Count(rows, LAMBDA row : row.ip = ip) = HowMany(rows, SeenFrom(ip))
  <2>1. {i \in DOMAIN rows : rows[i].ip = ip} = At(rows, SeenFrom(ip))
    BY <1>1 DEF At, SeenFrom
  <2> QED
    BY <2>1 DEF Count, HowMany
<1> QED
  BY <1>2, <1>3, <1>4, <1>5

-----------------------------------------------------------------------------
(* The rows in the order of their timestamps                               *)

\* They are the rows of the table, each once.
LEMMA ByTimeRows ==
    ASSUME NEW rows \in Seq(Rows)
    PROVE  /\ ByTime(rows) \in Seq(Rows)
           /\ Len(ByTime(rows)) = Len(rows)
           /\ \E perm \in Bijection(DOMAIN rows, DOMAIN rows) :
                \A k \in DOMAIN rows : ByTime(rows)[k] = rows[perm[k]]
<1> DEFINE S == DOMAIN rows
           InOrder(i, j) == \/ rows[i].hour < rows[j].hour
                            \/ rows[i].hour = rows[j].hour /\ i <= j
           below == [j \in S |-> {i \in S : InOrder(i, j)}]
           perm == [k \in S |-> CHOOSE j \in S :
                                  Cardinality({i \in S : InOrder(i, j)}) = k]
<1>1. S = 1 .. Len(rows) /\ Len(rows) \in Nat /\ \A i \in S : rows[i] \in Rows
  OBVIOUS
<1>2. IsFiniteSet(S) /\ Cardinality(S) = Len(rows)
  BY <1>1, FS_Interval
<1>3. \A i \in S : rows[i].hour \in Nat
  BY <1>1, RowType
<1>4. Ranked(S, below)
  <2>1. below \in [S -> SUBSET S] /\ \A j \in S : j \in below[j]
    BY <1>1
  <2>2. ASSUME NEW i \in S, NEW j \in S
        PROVE  /\ i \in below[j] <=> InOrder(i, j)
               /\ i \in below[j] => below[i] \subseteq below[j]
               /\ i \in below[j] /\ j \in below[i] => i = j
               /\ i \in below[j] \/ j \in below[i]
    BY <1>1, <1>3
  <2> QED
    BY <1>2, <2>1, <2>2 DEF Ranked
<1>5. \A k \in S : \E j \in S : Cardinality(below[j]) = k
  <2> HIDE DEF below
  <2> QED
    BY <1>1, <1>2, <1>4, Places
<1>6. \A k \in S : perm[k] \in S /\ Cardinality(below[perm[k]]) = k
  <2>1. \A j \in S : below[j] = {i \in S : InOrder(i, j)}
    OBVIOUS
  <2> HIDE DEF below
  <2> QED
    BY <1>5, <2>1
<1>7. perm \in Injection(S, S)
  <2> HIDE DEF below
  <2>1. perm \in [S -> S]
    BY <1>6
  <2>2. \A k, m \in S : perm[k] = perm[m] => k = m
    <3> HIDE DEF perm
    <3> QED
      BY <1>6
  <2> HIDE DEF perm
  <2> QED
    BY <2>1, <2>2 DEF Injection, IsInjective
<1>8. perm \in Bijection(S, S)
  <2> HIDE DEF perm
  <2>1. perm \in Surjection(S, S)
    BY <1>2, <1>7, FS_Injection
  <2> QED
    BY <1>7, <2>1 DEF Bijection
<1>9. ByTime(rows) = [k \in S |-> rows[perm[k]]]
  BY DEF ByTime
<1>10. ByTime(rows) \in Seq(Rows) /\ Len(ByTime(rows)) = Len(rows)
  <2> HIDE DEF perm
  <2>1. ByTime(rows) \in [1 .. Len(rows) -> Rows]
    BY <1>1, <1>6, <1>9
  <2> QED
    BY <1>1, <2>1
<1>11. \A k \in S : ByTime(rows)[k] = rows[perm[k]]
  <2> HIDE DEF perm
  <2> QED
    BY <1>9
<1> HIDE DEF perm
<1> QED
  BY <1>8, <1>10, <1>11

\* So they are as many of any kind.
LEMMA ByTimeCounts ==
    ASSUME NEW rows \in Seq(Rows), NEW these
    PROVE  HowMany(ByTime(rows), these) = HowMany(rows, these)
<1>1. PICK perm \in Bijection(DOMAIN rows, DOMAIN rows) :
          \A k \in DOMAIN rows : ByTime(rows)[k] = rows[perm[k]]
  BY ByTimeRows
<1>2. DOMAIN ByTime(rows) = DOMAIN rows
  BY ByTimeRows
<1> DEFINE A == At(ByTime(rows), these)
           B == At(rows, these)
           f == [k \in A |-> perm[k]]
<1>3. f \in Bijection(A, B)
  <2>1. f \in [A -> B] /\ \A k, m \in A : f[k] = f[m] => k = m
    BY <1>1, <1>2 DEF At, Bijection, Injection, IsInjective
  <2>2. \A j \in B : \E k \in A : f[k] = j
    BY <1>1, <1>2 DEF At, Bijection, Surjection
  <2> QED
    BY <2>1, <2>2 DEF Bijection, Injection, Surjection, IsInjective
<1>4. IsFiniteSet(A)
  BY HowManyType, ByTimeRows
<1> QED
  BY <1>3, <1>4, FS_Bijection DEF ExistsBijection, HowMany

\* The newest rows are the last of that order.
LEMMA NewestRows ==
    ASSUME NEW rows \in Seq(Rows), NEW n \in Nat
    PROVE  /\ Newest(rows, n) \in Seq(Rows)
           /\ Len(Newest(rows, n)) = IF Len(rows) > n THEN n ELSE Len(rows)
           /\ \A i \in DOMAIN Newest(rows, n) :
                Newest(rows, n)[i]
                  = ByTime(rows)[Len(rows) - Len(Newest(rows, n)) + i]
<1>1. ByTime(rows) \in Seq(Rows) /\ Len(ByTime(rows)) = Len(rows) /\ Len(rows) \in Nat
  BY ByTimeRows
<1> DEFINE start == 1 + (IF Len(rows) > n THEN Len(rows) - n ELSE 0)
           new == Newest(rows, n)
<1>2. start \in 1 .. Len(rows) + 1
      /\ Len(rows) - start + 1 = IF Len(rows) > n THEN n ELSE Len(rows)
  BY <1>1
<1>3. new = SubSeq(ByTime(rows), start, Len(rows))
  BY DEF Newest
<1>4. \A i \in start .. Len(rows) : ByTime(rows)[i] \in Rows
  BY <1>1, <1>2
<1> HIDE DEF start, new
<1>5. /\ new \in Seq(Rows)
      /\ Len(new) = IF start <= Len(rows) THEN Len(rows) - start + 1 ELSE 0
      /\ \A i \in 1 .. Len(rows) - start + 1 : new[i] = ByTime(rows)[start + i - 1]
  BY <1>1, <1>2, <1>3, <1>4, SubSeqProperties
<1>6. /\ Len(new) = Len(rows) - start + 1
      /\ DOMAIN new = 1 .. Len(new)
  BY <1>1, <1>2, <1>5
<1>7. \A i \in DOMAIN new : new[i] = ByTime(rows)[Len(rows) - Len(new) + i]
  <2>1. \A i \in DOMAIN new : start + i - 1 = Len(rows) - Len(new) + i
    BY <1>1, <1>2, <1>6
  <2> QED
    BY <1>5, <1>6, <2>1
<1> QED
  BY <1>2, <1>5, <1>6, <1>7 DEF new

\* In a longer window there are at least as many of any kind.
LEMMA NewestGrows ==
    ASSUME NEW rows \in Seq(Rows), NEW n \in Nat, NEW m \in Nat, n <= m, NEW these
    PROVE  HowMany(Newest(rows, n), these) <= HowMany(Newest(rows, m), these)
<1> DEFINE A == At(Newest(rows, n), these)
           B == At(Newest(rows, m), these)
           shift == Len(Newest(rows, m)) - Len(Newest(rows, n))
           f == [i \in A |-> i + shift]
<1>1. /\ Newest(rows, n) \in Seq(Rows) /\ Newest(rows, m) \in Seq(Rows)
      /\ Len(rows) \in Nat /\ shift \in Nat
      /\ Len(Newest(rows, n)) \in Nat /\ Len(Newest(rows, m)) \in Nat
  BY NewestRows
<1>2. ASSUME NEW i \in A PROVE i + shift \in B
  <2>1. /\ i \in 1 .. Len(Newest(rows, n)) /\ Newest(rows, n)[i] \in these
        /\ i + shift \in 1 .. Len(Newest(rows, m))
    BY <1>1 DEF At
  <2>2. Newest(rows, m)[i + shift] = ByTime(rows)[Len(rows) - Len(Newest(rows, n)) + i]
    BY <1>1, <2>1, NewestRows
  <2>3. Newest(rows, m)[i + shift] = Newest(rows, n)[i]
    BY <1>1, <2>1, <2>2, NewestRows
  <2> QED
    BY <1>1, <2>1, <2>3 DEF At
<1>3. f \in Injection(A, B)
  <2>1. f \in [A -> B]
    BY <1>2
  <2>2. \A i, j \in A : f[i] = f[j] => i = j
    BY <1>1 DEF At
  <2> QED
    BY <2>1, <2>2 DEF Injection, IsInjective
<1>4. IsFiniteSet(B)
  BY <1>1, HowManyType
<1> QED
  BY <1>3, <1>4, FS_Injection DEF HowMany

\* A window is of all rows while they fit.
LEMMA NewestAll ==
    ASSUME NEW rows \in Seq(Rows), NEW n \in Nat, Len(rows) <= n, NEW these
    PROVE  HowMany(Newest(rows, n), these) = HowMany(rows, these)
<1>1. /\ Newest(rows, n) \in Seq(Rows) /\ Len(Newest(rows, n)) = Len(rows)
      /\ ByTime(rows) \in Seq(Rows) /\ Len(ByTime(rows)) = Len(rows)
  BY NewestRows, ByTimeRows
<1>2. \A i \in 1 .. Len(rows) : Newest(rows, n)[i] = ByTime(rows)[i]
  BY <1>1, NewestRows
<1>3. Newest(rows, n) = ByTime(rows)
  BY <1>1, <1>2
<1> QED
  BY <1>3, ByTimeCounts

\* And never has more of a kind than the table.
LEMMA NewestBound ==
    ASSUME NEW rows \in Seq(Rows), NEW n \in Nat, NEW these
    PROVE  HowMany(Newest(rows, n), these) <= HowMany(rows, these)
<1>1. CASE Len(rows) <= n
  BY <1>1, NewestAll, HowManyType
<1>2. CASE n <= Len(rows)
  <2>1. HowMany(Newest(rows, n), these) <= HowMany(Newest(rows, Len(rows)), these)
    BY <1>2, NewestGrows
  <2> QED
    BY <2>1, NewestAll
<1> QED
  BY <1>1, <1>2

-----------------------------------------------------------------------------
(* The queries of a report                                                 *)

Asked == {"total", "allow", "challenge_otp", "deny", "high_risk", "alerts",
          "recent", "listed"}

\* At which place a report has a query.
Position(kind, query) ==
    CHOOSE i \in DOMAIN Queries(kind) : Queries(kind)[i] = query

\* The queries a report has.
Has(kind) == {Queries(kind)[i] : i \in DOMAIN Queries(kind)}

\* What a concatenation consists of.
LEMMA Joined ==
    ASSUME NEW S, NEW s \in Seq(S), NEW t \in Seq(S)
    PROVE  /\ s \o t \in Seq(S) /\ Len(s \o t) = Len(s) + Len(t)
           /\ DOMAIN (s \o t) = 1 .. Len(s) + Len(t)
           /\ \A i \in 1 .. Len(s) : (s \o t)[i] = s[i]
           /\ \A i \in 1 .. Len(t) : (s \o t)[Len(s) + i] = t[i]
BY ConcatProperties

\* The queries of the three reports, in their order.
LEMMA QueriesAre ==
    /\ \A kind \in Reports : Queries(kind) \in Seq(Asked)
    /\ DOMAIN Queries("summary") = 1 .. 6
    /\ DOMAIN Queries("summary-public") = 1 .. 7
    /\ DOMAIN Queries("export-pdf") = 1 .. 7
    /\ \A i \in 1 .. 5 : /\ Queries("summary")[i] = Counts[i]
                         /\ Queries("summary-public")[i] = Counts[i]
                         /\ Queries("export-pdf")[i + 1] = Counts[i]
    /\ Queries("summary")[6] = "recent"
    /\ Queries("summary-public")[6] = "alerts" /\ Queries("summary-public")[7] = "recent"
    /\ Queries("export-pdf")[1] = "listed" /\ Queries("export-pdf")[7] = "recent"
<1> DEFINE c == SummaryQueries
           r == << "recent" >>
           a == << "alerts", "recent" >>
           l == << "listed" >>
           cr == c \o r
           ca == c \o a
           lc == l \o c
           lcr == lc \o r
<1>1. c \in Seq(Asked) /\ r \in Seq(Asked) /\ a \in Seq(Asked) /\ l \in Seq(Asked)
  BY DEF SummaryQueries, Counts, Asked
<1>2. Len(c) = 5 /\ Len(r) = 1 /\ Len(a) = 2 /\ Len(l) = 1
  BY DEF SummaryQueries, Counts
<1>3. c = Counts /\ r[1] = "recent" /\ a[1] = "alerts" /\ a[2] = "recent" /\ l[1] = "listed"
  BY DEF SummaryQueries
<1>4. /\ Queries("summary") = cr
      /\ Queries("summary-public") = ca
      /\ Queries("export-pdf") = lcr
  BY DEF Queries
<1> HIDE DEF c, r, a, l
<1>5. /\ cr \in Seq(Asked) /\ DOMAIN cr = 1 .. Len(c) + Len(r)
      /\ \A i \in 1 .. Len(c) : cr[i] = c[i]
      /\ \A i \in 1 .. Len(r) : cr[Len(c) + i] = r[i]
  BY <1>1, Joined
<1>6. /\ ca \in Seq(Asked) /\ DOMAIN ca = 1 .. Len(c) + Len(a)
      /\ \A i \in 1 .. Len(c) : ca[i] = c[i]
      /\ \A i \in 1 .. Len(a) : ca[Len(c) + i] = a[i]
  BY <1>1, Joined
<1>7. /\ lc \in Seq(Asked) /\ Len(lc) = Len(l) + Len(c)
      /\ \A i \in 1 .. Len(l) : lc[i] = l[i]
      /\ \A i \in 1 .. Len(c) : lc[Len(l) + i] = c[i]
  BY <1>1, Joined
<1> HIDE DEF lc
<1>8. /\ lcr \in Seq(Asked) /\ DOMAIN lcr = 1 .. Len(lc) + Len(r)
      /\ \A i \in 1 .. Len(lc) : lcr[i] = lc[i]
      /\ \A i \in 1 .. Len(r) : lcr[Len(lc) + i] = r[i]
  <2>1. lc \in Seq(Asked) /\ r \in Seq(Asked)
    BY <1>1, <1>7
  <2> QED
    BY <2>1, Joined
<1> HIDE DEF cr, ca, lcr
<1>9. DOMAIN cr = 1 .. 6 /\ cr[6] = "recent" /\ \A i \in 1 .. 5 : cr[i] = Counts[i]
  <2>1. DOMAIN cr = 1 .. 6
    BY <1>2, <1>5
  <2>2. cr[6] = r[1]
    BY <1>2, <1>5
  <2>3. \A i \in 1 .. 5 : cr[i] = c[i]
    BY <1>2, <1>5
  <2> QED
    BY <1>3, <2>1, <2>2, <2>3
<1>10. /\ DOMAIN ca = 1 .. 7 /\ ca[6] = "alerts" /\ ca[7] = "recent"
       /\ \A i \in 1 .. 5 : ca[i] = Counts[i]
  <2>1. DOMAIN ca = 1 .. 7
    BY <1>2, <1>6
  <2>2. ca[6] = a[1]
    BY <1>2, <1>6
  <2>3. ca[7] = a[2]
    BY <1>2, <1>6
  <2>4. \A i \in 1 .. 5 : ca[i] = c[i]
    BY <1>2, <1>6
  <2> QED
    BY <1>3, <2>1, <2>2, <2>3, <2>4, Zenon
<1>11. Len(lc) = 6 /\ lc[1] = "listed" /\ \A i \in 1 .. 5 : lc[i + 1] = Counts[i]
  <2>1. Len(lc) = 6
    BY <1>2, <1>7
  <2>2. lc[1] = l[1]
    BY <1>2, <1>7
  <2>3. \A i \in 1 .. 5 : lc[i + 1] = c[i]
    BY <1>2, <1>7
  <2> QED
    BY <1>3, <2>1, <2>2, <2>3, Zenon
<1>12. /\ DOMAIN lcr = 1 .. 7 /\ lcr[1] = "listed" /\ lcr[7] = "recent"
       /\ \A i \in 1 .. 5 : lcr[i + 1] = Counts[i]
  <2>1. DOMAIN lcr = 1 .. 7
    BY <1>2, <1>8, <1>11
  <2>2. lcr[1] = lc[1]
    BY <1>8, <1>11
  <2>3. lcr[7] = r[1]
    BY <1>2, <1>8, <1>11
  <2>4. \A i \in 1 .. 5 : lcr[i + 1] = lc[i + 1]
    BY <1>8, <1>11
  <2> QED
    BY <1>3, <1>11, <2>1, <2>2, <2>3, <2>4, Zenon
<1>13. \A kind \in Reports : Queries(kind) \in Seq(Asked)
  BY <1>4, <1>5, <1>6, <1>8 DEF Reports
<1> QED
  BY <1>4, <1>9, <1>10, <1>12, <1>13

\* Every report has its queries once each, the decisions after the total, the
\* alerts after the denials, the rows it lists before the total.
LEMMA QueryOrder ==
    ASSUME NEW kind \in Reports
    PROVE  /\ Queries(kind) \in Seq(Asked)
           /\ {"total", "allow", "challenge_otp", "deny", "high_risk", "recent"}
                \subseteq Has(kind)
           /\ kind = "summary-public" => "alerts" \in Has(kind)
           /\ kind = "export-pdf" => "listed" \in Has(kind)
           /\ \A i \in DOMAIN Queries(kind) : Position(kind, Queries(kind)[i]) = i
           /\ \A query \in {"allow", "challenge_otp", "deny", "recent"} :
                Position(kind, "total") < Position(kind, query)
           /\ kind = "summary-public" =>
                Position(kind, "deny") < Position(kind, "alerts")
           /\ kind = "export-pdf" =>
                Position(kind, "listed") < Position(kind, "total")
<1> DEFINE q == Queries(kind)
<1>1. q \in Seq(Asked)
  BY QueriesAre
<1>2. Counts[1] = "total" /\ Counts[2] = "allow" /\ Counts[3] = "challenge_otp"
      /\ Counts[4] = "deny" /\ Counts[5] = "high_risk"
  BY DEF Counts
<1>3. CASE kind = "summary"
  <2>1. DOMAIN q = 1 .. 6
    BY <1>3, QueriesAre
  <2>2. /\ q[1] = "total" /\ q[2] = "allow" /\ q[3] = "challenge_otp"
        /\ q[4] = "deny" /\ q[5] = "high_risk"
    <3>1. \A i \in 1 .. 5 : q[i] = Counts[i]
      BY <1>3, QueriesAre
    <3> HIDE DEF q
    <3> QED
      BY <1>2, <3>1
  <2>3. q[6] = "recent"
    BY <1>3, QueriesAre
  <2>4. \A i, j \in DOMAIN q : q[i] = q[j] => i = j
    <3> HIDE DEF q
    <3> QED
      BY <2>1, <2>2, <2>3
  <2>5. \A i \in DOMAIN q : Position(kind, q[i]) = i
    BY <2>4, Zenon DEF Position
  <2>6. /\ Position(kind, "total") = 1 /\ "total" \in Has(kind)
        /\ Position(kind, "allow") = 2 /\ "allow" \in Has(kind)
        /\ Position(kind, "challenge_otp") = 3 /\ "challenge_otp" \in Has(kind)
        /\ Position(kind, "deny") = 4 /\ "deny" \in Has(kind)
        /\ Position(kind, "high_risk") = 5 /\ "high_risk" \in Has(kind)
        /\ Position(kind, "recent") = 6 /\ "recent" \in Has(kind)
    <3>1. Has(kind) = {q[i] : i \in DOMAIN q}
      BY DEF Has
    <3> HIDE DEF q
    <3> QED
      BY <2>1, <2>2, <2>3, <2>5, <3>1
  <2> QED
    BY <1>1, <1>3, <2>5, <2>6
<1>4. CASE kind = "summary-public"
  <2>1. DOMAIN q = 1 .. 7
    BY <1>4, QueriesAre
  <2>2. /\ q[1] = "total" /\ q[2] = "allow" /\ q[3] = "challenge_otp"
        /\ q[4] = "deny" /\ q[5] = "high_risk"
    <3>1. \A i \in 1 .. 5 : q[i] = Counts[i]
      BY <1>4, QueriesAre
    <3> HIDE DEF q
    <3> QED
      BY <1>2, <3>1
  <2>3. q[6] = "alerts" /\ q[7] = "recent"
    BY <1>4, QueriesAre
  <2>4. \A i, j \in DOMAIN q : q[i] = q[j] => i = j
    <3> HIDE DEF q
    <3> QED
      BY <2>1, <2>2, <2>3
  <2>5. \A i \in DOMAIN q : Position(kind, q[i]) = i
    BY <2>4, Zenon DEF Position
  <2>6. /\ Position(kind, "total") = 1 /\ "total" \in Has(kind)
        /\ Position(kind, "allow") = 2 /\ "allow" \in Has(kind)
        /\ Position(kind, "challenge_otp") = 3 /\ "challenge_otp" \in Has(kind)
        /\ Position(kind, "deny") = 4 /\ "deny" \in Has(kind)
        /\ Position(kind, "high_risk") = 5 /\ "high_risk" \in Has(kind)
        /\ Position(kind, "alerts") = 6 /\ "alerts" \in Has(kind)
        /\ Position(kind, "recent") = 7 /\ "recent" \in Has(kind)
    <3>1. Has(kind) = {q[i] : i \in DOMAIN q}
      BY DEF Has
    <3> HIDE DEF q
    <3> QED
      BY <2>1, <2>2, <2>3, <2>5, <3>1
  <2> QED
    BY <1>1, <1>4, <2>5, <2>6
<1>5. CASE kind = "export-pdf"
  <2>1. DOMAIN q = 1 .. 7
    BY <1>5, QueriesAre
  <2>2. /\ q[2] = "total" /\ q[3] = "allow" /\ q[4] = "challenge_otp"
        /\ q[5] = "deny" /\ q[6] = "high_risk"
    <3>1. \A i \in 1 .. 5 : q[i + 1] = Counts[i]
      BY <1>5, QueriesAre
    <3> HIDE DEF q
    <3> QED
      BY <1>2, <3>1
  <2>3. q[1] = "listed" /\ q[7] = "recent"
    BY <1>5, QueriesAre
  <2>4. \A i, j \in DOMAIN q : q[i] = q[j] => i = j
    <3> HIDE DEF q
    <3> QED
      BY <2>1, <2>2, <2>3
  <2>5. \A i \in DOMAIN q : Position(kind, q[i]) = i
    BY <2>4, Zenon DEF Position
  <2>6. /\ Position(kind, "listed") = 1 /\ "listed" \in Has(kind)
        /\ Position(kind, "total") = 2 /\ "total" \in Has(kind)
        /\ Position(kind, "allow") = 3 /\ "allow" \in Has(kind)
        /\ Position(kind, "challenge_otp") = 4 /\ "challenge_otp" \in Has(kind)
        /\ Position(kind, "deny") = 5 /\ "deny" \in Has(kind)
        /\ Position(kind, "high_risk") = 6 /\ "high_risk" \in Has(kind)
        /\ Position(kind, "recent") = 7 /\ "recent" \in Has(kind)
    <3>1. Has(kind) = {q[i] : i \in DOMAIN q}
      BY DEF Has
    <3> HIDE DEF q
    <3> QED
      BY <2>1, <2>2, <2>3, <2>5, <3>1
  <2> QED
    BY <1>1, <1>5, <2>5, <2>6
<1> QED
  BY <1>3, <1>4, <1>5 DEF Reports

-----------------------------------------------------------------------------
(* The tables and the report being answered                                *)

TypeInv ==
    /\ replicas \in BOOLEAN
    /\ clock \in Nat
    /\ logs \in Seq(Rows)
    /\ alerts \in Nat
    /\ pending \in Accesses \cup {None}
    /\ pending # None => pending.decision = "deny"
    /\ report \in [kind : Reports \cup {None}, results : Seq(Nat)]
    /\ report.kind = None => report.results = << >>
    /\ report.kind # None => Len(report.results) <= Len(Queries(report.kind))

\* What is true of the queries when they run in one state.
ResultsFit ==
    /\ \A query \in Asked : Result(query) \in Nat
    /\ Result("total") = Len(logs) /\ Result("alerts") = alerts
    /\ Result("deny") = DecidedAs("deny")
    /\ Len(logs) = Result("allow") + Result("challenge_otp") + Result("deny")
    /\ Result("high_risk") <= Len(logs)
    /\ Result("listed") <= Len(logs)
    /\ Result("recent") = RecentLimit \/ Result("recent") = Len(logs)

LEMMA DecidedAs_is ==
    ASSUME logs \in Seq(Rows), NEW decision
    PROVE  DecidedAs(decision) = HowMany(logs, Decided(decision))
<1>1. {i \in DOMAIN logs : logs[i].decision = decision} = At(logs, Decided(decision))
  BY DEF At, Decided
<1> QED
  BY <1>1 DEF DecidedAs, Count, HowMany

\* Every row has one of the three decisions.
LEMMA EachDecided ==
    ASSUME NEW rows \in Seq(Rows)
    PROVE  Len(rows) = HowMany(rows, Decided("allow"))
                         + HowMany(rows, Decided("challenge_otp"))
                         + HowMany(rows, Decided("deny"))
<1> DEFINE two == Decided("allow") \cup Decided("challenge_otp")
<1>1. HowMany(rows, two) = HowMany(rows, Decided("allow"))
                             + HowMany(rows, Decided("challenge_otp"))
  BY HowManyUnion DEF Decided
<1>2. HowMany(rows, Rows) = HowMany(rows, two) + HowMany(rows, Decided("deny"))
  <2>1. \A row \in Rows : ~(row \in two /\ row \in Decided("deny"))
    BY DEF Decided
  <2>2. \A row \in Rows : row \in Rows <=> row \in two \/ row \in Decided("deny")
    BY RowType DEF Decided
  <2> HIDE DEF two
  <2> QED
    BY <2>1, <2>2, HowManyUnion
<1>3. HowMany(rows, Rows) = Len(rows)
  <2>1. At(rows, Rows) = 1 .. Len(rows) /\ Len(rows) \in Nat
    BY DEF At
  <2>2. Cardinality(1 .. Len(rows)) = Len(rows)
    BY CardinalityOfRows
  <2> QED
    BY <2>1, <2>2 DEF HowMany
<1> QED
  BY <1>1, <1>2, <1>3

LEMMA ResultsDoFit == TypeInv => ResultsFit
<1> SUFFICES ASSUME TypeInv PROVE ResultsFit
  OBVIOUS
<1>1. logs \in Seq(Rows) /\ alerts \in Nat /\ RecentLimit \in Nat /\ PdfLimit \in Nat
  BY ReportsAssumption DEF TypeInv
<1>2. /\ Result("total") = Len(logs) /\ Result("alerts") = alerts
      /\ Result("high_risk") = HowMany(logs, Risky)
      /\ Result("allow") = HowMany(logs, Decided("allow"))
      /\ Result("challenge_otp") = HowMany(logs, Decided("challenge_otp"))
      /\ Result("deny") = HowMany(logs, Decided("deny"))
      /\ Result("deny") = DecidedAs("deny")
  BY <1>1, Counts_are, DecidedAs_is DEF Result
<1>3. /\ Result("recent") = Len(Newest(logs, RecentLimit))
      /\ Result("listed") = Len(Newest(logs, PdfLimit))
  BY DEF Result
<1>4. /\ Len(Newest(logs, RecentLimit))
           = IF Len(logs) > RecentLimit THEN RecentLimit ELSE Len(logs)
      /\ Len(Newest(logs, PdfLimit))
           = IF Len(logs) > PdfLimit THEN PdfLimit ELSE Len(logs)
  BY <1>1, NewestRows
<1>5. Len(logs) \in Nat /\ \A these : HowMany(logs, these) \in 0 .. Len(logs)
  BY <1>1, HowManyType
<1>6. Result("recent") \in Nat /\ Result("listed") \in Nat
  BY <1>1, <1>3, <1>4, <1>5
<1>7. \A query \in Asked : Result(query) \in Nat
  BY <1>1, <1>2, <1>5, <1>6 DEF Asked
<1>8. Len(logs) = Result("allow") + Result("challenge_otp") + Result("deny")
  BY <1>1, <1>2, EachDecided
<1>9. Result("high_risk") <= Len(logs)
  BY <1>2, <1>5
<1>10. Result("listed") <= Len(logs)
  BY <1>1, <1>3, <1>4, <1>5
<1>11. Result("recent") = RecentLimit \/ Result("recent") = Len(logs)
  BY <1>3, <1>4
<1> QED
  BY <1>2, <1>7, <1>8, <1>9, <1>10, <1>11 DEF ResultsFit

LEMMA TypeStart == Init => TypeInv
BY ReportsAssumption DEF Init, TypeInv, NoReport

LEMMA TypeStep == TypeInv /\ [Next]_vars => TypeInv'
<1> SUFFICES ASSUME TypeInv, [Next]_vars PROVE TypeInv'
  OBVIOUS
<1>0. ResultsFit
  BY ResultsDoFit
<1>1. ASSUME NEW a \in Accesses, CommitAlert(a) PROVE TypeInv'
  BY <1>1, ReportsAssumption DEF TypeInv, CommitAlert
<1>2. ASSUME NEW a \in Accesses, CommitLog(a) PROVE TypeInv'
  <2>1. PICK h \in {clock - 1, clock} \cap (FirstHour .. LastHour) :
           logs' = Append(logs, Row(a, h))
    BY <1>2 DEF CommitLog
  <2>2. h \in Nat
    BY ReportsAssumption DEF TypeInv
  <2>3. Row(a, h) \in Rows
    BY <2>2 DEF Rows
  <2>4. logs' \in Seq(Rows)
    BY <2>1, <2>3 DEF TypeInv
  <2> QED
    BY <1>2, <2>4 DEF TypeInv, CommitLog
<1>3. CASE LoseLog
  BY <1>3 DEF TypeInv, LoseLog
<1>4. ASSUME NEW kind \in Reports, Ask(kind) PROVE TypeInv'
  <2>1. Queries(kind) \in Seq(Asked)
    BY QueryOrder
  <2>2. report' = [kind |-> kind, results |-> << >>] /\ Len(<< >>) = 0
    BY <1>4 DEF Ask
  <2>3. report' \in [kind : Reports \cup {None}, results : Seq(Nat)]
        /\ report'.kind = kind /\ kind # None
    BY <2>2, ReportsAssumption
  <2>4. Len(report'.results) <= Len(Queries(report'.kind))
    BY <2>1, <2>2
  <2> QED
    BY <1>4, <2>3, <2>4 DEF TypeInv, Ask
<1>5. CASE RunQuery
  <2> DEFINE kind == report.kind
             n == Len(report.results)
  <2>1. kind \in Reports /\ Len(report.results) # Len(Queries(kind))
    <3>1. report = [kind |-> report.kind, results |-> report.results]
      BY DEF TypeInv
    <3>2. kind # None /\ kind \in Reports
      BY <1>5, <3>1 DEF RunQuery, TypeInv, NoReport
    <3> QED
      BY <1>5, <3>2 DEF RunQuery, Answered
  <2>2. Queries(kind) \in Seq(Asked) /\ Len(report.results) <= Len(Queries(kind))
        /\ kind # None
    BY <2>1, QueryOrder, ReportsAssumption DEF TypeInv
  <2>3. Queries(kind)[n + 1] \in Asked
    <3>1. n + 1 \in DOMAIN Queries(kind)
      BY <2>1, <2>2 DEF TypeInv
    <3> QED
      BY <2>2, <3>1
  <2>4. PICK v \in Nat : report' = [report EXCEPT !.results = Append(@, v)]
    BY <1>5, <2>3, <1>0 DEF RunQuery, ResultsFit
  <2>5. /\ report' \in [kind : Reports \cup {None}, results : Seq(Nat)]
        /\ report'.kind = kind /\ Len(report'.results) = n + 1
    <3>1. report' = [kind |-> kind, results |-> Append(report.results, v)]
      BY <2>4 DEF TypeInv
    <3>2. report.results \in Seq(Nat)
      BY DEF TypeInv
    <3>3. Append(report.results, v) \in Seq(Nat) /\ Len(Append(report.results, v)) = n + 1
      BY <3>2
    <3> QED
      BY <2>1, <3>1, <3>3
  <2>6. Len(report'.results) <= Len(Queries(report'.kind))
    BY <2>1, <2>2, <2>5 DEF TypeInv
  <2> QED
    BY <1>5, <2>2, <2>5, <2>6 DEF TypeInv, RunQuery
<1>6. CASE Deliver
  BY <1>6, ReportsAssumption DEF TypeInv, Deliver, NoReport
<1>7. CASE Tick
  BY <1>7 DEF TypeInv, Tick
<1>8. CASE UNCHANGED vars
  BY <1>8 DEF TypeInv, vars
<1> QED
  BY <1>1, <1>2, <1>3, <1>4, <1>5, <1>6, <1>7, <1>8 DEF Next

\* The rows of the log are rows of accesses, a pending row is a denial's, and a
\* report has no more results than queries.
THEOREM TypeCorrect == Spec => []TypeInv
BY TypeStart, TypeStep, PTL DEF Spec

-----------------------------------------------------------------------------
(* The numbers of one report                                               *)

\* What a report has for a query, or would have if it ran now.
Taken(query) == Position(report.kind, query) <= Len(report.results)
Value(query) ==
    IF Taken(query) THEN report.results[Position(report.kind, query)]
                    ELSE Result(query)

\* The numbers fit while some of them are still to be taken: a query that is
\* yet to run would not spoil them.
Fits ==
    LET decided == Value("allow") + Value("challenge_otp") + Value("deny")
        total   == Value("total")
    IN  /\ total <= Len(logs)
        /\ total <= decided
        /\ ~replicas => total = decided /\ Value("high_risk") <= total
        /\ report.kind = "summary-public" => Value("deny") <= Value("alerts")
        /\ report.kind = "export-pdf" => Value("listed") <= total
        /\ Value("recent") = RecentLimit \/ Value("recent") >= total

\* Each row of a denial, and the one that is pending, has its alert, and a
\* process that is alone does not serve an access in the middle of a report.
ReportInv ==
    /\ DecidedAs("deny") + One(pending # None) <= alerts
    /\ ~replicas /\ report.kind # None => pending = None
    /\ report.kind # None => Fits

LEMMA KindType ==
    ASSUME TypeInv
    PROVE  /\ report.kind # None <=> report # NoReport
           /\ report.kind # None => report.kind \in Reports
           /\ report = [kind |-> report.kind, results |-> report.results]
           /\ report.results \in Seq(Nat)
<1>1. report = [kind |-> report.kind, results |-> report.results]
  BY DEF TypeInv
<1>2. report.kind # None <=> report # NoReport
  BY <1>1 DEF TypeInv, NoReport
<1> QED
  BY <1>1, <1>2 DEF TypeInv

LEMMA ValueType ==
    ASSUME TypeInv, report.kind # None
    PROVE  \A query \in Has(report.kind) :
             Value(query) \in Nat /\ Position(report.kind, query) \in Nat \ {0}
<1> SUFFICES ASSUME NEW query \in Has(report.kind)
             PROVE  Value(query) \in Nat /\ Position(report.kind, query) \in Nat \ {0}
  OBVIOUS
<1>1. report.kind \in Reports /\ report.results \in Seq(Nat)
  BY KindType
<1>2. PICK i \in DOMAIN Queries(report.kind) : query = Queries(report.kind)[i]
  BY DEF Has
<1>3. Queries(report.kind) \in Seq(Asked) /\ Position(report.kind, query) = i
  BY <1>1, <1>2, QueryOrder
<1>4. query \in Asked /\ i \in Nat \ {0}
  BY <1>2, <1>3
<1>5. Result(query) \in Nat
  BY <1>4, ResultsDoFit DEF ResultsFit
<1>6. CASE Taken(query)
  <2>1. i \in 1 .. Len(report.results)
    BY <1>1, <1>3, <1>4, <1>6 DEF Taken
  <2> QED
    BY <1>1, <1>3, <1>4, <1>6, <2>1 DEF Value
<1> QED
  BY <1>3, <1>4, <1>5, <1>6 DEF Value

\* An answered report has its values.
LEMMA AnsweredValues ==
    ASSUME TypeInv, Answered
    PROVE  \A query \in Has(report.kind) : Reported(query) = Value(query)
<1>1. report.kind \in Reports /\ report.results \in Seq(Nat)
      /\ Len(report.results) = Len(Queries(report.kind))
  BY KindType DEF Answered
<1> SUFFICES ASSUME NEW query \in Has(report.kind) PROVE Reported(query) = Value(query)
  OBVIOUS
<1>2. PICK i \in DOMAIN Queries(report.kind) : query = Queries(report.kind)[i]
  BY DEF Has
<1>3. Queries(report.kind) \in Seq(Asked) /\ Position(report.kind, query) = i
  BY <1>1, <1>2, QueryOrder
<1>4. Taken(query)
  BY <1>1, <1>3 DEF Taken
<1> QED
  BY <1>4 DEF Value, Reported, Position

\* A query has the same result while the tables stay.
LEMMA SameResults ==
    ASSUME UNCHANGED <<logs, alerts>>, NEW query
    PROVE  Result(query)' = Result(query) /\ DecidedAs(query)' = DecidedAs(query)
<1>1. {i \in DOMAIN logs' : logs'[i].decision = query}
        = {i \in DOMAIN logs : logs[i].decision = query}
  OBVIOUS
<1>2. DecidedAs(query)' = DecidedAs(query)
  BY <1>1 DEF DecidedAs, Count
<1>3. /\ HighRisk(logs') = HighRisk(logs) /\ alerts' = alerts
      /\ Newest(logs', RecentLimit) = Newest(logs, RecentLimit)
      /\ Newest(logs', PdfLimit) = Newest(logs, PdfLimit)
      /\ Len(logs') = Len(logs)
  OBVIOUS
<1> QED
  BY <1>2, <1>3, Zenon DEF Result

\* A query that runs leaves the values as they are: it takes what it would
\* have taken before.
LEMMA QueryKeepsValues ==
    ASSUME TypeInv, RunQuery
    PROVE  /\ \A query \in Has(report.kind) : Value(query)' = Value(query)
           /\ report.kind # None /\ report'.kind = report.kind
<1> DEFINE kind == report.kind
           n == Len(report.results)
           run == Queries(kind)[n + 1]
<1>1. kind \in Reports /\ kind # None /\ report.results \in Seq(Nat)
      /\ Len(report.results) # Len(Queries(kind))
  BY KindType DEF RunQuery, Answered
<1>2. /\ Queries(kind) \in Seq(Asked) /\ n + 1 \in DOMAIN Queries(kind) /\ n \in Nat
  BY <1>1, QueryOrder DEF TypeInv
<1>3. run \in Asked /\ Position(kind, run) = n + 1
  BY <1>1, <1>2, QueryOrder
<1>4. Result(run) \in Nat
  BY <1>3, ResultsDoFit DEF ResultsFit
<1>5. report' = [report EXCEPT !.results = Append(@, Result(run))]
  BY DEF RunQuery
<1>6. report'.kind = kind /\ report'.results = Append(report.results, Result(run))
  BY <1>5, KindType
<1>7. Len(report'.results) = n + 1 /\ report'.results[n + 1] = Result(run)
      /\ \A i \in 1 .. n : report'.results[i] = report.results[i]
  BY <1>1, <1>4, <1>6
<1>8. ASSUME NEW query \in Has(kind) PROVE Value(query)' = Value(query)
  <2>1. PICK i \in DOMAIN Queries(kind) : query = Queries(kind)[i]
    BY DEF Has
  <2>2. Position(kind, query) = i /\ i \in Nat \ {0}
    BY <1>1, <1>2, <2>1, QueryOrder
  <2>3. Result(query)' = Result(query)
    BY SameResults DEF RunQuery
  <2>4. Taken(query)' <=> i <= n + 1
    <3>1. Position(report'.kind, query) = i
      BY <1>6, <2>2
    <3> QED
      BY <1>7, <3>1 DEF Taken
  <2>5. CASE i <= n
    BY <1>2, <1>6, <1>7, <2>2, <2>4, <2>5 DEF Value, Taken
  <2>6. CASE i = n + 1
    <3>1. query = run
      BY <2>1, <2>6
    <3>2. Value(query)' = Result(run)
      BY <1>6, <1>7, <2>2, <2>4, <2>6 DEF Value
    <3>3. ~Taken(query)
      BY <1>2, <2>2, <2>6 DEF Taken
    <3> QED
      BY <3>1, <3>2, <3>3 DEF Value
  <2>7. CASE i > n + 1
    BY <1>2, <2>2, <2>3, <2>4, <2>7 DEF Value, Taken
  <2> QED
    BY <1>2, <2>2, <2>5, <2>6, <2>7
<1> QED
  BY <1>1, <1>6, <1>8

\* Before its first query, the values of a report fit.
LEMMA AskedFits ==
    TypeInv /\ DecidedAs("deny") <= alerts /\ report.kind # None /\ report.results = << >>
      => Fits
<1> SUFFICES ASSUME TypeInv, DecidedAs("deny") <= alerts, report.kind # None,
                    report.results = << >>
             PROVE  Fits
  OBVIOUS
<1>1. report.kind \in Reports
  BY KindType
<1>2. \A query \in Has(report.kind) : Value(query) = Result(query)
  <2>1. Len(report.results) = 0
    OBVIOUS
  <2> QED
    BY <2>1, ValueType DEF Value, Taken
<1>3. /\ Value("total") = Result("total") /\ Value("allow") = Result("allow")
      /\ Value("challenge_otp") = Result("challenge_otp")
      /\ Value("deny") = Result("deny") /\ Value("high_risk") = Result("high_risk")
      /\ Value("recent") = Result("recent")
      /\ report.kind = "summary-public" => Value("alerts") = Result("alerts")
      /\ report.kind = "export-pdf" => Value("listed") = Result("listed")
  BY <1>1, <1>2, QueryOrder
<1>4. ResultsFit
  BY ResultsDoFit
<1>5. Len(logs) \in Nat
  BY DEF TypeInv
<1> QED
  BY <1>3, <1>4, <1>5 DEF Fits, ResultsFit

\* Rows and alerts of other processes do not spoil a report that is under way:
\* the total was taken before the decisions, the denials before the alerts,
\* the rows the PDF lists before the total.
LEMMA FitsWhileTablesGrow ==
    ASSUME TypeInv, TypeInv', Fits, report.kind # None,
           UNCHANGED <<report, replicas>>,
           ~replicas => UNCHANGED <<logs, alerts>>,
           Len(logs) <= Len(logs'), alerts <= alerts',
           DecidedAs("deny")' <= alerts',
           \A query \in {"allow", "challenge_otp", "deny"} :
             Result(query) <= Result(query)'
    PROVE  Fits'
<1> DEFINE kind == report.kind
<1>1. kind \in Reports /\ report'.kind = kind
  BY KindType
<1>2. ResultsFit /\ ResultsFit'
  <2>1. ResultsFit
    BY ResultsDoFit
  <2>2. ResultsFit'
    BY ResultsDoFit, PTL
  <2> QED
    BY <2>1, <2>2
<1>3. /\ {"total", "allow", "challenge_otp", "deny", "high_risk", "recent"}
           \subseteq Has(kind)
      /\ kind = "summary-public" => "alerts" \in Has(kind)
      /\ kind = "export-pdf" => "listed" \in Has(kind)
  BY <1>1, QueryOrder
<1>4. ASSUME NEW query \in Has(kind)
      PROVE  /\ Value(query) \in Nat /\ Value(query)' \in Nat
             /\ Taken(query)' = Taken(query)
             /\ Taken(query) => Value(query)' = Value(query)
             /\ ~Taken(query) => Value(query) = Result(query)
             /\ ~Taken(query) => Value(query)' = Result(query)'
  <2>1. Taken(query)' = Taken(query)
    BY DEF Taken
  <2>2. Value(query) \in Nat
    BY ValueType
  <2>3. Taken(query) => Value(query)' = Value(query)
    BY <2>1 DEF Value
  <2>4. ~Taken(query) => Value(query) = Result(query)
    BY DEF Value
  <2>5. ~Taken(query) => Value(query)' = Result(query)'
    BY <2>1 DEF Value
  <2>6. Value(query)' \in Nat
    <3>1. \A q \in Asked : Result(q)' \in Nat
      BY <1>2 DEF ResultsFit
    <3>2. query \in Asked
      BY <1>1, QueryOrder DEF Has
    <3> QED
      BY <2>2, <2>3, <2>5, <3>1, <3>2
  <2> QED
    BY <2>1, <2>2, <2>3, <2>4, <2>5, <2>6
<1>5. /\ \A query \in {"allow", "challenge_otp", "deny", "recent"} :
           Taken(query) => Taken("total")
      /\ kind = "summary-public" => (Taken("alerts") => Taken("deny"))
      /\ kind = "export-pdf" => (Taken("total") => Taken("listed"))
  <2>1. \A query \in Has(kind) : Position(kind, query) \in Nat
    BY ValueType
  <2>2. Len(report.results) \in Nat
    BY DEF TypeInv
  <2>3. /\ \A query \in {"allow", "challenge_otp", "deny", "recent"} :
             Position(kind, "total") < Position(kind, query)
        /\ kind = "summary-public" => Position(kind, "deny") < Position(kind, "alerts")
        /\ kind = "export-pdf" => Position(kind, "listed") < Position(kind, "total")
    BY <1>1, QueryOrder
  <2>4. \A query \in {"allow", "challenge_otp", "deny", "recent"} :
          Taken(query) => Taken("total")
    BY <1>3, <2>1, <2>2, <2>3 DEF Taken
  <2>5. kind = "summary-public" => (Taken("alerts") => Taken("deny"))
    BY <1>3, <2>1, <2>2, <2>3 DEF Taken
  <2>6. kind = "export-pdf" => (Taken("total") => Taken("listed"))
    BY <1>3, <2>1, <2>2, <2>3 DEF Taken
  <2> QED
    BY <2>4, <2>5, <2>6
<1>6. Len(logs) \in Nat /\ Len(logs') \in Nat /\ alerts \in Nat /\ alerts' \in Nat
  BY DEF TypeInv
<1>7. /\ Result("total") = Len(logs) /\ Result("total")' = Len(logs')
      /\ Result("alerts") = alerts /\ Result("alerts")' = alerts'
      /\ Result("deny")' <= alerts'
  BY <1>2 DEF ResultsFit
<1>8. Value("total")' <= Len(logs')
  <2>1. Value("total") \in Nat /\ Value("total") <= Len(logs)
    BY <1>3, <1>4 DEF Fits
  <2>2. CASE Taken("total")
    <3>1. Value("total")' = Value("total")
      BY <1>3, <1>4, <2>2
    <3> QED
      BY <1>6, <2>1, <3>1
  <2>3. CASE ~Taken("total")
    <3>1. Value("total")' = Result("total")'
      BY <1>3, <1>4, <2>3
    <3>2. Result("total")' = Len(logs')
      BY <1>7
    <3> QED
      BY <1>6, <3>1, <3>2
  <2> QED
    BY <2>2, <2>3
<1>9. Value("total")' <= Value("allow")' + Value("challenge_otp")' + Value("deny")'
  <2>1. CASE Taken("total")
    <3>1. ASSUME NEW query \in {"allow", "challenge_otp", "deny"}
          PROVE  Value(query) <= Value(query)'
      <4>1. query \in Has(kind)
        BY <1>3
      <4> QED
        BY <1>4, <4>1
    <3>2. Value("total")' = Value("total")
      BY <1>3, <1>4, <2>1
    <3>3. Value("total") <= Value("allow") + Value("challenge_otp") + Value("deny")
      BY DEF Fits
    <3>4. \A query \in {"total", "allow", "challenge_otp", "deny"} :
            Value(query) \in Nat /\ Value(query)' \in Nat
      BY <1>3, <1>4
    <3> QED
      BY <3>1, <3>2, <3>3, <3>4
  <2>2. CASE ~Taken("total")
    <3>1. /\ Value("total")' = Result("total")'
          /\ Value("allow")' = Result("allow")'
          /\ Value("challenge_otp")' = Result("challenge_otp")'
          /\ Value("deny")' = Result("deny")'
      BY <1>3, <1>4, <1>5, <2>2
    <3>2. Len(logs') = Result("allow")' + Result("challenge_otp")' + Result("deny")'
      BY <1>2 DEF ResultsFit
    <3> QED
      BY <1>3, <1>4, <1>7, <3>1, <3>2
  <2> QED
    BY <2>1, <2>2
<1>10. ~replicas =>
         /\ Value("total")' = Value("allow")' + Value("challenge_otp")' + Value("deny")'
         /\ Value("high_risk")' <= Value("total")'
  <2> SUFFICES ASSUME ~replicas
               PROVE  /\ Value("total")' = Value("allow")' + Value("challenge_otp")'
                                             + Value("deny")'
                      /\ Value("high_risk")' <= Value("total")'
    OBVIOUS
  <2>1. \A query \in Has(kind) : Value(query)' = Value(query)
    BY <1>4, SameResults
  <2> QED
    BY <1>3, <2>1 DEF Fits
<1>11. kind = "summary-public" => Value("deny")' <= Value("alerts")'
  <2> SUFFICES ASSUME kind = "summary-public" PROVE Value("deny")' <= Value("alerts")'
    OBVIOUS
  <2>1. CASE Taken("deny")
    <3>1. Value("alerts") <= Value("alerts")'
      <4>1. "alerts" \in Has(kind)
        BY <1>3
      <4>2. CASE Taken("alerts")
        BY <1>4, <4>1, <4>2
      <4>3. CASE ~Taken("alerts")
        BY <1>4, <1>7, <4>1, <4>3
      <4> QED
        BY <4>2, <4>3
    <3>2. Value("deny")' = Value("deny") /\ Value("deny") \in Nat
      BY <1>3, <1>4, <2>1
    <3>3. Value("deny") <= Value("alerts")
      BY DEF Fits
    <3>4. Value("alerts") \in Nat /\ Value("alerts")' \in Nat
      BY <1>3, <1>4
    <3> QED
      BY <3>1, <3>2, <3>3, <3>4
  <2>2. CASE ~Taken("deny")
    BY <1>3, <1>4, <1>5, <1>7, <2>2
  <2> QED
    BY <2>1, <2>2
<1>12. kind = "export-pdf" => Value("listed")' <= Value("total")'
  <2> SUFFICES ASSUME kind = "export-pdf" PROVE Value("listed")' <= Value("total")'
    OBVIOUS
  <2>1. CASE Taken("total")
    BY <1>3, <1>4, <1>5, <2>1 DEF Fits
  <2>2. CASE ~Taken("total")
    <3>1. Value("total") = Len(logs) /\ Value("total")' = Len(logs')
      BY <1>3, <1>4, <1>7, <2>2
    <3>2. Result("listed")' <= Len(logs')
      BY <1>2 DEF ResultsFit
    <3>3. Value("listed") <= Len(logs)
      BY <3>1 DEF Fits
    <3>4. Value("listed")' \in {Value("listed"), Result("listed")'}
      BY <1>3, <1>4
    <3>5. Value("listed") \in Nat /\ Value("listed")' \in Nat
      BY <1>3, <1>4
    <3> QED
      BY <1>6, <3>1, <3>2, <3>3, <3>4, <3>5
  <2> QED
    BY <2>1, <2>2
<1>13. Value("recent")' = RecentLimit \/ Value("recent")' >= Value("total")'
  <2>1. CASE Taken("recent")
    BY <1>3, <1>4, <1>5, <2>1 DEF Fits
  <2>2. CASE ~Taken("recent")
    <3>1. Value("recent")' = Result("recent")'
      BY <1>3, <1>4, <2>2
    <3>2. Result("recent")' = RecentLimit \/ Result("recent")' = Len(logs')
      BY <1>2 DEF ResultsFit
    <3> QED
      BY <1>3, <1>4, <1>6, <1>8, <3>1, <3>2
  <2> QED
    BY <2>1, <2>2
<1> QED
  BY <1>1, <1>8, <1>9, <1>10, <1>11, <1>12, <1>13 DEF Fits

LEMMA ReportStart == Init => ReportInv
<1> SUFFICES ASSUME Init PROVE ReportInv
  OBVIOUS
<1>1. {i \in DOMAIN logs : logs[i].decision = "deny"} = {}
  BY DEF Init
<1>2. DecidedAs("deny") = 0
  BY <1>1, FS_EmptySet DEF DecidedAs, Count
<1> QED
  BY <1>2 DEF Init, ReportInv, NoReport, One

\* A row is of the decision of its access.
LEMMA DenialsGrow ==
    ASSUME TypeInv, TypeInv', NEW a \in Accesses, CommitLog(a)
    PROVE  /\ DecidedAs("deny")' = DecidedAs("deny") + One(a.decision = "deny")
           /\ Len(logs') = Len(logs) + 1
           /\ \A query \in {"allow", "challenge_otp", "deny"} :
                Result(query) <= Result(query)'
<1>1. PICK h \in {clock - 1, clock} \cap (FirstHour .. LastHour) :
         logs' = Append(logs, Row(a, h))
  BY DEF CommitLog
<1>2. Row(a, h) \in Rows /\ Row(a, h).decision = a.decision
  <2>1. h \in Nat
    BY ReportsAssumption
  <2> QED
    BY <2>1 DEF Rows, Row
<1>3. logs \in Seq(Rows) /\ logs' \in Seq(Rows)
  BY DEF TypeInv
<1>4. ASSUME NEW decision
      PROVE  DecidedAs(decision)' = DecidedAs(decision) + One(a.decision = decision)
  <2>1. DecidedAs(decision)' = HowMany(logs', Decided(decision))
    <3>1. {i \in DOMAIN logs' : logs'[i].decision = decision} = At(logs', Decided(decision))
      BY <1>3 DEF At, Decided
    <3> QED
      BY <3>1 DEF DecidedAs, Count, HowMany
  <2>2. DecidedAs(decision) = HowMany(logs, Decided(decision))
    BY <1>3, DecidedAs_is
  <2>3. HowMany(logs', Decided(decision))
          = HowMany(logs, Decided(decision)) + One(Row(a, h) \in Decided(decision))
    BY <1>1, <1>2, <1>3, HowManyAppend
  <2>4. Row(a, h) \in Decided(decision) <=> a.decision = decision
    BY <1>2 DEF Decided
  <2> QED
    BY <2>1, <2>2, <2>3, <2>4 DEF One
<1>5. Len(logs') = Len(logs) + 1
  BY <1>1, <1>2, <1>3
<1>6. ASSUME NEW query \in {"allow", "challenge_otp", "deny"}
      PROVE  Result(query) <= Result(query)'
  <2>1. Result(query) = DecidedAs(query) /\ Result(query)' = DecidedAs(query)'
    BY DEF Result
  <2>2. DecidedAs(query) \in Nat
    BY <1>3, DecidedAs_is, HowManyType
  <2> QED
    BY <1>4, <2>1, <2>2, OneType
<1> QED
  BY <1>4, <1>5, <1>6

LEMMA ReportStep == TypeInv /\ TypeInv' /\ ReportInv /\ [Next]_vars => ReportInv'
<1> SUFFICES ASSUME TypeInv, TypeInv', ReportInv, [Next]_vars PROVE ReportInv'
  OBVIOUS
<1>0. /\ DecidedAs("deny") \in Nat /\ DecidedAs("deny") <= alerts
      /\ alerts \in Nat /\ Len(logs) \in Nat
  <2>1. DecidedAs("deny") \in Nat
    BY DecidedAs_is, HowManyType DEF TypeInv
  <2>2. One(pending # None) \in {0, 1}
    BY OneType
  <2>3. DecidedAs("deny") + One(pending # None) <= alerts
    BY DEF ReportInv
  <2>4. alerts \in Nat /\ Len(logs) \in Nat
    BY DEF TypeInv
  <2> QED
    BY <2>1, <2>2, <2>3, <2>4
<1>1. ASSUME NEW a \in Accesses, CommitAlert(a) PROVE ReportInv'
  <2>1. /\ UNCHANGED <<replicas, logs, report>> /\ alerts' = alerts + 1
        /\ pending = None
        /\ ~replicas => report.kind = None
    BY <1>1, KindType DEF CommitAlert, Between
  <2>2. DecidedAs("deny")' = DecidedAs("deny")
    <3>1. {i \in DOMAIN logs' : logs'[i].decision = "deny"}
            = {i \in DOMAIN logs : logs[i].decision = "deny"}
      BY <2>1
    <3> QED
      BY <3>1 DEF DecidedAs, Count
  <2>3. DecidedAs("deny")' + One(pending' # None) <= alerts'
    <3>1. One(pending' # None) \in {0, 1}
      BY OneType
    <3> QED
      BY <1>0, <2>1, <2>2, <3>1
  <2>4. report'.kind # None => Fits'
    <3> SUFFICES ASSUME report'.kind # None PROVE Fits'
      OBVIOUS
    <3>1. \A query \in {"allow", "challenge_otp", "deny"} : Result(query) <= Result(query)'
      <4>1. ASSUME NEW query \in {"allow", "challenge_otp", "deny"}
            PROVE  Result(query) <= Result(query)'
        <5>1. {i \in DOMAIN logs' : logs'[i].decision = query}
                = {i \in DOMAIN logs : logs[i].decision = query}
          BY <2>1
        <5>2. DecidedAs(query)' = DecidedAs(query)
          BY <5>1 DEF DecidedAs, Count
        <5>3. DecidedAs(query) \in Nat
          BY DecidedAs_is, HowManyType DEF TypeInv
        <5>4. Result(query) = DecidedAs(query) /\ Result(query)' = DecidedAs(query)'
          BY DEF Result
        <5> QED
          BY <5>2, <5>3, <5>4
      <4> QED
        BY <4>1
    <3>2. Fits /\ replicas
      BY <2>1 DEF ReportInv
    <3>3. Len(logs) <= Len(logs') /\ alerts <= alerts' /\ DecidedAs("deny")' <= alerts'
      BY <1>0, <2>1, <2>2
    <3> QED
      BY <2>1, <3>1, <3>2, <3>3, FitsWhileTablesGrow
  <2>5. ~replicas' /\ report'.kind # None => pending' = None
    BY <2>1
  <2> QED
    BY <2>3, <2>4, <2>5 DEF ReportInv
<1>2. ASSUME NEW a \in Accesses, CommitLog(a) PROVE ReportInv'
  <2>1. /\ UNCHANGED <<replicas, alerts, report>> /\ pending' = None
        /\ ~replicas => report.kind = None \/ pending # None
        /\ a.decision = "deny" => pending # None
    BY <1>2, KindType, ReportsAssumption DEF CommitLog, Between
  <2>2. /\ DecidedAs("deny")' = DecidedAs("deny") + One(a.decision = "deny")
        /\ Len(logs') = Len(logs) + 1
        /\ \A query \in {"allow", "challenge_otp", "deny"} : Result(query) <= Result(query)'
    BY <1>2, DenialsGrow
  <2>3. One(a.decision = "deny") <= One(pending # None)
    BY <2>1 DEF One
  <2>4. DecidedAs("deny")' <= alerts' /\ One(pending' # None) = 0
    <3>1. One(a.decision = "deny") \in {0, 1} /\ One(pending # None) \in {0, 1}
      BY OneType
    <3>2. DecidedAs("deny") + One(pending # None) <= alerts
      BY DEF ReportInv
    <3>3. One(pending' # None) = 0
      BY <2>1, OneType
    <3> QED
      BY <1>0, <2>1, <2>2, <2>3, <3>1, <3>2, <3>3
  <2>5. report'.kind # None => Fits'
    <3> SUFFICES ASSUME report'.kind # None PROVE Fits'
      OBVIOUS
    <3>1. Fits /\ replicas
      BY <2>1 DEF ReportInv
    <3>2. Len(logs) <= Len(logs') /\ alerts <= alerts'
      BY <1>0, <2>1, <2>2
    <3> QED
      BY <2>1, <2>2, <2>4, <3>1, <3>2, FitsWhileTablesGrow
  <2>6. DecidedAs("deny")' + One(pending' # None) <= alerts'
    BY <1>0, <2>2, <2>4, OneType
  <2> QED
    BY <2>1, <2>5, <2>6 DEF ReportInv
<1>3. ASSUME UNCHANGED <<replicas, logs, alerts, report>>,
             pending' = None \/ pending' = pending
      PROVE  ReportInv'
  <2>1. \A query : Result(query)' = Result(query) /\ DecidedAs(query)' = DecidedAs(query)
    BY <1>3, SameResults
  <2>2. DecidedAs("deny")' + One(pending' # None) <= alerts'
    <3>1. One(pending' # None) <= One(pending # None)
      BY <1>3 DEF One
    <3>2. One(pending' # None) \in {0, 1} /\ One(pending # None) \in {0, 1}
      BY OneType
    <3>3. DecidedAs("deny") + One(pending # None) <= alerts
      BY DEF ReportInv
    <3> QED
      BY <1>0, <1>3, <2>1, <3>1, <3>2, <3>3
  <2>3. \A query : Value(query)' = Value(query)
    BY <1>3, <2>1 DEF Value, Taken
  <2>4. report'.kind # None => Fits'
    BY <1>3, <2>3 DEF ReportInv, Fits
  <2> QED
    BY <1>3, <2>2, <2>4 DEF ReportInv
<1>4. ASSUME NEW kind \in Reports, Ask(kind) PROVE ReportInv'
  <2>1. /\ UNCHANGED <<replicas, logs, alerts, pending>>
        /\ report'.results = << >> /\ report'.kind = kind /\ kind # None
        /\ replicas \/ pending = None
    BY <1>4, ReportsAssumption DEF Ask
  <2>2. DecidedAs("deny")' = DecidedAs("deny")
    BY <2>1, SameResults
  <2>3. Fits'
    <3>1. TypeInv' /\ (DecidedAs("deny") <= alerts)' /\ (report.kind # None)'
          /\ (report.results = << >>)'
      BY <1>0, <2>1, <2>2
    <3> QED
      BY <3>1, AskedFits, PTL
  <2> QED
    BY <2>1, <2>2, <2>3 DEF ReportInv
<1>5. CASE RunQuery
  <2>1. /\ \A query \in Has(report.kind) : Value(query)' = Value(query)
        /\ report.kind # None /\ report'.kind = report.kind
        /\ UNCHANGED <<replicas, logs, alerts, pending>>
    BY <1>5, QueryKeepsValues DEF RunQuery
  <2>2. DecidedAs("deny")' = DecidedAs("deny")
    BY <2>1, SameResults
  <2>3. Fits
    BY <2>1 DEF ReportInv
  <2>4. /\ {"total", "allow", "challenge_otp", "deny", "high_risk", "recent"}
             \subseteq Has(report.kind)
        /\ report.kind = "summary-public" => "alerts" \in Has(report.kind)
        /\ report.kind = "export-pdf" => "listed" \in Has(report.kind)
    BY <2>1, KindType, QueryOrder
  <2>5. Fits'
    BY <2>1, <2>3, <2>4 DEF Fits
  <2> QED
    BY <2>1, <2>2, <2>5 DEF ReportInv
<1>6. CASE Deliver
  <2>1. /\ UNCHANGED <<replicas, logs, alerts, pending>> /\ report'.kind = None
    BY <1>6 DEF Deliver, NoReport
  <2>2. DecidedAs("deny")' = DecidedAs("deny")
    BY <2>1, SameResults
  <2> QED
    BY <2>1, <2>2 DEF ReportInv
<1>7. CASE LoseLog
  BY <1>3, <1>7 DEF LoseLog
<1>8. CASE Tick
  BY <1>3, <1>8 DEF Tick
<1>9. CASE UNCHANGED vars
  BY <1>3, <1>9 DEF vars
<1> QED
  BY <1>1, <1>2, <1>4, <1>5, <1>6, <1>7, <1>8, <1>9 DEF Next

LEMMA ReportsAddUp == TypeInv /\ ReportInv => SummaryAddsUp
<1> SUFFICES ASSUME TypeInv, ReportInv, Answered
             PROVE  LET decided == Reported("allow") + Reported("challenge_otp")
                                     + Reported("deny")
                        total   == Reported("total")
                    IN  /\ total <= decided
                        /\ ~replicas => total = decided /\ Reported("high_risk") <= total
                        /\ report.kind = "summary-public" =>
                             Reported("deny") <= Reported("alerts")
                        /\ report.kind = "export-pdf" => Reported("listed") <= total
                        /\ Reported("recent") = RecentLimit \/ Reported("recent") >= total
  BY DEF SummaryAddsUp
<1>1. \A query \in Has(report.kind) : Reported(query) = Value(query)
  BY AnsweredValues
<1>2. report.kind \in Reports /\ report.kind # None
  BY KindType DEF Answered
<1>3. /\ {"total", "allow", "challenge_otp", "deny", "high_risk", "recent"}
           \subseteq Has(report.kind)
      /\ report.kind = "summary-public" => "alerts" \in Has(report.kind)
      /\ report.kind = "export-pdf" => "listed" \in Has(report.kind)
  BY <1>2, QueryOrder
<1>4. Fits
  BY <1>2 DEF ReportInv
<1> QED
  BY <1>1, <1>3, <1>4 DEF Fits

\* The numbers of one report fit together, whatever other processes write
\* between its queries.
THEOREM SummariesAddUp == Spec => []SummaryAddsUp
<1>1. Init => TypeInv /\ ReportInv
  BY TypeStart, ReportStart
<1>2. TypeInv /\ ReportInv /\ [Next]_vars => TypeInv' /\ ReportInv'
  BY TypeStep, ReportStep
<1>3. TypeInv /\ ReportInv => SummaryAddsUp
  BY ReportsAddUp
<1> QED
  BY <1>1, <1>2, <1>3, PTL DEF Spec

-----------------------------------------------------------------------------
(* Legacy evidence                                                         *)

\* The records of rows, each with the rows before it for its link and the rows
\* up to it for its digest.
LEMMA EvidenceIs ==
    ASSUME NEW S, NEW rows \in Seq(S)
    PROVE  EvidenceOf(rows) =
             [i \in DOMAIN rows |->
                [id |-> i, content |-> rows[i],
                 previous_hash |-> SubSeq(rows, 1, i - 1),
                 record_hash |-> SubSeq(rows, 1, i)]]
<1> DEFINE N == Len(rows)
           Is(record) == record = [i \in DOMAIN rows |->
              Evidence(i, rows[i], IF i = 1 THEN FirstLink ELSE record[i - 1].record_hash)]
           chain == [i \in DOMAIN rows |->
                       [id |-> i, content |-> rows[i],
                        previous_hash |-> SubSeq(rows, 1, i - 1),
                        record_hash |-> SubSeq(rows, 1, i)]]
<1>1. N \in Nat /\ DOMAIN rows = 1 .. N
  OBVIOUS
<1>2. ASSUME NEW i \in 1 .. N
      PROVE  /\ Append(SubSeq(rows, 1, i - 1), rows[i]) = SubSeq(rows, 1, i)
             /\ i = 1 => SubSeq(rows, 1, i - 1) = FirstLink
  <2>1. /\ SubSeq(rows, 1, i - 1) \in Seq(S) /\ Len(SubSeq(rows, 1, i - 1)) = i - 1
        /\ \A j \in 1 .. i - 1 : SubSeq(rows, 1, i - 1)[j] = rows[j]
    BY <1>1, SubSeqProperties
  <2>2. /\ SubSeq(rows, 1, i) \in Seq(S) /\ Len(SubSeq(rows, 1, i)) = i
        /\ \A j \in 1 .. i : SubSeq(rows, 1, i)[j] = rows[j]
    BY <1>1, SubSeqProperties
  <2>3. rows[i] \in S
    OBVIOUS
  <2>4. Append(SubSeq(rows, 1, i - 1), rows[i]) = SubSeq(rows, 1, i)
    <3> DEFINE s == SubSeq(rows, 1, i - 1)
               t == SubSeq(rows, 1, i)
    <3>1. i - 1 \in Nat /\ i - 1 + 1 = i
      BY <1>1
    <3> HIDE DEF s, t
    <3>2. /\ Append(s, rows[i]) \in Seq(S) /\ Len(Append(s, rows[i])) = i
          /\ \A j \in 1 .. i : Append(s, rows[i])[j] = t[j]
      BY <2>1, <2>2, <2>3, <3>1 DEF s, t
    <3>3. t \in Seq(S) /\ Len(t) = i
      BY <2>2 DEF t
    <3>4. Append(s, rows[i]) = t
      BY <3>2, <3>3
    <3> QED
      BY <3>4 DEF s, t
  <2>5. i = 1 => SubSeq(rows, 1, i - 1) = FirstLink
    <3>1. SubSeq(rows, 1, 0) = << >>
      BY SubSeqEmpty
    <3>2. i = 1 => i - 1 = 0
      OBVIOUS
    <3> QED
      BY <3>1, <3>2 DEF FirstLink
  <2> QED
    BY <2>4, <2>5
<1>3. Is(chain)
  <2>1. ASSUME NEW i \in 1 .. N
        PROVE  chain[i] = Evidence(i, rows[i],
                            IF i = 1 THEN FirstLink ELSE chain[i - 1].record_hash)
    <3>1. i # 1 => chain[i - 1].record_hash = SubSeq(rows, 1, i - 1)
      BY <1>1
    <3>2. chain[i] = [id |-> i, content |-> rows[i],
                      previous_hash |-> SubSeq(rows, 1, i - 1),
                      record_hash |-> SubSeq(rows, 1, i)]
      BY <1>1
    <3> DEFINE link == IF i = 1 THEN FirstLink ELSE chain[i - 1].record_hash
    <3>3. link = SubSeq(rows, 1, i - 1)
      BY <1>2, <3>1, Zenon
    <3>4. Append(SubSeq(rows, 1, i - 1), rows[i]) = SubSeq(rows, 1, i)
      BY <1>2
    <3> HIDE DEF chain, link
    <3>5. Evidence(i, rows[i], link) =
            [id |-> i, content |-> rows[i],
             previous_hash |-> SubSeq(rows, 1, i - 1),
             record_hash |-> SubSeq(rows, 1, i)]
      BY <3>3, <3>4, Zenon DEF Evidence, make_record_hash
    <3> QED
      BY <3>2, <3>5, Zenon DEF link
  <2>2. chain = [i \in 1 .. N |-> chain[i]]
    BY <1>1
  <2> HIDE DEF chain
  <2> QED
    BY <1>1, <2>1, <2>2
<1>4. EvidenceOf(rows) = CHOOSE record : Is(record)
  BY DEF EvidenceOf
<1>5. ASSUME NEW record, Is(record) PROVE record = chain
  <2> DEFINE T == {n \in 0 .. N : \A i \in 1 .. n : record[i] = chain[i]}
  <2>1. 0 \in T
    BY <1>1
  <2>2. ASSUME NEW n \in 0 .. N - 1, n \in T PROVE n + 1 \in T
    <3>1. /\ record[n + 1] = Evidence(n + 1, rows[n + 1],
                     IF n + 1 = 1 THEN FirstLink ELSE record[n].record_hash)
          /\ chain[n + 1] = Evidence(n + 1, rows[n + 1],
                     IF n + 1 = 1 THEN FirstLink ELSE chain[n].record_hash)
      <4>1. n + 1 \in DOMAIN rows /\ (n + 1) - 1 = n
        BY <1>1
      <4> HIDE DEF chain
      <4> QED
        BY <1>3, <1>5, <4>1
    <3> HIDE DEF chain
    <3>2. n + 1 # 1 => record[n] = chain[n]
      BY <2>2
    <3>3. record[n + 1] = chain[n + 1]
      BY <3>1, <3>2
    <3> QED
      BY <2>2, <3>3
  <2>3. \A n \in 0 .. N : n \in T
    <3> HIDE DEF T
    <3> QED
      BY <1>1, <2>1, <2>2, UpTo
  <2>4. \A i \in DOMAIN rows : record[i] = chain[i]
    <3>1. N \in T
      <4> HIDE DEF T
      <4> QED
        BY <1>1, <2>3
    <3> HIDE DEF chain
    <3> QED
      BY <1>1, <3>1
  <2> QED
    BY <1>5, <2>4
<1> HIDE DEF Is
<1> QED
  BY <1>3, <1>4, <1>5

\* Records that form a chain, pre[i] being the digest of the i-th; what an edit
\* forges was in none of them.
ChainOf(records, pre, N) ==
    /\ N \in Nat /\ Len(records) = N /\ DOMAIN records = 1 .. N
    /\ records \in Seq({records[i] : i \in 1 .. N})
    /\ \A i \in 1 .. N :
         /\ records[i] = [id |-> i, content |-> records[i].content,
                          previous_hash |-> pre[i - 1], record_hash |-> pre[i]]
         /\ make_record_hash(records[i].content, pre[i - 1]) = pre[i]
         /\ make_record_hash(Forged(records[i].content), pre[i - 1]) # pre[i]
    /\ pre[0] = FirstLink
    /\ \A k \in 0 .. N : pre[k] # ForgedHash
    /\ \A j, k \in 0 .. N : pre[j] = pre[k] => j = k

LEMMA EvidenceChained ==
    ASSUME NEW rows \in Seq(Rows)
    PROVE  ChainOf(EvidenceOf(rows), [k \in 0 .. Len(rows) |-> SubSeq(rows, 1, k)],
                   Len(rows))
<1> DEFINE N == Len(rows)
           pre == [k \in 0 .. N |-> SubSeq(rows, 1, k)]
           records == EvidenceOf(rows)
<1>1. N \in Nat /\ DOMAIN rows = 1 .. N /\ \A i \in 1 .. N : rows[i] \in Rows
  OBVIOUS
<1>2. ASSUME NEW k \in 0 .. N
      PROVE  /\ pre[k] = SubSeq(rows, 1, k) /\ pre[k] \in Seq(Rows) /\ Len(pre[k]) = k
             /\ \A j \in 1 .. k : pre[k][j] = rows[j]
  BY <1>1, SubSeqProperties
<1>3. records = [i \in DOMAIN rows |->
                  [id |-> i, content |-> rows[i],
                   previous_hash |-> SubSeq(rows, 1, i - 1),
                   record_hash |-> SubSeq(rows, 1, i)]]
  BY EvidenceIs
<1> HIDE DEF pre, records
<1>4. ASSUME NEW i \in 1 .. N
      PROVE  /\ records[i] = [id |-> i, content |-> rows[i],
                              previous_hash |-> pre[i - 1], record_hash |-> pre[i]]
             /\ records[i].content = rows[i]
  <2>1. pre[i - 1] = SubSeq(rows, 1, i - 1) /\ pre[i] = SubSeq(rows, 1, i)
    <3>1. i - 1 \in 0 .. N /\ i \in 0 .. N
      BY <1>1
    <3> QED
      BY <1>2, <3>1
  <2>2. records[i] = [id |-> i, content |-> rows[i],
                      previous_hash |-> SubSeq(rows, 1, i - 1),
                      record_hash |-> SubSeq(rows, 1, i)]
    BY <1>1, <1>3
  <2> QED
    BY <2>1, <2>2
<1>5. records \in Seq({records[i] : i \in 1 .. N}) /\ Len(records) = N
  <2>1. records = [i \in 1 .. N |-> records[i]]
    BY <1>1, <1>3
  <2>2. records \in [1 .. N -> {records[i] : i \in 1 .. N}]
    BY <2>1
  <2> QED
    BY <1>1, <2>2
<1>6. pre[0] = FirstLink
  BY <1>1, <1>2 DEF FirstLink
<1>7. \A j, k \in 0 .. N : pre[j] = pre[k] => j = k
  BY <1>2
<1>8. ASSUME NEW k \in 0 .. N PROVE pre[k] # ForgedHash
  <2>1. ForgedHash[1] = [user |-> "forged"] /\ Len(ForgedHash) = 1
    BY DEF ForgedHash
  <2>2. SUFFICES ASSUME pre[k] = ForgedHash PROVE FALSE
    OBVIOUS
  <2>3. k = 1 /\ rows[1] = [user |-> "forged"] /\ rows[1] \in Rows
    BY <1>1, <1>2, <2>1, <2>2
  <2> QED
    BY <2>3, RowType
<1>9. ASSUME NEW i \in 1 .. N
      PROVE  /\ make_record_hash(rows[i], pre[i - 1]) = pre[i]
             /\ make_record_hash(Forged(rows[i]), pre[i - 1]) # pre[i]
  <2>1. /\ pre[i - 1] \in Seq(Rows) /\ Len(pre[i - 1]) = i - 1
        /\ pre[i] \in Seq(Rows) /\ Len(pre[i]) = i /\ pre[i][i] = rows[i]
        /\ \A j \in 1 .. i - 1 : pre[i][j] = pre[i - 1][j]
    BY <1>1, <1>2
  <2>2. Append(pre[i - 1], rows[i]) = pre[i]
    BY <1>1, <2>1
  <2>3. Append(pre[i - 1], Forged(rows[i]))[i] = Forged(rows[i])
    BY <2>1
  <2>4. Forged(rows[i]) # rows[i]
    BY <1>1, RowType DEF Forged
  <2> QED
    BY <2>1, <2>2, <2>3, <2>4 DEF make_record_hash
<1> QED
  BY <1>1, <1>3, <1>4, <1>5, <1>6, <1>7, <1>8, <1>9 DEF ChainOf, pre, records

\* The engine stops at the first record that does not verify.
LEMMA EngineFinds ==
    ASSUME NEW records, NEW k \in DOMAIN records, DOMAIN records \subseteq Nat,
           ~RecordVerifies(records, k),
           \A j \in DOMAIN records : j < k => RecordVerifies(records, j)
    PROVE  verify_chain(records) =
             [ok |-> FALSE, checked |-> k - 1, broken_at_id |-> records[k].id]
<1> DEFINE bad == {i \in DOMAIN records : ~RecordVerifies(records, i)}
<1>1. k \in bad /\ \A j \in bad : k <= j
  OBVIOUS
<1>2. (CHOOSE i \in bad : \A j \in bad : i <= j) = k
  <2>1. \A i \in bad : (\A j \in bad : i <= j) => i = k
    BY <1>1
  <2> HIDE DEF bad
  <2> QED
    BY <1>1, <2>1
<1> QED
  BY <1>1, <1>2 DEF verify_chain

LEMMA EngineAccepts ==
    ASSUME NEW records, \A i \in DOMAIN records : RecordVerifies(records, i)
    PROVE  verify_chain(records) =
             [ok |-> TRUE, checked |-> Len(records), broken_at_id |-> 0]
<1>1. {i \in DOMAIN records : ~RecordVerifies(records, i)} = {}
  OBVIOUS
<1> QED
  BY <1>1 DEF verify_chain

\* The packager and the PDF look at the links, and so find less than the engine.
Links(records) == \A i \in DOMAIN records : Linked(records, i)

LEMMA LinksDecide ==
    ASSUME NEW records
    PROVE  /\ generate_hash_verification(records) = Links(records)
           /\ create_evidence_package(records).verdict = Links(records)
           /\ \A ok : /\ generate_pdf_report(records, ok).verdict = Links(records)
                      /\ generate_pdf_report(records, ok).summary.chain = ok
BY DEF generate_hash_verification, create_evidence_package, generate_pdf_report,
       _section_hash_chain, _section_executive_summary, Links

\* A chain verifies, record by record.
LEMMA ChainVerifies ==
    ASSUME NEW records, NEW pre, NEW N, ChainOf(records, pre, N)
    PROVE  /\ \A i \in 1 .. N : RecordVerifies(records, i)
           /\ \A i \in 1 .. N : ExpectedPrev(records, i) = pre[i - 1]
<1>1. ASSUME NEW i \in 1 .. N PROVE ExpectedPrev(records, i) = pre[i - 1]
  <2>1. CASE i = 1
    BY <2>1 DEF ChainOf, ExpectedPrev
  <2>2. CASE i # 1
    BY <2>2 DEF ChainOf, ExpectedPrev
  <2> QED
    BY <2>1, <2>2
<1>2. ASSUME NEW i \in 1 .. N PROVE RecordVerifies(records, i)
  <2>1. /\ records[i].previous_hash = pre[i - 1] /\ records[i].record_hash = pre[i]
        /\ make_record_hash(records[i].content, pre[i - 1]) = pre[i]
    BY DEF ChainOf
  <2> QED
    BY <1>1, <2>1 DEF RecordVerifies, Linked
<1> QED
  BY <1>1, <1>2

\* edited is records with another record in the place of the i-th.
Replaces(edited, records, i, new) == edited = [records EXCEPT ![i] = new]

\* The records around the i-th, when new stands there.
Around(edited, records, i, new, pre, N) ==
    /\ DOMAIN edited = 1 .. N /\ edited[i] = new
    /\ \A j \in 1 .. N : j # i => edited[j] = records[j]
    /\ \A j \in 1 .. N : ExpectedPrev(edited, j) =
         IF j = i + 1 THEN new.record_hash ELSE pre[j - 1]
    /\ \A j \in 1 .. N : j # i /\ j # i + 1 => RecordVerifies(edited, j)
    /\ i + 1 \in 1 .. N =>
         /\ Linked(edited, i + 1) <=> new.record_hash = pre[i]
         /\ RecordVerifies(edited, i + 1) <=> new.record_hash = pre[i]

\* A chain with one record in another's place: the records before it verify as
\* they did, those after its successor too, and the successor when the digest
\* before it is the same.
LEMMA OneReplaced ==
    ASSUME NEW records, NEW pre, NEW N, ChainOf(records, pre, N), NEW i \in 1 .. N,
           NEW new, NEW edited, Replaces(edited, records, i, new)
    PROVE  Around(edited, records, i, new, pre, N)
<1>1. N \in Nat /\ DOMAIN records = 1 .. N
  BY DEF ChainOf
<1>2. /\ DOMAIN edited = 1 .. N /\ edited[i] = new
      /\ \A j \in 1 .. N : j # i => edited[j] = records[j]
  BY <1>1 DEF Replaces
<1>3. ASSUME NEW j \in 1 .. N
      PROVE  ExpectedPrev(edited, j) = IF j = i + 1 THEN new.record_hash ELSE pre[j - 1]
  <2>1. CASE j = 1
    BY <1>1, <2>1 DEF ChainOf, ExpectedPrev
  <2>2. CASE j = i + 1
    BY <1>1, <1>2, <2>2 DEF ExpectedPrev
  <2>3. CASE j # 1 /\ j # i + 1
    <3>1. j - 1 \in 1 .. N /\ j - 1 # i
      BY <1>1, <2>3
    <3>2. records[j - 1].record_hash = pre[j - 1]
      BY <3>1 DEF ChainOf
    <3> QED
      BY <1>2, <2>3, <3>1, <3>2 DEF ExpectedPrev
  <2> QED
    BY <2>1, <2>2, <2>3
<1>4. ASSUME NEW j \in 1 .. N, j # i
      PROVE  /\ edited[j].previous_hash = pre[j - 1]
             /\ edited[j].record_hash
                  = make_record_hash(edited[j].content, edited[j].previous_hash)
  <2>1. /\ records[j].previous_hash = pre[j - 1] /\ records[j].record_hash = pre[j]
        /\ make_record_hash(records[j].content, pre[j - 1]) = pre[j]
    BY DEF ChainOf
  <2> QED
    BY <1>2, <1>4, <2>1
<1>5. \A j \in 1 .. N : j # i /\ j # i + 1 => RecordVerifies(edited, j)
  BY <1>3, <1>4 DEF RecordVerifies, Linked
<1>6. i + 1 \in 1 .. N =>
        /\ Linked(edited, i + 1) <=> new.record_hash = pre[i]
        /\ RecordVerifies(edited, i + 1) <=> new.record_hash = pre[i]
  <2> SUFFICES ASSUME i + 1 \in 1 .. N
               PROVE  /\ Linked(edited, i + 1) <=> new.record_hash = pre[i]
                      /\ RecordVerifies(edited, i + 1) <=> new.record_hash = pre[i]
    OBVIOUS
  <2>1. i + 1 # i /\ (i + 1) - 1 = i
    BY <1>1
  <2>2. ExpectedPrev(edited, i + 1) = new.record_hash
    BY <1>3
  <2>3. edited[i + 1].previous_hash = pre[i]
    BY <1>4, <2>1
  <2> QED
    BY <1>4, <2>1, <2>2, <2>3 DEF RecordVerifies, Linked
<1> QED
  BY <1>2, <1>3, <1>5, <1>6 DEF Around

\* What the engine and the two documents find of an edited chain.
Found(edited, i, edit, N) ==
    LET engine == verify_chain(edited)
        unseen == edit \in {"resealed", "removed"} /\ i = N
    IN  /\ engine.ok \in BOOLEAN
        /\ engine.ok <=> unseen
        /\ ~unseen =>
             /\ engine.checked = IF edit = "resealed" THEN i ELSE i - 1
             /\ engine.broken_at_id =
                  IF edit \in {"resealed", "removed"} THEN i + 1 ELSE i
        /\ Links(edited) <=> \/ unseen
                             \/ edit = "content"
                             \/ edit = "record_hash" /\ i = N

\* A record with its id, link and digest.
IsRecord(r, id, link, hash) ==
    r = [id |-> id, content |-> r.content, previous_hash |-> link, record_hash |-> hash]

\* A record that is replaced by one that does not verify, and has its id.
LEMMA ReplacedBroken ==
    ASSUME NEW records, NEW pre, NEW N, ChainOf(records, pre, N), NEW i \in 1 .. N,
           NEW new, NEW edited, Replaces(edited, records, i, new),
           new.id = i, ~RecordVerifies(edited, i)
    PROVE  verify_chain(edited) = [ok |-> FALSE, checked |-> i - 1, broken_at_id |-> i]
<1>1. DOMAIN edited = 1 .. N /\ edited[i] = new /\ N \in Nat
      /\ \A j \in 1 .. N : j # i /\ j # i + 1 => RecordVerifies(edited, j)
  <2>1. N \in Nat
    BY DEF ChainOf
  <2>2. /\ DOMAIN edited = 1 .. N /\ edited[i] = new
        /\ \A j \in 1 .. N : j # i /\ j # i + 1 => RecordVerifies(edited, j)
    <3> HIDE DEF Replaces
    <3>1. Around(edited, records, i, new, pre, N)
      BY OneReplaced
    <3> QED
      BY <3>1, Zenon DEF Around
  <2> QED
    BY <2>1, <2>2
<1>3. \A j \in DOMAIN edited : j < i => RecordVerifies(edited, j)
  BY <1>1
<1>4. verify_chain(edited) = [ok |-> FALSE, checked |-> i - 1, broken_at_id |-> edited[i].id]
  <2>1. i \in DOMAIN edited /\ DOMAIN edited \subseteq Nat
    BY <1>1
  <2> QED
    BY <1>3, <2>1, EngineFinds
<1> QED
  BY <1>1, <1>4

LEMMA ContentFound ==
    ASSUME NEW records, NEW pre, NEW N, ChainOf(records, pre, N), NEW i \in 1 .. N
    PROVE  Found(Edited(records, i, "content"), i, "content", N)
<1> DEFINE new == [id |-> i, content |-> Forged(records[i].content),
                   previous_hash |-> pre[i - 1], record_hash |-> pre[i]]
           edited == [records EXCEPT ![i] = new]
<1>0. Replaces(edited, records, i, new)
  BY DEF Replaces
<1>1. Edited(records, i, "content") = edited
  <2>1. [records[i] EXCEPT !.content = Forged(records[i].content)] = new
    <3>1. IsRecord(records[i], i, pre[i - 1], pre[i])
      BY DEF ChainOf, IsRecord
    <3> QED
      BY <3>1 DEF IsRecord
  <2>2. Edited(records, i, "content") = [records EXCEPT ![i].content = Forged(records[i].content)]
    BY DEF Edited
  <2> HIDE DEF new
  <2> QED
    BY <2>1, <2>2
<1> HIDE DEF edited
<1>2. /\ DOMAIN edited = 1 .. N /\ edited[i] = new
      /\ \A j \in 1 .. N : ExpectedPrev(edited, j) =
           IF j = i + 1 THEN new.record_hash ELSE pre[j - 1]
      /\ \A j \in 1 .. N : j # i /\ j # i + 1 => RecordVerifies(edited, j)
      /\ i + 1 \in 1 .. N => Linked(edited, i + 1)
  <2>1. new.record_hash = pre[i]
    OBVIOUS
  <2> HIDE DEF new
  <2> QED
    BY <1>0, <2>1, OneReplaced DEF Around
<1>3. make_record_hash(Forged(records[i].content), pre[i - 1]) # pre[i] /\ N \in Nat
  BY DEF ChainOf
<1>4. ~RecordVerifies(edited, i) /\ Linked(edited, i)
  BY <1>2, <1>3 DEF RecordVerifies, Linked
<1>5. verify_chain(edited) = [ok |-> FALSE, checked |-> i - 1, broken_at_id |-> i]
  <2>1. new.id = i
    OBVIOUS
  <2> HIDE DEF new
  <2> QED
    BY <1>0, <1>4, <2>1, ReplacedBroken
<1>6. Links(edited)
  BY <1>2, <1>4 DEF Links, RecordVerifies
<1> QED
  <2>1. Found(edited, i, "content", N)
    BY <1>5, <1>6 DEF Found
  <2> QED
    BY <1>1, <2>1

LEMMA LinkFound ==
    ASSUME NEW records, NEW pre, NEW N, ChainOf(records, pre, N), NEW i \in 1 .. N
    PROVE  Found(Edited(records, i, "previous_hash"), i, "previous_hash", N)
<1> DEFINE new == [id |-> i, content |-> records[i].content,
                   previous_hash |-> ForgedHash, record_hash |-> pre[i]]
           edited == [records EXCEPT ![i] = new]
<1>0. Replaces(edited, records, i, new)
  BY DEF Replaces
<1>1. Edited(records, i, "previous_hash") = edited
  <2>1. [records[i] EXCEPT !.previous_hash = ForgedHash] = new
    <3>1. IsRecord(records[i], i, pre[i - 1], pre[i])
      BY DEF ChainOf, IsRecord
    <3> QED
      BY <3>1 DEF IsRecord
  <2>2. Edited(records, i, "previous_hash") = [records EXCEPT ![i].previous_hash = ForgedHash]
    BY DEF Edited
  <2> HIDE DEF new
  <2> QED
    BY <2>1, <2>2
<1> HIDE DEF edited
<1>2. /\ DOMAIN edited = 1 .. N /\ edited[i] = new
      /\ \A j \in 1 .. N : ExpectedPrev(edited, j) =
           IF j = i + 1 THEN new.record_hash ELSE pre[j - 1]
  <2> HIDE DEF new
  <2> QED
    BY <1>0, OneReplaced DEF Around
<1>3. pre[i - 1] # ForgedHash /\ N \in Nat
  BY DEF ChainOf
<1>4. ~Linked(edited, i)
  BY <1>2, <1>3 DEF Linked
<1>5. verify_chain(edited) = [ok |-> FALSE, checked |-> i - 1, broken_at_id |-> i]
  <2>1. new.id = i /\ ~RecordVerifies(edited, i)
    BY <1>4 DEF RecordVerifies
  <2> HIDE DEF new
  <2> QED
    BY <1>0, <2>1, ReplacedBroken
<1>6. ~Links(edited)
  BY <1>2, <1>4 DEF Links
<1> QED
  <2>1. Found(edited, i, "previous_hash", N)
    BY <1>5, <1>6 DEF Found
  <2> QED
    BY <1>1, <2>1

LEMMA HashFound ==
    ASSUME NEW records, NEW pre, NEW N, ChainOf(records, pre, N), NEW i \in 1 .. N
    PROVE  Found(Edited(records, i, "record_hash"), i, "record_hash", N)
<1> DEFINE new == [id |-> i, content |-> records[i].content,
                   previous_hash |-> pre[i - 1], record_hash |-> ForgedHash]
           edited == [records EXCEPT ![i] = new]
<1>0. Replaces(edited, records, i, new)
  BY DEF Replaces
<1>1. Edited(records, i, "record_hash") = edited
  <2>1. [records[i] EXCEPT !.record_hash = ForgedHash] = new
    <3>1. IsRecord(records[i], i, pre[i - 1], pre[i])
      BY DEF ChainOf, IsRecord
    <3> QED
      BY <3>1 DEF IsRecord
  <2>2. Edited(records, i, "record_hash") = [records EXCEPT ![i].record_hash = ForgedHash]
    BY DEF Edited
  <2> HIDE DEF new
  <2> QED
    BY <2>1, <2>2
<1> HIDE DEF edited
<1>2. /\ DOMAIN edited = 1 .. N /\ edited[i] = new
      /\ \A j \in 1 .. N : ExpectedPrev(edited, j) =
           IF j = i + 1 THEN new.record_hash ELSE pre[j - 1]
      /\ \A j \in 1 .. N : j # i /\ j # i + 1 => RecordVerifies(edited, j)
      /\ i + 1 \in 1 .. N => (Linked(edited, i + 1) <=> new.record_hash = pre[i])
  <2> HIDE DEF new
  <2> QED
    BY <1>0, OneReplaced DEF Around
<1>3. make_record_hash(records[i].content, pre[i - 1]) = pre[i]
      /\ pre[i] # ForgedHash /\ N \in Nat
  BY DEF ChainOf
<1>4. ~RecordVerifies(edited, i) /\ Linked(edited, i)
  BY <1>2, <1>3 DEF RecordVerifies, Linked
<1>5. verify_chain(edited) = [ok |-> FALSE, checked |-> i - 1, broken_at_id |-> i]
  <2>1. new.id = i
    OBVIOUS
  <2> HIDE DEF new
  <2> QED
    BY <1>0, <1>4, <2>1, ReplacedBroken
<1>6. Links(edited) <=> i = N
  <2>1. CASE i = N
    BY <1>2, <1>3, <1>4, <2>1 DEF Links, RecordVerifies
  <2>2. CASE i # N
    <3>1. i + 1 \in 1 .. N
      BY <1>3, <2>2
    <3> QED
      BY <1>2, <1>3, <2>2, <3>1 DEF Links
  <2> QED
    BY <2>1, <2>2
<1> QED
  <2>1. Found(edited, i, "record_hash", N)
    BY <1>5, <1>6 DEF Found
  <2> QED
    BY <1>1, <2>1

LEMMA ResealedFound ==
    ASSUME NEW records, NEW pre, NEW N, ChainOf(records, pre, N), NEW i \in 1 .. N
    PROVE  Found(Edited(records, i, "resealed"), i, "resealed", N)
<1> DEFINE forged == Forged(records[i].content)
           new == [id |-> i, content |-> forged, previous_hash |-> pre[i - 1],
                   record_hash |-> make_record_hash(forged, pre[i - 1])]
           edited == [records EXCEPT ![i] = new]
<1>0. Replaces(edited, records, i, new)
  BY DEF Replaces
<1>1. Edited(records, i, "resealed") = edited
  <2>1. IsRecord(records[i], i, pre[i - 1], pre[i])
    BY DEF ChainOf, IsRecord
  <2>2. [records[i] EXCEPT !.content = forged,
           !.record_hash = make_record_hash(forged, records[i].previous_hash)] = new
    <3> DEFINE half == [records[i] EXCEPT !.content = forged]
    <3>1. records[i].previous_hash = pre[i - 1]
      BY <2>1 DEF IsRecord
    <3> HIDE DEF forged
    <3>2. half = [id |-> i, content |-> forged, previous_hash |-> pre[i - 1],
                  record_hash |-> pre[i]]
      BY <2>1 DEF IsRecord
    <3>3. ASSUME NEW hash
          PROVE  [records[i] EXCEPT !.content = forged, !.record_hash = hash]
                   = [half EXCEPT !.record_hash = hash]
      OBVIOUS
    <3> HIDE DEF half
    <3>4. ASSUME NEW hash
          PROVE  [half EXCEPT !.record_hash = hash] =
                   [id |-> i, content |-> forged, previous_hash |-> pre[i - 1],
                    record_hash |-> hash]
      BY <3>2
    <3> QED
      BY <3>1, <3>3, <3>4
  <2>3. Edited(records, i, "resealed") =
          [records EXCEPT ![i].content = forged,
             ![i].record_hash = make_record_hash(forged, records[i].previous_hash)]
    BY DEF Edited
  <2> HIDE DEF new, forged
  <2> QED
    BY <2>2, <2>3
<1> HIDE DEF edited
<1>2. /\ DOMAIN edited = 1 .. N /\ edited[i] = new
      /\ \A j \in 1 .. N : j # i => edited[j] = records[j]
      /\ \A j \in 1 .. N : ExpectedPrev(edited, j) =
           IF j = i + 1 THEN new.record_hash ELSE pre[j - 1]
      /\ \A j \in 1 .. N : j # i /\ j # i + 1 => RecordVerifies(edited, j)
      /\ i + 1 \in 1 .. N => /\ Linked(edited, i + 1) <=> new.record_hash = pre[i]
                             /\ RecordVerifies(edited, i + 1) <=> new.record_hash = pre[i]
  <2> HIDE DEF new
  <2> QED
    BY <1>0, OneReplaced DEF Around
<1>3. new.record_hash # pre[i] /\ N \in Nat
  BY DEF ChainOf
<1>4. RecordVerifies(edited, i)
  BY <1>2 DEF RecordVerifies, Linked
<1>5. CASE i = N
  <2>1. \A j \in DOMAIN edited : RecordVerifies(edited, j)
    BY <1>2, <1>3, <1>4, <1>5
  <2>2. verify_chain(edited).ok = TRUE
    BY <2>1, EngineAccepts
  <2>3. Links(edited)
    BY <2>1 DEF Links, RecordVerifies
  <2> QED
    BY <1>1, <1>5, <2>2, <2>3 DEF Found
<1>6. CASE i # N
  <2>1. i + 1 \in 1 .. N /\ i + 1 # i /\ i + 1 - 1 = i
    BY <1>3, <1>6
  <2>2. ~RecordVerifies(edited, i + 1) /\ ~Linked(edited, i + 1)
    BY <1>2, <1>3, <2>1
  <2>3. \A j \in DOMAIN edited : j < i + 1 => RecordVerifies(edited, j)
    BY <1>2, <1>3, <1>4
  <2>4. edited[i + 1].id = i + 1
    BY <1>2, <2>1 DEF ChainOf
  <2>5. verify_chain(edited) = [ok |-> FALSE, checked |-> i, broken_at_id |-> i + 1]
    <3>1. i + 1 \in DOMAIN edited /\ DOMAIN edited \subseteq Nat
      BY <1>2, <2>1
    <3>2. verify_chain(edited) = [ok |-> FALSE, checked |-> i + 1 - 1,
                                  broken_at_id |-> edited[i + 1].id]
      BY <2>2, <2>3, <3>1, EngineFinds
    <3> QED
      BY <2>1, <2>4, <3>2
  <2>6. ~Links(edited)
    BY <1>2, <2>1, <2>2 DEF Links
  <2>7. Found(edited, i, "resealed", N)
    BY <1>6, <2>5, <2>6 DEF Found
  <2> QED
    BY <1>1, <2>7
<1> QED
  BY <1>5, <1>6

LEMMA RemovedFound ==
    ASSUME NEW records, NEW pre, NEW N, ChainOf(records, pre, N), NEW i \in 1 .. N
    PROVE  Found(Edited(records, i, "removed"), i, "removed", N)
<1> DEFINE S == {records[j] : j \in 1 .. N}
           before == SubSeq(records, 1, i - 1)
           after == SubSeq(records, i + 1, N)
           edited == before \o after
<1>1. N \in Nat /\ Len(records) = N /\ DOMAIN records = 1 .. N /\ records \in Seq(S)
  BY DEF ChainOf
<1>2. Edited(records, i, "removed") = edited
  BY <1>1 DEF Edited, RemoveAt
<1>3. /\ before \in Seq(S) /\ Len(before) = i - 1
      /\ \A j \in 1 .. i - 1 : before[j] = records[j]
  BY <1>1, SubSeqProperties
<1>4. /\ after \in Seq(S) /\ Len(after) = N - i
      /\ \A j \in 1 .. N - i : after[j] = records[j + i]
  <2>1. /\ after \in Seq(S) /\ Len(after) = IF i + 1 <= N THEN N - (i + 1) + 1 ELSE 0
        /\ \A j \in 1 .. N - (i + 1) + 1 : after[j] = records[i + 1 + j - 1]
    <3>1. i + 1 \in Int /\ N \in Int /\ \A j \in i + 1 .. N : records[j] \in S
      BY <1>1
    <3> QED
      BY <3>1, SubSeqProperties
  <2>2. N - (i + 1) + 1 = N - i /\ (~(i + 1 <= N) => N - i = 0)
    BY <1>1
  <2>3. \A j \in 1 .. N - i : i + 1 + j - 1 = j + i
    BY <1>1
  <2> HIDE DEF after
  <2> QED
    BY <2>1, <2>2, <2>3
<1> HIDE DEF before, after
<1>5. /\ edited \in Seq(S) /\ DOMAIN edited = 1 .. Len(before) + Len(after)
      /\ \A j \in 1 .. Len(before) : edited[j] = before[j]
      /\ \A j \in 1 .. Len(after) : edited[Len(before) + j] = after[j]
  <2>1. before \in Seq(S) /\ after \in Seq(S)
    BY <1>3, <1>4
  <2> QED
    BY <2>1, Joined
<1> HIDE DEF edited
<1>6. DOMAIN edited = 1 .. N - 1
  BY <1>1, <1>3, <1>4, <1>5
<1>7. \A j \in 1 .. i - 1 : edited[j] = records[j]
  BY <1>3, <1>5
<1>8. i + 1 \in 1 .. N => edited[i] = records[i + 1]
  <2> SUFFICES ASSUME i + 1 \in 1 .. N PROVE edited[i] = records[i + 1]
    OBVIOUS
  <2>1. 1 \in 1 .. N - i /\ 1 + i = i + 1 /\ (i - 1) + 1 = i
    BY <1>1
  <2>2. after[1] = records[i + 1]
    BY <1>4, <2>1
  <2>3. edited[i] = after[1]
    BY <1>3, <1>4, <1>5, <2>1
  <2> QED
    BY <2>2, <2>3
<1>9. \A j \in 1 .. N : RecordVerifies(records, j) /\ ExpectedPrev(records, j) = pre[j - 1]
  BY ChainVerifies
<1>10. ASSUME NEW j \in 1 .. i - 1 PROVE RecordVerifies(edited, j)
  <2>1. edited[j] = records[j] /\ ExpectedPrev(edited, j) = ExpectedPrev(records, j)
    BY <1>7 DEF ExpectedPrev
  <2> QED
    BY <1>1, <1>9, <2>1 DEF RecordVerifies, Linked
<1>11. CASE i = N
  <2>1. \A j \in DOMAIN edited : RecordVerifies(edited, j)
    BY <1>6, <1>10, <1>11
  <2>2. verify_chain(edited).ok = TRUE
    BY <2>1, EngineAccepts
  <2>3. Links(edited)
    BY <2>1 DEF Links, RecordVerifies
  <2> QED
    BY <1>2, <1>11, <2>2, <2>3 DEF Found
<1>12. CASE i # N
  <2>1. i + 1 \in 1 .. N /\ i \in DOMAIN edited /\ i + 1 - 1 = i
    BY <1>1, <1>6, <1>12
  <2>2. edited[i] = records[i + 1]
    BY <1>8, <2>1
  <2>3. edited[i].id = i + 1 /\ edited[i].previous_hash = pre[i]
    BY <2>1, <2>2 DEF ChainOf
  <2>4. ExpectedPrev(edited, i) = pre[i - 1]
    <3>1. ExpectedPrev(edited, i) = ExpectedPrev(records, i)
      BY <1>7 DEF ExpectedPrev
    <3> QED
      BY <1>9, <3>1
  <2>5. ~Linked(edited, i)
    <3>1. pre[i - 1] # pre[i]
      BY DEF ChainOf
    <3> QED
      BY <2>3, <2>4, <3>1 DEF Linked
  <2>6. verify_chain(edited) = [ok |-> FALSE, checked |-> i - 1, broken_at_id |-> i + 1]
    <3>1. \A j \in DOMAIN edited : j < i => RecordVerifies(edited, j)
      BY <1>1, <1>6, <1>10
    <3>2. ~RecordVerifies(edited, i) /\ DOMAIN edited \subseteq Nat
      BY <1>1, <1>6, <2>5 DEF RecordVerifies
    <3>3. verify_chain(edited) = [ok |-> FALSE, checked |-> i - 1,
                                  broken_at_id |-> edited[i].id]
      BY <2>1, <3>1, <3>2, EngineFinds
    <3> QED
      BY <2>3, <3>3
  <2>7. ~Links(edited)
    BY <2>1, <2>5 DEF Links
  <2>8. Found(edited, i, "removed", N)
    BY <1>12, <2>6, <2>7 DEF Found
  <2> QED
    BY <1>2, <2>8
<1> QED
  BY <1>11, <1>12

\* All edits of any evidence.
LEMMA EvidenceEdits == logs \in Seq(Rows) => EditsFound
<1> SUFFICES ASSUME logs \in Seq(Rows) PROVE EditsFound
  OBVIOUS
<1> DEFINE records == EvidenceOf(logs)
           N == Len(logs)
           pre == [k \in 0 .. N |-> SubSeq(logs, 1, k)]
<1>1. ChainOf(records, pre, N)
  BY EvidenceChained
<1> HIDE DEF records, pre
<1>2. Len(records) = N /\ DOMAIN records = 1 .. N
  BY <1>1 DEF ChainOf
<1>3. \A i \in DOMAIN records : RecordVerifies(records, i)
  BY <1>1, <1>2, ChainVerifies
<1>4. verify_chain(records).ok
  BY <1>3, EngineAccepts
<1>5. generate_hash_verification(records)
  BY <1>3, LinksDecide DEF Links, RecordVerifies
<1>6. ASSUME NEW i \in DOMAIN records, NEW edit \in Edits
      PROVE  Found(Edited(records, i, edit), i, edit, N)
  BY <1>1, <1>2, ContentFound, LinkFound, HashFound, ResealedFound, RemovedFound DEF Edits
<1>7. ASSUME NEW i \in DOMAIN records, NEW edit \in Edits
      PROVE  LET edited  == Edited(records, i, edit)
                 engine  == verify_chain(edited)
                 pdf     == generate_pdf_report(edited, engine.ok)
                 package == create_evidence_package(edited).verdict
                 unseen  == edit \in {"resealed", "removed"} /\ i = N
             IN  /\ engine.ok <=> unseen
                 /\ ~unseen =>
                      /\ engine.checked = IF edit = "resealed" THEN i ELSE i - 1
                      /\ engine.broken_at_id =
                           IF edit \in {"resealed", "removed"} THEN i + 1 ELSE i
                 /\ package = pdf.verdict
                 /\ pdf.summary.chain => pdf.verdict
                 /\ package <=> \/ unseen
                                \/ edit = "content"
                                \/ edit = "record_hash" /\ i = N
  <2> DEFINE edited == Edited(records, i, edit)
             ok == verify_chain(edited).ok
  <2>1. Found(edited, i, edit, N)
    BY <1>6
  <2>2. /\ create_evidence_package(edited).verdict = Links(edited)
        /\ generate_pdf_report(edited, ok).verdict = Links(edited)
        /\ generate_pdf_report(edited, ok).summary.chain = ok
    BY LinksDecide
  <2> HIDE DEF edited
  <2> QED
    BY <2>1, <2>2 DEF Found, edited
<1> QED
  BY <1>2, <1>4, <1>5, <1>7 DEF EditsFound, records

\* The engine finds every edit of a record of legacy evidence but the last
\* record resealed or removed; the package and the PDF give one verdict and
\* miss more.
THEOREM EditsAreFound == Spec => []EditsFound
<1>1. TypeInv => EditsFound
  BY EvidenceEdits DEF TypeInv
<1> QED
  BY <1>1, TypeCorrect, PTL

\* What the engine accepts verifies record by record, and its digests are the
\* contents up to them.
LEMMA EngineAcceptsOnly ==
    ASSUME NEW records, DOMAIN records \subseteq Nat, verify_chain(records).ok
    PROVE  \A i \in DOMAIN records : RecordVerifies(records, i)
<1> DEFINE bad == {i \in DOMAIN records : ~RecordVerifies(records, i)}
<1>1. bad = {}
  BY DEF verify_chain
<1> QED
  BY <1>1

LEMMA DigestIs ==
    ASSUME NEW S, NEW records \in Seq(S), verify_chain(records).ok
    PROVE  \A i \in DOMAIN records :
             records[i].record_hash = [j \in 1 .. i |-> records[j].content]
<1> DEFINE N == Len(records)
           C == {records[j].content : j \in 1 .. N}
           digest == [i \in 0 .. N |-> [j \in 1 .. i |-> records[j].content]]
           T == {0} \cup {i \in 1 .. N : records[i].record_hash = digest[i]}
<1>1. N \in Nat /\ DOMAIN records = 1 .. N
  OBVIOUS
<1>2. \A i \in 1 .. N : RecordVerifies(records, i)
  BY <1>1, EngineAcceptsOnly
<1>3. ASSUME NEW n \in 0 .. N - 1, n \in T PROVE n + 1 \in T
  <2>1. n + 1 \in 1 .. N /\ n \in 0 .. N /\ n + 1 \in 0 .. N
    BY <1>1
  <2>2. ExpectedPrev(records, n + 1) = digest[n]
    <3>1. CASE n = 0
      BY <2>1, <3>1 DEF ExpectedPrev, FirstLink
    <3>2. CASE n # 0
      BY <1>1, <1>3, <2>1, <3>2 DEF ExpectedPrev
    <3> QED
      BY <3>1, <3>2
  <2>3. records[n + 1].record_hash = Append(digest[n], records[n + 1].content)
    BY <1>2, <2>1, <2>2 DEF RecordVerifies, Linked, make_record_hash
  <2>4. digest[n] = [j \in 1 .. n |-> records[j].content]
        /\ digest[n + 1] = [j \in 1 .. n + 1 |-> records[j].content]
    BY <2>1
  <2>5. Append([j \in 1 .. n |-> records[j].content], records[n + 1].content)
          = [j \in 1 .. n + 1 |-> records[j].content]
    <3> DEFINE before == [j \in 1 .. n |-> records[j].content]
               upto == [j \in 1 .. n + 1 |-> records[j].content]
    <3>1. before \in Seq(C) /\ Len(before) = n /\ records[n + 1].content \in C
      BY <2>1, <1>1
    <3>2. upto \in Seq(C) /\ Len(upto) = n + 1
      BY <2>1, <1>1
    <3>3. \A j \in 1 .. n + 1 :
            upto[j] = IF j <= n THEN before[j] ELSE records[n + 1].content
      BY <2>1
    <3> HIDE DEF before, upto, C
    <3>4. Append(before, records[n + 1].content) \in Seq(C)
      BY <3>1
    <3>5. \A j \in 1 .. n + 1 : Append(before, records[n + 1].content)[j] = upto[j]
      BY <3>1, <3>3
    <3>6. Len(Append(before, records[n + 1].content)) = n + 1
      BY <3>1
    <3>7. Append(before, records[n + 1].content) = upto
      BY <2>1, <3>2, <3>4, <3>5, <3>6
    <3> QED
      BY <3>7 DEF before, upto
  <2> QED
    BY <2>1, <2>3, <2>4, <2>5
<1>4. 0 \in T
  OBVIOUS
<1> HIDE DEF T
<1>5. \A n \in 0 .. N : n \in T
  BY <1>1, <1>3, <1>4, UpTo
<1> QED
  BY <1>1, <1>5 DEF T

\* What the last digest of legacy evidence is worth: two lists of records that
\* the engine accepts and that end in the same digest have as many records, with
\* the same contents.
THEOREM LastDigestCommits ==
    ASSUME NEW S, NEW a \in Seq(S) \ {<< >>}, NEW b \in Seq(S) \ {<< >>},
           verify_chain(a).ok, verify_chain(b).ok,
           a[Len(a)].record_hash = b[Len(b)].record_hash
    PROVE  Contents(a) = Contents(b)
<1>1. /\ Len(a) \in Nat /\ Len(a) \in DOMAIN a /\ DOMAIN a = 1 .. Len(a)
      /\ Len(b) \in Nat /\ Len(b) \in DOMAIN b /\ DOMAIN b = 1 .. Len(b)
  OBVIOUS
<1>2. /\ a[Len(a)].record_hash = [j \in 1 .. Len(a) |-> a[j].content]
      /\ b[Len(b)].record_hash = [j \in 1 .. Len(b) |-> b[j].content]
  BY <1>1, DigestIs
<1> QED
  BY <1>1, <1>2 DEF Contents

-----------------------------------------------------------------------------
(* The two detectors                                                       *)

\* Whom each of them names for denials, with which count.
LEMMA DeniersAre ==
    /\ Deniers(forensics_anomalies) =
         {<<u, by_user_denies(u)>> :
            u \in {v \in UsersOf(logs) : by_user_denies(v) >= ANOMALY_DENY_THRESHOLD}}
    /\ Deniers(detect_anomalies(logs)) =
         {<<u, Denials(logs, u)>> : u \in {v \in UsersOf(logs) : Denials(logs, v) >= 3}}
<1>1. ASSUME NEW d
      PROVE  d \in Deniers(forensics_anomalies) <=>
               \E u \in UsersOf(logs) : /\ by_user_denies(u) >= ANOMALY_DENY_THRESHOLD
                                        /\ d = <<u, by_user_denies(u)>>
  <2>1. ASSUME NEW u \in UsersOf(logs), by_user_denies(u) >= ANOMALY_DENY_THRESHOLD,
               d = <<u, by_user_denies(u)>>
        PROVE  d \in Deniers(forensics_anomalies)
    <3> DEFINE a == [type |-> "repeated_denials", subject |-> u,
                     count |-> by_user_denies(u)]
    <3>1. a \in forensics_anomalies
      BY <2>1 DEF forensics_anomalies
    <3>2. d = <<a.subject, a.count>> /\ a.type = "repeated_denials"
      BY <2>1
    <3> HIDE DEF a
    <3> QED
      BY <3>1, <3>2 DEF Deniers
  <2>2. ASSUME d \in Deniers(forensics_anomalies)
        PROVE  \E u \in UsersOf(logs) : /\ by_user_denies(u) >= ANOMALY_DENY_THRESHOLD
                                        /\ d = <<u, by_user_denies(u)>>
    <3>1. PICK a \in forensics_anomalies :
             a.type = "repeated_denials" /\ d = <<a.subject, a.count>>
      BY <2>2 DEF Deniers
    <3>2. \/ \E u \in UsersOf(logs) :
               /\ by_user_denies(u) >= ANOMALY_DENY_THRESHOLD
               /\ a = [type |-> "repeated_denials", subject |-> u,
                       count |-> by_user_denies(u)]
          \/ \E ip : a = [type |-> "high_activity_ip", subject |-> ip,
                          count |-> by_ip_count(ip)]
      BY <3>1 DEF forensics_anomalies
    <3> QED
      BY <3>1, <3>2
  <2> QED
    BY <2>1, <2>2
<1>2. ASSUME NEW d
      PROVE  d \in Deniers(detect_anomalies(logs)) <=>
               \E u \in UsersOf(logs) : /\ Denials(logs, u) >= 3
                                        /\ d = <<u, Denials(logs, u)>>
  <2>1. ASSUME NEW u \in UsersOf(logs), Denials(logs, u) >= 3, d = <<u, Denials(logs, u)>>
        PROVE  d \in Deniers(detect_anomalies(logs))
    <3> DEFINE a == [type |-> "repeated_denials", subject |-> u,
                     count |-> Denials(logs, u)]
    <3>1. a \in detect_anomalies(logs)
      BY <2>1 DEF detect_anomalies
    <3>2. d = <<a.subject, a.count>> /\ a.type = "repeated_denials"
      BY <2>1
    <3> HIDE DEF a
    <3> QED
      BY <3>1, <3>2 DEF Deniers
  <2>2. ASSUME d \in Deniers(detect_anomalies(logs))
        PROVE  \E u \in UsersOf(logs) : /\ Denials(logs, u) >= 3
                                        /\ d = <<u, Denials(logs, u)>>
    <3>1. PICK a \in detect_anomalies(logs) :
             a.type = "repeated_denials" /\ d = <<a.subject, a.count>>
      BY <2>2 DEF Deniers
    <3>2. \/ \E u \in UsersOf(logs) :
               /\ Denials(logs, u) >= 3
               /\ a = [type |-> "repeated_denials", subject |-> u,
                       count |-> Denials(logs, u)]
          \/ a.type # "repeated_denials"
      BY <3>1 DEF detect_anomalies
    <3> QED
      BY <3>1, <3>2
  <2> QED
    BY <2>1, <2>2
<1> QED
  BY <1>1, <1>2

\* The gateway's counts are of its window, and no higher than the legacy ones.
Windowed ==
    /\ \A user : /\ by_user_denies(user)
                      = HowMany(Newest(logs, AnomalyLimit), DeniedTo(user))
                 /\ by_user_denies(user) \in Nat /\ Denials(logs, user) \in Nat
                 /\ by_user_denies(user) <= Denials(logs, user)
                 /\ Len(logs) <= AnomalyLimit =>
                      by_user_denies(user) = Denials(logs, user)
    /\ \A ip : /\ by_ip_count(ip) = HowMany(Newest(logs, AnomalyLimit), SeenFrom(ip))
               /\ Len(logs) <= AnomalyLimit =>
                    by_ip_count(ip) = HowMany(logs, SeenFrom(ip))

LEMMA WindowCounts == logs \in Seq(Rows) => Windowed
<1> SUFFICES ASSUME logs \in Seq(Rows) PROVE Windowed
  OBVIOUS
<1> DEFINE window == Newest(logs, AnomalyLimit)
<1>1. window \in Seq(Rows) /\ AnomalyLimit \in Nat
  BY NewestRows, ReportsAssumption
<1>2. ASSUME NEW user
      PROVE  /\ by_user_denies(user) = HowMany(window, DeniedTo(user))
             /\ by_user_denies(user) \in Nat /\ Denials(logs, user) \in Nat
             /\ by_user_denies(user) <= Denials(logs, user)
             /\ Len(logs) <= AnomalyLimit => by_user_denies(user) = Denials(logs, user)
  <2>1. by_user_denies(user) = HowMany(window, DeniedTo(user))
    <3>1. by_user_denies(user) = Denials(window, user)
      BY DEF by_user_denies, AnomalyWindow
    <3> HIDE DEF window
    <3> QED
      BY <1>1, <3>1, Counts_are
  <2>2. Denials(logs, user) = HowMany(logs, DeniedTo(user))
    BY Counts_are
  <2>3. HowMany(window, DeniedTo(user)) \in Nat /\ HowMany(logs, DeniedTo(user)) \in Nat
    <3> HIDE DEF window
    <3> QED
      BY <1>1, HowManyType
  <2>4. HowMany(window, DeniedTo(user)) <= HowMany(logs, DeniedTo(user))
    BY <1>1, NewestBound
  <2>5. Len(logs) <= AnomalyLimit =>
          HowMany(window, DeniedTo(user)) = HowMany(logs, DeniedTo(user))
    BY <1>1, NewestAll
  <2> HIDE DEF window
  <2> QED
    BY <2>1, <2>2, <2>3, <2>4, <2>5
<1>3. ASSUME NEW ip
      PROVE  /\ by_ip_count(ip) = HowMany(window, SeenFrom(ip))
             /\ Len(logs) <= AnomalyLimit => by_ip_count(ip) = HowMany(logs, SeenFrom(ip))
  <2>1. {i \in DOMAIN window : window[i].ip = ip} = At(window, SeenFrom(ip))
    <3> HIDE DEF window
    <3> QED
      BY <1>1 DEF At, SeenFrom
  <2>2. by_ip_count(ip) = HowMany(window, SeenFrom(ip))
    BY <2>1 DEF by_ip_count, AnomalyWindow, Count, HowMany
  <2>3. Len(logs) <= AnomalyLimit =>
          HowMany(window, SeenFrom(ip)) = HowMany(logs, SeenFrom(ip))
    BY <1>1, NewestAll
  <2> QED
    BY <2>2, <2>3
<1> QED
  BY <1>2, <1>3 DEF Windowed

LEMMA DetectorsFit == logs \in Seq(Rows) => DetectorsAgree
<1> SUFFICES ASSUME logs \in Seq(Rows) PROVE DetectorsAgree
  OBVIOUS
<1> DEFINE new == Deniers(forensics_anomalies)
           old == Deniers(detect_anomalies(logs))
           latest == Newest(logs, ANOMALY_DENY_THRESHOLD)
           T == ANOMALY_DENY_THRESHOLD
<1>1. Windowed /\ T \in Nat \ {0} /\ AnomalyLimit \in Nat
  BY WindowCounts, ReportsAssumption
<1>2. \A d : d \in new <=> \E u \in UsersOf(logs) : /\ by_user_denies(u) >= T
                                                    /\ d = <<u, by_user_denies(u)>>
  BY DeniersAre
<1>3. \A d : d \in old <=> \E u \in UsersOf(logs) : /\ Denials(logs, u) >= 3
                                                    /\ d = <<u, Denials(logs, u)>>
  BY DeniersAre
<1> HIDE DEF new, old
<1>4. ASSUME NEW d \in new, d[2] >= 3 PROVE \E o \in old : o[1] = d[1] /\ o[2] >= d[2]
  <2>1. PICK u \in UsersOf(logs) : by_user_denies(u) >= T /\ d = <<u, by_user_denies(u)>>
    BY <1>2
  <2>2. by_user_denies(u) <= Denials(logs, u)
        /\ by_user_denies(u) \in Nat /\ Denials(logs, u) \in Nat
    BY <1>1 DEF Windowed
  <2>3. d[1] = u /\ d[2] = by_user_denies(u)
    BY <2>1
  <2>4. Denials(logs, u) >= 3
    BY <1>4, <2>2, <2>3
  <2> DEFINE o == <<u, Denials(logs, u)>>
  <2>5. o \in old /\ o[1] = u /\ o[2] = Denials(logs, u)
    BY <1>3, <2>4
  <2> HIDE DEF o
  <2> QED
    BY <2>2, <2>3, <2>5
<1>5. Len(logs) <= AnomalyLimit =>
        {d \in new : d[2] >= 3} = {o \in old : o[2] >= T}
  <2> SUFFICES ASSUME Len(logs) <= AnomalyLimit
               PROVE  {d \in new : d[2] >= 3} = {o \in old : o[2] >= T}
    OBVIOUS
  <2>1. \A u : by_user_denies(u) = Denials(logs, u)
    BY <1>1 DEF Windowed
  <2>2. ASSUME NEW d, d \in new, d[2] >= 3 PROVE d \in old /\ d[2] >= T
    <3>1. PICK u \in UsersOf(logs) : by_user_denies(u) >= T /\ d = <<u, by_user_denies(u)>>
      BY <1>2, <2>2
    <3>2. d[2] = by_user_denies(u)
      BY <3>1
    <3>3. Denials(logs, u) >= 3 /\ d = <<u, Denials(logs, u)>> /\ d[2] >= T
      BY <2>1, <2>2, <3>1, <3>2
    <3> QED
      BY <1>3, <3>3
  <2>3. ASSUME NEW d, d \in old, d[2] >= T PROVE d \in new /\ d[2] >= 3
    <3>1. PICK u \in UsersOf(logs) : Denials(logs, u) >= 3 /\ d = <<u, Denials(logs, u)>>
      BY <1>3, <2>3
    <3>2. d[2] = Denials(logs, u)
      BY <3>1
    <3>3. by_user_denies(u) >= T /\ d = <<u, by_user_denies(u)>> /\ d[2] >= 3
      BY <2>1, <2>3, <3>1, <3>2
    <3> QED
      BY <1>2, <3>3
  <2> QED
    BY <2>2, <2>3
<1>6. ASSUME NEW u \in UsersOf(logs), T <= AnomalyLimit, Denials(latest, u) = T
      PROVE  \E d \in new : d[1] = u
  <2>1. latest \in Seq(Rows)
    BY <1>1, NewestRows
  <2>2. Denials(latest, u) = HowMany(latest, DeniedTo(u))
    <3> HIDE DEF latest
    <3> QED
      BY <2>1, Counts_are
  <2>3. HowMany(latest, DeniedTo(u)) <= HowMany(Newest(logs, AnomalyLimit), DeniedTo(u))
    BY <1>1, <1>6, NewestGrows
  <2>4. by_user_denies(u) >= T
    BY <1>1, <1>6, <2>2, <2>3 DEF Windowed
  <2> DEFINE d == <<u, by_user_denies(u)>>
  <2>5. d \in new /\ d[1] = u
    BY <1>2, <2>4
  <2> HIDE DEF d
  <2> QED
    BY <2>5
<1> QED
  BY <1>4, <1>5, <1>6 DEF DetectorsAgree, new, old

\* The detectors agree on whom they name for denials, and the gateway's names a
\* user who is denied often enough in a row.
THEOREM DetectorsDoAgree == Spec => []DetectorsAgree
<1>1. TypeInv => DetectorsAgree
  BY DetectorsFit DEF TypeInv
<1> QED
  BY <1>1, TypeCorrect, PTL

\* One more row takes nothing from a count, and nobody from a list.
LEMMA CountsGrow ==
    ASSUME NEW rows \in Seq(Rows), NEW row \in Rows, NEW more, more = Append(rows, row)
    PROVE  /\ more \in Seq(Rows)
           /\ UsersOf(rows) \subseteq UsersOf(more) /\ IpsOf(rows) \subseteq IpsOf(more)
           /\ \A these : /\ HowMany(rows, these) \in Nat /\ HowMany(more, these) \in Nat
                         /\ HowMany(rows, these) <= HowMany(more, these)
           /\ \A user : /\ Cardinality(Resources(rows, user)) \in Nat
                        /\ Cardinality(Resources(more, user)) \in Nat
                        /\ Cardinality(Resources(rows, user))
                             <= Cardinality(Resources(more, user))
<1>1. /\ more \in Seq(Rows) /\ Len(more) = Len(rows) + 1 /\ Len(rows) \in Nat
      /\ \A i \in DOMAIN rows : i \in DOMAIN more /\ more[i] = rows[i]
  OBVIOUS
<1>2. UsersOf(rows) \subseteq UsersOf(more) /\ IpsOf(rows) \subseteq IpsOf(more)
  BY <1>1 DEF UsersOf, IpsOf
<1>3. ASSUME NEW these
      PROVE  /\ HowMany(rows, these) \in Nat /\ HowMany(more, these) \in Nat
             /\ HowMany(rows, these) <= HowMany(more, these)
  <2>1. HowMany(rows, these) \in Nat
    BY HowManyType
  <2>2. HowMany(more, these) = HowMany(rows, these) + One(row \in these)
    BY HowManyAppend
  <2>3. One(row \in these) \in {0, 1}
    BY OneType
  <2> QED
    BY <2>1, <2>2, <2>3
<1>4. ASSUME NEW user
      PROVE  /\ Cardinality(Resources(rows, user)) \in Nat
             /\ Cardinality(Resources(more, user)) \in Nat
             /\ Cardinality(Resources(rows, user)) <= Cardinality(Resources(more, user))
  <2>1. Resources(rows, user) \subseteq Resources(more, user)
    BY <1>1 DEF Resources
  <2>2. IsFiniteSet(Resources(more, user))
    <3> DEFINE A == {j \in DOMAIN more : more[j].user = user}
               f == [j \in A |-> more[j].resource]
    <3>1. A \in SUBSET (1 .. Len(more)) /\ Len(more) \in Nat
      BY <1>1
    <3>2. IsFiniteSet(A)
      <4>1. 1 \in Int /\ Len(more) \in Int
        BY <3>1
      <4> HIDE DEF A
      <4>2. IsFiniteSet(1 .. Len(more))
        BY <4>1, FS_Interval
      <4> QED
        BY <4>2, <3>1, FS_Subset
    <3>3. f \in Surjection(A, Resources(more, user))
      BY DEF Resources, Surjection
    <3> HIDE DEF A, f
    <3> QED
      BY <3>2, <3>3, FS_Surjection
  <2> QED
    BY <2>1, <2>2, FS_Subset, FS_CardinalityType
<1> QED
  BY <1>1, <1>2, <1>3, <1>4

\* Whom the lists of anomalies name.
NamedIn(anomalies) == {<<a.type, a.subject>> : a \in anomalies}

LEMMA LegacyNamesGrow ==
    ASSUME NEW rows \in Seq(Rows), NEW row \in Rows, NEW more, more = Append(rows, row)
    PROVE  NamedIn(detect_anomalies(rows)) \subseteq NamedIn(detect_anomalies(more))
<1>1. /\ more \in Seq(Rows)
      /\ UsersOf(rows) \subseteq UsersOf(more) /\ IpsOf(rows) \subseteq IpsOf(more)
      /\ \A these : /\ HowMany(rows, these) \in Nat /\ HowMany(more, these) \in Nat
                    /\ HowMany(rows, these) <= HowMany(more, these)
      /\ \A user : /\ Cardinality(Resources(rows, user)) \in Nat
                   /\ Cardinality(Resources(more, user)) \in Nat
                   /\ Cardinality(Resources(rows, user))
                        <= Cardinality(Resources(more, user))
  BY CountsGrow
<1>2. ASSUME NEW user
      PROVE  /\ Denials(rows, user) >= 3 => Denials(more, user) >= 3
             /\ OffHours(rows, user) >= 2 => OffHours(more, user) >= 2
             /\ Escalations(rows, user) > 0 => Escalations(more, user) > 0
             /\ Cardinality(Resources(rows, user)) >= 5 =>
                  Cardinality(Resources(more, user)) >= 5
  <2>1. /\ Denials(rows, user) = HowMany(rows, DeniedTo(user))
        /\ OffHours(rows, user) = HowMany(rows, Late(user))
        /\ Escalations(rows, user) = HowMany(rows, Privileged(user))
    BY Counts_are
  <2>2. /\ Denials(more, user) = HowMany(more, DeniedTo(user))
        /\ OffHours(more, user) = HowMany(more, Late(user))
        /\ Escalations(more, user) = HowMany(more, Privileged(user))
    BY <1>1, Counts_are
  <2> QED
    BY <1>1, <2>1, <2>2
<1>3. ASSUME NEW ip PROVE IpDenials(rows, ip) >= 3 => IpDenials(more, ip) >= 3
  <2>1. /\ IpDenials(rows, ip) = HowMany(rows, DeniedFrom(ip))
        /\ IpDenials(more, ip) = HowMany(more, DeniedFrom(ip))
    BY <1>1, Counts_are
  <2> QED
    BY <1>1, <2>1
<1>4. ASSUME NEW a \in detect_anomalies(rows)
      PROVE  \E b \in detect_anomalies(more) : b.type = a.type /\ b.subject = a.subject
  <2>1. CASE \E u \in UsersOf(rows) : Denials(rows, u) >= 3 /\
               a = [type |-> "repeated_denials", subject |-> u, count |-> Denials(rows, u)]
    <3>1. PICK u \in UsersOf(rows) : Denials(rows, u) >= 3 /\
            a = [type |-> "repeated_denials", subject |-> u, count |-> Denials(rows, u)]
      BY <2>1
    <3> DEFINE b == [type |-> "repeated_denials", subject |-> u,
                     count |-> Denials(more, u)]
    <3>2. b \in detect_anomalies(more)
      BY <1>1, <1>2, <3>1 DEF detect_anomalies
    <3> QED
      BY <3>1, <3>2
  <2>2. CASE \E ip \in IpsOf(rows) : IpDenials(rows, ip) >= 3 /\
               a = [type |-> "repeated_denials_from_ip", subject |-> ip,
                    count |-> IpDenials(rows, ip)]
    <3>1. PICK ip \in IpsOf(rows) : IpDenials(rows, ip) >= 3 /\
            a = [type |-> "repeated_denials_from_ip", subject |-> ip,
                 count |-> IpDenials(rows, ip)]
      BY <2>2
    <3> DEFINE b == [type |-> "repeated_denials_from_ip", subject |-> ip,
                     count |-> IpDenials(more, ip)]
    <3>2. b \in detect_anomalies(more)
      BY <1>1, <1>3, <3>1 DEF detect_anomalies
    <3> QED
      BY <3>1, <3>2
  <2>3. CASE \E u \in UsersOf(rows) : OffHours(rows, u) >= 2 /\
               a = [type |-> "off_hours_access", subject |-> u, count |-> OffHours(rows, u)]
    <3>1. PICK u \in UsersOf(rows) : OffHours(rows, u) >= 2 /\
            a = [type |-> "off_hours_access", subject |-> u, count |-> OffHours(rows, u)]
      BY <2>3
    <3> DEFINE b == [type |-> "off_hours_access", subject |-> u,
                     count |-> OffHours(more, u)]
    <3>2. b \in detect_anomalies(more)
      BY <1>1, <1>2, <3>1 DEF detect_anomalies
    <3> QED
      BY <3>1, <3>2
  <2>4. CASE \E u \in UsersOf(rows) : Escalations(rows, u) > 0 /\
               a = [type |-> "privilege_escalation_attempt", subject |-> u,
                    count |-> Escalations(rows, u)]
    <3>1. PICK u \in UsersOf(rows) : Escalations(rows, u) > 0 /\
            a = [type |-> "privilege_escalation_attempt", subject |-> u,
                 count |-> Escalations(rows, u)]
      BY <2>4
    <3> DEFINE b == [type |-> "privilege_escalation_attempt", subject |-> u,
                     count |-> Escalations(more, u)]
    <3>2. b \in detect_anomalies(more)
      BY <1>1, <1>2, <3>1 DEF detect_anomalies
    <3> QED
      BY <3>1, <3>2
  <2>5. CASE \E u \in UsersOf(rows) : Cardinality(Resources(rows, u)) >= 5 /\
               a = [type |-> "resource_hopping", subject |-> u,
                    count |-> Cardinality(Resources(rows, u))]
    <3>1. PICK u \in UsersOf(rows) : Cardinality(Resources(rows, u)) >= 5 /\
            a = [type |-> "resource_hopping", subject |-> u,
                 count |-> Cardinality(Resources(rows, u))]
      BY <2>5
    <3> DEFINE b == [type |-> "resource_hopping", subject |-> u,
                     count |-> Cardinality(Resources(more, u))]
    <3>2. b \in detect_anomalies(more)
      BY <1>1, <1>2, <3>1 DEF detect_anomalies
    <3> QED
      BY <3>1, <3>2
  <2> QED
    BY <2>1, <2>2, <2>3, <2>4, <2>5 DEF detect_anomalies
<1> QED
  BY <1>4 DEF NamedIn

LEMMA NamesPersist ==
    ASSUME TypeInv, TypeInv', NEW a \in Accesses, CommitLog(a)
    PROVE  /\ Len(logs') <= AnomalyLimit =>
                NamedIn(forensics_anomalies) \subseteq NamedIn(forensics_anomalies')
           /\ NamedIn(detect_anomalies(logs)) \subseteq NamedIn(detect_anomalies(logs'))
<1>1. PICK h \in {clock - 1, clock} \cap (FirstHour .. LastHour) :
         logs' = Append(logs, Row(a, h))
  BY DEF CommitLog
<1>2. Row(a, h) \in Rows /\ logs \in Seq(Rows) /\ logs' \in Seq(Rows)
  <2>1. h \in Nat
    BY ReportsAssumption
  <2>2. Row(a, h) \in Rows
    BY <2>1 DEF Rows
  <2> QED
    BY <2>2 DEF TypeInv
<1>3. NamedIn(detect_anomalies(logs)) \subseteq NamedIn(detect_anomalies(logs'))
  BY <1>1, <1>2, LegacyNamesGrow
<1>4. Windowed
  BY <1>2, WindowCounts
<1>5. Windowed'
  <2>1. (logs \in Seq(Rows))'
    BY <1>2
  <2> QED
    BY <2>1, WindowCounts, PTL
<1>6. /\ UsersOf(logs) \subseteq UsersOf(logs') /\ IpsOf(logs) \subseteq IpsOf(logs')
      /\ \A these : /\ HowMany(logs, these) \in Nat /\ HowMany(logs', these) \in Nat
                    /\ HowMany(logs, these) <= HowMany(logs', these)
  BY <1>1, <1>2, CountsGrow
<1>7. ASSUME Len(logs') <= AnomalyLimit, NEW b \in forensics_anomalies
      PROVE  \E c \in forensics_anomalies' : c.type = b.type /\ c.subject = b.subject
  <2>1. Len(logs) <= AnomalyLimit
    BY <1>1, <1>2, <1>7, ReportsAssumption
  <2>2. ASSUME NEW u
        PROVE  by_user_denies(u) >= ANOMALY_DENY_THRESHOLD =>
                 by_user_denies(u)' >= ANOMALY_DENY_THRESHOLD
    <3>1. by_user_denies(u) = Denials(logs, u)
      BY <1>4, <2>1 DEF Windowed
    <3>2. by_user_denies(u)' = Denials(logs', u)
      BY <1>5, <1>7 DEF Windowed
    <3>3. /\ Denials(logs, u) = HowMany(logs, DeniedTo(u))
          /\ Denials(logs', u) = HowMany(logs', DeniedTo(u))
      BY <1>2, Counts_are
    <3>4. ANOMALY_DENY_THRESHOLD \in Nat
      BY ReportsAssumption
    <3> QED
      BY <1>6, <3>1, <3>2, <3>3, <3>4
  <2>3. ASSUME NEW ip
        PROVE  by_ip_count(ip) >= ANOMALY_IP_ACTIVITY_THRESHOLD =>
                 by_ip_count(ip)' >= ANOMALY_IP_ACTIVITY_THRESHOLD
    <3>1. by_ip_count(ip) = HowMany(logs, SeenFrom(ip))
      BY <1>4, <2>1 DEF Windowed
    <3>2. by_ip_count(ip)' = HowMany(logs', SeenFrom(ip))
      BY <1>5, <1>7 DEF Windowed
    <3>3. ANOMALY_IP_ACTIVITY_THRESHOLD \in Nat
      BY ReportsAssumption
    <3> QED
      BY <1>6, <3>1, <3>2, <3>3
  <2>4. CASE \E u \in UsersOf(logs) :
               /\ by_user_denies(u) >= ANOMALY_DENY_THRESHOLD
               /\ b = [type |-> "repeated_denials", subject |-> u,
                       count |-> by_user_denies(u)]
    <3>1. PICK u \in UsersOf(logs) :
               /\ by_user_denies(u) >= ANOMALY_DENY_THRESHOLD
               /\ b = [type |-> "repeated_denials", subject |-> u,
                       count |-> by_user_denies(u)]
      BY <2>4
    <3> DEFINE c == [type |-> "repeated_denials", subject |-> u,
                     count |-> by_user_denies(u)']
    <3>2. u \in UsersOf(logs') /\ by_user_denies(u)' >= ANOMALY_DENY_THRESHOLD
      BY <1>6, <2>2, <3>1
    <3>3. c \in forensics_anomalies'
      BY <3>2 DEF forensics_anomalies
    <3> QED
      BY <3>1, <3>3
  <2>5. CASE \E ip \in IpsOf(logs) :
               /\ by_ip_count(ip) >= ANOMALY_IP_ACTIVITY_THRESHOLD
               /\ b = [type |-> "high_activity_ip", subject |-> ip,
                       count |-> by_ip_count(ip)]
    <3>1. PICK ip \in IpsOf(logs) :
               /\ by_ip_count(ip) >= ANOMALY_IP_ACTIVITY_THRESHOLD
               /\ b = [type |-> "high_activity_ip", subject |-> ip,
                       count |-> by_ip_count(ip)]
      BY <2>5
    <3> DEFINE c == [type |-> "high_activity_ip", subject |-> ip,
                     count |-> by_ip_count(ip)']
    <3>2. ip \in IpsOf(logs') /\ by_ip_count(ip)' >= ANOMALY_IP_ACTIVITY_THRESHOLD
      BY <1>6, <2>3, <3>1
    <3>3. c \in forensics_anomalies'
      BY <3>2 DEF forensics_anomalies
    <3> QED
      BY <3>1, <3>3
  <2> QED
    BY <2>4, <2>5 DEF forensics_anomalies
<1> QED
  BY <1>3, <1>7 DEF NamedIn

\* Only a row that is committed changes the log.
LEMMA LogSteps ==
    [Next]_vars /\ logs' # logs => \E a \in Accesses : CommitLog(a)
BY DEF Next, vars, CommitAlert, LoseLog, Ask, RunQuery, Deliver, Tick

\* An anomaly once named is named from then on, whatever is logged later.
THEOREM AnomaliesDoPersist == Spec => AnomaliesPersist
<1>1. TypeInv /\ TypeInv' /\ [Next]_vars =>
        [report = NoReport /\ logs' # logs =>
           LET Named(anomalies) == {<<a.type, a.subject>> : a \in anomalies}
           IN  /\ Len(logs') <= AnomalyLimit =>
                    Named(forensics_anomalies) \subseteq Named(forensics_anomalies')
               /\ Named(detect_anomalies(logs)) \subseteq
                    Named(detect_anomalies(logs'))]_vars
  BY LogSteps, NamesPersist DEF NamedIn
<1> QED
  BY <1>1, TypeCorrect, PTL DEF Spec, AnomaliesPersist

-----------------------------------------------------------------------------
(* The timelines                                                           *)

\* A counter that steps at some rows of a log has counted them at its end.
LEMMA CountedUp ==
    ASSUME NEW S, NEW rows \in Seq(S), NEW these,
           NEW count \in [0 .. Len(rows) -> Int], count[0] = 0,
           \A n \in 1 .. Len(rows) : count[n] = count[n - 1] + One(rows[n] \in these)
    PROVE  count[Len(rows)] = HowMany(rows, these)
<1> DEFINE N == Len(rows)
           found == [n \in 0 .. N |-> {i \in 1 .. n : rows[i] \in these}]
           T == {n \in 0 .. N : IsFiniteSet(found[n]) /\ count[n] = Cardinality(found[n])}
<1>1. N \in Nat /\ DOMAIN rows = 1 .. N
  OBVIOUS
<1>2. found[0] = {} /\ found[N] = At(rows, these)
  BY <1>1 DEF At
<1>3. ASSUME NEW n \in 0 .. N - 1
      PROVE  /\ n + 1 \notin found[n]
             /\ rows[n + 1] \in these => found[n + 1] = found[n] \cup {n + 1}
             /\ rows[n + 1] \notin these => found[n + 1] = found[n]
  <2>1. n \in 0 .. N /\ n + 1 \in 0 .. N /\ n \in Nat
    BY <1>1
  <2>2. /\ found[n] = {i \in 1 .. n : rows[i] \in these}
        /\ found[n + 1] = {i \in 1 .. n + 1 : rows[i] \in these}
    BY <2>1
  <2>3. 1 .. n + 1 = (1 .. n) \cup {n + 1} /\ n + 1 \notin 1 .. n
    BY <2>1
  <2> HIDE DEF found
  <2> QED
    BY <2>2, <2>3
<1> HIDE DEF found
<1>4. 0 \in T
  <2>1. IsFiniteSet(found[0]) /\ Cardinality(found[0]) = 0
    BY <1>2, FS_EmptySet
  <2> QED
    BY <1>1, <2>1
<1>5. ASSUME NEW n \in 0 .. N - 1, n \in T PROVE n + 1 \in T
  <2>1. /\ IsFiniteSet(found[n]) /\ count[n] = Cardinality(found[n])
        /\ n + 1 \in 1 .. N /\ n + 1 \in 0 .. N /\ n + 1 - 1 = n /\ count[n] \in Int
    BY <1>1, <1>5
  <2>2. count[n + 1] = count[n] + One(rows[n + 1] \in these)
    BY <2>1
  <2>3. CASE rows[n + 1] \in these
    <3>1. found[n + 1] = found[n] \cup {n + 1} /\ n + 1 \notin found[n]
      BY <1>3, <2>3
    <3>2. IsFiniteSet(found[n + 1]) /\ Cardinality(found[n + 1]) = Cardinality(found[n]) + 1
      <4>1. /\ IsFiniteSet(found[n] \cup {n + 1})
            /\ Cardinality(found[n] \cup {n + 1}) = Cardinality(found[n]) + 1
        BY <2>1, <3>1, FS_AddElement, Zenon
      <4> QED
        BY <3>1, <4>1
    <3>3. count[n + 1] = count[n] + 1
      BY <2>2, <2>3, OneType
    <3> QED
      BY <2>1, <3>2, <3>3
  <2>4. CASE rows[n + 1] \notin these
    <3>1. found[n + 1] = found[n]
      BY <1>3, <2>4
    <3>2. One(rows[n + 1] \in these) = 0
      BY <2>4 DEF One
    <3>3. count[n + 1] = count[n]
      BY <2>1, <2>2, <3>2
    <3> QED
      BY <2>1, <3>1, <3>3
  <2> QED
    BY <2>3, <2>4
<1>6. \A n \in 0 .. N : n \in T
  <2> HIDE DEF T
  <2> QED
    BY <1>1, <1>4, <1>5, UpTo
<1>7. N \in T
  BY <1>1, <1>6
<1> QED
  BY <1>1, <1>2, <1>7 DEF HowMany

\* Numbers that count the parts of a set add up to what counts the set.
Parts(U, N, part, numbers) ==
    /\ IsFiniteSet(U)
    /\ numbers \in [1 .. N -> Int] /\ part \in [1 .. N -> SUBSET U]
    /\ \A x \in U : \E k \in 1 .. N : x \in part[k]
    /\ \A k \in 1 .. N : numbers[k] = Cardinality(part[k])
    /\ \A k, m \in 1 .. N : k # m => part[k] \cap part[m] = {}

LEMMA TotalOfParts ==
    ASSUME NEW U, NEW N \in Nat, NEW part, NEW numbers, Parts(U, N, part, numbers)
    PROVE  Total(numbers) = Cardinality(U)
<1> DEFINE Is(sum) == sum = [k \in 0 .. N |-> IF k = 0 THEN 0 ELSE sum[k - 1] + numbers[k]]
           joined == [n \in 0 .. N |-> {x \in U : \E k \in 1 .. n : x \in part[k]}]
           step == [n \in 1 .. N |-> [s \in Int |-> s + numbers[n]]]
           sum == CHOOSE f : Is(f)
<1>1. /\ IsFiniteSet(U)
      /\ numbers \in [1 .. N -> Int] /\ part \in [1 .. N -> SUBSET U]
      /\ \A x \in U : \E k \in 1 .. N : x \in part[k]
      /\ \A k \in 1 .. N : numbers[k] = Cardinality(part[k])
      /\ \A k, m \in 1 .. N : k # m => part[k] \cap part[m] = {}
  BY DEF Parts
<1>2. Len(numbers) = N
  BY <1>1
<1>3. \E f : Is(f)
  <2>1. step \in [1 .. N -> [Int -> Int]]
    BY <1>1
  <2>2. \E f : Runs(f, N, Int, 0, step)
    <3> DEFINE B == Int
               b == 0
    <3>1. b \in B /\ step \in [1 .. N -> [B -> B]]
      BY <2>1
    <3> HIDE DEF step, B, b
    <3>2. \E f : Runs(f, N, B, b, step)
      BY <3>1, Loop
    <3> QED
      BY <3>2 DEF B, b
  <2>3. PICK f \in [0 .. N -> Int] : f[0] = 0 /\ \A n \in 1 .. N : f[n] = step[n][f[n - 1]]
    <3> HIDE DEF step
    <3> QED
      BY <2>2 DEF Runs
  <2>4. ASSUME NEW n \in 1 .. N PROVE f[n] = f[n - 1] + numbers[n]
    <3>1. f[n] = step[n][f[n - 1]] /\ f[n - 1] \in Int
      <4> HIDE DEF step
      <4> QED
        BY <2>3
    <3>2. \A s \in Int : step[n][s] = s + numbers[n]
      OBVIOUS
    <3> HIDE DEF step
    <3> QED
      BY <3>1, <3>2
  <2>5. Is(f)
    BY <2>3, <2>4
  <2> QED
    BY <2>5
<1>4. Is(sum)
  BY <1>3
<1>5. Total(numbers) = sum[N]
  BY <1>2 DEF Total
<1>6. sum[0] = 0 /\ \A n \in 1 .. N : sum[n] = sum[n - 1] + numbers[n]
  <2> HIDE DEF sum
  <2> QED
    BY <1>4
<1> HIDE DEF sum
<1>7. \A n \in 1 .. N : IsFiniteSet(part[n])
  BY <1>1, FS_Subset
<1> DEFINE T == {n \in 0 .. N : IsFiniteSet(joined[n]) /\ sum[n] = Cardinality(joined[n])}
<1>8. joined[0] = {} /\ joined[N] = U
  BY <1>1
<1>9. ASSUME NEW n \in 0 .. N - 1
      PROVE  /\ joined[n + 1] = joined[n] \cup part[n + 1]
             /\ joined[n] \cap part[n + 1] = {}
  <2>1. n \in 0 .. N /\ n + 1 \in 0 .. N /\ n + 1 \in 1 .. N
    OBVIOUS
  <2>2. /\ joined[n] = {x \in U : \E k \in 1 .. n : x \in part[k]}
        /\ joined[n + 1] = {x \in U : \E k \in 1 .. n + 1 : x \in part[k]}
    BY <2>1
  <2>3. part[n + 1] \in SUBSET U
    BY <1>1, <2>1
  <2> HIDE DEF joined
  <2>4. joined[n + 1] = joined[n] \cup part[n + 1]
    BY <2>1, <2>2, <2>3
  <2>5. joined[n] \cap part[n + 1] = {}
    BY <1>1, <2>1, <2>2
  <2> QED
    BY <2>4, <2>5
<1> HIDE DEF joined
<1>10. 0 \in T
  <2>1. IsFiniteSet(joined[0]) /\ Cardinality(joined[0]) = 0
    BY <1>8, FS_EmptySet
  <2> QED
    BY <1>6, <2>1
<1>11. ASSUME NEW n \in 0 .. N - 1, n \in T PROVE n + 1 \in T
  <2>1. n + 1 \in 1 .. N /\ n + 1 \in 0 .. N /\ n + 1 - 1 = n
    BY <1>11
  <2>2. joined[n + 1] = joined[n] \cup part[n + 1] /\ joined[n] \cap part[n + 1] = {}
    BY <1>9
  <2>4. IsFiniteSet(joined[n]) /\ sum[n] = Cardinality(joined[n])
    BY <1>11
  <2>5. sum[n + 1] = sum[n] + Cardinality(part[n + 1])
    BY <1>1, <1>6, <2>1
  <2>6. /\ IsFiniteSet(joined[n + 1])
        /\ Cardinality(joined[n + 1])
             = Cardinality(joined[n]) + Cardinality(part[n + 1]) - Cardinality({})
    <3>1. IsFiniteSet(part[n + 1])
      BY <1>7, <2>1
    <3>2. /\ IsFiniteSet(joined[n] \cup part[n + 1])
          /\ Cardinality(joined[n] \cup part[n + 1])
               = Cardinality(joined[n]) + Cardinality(part[n + 1])
                   - Cardinality(joined[n] \cap part[n + 1])
      BY <3>1, <2>4, FS_Union
    <3> QED
      BY <2>2, <3>2
  <2>7. Cardinality({}) = 0 /\ Cardinality(joined[n]) \in Nat /\ Cardinality(part[n + 1]) \in Nat
    BY <1>7, <2>1, <2>4, FS_EmptySet, FS_CardinalityType
  <2> QED
    BY <2>1, <2>4, <2>5, <2>6, <2>7
<1>12. \A n \in 0 .. N : n \in T
  <2> HIDE DEF T
  <2> QED
    BY <1>10, <1>11, UpTo
<1>13. N \in T
  BY <1>12
<1> QED
  BY <1>5, <1>8, <1>13

\* The periods of a log.
PeriodsIn(rows, interval) == {Period(rows[i].hour, interval) : i \in DOMAIN rows}

\* What lists them.
Listed(all) == [k \in 1 .. Cardinality(all) |->
                  CHOOSE p \in all : Cardinality({q \in all : q <= p}) = k]

LEMMA PeriodsListed ==
    ASSUME NEW rows, NEW interval
    PROVE  Periods(rows, interval) = Listed(PeriodsIn(rows, interval))
BY DEF Periods, Listed, PeriodsIn

LEMMA PeriodType ==
    ASSUME NEW rows \in Seq(Rows), NEW interval
    PROVE  PeriodsIn(rows, interval) \subseteq Nat
<1>1. \A i \in DOMAIN rows : rows[i].hour \in Nat
  BY RowType
<1>2. \A h \in Nat : Period(h, interval) \in Nat
  BY DEF Period
<1> QED
  BY <1>1, <1>2 DEF PeriodsIn

\* A list of the numbers in a set, once each and in ascending order.
Ascending(list, all) ==
    \E N \in Nat :
      /\ list \in [1 .. N -> all]
      /\ \A k, m \in 1 .. N : k < m => list[k] < list[m]
      /\ \A p \in all : \E k \in 1 .. N : list[k] = p

\* They are listed once each, in ascending order.
LEMMA PeriodsAscend ==
    ASSUME NEW rows \in Seq(Rows), NEW interval
    PROVE  Ascending(Periods(rows, interval), PeriodsIn(rows, interval))
<1> DEFINE all == PeriodsIn(rows, interval)
           below == [p \in all |-> {q \in all : q <= p}]
           list == Periods(rows, interval)
           N == Cardinality(all)
<1>1. all \subseteq Nat
  BY PeriodType
<1>2. IsFiniteSet(all)
  <2> DEFINE f == [i \in 1 .. Len(rows) |-> Period(rows[i].hour, interval)]
  <2>1. f \in Surjection(1 .. Len(rows), all)
    <3>1. DOMAIN rows = 1 .. Len(rows)
      OBVIOUS
    <3>2. all = {Period(rows[i].hour, interval) : i \in 1 .. Len(rows)}
      BY <3>1 DEF PeriodsIn
    <3> QED
      BY <3>2, Zenon DEF Surjection
  <2>2. 1 \in Int /\ Len(rows) \in Int
    OBVIOUS
  <2>3. IsFiniteSet(1 .. Len(rows))
    BY <2>2, FS_Interval
  <2> HIDE DEF f, all
  <2> QED
    BY <2>1, <2>3, FS_Surjection
<1>3. list = [k \in 1 .. N |-> CHOOSE p \in all : Cardinality({q \in all : q <= p}) = k]
  BY PeriodsListed DEF Listed
<1> HIDE DEF all, list
<1>4. Ranked(all, below)
  <2>1. /\ below \in [all -> SUBSET all]
        /\ \A p \in all : below[p] = {q \in all : q <= p}
    OBVIOUS
  <2> HIDE DEF below
  <2>2. \A p \in all : p \in below[p]
    BY <1>1, <2>1
  <2>3. ASSUME NEW i \in all, NEW j \in all
        PROVE  /\ i \in below[j] <=> i <= j
               /\ j \in below[i] <=> j <= i
               /\ i <= j => below[i] \subseteq below[j]
               /\ i <= j /\ j <= i => i = j
               /\ i <= j \/ j <= i
    <3>1. i \in Nat /\ j \in Nat
      BY <1>1
    <3>2. /\ i \in below[j] <=> i <= j
          /\ j \in below[i] <=> j <= i
      BY <2>1
    <3>3. i <= j => below[i] \subseteq below[j]
      BY <1>1, <2>1, <3>1
    <3> QED
      BY <3>1, <3>2, <3>3
  <2> QED
    BY <1>2, <2>1, <2>2, <2>3 DEF Ranked
<1>5. \A p \in all : below[p] = {q \in all : q <= p}
  OBVIOUS
<1> HIDE DEF below
<1>6. /\ N \in Nat
      /\ \A p \in all : Cardinality(below[p]) \in 1 .. N
      /\ \A p, q \in all : p \in below[q] /\ p # q =>
                             Cardinality(below[p]) < Cardinality(below[q])
      /\ \A k \in 1 .. N : \E p \in all : Cardinality(below[p]) = k
  BY <1>4, Places
<1> HIDE DEF N
<1>7. ASSUME NEW k \in 1 .. N PROVE list[k] \in all /\ Cardinality(below[list[k]]) = k
  BY <1>3, <1>5, <1>6
<1>8. list \in [1 .. N -> all]
  BY <1>3, <1>7
<1>9. ASSUME NEW k \in 1 .. N, NEW m \in 1 .. N, k < m PROVE list[k] < list[m]
  <2>1. /\ list[k] \in all /\ Cardinality(below[list[k]]) = k /\ list[k] \in Nat
        /\ list[m] \in all /\ Cardinality(below[list[m]]) = m /\ list[m] \in Nat
    BY <1>1, <1>7
  <2>2. list[k] # list[m]
    BY <1>6, <1>9, <2>1
  <2>3. ~(list[m] \in below[list[k]])
    BY <1>6, <1>9, <2>1
  <2>4. ~(list[m] <= list[k])
    BY <1>5, <2>1, <2>3
  <2> QED
    BY <2>1, <2>4
<1>10. ASSUME NEW p \in all PROVE \E k \in 1 .. N : list[k] = p
  <2> DEFINE k == Cardinality(below[p])
  <2>1. k \in 1 .. N
    BY <1>6
  <2>2. list[k] \in all /\ Cardinality(below[list[k]]) = k
    BY <1>7, <2>1
  <2>3. list[k] \in below[p] \/ p \in below[list[k]]
    BY <1>4, <2>2 DEF Ranked
  <2>4. list[k] = p
    BY <1>6, <2>1, <2>2, <2>3
  <2> QED
    BY <2>1, <2>4
<1> QED
  <2>1. Ascending(list, all)
    BY <1>6, <1>8, <1>9, <1>10 DEF Ascending
  <2> QED
    BY <2>1 DEF all, list

\* The order of the rows does not matter to them.
LEMMA SamePeriods ==
    ASSUME NEW rows \in Seq(Rows), NEW interval
    PROVE  Periods(ByTime(rows), interval) = Periods(rows, interval)
<1>1. PICK perm \in Bijection(DOMAIN rows, DOMAIN rows) :
          \A k \in DOMAIN rows : ByTime(rows)[k] = rows[perm[k]]
  BY ByTimeRows
<1>2. DOMAIN ByTime(rows) = DOMAIN rows
  BY ByTimeRows
<1>3. /\ \A k \in DOMAIN rows : perm[k] \in DOMAIN rows
      /\ \A j \in DOMAIN rows : \E k \in DOMAIN rows : perm[k] = j
  BY <1>1 DEF Bijection, Injection, Surjection
<1>4. PeriodsIn(ByTime(rows), interval) \subseteq PeriodsIn(rows, interval)
  <2>1. ASSUME NEW k \in DOMAIN ByTime(rows)
        PROVE  \E j \in DOMAIN rows : ByTime(rows)[k] = rows[j]
    BY <1>1, <1>2, <1>3
  <2> QED
    BY <2>1, Zenon DEF PeriodsIn
<1>5. PeriodsIn(rows, interval) \subseteq PeriodsIn(ByTime(rows), interval)
  <2>1. ASSUME NEW j \in DOMAIN rows
        PROVE  \E k \in DOMAIN ByTime(rows) : ByTime(rows)[k] = rows[j]
    <3>1. PICK k \in DOMAIN rows : perm[k] = j
      BY <1>3
    <3>2. ByTime(rows)[k] = rows[j]
      BY <1>1, <3>1
    <3> QED
      BY <1>2, <3>2
  <2> QED
    BY <2>1, Zenon DEF PeriodsIn
<1> QED
  BY <1>4, <1>5, PeriodsListed

\* A counter that steps at some rows of a period has counted them at the end.
Steps(count, rows, within, these) ==
    /\ count \in [0 .. Len(rows) -> Int] /\ count[0] = 0
    /\ \A n \in 1 .. Len(rows) :
         /\ rows[n] \in within => count[n] = count[n - 1] + One(rows[n] \in these)
         /\ rows[n] \notin within => count[n] = count[n - 1]

LEMMA CountedWithin ==
    ASSUME NEW rows \in Seq(Rows), NEW within, NEW these, NEW count,
           Steps(count, rows, within, these)
    PROVE  count[Len(rows)] = HowMany(rows, within \cap these)
<1>1. /\ count \in [0 .. Len(rows) -> Int] /\ count[0] = 0
      /\ \A n \in 1 .. Len(rows) :
           /\ rows[n] \in within => count[n] = count[n - 1] + One(rows[n] \in these)
           /\ rows[n] \notin within => count[n] = count[n - 1]
  BY DEF Steps
<1>2. ASSUME NEW n \in 1 .. Len(rows)
      PROVE  count[n] = count[n - 1] + One(rows[n] \in within \cap these)
  <2>1. count[n - 1] \in Int
    BY <1>1
  <2>2. CASE rows[n] \in within
    <3>1. One(rows[n] \in within \cap these) = One(rows[n] \in these)
      BY <2>2 DEF One
    <3> QED
      BY <1>1, <2>2, <3>1
  <2>3. CASE rows[n] \notin within
    <3>1. One(rows[n] \in within \cap these) = 0
      BY <2>3 DEF One
    <3> QED
      BY <1>1, <2>1, <2>3, <3>1
  <2> QED
    BY <2>2, <2>3
<1> QED
  BY <1>1, <1>2, CountedUp

\* The bucket of a period, after each row of the legacy analyzer's loop.
IsPeriod(bucket, rows, interval, period) ==
    bucket = [n \in 0 .. Len(rows) |->
                IF n = 0 THEN NewPeriod(period)
                ELSE IF Period(rows[n].hour, interval) = period
                     THEN AddRecord(bucket[n - 1], rows[n])
                     ELSE bucket[n - 1]]

PeriodBucket(rows, interval, period) ==
    (CHOOSE bucket : IsPeriod(bucket, rows, interval, period))[Len(rows)]

LEMMA PeriodBuckets ==
    ASSUME NEW rows, NEW interval
    PROVE  group_records_by_period(rows, interval)
             = [k \in DOMAIN Periods(rows, interval) |->
                  PeriodBucket(rows, interval, Periods(rows, interval)[k])]
BY DEF group_records_by_period, PeriodBucket, IsPeriod

\* What is not an ALLOW, and what has a score of 70 points or more.
Refused == {row \in Rows : row.decision # "allow"}
Severe == {row \in Rows : Points(row) >= 70}

\* A bucket has the counts of its period.
PeriodFits(bucket, rows, interval, period) ==
    LET within == Within(interval, period)
    IN  /\ bucket.period = period
        /\ bucket.total_requests = HowMany(rows, within \cap Rows)
        /\ bucket.allowed = HowMany(rows, within \cap Decided("allow"))
        /\ bucket.denied = HowMany(rows, within \cap Refused)
        /\ bucket.high_risk_events = HowMany(rows, within \cap Severe)

LEMMA PeriodCounts ==
    ASSUME NEW rows \in Seq(Rows), NEW interval, NEW period
    PROVE  PeriodFits(PeriodBucket(rows, interval, period), rows, interval, period)
<1> DEFINE N == Len(rows)
           B == [period : {period}, total_requests : Int, allowed : Int, denied : Int,
                 risk_sum : Int, high_risk_events : Int]
           b == NewPeriod(period)
           within == Within(interval, period)
           step == [n \in 1 .. N |-> [x \in B |->
                      IF rows[n] \in within THEN AddRecord(x, rows[n]) ELSE x]]
           f == CHOOSE bucket : IsPeriod(bucket, rows, interval, period)
<1>1. N \in Nat /\ \A n \in 1 .. N : rows[n] \in Rows
  OBVIOUS
<1>2. b \in B
  BY DEF NewPeriod
<1>3. ASSUME NEW x \in B, NEW row \in Rows
      PROVE  /\ AddRecord(x, row) \in B
             /\ AddRecord(x, row).total_requests = x.total_requests + One(row \in Rows)
             /\ AddRecord(x, row).allowed = x.allowed + One(row \in Decided("allow"))
             /\ AddRecord(x, row).denied = x.denied + One(row \in Refused)
             /\ AddRecord(x, row).high_risk_events = x.high_risk_events + One(row \in Severe)
  <2>1. row.score \in Int /\ Points(row) \in Int
    BY RowType DEF Points
  <2>2. /\ One(row \in Rows) = 1
        /\ One(row.decision = "allow") = One(row \in Decided("allow"))
        /\ One(row.decision # "allow") = One(row \in Refused)
        /\ One(Points(row) >= 70) = One(row \in Severe)
    BY DEF One, Decided, Refused, Severe
  <2>3. /\ One(row \in Decided("allow")) \in Int /\ One(row \in Refused) \in Int
        /\ One(row \in Severe) \in Int
    BY DEF One
  <2>4. AddRecord(x, row) = [x EXCEPT
          !.total_requests   = @ + 1,
          !.allowed          = @ + One(row \in Decided("allow")),
          !.denied           = @ + One(row \in Refused),
          !.risk_sum         = @ + Points(row),
          !.high_risk_events = @ + One(row \in Severe)]
    BY <2>2 DEF AddRecord
  <2>5. /\ AddRecord(x, row).total_requests = x.total_requests + 1
        /\ AddRecord(x, row).allowed = x.allowed + One(row \in Decided("allow"))
        /\ AddRecord(x, row).denied = x.denied + One(row \in Refused)
        /\ AddRecord(x, row).high_risk_events = x.high_risk_events + One(row \in Severe)
    BY <2>4
  <2>6. AddRecord(x, row) \in B
    <3>1. x = [period |-> x.period, total_requests |-> x.total_requests,
               allowed |-> x.allowed, denied |-> x.denied, risk_sum |-> x.risk_sum,
               high_risk_events |-> x.high_risk_events]
      OBVIOUS
    <3>3. /\ x.period = period /\ x.total_requests + 1 \in Int
          /\ x.allowed + One(row \in Decided("allow")) \in Int
          /\ x.denied + One(row \in Refused) \in Int
          /\ x.risk_sum + Points(row) \in Int
          /\ x.high_risk_events + One(row \in Severe) \in Int
      <4>1. /\ x.period = period /\ x.total_requests \in Int /\ x.allowed \in Int
            /\ x.denied \in Int /\ x.risk_sum \in Int /\ x.high_risk_events \in Int
        OBVIOUS
      <4>2. 1 \in Int /\ \A y, z \in Int : y + z \in Int
        OBVIOUS
      <4> HIDE DEF B
      <4> QED
        BY <2>1, <2>3, <4>1, <4>2, Zenon
    <3> HIDE DEF B
    <3>2. AddRecord(x, row)
            = [period |-> x.period, total_requests |-> x.total_requests + 1,
               allowed |-> x.allowed + One(row \in Decided("allow")),
               denied |-> x.denied + One(row \in Refused),
               risk_sum |-> x.risk_sum + Points(row),
               high_risk_events |-> x.high_risk_events + One(row \in Severe)]
      BY <2>4, <3>1
    <3> USE DEF B
    <3> QED
      BY <3>2, <3>3
  <2> HIDE DEF B
  <2> QED
    BY <2>2, <2>5, <2>6
<1> HIDE DEF B, b
<1>4. step \in [1 .. N -> [B -> B]]
  BY <1>1, <1>3
<1>5. \A n \in 1 .. N : rows[n] \in within <=> Period(rows[n].hour, interval) = period
  BY <1>1 DEF Within
<1>6. \E bucket : IsPeriod(bucket, rows, interval, period)
  <2>1. PICK g : Runs(g, N, B, b, step)
    <3> HIDE DEF step, N
    <3> QED
      BY <1>1, <1>2, <1>4, Loop
  <2>2. g \in [0 .. N -> B] /\ g[0] = b /\ \A n \in 1 .. N : g[n] = step[n][g[n - 1]]
    <3> HIDE DEF step, N
    <3> QED
      BY <2>1 DEF Runs
  <2>3. ASSUME NEW n \in 1 .. N
        PROVE  g[n] = IF Period(rows[n].hour, interval) = period
                      THEN AddRecord(g[n - 1], rows[n]) ELSE g[n - 1]
    <3>1. g[n] = step[n][g[n - 1]] /\ g[n - 1] \in B
      <4> HIDE DEF step
      <4> QED
        BY <1>1, <2>2
    <3>2. \A x \in B : step[n][x] = IF rows[n] \in within THEN AddRecord(x, rows[n]) ELSE x
      OBVIOUS
    <3> HIDE DEF step, within
    <3> QED
      BY <1>5, <3>1, <3>2
  <2>4. IsPeriod(g, rows, interval, period)
    <3> HIDE DEF step
    <3> QED
      BY <1>1, <2>2, <2>3 DEF IsPeriod, b
  <2> QED
    BY <2>4
<1>7. IsPeriod(f, rows, interval, period)
  BY <1>6
<1> HIDE DEF f
<1>8. f[0] = b /\ \A n \in 1 .. N :
        f[n] = IF rows[n] \in within THEN AddRecord(f[n - 1], rows[n]) ELSE f[n - 1]
  <2> HIDE DEF within
  <2>1. f = [n \in 0 .. N |->
                IF n = 0 THEN b
                ELSE IF Period(rows[n].hour, interval) = period
                     THEN AddRecord(f[n - 1], rows[n])
                     ELSE f[n - 1]]
    BY <1>7 DEF IsPeriod, b
  <2>2. f[0] = b
    BY <1>1, <2>1
  <2>3. ASSUME NEW n \in 1 .. N
        PROVE  f[n] = IF rows[n] \in within THEN AddRecord(f[n - 1], rows[n]) ELSE f[n - 1]
    <3>1. n \in 0 .. N /\ n # 0
      BY <1>1
    <3> QED
      BY <1>5, <2>1, <3>1
  <2> QED
    BY <2>2, <2>3
<1> HIDE DEF within
<1>9. \A n \in 0 .. N : f[n] \in B
  <2> DEFINE T == {n \in 0 .. N : f[n] \in B}
  <2>1. 0 \in T
    BY <1>1, <1>2, <1>8
  <2>2. ASSUME NEW n \in 0 .. N - 1, n \in T PROVE n + 1 \in T
    <3>1. n + 1 \in 1 .. N /\ n + 1 \in 0 .. N /\ n + 1 - 1 = n
      BY <1>1
    <3>2. f[n + 1] = IF rows[n + 1] \in within THEN AddRecord(f[n], rows[n + 1]) ELSE f[n]
      BY <1>8, <3>1
    <3>3. f[n] \in B /\ rows[n + 1] \in Rows
      BY <1>1, <2>2, <3>1
    <3>4. AddRecord(f[n], rows[n + 1]) \in B
      BY <1>3, <3>3 DEF B
    <3> QED
      BY <3>1, <3>2, <3>3, <3>4
  <2>3. \A n \in 0 .. N : n \in T
    <3> HIDE DEF T, N
    <3> QED
      BY <1>1, <2>1, <2>2, UpTo
  <2> QED
    BY <2>3
<1> DEFINE total == [n \in 0 .. N |-> f[n].total_requests]
           allowed == [n \in 0 .. N |-> f[n].allowed]
           denied == [n \in 0 .. N |-> f[n].denied]
           high == [n \in 0 .. N |-> f[n].high_risk_events]
<1>10. /\ total \in [0 .. N -> Int] /\ allowed \in [0 .. N -> Int]
       /\ denied \in [0 .. N -> Int] /\ high \in [0 .. N -> Int]
  BY <1>9 DEF B
<1>11. total[0] = 0 /\ allowed[0] = 0 /\ denied[0] = 0 /\ high[0] = 0
  BY <1>1, <1>8 DEF b, NewPeriod
<1>12. ASSUME NEW n \in 1 .. N
       PROVE  /\ rows[n] \in within =>
                   /\ total[n] = total[n - 1] + One(rows[n] \in Rows)
                   /\ allowed[n] = allowed[n - 1] + One(rows[n] \in Decided("allow"))
                   /\ denied[n] = denied[n - 1] + One(rows[n] \in Refused)
                   /\ high[n] = high[n - 1] + One(rows[n] \in Severe)
              /\ rows[n] \notin within =>
                   /\ total[n] = total[n - 1] /\ allowed[n] = allowed[n - 1]
                   /\ denied[n] = denied[n - 1] /\ high[n] = high[n - 1]
  <2>1. n \in 0 .. N /\ n - 1 \in 0 .. N /\ rows[n] \in Rows
    BY <1>1
  <2>2. f[n - 1] \in B
    BY <1>9, <2>1
  <2>3. /\ total[n] = f[n].total_requests /\ total[n - 1] = f[n - 1].total_requests
        /\ allowed[n] = f[n].allowed /\ allowed[n - 1] = f[n - 1].allowed
        /\ denied[n] = f[n].denied /\ denied[n - 1] = f[n - 1].denied
        /\ high[n] = f[n].high_risk_events /\ high[n - 1] = f[n - 1].high_risk_events
    BY <2>1
  <2> HIDE DEF total, allowed, denied, high
  <2>4. CASE rows[n] \in within
    <3>1. f[n] = AddRecord(f[n - 1], rows[n])
      BY <1>8, <2>4
    <3>2. /\ f[n].total_requests = f[n - 1].total_requests + One(rows[n] \in Rows)
          /\ f[n].allowed = f[n - 1].allowed + One(rows[n] \in Decided("allow"))
          /\ f[n].denied = f[n - 1].denied + One(rows[n] \in Refused)
          /\ f[n].high_risk_events = f[n - 1].high_risk_events + One(rows[n] \in Severe)
      BY <1>3, <2>1, <2>2, <3>1
    <3> QED
      BY <2>3, <2>4, <3>2
  <2>5. CASE rows[n] \notin within
    BY <1>8, <2>3, <2>5
  <2> QED
    BY <2>4, <2>5
<1>13. f[N].period = period
  BY <1>1, <1>9 DEF B
<1> HIDE DEF total, allowed, denied, high
<1>14. /\ Steps(total, rows, within, Rows)
       /\ Steps(allowed, rows, within, Decided("allow"))
       /\ Steps(denied, rows, within, Refused)
       /\ Steps(high, rows, within, Severe)
  BY <1>10, <1>11, <1>12 DEF Steps
<1>15. /\ total[N] = HowMany(rows, within \cap Rows)
       /\ allowed[N] = HowMany(rows, within \cap Decided("allow"))
       /\ denied[N] = HowMany(rows, within \cap Refused)
       /\ high[N] = HowMany(rows, within \cap Severe)
  BY <1>14, CountedWithin
<1>16. PeriodBucket(rows, interval, period) = f[N]
  BY DEF PeriodBucket, f
<1>17. /\ f[N].total_requests = total[N] /\ f[N].allowed = allowed[N]
       /\ f[N].denied = denied[N] /\ f[N].high_risk_events = high[N]
  BY <1>1 DEF total, allowed, denied, high
<1> QED
  BY <1>13, <1>15, <1>16, <1>17 DEF within, PeriodFits

\* The same of the gateway's timeline.
IsBucket(bucket, rows, interval, period) ==
    bucket = [n \in 0 .. Len(rows) |->
                IF n = 0 THEN NewBucket(period)
                ELSE IF Period(rows[n].hour, interval) = period
                     THEN AddLog(bucket[n - 1], rows[n])
                     ELSE bucket[n - 1]]

Bucket(rows, interval, period) ==
    (CHOOSE bucket : IsBucket(bucket, rows, interval, period))[Len(rows)]

LEMMA Buckets ==
    ASSUME NEW interval
    PROVE  forensics_timeline(interval)
             = [k \in DOMAIN Periods(ByTime(logs), interval) |->
                  Bucket(ByTime(logs), interval, Periods(ByTime(logs), interval)[k])]
BY DEF forensics_timeline, Bucket, IsBucket

BucketFits(bucket, rows, interval, period) ==
    LET within == Within(interval, period)
    IN  /\ bucket.period = period
        /\ bucket.total_requests = HowMany(rows, within \cap Rows)
        /\ bucket.allowed = HowMany(rows, within \cap Decided("allow"))
        /\ bucket.denied = HowMany(rows, within \cap Decided("deny"))
        /\ bucket.challenge_otp = HowMany(rows, within \cap Decided("challenge_otp"))

LEMMA BucketCounts ==
    ASSUME NEW rows \in Seq(Rows), NEW interval, NEW period
    PROVE  BucketFits(Bucket(rows, interval, period), rows, interval, period)
<1> DEFINE N == Len(rows)
           B == [period : {period}, total_requests : Int, allowed : Int, challenge_otp : Int,
                 denied : Int, risk_sum : Int, high_risk_events : Int]
           b == NewBucket(period)
           within == Within(interval, period)
           step == [n \in 1 .. N |-> [x \in B |->
                      IF rows[n] \in within THEN AddLog(x, rows[n]) ELSE x]]
           f == CHOOSE bucket : IsBucket(bucket, rows, interval, period)
<1>1. N \in Nat /\ \A n \in 1 .. N : rows[n] \in Rows
  OBVIOUS
<1>2. b \in B
  BY DEF NewBucket
<1>3. ASSUME NEW x \in B, NEW row \in Rows
      PROVE  /\ AddLog(x, row) \in B
             /\ AddLog(x, row).total_requests = x.total_requests + One(row \in Rows)
             /\ AddLog(x, row).allowed = x.allowed + One(row \in Decided("allow"))
             /\ AddLog(x, row).denied = x.denied + One(row \in Decided("deny"))
             /\ AddLog(x, row).challenge_otp = x.challenge_otp + One(row \in Decided("challenge_otp"))
  <2>1. row.score \in Int /\ row.decision \in {"allow", "challenge_otp", "deny"}
    BY RowType
  <2>2. /\ One(row \in Rows) = 1
        /\ One(row.decision = "allow") = One(row \in Decided("allow"))
        /\ One(row.decision \notin {"allow", "challenge_otp"}) = One(row \in Decided("deny"))
        /\ One(row.decision = "challenge_otp") = One(row \in Decided("challenge_otp"))
    BY <2>1 DEF One, Decided
  <2>3. /\ One(row \in Decided("allow")) \in Int /\ One(row \in Decided("deny")) \in Int
        /\ One(row \in Decided("challenge_otp")) \in Int
        /\ One(Policy!is_high_risk(row.score)) \in Int
    BY DEF One
  <2>4. AddLog(x, row) = [x EXCEPT
          !.total_requests   = @ + 1,
          !.allowed          = @ + One(row \in Decided("allow")),
          !.challenge_otp    = @ + One(row \in Decided("challenge_otp")),
          !.denied           = @ + One(row \in Decided("deny")),
          !.risk_sum         = @ + row.score,
          !.high_risk_events = @ + One(Policy!is_high_risk(row.score))]
    BY <2>2 DEF AddLog
  <2>5. /\ AddLog(x, row).total_requests = x.total_requests + 1
        /\ AddLog(x, row).allowed = x.allowed + One(row \in Decided("allow"))
        /\ AddLog(x, row).denied = x.denied + One(row \in Decided("deny"))
        /\ AddLog(x, row).challenge_otp = x.challenge_otp + One(row \in Decided("challenge_otp"))
    BY <2>4
  <2>6. AddLog(x, row) \in B
    <3>1. x = [period |-> x.period, total_requests |-> x.total_requests,
               allowed |-> x.allowed, challenge_otp |-> x.challenge_otp,
               denied |-> x.denied, risk_sum |-> x.risk_sum,
               high_risk_events |-> x.high_risk_events]
      OBVIOUS
    <3>2. AddLog(x, row)
            = [period |-> x.period, total_requests |-> x.total_requests + 1,
               allowed |-> x.allowed + One(row \in Decided("allow")),
               challenge_otp |-> x.challenge_otp + One(row \in Decided("challenge_otp")),
               denied |-> x.denied + One(row \in Decided("deny")),
               risk_sum |-> x.risk_sum + row.score,
               high_risk_events |-> x.high_risk_events + One(Policy!is_high_risk(row.score))]
      BY <2>4, <3>1
    <3>3. /\ x.period = period /\ x.total_requests + 1 \in Int
          /\ x.allowed + One(row \in Decided("allow")) \in Int
          /\ x.denied + One(row \in Decided("deny")) \in Int
          /\ x.challenge_otp + One(row \in Decided("challenge_otp")) \in Int
      BY <2>3
    <3>4. x.risk_sum + row.score \in Int
      BY <2>1
    <3>5. x.high_risk_events + One(Policy!is_high_risk(row.score)) \in Int
      <4> DEFINE h == One(Policy!is_high_risk(row.score))
      <4>1. h \in Int
        BY <2>3
      <4> HIDE DEF h
      <4>2. x.high_risk_events + h \in Int
        BY <4>1
      <4> QED
        BY <4>2 DEF h
    <3> QED
      BY <3>2, <3>3, <3>4, <3>5
  <2> HIDE DEF B
  <2> QED
    BY <2>2, <2>5, <2>6
<1> HIDE DEF B, b
<1>4. step \in [1 .. N -> [B -> B]]
  BY <1>1, <1>3
<1>5. \A n \in 1 .. N : rows[n] \in within <=> Period(rows[n].hour, interval) = period
  BY <1>1 DEF Within
<1>6. \E bucket : IsBucket(bucket, rows, interval, period)
  <2>1. PICK g : Runs(g, N, B, b, step)
    <3> HIDE DEF step, N
    <3> QED
      BY <1>1, <1>2, <1>4, Loop
  <2>2. g \in [0 .. N -> B] /\ g[0] = b /\ \A n \in 1 .. N : g[n] = step[n][g[n - 1]]
    <3> HIDE DEF step, N
    <3> QED
      BY <2>1 DEF Runs
  <2>3. ASSUME NEW n \in 1 .. N
        PROVE  g[n] = IF Period(rows[n].hour, interval) = period
                      THEN AddLog(g[n - 1], rows[n]) ELSE g[n - 1]
    <3>1. g[n] = step[n][g[n - 1]] /\ g[n - 1] \in B
      <4> HIDE DEF step
      <4> QED
        BY <1>1, <2>2
    <3>2. \A x \in B : step[n][x] = IF rows[n] \in within THEN AddLog(x, rows[n]) ELSE x
      OBVIOUS
    <3> HIDE DEF step, within
    <3> QED
      BY <1>5, <3>1, <3>2
  <2>4. IsBucket(g, rows, interval, period)
    <3> HIDE DEF step
    <3> QED
      BY <1>1, <2>2, <2>3 DEF IsBucket, b
  <2> QED
    BY <2>4
<1>7. IsBucket(f, rows, interval, period)
  BY <1>6
<1> HIDE DEF f
<1>8. f[0] = b /\ \A n \in 1 .. N :
        f[n] = IF rows[n] \in within THEN AddLog(f[n - 1], rows[n]) ELSE f[n - 1]
  <2> HIDE DEF within
  <2>1. f = [n \in 0 .. N |->
                IF n = 0 THEN b
                ELSE IF Period(rows[n].hour, interval) = period
                     THEN AddLog(f[n - 1], rows[n])
                     ELSE f[n - 1]]
    BY <1>7 DEF IsBucket, b
  <2>2. f[0] = b
    BY <1>1, <2>1
  <2>3. ASSUME NEW n \in 1 .. N
        PROVE  f[n] = IF rows[n] \in within THEN AddLog(f[n - 1], rows[n]) ELSE f[n - 1]
    <3>1. n \in 0 .. N /\ n # 0
      BY <1>1
    <3> QED
      BY <1>5, <2>1, <3>1
  <2> QED
    BY <2>2, <2>3
<1> HIDE DEF within
<1>9. \A n \in 0 .. N : f[n] \in B
  <2> DEFINE T == {n \in 0 .. N : f[n] \in B}
  <2>1. 0 \in T
    BY <1>1, <1>2, <1>8
  <2>2. ASSUME NEW n \in 0 .. N - 1, n \in T PROVE n + 1 \in T
    <3>1. n + 1 \in 1 .. N /\ n + 1 \in 0 .. N /\ n + 1 - 1 = n
      BY <1>1
    <3>2. f[n + 1] = IF rows[n + 1] \in within THEN AddLog(f[n], rows[n + 1]) ELSE f[n]
      BY <1>8, <3>1
    <3>3. f[n] \in B /\ rows[n + 1] \in Rows
      BY <1>1, <2>2, <3>1
    <3>4. AddLog(f[n], rows[n + 1]) \in B
      BY <1>3, <3>3 DEF B
    <3> QED
      BY <3>1, <3>2, <3>3, <3>4
  <2>3. \A n \in 0 .. N : n \in T
    <3> HIDE DEF T, N
    <3> QED
      BY <1>1, <2>1, <2>2, UpTo
  <2> QED
    BY <2>3
<1> DEFINE total == [n \in 0 .. N |-> f[n].total_requests]
           allowed == [n \in 0 .. N |-> f[n].allowed]
           denied == [n \in 0 .. N |-> f[n].denied]
           otp == [n \in 0 .. N |-> f[n].challenge_otp]
<1>10. /\ total \in [0 .. N -> Int] /\ allowed \in [0 .. N -> Int]
       /\ denied \in [0 .. N -> Int] /\ otp \in [0 .. N -> Int]
  BY <1>9 DEF B
<1>11. total[0] = 0 /\ allowed[0] = 0 /\ denied[0] = 0 /\ otp[0] = 0
  BY <1>1, <1>8 DEF b, NewBucket
<1>12. ASSUME NEW n \in 1 .. N
       PROVE  /\ rows[n] \in within =>
                   /\ total[n] = total[n - 1] + One(rows[n] \in Rows)
                   /\ allowed[n] = allowed[n - 1] + One(rows[n] \in Decided("allow"))
                   /\ denied[n] = denied[n - 1] + One(rows[n] \in Decided("deny"))
                   /\ otp[n] = otp[n - 1] + One(rows[n] \in Decided("challenge_otp"))
              /\ rows[n] \notin within =>
                   /\ total[n] = total[n - 1] /\ allowed[n] = allowed[n - 1]
                   /\ denied[n] = denied[n - 1] /\ otp[n] = otp[n - 1]
  <2>1. n \in 0 .. N /\ n - 1 \in 0 .. N /\ rows[n] \in Rows
    BY <1>1
  <2>2. f[n - 1] \in B
    BY <1>9, <2>1
  <2>3. /\ total[n] = f[n].total_requests /\ total[n - 1] = f[n - 1].total_requests
        /\ allowed[n] = f[n].allowed /\ allowed[n - 1] = f[n - 1].allowed
        /\ denied[n] = f[n].denied /\ denied[n - 1] = f[n - 1].denied
        /\ otp[n] = f[n].challenge_otp /\ otp[n - 1] = f[n - 1].challenge_otp
    BY <2>1
  <2> HIDE DEF total, allowed, denied, otp
  <2>4. CASE rows[n] \in within
    <3>1. f[n] = AddLog(f[n - 1], rows[n])
      BY <1>8, <2>4
    <3>2. /\ f[n].total_requests = f[n - 1].total_requests + One(rows[n] \in Rows)
          /\ f[n].allowed = f[n - 1].allowed + One(rows[n] \in Decided("allow"))
          /\ f[n].denied = f[n - 1].denied + One(rows[n] \in Decided("deny"))
          /\ f[n].challenge_otp = f[n - 1].challenge_otp + One(rows[n] \in Decided("challenge_otp"))
      BY <1>3, <2>1, <2>2, <3>1
    <3> QED
      BY <2>3, <2>4, <3>2
  <2>5. CASE rows[n] \notin within
    BY <1>8, <2>3, <2>5
  <2> QED
    BY <2>4, <2>5
<1>13. f[N].period = period
  BY <1>1, <1>9 DEF B
<1> HIDE DEF total, allowed, denied, otp
<1>14. /\ Steps(total, rows, within, Rows)
       /\ Steps(allowed, rows, within, Decided("allow"))
       /\ Steps(denied, rows, within, Decided("deny"))
       /\ Steps(otp, rows, within, Decided("challenge_otp"))
  BY <1>10, <1>11, <1>12 DEF Steps
<1>15. /\ total[N] = HowMany(rows, within \cap Rows)
       /\ allowed[N] = HowMany(rows, within \cap Decided("allow"))
       /\ denied[N] = HowMany(rows, within \cap Decided("deny"))
       /\ otp[N] = HowMany(rows, within \cap Decided("challenge_otp"))
  BY <1>14, CountedWithin
<1>16. Bucket(rows, interval, period) = f[N]
  BY DEF Bucket, f
<1>17. /\ f[N].total_requests = total[N] /\ f[N].allowed = allowed[N]
       /\ f[N].denied = denied[N] /\ f[N].challenge_otp = otp[N]
  BY <1>1 DEF total, allowed, denied, otp
<1> QED
  BY <1>13, <1>15, <1>16, <1>17 DEF within, BucketFits

\* What is counted in each period of a log adds up to what is counted in it.
CountsIn(numbers, rows, interval, these) ==
    /\ numbers \in [DOMAIN Periods(rows, interval) -> Int]
    /\ \A k \in DOMAIN Periods(rows, interval) :
         numbers[k] = HowMany(rows, Within(interval, Periods(rows, interval)[k]) \cap these)

LEMMA PeriodsTotal ==
    ASSUME NEW rows \in Seq(Rows), NEW interval, NEW these, NEW numbers,
           CountsIn(numbers, rows, interval, these)
    PROVE  Total(numbers) = HowMany(rows, these)
<1> DEFINE list == Periods(rows, interval)
           U == At(rows, these)
<1>1. PICK N \in Nat :
        /\ list \in [1 .. N -> PeriodsIn(rows, interval)]
        /\ \A k, m \in 1 .. N : k < m => list[k] < list[m]
        /\ \A p \in PeriodsIn(rows, interval) : \E k \in 1 .. N : list[k] = p
  <2>1. Ascending(list, PeriodsIn(rows, interval))
    BY PeriodsAscend
  <2> HIDE DEF list, U
  <2> QED
    BY <2>1 DEF Ascending
<1> DEFINE part == [k \in 1 .. N |-> At(rows, Within(interval, list[k]) \cap these)]
<1>2. PeriodsIn(rows, interval) \subseteq Nat
  BY PeriodType
<1> HIDE DEF list
<1>3. IsFiniteSet(U)
  BY HowManyType
<1>4. part \in [1 .. N -> SUBSET U]
  BY DEF At
<1>5. ASSUME NEW k \in 1 .. N, NEW i
      PROVE  i \in part[k] <=> i \in U /\ Period(rows[i].hour, interval) = list[k]
  <2>1. part[k] = At(rows, Within(interval, list[k]) \cap these)
    OBVIOUS
  <2>2. i \in DOMAIN rows => rows[i] \in Rows
    OBVIOUS
  <2> HIDE DEF part
  <2> QED
    BY <2>1, <2>2 DEF At, Within
<1>6. numbers \in [1 .. N -> Int] /\ \A k \in 1 .. N : numbers[k] = Cardinality(part[k])
  <2>1. DOMAIN list = 1 .. N
    BY <1>1
  <2> QED
    BY <2>1 DEF CountsIn, HowMany, list
<1> HIDE DEF part
<1>7. \A k, m \in 1 .. N : k # m => part[k] \cap part[m] = {}
  <2> SUFFICES ASSUME NEW k \in 1 .. N, NEW m \in 1 .. N, k # m, NEW i \in part[k] \cap part[m]
               PROVE  FALSE
    OBVIOUS
  <2>1. list[k] = list[m]
    BY <1>5
  <2>2. list[k] \in Nat
    BY <1>1, <1>2
  <2>3. k < m \/ m < k
    OBVIOUS
  <2> QED
    BY <1>1, <2>1, <2>2, <2>3
<1>8. ASSUME NEW i \in U PROVE \E k \in 1 .. N : i \in part[k]
  <2>1. Period(rows[i].hour, interval) \in PeriodsIn(rows, interval)
    BY Zenon DEF PeriodsIn, At
  <2>2. PICK k \in 1 .. N : list[k] = Period(rows[i].hour, interval)
    BY <1>1, <2>1
  <2> QED
    BY <1>5, <2>2
<1> HIDE DEF U
<1>9. Total(numbers) = Cardinality(U)
  <2>1. Parts(U, N, part, numbers)
    BY <1>3, <1>4, <1>6, <1>7, <1>8 DEF Parts
  <2> QED
    BY <2>1, TotalOfParts
<1> QED
  BY <1>9 DEF HowMany, U

\* How many rows of a period were decided so.
DecidedIn(rows, interval, period, decision) ==
    Count(rows, LAMBDA row : Period(row.hour, interval) = period /\ row.decision = decision)

LEMMA CountedDecided ==
    ASSUME NEW rows \in Seq(Rows), NEW interval, NEW period, NEW decision
    PROVE  DecidedIn(rows, interval, period, decision)
             = HowMany(rows, Within(interval, period) \cap Decided(decision))
<1>1. \A i \in DOMAIN rows : rows[i] \in Rows
  OBVIOUS
<1>2. {i \in DOMAIN rows : Period(rows[i].hour, interval) = period /\ rows[i].decision = decision}
        = At(rows, Within(interval, period) \cap Decided(decision))
  BY <1>1 DEF At, Within, Decided
<1> QED
  BY <1>2 DEF DecidedIn, Count, HowMany

\* What the legacy documents state of all rows.
DocumentsFit(pdf, package, rows) ==
    /\ pdf.total = HowMany(rows, Rows)
    /\ pdf.denied = HowMany(rows, Refused)
    /\ pdf.high_risk = HowMany(rows, Severe)
    /\ package.deny = HowMany(rows, Decided("deny"))

LEMMA DocumentCounts ==
    ASSUME NEW rows \in Seq(Rows)
    PROVE  DocumentsFit(_section_executive_summary(rows, TRUE),
                        generate_forensic_summary(rows), rows)
<1> DEFINE allowed == Count(rows, LAMBDA row : row.decision = "allow")
<1>1. \A i \in DOMAIN rows : rows[i] \in Rows
  OBVIOUS
<1>2. allowed = HowMany(rows, Decided("allow"))
  <2>1. {i \in DOMAIN rows : rows[i].decision = "allow"} = At(rows, Decided("allow"))
    BY <1>1 DEF At, Decided
  <2> QED
    BY <2>1 DEF Count, HowMany
<1>3. Count(rows, LAMBDA row : row.decision = "deny") = HowMany(rows, Decided("deny"))
  <2>1. {i \in DOMAIN rows : rows[i].decision = "deny"} = At(rows, Decided("deny"))
    BY <1>1 DEF At, Decided
  <2> QED
    BY <2>1 DEF Count, HowMany
<1>4. Count(rows, LAMBDA row : Points(row) >= 70) = HowMany(rows, Severe)
  <2>1. {i \in DOMAIN rows : Points(rows[i]) >= 70} = At(rows, Severe)
    BY <1>1 DEF At, Severe
  <2> QED
    BY <2>1 DEF Count, HowMany
<1>5. HowMany(rows, Rows) = Len(rows)
  <2>1. At(rows, Rows) = 1 .. Len(rows) /\ Len(rows) \in Nat
    BY <1>1 DEF At
  <2>2. Cardinality(1 .. Len(rows)) = Len(rows)
    BY CardinalityOfRows
  <2> QED
    BY <2>1, <2>2 DEF HowMany
<1>6. HowMany(rows, Rows) = HowMany(rows, Decided("allow")) + HowMany(rows, Refused)
  <2>1. /\ \A row \in Rows : ~(row \in Decided("allow") /\ row \in Refused)
        /\ \A row \in Rows : row \in Rows <=> row \in Decided("allow") \/ row \in Refused
    BY DEF Decided, Refused
  <2> QED
    BY <2>1, HowManyUnion
<1>7. /\ HowMany(rows, Decided("allow")) \in Nat /\ HowMany(rows, Refused) \in Nat
      /\ Len(rows) \in Nat
  BY HowManyType
<1> HIDE DEF allowed
<1>8. Len(rows) - allowed = HowMany(rows, Refused)
  BY <1>2, <1>5, <1>6, <1>7
<1>9. /\ _section_executive_summary(rows, TRUE).total = Len(rows)
      /\ _section_executive_summary(rows, TRUE).denied = Len(rows) - allowed
      /\ _section_executive_summary(rows, TRUE).high_risk
           = Count(rows, LAMBDA row : Points(row) >= 70)
      /\ generate_forensic_summary(rows).deny = Count(rows, LAMBDA row : row.decision = "deny")
  BY DEF _section_executive_summary, generate_forensic_summary, allowed
<1> QED
  BY <1>3, <1>4, <1>5, <1>8, <1>9 DEF DocumentsFit

\* What each bucket has, in the terms of the log.
LEMMA TimelineBuckets ==
    ASSUME logs \in Seq(Rows), NEW interval
    PROVE  LET list == Periods(logs, interval)
               new  == forensics_timeline(interval)
               old  == group_records_by_period(logs, interval)
           IN  /\ DOMAIN new = DOMAIN list /\ DOMAIN old = DOMAIN list
               /\ \A k \in DOMAIN list :
                    LET within == Within(interval, list[k])
                    IN  /\ new[k].period = list[k] /\ old[k].period = list[k]
                        /\ new[k].total_requests = HowMany(logs, within \cap Rows)
                        /\ old[k].total_requests = HowMany(logs, within \cap Rows)
                        /\ new[k].allowed = HowMany(logs, within \cap Decided("allow"))
                        /\ old[k].allowed = HowMany(logs, within \cap Decided("allow"))
                        /\ new[k].challenge_otp
                             = HowMany(logs, within \cap Decided("challenge_otp"))
                        /\ new[k].denied = HowMany(logs, within \cap Decided("deny"))
                        /\ old[k].denied = HowMany(logs, within \cap Refused)
                        /\ old[k].high_risk_events = HowMany(logs, within \cap Severe)
<1> DEFINE list == Periods(logs, interval)
           rows == ByTime(logs)
<1>1. rows \in Seq(Rows) /\ \A these : HowMany(rows, these) = HowMany(logs, these)
  BY ByTimeRows, ByTimeCounts
<1>2. Periods(rows, interval) = list
  BY SamePeriods
<1>3. forensics_timeline(interval) = [k \in DOMAIN list |-> Bucket(rows, interval, list[k])]
  BY <1>2, Buckets
<1>4. group_records_by_period(logs, interval)
        = [k \in DOMAIN list |-> PeriodBucket(logs, interval, list[k])]
  BY PeriodBuckets
<1> HIDE DEF list, rows
<1>5. ASSUME NEW p PROVE PeriodFits(PeriodBucket(logs, interval, p), logs, interval, p)
  BY PeriodCounts
<1>6. ASSUME NEW p PROVE BucketFits(Bucket(rows, interval, p), logs, interval, p)
  <2>1. BucketFits(Bucket(rows, interval, p), rows, interval, p)
    BY <1>1, BucketCounts, Zenon
  <2> QED
    BY <1>1, <2>1 DEF BucketFits
<1>7. /\ DOMAIN forensics_timeline(interval) = DOMAIN list
      /\ DOMAIN group_records_by_period(logs, interval) = DOMAIN list
      /\ \A k \in DOMAIN list :
           /\ forensics_timeline(interval)[k] = Bucket(rows, interval, list[k])
           /\ group_records_by_period(logs, interval)[k]
                = PeriodBucket(logs, interval, list[k])
  BY <1>3, <1>4
<1>8. ASSUME NEW k \in DOMAIN list
      PROVE  /\ PeriodFits(group_records_by_period(logs, interval)[k], logs, interval, list[k])
             /\ BucketFits(forensics_timeline(interval)[k], logs, interval, list[k])
  BY <1>5, <1>6, <1>7
<1> QED
  BY <1>7, <1>8 DEF list, PeriodFits, BucketFits

LEMMA TimelinesFit == logs \in Seq(Rows) => TimelinesAgree
<1> SUFFICES ASSUME logs \in Seq(Rows), NEW interval \in {"hour", "day"}
             PROVE  LET new == forensics_timeline(interval)
                        old == group_records_by_period(logs, interval)
                        pdf == _section_executive_summary(logs, TRUE)
                        Is(k, decision) ==
                          Count(logs, LAMBDA row : /\ Period(row.hour, interval) = new[k].period
                                                   /\ row.decision = decision)
                    IN  /\ Len(new) = Len(old)
                        /\ \A k \in DOMAIN new :
                             /\ k > 1 => new[k - 1].period < new[k].period
                             /\ new[k].period = old[k].period
                             /\ new[k].total_requests = old[k].total_requests
                             /\ new[k].allowed = Is(k, "allow") /\ old[k].allowed = Is(k, "allow")
                             /\ new[k].challenge_otp = Is(k, "challenge_otp")
                             /\ new[k].denied = Is(k, "deny")
                             /\ old[k].denied = new[k].denied + new[k].challenge_otp
                        /\ Total([k \in DOMAIN old |-> old[k].total_requests]) = pdf.total
                        /\ Total([k \in DOMAIN old |-> old[k].denied]) = pdf.denied
                        /\ Total([k \in DOMAIN old |-> old[k].high_risk_events]) = pdf.high_risk
                        /\ Total([k \in DOMAIN new |-> new[k].denied])
                             = generate_forensic_summary(logs).deny
  BY DEF TimelinesAgree
<1> DEFINE list == Periods(logs, interval)
           new == forensics_timeline(interval)
           old == group_records_by_period(logs, interval)
           pdf == _section_executive_summary(logs, TRUE)
           within(k) == Within(interval, list[k])
           Is(k, decision) ==
             Count(logs, LAMBDA row : /\ Period(row.hour, interval) = new[k].period
                                      /\ row.decision = decision)
<1>1. /\ DOMAIN new = DOMAIN list /\ DOMAIN old = DOMAIN list
      /\ \A k \in DOMAIN list :
           /\ new[k].period = list[k] /\ old[k].period = list[k]
           /\ new[k].total_requests = HowMany(logs, within(k) \cap Rows)
           /\ old[k].total_requests = HowMany(logs, within(k) \cap Rows)
           /\ new[k].allowed = HowMany(logs, within(k) \cap Decided("allow"))
           /\ old[k].allowed = HowMany(logs, within(k) \cap Decided("allow"))
           /\ new[k].challenge_otp = HowMany(logs, within(k) \cap Decided("challenge_otp"))
           /\ new[k].denied = HowMany(logs, within(k) \cap Decided("deny"))
           /\ old[k].denied = HowMany(logs, within(k) \cap Refused)
           /\ old[k].high_risk_events = HowMany(logs, within(k) \cap Severe)
  BY TimelineBuckets
<1>2. PICK N \in Nat :
        /\ DOMAIN list = 1 .. N
        /\ \A k, m \in 1 .. N : k < m => list[k] < list[m]
  <2>1. Ascending(list, PeriodsIn(logs, interval))
    BY PeriodsAscend
  <2> HIDE DEF list
  <2> QED
    BY <2>1 DEF Ascending
<1>3. new = [k \in 1 .. N |-> new[k]] /\ old = [k \in 1 .. N |-> old[k]]
  <2>1. /\ new = [k \in DOMAIN new |-> new[k]]
        /\ old = [k \in DOMAIN old |-> old[k]]
    BY DEF forensics_timeline, group_records_by_period
  <2> QED
    BY <1>1, <1>2, <2>1
<1> HIDE DEF list, new, old
<1>4. Len(new) = Len(old)
  BY <1>1, <1>2
<1>5. ASSUME NEW k \in DOMAIN new, k > 1 PROVE new[k - 1].period < new[k].period
  <2>1. k \in 1 .. N /\ k - 1 \in 1 .. N /\ k - 1 < k
    BY <1>1, <1>2, <1>5
  <2> QED
    BY <1>1, <1>2, <2>1
<1>6. ASSUME NEW k \in DOMAIN new, NEW decision
      PROVE  Is(k, decision) = HowMany(logs, within(k) \cap Decided(decision))
  <2>1. Is(k, decision) = DecidedIn(logs, interval, new[k].period, decision)
    BY DEF DecidedIn
  <2>2. new[k].period = list[k]
    BY <1>1
  <2> QED
    BY <2>1, <2>2, CountedDecided
<1>7. ASSUME NEW k \in DOMAIN new
      PROVE  old[k].denied = new[k].denied + new[k].challenge_otp
  <2>1. HowMany(logs, within(k) \cap Refused)
          = HowMany(logs, within(k) \cap Decided("deny"))
              + HowMany(logs, within(k) \cap Decided("challenge_otp"))
    <3>1. ASSUME NEW row \in Rows
          PROVE  /\ ~(/\ row \in within(k) \cap Decided("deny")
                      /\ row \in within(k) \cap Decided("challenge_otp"))
                 /\ row \in within(k) \cap Refused
                      <=> \/ row \in within(k) \cap Decided("deny")
                          \/ row \in within(k) \cap Decided("challenge_otp")
      BY RowType DEF Decided, Refused
    <3> QED
      BY <3>1, HowManyUnion
  <2> QED
    BY <1>1, <2>1
<1>8. /\ Total([k \in DOMAIN old |-> old[k].total_requests]) = HowMany(logs, Rows)
      /\ Total([k \in DOMAIN old |-> old[k].denied]) = HowMany(logs, Refused)
      /\ Total([k \in DOMAIN old |-> old[k].high_risk_events]) = HowMany(logs, Severe)
      /\ Total([k \in DOMAIN new |-> new[k].denied]) = HowMany(logs, Decided("deny"))
  <2>1. ASSUME NEW these PROVE HowMany(logs, these) \in Int
    BY HowManyType
  <2>2. CountsIn([k \in DOMAIN old |-> old[k].total_requests], logs, interval, Rows)
    BY <1>1, <2>1 DEF CountsIn, list
  <2>3. CountsIn([k \in DOMAIN old |-> old[k].denied], logs, interval, Refused)
    BY <1>1, <2>1 DEF CountsIn, list
  <2>4. CountsIn([k \in DOMAIN old |-> old[k].high_risk_events], logs, interval, Severe)
    BY <1>1, <2>1 DEF CountsIn, list
  <2>5. CountsIn([k \in DOMAIN new |-> new[k].denied], logs, interval, Decided("deny"))
    BY <1>1, <2>1 DEF CountsIn, list
  <2> HIDE DEF new, old
  <2>6. Total([k \in DOMAIN old |-> old[k].total_requests]) = HowMany(logs, Rows)
    BY <2>2, PeriodsTotal
  <2>7. Total([k \in DOMAIN old |-> old[k].denied]) = HowMany(logs, Refused)
    BY <2>3, PeriodsTotal
  <2>8. Total([k \in DOMAIN old |-> old[k].high_risk_events]) = HowMany(logs, Severe)
    BY <2>4, PeriodsTotal
  <2>9. Total([k \in DOMAIN new |-> new[k].denied]) = HowMany(logs, Decided("deny"))
    BY <2>5, PeriodsTotal
  <2> QED
    BY <2>6, <2>7, <2>8, <2>9
<1>9. /\ pdf.total = HowMany(logs, Rows) /\ pdf.denied = HowMany(logs, Refused)
      /\ pdf.high_risk = HowMany(logs, Severe)
      /\ generate_forensic_summary(logs).deny = HowMany(logs, Decided("deny"))
  BY DocumentCounts DEF DocumentsFit
<1> HIDE DEF within, Is, pdf
<1>10. ASSUME NEW k \in DOMAIN new
       PROVE  /\ k > 1 => new[k - 1].period < new[k].period
              /\ new[k].period = old[k].period
              /\ new[k].total_requests = old[k].total_requests
              /\ new[k].allowed = Is(k, "allow") /\ old[k].allowed = Is(k, "allow")
              /\ new[k].challenge_otp = Is(k, "challenge_otp")
              /\ new[k].denied = Is(k, "deny")
              /\ old[k].denied = new[k].denied + new[k].challenge_otp
  <2>1. /\ new[k].period = old[k].period
        /\ new[k].total_requests = old[k].total_requests
    BY <1>1
  <2>2. new[k].allowed = Is(k, "allow") /\ old[k].allowed = Is(k, "allow")
    BY <1>1, <1>6
  <2>3. new[k].challenge_otp = Is(k, "challenge_otp") /\ new[k].denied = Is(k, "deny")
    BY <1>1, <1>6
  <2>4. k > 1 => new[k - 1].period < new[k].period
    BY <1>5
  <2>5. old[k].denied = new[k].denied + new[k].challenge_otp
    BY <1>7
  <2> QED
    BY <2>1, <2>2, <2>3, <2>4, <2>5, Zenon
<1>11. /\ Total([k \in DOMAIN old |-> old[k].total_requests]) = pdf.total
       /\ Total([k \in DOMAIN old |-> old[k].denied]) = pdf.denied
       /\ Total([k \in DOMAIN old |-> old[k].high_risk_events]) = pdf.high_risk
       /\ Total([k \in DOMAIN new |-> new[k].denied])
            = generate_forensic_summary(logs).deny
  BY <1>8, <1>9
<1> QED
  BY <1>4, <1>10, <1>11, Zenon DEF new, old, pdf, Is

\* Both timelines put every row into the bucket of its period, and state what
\* the documents state.
THEOREM TimelinesDoAgree == Spec => []TimelinesAgree
<1>1. TypeInv => TimelinesAgree
  BY TimelinesFit DEF TypeInv
<1> QED
  BY <1>1, TypeCorrect, PTL

=============================================================================
