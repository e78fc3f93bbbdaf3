---------------------------- MODULE BudgetProofs ----------------------------
(***************************************************************************)
(* Proofs about BudgetGuard.                                               *)
(***************************************************************************)
EXTENDS BudgetGuard, WellFoundedInduction, TLAPS

(***************************************************************************)
(* Facts about SumTo.  Induction is carried by the least element of a set  *)
(* of counterexamples, which the library's WFMin provides.                 *)
(***************************************************************************)

(* A non-empty set of naturals has a least element. *)
LEMMA LeastElement ==
  ASSUME NEW S, S \subseteq Nat, S # {}
  PROVE  \E n \in S : \A m \in S : n <= m
<1> DEFINE R == {p \in Nat \X Nat : p[1] < p[2]}
<1>1. IsWellFoundedOn(R, Nat)
  BY NatLessThanWellFounded DEF OpToRel
<1>2. PICK n \in S : \A m \in S : ~ (<<m, n>> \in R)
  BY <1>1, WFMin
<1>3. \A m \in S : ~ (m < n)
  BY <1>2
<1> QED
  BY <1>3

(* A set of naturals closed under successor that starts at 0 has them all, *)
(* up to any bound.                                                        *)
LEMMA BoundedInduction ==
  ASSUME NEW n \in Nat, NEW S, 0 \in S,
         \A m \in 1..n : m - 1 \in S => m \in S
  PROVE  0..n \subseteq S
<1> DEFINE Bad == {m \in 0..n : m \notin S}
<1>1. SUFFICES ASSUME Bad # {} PROVE FALSE
  OBVIOUS
<1>0. Bad \subseteq Nat
  OBVIOUS
<1>2. PICK m \in Bad : \A k \in Bad : m <= k
  <2> HIDE DEF Bad
  <2> QED
    BY <1>0, <1>1, LeastElement
<1>3. m \in 1..n
  OBVIOUS
<1>4. m - 1 \notin Bad
  BY <1>2, <1>3
<1> QED
  BY <1>3, <1>4

IsPartial(g, f, n) == g = [i \in 0..n |-> IF i = 0 THEN 0 ELSE g[i-1] + f[i]]

(* The recursion that defines Partial has a solution. *)
LEMMA PartialExists ==
  ASSUME NEW f, NEW n \in Nat
  PROVE  \E g : IsPartial(g, f, n)
<1> DEFINE S == {m \in 0..n : \E g : IsPartial(g, f, m)}
<1>1. 0 \in S
  <2>1. IsPartial([i \in 0..0 |-> 0], f, 0)
    BY DEF IsPartial
  <2> QED
    BY <2>1
<1>2. ASSUME NEW m \in 1..n, m - 1 \in S PROVE m \in S
  <2>1. PICK g : IsPartial(g, f, m - 1)
    BY <1>2
  <2> DEFINE h == [i \in 0..m |-> IF i = m THEN g[m-1] + f[m] ELSE g[i]]
  <2>2. \A i \in 0..m : h[i] = IF i = 0 THEN 0 ELSE h[i-1] + f[i]
    <3>1. ASSUME NEW i \in 0..m PROVE h[i] = IF i = 0 THEN 0 ELSE h[i-1] + f[i]
      <4>1. CASE i = m
        <5>1. i # 0 /\ i - 1 \in 0..m /\ i - 1 # m
          BY <4>1
        <5> QED
          BY <4>1, <5>1
      <4>2. CASE i # m
        <5>1. i \in 0..(m-1)
          BY <4>2
        <5>2. g[i] = IF i = 0 THEN 0 ELSE g[i-1] + f[i]
          BY <2>1, <5>1 DEF IsPartial
        <5>3. i # 0 => i - 1 \in 0..m /\ i - 1 # m
          BY <5>1
        <5> QED
          BY <4>2, <5>2, <5>3
      <4> QED
        BY <4>1, <4>2
    <3> QED
      BY <3>1
  <2>3. h = [i \in 0..m |-> IF i = 0 THEN 0 ELSE h[i-1] + f[i]]
    BY <2>2
  <2>4. IsPartial(h, f, m)
    BY <2>3 DEF IsPartial
  <2> QED
    BY <2>4
<1>3. 0..n \subseteq S
  BY <1>1, <1>2, BoundedInduction
<1> QED
  BY <1>3

LEMMA PartialDef ==
  ASSUME NEW f, NEW n \in Nat
  PROVE  IsPartial(Partial(f, n), f, n)
BY PartialExists DEF Partial, IsPartial

(* Partial sums do not depend on how far the table goes on. *)
LEMMA PartialCoherent ==
  ASSUME NEW f, NEW n \in Nat \ {0}
  PROVE  Partial(f, n)[n-1] = Partial(f, n-1)[n-1]
<1> DEFINE S == {m \in 0..(n-1) : Partial(f, n)[m] = Partial(f, n-1)[m]}
<1>1. /\ \A i \in 0..n : Partial(f, n)[i] = IF i = 0 THEN 0 ELSE Partial(f, n)[i-1] + f[i]
      /\ \A i \in 0..(n-1) : Partial(f, n-1)[i] =
            IF i = 0 THEN 0 ELSE Partial(f, n-1)[i-1] + f[i]
  BY PartialDef DEF IsPartial
<1>2. 0 \in S
  BY <1>1
<1>3. ASSUME NEW m \in 1..(n-1), m - 1 \in S PROVE m \in S
  BY <1>1, <1>3
<1>4. 0..(n-1) \subseteq S
  <2> HIDE DEF S
  <2>1. n - 1 \in Nat
    OBVIOUS
  <2> QED
    BY <1>2, <1>3, <2>1, BoundedInduction
<1> QED
  BY <1>4

(* The two equations by which SumTo is used below. *)
LEMMA SumZero == \A f : SumTo(f, 0) = 0
BY PartialDef DEF SumTo, IsPartial

LEMMA SumStep ==
  ASSUME NEW f, NEW n \in Nat \ {0}
  PROVE  SumTo(f, n) = SumTo(f, n - 1) + f[n]
<1>1. Partial(f, n)[n] = Partial(f, n)[n-1] + f[n]
  BY PartialDef DEF IsPartial
<1> QED
  BY <1>1, PartialCoherent DEF SumTo

(* Totals of integer columns are integers. *)
LEMMA SumInt ==
  ASSUME NEW n \in Nat, NEW f, \A i \in 1..n : f[i] \in Int
  PROVE  SumTo(f, n) \in Int
<1> DEFINE S == {m \in 0..n : SumTo(f, m) \in Int}
<1>1. 0 \in S
  BY SumZero
<1>2. ASSUME NEW m \in 1..n, m - 1 \in S PROVE m \in S
  BY <1>2, SumStep
<1>3. 0..n \subseteq S
  <2> HIDE DEF S
  <2> QED
    BY <1>1, <1>2, BoundedInduction
<1> QED
  BY <1>3

(* A total is monotone in its column. *)
LEMMA SumMonotone ==
  ASSUME NEW n \in Nat, NEW f, NEW h,
         \A i \in 1..n : f[i] \in Int /\ h[i] \in Int /\ f[i] <= h[i]
  PROVE  SumTo(f, n) <= SumTo(h, n)
<1> DEFINE S == {m \in 0..n : SumTo(f, m) <= SumTo(h, m)}
<1>1. 0 \in S
  BY SumZero
<1>2. ASSUME NEW m \in 1..n, m - 1 \in S PROVE m \in S
  <2>1. SumTo(f, m-1) \in Int /\ SumTo(h, m-1) \in Int
    BY SumInt
  <2>2. SumTo(f, m) = SumTo(f, m-1) + f[m] /\ SumTo(h, m) = SumTo(h, m-1) + h[m]
    BY SumStep
  <2> QED
    BY <1>2, <2>1, <2>2
<1>3. 0..n \subseteq S
  <2> HIDE DEF S
  <2> QED
    BY <1>1, <1>2, BoundedInduction
<1> QED
  BY <1>3

(* Columns that agree on the rows have the same total. *)
LEMMA SumEqual ==
  ASSUME NEW n \in Nat, NEW f, NEW h, \A i \in 1..n : f[i] = h[i]
  PROVE  SumTo(f, n) = SumTo(h, n)
<1> DEFINE S == {m \in 0..n : SumTo(f, m) = SumTo(h, m)}
<1>1. 0 \in S
  BY SumZero
<1>2. ASSUME NEW m \in 1..n, m - 1 \in S PROVE m \in S
  BY <1>2, SumStep
<1>3. 0..n \subseteq S
  <2> HIDE DEF S
  <2> QED
    BY <1>1, <1>2, BoundedInduction
<1> QED
  BY <1>3

(* The total of a sum of columns. *)
LEMMA SumPlus ==
  ASSUME NEW n \in Nat, NEW f, NEW a, NEW b,
         \A i \in 1..n : a[i] \in Int /\ b[i] \in Int /\ f[i] = a[i] + b[i]
  PROVE  SumTo(f, n) = SumTo(a, n) + SumTo(b, n)
<1> DEFINE S == {m \in 0..n : SumTo(f, m) = SumTo(a, m) + SumTo(b, m)}
<1>1. 0 \in S
  BY SumZero
<1>2. ASSUME NEW m \in 1..n, m - 1 \in S PROVE m \in S
  <2>1. SumTo(a, m-1) \in Int /\ SumTo(b, m-1) \in Int
    BY SumInt
  <2>2. /\ SumTo(f, m) = SumTo(f, m-1) + f[m]
        /\ SumTo(a, m) = SumTo(a, m-1) + a[m]
        /\ SumTo(b, m) = SumTo(b, m-1) + b[m]
    BY SumStep
  <2> QED
    BY <1>2, <2>1, <2>2
<1>3. 0..n \subseteq S
  <2> HIDE DEF S
  <2> QED
    BY <1>1, <1>2, BoundedInduction
<1> QED
  BY <1>3

(* The total of a column of zeros. *)
LEMMA SumOfZeros ==
  ASSUME NEW n \in Nat, NEW f, \A i \in 1..n : f[i] = 0
  PROVE  SumTo(f, n) = 0
<1> DEFINE S == {m \in 0..n : SumTo(f, m) = 0}
<1>1. 0 \in S
  BY SumZero
<1>2. ASSUME NEW m \in 1..n, m - 1 \in S PROVE m \in S
  BY <1>2, SumStep
<1>3. 0..n \subseteq S
  <2> HIDE DEF S
  <2> QED
    BY <1>1, <1>2, BoundedInduction
<1> QED
  BY <1>3

(***************************************************************************)
(* Rows, keys and windows.                                                 *)
(***************************************************************************)
LEMMA TableIsSeq ==
  ASSUME NEW S, NEW n \in Nat, NEW f \in [1..n -> S]
  PROVE  f \in Seq(S) /\ Len(f) = n
OBVIOUS

LEMMA KeyWindow == \A k \in Key : k.window \in Windows
BY RulesAssumption DEF Key, CounterKey

LEMMA CounterKeyType ==
  ASSUME NEW r \in Rules, NEW p \in Principals
  PROVE  CounterKey(r, p) \in Key
BY DEF Key

LEMMA OpenRowType ==
  ASSUME NEW w \in Windows, NEW t \in Readings
  PROVE  OpenRow(w, t) \in Row
<1>1. WindowId(w, t) \in WindowIds
  BY DEF WindowIds
<1>2. t \in Nat /\ DayLength \in Nat \ {0} /\ MonthLength \in Nat \ {0}
  BY TimeAssumption
<1>3. t % DayLength \in Int /\ t \div DayLength \in Int /\ t \div MonthLength \in Int
  BY <1>2
<1>4. NextReset(w, t) \in Int
  BY <1>2, <1>3 DEF NextReset, Never
<1> QED
  BY <1>1, <1>4 DEF OpenRow, Row

LEMMA DatabaseFields ==
  ASSUME NEW d \in Database
  PROVE  /\ d.resv \in Seq(Reservation) /\ Len(d.resv) \in Nat
         /\ Ids(d) = 1..Len(d.resv) /\ \A i \in Ids(d) : d.resv[i] \in Reservation
         /\ d.purged \subseteq Nat
         /\ d.counter \in [Key -> Row \cup {NoRow}]
         /\ d.archive \in [Key -> [WindowIds -> Int]]
         /\ d.findings \subseteq Guards
BY DEF Database, Ids

LEMMA ResetRowsType ==
  ASSUME NEW d \in Database, NEW K, NEW t \in Readings,
         \A k \in K : d.counter[k] # NoRow => d.counter[k] \in Row
  PROVE  ResetRowsIfDue(d, K, t) \in Database
<1> DEFINE due == {k \in K : ResetDue(d.counter[k], t)}
           counter == [k \in Key |-> IF k \in due THEN OpenRow(k.window, t) ELSE d.counter[k]]
           archive == [k \in Key |-> [w \in WindowIds |->
                         IF k \in due /\ d.counter[k].window = w
                         THEN d.archive[k][w] + d.counter[k].current ELSE d.archive[k][w]]]
<1>1. counter \in [Key -> Row \cup {NoRow}]
  BY KeyWindow, OpenRowType DEF Database
<1>2. archive \in [Key -> [WindowIds -> Int]]
  <2>1. ASSUME NEW k \in Key, k \in due PROVE d.counter[k].current \in Int
    BY <2>1 DEF ResetDue, Row
  <2> QED
    BY <2>1 DEF Database
<1>3. ResetRowsIfDue(d, K, t) = [d EXCEPT !.counter = counter, !.archive = archive]
  BY DEF ResetRowsIfDue, Database
<1> QED
  BY <1>1, <1>2, <1>3 DEF Database

(* Neither rolling nor creating counter rows touches a reservation. *)
LEMMA ResetRowsKeeps ==
  ASSUME NEW d \in Database, NEW K, NEW t
  PROVE  LET e == ResetRowsIfDue(d, K, t) IN
         /\ e.resv = d.resv /\ e.purged = d.purged /\ e.findings = d.findings
BY DEF ResetRowsIfDue, Database

LEMMA EnsureRowsType ==
  ASSUME NEW d \in Database, NEW K \in SUBSET Key, NEW t \in Readings
  PROVE  LET e == EnsureBudgetRows(d, K, t) IN
         /\ e \in Database
         /\ e.resv = d.resv /\ e.purged = d.purged /\ e.findings = d.findings
<1> DEFINE counter == [k \in Key |-> IF k \in K /\ d.counter[k] = NoRow
                                     THEN OpenRow(k.window, t) ELSE d.counter[k]]
           created == [d EXCEPT !.counter = counter]
<1>1. EnsureBudgetRows(d, K, t) = ResetRowsIfDue(created, K, t)
  BY DEF EnsureBudgetRows
<1>2. counter \in [Key -> Row \cup {NoRow}]
  BY KeyWindow, OpenRowType DEF Database
<1>3. /\ created \in Database
      /\ created.resv = d.resv /\ created.purged = d.purged
      /\ created.findings = d.findings /\ created.counter = counter
  BY <1>2 DEF Database
<1>4. \A k \in K : created.counter[k] # NoRow => created.counter[k] \in Row
  BY <1>2, <1>3
<1> HIDE DEF created
<1>5. ResetRowsIfDue(created, K, t) \in Database
  BY <1>3, <1>4, ResetRowsType
<1> QED
  BY <1>1, <1>3, <1>5, ResetRowsKeeps

(***************************************************************************)
(* Settling rows.                                                          *)
(***************************************************************************)
LEMMA ToCounterType ==
  ASSUME NEW d \in Database, NEW S, NEW delta, NEW k,
         \A i \in S : delta[i] \in Int
  PROVE  ToCounter(d, S, delta, k) \in Int
<1>1. Len(d.resv) \in Nat /\ Ids(d) = 1..Len(d.resv)
  BY DatabaseFields
<1> QED
  BY <1>1, SumInt DEF ToCounter

LEMMA ToArchiveType ==
  ASSUME NEW d \in Database, NEW S, NEW delta, NEW k, NEW w,
         \A i \in S : delta[i] \in Int
  PROVE  ToArchive(d, S, delta, k, w) \in Int
<1>1. Len(d.resv) \in Nat /\ Ids(d) = 1..Len(d.resv)
  BY DatabaseFields
<1> QED
  BY SMTT(30), <1>1, SumInt DEF ToArchive

LEMMA HeldByType ==
  ASSUME NEW d \in Database, NEW S
  PROVE  \A i \in Ids(d) : HeldBy(d, S)[i] \in Int
BY DatabaseFields DEF HeldBy, Reservation

LEMMA SettledRowType ==
  ASSUME NEW r \in Reservation, NEW status \in Statuses,
         NEW reported \in Int \cup {NoUsage}, NEW delta \in Int
  PROVE  SettledRow(r, status, reported, delta) \in Reservation
<1>1. r.charged + delta \in Int
  BY DEF Reservation
<1> DEFINE c == r.charged + delta
<1>2. SettledRow(r, status, reported, delta) =
        [r EXCEPT !.status = status, !.reported = reported, !.charged = c]
  BY DEF SettledRow
<1> HIDE DEF c
<1>3. c \in Int
  BY <1>1 DEF c
<1> QED
  BY <1>2, <1>3 DEF Reservation

LEMMA ChargedRowType ==
  ASSUME NEW row \in Row, NEW delta \in Int, NEW released \in Int
  PROVE  LET n == ChargedRow(row, delta, released) IN
         /\ n \in Row /\ n.window = row.window /\ n.resetAt = row.resetAt
         /\ n.current = row.current + delta
         /\ n.reserved = Larger(0, row.reserved - released)
<1> DEFINE c == row.current + delta
           h == Larger(0, row.reserved - released)
<1>1. c \in Int /\ h \in Int
  BY DEF Row, Larger
<1>2. ChargedRow(row, delta, released) = [row EXCEPT !.current = c, !.reserved = h]
  BY DEF ChargedRow
<1>3. h = Larger(0, row.reserved - released)
  OBVIOUS
<1> HIDE DEF c, h
<1>4. [row EXCEPT !.current = c, !.reserved = h] \in Row
  BY <1>1 DEF Row
<1> QED
  BY <1>1, <1>2, <1>3, <1>4 DEF Row, c

(* Settle keeps the tables in shape. *)
LEMMA SettleType ==
  ASSUME NEW d \in Database, NEW S \in SUBSET Ids(d), NEW status \in Statuses,
         NEW delta, \A i \in S : delta[i] \in Int,
         NEW reported, \A i \in S : reported[i] \in Int \cup {NoUsage},
         NEW e, e = Settle(d, S, delta, status, reported)
  PROVE  /\ e \in Database /\ e.purged = d.purged /\ e.findings = d.findings
         /\ Len(e.resv) = Len(d.resv) /\ Ids(e) = Ids(d)
<1> DEFINE resv == [i \in Ids(d) |->
              IF i \in S THEN SettledRow(d.resv[i], status, reported[i], delta[i])
              ELSE d.resv[i]]
           counter == [k \in Key |->
              IF d.counter[k] = NoRow THEN NoRow
              ELSE ChargedRow(d.counter[k], ToCounter(d, S, delta, k),
                              ToCounter(d, S, HeldBy(d, S), k))]
           archive == [k \in Key |-> [w \in WindowIds |->
              d.archive[k][w] + ToArchive(d, S, delta, k, w)]]
<1>1. e = [d EXCEPT !.resv = resv, !.counter = counter, !.archive = archive]
  BY DEF Settle
<1>2. \A k, w : ToCounter(d, S, delta, k) \in Int /\ ToArchive(d, S, delta, k, w) \in Int
  BY ToCounterType, ToArchiveType
<1>3. \A k : ToCounter(d, S, HeldBy(d, S), k) \in Int
  BY HeldByType, ToCounterType
<1>4. resv \in [1..Len(d.resv) -> Reservation]
  BY SettledRowType, DatabaseFields
<1>5. resv \in Seq(Reservation) /\ Len(resv) = Len(d.resv)
  <2> HIDE DEF resv
  <2> QED
    BY <1>4, TableIsSeq, DatabaseFields
<1>6. counter \in [Key -> Row \cup {NoRow}]
  BY <1>2, <1>3, ChargedRowType, DatabaseFields
<1>7. archive \in [Key -> [WindowIds -> Int]]
  BY <1>2, DatabaseFields
<1> HIDE DEF resv, counter, archive
<1> QED
  BY <1>1, <1>5, <1>6, <1>7 DEF Database, Ids

(* The rows of S are settled, the others left alone. *)
LEMMA SettleRows ==
  ASSUME NEW d \in Database, NEW S, NEW status, NEW delta, NEW reported,
         NEW e, e = Settle(d, S, delta, status, reported)
  PROVE  \A i \in Ids(d) : e.resv[i] =
           IF i \in S THEN SettledRow(d.resv[i], status, reported[i], delta[i])
           ELSE d.resv[i]
BY DEF Settle, Database

(* Each delta is added to one counter or to one archived window. *)
LEMMA SettleCounters ==
  ASSUME NEW d \in Database, NEW S, NEW status, NEW delta, NEW reported,
         NEW e, e = Settle(d, S, delta, status, reported), NEW k \in Key
  PROVE  e.counter[k] = IF d.counter[k] = NoRow THEN NoRow
                        ELSE ChargedRow(d.counter[k], ToCounter(d, S, delta, k),
                                        ToCounter(d, S, HeldBy(d, S), k))
BY DEF Settle, Database

LEMMA SettleArchives ==
  ASSUME NEW d \in Database, NEW S, NEW status, NEW delta, NEW reported,
         NEW e, e = Settle(d, S, delta, status, reported),
         NEW k \in Key, NEW w \in WindowIds
  PROVE  e.archive[k][w] = d.archive[k][w] + ToArchive(d, S, delta, k, w)
BY DEF Settle, Database

(* A settlement books each delta once, on the window of its row. *)
LEMMA SettleBalances ==
  ASSUME NEW d \in Database, NEW S \in SUBSET Ids(d), NEW status \in Statuses,
         NEW delta, \A i \in S : delta[i] \in Int,
         NEW reported, \A i \in S : reported[i] \in Int \cup {NoUsage},
         NEW e, e = Settle(d, S, delta, status, reported),
         Balanced(d)
  PROVE  Balanced(e)
<1> SUFFICES ASSUME NEW k \in Key, NEW w \in WindowIds
             PROVE  Booked(e, k, w) = ChargedTo(e, k, w)
  BY DEF Balanced
<1> DEFINE N == Len(d.resv)
           here(i) == d.resv[i].key = k /\ d.resv[i].window = w
           was == [i \in Ids(d) |-> IF here(i) THEN d.resv[i].charged ELSE 0]
           more == [i \in Ids(d) |-> IF i \in S /\ here(i) THEN delta[i] ELSE 0]
           becomes == [i \in Ids(d) |-> IF here(i) THEN e.resv[i].charged ELSE 0]
           row == d.counter[k]
           open == row # NoRow /\ row.window = w
<1>1. /\ N \in Nat /\ Ids(d) = 1..N /\ \A i \in 1..N : d.resv[i] \in Reservation
      /\ row \in Row \cup {NoRow} /\ d.archive[k][w] \in Int
  BY DatabaseFields
<1>2. /\ e \in Database /\ Len(e.resv) = N /\ Ids(e) = 1..N
      /\ \A i \in 1..N : e.resv[i] =
           IF i \in S THEN SettledRow(d.resv[i], status, reported[i], delta[i])
           ELSE d.resv[i]
      /\ e.counter[k] = IF row = NoRow THEN NoRow
                        ELSE ChargedRow(row, ToCounter(d, S, delta, k),
                                        ToCounter(d, S, HeldBy(d, S), k))
      /\ e.archive[k][w] = d.archive[k][w] + ToArchive(d, S, delta, k, w)
  <2>1. e \in Database /\ Len(e.resv) = N /\ Ids(e) = 1..N
    BY <1>1, SettleType
  <2> HIDE DEF N
  <2> QED
    BY <1>1, <2>1, SettleRows, SettleCounters, SettleArchives
<1>3. \A i \in 1..N : /\ e.resv[i].key = d.resv[i].key
                      /\ e.resv[i].window = d.resv[i].window
                      /\ e.resv[i].charged =
                           d.resv[i].charged + (IF i \in S THEN delta[i] ELSE 0)
  <2> SUFFICES ASSUME NEW i \in 1..N
               PROVE  /\ e.resv[i].key = d.resv[i].key
                      /\ e.resv[i].window = d.resv[i].window
                      /\ e.resv[i].charged =
                           d.resv[i].charged + (IF i \in S THEN delta[i] ELSE 0)
    OBVIOUS
  <2>1. d.resv[i] \in Reservation /\ d.resv[i].charged \in Int
    BY <1>1 DEF Reservation
  <2>2. CASE i \in S
    <3>1. e.resv[i] = SettledRow(d.resv[i], status, reported[i], delta[i])
      BY <1>2, <2>2
    <3> QED
      BY <2>1, <2>2, <3>1 DEF SettledRow, Reservation
  <2>3. CASE i \notin S
    BY <1>2, <2>1, <2>3
  <2> QED
    BY <2>2, <2>3
<1>4. \A i \in 1..N : was[i] \in Int /\ more[i] \in Int /\ becomes[i] = was[i] + more[i]
  BY <1>1, <1>3 DEF Reservation
<1>5. SumTo(becomes, N) = SumTo(was, N) + SumTo(more, N)
  <2> HIDE DEF N, was, more, becomes
  <2> QED
    BY SMTT(30), <1>1, <1>4, SumPlus
<1>6. ChargedTo(e, k, w) = SumTo(becomes, N)
  BY <1>1, <1>2, <1>3 DEF ChargedTo
<1>7. ChargedTo(d, k, w) = SumTo(was, N)
  BY <1>1 DEF ChargedTo
<1>8. Booked(e, k, w) = Booked(d, k, w) + SumTo(more, N)
  <2>1. /\ ToCounter(d, S, delta, k) \in Int /\ ToArchive(d, S, delta, k, w) \in Int
        /\ SumTo(more, N) \in Int
    BY <1>1, <1>4, ToCounterType, ToArchiveType, SumInt
  <2>2. CASE open
    <3>1. ToCounter(d, S, delta, k) = SumTo(more, N)
      BY <1>1, <2>2, SumEqual DEF ToCounter, SameWindow
    <3>2. ToArchive(d, S, delta, k, w) = 0
      BY <1>1, <2>2, SumOfZeros DEF ToArchive, SameWindow
    <3>3. e.counter[k] # NoRow /\ e.counter[k].window = w
          /\ e.counter[k].current = row.current + SumTo(more, N)
      <4>1. row \in Row /\ e.counter[k] =
              ChargedRow(row, SumTo(more, N), ToCounter(d, S, HeldBy(d, S), k))
        BY <1>1, <1>2, <2>2, <3>1
      <4>2. ToCounter(d, S, HeldBy(d, S), k) \in Int
        BY HeldByType, ToCounterType
      <4> HIDE DEF more, N, row
      <4>3. e.counter[k].current = row.current + SumTo(more, N)
            /\ e.counter[k].window = row.window /\ e.counter[k] \in Row
        BY <2>1, <4>1, <4>2, ChargedRowType
      <4>4. row # NoRow
        BY <2>2
      <4> QED
        BY <1>2, <2>2, <4>1, <4>3, NullsAssumption
    <3> HIDE DEF more
    <3> QED
      BY <1>1, <1>2, <2>1, <2>2, <3>2, <3>3 DEF Booked, Row
  <2>3. CASE ~ open
    <3>1. ToArchive(d, S, delta, k, w) = SumTo(more, N)
      BY <1>1, <2>3, SumEqual DEF ToArchive, SameWindow
    <3>2. ~ (e.counter[k] # NoRow /\ e.counter[k].window = w)
      BY <1>1, <1>2, <2>3 DEF ChargedRow, Row
    <3> HIDE DEF more
    <3> QED
      BY <1>1, <1>2, <2>1, <2>3, <3>1, <3>2 DEF Booked
  <2> QED
    BY <2>2, <2>3
<1>9. Booked(d, k, w) = ChargedTo(d, k, w)
  BY DEF Balanced
<1> QED
  <2> HIDE DEF more, was, becomes
  <2> QED
    BY <1>5, <1>6, <1>7, <1>8, <1>9

(***************************************************************************)
(* The inductive invariant of the tables: their shape, one price per row,  *)
(* balanced books.  Each transaction below takes sound tables to sound     *)
(* tables and never reopens a settled row.                                 *)
(***************************************************************************)
Sound(d) ==
  d \in Database /\ Balanced(d) /\ \A i \in Ids(d) : PricedOnce(d.resv[i])

LEMMA FinalityReflexive == ASSUME NEW d PROVE Finality(d, d)
BY DEF Finality, Outcome

LEMMA FinalityTransitive ==
  ASSUME NEW c, NEW d, NEW e, Finality(c, d), Finality(d, e)
  PROVE  Finality(c, e)
BY DEF Finality, Outcome

(* Rows with the same charges on the same accounts add up to the same. *)
LEMMA SameCharges ==
  ASSUME NEW d \in Database, NEW e, Balanced(d), Len(e.resv) = Len(d.resv),
         \A i \in Ids(d) : /\ e.resv[i].key = d.resv[i].key
                           /\ e.resv[i].window = d.resv[i].window
                           /\ e.resv[i].charged = d.resv[i].charged,
         \A k \in Key, w \in WindowIds : Booked(e, k, w) = Booked(d, k, w)
  PROVE  Balanced(e)
<1> SUFFICES ASSUME NEW k \in Key, NEW w \in WindowIds
             PROVE  Booked(e, k, w) = ChargedTo(e, k, w)
  BY DEF Balanced
<1>1. Ids(e) = Ids(d) /\ Ids(d) = 1..Len(d.resv) /\ Len(d.resv) \in Nat
  BY DatabaseFields DEF Ids
<1>2. ChargedTo(e, k, w) = ChargedTo(d, k, w)
  <2> DEFINE N == Len(d.resv)
             f == [i \in 1..N |-> IF d.resv[i].key = k /\ d.resv[i].window = w
                                  THEN d.resv[i].charged ELSE 0]
             h == [i \in 1..N |-> IF e.resv[i].key = k /\ e.resv[i].window = w
                                  THEN e.resv[i].charged ELSE 0]
  <2>1. \A i \in 1..N : f[i] = h[i]
    BY <1>1
  <2>2. ChargedTo(d, k, w) = SumTo(f, N) /\ ChargedTo(e, k, w) = SumTo(h, N)
    BY <1>1 DEF ChargedTo
  <2> HIDE DEF f, h
  <2> QED
    BY <1>1, <2>1, <2>2, SumEqual
<1> QED
  BY <1>2 DEF Balanced

LEMMA ResetRowsCounter ==
  ASSUME NEW d \in Database, NEW K, NEW t, NEW k \in Key
  PROVE  ResetRowsIfDue(d, K, t).counter[k] =
           IF k \in K /\ ResetDue(d.counter[k], t) THEN OpenRow(k.window, t)
           ELSE d.counter[k]
BY DEF ResetRowsIfDue, Database

(* Rolling a row archives exactly what its counter loses. *)
LEMMA ResetRowsBooked ==
  ASSUME NEW d \in Database, NEW K, NEW t \in Readings,
         \A k \in K : d.counter[k] # NoRow => d.counter[k] \in Row,
         NEW e, e = ResetRowsIfDue(d, K, t), NEW k \in Key, NEW w \in WindowIds
  PROVE  Booked(e, k, w) = Booked(d, k, w)
<1> DEFINE due == k \in K /\ ResetDue(d.counter[k], t)
<1>1. /\ e.counter[k] = IF due THEN OpenRow(k.window, t) ELSE d.counter[k]
      /\ e.archive[k][w] = IF due /\ d.counter[k].window = w
                           THEN d.archive[k][w] + d.counter[k].current
                           ELSE d.archive[k][w]
  BY DEF ResetRowsIfDue, Database
<1>2. d.archive[k][w] \in Int
  BY DatabaseFields
<1>3. CASE due
  <2>1. d.counter[k] # NoRow /\ d.counter[k] \in Row
    BY <1>3 DEF ResetDue
  <2>2. e.counter[k].current = 0
    BY <1>1, <1>3 DEF OpenRow
  <2> QED
    BY <1>1, <1>2, <1>3, <2>1, <2>2 DEF Booked, Row
<1>4. CASE ~ due
  BY <1>1, <1>4 DEF Booked
<1> QED
  BY <1>3, <1>4

LEMMA EnsureRowsSound ==
  ASSUME NEW d, Sound(d), NEW K \in SUBSET Key, NEW t \in Readings,
         NEW e, e = EnsureBudgetRows(d, K, t)
  PROVE  /\ Sound(e) /\ Finality(d, e) /\ e.resv = d.resv /\ e.purged = d.purged
         /\ e.findings = d.findings /\ \A k \in K : e.counter[k] \in Row
<1>1. d \in Database /\ Balanced(d)
  BY DEF Sound
<1> DEFINE counter == [k \in Key |-> IF k \in K /\ d.counter[k] = NoRow
                                     THEN OpenRow(k.window, t) ELSE d.counter[k]]
           created == [d EXCEPT !.counter = counter]
<1>2. e = ResetRowsIfDue(created, K, t)
  BY DEF EnsureBudgetRows
<1>3. e \in Database /\ e.resv = d.resv /\ e.purged = d.purged /\ e.findings = d.findings
  BY <1>1, EnsureRowsType
<1>4. counter \in [Key -> Row \cup {NoRow}]
  BY <1>1, KeyWindow, OpenRowType DEF Database
<1>5. created \in Database /\ created.counter = counter
  BY <1>1, <1>4 DEF Database
<1>6. \A k \in K : created.counter[k] \in Row
  BY <1>1, <1>5, KeyWindow, OpenRowType DEF Database
<1>7. \A k \in Key, w \in WindowIds : Booked(created, k, w) = Booked(d, k, w)
  <2> SUFFICES ASSUME NEW k \in Key, NEW w \in WindowIds
               PROVE  Booked(created, k, w) = Booked(d, k, w)
    OBVIOUS
  <2>1. created.archive = d.archive
    BY <1>1 DEF Database
  <2>2. CASE k \in K /\ d.counter[k] = NoRow
    BY <1>5, <2>1, <2>2 DEF Booked, OpenRow
  <2>3. CASE ~ (k \in K /\ d.counter[k] = NoRow)
    BY <1>5, <2>1, <2>3 DEF Booked
  <2> QED
    BY <2>2, <2>3
<1> HIDE DEF created
<1>8. \A k \in Key, w \in WindowIds : Booked(e, k, w) = Booked(d, k, w)
  BY <1>2, <1>5, <1>6, <1>7, ResetRowsBooked
<1>9. Balanced(e)
  BY <1>1, <1>3, <1>8, SameCharges
<1>10. \A k \in K : e.counter[k] \in Row
  <2> SUFFICES ASSUME NEW k \in K PROVE e.counter[k] \in Row
    OBVIOUS
  <2>1. k \in Key /\ e.counter[k] = IF k \in K /\ ResetDue(created.counter[k], t)
                                   THEN OpenRow(k.window, t) ELSE created.counter[k]
    BY <1>2, <1>5, ResetRowsCounter
  <2> QED
    BY <1>6, <2>1, KeyWindow, OpenRowType
<1> QED
  BY <1>3, <1>9, <1>10, FinalityReflexive DEF Sound, Ids, Finality, Outcome

LEMMA SettleSound ==
  ASSUME NEW d, Sound(d), NEW S \in SUBSET Ids(d), NEW status \in Statuses,
         NEW delta, \A i \in S : delta[i] \in Int,
         NEW reported, \A i \in S : reported[i] \in Int \cup {NoUsage},
         \A i \in S : d.resv[i].status \in {"reserved", "expired_charged"},
         \A i \in S : PricedOnce(SettledRow(d.resv[i], status, reported[i], delta[i])),
         NEW e, e = Settle(d, S, delta, status, reported)
  PROVE  /\ Sound(e) /\ Finality(d, e) /\ e.purged = d.purged
         /\ e.findings = d.findings /\ Ids(e) = Ids(d)
<1>1. d \in Database /\ Balanced(d) /\ \A i \in Ids(d) : PricedOnce(d.resv[i])
  BY DEF Sound
<1>2. e \in Database /\ e.purged = d.purged /\ e.findings = d.findings /\ Ids(e) = Ids(d)
  BY <1>1, SettleType
<1>3. Balanced(e)
  BY <1>1, SettleBalances
<1>4. ASSUME NEW i \in Ids(d)
      PROVE  PricedOnce(e.resv[i]) /\ Outcome(d.resv[i], e.resv[i])
  <2>1. e.resv[i] = IF i \in S THEN SettledRow(d.resv[i], status, reported[i], delta[i])
                    ELSE d.resv[i]
    BY <1>1, SettleRows
  <2>2. d.resv[i] \in Reservation
    BY <1>1, DatabaseFields
  <2>3. CASE i \in S
    BY <2>1, <2>2, <2>3 DEF Outcome, SettledRow, Reservation
  <2>4. CASE i \notin S
    BY <1>1, <2>1, <2>4 DEF Outcome
  <2> QED
    BY <2>3, <2>4
<1> QED
  BY <1>2, <1>3, <1>4 DEF Sound, Finality

LEMMA ExpireSound ==
  ASSUME NEW d, Sound(d), NEW t \in Readings, NEW e, e = ExpireDue(d, t)
  PROVE  /\ Sound(e) /\ Finality(d, e) /\ e.purged = d.purged
         /\ e.findings = d.findings /\ Ids(e) = Ids(d)
<1> DEFINE S == Overdue(d, t)
           delta == [i \in S |-> d.resv[i].amount]
           reported == [i \in S |-> NoUsage]
<1>1. e = Settle(d, S, delta, "expired_charged", reported)
  BY DEF ExpireDue
<1>2. S \in SUBSET Ids(d) /\ \A i \in S : d.resv[i].status = "reserved"
  BY DEF Overdue
<1>3. \A i \in S : /\ d.resv[i] \in Reservation /\ d.resv[i].charged = 0
                   /\ d.resv[i].amount \in Int
  BY <1>2, DatabaseFields DEF Sound, PricedOnce, Reservation
<1>4. \A i \in S : PricedOnce(SettledRow(d.resv[i], "expired_charged", NoUsage,
                                         d.resv[i].amount))
  BY <1>3 DEF PricedOnce, SettledRow, Reservation
<1>5. \A i \in S : /\ delta[i] = d.resv[i].amount /\ delta[i] \in Int
                   /\ reported[i] = NoUsage
  BY <1>3
<1>6. "expired_charged" \in Statuses
  BY DEF Statuses
<1> HIDE DEF S, delta, reported
<1> QED
  BY <1>1, <1>2, <1>4, <1>5, <1>6, SettleSound

(* Releasing a live hold charges nothing, since nothing was charged. *)
LEMMA ReleaseSound ==
  ASSUME NEW d, Sound(d), NEW held, NEW e, e = ReleaseVerified(d, held)
  PROVE  Sound(e) /\ Finality(d, e) /\ e.purged = d.purged /\ e.findings = d.findings
<1> DEFINE S == {i \in Present(d, held) : d.resv[i].status = "reserved"}
           drop(i) == [d.resv[i] EXCEPT !.status = "cancelled_verified", !.charged = 0]
           resv == [i \in Ids(d) |-> IF i \in S THEN drop(i) ELSE d.resv[i]]
           counter == [k \in Key |->
              IF d.counter[k] = NoRow THEN NoRow
              ELSE ChargedRow(d.counter[k], 0, ToCounter(d, S, HeldBy(d, S), k))]
<1>1. d \in Database /\ Balanced(d) /\ \A i \in Ids(d) : PricedOnce(d.resv[i])
  BY DEF Sound
<1>2. e = [d EXCEPT !.resv = resv, !.counter = counter]
  BY DEF ReleaseVerified
<1>3. /\ Len(d.resv) \in Nat /\ Ids(d) = 1..Len(d.resv)
      /\ d.counter \in [Key -> Row \cup {NoRow}]
      /\ \A i \in Ids(d) : d.resv[i] \in Reservation
  BY <1>1, DatabaseFields
<1>4. \A i \in Ids(d) : resv[i] \in Reservation
  <2>1. \A r \in Reservation :
          [r EXCEPT !.status = "cancelled_verified", !.charged = 0] \in Reservation
    <3>1. \A r \in Reservation, status \in Statuses, c \in Int :
            [r EXCEPT !.status = status, !.charged = c] \in Reservation
      BY DEF Reservation
    <3>2. "cancelled_verified" \in Statuses /\ 0 \in Int
      BY DEF Statuses
    <3> QED
      BY <3>1, <3>2, Zenon
  <2> QED
    BY <1>3, <2>1
<1>5. resv \in Seq(Reservation) /\ Len(resv) = Len(d.resv)
  <2>1. resv \in [1..Len(d.resv) -> Reservation]
    BY <1>3, <1>4
  <2> HIDE DEF resv
  <2> QED
    BY <1>3, <2>1, TableIsSeq
<1>6. \A k : ToCounter(d, S, HeldBy(d, S), k) \in Int
  BY <1>1, HeldByType, ToCounterType DEF Present
<1>7. counter \in [Key -> Row \cup {NoRow}]
  BY <1>3, <1>6, ChargedRowType
<1>8. \A i \in Ids(d) : /\ PricedOnce(resv[i]) /\ Outcome(d.resv[i], resv[i])
                        /\ resv[i].charged = d.resv[i].charged
  BY ZenonT(60), <1>1, <1>3 DEF PricedOnce, Outcome, Reservation
<1>9. \A k \in Key : \/ d.counter[k] = NoRow /\ counter[k] = NoRow
                     \/ /\ d.counter[k] # NoRow /\ counter[k] # NoRow
                        /\ counter[k].window = d.counter[k].window
                        /\ counter[k].current = d.counter[k].current
  <2> SUFFICES ASSUME NEW k \in Key, d.counter[k] # NoRow
               PROVE  /\ counter[k] # NoRow
                      /\ counter[k].window = d.counter[k].window
                      /\ counter[k].current = d.counter[k].current
    OBVIOUS
  <2>1. d.counter[k] \in Row /\ d.counter[k].current \in Int
    BY <1>3 DEF Row
  <2>2. counter[k] = ChargedRow(d.counter[k], 0, ToCounter(d, S, HeldBy(d, S), k))
    OBVIOUS
  <2> HIDE DEF S, counter
  <2> QED
    BY <1>6, <2>1, <2>2, ChargedRowType, NullsAssumption
<1> HIDE DEF resv, counter
<1>10. /\ e \in Database /\ e.purged = d.purged /\ e.findings = d.findings
       /\ e.resv = resv /\ e.counter = counter /\ e.archive = d.archive /\ Ids(e) = Ids(d)
  BY <1>1, <1>2, <1>5, <1>7 DEF Database, Ids
<1>11. \A k \in Key, w \in WindowIds : Booked(e, k, w) = Booked(d, k, w)
  BY <1>9, <1>10 DEF Booked
<1>12. Balanced(e)
  BY <1>1, <1>5, <1>8, <1>10, <1>11, SameCharges DEF Outcome
<1> QED
  BY <1>8, <1>10, <1>12 DEF Sound, Finality

LEMMA BindSound ==
  ASSUME NEW d, Sound(d), NEW S, NEW g \in Guards, NEW e, e = BindRows(d, S, g)
  PROVE  /\ Sound(e) /\ Finality(d, e) /\ e.purged = d.purged
         /\ e.findings = d.findings /\ Ids(e) = Ids(d)
         /\ \A i \in Ids(d) : /\ e.resv[i].status = d.resv[i].status
                             /\ e.resv[i].amount = d.resv[i].amount
                             /\ e.resv[i].charged = d.resv[i].charged
                             /\ e.resv[i].reported = d.resv[i].reported
<1> DEFINE resv == [i \in Ids(d) |->
              IF i \in S THEN [d.resv[i] EXCEPT !.event = g] ELSE d.resv[i]]
<1>1. d \in Database /\ Balanced(d) /\ \A i \in Ids(d) : PricedOnce(d.resv[i])
  BY DEF Sound
<1>2. e = [d EXCEPT !.resv = resv]
  BY DEF BindRows
<1>3. /\ Len(d.resv) \in Nat /\ Ids(d) = 1..Len(d.resv)
      /\ \A i \in Ids(d) : d.resv[i] \in Reservation
  BY <1>1, DatabaseFields
<1>4. \A r \in Reservation : [r EXCEPT !.event = g] \in Reservation
  BY DEF Reservation
<1>5. resv \in Seq(Reservation) /\ Len(resv) = Len(d.resv)
  <2>1. resv \in [1..Len(d.resv) -> Reservation]
    BY <1>3, <1>4
  <2> HIDE DEF resv
  <2> QED
    BY <1>3, <2>1, TableIsSeq
<1>6. \A i \in Ids(d) : /\ PricedOnce(resv[i]) /\ Outcome(d.resv[i], resv[i])
                        /\ resv[i].charged = d.resv[i].charged
                        /\ resv[i].status = d.resv[i].status
                        /\ resv[i].amount = d.resv[i].amount
                        /\ resv[i].reported = d.resv[i].reported
  BY <1>1, <1>3 DEF PricedOnce, Outcome, Reservation
<1> HIDE DEF resv
<1>7. /\ e \in Database /\ e.purged = d.purged /\ e.findings = d.findings
      /\ e.resv = resv /\ e.counter = d.counter /\ e.archive = d.archive /\ Ids(e) = Ids(d)
  BY <1>1, <1>2, <1>5 DEF Database, Ids
<1>8. \A k \in Key, w \in WindowIds : Booked(e, k, w) = Booked(d, k, w)
  BY <1>7 DEF Booked
<1>9. Balanced(e)
  BY <1>1, <1>5, <1>6, <1>7, <1>8, SameCharges DEF Outcome
<1> QED
  BY <1>6, <1>7, <1>9 DEF Sound, Finality

(* A new hold charges nothing yet. *)
LEMMA AddHoldSound ==
  ASSUME NEW d, Sound(d), NEW g \in Guards, NEW rule \in Rules, NEW amount \in Int,
         NEW t \in Readings, d.counter[CounterKey(rule, PrincipalOf[g])] \in Row,
         NEW e, e = AddHold(d, g, rule, amount, t)
  PROVE  /\ Sound(e) /\ Finality(d, e) /\ e.purged = d.purged
         /\ e.findings = d.findings /\ Len(e.resv) = Len(d.resv) + 1
<1> DEFINE k0 == CounterKey(rule, PrincipalOf[g])
           row == d.counter[k0]
           hold == [guard |-> g, rule |-> rule, key |-> k0,
               window |-> row.window, amount |-> amount, charged |-> 0,
               reported |-> NoUsage, created |-> t,
               deadline |-> t + ReservationTTL, status |-> "reserved",
               event |-> NoGuard]
           N == Len(d.resv)
<1>1. d \in Database /\ Balanced(d) /\ \A i \in Ids(d) : PricedOnce(d.resv[i])
  BY DEF Sound
<1>2. e = [d EXCEPT !.resv = Append(@, hold), !.counter[k0].reserved = @ + amount]
  BY DEF AddHold
<1>3. /\ N \in Nat /\ Ids(d) = 1..N /\ d.resv \in Seq(Reservation)
      /\ d.counter \in [Key -> Row \cup {NoRow}]
      /\ \A i \in Ids(d) : d.resv[i] \in Reservation
  BY <1>1, DatabaseFields
<1>4. k0 \in Key
  BY CallersAssumption, CounterKeyType
<1>5. hold \in Reservation /\ PricedOnce(hold)
  <2>1. row.window \in WindowIds /\ t \in Nat /\ t + ReservationTTL \in Nat
    BY TimeAssumption DEF Row
  <2> HIDE DEF k0, row
  <2> QED
    BY <1>4, <2>1 DEF Reservation, Statuses, PricedOnce
<1> DEFINE resv == Append(d.resv, hold)
           counter == [d.counter EXCEPT ![k0].reserved = @ + amount]
<1>6. e = [d EXCEPT !.resv = resv, !.counter = counter]
  BY <1>1, <1>2 DEF Database
<1>7. [row EXCEPT !.reserved = @ + amount] \in Row
  <2>1. row.reserved + amount \in Int
    BY DEF Row
  <2> QED
    BY <2>1 DEF Row
<1>8. counter \in [Key -> Row \cup {NoRow}]
  BY <1>3, <1>4, <1>7
<1> HIDE DEF hold
<1>9. /\ resv \in Seq(Reservation) /\ Len(resv) = N + 1 /\ resv[N + 1] = hold
      /\ \A i \in 1..N : resv[i] = d.resv[i]
  BY <1>3, <1>5
<1>10. /\ e \in Database /\ e.purged = d.purged /\ e.findings = d.findings
       /\ e.resv = resv /\ e.counter = counter /\ e.archive = d.archive /\ Ids(e) = 1..(N + 1)
  <2> HIDE DEF resv, counter
  <2> QED
    BY <1>1, <1>6, <1>8, <1>9 DEF Database, Ids
<1>11. ASSUME NEW k \in Key, NEW w \in WindowIds
       PROVE  Booked(e, k, w) = ChargedTo(e, k, w)
  <2>1. Booked(e, k, w) = Booked(d, k, w)
    <3>1. \/ counter[k] = d.counter[k]
          \/ /\ d.counter[k] \in Row /\ counter[k] \in Row
             /\ counter[k].window = d.counter[k].window
             /\ counter[k].current = d.counter[k].current
      BY <1>3, <1>4, <1>7 DEF Row
    <3> HIDE DEF counter
    <3> QED
      BY <1>10, <3>1, NullsAssumption DEF Booked
  <2> DEFINE f == [i \in 1..(N + 1) |-> IF resv[i].key = k /\ resv[i].window = w
                                       THEN resv[i].charged ELSE 0]
             h == [i \in 1..N |-> IF d.resv[i].key = k /\ d.resv[i].window = w
                                  THEN d.resv[i].charged ELSE 0]
  <2>2. ChargedTo(e, k, w) = SumTo(f, N + 1) /\ ChargedTo(d, k, w) = SumTo(h, N)
    BY <1>3, <1>9, <1>10 DEF ChargedTo
  <2>3. f[N + 1] = 0 /\ \A i \in 1..N : f[i] = h[i] /\ h[i] \in Int
    <3>1. resv[N + 1].charged = 0
      BY <1>9 DEF hold
    <3>2. \A i \in 1..N : d.resv[i].charged \in Int
      BY <1>3 DEF Reservation
    <3> HIDE DEF resv
    <3> QED
      BY <1>3, <1>9, <3>1, <3>2
  <2> HIDE DEF f, h
  <2>4. SumTo(f, N + 1) = SumTo(f, N) + f[N + 1]
    BY SMTT(30), <1>3, SumStep
  <2>5. SumTo(f, N) = SumTo(h, N) /\ SumTo(h, N) \in Int
    BY <1>3, <2>3, SumEqual, SumInt
  <2> QED
    BY <1>1, <2>1, <2>2, <2>3, <2>4, <2>5 DEF Balanced
<1> QED
  BY <1>1, <1>3, <1>5, <1>9, <1>10, <1>11 DEF Sound, Balanced, Ids, Finality, Outcome

(***************************************************************************)
(* The transactions.                                                       *)
(***************************************************************************)
LEMMA OpenForCheckSound ==
  ASSUME NEW d, Sound(d), NEW k \in Key, NEW t \in Readings,
         NEW e, e = OpenForCheck(d, k, t)
  PROVE  Sound(e) /\ Finality(d, e) /\ e.counter[k] \in Row
<1> DEFINE x == ExpireDue(d, t)
<1>1. Sound(x) /\ Finality(d, x)
  BY ExpireSound
<1>2. e = EnsureBudgetRows(x, {k}, t)
  BY DEF OpenForCheck
<1> HIDE DEF x
<1>3. Sound(e) /\ Finality(x, e) /\ e.counter[k] \in Row
  BY <1>1, <1>2, EnsureRowsSound
<1> QED
  BY <1>1, <1>3, FinalityTransitive

LEMMA CostType ==
  ASSUME NEW rule \in Rules, NEW units \in Nat
  PROVE  Cost(rule, units) \in Nat
BY RulesAssumption DEF Cost

(* Whatever expiry did before, a report leaves each row it settles charged *)
(* its price, once.                                                        *)
LEMMA SettlePlanSound ==
  ASSUME NEW d, Sound(d), NEW g \in Guards, NEW plan, IsPlan(plan),
         DOMAIN plan \subseteq Ids(d), NEW usage \in UnitsUsed \cup {NoUsage},
         NEW denied, NEW t \in Readings, NEW e, e = SettlePlan(d, g, plan, usage, denied, t)
  PROVE  Sound(e) /\ Finality(d, e) /\ e.purged = d.purged /\ e.findings = d.findings
<1> DEFINE S     == DOMAIN plan
           bound == BindRows(d, Unbound(d, S), g)
           todo  == ToSettle(d, S, usage)
           K     == {CounterKey(plan[i], PrincipalOf[d.resv[i].guard]) : i \in todo}
           open  == EnsureBudgetRows(bound, K, t)
           delta == [i \in todo |-> Price(d.resv[i], plan[i], usage) - d.resv[i].charged]
           paid  == [i \in todo |-> IF usage = NoUsage THEN NoUsage ELSE Cost(plan[i], usage)]
<1>1. e = IF IsPending(d, S, usage, denied) THEN bound
          ELSE Settle(open, todo, delta, "reconciled", paid)
  BY DEF SettlePlan
<1>2. /\ Sound(bound) /\ Finality(d, bound) /\ bound.purged = d.purged
      /\ bound.findings = d.findings /\ Ids(bound) = Ids(d)
      /\ \A i \in Ids(d) : /\ bound.resv[i].status = d.resv[i].status
                          /\ bound.resv[i].amount = d.resv[i].amount
                          /\ bound.resv[i].charged = d.resv[i].charged
                          /\ bound.resv[i].reported = d.resv[i].reported
  BY BindSound
<1>3. /\ todo \subseteq S /\ todo \in SUBSET Ids(d)
      /\ \A i \in todo : d.resv[i].status \in {"reserved", "expired_charged"}
      /\ \A i \in todo : plan[i] \in Rules
  BY DEF ToSettle, IsPlan
<1>4. \A i \in Ids(d) : d.resv[i] \in Reservation
  BY DatabaseFields DEF Sound
<1>5. K \in SUBSET Key
  <2> SUFFICES ASSUME NEW i \in todo
               PROVE  CounterKey(plan[i], PrincipalOf[d.resv[i].guard]) \in Key
    OBVIOUS
  <2>1. d.resv[i].guard \in Guards
    BY <1>3, <1>4 DEF Reservation
  <2>2. PrincipalOf[d.resv[i].guard] \in Principals
    BY <2>1, CallersAssumption
  <2>3. plan[i] \in Rules
    BY <1>3
  <2> HIDE DEF todo
  <2> QED
    BY <2>2, <2>3, CounterKeyType
<1>6. /\ Sound(open) /\ Finality(bound, open) /\ open.resv = bound.resv
      /\ open.purged = d.purged /\ open.findings = d.findings
  <2> HIDE DEF bound, K
  <2> QED
    BY <1>2, <1>5, EnsureRowsSound
<1>7. \A i \in todo :
        /\ delta[i] = (IF usage = NoUsage THEN d.resv[i].amount ELSE paid[i]) - d.resv[i].charged
        /\ usage = NoUsage => paid[i] = NoUsage
        /\ usage # NoUsage => paid[i] \in Int
        /\ delta[i] \in Int /\ paid[i] \in Int \cup {NoUsage}
        /\ d.resv[i].amount \in Int /\ d.resv[i].charged \in Int
  <2> SUFFICES ASSUME NEW i \in todo
               PROVE  /\ delta[i] = (IF usage = NoUsage THEN d.resv[i].amount ELSE paid[i])
                                     - d.resv[i].charged
                      /\ usage = NoUsage => paid[i] = NoUsage
                      /\ usage # NoUsage => paid[i] \in Int
                      /\ delta[i] \in Int /\ paid[i] \in Int \cup {NoUsage}
                      /\ d.resv[i].amount \in Int /\ d.resv[i].charged \in Int
    OBVIOUS
  <2>1. d.resv[i].amount \in Int /\ d.resv[i].charged \in Int
    BY <1>3, <1>4 DEF Reservation
  <2>2. paid[i] = IF usage = NoUsage THEN NoUsage ELSE Cost(plan[i], usage)
    OBVIOUS
  <2>3. delta[i] = (IF usage = NoUsage THEN d.resv[i].amount ELSE Cost(plan[i], usage))
                     - d.resv[i].charged
    BY DEF Price
  <2>4. usage # NoUsage => Cost(plan[i], usage) \in Int
    BY <1>3, CostType, GuardAssumption
  <2> HIDE DEF todo, delta, paid
  <2> QED
    BY <2>1, <2>2, <2>3, <2>4
<1>8. open.resv = bound.resv /\ Ids(open) = Ids(d)
  BY <1>2, <1>6 DEF Ids
<1>9. \A i \in todo : PricedOnce(SettledRow(open.resv[i], "reconciled", paid[i], delta[i]))
  <2> SUFFICES ASSUME NEW i \in todo
               PROVE  PricedOnce(SettledRow(open.resv[i], "reconciled", paid[i], delta[i]))
    OBVIOUS
  <2> DEFINE r == open.resv[i]
             s == SettledRow(r, "reconciled", paid[i], delta[i])
  <2>1. i \in Ids(d) /\ r \in Reservation
    BY <1>3, <1>6, <1>8, DatabaseFields DEF Sound
  <2>2. r.amount = d.resv[i].amount /\ r.charged = d.resv[i].charged
    BY <1>2, <1>8, <2>1
  <2>3. /\ s.status = "reconciled" /\ s.reported = paid[i]
        /\ s.charged = r.charged + delta[i] /\ s.amount = r.amount
    <3> HIDE DEF r, todo, delta, paid
    <3> QED
      BY <2>1 DEF SettledRow, Reservation
  <2> HIDE DEF r, s, todo, delta, paid
  <2>4. s.charged = IF usage = NoUsage THEN s.amount ELSE paid[i]
    BY <1>7, <2>2, <2>3, NullsAssumption
  <2>5. PricedOnce(s)
    BY <1>7, <2>3, <2>4, NullsAssumption DEF PricedOnce
  <2> QED
    BY <2>5 DEF s, r
<1>10. CASE IsPending(d, S, usage, denied)
  BY <1>1, <1>2, <1>10
<1>11. CASE ~ IsPending(d, S, usage, denied)
  <2>1. e = Settle(open, todo, delta, "reconciled", paid)
    BY <1>1, <1>11
  <2>2. \A i \in todo : open.resv[i].status \in {"reserved", "expired_charged"}
    BY <1>2, <1>3, <1>8
  <2>3. "reconciled" \in Statuses
    BY DEF Statuses
  <2>4. todo \in SUBSET Ids(open)
    BY <1>3, <1>8
  <2> HIDE DEF open, todo, delta, paid, bound
  <2>5. /\ Sound(e) /\ Finality(open, e) /\ e.purged = open.purged
        /\ e.findings = open.findings
    BY <1>6, <1>7, <1>9, <2>1, <2>2, <2>3, <2>4, SettleSound
  <2>6. Finality(d, open)
    BY <1>2, <1>6, FinalityTransitive
  <2> QED
    BY <1>6, <2>5, <2>6, FinalityTransitive
<1> QED
  BY <1>10, <1>11

LEMMA ReconcileSound ==
  ASSUME NEW d, Sound(d), NEW g \in Guards, NEW plan, IsPlan(plan),
         NEW usage \in UnitsUsed \cup {NoUsage}, NEW denied, NEW t \in Readings,
         NEW e, e = ReconcileGuard(d, g, plan, usage, denied, t)
  PROVE  Sound(e) /\ Finality(d, e)
<1> DEFINE x == ExpireDue(d, t)
<1>1. Sound(x) /\ Finality(d, x)
  BY ExpireSound
<1>2. e = IF PlanIsBroken(x, g, plan) THEN [d EXCEPT !.findings = @ \cup {g}]
          ELSE IF PlanFails(x, g, plan) THEN d
          ELSE SettlePlan(x, g, plan, usage, denied, t)
  BY DEF ReconcileGuard
<1> HIDE DEF x
<1>3. CASE PlanIsBroken(x, g, plan)
  <2>1. /\ e \in Database /\ e.resv = d.resv /\ e.counter = d.counter
        /\ e.archive = d.archive
    <3>1. e = [d EXCEPT !.findings = d.findings \cup {g}] /\ d \in Database
      BY <1>2, <1>3 DEF Sound, Database
    <3> QED
      BY <3>1 DEF Database
  <2> QED
    BY <2>1 DEF Sound, Ids, Balanced, Booked, ChargedTo, Finality, Outcome
<1>4. CASE ~ PlanIsBroken(x, g, plan) /\ ~ PlanFails(x, g, plan)
  <2>1. DOMAIN plan \subseteq Ids(x)
    BY <1>4 DEF PlanFails, RowFails, IsBroken, Present
  <2>2. e = SettlePlan(x, g, plan, usage, denied, t)
    BY <1>2, <1>4
  <2> QED
    BY <1>1, <2>1, <2>2, SettlePlanSound, FinalityTransitive
<1>5. CASE ~ PlanIsBroken(x, g, plan) /\ PlanFails(x, g, plan)
  BY <1>2, <1>5, FinalityReflexive
<1> QED
  BY <1>3, <1>4, <1>5

LEMMA ListSound ==
  ASSUME NEW d, Sound(d), NEW t \in Readings, NEW e, e = ListActiveBudgets(d, t)
  PROVE  Sound(e) /\ Finality(d, e)
<1> DEFINE x == ExpireDue(d, t)
           K == {k \in Key : x.counter[k] # NoRow}
<1>1. Sound(x) /\ Finality(d, x)
  BY ExpireSound
<1>2. e = ResetRowsIfDue(x, K, t)
  BY DEF ListActiveBudgets
<1> HIDE DEF x
<1>3. x \in Database /\ Balanced(x) /\ \A i \in Ids(x) : PricedOnce(x.resv[i])
  BY <1>1 DEF Sound
<1>4. \A k \in K : x.counter[k] # NoRow => x.counter[k] \in Row
  BY <1>3 DEF Database
<1> HIDE DEF K
<1>5. e \in Database /\ e.resv = x.resv
  BY <1>2, <1>3, <1>4, ResetRowsType, ResetRowsKeeps
<1>6. \A k \in Key, w \in WindowIds : Booked(e, k, w) = Booked(x, k, w)
  BY <1>2, <1>3, <1>4, ResetRowsBooked
<1>7. Balanced(e)
  BY <1>3, <1>5, <1>6, SameCharges
<1>8. Sound(e) /\ Finality(x, e)
  BY <1>3, <1>5, <1>7 DEF Sound, Ids, Finality, Outcome
<1> QED
  BY <1>1, <1>8, FinalityTransitive

LEMMA CleanupSound ==
  ASSUME NEW d, Sound(d), NEW t, NEW e, e = CleanupResolved(d, t)
  PROVE  Sound(e) /\ Finality(d, e)
<1>1. d \in Database
  BY DEF Sound
<1>2. Ids(d) \subseteq Nat
  BY <1>1, DatabaseFields
<1>3. /\ e \in Database /\ e.resv = d.resv /\ e.counter = d.counter
      /\ e.archive = d.archive
  BY <1>1, <1>2 DEF CleanupResolved, Database
<1> QED
  BY <1>3 DEF Sound, Ids, Balanced, Booked, ChargedTo, Finality, Outcome

(***************************************************************************)
(* The state machine.                                                      *)
(***************************************************************************)
LEMMA EmptySound == Sound(EmptyDatabase)
<1>1. EmptyDatabase \in Database
  BY DEF EmptyDatabase, Database
<1>2. Len(EmptyDatabase.resv) = 0 /\ Ids(EmptyDatabase) = {}
  BY DEF EmptyDatabase, Ids
<1>3. ASSUME NEW k \in Key, NEW w \in WindowIds
      PROVE  Booked(EmptyDatabase, k, w) = ChargedTo(EmptyDatabase, k, w)
  <2>1. ChargedTo(EmptyDatabase, k, w) = 0
    BY <1>2, SumZero DEF ChargedTo
  <2>2. Booked(EmptyDatabase, k, w) = 0
    BY DEF Booked, EmptyDatabase
  <2> QED
    BY <2>1, <2>2
<1> QED
  BY <1>1, <1>2, <1>3 DEF Sound, Balanced

(* The inductive invariant. *)
Inv == TypeOK /\ Sound(db)

LEMMA InitInv == ASSUME Init PROVE Inv
<1>1. now \in Readings
  BY DEF Init
<1>2. \A g \in Guards : IsCall(call[g]) /\ IsEvent(event[g])
  <2>1. IsCall(NewCall)
    BY DEF IsCall, NewCall, Steps, IsPlan, MaxAttempts
  <2>2. IsEvent(NoEvent)
    BY DEF IsEvent, NoEvent, IsPlan
  <2> QED
    BY <2>1, <2>2 DEF Init
<1> QED
  BY <1>1, <1>2, EmptySound DEF Init, Inv, TypeOK, Sound

(* The tables may change to any sound ones: the rest of Inv is untouched. *)
LEMMA TablesInv ==
  ASSUME Inv, Sound(db'), UNCHANGED <<now, policy, call, event>>
  PROVE  Inv'
BY DEF Inv, TypeOK, Sound

(* One thread moves on. *)
LEMMA CallInv ==
  ASSUME Inv, NEW g \in Guards, NEW c, IsCall(c), call' = [call EXCEPT ![g] = c],
         Sound(db'), UNCHANGED <<now, policy, event>>
  PROVE  Inv'
BY DEF Inv, TypeOK, Sound

(* Moving a thread to a step other than idle or checking. *)
LEMMA StepInv ==
  ASSUME Inv, NEW g \in Guards, NEW step \in Steps \ {"idle", "checking"},
         call' = [call EXCEPT ![g].step = step], Sound(db'), UNCHANGED <<now, policy, event>>
  PROVE  Inv'
<1> DEFINE c == [call[g] EXCEPT !.step = step]
<1>1. IsCall(call[g]) /\ DOMAIN call = Guards
  BY DEF Inv, TypeOK
<1>2. IsCall(c)
  BY <1>1 DEF IsCall
<1>3. call' = [call EXCEPT ![g] = c]
  BY <1>1
<1> HIDE DEF c
<1> QED
  BY <1>2, <1>3, CallInv

LEMMA CurrentTypes ==
  ASSUME Inv, NEW g \in Guards, call[g].step = "checking"
  PROVE  /\ CurrentRule(g) \in Rules /\ CurrentKey(g) \in Key /\ CurrentAmount(g) \in Nat
         /\ now \in Readings /\ Sound(ForCheck(g)) /\ Finality(db, ForCheck(g))
         /\ ForCheck(g).counter[CurrentKey(g)] \in Row
<1>1. IsCall(call[g]) /\ Sound(db) /\ now \in Readings
  BY DEF Inv, TypeOK
<1>2. CurrentRule(g) \in Rules
  BY <1>1 DEF CurrentRule, IsCall
<1>3. CurrentKey(g) \in Key
  BY <1>2, CallersAssumption, CounterKeyType DEF CurrentKey
<1>4. CurrentAmount(g) \in Nat
  BY <1>1, <1>2, CostType DEF CurrentAmount, IsCall
<1> QED
  BY <1>1, <1>2, <1>3, <1>4, OpenForCheckSound DEF ForCheck

LEMMA HoldRuleStep ==
  ASSUME Inv, NEW g \in Guards, HoldRule(g)
  PROVE  Inv' /\ Finality(db, db')
<1> DEFINE d == ForCheck(g)
           id == Len(db'.resv)
           old == call[g]
           c == [old EXCEPT !.held = @ \cup {id}, !.plan = WithEntry(@, id, CurrentRule(g)),
                            !.next = @ + 1, !.attempt = 1, !.appended = 0,
                            !.step = AfterRule(old)]
<1>1. /\ old.step = "checking" /\ UNCHANGED <<now, policy, event>>
      /\ db' = AddHold(d, g, CurrentRule(g), CurrentAmount(g), now)
  BY DEF HoldRule
<1>2. /\ CurrentRule(g) \in Rules /\ CurrentAmount(g) \in Int /\ now \in Readings
      /\ Sound(d) /\ Finality(db, d) /\ d.counter[CurrentKey(g)] \in Row
  BY <1>1, CurrentTypes
<1>3. Sound(db') /\ Finality(d, db')
  <2> HIDE DEF d
  <2> QED
    BY <1>1, <1>2, AddHoldSound DEF CurrentKey
<1>4. Finality(db, db')
  BY <1>2, <1>3, FinalityTransitive
<1>5. IsCall(old) /\ DOMAIN call = Guards
  BY DEF Inv, TypeOK
<1>6. call' = [call EXCEPT ![g] = c]
  BY <1>5 DEF HoldRule
<1>7. id \in Nat
  BY <1>3, DatabaseFields DEF Sound
<1>8. IsPlan(WithEntry(old.plan, id, CurrentRule(g)))
  BY <1>2, <1>5, <1>7 DEF IsPlan, WithEntry, IsCall
<1>9. IsCall(c)
  <2> DEFINE plan == WithEntry(old.plan, id, CurrentRule(g))
             step == IF old.next = Len(old.rules) THEN "decided" ELSE "checking"
             held == old.held \cup {id}
             next == old.next + 1
  <2>1. c = [old EXCEPT !.held = held, !.plan = plan, !.next = next, !.attempt = 1,
                        !.appended = 0, !.step = step]
    BY <1>5 DEF IsCall, AfterRule
  <2>2. IsPlan(plan) /\ step \in Steps \ {"idle"}
    BY <1>8 DEF Steps
  <2>3. held \subseteq Nat /\ next \in Nat \ {0} /\ Len(old.rules) \in Nat
    BY <1>5, <1>7 DEF IsCall
  <2>4. step = "checking" => next \in 1..Len(old.rules)
    BY <1>1, <1>5, <2>3 DEF IsCall
  <2> HIDE DEF plan, step, held, next
  <2> DEFINE old2 == [step |-> step, decision |-> old.decision, rules |-> old.rules,
                next |-> next, units |-> old.units, held |-> held, appended |-> 0,
                plan |-> plan, warned |-> old.warned, attempt |-> 1]
  <2>5. c = old2
    <3>1. old = [step |-> old.step, decision |-> old.decision, rules |-> old.rules,
                 next |-> old.next, units |-> old.units, held |-> old.held,
                 appended |-> old.appended, plan |-> old.plan, warned |-> old.warned,
                 attempt |-> old.attempt]
      BY <1>5 DEF IsCall
    <3> HIDE DEF old, c
    <3> QED
      BY <2>1, <3>1
  <2> HIDE DEF c
  <2> QED
    BY <1>5, <2>2, <2>3, <2>4, <2>5 DEF IsCall, MaxAttempts
<1> HIDE DEF c
<1> QED
  BY <1>1, <1>3, <1>4, <1>6, <1>9, CallInv

LEMMA StartGuardStep ==
  ASSUME Inv, NEW g \in Guards, NEW decision \in Decisions, NEW units \in UnitsUsed,
         StartGuard(g, decision, units)
  PROVE  Inv' /\ Finality(db, db')
<1> DEFINE old == call[g]
           step == IF decision = "approved" \/ policy = << >> THEN "decided" ELSE "checking"
           c == [old EXCEPT !.decision = decision, !.rules = policy, !.units = units,
                            !.step = step]
<1>1. IsCall(old) /\ DOMAIN call = Guards /\ Sound(db) /\ policy \in Seq(Rules)
  BY PoliciesAssumption DEF Inv, TypeOK
<1>2. old = NewCall /\ db' = db /\ UNCHANGED <<now, policy, event>>
  BY <1>1 DEF StartGuard, IsCall
<1>3. call' = [call EXCEPT ![g] = c]
  BY <1>1 DEF StartGuard
<1>4. step \in Steps \ {"idle"} /\ (step = "checking" => 1 \in 1..Len(policy))
  BY <1>1 DEF Steps
<1>5. IsCall(c)
  <2>1. units \in Nat /\ policy \in Seq(Rules)
    BY <1>1, GuardAssumption
  <2> HIDE DEF step
  <2>2. c = [step |-> step, decision |-> decision, rules |-> policy, next |-> 1,
             units |-> units, held |-> {}, appended |-> 0, plan |-> << >>,
             warned |-> FALSE, attempt |-> 1]
    <3>1. c = [old EXCEPT !.decision = decision, !.rules = policy, !.units = units,
                          !.step = step]
      OBVIOUS
    <3> HIDE DEF old, c
    <3> QED
      BY <1>2, <3>1 DEF NewCall
  <2> HIDE DEF c
  <2> QED
    BY <1>4, <2>1, <2>2 DEF IsCall, IsPlan, MaxAttempts
<1> HIDE DEF c
<1> QED
  BY <1>1, <1>2, <1>3, <1>5, CallInv, FinalityReflexive

LEMMA CommitFailsStep ==
  ASSUME Inv, NEW g \in Guards, HoldRuleCommitFails(g)
  PROVE  Inv' /\ Finality(db, db')
<1> DEFINE old == call[g]
           id == Len(db.resv) + 1
           held == old.held \cup {id}
           attempt == IF old.attempt < MaxAttempts THEN old.attempt + 1 ELSE old.attempt
           step == IF old.attempt < MaxAttempts THEN "checking" ELSE "lost"
           c == [old EXCEPT !.held = held, !.appended = id, !.attempt = attempt,
                            !.step = step]
<1>1. IsCall(old) /\ DOMAIN call = Guards /\ Sound(db) /\ db' = db
      /\ UNCHANGED <<now, policy, event>> /\ old.step = "checking"
  BY DEF Inv, TypeOK, HoldRuleCommitFails
<1>2. call' = [call EXCEPT ![g] = c]
  BY <1>1 DEF HoldRuleCommitFails
<1>3. id \in Nat /\ held \subseteq Nat
  BY <1>1, DatabaseFields DEF Sound, IsCall
<1>4. attempt \in 1..MaxAttempts /\ step \in Steps \ {"idle"}
  BY <1>1 DEF IsCall, MaxAttempts, Steps
<1>5. IsCall(c)
  <2> HIDE DEF id, held, attempt, step
  <2>1. c = [step |-> step, decision |-> old.decision, rules |-> old.rules,
             next |-> old.next, units |-> old.units, held |-> held, appended |-> id,
             plan |-> old.plan, warned |-> old.warned, attempt |-> attempt]
    <3>1. old = [step |-> old.step, decision |-> old.decision, rules |-> old.rules,
                 next |-> old.next, units |-> old.units, held |-> old.held,
                 appended |-> old.appended, plan |-> old.plan, warned |-> old.warned,
                 attempt |-> old.attempt]
      BY <1>1 DEF IsCall
    <3>2. c = [old EXCEPT !.held = held, !.appended = id, !.attempt = attempt,
                          !.step = step]
      OBVIOUS
    <3> HIDE DEF old, c
    <3> QED
      BY <3>1, <3>2
  <2> HIDE DEF c
  <2> QED
    BY <1>1, <1>3, <1>4, <2>1 DEF IsCall
<1> HIDE DEF c
<1> QED
  BY <1>1, <1>2, <1>5, CallInv, FinalityReflexive

LEMMA SoftCapStep ==
  ASSUME Inv, NEW g \in Guards, ExceedSoftCap(g)
  PROVE  Inv' /\ Finality(db, db')
<1> DEFINE old == call[g]
           warned == old.appended = 0
           plan == IF warned THEN old.plan
                   ELSE WithEntry(old.plan, old.appended, CurrentRule(g))
           c == [old EXCEPT !.step = "decided", !.warned = warned, !.plan = plan]
<1>1. IsCall(old) /\ DOMAIN call = Guards /\ UNCHANGED <<now, policy, event>>
      /\ old.step = "checking" /\ db' = ForCheck(g)
  BY DEF Inv, TypeOK, ExceedSoftCap
<1>2. CurrentRule(g) \in Rules /\ Sound(db') /\ Finality(db, db')
  BY <1>1, CurrentTypes
<1>3. call' = [call EXCEPT ![g] = c]
  BY <1>1 DEF ExceedSoftCap
<1>4. IsPlan(plan) /\ warned \in BOOLEAN
  BY <1>1, <1>2 DEF IsCall, IsPlan, WithEntry
<1>5. IsCall(c)
  <2> HIDE DEF warned, plan
  <2>1. c = [step |-> "decided", decision |-> old.decision, rules |-> old.rules,
             next |-> old.next, units |-> old.units, held |-> old.held,
             appended |-> old.appended, plan |-> plan, warned |-> warned,
             attempt |-> old.attempt]
    <3>1. old = [step |-> old.step, decision |-> old.decision, rules |-> old.rules,
                 next |-> old.next, units |-> old.units, held |-> old.held,
                 appended |-> old.appended, plan |-> old.plan, warned |-> old.warned,
                 attempt |-> old.attempt]
      BY <1>1 DEF IsCall
    <3>2. c = [old EXCEPT !.step = "decided", !.warned = warned, !.plan = plan]
      OBVIOUS
    <3> HIDE DEF old, c
    <3> QED
      BY <3>1, <3>2
  <2> HIDE DEF c
  <2> QED
    BY <1>1, <1>4, <2>1 DEF IsCall, Steps
<1> HIDE DEF c
<1> QED
  BY <1>1, <1>2, <1>3, <1>5, CallInv

(* The audit row is written, or not, and the thread moves on. *)
LEMMA PersistStep ==
  ASSUME Inv, NEW g \in Guards, PersistEvent(g) \/ \E stored \in BOOLEAN : PersistFails(g, stored)
  PROVE  Inv' /\ Finality(db, db')
<1>1. PICK step \in {"executing", "audited", "denied"} :
        call' = [call EXCEPT ![g].step = step]
  BY DEF PersistEvent, PersistFails
<1> DEFINE c == [call[g] EXCEPT !.step = step]
<1>2. /\ IsCall(call[g]) /\ DOMAIN call = Guards /\ db' = db /\ Sound(db)
      /\ UNCHANGED <<now, policy>> /\ call' = [call EXCEPT ![g] = c]
      /\ \/ event' = [event EXCEPT ![g] = EvidenceOf(call[g])]
         \/ event' = event
  BY <1>1 DEF Inv, TypeOK, PersistEvent, PersistFails
<1>3. IsEvent(EvidenceOf(call[g]))
  BY <1>2 DEF IsEvent, EvidenceOf, IsCall
<1>4. IsCall(c)
  BY <1>2 DEF IsCall, Steps
<1> HIDE DEF c
<1> QED
  BY <1>2, <1>3, <1>4, FinalityReflexive DEF Inv, TypeOK, Sound

(* The holds of a strengthened call are released and its list emptied. *)
LEMMA ApproveStep ==
  ASSUME Inv, NEW g \in Guards, ApproveStrengthened(g)
  PROVE  Inv' /\ Finality(db, db')
<1> DEFINE old == call[g]
           c == [old EXCEPT !.decision = "approved", !.held = {}, !.plan = << >>,
                            !.warned = FALSE]
<1>1. /\ IsCall(old) /\ DOMAIN call = Guards /\ UNCHANGED <<now, policy, event>>
      /\ old.step = "decided" /\ "approved" \in Decisions
      /\ Sound(db) /\ db' = ReleaseVerified(db, old.held)
  BY DEF Inv, TypeOK, ApproveStrengthened
<1>2. Sound(db') /\ Finality(db, db')
  BY <1>1, ReleaseSound
<1>3. call' = [call EXCEPT ![g] = c]
  BY <1>1 DEF ApproveStrengthened
<1>4. IsCall(c)
  <2>1. c = [step |-> old.step, decision |-> "approved", rules |-> old.rules,
             next |-> old.next, units |-> old.units, held |-> {},
             appended |-> old.appended, plan |-> << >>, warned |-> FALSE,
             attempt |-> old.attempt]
    <3>1. old = [step |-> old.step, decision |-> old.decision, rules |-> old.rules,
                 next |-> old.next, units |-> old.units, held |-> old.held,
                 appended |-> old.appended, plan |-> old.plan, warned |-> old.warned,
                 attempt |-> old.attempt]
      BY <1>1 DEF IsCall
    <3>2. c = [old EXCEPT !.decision = "approved", !.held = {}, !.plan = << >>,
                          !.warned = FALSE]
      OBVIOUS
    <3> HIDE DEF old, c
    <3> QED
      BY <3>1, <3>2
  <2>2. IsPlan(<< >>)
    BY DEF IsPlan
  <2> HIDE DEF c
  <2> QED
    BY <1>1, <2>1, <2>2 DEF IsCall
<1> HIDE DEF c
<1> QED
  BY <1>1, <1>2, <1>3, <1>4, CallInv

LEMMA ReportStep ==
  ASSUME Inv, NEW g \in Guards, NEW usage \in UnitsUsed \cup {NoUsage}, NEW denied,
         ReportUsage(g, usage, denied)
  PROVE  Inv' /\ Finality(db, db')
<1>1. Sound(db) /\ now \in Readings /\ IsEvent(event[g])
  BY DEF Inv, TypeOK
<1>2. IsPlan(PlanOf(g))
  <2>1. CASE event[g].kind = "absent"
    <3>1. \A i \in Ids(db) : i \in Nat /\ db.resv[i].rule \in Rules
      BY SMTT(30), <1>1, DatabaseFields DEF Sound, Reservation
    <3> QED
      BY <2>1, <3>1 DEF PlanOf, IsPlan, Present
  <2>2. CASE event[g].kind # "absent"
    BY <1>1, <2>2 DEF PlanOf, IsEvent
  <2> QED
    BY <2>1, <2>2
<1>3. db' = ReconcileGuard(db, g, PlanOf(g), usage, denied, now)
      /\ UNCHANGED <<now, policy, call, event>>
  BY DEF ReportUsage
<1>4. Sound(db') /\ Finality(db, db')
  BY <1>1, <1>2, <1>3, ReconcileSound
<1> QED
  BY <1>3, <1>4, TablesInv

LEMMA BindStep ==
  ASSUME Inv, NEW g \in Guards, BindGuardEvent(g)
  PROVE  Inv' /\ Finality(db, db')
<1> DEFINE S == Bindable(db, call[g].held, g)
<1>1. Sound(db) /\ UNCHANGED <<now, policy, event>>
  BY DEF Inv, BindGuardEvent
<1>2. CASE BreaksUniqueIndex(db, S, g)
  <2>1. db' = db /\ call' = [call EXCEPT ![g].step = "lost"]
    BY <1>2 DEF BindGuardEvent
  <2>2. "lost" \in Steps \ {"idle", "checking"}
    BY DEF Steps
  <2> QED
    BY <1>1, <2>1, <2>2, StepInv, FinalityReflexive
<1>3. CASE ~ BreaksUniqueIndex(db, S, g)
  <2>1. db' = BindRows(db, S, g) /\ call' = [call EXCEPT ![g].step = "executing"]
    BY <1>3 DEF BindGuardEvent
  <2>2. "executing" \in Steps \ {"idle", "checking"}
    BY DEF Steps
  <2>3. Sound(db') /\ Finality(db, db')
    BY <1>1, <2>1, BindSound
  <2> QED
    BY <1>1, <2>1, <2>2, <2>3, StepInv
<1> QED
  BY <1>2, <1>3

LEMMA NextInv ==
  ASSUME Inv, [Next]_vars
  PROVE  Inv' /\ Finality(db, db')
<1>1. Sound(db) /\ now \in Readings
  BY DEF Inv, TypeOK
<1>2. ASSUME UNCHANGED vars PROVE Inv' /\ Finality(db, db')
  BY <1>1, <1>2, FinalityReflexive DEF vars, Inv, TypeOK, Sound
<1>3. ASSUME NEW g \in Guards, NEW decision \in Decisions, NEW units \in UnitsUsed,
             StartGuard(g, decision, units)
      PROVE  Inv' /\ Finality(db, db')
  BY <1>3, StartGuardStep
<1>4. ASSUME NEW g \in Guards, HoldRule(g) PROVE Inv' /\ Finality(db, db')
  BY <1>4, HoldRuleStep
<1>5. ASSUME NEW g \in Guards, HoldRuleCommitFails(g) PROVE Inv' /\ Finality(db, db')
  BY <1>5, CommitFailsStep
<1>6. ASSUME NEW g \in Guards, ExceedHardCap(g) PROVE Inv' /\ Finality(db, db')
  <2>1. /\ call[g].step = "checking" /\ db' = ForCheck(g)
        /\ call' = [call EXCEPT ![g].step = "denied"] /\ UNCHANGED <<now, policy, event>>
        /\ "denied" \in Steps \ {"idle", "checking"}
    BY <1>6 DEF ExceedHardCap, Steps
  <2>2. Sound(db') /\ Finality(db, db')
    BY <2>1, CurrentTypes
  <2> QED
    BY <2>1, <2>2, StepInv
<1>7. ASSUME NEW g \in Guards, ExceedSoftCap(g) PROVE Inv' /\ Finality(db, db')
  BY <1>7, SoftCapStep
<1>8. ASSUME NEW g \in Guards, ReleaseDenied(g) \/ StrengthenDecision(g)
      PROVE  Inv' /\ Finality(db, db')
  <2>1. /\ db' = ReleaseVerified(db, call[g].held)
        /\ call' = [call EXCEPT ![g].step = "refused"] /\ UNCHANGED <<now, policy, event>>
        /\ "refused" \in Steps \ {"idle", "checking"}
    BY <1>8 DEF ReleaseDenied, StrengthenDecision, Steps
  <2>2. Sound(db') /\ Finality(db, db')
    BY <1>1, <2>1, ReleaseSound
  <2> QED
    BY <2>1, <2>2, StepInv
<1>9. ASSUME NEW g \in Guards, ApproveStrengthened(g) PROVE Inv' /\ Finality(db, db')
  BY <1>9, ApproveStep
<1>10. ASSUME NEW g \in Guards, PersistEvent(g) PROVE Inv' /\ Finality(db, db')
  BY <1>10, PersistStep
<1>11. ASSUME NEW g \in Guards, NEW stored \in BOOLEAN, PersistFails(g, stored)
       PROVE  Inv' /\ Finality(db, db')
  BY <1>11, PersistStep
<1>12. ASSUME NEW g \in Guards, BindGuardEvent(g) PROVE Inv' /\ Finality(db, db')
  BY <1>12, BindStep
<1>13. ASSUME NEW g \in Guards, Abort(g) PROVE Inv' /\ Finality(db, db')
  <2>1. /\ db' = db /\ call' = [call EXCEPT ![g].step = "lost"]
        /\ UNCHANGED <<now, policy, event>>
        /\ "lost" \in Steps \ {"idle", "checking"}
    BY <1>13 DEF Abort, Steps
  <2> QED
    BY <1>1, <2>1, StepInv, FinalityReflexive
<1>14. ASSUME NEW g \in Guards, NEW usage \in UnitsUsed \cup {NoUsage},
              NEW denied \in BOOLEAN, ReportUsage(g, usage, denied)
       PROVE  Inv' /\ Finality(db, db')
  BY <1>14, ReportStep
<1>15. ASSUME ListBudgets PROVE Inv' /\ Finality(db, db')
  BY <1>1, <1>15, ListSound, TablesInv DEF ListBudgets
<1>16. ASSUME Cleanup PROVE Inv' /\ Finality(db, db')
  BY <1>1, <1>16, CleanupSound, TablesInv DEF Cleanup
<1>17. ASSUME PublishPolicy PROVE Inv' /\ Finality(db, db')
  BY <1>1, <1>17, FinalityReflexive DEF PublishPolicy, Inv, TypeOK, Sound
<1>18. ASSUME Tick PROVE Inv' /\ Finality(db, db')
  BY <1>1, <1>18, FinalityReflexive DEF Tick, Inv, TypeOK, Sound
<1> QED
  BY <1>2, <1>3, <1>4, <1>5, <1>6, <1>7, <1>8, <1>9, <1>10, <1>11, <1>12, <1>13,
     <1>14, <1>15, <1>16, <1>17, <1>18 DEF Next

(* Inv is inductive, with no bound on calls, rules, callers or time, and   *)
(* whether or not a COMMIT may fail.                                       *)
THEOREM InvariantHolds == Spec => []Inv
<1>1. Init => Inv
  BY InitInv
<1>2. Inv /\ [Next]_vars => Inv'
  BY NextInv
<1> QED
  BY <1>1, <1>2, PTL DEF Spec

(* The tables, the request threads and the events keep their shape. *)
THEOREM TypeCorrect == Spec => []TypeOK
<1>1. Inv => TypeOK
  BY DEF Inv
<1> QED
  BY <1>1, InvariantHolds, PTL

(* No charge is lost, doubled or put on another window, however rollovers, *)
(* expiry, releases and reports interleave.                                *)
THEOREM BooksBalance == Spec => []ChargesConserved
<1>1. Inv => ChargesConserved
  BY DEF Inv, Sound, ChargesConserved
<1> QED
  BY <1>1, InvariantHolds, PTL

(* Each reservation carries exactly the charge its status stands for. *)
THEOREM RowsPricedOnce == Spec => []RowsPriced
<1>1. Inv => RowsPriced
  BY DEF Inv, Sound, RowsPriced
<1> QED
  BY <1>1, InvariantHolds, PTL

(* A settled or released reservation is never changed by a later request. *)
THEOREM OutcomesAreFinal == Spec => SettledIsFinal
<1>1. Inv /\ [Next]_vars => [Finality(db, db')]_vars
  BY NextInv
<1> QED
  BY <1>1, InvariantHolds, PTL DEF Spec, SettledIsFinal
=============================================================================
