--------------------------- MODULE BudgetCapProofs ---------------------------
(***************************************************************************)
(* Proofs that budgets are not overcommitted: the live counters hold       *)
(* exactly the unsettled holds, every hold fitted under its limit, and     *)
(* BudgetGuard implements SpendLedger.  They are about clocks that are     *)
(* never read at midnight exactly, where the reset of a new daily counter  *)
(* is due at once (run midnight).                                          *)
(***************************************************************************)
EXTENDS BudgetProofs

OffMidnight == \A t \in Readings : t % DayLength # 0

(***************************************************************************)
(* The calendar.                                                           *)
(***************************************************************************)
(* When window w of a rule ends. *)
Closes(window, w) ==
  CASE window = "daily"   -> (w + 1) * DayLength
    [] window = "monthly" -> (w + 1) * MonthLength
    [] OTHER              -> Never

(* What has lasted up to the end of period w is in a later period. *)
LEMMA LaterPeriod ==
  ASSUME NEW n \in Nat \ {0}, NEW t \in Nat, NEW w \in Nat, t >= (w + 1) * n
  PROVE  w < t \div n
<1> DEFINE q == t \div n
<1>1. q \in Int /\ t = n * q + (t % n) /\ t % n \in 0..(n - 1)
  OBVIOUS
<1> HIDE DEF q
<1>2. t < n * q + n
  BY <1>1
<1>3. SUFFICES ASSUME q <= w PROVE FALSE
  BY <1>1 DEF q
<1>4. n * q <= n * w
  BY <1>1, <1>3
<1>5. (w + 1) * n = n * w + n
  OBVIOUS
<1> QED
  BY <1>1, <1>2, <1>4, <1>5

LEMMA WindowIdType ==
  /\ WindowIds \subseteq Nat
  /\ \A w \in Windows, t \in Readings : WindowId(w, t) \in WindowIds
<1>1. \A t \in Readings : t \in Nat /\ t \div DayLength \in Nat /\ t \div MonthLength \in Nat
  BY TimeAssumption
<1> QED
  BY <1>1 DEF WindowIds, WindowId

(* Off midnight, a counter is opened until the end of its window. *)
LEMMA OpensUntilClose ==
  ASSUME OffMidnight, NEW w \in Windows, NEW t \in Readings
  PROVE  /\ OpenRow(w, t).window = WindowId(w, t) /\ OpenRow(w, t).reserved = 0
         /\ OpenRow(w, t).resetAt = Closes(w, WindowId(w, t))
<1>1. t % DayLength # 0
  BY DEF OffMidnight
<1> QED
  BY <1>1 DEF OpenRow, NextReset, Closes, WindowId

(* A counter that is due rolls to a later window. *)
LEMMA RollsForward ==
  ASSUME NEW w \in Windows, NEW t \in Readings, NEW row \in Row,
         row.resetAt = Closes(w, row.window), ResetDue(row, t)
  PROVE  row.window < WindowId(w, t)
<1>1. t \in Nat /\ DayLength \in Nat \ {0} /\ MonthLength \in Nat \ {0} /\ row.window \in Nat
  BY TimeAssumption, WindowIdType DEF Row
<1>2. t >= Closes(w, row.window) /\ Closes(w, row.window) # Never
  BY DEF ResetDue
<1>3. CASE w = "daily"
  BY <1>1, <1>2, <1>3, LaterPeriod DEF Closes, WindowId
<1>4. CASE w = "monthly"
  BY <1>1, <1>2, <1>4, LaterPeriod DEF Closes, WindowId
<1>5. CASE w = "session"
  BY <1>2, <1>5 DEF Closes
<1> QED
  BY <1>3, <1>4, <1>5 DEF Windows

(***************************************************************************)
(* The inductive invariant of the counters.  A window that is opened has   *)
(* no holds yet, because no hold is on a later window than its counter; so *)
(* reserved_usd may start at zero.  Nothing is archived for a window that  *)
(* has not been left, so the counter alone is what the window was charged. *)
(***************************************************************************)
RowCounted(d, i) ==
  /\ d.resv[i].amount >= 0
  /\ d.counter[d.resv[i].key] # NoRow
  /\ d.resv[i].window <= d.counter[d.resv[i].key].window

CounterCounted(d, k) ==
  /\ d.counter[k].resetAt = Closes(k.window, d.counter[k].window)
  /\ d.counter[k].reserved = HeldOn(d, k, d.counter[k].window)

NotLeft(d, k, w) == d.counter[k] = NoRow \/ d.counter[k].window <= w

Counted(d) ==
  /\ \A i \in Ids(d) : RowCounted(d, i)
  /\ \A k \in Key : d.counter[k] # NoRow => CounterCounted(d, k)
  /\ \A k \in Key, w \in WindowIds : NotLeft(d, k, w) => d.archive[k][w] = 0

(* What a transaction may do to a row, besides what Finality says. *)
Follows(r, s) ==
  /\ s.rule = r.rule /\ s.guard = r.guard
  /\ r.status = "expired_charged" => s.status \in {"expired_charged", "reconciled"}

Later(d, e) == \A i \in Ids(d) : Follows(d.resv[i], e.resv[i])

LEMMA LaterReflexive == ASSUME NEW d PROVE Later(d, d)
BY DEF Later, Follows

LEMMA LaterTransitive ==
  ASSUME NEW c, NEW d, NEW e, Later(c, d), Later(d, e), Finality(c, d), Finality(d, e)
  PROVE  Later(c, e)
BY DEF Later, Follows, Finality, Outcome

(* Rows that keep their account, their amount and whether they are held    *)
(* keep the total of each account.                                         *)
LEMMA SameHolds ==
  ASSUME NEW d \in Database, NEW e, Len(e.resv) = Len(d.resv),
         \A i \in Ids(d) : /\ e.resv[i].key = d.resv[i].key
                           /\ e.resv[i].window = d.resv[i].window
                           /\ e.resv[i].amount = d.resv[i].amount
                           /\ e.resv[i].status = d.resv[i].status,
         NEW k, NEW w
  PROVE  HeldOn(e, k, w) = HeldOn(d, k, w)
<1> DEFINE N == Len(d.resv)
           f == [i \in 1..N |-> IF d.resv[i].key = k /\ d.resv[i].window = w
                                   /\ d.resv[i].status = "reserved"
                                THEN d.resv[i].amount ELSE 0]
           h == [i \in 1..N |-> IF e.resv[i].key = k /\ e.resv[i].window = w
                                   /\ e.resv[i].status = "reserved"
                                THEN e.resv[i].amount ELSE 0]
<1>1. N \in Nat /\ Ids(d) = 1..N /\ Ids(e) = 1..N
  BY DatabaseFields DEF Ids
<1>2. \A i \in 1..N : h[i] = f[i]
  BY <1>1
<1>3. HeldOn(e, k, w) = SumTo(h, N) /\ HeldOn(d, k, w) = SumTo(f, N)
  BY <1>1 DEF HeldOn
<1> HIDE DEF f, h, N
<1> QED
  BY <1>1, <1>2, <1>3, SumEqual

(* The same rows under the same counters. *)
LEMMA SameCounted ==
  ASSUME NEW d \in Database, Counted(d), NEW e, Len(e.resv) = Len(d.resv),
         \A i \in Ids(d) : /\ e.resv[i].key = d.resv[i].key
                           /\ e.resv[i].window = d.resv[i].window
                           /\ e.resv[i].amount = d.resv[i].amount
                           /\ e.resv[i].status = d.resv[i].status,
         e.counter = d.counter, e.archive = d.archive
  PROVE  Counted(e)
<1>1. Ids(e) = Ids(d)
  BY DEF Ids
<1>2. \A k, w : HeldOn(e, k, w) = HeldOn(d, k, w)
  BY SameHolds
<1> QED
  BY <1>1, <1>2 DEF Counted, RowCounted, CounterCounted, NotLeft

(* A window later than every hold on its counter holds nothing. *)
LEMMA NothingHeld ==
  ASSUME NEW d \in Database, NEW k, NEW w,
         \A i \in Ids(d) : d.resv[i].key = k => d.resv[i].window # w
  PROVE  HeldOn(d, k, w) = 0
<1> DEFINE N == Len(d.resv)
           f == [i \in 1..N |-> IF d.resv[i].key = k /\ d.resv[i].window = w
                                   /\ d.resv[i].status = "reserved"
                                THEN d.resv[i].amount ELSE 0]
<1>1. N \in Nat /\ Ids(d) = 1..N
  BY DatabaseFields
<1>2. \A i \in 1..N : f[i] = 0
  BY <1>1
<1>3. HeldOn(d, k, w) = SumTo(f, N)
  BY <1>1 DEF HeldOn
<1> HIDE DEF f, N
<1> QED
  BY <1>1, <1>2, <1>3, SumOfZeros

(***************************************************************************)
(* Opening and rolling counters.                                           *)
(***************************************************************************)
LEMMA ResetCounted ==
  ASSUME OffMidnight, NEW d \in Database, Counted(d), NEW K, NEW t \in Readings,
         NEW e, e = ResetRowsIfDue(d, K, t)
  PROVE  Counted(e) /\ \A k \in Key : d.counter[k] # NoRow => e.counter[k] # NoRow
<1>1. e.resv = d.resv /\ Ids(e) = Ids(d)
  BY ResetRowsKeeps DEF Ids
<1>2. \A k \in Key : e.counter[k] = IF k \in K /\ ResetDue(d.counter[k], t)
                                    THEN OpenRow(k.window, t) ELSE d.counter[k]
  BY ResetRowsCounter
<1>3. \A k \in Key, w \in WindowIds :
        e.archive[k][w] = IF /\ k \in K /\ ResetDue(d.counter[k], t)
                             /\ d.counter[k].window = w
                          THEN d.archive[k][w] + d.counter[k].current
                          ELSE d.archive[k][w]
  BY DEF ResetRowsIfDue, Database
<1>4. \A k, w : HeldOn(e, k, w) = HeldOn(d, k, w)
  BY <1>1 DEF HeldOn
<1>5. \A k \in Key : k.window \in Windows
  BY KeyWindow
<1>6. \A k \in Key : d.counter[k] # NoRow => d.counter[k] \in Row /\ d.counter[k].window \in Nat
  BY WindowIdType, DatabaseFields DEF Row
<1>7. ASSUME NEW k \in Key, k \in K, ResetDue(d.counter[k], t)
      PROVE  /\ d.counter[k] # NoRow /\ e.counter[k] # NoRow
             /\ e.counter[k].window \in Nat /\ d.counter[k].window < e.counter[k].window
             /\ CounterCounted(e, k)
  <2>1. d.counter[k] # NoRow /\ e.counter[k] = OpenRow(k.window, t)
    BY <1>2, <1>7 DEF ResetDue
  <2>2. /\ e.counter[k].window = WindowId(k.window, t) /\ e.counter[k].reserved = 0
        /\ e.counter[k].resetAt = Closes(k.window, e.counter[k].window)
        /\ e.counter[k] # NoRow /\ e.counter[k].window \in Nat
    <3>1. k.window \in Windows /\ OpenRow(k.window, t) \in Row
      BY <1>5, OpenRowType
    <3>2. e.counter[k] \in Row /\ NoRow \notin Row
      BY <2>1, <3>1, NullsAssumption
    <3>3. WindowId(k.window, t) \in Nat
      BY <3>1, WindowIdType
    <3>4. /\ OpenRow(k.window, t).window = WindowId(k.window, t)
          /\ OpenRow(k.window, t).reserved = 0
          /\ OpenRow(k.window, t).resetAt = Closes(k.window, WindowId(k.window, t))
      BY <3>1, OpensUntilClose
    <3> QED
      BY <2>1, <3>2, <3>3, <3>4
  <2>3. d.counter[k].window < e.counter[k].window
    BY <1>5, <1>6, <1>7, <2>1, <2>2, RollsForward DEF Counted, CounterCounted
  <2>4. HeldOn(d, k, e.counter[k].window) = 0
    <3>1. \A i \in Ids(d) : d.resv[i].key = k => d.resv[i].window # e.counter[k].window
      <4> SUFFICES ASSUME NEW i \in Ids(d), d.resv[i].key = k
                   PROVE  d.resv[i].window # e.counter[k].window
        OBVIOUS
      <4>1. d.resv[i].window <= d.counter[k].window /\ d.resv[i].window \in Nat
        BY WindowIdType, DatabaseFields DEF Counted, RowCounted, Reservation
      <4> QED
        BY <1>6, <2>1, <2>2, <2>3, <4>1
    <3> QED
      BY <3>1, NothingHeld
  <2> QED
    BY <1>4, <2>1, <2>2, <2>3, <2>4 DEF CounterCounted
<1>8. ASSUME NEW k \in Key, ~ (k \in K /\ ResetDue(d.counter[k], t)), e.counter[k] # NoRow
      PROVE  CounterCounted(e, k)
  BY <1>2, <1>4, <1>8 DEF Counted, CounterCounted
<1>9. ASSUME NEW i \in Ids(d) PROVE RowCounted(e, i)
  <2> DEFINE k == d.resv[i].key
  <2>1. k \in Key /\ d.resv[i].window \in Nat
    BY WindowIdType, DatabaseFields DEF Reservation
  <2>2. RowCounted(d, i)
    BY DEF Counted
  <2>3. CASE k \in K /\ ResetDue(d.counter[k], t)
    BY <1>1, <1>6, <1>7, <2>1, <2>2, <2>3 DEF RowCounted
  <2>4. CASE ~ (k \in K /\ ResetDue(d.counter[k], t))
    BY <1>1, <1>2, <2>1, <2>2, <2>4 DEF RowCounted
  <2> QED
    BY <2>3, <2>4
<1>10. ASSUME NEW k \in Key, NEW w \in WindowIds, NotLeft(e, k, w)
       PROVE  e.archive[k][w] = 0
  <2>1. NotLeft(d, k, w) => d.archive[k][w] = 0
    BY DEF Counted
  <2>2. w \in Nat
    BY WindowIdType
  <2>3. CASE k \in K /\ ResetDue(d.counter[k], t)
    BY <1>3, <1>6, <1>7, <1>10, <2>1, <2>2, <2>3 DEF NotLeft
  <2>4. CASE ~ (k \in K /\ ResetDue(d.counter[k], t))
    BY <1>2, <1>3, <1>10, <2>1, <2>4 DEF NotLeft
  <2> QED
    BY <2>3, <2>4
<1>11. \A k \in Key : d.counter[k] # NoRow => e.counter[k] # NoRow
  BY <1>2, <1>7
<1> QED
  BY <1>1, <1>7, <1>8, <1>9, <1>10, <1>11 DEF Counted

LEMMA EnsureCounted ==
  ASSUME OffMidnight, NEW d \in Database, Counted(d), NEW K \in SUBSET Key,
         NEW t \in Readings, NEW e, e = EnsureBudgetRows(d, K, t)
  PROVE  Counted(e)
<1> DEFINE counter == [k \in Key |-> IF k \in K /\ d.counter[k] = NoRow
                                     THEN OpenRow(k.window, t) ELSE d.counter[k]]
           created == [d EXCEPT !.counter = counter]
<1>1. e = ResetRowsIfDue(created, K, t)
  BY DEF EnsureBudgetRows
<1>2. counter \in [Key -> Row \cup {NoRow}]
  BY KeyWindow, OpenRowType DEF Database
<1>3. /\ created \in Database /\ created.resv = d.resv /\ created.archive = d.archive
      /\ created.counter = counter /\ Ids(created) = Ids(d)
  BY <1>2 DEF Database, Ids
<1>4. \A k, w : HeldOn(created, k, w) = HeldOn(d, k, w)
  BY <1>3 DEF HeldOn
<1>5. ASSUME NEW i \in Ids(d) PROVE RowCounted(created, i)
  <2>1. d.resv[i].key \in Key /\ RowCounted(d, i)
    BY DatabaseFields DEF Reservation, Counted
  <2> QED
    BY <1>3, <2>1 DEF RowCounted
<1>6. ASSUME NEW k \in Key, created.counter[k] # NoRow PROVE CounterCounted(created, k)
  <2>1. CASE d.counter[k] # NoRow
    BY <1>3, <1>4, <2>1 DEF Counted, CounterCounted
  <2>2. CASE d.counter[k] = NoRow
    <3>1. created.counter[k] = OpenRow(k.window, t) /\ k.window \in Windows
      BY <1>3, <1>6, <2>2, KeyWindow
    <3>2. \A i \in Ids(d) : d.resv[i].key # k
      BY <2>2 DEF Counted, RowCounted
    <3>3. \A w : HeldOn(d, k, w) = 0
      BY <3>2, NothingHeld
    <3> HIDE DEF created
    <3> QED
      BY <1>4, <3>1, <3>3, OpensUntilClose DEF CounterCounted
  <2> QED
    BY <2>1, <2>2
<1>7. ASSUME NEW k \in Key, NEW w \in WindowIds, NotLeft(created, k, w)
      PROVE  created.archive[k][w] = 0
  <2>1. NotLeft(d, k, w)
    BY <1>3, <1>7 DEF NotLeft
  <2> QED
    BY <1>3, <2>1 DEF Counted
<1> HIDE DEF created
<1>8. Counted(created)
  BY <1>3, <1>5, <1>6, <1>7 DEF Counted
<1> QED
  BY <1>1, <1>3, <1>8, ResetCounted

(***************************************************************************)
(* Settling and releasing holds.                                           *)
(***************************************************************************)
(* The holds of S leave the total of an open window by what its counter    *)
(* loses, and never by more than there is.                                 *)
LEMMA HoldsLeave ==
  ASSUME NEW d \in Database, Counted(d), NEW S \in SUBSET Ids(d), NEW e,
         Len(e.resv) = Len(d.resv),
         \A i \in Ids(d) : /\ e.resv[i].key = d.resv[i].key
                           /\ e.resv[i].window = d.resv[i].window
                           /\ e.resv[i].amount = d.resv[i].amount
                           /\ i \in S => e.resv[i].status # "reserved"
                           /\ i \notin S => e.resv[i].status = d.resv[i].status,
         NEW k \in Key, d.counter[k] # NoRow
  PROVE  LET w == d.counter[k].window
             gone == ToCounter(d, S, HeldBy(d, S), k)
         IN  /\ HeldOn(d, k, w) \in Int /\ gone \in Int /\ gone <= HeldOn(d, k, w)
             /\ HeldOn(e, k, w) = HeldOn(d, k, w) - gone
<1> DEFINE N == Len(d.resv)
           w == d.counter[k].window
           was == [i \in 1..N |-> IF /\ d.resv[i].key = k /\ d.resv[i].window = w
                                     /\ d.resv[i].status = "reserved"
                                  THEN d.resv[i].amount ELSE 0]
           stays == [i \in 1..N |-> IF /\ e.resv[i].key = k /\ e.resv[i].window = w
                                       /\ e.resv[i].status = "reserved"
                                    THEN e.resv[i].amount ELSE 0]
           goes == [i \in 1..N |-> IF i \in S /\ d.resv[i].key = k /\ SameWindow(d, i)
                                   THEN HeldBy(d, S)[i] ELSE 0]
<1>1. N \in Nat /\ Ids(d) = 1..N /\ Ids(e) = 1..N
  BY DatabaseFields DEF Ids
<1>2. /\ HeldOn(d, k, w) = SumTo(was, N) /\ HeldOn(e, k, w) = SumTo(stays, N)
      /\ ToCounter(d, S, HeldBy(d, S), k) = SumTo(goes, N)
  BY <1>1 DEF HeldOn, ToCounter
<1>3. ASSUME NEW i \in 1..N
      PROVE  /\ was[i] \in Int /\ stays[i] \in Int /\ goes[i] \in Int
             /\ was[i] = stays[i] + goes[i] /\ goes[i] <= was[i]
  <2>1. d.resv[i].amount \in Int /\ d.resv[i].amount >= 0
    BY <1>1, DatabaseFields DEF Reservation, Counted, RowCounted
  <2>2. d.resv[i].key = k => (SameWindow(d, i) <=> d.resv[i].window = w)
    BY DEF SameWindow
  <2>3. HeldBy(d, S)[i] = IF i \in S /\ d.resv[i].status = "reserved"
                          THEN d.resv[i].amount ELSE 0
    BY <1>1 DEF HeldBy
  <2>4. /\ e.resv[i].key = d.resv[i].key /\ e.resv[i].window = d.resv[i].window
        /\ e.resv[i].amount = d.resv[i].amount
        /\ i \in S => e.resv[i].status # "reserved"
        /\ i \notin S => e.resv[i].status = d.resv[i].status
    BY <1>1
  <2> HIDE DEF w
  <2> QED
    BY <2>1, <2>2, <2>3, <2>4
<1> HIDE DEF was, stays, goes, N, w
<1>4. SumTo(was, N) \in Int /\ SumTo(stays, N) \in Int /\ SumTo(goes, N) \in Int
  BY <1>1, <1>3, SumInt
<1>5. SumTo(was, N) = SumTo(stays, N) + SumTo(goes, N)
  <2>1. \A i \in 1..N : stays[i] \in Int /\ goes[i] \in Int /\ was[i] = stays[i] + goes[i]
    BY <1>3
  <2> QED
    BY <1>1, <2>1, SumPlus
<1>6. SumTo(goes, N) <= SumTo(was, N)
  BY <1>1, <1>3, SumMonotone
<1> QED
  BY <1>2, <1>4, <1>5, <1>6 DEF w

(* The rows of S are given a status that holds nothing, their counters     *)
(* lose what they held, and archives change only for windows left behind.  *)
LEMMA LeavingCounted ==
  ASSUME NEW d \in Database, Counted(d), NEW S \in SUBSET Ids(d), NEW e \in Database,
         Len(e.resv) = Len(d.resv),
         \A i \in Ids(d) : /\ e.resv[i].key = d.resv[i].key
                           /\ e.resv[i].window = d.resv[i].window
                           /\ e.resv[i].amount = d.resv[i].amount
                           /\ i \in S => e.resv[i].status # "reserved"
                           /\ i \notin S => e.resv[i].status = d.resv[i].status,
         \A k \in Key : d.counter[k] = NoRow => e.counter[k] = NoRow,
         \A k \in Key : d.counter[k] # NoRow =>
            /\ e.counter[k] # NoRow /\ e.counter[k].window = d.counter[k].window
            /\ e.counter[k].resetAt = d.counter[k].resetAt
            /\ e.counter[k].reserved =
                 Larger(0, d.counter[k].reserved - ToCounter(d, S, HeldBy(d, S), k)),
         \A k \in Key, w \in WindowIds : NotLeft(d, k, w) => e.archive[k][w] = d.archive[k][w]
  PROVE  Counted(e)
<1>1. Ids(e) = Ids(d)
  BY DEF Ids
<1>2. ASSUME NEW k \in Key, e.counter[k] # NoRow PROVE CounterCounted(e, k)
  <2>1. d.counter[k] # NoRow /\ CounterCounted(d, k)
    BY <1>2 DEF Counted
  <2> DEFINE w == d.counter[k].window
             gone == ToCounter(d, S, HeldBy(d, S), k)
  <2>2. /\ HeldOn(d, k, w) \in Int /\ gone \in Int /\ gone <= HeldOn(d, k, w)
        /\ HeldOn(e, k, w) = HeldOn(d, k, w) - gone
    BY <2>1, HoldsLeave
  <2>3. e.counter[k].reserved = Larger(0, HeldOn(d, k, w) - gone)
        /\ e.counter[k].window = w /\ e.counter[k].resetAt = Closes(k.window, w)
    BY <2>1 DEF CounterCounted
  <2> HIDE DEF w, gone
  <2> QED
    BY <2>2, <2>3 DEF CounterCounted, Larger
<1>3. ASSUME NEW i \in Ids(d) PROVE RowCounted(e, i)
  <2>1. d.resv[i].key \in Key /\ RowCounted(d, i)
    BY DatabaseFields DEF Reservation, Counted
  <2> QED
    BY <2>1 DEF RowCounted
<1>4. ASSUME NEW k \in Key, NEW w \in WindowIds, NotLeft(e, k, w)
      PROVE  e.archive[k][w] = 0
  <2>1. NotLeft(d, k, w)
    BY <1>4 DEF NotLeft
  <2> QED
    BY <2>1 DEF Counted
<1> QED
  BY <1>1, <1>2, <1>3, <1>4 DEF Counted

LEMMA SettleCounted ==
  ASSUME NEW d, Sound(d), Counted(d), NEW S \in SUBSET Ids(d),
         NEW status \in {"expired_charged", "reconciled"},
         \A i \in S : d.resv[i].status # "expired_charged" \/ status = "reconciled",
         NEW delta, \A i \in S : delta[i] \in Int,
         NEW reported, \A i \in S : reported[i] \in Int \cup {NoUsage},
         NEW e, e = Settle(d, S, delta, status, reported)
  PROVE  Counted(e) /\ Later(d, e)
<1>1. d \in Database /\ status \in Statuses
  BY DEF Sound, Statuses
<1>2. e \in Database /\ Len(e.resv) = Len(d.resv) /\ Ids(e) = Ids(d)
  BY <1>1, SettleType
<1>3. ASSUME NEW i \in Ids(d)
      PROVE  /\ e.resv[i].key = d.resv[i].key /\ e.resv[i].window = d.resv[i].window
             /\ e.resv[i].amount = d.resv[i].amount
             /\ e.resv[i].rule = d.resv[i].rule /\ e.resv[i].guard = d.resv[i].guard
             /\ i \in S => e.resv[i].status = status
             /\ i \notin S => e.resv[i].status = d.resv[i].status
  <2>1. e.resv[i] = IF i \in S THEN SettledRow(d.resv[i], status, reported[i], delta[i])
                    ELSE d.resv[i]
    BY <1>1, SettleRows
  <2>2. d.resv[i] \in Reservation
    BY <1>1, DatabaseFields
  <2> QED
    BY <2>1, <2>2 DEF SettledRow, Reservation
<1>4. ASSUME NEW k \in Key, d.counter[k] # NoRow
      PROVE  /\ e.counter[k] # NoRow /\ e.counter[k].window = d.counter[k].window
             /\ e.counter[k].resetAt = d.counter[k].resetAt
             /\ e.counter[k].reserved =
                  Larger(0, d.counter[k].reserved - ToCounter(d, S, HeldBy(d, S), k))
  <2> DEFINE charge == ToCounter(d, S, delta, k)
             gone == ToCounter(d, S, HeldBy(d, S), k)
  <2>1. charge \in Int /\ gone \in Int
    BY <1>1, HeldByType, ToCounterType
  <2>2. e.counter[k] = ChargedRow(d.counter[k], charge, gone)
    BY <1>1, <1>4, SettleCounters
  <2>3. d.counter[k] \in Row
    BY <1>1, <1>4, DatabaseFields
  <2> HIDE DEF charge, gone
  <2>4. /\ e.counter[k] \in Row /\ e.counter[k].window = d.counter[k].window
        /\ e.counter[k].resetAt = d.counter[k].resetAt
        /\ e.counter[k].reserved = Larger(0, d.counter[k].reserved - gone)
    BY <2>1, <2>2, <2>3, ChargedRowType
  <2> QED
    BY <2>4, NullsAssumption DEF gone
<1>5. \A k \in Key : d.counter[k] = NoRow => e.counter[k] = NoRow
  BY <1>1, SettleCounters
<1>6. ASSUME NEW k \in Key, NEW w \in WindowIds, NotLeft(d, k, w)
      PROVE  e.archive[k][w] = d.archive[k][w]
  <2> DEFINE N == Len(d.resv)
             f == [i \in 1..N |-> IF /\ i \in S /\ d.resv[i].key = k /\ d.resv[i].window = w
                                     /\ ~ SameWindow(d, i)
                                  THEN delta[i] ELSE 0]
  <2>1. N \in Nat /\ Ids(d) = 1..N /\ d.archive[k][w] \in Int
    BY <1>1, DatabaseFields
  <2>2. \A i \in 1..N : f[i] = 0
    <3> SUFFICES ASSUME NEW i \in 1..N, d.resv[i].key = k, d.resv[i].window = w
                 PROVE  SameWindow(d, i)
      OBVIOUS
    <3>1. RowCounted(d, i)
      BY <2>1 DEF Counted
    <3>2. w \in Nat /\ (d.counter[k] # NoRow => d.counter[k].window \in Nat)
      BY <1>1, WindowIdType, DatabaseFields DEF Row
    <3> QED
      BY <1>6, <3>1, <3>2 DEF RowCounted, SameWindow, NotLeft
  <2>3. ToArchive(d, S, delta, k, w) = SumTo(f, N)
    BY <2>1 DEF ToArchive
  <2>4. e.archive[k][w] = d.archive[k][w] + ToArchive(d, S, delta, k, w)
    BY <1>1, SettleArchives
  <2> HIDE DEF f, N
  <2> QED
    BY <2>1, <2>2, <2>3, <2>4, SumOfZeros
<1>7. Counted(e)
  BY ZenonT(60), <1>1, <1>2, <1>3, <1>4, <1>5, <1>6, LeavingCounted
<1>8. Later(d, e)
  BY <1>3 DEF Later, Follows
<1> QED
  BY <1>7, <1>8

LEMMA ExpireCounted ==
  ASSUME NEW d, Sound(d), Counted(d), NEW t \in Readings, NEW e, e = ExpireDue(d, t)
  PROVE  Counted(e) /\ Later(d, e)
<1> DEFINE S == Overdue(d, t)
           delta == [i \in S |-> d.resv[i].amount]
           reported == [i \in S |-> NoUsage]
<1>1. e = Settle(d, S, delta, "expired_charged", reported)
  BY DEF ExpireDue
<1>2. S \in SUBSET Ids(d) /\ \A i \in S : d.resv[i].status = "reserved"
  BY DEF Overdue
<1>3. \A i \in S : delta[i] \in Int /\ reported[i] \in Int \cup {NoUsage}
  BY <1>2, DatabaseFields DEF Sound, Reservation
<1> HIDE DEF S, delta, reported
<1> QED
  BY <1>1, <1>2, <1>3, SettleCounted

LEMMA ReleaseCounted ==
  ASSUME NEW d, Sound(d), Counted(d), NEW held, NEW e, e = ReleaseVerified(d, held)
  PROVE  Counted(e) /\ Later(d, e) /\ Ids(e) = Ids(d)
<1> DEFINE S == {i \in Present(d, held) : d.resv[i].status = "reserved"}
<1>1. d \in Database /\ e \in Database
  BY ReleaseSound DEF Sound
<1>2. S \in SUBSET Ids(d) /\ \A i \in S : d.resv[i].status = "reserved"
  BY DEF Present
<1>3. /\ Len(e.resv) = Len(d.resv) /\ e.archive = d.archive
      /\ \A i \in Ids(d) : e.resv[i] =
           IF i \in S THEN [d.resv[i] EXCEPT !.status = "cancelled_verified", !.charged = 0]
           ELSE d.resv[i]
      /\ \A k \in Key : e.counter[k] =
           IF d.counter[k] = NoRow THEN NoRow
           ELSE ChargedRow(d.counter[k], 0, ToCounter(d, S, HeldBy(d, S), k))
  <2> DEFINE resv == [i \in Ids(d) |-> IF i \in S
                        THEN [d.resv[i] EXCEPT !.status = "cancelled_verified", !.charged = 0]
                        ELSE d.resv[i]]
             counter == [k \in Key |-> IF d.counter[k] = NoRow THEN NoRow
                           ELSE ChargedRow(d.counter[k], 0, ToCounter(d, S, HeldBy(d, S), k))]
  <2>1. e = [d EXCEPT !.resv = resv, !.counter = counter]
    BY DEF ReleaseVerified
  <2>2. e.resv = resv /\ e.counter = counter /\ e.archive = d.archive
    <3> HIDE DEF resv, counter
    <3> QED
      BY <1>1, <2>1 DEF Database
  <2>3. Len(resv) = Len(d.resv)
    <3>1. DOMAIN resv = 1..Len(d.resv) /\ resv \in Seq(Reservation) /\ Len(d.resv) \in Nat
      BY <1>1, <2>2, DatabaseFields
    <3> HIDE DEF resv
    <3> QED
      BY <3>1
  <2> QED
    BY <2>2, <2>3
<1>4. ASSUME NEW i \in Ids(d)
      PROVE  /\ e.resv[i].key = d.resv[i].key /\ e.resv[i].window = d.resv[i].window
             /\ e.resv[i].amount = d.resv[i].amount
             /\ e.resv[i].rule = d.resv[i].rule /\ e.resv[i].guard = d.resv[i].guard
             /\ i \in S => e.resv[i].status = "cancelled_verified"
             /\ i \notin S => e.resv[i].status = d.resv[i].status
  <2>1. d.resv[i] \in Reservation
    BY <1>1, DatabaseFields
  <2> HIDE DEF S
  <2> QED
    BY <1>3, <2>1 DEF Reservation
<1>5. ASSUME NEW k \in Key, d.counter[k] # NoRow
      PROVE  /\ e.counter[k] # NoRow /\ e.counter[k].window = d.counter[k].window
             /\ e.counter[k].resetAt = d.counter[k].resetAt
             /\ e.counter[k].reserved =
                  Larger(0, d.counter[k].reserved - ToCounter(d, S, HeldBy(d, S), k))
  <2> DEFINE gone == ToCounter(d, S, HeldBy(d, S), k)
  <2>1. gone \in Int
    BY <1>1, <1>2, HeldByType, ToCounterType
  <2>2. e.counter[k] = ChargedRow(d.counter[k], 0, gone)
    BY <1>3, <1>5
  <2>3. d.counter[k] \in Row
    BY <1>1, <1>5, DatabaseFields
  <2> HIDE DEF gone
  <2>4. /\ e.counter[k] \in Row /\ e.counter[k].window = d.counter[k].window
        /\ e.counter[k].resetAt = d.counter[k].resetAt
        /\ e.counter[k].reserved = Larger(0, d.counter[k].reserved - gone)
    BY <2>1, <2>2, <2>3, ChargedRowType
  <2> QED
    BY <2>4, NullsAssumption DEF gone
<1>6. \A k \in Key : d.counter[k] = NoRow => e.counter[k] = NoRow
  BY <1>3
<1>7. Counted(e)
  <2>1. \A i \in Ids(d) : /\ e.resv[i].key = d.resv[i].key
                          /\ e.resv[i].window = d.resv[i].window
                          /\ e.resv[i].amount = d.resv[i].amount
                          /\ i \in S => e.resv[i].status # "reserved"
                          /\ i \notin S => e.resv[i].status = d.resv[i].status
    BY <1>4
  <2>2. \A k \in Key, w \in WindowIds :
          NotLeft(d, k, w) => e.archive[k][w] = d.archive[k][w]
    BY <1>3
  <2>3. Len(e.resv) = Len(d.resv)
    BY <1>3
  <2> HIDE DEF S
  <2> QED
    BY <1>1, <1>2, <1>5, <1>6, <2>1, <2>2, <2>3, LeavingCounted
<1>8. Later(d, e)
  BY <1>2, <1>4 DEF Later, Follows
<1> QED
  BY <1>3, <1>7, <1>8 DEF Ids

(***************************************************************************)
(* Binding, holding and maintenance.                                       *)
(***************************************************************************)
LEMMA BindCounted ==
  ASSUME NEW d, Sound(d), Counted(d), NEW S, NEW g \in Guards, NEW e, e = BindRows(d, S, g)
  PROVE  Counted(e) /\ Later(d, e) /\ Ids(e) = Ids(d)
<1> DEFINE resv == [i \in Ids(d) |->
              IF i \in S THEN [d.resv[i] EXCEPT !.event = g] ELSE d.resv[i]]
<1>1. d \in Database /\ e \in Database
  BY BindSound DEF Sound
<1>2. e = [d EXCEPT !.resv = resv]
  BY DEF BindRows
<1>3. /\ Len(d.resv) \in Nat /\ Ids(d) = 1..Len(d.resv)
      /\ \A i \in Ids(d) : d.resv[i] \in Reservation
  BY <1>1, DatabaseFields
<1>4. e.resv = resv /\ e.counter = d.counter /\ e.archive = d.archive
  <2> HIDE DEF resv
  <2> QED
    BY <1>1, <1>2 DEF Database
<1>5. \A i \in Ids(d) : /\ e.resv[i].key = d.resv[i].key
                        /\ e.resv[i].window = d.resv[i].window
                        /\ e.resv[i].amount = d.resv[i].amount
                        /\ e.resv[i].status = d.resv[i].status
                        /\ e.resv[i].rule = d.resv[i].rule
                        /\ e.resv[i].guard = d.resv[i].guard
  BY <1>3, <1>4 DEF Reservation
<1>6. Len(e.resv) = Len(d.resv)
  <2>1. DOMAIN resv = 1..Len(d.resv) /\ resv \in Seq(Reservation)
    BY <1>1, <1>3, <1>4, DatabaseFields
  <2> HIDE DEF resv
  <2> QED
    BY <1>3, <1>4, <2>1
<1> HIDE DEF resv
<1>7. Counted(e)
  BY <1>1, <1>4, <1>5, <1>6, SameCounted
<1> QED
  BY <1>5, <1>6, <1>7 DEF Later, Follows, Ids

LEMMA OpenForCheckCounted ==
  ASSUME OffMidnight, NEW d, Sound(d), Counted(d), NEW k \in Key, NEW t \in Readings,
         NEW e, e = OpenForCheck(d, k, t)
  PROVE  Counted(e) /\ Later(d, e) /\ Ids(e) = Ids(d)
<1> DEFINE x == ExpireDue(d, t)
<1>1. Sound(x) /\ Counted(x) /\ Later(d, x) /\ Ids(x) = Ids(d)
  BY ExpireSound, ExpireCounted
<1>2. e = EnsureBudgetRows(x, {k}, t)
  BY DEF OpenForCheck
<1> HIDE DEF x
<1>3. x \in Database /\ {k} \in SUBSET Key
  BY <1>1 DEF Sound
<1>4. Counted(e)
  BY <1>1, <1>2, <1>3, EnsureCounted
<1>5. e.resv = x.resv
  BY <1>1, <1>2, <1>3, EnsureRowsSound
<1> QED
  BY <1>1, <1>4, <1>5 DEF Later, Ids

(* Settling a plan: its rows are held, or were charged at their deadline.  *)
LEMMA SettlePlanCounted ==
  ASSUME OffMidnight, NEW d, Sound(d), Counted(d), NEW g \in Guards, NEW plan, IsPlan(plan),
         DOMAIN plan \subseteq Ids(d), NEW usage \in UnitsUsed \cup {NoUsage},
         NEW denied, NEW t \in Readings, NEW e, e = SettlePlan(d, g, plan, usage, denied, t)
  PROVE  Counted(e) /\ Later(d, e) /\ Ids(e) = Ids(d)
<1> DEFINE S     == DOMAIN plan
           bound == BindRows(d, Unbound(d, S), g)
           todo  == ToSettle(d, S, usage)
           K     == {CounterKey(plan[i], PrincipalOf[d.resv[i].guard]) : i \in todo}
           open  == EnsureBudgetRows(bound, K, t)
           delta == [i \in todo |-> Price(d.resv[i], plan[i], usage) - d.resv[i].charged]
           paid  == [i \in todo |-> IF usage = NoUsage THEN NoUsage ELSE Cost(plan[i], usage)]
<1>1. e = IF IsPending(d, S, usage, denied) THEN bound
          ELSE Settle(open, todo, delta, "reconciled", paid)
  BY DEF SettlePlan
<1>2. Sound(bound) /\ Counted(bound) /\ Later(d, bound) /\ Ids(bound) = Ids(d)
  BY BindSound, BindCounted
<1>3. todo \in SUBSET Ids(d) /\ \A i \in todo : i \in Nat /\ plan[i] \in Rules
  BY DEF ToSettle, IsPlan
<1>4. \A i \in Ids(d) : /\ d.resv[i] \in Reservation /\ d.resv[i].guard \in Guards
                        /\ d.resv[i].amount \in Int /\ d.resv[i].charged \in Int
  BY DatabaseFields DEF Sound, Reservation
<1>5. K \in SUBSET Key
  <2> SUFFICES ASSUME NEW i \in todo
               PROVE  CounterKey(plan[i], PrincipalOf[d.resv[i].guard]) \in Key
    OBVIOUS
  <2>1. plan[i] \in Rules /\ PrincipalOf[d.resv[i].guard] \in Principals
    BY <1>3, <1>4, CallersAssumption
  <2> HIDE DEF todo
  <2> QED
    BY <2>1, CounterKeyType
<1>6. Sound(open) /\ Counted(open) /\ open.resv = bound.resv
  <2> HIDE DEF bound, K
  <2> QED
    BY ZenonT(60), <1>2, <1>5, EnsureRowsSound, EnsureCounted DEF Sound
<1>7. Ids(open) = Ids(d) /\ Later(d, open)
  BY <1>2, <1>6 DEF Ids, Later
<1>8. \A i \in todo : delta[i] \in Int /\ paid[i] \in Int \cup {NoUsage}
  <2> SUFFICES ASSUME NEW i \in todo
               PROVE  delta[i] \in Int /\ paid[i] \in Int \cup {NoUsage}
    OBVIOUS
  <2>1. d.resv[i].amount \in Int /\ d.resv[i].charged \in Int
    BY <1>3, <1>4
  <2>2. usage # NoUsage => Cost(plan[i], usage) \in Int
    BY <1>3, CostType, GuardAssumption
  <2>3. Price(d.resv[i], plan[i], usage) \in Int
    BY <2>1, <2>2 DEF Price
  <2>4. delta[i] = Price(d.resv[i], plan[i], usage) - d.resv[i].charged
        /\ paid[i] = IF usage = NoUsage THEN NoUsage ELSE Cost(plan[i], usage)
    OBVIOUS
  <2> HIDE DEF todo, delta, paid
  <2> QED
    BY <2>1, <2>2, <2>3, <2>4
<1>9. CASE IsPending(d, S, usage, denied)
  BY <1>1, <1>2, <1>9
<1>10. CASE ~ IsPending(d, S, usage, denied)
  <2>1. e = Settle(open, todo, delta, "reconciled", paid)
    BY <1>1, <1>10
  <2> HIDE DEF open, todo, delta, paid, bound
  <2>2. Counted(e) /\ Later(open, e)
    BY <1>3, <1>6, <1>7, <1>8, <2>1, SettleCounted
  <2>3. Ids(e) = Ids(open)
    <3>1. open \in Database /\ todo \in SUBSET Ids(open) /\ "reconciled" \in Statuses
      BY <1>3, <1>6, <1>7 DEF Sound, Statuses
    <3> QED
      BY <1>8, <2>1, <3>1, SettleType
  <2>4. \A i \in Ids(d) : Follows(d.resv[i], open.resv[i]) /\ Follows(open.resv[i], e.resv[i])
    BY <1>7, <2>2 DEF Later
  <2>5. \A i \in Ids(d) : open.resv[i].status = "reconciled" => e.resv[i].status = "reconciled"
    <3>1. \A i \in Ids(open) : e.resv[i] =
            IF i \in todo THEN SettledRow(open.resv[i], "reconciled", paid[i], delta[i])
            ELSE open.resv[i]
      BY <1>6, <2>1, SettleRows DEF Sound
    <3>2. \A i \in Ids(open) : open.resv[i] \in Reservation
      BY <1>6, DatabaseFields DEF Sound
    <3>3. \A r \in Reservation : \A status, reported, more :
            SettledRow(r, status, reported, more).status = status
      BY DEF SettledRow, Reservation
    <3> QED
      BY <1>7, <3>1, <3>2, <3>3
  <2>6. Later(d, e)
    BY <2>4, <2>5 DEF Later, Follows
  <2> QED
    BY <1>7, <2>2, <2>3, <2>6
<1> QED
  BY <1>9, <1>10

LEMMA ReconcileCounted ==
  ASSUME OffMidnight, NEW d, Sound(d), Counted(d), NEW g \in Guards, NEW plan, IsPlan(plan),
         NEW usage \in UnitsUsed \cup {NoUsage}, NEW denied, NEW t \in Readings,
         NEW e, e = ReconcileGuard(d, g, plan, usage, denied, t)
  PROVE  Counted(e) /\ Later(d, e) /\ Ids(e) = Ids(d)
<1> DEFINE x == ExpireDue(d, t)
<1>1. Sound(x) /\ Finality(d, x) /\ Counted(x) /\ Later(d, x) /\ Ids(x) = Ids(d)
  BY ExpireSound, ExpireCounted
<1>2. e = IF PlanIsBroken(x, g, plan) THEN [d EXCEPT !.findings = @ \cup {g}]
          ELSE IF PlanFails(x, g, plan) THEN d
          ELSE SettlePlan(x, g, plan, usage, denied, t)
  BY DEF ReconcileGuard
<1> HIDE DEF x
<1>3. CASE PlanIsBroken(x, g, plan)
  <2>1. /\ e.resv = d.resv /\ e.counter = d.counter /\ e.archive = d.archive /\ d \in Database
    <3>1. e = [d EXCEPT !.findings = d.findings \cup {g}] /\ d \in Database
      BY <1>2, <1>3 DEF Sound, Database
    <3> QED
      BY <3>1 DEF Database
  <2>2. Counted(e)
    BY <2>1, SameCounted
  <2> QED
    BY <2>1, <2>2 DEF Later, Follows, Ids
<1>4. CASE ~ PlanIsBroken(x, g, plan) /\ ~ PlanFails(x, g, plan)
  <2>1. DOMAIN plan \subseteq Ids(x)
    BY <1>4 DEF PlanFails, RowFails, IsBroken, Present
  <2>2. e = SettlePlan(x, g, plan, usage, denied, t)
    BY <1>2, <1>4
  <2>3. Counted(e) /\ Later(x, e) /\ Ids(e) = Ids(x) /\ Finality(x, e)
    BY <1>1, <2>1, <2>2, SettlePlanSound, SettlePlanCounted
  <2> QED
    BY <1>1, <2>3, LaterTransitive
<1>5. CASE ~ PlanIsBroken(x, g, plan) /\ PlanFails(x, g, plan)
  BY <1>2, <1>5, LaterReflexive
<1> QED
  BY <1>3, <1>4, <1>5

LEMMA ListCounted ==
  ASSUME OffMidnight, NEW d, Sound(d), Counted(d), NEW t \in Readings,
         NEW e, e = ListActiveBudgets(d, t)
  PROVE  Counted(e) /\ Later(d, e) /\ Ids(e) = Ids(d)
<1> DEFINE x == ExpireDue(d, t)
           K == {k \in Key : x.counter[k] # NoRow}
<1>1. Sound(x) /\ Counted(x) /\ Later(d, x) /\ Ids(x) = Ids(d)
  BY ExpireSound, ExpireCounted
<1>2. e = ResetRowsIfDue(x, K, t)
  BY DEF ListActiveBudgets
<1> HIDE DEF x, K
<1>3. Counted(e) /\ e.resv = x.resv
  BY <1>1, <1>2, ResetCounted, ResetRowsKeeps DEF Sound
<1> QED
  BY <1>1, <1>3 DEF Later, Ids

LEMMA CleanupCounted ==
  ASSUME NEW d, Sound(d), Counted(d), NEW t, NEW e, e = CleanupResolved(d, t)
  PROVE  Counted(e) /\ Later(d, e) /\ Ids(e) = Ids(d)
<1>1. d \in Database
  BY DEF Sound
<1>2. e.resv = d.resv /\ e.counter = d.counter /\ e.archive = d.archive
  BY <1>1 DEF CleanupResolved, Database
<1>3. Counted(e)
  BY <1>1, <1>2, SameCounted
<1> QED
  BY <1>2, <1>3 DEF Later, Follows, Ids

(* A hold that was admitted: with it, everything its window is charged and *)
(* still holds is within the limit.                                        *)
Admitted(e) ==
  LET r == e.resv[Len(e.resv)]
  IN  /\ r.status = "reserved" /\ r.charged = 0
      /\ HeldOn(e, r.key, r.window) + ChargedTo(e, r.key, r.window) <= r.rule.limit

LEMMA AddHoldCounted ==
  ASSUME NEW d, Sound(d), Counted(d), NEW g \in Guards, NEW rule \in Rules,
         NEW amount \in Nat, NEW t \in Readings,
         d.counter[CounterKey(rule, PrincipalOf[g])] \in Row,
         Fits(d, CounterKey(rule, PrincipalOf[g]), rule.limit, amount),
         NEW e, e = AddHold(d, g, rule, amount, t)
  PROVE  Counted(e) /\ Later(d, e) /\ Admitted(e)
<1> DEFINE k0 == CounterKey(rule, PrincipalOf[g])
           row == d.counter[k0]
           hold == [guard |-> g, rule |-> rule, key |-> k0,
               window |-> row.window, amount |-> amount, charged |-> 0,
               reported |-> NoUsage, created |-> t,
               deadline |-> t + ReservationTTL, status |-> "reserved",
               event |-> NoGuard]
           N == Len(d.resv)
<1>1. /\ d \in Database /\ Sound(e) /\ e \in Database /\ Len(e.resv) = N + 1
      /\ Balanced(d) /\ Balanced(e)
  BY AddHoldSound DEF Sound
<1>2. /\ N \in Nat /\ Ids(d) = 1..N /\ Ids(e) = 1..(N + 1) /\ d.resv \in Seq(Reservation)
      /\ \A i \in 1..N : d.resv[i] \in Reservation
  BY <1>1, DatabaseFields DEF Ids
<1>3. /\ k0 \in Key /\ row \in Row /\ row # NoRow /\ row.window \in WindowIds
      /\ row.window \in Nat /\ row.reserved \in Int /\ row.current \in Int
  BY CallersAssumption, CounterKeyType, NullsAssumption, WindowIdType DEF Row
<1>4. /\ hold.key = k0 /\ hold.window = row.window /\ hold.amount = amount
      /\ hold.charged = 0 /\ hold.status = "reserved" /\ hold.rule = rule
  OBVIOUS
<1>5. /\ e.resv[N + 1] = hold /\ \A i \in 1..N : e.resv[i] = d.resv[i]
      /\ e.archive = d.archive
      /\ \A k \in Key : k # k0 => e.counter[k] = d.counter[k]
      /\ e.counter[k0] = [row EXCEPT !.reserved = @ + amount]
  <2> DEFINE resv == Append(d.resv, hold)
             counter == [d.counter EXCEPT ![k0].reserved = @ + amount]
  <2>1. e = [d EXCEPT !.resv = resv, !.counter = counter]
    BY <1>1 DEF AddHold, Database
  <2>2. e.resv = resv /\ e.counter = counter /\ e.archive = d.archive
    <3> HIDE DEF resv, counter
    <3> QED
      BY <1>1, <2>1 DEF Database
  <2>3. DOMAIN d.counter = Key
    BY <1>1, DatabaseFields
  <2> HIDE DEF hold
  <2> QED
    BY <1>2, <1>3, <2>2, <2>3
<1>6. /\ e.counter[k0] # NoRow /\ e.counter[k0].window = row.window
      /\ e.counter[k0].resetAt = row.resetAt /\ e.counter[k0].current = row.current
      /\ e.counter[k0].reserved = row.reserved + amount
  <2>1. row.reserved + amount \in Int
    BY <1>3
  <2> HIDE DEF k0, row, hold, N
  <2>2. e.counter[k0] \in Row
    BY <1>3, <1>5, <2>1 DEF Row
  <2> QED
    BY <1>3, <1>5, <2>2, NullsAssumption DEF Row
<1> HIDE DEF hold
<1>7. ASSUME NEW k, NEW w
      PROVE  HeldOn(e, k, w) = HeldOn(d, k, w) +
               (IF k = k0 /\ w = row.window THEN amount ELSE 0)
  <2> DEFINE f == [i \in 1..(N + 1) |-> IF /\ e.resv[i].key = k /\ e.resv[i].window = w
                                           /\ e.resv[i].status = "reserved"
                                        THEN e.resv[i].amount ELSE 0]
             h == [i \in 1..N |-> IF /\ d.resv[i].key = k /\ d.resv[i].window = w
                                     /\ d.resv[i].status = "reserved"
                                  THEN d.resv[i].amount ELSE 0]
  <2>1. HeldOn(e, k, w) = SumTo(f, N + 1) /\ HeldOn(d, k, w) = SumTo(h, N)
    BY <1>1, <1>2 DEF HeldOn
  <2>2. f[N + 1] = IF k = k0 /\ w = row.window THEN amount ELSE 0
    BY <1>2, <1>4, <1>5
  <2>3. \A i \in 1..N : f[i] = h[i] /\ h[i] \in Int
    <3>1. \A i \in 1..N : e.resv[i] = d.resv[i] /\ d.resv[i].amount \in Int
      BY <1>2, <1>5 DEF Reservation
    <3>2. \A i \in 1..N : i \in 1..(N + 1)
      BY <1>2
    <3> HIDE DEF N
    <3> QED
      BY <3>1, <3>2
  <2> HIDE DEF f, h, N, row, k0
  <2>4. SumTo(f, N + 1) = SumTo(f, N) + f[N + 1]
    BY <1>2, SumStep
  <2>5. SumTo(f, N) = SumTo(h, N)
    BY <1>2, <2>3, SumEqual
  <2> QED
    BY <2>1, <2>2, <2>4, <2>5
<1>8. CounterCounted(d, k0)
  BY <1>3 DEF Counted
<1>9. ASSUME NEW k \in Key, e.counter[k] # NoRow PROVE CounterCounted(e, k)
  <2>1. CASE k = k0
    BY <1>6, <1>7, <1>8, <2>1 DEF CounterCounted
  <2>2. CASE k # k0
    <3>1. e.counter[k] = d.counter[k] /\ CounterCounted(d, k)
      BY <1>5, <1>9, <2>2 DEF Counted
    <3>2. HeldOn(e, k, d.counter[k].window) = HeldOn(d, k, d.counter[k].window) + 0
      BY <1>7, <2>2
    <3>3. d.counter[k].reserved \in Int
      BY <1>1, <1>9, <3>1, DatabaseFields DEF Row
    <3> QED
      BY <3>1, <3>2, <3>3 DEF CounterCounted
  <2> QED
    BY <2>1, <2>2
<1>10. \A k \in Key : d.counter[k] # NoRow =>
         e.counter[k] # NoRow /\ e.counter[k].window = d.counter[k].window
  BY <1>5, <1>6
<1>11. ASSUME NEW i \in Ids(e) PROVE RowCounted(e, i)
  <2>1. CASE i \in 1..N
    <3>1. RowCounted(d, i) /\ d.resv[i].key \in Key /\ e.resv[i] = d.resv[i]
      BY <1>2, <1>5, <2>1 DEF Counted, Reservation
    <3> QED
      BY <1>10, <3>1 DEF RowCounted
  <2>2. CASE i = N + 1
    <3>1. /\ e.resv[i].amount = amount /\ e.resv[i].key = k0
          /\ e.resv[i].window = row.window
      BY <1>4, <1>5, <2>2
    <3> HIDE DEF k0, row
    <3> QED
      BY <1>3, <1>6, <3>1 DEF RowCounted
  <2> QED
    BY <1>2, <2>1, <2>2
<1>12. ASSUME NEW k \in Key, NEW w \in WindowIds, NotLeft(e, k, w)
       PROVE  e.archive[k][w] = 0
  <2>1. NotLeft(d, k, w)
    BY <1>10, <1>12 DEF NotLeft
  <2> QED
    BY <1>5, <2>1 DEF Counted
<1>13. Counted(e)
  BY <1>9, <1>11, <1>12 DEF Counted
<1>14. Later(d, e)
  BY <1>2, <1>5 DEF Later, Follows
<1>15. Admitted(e)
  <2> DEFINE w0 == row.window
  <2>1. HeldOn(e, k0, w0) = row.reserved + amount
    BY <1>7, <1>8 DEF CounterCounted
  <2>2. ChargedTo(e, k0, w0) = row.current
    <3>1. d.archive[k0][w0] = 0
      BY <1>3 DEF Counted, NotLeft
    <3>2. Booked(e, k0, w0) = row.current
      BY <1>3, <1>5, <1>6, <3>1 DEF Booked
    <3> QED
      BY <1>1, <1>3, <3>2 DEF Balanced
  <2>3. row.current + row.reserved + amount <= rule.limit
    BY DEF Fits
  <2>4. e.resv[Len(e.resv)] = hold
    BY <1>1, <1>5
  <2> HIDE DEF row, k0
  <2>5. HeldOn(e, k0, w0) + ChargedTo(e, k0, w0) <= rule.limit
    BY <1>3, <2>1, <2>2, <2>3, RulesAssumption
  <2> QED
    BY <1>4, <2>4, <2>5 DEF Admitted
<1> QED
  BY <1>13, <1>14, <1>15

(***************************************************************************)
(* The state machine.                                                      *)
(***************************************************************************)
(* What one step may do to the ledger: rows follow the rules above, and at *)
(* most one hold is taken, if it was admitted.                             *)
Advance(d, e) ==
  /\ Finality(d, e) /\ Later(d, e)
  /\ \/ Len(e.resv) = Len(d.resv)
     \/ Len(e.resv) = Len(d.resv) + 1 /\ Admitted(e)

LEMMA IdsLen ==
  ASSUME NEW d, NEW e, Sound(d), Sound(e), Ids(e) = Ids(d)
  PROVE  Len(e.resv) = Len(d.resv)
<1>1. Len(d.resv) \in Nat /\ Len(e.resv) \in Nat /\ 1..Len(d.resv) = 1..Len(e.resv)
  BY DatabaseFields DEF Sound, Ids
<1>2. \A m, n \in Nat : 1..m = 1..n => m = n
  <2> SUFFICES ASSUME NEW m \in Nat, NEW n \in Nat, 1..m = 1..n PROVE m = n
    OBVIOUS
  <2>1. m > 0 => m \in 1..n
    OBVIOUS
  <2>2. n > 0 => n \in 1..m
    OBVIOUS
  <2> QED
    BY <2>1, <2>2
<1> QED
  BY <1>1, <1>2

LEMMA EmptyCounted == Counted(EmptyDatabase)
BY DEF Counted, EmptyDatabase, Ids

LEMMA HoldRuleAdvances ==
  ASSUME OffMidnight, Inv, Counted(db), NEW g \in Guards, HoldRule(g)
  PROVE  Counted(db') /\ Advance(db, db')
<1> DEFINE d == ForCheck(g)
           rule == CurrentRule(g)
           amount == CurrentAmount(g)
<1>1. /\ call[g].step = "checking" /\ CurrentFits(g)
      /\ db' = AddHold(d, g, rule, amount, now)
  BY DEF HoldRule
<1>2. /\ rule \in Rules /\ amount \in Nat /\ now \in Readings /\ CurrentKey(g) \in Key
      /\ Sound(d) /\ Finality(db, d) /\ d.counter[CurrentKey(g)] \in Row
  BY <1>1, CurrentTypes
<1>3. Counted(d) /\ Later(db, d) /\ Ids(d) = Ids(db)
  BY <1>2, OpenForCheckCounted DEF ForCheck, Inv
<1>4. CurrentKey(g) = CounterKey(rule, PrincipalOf[g]) /\ Fits(d, CurrentKey(g), rule.limit, amount)
  BY <1>1 DEF CurrentKey, CurrentFits
<1>5. /\ d.counter[CounterKey(rule, PrincipalOf[g])] \in Row
      /\ Fits(d, CounterKey(rule, PrincipalOf[g]), rule.limit, amount)
  BY <1>2, <1>4
<1>6. Finality(db, db') /\ Sound(db)
  BY HoldRuleStep DEF Inv
<1>7. Len(d.resv) = Len(db.resv)
  BY <1>2, <1>3, <1>6, IdsLen
<1> HIDE DEF d, rule, amount
<1>8. Counted(db') /\ Later(d, db') /\ Admitted(db')
  BY <1>1, <1>2, <1>3, <1>5, AddHoldCounted
<1>9. Finality(d, db') /\ Len(db'.resv) = Len(d.resv) + 1
  BY <1>1, <1>2, <1>5, AddHoldSound
<1> QED
  BY <1>2, <1>3, <1>6, <1>7, <1>8, <1>9, LaterTransitive DEF Advance

(* Every other transaction leaves the list of holds as long as it is. *)
LEMMA SameLength ==
  ASSUME Inv, [Next]_vars, Counted(db'), Later(db, db'), Ids(db') = Ids(db)
  PROVE  Counted(db') /\ Advance(db, db')
<1>1. Sound(db) /\ Sound(db') /\ Finality(db, db')
  BY NextInv DEF Inv
<1> QED
  BY <1>1, IdsLen DEF Advance

LEMMA NextAdvances ==
  ASSUME OffMidnight, Inv, Counted(db), [Next]_vars
  PROVE  Counted(db') /\ Advance(db, db')
<1>1. Sound(db) /\ now \in Readings
  BY DEF Inv, TypeOK
<1>2. ASSUME db' = db PROVE Counted(db') /\ Advance(db, db')
  BY <1>1, <1>2, LaterReflexive, FinalityReflexive DEF Advance
<1>3. ASSUME NEW g \in Guards, HoldRule(g) PROVE Counted(db') /\ Advance(db, db')
  BY <1>3, HoldRuleAdvances
<1>4. ASSUME NEW g \in Guards, ExceedHardCap(g) \/ ExceedSoftCap(g)
      PROVE  Counted(db') /\ Advance(db, db')
  <2>1. call[g].step = "checking" /\ db' = OpenForCheck(db, CurrentKey(g), now)
    BY <1>4 DEF ExceedHardCap, ExceedSoftCap, ForCheck
  <2>2. CurrentKey(g) \in Key
    BY <2>1, CurrentTypes
  <2> QED
    BY <1>1, <2>1, <2>2, OpenForCheckCounted, SameLength
<1>5. ASSUME NEW g \in Guards, ReleaseDenied(g) \/ StrengthenDecision(g)
                                 \/ ApproveStrengthened(g)
      PROVE  Counted(db') /\ Advance(db, db')
  <2>1. db' = ReleaseVerified(db, call[g].held)
    BY <1>5 DEF ReleaseDenied, StrengthenDecision, ApproveStrengthened
  <2> QED
    BY <1>1, <2>1, ReleaseCounted, SameLength
<1>6. ASSUME NEW g \in Guards, BindGuardEvent(g) PROVE Counted(db') /\ Advance(db, db')
  <2> DEFINE S == Bindable(db, call[g].held, g)
  <2>1. db' = db \/ db' = BindRows(db, S, g)
    BY <1>6 DEF BindGuardEvent
  <2>2. CASE db' = BindRows(db, S, g)
    <3> HIDE DEF S
    <3> QED
      BY <1>1, <2>2, BindCounted, SameLength
  <2> QED
    BY <1>2, <2>1, <2>2
<1>7. ASSUME NEW g \in Guards, NEW usage \in UnitsUsed \cup {NoUsage},
             NEW denied \in BOOLEAN, ReportUsage(g, usage, denied)
      PROVE  Counted(db') /\ Advance(db, db')
  <2>1. IsPlan(PlanOf(g))
    <3>1. IsEvent(event[g])
      BY DEF Inv, TypeOK
    <3>2. \A i \in Ids(db) : i \in Nat /\ db.resv[i].rule \in Rules
      <4>1. \A i \in Ids(db) : db.resv[i] \in Reservation
        BY <1>1, DatabaseFields DEF Sound
      <4>2. Ids(db) \subseteq Nat
        BY <1>1, DatabaseFields DEF Sound
      <4> QED
        BY <4>1, <4>2 DEF Reservation
    <3>3. CASE event[g].kind = "absent"
      BY <3>2, <3>3 DEF PlanOf, IsPlan, Present
    <3>4. CASE event[g].kind # "absent"
      BY <3>1, <3>4 DEF PlanOf, IsEvent
    <3> QED
      BY <3>3, <3>4
  <2>2. db' = ReconcileGuard(db, g, PlanOf(g), usage, denied, now)
    BY <1>7 DEF ReportUsage
  <2> QED
    BY <1>1, <2>1, <2>2, ReconcileCounted, SameLength
<1>8. ASSUME ListBudgets PROVE Counted(db') /\ Advance(db, db')
  BY <1>1, <1>8, ListCounted, SameLength DEF ListBudgets
<1>9. ASSUME Cleanup PROVE Counted(db') /\ Advance(db, db')
  BY <1>1, <1>9, CleanupCounted, SameLength DEF Cleanup
<1>10. ASSUME NEW g \in Guards,
              \/ \E decision \in Decisions, units \in UnitsUsed : StartGuard(g, decision, units)
              \/ HoldRuleCommitFails(g) \/ PersistEvent(g)
              \/ \E stored \in BOOLEAN : PersistFails(g, stored)
              \/ Abort(g)
       PROVE  Counted(db') /\ Advance(db, db')
  <2>1. db' = db
    BY <1>10 DEF StartGuard, HoldRuleCommitFails, PersistEvent, PersistFails, Abort
  <2> QED
    BY <1>2, <2>1
<1>11. ASSUME PublishPolicy \/ Tick \/ UNCHANGED vars PROVE Counted(db') /\ Advance(db, db')
  <2>1. db' = db
    BY <1>11 DEF PublishPolicy, Tick, vars
  <2> QED
    BY <1>2, <2>1
<1> QED
  BY <1>3, <1>4, <1>5, <1>6, <1>7, <1>8, <1>9, <1>10, <1>11 DEF Next

(* The live reservations of an open counter are its unsettled holds,       *)
(* through rollovers, expiry, releases, late reports and failed commits,   *)
(* for every clock that is not read at midnight.                           *)
THEOREM HoldsAlwaysCounted ==
  ASSUME OffMidnight
  PROVE  Spec => []HoldsCounted
<1>1. Init => Counted(db)
  BY EmptyCounted DEF Init
<1>2. Inv /\ Counted(db) /\ [Next]_vars => Counted(db)'
  BY NextAdvances
<1>3. Counted(db) => HoldsCounted
  BY DEF Counted, CounterCounted, HoldsCounted
<1> QED
  BY <1>1, <1>2, <1>3, InvariantHolds, PTL DEF Spec

(***************************************************************************)
(* Caps.  Counting rows i <= n only, the commitments of a window never     *)
(* grow after n was admitted.                                              *)
(***************************************************************************)
(* What a window is charged and still holds, row by row. *)
Due(r) == IF r.status = "reserved" THEN r.amount ELSE r.charged

DueOn(d, k, w) ==
  SumTo([i \in Ids(d) |-> IF d.resv[i].key = k /\ d.resv[i].window = w
                          THEN Due(d.resv[i]) ELSE 0], Len(d.resv))

LEMMA DueIsHeldAndCharged ==
  ASSUME NEW d, Sound(d), NEW k, NEW w
  PROVE  DueOn(d, k, w) = HeldOn(d, k, w) + ChargedTo(d, k, w)
<1> DEFINE N == Len(d.resv)
           due == [i \in 1..N |-> IF d.resv[i].key = k /\ d.resv[i].window = w
                                  THEN Due(d.resv[i]) ELSE 0]
           held == [i \in 1..N |-> IF /\ d.resv[i].key = k /\ d.resv[i].window = w
                                      /\ d.resv[i].status = "reserved"
                                   THEN d.resv[i].amount ELSE 0]
           charged == [i \in 1..N |-> IF d.resv[i].key = k /\ d.resv[i].window = w
                                      THEN d.resv[i].charged ELSE 0]
<1>1. /\ N \in Nat /\ Ids(d) = 1..N
      /\ \A i \in 1..N : d.resv[i] \in Reservation /\ PricedOnce(d.resv[i])
  BY DatabaseFields DEF Sound
<1>2. ASSUME NEW i \in 1..N
      PROVE  held[i] \in Int /\ charged[i] \in Int /\ due[i] = held[i] + charged[i]
  <2>1. /\ d.resv[i].amount \in Int /\ d.resv[i].charged \in Int
        /\ d.resv[i].status = "reserved" => d.resv[i].charged = 0
    BY <1>1 DEF Reservation, PricedOnce
  <2> QED
    BY <2>1 DEF Due
<1>3. /\ DueOn(d, k, w) = SumTo(due, N) /\ HeldOn(d, k, w) = SumTo(held, N)
      /\ ChargedTo(d, k, w) = SumTo(charged, N)
  BY <1>1 DEF DueOn, HeldOn, ChargedTo
<1> HIDE DEF due, held, charged, N
<1>4. \A i \in 1..N : held[i] \in Int /\ charged[i] \in Int /\ due[i] = held[i] + charged[i]
  BY <1>2
<1>5. SumTo(due, N) = SumTo(held, N) + SumTo(charged, N)
  BY SMTT(30), <1>1, <1>4, SumPlus
<1> QED
  BY <1>3, <1>5

LEMMA AdmittedWithinLimit ==
  ASSUME NEW d, Sound(d), Admitted(d), Len(d.resv) # 0
  PROVE  LET r == d.resv[Len(d.resv)]
         IN  r.status = "reserved" /\ r.charged = 0 /\ DueOn(d, r.key, r.window) <= r.rule.limit
BY DueIsHeldAndCharged DEF Admitted

(* The commitment of hold i and those before it on its window. *)
CommittedUpTo(d, i) ==
  SumTo([j \in Ids(d) |-> IF /\ j <= i /\ d.resv[j].key = d.resv[i].key
                             /\ d.resv[j].window = d.resv[i].window
                          THEN Commitment(d.resv[j]) ELSE 0], Len(d.resv))

Capped(d) == \A i \in Ids(d) : CommittedUpTo(d, i) <= d.resv[i].rule.limit

LEMMA CommitmentFalls ==
  ASSUME NEW r \in Reservation, NEW s \in Reservation, r.amount >= 0,
         PricedOnce(r), PricedOnce(s), Outcome(r, s), Follows(r, s)
  PROVE  /\ Commitment(r) \in Int /\ Commitment(s) \in Int
         /\ Commitment(s) <= Commitment(r)
<1>1. /\ r.amount \in Int /\ r.charged \in Int /\ s.charged \in Int /\ s.amount = r.amount
      /\ r.status \in Statuses /\ s.status \in Statuses
  BY DEF Reservation, Outcome
<1>2. CASE r.status = "reserved"
  BY <1>1, <1>2 DEF Commitment
<1>3. CASE r.status = "expired_charged"
  <2>1. r.charged = r.amount
    BY <1>3 DEF PricedOnce
  <2>2. s.status # "reserved"
    BY <1>3 DEF Follows
  <2> QED
    BY <1>1, <1>3, <2>1, <2>2 DEF Commitment
<1>4. CASE r.status \in {"reconciled", "cancelled_verified"}
  <2>1. s.status = r.status /\ s.charged = r.charged
    BY <1>4 DEF Outcome
  <2> QED
    BY <1>1, <1>4, <2>1 DEF Commitment
<1> QED
  BY <1>1, <1>2, <1>3, <1>4 DEF Statuses

LEMMA CommitmentDue ==
  ASSUME NEW r \in Reservation
  PROVE  Commitment(r) \in Int /\ Due(r) \in Int /\ Commitment(r) <= Due(r)
BY DEF Commitment, Due, Reservation

(* A hold taken before stays within its limit. *)
LEMMA OldHoldsCapped ==
  ASSUME NEW d, NEW e, Sound(d), Sound(e), Counted(d), Advance(d, e), Capped(d),
         NEW i \in Ids(d)
  PROVE  CommittedUpTo(e, i) <= e.resv[i].rule.limit
<1> DEFINE N == Len(d.resv)
           M == Len(e.resv)
           was == [j \in 1..N |-> IF /\ j <= i /\ d.resv[j].key = d.resv[i].key
                                     /\ d.resv[j].window = d.resv[i].window
                                  THEN Commitment(d.resv[j]) ELSE 0]
           is == [j \in 1..M |-> IF /\ j <= i /\ e.resv[j].key = e.resv[i].key
                                    /\ e.resv[j].window = e.resv[i].window
                                 THEN Commitment(e.resv[j]) ELSE 0]
<1>1. /\ N \in Nat /\ M \in Nat /\ Ids(d) = 1..N /\ Ids(e) = 1..M /\ i \in 1..N
      /\ M = N \/ M = N + 1
      /\ \A j \in 1..N : d.resv[j] \in Reservation
      /\ \A j \in 1..M : e.resv[j] \in Reservation
  BY DatabaseFields DEF Sound, Advance
<1>2. ASSUME NEW j \in 1..N
      PROVE  /\ Commitment(d.resv[j]) \in Int /\ Commitment(e.resv[j]) \in Int
             /\ Commitment(e.resv[j]) <= Commitment(d.resv[j])
             /\ e.resv[j].key = d.resv[j].key /\ e.resv[j].window = d.resv[j].window
             /\ e.resv[j].rule = d.resv[j].rule
  <2>1. /\ d.resv[j] \in Reservation /\ e.resv[j] \in Reservation
        /\ d.resv[j].amount >= 0 /\ PricedOnce(d.resv[j]) /\ PricedOnce(e.resv[j])
        /\ Outcome(d.resv[j], e.resv[j]) /\ Follows(d.resv[j], e.resv[j])
    BY <1>1 DEF Sound, Counted, RowCounted, Advance, Finality, Later
  <2> QED
    BY <2>1, CommitmentFalls DEF Outcome, Follows
<1>3. CommittedUpTo(d, i) = SumTo(was, N) /\ CommittedUpTo(e, i) = SumTo(is, M)
  BY <1>1 DEF CommittedUpTo
<1>4. \A j \in 1..N : was[j] \in Int /\ is[j] \in Int /\ is[j] <= was[j]
  <2> SUFFICES ASSUME NEW j \in 1..N PROVE was[j] \in Int /\ is[j] \in Int /\ is[j] <= was[j]
    OBVIOUS
  <2>1. j \in 1..M /\ e.resv[i].key = d.resv[i].key /\ e.resv[i].window = d.resv[i].window
    BY <1>1, <1>2
  <2> QED
    BY <1>2, <2>1
<1>5. M = N + 1 => is[M] = 0
  <2>1. M = N + 1 => M \in 1..M /\ ~ (M <= i)
    BY <1>1
  <2> HIDE DEF N, M
  <2> QED
    BY <2>1
<1> HIDE DEF was, is
<1>6. SumTo(is, N) <= SumTo(was, N) /\ SumTo(is, N) \in Int /\ SumTo(was, N) \in Int
  BY <1>1, <1>4, SumMonotone, SumInt
<1>7. SumTo(is, M) = SumTo(is, N)
  <2>1. CASE M = N
    BY <2>1
  <2>2. CASE M = N + 1
    <3>1. SumTo(is, N + 1) = SumTo(is, N) + is[N + 1]
      BY <1>1, SumStep
    <3> QED
      BY <1>5, <1>6, <2>2, <3>1
  <2> QED
    BY <1>1, <2>1, <2>2
<1>8. SumTo(was, N) <= d.resv[i].rule.limit /\ d.resv[i].rule.limit \in Int
  BY <1>1, <1>3, RulesAssumption DEF Capped, Reservation
<1>9. e.resv[i].rule = d.resv[i].rule
  BY <1>1, <1>2
<1> HIDE DEF N, M
<1> QED
  BY <1>3, <1>6, <1>7, <1>8, <1>9

(* The hold just admitted is within its limit, together with the others.   *)
LEMMA NewHoldCapped ==
  ASSUME NEW e, Sound(e), Admitted(e), Len(e.resv) # 0
  PROVE  CommittedUpTo(e, Len(e.resv)) <= e.resv[Len(e.resv)].rule.limit
<1> DEFINE M == Len(e.resv)
           r == e.resv[M]
           due == [j \in 1..M |-> IF e.resv[j].key = r.key /\ e.resv[j].window = r.window
                                  THEN Due(e.resv[j]) ELSE 0]
           is == [j \in 1..M |-> IF /\ j <= M /\ e.resv[j].key = r.key
                                    /\ e.resv[j].window = r.window
                                 THEN Commitment(e.resv[j]) ELSE 0]
<1>1. M \in Nat \ {0} /\ Ids(e) = 1..M /\ \A j \in 1..M : e.resv[j] \in Reservation
  BY DatabaseFields DEF Sound
<1>2. CommittedUpTo(e, M) = SumTo(is, M) /\ DueOn(e, r.key, r.window) = SumTo(due, M)
  BY <1>1 DEF CommittedUpTo, DueOn
<1>3. \A j \in 1..M : is[j] \in Int /\ due[j] \in Int /\ is[j] <= due[j]
  <2> SUFFICES ASSUME NEW j \in 1..M PROVE is[j] \in Int /\ due[j] \in Int /\ is[j] <= due[j]
    OBVIOUS
  <2>1. /\ Commitment(e.resv[j]) \in Int /\ Due(e.resv[j]) \in Int
        /\ Commitment(e.resv[j]) <= Due(e.resv[j])
    BY <1>1, CommitmentDue
  <2>2. j <= M
    BY <1>1
  <2> HIDE DEF M, r
  <2> QED
    BY <2>1, <2>2
<1>4. DueOn(e, r.key, r.window) <= r.rule.limit
  BY AdmittedWithinLimit
<1>5. r.rule.limit \in Int
  BY <1>1, RulesAssumption DEF Reservation
<1> HIDE DEF is, due, M, r
<1>6. SumTo(is, M) <= SumTo(due, M) /\ SumTo(is, M) \in Int /\ SumTo(due, M) \in Int
  BY <1>1, <1>3, SumMonotone, SumInt
<1>7. SumTo(is, M) <= r.rule.limit
  BY <1>2, <1>4, <1>5, <1>6
<1> QED
  BY <1>2, <1>7 DEF M, r

LEMMA AdvanceCapped ==
  ASSUME NEW d, NEW e, Sound(d), Sound(e), Counted(d), Advance(d, e), Capped(d)
  PROVE  Capped(e)
<1>1. Len(d.resv) \in Nat /\ Ids(d) = 1..Len(d.resv) /\ Ids(e) = 1..Len(e.resv)
  BY DatabaseFields DEF Sound
<1> SUFFICES ASSUME NEW i \in Ids(e) PROVE CommittedUpTo(e, i) <= e.resv[i].rule.limit
  BY DEF Capped
<1>2. CASE i \in Ids(d)
  BY <1>2, OldHoldsCapped
<1>3. CASE i \notin Ids(d)
  <2>1. Admitted(e) /\ Len(e.resv) = Len(d.resv) + 1 /\ i = Len(e.resv)
    BY <1>1, <1>3 DEF Advance
  <2> QED
    BY <1>1, <2>1, NewHoldCapped
<1> QED
  BY <1>2, <1>3

(* No hold was ever taken above its limit, however the holds of other      *)
(* calls, their expiry and their reports interleave with its check.        *)
THEOREM CapsHold ==
  ASSUME OffMidnight
  PROVE  Spec => []CapRespected
<1>1. Init => Counted(db) /\ Capped(db)
  <2>1. Capped(EmptyDatabase)
    BY DEF Capped, EmptyDatabase, Ids
  <2> QED
    BY <2>1, EmptyCounted DEF Init
<1>2. Inv /\ Inv' /\ Counted(db) /\ Capped(db) /\ [Next]_vars
        => Counted(db)' /\ Capped(db)'
  <2> SUFFICES ASSUME Inv, Inv', Counted(db), Capped(db), [Next]_vars
               PROVE  Counted(db') /\ Capped(db')
    OBVIOUS
  <2>1. Counted(db') /\ Advance(db, db')
    BY NextAdvances
  <2>2. Sound(db) /\ Sound(db')
    BY DEF Inv
  <2> QED
    BY <2>1, <2>2, AdvanceCapped
<1>3. Capped(db) => CapRespected
  BY DEF Capped, CommittedUpTo, CapRespected
<1> QED
  BY <1>1, <1>2, <1>3, InvariantHolds, PTL DEF Spec

(***************************************************************************)
(* The refinement: each step of the ledger is a step of SpendLedger.       *)
(***************************************************************************)
View(d) == [i \in Ids(d) |-> HoldView(d.resv[i])]

Account(k, w) == [key |-> k, window |-> w]

LEMMA ViewFacts ==
  ASSUME NEW d, Sound(d)
  PROVE  /\ Len(View(d)) = Len(d.resv) /\ Len(d.resv) \in Nat /\ Ids(d) = 1..Len(d.resv)
         /\ \A i \in Ids(d) : View(d)[i] = HoldView(d.resv[i])
<1>1. Len(d.resv) \in Nat /\ Ids(d) = 1..Len(d.resv)
  BY DatabaseFields DEF Sound
<1> DEFINE S == {HoldView(d.resv[i]) : i \in Ids(d)}
<1>2. View(d) \in [1..Len(d.resv) -> S]
  BY <1>1 DEF View
<1> HIDE DEF S
<1>3. Len(View(d)) = Len(d.resv)
  BY <1>1, <1>2, TableIsSeq
<1> QED
  BY <1>1, <1>3 DEF View

LEMMA RowEvolves ==
  ASSUME NEW r \in Reservation, NEW s \in Reservation, PricedOnce(r), PricedOnce(s),
         Outcome(r, s), Follows(r, s)
  PROVE  Promise!Evolves(HoldView(r), HoldView(s))
<1> DEFINE h == HoldView(r)
           n == HoldView(s)
<1>1. n.account = h.account /\ n.amount = h.amount /\ n.limit = h.limit
  BY DEF HoldView, Outcome, Follows
<1>2. /\ h.bill = r.charged /\ n.bill = s.charged /\ h.amount = r.amount
      /\ h.state = StateOf(r.status) /\ n.state = StateOf(s.status)
      /\ s.amount = r.amount
  BY DEF HoldView, Outcome
<1>3. r.status \in Statuses /\ s.status \in Statuses
  BY DEF Reservation
<1> HIDE DEF h, n
<1>4. CASE r.status = "reserved"
  <2>1. /\ h.state = "open" /\ h.bill = 0
        /\ s.status = "reserved" => n.state = "open" /\ n.bill = 0
        /\ s.status = "expired_charged" => n.state = "estimated" /\ n.bill = h.amount
        /\ s.status = "reconciled" => n.state = "final"
        /\ s.status = "cancelled_verified" => n.state = "void" /\ n.bill = 0
    BY <1>2, <1>4 DEF StateOf, PricedOnce
  <2> QED
    BY <1>1, <1>3, <2>1 DEF Promise!Evolves, Statuses, h, n
<1>5. CASE r.status = "expired_charged"
  <2>1. s.status \in {"expired_charged", "reconciled"}
    BY <1>5 DEF Follows
  <2>2. /\ h.state = "estimated" /\ h.bill = h.amount
        /\ s.status = "expired_charged" => n.state = "estimated" /\ n.bill = h.amount
        /\ s.status = "reconciled" => n.state = "final"
    BY <1>2, <1>5 DEF StateOf, PricedOnce
  <2> QED
    BY <1>1, <2>1, <2>2 DEF Promise!Evolves, h, n
<1>6. CASE r.status \in {"reconciled", "cancelled_verified"}
  <2>1. s.status = r.status /\ s.charged = r.charged
    BY <1>6 DEF Outcome
  <2> QED
    BY <1>1, <1>2, <2>1 DEF Promise!Evolves, h, n
<1> QED
  BY <1>3, <1>4, <1>5, <1>6 DEF Statuses

LEMMA SameSum == \A f, n : Promise!SumTo(f, n) = SumTo(f, n)
BY DEF Promise!SumTo, Promise!Partial, SumTo, Partial

(* What SpendLedger counts as committed is what the rows say is due. *)
LEMMA CommittedIsDue ==
  ASSUME NEW d, Sound(d), NEW k, NEW w
  PROVE  Promise!Committed(View(d), Account(k, w)) = DueOn(d, k, w)
<1> DEFINE N == Len(d.resv)
           f == [i \in 1..N |-> IF View(d)[i].account = Account(k, w)
                                THEN Promise!Weight(View(d)[i]) ELSE 0]
           due == [i \in 1..N |-> IF d.resv[i].key = k /\ d.resv[i].window = w
                                  THEN Due(d.resv[i]) ELSE 0]
<1>1. /\ Len(View(d)) = N /\ N \in Nat /\ Ids(d) = 1..N
      /\ \A i \in 1..N : View(d)[i] = HoldView(d.resv[i]) /\ d.resv[i].status \in Statuses
  BY ViewFacts, DatabaseFields DEF Sound, Reservation
<1>2. Promise!Committed(View(d), Account(k, w)) = SumTo(f, N) /\ DueOn(d, k, w) = SumTo(due, N)
  BY <1>1, SameSum DEF Promise!Committed, DueOn
<1>3. ASSUME NEW i \in 1..N PROVE f[i] = due[i]
  <2> DEFINE r == d.resv[i]
             h == HoldView(r)
  <2>1. h.account = Account(r.key, r.window)
    BY DEF HoldView, Account
  <2>2. h.account = Account(k, w) <=> r.key = k /\ r.window = w
    BY <2>1 DEF Account
  <2>3. Promise!Weight(h) = Due(r)
    <3>1. h.state = StateOf(r.status) /\ h.bill = r.charged /\ h.amount = r.amount
      BY DEF HoldView
    <3>2. StateOf(r.status) = "open" <=> r.status = "reserved"
      BY DEF StateOf
    <3> QED
      BY <3>1, <3>2 DEF Promise!Weight, Due
  <2>4. View(d)[i] = h
    BY <1>1
  <2> HIDE DEF h, r
  <2> QED
    BY <2>2, <2>3, <2>4 DEF r
<1> HIDE DEF f, due, N
<1> QED
  BY <1>1, <1>2, <1>3, SumEqual

LEMMA AdvanceIsPromised ==
  ASSUME NEW d, NEW e, Sound(d), Sound(e), Advance(d, e)
  PROVE  /\ \A i \in 1..Len(View(d)) :
              i <= Len(View(e)) /\ Promise!Evolves(View(d)[i], View(e)[i])
         /\ \/ Len(View(e)) = Len(View(d))
            \/ Len(View(e)) = Len(View(d)) + 1 /\ Promise!Opens(View(e))
<1>1. /\ Len(View(d)) = Len(d.resv) /\ Len(View(e)) = Len(e.resv)
      /\ Ids(d) = 1..Len(d.resv) /\ Ids(e) = 1..Len(e.resv)
      /\ Len(d.resv) \in Nat /\ Len(e.resv) \in Nat
      /\ \A i \in Ids(d) : View(d)[i] = HoldView(d.resv[i])
      /\ \A i \in Ids(e) : View(e)[i] = HoldView(e.resv[i])
  BY ViewFacts
<1>2. ASSUME NEW i \in Ids(d)
      PROVE  i \in Ids(e) /\ Promise!Evolves(View(d)[i], View(e)[i])
  <2>1. i \in Ids(e) /\ Outcome(d.resv[i], e.resv[i]) /\ Follows(d.resv[i], e.resv[i])
    BY DEF Advance, Finality, Later
  <2>2. /\ d.resv[i] \in Reservation /\ e.resv[i] \in Reservation
        /\ PricedOnce(d.resv[i]) /\ PricedOnce(e.resv[i])
    BY <2>1, DatabaseFields DEF Sound
  <2> QED
    BY <1>1, <2>1, <2>2, RowEvolves
<1>3. ASSUME Len(e.resv) = Len(d.resv) + 1, Admitted(e) PROVE Promise!Opens(View(e))
  <2> DEFINE M == Len(e.resv)
             r == e.resv[M]
  <2>1. M \in Ids(e) /\ M # 0
    BY <1>1, <1>3
  <2>2. r.status = "reserved" /\ r.charged = 0 /\ DueOn(e, r.key, r.window) <= r.rule.limit
    BY <1>3, <2>1, AdmittedWithinLimit
  <2>3. /\ HoldView(r).state = "open" /\ HoldView(r).bill = 0
        /\ HoldView(r).account = Account(r.key, r.window) /\ HoldView(r).limit = r.rule.limit
    BY <2>2 DEF HoldView, StateOf, Account
  <2>4. View(e)[M] = HoldView(r) /\ Len(View(e)) = M
    BY <1>1, <2>1
  <2>5. Promise!Committed(View(e), Account(r.key, r.window)) <= r.rule.limit
    BY <2>2, CommittedIsDue
  <2> HIDE DEF r, M
  <2> QED
    BY <2>3, <2>4, <2>5 DEF Promise!Opens
<1> QED
  BY <1>1, <1>2, <1>3 DEF Advance

(* Every transaction of the store is a step SpendLedger allows: the live   *)
(* counters admit exactly what the rows of the window leave room for, and  *)
(* no row is priced twice.                                                 *)
THEOREM PromiseKept ==
  ASSUME OffMidnight
  PROVE  Spec => KeepsPromise
<1>1. Init => Counted(db) /\ Promise!Init
  <2>1. View(EmptyDatabase) = << >>
    BY DEF View, Ids, EmptyDatabase
  <2> QED
    BY <2>1, EmptyCounted DEF Init, Promise!Init, View
<1>2. Inv /\ Counted(db) /\ [Next]_vars => Counted(db)'
  BY NextAdvances
<1>3. Inv /\ Inv' /\ Counted(db) /\ [Next]_vars => [Promise!Next]_(View(db))
  <2> SUFFICES ASSUME Inv, Inv', Counted(db), [Next]_vars PROVE Promise!Next
    OBVIOUS
  <2>1. Advance(db, db') /\ Sound(db) /\ Sound(db')
    BY NextAdvances DEF Inv
  <2>2. /\ \A i \in 1..Len(View(db)) :
             i <= Len(View(db')) /\ Promise!Evolves(View(db)[i], View(db')[i])
        /\ \/ Len(View(db')) = Len(View(db))
           \/ Len(View(db')) = Len(View(db)) + 1 /\ Promise!Opens(View(db'))
    BY <2>1, AdvanceIsPromised
  <2> QED
    BY <2>2 DEF Promise!Next, View
<1>4. (Inv /\ Inv' /\ Counted(db) /\ [Next]_vars)
        => [Promise!Next]_([i \in Ids(db) |-> HoldView(db.resv[i])])
  BY <1>3 DEF View
<1> QED
  BY <1>1, <1>2, <1>4, InvariantHolds, PTL DEF Spec, KeepsPromise, Promise!Spec
=============================================================================
