---------------------------- MODULE BudgetLedger ----------------------------
(***************************************************************************)
(* The token-budget tables of varden/token_budget.py and what each SQLite  *)
(* transaction of TokenBudgetStore does to them.                           *)
(*                                                                         *)
(* A database value d is a record of the tables:                           *)
(*   resv     token_budget_reservations, row i has AUTOINCREMENT id i      *)
(*   purged   the ids DELETEd by cleanup_resolved                          *)
(*   counter  token_budgets, one row or NoRow per counter key              *)
(*   archive  token_budget_window_charges, by counter key and window id    *)
(*   findings guard events with a row in token_budget_accounting_findings  *)
(*                                                                         *)
(* Every operator below maps the tables before a transaction (or before    *)
(* one statement group of it) to the tables after it, so that a            *)
(* transaction is a composition, in the order the code runs it.  USD       *)
(* amounts are integers in a small unit; time is an integer.               *)
(***************************************************************************)
EXTENDS Sums, Sequences, FiniteSets

CONSTANTS
  Principals,    \* API-key hashes; the HTTP layer serves one tenant
  Guards,        \* guard calls, each is one POST /sdk/guard
  PrincipalOf,   \* the caller of each guard call
  Rules,         \* the versions of budget rules an operator may publish
  Policies,      \* the budget_rules lists made of them
  DayLength,     \* ticks in a UTC day
  MonthLength,   \* ticks in a UTC month
  Readings,      \* the values the clock can be read at
  ReservationTTL,
  RetentionTime,
  Shared,        \* counter owner of a daily or monthly rule
  NoRow, NoUsage, NoGuard

Windows == {"session", "daily", "monthly"}

ASSUME RulesAssumption ==
  \A r \in Rules : /\ r = [id |-> r.id, window |-> r.window, limit |-> r.limit,
                           hard |-> r.hard, price |-> r.price]
                    /\ r.window \in Windows /\ r.hard \in BOOLEAN
                    /\ r.limit \in Nat /\ r.price \in Nat

(* A policy may repeat a rule id: validation does not look for it. *)
ASSUME PoliciesAssumption == Policies \subseteq Seq(Rules)
ASSUME CallersAssumption == PrincipalOf \in [Guards -> Principals]
ASSUME TimeAssumption ==
  /\ DayLength \in Nat \ {0} /\ MonthLength \in Nat \ {0}
  /\ ReservationTTL \in Nat \ {0} /\ RetentionTime \in Nat
  /\ Readings \subseteq Nat
Statuses == {"reserved", "reconciled", "expired_charged", "cancelled_verified"}

(***************************************************************************)
(* Calendar windows.                                                       *)
(***************************************************************************)
WindowId(window, t) ==
  CASE window = "daily"   -> t \div DayLength
    [] window = "monthly" -> t \div MonthLength
    [] OTHER              -> 0

WindowIds == {WindowId(w, t) : w \in Windows, t \in Readings}

Never == -1

(* The daily branch moves to the next midnight only when the time is past  *)
(* midnight: read at midnight exactly, the reset is due at once.           *)
NextReset(window, t) ==
  CASE window = "daily"   -> IF t % DayLength = 0 THEN t
                             ELSE (t \div DayLength + 1) * DayLength
    [] window = "monthly" -> (t \div MonthLength + 1) * MonthLength
    [] OTHER              -> Never

(***************************************************************************)
(* Table rows.                                                             *)
(***************************************************************************)
(* A session cap follows the caller, a calendar cap is the tenant's. *)
CounterKey(rule, principal) ==
  [id |-> rule.id, window |-> rule.window,
   owner |-> IF rule.window = "session" THEN principal ELSE Shared]

Key == {CounterKey(r, p) : r \in Rules, p \in Principals}

Row == [current: Int, reserved: Int, window: WindowIds, resetAt: Int]

ASSUME NullsAssumption ==
  /\ Shared \notin Principals /\ NoGuard \notin Guards
  /\ NoUsage \notin Int /\ NoRow \notin Row

(* guard is the call that took the hold (the action fingerprint and        *)
(* principal columns), rule the rule_snapshot of evidence_json, event the  *)
(* guard_event_id column.                                                  *)
Reservation ==
  [guard: Guards, rule: Rules, key: Key, window: WindowIds, amount: Int,
   charged: Int, reported: Int \cup {NoUsage}, created: Nat, deadline: Nat,
   status: Statuses, event: Guards \cup {NoGuard}]

Database ==
  [resv: Seq(Reservation), purged: SUBSET Nat,
   counter: [Key -> Row \cup {NoRow}],
   archive: [Key -> [WindowIds -> Int]],
   findings: SUBSET Guards]

EmptyDatabase ==
  [resv |-> << >>, purged |-> {},
   counter |-> [k \in Key |-> NoRow],
   archive |-> [k \in Key |-> [w \in WindowIds |-> 0]],
   findings |-> {}]

Ids(d) == 1..Len(d.resv)

Cost(rule, units) == units * rule.price

(***************************************************************************)
(* Opening and rolling counter rows.                                       *)
(***************************************************************************)
OpenRow(window, t) ==
  [current |-> 0, reserved |-> 0,
   window |-> WindowId(window, t), resetAt |-> NextReset(window, t)]

ResetDue(row, t) == row # NoRow /\ row.resetAt # Never /\ t >= row.resetAt

(* Archive the open counter of every due row of K, then open the next      *)
(* window at zero.  Reservation rows are left alone.                       *)
ResetRowsIfDue(d, K, t) ==
  LET due == {k \in K : ResetDue(d.counter[k], t)} IN
  [d EXCEPT
     !.counter = [k \in Key |-> IF k \in due THEN OpenRow(k.window, t)
                                  ELSE d.counter[k]],
     !.archive = [k \in Key |-> [w \in WindowIds |->
                    IF k \in due /\ d.counter[k].window = w
                    THEN d.archive[k][w] + d.counter[k].current
                    ELSE d.archive[k][w]]]]

EnsureBudgetRows(d, K, t) ==
  LET created == [d EXCEPT !.counter =
        [k \in Key |-> IF k \in K /\ d.counter[k] = NoRow
                       THEN OpenRow(k.window, t) ELSE d.counter[k]]]
  IN  ResetRowsIfDue(created, K, t)

(***************************************************************************)
(* Moving reservations to a settled status, and the charge that follows.   *)
(***************************************************************************)
(* Mutant of SameWindow: the charge follows the counter, not the window. *)
SameCounter(d, i) == d.counter[d.resv[i].key] # NoRow

(* Row i's counter is still in the window that took the hold. *)
SameWindow(d, i) ==
  LET row == d.counter[d.resv[i].key]
  IN  row # NoRow /\ row.window = d.resv[i].window

Larger(a, b) == IF a >= b THEN a ELSE b

(* The deltas of the rows S that fall on counter k, and on its archive.    *)
ToCounter(d, S, delta, k) ==
  SumTo([i \in Ids(d) |-> IF i \in S /\ d.resv[i].key = k /\ SameWindow(d, i)
                          THEN delta[i] ELSE 0], Len(d.resv))

ToArchive(d, S, delta, k, w) ==
  SumTo([i \in Ids(d) |-> IF /\ i \in S /\ d.resv[i].key = k /\ d.resv[i].window = w
                             /\ ~ SameWindow(d, i)
                          THEN delta[i] ELSE 0], Len(d.resv))

(* Mutant of HeldBy: an expired hold is taken off reserved_usd again. *)
HeldOrExpired(d, S) ==
  [i \in Ids(d) |-> IF i \in S THEN d.resv[i].amount ELSE 0]

(* The live holds among S: what leaves reserved_usd when S is settled. *)
HeldBy(d, S) ==
  [i \in Ids(d) |-> IF i \in S /\ d.resv[i].status = "reserved"
                    THEN d.resv[i].amount ELSE 0]

SettledRow(r, status, reported, delta) ==
  [r EXCEPT !.status = status, !.reported = reported, !.charged = @ + delta]

ChargedRow(row, delta, released) ==
  [row EXCEPT !.current = @ + delta, !.reserved = Larger(0, @ - released)]

(* _settle on every row of S, in one transaction: the delta goes to the    *)
(* window that created the hold, open or archived.                         *)
Settle(d, S, delta, status, reported) ==
  [d EXCEPT
     !.resv = [i \in Ids(d) |->
        IF i \in S THEN SettledRow(d.resv[i], status, reported[i], delta[i])
        ELSE d.resv[i]],
     !.counter = [k \in Key |->
        IF d.counter[k] = NoRow THEN NoRow
        ELSE ChargedRow(d.counter[k], ToCounter(d, S, delta, k),
                        ToCounter(d, S, HeldBy(d, S), k))],
     !.archive = [k \in Key |-> [w \in WindowIds |->
        d.archive[k][w] + ToArchive(d, S, delta, k, w)]]]

(* A hold whose deadline passed is charged its estimate. *)
Overdue(d, t) ==
  {i \in Ids(d) : d.resv[i].status = "reserved" /\ d.resv[i].deadline <= t}

ExpireDue(d, t) ==
  Settle(d, Overdue(d, t), [i \in Overdue(d, t) |-> d.resv[i].amount],
         "expired_charged", [i \in Overdue(d, t) |-> NoUsage])

(***************************************************************************)
(* Transactions of the guard path.                                         *)
(***************************************************************************)
Present(d, S) == {i \in S : i \in Ids(d) /\ i \notin d.purged}

(* _check_rule up to the comparison: overdue holds are charged first, the  *)
(* counter row is created or rolled second.                                *)
OpenForCheck(d, k, t) == EnsureBudgetRows(ExpireDue(d, t), {k}, t)

(* Mutant of Fits: only what was charged counts. *)
FitsCharged(d, k, limit, amount) == d.counter[k].current + amount <= limit

Fits(d, k, limit, amount) ==
  d.counter[k].current + d.counter[k].reserved + amount <= limit

(* The hold of call g under rule, on the open window of its counter. *)
AddHold(d, g, rule, amount, t) ==
  LET k == CounterKey(rule, PrincipalOf[g])
      hold == [guard |-> g, rule |-> rule, key |-> k,
               window |-> d.counter[k].window, amount |-> amount, charged |-> 0,
               reported |-> NoUsage, created |-> t,
               deadline |-> t + ReservationTTL, status |-> "reserved",
               event |-> NoGuard]
  IN  [d EXCEPT !.resv = Append(@, hold), !.counter[k].reserved = @ + amount]

(* Mutant of ReleaseVerified: the status is not looked at.                 *)
ReleaseAnyStatus(d, held) ==
  [d EXCEPT !.resv = [i \in Ids(d) |->
     IF i \in Present(d, held)
     THEN [d.resv[i] EXCEPT !.status = "cancelled_verified", !.charged = 0]
     ELSE d.resv[i]]]

(* release_verified: the listed holds that are still reserved are dropped. *)
ReleaseVerified(d, held) ==
  LET S == {i \in Present(d, held) : d.resv[i].status = "reserved"} IN
  [d EXCEPT
     !.resv = [i \in Ids(d) |->
        IF i \in S THEN [d.resv[i] EXCEPT !.status = "cancelled_verified", !.charged = 0]
        ELSE d.resv[i]],
     !.counter = [k \in Key |->
        IF d.counter[k] = NoRow THEN NoRow
        ELSE ChargedRow(d.counter[k], 0, ToCounter(d, S, HeldBy(d, S), k))]]

(* Mutant of Bindable: every unbound hold of the principal. *)
BindableByPrincipal(d, held, g) ==
  {i \in Present(d, Ids(d)) : /\ d.resv[i].status = "reserved"
                              /\ d.resv[i].event = NoGuard
                              /\ PrincipalOf[d.resv[i].guard] = PrincipalOf[g]}

(* bind_guard_event: the UPDATE's WHERE clause, then its effect. *)
Bindable(d, held, g) ==
  {i \in Present(d, held) : /\ d.resv[i].status = "reserved"
                            /\ d.resv[i].event = NoGuard
                            /\ PrincipalOf[d.resv[i].guard] = PrincipalOf[g]}

BindRows(d, S, g) ==
  [d EXCEPT !.resv = [i \in Ids(d) |->
     IF i \in S THEN [d.resv[i] EXCEPT !.event = g] ELSE d.resv[i]]]

(* The unique index on (guard_event_id, policy_id). *)
BreaksUniqueIndex(d, S, g) ==
  \E i, j \in Present(d, Ids(d)) :
     /\ i \in S /\ j # i /\ d.resv[i].rule.id = d.resv[j].rule.id
     /\ j \in S \/ d.resv[j].event = g

(***************************************************************************)
(* Transactions of the report path, POST /sdk/log.  A plan is a function   *)
(* from the reservation ids named by the guard event to the rule snapshots *)
(* recorded with them.                                                     *)
(***************************************************************************)
(* Mutant of IsBroken: a row that was never bound counts as another's. *)
IsBrokenUnlessBound(d, g, i) == i \notin Present(d, {i}) \/ d.resv[i].event # g

(* The evidence names a row that is gone, or that another event owns. *)
IsBroken(d, g, i) == i \notin Present(d, {i}) \/ d.resv[i].event \notin {NoGuard, g}

(* _scope_matches fails: the row belongs to another principal. *)
IsForeign(d, g, i) == PrincipalOf[d.resv[i].guard] # PrincipalOf[g]

(* Adopting unbound row i breaks the unique index: the event already has,  *)
(* or has just been given, another row of the same rule id.                *)
Collides(d, g, plan, i) ==
  /\ d.resv[i].event = NoGuard
  /\ \E j \in Present(d, Ids(d)) :
       /\ j # i /\ d.resv[j].rule.id = d.resv[i].rule.id
       /\ d.resv[j].event = g \/ (j \in DOMAIN plan /\ j < i)

RowFails(d, g, plan, i) == IsBroken(d, g, i) \/ IsForeign(d, g, i) \/ Collides(d, g, plan, i)

PlanFails(d, g, plan) == \E i \in DOMAIN plan : RowFails(d, g, plan, i)

(* The rows are looked at in the order of the plan, which is that of their *)
(* ids, and the first one to fail decides.                                 *)
PlanIsBroken(d, g, plan) ==
  \E i \in DOMAIN plan : /\ IsBroken(d, g, i)
                         /\ \A j \in DOMAIN plan : j < i => ~ RowFails(d, g, plan, j)

Unbound(d, S) == {i \in S : d.resv[i].event = NoGuard}

(* A client claim that nothing ran, without usage, settles nothing. *)
IsPending(d, S, usage, denied) ==
  usage = NoUsage /\ denied /\ \E i \in S : d.resv[i].status = "reserved"

(* Mutant of ToSettle: a report is applied however often it comes. *)
SettleAgain(d, S, usage) == {i \in S : d.resv[i].status # "cancelled_verified"}

(* The rows of S this report still has to settle. *)
ToSettle(d, S, usage) ==
  {i \in S : \/ d.resv[i].status = "reserved"
             \/ /\ d.resv[i].status = "expired_charged"
                /\ usage # NoUsage /\ d.resv[i].reported = NoUsage}

(* Usage is priced by the guard-time rule; without it the estimate stands. *)
Price(hold, rule, usage) ==
  IF usage = NoUsage THEN hold.amount ELSE Cost(rule, usage)

(* _settle_guard_plan past its checks, d being the tables after the        *)
(* overdue holds were charged.  A late report moves the charge by the      *)
(* difference from what expiry charged.                                    *)
SettlePlan(d, g, plan, usage, denied, t) ==
  LET S     == DOMAIN plan
      bound == BindRows(d, Unbound(d, S), g)
      todo  == ToSettle(d, S, usage)
      open  == EnsureBudgetRows(bound,
                 {CounterKey(plan[i], PrincipalOf[d.resv[i].guard]) : i \in todo}, t)
      delta == [i \in todo |-> Price(d.resv[i], plan[i], usage) - d.resv[i].charged]
      paid  == [i \in todo |-> IF usage = NoUsage THEN NoUsage ELSE Cost(plan[i], usage)]
  IN  IF IsPending(d, S, usage, denied) THEN bound
      ELSE Settle(open, todo, delta, "reconciled", paid)

(* _reconcile_guard: a failure rolls everything back, the expiry included. *)
(* An integrity failure is recorded by a transaction of its own; a scope   *)
(* mismatch is only answered, a collision is an exception.                 *)
ReconcileGuard(d, g, plan, usage, denied, t) ==
  LET expired == ExpireDue(d, t) IN
  IF PlanIsBroken(expired, g, plan) THEN [d EXCEPT !.findings = @ \cup {g}]
  ELSE IF PlanFails(expired, g, plan) THEN d
  ELSE SettlePlan(expired, g, plan, usage, denied, t)

(***************************************************************************)
(* Maintenance.                                                            *)
(***************************************************************************)
(* list_active_budgets: a read for the dashboard that also expires holds   *)
(* and rolls every counter row.                                            *)
ListActiveBudgets(d, t) ==
  LET expired == ExpireDue(d, t)
  IN  ResetRowsIfDue(expired, {k \in Key : expired.counter[k] # NoRow}, t)

(* cleanup_resolved: settled rows older than the retention are deleted. *)
CleanupResolved(d, t) ==
  [d EXCEPT !.purged = @ \cup
     {i \in Ids(d) : d.resv[i].status # "reserved" /\ d.resv[i].created < t - RetentionTime}]
=============================================================================
