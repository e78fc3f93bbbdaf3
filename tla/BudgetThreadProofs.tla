-------------------------- MODULE BudgetThreadProofs --------------------------
(***************************************************************************)
(* Proofs that calls, events, holds and findings belong together: a hold   *)
(* is bound only to its own call's event, released only for a call that    *)
(* was refused or strengthened, kept by an allowed one and priced by its   *)
(* own rule, and an integrity finding means that a row was purged.  They are about servers whose COMMITs do not fail: one that *)
(* fails leaves another call's id in the list (run stale_hold_id).  The    *)
(* last theorem, that hard caps are enforced where policies list them      *)
(* first, needs no such condition.                                         *)
(***************************************************************************)
EXTENDS BudgetProofs

(***************************************************************************)
(* What a transaction does to who owns the rows: only rows of bound may    *)
(* become bound to g or get a report, only rows of freed may be released.  *)
(***************************************************************************)
RowTraced(r, s, mayBind, g, mayFree) ==
  /\ s.guard = r.guard /\ s.rule = r.rule
  /\ s.event = r.event \/ (mayBind /\ s.event = g)
  /\ s.reported \in {r.reported, NoUsage} \/ mayBind
  /\ s.status = "cancelled_verified" => r.status = "cancelled_verified" \/ mayFree

Traced(d, e, bound, g, freed) ==
  /\ Len(d.resv) <= Len(e.resv) /\ d.purged \subseteq e.purged
  /\ \A i \in Ids(d) : RowTraced(d.resv[i], e.resv[i], i \in bound, g, i \in freed)

LEMMA TracedReflexive ==
  ASSUME NEW d \in Database, NEW g PROVE Traced(d, d, {}, g, {})
BY DatabaseFields DEF Traced, RowTraced

LEMMA TracedTransitive ==
  ASSUME NEW c \in Database, NEW d \in Database, NEW e \in Database, NEW g,
         NEW bound, NEW freed, Traced(c, d, bound, g, freed), Traced(d, e, bound, g, freed)
  PROVE  Traced(c, e, bound, g, freed)
<1>1. /\ Len(c.resv) \in Nat /\ Len(d.resv) \in Nat /\ Len(e.resv) \in Nat
      /\ Ids(c) = 1..Len(c.resv) /\ Ids(d) = 1..Len(d.resv)
  BY DatabaseFields
<1>2. \A i \in Ids(c) : i \in Ids(d)
  BY <1>1 DEF Traced
<1> QED
  BY SMTT(30), <1>1, <1>2 DEF Traced, RowTraced

LEMMA TracedWider ==
  ASSUME NEW d, NEW e, NEW g, NEW bound, NEW freed, NEW b, b \subseteq bound,
         Traced(d, e, b, g, {})
  PROVE  Traced(d, e, bound, g, freed)
BY DEF Traced, RowTraced

(* Opening or rolling counters touches no row. *)
LEMMA SameRowsTraced ==
  ASSUME NEW d \in Database, NEW e, e.resv = d.resv, d.purged \subseteq e.purged, NEW g
  PROVE  Traced(d, e, {}, g, {})
BY DatabaseFields DEF Traced, RowTraced

LEMMA SettleTraced ==
  ASSUME NEW d \in Database, NEW S \in SUBSET Ids(d),
         NEW status \in {"expired_charged", "reconciled"},
         NEW delta, \A i \in S : delta[i] \in Int,
         NEW reported, \A i \in S : reported[i] \in Int \cup {NoUsage},
         NEW e, e = Settle(d, S, delta, status, reported), NEW g,
         NEW bound, S \subseteq bound \/ reported = [i \in S |-> NoUsage]
  PROVE  Traced(d, e, bound, g, {}) /\ e.findings = d.findings
<1>1. status \in Statuses
  BY DEF Statuses
<1>2. Len(e.resv) = Len(d.resv) /\ e.purged = d.purged /\ e.findings = d.findings
  BY <1>1, SettleType
<1>3. ASSUME NEW i \in Ids(d) PROVE RowTraced(d.resv[i], e.resv[i], i \in bound, g, FALSE)
  <2>1. e.resv[i] = IF i \in S THEN SettledRow(d.resv[i], status, reported[i], delta[i])
                    ELSE d.resv[i]
    BY SettleRows
  <2>2. d.resv[i] \in Reservation
    BY DatabaseFields
  <2>3. CASE i \in S
    BY <2>1, <2>2, <2>3 DEF SettledRow, Reservation, RowTraced
  <2>4. CASE i \notin S
    BY <2>1, <2>4 DEF RowTraced
  <2> QED
    BY <2>3, <2>4
<1>4. Len(d.resv) \in Nat
  BY DatabaseFields
<1> QED
  BY <1>2, <1>3, <1>4 DEF Traced, RowTraced

LEMMA ExpireTraced ==
  ASSUME NEW d, Sound(d), NEW t \in Readings, NEW e, e = ExpireDue(d, t), NEW g
  PROVE  Traced(d, e, {}, g, {}) /\ e.findings = d.findings
<1> DEFINE S == Overdue(d, t)
           delta == [i \in S |-> d.resv[i].amount]
           reported == [i \in S |-> NoUsage]
<1>1. e = Settle(d, S, delta, "expired_charged", reported) /\ d \in Database
  BY DEF ExpireDue, Sound
<1>2. S \in SUBSET Ids(d)
  BY DEF Overdue
<1>3. \A i \in S : delta[i] \in Int
  BY <1>1, <1>2, DatabaseFields DEF Reservation
<1>4. \A i \in S : reported[i] \in Int \cup {NoUsage}
  OBVIOUS
<1> DEFINE bound == {}
<1>5. reported = [i \in S |-> NoUsage]
  OBVIOUS
<1>6. "expired_charged" \in {"expired_charged", "reconciled"}
  OBVIOUS
<1> HIDE DEF S, delta, reported, bound
<1>7. Traced(d, e, bound, g, {}) /\ e.findings = d.findings
  BY SMTT(30), <1>1, <1>2, <1>3, <1>4, <1>5, <1>6, SettleTraced
<1> QED
  BY <1>7 DEF bound

LEMMA OpenForCheckTraced ==
  ASSUME NEW d, Sound(d), NEW k \in Key, NEW t \in Readings,
         NEW e, e = OpenForCheck(d, k, t), NEW g
  PROVE  Traced(d, e, {}, g, {}) /\ Sound(e) /\ e.findings = d.findings /\ Ids(e) = Ids(d)
<1> DEFINE x == ExpireDue(d, t)
           K == {k}
<1>1. Sound(x) /\ Ids(x) = Ids(d)
  BY ExpireSound
<1>2. Traced(d, x, {}, g, {}) /\ x.findings = d.findings
  BY ExpireTraced
<1>3. e = EnsureBudgetRows(x, K, t) /\ K \in SUBSET Key
  BY DEF OpenForCheck
<1> HIDE DEF x, K
<1>4. Sound(e)
  BY <1>1, <1>3, EnsureRowsSound
<1>5. x \in Database /\ d \in Database /\ e \in Database
  BY <1>1, <1>4 DEF Sound
<1>6. e.resv = x.resv /\ e.purged = x.purged /\ e.findings = x.findings
  BY <1>3, <1>5, EnsureRowsType
<1>7. Traced(x, e, {}, g, {})
  BY <1>5, <1>6, SameRowsTraced
<1>8. Ids(e) = Ids(d)
  BY <1>1, <1>6 DEF Ids
<1> QED
  BY <1>2, <1>4, <1>5, <1>6, <1>7, <1>8, TracedTransitive

LEMMA ListTraced ==
  ASSUME NEW d, Sound(d), NEW t \in Readings, NEW e, e = ListActiveBudgets(d, t), NEW g
  PROVE  Traced(d, e, {}, g, {}) /\ e.findings = d.findings /\ Ids(e) = Ids(d)
<1> DEFINE x == ExpireDue(d, t)
           K == {k \in Key : x.counter[k] # NoRow}
<1>1. Sound(x) /\ Traced(d, x, {}, g, {}) /\ x.findings = d.findings /\ Ids(x) = Ids(d)
  BY ExpireSound, ExpireTraced
<1>2. e = ResetRowsIfDue(x, K, t) /\ e \in Database
  BY ListSound DEF ListActiveBudgets, Sound
<1> HIDE DEF x, K
<1>3. x \in Database /\ d \in Database
  BY <1>1 DEF Sound
<1>4. e.resv = x.resv /\ e.purged = x.purged /\ e.findings = x.findings
  BY <1>2, <1>3, ResetRowsKeeps
<1>5. Traced(x, e, {}, g, {})
  BY <1>3, <1>4, SameRowsTraced
<1>6. Ids(e) = Ids(d)
  BY <1>1, <1>4 DEF Ids
<1> QED
  BY <1>1, <1>2, <1>3, <1>4, <1>5, <1>6, TracedTransitive

LEMMA CleanupTraced ==
  ASSUME NEW d, Sound(d), NEW t, NEW e, e = CleanupResolved(d, t), NEW g
  PROVE  Traced(d, e, {}, g, {}) /\ e.findings = d.findings /\ Ids(e) = Ids(d)
<1>1. /\ d \in Database /\ e.resv = d.resv /\ d.purged \subseteq e.purged
      /\ e.findings = d.findings
  BY DEF Sound, CleanupResolved, Database
<1> QED
  BY <1>1, SameRowsTraced DEF Ids

LEMMA ReleaseTraced ==
  ASSUME NEW d, Sound(d), NEW held, NEW e, e = ReleaseVerified(d, held), NEW g
  PROVE  Traced(d, e, {}, g, held) /\ Ids(e) = Ids(d)
<1> DEFINE S == {i \in Present(d, held) : d.resv[i].status = "reserved"}
           resv == [i \in Ids(d) |-> IF i \in S
                      THEN [d.resv[i] EXCEPT !.status = "cancelled_verified", !.charged = 0]
                      ELSE d.resv[i]]
           counter == [k \in Key |-> IF d.counter[k] = NoRow THEN NoRow
                         ELSE ChargedRow(d.counter[k], 0, ToCounter(d, S, HeldBy(d, S), k))]
<1>1. d \in Database /\ e \in Database /\ e.purged = d.purged
  BY ReleaseSound DEF Sound
<1>2. e = [d EXCEPT !.resv = resv, !.counter = counter]
  BY DEF ReleaseVerified
<1>3. e.resv = resv
  <2> HIDE DEF resv, counter
  <2> QED
    BY <1>1, <1>2 DEF Database
<1>4. /\ Len(d.resv) \in Nat /\ Ids(d) = 1..Len(d.resv)
      /\ \A i \in Ids(d) : d.resv[i] \in Reservation
  BY <1>1, DatabaseFields
<1>5. Len(e.resv) = Len(d.resv)
  <2>1. DOMAIN resv = 1..Len(d.resv) /\ resv \in Seq(Reservation)
    BY <1>1, <1>3, <1>4, DatabaseFields
  <2> HIDE DEF resv
  <2> QED
    BY <1>3, <1>4, <2>1
<1>6. S \subseteq held
  BY DEF Present
<1>7. ASSUME NEW i \in Ids(d) PROVE RowTraced(d.resv[i], e.resv[i], FALSE, g, i \in held)
  <2>1. e.resv[i] = IF i \in S
                    THEN [d.resv[i] EXCEPT !.status = "cancelled_verified", !.charged = 0]
                    ELSE d.resv[i]
    BY <1>3
  <2> HIDE DEF S
  <2> QED
    BY <1>4, <1>6, <2>1 DEF RowTraced, Reservation
<1> QED
  BY <1>1, <1>4, <1>5, <1>7 DEF Traced, RowTraced, Ids

LEMMA BindTraced ==
  ASSUME NEW d, Sound(d), NEW S, NEW g \in Guards, NEW e, e = BindRows(d, S, g)
  PROVE  Traced(d, e, S, g, {}) /\ Ids(e) = Ids(d) /\ e.findings = d.findings
<1> DEFINE resv == [i \in Ids(d) |->
              IF i \in S THEN [d.resv[i] EXCEPT !.event = g] ELSE d.resv[i]]
<1>1. d \in Database /\ e \in Database /\ e.purged = d.purged /\ e.findings = d.findings
  BY BindSound DEF Sound
<1>2. e = [d EXCEPT !.resv = resv]
  BY DEF BindRows
<1>3. e.resv = resv
  <2> HIDE DEF resv
  <2> QED
    BY <1>1, <1>2 DEF Database
<1>4. /\ Len(d.resv) \in Nat /\ Ids(d) = 1..Len(d.resv)
      /\ \A i \in Ids(d) : d.resv[i] \in Reservation
  BY <1>1, DatabaseFields
<1>5. Len(e.resv) = Len(d.resv)
  <2>1. DOMAIN resv = 1..Len(d.resv) /\ resv \in Seq(Reservation)
    BY <1>1, <1>3, <1>4, DatabaseFields
  <2> HIDE DEF resv
  <2> QED
    BY <1>3, <1>4, <2>1
<1>6. ASSUME NEW i \in Ids(d) PROVE RowTraced(d.resv[i], e.resv[i], i \in S, g, FALSE)
  BY <1>3, <1>4 DEF RowTraced, Reservation
<1> HIDE DEF resv
<1> QED
  BY <1>1, <1>4, <1>5, <1>6 DEF Traced, RowTraced, Ids

(* A new hold is the caller's, live and unbound; the old rows stay. *)
LEMMA AddHoldTraced ==
  ASSUME NEW d, Sound(d), NEW g \in Guards, NEW rule \in Rules, NEW amount \in Int,
         NEW t \in Readings, d.counter[CounterKey(rule, PrincipalOf[g])] \in Row,
         NEW e, e = AddHold(d, g, rule, amount, t), NEW h
  PROVE  /\ Traced(d, e, {}, h, {}) /\ e.findings = d.findings
         /\ Len(e.resv) = Len(d.resv) + 1
         /\ e.resv[Len(e.resv)].guard = g /\ e.resv[Len(e.resv)].rule = rule
         /\ e.resv[Len(e.resv)].event = NoGuard
         /\ e.resv[Len(e.resv)].status = "reserved"
<1> DEFINE k0 == CounterKey(rule, PrincipalOf[g])
           hold == [guard |-> g, rule |-> rule, key |-> k0,
               window |-> d.counter[k0].window, amount |-> amount, charged |-> 0,
               reported |-> NoUsage, created |-> t,
               deadline |-> t + ReservationTTL, status |-> "reserved",
               event |-> NoGuard]
           counter == [d.counter EXCEPT ![k0].reserved = @ + amount]
           resv == Append(d.resv, hold)
<1>1. d \in Database
  BY DEF Sound
<1>2. /\ d.resv \in Seq(Reservation) /\ Len(d.resv) \in Nat /\ Ids(d) = 1..Len(d.resv)
      /\ \A i \in Ids(d) : d.resv[i] \in Reservation
  BY <1>1, DatabaseFields
<1>3. e = [d EXCEPT !.resv = resv, !.counter = counter]
  BY <1>1 DEF AddHold, Database
<1>4. hold.guard = g /\ hold.rule = rule /\ hold.event = NoGuard /\ hold.status = "reserved"
  OBVIOUS
<1> HIDE DEF hold, counter
<1>5. e.resv = resv
  <2> HIDE DEF resv
  <2> QED
    BY <1>1, <1>3 DEF Database
<1>6. /\ Len(resv) = Len(d.resv) + 1 /\ resv[Len(d.resv) + 1] = hold
      /\ \A i \in 1..Len(d.resv) : resv[i] = d.resv[i]
  BY <1>2
<1> HIDE DEF resv
<1>7. e.purged = d.purged
  BY AddHoldSound
<1>8. e.findings = d.findings
  BY <1>1, <1>3 DEF Database
<1>9. Traced(d, e, {}, h, {})
  BY <1>2, <1>5, <1>6, <1>7 DEF Traced, RowTraced
<1> QED
  BY <1>4, <1>5, <1>6, <1>8, <1>9

LEMMA SettlePlanTraced ==
  ASSUME NEW d, Sound(d), NEW g \in Guards, NEW plan, IsPlan(plan),
         DOMAIN plan \subseteq Ids(d), NEW usage \in UnitsUsed \cup {NoUsage},
         NEW denied, NEW t \in Readings, NEW e, e = SettlePlan(d, g, plan, usage, denied, t)
  PROVE  Traced(d, e, DOMAIN plan, g, {}) /\ Ids(e) = Ids(d)
<1> DEFINE S     == DOMAIN plan
           U     == Unbound(d, S)
           bound == BindRows(d, U, g)
           todo  == ToSettle(d, S, usage)
           K     == {CounterKey(plan[i], PrincipalOf[d.resv[i].guard]) : i \in todo}
           open  == EnsureBudgetRows(bound, K, t)
           delta == [i \in todo |-> Price(d.resv[i], plan[i], usage) - d.resv[i].charged]
           paid  == [i \in todo |-> IF usage = NoUsage THEN NoUsage ELSE Cost(plan[i], usage)]
<1>1. e = IF IsPending(d, S, usage, denied) THEN bound
          ELSE Settle(open, todo, delta, "reconciled", paid)
  BY DEF SettlePlan
<1>2. Sound(bound) /\ Ids(bound) = Ids(d)
  BY BindSound
<1>3. d \in Database /\ bound \in Database
  BY <1>2 DEF Sound
<1>4. Traced(d, bound, S, g, {})
  <2>1. Traced(d, bound, U, g, {})
    BY BindTraced
  <2>2. U \subseteq S
    BY DEF Unbound
  <2> HIDE DEF U, bound
  <2> QED
    BY <2>1, <2>2 DEF Traced, RowTraced
<1>5. CASE IsPending(d, S, usage, denied)
  BY <1>1, <1>2, <1>4, <1>5
<1>6. CASE ~ IsPending(d, S, usage, denied)
  <2>1. /\ todo \subseteq S /\ todo \in SUBSET Ids(d)
        /\ \A i \in todo : plan[i] \in Rules
    BY DEF ToSettle, IsPlan
  <2>2. \A i \in Ids(d) : d.resv[i] \in Reservation
    BY <1>3, DatabaseFields
  <2>3. K \in SUBSET Key
    <3> SUFFICES ASSUME NEW i \in todo
                 PROVE  CounterKey(plan[i], PrincipalOf[d.resv[i].guard]) \in Key
      OBVIOUS
    <3>1. d.resv[i].guard \in Guards
      BY <2>1, <2>2 DEF Reservation
    <3>2. PrincipalOf[d.resv[i].guard] \in Principals
      BY <3>1, CallersAssumption
    <3>3. plan[i] \in Rules
      BY <2>1
    <3> HIDE DEF todo
    <3> QED
      BY <3>2, <3>3, CounterKeyType
  <2>4. open \in Database /\ open.resv = bound.resv /\ open.purged = bound.purged
    <3> HIDE DEF K, bound
    <3> QED
      BY <1>3, <2>3, EnsureRowsType
  <2>5. \A i \in todo : delta[i] \in Int
    <3> SUFFICES ASSUME NEW i \in todo PROVE delta[i] \in Int
      OBVIOUS
    <3>1. d.resv[i].amount \in Int /\ d.resv[i].charged \in Int
      BY <2>1, <2>2 DEF Reservation
    <3>2. delta[i] = (IF usage = NoUsage THEN d.resv[i].amount ELSE Cost(plan[i], usage))
                       - d.resv[i].charged
      BY DEF Price
    <3>3. usage # NoUsage => Cost(plan[i], usage) \in Int
      BY <2>1, CostType, GuardAssumption
    <3> HIDE DEF todo, delta
    <3> QED
      BY <3>1, <3>2, <3>3
  <2>6. \A i \in todo : paid[i] \in Int \cup {NoUsage}
    <3> SUFFICES ASSUME NEW i \in todo PROVE paid[i] \in Int \cup {NoUsage}
      OBVIOUS
    <3>1. paid[i] = IF usage = NoUsage THEN NoUsage ELSE Cost(plan[i], usage)
      OBVIOUS
    <3>2. usage # NoUsage => Cost(plan[i], usage) \in Int
      BY <2>1, CostType, GuardAssumption
    <3> HIDE DEF todo, paid
    <3> QED
      BY <3>1, <3>2
  <2>7. todo \in SUBSET Ids(open) /\ Ids(open) = Ids(d)
    BY <1>2, <2>1, <2>4 DEF Ids
  <2>8. e = Settle(open, todo, delta, "reconciled", paid)
    BY <1>1, <1>6
  <2>9. "reconciled" \in {"expired_charged", "reconciled"} \cap Statuses
    BY DEF Statuses
  <2> HIDE DEF open, todo, delta, paid, bound, S
  <2>10. Traced(open, e, todo, g, {})
    BY <2>4, <2>5, <2>6, <2>7, <2>8, <2>9, SettleTraced
  <2>11. e \in Database /\ Ids(e) = Ids(open)
    BY <2>4, <2>5, <2>6, <2>7, <2>8, <2>9, SettleType
  <2>12. Traced(bound, open, {}, g, {})
    BY <1>3, <2>4, SameRowsTraced
  <2>13. Traced(bound, open, S, g, {}) /\ Traced(open, e, S, g, {})
    BY <2>1, <2>10, <2>12, TracedWider
  <2>14. Traced(bound, e, S, g, {})
    BY <1>3, <2>4, <2>11, <2>13, TracedTransitive
  <2>15. Traced(d, e, S, g, {})
    BY <1>3, <1>4, <2>11, <2>14, TracedTransitive
  <2> QED
    BY <2>7, <2>11, <2>15 DEF S
<1> QED
  BY <1>5, <1>6

(* A report binds rows its plan names, and records a finding only when a   *)
(* named row was deleted or is another event's.                            *)
LEMMA ReconcileTraced ==
  ASSUME NEW d, Sound(d), NEW g \in Guards, NEW plan, IsPlan(plan),
         NEW usage \in UnitsUsed \cup {NoUsage}, NEW denied, NEW t \in Readings,
         NEW e, e = ReconcileGuard(d, g, plan, usage, denied, t)
  PROVE  /\ Traced(d, e, DOMAIN plan, g, {}) /\ Ids(e) = Ids(d)
         /\ \/ e.findings = d.findings
            \/ /\ e.findings = d.findings \cup {g}
               /\ \E i \in DOMAIN plan :
                    \/ i \notin Ids(d) \/ i \in d.purged
                    \/ i \in Ids(d) /\ d.resv[i].event \notin {NoGuard, g}
<1> DEFINE x == ExpireDue(d, t)
<1>1. Sound(x) /\ Ids(x) = Ids(d) /\ x.purged = d.purged /\ x.findings = d.findings
  BY ExpireSound
<1>2. Traced(d, x, {}, g, {})
  BY ExpireTraced
<1>3. e = IF PlanIsBroken(x, g, plan) THEN [d EXCEPT !.findings = @ \cup {g}]
          ELSE IF PlanFails(x, g, plan) THEN d
          ELSE SettlePlan(x, g, plan, usage, denied, t)
  BY DEF ReconcileGuard
<1> HIDE DEF x
<1>4. d \in Database /\ x \in Database
  BY <1>1 DEF Sound
<1>5. CASE PlanIsBroken(x, g, plan)
  <2>1. e.resv = d.resv /\ e.purged = d.purged /\ e.findings = d.findings \cup {g}
    <3>1. e = [d EXCEPT !.findings = d.findings \cup {g}]
      BY <1>3, <1>4, <1>5 DEF Database
    <3> QED
      BY <1>4, <3>1 DEF Database
  <2>2. PICK i \in DOMAIN plan : IsBroken(x, g, i)
    BY <1>5 DEF PlanIsBroken
  <2>3. i \in Ids(d) => x.resv[i].event = d.resv[i].event
    BY <1>2 DEF Traced, RowTraced
  <2>4. \/ i \notin Ids(d) \/ i \in d.purged
        \/ i \in Ids(d) /\ d.resv[i].event \notin {NoGuard, g}
    BY <1>1, <2>2, <2>3 DEF IsBroken, Present
  <2>5. Traced(d, e, {}, g, {})
    BY <1>4, <2>1, SameRowsTraced
  <2>6. Traced(d, e, DOMAIN plan, g, {})
    BY <2>5, TracedWider
  <2>7. Ids(e) = Ids(d)
    BY <2>1 DEF Ids
  <2> QED
    BY <2>1, <2>4, <2>6, <2>7
<1>6. CASE ~ PlanIsBroken(x, g, plan) /\ ~ PlanFails(x, g, plan)
  <2>1. DOMAIN plan \subseteq Ids(x)
    BY <1>6 DEF PlanFails, RowFails, IsBroken, Present
  <2>2. e = SettlePlan(x, g, plan, usage, denied, t)
    BY <1>3, <1>6
  <2>3. Traced(x, e, DOMAIN plan, g, {}) /\ Ids(e) = Ids(x)
    BY <1>1, <2>1, <2>2, SettlePlanTraced
  <2>4. Sound(e) /\ e.findings = x.findings
    BY <1>1, <2>1, <2>2, SettlePlanSound
  <2>5. Traced(d, x, DOMAIN plan, g, {}) /\ e \in Database
    BY <1>2, <2>4, TracedWider DEF Sound
  <2> QED
    BY <1>1, <1>4, <2>3, <2>4, <2>5, TracedTransitive
<1>7. CASE ~ PlanIsBroken(x, g, plan) /\ PlanFails(x, g, plan)
  BY <1>3, <1>4, <1>7, TracedReflexive, TracedWider
<1> QED
  BY <1>5, <1>6, <1>7

(* Binding changes no price. *)
LEMMA BindPriced ==
  ASSUME NEW d, Sound(d), NEW S, NEW g \in Guards, NEW e, e = BindRows(d, S, g)
  PROVE  \A i \in Ids(d) : /\ e.resv[i].rule = d.resv[i].rule
                           /\ PricedByOwnRule(d.resv[i]) => PricedByOwnRule(e.resv[i])
<1>1. d \in Database /\ \A i \in Ids(d) : d.resv[i] \in Reservation
  BY DatabaseFields DEF Sound
<1>2. ASSUME NEW i \in Ids(d)
      PROVE  e.resv[i].rule = d.resv[i].rule /\ e.resv[i].reported = d.resv[i].reported
  <2>1. e.resv[i] = IF i \in S THEN [d.resv[i] EXCEPT !.event = g] ELSE d.resv[i]
    BY <1>1 DEF BindRows, Database
  <2> QED
    BY <1>1, <2>1 DEF Reservation
<1> QED
  BY <1>2 DEF PricedByOwnRule

(* A report is priced by the rules of the plan. *)
LEMMA SettlePlanPriced ==
  ASSUME NEW d, Sound(d), NEW g \in Guards, NEW plan, IsPlan(plan),
         DOMAIN plan \subseteq Ids(d), NEW usage \in UnitsUsed \cup {NoUsage},
         NEW denied, NEW t \in Readings, NEW e, e = SettlePlan(d, g, plan, usage, denied, t),
         NEW i \in DOMAIN plan, plan[i] = d.resv[i].rule, PricedByOwnRule(d.resv[i])
  PROVE  PricedByOwnRule(e.resv[i])
<1> DEFINE S     == DOMAIN plan
           U     == Unbound(d, S)
           bound == BindRows(d, U, g)
           todo  == ToSettle(d, S, usage)
           K     == {CounterKey(plan[j], PrincipalOf[d.resv[j].guard]) : j \in todo}
           open  == EnsureBudgetRows(bound, K, t)
           delta == [j \in todo |-> Price(d.resv[j], plan[j], usage) - d.resv[j].charged]
           paid  == [j \in todo |-> IF usage = NoUsage THEN NoUsage ELSE Cost(plan[j], usage)]
<1>1. e = IF IsPending(d, S, usage, denied) THEN bound
          ELSE Settle(open, todo, delta, "reconciled", paid)
  BY DEF SettlePlan
<1>2. Sound(bound) /\ Ids(bound) = Ids(d)
  BY BindSound
<1>3. i \in Ids(d) /\ bound \in Database /\ d \in Database
  BY <1>2 DEF Sound
<1>4. bound.resv[i].rule = d.resv[i].rule /\ PricedByOwnRule(bound.resv[i])
  <2>1. bound = BindRows(d, U, g)
    OBVIOUS
  <2> HIDE DEF bound, U
  <2>2. \A j \in Ids(d) : /\ bound.resv[j].rule = d.resv[j].rule
                          /\ PricedByOwnRule(d.resv[j]) => PricedByOwnRule(bound.resv[j])
    BY <2>1, BindPriced
  <2> QED
    BY <1>3, <2>2
<1>5. K \in SUBSET Key
  <2> SUFFICES ASSUME NEW j \in todo
               PROVE  CounterKey(plan[j], PrincipalOf[d.resv[j].guard]) \in Key
    OBVIOUS
  <2>1. j \in DOMAIN plan /\ plan[j] \in Rules /\ d.resv[j] \in Reservation
    BY <1>3, DatabaseFields DEF ToSettle, IsPlan
  <2>2. PrincipalOf[d.resv[j].guard] \in Principals
    BY <2>1, CallersAssumption DEF Reservation
  <2> HIDE DEF todo
  <2> QED
    BY <2>1, <2>2, CounterKeyType
<1>6. open \in Database /\ open.resv = bound.resv
  <2> HIDE DEF K, bound
  <2> QED
    BY <1>3, <1>5, EnsureRowsType
<1>7. i \in todo => paid[i] = IF usage = NoUsage THEN NoUsage ELSE Cost(plan[i], usage)
  OBVIOUS
<1>8. i \in Ids(open) /\ bound.resv[i] \in Reservation
  BY <1>2, <1>3, <1>6, DatabaseFields DEF Ids
<1> HIDE DEF bound, open, todo, delta, paid
<1>9. CASE IsPending(d, S, usage, denied)
  BY <1>1, <1>4, <1>9
<1>10. CASE ~ IsPending(d, S, usage, denied)
  <2>1. e = Settle(open, todo, delta, "reconciled", paid)
    BY <1>1, <1>10
  <2>2. e.resv[i] = IF i \in todo
                    THEN SettledRow(bound.resv[i], "reconciled", paid[i], delta[i])
                    ELSE bound.resv[i]
    BY <1>6, <1>8, <2>1, SettleRows
  <2>3. CASE i \notin todo
    BY <1>4, <2>2, <2>3
  <2>4. CASE i \in todo
    <3>1. e.resv[i].rule = plan[i] /\ e.resv[i].reported = paid[i]
      BY <1>4, <1>8, <2>2, <2>4 DEF SettledRow, Reservation
    <3> QED
      BY <1>7, <2>4, <3>1 DEF PricedByOwnRule
  <2> QED
    BY <2>3, <2>4
<1> QED
  BY <1>9, <1>10

LEMMA ReconcilePriced ==
  ASSUME NEW d, Sound(d), NEW g \in Guards, NEW plan, IsPlan(plan),
         NEW usage \in UnitsUsed \cup {NoUsage}, NEW denied, NEW t \in Readings,
         NEW e, e = ReconcileGuard(d, g, plan, usage, denied, t),
         \A i \in DOMAIN plan : plan[i] = d.resv[i].rule
  PROVE  \A i \in DOMAIN plan : i \in Ids(d) /\ PricedByOwnRule(d.resv[i])
                                => PricedByOwnRule(e.resv[i])
<1> DEFINE x == ExpireDue(d, t)
<1>1. Sound(x) /\ Ids(x) = Ids(d)
  BY ExpireSound
<1>2. Traced(d, x, {}, g, {})
  BY ExpireTraced
<1>3. e = IF PlanIsBroken(x, g, plan) THEN [d EXCEPT !.findings = @ \cup {g}]
          ELSE IF PlanFails(x, g, plan) THEN d
          ELSE SettlePlan(x, g, plan, usage, denied, t)
  BY DEF ReconcileGuard
<1> HIDE DEF x
<1>4. SUFFICES ASSUME NEW i \in DOMAIN plan, i \in Ids(d), PricedByOwnRule(d.resv[i])
               PROVE  PricedByOwnRule(e.resv[i])
  OBVIOUS
<1>5. CASE PlanIsBroken(x, g, plan) \/ PlanFails(x, g, plan)
  BY <1>3, <1>4, <1>5 DEF Sound, Database
<1>6. CASE ~ PlanIsBroken(x, g, plan) /\ ~ PlanFails(x, g, plan)
  <2>1. DOMAIN plan \subseteq Ids(x)
    BY <1>6 DEF PlanFails, RowFails, IsBroken, Present
  <2>2. e = SettlePlan(x, g, plan, usage, denied, t)
    BY <1>3, <1>6
  <2>3. x.resv[i].rule = d.resv[i].rule /\ x.resv[i].reported \in {d.resv[i].reported, NoUsage}
    BY <1>2, <1>4 DEF Traced, RowTraced
  <2>4. PricedByOwnRule(x.resv[i]) /\ plan[i] = x.resv[i].rule
    BY <1>4, <2>3 DEF PricedByOwnRule
  <2> QED
    BY <1>1, <2>1, <2>2, <2>4, SettlePlanPriced
<1> QED
  BY <1>5, <1>6

(***************************************************************************)
(* The inductive invariant.                                                *)
(***************************************************************************)
(* The plan of call c holds each of its first n rules. *)
Covers(d, c, n) ==
  \A m \in 1..n : \E i \in DOMAIN c.plan : d.resv[i].rule = c.rules[m]

(* A call lists and plans only rows it took, each under its own rule; it   *)
(* holds the rules it has passed, and its event repeats its plan.  An      *)
(* approved call, strengthened or not, lists none.                         *)
CallOK(d, g, c, e) ==
  /\ \A i \in c.held : i \in Ids(d) /\ d.resv[i].guard = g
  /\ DOMAIN c.plan \subseteq c.held
  /\ \A i \in DOMAIN c.plan : d.resv[i].rule = c.plan[i]
  /\ c.decision = "approved"
       => c.held = {} /\ c.step # "checking" /\ e.kind \in {"none", "absent"}
  /\ c.appended = 0
  /\ c.step = "checking" => Covers(d, c, c.next - 1)
  /\ c.step = "decided" /\ c.decision # "approved" /\ ~ c.warned
       => Covers(d, c, Len(c.rules))
  /\ e.kind = "none" => e = NoEvent
  /\ e.kind # "none" => e.plan = c.plan /\ c.step \notin {"idle", "checking", "decided"}
  /\ e.kind \in {"unbudgeted", "evaluated"} /\ ~ c.warned => Covers(d, c, Len(c.rules))

(* Call c has let go of its holds; it has been answered with its holds.   *)
LetGo(c) == c.step = "refused" \/ (c.decision = "approved" /\ c.held = {})
Binds(c) == c.step \notin {"idle", "checking", "decided"} /\ c.decision # "approved"

(* A row is bound to its own call's event, released when its call let go   *)
(* of it, and priced by its own rule.                                      *)
RowOK(r, threads) ==
  /\ r.event \in {NoGuard, r.guard}
  /\ r.event # NoGuard => Binds(threads[r.guard])
  /\ r.status = "cancelled_verified" => LetGo(threads[r.guard])
  /\ PricedByOwnRule(r)

FoundOK(d, events) == \A g \in d.findings : DOMAIN events[g].plan \cap d.purged # {}

ThreadInv ==
  /\ Inv
  /\ \A g \in Guards : CallOK(db, g, call[g], event[g])
  /\ \A i \in Ids(db) : RowOK(db.resv[i], call)
  /\ FoundOK(db, event)

(* A call's facts outlive whatever the tables go through. *)
LEMMA CallOKStable ==
  ASSUME NEW d \in Database, NEW e \in Database, NEW bound, NEW h, NEW freed,
         Traced(d, e, bound, h, freed), NEW g, NEW c, NEW v, CallOK(d, g, c, v)
  PROVE  CallOK(e, g, c, v)
<1>1. /\ Len(d.resv) \in Nat /\ Len(e.resv) \in Nat /\ Ids(d) = 1..Len(d.resv)
      /\ Ids(e) = 1..Len(e.resv) /\ Len(d.resv) <= Len(e.resv)
  BY DatabaseFields DEF Traced
<1>2. \A i \in Ids(d) : /\ i \in Ids(e) /\ e.resv[i].guard = d.resv[i].guard
                        /\ e.resv[i].rule = d.resv[i].rule
  BY <1>1 DEF Traced, RowTraced
<1>3. \A i \in DOMAIN c.plan : i \in Ids(d)
  BY DEF CallOK
<1>4. \A n : Covers(d, c, n) => Covers(e, c, n)
  BY <1>2, <1>3 DEF Covers
<1> QED
  BY <1>2, <1>4 DEF CallOK

(* Thread g moves to c and its event to v; the tables change with it. *)
LEMMA ThreadMoves ==
  ASSUME ThreadInv, Inv', NEW g \in Guards, NEW c, NEW v,
         \A h \in Guards : call'[h] = IF h = g THEN c ELSE call[h],
         \A h \in Guards : event'[h] = IF h = g THEN v ELSE event[h],
         NEW bound, NEW freed, Traced(db, db', bound, g, freed),
         \A i \in bound \cup freed : i \in Ids(db) => db.resv[i].guard = g,
         \A i \in bound : Binds(c), \A i \in freed : LetGo(c),
         LetGo(call[g]) => LetGo(c), Binds(call[g]) => Binds(c),
         \A i \in bound : i \in Ids(db) /\ PricedByOwnRule(db.resv[i])
                            => PricedByOwnRule(db'.resv[i]),
         \A i \in Ids(db') \ Ids(db) : /\ db'.resv[i].event = NoGuard
                                       /\ db'.resv[i].status = "reserved",
         CallOK(db', g, c, v),
         g \in db.findings => v.plan = event[g].plan,
         \A h \in db'.findings : h \in db.findings \/ (h = g /\ DOMAIN v.plan \cap db'.purged # {})
  PROVE  ThreadInv'
<1>1. db \in Database /\ db' \in Database
  BY DEF ThreadInv, Inv, TypeOK
<1>2. \A h \in Guards : /\ call'[h] = IF h = g THEN c ELSE call[h]
                        /\ event'[h] = IF h = g THEN v ELSE event[h]
  OBVIOUS
<1>3. ASSUME NEW h \in Guards PROVE CallOK(db', h, call'[h], event'[h])
  <2>1. CASE h = g
    BY <1>2, <2>1
  <2>2. CASE h # g
    <3>1. CallOK(db, h, call[h], event[h])
      BY DEF ThreadInv
    <3>2. CallOK(db', h, call[h], event[h])
      BY <1>1, <3>1, CallOKStable
    <3> QED
      BY <1>2, <2>2, <3>2
  <2> QED
    BY <2>1, <2>2
<1>4. ASSUME NEW i \in Ids(db') PROVE RowOK(db'.resv[i], call')
  <2> DEFINE old == db.resv[i]
             new == db'.resv[i]
  <2>1. new.guard \in Guards
    BY <1>1, <1>4, DatabaseFields DEF Reservation
  <2>2. CASE i \in Ids(db)
    <3>1. /\ new.guard = old.guard /\ new.rule = old.rule
          /\ new.event = old.event \/ (i \in bound /\ new.event = g)
          /\ new.reported \in {old.reported, NoUsage} \/ i \in bound
          /\ new.status = "cancelled_verified" => old.status = "cancelled_verified" \/ i \in freed
      BY <2>2 DEF Traced, RowTraced
    <3>2. RowOK(old, call)
      BY <2>2 DEF ThreadInv
    <3>3. /\ i \in bound => old.guard = g /\ Binds(c)
          /\ i \in freed => old.guard = g /\ LetGo(c)
          /\ i \in bound /\ PricedByOwnRule(old) => PricedByOwnRule(new)
      BY <2>2
    <3>4. /\ LetGo(call[old.guard]) => LetGo(call'[old.guard])
          /\ Binds(call[old.guard]) => Binds(call'[old.guard])
          /\ i \in freed => LetGo(call'[old.guard])
          /\ i \in bound => Binds(call'[old.guard])
      <4>1. CASE old.guard = g
        BY <1>2, <3>3, <4>1
      <4>2. CASE old.guard # g
        BY <1>2, <2>1, <3>1, <3>3, <4>2
      <4> QED
        BY <4>1, <4>2
    <3> HIDE DEF old, new
    <3>5. new.event \in {NoGuard, new.guard} /\ (new.event # NoGuard => Binds(call'[new.guard]))
      <4>1. old.event \in {NoGuard, old.guard} /\ (old.event # NoGuard => Binds(call[old.guard]))
        BY <3>2 DEF RowOK
      <4> QED
        BY <3>1, <3>3, <3>4, <4>1
    <3>6. new.status = "cancelled_verified" => LetGo(call'[new.guard])
      <4>1. old.status = "cancelled_verified" => LetGo(call[old.guard])
        BY <3>2 DEF RowOK
      <4> QED
        BY <3>1, <3>4, <4>1
    <3>7. PricedByOwnRule(new)
      <4>1. PricedByOwnRule(old)
        BY <3>2 DEF RowOK
      <4> QED
        BY <3>1, <3>3, <4>1 DEF PricedByOwnRule
    <3>8. RowOK(new, call')
      BY <3>5, <3>6, <3>7 DEF RowOK
    <3> QED
      BY <3>8 DEF new
  <2>3. CASE i \notin Ids(db)
    <3>1. new.event = NoGuard /\ new.status = "reserved"
      BY <1>4, <2>3
    <3>2. PricedOnce(new)
      BY <1>4 DEF Inv, Sound
    <3> HIDE DEF new
    <3>3. PricedByOwnRule(new)
      BY <3>1, <3>2 DEF PricedOnce, PricedByOwnRule
    <3>4. RowOK(new, call')
      BY <3>1, <3>3 DEF RowOK
    <3> QED
      BY <3>4 DEF new
  <2> QED
    BY <2>2, <2>3
<1>5. FoundOK(db', event')
  <2> SUFFICES ASSUME NEW h \in db'.findings
               PROVE  DOMAIN event'[h].plan \cap db'.purged # {}
    BY DEF FoundOK
  <2>1. h \in Guards
    BY <1>1, DatabaseFields
  <2>2. CASE h \in db.findings
    <3>1. DOMAIN event[h].plan \cap db.purged # {}
      BY <2>2 DEF ThreadInv, FoundOK
    <3>2. db.purged \subseteq db'.purged
      BY DEF Traced
    <3>3. event'[h].plan = event[h].plan
      BY <1>2, <2>1, <2>2
    <3> QED
      BY <3>1, <3>2, <3>3
  <2>3. CASE h \notin db.findings
    BY <1>2, <2>1, <2>3
  <2> QED
    BY <2>2, <2>3
<1> QED
  BY <1>3, <1>4, <1>5 DEF ThreadInv

(* The tables change, the threads do not. *)
LEMMA TablesMove ==
  ASSUME ThreadInv, Inv', UNCHANGED <<call, event>>, NEW g \in Guards,
         NEW bound, Traced(db, db', bound, g, {}),
         \A i \in bound : i \in Ids(db) => db.resv[i].guard = g,
         \A i \in bound : Binds(call[g]),
         \A i \in bound : i \in Ids(db) /\ PricedByOwnRule(db.resv[i])
                            => PricedByOwnRule(db'.resv[i]),
         Ids(db') = Ids(db),
         \A h \in db'.findings :
           h \in db.findings \/ (h = g /\ DOMAIN event[g].plan \cap db'.purged # {})
  PROVE  ThreadInv'
<1>1. db \in Database /\ db' \in Database
  BY DEF ThreadInv, Inv, TypeOK
<1> DEFINE freed == {}
           c == call[g]
           v == event[g]
<1>2. /\ \A h \in Guards : call'[h] = IF h = g THEN c ELSE call[h]
      /\ \A h \in Guards : event'[h] = IF h = g THEN v ELSE event[h]
  OBVIOUS
<1>3. CallOK(db, g, c, v)
  BY DEF ThreadInv
<1>4. Traced(db, db', bound, g, freed) /\ \A i : i \notin freed
  OBVIOUS
<1>5. /\ LetGo(call[g]) => LetGo(c)
      /\ Binds(call[g]) => Binds(c)
      /\ \A i \in bound : Binds(c)
      /\ g \in db.findings => v.plan = event[g].plan
      /\ \A h \in db'.findings :
           h \in db.findings \/ (h = g /\ DOMAIN v.plan \cap db'.purged # {})
  OBVIOUS
<1> HIDE DEF freed, c, v
<1>6. CallOK(db', g, c, v)
  BY <1>1, <1>3, <1>4, CallOKStable
<1>7. /\ \A i \in bound \cup freed : i \in Ids(db) => db.resv[i].guard = g
      /\ \A i \in freed : LetGo(c)
      /\ \A i \in Ids(db') \ Ids(db) : db'.resv[i].event = NoGuard /\ db'.resv[i].status = "reserved"
  BY <1>4
<1> QED
  BY <1>2, <1>4, <1>5, <1>6, <1>7, ThreadMoves

(* With no caller there is no row either. *)
LEMMA RowsHaveCallers ==
  ASSUME NEW d \in Database, Guards = {} PROVE Ids(d) = {} /\ d.findings = {}
BY DatabaseFields DEF Reservation

(* A thread that only changes its step, and leaves the checking steps. *)
LEMMA StepMoves ==
  ASSUME ThreadInv, Inv', NEW g \in Guards,
         NEW step \in Steps \ {"idle", "checking", "decided"},
         call[g].step # "refused", call' = [call EXCEPT ![g].step = step], event' = event,
         NEW bound, NEW freed, Traced(db, db', bound, g, freed),
         \A i \in bound \cup freed : i \in Ids(db) => db.resv[i].guard = g,
         \A i \in freed : step = "refused", \A i \in bound : call[g].decision # "approved",
         \A i \in bound : i \in Ids(db) /\ PricedByOwnRule(db.resv[i])
                            => PricedByOwnRule(db'.resv[i]),
         Ids(db') = Ids(db), db'.findings = db.findings
  PROVE  ThreadInv'
<1> DEFINE c == [call[g] EXCEPT !.step = step]
           v == event[g]
<1>1. db \in Database /\ db' \in Database /\ IsCall(call[g]) /\ DOMAIN call = Guards
  BY DEF ThreadInv, Inv, TypeOK
<1>2. /\ \A h \in Guards : call'[h] = IF h = g THEN c ELSE call[h]
      /\ \A h \in Guards : event'[h] = IF h = g THEN v ELSE event[h]
  BY <1>1
<1>3. /\ c.step = step /\ c.decision = call[g].decision /\ c.rules = call[g].rules
      /\ c.held = call[g].held /\ c.plan = call[g].plan /\ c.warned = call[g].warned
      /\ c.appended = call[g].appended
  BY <1>1 DEF IsCall
<1>4. CallOK(db, g, call[g], event[g])
  BY DEF ThreadInv
<1> HIDE DEF c
<1>5. CallOK(db, g, c, v)
  BY <1>3, <1>4 DEF CallOK, Covers
<1>6. g \in db.findings => v.plan = event[g].plan
  OBVIOUS
<1> HIDE DEF v
<1>7. CallOK(db', g, c, v)
  BY <1>1, <1>5, CallOKStable
<1>8. /\ \A i \in freed : LetGo(c)
      /\ \A i \in bound : Binds(c)
      /\ LetGo(call[g]) => LetGo(c)
      /\ Binds(call[g]) => Binds(c)
      /\ \A i \in Ids(db') \ Ids(db) : db'.resv[i].event = NoGuard /\ db'.resv[i].status = "reserved"
      /\ \A h \in db'.findings : h \in db.findings \/ (h = g /\ DOMAIN v.plan \cap db'.purged # {})
  BY <1>3 DEF LetGo, Binds
<1> QED
  BY <1>2, <1>6, <1>7, <1>8, ThreadMoves

LEMMA StartGuardTraced ==
  ASSUME ThreadInv, Inv', NEW g \in Guards, NEW decision \in Decisions,
         NEW units \in UnitsUsed, StartGuard(g, decision, units)
  PROVE  ThreadInv'
<1> DEFINE step == IF decision = "approved" \/ policy = << >> THEN "decided" ELSE "checking"
           c == [NewCall EXCEPT !.decision = decision, !.rules = policy,
                                !.units = units, !.step = step]
           v == event[g]
<1>1. /\ db \in Database /\ db' = db /\ IsCall(call[g]) /\ DOMAIN call = Guards
      /\ call[g] = NewCall /\ event' = event
  BY DEF ThreadInv, Inv, TypeOK, IsCall, StartGuard
<1>2. CallOK(db, g, call[g], event[g])
  BY DEF ThreadInv
<1>3. v = NoEvent /\ call[g].step = "idle"
  BY <1>1, <1>2 DEF CallOK, NewCall
<1>4. /\ \A h \in Guards : call'[h] = IF h = g THEN c ELSE call[h]
      /\ \A h \in Guards : event'[h] = IF h = g THEN v ELSE event[h]
  <2>1. call' = [call EXCEPT ![g] = c]
    BY <1>1 DEF StartGuard
  <2> HIDE DEF c
  <2> QED
    BY <1>1, <2>1
<1>5. /\ c.step = step /\ c.decision = decision /\ c.rules = policy /\ c.next = 1
      /\ c.held = {} /\ c.plan = << >> /\ c.appended = 0
  BY DEF NewCall
<1>6. Covers(db, c, c.next - 1)
  BY <1>5 DEF Covers
<1>7. step = "decided" /\ decision # "approved" => Covers(db, c, Len(c.rules))
  BY <1>5 DEF Covers
<1>8. CallOK(db', g, c, v)
  <2>1. /\ v.kind = "none" /\ DOMAIN << >> = {}
        /\ decision = "approved" => step # "checking"
    BY <1>3 DEF NoEvent
  <2> HIDE DEF c, v, step
  <2> QED
    BY <1>1, <1>3, <1>5, <1>6, <1>7, <2>1 DEF CallOK
<1>9. g \in db.findings => v.plan = event[g].plan
  OBVIOUS
<1> DEFINE none == {}
<1>10. Traced(db, db', none, g, none)
  BY <1>1, TracedReflexive
<1> HIDE DEF c, v
<1>11. /\ \A i \in none \cup none : i \in Ids(db) => db.resv[i].guard = g
       /\ \A i \in none : Binds(c) /\ LetGo(c) /\ PricedByOwnRule(db'.resv[i])
       /\ LetGo(call[g]) => LetGo(c)
       /\ Binds(call[g]) => Binds(c)
       /\ \A i \in Ids(db') \ Ids(db) : db'.resv[i].event = NoGuard /\ db'.resv[i].status = "reserved"
       /\ \A h \in db'.findings : h \in db.findings \/ (h = g /\ DOMAIN v.plan \cap db'.purged # {})
  BY <1>1, <1>3 DEF LetGo, Binds, NewCall
<1> HIDE DEF none
<1> QED
  BY <1>4, <1>8, <1>9, <1>10, <1>11, ThreadMoves

LEMMA HoldRuleTraced ==
  ASSUME ThreadInv, Inv', NEW g \in Guards, HoldRule(g)
  PROVE  ThreadInv'
<1> DEFINE old == call[g]
           id == Len(db'.resv)
           rule == CurrentRule(g)
           plan == WithEntry(old.plan, id, rule)
           next == old.next
           c == [old EXCEPT !.held = @ \cup {id}, !.plan = plan,
                            !.next = next + 1, !.attempt = 1, !.appended = 0,
                            !.step = AfterRule(old)]
           v == event[g]
           x == ForCheck(g)
           none == {}
<1>1. /\ db \in Database /\ db' \in Database /\ IsCall(old) /\ DOMAIN call = Guards
      /\ old.step = "checking" /\ event' = event /\ Inv
  BY DEF ThreadInv, Inv, TypeOK, HoldRule
<1>2. CallOK(db, g, old, v)
  BY DEF ThreadInv
<1>3. /\ rule \in Rules /\ CurrentKey(g) \in Key /\ CurrentAmount(g) \in Nat /\ now \in Readings
      /\ Sound(x) /\ x.counter[CurrentKey(g)] \in Row /\ Sound(db)
  BY <1>1, CurrentTypes DEF Inv
<1>4. Traced(db, x, none, g, none) /\ x.findings = db.findings /\ Ids(x) = Ids(db)
  BY <1>3, OpenForCheckTraced DEF ForCheck
<1>5. /\ \A h \in Guards : call'[h] = IF h = g THEN c ELSE call[h]
      /\ \A h \in Guards : event'[h] = IF h = g THEN v ELSE event[h]
  <2>1. call' = [call EXCEPT ![g] = c]
    BY <1>1 DEF HoldRule
  <2> HIDE DEF c
  <2> QED
    BY <1>1, <2>1
<1>6. db' = AddHold(x, g, rule, CurrentAmount(g), now) /\ x.counter[CounterKey(rule, PrincipalOf[g])] \in Row
  BY <1>3 DEF HoldRule, CurrentKey
<1>7. /\ Traced(x, db', none, g, none) /\ db'.findings = x.findings
      /\ Len(db'.resv) = Len(x.resv) + 1
      /\ db'.resv[id].guard = g /\ db'.resv[id].rule = rule
      /\ db'.resv[id].event = NoGuard /\ db'.resv[id].status = "reserved"
  <2> HIDE DEF x, rule
  <2>1. CurrentAmount(g) \in Int
    BY <1>3
  <2> QED
    BY <1>3, <1>6, <2>1, AddHoldTraced
<1> HIDE DEF x
<1>8. Traced(db, db', none, g, none)
  BY <1>1, <1>3, <1>4, <1>7, TracedTransitive DEF Sound
<1>9. /\ Len(x.resv) \in Nat /\ Ids(x) = 1..Len(x.resv) /\ Ids(db') = 1..Len(db'.resv)
  BY <1>1, <1>3, DatabaseFields DEF Sound
<1>10. id \in Ids(db') /\ id \notin Ids(db) /\ \A i \in Ids(db') \ Ids(db) : i = id
  BY <1>4, <1>7, <1>9
<1>11. /\ c.step = AfterRule(old) /\ c.decision = old.decision /\ c.rules = old.rules
       /\ c.next = next + 1 /\ c.held = old.held \cup {id} /\ c.plan = plan
       /\ c.appended = 0 /\ c.warned = old.warned
  BY <1>1 DEF IsCall
<1>12. /\ DOMAIN plan = DOMAIN old.plan \cup {id}
       /\ \A i \in DOMAIN plan : plan[i] = IF i = id THEN rule ELSE old.plan[i]
  BY DEF WithEntry
<1>13. /\ old.next \in 1..Len(old.rules) /\ rule = old.rules[old.next]
       /\ Len(old.rules) \in Nat
  BY <1>1 DEF IsCall, CurrentRule
<1>14. CallOK(db', g, old, v)
  BY <1>1, <1>2, <1>8, CallOKStable
<1> HIDE DEF c, id, plan, rule, v
<1>15. Covers(db', c, next)
  <2> SUFFICES ASSUME NEW m \in 1..next
               PROVE  \E i \in DOMAIN c.plan : db'.resv[i].rule = c.rules[m]
    BY DEF Covers
  <2>1. CASE m = next
    <3>1. db'.resv[id].rule = c.rules[m] /\ id \in DOMAIN c.plan
      BY <1>7, <1>11, <1>12, <1>13, <2>1 DEF id
    <3> QED
      BY <3>1
  <2>2. CASE m # next
    <3>1. m \in 1..(next - 1)
      BY <1>13, <2>2
    <3>2. Covers(db', old, next - 1)
      BY <1>1, <1>14 DEF CallOK
    <3>3. \E i \in DOMAIN old.plan : db'.resv[i].rule = old.rules[m]
      BY <3>1, <3>2 DEF Covers
    <3> QED
      BY <1>11, <1>12, <3>3
  <2> QED
    BY <2>1, <2>2
<1>16. /\ c.step \in {"checking", "decided"}
       /\ c.step = "checking" => c.next - 1 = next
       /\ c.step = "decided" => Len(c.rules) = next
  BY <1>11, <1>13 DEF AfterRule
<1>17. v.kind = "none" /\ v = NoEvent
  BY <1>1, <1>14 DEF CallOK
<1>18. CallOK(db', g, c, v)
  <2>1. /\ \A i \in c.held : i \in Ids(db') /\ db'.resv[i].guard = g
        /\ DOMAIN c.plan \subseteq c.held
    BY <1>7, <1>10, <1>11, <1>12, <1>14 DEF CallOK, id
  <2>3. \A i \in DOMAIN c.plan : db'.resv[i].rule = c.plan[i]
    BY <1>7, <1>11, <1>12, <1>14 DEF CallOK, id
  <2>4. c.decision # "approved"
    BY <1>1, <1>11, <1>14 DEF CallOK
  <2>2. /\ c.step = "checking" => Covers(db', c, c.next - 1)
        /\ c.step = "decided" => Covers(db', c, Len(c.rules))
    BY <1>15, <1>16
  <2> QED
    BY <1>11, <1>17, <2>1, <2>2, <2>3, <2>4 DEF CallOK
<1>19. g \in db.findings => v.plan = event[g].plan
  BY DEF v
<1>20. /\ \A i \in none \cup none : i \in Ids(db) => db.resv[i].guard = g
       /\ \A i \in none : Binds(c) /\ LetGo(c) /\ PricedByOwnRule(db'.resv[i])
       /\ LetGo(call[g]) => LetGo(c)
       /\ Binds(call[g]) => Binds(c)
       /\ \A i \in Ids(db') \ Ids(db) : db'.resv[i].event = NoGuard /\ db'.resv[i].status = "reserved"
       /\ \A h \in db'.findings : h \in db.findings \/ (h = g /\ DOMAIN v.plan \cap db'.purged # {})
  <2>1. ~ LetGo(old) /\ ~ Binds(old)
    BY <1>1, <1>14 DEF CallOK, LetGo, Binds
  <2> QED
    BY <1>1, <1>4, <1>7, <1>10, <2>1 DEF id
<1> HIDE DEF none
<1> QED
  BY <1>5, <1>8, <1>18, <1>19, <1>20, ThreadMoves

LEMMA ExceedCapTraced ==
  ASSUME ThreadInv, Inv', NEW g \in Guards, ExceedHardCap(g) \/ ExceedSoftCap(g)
  PROVE  ThreadInv'
<1> DEFINE old == call[g]
           v == event[g]
           none == {}
<1>1. /\ db \in Database /\ db' \in Database /\ IsCall(old) /\ DOMAIN call = Guards
      /\ old.step = "checking" /\ event' = event /\ Inv /\ db' = ForCheck(g)
  BY DEF ThreadInv, Inv, TypeOK, ExceedHardCap, ExceedSoftCap
<1>2. CallOK(db, g, old, v)
  BY DEF ThreadInv
<1>3. CurrentKey(g) \in Key /\ now \in Readings /\ Sound(db)
  BY <1>1, CurrentTypes DEF Inv
<1>4. Traced(db, db', none, g, none) /\ db'.findings = db.findings /\ Ids(db') = Ids(db)
  BY <1>1, <1>3, OpenForCheckTraced DEF ForCheck
<1>5. \A i : i \notin none
  OBVIOUS
<1> HIDE DEF none
<1>6. CASE ExceedHardCap(g)
  <2>1. call' = [call EXCEPT ![g].step = "denied"]
    BY <1>6 DEF ExceedHardCap
  <2>2. "denied" \in Steps \ {"idle", "checking", "decided"} /\ call[g].step # "refused"
    BY <1>1 DEF Steps
  <2>3. /\ \A i \in none \cup none : i \in Ids(db) => db.resv[i].guard = g
        /\ \A i \in none : /\ "denied" = "refused" /\ call[g].decision # "approved"
                            /\ PricedByOwnRule(db'.resv[i])
    BY <1>5
  <2> QED
    BY <1>1, <1>4, <2>1, <2>2, <2>3, StepMoves
<1>7. CASE ExceedSoftCap(g)
  <2> DEFINE c == [old EXCEPT !.step = "decided", !.warned = TRUE]
  <2>1. old.appended = 0
    BY <1>2 DEF CallOK
  <2>2. call' = [call EXCEPT ![g] = c]
    BY <1>1, <1>7, <2>1 DEF ExceedSoftCap, IsCall
  <2>3. /\ c.step = "decided" /\ c.warned = TRUE /\ c.held = old.held /\ c.plan = old.plan
        /\ c.appended = 0 /\ c.decision = old.decision
    BY <1>1, <2>1 DEF IsCall
  <2> HIDE DEF c
  <2>4. /\ \A h \in Guards : call'[h] = IF h = g THEN c ELSE call[h]
        /\ \A h \in Guards : event'[h] = IF h = g THEN v ELSE event[h]
    BY <1>1, <2>2
  <2>5. CallOK(db', g, old, v)
    BY <1>1, <1>2, <1>4, CallOKStable
  <2>6. g \in db.findings => v.plan = event[g].plan
    OBVIOUS
  <2> HIDE DEF v
  <2>7. CallOK(db', g, c, v)
    BY <1>1, <2>3, <2>5 DEF CallOK
  <2>8. ~ LetGo(old) /\ ~ Binds(old)
    BY <1>1, <1>2 DEF CallOK, LetGo, Binds
  <2>9. /\ \A i \in none \cup none : i \in Ids(db) => db.resv[i].guard = g
        /\ \A i \in none : Binds(c) /\ LetGo(c) /\ PricedByOwnRule(db'.resv[i])
        /\ LetGo(call[g]) => LetGo(c)
        /\ Binds(call[g]) => Binds(c)
        /\ \A i \in Ids(db') \ Ids(db) : db'.resv[i].event = NoGuard /\ db'.resv[i].status = "reserved"
        /\ \A h \in db'.findings : h \in db.findings \/ (h = g /\ DOMAIN v.plan \cap db'.purged # {})
    BY <1>1, <1>4, <1>5, <2>8
  <2> QED
    BY <1>4, <2>4, <2>6, <2>7, <2>9, ThreadMoves
<1> QED
  BY <1>6, <1>7

LEMMA ReleaseStepTraced ==
  ASSUME ThreadInv, Inv', NEW g \in Guards, ReleaseDenied(g) \/ StrengthenDecision(g)
  PROVE  ThreadInv'
<1> DEFINE none == {}
           freed == call[g].held
<1>1. /\ Sound(db) /\ call[g].step # "refused" /\ event' = event
      /\ db' = ReleaseVerified(db, freed) /\ call' = [call EXCEPT ![g].step = "refused"]
      /\ "refused" \in Steps \ {"idle", "checking", "decided"}
  BY DEF ThreadInv, Inv, ReleaseDenied, StrengthenDecision, Steps
<1>2. Traced(db, db', none, g, freed) /\ Ids(db') = Ids(db)
  BY <1>1, ReleaseTraced
<1>3. db'.findings = db.findings
  BY <1>1, ReleaseSound
<1>4. \A i \in none \cup freed : i \in Ids(db) => db.resv[i].guard = g
  BY DEF ThreadInv, CallOK
<1>5. /\ \A i \in freed : "refused" = "refused"
      /\ \A i \in none : call[g].decision # "approved" /\ PricedByOwnRule(db'.resv[i])
  OBVIOUS
<1> HIDE DEF none, freed
<1> QED
  BY <1>1, <1>2, <1>3, <1>4, <1>5, StepMoves

(* A strengthened call that goes on by its token has let go of its holds. *)
LEMMA ApproveTraced ==
  ASSUME ThreadInv, Inv', NEW g \in Guards, ApproveStrengthened(g)
  PROVE  ThreadInv'
<1> DEFINE old == call[g]
           v == event[g]
           c == [old EXCEPT !.decision = "approved", !.held = {}, !.plan = << >>,
                            !.warned = FALSE]
           none == {}
           freed == old.held
<1>1. /\ Sound(db) /\ db \in Database /\ IsCall(old) /\ DOMAIN call = Guards
      /\ old.step = "decided" /\ old.decision = "allow" /\ event' = event
      /\ db' = ReleaseVerified(db, freed)
  BY DEF ThreadInv, Inv, TypeOK, ApproveStrengthened
<1>2. Traced(db, db', none, g, freed) /\ Ids(db') = Ids(db)
  BY <1>1, ReleaseTraced
<1>3. db'.findings = db.findings
  BY <1>1, ReleaseSound
<1>4. CallOK(db, g, old, v)
  BY DEF ThreadInv
<1>5. \A i \in none \cup freed : i \in Ids(db) => db.resv[i].guard = g
  BY <1>4 DEF CallOK
<1>6. /\ \A h \in Guards : call'[h] = IF h = g THEN c ELSE call[h]
      /\ \A h \in Guards : event'[h] = IF h = g THEN v ELSE event[h]
  <2>1. call' = [call EXCEPT ![g] = c]
    BY <1>1 DEF ApproveStrengthened
  <2> HIDE DEF c
  <2> QED
    BY <1>1, <2>1
<1>7. /\ c.step = "decided" /\ c.decision = "approved" /\ c.held = {} /\ c.plan = << >>
      /\ c.appended = old.appended
  BY <1>1 DEF IsCall
<1>8. v = NoEvent /\ DOMAIN << >> = {}
  BY <1>1, <1>4 DEF CallOK
<1> HIDE DEF c, old, v
<1>9. CallOK(db', g, c, v)
  BY <1>4, <1>7, <1>8 DEF CallOK, NoEvent
<1>10. /\ \A i \in none : Binds(c) /\ PricedByOwnRule(db'.resv[i])
       /\ \A i \in freed : LetGo(c)
       /\ LetGo(call[g]) => LetGo(c)
       /\ Binds(call[g]) => Binds(c)
       /\ \A i \in Ids(db') \ Ids(db) : db'.resv[i].event = NoGuard /\ db'.resv[i].status = "reserved"
       /\ \A h \in db'.findings : h \in db.findings \/ (h = g /\ DOMAIN v.plan \cap db'.purged # {})
       /\ g \in db.findings => v.plan = event[g].plan
  BY <1>1, <1>2, <1>3, <1>7 DEF LetGo, Binds, old, v
<1> HIDE DEF none, freed
<1> QED
  BY <1>2, <1>5, <1>6, <1>9, <1>10, ThreadMoves

LEMMA BindStepTraced ==
  ASSUME ThreadInv, Inv', NEW g \in Guards, BindGuardEvent(g) \/ Abort(g)
  PROVE  ThreadInv'
<1> DEFINE none == {}
           S == Bindable(db, call[g].held, g)
<1>1. /\ Sound(db) /\ db \in Database /\ call[g].step # "refused" /\ event' = event
      /\ {"lost", "executing"} \subseteq Steps \ {"idle", "checking", "decided"}
  BY DEF ThreadInv, Inv, Sound, BindGuardEvent, Abort, InFlight, Steps
<1>2. \A i : i \notin none
  OBVIOUS
<1>3. \A i \in S : /\ i \in Ids(db) => db.resv[i].guard = g
                   /\ call[g].decision # "approved"
  BY DEF ThreadInv, CallOK, Bindable, Present
<1>4. CASE db' = db /\ call' = [call EXCEPT ![g].step = "lost"]
  <2>1. Traced(db, db', none, g, none)
    BY <1>1, <1>4, TracedReflexive
  <2> HIDE DEF none
  <2>2. /\ \A i \in none \cup none : i \in Ids(db) => db.resv[i].guard = g
        /\ \A i \in none : /\ "lost" = "refused" /\ call[g].decision # "approved"
                            /\ PricedByOwnRule(db'.resv[i])
    BY <1>2
  <2> QED
    BY <1>1, <1>4, <2>1, <2>2, StepMoves
<1>5. CASE db' = BindRows(db, S, g) /\ call' = [call EXCEPT ![g].step = "executing"]
  <2>1. Traced(db, db', S, g, none) /\ Ids(db') = Ids(db) /\ db'.findings = db.findings
    BY <1>1, <1>5, BindTraced
  <2>2. \A i \in S : i \in Ids(db) /\ PricedByOwnRule(db.resv[i])
                     => PricedByOwnRule(db'.resv[i])
    <3> HIDE DEF S
    <3>1. \A i \in Ids(db) : PricedByOwnRule(db.resv[i]) => PricedByOwnRule(db'.resv[i])
      BY <1>1, <1>5, BindPriced
    <3> QED
      BY <3>1
  <2> HIDE DEF none, S
  <2>3. /\ \A i \in S \cup none : i \in Ids(db) => db.resv[i].guard = g
        /\ \A i \in none : "executing" = "refused"
        /\ \A i \in S : call[g].decision # "approved"
    BY <1>2, <1>3
  <2> QED
    BY <1>1, <1>5, <2>1, <2>2, <2>3, StepMoves
<1> QED
  BY <1>4, <1>5 DEF BindGuardEvent, Abort

LEMMA PersistTraced ==
  ASSUME ThreadInv, Inv', NEW g \in Guards,
         PersistEvent(g) \/ \E stored \in BOOLEAN : PersistFails(g, stored)
  PROVE  ThreadInv'
<1>1. \E step \in {"executing", "audited", "denied"}, v \in {EvidenceOf(call[g]), event[g]} :
        /\ call' = [call EXCEPT ![g].step = step]
        /\ \A h \in Guards : event'[h] = IF h = g THEN v ELSE event[h]
  <2>1. DOMAIN event = Guards
    BY DEF ThreadInv, Inv, TypeOK
  <2>2. PICK step \in {"executing", "audited", "denied"} : call' = [call EXCEPT ![g].step = step]
    BY DEF PersistEvent, PersistFails
  <2>3. CASE event' = event
    <3>1. \A h \in Guards : event'[h] = IF h = g THEN event[g] ELSE event[h]
      BY <2>3
    <3> QED
      BY <2>2, <3>1
  <2>4. CASE event' = [event EXCEPT ![g] = EvidenceOf(call[g])]
    <3>1. \A h \in Guards : event'[h] = IF h = g THEN EvidenceOf(call[g]) ELSE event[h]
      BY <2>1, <2>4
    <3> QED
      BY <2>2, <3>1
  <2> QED
    BY <2>3, <2>4 DEF PersistEvent, PersistFails
<1>2. PICK step \in {"executing", "audited", "denied"}, v \in {EvidenceOf(call[g]), event[g]} :
        /\ call' = [call EXCEPT ![g].step = step]
        /\ \A h \in Guards : event'[h] = IF h = g THEN v ELSE event[h]
  BY <1>1
<1> DEFINE old == call[g]
           c == [old EXCEPT !.step = step]
           none == {}
<1>3. /\ db \in Database /\ db' = db /\ IsCall(old) /\ DOMAIN call = Guards
      /\ DOMAIN event = Guards /\ old.step = "decided"
  BY DEF ThreadInv, Inv, TypeOK, PersistEvent, PersistFails
<1>4. CallOK(db, g, old, event[g])
  BY DEF ThreadInv
<1>5. event[g] = NoEvent
  BY <1>3, <1>4 DEF CallOK
<1>6. g \notin db.findings
  BY <1>5 DEF ThreadInv, FoundOK, NoEvent
<1>7. /\ \A h \in Guards : call'[h] = IF h = g THEN c ELSE call[h]
      /\ \A h \in Guards : event'[h] = IF h = g THEN v ELSE event[h]
  BY <1>2, <1>3
<1>8. /\ c.step = step /\ c.decision = old.decision /\ c.rules = old.rules
      /\ c.held = old.held /\ c.plan = old.plan /\ c.warned = old.warned
      /\ c.appended = old.appended
  BY <1>3 DEF IsCall
<1>9. /\ v.kind = "none" => v = NoEvent
      /\ v.kind # "none" => v.plan = old.plan
      /\ v.kind \in {"unbudgeted", "evaluated"} => old.decision # "approved"
      /\ v.kind \in {"none", "absent", "unbudgeted", "evaluated"}
  <2>1. CASE v = event[g]
    BY <1>5, <2>1 DEF NoEvent
  <2>2. CASE v = EvidenceOf(old)
    <3>1. v.plan = old.plan /\ v.kind \in {"absent", "unbudgeted", "evaluated"}
      BY <2>2 DEF EvidenceOf
    <3>2. old.decision = "approved" => v.kind = "absent"
      BY <2>2 DEF EvidenceOf
    <3> QED
      BY <3>1, <3>2
  <2> QED
    BY <1>2, <2>1, <2>2
<1> HIDE DEF c, old
<1>10. Covers(db, old, Len(old.rules)) => Covers(db, c, Len(c.rules))
  BY <1>8 DEF Covers
<1>11. CallOK(db', g, c, v)
  <2>1. c.decision = "approved" => c.held = {} /\ v.kind \in {"none", "absent"}
    BY <1>4, <1>8, <1>9 DEF CallOK
  <2> QED
    BY <1>3, <1>4, <1>8, <1>9, <1>10, <2>1 DEF CallOK
<1>12. Traced(db, db', none, g, none)
  BY <1>3, TracedReflexive
<1>13. /\ \A i \in none \cup none : i \in Ids(db) => db.resv[i].guard = g
       /\ \A i \in none : Binds(c) /\ LetGo(c) /\ PricedByOwnRule(db'.resv[i])
       /\ LetGo(call[g]) => LetGo(c)
       /\ Binds(call[g]) => Binds(c)
       /\ \A i \in Ids(db') \ Ids(db) : db'.resv[i].event = NoGuard /\ db'.resv[i].status = "reserved"
       /\ \A h \in db'.findings : h \in db.findings \/ (h = g /\ DOMAIN v.plan \cap db'.purged # {})
       /\ g \in db.findings => v.plan = event[g].plan
  BY <1>3, <1>6, <1>8 DEF old, LetGo, Binds
<1> HIDE DEF none
<1> QED
  BY <1>7, <1>11, <1>12, <1>13, ThreadMoves

LEMMA ReportTraced ==
  ASSUME ThreadInv, Inv', NEW g \in Guards, NEW usage \in UnitsUsed \cup {NoUsage},
         NEW denied, ReportUsage(g, usage, denied)
  PROVE  ThreadInv'
<1> DEFINE plan == PlanOf(g)
           S == DOMAIN plan
<1>1. /\ Sound(db) /\ db \in Database /\ now \in Readings /\ IsEvent(event[g])
      /\ event[g] # NoEvent /\ UNCHANGED <<call, event>>
      /\ db' = ReconcileGuard(db, g, plan, usage, denied, now)
  BY DEF ThreadInv, Inv, TypeOK, Sound, ReportUsage
<1>2. CallOK(db, g, call[g], event[g])
  BY DEF ThreadInv
<1>3. \A i \in Ids(db) : /\ db.resv[i].event \in {NoGuard, db.resv[i].guard}
                         /\ i \in Nat /\ db.resv[i].rule \in Rules
  BY SMTT(30), <1>1, DatabaseFields DEF ThreadInv, RowOK, Reservation
<1>4. CASE event[g].kind = "absent"
  <2>1. plan = [i \in {j \in Present(db, Ids(db)) : db.resv[j].event = g} |-> db.resv[i].rule]
    BY <1>4 DEF PlanOf
  <2>2. \A i \in S : i \in Ids(db) /\ i \notin db.purged /\ db.resv[i].event = g
    BY <2>1 DEF Present
  <2>3. IsPlan(plan) /\ \A i \in S : plan[i] = db.resv[i].rule
    BY <1>3, <2>1 DEF IsPlan, Present
  <2>4. \A i \in S : /\ i \in Ids(db) => db.resv[i].guard = g
                     /\ Binds(call[g])
    BY <1>3, <2>2, NullsAssumption DEF ThreadInv, RowOK
  <2> HIDE DEF plan
  <2>7. \A i \in S : i \in Ids(db) /\ PricedByOwnRule(db.resv[i])
                     => PricedByOwnRule(db'.resv[i])
    BY <1>1, <2>3, ReconcilePriced
  <2>5. Traced(db, db', S, g, {}) /\ Ids(db') = Ids(db) /\ db'.findings = db.findings
    BY <1>1, <2>2, <2>3, ReconcileTraced
  <2>6. \A h \in db'.findings : h \in db.findings \/ (h = g /\ DOMAIN event[g].plan \cap db'.purged # {})
    BY <2>5
  <2> HIDE DEF S
  <2> QED
    BY <1>1, <2>4, <2>5, <2>6, <2>7, TablesMove
<1>5. CASE event[g].kind # "absent"
  <2>1. plan = event[g].plan /\ event[g].kind # "none"
    BY <1>1, <1>2, <1>5 DEF PlanOf, CallOK
  <2>2. IsPlan(plan) /\ S \subseteq call[g].held
    BY <1>1, <1>2, <2>1 DEF IsEvent, CallOK
  <2>3. \A i \in S : /\ i \in Ids(db) /\ db.resv[i].guard = g
                     /\ plan[i] = db.resv[i].rule
    BY <1>2, <2>1, <2>2 DEF CallOK
  <2>8. \A i \in S : Binds(call[g])
    BY <1>2, <2>1, <2>2 DEF CallOK, Binds
  <2> HIDE DEF plan
  <2>9. \A i \in S : i \in Ids(db) /\ PricedByOwnRule(db.resv[i])
                     => PricedByOwnRule(db'.resv[i])
    BY <1>1, <2>2, <2>3, ReconcilePriced
  <2>4. /\ Traced(db, db', S, g, {}) /\ Ids(db') = Ids(db)
        /\ \/ db'.findings = db.findings
           \/ /\ db'.findings = db.findings \cup {g}
              /\ \E i \in S :
                   \/ i \notin Ids(db) \/ i \in db.purged
                   \/ i \in Ids(db) /\ db.resv[i].event \notin {NoGuard, g}
    BY <1>1, <2>2, ReconcileTraced
  <2>5. db.purged \subseteq db'.purged
    BY <2>4 DEF Traced
  <2>6. \A h \in db'.findings : h \in db.findings \/ (h = g /\ DOMAIN event[g].plan \cap db'.purged # {})
    <3>1. \A i \in S : i \in Ids(db) /\ db.resv[i].event \in {NoGuard, g}
      BY <1>3, <2>3
    <3>2. CASE db'.findings = db.findings
      BY <3>2
    <3>3. CASE /\ db'.findings = db.findings \cup {g}
               /\ \E i \in S : i \in db.purged
      <4>1. S \cap db'.purged # {}
        BY <2>5, <3>3
      <4>2. S = DOMAIN event[g].plan
        BY <2>1
      <4> QED
        BY <3>3, <4>1, <4>2
    <3> QED
      BY <2>4, <3>1, <3>2, <3>3
  <2>7. \A i \in S : i \in Ids(db) => db.resv[i].guard = g
    BY <2>3
  <2> HIDE DEF S
  <2> QED
    BY <1>1, <2>4, <2>6, <2>7, <2>8, <2>9, TablesMove
<1> QED
  BY <1>4, <1>5

(* Reads for the dashboard and the clean-up change no row's owner. *)
LEMMA MaintenanceTraced ==
  ASSUME ThreadInv, Inv', ListBudgets \/ Cleanup
  PROVE  ThreadInv'
<1>1. /\ Sound(db) /\ db \in Database /\ db' \in Database /\ now \in Readings
      /\ UNCHANGED <<call, event>>
  BY DEF ThreadInv, Inv, TypeOK, Sound, ListBudgets, Cleanup
<1>2. \A g : Traced(db, db', {}, g, {}) /\ db'.findings = db.findings /\ Ids(db') = Ids(db)
  BY <1>1, ListTraced, CleanupTraced DEF ListBudgets, Cleanup
<1>3. CASE Guards = {}
  <2>1. Ids(db') = {} /\ db'.findings = {}
    BY <1>1, <1>3, RowsHaveCallers
  <2> QED
    BY <1>3, <2>1 DEF ThreadInv, FoundOK
<1>4. ASSUME NEW g \in Guards PROVE ThreadInv'
  <2> DEFINE bound == {}
  <2>1. /\ Traced(db, db', bound, g, {}) /\ db'.findings = db.findings /\ Ids(db') = Ids(db)
        /\ \A i \in bound : i \in Ids(db) => db.resv[i].guard = g
        /\ \A i \in bound : Binds(call[g])
        /\ \A i \in bound : i \in Ids(db) /\ PricedByOwnRule(db.resv[i])
                             => PricedByOwnRule(db'.resv[i])
    BY <1>2
  <2> HIDE DEF bound
  <2>2. \A h \in db'.findings : h \in db.findings \/ (h = g /\ DOMAIN event[g].plan \cap db'.purged # {})
    BY <2>1
  <2> QED
    BY <1>1, <2>1, <2>2, TablesMove
<1> QED
  BY <1>3, <1>4

LEMMA ThreadStep ==
  ASSUME ~ CommitsMayFail, ThreadInv, [Next]_vars
  PROVE  ThreadInv'
<1>1. Inv'
  BY NextInv DEF ThreadInv
<1>2. ASSUME UNCHANGED <<db, call, event>> PROVE ThreadInv'
  BY <1>1, <1>2 DEF ThreadInv, FoundOK, CallOK, Covers, Ids, RowOK
<1>3. ASSUME NEW g \in Guards, NEW decision \in Decisions, NEW units \in UnitsUsed,
             StartGuard(g, decision, units)
      PROVE  ThreadInv'
  BY <1>1, <1>3, StartGuardTraced
<1>4. ASSUME NEW g \in Guards, HoldRule(g) PROVE ThreadInv'
  BY <1>1, <1>4, HoldRuleTraced
<1>5. ASSUME NEW g \in Guards, HoldRuleCommitFails(g) PROVE ThreadInv'
  BY <1>5 DEF HoldRuleCommitFails
<1>6. ASSUME NEW g \in Guards, ExceedHardCap(g) \/ ExceedSoftCap(g) PROVE ThreadInv'
  BY <1>1, <1>6, ExceedCapTraced
<1>7. ASSUME NEW g \in Guards, ReleaseDenied(g) \/ StrengthenDecision(g) PROVE ThreadInv'
  BY <1>1, <1>7, ReleaseStepTraced
<1>8. ASSUME NEW g \in Guards, ApproveStrengthened(g) PROVE ThreadInv'
  BY <1>1, <1>8, ApproveTraced
<1>9. ASSUME NEW g \in Guards, PersistEvent(g) \/ \E stored \in BOOLEAN : PersistFails(g, stored)
      PROVE  ThreadInv'
  BY <1>1, <1>9, PersistTraced
<1>10. ASSUME NEW g \in Guards, BindGuardEvent(g) \/ Abort(g) PROVE ThreadInv'
  BY <1>1, <1>10, BindStepTraced
<1>11. ASSUME NEW g \in Guards, NEW usage \in UnitsUsed \cup {NoUsage},
              NEW denied \in BOOLEAN, ReportUsage(g, usage, denied)
       PROVE  ThreadInv'
  BY <1>1, <1>11, ReportTraced
<1>12. ASSUME ListBudgets \/ Cleanup PROVE ThreadInv'
  BY <1>1, <1>12, MaintenanceTraced
<1>13. ASSUME PublishPolicy \/ Tick PROVE ThreadInv'
  BY <1>2, <1>13 DEF PublishPolicy, Tick
<1> QED
  BY <1>2, <1>3, <1>4, <1>5, <1>6, <1>7, <1>8, <1>9, <1>10, <1>11, <1>12, <1>13
     DEF Next, vars

LEMMA ThreadInit == ASSUME Init PROVE ThreadInv
<1>1. Inv
  BY InitInv
<1>2. Ids(db) = {} /\ db.findings = {}
  BY DEF Init, EmptyDatabase, Ids
<1>3. ASSUME NEW g \in Guards PROVE CallOK(db, g, call[g], event[g])
  <2>1. call[g] = NewCall /\ event[g] = NoEvent
    BY DEF Init
  <2>2. CallOK(db, g, NewCall, NoEvent)
    BY DEF CallOK, NewCall, NoEvent
  <2> QED
    BY <2>1, <2>2
<1> QED
  BY <1>1, <1>2, <1>3 DEF ThreadInv, FoundOK

(* ThreadInv is inductive for any number of calls, callers and rules. *)
THEOREM ThreadInvariantHolds ==
  ASSUME ~ CommitsMayFail PROVE Spec => []ThreadInv
<1>1. Init => ThreadInv
  BY ThreadInit
<1>2. ThreadInv /\ [Next]_vars => ThreadInv'
  BY ThreadStep
<1> QED
  BY <1>1, <1>2, PTL DEF Spec

(* A hold is never bound to the event of another call. *)
THEOREM BoundToOwnEvent ==
  ASSUME ~ CommitsMayFail PROVE Spec => []HoldsBoundToOwnEvent
<1>1. ThreadInv => HoldsBoundToOwnEvent
  BY DEF ThreadInv, RowOK, HoldsBoundToOwnEvent
<1> QED
  BY <1>1, ThreadInvariantHolds, PTL

(* A hold is released only when the server refused the call that took it,  *)
(* or strengthened it: a strengthened call may then run on its approval    *)
(* token, but no report finds a hold of it to settle.                      *)
THEOREM ReleasedMeansRefused ==
  ASSUME ~ CommitsMayFail PROVE Spec => []ReleasedOnlyIfRefused
<1>1. ASSUME ThreadInv PROVE ReleasedOnlyIfRefused
  <2> SUFFICES ASSUME NEW i \in Ids(db), db.resv[i].status = "cancelled_verified",
                      NEW g, g = db.resv[i].guard, call[g].step # "refused"
               PROVE  /\ call[g].decision = "approved" /\ call[g].held = {}
                      /\ event[g].kind \in {"none", "absent"}
                      /\ DOMAIN PlanOf(g) = {}
    BY DEF ReleasedOnlyIfRefused
  <2>1. g \in Guards
    BY <1>1, DatabaseFields DEF ThreadInv, Inv, TypeOK, Reservation
  <2>2. call[g].decision = "approved" /\ call[g].held = {}
    BY <1>1 DEF ThreadInv, RowOK, LetGo
  <2>3. CallOK(db, g, call[g], event[g])
    BY <1>1, <2>1 DEF ThreadInv
  <2>4. event[g].kind \in {"none", "absent"}
    BY <2>2, <2>3 DEF CallOK
  <2>5. CASE event[g].kind = "none"
    <3>1. PlanOf(g) = << >>
      BY <2>3, <2>5 DEF PlanOf, CallOK, NoEvent
    <3> QED
      BY <2>2, <2>5, <3>1
  <2>6. CASE event[g].kind = "absent"
    <3>1. ASSUME NEW j \in Ids(db) PROVE db.resv[j].event # g
      <4>1. RowOK(db.resv[j], call)
        BY <1>1 DEF ThreadInv
      <4> QED
        BY <2>1, <2>2, <4>1, NullsAssumption DEF RowOK, Binds
    <3>2. DOMAIN PlanOf(g) = {}
      BY <2>6, <3>1 DEF PlanOf, Present
    <3> QED
      BY <2>2, <2>6, <3>2
  <2> QED
    BY <2>4, <2>5, <2>6
<1> QED
  BY <1>1, ThreadInvariantHolds, PTL

(* Every settled row carries one charge, the estimate or the reported use  *)
(* at the price of the very rule its hold was taken under, whatever the    *)
(* operator published since.                                               *)
THEOREM ChargesMatchStatus ==
  ASSUME ~ CommitsMayFail PROVE Spec => []ChargeMatchesStatus
<1>1. ThreadInv => ChargeMatchesStatus
  BY DEF ThreadInv, Inv, Sound, RowOK, ChargeMatchesStatus
<1> QED
  BY <1>1, ThreadInvariantHolds, PTL

(* An allowed call keeps a hold under every rule of its policy snapshot,   *)
(* unless a soft cap warned about it or it was refused afterwards.         *)
THEOREM AllowedCallsAreHeld ==
  ASSUME ~ CommitsMayFail PROVE Spec => []AllowedCallIsHeld
<1>1. ASSUME ThreadInv PROVE AllowedCallIsHeld
  <2> SUFFICES ASSUME NEW g \in Guards, event[g].kind \in {"unbudgeted", "evaluated"},
                      ~ call[g].warned, call[g].step # "refused",
                      NEW n \in 1..Len(call[g].rules)
               PROVE  \E i \in DOMAIN event[g].plan :
                        /\ i \in Ids(db) /\ db.resv[i].guard = g
                        /\ db.resv[i].rule = call[g].rules[n]
                        /\ db.resv[i].status # "cancelled_verified"
    BY DEF AllowedCallIsHeld
  <2>1. CallOK(db, g, call[g], event[g])
    BY <1>1 DEF ThreadInv
  <2>2. event[g].plan = call[g].plan /\ Covers(db, call[g], Len(call[g].rules))
    BY <2>1 DEF CallOK
  <2>3. PICK i \in DOMAIN call[g].plan : db.resv[i].rule = call[g].rules[n]
    BY <2>2 DEF Covers
  <2>4. i \in Ids(db) /\ db.resv[i].guard = g
    BY <2>1 DEF CallOK
  <2>5. RowOK(db.resv[i], call)
    BY <1>1, <2>4 DEF ThreadInv
  <2>6. db.resv[i].status # "cancelled_verified"
    <3>1. call[g].decision # "approved"
      BY <2>1 DEF CallOK
    <3> QED
      BY <2>4, <2>5, <3>1 DEF RowOK, LetGo
  <2> QED
    BY <2>2, <2>3, <2>4, <2>6
<1> QED
  BY <1>1, ThreadInvariantHolds, PTL

(* An accounting finding is raised only when a hold that the event names   *)
(* was deleted by the retention clean-up.                                  *)
THEOREM FindingsMeanPurged ==
  ASSUME ~ CommitsMayFail PROVE Spec => []FindingMeansPurged
<1>1. ThreadInv => FindingMeansPurged
  BY DEF ThreadInv, FoundOK, FindingMeansPurged
<1> QED
  BY <1>1, ThreadInvariantHolds, PTL
(***************************************************************************)
(* When hard caps are enforced.  HardCapsEnforced does not hold in         *)
(* general: the warning of a soft rule ends the check, and the rules after *)
(* it are not looked at.  A policy that lists its hard rules first leaves  *)
(* none of them behind.                                                    *)
(***************************************************************************)
HardFirst ==
  \A p \in Policies : \A m, n \in 1..Len(p) : m <= n /\ p[n].hard => p[m].hard

(* Call g, as c, took a hold under each hard rule of its snapshot. *)
HardHeld(d, g, c) ==
  \A n \in 1..Len(c.rules) : c.rules[n].hard =>
    \E i \in Ids(d) : d.resv[i].guard = g /\ d.resv[i].rule = c.rules[n]

(* Call g, as c, took a hold under each of its first last rules. *)
HeldUpTo(d, g, c, last) ==
  \A n \in 1..last : \E i \in Ids(d) : d.resv[i].guard = g /\ d.resv[i].rule = c.rules[n]

HeldOK(d, g, c) ==
  /\ c.step = "checking" => HeldUpTo(d, g, c, c.next - 1)
  /\ c.step # "idle" => c.rules \in Policies
  /\ c.step \in {"decided", "audited", "executing"} /\ c.decision = "allow" => HardHeld(d, g, c)

HeldInv == Inv /\ \A g \in Guards : HeldOK(db, g, call[g])

(* Rows stay, and stay their call's and their rule's. *)
Kept(d, e) ==
  \A i \in Ids(d) : /\ i \in Ids(e) /\ e.resv[i].guard = d.resv[i].guard
                    /\ e.resv[i].rule = d.resv[i].rule

LEMMA TracedKept ==
  ASSUME NEW d \in Database, NEW e \in Database, NEW bound, NEW g, NEW freed,
         Traced(d, e, bound, g, freed)
  PROVE  Kept(d, e)
<1>1. /\ Len(d.resv) \in Nat /\ Len(e.resv) \in Nat /\ Ids(d) = 1..Len(d.resv)
      /\ Ids(e) = 1..Len(e.resv) /\ Len(d.resv) <= Len(e.resv)
  BY DatabaseFields DEF Traced
<1> QED
  BY <1>1 DEF Traced, RowTraced, Kept

LEMMA CheckKeeps ==
  ASSUME Inv, Inv', NEW g \in Guards, call[g].step = "checking"
  PROVE  Kept(db, ForCheck(g)) /\ Sound(ForCheck(g))
<1> DEFINE x == ForCheck(g)
           none == {}
<1>1. db \in Database /\ IsCall(call[g]) /\ Inv
  BY DEF Inv, TypeOK
<1>2. CurrentKey(g) \in Key /\ now \in Readings /\ Sound(db) /\ Sound(x)
  BY <1>1, CurrentTypes DEF Inv
<1>3. Traced(db, x, none, g, none)
  BY <1>2, OpenForCheckTraced DEF ForCheck
<1>4. x \in Database
  BY <1>2 DEF Sound
<1> HIDE DEF x, none
<1>5. Kept(db, x)
  BY <1>1, <1>3, <1>4, TracedKept
<1> QED
  BY <1>2, <1>5 DEF x

LEMMA HoldKeeps ==
  ASSUME Inv, Inv', NEW g \in Guards, HoldRule(g)
  PROVE  /\ Kept(db, db')
         /\ \E i \in Ids(db') : db'.resv[i].guard = g /\ db'.resv[i].rule = CurrentRule(g)
<1> DEFINE x == ForCheck(g)
           rule == CurrentRule(g)
           none == {}
<1>1. /\ db' \in Database /\ IsCall(call[g]) /\ call[g].step = "checking" /\ Inv
  BY DEF Inv, TypeOK, HoldRule
<1>2. Kept(db, x) /\ Sound(x)
  BY <1>1, CheckKeeps
<1>3. /\ rule \in Rules /\ CurrentAmount(g) \in Int /\ now \in Readings
      /\ x.counter[CurrentKey(g)] \in Row
  BY <1>1, CurrentTypes DEF Inv
<1>4. db' = AddHold(x, g, rule, CurrentAmount(g), now) /\ x.counter[CounterKey(rule, PrincipalOf[g])] \in Row
  BY <1>3 DEF HoldRule, CurrentKey
<1> HIDE DEF x, rule
<1>5. /\ Traced(x, db', none, g, none)
      /\ Len(db'.resv) = Len(x.resv) + 1
      /\ db'.resv[Len(db'.resv)].guard = g /\ db'.resv[Len(db'.resv)].rule = rule
  BY <1>2, <1>3, <1>4, AddHoldTraced
<1>6. x \in Database
  BY <1>2 DEF Sound
<1> HIDE DEF none
<1>7. Kept(x, db')
  BY <1>1, <1>5, <1>6, TracedKept
<1>8. Kept(db, db')
  BY <1>2, <1>7 DEF Kept
<1>9. Len(db'.resv) \in Ids(db')
  BY <1>1, <1>5, <1>6, DatabaseFields
<1>10. \E i \in Ids(db') : db'.resv[i].guard = g /\ db'.resv[i].rule = rule
  BY <1>5, <1>9
<1> QED
  BY <1>8, <1>10 DEF rule

LEMMA ReportKeeps ==
  ASSUME Inv, Inv', NEW g \in Guards, NEW usage \in UnitsUsed \cup {NoUsage},
         NEW denied, ReportUsage(g, usage, denied)
  PROVE  Kept(db, db')
<1> DEFINE plan == PlanOf(g)
           S == DOMAIN plan
           none == {}
<1>1. /\ Sound(db) /\ db \in Database /\ db' \in Database /\ now \in Readings
      /\ IsEvent(event[g]) /\ db' = ReconcileGuard(db, g, plan, usage, denied, now)
  BY DEF Inv, TypeOK, Sound, ReportUsage
<1>2. \A i \in Ids(db) : i \in Nat /\ db.resv[i].rule \in Rules
  <2>1. Ids(db) = 1..Len(db.resv) /\ \A i \in Ids(db) : db.resv[i] \in Reservation
    BY <1>1, DatabaseFields
  <2>2. \A r \in Reservation : r.rule \in Rules
    BY DEF Reservation
  <2> QED
    BY <2>1, <2>2
<1>3. IsPlan(plan)
  <2>1. CASE event[g].kind = "absent"
    <3>1. plan = [i \in {j \in Present(db, Ids(db)) : db.resv[j].event = g} |-> db.resv[i].rule]
      BY <2>1 DEF PlanOf
    <3> QED
      BY <1>2, <3>1 DEF IsPlan, Present
  <2>2. CASE event[g].kind # "absent"
    BY <1>1, <2>2 DEF PlanOf, IsEvent
  <2> QED
    BY <2>1, <2>2
<1> HIDE DEF plan
<1>4. Traced(db, db', S, g, none)
  BY <1>1, <1>3, ReconcileTraced
<1> HIDE DEF S, none
<1> QED
  BY <1>1, <1>4, TracedKept

(* No step removes a row or changes whose it is. *)
LEMMA StepKeeps ==
  ASSUME Inv, Inv', [Next]_vars
  PROVE  Kept(db, db')
<1>1. /\ Sound(db) /\ db \in Database /\ db' \in Database /\ now \in Readings
  BY DEF Inv, TypeOK, Sound
<1>2. ASSUME db' = db PROVE Kept(db, db')
  BY <1>2 DEF Kept
<1>3. ASSUME NEW g \in Guards, ExceedHardCap(g) \/ ExceedSoftCap(g) PROVE Kept(db, db')
  BY <1>3, CheckKeeps DEF ExceedHardCap, ExceedSoftCap
<1>4. ASSUME NEW g \in Guards, ReleaseDenied(g) \/ StrengthenDecision(g)
                                 \/ ApproveStrengthened(g)
      PROVE  Kept(db, db')
  <2> DEFINE held == call[g].held
             none == {}
  <2>1. db' = ReleaseVerified(db, held)
    BY <1>4 DEF ReleaseDenied, StrengthenDecision, ApproveStrengthened
  <2> HIDE DEF held
  <2>2. Traced(db, db', none, g, held)
    BY <1>1, <2>1, ReleaseTraced
  <2> HIDE DEF none
  <2> QED
    BY <1>1, <2>2, TracedKept
<1>5. ASSUME NEW g \in Guards, BindGuardEvent(g) PROVE Kept(db, db')
  <2> DEFINE S == Bindable(db, call[g].held, g)
             none == {}
  <2>1. db' = db \/ db' = BindRows(db, S, g)
    BY <1>5 DEF BindGuardEvent
  <2> HIDE DEF S
  <2>2. ASSUME db' = BindRows(db, S, g) PROVE Traced(db, db', S, g, none)
    BY <1>1, <2>2, BindTraced
  <2> HIDE DEF none
  <2> QED
    BY <1>1, <1>2, <2>1, <2>2, TracedKept
<1>6. ASSUME ListBudgets \/ Cleanup PROVE Kept(db, db')
  <2> DEFINE none == {}
  <2>1. PICK g : g = {}
    OBVIOUS
  <2>2. Traced(db, db', none, g, none)
    BY <1>1, <1>6, ListTraced, CleanupTraced DEF ListBudgets, Cleanup
  <2> HIDE DEF none
  <2> QED
    BY <1>1, <2>2, TracedKept
<1>7. ASSUME NEW g \in Guards, NEW decision \in Decisions, NEW units \in UnitsUsed,
             StartGuard(g, decision, units)
      PROVE  db' = db
  BY <1>7 DEF StartGuard
<1>8. ASSUME NEW g \in Guards,
             \/ PersistEvent(g) \/ \E stored \in BOOLEAN : PersistFails(g, stored)
             \/ Abort(g) \/ HoldRuleCommitFails(g)
      PROVE  db' = db
  BY <1>8 DEF PersistEvent, PersistFails, Abort, HoldRuleCommitFails
<1>9. ASSUME PublishPolicy \/ Tick \/ UNCHANGED vars PROVE db' = db
  BY <1>9 DEF PublishPolicy, Tick, vars
<1> QED
  BY <1>2, <1>3, <1>4, <1>5, <1>6, <1>7, <1>8, <1>9, HoldKeeps, ReportKeeps DEF Next

LEMMA HardHeldStable ==
  ASSUME NEW d, NEW e, Kept(d, e), NEW g, NEW c
  PROVE  /\ HardHeld(d, g, c) => HardHeld(e, g, c)
         /\ \A n : HeldUpTo(d, g, c, n) => HeldUpTo(e, g, c, n)
BY DEF Kept, HardHeld, HeldUpTo

(* Thread g moves to c; the others keep what they hold. *)
LEMMA HeldMoves ==
  ASSUME HeldInv, Inv', Kept(db, db'), NEW g \in Guards, NEW c,
         \A h \in Guards : call'[h] = IF h = g THEN c ELSE call[h],
         HeldOK(db', g, c)
  PROVE  HeldInv'
<1>1. ASSUME NEW h \in Guards, h # g PROVE HeldOK(db', h, call[h])
  <2>1. HeldOK(db, h, call[h])
    BY DEF HeldInv
  <2>2. /\ HardHeld(db, h, call[h]) => HardHeld(db', h, call[h])
        /\ \A n : HeldUpTo(db, h, call[h], n) => HeldUpTo(db', h, call[h], n)
    BY HardHeldStable
  <2> QED
    BY <2>1, <2>2 DEF HeldOK
<1> QED
  BY <1>1 DEF HeldInv

(* A thread that only changes its step. *)
LEMMA HeldSteps ==
  ASSUME HeldInv, Inv', Kept(db, db'), NEW g \in Guards, NEW step \in Steps,
         step \notin {"idle", "checking"}, call[g].step # "idle",
         step \in {"decided", "audited", "executing"} => call[g].step \in {"decided", "audited"},
         call' = [call EXCEPT ![g].step = step]
  PROVE  HeldInv'
<1> DEFINE c == [call[g] EXCEPT !.step = step]
<1>1. IsCall(call[g]) /\ DOMAIN call = Guards
  BY DEF HeldInv, Inv, TypeOK
<1>2. \A h \in Guards : call'[h] = IF h = g THEN c ELSE call[h]
  BY <1>1
<1>3. c.step = step /\ c.decision = call[g].decision /\ c.rules = call[g].rules
  BY <1>1 DEF IsCall
<1> HIDE DEF c
<1>4. HeldOK(db, g, call[g])
  BY DEF HeldInv
<1>5. HardHeld(db, g, call[g]) => HardHeld(db', g, call[g])
  BY HardHeldStable
<1>6. HardHeld(db', g, call[g]) => HardHeld(db', g, c)
  BY <1>3 DEF HardHeld
<1>7. HeldOK(db', g, c)
  BY <1>3, <1>4, <1>5, <1>6 DEF HeldOK
<1> QED
  BY <1>2, <1>7, HeldMoves

LEMMA StartHeld ==
  ASSUME HeldInv, Inv', Kept(db, db'), NEW g \in Guards, NEW decision \in Decisions,
         NEW units \in UnitsUsed, StartGuard(g, decision, units)
  PROVE  HeldInv'
<1> DEFINE step == IF decision = "approved" \/ policy = << >> THEN "decided" ELSE "checking"
           c == [NewCall EXCEPT !.decision = decision, !.rules = policy,
                                !.units = units, !.step = step]
<1>1. /\ IsCall(call[g]) /\ DOMAIN call = Guards /\ call[g] = NewCall /\ policy \in Policies
  BY DEF HeldInv, Inv, TypeOK, IsCall, StartGuard
<1>2. \A h \in Guards : call'[h] = IF h = g THEN c ELSE call[h]
  <2>1. call' = [call EXCEPT ![g] = c]
    BY <1>1 DEF StartGuard
  <2> HIDE DEF c
  <2> QED
    BY <1>1, <2>1
<1>3. c.step = step /\ c.decision = decision /\ c.rules = policy /\ c.next = 1
  BY DEF NewCall
<1>4. step = "decided" /\ decision = "allow" => Len(policy) = 0
  OBVIOUS
<1>5. step \in {"decided", "checking"}
  OBVIOUS
<1> HIDE DEF c, step
<1>6. c.step \in {"decided", "audited", "executing"} /\ c.decision = "allow" => HardHeld(db', g, c)
  BY <1>3, <1>4, <1>5 DEF HardHeld
<1>7. HeldUpTo(db', g, c, c.next - 1)
  BY <1>3 DEF HeldUpTo
<1>8. HeldOK(db', g, c)
  BY <1>1, <1>3, <1>5, <1>6, <1>7 DEF HeldOK
<1> QED
  BY <1>2, <1>8, HeldMoves

(* One hold more; after the last every rule of the snapshot is held. *)
LEMMA HoldHeld ==
  ASSUME HeldInv, Inv', Kept(db, db'), NEW g \in Guards, HoldRule(g)
  PROVE  HeldInv'
<1> DEFINE old == call[g]
           c == call'[g]
<1>1. /\ Inv /\ IsCall(old) /\ DOMAIN call = Guards /\ old.step = "checking"
      /\ HeldOK(db, g, old)
  BY DEF HeldInv, Inv, TypeOK, HoldRule
<1>2. \A h \in Guards : call'[h] = IF h = g THEN c ELSE call[h]
  BY <1>1 DEF HoldRule
<1>3. c.step = AfterRule(old) /\ c.rules = old.rules /\ c.next = old.next + 1
  BY <1>1 DEF HoldRule, IsCall
<1>4. \E i \in Ids(db') : db'.resv[i].guard = g /\ db'.resv[i].rule = old.rules[old.next]
  BY <1>1, HoldKeeps DEF CurrentRule
<1>5. old.next \in 1..Len(old.rules) /\ Len(old.rules) \in Nat
  BY <1>1 DEF IsCall
<1> HIDE DEF c, old
<1>6. HeldUpTo(db', g, old, old.next - 1)
  BY <1>1, HardHeldStable DEF HeldOK
<1>7. HeldUpTo(db', g, c, old.next)
  <2> SUFFICES ASSUME NEW n \in 1..old.next
               PROVE  \E i \in Ids(db') : db'.resv[i].guard = g /\ db'.resv[i].rule = c.rules[n]
    BY DEF HeldUpTo
  <2>1. CASE n = old.next
    BY <1>3, <1>4, <2>1
  <2>2. CASE n # old.next
    <3>1. n \in 1..(old.next - 1)
      BY <1>5, <2>2
    <3> QED
      BY <1>3, <1>6, <3>1 DEF HeldUpTo
  <2> QED
    BY <2>1, <2>2
<1>8. /\ c.step \in {"checking", "decided"}
      /\ c.step = "checking" => c.next - 1 = old.next
      /\ c.step = "decided" => Len(c.rules) = old.next
  BY <1>3, <1>5 DEF AfterRule
<1>9. HeldUpTo(db', g, c, Len(c.rules)) => HardHeld(db', g, c)
  BY DEF HeldUpTo, HardHeld
<1>10. HeldOK(db', g, c)
  BY <1>1, <1>3, <1>7, <1>8, <1>9 DEF HeldOK
<1> QED
  BY <1>2, <1>10, HeldMoves

(* A soft rule ends the check: the rules after it are soft as well. *)
LEMMA SoftHeld ==
  ASSUME HardFirst, HeldInv, Inv', Kept(db, db'), NEW g \in Guards, ExceedSoftCap(g)
  PROVE  HeldInv'
<1> DEFINE old == call[g]
           c == call'[g]
<1>1. /\ IsCall(old) /\ DOMAIN call = Guards /\ old.step = "checking"
      /\ HeldOK(db, g, old)
  BY DEF HeldInv, Inv, TypeOK, ExceedSoftCap
<1>2. \A h \in Guards : call'[h] = IF h = g THEN c ELSE call[h]
  BY <1>1 DEF ExceedSoftCap
<1>3. c.step = "decided" /\ c.rules = old.rules /\ c.decision = old.decision
  BY <1>1 DEF ExceedSoftCap, IsCall
<1>4. /\ ~ old.rules[old.next].hard /\ old.rules \in Policies
      /\ old.next \in 1..Len(old.rules) /\ Len(old.rules) \in Nat
  BY <1>1 DEF ExceedSoftCap, CurrentRule, HeldOK, IsCall
<1>5. HeldUpTo(db, g, old, old.next - 1)
  BY <1>1 DEF HeldOK
<1> HIDE DEF c, old
<1>6. HardHeld(db, g, old)
  <2> SUFFICES ASSUME NEW n \in 1..Len(old.rules), old.rules[n].hard
               PROVE  \E i \in Ids(db) : db.resv[i].guard = g /\ db.resv[i].rule = old.rules[n]
    BY DEF HardHeld
  <2>1. ~ (old.next <= n)
    BY <1>4 DEF HardFirst
  <2>2. n \in 1..(old.next - 1)
    BY <1>4, <2>1
  <2> QED
    BY <1>5, <2>2 DEF HeldUpTo
<1>7. HardHeld(db', g, c)
  <2>1. HardHeld(db', g, old)
    BY <1>6, HardHeldStable
  <2> QED
    BY <1>3, <2>1 DEF HardHeld
<1>8. HeldOK(db', g, c)
  BY <1>3, <1>4, <1>7 DEF HeldOK
<1> QED
  BY <1>2, <1>8, HeldMoves

(* A failed COMMIT leaves the thread at its rule, or ends the request. *)
LEMMA FailedHeld ==
  ASSUME HeldInv, Inv', Kept(db, db'), NEW g \in Guards, HoldRuleCommitFails(g)
  PROVE  HeldInv'
<1> DEFINE old == call[g]
           c == call'[g]
<1>1. IsCall(old) /\ DOMAIN call = Guards /\ old.step = "checking" /\ HeldOK(db, g, old)
  BY DEF HeldInv, Inv, TypeOK, HoldRuleCommitFails
<1>2. \A h \in Guards : call'[h] = IF h = g THEN c ELSE call[h]
  BY <1>1 DEF HoldRuleCommitFails
<1>3. c.step \in {"checking", "lost"} /\ c.rules = old.rules /\ c.next = old.next
  BY <1>1 DEF HoldRuleCommitFails, IsCall
<1> HIDE DEF c, old
<1>4. HeldUpTo(db', g, old, old.next - 1)
  BY <1>1, HardHeldStable DEF HeldOK
<1>5. HeldUpTo(db', g, c, c.next - 1)
  BY <1>3, <1>4 DEF HeldUpTo
<1>6. HeldOK(db', g, c)
  BY <1>1, <1>3, <1>5 DEF HeldOK
<1> QED
  BY <1>2, <1>6, HeldMoves

(* A strengthened call no longer runs on the policy's allow. *)
LEMMA ApproveHeld ==
  ASSUME HeldInv, Inv', Kept(db, db'), NEW g \in Guards, ApproveStrengthened(g)
  PROVE  HeldInv'
<1> DEFINE old == call[g]
           c == call'[g]
<1>1. IsCall(old) /\ DOMAIN call = Guards /\ old.step = "decided" /\ HeldOK(db, g, old)
  BY DEF HeldInv, Inv, TypeOK, ApproveStrengthened
<1>2. \A h \in Guards : call'[h] = IF h = g THEN c ELSE call[h]
  BY <1>1 DEF ApproveStrengthened
<1>3. c.step = "decided" /\ c.decision = "approved" /\ c.rules = old.rules
  BY <1>1 DEF ApproveStrengthened, IsCall
<1> HIDE DEF c, old
<1>4. HeldOK(db', g, c)
  BY <1>1, <1>3 DEF HeldOK
<1> QED
  BY <1>2, <1>4, HeldMoves

LEMMA HeldStep ==
  ASSUME HardFirst, HeldInv, [Next]_vars
  PROVE  HeldInv'
<1>1. Inv'
  BY NextInv DEF HeldInv
<1>2. Kept(db, db')
  BY <1>1, StepKeeps DEF HeldInv
<1>3. ASSUME call' = call PROVE HeldInv'
  <2>1. ASSUME NEW g \in Guards PROVE HeldOK(db', g, call'[g])
    <3>1. HeldOK(db, g, call[g])
      BY DEF HeldInv
    <3>2. /\ HardHeld(db, g, call[g]) => HardHeld(db', g, call[g])
          /\ \A n : HeldUpTo(db, g, call[g], n) => HeldUpTo(db', g, call[g], n)
      BY <1>2, HardHeldStable
    <3> QED
      BY <1>3, <3>1, <3>2 DEF HeldOK
  <2> QED
    BY <1>1, <2>1 DEF HeldInv
<1>4. {"denied", "refused", "lost", "executing", "audited"} \subseteq Steps
  BY DEF Steps
<1>5. ASSUME NEW g \in Guards, NEW decision \in Decisions, NEW units \in UnitsUsed,
             StartGuard(g, decision, units)
      PROVE  HeldInv'
  BY <1>1, <1>2, <1>5, StartHeld
<1>6. ASSUME NEW g \in Guards, HoldRule(g) PROVE HeldInv'
  BY <1>1, <1>2, <1>6, HoldHeld
<1>7. ASSUME NEW g \in Guards, HoldRuleCommitFails(g) PROVE HeldInv'
  BY <1>1, <1>2, <1>7, FailedHeld
<1>8. ASSUME NEW g \in Guards, ExceedHardCap(g) PROVE HeldInv'
  <2>1. call[g].step = "checking" /\ call' = [call EXCEPT ![g].step = "denied"]
    BY <1>8 DEF ExceedHardCap
  <2> QED
    BY <1>1, <1>2, <1>4, <2>1, HeldSteps
<1>9. ASSUME NEW g \in Guards, ExceedSoftCap(g) PROVE HeldInv'
  BY <1>1, <1>2, <1>9, SoftHeld
<1>10. ASSUME NEW g \in Guards, ReleaseDenied(g) \/ StrengthenDecision(g) PROVE HeldInv'
  <2>1. call[g].step # "idle" /\ call' = [call EXCEPT ![g].step = "refused"]
    BY <1>10 DEF ReleaseDenied, StrengthenDecision
  <2> QED
    BY <1>1, <1>2, <1>4, <2>1, HeldSteps
<1>11. ASSUME NEW g \in Guards, PersistEvent(g) \/ \E stored \in BOOLEAN : PersistFails(g, stored)
       PROVE  HeldInv'
  <2>1. /\ call[g].step = "decided"
        /\ \E step \in {"executing", "audited", "denied"} : call' = [call EXCEPT ![g].step = step]
    BY <1>11 DEF PersistEvent, PersistFails
  <2>2. PICK step \in {"executing", "audited", "denied"} : call' = [call EXCEPT ![g].step = step]
    BY <2>1
  <2> QED
    BY <1>1, <1>2, <1>4, <2>1, <2>2, HeldSteps
<1>12. ASSUME NEW g \in Guards, BindGuardEvent(g) PROVE HeldInv'
  <2>1. /\ call[g].step = "audited"
        /\ \/ call' = [call EXCEPT ![g].step = "lost"]
           \/ call' = [call EXCEPT ![g].step = "executing"]
    BY <1>12 DEF BindGuardEvent
  <2> QED
    BY <1>1, <1>2, <1>4, <2>1, HeldSteps
<1>13. ASSUME NEW g \in Guards, Abort(g) PROVE HeldInv'
  <2>1. call[g].step # "idle" /\ call' = [call EXCEPT ![g].step = "lost"]
    BY <1>13 DEF Abort, InFlight
  <2> QED
    BY <1>1, <1>2, <1>4, <2>1, HeldSteps
<1>14. ASSUME NEW g \in Guards, ApproveStrengthened(g) PROVE HeldInv'
  BY <1>1, <1>2, <1>14, ApproveHeld
<1>15. ASSUME NEW g \in Guards, NEW usage \in UnitsUsed \cup {NoUsage},
              NEW denied \in BOOLEAN, ReportUsage(g, usage, denied)
       PROVE  HeldInv'
  BY <1>3, <1>15 DEF ReportUsage
<1>16. ASSUME ListBudgets \/ Cleanup \/ PublishPolicy \/ Tick \/ UNCHANGED vars PROVE HeldInv'
  BY <1>3, <1>16 DEF ListBudgets, Cleanup, PublishPolicy, Tick, vars
<1> QED
  BY <1>5, <1>6, <1>7, <1>8, <1>9, <1>10, <1>11, <1>12, <1>13, <1>14, <1>15,
     <1>16 DEF Next

(* pre_check enforces every hard cap of the snapshot if each policy lists  *)
(* its hard rules before its soft ones: whatever the interleaving and the  *)
(* COMMITs that fail, a call let run without an approval took a hold under *)
(* each of them.  A soft rule before a hard one is the only way past it.   *)
THEOREM HardFirstEnforced ==
  ASSUME HardFirst PROVE Spec => []HardCapsEnforced
<1>1. Init => HeldInv
  <2> SUFFICES ASSUME Init PROVE HeldInv
    OBVIOUS
  <2>1. \A g \in Guards : call[g] = NewCall
    BY DEF Init
  <2> QED
    BY <2>1, InitInv DEF HeldInv, HeldOK, NewCall
<1>2. HeldInv /\ [Next]_vars => HeldInv'
  BY HeldStep
<1>3. HeldInv => HardCapsEnforced
  BY DEF HeldInv, HeldOK, HardHeld, HardCapsEnforced
<1> QED
  BY <1>1, <1>2, <1>3, PTL DEF Spec
=============================================================================
