----------------------------- MODULE BudgetGuard -----------------------------
(***************************************************************************)
(* Budget enforcement of llm_call actions: the /sdk/guard request threads  *)
(* of varden/app_factory.py, the /sdk/log reports that follow, the clock   *)
(* and the operator, over the tables of BudgetLedger.                      *)
(*                                                                         *)
(* FastAPI runs the handlers in a thread pool, so requests interleave      *)
(* between their SQLite transactions; each transaction is one action here. *)
(* A request is a thread with a program counter:                           *)
(*                                                                         *)
(*   idle -> checking -> decided -> audited -> executing                   *)
(*               |          |          |                                   *)
(*               +-> denied +----------+--> refused        lost (from any) *)
(*                                                                         *)
(* executing means the response let the client make the model call.       *)
(***************************************************************************)
EXTENDS BudgetLedger

CONSTANTS
  UnitsUsed,       \* sizes a call may be estimated at or report
  CommitsMayFail,  \* whether COMMIT can raise OperationalError
  Decisions        \* policy decisions to consider: "allow", "approved"

ASSUME GuardAssumption ==
  /\ UnitsUsed \subseteq Nat
  /\ CommitsMayFail \in BOOLEAN
  /\ Decisions \subseteq {"allow", "approved"}

VARIABLES
  now,      \* the clock
  policy,   \* the published budget rules
  db,       \* the budget tables
  call,     \* the guard request threads
  event     \* the audit event of each guard call that was allowed

vars == <<now, policy, db, call, event>>

Steps == {"idle", "checking", "denied", "decided", "audited",
          "executing", "refused", "lost"}
InFlight == {"checking", "denied", "decided", "audited"}
MaxAttempts == 3

(* rules is the policy snapshot, next the rule to check, held the          *)
(* reservation_ids list, appended the id put there for the current rule    *)
(* (0 for none), plan the "reserved" entries of the evidence, warned       *)
(* whether it has a "warned_not_held" entry.                               *)
NewCall == [step |-> "idle", decision |-> "none", rules |-> << >>, next |-> 1,
            units |-> 0, held |-> {}, appended |-> 0, plan |-> << >>,
            warned |-> FALSE, attempt |-> 1]

(* budget_evidence of an event whose decision executes; "absent" when the  *)
(* event has none, "none" when there is no event.                          *)
NoEvent == [kind |-> "none", plan |-> << >>]

Init ==
  /\ now \in {t \in Readings : \A u \in Readings : t <= u}
  /\ policy \in Policies
  /\ db = EmptyDatabase
  /\ call = [g \in Guards |-> NewCall]
  /\ event = [g \in Guards |-> NoEvent]

(***************************************************************************)
(* POST /sdk/guard                                                         *)
(***************************************************************************)
(* evaluate_action takes one policy snapshot.  An allowed call goes on to  *)
(* the pre-check.  A require_approval decision skips it; sdk_guard then    *)
(* turns a consumed approval token into an allow.                          *)
StartGuard(g, decision, units) ==
  /\ call[g].step = "idle"
  /\ call' = [call EXCEPT ![g].decision = decision, ![g].rules = policy,
                          ![g].units = units,
                          ![g].step = IF decision = "approved" \/ policy = << >>
                                      THEN "decided" ELSE "checking"]
  /\ UNCHANGED <<now, policy, db, event>>

CurrentRule(g) == call[g].rules[call[g].next]
CurrentKey(g) == CounterKey(CurrentRule(g), PrincipalOf[g])
CurrentAmount(g) == Cost(CurrentRule(g), call[g].units)
ForCheck(g) == OpenForCheck(db, CurrentKey(g), now)
CurrentFits(g) == Fits(ForCheck(g), CurrentKey(g), CurrentRule(g).limit, CurrentAmount(g))

(* The evidence entry "reserved" of a rule: its hold and its snapshot. *)
WithEntry(plan, id, rule) ==
  [i \in DOMAIN plan \cup {id} |-> IF i = id THEN rule ELSE plan[i]]

(* Mutants of AfterRule: one rule too many, and only the first rule. *)
AfterRulePastEnd(c) == IF c.next > Len(c.rules) THEN "decided" ELSE "checking"
AfterFirstRule(c) == "decided"

(* The loop of pre_check goes on to the next rule or ends. *)
AfterRule(c) == IF c.next = Len(c.rules) THEN "decided" ELSE "checking"

(* One iteration of pre_check: _check_rule commits a hold on this rule. *)
HoldRule(g) ==
  /\ call[g].step = "checking" /\ CurrentFits(g)
  /\ db' = AddHold(ForCheck(g), g, CurrentRule(g), CurrentAmount(g), now)
  /\ LET id == Len(db'.resv) IN
     call' = [call EXCEPT ![g].held = @ \cup {id},
                          ![g].plan = WithEntry(@, id, CurrentRule(g)),
                          ![g].next = @ + 1, ![g].attempt = 1, ![g].appended = 0,
                          ![g].step = AfterRule(call[g])]
  /\ UNCHANGED <<now, policy, event>>

(* The COMMIT raises OperationalError after the new id was appended to     *)
(* reservation_ids: the row is rolled back, the id stays in the list, and  *)
(* the check is retried, three times in all.                               *)
HoldRuleCommitFails(g) ==
  /\ CommitsMayFail
  /\ call[g].step = "checking" /\ CurrentFits(g)
  /\ call' = [call EXCEPT
        ![g].held = @ \cup {Len(db.resv) + 1}, ![g].appended = Len(db.resv) + 1,
        ![g].attempt = IF @ < MaxAttempts THEN @ + 1 ELSE @,
        ![g].step = IF call[g].attempt < MaxAttempts THEN "checking" ELSE "lost"]
  /\ UNCHANGED <<now, policy, db, event>>

(* A hard cap does not fit: PolicyViolation.  The transaction has          *)
(* committed the expiry and the rolled row.                                *)
ExceedHardCap(g) ==
  /\ call[g].step = "checking" /\ ~ CurrentFits(g) /\ CurrentRule(g).hard
  /\ db' = ForCheck(g)
  /\ call' = [call EXCEPT ![g].step = "denied"]
  /\ UNCHANGED <<now, policy, event>>

(* A soft cap does not fit: its warning ends pre_check, the rules after it *)
(* are not looked at.  An id left by a failed COMMIT makes the evidence    *)
(* entry "reserved" instead of "warned_not_held".                          *)
ExceedSoftCap(g) ==
  /\ call[g].step = "checking" /\ ~ CurrentFits(g) /\ ~ CurrentRule(g).hard
  /\ db' = ForCheck(g)
  /\ call' = [call EXCEPT
        ![g].step = "decided",
        ![g].warned = call[g].appended = 0,
        ![g].plan = IF call[g].appended = 0 THEN @
                    ELSE WithEntry(@, call[g].appended, CurrentRule(g))]
  /\ UNCHANGED <<now, policy, event>>

(* release_verified, then the 403 or 503 response. *)
ReleaseDenied(g) ==
  /\ call[g].step = "denied"
  /\ db' = ReleaseVerified(db, call[g].held)
  /\ call' = [call EXCEPT ![g].step = "refused"]
  /\ UNCHANGED <<now, policy, event>>

(* Mutant of StrengthenDecision: the holds go, the call goes on. *)
StrengthenIgnored(g) ==
  /\ call[g].step = "decided" /\ call[g].decision = "allow"
  /\ db' = ReleaseVerified(db, call[g].held)
  /\ UNCHANGED <<now, policy, call, event>>

(* Predictive authority or the action identity turns the decision into a   *)
(* block, or into a require_approval for which no valid token came along,  *)
(* after the holds were taken.                                             *)
StrengthenDecision(g) ==
  /\ call[g].step = "decided" /\ call[g].decision = "allow"
  /\ db' = ReleaseVerified(db, call[g].held)
  /\ call' = [call EXCEPT ![g].step = "refused"]
  /\ UNCHANGED <<now, policy, event>>

(* Predictive authority turns the decision into require_approval after the *)
(* holds were taken: they are released, and a valid approval token turns   *)
(* the decision back into an allow, which carries no evidence.             *)
ApproveStrengthened(g) ==
  /\ "approved" \in Decisions
  /\ call[g].step = "decided" /\ call[g].decision = "allow"
  /\ db' = ReleaseVerified(db, call[g].held)
  /\ call' = [call EXCEPT ![g].decision = "approved", ![g].held = {},
                          ![g].plan = << >>, ![g].warned = FALSE]
  /\ UNCHANGED <<now, policy, event>>

(* budget_evidence_document; an approved call carries none. *)
EvidenceOf(c) ==
  [kind |-> IF c.decision = "approved" THEN "absent"
            ELSE IF c.plan = << >> /\ ~ c.warned THEN "unbudgeted"
            ELSE "evaluated",
   plan |-> c.plan]

(* persist_event appends the audit event.  Without pending reservations    *)
(* the response follows at once.                                           *)
PersistEvent(g) ==
  /\ call[g].step = "decided"
  /\ event' = [event EXCEPT ![g] = EvidenceOf(call[g])]
  /\ call' = [call EXCEPT ![g].step = IF call[g].held = {} THEN "executing" ELSE "audited"]
  /\ UNCHANGED <<now, policy, db>>

(* persist_event raises: the holds are released and the answer is 503.  It *)
(* may raise after the audit row was stored, while it reads the row back.  *)
PersistFails(g, stored) ==
  /\ call[g].step = "decided"
  /\ event' = IF stored THEN [event EXCEPT ![g] = EvidenceOf(call[g])] ELSE event
  /\ call' = [call EXCEPT ![g].step = "denied"]
  /\ UNCHANGED <<now, policy, db>>

(* bind_guard_event, whose result the handler ignores.  A breach of the    *)
(* unique index is an exception, and the client gets no answer.            *)
BindGuardEvent(g) ==
  /\ call[g].step = "audited"
  /\ LET S == Bindable(db, call[g].held, g) IN
     IF BreaksUniqueIndex(db, S, g)
     THEN /\ call' = [call EXCEPT ![g].step = "lost"]
          /\ db' = db
     ELSE /\ call' = [call EXCEPT ![g].step = "executing"]
          /\ db' = BindRows(db, S, g)
  /\ UNCHANGED <<now, policy, event>>

(* The process stops, or the handler dies, between two transactions. *)
Abort(g) ==
  /\ call[g].step \in InFlight
  /\ call' = [call EXCEPT ![g].step = "lost"]
  /\ UNCHANGED <<now, policy, db, event>>

(***************************************************************************)
(* POST /sdk/log                                                           *)
(***************************************************************************)
(* The holds a report has to settle: those its event names or, for an      *)
(* event without evidence, those bound to it.                              *)
PlanOf(g) ==
  IF event[g].kind = "absent"
  THEN [i \in {j \in Present(db, Ids(db)) : db.resv[j].event = g} |-> db.resv[i].rule]
  ELSE event[g].plan

(* Mutant of ReportUsage: priced by the live rule of that id, if any. *)
LiveRule(rule) ==
  IF \E n \in DOMAIN policy : policy[n].id = rule.id
  THEN policy[CHOOSE n \in DOMAIN policy :
         policy[n].id = rule.id /\ \A m \in DOMAIN policy : policy[m].id = rule.id => m <= n]
  ELSE rule

ReportByLivePolicy(g, usage, denied) ==
  /\ event[g] # NoEvent /\ event[g].kind # "unbudgeted"
  /\ PlanOf(g) # << >>
  /\ db' = ReconcileGuard(db, g, [i \in DOMAIN PlanOf(g) |-> LiveRule(PlanOf(g)[i])],
                          usage, denied, now)
  /\ UNCHANGED <<now, policy, call, event>>

(* A report may come at any time, any number of times, with usage, without *)
(* it, or claiming that the call never ran.  Only a report that has        *)
(* something to settle opens a transaction.                                *)
ReportUsage(g, usage, denied) ==
  /\ event[g] # NoEvent /\ event[g].kind # "unbudgeted"
  /\ PlanOf(g) # << >>
  /\ db' = ReconcileGuard(db, g, PlanOf(g), usage, denied, now)
  /\ UNCHANGED <<now, policy, call, event>>

(***************************************************************************)
(* The environment.                                                        *)
(***************************************************************************)
ListBudgets ==
  /\ db' = ListActiveBudgets(db, now)
  /\ UNCHANGED <<now, policy, call, event>>

Cleanup ==
  /\ db' = CleanupResolved(db, now)
  /\ UNCHANGED <<now, policy, call, event>>

PublishPolicy ==
  /\ policy' \in Policies
  /\ UNCHANGED <<now, db, call, event>>

Tick ==
  /\ \E t \in Readings : now < t /\ now' = t
  /\ UNCHANGED <<policy, db, call, event>>

Next ==
  \/ \E g \in Guards :
       \/ \E decision \in Decisions, units \in UnitsUsed : StartGuard(g, decision, units)
       \/ HoldRule(g)
       \/ HoldRuleCommitFails(g)
       \/ ExceedHardCap(g)
       \/ ExceedSoftCap(g)
       \/ ReleaseDenied(g)
       \/ StrengthenDecision(g)
       \/ ApproveStrengthened(g)
       \/ PersistEvent(g)
       \/ \E stored \in BOOLEAN : PersistFails(g, stored)
       \/ BindGuardEvent(g)
       \/ Abort(g)
       \/ \E usage \in UnitsUsed \cup {NoUsage}, denied \in BOOLEAN :
            ReportUsage(g, usage, denied)
  \/ ListBudgets
  \/ Cleanup
  \/ PublishPolicy
  \/ Tick

Spec == Init /\ [][Next]_vars

(***************************************************************************)
(* Type correctness.                                                       *)
(***************************************************************************)
IsPlan(p) == DOMAIN p \subseteq Nat /\ \A i \in DOMAIN p : p[i] \in Rules

IsCall(c) ==
  /\ c = [step |-> c.step, decision |-> c.decision, rules |-> c.rules,
          next |-> c.next, units |-> c.units, held |-> c.held,
          appended |-> c.appended, plan |-> c.plan, warned |-> c.warned,
          attempt |-> c.attempt]
  /\ c.step \in Steps /\ c.decision \in Decisions \cup {"none"}
  /\ c.rules \in Seq(Rules) /\ c.next \in Nat \ {0} /\ c.units \in Nat
  /\ c.held \subseteq Nat /\ c.appended \in Nat /\ IsPlan(c.plan)
  /\ c.warned \in BOOLEAN /\ c.attempt \in 1..MaxAttempts
  /\ c.step = "idle" => c = NewCall
  /\ c.step = "checking" => c.next \in 1..Len(c.rules)

IsEvent(e) ==
  /\ e = [kind |-> e.kind, plan |-> e.plan]
  /\ e.kind \in {"none", "absent", "unbudgeted", "evaluated"} /\ IsPlan(e.plan)

(* Every table row and every request thread has its shape; a thread that   *)
(* is checking has a rule to check.                                        *)
TypeOK ==
  /\ now \in Readings
  /\ policy \in Policies
  /\ db \in Database
  /\ DOMAIN call = Guards /\ \A g \in Guards : IsCall(call[g])
  /\ DOMAIN event = Guards /\ \A g \in Guards : IsEvent(event[g])

(***************************************************************************)
(* Safety.                                                                 *)
(***************************************************************************)
(* What the ledger rows say was charged to, and is still held on, window w *)
(* of counter k.                                                           *)
ChargedTo(d, k, w) ==
  SumTo([i \in Ids(d) |-> IF d.resv[i].key = k /\ d.resv[i].window = w
                          THEN d.resv[i].charged ELSE 0], Len(d.resv))

HeldOn(d, k, w) ==
  SumTo([i \in Ids(d) |-> IF /\ d.resv[i].key = k /\ d.resv[i].window = w
                             /\ d.resv[i].status = "reserved"
                          THEN d.resv[i].amount ELSE 0], Len(d.resv))

(* What the counter tables say was charged to it. *)
Booked(d, k, w) ==
  d.archive[k][w] +
    (IF d.counter[k] # NoRow /\ d.counter[k].window = w THEN d.counter[k].current ELSE 0)

(* No charge is lost, doubled or moved to another window: the open counter *)
(* and its archive agree with the ledger, across rollovers, expiry, late   *)
(* reports and releases (_settle, _reset_row_if_due, _add_charge).         *)
Balanced(d) == \A k \in Key, w \in WindowIds : Booked(d, k, w) = ChargedTo(d, k, w)

ChargesConserved == Balanced(db)

(* The live reserved_usd of an open window is exactly its unsettled holds, *)
(* so that a hold counts toward the cap until it is settled or released.   *)
HoldsCounted ==
  \A k \in Key : db.counter[k] # NoRow =>
     db.counter[k].reserved = HeldOn(db, k, db.counter[k].window)

(* What hold i commits its window to: its estimate, or less if less was    *)
(* charged.                                                                *)
Commitment(r) ==
  IF r.status = "reserved" \/ r.charged > r.amount THEN r.amount ELSE r.charged

(* Concurrent calls cannot overcommit a budget: no hold was taken above    *)
(* the limit of the rule it was checked against, counting every hold taken *)
(* before it on the same window (_check_rule under BEGIN IMMEDIATE).       *)
CapRespected ==
  \A i \in Ids(db) :
    SumTo([j \in Ids(db) |-> IF /\ j <= i /\ db.resv[j].key = db.resv[i].key
                                /\ db.resv[j].window = db.resv[i].window
                             THEN Commitment(db.resv[j]) ELSE 0], Len(db.resv))
      <= db.resv[i].rule.limit

(* A reservation is charged once, at one price, whatever the order of      *)
(* expiry, late and repeated reports: nothing while reserved or cancelled, *)
(* the estimate at the deadline, the report or the estimate when settled.  *)
PricedOnce(r) ==
  /\ r.status \in {"reserved", "cancelled_verified"} => r.charged = 0
  /\ r.status = "expired_charged" => r.charged = r.amount
  /\ r.status = "reconciled" =>
       r.charged = IF r.reported = NoUsage THEN r.amount ELSE r.reported
  /\ r.status # "reconciled" => r.reported = NoUsage

RowsPriced == \A i \in Ids(db) : PricedOnce(db.resv[i])

(* ... and the report is priced by the rule the hold was taken under, not  *)
(* by what the policy makes of that rule meanwhile ("guard_time_snapshot").*)
PricedByOwnRule(r) ==
  r.reported # NoUsage => \E units \in UnitsUsed : r.reported = Cost(r.rule, units)

ChargeMatchesStatus ==
  \A i \in Ids(db) : PricedOnce(db.resv[i]) /\ PricedByOwnRule(db.resv[i])

(* Binding never hands a hold to another call's event. *)
HoldsBoundToOwnEvent ==
  \A i \in Ids(db) : db.resv[i].event \in {NoGuard, db.resv[i].guard}

(* A call whose allow decision is on record, that no soft cap warned about *)
(* and that was not refused since, holds every rule of its policy          *)
(* snapshot: no release or clean-up takes those holds away.                *)
AllowedCallIsHeld ==
  \A g \in Guards :
    /\ event[g].kind \in {"unbudgeted", "evaluated"} /\ ~ call[g].warned
    /\ call[g].step # "refused"
    =>
      \A n \in 1..Len(call[g].rules) : \E i \in DOMAIN event[g].plan :
         /\ i \in Ids(db) /\ db.resv[i].guard = g
         /\ db.resv[i].rule = call[g].rules[n]
         /\ db.resv[i].status # "cancelled_verified"

(* "Exceeded + hard_cap: pre-check raises PolicyViolation": a call that the *)
(* policy let run under a hard cap it does not hold still fits under it.   *)
HardCapsEnforced ==
  \A g \in Guards : call[g].step = "executing" /\ call[g].decision = "allow" =>
    \A n \in 1..Len(call[g].rules) :
      LET r == call[g].rules[n]
          k == CounterKey(r, PrincipalOf[g])
      IN  \/ ~ r.hard
          \/ \E i \in Ids(db) : db.resv[i].guard = g /\ db.resv[i].rule = r
          \/ Fits(OpenForCheck(db, k, now), k, r.limit, Cost(r, call[g].units))

(* release_verified frees a hold "only for a server decision that          *)
(* prevented execution": its call was refused, or it was strengthened and  *)
(* goes on by an approval token alone, with no hold left in its list and   *)
(* no evidence by which a report could settle one.                         *)
ReleasedOnlyIfRefused ==
  \A i \in Ids(db) : db.resv[i].status = "cancelled_verified" =>
     LET g == db.resv[i].guard IN
     \/ call[g].step = "refused"
     \/ /\ call[g].decision = "approved" /\ call[g].held = {}
        /\ event[g].kind \in {"none", "absent"} /\ DOMAIN PlanOf(g) = {}

(* An accounting integrity finding is raised only when a named reservation *)
(* was deleted by the retention clean-up.                                  *)
FindingMeansPurged ==
  \A g \in db.findings : DOMAIN event[g].plan \cap db.purged # {}

(* A settled or released row never changes its outcome again, and no row   *)
(* ever moves to another counter or window.                                *)
Outcome(r, s) ==
  /\ s.key = r.key /\ s.window = r.window /\ s.amount = r.amount
  /\ r.status \in {"reconciled", "cancelled_verified"} =>
       s.status = r.status /\ s.charged = r.charged /\ s.reported = r.reported

Finality(d, e) == \A i \in Ids(d) : i \in Ids(e) /\ Outcome(d.resv[i], e.resv[i])

SettledIsFinal == [][Finality(db, db')]_vars

(***************************************************************************)
(* The promise of SpendLedger, kept: a ledger row is a hold on the account *)
(* made of its counter and window, and the counters admit exactly what the *)
(* abstract account would.                                                 *)
(***************************************************************************)
StateOf(status) ==
  CASE status = "reserved"        -> "open"
    [] status = "expired_charged" -> "estimated"
    [] status = "reconciled"      -> "final"
    [] OTHER                      -> "void"

HoldView(r) ==
  [account |-> [key |-> r.key, window |-> r.window], amount |-> r.amount,
   limit |-> r.rule.limit, bill |-> r.charged, state |-> StateOf(r.status)]

Promise == INSTANCE SpendLedger WITH holds <- [i \in Ids(db) |-> HoldView(db.resv[i])]

(* Every transaction of the store is a step the abstract ledger allows:    *)
(* admission by the live counters never exceeds what the ledger rows of    *)
(* that window already commit, and no row is priced twice.                 *)
KeepsPromise == Promise!Spec
=============================================================================
