# Varden in TLA+

Varden is a control plane for AI agents: an agent asks `POST /sdk/guard` before
it acts, the server decides, records the decision in an audit log, and the agent
reports what happened with `POST /sdk/log`. This directory holds formal models of
the parts of the server where the order of events decides whether it keeps its
word: token budgets, scoped approvals with the audit chain they are written to,
the job queue and the alert thread, the supervisor of protected executions,
the path of a threat-intelligence item into the policy, and the continuity of
predictive-authority sessions. It contains the models,
the instances TLC checks, and proofs checked by TLAPS.

## 1. The system

| component | state it keeps | operations | what must hold |
|---|---|---|---|
| token-budget ledger (`varden/token_budget.py`, `varden/rules/`) | `token_budgets` (one live counter per rule and owner), `token_budget_reservations` (the ledger), `token_budget_window_charges` (closed windows), `token_budget_accounting_findings` | pre-check and hold, release, bind, reconcile, expire, roll windows, clean up | no overcommitment, no charge lost or doubled, one price per call |
| guard and log handlers (`varden/app_factory.py`) | none of their own; request threads between transactions | `sdk_guard`, `sdk_log`, `list_token_budgets` | a call that runs is held and audited; a refused call pays nothing |
| scoped approvals (`varden/runtime/approvals.py`, `routes.py`) | `runtime_approvals`, `runtime_approval_consumptions` | create, approve, deny, expire, verify and consume | a token is used once, for its own action, while its approval stands |
| audit log (`varden/stores.py`, `audit_integrity.py`) | `events` with a hash chain | log, verify | one chain under concurrent writers; what runs is in it |
| job queue (`varden/queue.py`, `worker_*.py`) | `jobs` | enqueue, reserve, complete, fail | every job ends, an outcome was earned, attempts are bounded |
| alert thread (`varden/alerts.py`) | `last_seen` in memory, the `alerts` table | poll, deliver, store | each alert an event calls for arrives, once per run |
| monitoring integrity (`varden/monitoring_integrity/supervisor.py`) | `attestation.json`, the process table | launch, verify, claim, renew, terminate | VERIFIED is earned and is not said of a process that ended |
| threat intelligence (`varden/threat_intelligence/`) | `ti_items`, the cursor, `policy.json`, the engine | poll, assess, approve, dismiss, show, replay, status, prune | what is enforced is what the operator was shown |
| predictive authority (`varden/predictive_authority/`) | a bounded registry of sessions and tombstones per process; shared rows, flag and worker leases | resolve, evict, apply facts, record authority, answer, attach | lost state is not taken for a clean slate |
| idempotency keys, rate limiter (`varden/idempotency.py`, `ratelimit.py`) | `idempotency_keys`; buckets in memory | get and put; allow | a repeat answers the same; a bucket is not overdrawn |
| policy engine (`varden/policy.py`, packs, classifiers) | the policy versions and the published one | evaluate, validate, publish | one snapshot per decision |
| authentication, identity and redaction, runtime boundary, MCP gateway, provenance, Web Shield | their own stores | lookup, normalise, intercept, enrich, sanitise | see `PROJECT.json` |
| SDKs, dashboard, extension | client side | call the API | - |

Interaction on the request path: `sdk_guard` takes one policy snapshot, evaluates
it, and for an allowed `llm_call` runs `TokenBudgetStore.pre_check`, which takes
one hold per budget rule, each in a SQLite transaction of its own. A
require_approval decision may instead be turned into an allow by an approval
token, consumed in a transaction of its own. Before that the decision may be
strengthened to a block, or to a require_approval that such a token then lifts; in
both cases the holds are released. The decision is written to the hash-chained
audit log together with the evidence of the holds, and the holds are bound to the
event in one more transaction; a refusal that asks for approval creates a pending
row that names the event. `sdk_log` finds the event, takes the list of holds from
its evidence and settles all of them in one transaction. FastAPI runs these
handlers in a thread pool, so anything may happen between two transactions,
including a stop of the process. The alert thread reads the same event log by
polling; the job workers share the database file and nothing else. An approved
threat-intelligence item reaches the request path through `policy.json` and the
policy engine. Predictive authority is consulted inside `sdk_guard` and may turn
an allow into a block or a require_approval; it keeps sessions in the memory of
each server process and marks of them in tables all processes share. The
supervisor is a command-line process whose calls meet only in `attestation.json`.

What is hard is listed hazard by hazard, each at its line, under `hazards` in
`PROJECT.json`: concurrent calls on one cap, windows that roll over with live or
late charges, reports that are late, repeated or missing, a stop between any two
transactions, a COMMIT that fails after its effects were noted in memory, a
policy edited between guard and report; two operators resolving one approval; two
writers of one chain; workers that read in one transaction and write in the
next; a thread that dies; a pid that is reused; a document loaded before an
approval and saved after it; a session evicted while an evaluation still fills it.

## 2. Modules

| module | what it is |
|---|---|
| `Sums` | the sum of the first `n` values of a function, as a recursive function so that it can be reasoned about |
| `BudgetLedger` | the four budget tables as one record `d`, and one operator per transaction or statement group: `OpenForCheck`, `Fits`, `AddHold`, `ReleaseVerified`, `BindRows`, `ReconcileGuard`, `ListActiveBudgets`, `CleanupResolved`, over `ExpireDue`, `Settle`, `ResetRowsIfDue`, `EnsureBudgetRows` |
| `BudgetGuard` | the state machine over it: clock, published policy, tables, one record per guard thread, one audit event per guard call; one action per transaction |
| `SpendLedger` | the abstract promise of the budgets: holds on accounts, opened only within the limit, priced at most once at the estimate and at most once finally, or voided |
| `ApprovalStore`, `AuditLog` | the approval tables and their transactions' conditions; the chained `events` table and its verification |
| `ApprovalGuard` | composes both: guard requests under require_approval, the operators' requests, the write lock that `EventStore.log` keeps across steps, crashes |
| `SingleUseGrant` | the abstract promise of an approval token: issued, spent at most once while live, or lapsed, never live again |
| `JobQueue`, `AlertWorker` | the workers on the `jobs` table; the alert thread on the event log |
| `Background` | both side by side, each with its own fairness |
| `Supervisor` | one protected execution: launch, then concurrent verify, renew and terminate, in an environment of exits, reused pids, changing bytes and clock jumps |
| `ThreatIntel` | one feed item: upstream record, cursor, stored document, policy file, engine, callers of the server and of the command line |
| `Continuity` | the registries of several server processes, the continuity tables they share, worker leases, and evaluations in progress |
| `MCBudgetGuard`, `MCApprovalGuard`, `MCBackground`, `MCSupervisor`, `MCThreatIntel`, `MCContinuity` | the constants of the TLC runs |
| `BudgetProofs`, `BudgetCapProofs`, `BudgetThreadProofs`, `ApprovalProofs`, `BackgroundProofs`, `SupervisorProofs`, `ThreatIntelProofs`, `ContinuityProofs` | the lemmas and theorems of section 4 |

Definitions that a comment calls a mutant (`FitsCharged`, `PollTwoNew`, ...) are
wrong versions of the definition next to them, which no specification uses: with
one of them in the place of the right one TLC refutes the property `PROJECT.json`
lists it for, so each property is known to depend on the code it is about.

### 2.1 Budgets

`BudgetGuard` extends `BudgetLedger` and instantiates `SpendLedger` with the
refinement mapping `holds <- [i |-> HoldView(db.resv[i])]`: an account is a
counter in one window, a hold is a ledger row, its limit is the limit of the
rule it was checked against.

* `db.resv[i]` is the row with AUTOINCREMENT id `i`. Rows that `cleanup_resolved`
  deletes go to `db.purged` and stay in the sequence as history; every statement
  that selects by id or event goes through `Present`, which leaves them out.
* `db.counter[k]` is `NoRow` until `_ensure_budget_row` creates it. A key has an
  `owner`: the caller for a session rule, the tenant for a daily or monthly one.
* `call[g].held` is `action.budget_reservation_ids`, `plan` the evidence entries
  with disposition `reserved`, `appended` the id a failed COMMIT left in the list.
* `event[g]` is the `budget_evidence` in the stored event: `evaluated`,
  `unbudgeted`, `absent` (approved calls have none), or `none` without an event.

| action | code |
|---|---|
| `StartGuard` | `evaluate_action` up to the pre-check; decision `approved` stands for a require_approval decision turned into an allow by a consumed token |
| `HoldRule`, `ExceedHardCap`, `ExceedSoftCap` | one iteration of `pre_check`: `_check_rule` with its three outcomes |
| `HoldRuleCommitFails` | the COMMIT raising `OperationalError`, three attempts |
| `ReleaseDenied` | `release_verified` after `PolicyViolation` or after a failed audit write |
| `StrengthenDecision` | after the holds, predictive authority or action identity blocks, or asks for an approval and no valid token came along |
| `ApproveStrengthened` | predictive authority asks for an approval after the holds, which are released, and a valid token turns the decision back into an allow: the call goes on like any approved one |
| `PersistEvent`, `PersistFails` | `persist_event`, which may raise before or after its row is stored |
| `BindGuardEvent` | `bind_guard_event`; a breach of the unique index is an exception |
| `Abort` | the process stops between two transactions |
| `ReportUsage` | `sdk_log` and `_reconcile_guard`: with usage, without, or claiming nothing ran |
| `ListBudgets`, `Cleanup` | `list_active_budgets`, `cleanup_resolved` (called by an operator) |
| `PublishPolicy`, `Tick` | a policy version is published; time passes |

Abstractions:

* Money is an integer, a call's size one number of units, a price one number per
  rule. Float rounding is not modelled: with floats the equalities below hold up
  to rounding.
* One tenant. The HTTP layer takes tenant and principal from the credential, so
  the branch for a missing scope is not reachable from it and is left out.
* Disabled rules are filtered out when a policy is loaded; a rule in the model is
  enabled.
* Time does not run backwards. Days and months have a fixed number of ticks.
* `_settle_guard_plan` handles row after row; `SettlePlan` opens all counters it
  needs and then settles all rows. Inside one transaction this is the same,
  because opening a counter twice at one instant changes nothing the second time.
* The usage history table `token_events`, the stored limit of a counter and the
  JSON of the evidence other than ids and rule snapshots do not feed back into
  any decision and are left out. A malformed usage report is priced and guarded
  like one without usage.
* Retries of a transaction that failed before it changed memory are not separate
  steps; that they fail for good is `Abort`.

### 2.2 Approvals and the audit log

* `rows`, `used`, `events` are the tables, in insertion order. A token is the
  approve request that signed it (`claims[o]` are its claims): the signature
  cannot be forged, so callers present only tokens an operator was given.
* `call[c]` is a request thread of `sdk_guard`, `op[o]` one of the approve or deny
  routes, `writer` the thread inside `BEGIN IMMEDIATE` of `EventStore.log`.

| action | code |
|---|---|
| `Evaluate` | `evaluate_action`, and the checks of `verify_and_consume` before its transaction (signature, deadline, scope) |
| `Consume`, `RejectToken` | the transaction of `verify_and_consume` |
| `LogBegin`, `LogCommit`, `LogFails` | `EventStore.log`: head read under the write lock; insert and COMMIT, after which `persist_event` may still raise; any exception before |
| `CreatePending`, `CreateFails` | `create_pending` after the refusal was recorded |
| `ReadRow`, `CheckDeadline` | `get`, in a connection of its own, and the two checks of `approve` and `deny` on what was read |
| `MarkExpired`, `Deny`, `Approve` | their updates, by id alone |
| `Crash`, `Tick` | requests in flight are lost and an open transaction rolled back; time passes |

A SHA-256 hash is the sequence of the bodies it stands for, so it is free of
collisions by construction; a body keeps the security fields that tell requests
apart, the kind of its payload and the hash version. A request is an action and a
payload that is `plain`, `json_text` (a string that is itself JSON text, such as
`"42"`) or `json_value` (what such a text stands for). `EventStore.log` hashes the
payload as it was given, `verify_event_chain` what `json.loads` makes of it
(`ReRead`), so the two differ for `json_text`. One string field stands for the
input and the output payload; action and decision are never strings in the
server's own calls. Rows written before chaining existed are a prefix without
hashes and without a version. One tenant, as above.

### 2.3 Jobs and alerts

| action | code |
|---|---|
| `Enqueue` | `JobQueue.enqueue` |
| `SelectJob`, `ClaimJob` | the SELECT and the UPDATE of `reserve`: under Python's sqlite3 the transaction begins with the UPDATE, so two workers may have selected one row |
| `RunSucceeds`, `RunRaises` | the handler |
| `Complete`, `CompleteRaises` | `complete`, inside the try block of the worker |
| `ReadAttempts`, `Requeue`, `Bury` | the SELECT of `fail` and its two UPDATEs, by id |
| `Die` | the process stops, or `reserve` or `fail` raises outside the try block; any worker, idle or not, and all of them, since nothing starts a thread again |
| `LogEvent` | an event is written by a request |
| `Poll`, `PassOver`, `Deliver`, `StoreAlert` | the loop of `alerts.py`: list the newest `Window` events; of each, one alert after the other, those not due skipped, the others sent to the sinks and inserted into `alerts`; then move `last_seen` |
| `AlerterDies`, `RestartServer` | an exception ends the thread; a new server starts with `last_seen` 0 |

`leased_until` is left out: it is NULL in every queued row and only queued rows are
offered, so a lease that ran out changes nothing in this code. An event calls for
any of two alerts: it was blocked or warned (it cannot be both), and it was routed
to the local model. `succeeded` and `starts` are history the code does not keep.

### 2.4 Supervisor

A process is the ordinal of its start under the pid on record: `Own` is the
supervised command, larger numbers are later processes that were given its pid.

| action | code |
|---|---|
| `LaunchRefused`, `Observe`, `Prepare`, `ProbeFails`, `ProbesDenied`, `LayoutFails`, `Spawn`, `Identify`, `WaitReturns`, `WriteRunning`, `LauncherDies` | `launch`, step by step as it reads the file, the process table and writes the record |
| `Load`, `Verify` | `verify_attestation` (and `claim`, which is a verification with a verdict) |
| `Renew...` | `renew`: identity, digest, reload, write back |
| `Terminate`, `Signal`, `Confirm`, `ResealTerminated` | `terminate` and the expiry paths that stop the group, signal it by pid and wait for it to be gone |
| `CallerDies` | the calling process stops between two steps |
| `ProcessExits`, `PidReused`, `BytesChange`, `ClockMoves` | the operating system and the wall clock, which may move either way |

`os.replace` makes a write of the record atomic; nothing compares what it
overwrites. A start time identifies a process: it has a resolution of one second,
and two processes of one pid within a second are not modelled. Nor is a `ps` that
fails: `process_identity` answers the same for it as for a process that is gone
(`supervisor.py:114-116`), so `ConfirmedIsGone` and `VerifiedStops` assume that `ps`
runs. `ended` is history: some call has answered that the process ended.

### 2.5 Threat intelligence

| action | code |
|---|---|
| `PollFetch`, `PollLoad`, `PollSave` | a poll: fetch and save the cursor, then ingest the record |
| `PruneSelect`, `PruneDelete` | retention after the poll, outside the lock |
| `DecideLoad`, `DecideSave` | dismiss, defer and the other decisions |
| `ApproveLoad`, `Clear`, `Merge`, `WriteFile`, `UpdateEngine`, `SaveApproved` | `approve`: the item is loaded and, if a withdrawn or changed record is pending, cleared; the rule is merged into the policy, written to `policy.json`, the engine updated, the item saved. `Merge` leaves the file alone when a rule of that id stands anywhere in it, and goes on to the engine |
| `PutPolicy` | another route replaces the policy |
| `Show`, `StatusSweep`, `Replay`, `SaveView` | the readers that refresh the assessment and save the document |
| `CallFails`, `ServerRestarts`, `UpstreamChanges` | an exception between two steps; a restart loads the engine from the file; the source replaces or withdraws its record |

A content of the record stands for its hash. Every template of the repository is
held for approval, so the lifecycle `OBSERVE` is not reachable and is left out.
The lock is one per process: the server's callers share one, every command-line
call has its own.

A policy is two sets, for the two questions the code asks of it. `rule_present`
looks for the template's id in any bucket, enabled or not (`named`);
`policy_proves` looks for an enabled rule of `block` or `require_approval` that
covers the contract, whatever its id (`proven`). Neither implies the other.
`FirstPolicies` and `Replacements` are what the server may start with and what other
routes may write, and `Dormant` the rules one of them names without enforcing them.
`upheld` is history: the rules that stood in `policy.json` while it enforced their
contracts.

### 2.6 Continuity of predictive authority

An evaluation of a session judges an action by the authority the session has
accumulated. If part of that history may be missing, the analysis must be marked
TRUNCATED, so that no fresh allow is concluded from it. `proc[w]` is the memory of
one server process: its sessions, least recently used first, its tombstones, and
the flag that degrades every later answer. `rows`, `marked` and the leases are the
tables all processes share.

| action | code |
|---|---|
| `Begin` | `active_worker_count` (`touch_lease_and_count`, one transaction) and the session key |
| `Reuse` | `get_or_create` for a live session |
| `Recreate` | `get_or_create` for any other: `_make_room` with its tombstones, the lookup of `consume_recreate_signal`, and the new session when there is no signal |
| `Consume` | the UPDATE of `consume_recreate_signal`, in a transaction of its own, and the session created broken |
| `Apply` | `apply_facts_to_state`, outside the registry lock |
| `Note` | `note_accumulated_authority`, `record_authority` |
| `Answer` | `continuity_degraded`, `continuity_status`, and the answer |
| `EvalFails` | an exception, answered by the failure mode |
| `Restart` | a process stops and another starts: `attach_continuity_store` |
| `LeaseExpires`, `FormerExpires` | 45 seconds without an evaluation |

* Mode enforce, one worker declared, a store attached. A process that could not
  bind its store is degraded from the start and answers nothing else.
* Each evaluation adds authority. One that adds none is left out; it renews its
  lease and moves its session in the order of use, and one for a key without a
  session may also evict another and consume a signal, as an evaluation of the
  model does that fails between `Recreate` or `Consume` and `Apply`.
* `TombstoneCap` is a parameter: the code has `2 * max_sessions`, and at that size
  forgetting a tombstone would take more keys than the instance has.
* The reset of a session has no caller and is left out.
* `whole`, `blind`, `orphan`, `lapsed` and `past` are history: what the session
  misses, what was evicted under an evaluation, whose lease ran out, which
  authority left no mark.

## 3. What TLC checks

Deadlock is checked in `supervisor` and `threat_intel`. In the other runs the system
may stop: all requests answered, the clock at its last reading, the bound of every
counter reached.

| run | instance | shows |
|---|---|---|
| `windows` | 2 calls of one caller, one daily hard cap of 3, sizes 1 and 2, clock at 1, 4, 6 with days of 5 and deadlines after 3 | counters and archives equal the ledger, live holds are counted, the cap holds, rows are bound to their own event, settled rows are final, `SpendLedger` is implemented |
| `rules` | 2 callers, a session and a daily hard cap, or a daily cap and a dearer copy with the same id, published in turn; calls allowed, approved, or strengthened to either end | evidence, holds, prices, releases and findings agree although a call takes its holds one at a time |
| `faults` | failing COMMITs, soft cap, approved calls, a rule repriced, softened or removed while calls are in flight | the promise survives: every step is still one of `SpendLedger` |
| `midnight` | clock readings 4 (midnight), 5, 9 | **violation**, see below |
| `stale_hold_id` | failing COMMITs | **violation** |
| `soft_cap_first` | a soft cap listed before a hard one | **violation** |
| `approvals` | 2 guard calls, 2 operators, 3 requests (one hash; trace `t`, none with a JSON-text payload, `u`), one approval pending at the start, one unchained row, deadline after 1, clock to 2, symmetric calls and operators | tokens are single-use grants, what runs is granted and audited, an untouched chain fails verification at JSON-text payloads only |
| `approval_final` | one action | **violation** |
| `background` | 2 workers, both mortal, 2 jobs with 2 attempts; beside them 4 events of up to 2 alerts, window 2, 2 starts | jobs settle while a worker lives, attempts are bounded, outcomes earned; alerts are sent once per run, none is overlooked unless outrun, each is sent if the thread lives |
| `supervisor` | one launch, 2 concurrent calls, freshness 1, clock 0 to 2, 2 processes under the pid | attestations are earned, confirmed terminations true, VERIFIED is never said after the end |
| `threat_intel` | 2 concurrent calls of either place, 3 contents (the third withdraws the first), 2 templates, postures enforced and absent; the policy starts without the templates, and another route may replace it by one that names the first template and enforces nothing | what is published is what was shown, what reads ENFORCED was enforced by `policy.json` or is a rule another route left dormant, only stale copies reopen |
| `continuity` | 3 session keys, 2 processes, 2 evaluations at a time and 3 in all, room for one session and one tombstone, 2 faults, symmetric | a lost session comes back clean only through the gaps named below, concurrent processes see each other, forgotten authority degrades the process |

### Properties

Budgets:

* `ChargesConserved` relates three tables: for every counter and window, open or
  closed, what was booked equals what the ledger rows of that window were charged.
* `HoldsCounted`: the live `reserved_usd` equals the unsettled holds of the open
  window. It is recomputed from the ledger, independently of the code's deltas.
* `CapRespected`: each hold, when taken, fitted under its limit together with
  everything taken before it on the same window.
* `KeepsPromise`: the refinement; in particular admission by the counters never
  admits what the ledger of the window would not.
* `SettledIsFinal`: one outcome. `ChargeMatchesStatus`: one price, and of a report the
  price of the rule its own hold was taken under, not of the rule the policy has
  under that id by now.
* `ReleasedOnlyIfRefused`: a released hold belongs to a call that was refused, or to
  one that was strengthened and then ran on an approval token; of the latter
  neither the list, nor the evidence, nor a binding still names a hold, so that no
  report can settle one.
* `AllowedCallIsHeld`, `HoldsBoundToOwnEvent`, `FindingMeansPurged`: calls, events,
  holds and findings belong together.

Approvals and audit: `ConsumedOnce` (no token and no call twice, and each token
for its own approval and action), `LiveTokenUnspent` (however often a row is
resolved), `RunNeedsGrant`, `RunIsAudited`, `ApprovalNamesRefusal`, and the
refinement `ImplementsGrants`. `OnlyTextMismatches` says what `verify_event_chain`
reports of a log nobody tampered with: no gap, no broken link, no unknown version,
and `event_hash_mismatch` at exactly the events whose payload is JSON text.

Jobs and alerts: `AttemptsBounded` says how far two transactions per `reserve`
let a job run over `max_attempts`: with `n` workers at most `n(n+1)/2 - 1` times,
reached by workers that hold old selections and old readings of the counter.
`OutcomeEarned`, `EveryJobSettles`, `AlertedOncePerRun`, `NoneOverlooked`,
`EveryAlertArrives`.

Supervisor: `AttestationEarned`, `ConfirmedIsGone`, `VerifiedStops`. Threat
intelligence: `PublishedAsShown`, `EnforcedWasUpheld`, `OnlyStaleReopens`; the
last one says which race the code does allow and that it is the only one.
`EnforcedWasUpheld` says that the rule of an item that reads ENFORCED did enforce its
contract once, and excepts the rules other routes leave dormant: of those an approval
writes nothing.

Continuity: `CleanOnlyThroughGaps` compares what an evaluation was given with all
authority its session key was ever granted, over evictions, restarts, lost writes
and both processes. `WorkersSeeEachOther` is what lets an evaluation rely on the
memory of its own process at all. `ForgottenMeansDegraded` relates the tombstones
to the sessions that were discarded.

### Bounds

Two calls, workers or operators are what every race here needs: each property
relates one actor's steps to another's or to the tables, and a third actor can
only repeat what the second does. Where that is not obvious the theorems of
section 4 hold for any number. With the budget clock at 1, 4 and 6 a hold taken at
1 is overdue at 4, on the same day; one taken at 4 is live when the window rolls
over at 6; and a charge made on the first day can be corrected by a report on the
second, in the archive. A cap of 3 with sizes 1 and 2 admits one call or both,
depending on order and on reports. A hold that first crosses the rollover and then
expires would need a fourth reading; the theorems cover it. The budget
`MaxAttempts` (commits) is the code's own 3. In `approvals` the three actions are
those the trace comparison tells apart, and the deadline passes within the run. In
`background` two jobs let a worker die with one while the other waits, and four
events outrun a window of two while the thread is between the alerts of one. The
workers and the alert thread share no variable and each property is about one of
them, so `FocusedSpec` of `MCBackground` explores them side by side instead of their
product; the theorems are about the modules themselves. In `supervisor` two processes under one pid are the
command and its successor. In `threat_intel` the contents are one that is
replaced, its replacement and its withdrawal, and the policies that arise name and
prove a template, do neither, or name it only. In `continuity` room for one session
makes each new key evict another, a second eviction pushes out the only tombstone,
and a third key is needed to do so while the first one returns; three evaluations
are a session that gains authority, one that evicts it and one that asks for it
again, and two of them may overlap. The two faults are one that loses a mark and
one that hides it. No run has a state constraint.

### What the violations say

* **Midnight** (`HoldsCounted`). `_next_reset_at` only moves to the next day when
  the time is past midnight. A row opened at midnight exactly is due at once; the
  next transaction of the same day resets the window onto itself and sets
  `reserved_usd` to zero while its holds are live, so the cap can be overcommitted
  by them. `docs/security-hardening-pass-2.md:32` says an unreported hold "still
  counts toward the cap". The other runs keep the clock off midnight for this
  reason; the proofs do not.
* **Stale hold id** (`ReleasedOnlyIfRefused`). The id of a hold is appended to the
  call's list before COMMIT. If COMMIT raises, the id is given to the next insert,
  which may be another call's, and a later denial of the first call releases it.
* **Soft cap first** (`HardCapsEnforced`). A warning returns from `pre_check`, so
  hard caps listed later are neither compared nor held;
  `docs/token-budget-plan.md:283` promises a 403 when a hard cap is exceeded.
* **Resolution** (`ResolutionIsFinal`). `approve` and `deny` read the status in one
  connection and write it in another, by id alone; both raise "approval already
  resolved" for a row that is not pending (`runtime/approvals.py:140`), yet two
  requests that both read "pending" both succeed, and a denied or consumed
  approval becomes approved, with a fresh token. The old token stays spent
  (`LiveTokenUnspent`, `ImplementsGrants`).

More that the models say of the code, without a run of their own:

* A call allowed by an approval token takes no hold, because the approval path
  skips the pre-check; `docs/security-hardening-pass-2.md:73` says each allowed
  `llm_call` writes a row. The properties about held calls except such calls.
* Nor does a call keep its holds that predictive authority strengthens to
  require_approval (`app_factory.py:825-827`) and an approval token turns back into
  an allow (`1190-1217`): it runs with its holds released, although
  `token_budget.py:576` says "Release holds only for a server decision that prevented
  execution." `ReleasedOnlyIfRefused` names this case.
* A log nobody touched fails `verify_event_chain` when a payload was a string that is
  JSON text: it was hashed as a string (`stores.py:105-122`) and is parsed before
  verification hashes it (`audit_integrity.py:275-284`). The links hold all the same,
  so no other event is affected.
* An approval ends in ENFORCED with nothing written when `policy.json` has a rule of
  the template's id, be it disabled or in a bucket that enforces nothing
  (`approval.py:28-33`, `46-48`, `75-85`). `policy_proves` does not count such a rule,
  so the item reads ENFORCED and EXPOSED at once.
* `CleanOnlyThroughGaps` is false without its exception. A session may be evicted
  in the time between its creation and its first authority, while its evaluation
  goes on with the evicted object: it was empty, so no tombstone is left, and
  `record_authority` leaves a row that names the same process, which is no signal
  to it. The next evaluation of the key starts clean and is COMPLETE. The same
  happens to a session created from a consumed signal and evicted before it has
  authority again, to a key two processes hold after a lease ran out, and to one
  whose authority could not be recorded, once the process that knows it is gone.
  `docs/releases/V1.0.2-RELEASE-NOTES.md:47` says eviction does "not return a fresh
  allow for a session that had accumulated authority". The run shows that there is
  no further way.
* Under the failure mode `preserve_existing`, a TRUNCATED answer overrides an
  allow only for the reasons `_integrity_reasons` of `engine.py` lists; those of a
  lease, an attachment or a binding that failed are not among them. The property
  is therefore about the analysis status and not about the decision.

### Fairness

Fairness is assumed where the code loops: each job worker (`WF` of its step; it
polls and its handlers return) and the alert thread (`WF` of its step). Deaths,
restarts, enqueues and logged events are not fair. Under this `EveryJobSettles`
holds unless a worker died holding the job, which the code never offers again, or
no worker thread lives any more: each of them ends when its own `reserve` raises,
nothing starts it again, and the default is one. `EveryAlertArrives` holds unless the
event was outrun by the window or the thread is dead.

No liveness is claimed of the rest: the server has no thread that settles holds
or expires approvals, no client is obliged to report, and nobody is obliged to
renew an attestation, so no fairness would be justified there. Those
specifications are `Init /\ [][Next]_vars`.

## 4. What is proved

Every module but the MC modules has a proof module, and the theorems hold for
every value of the constants under the named assumptions of the modules, which TLC
evaluates on every run.

| module | theorems | from |
|---|---|---|
| `BudgetProofs` | `InvariantHolds`, `TypeCorrect`, `BooksBalance`, `RowsPricedOnce`, `OutcomesAreFinal` | nothing more: midnight readings, failing commits, approved calls and repeated rule ids included |
| `BudgetCapProofs` | `HoldsAlwaysCounted`, `CapsHold`, `PromiseKept` | `OffMidnight`: no clock reading is a midnight |
| `BudgetThreadProofs` | `ThreadInvariantHolds`, `BoundToOwnEvent`, `ReleasedMeansRefused`, `ChargesMatchStatus`, `AllowedCallsAreHeld`, `FindingsMeanPurged` | `~ CommitsMayFail` |
| `BudgetThreadProofs` | `HardFirstEnforced` | `HardFirst`: every policy lists its hard rules before its soft ones (commits may fail) |
| `ApprovalProofs` | `InvariantHolds`, `TokensConsumedOnce`, `LiveTokensUnspent`, `RunsAreGranted`, `RunsAreAudited`, `UntouchedLogReport`, `ApprovalsNameRefusals`, `GrantsImplemented`, `TypeCorrect`, `HeadBindsHistory`, `SameHeadSameHistory`, `HistoryOnlyGrows` | nothing more |
| `ApprovalProofs` | `UndisputedIsFinal` | `[]Undisputed`: no two requests in flight resolve the same approval |
| `BackgroundProofs` | `QueueInvariantHolds`, `QueueTypeCorrect`, `OutcomesEarned`, `OverrunBounded`, `AlertInvariantHolds`, `AlertTypeCorrect`, `AlertedOnce`, `OnlyOutrunOverlooked` | nothing more |
| `SupervisorProofs` | `InvariantHolds`, `TypeCorrect`, `Earned`, `ConfirmedOnlyIfGone`, `NeverVerifiedAgain` | nothing more |
| `ThreatIntelProofs` | `InvariantHolds`, `TypeCorrect`, `Published`, `Enforced`, `OnlyStaleCopiesReopen` | nothing more |
| `ContinuityProofs` | `LeaseInvariantHolds`, `SeenByEachOther`, `RegistryInvariantHolds`, `RegistryTypeCorrect`, `CleanOnlyKnown`, `ForgottenDegrades` | nothing more |

The four conditions are what the violations need. With a midnight reading
`HoldsCounted` is false (run `midnight`), with failing commits
`ReleasedOnlyIfRefused` is (run `stale_hold_id`), with a soft rule before a hard
one `HardCapsEnforced` is (run `soft_cap_first`), and with two requests on one
approval `ResolutionIsFinal` is (run `approval_final`). Each violation run comes
with the theorem that the property holds where its condition does, so the four
findings are complete: nothing else breaks those properties.

**Budgets.** The first invariant is `Inv == TypeOK /\ Sound(db)`, where `Sound`
says that the tables have their shape, balance, and price every row according to
its status. The three parts need each other: `ChargesConserved` alone is not
inductive, because the delta a late report applies is computed from the row's
charge, and the row must be in its window's sum for the sum to move with it; a
row's price is inductive only if a release touches rows that were charged
nothing. The proof goes transaction by transaction: each operator of
`BudgetLedger` gets one lemma saying that it keeps `Sound` and changes no final
row. They rest on `SettleBalances`, where the sum over the rows of a window splits
into the part that lands on the open counter and the part that lands in the
archive, by facts on sums (each by induction on a set of
counterexamples). `BudgetCapProofs` adds that every open counter is counted, that
windows only advance, and that what an admission compared is what the ledger of
the window holds; the calendar lemmas show that off midnight a reset always opens
a later window. From the same steps follows the refinement: each transaction is a
sequence of prices and voids of the abstract ledger, or opens one hold within its
limit. `BudgetThreadProofs` follows single rows instead of sums: `Traced` says
what a transaction may do to a row as its own call sees it, one lemma per
transaction establishes it, and `ThreadInv` ties rows, call records, stored
evidence and findings together. `HardFirstEnforced` has an invariant of its own,
`HeldInv`: a call in the check holds the rules it has passed, and a call past it
every hard rule of its snapshot. The step that needs the order of the rules is
the warning of a soft cap, which ends the check; no step takes rows away (`Kept`).

**Approvals.** `IInv == Shape /\ GrantInv /\ LogInv`. `GrantInv` says that a row
that is approved names a signed, unspent token, and that a call about to consume
holds claims that match the row; `LogInv` that the head a writer holds is still
the head of the chain, which is inductive only together with the lock. The
refinement maps each step of the store to issuing, spending or lapsing a grant.
`TypeCorrect` adds the ids: each one a row, token or request holds points into a
table that only grows, so a bound by the length of the table, taken together with
`IInv`, is inductive.

Two groups of theorems go beyond what the runs check. The head of the audit
chain stands for the whole sequence of bodies hashed into it (hashing is taken to
be injective), and `HeadBindsHistory` shows by going up the
rows one link at a time that a log `verify_event_chain` accepts has exactly those bodies, in that
order, after its rows from before the chain, up to what `json.loads` makes of their
payloads (verification compares hashes of those). So a head kept elsewhere pins the
history (`SameHeadSameHistory`), and no step shortens or rewrites it
(`HistoryOnlyGrows`). What verification alone does not exclude, as
`audit_integrity.py` says of itself, is that the tail or the legacy prefix was cut:
neither is claimed. `UndisputedIsFinal` follows from `StillPending`, that what a
request read of its approval still holds when it writes; only a second request
on the same approval can take that away.

**Jobs and alerts.** `OverrunBounded` is a potential argument: the claims still
possible for a job are bounded by a function of its counter and of how many
workers are about to requeue, to claim, or hold it; each step lowers it or leaves
it. The alert invariant says which events below `last_seen` have been accounted
for, by an alert of this run or by having left the window.

**Supervisor.** `IInv` adds to the types what a launch has done at each step, that
the record names the command of this launch, what each caller has established
about its copy, and that after any answer of the end the command is not running.

**Threat intelligence.** `IInv` says of the stored document, and of every copy a
caller holds, that if it reads ENFORCED its rule is in `upheld` or `Dormant`, likewise
of every rule the file names, and that an approval's copy carries the candidate of the content it was shown.

**Leases.** `LeaseInv` says that an evaluation in progress whose lease did not run
out has its process among the leased ones, and that of two such evaluations in
different processes the later one counted both. The step that needs it is `Begin`:
the count is taken after the own lease is renewed, in one transaction, so it is at
least two if the other process is leased.

**Registries.** `IInv == Shape /\ Room /\ Story`. `Room` is what eviction must
leave: distinct keys within the cap, and tombstones within theirs. `Story`
accounts for every piece of authority, one conjunct for each place it may be:

- `Locked`: an evaluation between the two halves of `get_or_create` is alone in
  its process, its key has a row and no session, and there is room for one.
- `LostAreGone`: a key on record as lost by a process has no session there.
- `InUse`, `OrphansRemembered`: an evaluation in progress has its session in the
  registry, with authority once it applied its facts, or it is an orphan, and
  then its key is remembered by a signal, a gap or the degraded flag.
- `RowsExplained`: a row that is no signal to its owner is about a live session
  with authority, or the key is remembered. This is what makes the eviction of a
  session with authority, and the restart of a process, leave a trace.
- `Recorded`: authority answered for has a row, or is a gap.
- `HeldOnce`: two processes hold a key only if that is a gap; it needs the
  leases not at all, since the history records the overlap itself.
- `CleanExplained`, `BlindExplained`: a session, and an evaluation with it, that
  misses authority is marked broken, or its key is a gap, or the process is
  degraded. `CleanOnlyThroughGaps` is the last of them at the moment of the answer.
- `ForgottenMeansDegraded`: a tombstone trimmed away, or not written, set the flag.

They are proved together, because most steps use another conjunct than the one
they disturb: what becomes of a session at an eviction depends on whether its row
is explained, and whether a session made from a signal is clean on what the lock
kept true since the signal was read. The proof rests on lemmas about what eviction
leaves of a sequence: `Picked` takes the elements at a set of positions in
ascending order, and its facts (which elements, how many, still distinct) come
from the cardinality of that set, once it is shown that a finite set of positions
has an ascending enumeration.

Only model-checked: the liveness properties `EveryJobSettles` and `EveryAlertArrives`
(liveness under fairness is out of the prover's reach, as is `ENABLED`). Every
other property of every passing run is a theorem. No module uses recursive
operators; sums avoid them by being functions on the naturals.

## 5. Not modelled, and why

Most of the repository's lines are not state machines: user interfaces and the
browser extension, the client SDKs with their patches of third-party libraries,
text analysis and sanitising (Web Shield, classifiers, redaction, policy
patterns), string and URL normalisation (identity, destinations), read models and
reports (provenance incidents, coverage, metrics, exports), and process and file
input/output (runtime boundary, sandbox profiles, feed download and parsing). A
state machine of these would restate the code and its properties would be about
text. `PROJECT.json` lists each with its reason. In the modelled components the
parts left out are named in the component's note.

Of what does have state, these are left:

1. Idempotency keys and the rate limiter: two small machines. The race of the
   first is listed under `hazards`; its only handler repeats harmlessly.
2. Policy versions: publish and rollback against requests that hold a snapshot.

For proof nothing is left among the properties of the runs but liveness.
