---------------------------- MODULE ApprovalGuard ----------------------------
(***************************************************************************)
(* Scoped approvals from end to end: /sdk/guard calls that policy answers  *)
(* with require_approval, the operators who resolve the approvals, and the *)
(* audit log every call is written to.                                     *)
(*                                                                         *)
(* A guard call is a request thread of varden/app_factory.py:              *)
(*                                                                         *)
(*   idle -> (consuming) -> decided -> logging -> (recorded) -> answered   *)
(*                                                                         *)
(* and a resolution one of runtime/routes.py:                              *)
(*                                                                         *)
(*   idle -> approving -> signing | expiring -> done                       *)
(*       \-> denying -> done                                               *)
(*                                                                         *)
(* writer is the thread inside BEGIN IMMEDIATE of EventStore.log, which    *)
(* spans several steps; every other transaction is a step of its own and   *)
(* waits for it.                                                           *)
(***************************************************************************)
EXTENDS ApprovalStore, AuditLog

CONSTANTS
  Calls,       \* guard requests; each is made once
  Operators,   \* approve and deny requests; each is made once
  Outcomes,    \* policy decisions to consider
  Requests,    \* guard requests to consider: an action and a kind of payload
  LegacyRows,  \* events written before hash chaining
  Backlog,     \* actions whose approval is pending when the server starts
  MaxTime,     \* last clock reading (bound)
  Nobody       \* no thread holds the write lock

ASSUME GuardAssumption ==
  /\ Outcomes \subseteq {"allow", "block", "require_approval"}
  /\ Requests \subseteq Actions \X Payloads
  /\ LegacyRows \in Nat /\ MaxTime \in Nat
  /\ Backlog \in Seq(Actions)
  /\ NoToken \notin Operators /\ Nobody \notin Calls

(* The claims an approve request signs. *)
ClaimSet == [approval : Nat, action : Actions, deadline : Nat]

ASSUME ClaimAssumption == NoToken \notin ClaimSet

VARIABLES
  now,     \* the clock
  rows,    \* runtime_approvals
  used,    \* runtime_approval_consumptions
  claims,  \* of each approve request: the claims it signed, or NoToken
  events,  \* the audit log
  writer,  \* who holds the write lock across steps
  call,    \* the guard requests
  op       \* the resolutions

vars == <<now, rows, used, claims, events, writer, call, op>>

CallSteps == {"idle", "consuming", "decided", "logging", "recorded", "answered", "lost"}
OpSteps == {"idle", "approving", "signing", "expiring", "denying", "done"}
Answers == {"none", "run", "denied", "approval_required", "unavailable"}
Decisions == {"none", "allow", "block", "require_approval"}

NoAction == [hash |-> "none", trace |-> NoTrace]
BodySet == [call : Calls \cup {Nobody}, action : Actions \cup {NoAction},
            decision : Decisions, approval : Nat, payload : Payloads, version : Versions]

ASSUME ChainAssumption == Unchained \notin Seq(BodySet)

NewCall == [step |-> "idle", action |-> NoAction, payload |-> "plain", token |-> NoToken,
            policy |-> "none", decision |-> "none", approval |-> 0, head |-> GenesisHash,
            event |-> 0, answer |-> "none"]
NewOp == [step |-> "idle", approval |-> 0]
Done == [step |-> "done", approval |-> 0]

(* The security fields an event row binds. *)
Body(c) == [call |-> c, action |-> call[c].action, decision |-> call[c].decision,
            approval |-> call[c].approval, payload |-> call[c].payload, version |-> "1"]
LegacyBody == [call |-> Nobody, action |-> NoAction, decision |-> "none", approval |-> 0,
               payload |-> "plain", version |-> "none"]
LegacyRow == [body |-> LegacyBody, prev |-> Unchained, hash |-> Unchained]

Init ==
  /\ now = 0
  /\ rows = [i \in 1..Len(Backlog) |-> PendingRow(Backlog[i], 0, 0)]
  /\ used = << >>
  /\ claims = [o \in Operators |-> NoToken]
  /\ events = [i \in 1..LegacyRows |-> LegacyRow]
  /\ writer = Nobody
  /\ call = [c \in Calls |-> NewCall]
  /\ op = [o \in Operators |-> NewOp]

(* The tokens that exist outside the server. *)
Signed == {o \in Operators : claims[o] # NoToken}
Unlocked == writer = Nobody

(***************************************************************************)
(* POST /sdk/guard                                                         *)
(***************************************************************************)
(* evaluate_action returns a decision; under require_approval a presented  *)
(* token is checked (signature, deadline, scope) before any transaction.   *)
Evaluate(c, action, payload, token, decision) ==
  /\ call[c].step = "idle"
  /\ LET presented == decision = "require_approval" /\ token # NoToken
         accepted == presented /\ ClaimsAccepted(claims[token], action, now) IN
     call' = [call EXCEPT ![c].action = action, ![c].payload = payload,
        ![c].token = IF accepted THEN token ELSE NoToken,
        ![c].policy = decision,
        ![c].decision = IF presented /\ ~ accepted THEN "block" ELSE decision,
        ![c].approval = IF accepted THEN claims[token].approval ELSE 0,
        ![c].step = IF accepted THEN "consuming" ELSE "decided"]
  /\ UNCHANGED <<now, rows, used, claims, events, writer, op>>

(* The transaction of verify_and_consume, when the row still honours the   *)
(* token: the decision becomes allow.                                      *)
Consume(c) ==
  /\ call[c].step = "consuming" /\ Unlocked
  /\ LET i == call[c].approval IN
     /\ Usable(rows[i], call[c].token, now)
     /\ rows' = [rows EXCEPT ![i] = ConsumedRow(@)]
     /\ used' = Append(used, [approval |-> i, token |-> call[c].token, call |-> c,
                               action |-> call[c].action])
  /\ call' = [call EXCEPT ![c].decision = "allow", ![c].token = NoToken,
                          ![c].step = "decided"]
  /\ UNCHANGED <<now, claims, events, writer, op>>

(* Mutant: a replayed token is taken for a retry of the call that used it. *)
RejectTokenAsRetry(c) ==
  /\ call[c].step = "consuming" /\ Unlocked
  /\ ~ Usable(rows[call[c].approval], call[c].token, now)
  /\ call' = [call EXCEPT ![c].step = "decided",
       ![c].decision = IF rows[call[c].approval].status = "consumed" THEN "allow" ELSE "block"]
  /\ UNCHANGED <<now, rows, used, claims, events, writer, op>>

(* When it does not: ValueError, rolled back, the decision becomes block. *)
RejectToken(c) ==
  /\ call[c].step = "consuming" /\ Unlocked
  /\ ~ Usable(rows[call[c].approval], call[c].token, now)
  /\ call' = [call EXCEPT ![c].decision = "block", ![c].approval = 0,
                          ![c].token = NoToken, ![c].step = "decided"]
  /\ UNCHANGED <<now, rows, used, claims, events, writer, op>>

(* Mutant: BEGIN instead of BEGIN IMMEDIATE, no write lock while the head  *)
(* is read.                                                                *)
LogBeginDeferred(c) ==
  /\ call[c].step = "decided"
  /\ call' = [call EXCEPT ![c].step = "logging", ![c].head = HeadHash(events)]
  /\ UNCHANGED <<now, rows, used, claims, events, writer, op>>

(* EventStore.log: BEGIN IMMEDIATE and the read of the chain head. *)
LogBegin(c) ==
  /\ call[c].step = "decided" /\ Unlocked
  /\ writer' = c
  /\ call' = [call EXCEPT ![c].step = "logging", ![c].head = HeadHash(events)]
  /\ UNCHANGED <<now, rows, used, claims, events, op>>

(* Mutant: an allow is answered although its event was not written. *)
AnswerUnaudited(c, id) ==
  CASE call[c].decision = "require_approval" -> "none"
    [] call[c].decision = "block" -> "denied"
    [] OTHER -> "run"

(* A block wins; an allow needs its audit event; a require_approval has    *)
(* still to create its pending row.                                        *)
AnswerOf(c, id) ==
  CASE call[c].decision = "require_approval" -> "none"
    [] call[c].decision = "block" -> "denied"
    [] call[c].decision = "allow" /\ id # 0 -> "run"
    [] OTHER -> "unavailable"

(* The rest of the handler after persist_event returned id, or 0. *)
Recorded(c, id) ==
  [call[c] EXCEPT !.event = id, !.head = GenesisHash, !.answer = AnswerOf(c, id),
    !.step = IF call[c].decision = "require_approval" THEN "recorded" ELSE "answered"]

(* The INSERT and the COMMIT.  persist_event may still raise afterwards:   *)
(* the row stays, the handler does not learn its id.                       *)
LogCommit(c) ==
  /\ call[c].step = "logging"
  /\ events' = Logged(events, Body(c), call[c].head)
  /\ writer' = Nobody
  /\ \E id \in {Len(events'), 0} : call' = [call EXCEPT ![c] = Recorded(c, id)]
  /\ UNCHANGED <<now, rows, used, claims, op>>

(* Any exception up to COMMIT, the wait for the lock included: rolled back. *)
LogFails(c) ==
  /\ call[c].step \in {"decided", "logging"}
  /\ writer' = IF writer = c THEN Nobody ELSE writer
  /\ call' = [call EXCEPT ![c] = Recorded(c, 0)]
  /\ UNCHANGED <<now, rows, used, claims, events, op>>

(* Mutants: the approval is given the newest event, or the next id.        *)
CreatePendingLatest(c) ==
  /\ call[c].step = "recorded" /\ Unlocked
  /\ rows' = Append(rows, PendingRow(call[c].action, Len(events), now))
  /\ call' = [call EXCEPT ![c].answer = "approval_required", ![c].step = "answered"]
  /\ UNCHANGED <<now, used, claims, events, writer, op>>

CreatePendingNext(c) ==
  /\ call[c].step = "recorded" /\ Unlocked
  /\ rows' = Append(rows, PendingRow(call[c].action, Len(events) + 1, now))
  /\ call' = [call EXCEPT ![c].answer = "approval_required", ![c].step = "answered"]
  /\ UNCHANGED <<now, used, claims, events, writer, op>>

(* require_approval without a token: 403 with the id of a pending row. *)
CreatePending(c) ==
  /\ call[c].step = "recorded" /\ Unlocked
  /\ rows' = Append(rows, PendingRow(call[c].action, call[c].event, now))
  /\ call' = [call EXCEPT ![c].answer = "approval_required", ![c].step = "answered"]
  /\ UNCHANGED <<now, used, claims, events, writer, op>>

CreateFails(c) ==
  /\ call[c].step = "recorded"
  /\ call' = [call EXCEPT ![c].answer = "unavailable", ![c].step = "answered"]
  /\ UNCHANGED <<now, rows, used, claims, events, writer, op>>

(***************************************************************************)
(* POST /approvals/{id}/approve and /deny                                  *)
(***************************************************************************)
(* get, in a connection of its own; a row that is not pending is an error. *)
ReadRow(o, i, verb) ==
  /\ op[o].step = "idle"
  /\ op' = [op EXCEPT ![o] = IF rows[i].status = "pending"
                              THEN [step |-> verb, approval |-> i] ELSE Done]
  /\ UNCHANGED <<now, rows, used, claims, events, writer, call>>

CheckDeadline(o) ==
  /\ op[o].step = "approving"
  /\ op' = [op EXCEPT ![o].step =
               IF rows[op[o].approval].deadline < now THEN "expiring" ELSE "signing"]
  /\ UNCHANGED <<now, rows, used, claims, events, writer, call>>

(* The three updates name the row by id and do not compare its status. *)
MarkExpired(o) ==
  /\ op[o].step = "expiring" /\ Unlocked
  /\ rows' = [rows EXCEPT ![op[o].approval] = ExpiredRow(@)]
  /\ op' = [op EXCEPT ![o] = Done]
  /\ UNCHANGED <<now, used, claims, events, writer, call>>

Deny(o) ==
  /\ op[o].step = "denying" /\ Unlocked
  /\ rows' = [rows EXCEPT ![op[o].approval] = DeniedRow(@)]
  /\ op' = [op EXCEPT ![o] = Done]
  /\ UNCHANGED <<now, used, claims, events, writer, call>>

(* The token is signed and its hash stored; the response carries it out. *)
Approve(o) ==
  /\ op[o].step = "signing" /\ Unlocked
  /\ LET i == op[o].approval IN
     /\ rows' = [rows EXCEPT ![i] = ApprovedRow(@, o)]
     /\ claims' = [claims EXCEPT ![o] =
          [approval |-> i, action |-> rows[i].action, deadline |-> rows[i].deadline]]
  /\ op' = [op EXCEPT ![o] = Done]
  /\ UNCHANGED <<now, used, events, writer, call>>

(* The server stops: requests in flight are lost, an open transaction is   *)
(* rolled back, the tables stay.                                           *)
Crash ==
  /\ \/ \E c \in Calls : call[c].step \notin {"idle", "answered", "lost"}
     \/ \E o \in Operators : op[o].step \notin {"idle", "done"}
  /\ call' = [c \in Calls |-> IF call[c].step \in {"idle", "answered"} THEN call[c]
                              ELSE [NewCall EXCEPT !.step = "lost"]]
  /\ op' = [o \in Operators |-> IF op[o].step = "idle" THEN op[o] ELSE Done]
  /\ writer' = Nobody
  /\ UNCHANGED <<now, rows, used, claims, events>>

Tick ==
  /\ now < MaxTime
  /\ now' = now + 1
  /\ UNCHANGED <<rows, used, claims, events, writer, call, op>>

GuardStep(c) ==
  \/ \E request \in Requests, token \in Signed \cup {NoToken}, decision \in Outcomes :
       Evaluate(c, request[1], request[2], token, decision)
  \/ Consume(c) \/ RejectToken(c)
  \/ LogBegin(c) \/ LogCommit(c) \/ LogFails(c)
  \/ CreatePending(c) \/ CreateFails(c)

ResolutionStep(o) ==
  \/ \E i \in DOMAIN rows, verb \in {"approving", "denying"} : ReadRow(o, i, verb)
  \/ CheckDeadline(o) \/ MarkExpired(o) \/ Deny(o) \/ Approve(o)

Next ==
  \/ \E c \in Calls : GuardStep(c)
  \/ \E o \in Operators : ResolutionStep(o)
  \/ Crash
  \/ Tick

Spec == Init /\ [][Next]_vars

(***************************************************************************)
(* Properties                                                              *)
(***************************************************************************)
Claims == [approval : 1..Len(rows), action : Actions, deadline : Nat]
RowType == [status : Statuses, action : Actions, event : 0..Len(events),
            deadline : Nat, token : Operators \cup {NoToken}]
Bodies == [call : Calls \cup {Nobody}, action : Actions \cup {NoAction},
           decision : Decisions, approval : 0..Len(rows), payload : Payloads,
           version : Versions]
CallType == [step : CallSteps, action : Actions \cup {NoAction}, payload : Payloads,
             token : Operators \cup {NoToken}, policy : Decisions,
             decision : Decisions, approval : 0..Len(rows), head : Seq(Bodies),
             event : 0..Len(events), answer : Answers]
EventType == [body : Bodies, prev : Seq(Bodies) \cup {Unchained},
              hash : Seq(Bodies) \cup {Unchained}]

(* Every row, event and request has its type, and ids name rows that exist: *)
(* an approval points to a stored event, a call and a token to a stored     *)
(* approval.                                                                *)
TypeOK ==
  /\ now \in 0..MaxTime
  /\ rows \in Seq(RowType)
  /\ used \in Seq([approval : 1..Len(rows), token : Operators, call : Calls, action : Actions])
  /\ claims \in [Operators -> Claims \cup {NoToken}]
  /\ events \in Seq(EventType)
  /\ writer \in Calls \cup {Nobody}
  /\ call \in [Calls -> CallType]
  /\ op \in [Operators -> [step : OpSteps, approval : 0..Len(rows)]]

(* Every consumption was of a token some operator signed for that approval  *)
(* and that action, and no token and no call appears in two of them, even   *)
(* when requests race, repeat a token, or an approval is resolved twice.    *)
ConsumedOnce ==
  \A j \in DOMAIN used :
    /\ used[j].token \in Signed
    /\ claims[used[j].token].approval = used[j].approval
    /\ ScopeMatches(claims[used[j].token].action, used[j].action)
    /\ \A k \in DOMAIN used :
         used[k].token = used[j].token \/ used[k].call = used[j].call => k = j

(* An approved row honours one signed token, and one nobody has spent: a   *)
(* second approval of a consumed row never revives the spent token.        *)
LiveTokenUnspent ==
  \A i \in DOMAIN rows : rows[i].status = "approved" =>
    /\ rows[i].token \in Signed
    /\ claims[rows[i].token].approval = i
    /\ \A j \in DOMAIN used : used[j].token # rows[i].token

(* A call policy wants approved is let run only if it consumed a token      *)
(* itself, whatever happened to its approval meanwhile.                     *)
RunNeedsGrant ==
  \A c \in Calls : call[c].answer = "run" /\ call[c].policy = "require_approval" =>
    \E j \in DOMAIN used : used[j].call = c /\ used[j].approval = call[c].approval

(* A call that is let run has its own event in the log, with the decision  *)
(* and the approval it ran on; no call is logged twice.                    *)
RunIsAudited ==
  /\ \A c \in Calls : call[c].answer = "run" =>
       /\ call[c].event \in DOMAIN events
       /\ events[call[c].event].body = Body(c)
  /\ \A i \in DOMAIN events, j \in DOMAIN events :
       events[i].body.call = events[j].body.call /\ events[i].body.call # Nobody => i = j

(* What verify_event_chain says of a log nobody tampered with, with         *)
(* concurrent writers, failed and interrupted appends, and unchained rows  *)
(* before it: no gap, no broken link, no unknown version at any moment;    *)
(* event_hash_mismatch at every row that was logged with a payload that is *)
(* JSON text, which the verifier parses before it hashes, and at no other. *)
OnlyTextMismatches ==
  /\ UnchainedOnlyBefore(events)
  /\ \A i \in DOMAIN events : VersionKnown(events[i])
  /\ \A i \in ChainedRows(events) :
       /\ PrevHolds(events, i)
       /\ HashHolds(events, i) <=> events[i].body.payload # "json_text"

(* A pending approval points to the event of the refusal it came from, or  *)
(* to none if that event could not be written.                             *)
ApprovalNamesRefusal ==
  \A i \in DOMAIN rows : rows[i].event # 0 =>
    /\ events[rows[i].event].body.decision = "require_approval"
    /\ events[rows[i].event].body.action = rows[i].action

(* The tokens seen as single-use grants. *)
SpentBy(o) == {c \in Calls : \E j \in DOMAIN used : used[j].token = o /\ used[j].call = c}
Standing(o) ==
  IF o \notin Signed THEN "unissued"
  ELSE IF SpentBy(o) # {} THEN "spent"
  ELSE IF /\ rows[claims[o].approval].status = "approved"
          /\ rows[claims[o].approval].token = o THEN "live"
  ELSE "void"

Grants == INSTANCE SingleUseGrant WITH
  Tokens <- Operators, Callers <- Calls,
  standing <- [o \in Operators |-> Standing(o)],
  spenders <- [o \in Operators |-> SpentBy(o)]

(* Every token behaves as a single-use grant: spent at most once, by one   *)
(* call, only while live, and never live again afterwards.                 *)
ImplementsGrants == Grants!Spec

(* What the status check of approve and deny is for ("approval already     *)
(* resolved"): a denied, expired or consumed approval stays that way.      *)
ResolutionIsFinal ==
  [][\A i \in DOMAIN rows : rows[i].status \in Resolved => rows'[i].status = rows[i].status]_vars
=============================================================================
