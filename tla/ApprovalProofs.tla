--------------------------- MODULE ApprovalProofs ---------------------------
(***************************************************************************)
(* For every number of requests and operators, every set of actions and    *)
(* every history of crashes, failed writes and expiries: an approval token *)
(* is a single-use grant, what is let run was granted, and the audit chain *)
(* is the one that was written.                                            *)
(***************************************************************************)
EXTENDS ApprovalGuard, WellFoundedInduction, TLAPS

(***************************************************************************)
(* Shapes.                                                                 *)
(***************************************************************************)
RowSet == [status : Statuses, action : Actions, event : Nat, deadline : Nat,
           token : Operators \cup {NoToken}]
UseSet == [approval : Nat, token : Operators, call : Calls, action : Actions]
OpSet == [step : OpSteps, approval : Nat]
CallSet == [step : CallSteps, action : Actions \cup {NoAction}, payload : Payloads,
            token : Operators \cup {NoToken}, policy : Decisions,
            decision : Decisions, approval : Nat, head : Seq(BodySet),
            event : Nat, answer : Answers]
EventSet == [body : BodySet, prev : Seq(BodySet) \cup {Unchained},
             hash : Seq(BodySet) \cup {Unchained}]

Shape ==
  /\ now \in Nat
  /\ rows \in Seq(RowSet) /\ used \in Seq(UseSet)
  /\ claims \in [Operators -> ClaimSet \cup {NoToken}]
  /\ events \in Seq(EventSet)
  /\ writer \in Calls \cup {Nobody}
  /\ call \in [Calls -> CallSet] /\ op \in [Operators -> OpSet]

LEMMA SeqFacts ==
  ASSUME NEW S, NEW s \in Seq(S)
  PROVE  /\ Len(s) \in Nat /\ DOMAIN s = 1..Len(s)
         /\ \A i \in DOMAIN s : s[i] \in S
OBVIOUS

LEMMA AppendFacts ==
  ASSUME NEW S, NEW s \in Seq(S), NEW e \in S
  PROVE  /\ Append(s, e) \in Seq(S) /\ Len(Append(s, e)) = Len(s) + 1
         /\ DOMAIN Append(s, e) = DOMAIN s \cup {Len(s) + 1}
         /\ Len(s) + 1 \notin DOMAIN s
         /\ \A i \in DOMAIN s : Append(s, e)[i] = s[i]
         /\ Append(s, e)[Len(s) + 1] = e
<1>1. Append(s, e) \in Seq(S) /\ Len(Append(s, e)) = Len(s) + 1
  OBVIOUS
<1>2. /\ DOMAIN Append(s, e) = 1..(Len(s) + 1) /\ DOMAIN s = 1..Len(s) /\ Len(s) \in Nat
  BY <1>1, SeqFacts
<1> QED BY <1>1, <1>2

LEMMA UpdateFacts ==
  ASSUME NEW S, NEW s \in Seq(S), NEW i \in DOMAIN s, NEW e \in S
  PROVE  /\ [s EXCEPT ![i] = e] \in Seq(S)
         /\ DOMAIN [s EXCEPT ![i] = e] = DOMAIN s
         /\ [s EXCEPT ![i] = e][i] = e
         /\ \A j \in DOMAIN s : j # i => [s EXCEPT ![i] = e][j] = s[j]
OBVIOUS

\* a row that is resolved or approved is a row
LEMMA RowUpdates ==
  ASSUME NEW row \in RowSet, NEW o \in Operators
  PROVE  /\ {ConsumedRow(row), ApprovedRow(row, o), DeniedRow(row), ExpiredRow(row)}
              \subseteq RowSet
         /\ \A new \in {ConsumedRow(row), DeniedRow(row), ExpiredRow(row)} :
              new.status # "approved"
         /\ ApprovedRow(row, o).status = "approved" /\ ApprovedRow(row, o).token = o
BY DEF ConsumedRow, ApprovedRow, DeniedRow, ExpiredRow, RowSet, Statuses

LEMMA ShapeFacts ==
  ASSUME Shape
  PROVE  /\ now \in Nat /\ Len(rows) \in Nat /\ Len(used) \in Nat /\ Len(events) \in Nat
         /\ DOMAIN rows = 1..Len(rows) /\ DOMAIN used = 1..Len(used)
         /\ DOMAIN events = 1..Len(events)
         /\ \A i \in DOMAIN rows : rows[i] \in RowSet
         /\ \A i \in DOMAIN used : used[i] \in UseSet
         /\ \A i \in DOMAIN events : events[i] \in EventSet
         /\ \A o \in Operators : claims[o] \in ClaimSet \cup {NoToken} /\ op[o] \in OpSet
         /\ \A c \in Calls : call[c] \in CallSet
BY SeqFacts DEF Shape

\* the steps of a guard call, as a move of its record
Moved(c, r) == call' = [call EXCEPT ![c] = r]

LEMMA NewCallShape == NewCall \in CallSet /\ NoAction \in Actions \cup {NoAction}
BY DEF NewCall, CallSet, CallSteps, Decisions, Answers, GenesisHash, Payloads

LEMMA EvaluateMoves ==
  ASSUME Shape, NEW c \in Calls, NEW action \in Actions, NEW payload \in Payloads,
         NEW token \in Signed \cup {NoToken}, NEW decision \in Outcomes,
         Evaluate(c, action, payload, token, decision)
  PROVE  \E r \in CallSet :
           /\ Moved(c, r) /\ r.action = action /\ r.policy = decision
           /\ r.event = call[c].event /\ r.answer = call[c].answer /\ r.head = call[c].head
           /\ \/ /\ r.step = "decided" /\ r.decision \in {decision, "block"} /\ r.approval = 0
              \/ /\ r.step = "consuming" /\ r.decision = "require_approval"
                 /\ token \in Signed /\ r.token = token
                 /\ r.approval = claims[token].approval
                 /\ ScopeMatches(claims[token].action, action)
<1> USE ShapeFacts
<1>1. token \in Signed => claims[token] \in ClaimSet /\ token \in Operators
  BY DEF Signed
<1>2. Outcomes \subseteq Decisions
  BY GuardAssumption DEF Decisions
<1>3. CASE decision = "require_approval" /\ token # NoToken
           /\ ClaimsAccepted(claims[token], action, now)
  <2> DEFINE r == [call[c] EXCEPT !.action = action, !.payload = payload, !.token = token, !.policy = decision,
                     !.decision = decision, !.approval = claims[token].approval,
                     !.step = "consuming"]
  <2>1. Moved(c, r)
    BY <1>3 DEF Evaluate, Moved
  <2>2. token \in Operators /\ claims[token].approval \in Nat /\ decision \in Decisions
    BY <1>1, <1>2, <1>3 DEF ClaimSet
  <2>3. r \in CallSet
    BY <2>2 DEF CallSet, CallSteps
  <2>4. ScopeMatches(claims[token].action, action)
    BY <1>3 DEF ClaimsAccepted
  <2>5. /\ r.action = action /\ r.policy = decision /\ r.event = call[c].event
        /\ r.answer = call[c].answer /\ r.head = call[c].head /\ r.step = "consuming"
        /\ r.decision = decision /\ r.token = token /\ r.approval = claims[token].approval
    BY DEF CallSet
  <2> HIDE DEF r
  <2> QED BY <1>3, <2>1, <2>3, <2>4, <2>5
<1>4. CASE ~ (decision = "require_approval" /\ token # NoToken
              /\ ClaimsAccepted(claims[token], action, now))
  <2> DEFINE d == IF decision = "require_approval" /\ token # NoToken THEN "block"
                  ELSE decision
             r == [call[c] EXCEPT !.action = action, !.payload = payload, !.token = NoToken, !.policy = decision,
                     !.decision = d, !.approval = 0, !.step = "decided"]
  <2>1. Moved(c, r)
    BY <1>4 DEF Evaluate, Moved
  <2>2. d \in {decision, "block"} /\ d \in Decisions /\ decision \in Decisions
    BY <1>2 DEF Decisions
  <2> HIDE DEF d
  <2>3. r \in CallSet
    BY <2>2 DEF CallSet, CallSteps
  <2>4. /\ r.action = action /\ r.policy = decision /\ r.event = call[c].event
        /\ r.answer = call[c].answer /\ r.head = call[c].head /\ r.step = "decided"
        /\ r.decision = d /\ r.approval = 0
    BY DEF CallSet
  <2> HIDE DEF r
  <2> QED BY <2>1, <2>2, <2>3, <2>4
<1> QED BY <1>3, <1>4

\* the head of a chain without gaps is its last row
LEMMA HeadFacts ==
  ASSUME NEW ev \in Seq(EventSet), UnchainedOnlyBefore(ev)
  PROVE  /\ ChainedRows(ev) = {} => HeadHash(ev) = GenesisHash
         /\ ChainedRows(ev) # {} => /\ Len(ev) \in ChainedRows(ev)
                                   /\ HeadHash(ev) = ev[Len(ev)].hash
<1>1. CASE ChainedRows(ev) = {}
  BY <1>1 DEF HeadHash
<1>2. CASE ChainedRows(ev) # {}
  <2>1. PICK i \in DOMAIN ev : IsChained(ev[i])
    BY <1>2 DEF ChainedRows
  <2>2. Len(ev) \in Nat /\ DOMAIN ev = 1..Len(ev)
    BY SeqFacts
  <2>3. IsChained(ev[Len(ev)])
    <3>1. CASE i = Len(ev)
      BY <2>1, <3>1
    <3>2. CASE i < Len(ev)
      BY <2>1, <2>2, <3>2 DEF UnchainedOnlyBefore
    <3> QED BY <2>1, <2>2, <3>1, <3>2
  <2>4. Len(ev) \in ChainedRows(ev) /\ \A j \in ChainedRows(ev) : j \in 1..Len(ev)
    BY <2>1, <2>2, <2>3 DEF ChainedRows
  <2> DEFINE last == CHOOSE k \in ChainedRows(ev) : \A j \in ChainedRows(ev) : j <= k
  <2>5. last \in ChainedRows(ev) /\ \A j \in ChainedRows(ev) : j <= last
    <3>1. \E k \in ChainedRows(ev) : \A j \in ChainedRows(ev) : j <= k
      BY <2>2, <2>4
    <3> QED BY <3>1
  <2>6. HeadHash(ev) = ev[last].hash
    BY <1>2 DEF HeadHash
  <2> HIDE DEF last
  <2>7. last = Len(ev)
    BY <2>2, <2>4, <2>5
  <2> QED BY <2>4, <2>6, <2>7, <1>2
<1> QED BY <1>1, <1>2

LEMMA HeadShape ==
  ASSUME NEW ev \in Seq(EventSet), UnchainedOnlyBefore(ev)
  PROVE  HeadHash(ev) \in Seq(BodySet)
<1>1. \A i \in ChainedRows(ev) : ev[i].hash \in Seq(BodySet)
  <2>1. \A i \in DOMAIN ev : ev[i] \in EventSet
    BY SeqFacts
  <2>2. \A i \in ChainedRows(ev) : i \in DOMAIN ev /\ ev[i].hash # Unchained
    BY DEF ChainedRows, IsChained
  <2> QED BY <2>1, <2>2 DEF EventSet
<1>2. GenesisHash \in Seq(BodySet)
  BY DEF GenesisHash
<1> QED BY <1>1, <1>2, HeadFacts

LEMMA RecordedMoves ==
  ASSUME Shape, NEW c \in Calls, NEW id \in Nat
  PROVE  LET r == Recorded(c, id) IN
         /\ r \in CallSet
         /\ r.action = call[c].action /\ r.policy = call[c].policy
         /\ r.payload = call[c].payload
         /\ r.decision = call[c].decision /\ r.approval = call[c].approval
         /\ r.event = id /\ r.step \in {"recorded", "answered"}
         /\ r.step = "recorded" <=> call[c].decision = "require_approval"
         /\ r.answer # "none" => r.step = "answered"
         /\ r.answer = "run" => call[c].decision = "allow" /\ id # 0
<1>1. call[c] \in CallSet
  BY ShapeFacts
<1>2. /\ AnswerOf(c, id) \in Answers
      /\ AnswerOf(c, id) # "none" => call[c].decision # "require_approval"
      /\ AnswerOf(c, id) = "run" => call[c].decision = "allow" /\ id # 0
  BY DEF AnswerOf, Answers
<1>3. GenesisHash \in Seq(BodySet)
  BY DEF GenesisHash
<1> DEFINE step == IF call[c].decision = "require_approval" THEN "recorded" ELSE "answered"
           answer == AnswerOf(c, id)
           r == [call[c] EXCEPT !.event = id, !.head = GenesisHash, !.answer = answer,
                   !.step = step]
<1>4. step \in CallSteps /\ step \in {"recorded", "answered"}
      /\ (step = "recorded" <=> call[c].decision = "require_approval")
  BY DEF CallSteps
<1>5. Recorded(c, id) = r
  BY DEF Recorded
<1> HIDE DEF step, answer
<1>6. r \in CallSet
  BY <1>1, <1>2, <1>3, <1>4 DEF CallSet, answer
<1>7. /\ r.action = call[c].action /\ r.policy = call[c].policy
      /\ r.payload = call[c].payload
      /\ r.decision = call[c].decision /\ r.approval = call[c].approval
      /\ r.event = id /\ r.step = step /\ r.answer = answer
  BY <1>1 DEF CallSet
<1> HIDE DEF r
<1> QED BY <1>2, <1>4, <1>5, <1>6, <1>7 DEF answer

(***************************************************************************)
(* The inductive invariant.  Its parts speak of one request, row, use or   *)
(* resolution and of the tables as arguments, so that a step which leaves  *)
(* both alone leaves the part alone.                                       *)
(***************************************************************************)
CallOK(c, r, us, cl, n) ==
  /\ r.step \notin {"idle", "lost"} => r.action \in Actions
  /\ r.step = "consuming" =>
       /\ r.token \in Operators /\ cl[r.token] \in ClaimSet
       /\ cl[r.token].approval = r.approval
       /\ r.approval \in 1..n
       /\ ScopeMatches(cl[r.token].action, r.action)
  /\ r.step \in {"idle", "consuming"} => \A j \in DOMAIN us : us[j].call # c
  /\ r.policy = "require_approval" /\ r.decision = "allow" =>
       \E j \in DOMAIN us : us[j].call = c /\ us[j].approval = r.approval
  /\ r.step # "answered" => r.answer = "none"
  /\ r.answer = "run" => r.decision = "allow"

RowOK(i, row, us, cl) ==
  row.status = "approved" =>
    /\ row.token \in Operators /\ cl[row.token] \in ClaimSet
    /\ cl[row.token].approval = i
    /\ \A j \in DOMAIN us : us[j].token # row.token

UseOK(u, cl) ==
  /\ cl[u.token] \in ClaimSet /\ cl[u.token].approval = u.approval
  /\ ScopeMatches(cl[u.token].action, u.action)

UsedOnce(us) ==
  \A j \in DOMAIN us, k \in DOMAIN us :
    us[j].token = us[k].token \/ us[j].call = us[k].call => j = k

OpOK(p, claim, n) ==
  /\ p.step # "done" => claim = NoToken
  /\ p.step \notin {"idle", "done"} => p.approval \in 1..n
  /\ claim # NoToken => claim.approval \in 1..n

GrantInv ==
  /\ \A c \in Calls : CallOK(c, call[c], used, claims, Len(rows))
  /\ \A i \in DOMAIN rows : RowOK(i, rows[i], used, claims)
  /\ \A j \in DOMAIN used : UseOK(used[j], claims)
  /\ UsedOnce(used)
  /\ \A o \in Operators : OpOK(op[o], claims[o], Len(rows))

Refusal(ev, e, action) ==
  /\ e \in DOMAIN ev
  /\ ev[e].body.decision = "require_approval" /\ ev[e].body.action = action

CallLogged(c, r, w, ev) ==
  /\ r.step = "logging" => w = c /\ r.head = HeadHash(ev)
  /\ r.step = "recorded" =>
       r.decision = "require_approval" /\ (r.event # 0 => Refusal(ev, r.event, r.action))
  /\ r.answer = "run" =>
       /\ r.event \in DOMAIN ev
       /\ ev[r.event].body = [call |-> c, action |-> r.action, decision |-> r.decision,
                              approval |-> r.approval, payload |-> r.payload,
                              version |-> "1"]
  /\ r.step \in {"idle", "consuming", "decided", "logging"} =>
       \A i \in DOMAIN ev : ev[i].body.call # c

LoggedOnce(ev) ==
  \A i \in DOMAIN ev, j \in DOMAIN ev :
    ev[i].body.call = ev[j].body.call /\ ev[i].body.call # Nobody => i = j

\* the chain as log writes it, whatever the verifier makes of the bodies
ChainWritten(ev) ==
  /\ UnchainedOnlyBefore(ev)
  /\ \A i \in DOMAIN ev : VersionKnown(ev[i])
  /\ \A i \in ChainedRows(ev) :
       PrevHolds(ev, i) /\ ev[i].hash = HashOf(ev[i].body, ev[i].prev)

LogInv ==
  /\ ChainWritten(events)
  /\ LoggedOnce(events)
  /\ \A c \in Calls : /\ CallLogged(c, call[c], writer, events)
                      /\ call[c].step # "answered" => call[c].answer = "none"
  /\ \A i \in DOMAIN rows : rows[i].event # 0 => Refusal(events, rows[i].event, rows[i].action)

IInv == Shape /\ GrantInv /\ LogInv

(***************************************************************************)
(* Initial states.                                                         *)
(***************************************************************************)
LEMMA InitHolds == Init => IInv
<1> SUFFICES ASSUME Init PROVE IInv
  OBVIOUS
<1>1. /\ Len(Backlog) \in Nat /\ LegacyRows \in Nat /\ ApprovalTTL \in Nat
      /\ \A i \in 1..Len(Backlog) : Backlog[i] \in Actions
      /\ DOMAIN rows = 1..Len(Backlog) /\ DOMAIN used = {} /\ DOMAIN events = 1..LegacyRows
  BY GuardAssumption, ApprovalAssumption DEF Init
<1>2. \A a \in Actions : PendingRow(a, 0, 0) \in RowSet
  BY <1>1 DEF PendingRow, RowSet, Statuses
<1>3. \A i \in DOMAIN rows : /\ rows[i] \in RowSet
                             /\ rows[i].status = "pending" /\ rows[i].event = 0
  <2> SUFFICES ASSUME NEW i \in DOMAIN rows
               PROVE rows[i] \in RowSet /\ rows[i].status = "pending" /\ rows[i].event = 0
    OBVIOUS
  <2>1. rows[i] = PendingRow(Backlog[i], 0, 0) /\ Backlog[i] \in Actions
    BY <1>1 DEF Init
  <2> QED BY <1>2, <2>1 DEF PendingRow
<1>4. LegacyRow \in EventSet /\ LegacyRow.body.call = Nobody /\ ~ IsChained(LegacyRow)
  BY DEF LegacyRow, LegacyBody, EventSet, BodySet, Decisions, IsChained, Payloads, Versions
<1>5. \A i \in DOMAIN events : events[i] = LegacyRow
  BY <1>1 DEF Init
<1>6. rows \in Seq(RowSet) /\ Len(rows) = Len(Backlog)
  BY <1>1, <1>3 DEF Init
<1>7. events \in Seq(EventSet)
  BY <1>1, <1>4, <1>5 DEF Init
<1>8. /\ \A c \in Calls : call[c] = NewCall
      /\ \A o \in Operators : op[o] = NewOp /\ claims[o] = NoToken
  BY DEF Init
<1>9. Shape
  <2>1. NewOp \in OpSet
    BY DEF NewOp, OpSet, OpSteps
  <2>2. now \in Nat /\ used \in Seq(UseSet) /\ writer \in Calls \cup {Nobody}
    BY DEF Init
  <2>3. /\ claims \in [Operators -> ClaimSet \cup {NoToken}]
        /\ call \in [Calls -> CallSet] /\ op \in [Operators -> OpSet]
    BY <2>1, NewCallShape DEF Init
  <2> QED BY <1>6, <1>7, <2>2, <2>3 DEF Shape
<1>10. GrantInv
  <2>1. \A c \in Calls : CallOK(c, call[c], used, claims, Len(rows))
    BY <1>1, <1>8 DEF CallOK, NewCall
  <2>2. \A i \in DOMAIN rows : RowOK(i, rows[i], used, claims)
    BY <1>3 DEF RowOK
  <2>3. \A o \in Operators : OpOK(op[o], claims[o], Len(rows))
    BY <1>8 DEF OpOK, NewOp
  <2> QED BY <1>1, <2>1, <2>2, <2>3 DEF GrantInv, UsedOnce
<1>11. LogInv
  <2>1. ChainedRows(events) = {} /\ \A i \in DOMAIN events : ~ IsChained(events[i])
    BY <1>4, <1>5 DEF ChainedRows
  <2>2. ChainWritten(events)
    BY <1>5, <2>1 DEF ChainWritten, UnchainedOnlyBefore, VersionKnown, LegacyRow, LegacyBody
  <2>3. \A i \in DOMAIN events : events[i].body.call = Nobody
    BY <1>4, <1>5
  <2>4. \A c \in Calls : CallLogged(c, call[c], writer, events) /\ call[c].answer = "none"
    BY <1>8, <2>3, GuardAssumption DEF CallLogged, NewCall
  <2> QED BY <1>3, <2>2, <2>3, <2>4 DEF LogInv, LoggedOnce
<1> QED BY <1>9, <1>10, <1>11 DEF IInv

(***************************************************************************)
(* Steps that move one request and leave the tables alone.                 *)
(***************************************************************************)
LEMMA CallMoved ==
  ASSUME Shape, NEW c \in Calls, NEW r \in CallSet, Moved(c, r)
  PROVE  /\ call' \in [Calls -> CallSet] /\ call'[c] = r
         /\ \A d \in Calls : d # c => call'[d] = call[d]
BY DEF Shape, Moved

LEMMA QuietCall ==
  ASSUME IInv, NEW c \in Calls, NEW r \in CallSet, Moved(c, r),
         UNCHANGED <<now, rows, used, claims, events, op>>,
         writer' \in Calls \cup {Nobody},
         CallOK(c, r, used, claims, Len(rows)), CallLogged(c, r, writer', events),
         \A d \in Calls : d # c /\ call[d].step = "logging" => writer' = writer
  PROVE  IInv'
<1>1. /\ call' \in [Calls -> CallSet] /\ call'[c] = r
      /\ \A d \in Calls : d # c => call'[d] = call[d]
  BY CallMoved DEF IInv
<1>2. Shape'
  BY <1>1 DEF IInv, Shape
<1>3. GrantInv'
  <2>1. \A d \in Calls : CallOK(d, call'[d], used, claims, Len(rows))
    BY <1>1 DEF IInv, GrantInv
  <2> QED BY <2>1 DEF IInv, GrantInv
<1>4. LogInv'
  <2>1. \A d \in Calls : /\ CallLogged(d, call'[d], writer', events)
                         /\ call'[d].step # "answered" => call'[d].answer = "none"
    <3> SUFFICES ASSUME NEW d \in Calls
                 PROVE  /\ CallLogged(d, call'[d], writer', events)
                        /\ call'[d].step # "answered" => call'[d].answer = "none"
      OBVIOUS
    <3>1. CASE d = c
      BY <1>1, <3>1 DEF CallOK
    <3>2. CASE d # c
      BY <1>1, <3>2 DEF IInv, LogInv, CallLogged
    <3> QED BY <3>1, <3>2
  <2> QED BY <2>1 DEF IInv, LogInv
<1> QED BY <1>2, <1>3, <1>4 DEF IInv

LEMMA CallFacts ==
  ASSUME IInv, NEW c \in Calls
  PROVE  /\ Shape /\ call[c] \in CallSet /\ CallOK(c, call[c], used, claims, Len(rows))
         /\ CallLogged(c, call[c], writer, events)
BY ShapeFacts DEF IInv, GrantInv, LogInv

LEMMA EvaluateKeeps ==
  ASSUME IInv, NEW c \in Calls, NEW action \in Actions, NEW payload \in Payloads,
         NEW token \in Signed \cup {NoToken}, NEW decision \in Outcomes,
         Evaluate(c, action, payload, token, decision)
  PROVE  IInv'
<1>1. /\ call[c].step = "idle" /\ UNCHANGED <<now, rows, used, claims, events, writer, op>>
  BY DEF Evaluate
<1>2. PICK r \in CallSet :
         /\ Moved(c, r) /\ r.action = action /\ r.policy = decision
         /\ r.event = call[c].event /\ r.answer = call[c].answer /\ r.head = call[c].head
         /\ \/ /\ r.step = "decided" /\ r.decision \in {decision, "block"} /\ r.approval = 0
            \/ /\ r.step = "consuming" /\ r.decision = "require_approval"
               /\ token \in Signed /\ r.token = token
               /\ r.approval = claims[token].approval
               /\ ScopeMatches(claims[token].action, action)
  BY EvaluateMoves, CallFacts
<1>3. call[c].answer = "none"
  BY <1>1, CallFacts DEF CallOK
<1>4. CallOK(c, r, used, claims, Len(rows))
  <2>1. r.step = "consuming" =>
          /\ r.token \in Operators /\ claims[r.token] \in ClaimSet
          /\ claims[r.token].approval = r.approval /\ r.approval \in 1..Len(rows)
          /\ ScopeMatches(claims[r.token].action, r.action)
    <3>1. token \in Signed => /\ token \in Operators /\ claims[token] # NoToken
                              /\ claims[token] \in ClaimSet
                              /\ claims[token].approval \in 1..Len(rows)
      BY ShapeFacts DEF Signed, IInv, GrantInv, OpOK
    <3> QED BY <1>2, <3>1
  <2>2. \A j \in DOMAIN used : used[j].call # c
    BY <1>1, CallFacts DEF CallOK
  <2> QED BY <1>2, <1>3, <2>1, <2>2 DEF CallOK
<1>5. CallLogged(c, r, writer, events)
  BY <1>1, <1>2, <1>3, CallFacts DEF CallLogged
<1> QED BY <1>1, <1>2, <1>4, <1>5, QuietCall, CallFacts DEF Shape

LEMMA RejectTokenKeeps ==
  ASSUME IInv, NEW c \in Calls, RejectToken(c)
  PROVE  IInv'
<1> DEFINE r == [call[c] EXCEPT !.decision = "block", !.approval = 0, !.token = NoToken,
                                !.step = "decided"]
<1>1. Moved(c, r) /\ call[c].step = "consuming"
      /\ UNCHANGED <<now, rows, used, claims, events, writer, op>>
  BY DEF RejectToken, Moved
<1>2. r \in CallSet
  BY CallFacts DEF CallSet, CallSteps, Decisions
<1>3. /\ r.decision = "block" /\ r.step = "decided" /\ r.answer = call[c].answer
      /\ r.action = call[c].action /\ call[c].answer = "none"
  BY <1>1, CallFacts DEF CallSet, CallOK
<1> HIDE DEF r
<1>4. CallOK(c, r, used, claims, Len(rows)) /\ CallLogged(c, r, writer, events)
  BY <1>1, <1>3, CallFacts DEF CallOK, CallLogged
<1> QED BY <1>1, <1>2, <1>4, QuietCall, CallFacts DEF Shape

LEMMA LogBeginKeeps ==
  ASSUME IInv, NEW c \in Calls, LogBegin(c)
  PROVE  IInv'
<1> DEFINE r == [call[c] EXCEPT !.step = "logging", !.head = HeadHash(events)]
<1>1. Moved(c, r) /\ call[c].step = "decided" /\ writer = Nobody /\ writer' = c
      /\ UNCHANGED <<now, rows, used, claims, events, op>>
  BY DEF LogBegin, Moved, Unlocked
<1>2. HeadHash(events) \in Seq(BodySet)
  BY HeadShape DEF IInv, Shape, LogInv, ChainWritten
<1>3. r \in CallSet
  BY <1>2, CallFacts DEF CallSet, CallSteps
<1>4. /\ r.step = "logging" /\ r.head = HeadHash(events) /\ r.policy = call[c].policy
      /\ r.action = call[c].action
      /\ r.decision = call[c].decision /\ r.approval = call[c].approval
      /\ r.answer = call[c].answer /\ call[c].answer = "none"
  BY <1>1, CallFacts DEF CallSet, CallOK
<1> HIDE DEF r
<1>5. CallOK(c, r, used, claims, Len(rows)) /\ CallLogged(c, r, writer', events)
  <2>1. CallOK(c, r, used, claims, Len(rows))
    BY <1>1, <1>4, CallFacts DEF CallOK
  <2>2. \A i \in DOMAIN events : events[i].body.call # c
    BY <1>1, CallFacts DEF CallLogged
  <2>3. CallLogged(c, r, writer', events)
    BY <1>1, <1>4, <2>2 DEF CallLogged
  <2> QED BY <2>1, <2>3
<1>6. \A d \in Calls : call[d].step # "logging"
  BY <1>1, CallFacts, GuardAssumption DEF CallLogged
<1> QED BY <1>1, <1>3, <1>5, <1>6, QuietCall

LEMMA LogFailsKeeps ==
  ASSUME IInv, NEW c \in Calls, LogFails(c)
  PROVE  IInv'
<1> DEFINE r == Recorded(c, 0)
<1>1. Moved(c, r) /\ call[c].step \in {"decided", "logging"}
      /\ writer' = (IF writer = c THEN Nobody ELSE writer)
      /\ UNCHANGED <<now, rows, used, claims, events, op>>
  BY DEF LogFails, Moved
<1>2. /\ r \in CallSet
      /\ r.action = call[c].action /\ r.policy = call[c].policy
      /\ r.decision = call[c].decision /\ r.approval = call[c].approval
      /\ r.event = 0 /\ r.step \in {"recorded", "answered"}
      /\ r.step = "recorded" <=> call[c].decision = "require_approval"
      /\ r.answer # "none" => r.step = "answered"
      /\ r.answer # "run"
  BY RecordedMoves, CallFacts
<1> HIDE DEF r
<1>3. CallOK(c, r, used, claims, Len(rows)) /\ CallLogged(c, r, writer', events)
  <2>1. CallOK(c, r, used, claims, Len(rows))
    BY <1>1, <1>2, CallFacts DEF CallOK
  <2>2. CallLogged(c, r, writer', events)
    BY <1>1, <1>2 DEF CallLogged
  <2> QED BY <2>1, <2>2
<1>4. \A d \in Calls : d # c /\ call[d].step = "logging" => writer' = writer
  BY <1>1, CallFacts DEF CallLogged
<1> QED BY <1>1, <1>2, <1>3, <1>4, QuietCall, CallFacts DEF Shape

LEMMA CreateFailsKeeps ==
  ASSUME IInv, NEW c \in Calls, CreateFails(c)
  PROVE  IInv'
<1> DEFINE r == [call[c] EXCEPT !.answer = "unavailable", !.step = "answered"]
<1>1. Moved(c, r) /\ call[c].step = "recorded"
      /\ UNCHANGED <<now, rows, used, claims, events, writer, op>>
  BY DEF CreateFails, Moved
<1>2. r \in CallSet
  BY CallFacts DEF CallSet, CallSteps, Answers
<1>3. /\ r.answer = "unavailable" /\ r.step = "answered" /\ r.policy = call[c].policy
      /\ r.action = call[c].action
      /\ r.decision = call[c].decision /\ r.approval = call[c].approval
  BY CallFacts DEF CallSet
<1> HIDE DEF r
<1>4. CallOK(c, r, used, claims, Len(rows)) /\ CallLogged(c, r, writer, events)
  BY <1>1, <1>3, CallFacts DEF CallOK, CallLogged
<1> QED BY <1>1, <1>2, <1>4, QuietCall, CallFacts DEF Shape

(***************************************************************************)
(* The append to the audit log.                                            *)
(***************************************************************************)
\* the bodies the server logs
Stamped == {b \in BodySet : b.version = "1"}

\* new is the chain ev with one more row, of this body
OneMore(new, ev, body) ==
  /\ ChainWritten(new) /\ new \in Seq(EventSet)
  /\ Len(new) = Len(ev) + 1 /\ Len(ev) \in Nat
  /\ DOMAIN new = DOMAIN ev \cup {Len(ev) + 1} /\ Len(ev) + 1 \notin DOMAIN ev
  /\ \A i \in DOMAIN ev : new[i] = ev[i]
  /\ new[Len(ev) + 1].body = body

\* a row bound to the head of the chain extends it
LEMMA ChainGrows ==
  ASSUME NEW ev \in Seq(EventSet), ChainWritten(ev), NEW body \in Stamped, NEW new,
         new = Logged(ev, body, HeadHash(ev))
  PROVE  OneMore(new, ev, body)
<1> DEFINE head == HeadHash(ev)
           row == NewRow(body, head)
           n == Len(ev) + 1
<1>1. Len(ev) \in Nat /\ body \in BodySet /\ body.version = "1"
  BY SeqFacts DEF Stamped
<1> DEFINE Link(e, i) == PrevHolds(e, i) /\ e[i].hash = HashOf(e[i].body, e[i].prev)
<1>2. UnchainedOnlyBefore(ev) /\ \A i \in ChainedRows(ev) : Link(ev, i)
  BY DEF ChainWritten
<1>3. head \in Seq(BodySet)
  BY <1>2, HeadShape
<1>4. head = IF ChainedRows(ev) = {} THEN GenesisHash ELSE ev[Len(ev)].hash
  BY <1>2, HeadFacts
<1>5. ChainedRows(ev) # {} => Len(ev) \in ChainedRows(ev)
  BY <1>2, HeadFacts
<1> HIDE DEF head
<1>6. HashOf(body, head) \in Seq(BodySet) /\ HashOf(body, head) # Unchained
  BY <1>1, <1>3, AppendFacts, ChainAssumption DEF HashOf
<1>7. /\ row \in EventSet /\ row.body = body /\ row.prev = head
      /\ row.hash = HashOf(body, head)
  BY <1>1, <1>3, <1>6 DEF NewRow, EventSet
<1> HIDE DEF row
<1>8. /\ new \in Seq(EventSet) /\ Len(new) = n /\ n \notin DOMAIN ev
      /\ DOMAIN new = DOMAIN ev \cup {n} /\ new[n] = row
      /\ \A i \in DOMAIN ev : new[i] = ev[i]
  <2>1. new = Append(ev, row)
    BY DEF Logged, row, head
  <2> QED BY <1>7, <2>1, AppendFacts
<1>9. Len(ev) \in Nat /\ DOMAIN ev = 1..Len(ev)
  BY SeqFacts
<1>10. ChainedRows(new) = ChainedRows(ev) \cup {n}
  BY <1>6, <1>7, <1>8 DEF ChainedRows, IsChained
<1>11. UnchainedOnlyBefore(new)
  <2> SUFFICES ASSUME NEW i \in DOMAIN new, NEW j \in DOMAIN new,
                      IsChained(new[i]), i < j
               PROVE  IsChained(new[j])
    BY DEF UnchainedOnlyBefore
  <2>1. CASE j = n
    BY <1>6, <1>7, <1>8, <2>1 DEF IsChained
  <2>2. CASE j \in DOMAIN ev
    <3>1. i \in DOMAIN ev
      BY <1>8, <1>9, <2>2
    <3> QED BY <1>2, <1>8, <2>2, <3>1 DEF UnchainedOnlyBefore
  <2> QED BY <1>8, <2>1, <2>2
<1>12. \A i \in ChainedRows(new) : Link(new, i)
  <2> SUFFICES ASSUME NEW i \in ChainedRows(new)
               PROVE  Link(new, i)
    OBVIOUS
  <2>1. CASE i = n
    <3>1. n - 1 = Len(ev) /\ n - 1 # n
      BY <1>1
    <3>2. n - 1 \in ChainedRows(new) <=> ChainedRows(ev) # {}
      BY <1>5, <1>10, <3>1
    <3>3. Len(ev) \in ChainedRows(ev) => new[Len(ev)] = ev[Len(ev)]
      BY <1>8 DEF ChainedRows
    <3>4. ExpectedPrev(new, n) = head
      BY <1>4, <1>5, <3>1, <3>2, <3>3 DEF ExpectedPrev
    <3> QED BY <1>7, <1>8, <2>1, <3>4 DEF PrevHolds
  <2>2. CASE i # n
    <3>1. i \in ChainedRows(ev) /\ i \in DOMAIN ev /\ new[i] = ev[i]
      BY <1>8, <1>10, <2>2 DEF ChainedRows
    <3>2. i - 1 # n
      BY <1>9, <3>1
    <3>3. i - 1 \in ChainedRows(new) <=> i - 1 \in ChainedRows(ev)
      BY <1>10, <3>2
    <3>4. i - 1 \in ChainedRows(ev) => new[i - 1] = ev[i - 1]
      BY <1>8 DEF ChainedRows
    <3>5. ExpectedPrev(new, i) = ExpectedPrev(ev, i)
      BY <3>3, <3>4 DEF ExpectedPrev
    <3> QED BY <1>2, <3>1, <3>5 DEF PrevHolds
  <2> QED BY <2>1, <2>2
<1>13. \A i \in DOMAIN new : VersionKnown(new[i])
  BY <1>1, <1>7, <1>8 DEF ChainWritten, VersionKnown, SupportedVersions
<1> QED BY <1>7, <1>8, <1>9, <1>11, <1>12, <1>13 DEF ChainWritten, OneMore

LEMMA LogCommitKeeps ==
  ASSUME IInv, NEW c \in Calls, LogCommit(c)
  PROVE  IInv'
<1> DEFINE n == Len(events) + 1
<1>1. /\ call[c].step = "logging" /\ UNCHANGED <<now, rows, used, claims, op>>
      /\ events' = Logged(events, Body(c), call[c].head) /\ writer' = Nobody
  BY DEF LogCommit
<1>2. call[c] \in CallSet /\ events \in Seq(EventSet) /\ ChainWritten(events)
  BY CallFacts DEF IInv, Shape, LogInv
<1>3. Body(c) \in BodySet /\ Body(c).version = "1"
  BY <1>2 DEF Body, BodySet, CallSet, Versions
<1>4. call[c].head = HeadHash(events) /\ writer = c
  BY <1>1, CallFacts DEF CallLogged
<1> DEFINE new == Logged(events, Body(c), HeadHash(events))
<1>5. events' = new
  BY <1>1, <1>4
<1>6. /\ ChainWritten(new) /\ new \in Seq(EventSet) /\ Body(c) \in BodySet
      /\ Len(new) = n /\ Len(events) \in Nat
      /\ DOMAIN new = DOMAIN events \cup {n} /\ n \notin DOMAIN events
      /\ \A i \in DOMAIN events : new[i] = events[i]
      /\ new[n].body = Body(c)
  <2>1. Body(c) \in Stamped
    BY <1>3 DEF Stamped
  <2> HIDE DEF new
  <2>2. OneMore(new, events, Body(c))
    BY <1>2, <2>1, ChainGrows DEF new
  <2> QED BY <1>3, <2>2 DEF OneMore
<1> HIDE DEF new
<1>7. /\ ChainWritten(events') /\ events' \in Seq(EventSet)
      /\ Len(events') = n /\ Len(events) \in Nat
      /\ DOMAIN events' = DOMAIN events \cup {n} /\ n \notin DOMAIN events
      /\ \A i \in DOMAIN events : events'[i] = events[i]
      /\ events'[n].body = Body(c)
  BY <1>5, <1>6
<1>8. /\ Body(c).call = c /\ Body(c).action = call[c].action
      /\ Body(c).decision = call[c].decision /\ Body(c).approval = call[c].approval
      /\ Body(c) = [call |-> c, action |-> call[c].action, decision |-> call[c].decision,
                    approval |-> call[c].approval, payload |-> call[c].payload,
                    version |-> "1"]
  BY DEF Body
<1>9. PICK id \in {n, 0} : Moved(c, Recorded(c, id))
  BY <1>7 DEF LogCommit, Moved
<1> DEFINE r == Recorded(c, id)
<1>10. /\ r \in CallSet
       /\ r.action = call[c].action /\ r.policy = call[c].policy
       /\ r.payload = call[c].payload
       /\ r.decision = call[c].decision /\ r.approval = call[c].approval
       /\ r.event = id /\ r.step \in {"recorded", "answered"}
       /\ r.step = "recorded" <=> call[c].decision = "require_approval"
       /\ r.answer # "none" => r.step = "answered"
       /\ r.answer = "run" => call[c].decision = "allow" /\ id # 0
  BY <1>2, <1>7, RecordedMoves, CallFacts
<1>11. Moved(c, r)
  BY <1>9
<1> HIDE DEF r, n
<1>12. /\ call' \in [Calls -> CallSet] /\ call'[c] = r
       /\ \A d \in Calls : d # c => call'[d] = call[d]
  BY <1>10, <1>11, CallMoved DEF IInv
<1>13. Shape'
  BY <1>1, <1>7, <1>12 DEF IInv, Shape
<1>14. \A i \in DOMAIN events : events[i].body.call # c
  BY <1>1, CallFacts DEF CallLogged
<1>15. \A e, action : Refusal(events, e, action) => Refusal(events', e, action)
  BY <1>7 DEF Refusal
<1>16. CallOK(c, r, used, claims, Len(rows))
  BY <1>1, <1>10, CallFacts DEF CallOK
<1>17. GrantInv'
  <2>1. \A d \in Calls : CallOK(d, call'[d], used, claims, Len(rows))
    BY <1>12, <1>16 DEF IInv, GrantInv
  <2> QED BY <1>1, <2>1 DEF IInv, GrantInv
<1>18. CallLogged(c, r, Nobody, events')
  <2>1. r.event # 0 => r.event = n
    BY <1>10
  <2>2. r.step = "recorded" /\ r.event # 0 => Refusal(events', r.event, r.action)
    BY <1>7, <1>8, <1>10, <2>1 DEF Refusal
  <2>3. r.answer = "run" => r.event \in DOMAIN events' /\ events'[r.event].body = Body(c)
    BY <1>7, <1>10, <2>1
  <2> QED BY <1>8, <1>10, <2>2, <2>3 DEF CallLogged
<1>19. ASSUME NEW d \in Calls, d # c
       PROVE  CallLogged(d, call[d], Nobody, events')
  <2>1. CallLogged(d, call[d], writer, events) /\ call[d].step # "logging"
    BY <1>4, <1>19, CallFacts DEF CallLogged
  <2>2. call[d].step \in {"idle", "consuming", "decided", "logging"} =>
          \A i \in DOMAIN events' : events'[i].body.call # d
    BY <1>7, <1>8, <1>19, <2>1 DEF CallLogged
  <2>3. call[d].answer = "run" =>
          /\ call[d].event \in DOMAIN events'
          /\ events'[call[d].event].body = events[call[d].event].body
    BY <1>7, <2>1 DEF CallLogged
  <2> QED BY <1>15, <2>1, <2>2, <2>3 DEF CallLogged
<1>20. LoggedOnce(events')
  <2>1. LoggedOnce(events)
    BY DEF IInv, LogInv
  <2> QED BY <1>7, <1>8, <1>14, <2>1 DEF LoggedOnce
<1>21. LogInv'
  <2>1. ASSUME NEW d \in Calls
        PROVE  /\ CallLogged(d, call'[d], writer', events')
               /\ call'[d].step # "answered" => call'[d].answer = "none"
    <3>1. CASE d = c
      BY <1>1, <1>10, <1>12, <1>18, <3>1
    <3>2. CASE d # c
      <4>1. call[d].step # "answered" => call[d].answer = "none"
        BY DEF IInv, LogInv
      <4> QED BY <1>1, <1>12, <1>19, <3>2, <4>1
    <3> QED BY <3>1, <3>2
  <2>2. \A i \in DOMAIN rows :
          rows[i].event # 0 => Refusal(events', rows[i].event, rows[i].action)
    BY <1>15 DEF IInv, LogInv
  <2> QED BY <1>1, <1>7, <1>20, <2>1, <2>2 DEF LogInv
<1> QED BY <1>13, <1>17, <1>21 DEF IInv

(***************************************************************************)
(* Resolutions.                                                            *)
(***************************************************************************)
\* an operator who has not answered yet signed nothing, and acts on a row that exists
LEMMA OpFacts ==
  ASSUME IInv, NEW o \in Operators, op[o].step \notin {"idle", "done"}
  PROVE  /\ op[o].approval \in DOMAIN rows /\ rows[op[o].approval] \in RowSet
         /\ claims[o] = NoToken /\ NoToken \notin ClaimSet
BY ShapeFacts, ClaimAssumption DEF IInv, GrantInv, OpOK

LEMMA ResolutionKeeps ==
  ASSUME IInv, NEW o \in Operators, op[o].step \notin {"idle", "done"},
         NEW i, i = op[o].approval, NEW new \in RowSet,
         rows' = [rows EXCEPT ![i] = new],
         new.event = rows[i].event, new.action = rows[i].action,
         op' = [op EXCEPT ![o] = Done],
         claims' \in [Operators -> ClaimSet \cup {NoToken}],
         \A t \in Operators : t # o => claims'[t] = claims[t],
         claims'[o] # NoToken => claims'[o].approval = i,
         RowOK(i, new, used, claims'),
         UNCHANGED <<now, used, events, writer, call>>
  PROVE  IInv'
<1>1. /\ i \in DOMAIN rows /\ claims[o] = NoToken /\ NoToken \notin ClaimSet
      /\ Len(rows) \in Nat /\ DOMAIN rows = 1..Len(rows)
  BY OpFacts, ShapeFacts DEF IInv
<1>2. /\ rows' \in Seq(RowSet) /\ DOMAIN rows' = DOMAIN rows /\ Len(rows') = Len(rows)
      /\ rows'[i] = new /\ \A j \in DOMAIN rows : j # i => rows'[j] = rows[j]
  BY <1>1 DEF IInv, Shape
<1>3. Done \in OpSet /\ op'[o] = Done /\ \A p \in Operators : p # o => op'[p] = op[p]
  BY DEF IInv, Shape, Done, OpSet, OpSteps
<1>4. Shape'
  <2>1. op' \in [Operators -> OpSet]
    BY <1>3 DEF IInv, Shape
  <2> QED BY <1>2, <2>1 DEF IInv, Shape
<1>5. \A t \in Operators : claims[t] \in ClaimSet => claims'[t] = claims[t]
  BY <1>1
<1>6. GrantInv'
  <2>1. ASSUME NEW c \in Calls
        PROVE  CallOK(c, call[c], used, claims', Len(rows))
    <3>1. CallOK(c, call[c], used, claims, Len(rows))
      BY CallFacts
    <3> QED BY <1>5, <3>1 DEF CallOK
  <2>2. ASSUME NEW j \in DOMAIN rows
        PROVE  RowOK(j, rows'[j], used, claims')
    <3>1. CASE j = i
      BY <1>2, <3>1
    <3>2. CASE j # i
      <4>1. RowOK(j, rows[j], used, claims) /\ rows'[j] = rows[j]
        BY <1>2, <3>2 DEF IInv, GrantInv
      <4> QED BY <1>5, <4>1 DEF RowOK
    <3> QED BY <3>1, <3>2
  <2>3. ASSUME NEW j \in DOMAIN used
        PROVE  UseOK(used[j], claims')
    <3>1. UseOK(used[j], claims) /\ used[j].token \in Operators
      BY ShapeFacts DEF IInv, GrantInv, UseSet
    <3> QED BY <1>5, <3>1 DEF UseOK
  <2>4. ASSUME NEW p \in Operators
        PROVE  OpOK(op'[p], claims'[p], Len(rows))
    <3>1. CASE p = o
      BY <1>1, <1>3, <3>1 DEF OpOK, Done
    <3>2. CASE p # o
      BY <1>3, <3>2 DEF IInv, GrantInv
    <3> QED BY <3>1, <3>2
  <2>5. UsedOnce(used)
    BY DEF IInv, GrantInv
  <2> QED BY <1>2, <2>1, <2>2, <2>3, <2>4, <2>5 DEF GrantInv
<1>7. LogInv'
  <2>1. ASSUME NEW j \in DOMAIN rows
        PROVE  rows'[j].event # 0 => Refusal(events, rows'[j].event, rows'[j].action)
    <3>1. rows'[j].event = rows[j].event /\ rows'[j].action = rows[j].action
      BY <1>2
    <3> QED BY <3>1 DEF IInv, LogInv
  <2> QED BY <1>2, <2>1 DEF IInv, LogInv
<1> QED BY <1>4, <1>6, <1>7 DEF IInv

LEMMA MarkExpiredKeeps ==
  ASSUME IInv, NEW o \in Operators, MarkExpired(o)
  PROVE  IInv'
<1> DEFINE i == op[o].approval
           new == ExpiredRow(rows[i])
<1>1. /\ op[o].step \notin {"idle", "done"} /\ rows' = [rows EXCEPT ![i] = new]
      /\ op' = [op EXCEPT ![o] = Done] /\ UNCHANGED <<now, used, claims, events, writer, call>>
  BY DEF MarkExpired
<1>2. rows[i] \in RowSet /\ claims[o] = NoToken
  BY <1>1, OpFacts
<1>3. new \in RowSet /\ new.status = "expired"
      /\ new.event = rows[i].event /\ new.action = rows[i].action
  BY <1>2 DEF ExpiredRow, RowSet, Statuses
<1>4. claims \in [Operators -> ClaimSet \cup {NoToken}]
  BY DEF IInv, Shape
<1> HIDE DEF new
<1>5. RowOK(i, new, used, claims)
  BY <1>3 DEF RowOK
<1> QED BY <1>1, <1>2, <1>3, <1>4, <1>5, ResolutionKeeps

LEMMA DenyKeeps ==
  ASSUME IInv, NEW o \in Operators, Deny(o)
  PROVE  IInv'
<1> DEFINE i == op[o].approval
           new == DeniedRow(rows[i])
<1>1. /\ op[o].step \notin {"idle", "done"} /\ rows' = [rows EXCEPT ![i] = new]
      /\ op' = [op EXCEPT ![o] = Done] /\ UNCHANGED <<now, used, claims, events, writer, call>>
  BY DEF Deny
<1>2. rows[i] \in RowSet /\ claims[o] = NoToken
  BY <1>1, OpFacts
<1>3. new \in RowSet /\ new.status = "denied"
      /\ new.event = rows[i].event /\ new.action = rows[i].action
  BY <1>2 DEF DeniedRow, RowSet, Statuses
<1>4. claims \in [Operators -> ClaimSet \cup {NoToken}]
  BY DEF IInv, Shape
<1> HIDE DEF new
<1>5. RowOK(i, new, used, claims)
  BY <1>3 DEF RowOK
<1> QED BY <1>1, <1>2, <1>3, <1>4, <1>5, ResolutionKeeps

LEMMA ApproveKeeps ==
  ASSUME IInv, NEW o \in Operators, Approve(o)
  PROVE  IInv'
<1> DEFINE i == op[o].approval
           new == ApprovedRow(rows[i], o)
           claim == [approval |-> i, action |-> rows[i].action, deadline |-> rows[i].deadline]
<1>1. /\ op[o].step \notin {"idle", "done"} /\ rows' = [rows EXCEPT ![i] = new]
      /\ claims' = [claims EXCEPT ![o] = claim]
      /\ op' = [op EXCEPT ![o] = Done] /\ UNCHANGED <<now, used, events, writer, call>>
  BY DEF Approve
<1>2. /\ i \in DOMAIN rows /\ rows[i] \in RowSet /\ claims[o] = NoToken
      /\ NoToken \notin ClaimSet /\ i \in Nat
  BY <1>1, OpFacts, ShapeFacts DEF IInv
<1>3. new \in RowSet /\ new.token = o
      /\ new.event = rows[i].event /\ new.action = rows[i].action
  BY <1>2 DEF ApprovedRow, RowSet, Statuses
<1>4. claim \in ClaimSet /\ claim.approval = i
  BY <1>2 DEF ClaimSet, RowSet
<1> HIDE DEF new, claim
<1>5. /\ claims' \in [Operators -> ClaimSet \cup {NoToken}] /\ claims'[o] = claim
      /\ \A t \in Operators : t # o => claims'[t] = claims[t]
  BY <1>1, <1>4 DEF IInv, Shape
<1>6. \A j \in DOMAIN used : used[j].token # o
  BY <1>2 DEF IInv, GrantInv, UseOK
<1>7. RowOK(i, new, used, claims')
  BY <1>3, <1>4, <1>5, <1>6 DEF RowOK
<1> QED BY <1>1, <1>3, <1>4, <1>5, <1>7, ResolutionKeeps

LEMMA OpMoves ==
  ASSUME IInv, NEW o \in Operators, NEW p \in OpSet, op' = [op EXCEPT ![o] = p],
         OpOK(p, claims[o], Len(rows)),
         UNCHANGED <<now, rows, used, claims, events, writer, call>>
  PROVE  IInv'
<1>1. op' \in [Operators -> OpSet] /\ op'[o] = p /\ \A q \in Operators : q # o => op'[q] = op[q]
  BY DEF IInv, Shape
<1>2. Shape'
  BY <1>1 DEF IInv, Shape
<1>3. \A q \in Operators : OpOK(op'[q], claims[q], Len(rows))
  BY <1>1 DEF IInv, GrantInv
<1>4. GrantInv' /\ LogInv'
  BY <1>3 DEF IInv, GrantInv, LogInv
<1> QED BY <1>2, <1>4 DEF IInv

LEMMA ReadRowKeeps ==
  ASSUME IInv, NEW o \in Operators, NEW i \in DOMAIN rows, NEW verb \in {"approving", "denying"},
         ReadRow(o, i, verb)
  PROVE  IInv'
<1> DEFINE p == IF rows[i].status = "pending" THEN [step |-> verb, approval |-> i] ELSE Done
<1>1. /\ op[o].step = "idle" /\ op' = [op EXCEPT ![o] = p]
      /\ UNCHANGED <<now, rows, used, claims, events, writer, call>>
  BY DEF ReadRow
<1>2. claims[o] = NoToken /\ i \in 1..Len(rows) /\ i \in Nat
  BY <1>1, ShapeFacts DEF IInv, GrantInv, OpOK
<1>3. p \in OpSet
  BY <1>2 DEF OpSet, OpSteps, Done
<1>4. OpOK(p, claims[o], Len(rows))
  BY <1>2 DEF OpOK, Done
<1> HIDE DEF p
<1> QED BY <1>1, <1>3, <1>4, OpMoves

LEMMA CheckDeadlineKeeps ==
  ASSUME IInv, NEW o \in Operators, CheckDeadline(o)
  PROVE  IInv'
<1> DEFINE s == IF rows[op[o].approval].deadline < now THEN "expiring" ELSE "signing"
           p == [op[o] EXCEPT !.step = s]
<1>1. /\ op[o].step = "approving" /\ op' = [op EXCEPT ![o] = p]
      /\ UNCHANGED <<now, rows, used, claims, events, writer, call>>
  BY DEF CheckDeadline
<1>2. op[o] \in OpSet /\ OpOK(op[o], claims[o], Len(rows)) /\ s \in {"expiring", "signing"}
  BY ShapeFacts DEF IInv, GrantInv
<1> HIDE DEF s
<1>3. p \in OpSet /\ p.step = s /\ p.approval = op[o].approval
  BY <1>2 DEF OpSet, OpSteps
<1> HIDE DEF p
<1>4. OpOK(p, claims[o], Len(rows))
  BY <1>1, <1>2, <1>3 DEF OpOK
<1> QED BY <1>1, <1>3, <1>4, OpMoves

(***************************************************************************)
(* Steps that write the approval tables for a call.                        *)
(***************************************************************************)
LEMMA ConsumeFacts ==
  ASSUME IInv, NEW c \in Calls, Consume(c)
  PROVE  LET i == call[c].approval
             t == call[c].token IN
         /\ i \in DOMAIN rows /\ t \in Operators /\ claims[t] \in ClaimSet
         /\ rows[i].status = "approved" /\ rows[i].token = t /\ claims[t].approval = i
         /\ ScopeMatches(claims[t].action, call[c].action)
         /\ \A j \in DOMAIN used : used[j].token # t /\ used[j].call # c
<1>1. call[c].step = "consuming" /\ Usable(rows[call[c].approval], call[c].token, now)
  BY DEF Consume
<1>2. /\ call[c].token \in Operators /\ claims[call[c].token] \in ClaimSet
      /\ claims[call[c].token].approval = call[c].approval
      /\ call[c].approval \in DOMAIN rows
      /\ ScopeMatches(claims[call[c].token].action, call[c].action)
      /\ \A j \in DOMAIN used : used[j].call # c
  BY <1>1, CallFacts, ShapeFacts DEF CallOK
<1>3. RowOK(call[c].approval, rows[call[c].approval], used, claims)
  BY <1>2 DEF IInv, GrantInv
<1>4. rows[call[c].approval].status = "approved" /\ rows[call[c].approval].token = call[c].token
  BY <1>1, <1>3, GuardAssumption DEF Usable, RowOK
<1> QED BY <1>2, <1>3, <1>4 DEF RowOK

LEMMA ConsumeKeeps ==
  ASSUME IInv, NEW c \in Calls, Consume(c)
  PROVE  IInv'
<1> DEFINE i == call[c].approval
           t == call[c].token
           new == ConsumedRow(rows[i])
           use == [approval |-> i, token |-> t, call |-> c, action |-> call[c].action]
           r == [call[c] EXCEPT !.decision = "allow", !.token = NoToken, !.step = "decided"]
           m == Len(used) + 1
<1>1. /\ call[c].step = "consuming" /\ rows' = [rows EXCEPT ![i] = new]
      /\ used' = Append(used, use) /\ Moved(c, r)
      /\ UNCHANGED <<now, claims, events, writer, op>>
  BY DEF Consume, Moved
<1>2. /\ i \in DOMAIN rows /\ t \in Operators /\ claims[t] \in ClaimSet
      /\ rows[i].status = "approved" /\ rows[i].token = t /\ claims[t].approval = i
      /\ ScopeMatches(claims[t].action, call[c].action)
      /\ \A j \in DOMAIN used : used[j].token # t /\ used[j].call # c
  BY ConsumeFacts
<1>3. /\ rows[i] \in RowSet /\ call[c] \in CallSet /\ i \in Nat /\ Len(rows) \in Nat
      /\ Len(used) \in Nat /\ CallOK(c, call[c], used, claims, Len(rows))
      /\ CallLogged(c, call[c], writer, events)
  BY <1>2, ShapeFacts, CallFacts
<1>4. new \in RowSet /\ new.status = "consumed"
      /\ new.event = rows[i].event /\ new.action = rows[i].action
  BY <1>3 DEF ConsumedRow, RowSet, Statuses
<1>5. call[c].action \in Actions
  BY <1>1, <1>3 DEF CallOK
<1>6. /\ use \in UseSet /\ use.approval = i /\ use.token = t /\ use.call = c
      /\ use.action = call[c].action
  BY <1>2, <1>3, <1>5 DEF UseSet
<1>7. r \in CallSet
  BY <1>3 DEF CallSet, CallSteps, Decisions
<1>8. /\ r.decision = "allow" /\ r.step = "decided" /\ r.approval = i
      /\ r.action = call[c].action
      /\ r.answer = call[c].answer /\ call[c].answer = "none"
  BY <1>1, <1>3 DEF CallSet, CallOK
<1> HIDE DEF new, use, r
<1>9. /\ rows' \in Seq(RowSet) /\ DOMAIN rows' = DOMAIN rows /\ Len(rows') = Len(rows)
      /\ rows'[i] = new /\ \A j \in DOMAIN rows : j # i => rows'[j] = rows[j]
  BY <1>1, <1>2, <1>4 DEF IInv, Shape
<1>10. /\ used' \in Seq(UseSet) /\ DOMAIN used' = DOMAIN used \cup {m} /\ m \notin DOMAIN used
       /\ used'[m] = use /\ \A j \in DOMAIN used : used'[j] = used[j]
  BY <1>1, <1>6, AppendFacts DEF IInv, Shape
<1> HIDE DEF m
<1>11. /\ call' \in [Calls -> CallSet] /\ call'[c] = r
       /\ \A d \in Calls : d # c => call'[d] = call[d]
  BY <1>1, <1>7, CallMoved, CallFacts
<1>12. Shape'
  BY <1>1, <1>9, <1>10, <1>11 DEF IInv, Shape
<1>13. GrantInv'
  <2>1. ASSUME NEW d \in Calls
        PROVE  CallOK(d, call'[d], used', claims, Len(rows))
    <3>1. CASE d = c
      <4>1. used'[m].call = c /\ used'[m].approval = i /\ m \in DOMAIN used'
        BY <1>6, <1>10
      <4> QED BY <1>5, <1>8, <1>11, <3>1, <4>1 DEF CallOK
    <3>2. CASE d # c
      <4>1. CallOK(d, call[d], used, claims, Len(rows)) /\ call'[d] = call[d]
        BY <1>11, <3>2, CallFacts
      <4>2. (\A j \in DOMAIN used : used[j].call # d) => \A j \in DOMAIN used' : used'[j].call # d
        BY <1>6, <1>10, <3>2
      <4>3. (\E j \in DOMAIN used : used[j].call = d /\ used[j].approval = call[d].approval)
              => \E j \in DOMAIN used' : used'[j].call = d /\ used'[j].approval = call[d].approval
        BY <1>10
      <4> QED BY <4>1, <4>2, <4>3 DEF CallOK
    <3> QED BY <3>1, <3>2
  <2>2. ASSUME NEW j \in DOMAIN rows
        PROVE  RowOK(j, rows'[j], used', claims)
    <3>1. CASE j = i
      BY <1>4, <1>9, <3>1 DEF RowOK
    <3>2. CASE j # i
      <4>1. RowOK(j, rows[j], used, claims) /\ rows'[j] = rows[j]
        BY <1>9, <3>2 DEF IInv, GrantInv
      <4>2. rows[j].status = "approved" => rows[j].token # t
        BY <1>2, <3>2, <4>1 DEF RowOK
      <4> QED BY <1>6, <1>10, <4>1, <4>2 DEF RowOK
    <3> QED BY <3>1, <3>2
  <2>3. ASSUME NEW j \in DOMAIN used'
        PROVE  UseOK(used'[j], claims)
    <3>1. UseOK(use, claims)
      BY <1>2, <1>6 DEF UseOK
    <3> QED BY <1>10, <3>1 DEF IInv, GrantInv
  <2>4. UsedOnce(used')
    <3>1. UsedOnce(used)
      BY DEF IInv, GrantInv
    <3> QED BY <1>2, <1>6, <1>10, <3>1 DEF UsedOnce
  <2>5. \A o \in Operators : OpOK(op[o], claims[o], Len(rows))
    BY DEF IInv, GrantInv
  <2> QED BY <1>1, <1>9, <2>1, <2>2, <2>3, <2>4, <2>5 DEF GrantInv
<1>14. LogInv'
  <2>1. ASSUME NEW d \in Calls
        PROVE  /\ CallLogged(d, call'[d], writer, events)
               /\ call'[d].step # "answered" => call'[d].answer = "none"
    <3>1. CallLogged(c, r, writer, events)
      BY <1>1, <1>3, <1>8 DEF CallLogged
    <3> QED BY <1>8, <1>11, <3>1 DEF IInv, LogInv
  <2>2. ASSUME NEW j \in DOMAIN rows
        PROVE  rows'[j].event # 0 => Refusal(events, rows'[j].event, rows'[j].action)
    <3>1. rows'[j].event = rows[j].event /\ rows'[j].action = rows[j].action
      BY <1>4, <1>9
    <3> QED BY <3>1 DEF IInv, LogInv
  <2> QED BY <1>1, <1>9, <2>1, <2>2 DEF IInv, LogInv
<1> QED BY <1>12, <1>13, <1>14 DEF IInv

LEMMA CreatePendingKeeps ==
  ASSUME IInv, NEW c \in Calls, CreatePending(c)
  PROVE  IInv'
<1> DEFINE new == PendingRow(call[c].action, call[c].event, now)
           r == [call[c] EXCEPT !.answer = "approval_required", !.step = "answered"]
           n == Len(rows) + 1
<1>1. /\ call[c].step = "recorded" /\ rows' = Append(rows, new) /\ Moved(c, r)
      /\ UNCHANGED <<now, used, claims, events, writer, op>>
  BY DEF CreatePending, Moved
<1>2. /\ call[c] \in CallSet /\ Len(rows) \in Nat /\ now \in Nat /\ DOMAIN rows = 1..Len(rows)
      /\ CallOK(c, call[c], used, claims, Len(rows))
      /\ CallLogged(c, call[c], writer, events)
  BY ShapeFacts, CallFacts
<1>3. call[c].action \in Actions /\ call[c].event \in Nat
  BY <1>1, <1>2 DEF CallSet, CallOK
<1>4. new \in RowSet /\ new.status = "pending"
      /\ new.event = call[c].event /\ new.action = call[c].action
  BY <1>2, <1>3, ApprovalAssumption DEF PendingRow, RowSet, Statuses
<1>5. r \in CallSet
  BY <1>2 DEF CallSet, CallSteps, Answers
<1>6. /\ r.answer = "approval_required" /\ r.step = "answered" /\ r.policy = call[c].policy
      /\ r.action = call[c].action
      /\ r.decision = call[c].decision /\ r.approval = call[c].approval
  BY <1>2 DEF CallSet
<1> HIDE DEF new, r
<1>7. /\ rows' \in Seq(RowSet) /\ Len(rows') = n /\ DOMAIN rows' = DOMAIN rows \cup {n}
      /\ rows'[n] = new /\ n \notin DOMAIN rows /\ \A j \in DOMAIN rows : rows'[j] = rows[j]
  BY <1>1, <1>4, AppendFacts DEF IInv, Shape
<1>8. /\ call' \in [Calls -> CallSet] /\ call'[c] = r
      /\ \A d \in Calls : d # c => call'[d] = call[d]
  BY <1>1, <1>5, CallMoved, CallFacts
<1>9. 1..Len(rows) \subseteq 1..n
  BY <1>2
<1> HIDE DEF n
<1>10. Shape'
  BY <1>1, <1>7, <1>8 DEF IInv, Shape
<1>11. GrantInv'
  <2>1. ASSUME NEW d \in Calls
        PROVE  CallOK(d, call'[d], used, claims, n)
    <3>1. CASE d = c
      BY <1>2, <1>3, <1>6, <1>8, <3>1 DEF CallOK
    <3>2. CASE d # c
      <4>1. CallOK(d, call[d], used, claims, Len(rows)) /\ call'[d] = call[d]
        BY <1>8, <3>2, CallFacts
      <4> QED BY <1>9, <4>1 DEF CallOK
    <3> QED BY <3>1, <3>2
  <2>2. ASSUME NEW j \in DOMAIN rows'
        PROVE  RowOK(j, rows'[j], used, claims)
    <3>1. RowOK(n, new, used, claims)
      BY <1>4 DEF RowOK
    <3> QED BY <1>7, <3>1 DEF IInv, GrantInv
  <2>3. ASSUME NEW o \in Operators
        PROVE  OpOK(op[o], claims[o], n)
    <3>1. OpOK(op[o], claims[o], Len(rows))
      BY DEF IInv, GrantInv
    <3> QED BY <1>9, <3>1 DEF OpOK
  <2>4. UsedOnce(used) /\ \A j \in DOMAIN used : UseOK(used[j], claims)
    BY DEF IInv, GrantInv
  <2> QED BY <1>1, <1>7, <2>1, <2>2, <2>3, <2>4 DEF GrantInv
<1>12. LogInv'
  <2>1. ASSUME NEW d \in Calls
        PROVE  /\ CallLogged(d, call'[d], writer, events)
               /\ call'[d].step # "answered" => call'[d].answer = "none"
    <3>1. CallLogged(c, r, writer, events)
      BY <1>6 DEF CallLogged
    <3> QED BY <1>6, <1>8, <3>1 DEF IInv, LogInv
  <2>2. ASSUME NEW j \in DOMAIN rows'
        PROVE  rows'[j].event # 0 => Refusal(events, rows'[j].event, rows'[j].action)
    <3>1. new.event # 0 => Refusal(events, new.event, new.action)
      BY <1>1, <1>2, <1>4 DEF CallLogged
    <3> QED BY <1>7, <3>1 DEF IInv, LogInv
  <2> QED BY <1>1, <2>1, <2>2 DEF IInv, LogInv
<1> QED BY <1>10, <1>11, <1>12 DEF IInv

(***************************************************************************)
(* Crashes and the clock.                                                  *)
(***************************************************************************)
LEMMA CrashKeeps ==
  ASSUME IInv, Crash
  PROVE  IInv'
<1> DEFINE lost == [NewCall EXCEPT !.step = "lost"]
<1>1. /\ call' = [c \in Calls |-> IF call[c].step \in {"idle", "answered"} THEN call[c] ELSE lost]
      /\ op' = [o \in Operators |-> IF op[o].step = "idle" THEN op[o] ELSE Done]
      /\ writer' = Nobody /\ UNCHANGED <<now, rows, used, claims, events>>
  BY DEF Crash
<1>2. lost \in CallSet
  BY NewCallShape DEF CallSet, CallSteps
<1>3. lost.step = "lost" /\ lost.policy = "none" /\ lost.answer = "none"
  BY DEF NewCall
<1> HIDE DEF lost
<1>4. \A c \in Calls : call'[c] = (IF call[c].step \in {"idle", "answered"} THEN call[c] ELSE lost)
  BY <1>1
<1>5. \A o \in Operators : op'[o] = (IF op[o].step = "idle" THEN op[o] ELSE Done)
  BY <1>1
<1>6. Done \in OpSet /\ Done.step = "done"
  BY DEF Done, OpSet, OpSteps
<1>7. Shape'
  <2>1. call' \in [Calls -> CallSet]
    BY <1>1, <1>2, ShapeFacts DEF IInv
  <2>2. op' \in [Operators -> OpSet]
    BY <1>1, <1>6, ShapeFacts DEF IInv
  <2> QED BY <1>1, <2>1, <2>2 DEF IInv, Shape
<1>8. GrantInv'
  <2>1. ASSUME NEW c \in Calls
        PROVE  CallOK(c, call'[c], used, claims, Len(rows))
    <3>1. CallOK(c, call[c], used, claims, Len(rows))
      BY CallFacts
    <3>2. CallOK(c, lost, used, claims, Len(rows))
      BY <1>3 DEF CallOK
    <3> QED BY <1>4, <3>1, <3>2
  <2>2. ASSUME NEW o \in Operators
        PROVE  OpOK(op'[o], claims[o], Len(rows))
    <3>1. OpOK(op[o], claims[o], Len(rows))
      BY DEF IInv, GrantInv
    <3> QED BY <1>5, <1>6, <3>1 DEF OpOK
  <2> QED BY <1>1, <2>1, <2>2 DEF IInv, GrantInv
<1>9. LogInv'
  <2>1. ASSUME NEW c \in Calls
        PROVE  /\ CallLogged(c, call'[c], Nobody, events)
               /\ call'[c].step # "answered" => call'[c].answer = "none"
    <3>1. CallLogged(c, call[c], writer, events)
          /\ (call[c].step # "answered" => call[c].answer = "none")
      BY DEF IInv, LogInv
    <3>2. call[c].step \in {"idle", "answered"} => CallLogged(c, call[c], Nobody, events)
      BY <3>1 DEF CallLogged
    <3>3. CallLogged(c, lost, Nobody, events)
      BY <1>3 DEF CallLogged
    <3> QED BY <1>3, <1>4, <3>1, <3>2, <3>3
  <2> QED BY <1>1, <2>1 DEF IInv, LogInv
<1> QED BY <1>7, <1>8, <1>9 DEF IInv

LEMMA TickKeeps ==
  ASSUME IInv, Tick
  PROVE  IInv'
<1>1. now \in Nat /\ now' = now + 1 /\ UNCHANGED <<rows, used, claims, events, writer, call, op>>
  BY DEF IInv, Shape, Tick
<1>2. now' \in Nat
  BY <1>1
<1> QED BY <1>1, <1>2 DEF IInv, Shape, GrantInv, LogInv

LEMMA StutterKeeps ==
  ASSUME IInv, UNCHANGED vars
  PROVE  IInv'
BY DEF vars, IInv, Shape, GrantInv, LogInv

LEMMA NextKeeps == IInv /\ [Next]_vars => IInv'
<1> SUFFICES ASSUME IInv, [Next]_vars PROVE IInv'
  OBVIOUS
<1>1. ASSUME NEW c \in Calls, GuardStep(c)
      PROVE  IInv'
  <2>1. ASSUME NEW request \in Requests, NEW token \in Signed \cup {NoToken},
               NEW decision \in Outcomes,
               Evaluate(c, request[1], request[2], token, decision)
        PROVE  IInv'
    <3>1. request[1] \in Actions /\ request[2] \in Payloads
      BY GuardAssumption
    <3> QED BY <2>1, <3>1, EvaluateKeeps
  <2>2. Consume(c) => IInv'
    BY ConsumeKeeps
  <2>3. RejectToken(c) => IInv'
    BY RejectTokenKeeps
  <2>4. LogBegin(c) => IInv'
    BY LogBeginKeeps
  <2>5. LogCommit(c) => IInv'
    BY LogCommitKeeps
  <2>6. LogFails(c) => IInv'
    BY LogFailsKeeps
  <2>7. CreatePending(c) => IInv'
    BY CreatePendingKeeps
  <2>8. CreateFails(c) => IInv'
    BY CreateFailsKeeps
  <2> QED BY <1>1, <2>1, <2>2, <2>3, <2>4, <2>5, <2>6, <2>7, <2>8 DEF GuardStep
<1>2. ASSUME NEW o \in Operators, ResolutionStep(o)
      PROVE  IInv'
  <2>1. ASSUME NEW i \in DOMAIN rows, NEW verb \in {"approving", "denying"}, ReadRow(o, i, verb)
        PROVE  IInv'
    BY <2>1, ReadRowKeeps
  <2>2. CheckDeadline(o) => IInv'
    BY CheckDeadlineKeeps
  <2>3. MarkExpired(o) => IInv'
    BY MarkExpiredKeeps
  <2>4. Deny(o) => IInv'
    BY DenyKeeps
  <2>5. Approve(o) => IInv'
    BY ApproveKeeps
  <2> QED BY <1>2, <2>1, <2>2, <2>3, <2>4, <2>5 DEF ResolutionStep
<1> QED BY <1>1, <1>2, CrashKeeps, TickKeeps, StutterKeeps DEF Next

(***************************************************************************)
(* The results.                                                            *)
(***************************************************************************)

(* Every reachable state satisfies the invariant: requests, rows, tokens   *)
(* and log entries agree with each other as the handlers left them.        *)
THEOREM InvariantHolds == Spec => []IInv
<1>1. Init => IInv
  BY InitHolds
<1>2. IInv /\ [Next]_vars => IInv'
  BY NextKeeps
<1> QED BY <1>1, <1>2, PTL DEF Spec

(* verify_and_consume: every consumption is of a token signed for that      *)
(* approval and that action; no token and no call has two.                 *)
THEOREM TokensConsumedOnce == Spec => []ConsumedOnce
<1>1. IInv => ConsumedOnce
  <2> SUFFICES ASSUME IInv, NEW j \in DOMAIN used
               PROVE  /\ used[j].token \in Signed
                      /\ claims[used[j].token].approval = used[j].approval
                      /\ ScopeMatches(claims[used[j].token].action, used[j].action)
                      /\ \A k \in DOMAIN used :
                           used[k].token = used[j].token \/ used[k].call = used[j].call => k = j
    BY DEF ConsumedOnce
  <2>1. UseOK(used[j], claims) /\ UsedOnce(used)
    BY DEF IInv, GrantInv
  <2>2. used[j].token \in Operators
    BY ShapeFacts DEF IInv, UseSet
  <2>3. used[j].token \in Signed
    BY <2>1, <2>2, ClaimAssumption DEF UseOK, Signed
  <2> QED BY <2>1, <2>3 DEF UseOK, UsedOnce
<1> QED BY <1>1, InvariantHolds, PTL

(* approve: an approved row carries one signed token that nobody spent,    *)
(* however often the approval was resolved before.                         *)
THEOREM LiveTokensUnspent == Spec => []LiveTokenUnspent
<1>1. IInv => LiveTokenUnspent
  <2> SUFFICES ASSUME IInv, NEW i \in DOMAIN rows, rows[i].status = "approved"
               PROVE  /\ rows[i].token \in Signed
                      /\ claims[rows[i].token].approval = i
                      /\ \A j \in DOMAIN used : used[j].token # rows[i].token
    BY DEF LiveTokenUnspent
  <2>1. RowOK(i, rows[i], used, claims)
    BY DEF IInv, GrantInv
  <2> QED BY <2>1, ClaimAssumption DEF RowOK, Signed
<1> QED BY <1>1, InvariantHolds, PTL

(* The guard handler: under require_approval a call is let run only if it   *)
(* consumed a token of the approval it names itself.                       *)
THEOREM RunsAreGranted == Spec => []RunNeedsGrant
<1>1. IInv => RunNeedsGrant
  BY CallFacts DEF RunNeedsGrant, CallOK
<1> QED BY <1>1, InvariantHolds, PTL

(* The guard handler and EventStore.log: what is let run is in the log,     *)
(* with its own decision and approval, and nothing is there twice.         *)
THEOREM RunsAreAudited == Spec => []RunIsAudited
<1>1. IInv => RunIsAudited
  <2> SUFFICES ASSUME IInv PROVE RunIsAudited
    OBVIOUS
  <2>1. ASSUME NEW c \in Calls, call[c].answer = "run"
        PROVE  call[c].event \in DOMAIN events /\ events[call[c].event].body = Body(c)
    <3>1. CallLogged(c, call[c], writer, events)
      BY CallFacts
    <3> QED BY <2>1, <3>1 DEF CallLogged, Body
  <2>2. LoggedOnce(events)
    BY DEF IInv, LogInv
  <2> QED BY <2>1, <2>2 DEF RunIsAudited, LoggedOnce
<1> QED BY <1>1, InvariantHolds, PTL

LEMMA ReReadShape ==
  ASSUME NEW body \in BodySet
  PROVE  ReRead(body) \in BodySet
BY DEF BodySet, ReRead, Payloads

\* parsing changes the hash of a body exactly when the payload is JSON text
LEMMA ReReadDiffers ==
  ASSUME NEW body \in BodySet, NEW prev \in Seq(BodySet)
  PROVE  HashOf(ReRead(body), prev) = HashOf(body, prev) <=> body.payload # "json_text"
<1>1. ReRead(body) \in BodySet
  BY ReReadShape
<1>2. CASE body.payload = "json_text"
  <2>1. ReRead(body).payload = "json_value"
    BY <1>2 DEF ReRead, BodySet
  <2>2. Append(prev, ReRead(body))[Len(prev) + 1] # Append(prev, body)[Len(prev) + 1]
    BY <1>1, <1>2, <2>1, AppendFacts
  <2> QED BY <1>1, <1>2, <2>2 DEF HashOf
<1>3. CASE body.payload # "json_text"
  <2>1. ReRead(body) = body
    BY <1>3 DEF ReRead, BodySet
  <2> QED BY <1>1, <1>3, <2>1
<1> QED BY <1>2, <1>3

(* EventStore.log and verify_event_chain: with any number of concurrent     *)
(* writers, failed and interrupted appends, a log nobody tampered with has *)
(* neither a gap nor a broken link, and exactly the rows whose payload is  *)
(* JSON text are reported as changed.                                      *)
THEOREM UntouchedLogReport == Spec => []OnlyTextMismatches
<1>1. IInv => OnlyTextMismatches
  <2> SUFFICES ASSUME IInv PROVE OnlyTextMismatches
    OBVIOUS
  <2>1. ChainWritten(events) /\ events \in Seq(EventSet)
    BY DEF IInv, Shape, LogInv
  <2>2. ASSUME NEW i \in ChainedRows(events)
        PROVE  /\ PrevHolds(events, i)
               /\ HashHolds(events, i) <=> events[i].body.payload # "json_text"
    <3>1. /\ events[i] \in EventSet /\ events[i].hash # Unchained
          /\ PrevHolds(events, i) /\ events[i].hash = HashOf(events[i].body, events[i].prev)
      BY <2>1, SeqFacts DEF ChainWritten, ChainedRows, IsChained
    <3>2. events[i].prev \in Seq(BodySet)
      <4>1. ASSUME NEW k \in ChainedRows(events)
            PROVE  events[k].hash \in Seq(BodySet)
        <5>1. k \in DOMAIN events /\ events[k].hash # Unchained
          BY DEF ChainedRows, IsChained
        <5>2. events[k] \in EventSet
          BY <2>1, <5>1, SeqFacts
        <5> QED BY <5>1, <5>2 DEF EventSet
      <4> QED BY <3>1, <4>1 DEF PrevHolds, ExpectedPrev, GenesisHash
    <3>3. events[i].body \in BodySet
      BY <3>1 DEF EventSet
    <3> QED BY <3>1, <3>2, <3>3, ReReadDiffers DEF HashHolds
  <2> QED BY <2>1, <2>2 DEF OnlyTextMismatches, ChainWritten
<1> QED BY <1>1, InvariantHolds, PTL

(* create_pending: an approval names the event of the refusal it is about. *)
THEOREM ApprovalsNameRefusals == Spec => []ApprovalNamesRefusal
<1>1. IInv => ApprovalNamesRefusal
  BY DEF IInv, LogInv, ApprovalNamesRefusal, Refusal
<1> QED BY <1>1, InvariantHolds, PTL

(***************************************************************************)
(* The refinement: every step of the code, seen through Standing and       *)
(* SpentBy, issues, spends or lapses a token, or leaves all of them alone. *)
(***************************************************************************)
\* SpentBy and Standing with the tables as arguments
SpentIn(o, us) == {c \in Calls : \E j \in DOMAIN us : us[j].token = o /\ us[j].call = c}
StandingIn(o, cl, us, rw) ==
  IF cl[o] = NoToken THEN "unissued"
  ELSE IF SpentIn(o, us) # {} THEN "spent"
  ELSE IF rw[cl[o].approval].status = "approved" /\ rw[cl[o].approval].token = o THEN "live"
  ELSE "void"

LEMMA TokenView ==
  ASSUME NEW o \in Operators
  PROVE  /\ SpentBy(o) = SpentIn(o, used) /\ SpentBy(o)' = SpentIn(o, used')
         /\ Standing(o) = StandingIn(o, claims, used, rows)
         /\ Standing(o)' = StandingIn(o, claims', used', rows')
<1>1. SpentBy(o) = SpentIn(o, used) /\ SpentBy(o)' = SpentIn(o, used')
  BY DEF SpentBy, SpentIn
<1>2. (o \notin Signed <=> claims[o] = NoToken) /\ ((o \notin Signed)' <=> claims'[o] = NoToken)
  BY DEF Signed
<1>3. Standing(o) = StandingIn(o, claims, used, rows)
  BY <1>1, <1>2 DEF Standing, StandingIn
<1>4. Standing(o)' = StandingIn(o, claims', used', rows')
  BY <1>1, <1>2 DEF Standing, StandingIn
<1> QED BY <1>1, <1>3, <1>4

\* what each kind of step does to the grants, in terms of the view
GrantsStutter ==
  \A o \in Operators : /\ StandingIn(o, claims', used', rows') = StandingIn(o, claims, used, rows)
                       /\ SpentIn(o, used') = SpentIn(o, used)
LapseOf(gone) ==
  /\ \A o \in gone : StandingIn(o, claims, used, rows) = "live"
  /\ \A o \in Operators :
       /\ StandingIn(o, claims', used', rows') =
            IF o \in gone THEN "void" ELSE StandingIn(o, claims, used, rows)
       /\ SpentIn(o, used') = SpentIn(o, used)
IssueOf(t, gone) ==
  /\ StandingIn(t, claims, used, rows) = "unissued"
  /\ \A o \in gone : StandingIn(o, claims, used, rows) = "live"
  /\ \A o \in Operators :
       /\ StandingIn(o, claims', used', rows') =
            IF o = t THEN "live"
            ELSE IF o \in gone THEN "void" ELSE StandingIn(o, claims, used, rows)
       /\ SpentIn(o, used') = SpentIn(o, used)
SpendOf(t, c) ==
  /\ StandingIn(t, claims, used, rows) = "live"
  /\ \A o \in Operators :
       /\ StandingIn(o, claims', used', rows') =
            IF o = t THEN "spent" ELSE StandingIn(o, claims, used, rows)
       /\ SpentIn(o, used') = IF o = t THEN {c} ELSE SpentIn(o, used)

LEMMA StutterMaps ==
  ASSUME GrantsStutter
  PROVE  UNCHANGED Grants!grantVars
<1>1. \A o \in Operators : Standing(o)' = Standing(o) /\ SpentBy(o)' = SpentBy(o)
  BY TokenView DEF GrantsStutter
<1>2. [o \in Operators |-> Standing(o)]' = [o \in Operators |-> Standing(o)]
  BY <1>1
<1>3. [o \in Operators |-> SpentBy(o)]' = [o \in Operators |-> SpentBy(o)]
  BY <1>1
<1> QED BY <1>2, <1>3 DEF Grants!grantVars

LEMMA LapseMaps ==
  ASSUME NEW gone \in SUBSET Operators, LapseOf(gone)
  PROVE  Grants!Lapse(gone)
<1>1. \A o \in Operators : /\ Standing(o)' = IF o \in gone THEN "void" ELSE Standing(o)
                          /\ SpentBy(o)' = SpentBy(o)
  BY TokenView DEF LapseOf
<1>2. gone \subseteq Grants!Live
  BY TokenView DEF LapseOf, Grants!Live
<1>3. [o \in Operators |-> Standing(o)]' =
        [u \in Operators |-> IF u \in gone THEN "void" ELSE [o \in Operators |-> Standing(o)][u]]
  BY <1>1
<1>4. [o \in Operators |-> SpentBy(o)]' = [o \in Operators |-> SpentBy(o)]
  BY <1>1
<1> QED BY <1>2, <1>3, <1>4 DEF Grants!Lapse

LEMMA IssueMaps ==
  ASSUME NEW t \in Operators, NEW gone \in SUBSET Operators, IssueOf(t, gone)
  PROVE  Grants!Issue(t, gone)
<1>1. \A o \in Operators :
        /\ Standing(o)' = IF o = t THEN "live" ELSE IF o \in gone THEN "void" ELSE Standing(o)
        /\ SpentBy(o)' = SpentBy(o)
  BY TokenView DEF IssueOf
<1>2. gone \subseteq Grants!Live /\ [o \in Operators |-> Standing(o)][t] = "unissued"
  BY TokenView DEF IssueOf, Grants!Live
<1>3. [o \in Operators |-> Standing(o)]' =
        [u \in Operators |-> IF u = t THEN "live" ELSE IF u \in gone THEN "void"
                            ELSE [o \in Operators |-> Standing(o)][u]]
  BY <1>1
<1>4. [o \in Operators |-> SpentBy(o)]' = [o \in Operators |-> SpentBy(o)]
  BY <1>1
<1> QED BY <1>2, <1>3, <1>4 DEF Grants!Issue

LEMMA SpendMaps ==
  ASSUME NEW t \in Operators, NEW c \in Calls, SpendOf(t, c)
  PROVE  Grants!Spend(t, c)
<1>1. \A o \in Operators :
        /\ Standing(o)' = IF o = t THEN "spent" ELSE Standing(o)
        /\ SpentBy(o)' = IF o = t THEN {c} ELSE SpentBy(o)
  BY TokenView DEF SpendOf
<1>2. [o \in Operators |-> Standing(o)][t] = "live"
  BY TokenView DEF SpendOf
<1>3. [o \in Operators |-> Standing(o)]' = [[o \in Operators |-> Standing(o)] EXCEPT ![t] = "spent"]
  BY <1>1
<1>4. [o \in Operators |-> SpentBy(o)]' = [[o \in Operators |-> SpentBy(o)] EXCEPT ![t] = {c}]
  BY <1>1
<1> QED BY <1>2, <1>3, <1>4 DEF Grants!Spend

\* the live tokens of approval i
LiveOn(i) == {o \in Operators : /\ StandingIn(o, claims, used, rows) = "live"
                              /\ claims[o].approval = i}

LEMMA ClaimedRows ==
  ASSUME IInv, NEW o \in Operators, claims[o] # NoToken
  PROVE  claims[o].approval \in DOMAIN rows
BY ShapeFacts DEF IInv, GrantInv, OpOK

LEMMA SameTables ==
  ASSUME UNCHANGED <<rows, used, claims>>
  PROVE  GrantsStutter
BY DEF GrantsStutter

LEMMA CreatePendingStutters ==
  ASSUME IInv, NEW c \in Calls, CreatePending(c)
  PROVE  GrantsStutter
<1>1. /\ rows' = Append(rows, PendingRow(call[c].action, call[c].event, now))
      /\ UNCHANGED <<used, claims>>
  BY DEF CreatePending
<1>2. \A i \in DOMAIN rows : rows'[i] = rows[i]
  BY <1>1 DEF IInv, Shape
<1>3. \A o \in Operators :
        claims[o] # NoToken => rows'[claims[o].approval] = rows[claims[o].approval]
  BY <1>2, ClaimedRows
<1> QED BY <1>1, <1>3 DEF GrantsStutter, StandingIn

LEMMA CloseLapses ==
  ASSUME IInv, NEW i \in DOMAIN rows, NEW new \in RowSet, new.status # "approved",
         rows' = [rows EXCEPT ![i] = new], UNCHANGED <<used, claims>>
  PROVE  LapseOf(LiveOn(i))
<1>1. rows'[i] = new /\ \A j \in DOMAIN rows : j # i => rows'[j] = rows[j]
  BY DEF IInv, Shape
<1>2. ASSUME NEW o \in Operators
      PROVE  StandingIn(o, claims', used', rows') =
               IF o \in LiveOn(i) THEN "void" ELSE StandingIn(o, claims, used, rows)
  <2>1. CASE claims[o] = NoToken \/ SpentIn(o, used) # {}
    BY <2>1 DEF StandingIn, LiveOn
  <2>2. CASE claims[o] # NoToken /\ SpentIn(o, used) = {} /\ claims[o].approval = i
    BY <1>1, <2>2 DEF StandingIn, LiveOn
  <2>3. CASE claims[o] # NoToken /\ SpentIn(o, used) = {} /\ claims[o].approval # i
    BY <1>1, <2>3, ClaimedRows DEF StandingIn, LiveOn
  <2> QED BY <2>1, <2>2, <2>3
<1> QED BY <1>2 DEF LapseOf, LiveOn

LEMMA ApproveIssues ==
  ASSUME IInv, NEW o \in Operators, Approve(o)
  PROVE  IssueOf(o, LiveOn(op[o].approval))
<1> DEFINE i == op[o].approval
           new == ApprovedRow(rows[i], o)
           claim == [approval |-> i, action |-> rows[i].action, deadline |-> rows[i].deadline]
<1>1. /\ op[o].step \notin {"idle", "done"} /\ rows' = [rows EXCEPT ![i] = new]
      /\ claims' = [claims EXCEPT ![o] = claim] /\ UNCHANGED used
  BY DEF Approve
<1>2. /\ i \in DOMAIN rows /\ rows[i] \in RowSet /\ claims[o] = NoToken
      /\ NoToken \notin ClaimSet /\ i \in Nat
  BY <1>1, OpFacts, ShapeFacts DEF IInv
<1>3. new.status = "approved" /\ new.token = o /\ new \in RowSet
  BY <1>2, RowUpdates
<1>4. claim \in ClaimSet /\ claim.approval = i
  BY <1>2 DEF ClaimSet, RowSet
<1> HIDE DEF new, claim
<1>5. /\ claims'[o] = claim /\ claim # NoToken
      /\ \A t \in Operators : t # o => claims'[t] = claims[t]
  BY <1>1, <1>2, <1>4 DEF IInv, Shape
<1>6. rows'[i] = new /\ \A j \in DOMAIN rows : j # i => rows'[j] = rows[j]
  BY <1>1, <1>2 DEF IInv, Shape
<1>7. SpentIn(o, used) = {}
  <2>1. \A j \in DOMAIN used : used[j].token # o
    BY <1>2 DEF IInv, GrantInv, UseOK
  <2> QED BY <2>1 DEF SpentIn
<1>8. StandingIn(o, claims, used, rows) = "unissued"
  BY <1>2 DEF StandingIn
<1>9. StandingIn(o, claims', used', rows') = "live"
  BY <1>1, <1>3, <1>4, <1>5, <1>6, <1>7 DEF StandingIn
<1>10. ASSUME NEW t \in Operators, t # o
       PROVE  StandingIn(t, claims', used', rows') =
                IF t \in LiveOn(i) THEN "void" ELSE StandingIn(t, claims, used, rows)
  <2>1. CASE claims[t] = NoToken \/ SpentIn(t, used) # {}
    BY <1>1, <1>5, <1>10, <2>1 DEF StandingIn, LiveOn
  <2>2. CASE claims[t] # NoToken /\ SpentIn(t, used) = {} /\ claims[t].approval = i
    BY <1>1, <1>3, <1>5, <1>6, <1>10, <2>2 DEF StandingIn, LiveOn
  <2>3. CASE claims[t] # NoToken /\ SpentIn(t, used) = {} /\ claims[t].approval # i
    BY <1>1, <1>5, <1>6, <1>10, <2>3, ClaimedRows DEF StandingIn, LiveOn
  <2> QED BY <2>1, <2>2, <2>3
<1> QED BY <1>1, <1>8, <1>9, <1>10 DEF IssueOf, LiveOn

LEMMA ConsumeSpends ==
  ASSUME IInv, NEW c \in Calls, Consume(c)
  PROVE  call[c].token \in Operators /\ SpendOf(call[c].token, c)
<1> DEFINE i == call[c].approval
           t == call[c].token
           new == ConsumedRow(rows[i])
           use == [approval |-> i, token |-> t, call |-> c, action |-> call[c].action]
           m == Len(used) + 1
<1>1. rows' = [rows EXCEPT ![i] = new] /\ used' = Append(used, use) /\ UNCHANGED claims
  BY DEF Consume
<1>2. /\ i \in DOMAIN rows /\ t \in Operators /\ claims[t] \in ClaimSet
      /\ rows[i].status = "approved" /\ rows[i].token = t /\ claims[t].approval = i
      /\ \A j \in DOMAIN used : used[j].token # t /\ used[j].call # c
  BY ConsumeFacts
<1>3. rows[i] \in RowSet
  BY <1>2, ShapeFacts DEF IInv
<1>4. new.status = "consumed"
  BY <1>3 DEF ConsumedRow, RowSet
<1>5. use.token = t /\ use.call = c
  OBVIOUS
<1> HIDE DEF new, use
<1>6. rows'[i] = new /\ \A j \in DOMAIN rows : j # i => rows'[j] = rows[j]
  BY <1>1, <1>2 DEF IInv, Shape
<1>7. /\ DOMAIN used' = DOMAIN used \cup {m} /\ m \notin DOMAIN used
      /\ used'[m] = use /\ \A j \in DOMAIN used : used'[j] = used[j]
  BY <1>1 DEF IInv, Shape
<1> HIDE DEF m
<1>8. SpentIn(t, used) = {} /\ SpentIn(t, used') = {c}
  BY <1>2, <1>5, <1>7 DEF SpentIn
<1>9. \A o \in Operators : o # t => SpentIn(o, used') = SpentIn(o, used)
  BY <1>5, <1>7 DEF SpentIn
<1>10. claims[t] # NoToken
  BY <1>2, ClaimAssumption
<1>11. StandingIn(t, claims, used, rows) = "live" /\ StandingIn(t, claims', used', rows') = "spent"
  BY <1>1, <1>2, <1>8, <1>10 DEF StandingIn
<1>12. ASSUME NEW o \in Operators, o # t
       PROVE  StandingIn(o, claims', used', rows') = StandingIn(o, claims, used, rows)
  <2>1. CASE claims[o] = NoToken \/ SpentIn(o, used) # {}
    BY <1>1, <1>9, <1>12, <2>1 DEF StandingIn
  <2>2. CASE claims[o] # NoToken /\ SpentIn(o, used) = {} /\ claims[o].approval = i
    BY <1>1, <1>2, <1>4, <1>6, <1>9, <1>12, <2>2 DEF StandingIn
  <2>3. CASE claims[o] # NoToken /\ SpentIn(o, used) = {} /\ claims[o].approval # i
    BY <1>1, <1>6, <1>9, <1>12, <2>3, ClaimedRows DEF StandingIn
  <2> QED BY <2>1, <2>2, <2>3
<1> QED BY <1>2, <1>8, <1>9, <1>11, <1>12 DEF SpendOf

LEMMA InitMaps == Init => Grants!Init
<1> SUFFICES ASSUME Init PROVE Grants!Init
  OBVIOUS
<1>1. \A o \in Operators : claims[o] = NoToken /\ DOMAIN used = {}
  BY DEF Init
<1>2. \A o \in Operators : Standing(o) = "unissued" /\ SpentBy(o) = {}
  BY <1>1 DEF Standing, SpentBy, Signed
<1> QED BY <1>2 DEF Grants!Init

LEMMA StepMaps == IInv /\ [Next]_vars => [Grants!Next]_(Grants!grantVars)
<1> SUFFICES ASSUME IInv, [Next]_vars PROVE [Grants!Next]_(Grants!grantVars)
  OBVIOUS
<1>1. UNCHANGED <<rows, used, claims>> => UNCHANGED Grants!grantVars
  BY SameTables, StutterMaps
<1>2. ASSUME NEW c \in Calls, GuardStep(c)
      PROVE  [Grants!Next]_(Grants!grantVars)
  <2>1. CASE Consume(c)
    <3>1. call[c].token \in Operators /\ Grants!Spend(call[c].token, c)
      BY <2>1, ConsumeSpends, SpendMaps
    <3> QED BY <3>1 DEF Grants!Next
  <2>2. CASE CreatePending(c)
    BY <2>2, CreatePendingStutters, StutterMaps
  <2>3. CASE ~ Consume(c) /\ ~ CreatePending(c)
    <3>1. UNCHANGED <<rows, used, claims>>
      <4>1. ASSUME NEW request \in Requests, NEW token \in Signed \cup {NoToken},
                   NEW decision \in Outcomes,
                   Evaluate(c, request[1], request[2], token, decision)
            PROVE  UNCHANGED <<rows, used, claims>>
        BY <4>1 DEF Evaluate
      <4>2. RejectToken(c) \/ LogBegin(c) => UNCHANGED <<rows, used, claims>>
        BY DEF RejectToken, LogBegin
      <4>3. LogCommit(c) \/ LogFails(c) => UNCHANGED <<rows, used, claims>>
        BY DEF LogCommit, LogFails
      <4>4. CreateFails(c) => UNCHANGED <<rows, used, claims>>
        BY DEF CreateFails
      <4> QED BY <1>2, <2>3, <4>1, <4>2, <4>3, <4>4 DEF GuardStep
    <3> QED BY <1>1, <3>1
  <2> QED BY <2>1, <2>2, <2>3
<1>3. ASSUME NEW o \in Operators, ResolutionStep(o)
      PROVE  [Grants!Next]_(Grants!grantVars)
  <2> DEFINE i == op[o].approval
             gone == LiveOn(i)
  <2>1. gone \in SUBSET Operators
    BY DEF LiveOn
  <2>2. CASE MarkExpired(o)
    <3>1. /\ op[o].step \notin {"idle", "done"} /\ UNCHANGED <<used, claims>>
          /\ rows' = [rows EXCEPT ![i] = ExpiredRow(rows[i])]
      BY <2>2 DEF MarkExpired
    <3>2. i \in DOMAIN rows /\ rows[i] \in RowSet
      BY <3>1, OpFacts
    <3>3. ExpiredRow(rows[i]) \in RowSet /\ ExpiredRow(rows[i]).status # "approved"
      BY <3>2, RowUpdates
    <3>4. Grants!Lapse(gone)
      BY <2>1, <3>1, <3>2, <3>3, CloseLapses, LapseMaps
    <3> QED BY <2>1, <3>4 DEF Grants!Next
  <2>3. CASE Deny(o)
    <3>1. /\ op[o].step \notin {"idle", "done"} /\ UNCHANGED <<used, claims>>
          /\ rows' = [rows EXCEPT ![i] = DeniedRow(rows[i])]
      BY <2>3 DEF Deny
    <3>2. i \in DOMAIN rows /\ rows[i] \in RowSet
      BY <3>1, OpFacts
    <3>3. DeniedRow(rows[i]) \in RowSet /\ DeniedRow(rows[i]).status # "approved"
      BY <3>2, RowUpdates
    <3>4. Grants!Lapse(gone)
      BY <2>1, <3>1, <3>2, <3>3, CloseLapses, LapseMaps
    <3> QED BY <2>1, <3>4 DEF Grants!Next
  <2>4. CASE Approve(o)
    <3>1. Grants!Issue(o, gone)
      BY <2>1, <2>4, ApproveIssues, IssueMaps
    <3> QED BY <2>1, <3>1 DEF Grants!Next
  <2>5. CASE ~ MarkExpired(o) /\ ~ Deny(o) /\ ~ Approve(o)
    <3>1. UNCHANGED <<rows, used, claims>>
      BY <1>3, <2>5 DEF ResolutionStep, ReadRow, CheckDeadline
    <3> QED BY <1>1, <3>1
  <2> QED BY <2>2, <2>3, <2>4, <2>5
<1>4. CASE Crash \/ Tick \/ UNCHANGED vars
  BY <1>1, <1>4 DEF Crash, Tick, vars
<1> QED BY <1>2, <1>3, <1>4 DEF Next

(* The approvals implement single-use grants: a token is spent at most      *)
(* once, by one call, only while live, and once void or spent stays so.    *)
THEOREM GrantsImplemented == Spec => ImplementsGrants
<1>1. Init => Grants!Init
  BY InitMaps
<1>2. IInv /\ [Next]_vars => [Grants!Next]_(Grants!grantVars)
  BY StepMaps
<1> QED BY <1>1, <1>2, InvariantHolds, PTL DEF Spec, ImplementsGrants, Grants!Spec

(***************************************************************************)
(* Types: ids name rows that exist.  The bounds of the id ranges are the   *)
(* lengths of the two tables, which only grow.                             *)
(***************************************************************************)
RowsWithin(m) == [status : Statuses, action : Actions, event : 0..m, deadline : Nat,
                  token : Operators \cup {NoToken}]
UsesWithin(n) == [approval : 1..n, token : Operators, call : Calls, action : Actions]
ClaimsWithin(n) == [approval : 1..n, action : Actions, deadline : Nat]
BodiesWithin(n) == [call : Calls \cup {Nobody}, action : Actions \cup {NoAction},
                    decision : Decisions, approval : 0..n, payload : Payloads,
                    version : Versions]
HashesWithin(n) == Seq(BodiesWithin(n)) \cup {Unchained}
EventsWithin(n) == [body : BodiesWithin(n), prev : HashesWithin(n), hash : HashesWithin(n)]
CallsWithin(n, m) == [step : CallSteps, action : Actions \cup {NoAction}, payload : Payloads,
                      token : Operators \cup {NoToken}, policy : Decisions,
                      decision : Decisions, approval : 0..n, head : Seq(BodiesWithin(n)),
                      event : 0..m, answer : Answers]
OpsWithin(n) == [step : OpSteps, approval : 0..n]

LEMMA TypeParts ==
  TypeOK <=> /\ now \in 0..MaxTime
             /\ rows \in Seq(RowsWithin(Len(events)))
             /\ used \in Seq(UsesWithin(Len(rows)))
             /\ claims \in [Operators -> ClaimsWithin(Len(rows)) \cup {NoToken}]
             /\ events \in Seq(EventsWithin(Len(rows)))
             /\ writer \in Calls \cup {Nobody}
             /\ call \in [Calls -> CallsWithin(Len(rows), Len(events))]
             /\ op \in [Operators -> OpsWithin(Len(rows))]
BY DEF TypeOK, RowsWithin, UsesWithin, ClaimsWithin, BodiesWithin, HashesWithin, EventsWithin,
       CallsWithin, OpsWithin, RowType, Claims, Bodies, CallType, EventType

LEMMA SeqOfMore ==
  ASSUME NEW S, NEW T, S \subseteq T
  PROVE  Seq(S) \subseteq Seq(T)
<1> SUFFICES ASSUME NEW s \in Seq(S) PROVE s \in Seq(T)
  OBVIOUS
<1> QED OBVIOUS

\* a longer table has every id of a shorter one
LEMMA WithinMore ==
  ASSUME NEW n \in Nat, NEW m \in Nat, NEW n2 \in Nat, NEW m2 \in Nat, n <= n2, m <= m2
  PROVE  /\ RowsWithin(m) \subseteq RowsWithin(m2)
         /\ UsesWithin(n) \subseteq UsesWithin(n2)
         /\ ClaimsWithin(n) \subseteq ClaimsWithin(n2)
         /\ Seq(BodiesWithin(n)) \subseteq Seq(BodiesWithin(n2))
         /\ EventsWithin(n) \subseteq EventsWithin(n2)
         /\ CallsWithin(n, m) \subseteq CallsWithin(n2, m2)
         /\ OpsWithin(n) \subseteq OpsWithin(n2)
<1>1. 0..m \subseteq 0..m2 /\ 0..n \subseteq 0..n2 /\ 1..n \subseteq 1..n2
  OBVIOUS
<1>2. /\ RowsWithin(m) \subseteq RowsWithin(m2)
      /\ UsesWithin(n) \subseteq UsesWithin(n2)
      /\ ClaimsWithin(n) \subseteq ClaimsWithin(n2)
      /\ OpsWithin(n) \subseteq OpsWithin(n2)
      /\ BodiesWithin(n) \subseteq BodiesWithin(n2)
  BY <1>1 DEF RowsWithin, UsesWithin, ClaimsWithin, OpsWithin, BodiesWithin
<1>3. Seq(BodiesWithin(n)) \subseteq Seq(BodiesWithin(n2))
  BY <1>2, SeqOfMore
<1>4. EventsWithin(n) \subseteq EventsWithin(n2)
  BY <1>2, <1>3 DEF EventsWithin, HashesWithin
<1>5. CallsWithin(n, m) \subseteq CallsWithin(n2, m2)
  BY <1>1, <1>3 DEF CallsWithin
<1> QED BY <1>2, <1>3, <1>4, <1>5

\* a step that leaves the tables no shorter has only to type what it writes
LEMMA TypeStep ==
  ASSUME TypeOK, NEW n2 \in Nat, NEW m2 \in Nat, Len(rows) \in Nat, Len(events) \in Nat,
         Len(rows) <= n2, Len(events) <= m2, Len(rows') = n2, Len(events') = m2,
         now' \in 0..MaxTime, writer' \in Calls \cup {Nobody},
         rows' = rows \/ rows' \in Seq(RowsWithin(m2)),
         used' = used \/ used' \in Seq(UsesWithin(n2)),
         claims' = claims \/ claims' \in [Operators -> ClaimsWithin(n2) \cup {NoToken}],
         events' = events \/ events' \in Seq(EventsWithin(n2)),
         call' = call \/ call' \in [Calls -> CallsWithin(n2, m2)],
         op' = op \/ op' \in [Operators -> OpsWithin(n2)]
  PROVE  TypeOK'
<1> DEFINE n == Len(rows)
           m == Len(events)
<1>1. /\ rows \in Seq(RowsWithin(m)) /\ used \in Seq(UsesWithin(n))
      /\ claims \in [Operators -> ClaimsWithin(n) \cup {NoToken}]
      /\ events \in Seq(EventsWithin(n)) /\ call \in [Calls -> CallsWithin(n, m)]
      /\ op \in [Operators -> OpsWithin(n)]
  BY TypeParts
<1> HIDE DEF n, m
<1>2. n \in Nat /\ m \in Nat /\ n <= n2 /\ m <= m2
  BY DEF n, m
<1>3. /\ RowsWithin(m) \subseteq RowsWithin(m2)
      /\ UsesWithin(n) \subseteq UsesWithin(n2)
      /\ ClaimsWithin(n) \subseteq ClaimsWithin(n2)
      /\ EventsWithin(n) \subseteq EventsWithin(n2)
      /\ CallsWithin(n, m) \subseteq CallsWithin(n2, m2)
      /\ OpsWithin(n) \subseteq OpsWithin(n2)
  BY <1>2, WithinMore
<1>4. /\ rows \in Seq(RowsWithin(m2)) /\ used \in Seq(UsesWithin(n2))
      /\ events \in Seq(EventsWithin(n2))
  BY <1>1, <1>3, SeqOfMore
<1>5. /\ claims \in [Operators -> ClaimsWithin(n2) \cup {NoToken}]
      /\ call \in [Calls -> CallsWithin(n2, m2)]
      /\ op \in [Operators -> OpsWithin(n2)]
  BY <1>1, <1>3
<1>6. /\ rows' \in Seq(RowsWithin(m2)) /\ used' \in Seq(UsesWithin(n2))
      /\ claims' \in [Operators -> ClaimsWithin(n2) \cup {NoToken}]
      /\ events' \in Seq(EventsWithin(n2)) /\ call' \in [Calls -> CallsWithin(n2, m2)]
      /\ op' \in [Operators -> OpsWithin(n2)]
  BY <1>4, <1>5
<1>7. (/\ now \in 0..MaxTime
       /\ rows \in Seq(RowsWithin(Len(events)))
       /\ used \in Seq(UsesWithin(Len(rows)))
       /\ claims \in [Operators -> ClaimsWithin(Len(rows)) \cup {NoToken}]
       /\ events \in Seq(EventsWithin(Len(rows)))
       /\ writer \in Calls \cup {Nobody}
       /\ call \in [Calls -> CallsWithin(Len(rows), Len(events))]
       /\ op \in [Operators -> OpsWithin(Len(rows))])'
  BY <1>6
<1> QED BY <1>7, TypeParts, PTL

\* what the types and the invariant say of one request, row and resolution
LEMMA TypedFacts ==
  ASSUME IInv, TypeOK
  PROVE  /\ Len(rows) \in Nat /\ Len(events) \in Nat /\ now \in 0..MaxTime
         /\ DOMAIN rows = 1..Len(rows) /\ DOMAIN events = 1..Len(events)
         /\ \A i \in DOMAIN rows : rows[i] \in RowsWithin(Len(events))
         /\ \A i \in DOMAIN events : events[i] \in EventsWithin(Len(rows))
         /\ \A c \in Calls : call[c] \in CallsWithin(Len(rows), Len(events))
         /\ \A o \in Operators : op[o] \in OpsWithin(Len(rows))
         /\ \A o \in Signed : claims[o] \in ClaimsWithin(Len(rows))
         /\ writer \in Calls \cup {Nobody}
<1>1. /\ now \in 0..MaxTime /\ writer \in Calls \cup {Nobody}
      /\ \A c \in Calls : call[c] \in CallsWithin(Len(rows), Len(events))
      /\ \A o \in Operators : op[o] \in OpsWithin(Len(rows))
      /\ \A o \in Signed : claims[o] \in ClaimsWithin(Len(rows))
  BY TypeParts DEF Signed
<1>2. rows \in Seq(RowsWithin(Len(events))) /\ events \in Seq(EventsWithin(Len(rows)))
  BY TypeParts
<1> QED BY <1>1, <1>2, SeqFacts

\* a step that moves one request and leaves the tables alone
LEMMA CallTyped ==
  ASSUME IInv, TypeOK, NEW c \in Calls, NEW r \in CallsWithin(Len(rows), Len(events)),
         Moved(c, r), UNCHANGED <<now, rows, used, claims, events, op>>,
         writer' \in Calls \cup {Nobody}
  PROVE  TypeOK'
<1> DEFINE n == Len(rows)
           m == Len(events)
<1>1. n \in Nat /\ m \in Nat /\ now \in 0..MaxTime /\ n <= n /\ m <= m
  BY TypedFacts
<1>2. call' \in [Calls -> CallsWithin(n, m)]
  BY TypeParts DEF Moved
<1>3. Len(rows') = n /\ Len(events') = m
  OBVIOUS
<1> HIDE DEF n, m
<1> QED BY <1>1, <1>2, <1>3, TypeStep DEF n, m

LEMMA EvaluateTyped ==
  ASSUME IInv, TypeOK, NEW c \in Calls, NEW action \in Actions, NEW payload \in Payloads,
         NEW token \in Signed \cup {NoToken}, NEW decision \in Outcomes,
         Evaluate(c, action, payload, token, decision)
  PROVE  TypeOK'
<1> DEFINE presented == decision = "require_approval" /\ token # NoToken
           accepted == presented /\ ClaimsAccepted(claims[token], action, now)
           k == IF accepted THEN token ELSE NoToken
           d == IF presented /\ ~ accepted THEN "block" ELSE decision
           a == IF accepted THEN claims[token].approval ELSE 0
           s == IF accepted THEN "consuming" ELSE "decided"
           r == [call[c] EXCEPT !.action = action, !.payload = payload, !.token = k, !.policy = decision,
                                !.decision = d, !.approval = a, !.step = s]
<1>1. /\ Moved(c, r) /\ UNCHANGED <<now, rows, used, claims, events, writer, op>>
  BY DEF Evaluate, Moved
<1>2. call[c] \in CallsWithin(Len(rows), Len(events)) /\ Len(rows) \in Nat
  BY TypedFacts
<1>3. accepted => token \in Signed
  OBVIOUS
<1>4. a \in 0..Len(rows)
  BY <1>2, <1>3, TypedFacts DEF ClaimsWithin
<1>5. k \in Operators \cup {NoToken} /\ s \in CallSteps
  BY <1>3 DEF Signed, CallSteps
<1>6. d \in Decisions /\ decision \in Decisions
  BY GuardAssumption DEF Decisions
<1> HIDE DEF k, d, a, s
<1>7. r \in CallsWithin(Len(rows), Len(events))
  BY <1>2, <1>4, <1>5, <1>6 DEF CallsWithin
<1> HIDE DEF r
<1> QED BY <1>1, <1>7, CallTyped, TypedFacts

LEMMA HeadTyped ==
  ASSUME IInv, TypeOK
  PROVE  HeadHash(events) \in Seq(BodiesWithin(Len(rows)))
<1>1. /\ ChainedRows(events) = {} => HeadHash(events) = GenesisHash
      /\ ChainedRows(events) # {} => /\ Len(events) \in ChainedRows(events)
                                     /\ HeadHash(events) = events[Len(events)].hash
  BY HeadFacts DEF IInv, Shape, LogInv, ChainWritten
<1>2. GenesisHash \in Seq(BodiesWithin(Len(rows)))
  BY DEF GenesisHash
<1>3. \A i \in ChainedRows(events) : events[i].hash \in Seq(BodiesWithin(Len(rows)))
  <2>1. \A i \in ChainedRows(events) : i \in DOMAIN events /\ events[i].hash # Unchained
    BY DEF ChainedRows, IsChained
  <2> QED BY <2>1, TypedFacts DEF EventsWithin, HashesWithin
<1> QED BY <1>1, <1>2, <1>3

LEMMA RecordedTyped ==
  ASSUME NEW c \in Calls, NEW n \in Nat, NEW m \in Nat, NEW id \in 0..m,
         call[c] \in CallsWithin(n, m)
  PROVE  Recorded(c, id) \in CallsWithin(n, m)
<1> DEFINE step == IF call[c].decision = "require_approval" THEN "recorded" ELSE "answered"
           answer == AnswerOf(c, id)
<1>1. answer \in Answers /\ step \in CallSteps /\ GenesisHash \in Seq(BodiesWithin(n))
  BY DEF AnswerOf, Answers, CallSteps, GenesisHash
<1>2. Recorded(c, id) = [call[c] EXCEPT !.event = id, !.head = GenesisHash, !.answer = answer,
                                        !.step = step]
  BY DEF Recorded
<1> HIDE DEF step, answer
<1> QED BY <1>1, <1>2 DEF CallsWithin

\* the steps of a request that leave the tables alone
LEMMA QuietTyped ==
  ASSUME IInv, TypeOK, NEW c \in Calls,
         RejectToken(c) \/ LogBegin(c) \/ LogFails(c) \/ CreateFails(c)
  PROVE  TypeOK'
<1>1. /\ call[c] \in CallsWithin(Len(rows), Len(events)) /\ Len(rows) \in Nat
      /\ Len(events) \in Nat /\ writer \in Calls \cup {Nobody}
  BY TypedFacts
<1>2. CASE RejectToken(c)
  <2> DEFINE r == [call[c] EXCEPT !.decision = "block", !.approval = 0, !.token = NoToken,
                                  !.step = "decided"]
  <2>1. 0 \in 0..Len(rows) /\ "block" \in Decisions /\ "decided" \in CallSteps
    BY <1>1 DEF CallSteps, Decisions
  <2>2. r \in CallsWithin(Len(rows), Len(events))
    BY <1>1, <2>1 DEF CallsWithin
  <2>3. Moved(c, r) /\ UNCHANGED <<now, rows, used, claims, events, writer, op>>
    BY <1>2 DEF RejectToken, Moved
  <2> HIDE DEF r
  <2> QED BY <1>1, <2>2, <2>3, CallTyped
<1>3. CASE LogBegin(c)
  <2> DEFINE r == [call[c] EXCEPT !.step = "logging", !.head = HeadHash(events)]
  <2>1. r \in CallsWithin(Len(rows), Len(events))
    BY <1>1, HeadTyped DEF CallsWithin, CallSteps
  <2>2. Moved(c, r) /\ writer' = c /\ UNCHANGED <<now, rows, used, claims, events, op>>
    BY <1>3 DEF LogBegin, Moved
  <2> HIDE DEF r
  <2> QED BY <2>1, <2>2, CallTyped
<1>4. CASE LogFails(c)
  <2>1. Recorded(c, 0) \in CallsWithin(Len(rows), Len(events))
    BY <1>1, RecordedTyped
  <2>2. Moved(c, Recorded(c, 0)) /\ UNCHANGED <<now, rows, used, claims, events, op>>
        /\ writer' \in Calls \cup {Nobody}
    BY <1>1, <1>4 DEF LogFails, Moved
  <2> QED BY <2>1, <2>2, CallTyped
<1>5. CASE CreateFails(c)
  <2> DEFINE r == [call[c] EXCEPT !.answer = "unavailable", !.step = "answered"]
  <2>1. r \in CallsWithin(Len(rows), Len(events))
    BY <1>1 DEF CallsWithin, CallSteps, Answers
  <2>2. Moved(c, r) /\ UNCHANGED <<now, rows, used, claims, events, writer, op>>
    BY <1>5 DEF CreateFails, Moved
  <2> HIDE DEF r
  <2> QED BY <1>1, <2>1, <2>2, CallTyped
<1> QED BY <1>2, <1>3, <1>4, <1>5

LEMMA ConsumeTyped ==
  ASSUME IInv, TypeOK, NEW c \in Calls, Consume(c)
  PROVE  TypeOK'
<1> DEFINE i == call[c].approval
           t == call[c].token
           n == Len(rows)
           m == Len(events)
           new == ConsumedRow(rows[i])
           use == [approval |-> i, token |-> t, call |-> c, action |-> call[c].action]
           r == [call[c] EXCEPT !.decision = "allow", !.token = NoToken, !.step = "decided"]
<1>1. /\ call[c].step = "consuming" /\ rows' = [rows EXCEPT ![i] = new]
      /\ used' = Append(used, use) /\ Moved(c, r)
      /\ UNCHANGED <<now, claims, events, writer, op>>
  BY DEF Consume, Moved
<1>2. i \in DOMAIN rows /\ t \in Operators
  BY ConsumeFacts
<1>3. /\ n \in Nat /\ m \in Nat /\ DOMAIN rows = 1..n /\ rows[i] \in RowsWithin(m)
      /\ call[c] \in CallsWithin(n, m) /\ now \in 0..MaxTime /\ writer \in Calls \cup {Nobody}
  BY <1>2, TypedFacts
<1>4. call[c].action \in Actions
  BY <1>1, CallFacts DEF CallOK
<1>5. new \in RowsWithin(m) /\ use \in UsesWithin(n)
  BY <1>2, <1>3, <1>4 DEF ConsumedRow, RowsWithin, UsesWithin, Statuses
<1>6. r \in CallsWithin(n, m)
  BY <1>3 DEF CallsWithin, CallSteps, Decisions
<1>7. /\ rows \in Seq(RowsWithin(m)) /\ used \in Seq(UsesWithin(n))
      /\ call \in [Calls -> CallsWithin(n, m)] /\ Len(events') = m
  BY <1>1, TypeParts
<1> HIDE DEF i, t, n, m, new, use, r
<1>8. rows' \in Seq(RowsWithin(m)) /\ Len(rows') = n
  BY <1>1, <1>2, <1>3, <1>5, <1>7 DEF n
<1>9. used' \in Seq(UsesWithin(n)) /\ call' \in [Calls -> CallsWithin(n, m)]
  BY <1>1, <1>5, <1>6, <1>7 DEF Moved
<1>10. Len(rows) <= n /\ Len(events) <= m /\ Len(rows) \in Nat /\ Len(events) \in Nat
  BY <1>3 DEF n, m
<1> QED BY <1>1, <1>3, <1>7, <1>8, <1>9, <1>10, TypeStep

LEMMA LogCommitTyped ==
  ASSUME IInv, TypeOK, NEW c \in Calls, LogCommit(c)
  PROVE  TypeOK'
<1> DEFINE n == Len(rows)
           m == Len(events) + 1
           head == call[c].head
           row == NewRow(Body(c), head)
<1>1. /\ events' = Append(events, row) /\ writer' = Nobody
      /\ UNCHANGED <<now, rows, used, claims, op>>
      /\ \E id \in {Len(events'), 0} : Moved(c, Recorded(c, id))
  BY DEF LogCommit, Logged, Moved
<1>2. /\ n \in Nat /\ m \in Nat /\ Len(events) \in Nat /\ now \in 0..MaxTime
      /\ call[c] \in CallsWithin(n, Len(events))
  BY TypedFacts
<1>3. Body(c) \in BodiesWithin(n) /\ head \in Seq(BodiesWithin(n))
  BY <1>2 DEF Body, BodiesWithin, CallsWithin, Versions
<1>4. row \in EventsWithin(n)
  BY <1>3 DEF NewRow, HashOf, EventsWithin, HashesWithin
<1>5. events \in Seq(EventsWithin(n)) /\ call \in [Calls -> CallsWithin(n, Len(events))]
  BY TypeParts
<1> HIDE DEF row
<1>6. events' \in Seq(EventsWithin(n)) /\ Len(events') = m
  BY <1>1, <1>4, <1>5
<1>7. PICK id \in {m, 0} : Moved(c, Recorded(c, id))
  BY <1>1, <1>6
<1>8. CallsWithin(n, Len(events)) \subseteq CallsWithin(n, m)
  BY <1>2, WithinMore
<1>9. Recorded(c, id) \in CallsWithin(n, m)
  <2>1. id \in 0..m
    BY <1>2
  <2> HIDE DEF n, m
  <2>2. call[c] \in CallsWithin(n, m)
    BY <1>2, <1>8
  <2> QED BY <1>2, <2>1, <2>2, RecordedTyped
<1>10. call' \in [Calls -> CallsWithin(n, m)]
  BY <1>5, <1>7, <1>8, <1>9 DEF Moved
<1>11. /\ Len(rows) <= n /\ Len(events) <= m /\ Len(rows) \in Nat /\ Len(events) \in Nat
       /\ Len(rows') = n
  BY <1>1, <1>2
<1> HIDE DEF n, m
<1> QED BY <1>1, <1>2, <1>6, <1>10, <1>11, TypeStep

LEMMA CreatePendingTyped ==
  ASSUME IInv, TypeOK, NEW c \in Calls, CreatePending(c)
  PROVE  TypeOK'
<1> DEFINE n == Len(rows) + 1
           m == Len(events)
           new == PendingRow(call[c].action, call[c].event, now)
           r == [call[c] EXCEPT !.answer = "approval_required", !.step = "answered"]
<1>1. /\ call[c].step = "recorded" /\ rows' = Append(rows, new) /\ Moved(c, r)
      /\ UNCHANGED <<now, used, claims, events, writer, op>>
  BY DEF CreatePending, Moved
<1>2. /\ n \in Nat /\ m \in Nat /\ Len(rows) \in Nat /\ now \in 0..MaxTime
      /\ call[c] \in CallsWithin(Len(rows), m) /\ writer \in Calls \cup {Nobody}
  BY TypedFacts
<1>3. call[c].action \in Actions /\ call[c].event \in 0..m
  BY <1>1, <1>2, CallFacts DEF CallOK, CallsWithin
<1>4. new \in RowsWithin(m)
  BY <1>2, <1>3, ApprovalAssumption DEF PendingRow, RowsWithin, Statuses
<1>5. r \in CallsWithin(Len(rows), m)
  BY <1>2 DEF CallsWithin, CallSteps, Answers
<1>6. rows \in Seq(RowsWithin(m)) /\ call \in [Calls -> CallsWithin(Len(rows), m)]
  BY TypeParts
<1> HIDE DEF new, r
<1>7. rows' \in Seq(RowsWithin(m)) /\ Len(rows') = n
  BY <1>1, <1>4, <1>6
<1>8. CallsWithin(Len(rows), m) \subseteq CallsWithin(n, m)
  BY <1>2, WithinMore
<1>9. call' \in [Calls -> CallsWithin(n, m)]
  BY <1>1, <1>5, <1>6, <1>8 DEF Moved
<1>10. Len(rows) <= n /\ Len(events) <= m /\ Len(events) \in Nat /\ Len(events') = m
  BY <1>1, <1>2
<1> HIDE DEF n, m
<1> QED BY <1>1, <1>2, <1>7, <1>9, <1>10, TypeStep

LEMMA ResolutionTyped ==
  ASSUME IInv, TypeOK, NEW o \in Operators, ResolutionStep(o)
  PROVE  TypeOK'
<1> DEFINE n == Len(rows)
           m == Len(events)
           i == op[o].approval
<1>1. /\ n \in Nat /\ m \in Nat /\ now \in 0..MaxTime /\ DOMAIN rows = 1..n
      /\ writer \in Calls \cup {Nobody} /\ op[o] \in OpsWithin(n)
      /\ n <= n /\ m <= m
  BY TypedFacts
<1>2. /\ rows \in Seq(RowsWithin(m)) /\ op \in [Operators -> OpsWithin(n)]
      /\ claims \in [Operators -> ClaimsWithin(n) \cup {NoToken}]
  BY TypeParts
<1>3. Done \in OpsWithin(n)
  BY <1>1 DEF Done, OpsWithin, OpSteps
<1>4. op[o].step \notin {"idle", "done"} => i \in DOMAIN rows /\ rows[i] \in RowsWithin(m)
  BY OpFacts, TypedFacts
<1>5. ASSUME NEW p \in OpsWithin(n), op' = [op EXCEPT ![o] = p],
             UNCHANGED <<now, rows, used, claims, events, writer, call>>
      PROVE  TypeOK'
  <2>1. op' \in [Operators -> OpsWithin(n)] /\ Len(rows') = n /\ Len(events') = m
    BY <1>2, <1>5
  <2> HIDE DEF n, m
  <2> QED BY <1>1, <1>5, <2>1, TypeStep DEF n, m
<1>6. ASSUME i \in DOMAIN rows, NEW new \in RowsWithin(m), rows' = [rows EXCEPT ![i] = new],
             op' = [op EXCEPT ![o] = Done],
             claims' = claims \/ claims' \in [Operators -> ClaimsWithin(n) \cup {NoToken}],
             UNCHANGED <<now, used, events, writer, call>>
      PROVE  TypeOK'
  <2>1. op' \in [Operators -> OpsWithin(n)] /\ Len(events') = m
    BY <1>2, <1>3, <1>6
  <2>2. rows' \in Seq(RowsWithin(m)) /\ Len(rows') = n
    BY <1>1, <1>2, <1>6
  <2> HIDE DEF n, m
  <2> QED BY <1>1, <1>6, <2>1, <2>2, TypeStep DEF n, m
<1>7. ASSUME NEW j \in DOMAIN rows, NEW verb \in {"approving", "denying"}, ReadRow(o, j, verb)
      PROVE  TypeOK'
  <2> DEFINE p == IF rows[j].status = "pending" THEN [step |-> verb, approval |-> j] ELSE Done
  <2>1. p \in OpsWithin(n)
    BY <1>1, <1>3 DEF OpsWithin, OpSteps
  <2>2. /\ op' = [op EXCEPT ![o] = p]
        /\ UNCHANGED <<now, rows, used, claims, events, writer, call>>
    BY <1>7 DEF ReadRow
  <2> HIDE DEF p
  <2> QED BY <1>5, <2>1, <2>2
<1>8. CASE CheckDeadline(o)
  <2> DEFINE s == IF rows[i].deadline < now THEN "expiring" ELSE "signing"
             p == [op[o] EXCEPT !.step = s]
  <2>1. s \in OpSteps
    BY DEF OpSteps
  <2>2. /\ op' = [op EXCEPT ![o] = p]
        /\ UNCHANGED <<now, rows, used, claims, events, writer, call>>
    BY <1>8 DEF CheckDeadline
  <2> HIDE DEF s
  <2>3. p \in OpsWithin(n)
    BY <1>1, <2>1 DEF OpsWithin
  <2> HIDE DEF p
  <2> QED BY <1>5, <2>2, <2>3
<1>9. CASE MarkExpired(o)
  <2>1. /\ op[o].step \notin {"idle", "done"} /\ rows' = [rows EXCEPT ![i] = ExpiredRow(rows[i])]
        /\ op' = [op EXCEPT ![o] = Done]
        /\ UNCHANGED <<now, used, claims, events, writer, call>>
    BY <1>9 DEF MarkExpired
  <2>2. ExpiredRow(rows[i]) \in RowsWithin(m)
    BY <1>4, <2>1 DEF ExpiredRow, RowsWithin, Statuses
  <2> QED BY <1>4, <1>6, <2>1, <2>2
<1>10. CASE Deny(o)
  <2>1. /\ op[o].step \notin {"idle", "done"} /\ rows' = [rows EXCEPT ![i] = DeniedRow(rows[i])]
        /\ op' = [op EXCEPT ![o] = Done]
        /\ UNCHANGED <<now, used, claims, events, writer, call>>
    BY <1>10 DEF Deny
  <2>2. DeniedRow(rows[i]) \in RowsWithin(m)
    BY <1>4, <2>1 DEF DeniedRow, RowsWithin, Statuses
  <2> QED BY <1>4, <1>6, <2>1, <2>2
<1>11. CASE Approve(o)
  <2> DEFINE claim == [approval |-> i, action |-> rows[i].action, deadline |-> rows[i].deadline]
  <2>1. /\ op[o].step \notin {"idle", "done"} /\ claims' = [claims EXCEPT ![o] = claim]
        /\ rows' = [rows EXCEPT ![i] = ApprovedRow(rows[i], o)]
        /\ op' = [op EXCEPT ![o] = Done]
        /\ UNCHANGED <<now, used, events, writer, call>>
    BY <1>11 DEF Approve
  <2>2. ApprovedRow(rows[i], o) \in RowsWithin(m)
    BY <1>4, <2>1 DEF ApprovedRow, RowsWithin, Statuses
  <2>3. claim \in ClaimsWithin(n)
    BY <1>1, <1>4, <2>1 DEF ClaimsWithin, RowsWithin
  <2> HIDE DEF claim
  <2>4. claims' \in [Operators -> ClaimsWithin(n) \cup {NoToken}]
    BY <1>2, <2>1, <2>3
  <2> QED BY <1>4, <1>6, <2>1, <2>2, <2>4
<1> QED BY <1>7, <1>8, <1>9, <1>10, <1>11 DEF ResolutionStep

LEMMA CrashTyped ==
  ASSUME IInv, TypeOK, Crash
  PROVE  TypeOK'
<1> DEFINE n == Len(rows)
           m == Len(events)
           lost == [NewCall EXCEPT !.step = "lost"]
<1>1. /\ call' = [c \in Calls |-> IF call[c].step \in {"idle", "answered"} THEN call[c] ELSE lost]
      /\ op' = [o \in Operators |-> IF op[o].step = "idle" THEN op[o] ELSE Done]
      /\ writer' = Nobody /\ UNCHANGED <<now, rows, used, claims, events>>
  BY DEF Crash
<1>2. n \in Nat /\ m \in Nat /\ now \in 0..MaxTime /\ n <= n /\ m <= m
  BY TypedFacts
<1>3. lost \in CallsWithin(n, m) /\ Done \in OpsWithin(n)
  <2>1. GenesisHash \in Seq(BodiesWithin(n)) /\ 0 \in 0..n /\ 0 \in 0..m
    BY <1>2 DEF GenesisHash
  <2>2. lost = [NewCall EXCEPT !.step = "lost"] /\ NewCall \in CallsWithin(n, m)
    BY <2>1 DEF NewCall, CallsWithin, CallSteps, Decisions, Answers, Payloads
  <2> HIDE DEF lost, n, m
  <2>3. lost \in CallsWithin(n, m)
    BY <2>2 DEF CallsWithin, CallSteps
  <2> QED BY <2>1, <2>3 DEF Done, OpsWithin, OpSteps
<1> HIDE DEF lost
<1>4. call' \in [Calls -> CallsWithin(n, m)]
  BY <1>1, <1>3, TypedFacts
<1>5. op' \in [Operators -> OpsWithin(n)]
  BY <1>1, <1>3, TypedFacts
<1>6. Len(rows') = n /\ Len(events') = m
  BY <1>1
<1> HIDE DEF n, m
<1> QED BY <1>1, <1>2, <1>4, <1>5, <1>6, TypeStep DEF n, m

\* the clock
LEMMA TablesAlone ==
  ASSUME IInv, TypeOK, now' \in 0..MaxTime,
         UNCHANGED <<rows, used, claims, events, writer, call, op>>
  PROVE  TypeOK'
<1> DEFINE n == Len(rows)
           m == Len(events)
<1>1. /\ n \in Nat /\ m \in Nat /\ n <= n /\ m <= m /\ writer \in Calls \cup {Nobody}
      /\ Len(rows') = n /\ Len(events') = m
  BY TypedFacts
<1> HIDE DEF n, m
<1> QED BY <1>1, TypeStep DEF n, m

LEMMA NextTyped == IInv /\ TypeOK /\ [Next]_vars => TypeOK'
<1> SUFFICES ASSUME IInv, TypeOK, [Next]_vars PROVE TypeOK'
  OBVIOUS
<1>1. ASSUME NEW c \in Calls, GuardStep(c)
      PROVE  TypeOK'
  <2>1. \A request \in Requests : request[1] \in Actions /\ request[2] \in Payloads
    BY GuardAssumption
  <2> QED BY <1>1, <2>1, EvaluateTyped, ConsumeTyped, LogCommitTyped, CreatePendingTyped,
             QuietTyped DEF GuardStep
<1>2. CASE Tick
  <2>1. /\ now' = now + 1 /\ now < MaxTime
        /\ UNCHANGED <<rows, used, claims, events, writer, call, op>>
    BY <1>2 DEF Tick
  <2>2. now' \in 0..MaxTime
    BY <2>1, TypedFacts, GuardAssumption
  <2> QED BY <2>1, <2>2, TablesAlone
<1>3. CASE UNCHANGED vars
  BY <1>3, TablesAlone, TypedFacts DEF vars
<1> QED BY <1>1, <1>2, <1>3, ResolutionTyped, CrashTyped DEF Next

LEMMA InitTyped == Init => TypeOK
<1> SUFFICES ASSUME Init PROVE TypeOK
  OBVIOUS
<1> DEFINE n == Len(rows)
           m == Len(events)
<1>1. IInv /\ n \in Nat /\ m \in Nat
  BY InitHolds, ShapeFacts DEF IInv
<1>2. DOMAIN rows = 1..n /\ DOMAIN events = 1..m
  BY <1>1, ShapeFacts DEF IInv
<1>3. \A i \in DOMAIN rows : rows[i] \in RowSet /\ rows[i].event = 0
  <2>1. \A i \in DOMAIN rows : rows[i] = PendingRow(Backlog[i], 0, 0)
    BY DEF Init
  <2> QED BY <1>1, <2>1, ShapeFacts DEF IInv, PendingRow
<1>4. \A i \in DOMAIN events : events[i] = LegacyRow
  BY DEF Init
<1>5. LegacyRow \in EventsWithin(n) /\ NewCall \in CallsWithin(n, m) /\ NewOp \in OpsWithin(n)
  BY <1>1 DEF LegacyRow, LegacyBody, EventsWithin, BodiesWithin, HashesWithin, Decisions,
              NewCall, CallsWithin, CallSteps, Answers, GenesisHash, NewOp, OpsWithin, OpSteps,
              Payloads, Versions
<1>6. rows \in Seq(RowsWithin(m))
  <2>1. \A i \in 1..n : rows[i] \in RowsWithin(m)
    BY <1>1, <1>2, <1>3 DEF RowSet, RowsWithin
  <2> QED BY <1>1, <2>1 DEF IInv, Shape
<1>7. events \in Seq(EventsWithin(n))
  <2>1. \A i \in 1..m : events[i] \in EventsWithin(n)
    BY <1>2, <1>4, <1>5
  <2> QED BY <1>1, <2>1 DEF IInv, Shape
<1>8. /\ now \in 0..MaxTime /\ used \in Seq(UsesWithin(n)) /\ writer \in Calls \cup {Nobody}
  BY GuardAssumption DEF Init
<1>9. /\ claims \in [Operators -> ClaimsWithin(n) \cup {NoToken}]
      /\ call \in [Calls -> CallsWithin(n, m)] /\ op \in [Operators -> OpsWithin(n)]
  BY <1>5 DEF Init
<1> QED BY <1>6, <1>7, <1>8, <1>9, TypeParts

(* The tables as the handlers keep them: every value has its type, and     *)
(* every id stored in an approval, a consumption, a token, an event, a     *)
(* request or a resolution names a row that exists at that moment.         *)
THEOREM TypeCorrect == Spec => []TypeOK
<1>1. Init => TypeOK
  BY InitTyped
<1>2. IInv /\ TypeOK /\ [Next]_vars => TypeOK'
  BY NextTyped
<1> QED BY <1>1, <1>2, InvariantHolds, PTL DEF Spec

(***************************************************************************)
(* What a log that verifies proves of its past.  These are facts about     *)
(* every log verify_event_chain accepts, also one somebody rewrote.  They  *)
(* hold of bodies as the verifier reads them: it does not tell JSON text   *)
(* from the value the text stands for.                                     *)
(***************************************************************************)
\* hash h, found in row i, stands for the bodies, as re-read, of the rows up to i
Binds(ev, i, h) ==
  /\ h \in Seq(BodySet) /\ Len(h) \in 1..i
  /\ \A j \in 1..Len(h) : /\ i - Len(h) + j \in ChainedRows(ev)
                          /\ ReRead(ev[i - Len(h) + j].body) = h[j]
  /\ i - Len(h) \notin ChainedRows(ev)

\* a set of numbers that has 0, and with each the next up to n, has them all
LEMMA Counting ==
  ASSUME NEW n \in Nat, NEW S, 0 \in S, \A m \in 1..n : m - 1 \in S => m \in S
  PROVE  \A m \in 0..n : m \in S
<1> SUFFICES ASSUME \E m \in 0..n : m \notin S PROVE FALSE
  OBVIOUS
<1> DEFINE R == {p \in Nat \X Nat : p[1] < p[2]}
           Left == {m \in 0..n : m \notin S}
<1>1. IsWellFoundedOn(R, Nat)
  BY NatLessThanWellFounded DEF OpToRel
<1>2. Left \subseteq Nat /\ Left # {}
  OBVIOUS
<1>3. PICK m \in Left : \A k \in Left : ~ (<<k, m>> \in R)
  <2> HIDE DEF R, Left
  <2> QED BY <1>1, <1>2, WFMin
<1>4. m \in 1..n
  OBVIOUS
<1>5. m - 1 \in Left /\ <<m - 1, m>> \in R
  BY <1>4
<1> QED BY <1>3, <1>5

\* one more link
LEMMA LinkBinds ==
  ASSUME NEW ev \in Seq(EventSet), ChainVerifies(ev), NEW i \in ChainedRows(ev),
         i - 1 \in ChainedRows(ev) => Binds(ev, i - 1, ev[i - 1].hash)
  PROVE  Binds(ev, i, ev[i].hash)
<1>1. i \in DOMAIN ev /\ DOMAIN ev = 1..Len(ev) /\ Len(ev) \in Nat /\ ev[i] \in EventSet
  BY SeqFacts DEF ChainedRows
<1>2. ev[i].prev = ExpectedPrev(ev, i) /\ ev[i].hash = Append(ev[i].prev, ReRead(ev[i].body))
  BY DEF ChainVerifies, PrevHolds, HashHolds, HashOf
<1>3. ReRead(ev[i].body) \in BodySet
  BY <1>1, ReReadShape DEF EventSet
<1> DEFINE h == ev[i].hash
           b == ReRead(ev[i].body)
<1>4. CASE i - 1 \in ChainedRows(ev)
  <2> DEFINE g == ev[i - 1].hash
  <2>1. ev[i].prev = g
    BY <1>2, <1>4 DEF ExpectedPrev
  <2>2. Binds(ev, i - 1, g)
    BY <1>4
  <2>3. h = Append(g, b) /\ b \in BodySet
    BY <1>2, <1>3, <2>1
  <2> HIDE DEF g, h, b
  <2>4. g \in Seq(BodySet) /\ Len(g) \in 1..(i - 1) /\ Len(g) \in Nat
    BY <1>1, <2>2 DEF Binds
  <2>5. /\ h \in Seq(BodySet) /\ Len(h) = Len(g) + 1 /\ h[Len(g) + 1] = b
        /\ \A j \in 1..Len(g) : h[j] = g[j]
    BY <2>3, <2>4
  <2>6. ASSUME NEW j \in 1..Len(h)
        PROVE  i - Len(h) + j \in ChainedRows(ev) /\ ReRead(ev[i - Len(h) + j].body) = h[j]
    <3>1. CASE j = Len(h)
      <4>1. i - Len(h) + j = i
        BY <1>1, <2>4, <2>5, <3>1
      <4> QED BY <2>5, <3>1, <4>1 DEF b
    <3>2. CASE j # Len(h)
      <4>1. j \in 1..Len(g) /\ i - Len(h) + j = (i - 1) - Len(g) + j
        BY <1>1, <2>4, <2>5, <3>2
      <4> QED BY <2>2, <2>5, <4>1 DEF Binds
    <3> QED BY <3>1, <3>2
  <2>7. i - Len(h) = (i - 1) - Len(g) /\ Len(h) \in 1..i
    BY <1>1, <2>4, <2>5
  <2>8. i - Len(h) \notin ChainedRows(ev)
    BY <2>2, <2>7 DEF Binds
  <2> QED BY <2>5, <2>6, <2>7, <2>8 DEF Binds, h
<1>5. CASE i - 1 \notin ChainedRows(ev)
  <2>1. h = Append(<< >>, b)
    BY <1>2, <1>5 DEF ExpectedPrev, GenesisHash
  <2>2. h \in Seq(BodySet) /\ Len(h) = 1 /\ h[1] = b
    BY <1>3, <2>1
  <2>3. i - Len(h) + 1 = i /\ i - Len(h) = i - 1 /\ Len(h) \in 1..i /\ 1..Len(h) = {1}
    BY <1>1, <2>2
  <2> QED BY <1>5, <2>2, <2>3 DEF Binds
<1> QED BY <1>4, <1>5

LEMMA HashBinds ==
  ASSUME NEW ev \in Seq(EventSet), ChainVerifies(ev)
  PROVE  \A i \in ChainedRows(ev) : Binds(ev, i, ev[i].hash)
<1> DEFINE S == {i \in Nat : i \in ChainedRows(ev) => Binds(ev, i, ev[i].hash)}
<1>1. DOMAIN ev = 1..Len(ev) /\ Len(ev) \in Nat /\ ChainedRows(ev) \subseteq 1..Len(ev)
  BY SeqFacts DEF ChainedRows
<1>2. 0 \in S
  BY <1>1
<1>3. ASSUME NEW m \in 1..Len(ev), m - 1 \in S
      PROVE  m \in S
  <2>1. m - 1 \in ChainedRows(ev) => Binds(ev, m - 1, ev[m - 1].hash)
    BY <1>3
  <2>2. m \in ChainedRows(ev) => Binds(ev, m, ev[m].hash)
    BY <2>1, LinkBinds
  <2> QED BY <1>1, <2>2
<1>4. \A m \in 0..Len(ev) : m \in S
  <2> HIDE DEF S
  <2> QED BY <1>1, <1>2, <1>3, Counting
<1> QED BY <1>1, <1>4

(* verify_event_chain: a log that verifies is a legacy prefix followed by   *)
(* as many chained rows as its head stands for, with exactly the bodies the *)
(* head stands for.  The head alone fixes what was logged since chaining,  *)
(* up to what json.loads makes of it.                                      *)
THEOREM HeadBindsHistory ==
  ASSUME NEW ev \in Seq(EventSet), ChainVerifies(ev)
  PROVE  LET h == HeadHash(ev)
             first == Len(ev) - Len(h) + 1
         IN  /\ Len(h) \in 0..Len(ev)
             /\ ChainedRows(ev) = first..Len(ev)
             /\ \A j \in 1..Len(h) : ReRead(ev[first + j - 1].body) = h[j]
<1> DEFINE h == HeadHash(ev)
           n == Len(ev)
<1>1. n \in Nat /\ DOMAIN ev = 1..n /\ ChainedRows(ev) \subseteq 1..n
  BY SeqFacts DEF ChainedRows
<1>2. UnchainedOnlyBefore(ev)
  BY DEF ChainVerifies
<1>3. /\ ChainedRows(ev) = {} => h = << >>
      /\ ChainedRows(ev) # {} => n \in ChainedRows(ev) /\ h = ev[n].hash
  BY <1>2, HeadFacts DEF GenesisHash
<1>4. CASE ChainedRows(ev) = {}
  <2>1. Len(h) = 0
    BY <1>3, <1>4
  <2> HIDE DEF h, n
  <2>2. Len(h) \in 0..n /\ (n - Len(h) + 1)..n = {} /\ 1..Len(h) = {}
    BY <1>1, <2>1
  <2> QED BY <1>4, <2>2 DEF h, n
<1>5. CASE ChainedRows(ev) # {}
  <2>1. Binds(ev, n, h)
    BY <1>3, <1>5, HashBinds
  <2> HIDE DEF h, n
  <2>2. /\ Len(h) \in 1..n /\ n - Len(h) \notin ChainedRows(ev)
        /\ \A j \in 1..Len(h) : /\ n - Len(h) + j \in ChainedRows(ev)
                                /\ ReRead(ev[n - Len(h) + j].body) = h[j]
    BY <2>1 DEF Binds
  <2>3. ASSUME NEW i \in ChainedRows(ev)
        PROVE  i \in (n - Len(h) + 1)..n
    <3>1. i \in 1..n
      BY <1>1
    <3>2. CASE i <= n - Len(h)
      <4>1. n - Len(h) \in DOMAIN ev /\ i \in DOMAIN ev /\ IsChained(ev[i])
        BY <1>1, <2>2, <3>1, <3>2 DEF ChainedRows
      <4>2. n - Len(h) \in ChainedRows(ev)
        <5>1. CASE i = n - Len(h)
          BY <5>1
        <5>2. CASE i < n - Len(h)
          BY <1>2, <4>1, <5>2 DEF UnchainedOnlyBefore, ChainedRows
        <5> QED BY <1>1, <2>2, <3>1, <3>2, <5>1, <5>2
      <4> QED BY <2>2, <4>2
    <3> QED BY <1>1, <2>2, <3>1, <3>2
  <2>4. ASSUME NEW i \in (n - Len(h) + 1)..n
        PROVE  i \in ChainedRows(ev)
    <3>1. i - (n - Len(h)) \in 1..Len(h) /\ n - Len(h) + (i - (n - Len(h))) = i
      BY <1>1, <2>2
    <3> QED BY <2>2, <3>1
  <2>5. ASSUME NEW j \in 1..Len(h)
        PROVE  ReRead(ev[(n - Len(h) + 1) + j - 1].body) = h[j]
    <3>1. (n - Len(h) + 1) + j - 1 = n - Len(h) + j
      BY <1>1, <2>2
    <3> QED BY <2>2, <3>1
  <2>6. Len(h) \in 0..n
    BY <1>1, <2>2
  <2> QED BY <2>3, <2>4, <2>5, <2>6 DEF h, n
<1> QED BY <1>4, <1>5

(* What an external checkpoint of the head is worth: two logs that verify   *)
(* with the same head have the same history since chaining, row by row from *)
(* the last, as the verifier reads it; only legacy rows may differ.        *)
THEOREM SameHeadSameHistory ==
  ASSUME NEW ev \in Seq(EventSet), ChainVerifies(ev),
         NEW other \in Seq(EventSet), ChainVerifies(other), HeadHash(ev) = HeadHash(other)
  PROVE  /\ \A back \in Nat :
              Len(ev) - back \in ChainedRows(ev) <=> Len(other) - back \in ChainedRows(other)
         /\ \A back \in Nat : Len(ev) - back \in ChainedRows(ev) =>
              ReRead(ev[Len(ev) - back].body) = ReRead(other[Len(other) - back].body)
<1>1. PICK h : h = HeadHash(ev) /\ h = HeadHash(other)
  OBVIOUS
<1>2. PICK n, k : n = Len(ev) /\ k = Len(other)
  OBVIOUS
<1>3. /\ n \in Nat /\ Len(h) \in 0..n /\ ChainedRows(ev) = (n - Len(h) + 1)..n
      /\ \A j \in 1..Len(h) : ReRead(ev[(n - Len(h) + 1) + j - 1].body) = h[j]
  BY <1>1, <1>2, HeadBindsHistory, SeqFacts
<1>4. /\ k \in Nat /\ Len(h) \in 0..k /\ ChainedRows(other) = (k - Len(h) + 1)..k
      /\ \A j \in 1..Len(h) : ReRead(other[(k - Len(h) + 1) + j - 1].body) = h[j]
  BY <1>1, <1>2, HeadBindsHistory, SeqFacts
<1>5. ASSUME NEW back \in Nat
      PROVE  /\ n - back \in ChainedRows(ev) <=> back < Len(h)
             /\ k - back \in ChainedRows(other) <=> back < Len(h)
  BY <1>3, <1>4
<1>6. ASSUME NEW back \in Nat, back < Len(h)
      PROVE  ReRead(ev[n - back].body) = ReRead(other[k - back].body)
  <2>1. Len(h) - back \in 1..Len(h)
    BY <1>3, <1>6
  <2>2. /\ (n - Len(h) + 1) + (Len(h) - back) - 1 = n - back
        /\ (k - Len(h) + 1) + (Len(h) - back) - 1 = k - back
    BY <1>3, <1>4
  <2> QED BY <1>3, <1>4, <2>1, <2>2
<1> QED BY <1>2, <1>5, <1>6

(* No step rewrites what was logged: the head either stays, or stands for   *)
(* one more event, that of the request whose append commits.               *)
HistoryGrows ==
  \/ HeadHash(events') = HeadHash(events)
  \/ \E c \in Calls : /\ call[c].step = "logging"
                     /\ HeadHash(events') = Append(HeadHash(events), Body(c))

LEMMA CommitGrows ==
  ASSUME IInv, NEW c \in Calls, LogCommit(c)
  PROVE  HeadHash(events') = Append(HeadHash(events), Body(c))
<1>1. /\ call[c].step = "logging" /\ call[c].head = HeadHash(events)
      /\ events' = Logged(events, Body(c), HeadHash(events))
  BY CallFacts DEF LogCommit, CallLogged
<1>2. Body(c) \in BodySet /\ Body(c).version = "1"
  BY CallFacts DEF Body, BodySet, CallSet, Versions
<1>3. PICK ev : ev = Logged(events, Body(c), HeadHash(events))
  OBVIOUS
<1>4. ChainWritten(ev) /\ ev \in Seq(EventSet) /\ Len(ev) = Len(events) + 1
  <2>1. Body(c) \in Stamped
    BY <1>2 DEF Stamped
  <2>2. OneMore(ev, events, Body(c))
    BY <1>3, <2>1, ChainGrows DEF IInv, Shape, LogInv
  <2> QED BY <2>2 DEF OneMore
<1>5. events \in Seq(EventSet) /\ UnchainedOnlyBefore(events)
  BY DEF IInv, Shape, LogInv, ChainWritten
<1>6. HeadHash(events) \in Seq(BodySet)
  BY <1>5, HeadShape
<1> DEFINE row == NewRow(Body(c), HeadHash(events))
<1>7. row.hash = Append(HeadHash(events), Body(c)) /\ row.hash # Unchained
  BY <1>2, <1>6, ChainAssumption DEF NewRow, HashOf
<1>8. ev[Len(ev)] = row
  <2>1. ev = Append(events, row)
    BY <1>3 DEF Logged
  <2> HIDE DEF row
  <2> QED BY <1>4, <1>5, <2>1
<1> HIDE DEF row
<1>9. Len(ev) \in ChainedRows(ev)
  <2>1. Len(ev) \in DOMAIN ev
    BY <1>4, <1>5
  <2> QED BY <1>7, <1>8, <2>1 DEF ChainedRows, IsChained
<1>10. HeadHash(ev) = ev[Len(ev)].hash
  BY <1>4, <1>9, HeadFacts DEF ChainWritten
<1> QED BY <1>1, <1>3, <1>7, <1>8, <1>10

(* EventStore.log with any number of concurrent, failing and interrupted    *)
(* writers: together with HeadBindsHistory, a head that was checkpointed    *)
(* once stays a prefix of every later one.                                 *)
THEOREM HistoryOnlyGrows == Spec => [][HistoryGrows]_vars
<1>1. IInv /\ [Next]_vars => [HistoryGrows]_vars
  <2> SUFFICES ASSUME IInv, Next PROVE HistoryGrows
    OBVIOUS
  <2>1. ASSUME NEW c \in Calls, GuardStep(c)
        PROVE  HistoryGrows
    <3>1. CASE LogCommit(c)
      BY <3>1, CommitGrows DEF HistoryGrows, LogCommit
    <3>2. CASE ~ LogCommit(c)
      <4>1. events' = events
        <5>1. ASSUME NEW request \in Requests, NEW token \in Signed \cup {NoToken},
                     NEW decision \in Outcomes,
                     Evaluate(c, request[1], request[2], token, decision)
              PROVE  events' = events
          BY <5>1 DEF Evaluate
        <5>2. Consume(c) \/ RejectToken(c) => events' = events
          BY DEF Consume, RejectToken
        <5>3. LogBegin(c) \/ LogFails(c) => events' = events
          BY DEF LogBegin, LogFails
        <5>4. CreatePending(c) \/ CreateFails(c) => events' = events
          BY DEF CreatePending, CreateFails
        <5> QED BY <2>1, <3>2, <5>1, <5>2, <5>3, <5>4 DEF GuardStep
      <4> QED BY <4>1 DEF HistoryGrows
    <3> QED BY <3>1, <3>2
  <2>2. ASSUME NEW o \in Operators, ResolutionStep(o)
        PROVE  events' = events
    BY <2>2 DEF ResolutionStep, ReadRow, CheckDeadline, MarkExpired, Deny, Approve
  <2>3. Crash \/ Tick => events' = events
    BY DEF Crash, Tick
  <2> QED BY <2>1, <2>2, <2>3 DEF Next, HistoryGrows
<1> QED BY <1>1, InvariantHolds, PTL DEF Spec

(***************************************************************************)
(* When resolutions are final.  ResolutionIsFinal does not hold in         *)
(* general: two requests may both read an approval as pending.  That they  *)
(* overlap on one approval is all it takes; nothing else reopens one.      *)
(***************************************************************************)
Resolving(o) == op[o].step \notin {"idle", "done"}

\* no two requests in flight resolve the same approval
Undisputed ==
  \A o \in Operators, p \in Operators :
    Resolving(o) /\ Resolving(p) /\ op[o].approval = op[p].approval => o = p

\* what a request read of its approval still holds when it writes
StillPending ==
  \A o \in Operators : Resolving(o) =>
    op[o].approval \in DOMAIN rows /\ rows[op[o].approval].status = "pending"

FinalStep ==
  \A i \in DOMAIN rows : rows[i].status \in Resolved => rows'[i].status = rows[i].status

LEMMA RowsAlone ==
  ASSUME StillPending, UNCHANGED rows,
         \A o \in Operators : op'[o] = op[o] \/ op'[o].step = "done"
  PROVE  StillPending' /\ FinalStep
BY DEF StillPending, FinalStep, Resolving

\* a write to a row that nobody else resolves, and is not resolved yet
LEMMA RowWritten ==
  ASSUME IInv, StillPending, NEW i \in DOMAIN rows, NEW new \in RowSet,
         rows' = [rows EXCEPT ![i] = new], rows[i].status \notin Resolved,
         \A o \in Operators : op'[o] = op[o] \/ op'[o].step = "done",
         \A o \in Operators : op'[o].step \notin {"idle", "done"} => op[o].approval # i
  PROVE  StillPending' /\ FinalStep
<1>1. /\ DOMAIN rows' = DOMAIN rows /\ rows'[i] = new
      /\ \A j \in DOMAIN rows : j # i => rows'[j] = rows[j]
  BY DEF IInv, Shape
<1>2. FinalStep
  BY <1>1 DEF FinalStep
<1>3. ASSUME NEW o \in Operators, op'[o].step \notin {"idle", "done"}
      PROVE  op'[o].approval \in DOMAIN rows' /\ rows'[op'[o].approval].status = "pending"
  <2>1. op'[o] = op[o] /\ op[o].approval # i
    BY <1>3
  <2>2. op[o].approval \in DOMAIN rows /\ rows[op[o].approval].status = "pending"
    BY <1>3, <2>1 DEF StillPending, Resolving
  <2> QED BY <1>1, <2>1, <2>2
<1> QED BY <1>2, <1>3 DEF StillPending, Resolving

LEMMA ResolutionFinal ==
  ASSUME IInv, Undisputed, StillPending, NEW o \in Operators, ResolutionStep(o)
  PROVE  StillPending' /\ FinalStep
<1> DEFINE i == op[o].approval
<1>1. \A p \in Operators : op[p] \in OpSet
  BY ShapeFacts DEF IInv
<1>2. ASSUME NEW j \in DOMAIN rows, NEW verb \in {"approving", "denying"}, ReadRow(o, j, verb)
      PROVE  StillPending' /\ FinalStep
  <2> DEFINE r == IF rows[j].status = "pending" THEN [step |-> verb, approval |-> j] ELSE Done
  <2>1. /\ op' = [op EXCEPT ![o] = r] /\ rows' = rows
        /\ r.step \notin {"idle", "done"} => r.approval = j /\ rows[j].status = "pending"
    BY <1>2 DEF ReadRow, Done
  <2> HIDE DEF r
  <2>2. op'[o] = r /\ \A p \in Operators : p # o => op'[p] = op[p]
    BY <2>1 DEF IInv, Shape
  <2> QED BY <2>1, <2>2 DEF StillPending, FinalStep, Resolving
<1>3. CASE CheckDeadline(o)
  <2> DEFINE s == IF rows[i].deadline < now THEN "expiring" ELSE "signing"
             r == [op[o] EXCEPT !.step = s]
  <2>1. op[o].step = "approving" /\ op' = [op EXCEPT ![o] = r] /\ rows' = rows
    BY <1>3 DEF CheckDeadline
  <2>2. r.approval = i
    BY <1>1 DEF OpSet
  <2>3. i \in DOMAIN rows /\ rows[i].status = "pending"
    BY <2>1 DEF StillPending, Resolving
  <2> HIDE DEF r
  <2>4. op'[o] = r /\ \A p \in Operators : p # o => op'[p] = op[p]
    BY <2>1 DEF IInv, Shape
  <2> QED BY <2>1, <2>2, <2>3, <2>4 DEF StillPending, FinalStep, Resolving
<1>4. ASSUME NEW new \in RowSet, Resolving(o), rows' = [rows EXCEPT ![i] = new],
             op' = [op EXCEPT ![o] = Done]
      PROVE  StillPending' /\ FinalStep
  <2>1. i \in DOMAIN rows /\ rows[i].status = "pending"
    BY <1>4 DEF StillPending
  <2>2. op'[o].step = "done" /\ \A p \in Operators : p # o => op'[p] = op[p]
    BY <1>4 DEF IInv, Shape, Done
  <2>3. \A p \in Operators : op'[p].step \notin {"idle", "done"} => op[p].approval # i
    BY <1>4, <2>2 DEF Undisputed, Resolving
  <2> HIDE DEF i
  <2> QED BY <1>4, <2>1, <2>2, <2>3, RowWritten DEF Resolved
<1>5. Resolving(o) => i \in DOMAIN rows /\ rows[i] \in RowSet
  BY ShapeFacts DEF StillPending, IInv
<1>6. CASE MarkExpired(o)
  <2>1. /\ Resolving(o) /\ rows' = [rows EXCEPT ![i] = ExpiredRow(rows[i])]
        /\ op' = [op EXCEPT ![o] = Done]
    BY <1>6 DEF MarkExpired, Resolving
  <2> QED BY <1>4, <1>5, <2>1, RowUpdates
<1>7. CASE Deny(o)
  <2>1. /\ Resolving(o) /\ rows' = [rows EXCEPT ![i] = DeniedRow(rows[i])]
        /\ op' = [op EXCEPT ![o] = Done]
    BY <1>7 DEF Deny, Resolving
  <2> QED BY <1>4, <1>5, <2>1, RowUpdates
<1>8. CASE Approve(o)
  <2>1. /\ Resolving(o) /\ rows' = [rows EXCEPT ![i] = ApprovedRow(rows[i], o)]
        /\ op' = [op EXCEPT ![o] = Done]
    BY <1>8 DEF Approve, Resolving
  <2> QED BY <1>4, <1>5, <2>1, RowUpdates
<1> QED BY <1>2, <1>3, <1>6, <1>7, <1>8 DEF ResolutionStep

LEMMA GuardFinal ==
  ASSUME IInv, StillPending, NEW c \in Calls, GuardStep(c)
  PROVE  StillPending' /\ FinalStep
<1>1. CASE Consume(c)
  <2> DEFINE i == call[c].approval
             new == ConsumedRow(rows[i])
  <2>1. rows' = [rows EXCEPT ![i] = new] /\ op' = op
    BY <1>1 DEF Consume
  <2>2. i \in DOMAIN rows /\ rows[i].status = "approved" /\ rows[i] \in RowSet
    BY <1>1, ConsumeFacts, ShapeFacts DEF IInv
  <2>3. new \in RowSet
    BY <2>2 DEF ConsumedRow, RowSet, Statuses
  <2>4. \A o \in Operators : op'[o].step \notin {"idle", "done"} => op[o].approval # i
    BY <2>1, <2>2 DEF StillPending, Resolving
  <2> HIDE DEF i, new
  <2> QED BY <2>1, <2>2, <2>3, <2>4, RowWritten DEF Resolved
<1>2. CASE CreatePending(c)
  <2> DEFINE new == PendingRow(call[c].action, call[c].event, now)
  <2>1. rows' = Append(rows, new) /\ op' = op
    BY <1>2 DEF CreatePending
  <2> HIDE DEF new
  <2>2. DOMAIN rows \subseteq DOMAIN rows' /\ \A j \in DOMAIN rows : rows'[j] = rows[j]
    BY <2>1 DEF IInv, Shape
  <2> QED BY <2>1, <2>2 DEF StillPending, FinalStep, Resolving
<1>3. CASE ~ Consume(c) /\ ~ CreatePending(c)
  <2>1. rows' = rows /\ op' = op
    <3>1. ASSUME NEW request \in Requests, NEW token \in Signed \cup {NoToken},
                 NEW decision \in Outcomes,
                 Evaluate(c, request[1], request[2], token, decision)
          PROVE  rows' = rows /\ op' = op
      BY <3>1 DEF Evaluate
    <3>2. RejectToken(c) \/ LogBegin(c) => rows' = rows /\ op' = op
      BY DEF RejectToken, LogBegin
    <3>3. LogCommit(c) \/ LogFails(c) => rows' = rows /\ op' = op
      BY DEF LogCommit, LogFails
    <3>4. CreateFails(c) => rows' = rows /\ op' = op
      BY DEF CreateFails
    <3> QED BY <1>3, <3>1, <3>2, <3>3, <3>4 DEF GuardStep
  <2> QED BY <2>1, RowsAlone
<1> QED BY <1>1, <1>2, <1>3

LEMMA NextFinal ==
  IInv /\ Undisputed /\ StillPending /\ [Next]_vars => StillPending' /\ [FinalStep]_vars
<1> SUFFICES ASSUME IInv, Undisputed, StillPending, [Next]_vars
             PROVE  StillPending' /\ FinalStep
  OBVIOUS
<1>1. CASE Crash
  <2>1. /\ rows' = rows
        /\ op' = [o \in Operators |-> IF op[o].step = "idle" THEN op[o] ELSE Done]
    BY <1>1 DEF Crash
  <2>2. \A o \in Operators : op'[o] = op[o] \/ op'[o].step = "done"
    BY <2>1 DEF Done
  <2> QED BY <2>1, <2>2, RowsAlone
<1>2. CASE Tick \/ UNCHANGED vars
  BY <1>2, RowsAlone DEF Tick, vars
<1> QED BY <1>1, <1>2, GuardFinal, ResolutionFinal DEF Next

(* approve and deny compare the status and write in separate transactions.  *)
(* As long as no two requests resolve one approval at the same time, a     *)
(* resolved approval stays resolved, consumption and crashes included: the *)
(* overlap the counterexample shows is the only way to reopen one.         *)
THEOREM UndisputedIsFinal == Spec /\ []Undisputed => ResolutionIsFinal
<1>1. Init => StillPending
  BY DEF Init, StillPending, Resolving, NewOp
<1>2. IInv /\ Undisputed /\ StillPending /\ [Next]_vars => StillPending' /\ [FinalStep]_vars
  BY NextFinal
<1>3. [][FinalStep]_vars => ResolutionIsFinal
  BY PTL DEF FinalStep, ResolutionIsFinal
<1> QED BY <1>1, <1>2, <1>3, InvariantHolds, PTL DEF Spec
=============================================================================
