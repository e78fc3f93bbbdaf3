-------------------------- MODULE ThreatIntelProofs --------------------------
(***************************************************************************)
(* For every set of contents, templates and calls, and every history of    *)
(* polls, approvals, stale saves, failures and restarts: the invariants of *)
(* a threat-intelligence item, and who can reopen it.                      *)
(***************************************************************************)
EXTENDS ThreatIntel, TLAPS

\* the type TypeOK gives a call
Requests ==
    [step : {"idle", "load", "ingest", "prune", "delete", "clear", "merge",
             "write", "engine", "approved", "refresh"} \cup Targets,
     kind : Locking \cup {"show", "status", "replay", "policy"},
     via : Places, copy : Items \cup {None}, hash : Shown,
     policy : Policies]

(***************************************************************************)
(* The inductive invariant.  It speaks of the document in the store and of *)
(* every copy a call has in hand: any of them may be saved.  rules are     *)
(* those an item may be enforced over; policy.json names no other.         *)
(***************************************************************************)
Sourced == upheld \cup Dormant

DocOK(doc, rules) ==
    /\ doc.hash \in Withdrawn => doc.candidate = None
    /\ doc.lifecycle = "ENFORCED" => doc.candidate \in rules

ApproveOK(r, rules) ==
    /\ r.step \in {"clear", "merge", "write", "engine", "approved"}
    /\ r.copy # None /\ r.copy.candidate # None
    /\ r.hash \in {None, r.copy.hash}
    /\ r.step \in {"merge", "write"} => r.copy.candidate = RuleOf[r.copy.hash]
    /\ r.step = "write" =>
          /\ r.copy.candidate \in r.policy.named \cap r.policy.proven
          /\ r.policy.named \subseteq rules \cup {r.copy.candidate}
    /\ r.step \in {"engine", "approved"} => r.copy.candidate \in rules

CallOK(r, rules) ==
    /\ r.copy # None => DocOK(r.copy, rules)
    /\ r.step \in {"load", "ingest"} => r.hash # None
    /\ r.step \in Targets \cup {"delete", "refresh"} => r.copy # None
    /\ r.step \in Targets \cup {"delete"} => r.copy.lifecycle # "ENFORCED"
    /\ r.kind = "decide" => r.step \in Targets
    /\ r.step = "refresh" => r.kind \in {"show", "status", "replay"}
    /\ r.step \in {"clear", "merge", "approved"} => r.kind = "approve"
    /\ r.step \in {"write", "engine"} => r.kind \in {"approve", "policy"}
    /\ r.kind = "policy" /\ r.step = "write" =>
          r.policy.named \ r.policy.proven \subseteq Dormant
    /\ r.kind = "approve" => ApproveOK(r, rules)

IInv ==
    /\ TypeOK
    /\ file.named \subseteq Sourced
    /\ item # None => DocOK(item, Sourced)
    /\ \A c \in Calls : CallOK(call[c], Sourced)

(***************************************************************************)
(* The helpers.                                                            *)
(***************************************************************************)
LEMMA DormantRules ==
    /\ Dormant \subseteq Rules
    /\ \A policy \in FirstPolicies \cup Replacements :
          policy.named \ policy.proven \subseteq Dormant
<1>1. ASSUME NEW policy \in FirstPolicies \cup Replacements
      PROVE  policy.named \ policy.proven \in SUBSET Rules
  BY PosturesAssumption DEF Policies
<1> QED BY <1>1 DEF Dormant

LEMMA RulesHaveNoNone == None \notin Rules /\ None \notin Hashes
BY ContentsAssumption

LEMMA AssessResult ==
    ASSUME NEW h \in Hashes, NEW policy, NEW posture \in Postures
    PROVE  /\ Assess(h, policy, posture) \in Results
           /\ Assess(h, policy, posture) = "EXPOSED" => h \notin Unmapped
BY PosturesAssumption DEF Assess, Results, AllPostures

\* a candidate is the template rule of the content it was made for
LEMMA CandidateIsTemplate ==
    ASSUME NEW h \in Hashes, NEW policy, NEW posture \in Postures
    PROVE  /\ CandidateFor(h, policy, posture) \in Rules \cup {None}
           /\ CandidateFor(h, policy, posture) # None =>
                 CandidateFor(h, policy, posture) = RuleOf[h]
<1>1. Assess(h, policy, posture) = "EXPOSED" => RuleOf[h] \in Rules
  BY AssessResult DEF Rules
<1> QED BY <1>1 DEF CandidateFor

\* an ingested document is of its content and is not enforced
LEMMA IngestedDoc ==
    ASSUME NEW h \in Hashes, NEW policy, NEW posture \in Postures, NEW rules
    PROVE  /\ Ingested(h, policy, posture) \in Items
           /\ DocOK(Ingested(h, policy, posture), rules)
<1> DEFINE result == Assess(h, policy, posture)
           candidate == CandidateFor(h, policy, posture)
<1>1. result \in Results /\ candidate \in Rules \cup {None}
  BY AssessResult, CandidateIsTemplate
<1>2. LifecycleOf(result, candidate) \in Lifecycles \ {"ENFORCED"}
  BY <1>1 DEF LifecycleOf, Results, Lifecycles
<1> HIDE DEF result, candidate
<1>3. CASE h \in Withdrawn
  BY <1>3 DEF Ingested, Doc, Items, Lifecycles, Shown, DocOK
<1>4. CASE h \notin Withdrawn
  <2>1. Ingested(h, policy, posture)
          = Doc(h, LifecycleOf(result, candidate), result, candidate)
    BY <1>4 DEF Ingested, result, candidate
  <2> QED BY <1>1, <1>2, <1>4, <2>1 DEF Doc, Items, Shown, DocOK
<1> QED BY <1>3, <1>4

\* a poll leaves an enforced document enforced
LEMMA AdvanceDoc ==
    ASSUME NEW doc \in Items \cup {None}, NEW h \in Hashes, NEW policy,
           NEW posture \in Postures, NEW rules \in SUBSET Rules,
           doc # None => DocOK(doc, rules)
    PROVE  /\ Advance(doc, h, policy, posture) \in Items
           /\ DocOK(Advance(doc, h, policy, posture), rules)
           /\ Locked(doc) => Locked(Advance(doc, h, policy, posture))
<1>1. CASE doc # None /\ doc.hash = h /\ h \notin Withdrawn
  BY <1>1 DEF Advance
<1>2. CASE Locked(doc) /\ doc.hash # h
  <2>1. Advance(doc, h, policy, posture) = [doc EXCEPT !.pending = h]
    BY <1>2 DEF Advance
  <2>2. doc \in Items /\ [doc EXCEPT !.pending = h] \in Items
    BY <1>2 DEF Items, Shown, Locked
  <2> QED BY <1>2, <2>1, <2>2, NoItemAssumption DEF Locked, DocOK, Items
<1>3. CASE /\ ~(doc # None /\ doc.hash = h /\ h \notin Withdrawn)
           /\ ~(Locked(doc) /\ doc.hash # h)
  <2>1. Advance(doc, h, policy, posture) = Ingested(h, policy, posture)
    BY <1>3 DEF Advance
  <2>2. ~Locked(doc)
    BY <1>3, RulesHaveNoNone DEF Locked, DocOK
  <2> QED BY <2>1, <2>2, IngestedDoc
<1> QED BY <1>1, <1>2, <1>3

\* a refresh changes the applicability only
LEMMA RefreshedDoc ==
    ASSUME NEW doc \in Items, NEW policy, NEW posture \in Postures
    PROVE  /\ Refreshed(doc, policy, posture) \in Items
           /\ Refreshed(doc, policy, posture).hash = doc.hash
           /\ Refreshed(doc, policy, posture).lifecycle = doc.lifecycle
           /\ Refreshed(doc, policy, posture).candidate = doc.candidate
<1>1. doc.hash \in Hashes
  BY DEF Items
<1>2. Assess(doc.hash, policy, posture) \in Results
  BY <1>1, AssessResult
<1> QED BY <1>2 DEF Refreshed, Items

(***************************************************************************)
(* What every step of a call has to show: the call and the document it     *)
(* leaves are in order.                                                    *)
(***************************************************************************)
LEMMA MoreRules ==
    ASSUME NEW rules \in SUBSET Rules, NEW more \in SUBSET Rules, rules \subseteq more
    PROVE  /\ \A doc : DocOK(doc, rules) => DocOK(doc, more)
           /\ \A r : CallOK(r, rules) => CallOK(r, more)
<1>1. \A doc : DocOK(doc, rules) => DocOK(doc, more)
  BY DEF DocOK
<1>2. \A r : ApproveOK(r, rules) => ApproveOK(r, more)
  BY DEF ApproveOK
<1> QED BY <1>1, <1>2 DEF CallOK

LEMMA StepKeepsIInv ==
    ASSUME IInv, NEW c \in Calls, NEW r \in Requests,
           call' = [call EXCEPT ![c] = r], CallOK(r, Sourced'),
           Sourced \subseteq Sourced', upheld' \subseteq Rules,
           file' \in Policies, file'.named \subseteq Sourced', engine' \in Policies,
           upstream' \in Hashes, cursor' \in Shown,
           item' \in Items \cup {None}, item' # None => DocOK(item', Sourced')
    PROVE  IInv'
<1>1. call \in [Calls -> Requests] /\ Sourced \subseteq Rules /\ Sourced' \subseteq Rules
  BY DormantRules DEF IInv, TypeOK, Requests, Sourced
<1>2. call' \in [Calls -> Requests]
  BY <1>1
<1>3. TypeOK'
  BY <1>2 DEF TypeOK, Requests
<1>4. ASSUME NEW d \in Calls PROVE CallOK(call[d], Sourced)'
  <2>1. CASE d = c BY <1>1, <2>1
  <2>2. CASE d # c
    <3>1. call'[d] = call[d] BY <1>1, <2>2
    <3>2. CallOK(call[d], Sourced) BY DEF IInv
    <3> QED BY <1>1, <3>1, <3>2, MoreRules
  <2> QED BY <2>1, <2>2
<1> QED BY <1>3, <1>4 DEF IInv

\* what the invariant says of the call a step is about
LEMMA CallFacts ==
    ASSUME IInv, NEW c \in Calls
    PROVE  /\ call \in [Calls -> Requests] /\ call[c] \in Requests
           /\ CallOK(call[c], Sourced)
           /\ Copy(c) \in Items \cup {None}
           /\ upheld \subseteq Rules /\ Sourced \subseteq Rules
           /\ file \in Policies /\ engine \in Policies /\ file.named \subseteq Sourced
           /\ upstream \in Hashes /\ cursor \in Shown
           /\ item \in Items \cup {None} /\ (item # None => DocOK(item, Sourced))
<1>1. call \in [Calls -> Requests]
  BY DEF IInv, TypeOK, Requests
<1> QED BY <1>1, DormantRules DEF IInv, TypeOK, Requests, Copy, Sourced

LEMMA IdleOK == Idle \in Requests /\ \A rules : CallOK(Idle, rules)
<1>1. Idle \in Requests
  BY DEF Idle, Requests, Locking, Places, Shown, Policies, NoRules
<1>2. \A rules : CallOK(Idle, rules)
  BY DEF Idle, CallOK, Targets
<1> QED BY <1>1, <1>2

\* a call that starts has loaded the item or nothing
LEMMA StartKeepsIInv ==
    ASSUME IInv, NEW c \in Calls, NEW kind, NEW via \in Places, NEW step,
           NEW copy, NEW hash \in Shown, Starts(c, kind, via, step, copy, hash),
           copy \in {item, None}, UNCHANGED <<upstream, item, Policy>>, cursor' \in Shown,
           \/ kind = "poll" /\ step = "load" /\ hash # None /\ copy = None
           \/ kind = "decide" /\ step \in Targets /\ copy # None
              /\ copy.lifecycle # "ENFORCED"
           \/ kind = "approve" /\ step = "clear" /\ copy # None
              /\ copy.candidate # None /\ hash \in {None, copy.hash}
           \/ kind \in {"show", "status", "replay"} /\ step = "refresh" /\ copy # None
    PROVE  IInv'
<1> DEFINE policy == IF via = "cli" /\ kind \notin Heedless THEN file ELSE NoRules
           r == [Idle EXCEPT !.step = step, !.kind = kind, !.via = via, !.copy = copy,
                             !.hash = hash, !.policy = policy]
<1>1. copy \in Items \cup {None} /\ policy \in Policies
  BY CallFacts DEF Policies, NoRules
<1> HIDE DEF policy
<1>2. call' = [call EXCEPT ![c] = r]
  BY DEF Starts, policy
<1>3. r.step = step /\ r.kind = kind /\ r.copy = copy /\ r.hash = hash
  BY DEF Idle
<1>4. r \in Requests
  <2>1. /\ kind \in Locking \cup {"show", "status", "replay", "policy"}
        /\ step \in {"load", "clear", "refresh"} \cup Targets
    BY DEF Locking
  <2> QED BY <1>1, <2>1 DEF Requests, Idle
<1>5. copy # None => DocOK(copy, Sourced)
  BY CallFacts
<1> HIDE DEF r
<1>6. CallOK(r, Sourced)
  <2>1. CASE kind = "poll" /\ step = "load" /\ hash # None /\ copy = None
    BY <1>3, <2>1 DEF CallOK, Targets
  <2>2. CASE kind = "decide" /\ step \in Targets /\ copy # None
              /\ copy.lifecycle # "ENFORCED"
    BY <1>3, <1>5, <2>2 DEF CallOK, Targets
  <2>3. CASE kind = "approve" /\ step = "clear" /\ copy # None
              /\ copy.candidate # None /\ hash \in {None, copy.hash}
    BY <1>3, <1>5, <2>3 DEF CallOK, ApproveOK, Targets
  <2>4. CASE kind \in {"show", "status", "replay"} /\ step = "refresh" /\ copy # None
    BY <1>3, <1>5, <2>4 DEF CallOK, Targets
  <2> QED BY <2>1, <2>2, <2>3, <2>4
<1> QED BY <1>2, <1>4, <1>6, CallFacts, StepKeepsIInv DEF Policy, Sourced

\* a call that ends, having left a document that is in order
LEMMA EndKeepsIInv ==
    ASSUME IInv, NEW c \in Calls, Ends(c), UNCHANGED <<Feed, Policy>>,
           item' \in Items \cup {None}, item' # None => DocOK(item', Sourced)
    PROVE  IInv'
BY IdleOK, CallFacts, StepKeepsIInv DEF Ends, Feed, Policy, Sourced

\* a call that moves on with its copy
LEMMA MoveKeepsIInv ==
    ASSUME IInv, NEW c \in Calls, NEW r \in Requests, call' = [call EXCEPT ![c] = r],
           CallOK(r, Sourced), UNCHANGED <<Feed, item, Policy>>
    PROVE  IInv'
BY CallFacts, StepKeepsIInv DEF Feed, Policy, Sourced

(***************************************************************************)
(* The steps of a call.                                                    *)
(***************************************************************************)
LEMMA StartsKeepIInv ==
    ASSUME IInv, NEW c \in Calls, NEW via \in Places,
           \/ PollFetch(c, via) \/ Show(c, via) \/ StatusSweep(c, via) \/ Replay(c, via)
           \/ \E target \in Targets : DecideLoad(c, via, target)
           \/ \E shown \in Shown : ApproveLoad(c, via, shown)
    PROVE  IInv'
<1> USE RulesHaveNoNone, CallFacts DEF Shown
<1>1. CASE PollFetch(c, via)
  <2>1. Starts(c, "poll", via, "load", None, upstream) /\ upstream # None
    BY <1>1 DEF PollFetch
  <2> QED BY <1>1, <2>1, StartKeepsIInv DEF PollFetch
<1>2. CASE Show(c, via) \/ StatusSweep(c, via) \/ Replay(c, via)
  <2>1. PICK kind \in {"show", "status", "replay"} :
          Starts(c, kind, via, "refresh", item, None)
    BY <1>2 DEF Show, StatusSweep, Replay
  <2>2. item # None /\ UNCHANGED <<Feed, item, Policy>>
    BY <1>2 DEF Show, StatusSweep, Replay, Locked
  <2> QED BY <2>1, <2>2, StartKeepsIInv DEF Feed
<1>3. ASSUME NEW target \in Targets, DecideLoad(c, via, target) PROVE IInv'
  <2>1. item # None /\ item.lifecycle # "ENFORCED"
    BY <1>3 DEF DecideLoad, MayDecide
  <2>2. Starts(c, "decide", via, target, item, None) /\ UNCHANGED <<Feed, item, Policy>>
    BY <1>3 DEF DecideLoad
  <2> QED BY <2>1, <2>2, StartKeepsIInv DEF Feed
<1>4. ASSUME NEW shown \in Shown, ApproveLoad(c, via, shown) PROVE IInv'
  <2>1. /\ item # None /\ item.candidate # None /\ shown \in {None, item.hash}
        /\ Starts(c, "approve", via, "clear", item, shown)
        /\ UNCHANGED <<Feed, item, Policy>>
    BY <1>4 DEF ApproveLoad
  <2> QED BY <2>1, StartKeepsIInv DEF Feed
<1> QED BY <1>1, <1>2, <1>3, <1>4

LEMMA PollKeepsIInv ==
    ASSUME IInv, NEW c \in Calls,
           PollLoad(c) \/ PollSave(c) \/ PruneSelect(c) \/ PruneDelete(c)
    PROVE  IInv'
<1> USE CallFacts
<1>1. CASE PollLoad(c)
  <2> DEFINE r == [call[c] EXCEPT !.step = "ingest", !.copy = item]
  <2>1. r \in Requests
    BY DEF Requests
  <2>2. /\ r.step = "ingest" /\ r.copy = item /\ r.kind = call[c].kind
        /\ r.hash = call[c].hash
    BY DEF Requests
  <2>3. /\ call[c].hash # None /\ call[c].kind \notin {"decide", "approve"}
    BY <1>1 DEF PollLoad, At, CallOK, ApproveOK, Targets
  <2>4. call' = [call EXCEPT ![c] = r] /\ UNCHANGED <<Feed, item, Policy>>
    BY <1>1 DEF PollLoad
  <2> HIDE DEF r
  <2>5. CallOK(r, Sourced)
    BY <2>2, <2>3 DEF CallOK, Targets
  <2> QED BY <2>1, <2>4, <2>5, MoveKeepsIInv
<1>2. CASE PollSave(c)
  <2> DEFINE r == [Idle EXCEPT !.step = "prune"]
  <2>1. PICK posture \in Postures :
          item' = Advance(Copy(c), call[c].hash, View(c), posture)
    BY <1>2 DEF PollSave
  <2>2. call[c].hash \in Hashes /\ (Copy(c) # None => DocOK(Copy(c), Sourced))
    BY <1>2 DEF PollSave, At, CallOK, Requests, Shown, Copy
  <2>3. item' \in Items /\ DocOK(item', Sourced)
    BY <2>1, <2>2, AdvanceDoc
  <2>4. r \in Requests /\ CallOK(r, Sourced)
    BY DEF Idle, Requests, CallOK, Locking, Places, Shown, Targets, Policies, NoRules
  <2>5. call' = [call EXCEPT ![c] = r] /\ UNCHANGED <<Feed, Policy>>
    BY <1>2 DEF PollSave
  <2> HIDE DEF r
  <2> QED BY <2>3, <2>4, <2>5, StepKeepsIInv DEF Feed, Policy, Sourced
<1>3. CASE PruneSelect(c)
  <2>1. CASE Ends(c)
    BY <1>3, <2>1, EndKeepsIInv DEF PruneSelect
  <2>2. CASE ~Ends(c)
    <3> DEFINE r == [call[c] EXCEPT !.step = "delete", !.copy = item]
    <3>1. /\ item # None /\ item.lifecycle # "ENFORCED"
          /\ call' = [call EXCEPT ![c] = r] /\ UNCHANGED <<Feed, item, Policy>>
      BY <1>3, <2>2 DEF PruneSelect, Prunable
    <3>2. r \in Requests
      BY DEF Requests
    <3>3. /\ r.step = "delete" /\ r.copy = item /\ r.kind = call[c].kind
      BY DEF Requests
    <3>4. call[c].kind \notin {"decide", "approve"}
      BY <1>3 DEF PruneSelect, At, CallOK, ApproveOK, Targets
    <3> HIDE DEF r
    <3>5. CallOK(r, Sourced)
      BY <3>1, <3>3, <3>4 DEF CallOK, Targets
    <3> QED BY <3>1, <3>2, <3>5, MoveKeepsIInv
  <2> QED BY <2>1, <2>2
<1>4. CASE PruneDelete(c)
  BY <1>4, EndKeepsIInv DEF PruneDelete
<1> QED BY <1>1, <1>2, <1>3, <1>4

LEMMA SaveKeepsIInv ==
    ASSUME IInv, NEW c \in Calls, DecideSave(c) \/ SaveView(c) \/ CallFails(c)
    PROVE  IInv'
<1> USE CallFacts
<1>1. CASE DecideSave(c)
  <2>1. call[c].step \in Targets /\ Copy(c) \in Items /\ DocOK(Copy(c), Sourced)
    BY <1>1 DEF DecideSave, CallOK, Copy
  <2>2. /\ item' = [Copy(c) EXCEPT !.lifecycle = call[c].step,
               !.applicability = IF call[c].step = "NOT_APPLICABLE"
                                 THEN "NOT_APPLICABLE" ELSE @]
        /\ Ends(c) /\ UNCHANGED <<Feed, Policy>>
    BY <1>1 DEF DecideSave
  <2>3. item' \in Items /\ DocOK(item', Sourced)
    BY <2>1, <2>2 DEF Items, Lifecycles, Results, Targets, DocOK
  <2> QED BY <2>2, <2>3, EndKeepsIInv
<1>2. CASE SaveView(c)
  <2>1. PICK posture \in Postures :
          LET seen == Refreshed(Copy(c), View(c), posture)
          IN  item' = CASE call[c].kind = "replay" -> Copy(c)
                        [] call[c].kind = "show"   -> seen
                        [] call[c].kind = "status" ->
                              IF seen = Copy(c) THEN item ELSE seen
    BY <1>2 DEF SaveView
  <2>2. /\ call[c].kind \in {"show", "status", "replay"}
        /\ Copy(c) \in Items /\ DocOK(Copy(c), Sourced)
    BY <1>2 DEF SaveView, At, CallOK, Copy
  <2>3. /\ Refreshed(Copy(c), View(c), posture) \in Items
        /\ DocOK(Refreshed(Copy(c), View(c), posture), Sourced)
    BY <2>2, RefreshedDoc DEF DocOK
  <2>4. item' \in {Copy(c), item, Refreshed(Copy(c), View(c), posture)}
    BY <2>1, <2>2
  <2>5. Ends(c) /\ UNCHANGED <<Feed, Policy>>
    BY <1>2 DEF SaveView
  <2> QED BY <2>2, <2>3, <2>4, <2>5, EndKeepsIInv
<1>3. CASE CallFails(c)
  BY <1>3, EndKeepsIInv DEF CallFails
<1> QED BY <1>1, <1>2, <1>3

\* an approval clears with a template of the content it loaded, and what it
\* writes is in policy.json before it calls the item enforced
LEMMA ApproveKeepsIInv ==
    ASSUME IInv, NEW c \in Calls, Clear(c) \/ Merge(c) \/ SaveApproved(c)
    PROVE  IInv'
<1> USE CallFacts
<1>1. ApproveOK(call[c], Sourced) /\ Copy(c) \in Items /\ DocOK(Copy(c), Sourced)
  BY DEF Clear, Merge, SaveApproved, At, CallOK, ApproveOK, Copy
<1>2. CASE Clear(c)
  <2>1. CASE Ends(c)
    BY <1>2, <2>1, EndKeepsIInv DEF Clear
  <2>2. CASE ~Ends(c)
    <3> DEFINE r == [call[c] EXCEPT !.step = "merge"]
    <3>1. PICK posture \in Postures :
            StillJustified(Copy(c), View(c), posture) /\ Goes(c, "merge")
      BY <1>2, <2>2 DEF Clear
    <3>2. call' = [call EXCEPT ![c] = r] /\ UNCHANGED <<Feed, item, Policy>>
      BY <1>2, <3>1 DEF Clear, Goes
    <3>3. Copy(c).candidate = RuleOf[Copy(c).hash]
      <4>1. Copy(c).hash \in Hashes /\ Copy(c).candidate # None
        BY <1>1 DEF Items, ApproveOK, Copy
      <4> QED BY <3>1, <4>1, CandidateIsTemplate DEF StillJustified
    <3>4. /\ r \in Requests /\ r.step = "merge"
          /\ r.kind = call[c].kind /\ r.copy = call[c].copy /\ r.hash = call[c].hash
      BY DEF Requests
    <3>5. call[c].kind = "approve"
      BY <1>2 DEF Clear, At, CallOK
    <3> HIDE DEF r
    <3>6. ApproveOK(r, Sourced)
      BY <1>1, <3>3, <3>4 DEF ApproveOK, Copy
    <3>7. CallOK(r, Sourced)
      BY <1>1, <3>4, <3>5, <3>6 DEF CallOK, Copy, Targets
    <3> QED BY <3>2, <3>4, <3>7, MoveKeepsIInv
  <2> QED BY <2>1, <2>2
<1>3. CASE Merge(c)
  <2>1. call[c].kind = "approve" /\ call[c].step = "merge"
    BY <1>3 DEF Merge, At, CallOK
  <2>2. CASE Present(file, Copy(c).candidate)
    <3> DEFINE r == [call[c] EXCEPT !.step = "engine", !.policy = file, !.hash = None]
    <3>1. call' = [call EXCEPT ![c] = r] /\ UNCHANGED <<Feed, item, Policy>>
      BY <1>3, <2>2 DEF Merge
    <3>2. /\ r \in Requests /\ r.step = "engine" /\ r.hash = None
          /\ r.kind = call[c].kind /\ r.copy = call[c].copy
      BY DEF Requests, Shown
    <3>3. Copy(c).candidate \in Sourced
      BY <2>2 DEF Present
    <3> HIDE DEF r
    <3>4. ApproveOK(r, Sourced)
      BY <1>1, <3>2, <3>3 DEF ApproveOK, Copy
    <3>5. CallOK(r, Sourced)
      BY <1>1, <2>1, <3>2, <3>4 DEF CallOK, Copy, Targets
    <3> QED BY <3>1, <3>2, <3>5, MoveKeepsIInv
  <2>3. CASE ~Present(file, Copy(c).candidate)
    <3> DEFINE rule == {Copy(c).candidate}
               policy == [named |-> file.named \cup rule, proven |-> file.proven \cup rule]
               r == [call[c] EXCEPT !.step = "write", !.policy = policy]
    <3>1. call' = [call EXCEPT ![c] = r] /\ UNCHANGED <<Feed, item, Policy>>
      BY <1>3, <2>3 DEF Merge
    <3>2. /\ policy \in Policies /\ Copy(c).candidate \in policy.named \cap policy.proven
          /\ policy.named \subseteq Sourced \cup {Copy(c).candidate}
      BY <1>1 DEF ApproveOK, Items, Copy, Policies
    <3> HIDE DEF policy
    <3>3. /\ r \in Requests /\ r.step = "write" /\ r.policy = policy
          /\ r.kind = call[c].kind /\ r.copy = call[c].copy /\ r.hash = call[c].hash
      BY <3>2 DEF Requests
    <3> HIDE DEF r
    <3>4. ApproveOK(r, Sourced)
      BY <1>1, <2>1, <3>2, <3>3 DEF ApproveOK, Copy
    <3>5. CallOK(r, Sourced)
      BY <1>1, <2>1, <3>3, <3>4 DEF CallOK, Copy, Targets
    <3> QED BY <3>1, <3>3, <3>5, MoveKeepsIInv
  <2> QED BY <2>2, <2>3
<1>4. CASE SaveApproved(c)
  <2> DEFINE doc == [Copy(c) EXCEPT !.lifecycle = "ENFORCED"]
  <2>1. PICK posture \in Postures : item' = Refreshed(doc, View(c), posture)
    BY <1>4 DEF SaveApproved
  <2>2. doc \in Items /\ doc.hash = Copy(c).hash /\ doc.candidate = Copy(c).candidate
    BY <1>1 DEF Items, Lifecycles
  <2>3. Copy(c).candidate \in Sourced
    BY <1>1, <1>4 DEF SaveApproved, At, ApproveOK, Copy
  <2> HIDE DEF doc
  <2>4. item' \in Items /\ DocOK(item', Sourced)
    BY <1>1, <2>1, <2>2, <2>3, RefreshedDoc DEF DocOK
  <2> QED BY <1>4, <2>4, EndKeepsIInv DEF SaveApproved
<1> QED BY <1>2, <1>3, <1>4

LEMMA PolicyKeepsIInv ==
    ASSUME IInv, NEW c \in Calls,
           \/ \E policy \in Replacements : PutPolicy(c, policy)
           \/ WriteFile(c) \/ UpdateEngine(c)
    PROVE  IInv'
<1> USE CallFacts
<1>1. ASSUME NEW policy \in Replacements, PutPolicy(c, policy) PROVE IInv'
  <2> DEFINE r == [Idle EXCEPT !.step = "write", !.kind = "policy", !.policy = policy]
  <2>1. call' = [call EXCEPT ![c] = r] /\ UNCHANGED <<Feed, item, Policy>>
    BY <1>1 DEF PutPolicy
  <2>2. r \in Requests
    BY PosturesAssumption DEF Requests, Idle, Places, Shown
  <2>3. CallOK(r, Sourced)
    BY DormantRules DEF Idle, CallOK, Targets
  <2> HIDE DEF r
  <2> QED BY <2>1, <2>2, <2>3, MoveKeepsIInv
<1>2. CASE WriteFile(c)
  <2> DEFINE r == [call[c] EXCEPT !.step = "engine", !.hash = None]
  <2>1. /\ call' = [call EXCEPT ![c] = r] /\ UNCHANGED <<Feed, item, engine>>
        /\ file' = call[c].policy
        /\ call[c].step = "write" /\ call[c].kind \in {"approve", "policy"}
    BY <1>2 DEF WriteFile, At, CallOK
  <2>2. /\ r \in Requests /\ r.step = "engine" /\ r.hash = None
        /\ r.kind = call[c].kind /\ r.copy = call[c].copy
    BY DEF Requests, Shown
  <2>3. file' \in Policies
    BY <2>1 DEF Requests
  <2>4. /\ upheld' = upheld \cup (file'.named \cap file'.proven)
        /\ upheld' \subseteq Rules /\ Sourced \subseteq Sourced'
    BY <1>2, <2>3 DEF WriteFile, Upheld, Policies, Sourced
  <2>4a. /\ file'.named \subseteq Sourced'
         /\ call[c].kind = "approve" => Copy(c).candidate \in Sourced'
    <3>1. CASE call[c].kind = "policy"
      <4>1. file'.named \ file'.proven \subseteq Dormant
        BY <2>1, <3>1 DEF CallOK
      <4> QED BY <2>4, <3>1, <4>1 DEF Sourced
    <3>2. CASE call[c].kind = "approve"
      <4>1. /\ Copy(c).candidate \in file'.named \cap file'.proven
            /\ file'.named \subseteq Sourced \cup {Copy(c).candidate}
        BY <2>1, <3>2 DEF CallOK, ApproveOK, Copy
      <4> QED BY <2>4, <4>1 DEF Sourced
    <3> QED BY <2>1, <3>1, <3>2
  <2>5. Sourced' \subseteq Rules
    BY <2>4, DormantRules DEF Sourced
  <2>6. CallOK(call[c], Sourced')
    BY <2>4, <2>5, MoreRules
  <2> HIDE DEF r
  <2>7. r.kind = "approve" => ApproveOK(r, Sourced')
    <3>1. ASSUME r.kind = "approve" PROVE r.copy.candidate \in Sourced'
      BY <2>2, <2>4a, <3>1 DEF Copy
    <3> QED BY <2>1, <2>2, <2>6, <3>1 DEF CallOK, ApproveOK
  <2>8. CallOK(r, Sourced')
    BY <2>1, <2>2, <2>6, <2>7 DEF CallOK, Targets
  <2>9. item # None => DocOK(item, Sourced')
    BY <2>4, <2>5, MoreRules
  <2> QED BY <2>1, <2>2, <2>3, <2>4, <2>8, <2>9, <2>4a, StepKeepsIInv DEF Feed
<1>3. CASE UpdateEngine(c)
  <2>1. engine' \in Policies /\ UNCHANGED <<Feed, item, file, upheld>>
    BY <1>3 DEF UpdateEngine, Requests
  <2>2. CASE Ends(c)
    BY <2>1, <2>2, IdleOK, StepKeepsIInv DEF Feed, Ends, Sourced
  <2>3. CASE ~Ends(c)
    <3> DEFINE r == [call[c] EXCEPT !.step = "approved"]
    <3>1. /\ call' = [call EXCEPT ![c] = r] /\ call[c].kind # "policy"
          /\ call[c].step = "engine"
      BY <1>3, <2>3 DEF UpdateEngine, Goes, At
    <3>2. call[c].kind = "approve" /\ ApproveOK(call[c], Sourced)
      BY <3>1 DEF CallOK
    <3>3. /\ r \in Requests /\ r.step = "approved" /\ r.hash = call[c].hash
          /\ r.kind = call[c].kind /\ r.copy = call[c].copy
      BY DEF Requests
    <3> HIDE DEF r
    <3>4. ApproveOK(r, Sourced)
      BY <3>1, <3>2, <3>3 DEF ApproveOK
    <3>5. CallOK(r, Sourced)
      BY <3>2, <3>3, <3>4 DEF CallOK, Targets
    <3> QED BY <2>1, <3>1, <3>3, <3>5, StepKeepsIInv DEF Feed, Sourced
  <2> QED BY <2>2, <2>3
<1> QED BY <1>1, <1>2, <1>3

(***************************************************************************)
(* The theorems.                                                           *)
(***************************************************************************)
LEMMA InitIInv == Init => IInv
<1> SUFFICES ASSUME Init PROVE IInv
  OBVIOUS
<1>1. call \in [Calls -> Requests] /\ \A c \in Calls : CallOK(call[c], Sourced)
  BY IdleOK DEF Init
<1>2. TypeOK
  BY <1>1, PosturesAssumption DEF Init, TypeOK, Requests, Shown, Policies, Upheld
<1>3. file.named \subseteq Sourced
  BY DormantRules DEF Init, Upheld, Sourced
<1> QED BY <1>1, <1>2, <1>3 DEF Init, IInv

LEMMA NextKeepsIInv == IInv /\ [Next]_vars => IInv'
<1> SUFFICES ASSUME IInv, [Next]_vars PROVE IInv'
  OBVIOUS
<1>1. ASSUME NEW c \in Calls, CallStep(c) PROVE IInv'
  BY <1>1, StartsKeepIInv, PollKeepsIInv, SaveKeepsIInv, ApproveKeepsIInv, PolicyKeepsIInv
  DEF CallStep
<1>2. CASE ServerRestarts
  <2>1. call \in [Calls -> Requests]
    BY DEF IInv, TypeOK, Requests
  <2>2. call' \in [Calls -> Requests]
    BY <1>2, <2>1, IdleOK DEF ServerRestarts
  <2>3. ASSUME NEW d \in Calls PROVE CallOK(call'[d], Sourced)
    BY <1>2, IdleOK DEF ServerRestarts, IInv
  <2>4. TypeOK'
    BY <1>2, <2>2 DEF ServerRestarts, IInv, TypeOK, Requests, Feed
  <2> QED BY <1>2, <2>3, <2>4 DEF ServerRestarts, IInv, Sourced
<1>3. CASE UpstreamChanges
  <2>1. upstream' \in Hashes
    BY <1>3, ContentsAssumption DEF UpstreamChanges, IInv, TypeOK
  <2> QED BY <1>3, <2>1 DEF UpstreamChanges, IInv, TypeOK, Policy, Sourced
<1>4. CASE UNCHANGED vars
  BY <1>4 DEF vars, IInv, TypeOK, Sourced
<1> QED BY <1>1, <1>2, <1>3, <1>4 DEF Next

THEOREM InvariantHolds == Spec => []IInv
BY InitIInv, NextKeepsIInv, PTL DEF Spec

\* Items, policies and calls keep their shape, for all contents and calls.
THEOREM TypeCorrect == Spec => []TypeOK
<1>1. IInv => TypeOK BY DEF IInv
<1> QED BY <1>1, InvariantHolds, PTL

\* What an approval writes for the content the operator was shown is the
\* template of that content, enforcing, however the item changed meanwhile.
THEOREM Published == Spec => []PublishedAsShown
<1>1. IInv => PublishedAsShown
  <2> SUFFICES ASSUME IInv, NEW c \in Calls,
                      At(c, "write"), call[c].kind = "approve", call[c].hash # None
               PROVE  /\ Copy(c).candidate = RuleOf[call[c].hash]
                      /\ RuleOf[call[c].hash] \in call[c].policy.named \cap call[c].policy.proven
    BY DEF PublishedAsShown
  <2>1. ApproveOK(call[c], Sourced)
    BY DEF IInv, CallOK
  <2> QED BY <2>1 DEF ApproveOK, At, Copy
<1> QED BY <1>1, InvariantHolds, PTL

\* An item reads ENFORCED only over a rule that stood in policy.json while it
\* enforced the contract, or over one whose id another route names without
\* enforcing it.
THEOREM Enforced == Spec => []EnforcedWasUpheld
<1>1. IInv => EnforcedWasUpheld
  BY DEF IInv, DocOK, Locked, EnforcedWasUpheld, Sourced
<1> QED BY <1>1, InvariantHolds, PTL

\* Only a writer whose copy is from before the enforcement, or from no
\* item, reopens or deletes an enforced item.
THEOREM OnlyStaleCopiesReopen == Spec => OnlyStaleReopens
<1>1. IInv /\ [Next]_vars =>
        [Locked(item) /\ ~Locked(item') =>
            \E c \in Calls : /\ call[c].step # call'[c].step
                             /\ ~Locked(Copy(c)) /\ ~At(c, "idle")]_vars
  <2> SUFFICES ASSUME IInv, Next, Locked(item), ~Locked(item')
               PROVE  \E c \in Calls : /\ call[c].step # call'[c].step
                                       /\ ~Locked(Copy(c)) /\ ~At(c, "idle")
    OBVIOUS
  <2>1. item' # item
    OBVIOUS
  <2>2. PICK c \in Calls : \/ PollSave(c) \/ PruneDelete(c) \/ DecideSave(c)
                           \/ SaveApproved(c) \/ SaveView(c)
    BY <2>1 DEF Next, CallStep, ServerRestarts, UpstreamChanges, PollFetch, Show, StatusSweep,
       Replay, DecideLoad, ApproveLoad, PutPolicy, PollLoad, PruneSelect, Clear, Merge,
       WriteFile, UpdateEngine, CallFails
  <2> USE CallFacts
  <2>3. SUFFICES ~Locked(Copy(c))
    <3>1. call'[c].step \in {"idle", "prune"} /\ call[c].step \notin {"idle", "prune"}
      BY <2>2 DEF PollSave, PruneDelete, DecideSave, SaveApproved, SaveView, At, Ends, Idle,
         CallOK, Targets
    <3> QED BY <2>3, <3>1 DEF At
  <2>4. CASE PollSave(c)
    <3>1. PICK posture \in Postures :
            item' = Advance(Copy(c), call[c].hash, View(c), posture)
      BY <2>4 DEF PollSave
    <3>2. call[c].hash \in Hashes /\ (Copy(c) # None => DocOK(Copy(c), Sourced))
      BY <2>4 DEF PollSave, At, CallOK, Requests, Shown, Copy
    <3> QED BY <3>1, <3>2, AdvanceDoc
  <2>5. CASE PruneDelete(c) \/ DecideSave(c)
    BY <2>5 DEF PruneDelete, DecideSave, At, CallOK, Locked, Copy
  <2>6. CASE SaveApproved(c)
    <3> DEFINE doc == [Copy(c) EXCEPT !.lifecycle = "ENFORCED"]
    <3>1. PICK posture \in Postures : item' = Refreshed(doc, View(c), posture)
      BY <2>6 DEF SaveApproved
    <3>2. Copy(c) \in Items
      BY <2>6 DEF SaveApproved, At, CallOK, ApproveOK, Copy
    <3>3. doc \in Items /\ doc.lifecycle = "ENFORCED"
      BY <3>2 DEF Items, Lifecycles
    <3> HIDE DEF doc
    <3>4. Locked(item')
      BY <3>1, <3>3, RefreshedDoc, NoItemAssumption DEF Locked
    <3> QED BY <3>4
  <2>7. CASE SaveView(c)
    <3>1. PICK posture \in Postures :
            LET seen == Refreshed(Copy(c), View(c), posture)
            IN  item' = CASE call[c].kind = "replay" -> Copy(c)
                          [] call[c].kind = "show"   -> seen
                          [] call[c].kind = "status" ->
                                IF seen = Copy(c) THEN item ELSE seen
      BY <2>7 DEF SaveView
    <3>2. call[c].kind \in {"show", "status", "replay"} /\ Copy(c) \in Items
      BY <2>7 DEF SaveView, At, CallOK, Copy
    <3>3. item' \in {Copy(c), Refreshed(Copy(c), View(c), posture)}
      BY <2>1, <3>1, <3>2
    <3> QED BY <3>2, <3>3, RefreshedDoc, NoItemAssumption DEF Locked
  <2> QED BY <2>2, <2>4, <2>5, <2>6, <2>7
<1> QED BY <1>1, InvariantHolds, PTL DEF Spec, OnlyStaleReopens
=============================================================================
