---------------------------- MODULE ThreatIntel -----------------------------
(***************************************************************************)
(* One threat-intelligence item, from the feed to the policy.  A poll      *)
(* ingests the upstream record; an operator approves its candidate rule or *)
(* decides against it; viewing, replaying and the status sweep save the    *)
(* item again; retention prunes it; other routes replace the policy.       *)
(* Every writer loads the whole document and saves the whole document, and *)
(* save_item compares nothing.  The service's lock covers polls, approvals *)
(* and decisions of one process; show, replay, status and prune take no    *)
(* lock, and a command-line process has a lock and a policy engine of its  *)
(* own.                                                                    *)
(*                                                                         *)
(* A content of the record stands for its hash.  All rule templates hold   *)
(* for approval (require_approval), so OBSERVE is never reached, and       *)
(* APPROVED only inside approve.                                           *)
(***************************************************************************)
EXTENDS Integers

CONSTANTS Hashes,      \* contents the upstream record may have
          Revisions,   \* what the source may replace each of them with
          Withdrawn,   \* those the source marks revoked or deprecated
          Unmapped,    \* those whose ids select no contract
          RuleOf,      \* the template rule of every other content
          Postures,    \* coverage and observability the registry may report
          FirstPolicies,\* policies the server may start with
          Replacements,\* policies other routes write
          Calls,       \* threads of the server and command-line processes
          None         \* no item, no rule, no hash, no copy

Rules  == {RuleOf[h] : h \in Hashes \ Unmapped}
Places == {"server", "cli"}
Shown  == Hashes \cup {None}

(***************************************************************************)
(* Of a policy two things count.  rule_present asks whether a rule of the  *)
(* template's id stands in any bucket, enabled or not: named.              *)
(* policy_proves asks whether an enabled rule of block or require_approval *)
(* covers the contract, whatever its id: proven.  Neither implies the      *)
(* other.                                                                  *)
(***************************************************************************)
Policies == [named : SUBSET Rules, proven : SUBSET Rules]
NoRules  == [named |-> {}, proven |-> {}]

AllPostures == {"absent", "partial", "blind", "enforced"}

ASSUME ContentsAssumption ==
    /\ Withdrawn \subseteq Hashes /\ Unmapped \subseteq Hashes
    /\ DOMAIN RuleOf = Hashes \ Unmapped
    /\ Revisions \in [Hashes -> SUBSET Hashes]
    /\ None \notin Hashes \cup Rules
ASSUME PosturesAssumption ==
    /\ Postures \subseteq AllPostures
    /\ FirstPolicies \subseteq Policies /\ Replacements \subseteq Policies

VARIABLES upstream,   \* the record at the source
          cursor,     \* the content the stored cursor stands at
          item,       \* the row of ti_items, or None
          file,       \* policy.json
          engine,     \* the policy in the server's engine
          call,       \* calls in progress
          upheld      \* history: rules that stood in policy.json while it
                      \* enforced their contracts

vars == <<upstream, cursor, item, file, engine, call, upheld>>

Lifecycles == {"SOURCE_WITHDRAWN", "REVIEW", "NOT_APPLICABLE", "ASSESSED",
               "AWAITING_APPROVAL", "ENFORCED", "DISMISSED"}
Results    == {"PROTECTED", "EXPOSED", "NOT_APPLICABLE", "REVIEW"}

Items == [hash : Hashes, lifecycle : Lifecycles,
          applicability : Results \cup {None},
          candidate : Rules \cup {None}, pending : Shown]

ASSUME NoItemAssumption == None \notin Items

Locked(doc) == doc # None /\ doc.lifecycle = "ENFORCED"

(***************************************************************************)
(* Applicability and candidates: posture is what the coverage registry     *)
(* reports when it is asked.                                               *)
(***************************************************************************)
Present(policy, rule) == rule \in policy.named
Proves(policy, h)     == RuleOf[h] \in policy.proven
Upheld(policy)        == policy.named \cap policy.proven

Assess(h, policy, posture) ==
    CASE h \in Unmapped -> "REVIEW"
      [] h \notin Unmapped /\ posture = "absent" -> "NOT_APPLICABLE"
      [] h \notin Unmapped /\ posture = "partial" -> "EXPOSED"
      [] h \notin Unmapped /\ posture \in {"blind", "enforced"} ->
            IF ~Proves(policy, h) THEN "EXPOSED"
            ELSE IF posture = "blind" THEN "REVIEW" ELSE "PROTECTED"

\* a coverage gap that a rule would not close has no candidate
CandidateFor(h, policy, posture) ==
    IF Assess(h, policy, posture) = "EXPOSED" /\ ~Proves(policy, h) THEN RuleOf[h] ELSE None

Doc(h, lifecycle, result, candidate) ==
    [hash |-> h, lifecycle |-> lifecycle, applicability |-> result,
     candidate |-> candidate, pending |-> None]

\* Mutant of LifecycleOf: the assessment is taken for the lifecycle.
ResultAsLifecycle(result, candidate) == result

LifecycleOf(result, candidate) ==
    CASE result = "EXPOSED" -> IF candidate = None THEN "REVIEW" ELSE "AWAITING_APPROVAL"
      [] result = "PROTECTED" -> "ASSESSED"
      [] result \in {"REVIEW", "NOT_APPLICABLE"} -> result

Ingested(h, policy, posture) ==
    IF h \in Withdrawn THEN Doc(h, "SOURCE_WITHDRAWN", None, None)
    ELSE Doc(h, LifecycleOf(Assess(h, policy, posture), CandidateFor(h, policy, posture)),
             Assess(h, policy, posture), CandidateFor(h, policy, posture))

\* Mutant of Advance: the enforced item is ingested like any other.
AdvanceUnlocked(doc, h, policy, posture) ==
    IF doc # None /\ doc.hash = h /\ h \notin Withdrawn THEN doc
    ELSE Ingested(h, policy, posture)

Advance(doc, h, policy, posture) ==
    IF doc # None /\ doc.hash = h /\ h \notin Withdrawn THEN doc
    ELSE IF Locked(doc) /\ doc.hash # h THEN [doc EXCEPT !.pending = h]
    ELSE Ingested(h, policy, posture)

\* _refresh_assessment: needs a contract
Refreshed(doc, policy, posture) ==
    IF doc.hash \in Unmapped \cup Withdrawn THEN doc
    ELSE [doc EXCEPT !.applicability = Assess(doc.hash, policy, posture)]

MayDecide(lifecycle, target) ==
    \/ lifecycle = "AWAITING_APPROVAL"
    \/ lifecycle = "ASSESSED"
    \/ lifecycle = "REVIEW" /\ target # "REVIEW"
    \/ lifecycle = "NOT_APPLICABLE" /\ target # "NOT_APPLICABLE"

(***************************************************************************)
(* Calls.                                                                  *)
(***************************************************************************)
Locking  == {"poll", "approve", "decide"}
Heedless == {"decide", "replay"}

Idle == [step |-> "idle", kind |-> "show", via |-> "server", copy |-> None,
         hash |-> None, policy |-> NoRules]

Busy == \E c \in Calls : /\ call[c].step # "idle"
                         /\ call[c].via = "server" /\ call[c].kind \in Locking

\* a server call waits for the lock; a new process reads the policy file,
\* which matters only if the call consults the policy
Starts(c, kind, via, step, copy, hash) ==
    /\ call[c].step = "idle"
    /\ via = "server" /\ kind \in Locking => ~Busy
    /\ call' = [call EXCEPT ![c] = [Idle EXCEPT !.step = step, !.kind = kind,
                    !.via = via, !.copy = copy, !.hash = hash,
                    !.policy = IF via = "cli" /\ kind \notin Heedless THEN file ELSE NoRules]]

At(c, step)   == call[c].step = step
Goes(c, step) == call' = [call EXCEPT ![c].step = step]
Ends(c)       == call' = [call EXCEPT ![c] = Idle]
Copy(c)       == call[c].copy
View(c)       == IF call[c].via = "server" THEN engine ELSE call[c].policy

Feed   == <<upstream, cursor>>
Policy == <<file, engine, upheld>>

\* the cursor is stored before anything is ingested
PollFetch(c, via) ==
    /\ cursor # upstream
    /\ Starts(c, "poll", via, "load", None, upstream)
    /\ cursor' = upstream
    /\ UNCHANGED <<upstream, item, Policy>>

PollLoad(c) ==
    /\ At(c, "load")
    /\ call' = [call EXCEPT ![c].step = "ingest", ![c].copy = item]
    /\ UNCHANGED <<Feed, item, Policy>>

PollSave(c) ==
    /\ At(c, "ingest")
    /\ \E posture \in Postures :
          item' = Advance(Copy(c), call[c].hash, View(c), posture)
    /\ call' = [call EXCEPT ![c] = [Idle EXCEPT !.step = "prune"]]
    /\ UNCHANGED <<Feed, Policy>>

Prunable(doc) == doc.lifecycle \notin {"AWAITING_APPROVAL", "ENFORCED"}

PruneSelect(c) ==
    /\ At(c, "prune")
    /\ \/ Ends(c)
       \/ /\ item # None /\ Prunable(item)
          /\ call' = [call EXCEPT ![c].step = "delete", ![c].copy = item]
    /\ UNCHANGED <<Feed, item, Policy>>

PruneDelete(c) ==
    /\ At(c, "delete")
    /\ item' = None /\ Ends(c)
    /\ UNCHANGED <<Feed, Policy>>

DecideLoad(c, via, target) ==
    /\ item # None /\ MayDecide(item.lifecycle, target)
    /\ Starts(c, "decide", via, target, item, None)
    /\ UNCHANGED <<Feed, item, Policy>>

DecideSave(c) ==
    /\ call[c].kind = "decide" /\ call[c].step # "idle"
    /\ item' = [Copy(c) EXCEPT !.lifecycle = call[c].step,
           !.applicability = IF call[c].step = "NOT_APPLICABLE"
                             THEN "NOT_APPLICABLE" ELSE @]
    /\ Ends(c)
    /\ UNCHANGED <<Feed, Policy>>

\* Mutant of ApproveLoad: the hash the operator was shown is not compared.
ApproveUnseen(c, via, shown) ==
    /\ item # None /\ item.candidate # None
    /\ item.lifecycle \in {"AWAITING_APPROVAL", "ENFORCED"}
    /\ Locked(item) =>
          ~Present(IF via = "server" THEN engine ELSE file, item.candidate)
    /\ Starts(c, "approve", via, "clear", item, shown)
    /\ UNCHANGED <<Feed, item, Policy>>

ApproveLoad(c, via, shown) ==
    /\ item # None /\ item.candidate # None
    /\ item.lifecycle \in {"AWAITING_APPROVAL", "ENFORCED"}
    /\ shown \in {None, item.hash}
    /\ Locked(item) =>
          ~Present(IF via = "server" THEN engine ELSE file, item.candidate)
    /\ Starts(c, "approve", via, "clear", item, shown)
    /\ UNCHANGED <<Feed, item, Policy>>

\* the contract, the assessment and the candidate are made anew
StillJustified(doc, policy, posture) ==
    /\ Locked(doc) \/ Assess(doc.hash, policy, posture) = "EXPOSED"
    /\ CandidateFor(doc.hash, policy, posture) = doc.candidate

\* Mutant of Clear: the item is saved as enforced before its rule is written.
ClearAndSave(c) ==
    /\ At(c, "clear")
    /\ \E posture \in Postures :
          IF StillJustified(Copy(c), View(c), posture)
          THEN Goes(c, "merge") /\ item' = [Copy(c) EXCEPT !.lifecycle = "ENFORCED"]
          ELSE Ends(c) /\ UNCHANGED item
    /\ UNCHANGED <<Feed, Policy>>

Clear(c) ==
    /\ At(c, "clear")
    /\ \E posture \in Postures :
          IF StillJustified(Copy(c), View(c), posture)
          THEN Goes(c, "merge") ELSE Ends(c)
    /\ UNCHANGED <<Feed, item, Policy>>

\* a rule of that id, wherever it stands, is left as it is
Merge(c) ==
    /\ At(c, "merge")
    /\ LET rule == {Copy(c).candidate}
       IN  call' = IF Present(file, Copy(c).candidate)
                   THEN [call EXCEPT ![c].step = "engine", ![c].policy = file,
                                     ![c].hash = None]
                   ELSE [call EXCEPT ![c].step = "write",
                             ![c].policy = [named  |-> file.named \cup rule,
                                            proven |-> file.proven \cup rule]]
    /\ UNCHANGED <<Feed, item, Policy>>

\* PUT /policy, a pack import or a publication
PutPolicy(c, policy) ==
    /\ call[c].step = "idle"
    /\ call' = [call EXCEPT ![c] = [Idle EXCEPT !.step = "write",
                    !.kind = "policy", !.policy = policy]]
    /\ UNCHANGED <<Feed, item, Policy>>

WriteFile(c) ==
    /\ At(c, "write")
    /\ file' = call[c].policy
    /\ upheld' = upheld \cup Upheld(file')
    /\ call' = [call EXCEPT ![c].step = "engine", ![c].hash = None]
    /\ UNCHANGED <<Feed, item, engine>>

UpdateEngine(c) ==
    /\ At(c, "engine")
    /\ engine' = IF call[c].via = "server" THEN call[c].policy ELSE engine
    /\ IF call[c].kind = "policy" THEN Ends(c) ELSE Goes(c, "approved")
    /\ UNCHANGED <<Feed, item, file, upheld>>

SaveApproved(c) ==
    /\ At(c, "approved")
    /\ \E posture \in Postures :
          item' = Refreshed([Copy(c) EXCEPT !.lifecycle = "ENFORCED"], View(c), posture)
    /\ Ends(c)
    /\ UNCHANGED <<Feed, Policy>>

Show(c, via) ==
    /\ Locked(item)
    /\ Starts(c, "show", via, "refresh", item, None)
    /\ UNCHANGED <<Feed, item, Policy>>

StatusSweep(c, via) ==
    /\ item # None /\ item.applicability = "PROTECTED"
    /\ Starts(c, "status", via, "refresh", item, None)
    /\ UNCHANGED <<Feed, item, Policy>>

Replay(c, via) ==
    /\ item # None /\ item.candidate # None
    /\ Starts(c, "replay", via, "refresh", item, None)
    /\ UNCHANGED <<Feed, item, Policy>>

\* show and replay save the document; the sweep only when the result changed
SaveView(c) ==
    /\ At(c, "refresh")
    /\ \E posture \in Postures :
          LET seen == Refreshed(Copy(c), View(c), posture)
          IN  item' = CASE call[c].kind = "replay" -> Copy(c)
                        [] call[c].kind = "show"   -> seen
                        [] call[c].kind = "status" ->
                              IF seen = Copy(c) THEN item ELSE seen
    /\ Ends(c)
    /\ UNCHANGED <<Feed, Policy>>

\* an exception, or the process of the call is killed
CallFails(c) ==
    /\ call[c].step # "idle" /\ Ends(c)
    /\ UNCHANGED <<Feed, item, Policy>>

\* the server restarts: its calls are lost, the engine is read from the file
ServerRestarts ==
    /\ call' = [c \in Calls |-> IF call[c].via = "server" THEN Idle ELSE call[c]]
    /\ engine' = file
    /\ UNCHANGED <<Feed, item, file, upheld>>

UpstreamChanges ==
    /\ upstream' \in Revisions[upstream]
    /\ UNCHANGED <<cursor, item, call, Policy>>

Init ==
    /\ upstream \in Hashes /\ cursor = None /\ item = None
    /\ file \in FirstPolicies /\ engine = file
    /\ call = [c \in Calls |-> Idle]
    /\ upheld = Upheld(file)

Targets == {"DISMISSED", "NOT_APPLICABLE", "REVIEW"}

CallStep(c) ==
    \/ \E via \in Places :
          \/ PollFetch(c, via) \/ Show(c, via) \/ StatusSweep(c, via) \/ Replay(c, via)
          \/ \E target \in Targets : DecideLoad(c, via, target)
          \/ \E shown \in Shown : ApproveLoad(c, via, shown)
    \/ \E policy \in Replacements : PutPolicy(c, policy)
    \/ PollLoad(c) \/ PollSave(c) \/ PruneSelect(c) \/ PruneDelete(c)
    \/ DecideSave(c) \/ Clear(c) \/ Merge(c) \/ WriteFile(c)
    \/ UpdateEngine(c) \/ SaveApproved(c) \/ SaveView(c) \/ CallFails(c)

Next == (\E c \in Calls : CallStep(c)) \/ ServerRestarts \/ UpstreamChanges

Spec == Init /\ [][Next]_vars

(***************************************************************************)
(* Properties.                                                             *)
(***************************************************************************)

\* Items, policies and calls are always of the shape the code gives them.
TypeOK ==
    /\ upstream \in Hashes /\ cursor \in Shown
    /\ item \in Items \cup {None}
    /\ file \in Policies /\ engine \in Policies
    /\ upheld \subseteq Rules
    /\ call \in [Calls ->
         [step : {"idle", "load", "ingest", "prune", "delete", "clear", "merge",
                  "write", "engine", "approved", "refresh"} \cup Targets,
          kind : Locking \cup {"show", "status", "replay", "policy"},
          via : Places, copy : Items \cup {None}, hash : Shown,
          policy : Policies]]

\* An approval that names the content the operator was shown writes to
\* policy.json, if it writes at all, the template of that content, as an
\* enforcing rule, whatever a poll or a stale save did to the item meanwhile
\* (approve docstring, 226-232: "so a poll cannot swap the record underneath
\* an open investigation").  It writes nothing when a rule of the template's
\* id is there (approval.py 46-48).
PublishedAsShown ==
    \A c \in Calls :
        At(c, "write") /\ call[c].kind = "approve" /\ call[c].hash # None =>
            /\ Copy(c).candidate = RuleOf[call[c].hash]
            /\ RuleOf[call[c].hash] \in call[c].policy.named \cap call[c].policy.proven

\* Rules that a policy of another route names without enforcing them: such a
\* rule is disabled, or in a bucket that enforces nothing.
Dormant == UNION {policy.named \ policy.proven : policy \in FirstPolicies \cup Replacements}

\* An item reads ENFORCED only if policy.json had its rule, and enforced the
\* contract, at some time before, unless other routes place a rule of that id
\* that enforces nothing, which approve leaves as it is (approve 258-291,
\* approval.py 46-48): a crash, a failed write or a stale save may leave the
\* rule without the lifecycle, not the lifecycle without the rule.
EnforcedWasUpheld ==
    Locked(item) => item.candidate \in upheld \cup Dormant

\* No writer that has seen an item enforced reopens or deletes it
\* (lifecycle.py:28; _advance 418-434, prune 389-407): an enforced item is
\* lost only to a writer that loaded it before it was enforced.
OnlyStaleReopens ==
    [][Locked(item) /\ ~Locked(item') =>
          \E c \in Calls : /\ call[c].step # call'[c].step
                           /\ ~Locked(Copy(c)) /\ ~At(c, "idle")]_vars

=============================================================================
