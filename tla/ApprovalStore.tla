---------------------------- MODULE ApprovalStore ----------------------------
(***************************************************************************)
(* The tables of varden/runtime/approvals.py: runtime_approvals as the     *)
(* sequence rows, runtime_approval_consumptions as the sequence used, both *)
(* in insertion order, and the conditions of its transactions.             *)
(*                                                                         *)
(* An approval token is identified by the approve request that signed it.  *)
(* The signature cannot be forged, so the only tokens a caller can present *)
(* are those an approve request returned.                                  *)
(***************************************************************************)
EXTENDS Naturals, Sequences

CONSTANTS
  Actions,      \* actions agents ask for: [hash, trace]
  ApprovalTTL,  \* DEFAULT_TTL_SECONDS
  NoTrace,      \* an action without a trace id
  NoToken       \* no token presented, or NULL token_hash

ASSUME ApprovalAssumption ==
  /\ ApprovalTTL \in Nat
  /\ \A a \in Actions : {"hash", "trace"} \subseteq DOMAIN a

Statuses == {"pending", "approved", "denied", "expired", "consumed"}
Resolved == {"denied", "expired", "consumed"}

(* create_pending.  event is the audit event of the refused call, 0 when   *)
(* none was written (event_id NULL).                                       *)
PendingRow(action, event, now) ==
  [status |-> "pending", action |-> action, event |-> event,
   deadline |-> now + ApprovalTTL, token |-> NoToken]

(* The three hashes of hash_action_scope must agree; the traces only if    *)
(* both sides have one.                                                    *)
ScopeMatches(claim, action) ==
  /\ claim.hash = action.hash
  /\ \/ NoTrace \in {claim.trace, action.trace}
     \/ claim.trace = action.trace

(* What verify_and_consume checks of the signed claims before it opens a   *)
(* transaction.                                                            *)
ClaimsAccepted(claims, action, now) ==
  /\ claims.deadline >= now
  /\ ScopeMatches(claims.action, action)

(* Mutants of Usable: the status is not looked at again; any token of the  *)
(* approval will do.                                                       *)
UsableWhateverStatus(row, token, now) == row.deadline >= now /\ row.token = token
UsableByAnyToken(row, token, now) == row.status = "approved" /\ row.deadline >= now

(* What it checks of the row inside the transaction. *)
Usable(row, token, now) ==
  /\ row.status = "approved"
  /\ row.deadline >= now
  /\ row.token \in {token, NoToken}

(* Mutant: a token hash that is there is kept. *)
ApprovedRowKeepToken(row, token) ==
  [row EXCEPT !.status = "approved", !.token = IF @ = NoToken THEN token ELSE @]

ConsumedRow(row) == [row EXCEPT !.status = "consumed"]
ApprovedRow(row, token) == [row EXCEPT !.status = "approved", !.token = token]
DeniedRow(row) == [row EXCEPT !.status = "denied"]
ExpiredRow(row) == [row EXCEPT !.status = "expired"]
=============================================================================
