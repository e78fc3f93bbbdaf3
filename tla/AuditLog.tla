------------------------------ MODULE AuditLog ------------------------------
(***************************************************************************)
(* The hash-chained events table of varden/stores.py and its verification  *)
(* in varden/audit_integrity.py, as operators on the sequence of rows in   *)
(* id order.                                                               *)
(*                                                                         *)
(* SHA-256 is taken to be free of collisions: the hash of an event is the  *)
(* sequence of all bodies it stands for, so equal hashes mean equal        *)
(* histories.  The genesis hash is the empty sequence.  A row written      *)
(* before hash chaining existed has the hash Unchained (NULL in SQL).      *)
(*                                                                         *)
(* Of what a body says, two things matter to verification: the kind of its *)
(* payload and the hash version its action declares.                       *)
(***************************************************************************)
EXTENDS Naturals, Sequences

CONSTANT Unchained   \* NULL event_hash

(* A payload is a string that is itself JSON text (such as "42"), the value *)
(* that text stands for, or anything else, which json.loads leaves alone.   *)
Payloads == {"plain", "json_text", "json_value"}

(* No version is declared in rows older than the chain; the server stamps 1. *)
Versions == {"none", "1", "unknown"}
SupportedVersions == {"1"}

GenesisHash == << >>

(* compute_event_hash *)
HashOf(body, prev) == Append(prev, body)

IsChained(row) == row.hash # Unchained
ChainedRows(events) == {i \in DOMAIN events : IsChained(events[i])}

HeadHash(events) ==
  LET chained == ChainedRows(events) IN
  IF chained = {} THEN GenesisHash
  ELSE events[CHOOSE i \in chained : \A j \in chained : j <= i].hash

(* The INSERT of EventStore.log: the row bound to the head that was read   *)
(* inside the same transaction.                                            *)
NewRow(body, head) == [body |-> body, prev |-> head, hash |-> HashOf(body, head)]
Logged(events, body, head) == Append(events, NewRow(body, head))

(* What the verifier hashes: every string that is JSON text is parsed first. *)
ReRead(body) ==
  [body EXCEPT !.payload = IF @ = "json_text" THEN "json_value" ELSE @]

VersionKnown(row) == row.body.version = "none" \/ row.body.version \in SupportedVersions

(* verify_event_chain: unchained rows only as a prefix; the first chained  *)
(* row starts from genesis, each later one from the row before it; and     *)
(* every hash is that of the row's own body as the verifier reads it.      *)
UnchainedOnlyBefore(events) ==
  \A i \in DOMAIN events, j \in DOMAIN events :
    IsChained(events[i]) /\ i < j => IsChained(events[j])

ExpectedPrev(events, i) ==
  IF i - 1 \in ChainedRows(events) THEN events[i - 1].hash ELSE GenesisHash

PrevHolds(events, i) == events[i].prev = ExpectedPrev(events, i)
HashHolds(events, i) == events[i].hash = HashOf(ReRead(events[i].body), events[i].prev)

ChainVerifies(events) ==
  /\ UnchainedOnlyBefore(events)
  /\ \A i \in DOMAIN events : VersionKnown(events[i])
  /\ \A i \in ChainedRows(events) : PrevHolds(events, i) /\ HashHolds(events, i)
=============================================================================
