----------------------------- MODULE Continuity -----------------------------
(***************************************************************************)
(* Continuity of predictive-authority sessions.  Each server process keeps *)
(* the sessions it evaluates in a bounded registry                         *)
(* (varden/predictive_authority/registry.py); evicting one that had        *)
(* accumulated authority leaves a tombstone, and tables shared by all      *)
(* processes (continuity_store.py) keep tombstones, marks of sessions with *)
(* authority, and the leases of active workers.  An evaluation (engine.py) *)
(* that cannot know what its session did before must answer TRUNCATED.     *)
(*                                                                         *)
(*   idle -> counted -> (clearing | claiming) -> resolved -> applied       *)
(*        -> noted -> idle                                                 *)
(*                                                                         *)
(* The registry lock is held while a session is created, not while its     *)
(* facts are applied: the session may be evicted in between, and the       *)
(* evaluation goes on with an orphan.  Mode enforce, one worker declared.  *)
(***************************************************************************)
EXTENDS Naturals, Sequences, FiniteSets, Functions

CONSTANTS
  Keys,            \* session keys
  Workers,         \* server processes on one database; each may be restarted
  Threads,         \* evaluations in progress at any time
  MaxSessions,     \* VARDEN_PA_MAX_SESSIONS
  TombstoneCap,    \* 2 * max_sessions in the code, at least 2
  MaxEvaluations,  \* bound on evaluations begun
  MaxFaults,       \* bound on failing steps, restarts and lease expiries
  Former,          \* a process that is gone
  NoRow            \* no row of pa_continuity_sessions

ASSUME ContinuityAssumption ==
  /\ IsFiniteSet(Workers) /\ Former \notin Workers
  /\ MaxSessions \in Nat \ {0} /\ TombstoneCap \in Nat \ {0}
  /\ MaxEvaluations \in Nat /\ MaxFaults \in Nat

(* had_authority is 1 in every row: both inserts write it. *)
Rows == [tombstoned : BOOLEAN, owner : Workers \cup {Former}]

ASSUME NoRowAssumption == NoRow \notin Rows

VARIABLES
  proc,    \* of each process: its sessions, tombstones and degrade flag
  rows,    \* pa_continuity_sessions
  marked,  \* continuity_degraded of pa_continuity_meta
  leased,  \* processes whose lease is active
  former,  \* processes with an active lease of their previous run
  thread,  \* the evaluations
  begun,   \* evaluations so far
  faults,  \* faults so far
  past     \* history: keys granted authority, and how marks got lost

vars == <<proc, rows, marked, leased, former, thread, begun, faults, past>>

Steps == {"idle", "counted", "clearing", "claiming", "resolved", "applied", "noted"}

(* whole (not kept by the code): the session holds all the authority that  *)
(* evaluations of its key were answered with.                              *)
Sessions == [key : Keys, acc : BOOLEAN, broken : BOOLEAN, whole : BOOLEAN]
FreshProcess == [live |-> << >>, tombs |-> << >>, degraded |-> FALSE]

(* orphan: the session was evicted while in use.  blind: it was not whole  *)
(* when the evaluation got it.  lapsed: the lease of the process ran out   *)
(* since the evaluation counted.                                           *)
Evaluations ==
  [step : Steps, worker : Workers \cup {Former}, key : Keys \cup {NoRow}, multi : BOOLEAN,
   broken : BOOLEAN, orphan : BOOLEAN, blind : BOOLEAN, lapsed : BOOLEAN]
Idle == [step |-> "idle", worker |-> Former, key |-> NoRow, multi |-> FALSE, broken |-> FALSE,
         orphan |-> FALSE, blind |-> FALSE, lapsed |-> FALSE]

(* granted: keys whose evaluations were answered after authority was       *)
(* applied.  gaps: keys that may come back clean, see CleanOnlyThroughGaps. *)
(* lost[w]: keys whose authority an eviction of w discarded, and that w    *)
(* did not recreate since.  A process without a lease has been idle.       *)
Init ==
  /\ proc = [w \in Workers |-> FreshProcess]
  /\ rows = [k \in Keys |-> NoRow]
  /\ marked = FALSE
  /\ leased \in SUBSET Workers /\ former = {}
  /\ thread = [t \in Threads |-> Idle]
  /\ begun = 0 /\ faults = 0
  /\ past = [granted |-> {}, gaps |-> {}, lost |-> [w \in Workers |-> {}]]

(* Whether a call of the store succeeds.  A step with a failing call is    *)
(* one fault.                                                              *)
MayFail == faults < MaxFaults
StoreOutcomes == IF MayFail THEN BOOLEAN ELSE {TRUE}
Fault == MayFail /\ faults' = faults + 1
Charge(ok) == faults' = IF ok THEN faults ELSE faults + 1

(* No thread of w is inside get_or_create. *)
Consuming(t) == thread[t].step \in {"clearing", "claiming"}
Unlocked(w) == \A t \in Threads : ~ (Consuming(t) /\ thread[t].worker = w)

KeysOf(sessions) == {s.key : s \in Range(sessions)}
Registered(w, k) == k \in KeysOf(proc[w].live)
InFlight(t) == thread[t].step # "idle"
Uses(t, w, k) ==
  /\ thread[t].step \in {"resolved", "applied", "noted"}
  /\ thread[t].worker = w /\ thread[t].key = k /\ ~ thread[t].orphan

(* Another process has a session of k, or is about to have one. *)
HeldElsewhere(w, k) ==
  \E v \in Workers \ {w} :
    \/ Registered(v, k)
    \/ \E t \in Threads : InFlight(t) /\ thread[t].worker = v /\ thread[t].key = k

(***************************************************************************)
(* Eviction.                                                               *)
(***************************************************************************)

(* The elements of seq at the positions in set, in their order.  A choice  *)
(* rather than SelectSeq, of whose recursion the provers know nothing.     *)
Ascending(set) ==
  CHOOSE h \in [1 .. Cardinality(set) -> set] : \A i, j \in DOMAIN h : i < j => h[i] < h[j]
Picked(seq, set) == [i \in 1 .. Cardinality(set) |-> seq[Ascending(set)[i]]]

Target == MaxSessions - (IF MaxSessions < 20 THEN 1 ELSE MaxSessions \div 10)

Accumulated(live) == {i \in DOMAIN live : live[i].acc}

(* The least recently used of a sequence, empty sessions first. *)
Ranked(live) == Picked(live, DOMAIN live \ Accumulated(live)) \o Picked(live, Accumulated(live))
Excess(live) == SubSeq(Ranked(live), 1, IF Len(live) > Target THEN Len(live) - Target ELSE 0)

(* Mutant: room is made one session too late. *)
DroppedLate(live, idle) ==
  IF Len(live) <= MaxSessions THEN << >>
  ELSE SubSeq(live, 1, idle) \o Excess(SubSeq(live, idle + 1, Len(live)))

(* _make_room: the sessions to drop, when the first idle ones have expired. *)
Dropped(live, idle) ==
  IF Len(live) < MaxSessions THEN << >>
  ELSE SubSeq(live, 1, idle) \o Excess(SubSeq(live, idle + 1, Len(live)))

Without(live, keys) == Picked(live, {i \in DOMAIN live : live[i].key \notin keys})
Except(tombs, keys) == Picked(tombs, {i \in DOMAIN tombs : tombs[i] \notin keys})

(* The keys whose authority goes with the sessions dropped. *)
Lost(gone) == {s.key : s \in {g \in Range(gone) : g.acc}}

(* _record_authority_tombstone for each dropped session with authority. *)
Entombed(tombs, gone) ==
  LET lost == Picked(gone, Accumulated(gone))
  IN  Except(tombs, Lost(gone)) \o [i \in DOMAIN lost |-> lost[i].key]

Overfull(tombs) == Len(tombs) > TombstoneCap
Trimmed(tombs) == SubSeq(tombs, Len(tombs) - TombstoneCap + 1, Len(tombs))

(* Mutant: forgetting a tombstone goes unnoticed. *)
AfterSilentEviction(p, gone, stored) ==
  LET tombs == Entombed(p.tombs, gone)
  IN  [live     |-> Without(p.live, KeysOf(gone)),
       tombs    |-> IF Overfull(tombs) THEN Trimmed(tombs) ELSE tombs,
       degraded |-> p.degraded \/ stored # Lost(gone)]

(* The process after dropping gone; stored: the tombstones written.        *)
AfterEviction(p, gone, stored) ==
  LET tombs == Entombed(p.tombs, gone)
  IN  [live     |-> Without(p.live, KeysOf(gone)),
       tombs    |-> IF Overfull(tombs) THEN Trimmed(tombs) ELSE tombs,
       degraded |-> \/ p.degraded \/ Overfull(tombs)
                    \/ stored # Lost(gone)]

(* Authority that leaves no mark: an empty session dropped although its    *)
(* signal was consumed, or while an evaluation was about to fill it.       *)
Slipping(w, gone) ==
  {s.key : s \in {g \in Range(gone) :
                    ~ g.acc /\ (g.broken \/ \E t \in Threads : Uses(t, w, g.key))}}

(***************************************************************************)
(* Leases.                                                                 *)
(***************************************************************************)
(* Mutant: the workers are counted before the lease is renewed. *)
CountBeforeTouch(w) == Cardinality(leased) + Cardinality(former)

(* touch_lease_and_count, one transaction. *)
CountAfterTouch(w) == Cardinality(leased \cup {w}) + Cardinality(former)

Begun(w, k, multi) ==
  [Idle EXCEPT !.step = "counted", !.worker = w, !.key = k, !.multi = multi]

Degraded(p, failed) == [p EXCEPT !.degraded = @ \/ failed]

(* evaluate: active_worker_count and the session key.  A failed call counts *)
(* as two workers.                                                         *)
Begin(t, w, k) ==
  /\ ~ InFlight(t) /\ begun < MaxEvaluations /\ begun' = begun + 1
  /\ \E ok \in StoreOutcomes :
       /\ ok \/ Unlocked(w)
       /\ Charge(ok)
       /\ leased' = IF ok THEN leased \cup {w} ELSE leased
       /\ proc' = [proc EXCEPT ![w] = Degraded(@, ~ ok)]
       /\ thread' = [thread EXCEPT ![t] = Begun(w, k, ~ ok \/ CountAfterTouch(w) > 1)]
  /\ UNCHANGED <<rows, marked, former, past>>

(* 45 seconds without an evaluation in w, or since its previous run.       *)
LeaseExpires(w) ==
  /\ w \in leased /\ Fault
  /\ leased' = leased \ {w}
  /\ thread' = [t \in Threads |->
                  [thread[t] EXCEPT !.lapsed = @ \/ (InFlight(t) /\ thread[t].worker = w)]]
  /\ UNCHANGED <<proc, rows, marked, former, begun, past>>

FormerExpires(w) ==
  /\ w \in former
  /\ former' = former \ {w}
  /\ UNCHANGED <<proc, rows, marked, leased, thread, faults, begun, past>>

(***************************************************************************)
(* get_or_create, under the registry lock.                                 *)
(***************************************************************************)
NewSession(k, broken) ==
  [key |-> k, acc |-> FALSE, broken |-> broken, whole |-> k \notin past.granted]
WithSession(p, s) == [p EXCEPT !.live = Append(Without(@, {s.key}), s)]
Resolved(e, s) ==
  [e EXCEPT !.step = "resolved", !.broken = s.broken, !.blind = ~ s.whole]

(* The lease is renewed first. *)
Renewed(w, touched) == IF touched THEN leased \cup {w} ELSE leased

(* A live session becomes the most recently used one. *)
Reuse(t) ==
  LET w == thread[t].worker
  IN  /\ thread[t].step = "counted" /\ Unlocked(w)
      /\ \E i \in DOMAIN proc[w].live, touched \in StoreOutcomes :
           LET s == proc[w].live[i]
           IN  /\ s.key = thread[t].key
               /\ Charge(touched)
               /\ leased' = Renewed(w, touched)
               /\ proc' = [proc EXCEPT ![w] = Degraded(WithSession(@, s), ~ touched)]
               /\ thread' = [thread EXCEPT ![t] = Resolved(@, s)]
      /\ UNCHANGED <<rows, marked, former, begun, past>>

(* The rows after the tombstones of stored were written by w. *)
Buried(w, stored) ==
  [k \in Keys |-> IF k \in stored THEN [tombstoned |-> TRUE, owner |-> w] ELSE rows[k]]

(* Mutant: authority of another process is not recognised. *)
SignalTombstoneOnly(row, w) ==
  IF row = NoRow THEN "resolved" ELSE IF row.tombstoned THEN "clearing" ELSE "resolved"

(* consume_recreate_signal, first half: what the row of k tells w. *)
Signal(row, w) == IF row = NoRow THEN "resolved"
                  ELSE IF row.tombstoned THEN "clearing"
                  ELSE IF row.owner # w THEN "claiming" ELSE "resolved"

(* The evaluations that use an evicted session go on with an orphan.       *)
AfterCreate(t, signal, s) ==
  IF signal = "resolved" THEN Resolved(thread[t], s) ELSE [thread[t] EXCEPT !.step = signal]
ThreadsAfter(t, w, gone, signal, s) ==
  [u \in Threads |->
    IF u = t THEN AfterCreate(t, signal, s)
    ELSE [thread[u] EXCEPT !.orphan = @ \/ \E x \in KeysOf(gone) : Uses(u, w, x)]]

Forgets(w, gone) == Overfull(Entombed(proc[w].tombs, gone))

(* gone is dropped; stored: the tombstones written; found: the lookup      *)
(* succeeded.  Without a signal, or an answer, the session is created now. *)
EvictAndCreate(t, w, k, gone, stored, found, touched, flagged) ==
  LET roomy == AfterEviction(proc[w], gone, stored)
      ready == Degraded([roomy EXCEPT !.tombs = Except(@, {k})], ~ touched \/ ~ found)
      signal == IF found THEN Signal(Buried(w, stored)[k], w) ELSE "resolved"
      s == NewSession(k, ~ found \/ k \in Range(roomy.tombs))
  IN  /\ leased' = Renewed(w, touched)
      /\ rows' = Buried(w, stored)
      /\ marked' = (marked \/ (Forgets(w, gone) /\ flagged))
      /\ proc' = [proc EXCEPT ![w] =
                    IF signal = "resolved" THEN WithSession(ready, s) ELSE ready]
      /\ thread' = ThreadsAfter(t, w, gone, signal, s)
      /\ past' = [past EXCEPT
           !.gaps = @ \cup Slipping(w, gone) \cup (IF HeldElsewhere(w, k) THEN {k} ELSE {}),
           !.lost[w] = (@ \cup Lost(gone)) \ {k}]

(* The first idle sessions have expired. *)
Recreate(t) ==
  LET w == thread[t].worker
      k == thread[t].key
  IN  /\ thread[t].step = "counted" /\ Unlocked(w) /\ ~ Registered(w, k)
      /\ \E idle \in 0 .. Len(proc[w].live), found, touched \in StoreOutcomes :
           LET gone == Dropped(proc[w].live, idle)
           IN  \E stored \in IF MayFail THEN SUBSET Lost(gone) ELSE {Lost(gone)},
                  flagged \in IF Forgets(w, gone) THEN StoreOutcomes ELSE {TRUE} :
                /\ Charge(found /\ touched /\ flagged /\ stored = Lost(gone))
                /\ EvictAndCreate(t, w, k, gone, stored, found, touched, flagged)
      /\ UNCHANGED <<former, begun>>

Taken(row, w, signal) ==
  [tombstoned |-> row.tombstoned /\ signal = "claiming", owner |-> w]

(* Second half: the row is updated in a transaction of its own, and the    *)
(* session created broken.                                                 *)
Consume(t) ==
  LET w == thread[t].worker
      k == thread[t].key
      s == NewSession(k, TRUE)
  IN  /\ Consuming(t)
      /\ \E ok \in StoreOutcomes :
           /\ Charge(ok)
           /\ rows' = IF ok THEN [rows EXCEPT ![k] = Taken(@, w, thread[t].step)] ELSE rows
           /\ proc' = [proc EXCEPT ![w] = Degraded(WithSession(@, s), ~ ok)]
      /\ thread' = [thread EXCEPT ![t] = Resolved(@, s)]
      /\ UNCHANGED <<marked, leased, former, begun, past>>

(***************************************************************************)
(* The rest of evaluate, outside the lock.                                 *)
(***************************************************************************)

Filled(s, used) == [s EXCEPT !.acc = @ \/ used]

(* apply_facts_to_state, on the live session or on an orphan. *)
Apply(t) ==
  LET w == thread[t].worker
  IN  /\ thread[t].step = "resolved"
      /\ proc' = [proc EXCEPT ![w].live =
                    [i \in DOMAIN @ |-> Filled(@[i], Uses(t, w, @[i].key))]]
      /\ thread' = [thread EXCEPT ![t].step = "applied"]
      /\ UNCHANGED <<rows, marked, leased, former, faults, begun, past>>

(* note_accumulated_authority: record_authority leaves a tombstone alone.  *)
Note(t) ==
  LET w == thread[t].worker
      k == thread[t].key
  IN  /\ thread[t].step = "applied"
      /\ \E ok \in StoreOutcomes :
           /\ ok \/ Unlocked(w)
           /\ Charge(ok)
           /\ rows' = IF ok
                      THEN [rows EXCEPT ![k] = IF @ = NoRow
                                               THEN [tombstoned |-> FALSE, owner |-> w]
                                               ELSE [@ EXCEPT !.owner = w]]
                      ELSE rows
           /\ proc' = [proc EXCEPT ![w] = Degraded(@, ~ ok)]
           /\ past' = [past EXCEPT !.gaps = IF ok THEN @ ELSE @ \cup {k}]
      /\ thread' = [thread EXCEPT ![t].step = "noted"]
      /\ UNCHANGED <<marked, leased, former, begun>>

(* The analysis status; otherwise it is TRUNCATED. *)
Complete(t) ==
  ~ (thread[t].multi \/ thread[t].broken \/ marked \/ proc[thread[t].worker].degraded)

Bereft(s, doubt) == [s EXCEPT !.whole = @ /\ ~ doubt]

(* Sessions of k other than the one answered from are not whole any more.  *)
NotWhole(w, p, t) ==
  LET k == thread[t].key
      Elsewhere(s) == s.key = k /\ ~ Uses(t, w, k)
  IN  [p EXCEPT !.live = [i \in DOMAIN @ |-> Bereft(@[i], Elsewhere(@[i]))]]

(* continuity_degraded copies the shared flag if it can be read, and       *)
(* continuity_status degrades if it cannot count the workers.              *)
Answer(t) ==
  LET e == thread[t]
      w == e.worker
  IN  /\ e.step = "noted" /\ Unlocked(w)
      /\ \E read, status \in StoreOutcomes :
           /\ Charge(read /\ status)
           /\ proc' = [v \in Workers |->
                Degraded(NotWhole(v, proc[v], t), v = w /\ ((marked /\ read) \/ ~ status))]
      /\ past' = [past EXCEPT !.granted = @ \cup {e.key}]
      /\ thread' = [thread EXCEPT ![t] = Idle]
      /\ UNCHANGED <<rows, marked, leased, former, begun>>

(* An exception ends the evaluation with the failure mode's decision.      *)
EvalFails(t) ==
  /\ thread[t].step \in {"resolved", "applied", "noted"}
  /\ thread' = [thread EXCEPT ![t] = Idle]
  /\ UNCHANGED <<proc, rows, marked, leased, former, faults, begun, past>>

(* The process starts anew: attach_continuity_store reads the flag and     *)
(* renews a lease under a new name; the old one is still active.           *)
Restart(w) ==
  /\ Fault
  /\ \E probed, touched \in StoreOutcomes :
       /\ proc' = [proc EXCEPT ![w] =
                     [FreshProcess EXCEPT !.degraded = marked \/ ~ probed \/ ~ touched]]
       /\ leased' = IF touched THEN leased \cup {w} ELSE leased \ {w}
  /\ former' = IF w \in leased THEN former \cup {w} ELSE former
  /\ rows' = [k \in Keys |->
               IF rows[k] # NoRow /\ rows[k].owner = w
               THEN [rows[k] EXCEPT !.owner = Former] ELSE rows[k]]
  /\ thread' = [t \in Threads |-> IF thread[t].worker = w THEN Idle ELSE thread[t]]
  /\ past' = [past EXCEPT !.lost[w] = {}]
  /\ UNCHANGED <<marked, begun>>

Next ==
  \/ \E t \in Threads, w \in Workers, k \in Keys : Begin(t, w, k)
  \/ \E t \in Threads : Reuse(t)
  \/ \E t \in Threads : Recreate(t)
  \/ \E t \in Threads : Consume(t)
  \/ \E t \in Threads : Apply(t)
  \/ \E t \in Threads : Note(t)
  \/ \E t \in Threads : Answer(t)
  \/ \E t \in Threads : EvalFails(t)
  \/ \E w \in Workers : Restart(w)
  \/ \E w \in Workers : LeaseExpires(w)
  \/ \E w \in Workers : FormerExpires(w)

Spec == Init /\ [][Next]_vars

(***************************************************************************)
(* Properties.                                                             *)
(***************************************************************************)

(* The state has its shape, and no process keeps more sessions or          *)
(* tombstones than it may.                                                 *)
ContinuityTypeOK ==
  /\ \A w \in Workers :
       /\ Range(proc[w].live) \subseteq Sessions /\ Len(proc[w].live) <= MaxSessions
       /\ Range(proc[w].tombs) \subseteq Keys /\ Len(proc[w].tombs) <= TombstoneCap
       /\ proc[w].degraded \in BOOLEAN
  /\ rows \in [Keys -> Rows \cup {NoRow}]
  /\ marked \in BOOLEAN /\ leased \subseteq Workers /\ former \subseteq Workers
  /\ thread \in [Threads -> Evaluations]

(* An evaluation whose session lacks authority granted before is answered  *)
(* COMPLETE only if the key has a gap: its session was evicted empty while *)
(* in use or after its signal was consumed, two processes held the key, or *)
(* its authority was never recorded (get_or_create, record_authority,      *)
(* consume_recreate_signal).                                               *)
CleanOnlyThroughGaps ==
  \A t \in Threads :
    thread[t].step = "noted" /\ thread[t].blind /\ Complete(t)
    => thread[t].key \in past.gaps

(* Two evaluations running in different processes do not both count one    *)
(* worker, unless the lease of one ran out meanwhile                       *)
(* (touch_lease_and_count).                                                *)
WorkersSeeEachOther ==
  \A t, u \in Threads :
    ( /\ InFlight(t) /\ InFlight(u) /\ thread[t].worker # thread[u].worker
      /\ ~ thread[t].lapsed /\ ~ thread[u].lapsed )
    => thread[t].multi \/ thread[u].multi

(* A process that discarded authority of a key it did not recreate has its *)
(* tombstone, or answers nothing COMPLETE (_record_authority_tombstone).   *)
ForgottenMeansDegraded ==
  \A w \in Workers :
    proc[w].degraded \/ past.lost[w] \subseteq Range(proc[w].tombs)
=============================================================================
