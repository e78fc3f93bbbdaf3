-------------------------- MODULE ContinuityProofs --------------------------
(***************************************************************************)
(* For any number of processes, evaluations, keys, sessions and            *)
(* tombstones: evaluations of two processes see each other in the count of *)
(* leases; and a session that lost authority is broken, or its process is  *)
(* degraded, or its key has a gap.                                         *)
(***************************************************************************)
EXTENDS Continuity, FiniteSetTheorems, TLAPS

(***************************************************************************)
(* Leases.                                                                 *)
(***************************************************************************)

(* What the lease argument reads of an evaluation. *)
Shaped(e) ==
  e = [step |-> e.step, worker |-> e.worker, key |-> e.key, multi |-> e.multi,
       broken |-> e.broken, orphan |-> e.orphan, blind |-> e.blind, lapsed |-> e.lapsed]

(* An evaluation that counted one worker and is still covered by its lease. *)
Alone(t) == InFlight(t) /\ ~ thread[t].multi /\ ~ thread[t].lapsed

Shapes ==
  /\ thread = [t \in Threads |-> thread[t]]
  /\ \A t \in Threads : Shaped(thread[t])
  /\ \A t \in Threads : InFlight(t) => thread[t].worker \in Workers
  /\ leased \subseteq Workers /\ former \subseteq Workers

Covered == \A t \in Threads : Alone(t) => thread[t].worker \in leased

LeaseInv == Shapes /\ Covered /\ WorkersSeeEachOther

(* A set with two elements counts as more than one. *)
LEMMA TwoWorkers ==
  ASSUME NEW S, IsFiniteSet(S), NEW v \in S, NEW w \in S, v # w
  PROVE  Cardinality(S) \in Nat /\ Cardinality(S) > 1
<1>1. Cardinality({v, w}) = 2
  <2>1. IsFiniteSet({v}) /\ Cardinality({v}) = 1
    BY FS_Singleton
  <2>2. Cardinality({v} \cup {w}) = Cardinality({v}) + 1
    BY <2>1, FS_AddElement
  <2>3. {v, w} = {v} \cup {w}
    OBVIOUS
  <2> QED
    BY <2>1, <2>2, <2>3
<1>2. Cardinality({v, w}) <= Cardinality(S)
  BY FS_Subset, {v, w} \subseteq S
<1>3. Cardinality(S) \in Nat
  BY FS_CardinalityType
<1> QED
  BY <1>1, <1>2, <1>3

LEMMA CountIsNatural ==
  ASSUME NEW S \in SUBSET Workers
  PROVE  IsFiniteSet(S) /\ Cardinality(S) \in Nat
BY ContinuityAssumption, FS_Subset, FS_CardinalityType

LEMMA InitLeaseInv == Init => LeaseInv
<1> SUFFICES ASSUME Init PROVE LeaseInv
  OBVIOUS
<1>1. \A t \in Threads : thread[t] = Idle
  BY DEF Init
<1>2. Shaped(Idle)
  BY DEF Shaped, Idle
<1>4. \A t \in Threads : ~ InFlight(t)
  BY <1>1 DEF InFlight, Idle
<1>3. Shapes
  BY <1>1, <1>2, <1>4 DEF Init, Shapes
<1> QED
  BY <1>3, <1>4 DEF LeaseInv, Covered, WorkersSeeEachOther, Alone

(* A step that ends evaluations or moves them on, and lets no lease go.    *)
LEMMA MovesOn ==
  ASSUME LeaseInv, Shapes', leased \subseteq leased',
         \A t \in Threads : thread'[t].step # "idle" =>
           /\ thread[t].step # "idle"
           /\ thread'[t].worker = thread[t].worker
           /\ thread'[t].multi = thread[t].multi
           /\ thread'[t].lapsed = thread[t].lapsed
  PROVE  LeaseInv'
BY DEF LeaseInv, Covered, WorkersSeeEachOther, Alone, InFlight

LEMMA MovedOn ==
  ASSUME LeaseInv, NEW t \in Threads, NEW f, Shaped(f),
         thread' = [thread EXCEPT ![t] = f],
         f.step = "idle" \/ ( /\ thread[t].step # "idle" /\ f.worker = thread[t].worker
                              /\ f.multi = thread[t].multi /\ f.lapsed = thread[t].lapsed ),
         leased \subseteq leased', leased' \subseteq Workers, former' = former
  PROVE  LeaseInv'
<1>1. \A u \in Threads : thread'[u] = IF u = t THEN f ELSE thread[u]
  BY DEF LeaseInv, Shapes
<1>2. Shapes'
  BY <1>1 DEF LeaseInv, Shapes, InFlight
<1> QED
  BY <1>1, <1>2, MovesOn

LEMMA ShapedResolved ==
  ASSUME NEW e, Shaped(e), NEW s
  PROVE  /\ Shaped(Resolved(e, s)) /\ Resolved(e, s).step = "resolved"
         /\ Resolved(e, s).worker = e.worker /\ Resolved(e, s).multi = e.multi
         /\ Resolved(e, s).lapsed = e.lapsed
<1> DEFINE x == s.broken
           y == ~ s.whole
           e1 == [e EXCEPT !.step = "resolved"]
           e2 == [e1 EXCEPT !.broken = x]
           e3 == [e2 EXCEPT !.blind = y]
<1>4. Resolved(e, s) = e3
  BY DEF Resolved
<1> HIDE DEF x, y
<1>1. /\ Shaped(e1) /\ e1.step = "resolved" /\ e1.worker = e.worker
      /\ e1.multi = e.multi /\ e1.lapsed = e.lapsed
  BY DEF Shaped
<1>2. /\ Shaped(e2) /\ e2.step = e1.step /\ e2.worker = e1.worker
      /\ e2.multi = e1.multi /\ e2.lapsed = e1.lapsed
  <2> HIDE DEF e1
  <2> QED
    BY <1>1 DEF Shaped
<1>3. /\ Shaped(e3) /\ e3.step = e2.step /\ e3.worker = e2.worker
      /\ e3.multi = e2.multi /\ e3.lapsed = e2.lapsed
  <2> HIDE DEF e2
  <2> QED
    BY <1>2 DEF Shaped
<1> HIDE DEF e1, e2, e3
<1> QED
  BY <1>1, <1>2, <1>3, <1>4

LEMMA ShapedStep ==
  ASSUME NEW e, Shaped(e), NEW x
  PROVE  LET f == [e EXCEPT !.step = x]
         IN  /\ Shaped(f) /\ f.step = x /\ f.worker = e.worker
             /\ f.multi = e.multi /\ f.lapsed = e.lapsed
BY DEF Shaped

LEMMA ShapedOrphan ==
  ASSUME NEW e, Shaped(e), NEW x
  PROVE  LET f == [e EXCEPT !.orphan = x]
         IN  /\ Shaped(f) /\ f.step = e.step /\ f.worker = e.worker
             /\ f.multi = e.multi /\ f.lapsed = e.lapsed
BY DEF Shaped

(* The lease of a counted evaluation's process is renewed, never let go.   *)
LEMMA RenewedGrows ==
  ASSUME NEW w \in Workers, NEW ok, leased \subseteq Workers
  PROVE  leased \subseteq Renewed(w, ok) /\ Renewed(w, ok) \subseteq Workers
BY DEF Renewed

LEMMA ReuseStep ==
  ASSUME LeaseInv, NEW t \in Threads, Reuse(t)
  PROVE  LeaseInv'
<1>1. Shaped(thread[t]) /\ InFlight(t) /\ thread[t].worker \in Workers
  BY DEF Reuse, LeaseInv, Shapes, InFlight
<1>2. PICK s, ok : /\ leased' = Renewed(thread[t].worker, ok)
                   /\ thread' = [thread EXCEPT ![t] = Resolved(thread[t], s)]
  BY DEF Reuse
<1>3. leased \subseteq leased' /\ leased' \subseteq Workers /\ former' = former
  BY <1>1, <1>2, RenewedGrows DEF Reuse, LeaseInv, Shapes
<1> DEFINE f == Resolved(thread[t], s)
<1>4. /\ Shaped(f) /\ f.worker = thread[t].worker
      /\ f.multi = thread[t].multi /\ f.lapsed = thread[t].lapsed
  BY <1>1, ShapedResolved
<1> HIDE DEF f
<1>5. thread' = [thread EXCEPT ![t] = f]
  BY <1>2 DEF f
<1> QED
  BY <1>1, <1>3, <1>4, <1>5, MovedOn DEF InFlight

LEMMA RecreateStep ==
  ASSUME LeaseInv, NEW t \in Threads, Recreate(t)
  PROVE  LeaseInv'
<1>1. Shaped(thread[t]) /\ InFlight(t) /\ thread[t].worker \in Workers
  BY DEF Recreate, LeaseInv, Shapes, InFlight
<1>0. PICK gone, stored, found, ok, flagged :
        EvictAndCreate(t, thread[t].worker, thread[t].key, gone, stored, found, ok, flagged)
  BY DEF Recreate
<1>2. PICK s, signal :
        /\ leased' = Renewed(thread[t].worker, ok)
        /\ thread' = ThreadsAfter(t, thread[t].worker, gone, signal, s)
  BY <1>0 DEF EvictAndCreate
<1>3. leased \subseteq leased' /\ leased' \subseteq Workers /\ former' = former
  BY <1>1, <1>2, RenewedGrows DEF Recreate, LeaseInv, Shapes
<1> DEFINE Kept(f, e) == /\ Shaped(f) /\ f.worker = e.worker
                         /\ f.multi = e.multi /\ f.lapsed = e.lapsed
           Lose(u) == thread[u].orphan \/ \E x \in KeysOf(gone) : Uses(u, thread[t].worker, x)
<1>4. ASSUME NEW u \in Threads, u # t
      PROVE  Kept(thread'[u], thread[u]) /\ thread'[u].step = thread[u].step
  <2>1. thread'[u] = [thread[u] EXCEPT !.orphan = Lose(u)]
    BY <1>2, <1>4 DEF ThreadsAfter
  <2>2. Shaped(thread[u])
    BY DEF LeaseInv, Shapes
  <2> HIDE DEF Lose
  <2> DEFINE f == thread'[u]
             e == thread[u]
  <2> HIDE DEF f, e
  <2>3. f = [e EXCEPT !.orphan = Lose(u)] /\ Shaped(e)
    BY <2>1, <2>2 DEF f, e
  <2>4. Kept(f, e) /\ f.step = e.step
    BY <2>3, ShapedOrphan
  <2> QED
    BY <2>4 DEF f, e
<1>5. Kept(thread'[t], thread[t])
  <2>1. CASE signal = "resolved"
    <3>1. thread'[t] = Resolved(thread[t], s)
      BY <1>2, <2>1 DEF ThreadsAfter, AfterCreate
    <3> QED
      BY <1>1, <3>1, ShapedResolved
  <2>2. CASE signal # "resolved"
    <3>1. thread'[t] = [thread[t] EXCEPT !.step = signal]
      BY <1>2, <2>2 DEF ThreadsAfter, AfterCreate
    <3> QED
      BY <1>1, <3>1, ShapedStep
  <2> QED
    BY <2>1, <2>2
<1>6. \A u \in Threads : Kept(thread'[u], thread[u]) /\ (thread'[u].step # "idle" => InFlight(u))
  BY <1>1, <1>4, <1>5 DEF InFlight
<1>7. Shapes'
  <2>1. thread' = [u \in Threads |-> thread'[u]]
    BY <1>2 DEF ThreadsAfter
  <2> QED
    BY <1>3, <1>6, <2>1 DEF LeaseInv, Shapes, InFlight
<1> QED
  BY <1>3, <1>6, <1>7, MovesOn DEF InFlight

LEMMA ConsumeStep ==
  ASSUME LeaseInv, NEW t \in Threads, Consume(t)
  PROVE  LeaseInv'
<1>1. Shaped(thread[t]) /\ InFlight(t)
  BY DEF Consume, Consuming, LeaseInv, Shapes, InFlight
<1>2. PICK s : thread' = [thread EXCEPT ![t] = Resolved(thread[t], s)]
  BY DEF Consume
<1> DEFINE f == Resolved(thread[t], s)
<1>3. /\ Shaped(f) /\ f.worker = thread[t].worker
      /\ f.multi = thread[t].multi /\ f.lapsed = thread[t].lapsed
  BY <1>1, ShapedResolved
<1> HIDE DEF f
<1>4. thread' = [thread EXCEPT ![t] = f]
  BY <1>2 DEF f
<1>5. leased' = leased /\ former' = former /\ leased \subseteq Workers
  BY DEF Consume, LeaseInv, Shapes
<1> QED
  BY <1>1, <1>3, <1>4, <1>5, MovedOn DEF InFlight

(* The steps after get_or_create leave the leases alone. *)
LEMMA StepOrEnd ==
  ASSUME LeaseInv, NEW t \in Threads, NEW x, InFlight(t),
         thread' = [thread EXCEPT ![t].step = x] \/ thread' = [thread EXCEPT ![t] = Idle],
         UNCHANGED <<leased, former>>
  PROVE  LeaseInv'
<1>1. Shaped(thread[t]) /\ leased \subseteq Workers
  BY DEF LeaseInv, Shapes
<1>2. CASE thread' = [thread EXCEPT ![t].step = x]
  <2> DEFINE f == [thread[t] EXCEPT !.step = x]
  <2>1. /\ Shaped(f) /\ f.worker = thread[t].worker
        /\ f.multi = thread[t].multi /\ f.lapsed = thread[t].lapsed
    BY <1>1, ShapedStep
  <2>2. thread' = [thread EXCEPT ![t] = f]
    BY <1>2
  <2> HIDE DEF f
  <2> QED
    BY <1>1, <2>1, <2>2, MovedOn DEF InFlight
<1>3. CASE thread' = [thread EXCEPT ![t] = Idle]
  <2>1. Shaped(Idle) /\ Idle.step = "idle"
    BY DEF Shaped, Idle
  <2> QED
    BY <1>1, <1>3, <2>1, MovedOn
<1> QED
  BY <1>2, <1>3

LEMMA BeginStep ==
  ASSUME LeaseInv, NEW t \in Threads, NEW w \in Workers, NEW k \in Keys, Begin(t, w, k)
  PROVE  LeaseInv'
<1>1. PICK ok \in StoreOutcomes :
        /\ leased' = IF ok THEN leased \cup {w} ELSE leased
        /\ thread' = [thread EXCEPT ![t] = Begun(w, k, ~ ok \/ CountAfterTouch(w) > 1)]
  BY DEF Begin
<1> DEFINE m == ~ ok \/ CountAfterTouch(w) > 1
           f == Begun(w, k, m)
<1>2. /\ Shaped(f) /\ f.step = "counted" /\ f.worker = w
      /\ f.multi = m /\ ~ f.lapsed
  <2> DEFINE e1 == [Idle EXCEPT !.step = "counted"]
             e2 == [e1 EXCEPT !.worker = w]
             e3 == [e2 EXCEPT !.key = k]
             e4 == [e3 EXCEPT !.multi = m]
  <2>1. f = e4
    BY DEF Begun
  <2> HIDE DEF m, f
  <2>2. Shaped(e1) /\ e1.step = "counted" /\ e1.lapsed = FALSE
    <3>1. Shaped(Idle) /\ Idle.lapsed = FALSE
      BY DEF Shaped, Idle
    <3> QED
      BY <3>1 DEF Shaped
  <2>3. Shaped(e2) /\ e2.step = "counted" /\ e2.worker = w /\ e2.lapsed = FALSE
    <3> HIDE DEF e1
    <3> QED
      BY <2>2 DEF Shaped
  <2>4. Shaped(e3) /\ e3.step = "counted" /\ e3.worker = w /\ e3.lapsed = FALSE
    <3> HIDE DEF e2
    <3> QED
      BY <2>3 DEF Shaped
  <2>5. Shaped(e4) /\ e4.step = "counted" /\ e4.worker = w /\ e4.lapsed = FALSE /\ e4.multi = m
    <3> HIDE DEF e3
    <3> QED
      BY <2>4 DEF Shaped
  <2> HIDE DEF e4
  <2> QED
    BY <2>1, <2>5
<1>3. \A u \in Threads : thread'[u] = IF u = t THEN f ELSE thread[u]
  BY <1>1 DEF LeaseInv, Shapes
<1> HIDE DEF f
<1>4. Shapes'
  <2>1. thread' = [u \in Threads |-> thread'[u]]
    BY <1>1 DEF LeaseInv, Shapes
  <2>2. leased' \subseteq Workers /\ former' = former
    BY <1>1 DEF Begin, LeaseInv, Shapes
  <2> QED
    BY <1>2, <1>3, <2>1, <2>2 DEF LeaseInv, Shapes, InFlight
<1>5. ASSUME NEW u \in Threads, u # t, Alone(u), thread[u].worker # w
      PROVE  m
  <2>1. thread[u].worker \in leased
    BY <1>5 DEF LeaseInv, Covered
  <2>2. IsFiniteSet(leased \cup {w}) /\ Cardinality(former) \in Nat
    BY CountIsNatural DEF LeaseInv, Shapes
  <2>3. Cardinality(leased \cup {w}) \in Nat /\ Cardinality(leased \cup {w}) > 1
    BY <1>5, <2>1, <2>2, TwoWorkers
  <2> QED
    BY <2>2, <2>3 DEF CountAfterTouch
<1>6. \A u \in Threads : u # t => (Alone(u))' = Alone(u)
  BY <1>3 DEF Alone, InFlight
<1>7. Covered'
  <2>1. ~ m => w \in leased'
    BY <1>1
  <2>2. leased \subseteq leased'
    BY <1>1
  <2> QED
    BY <1>2, <1>3, <2>1, <2>2 DEF LeaseInv, Covered, Alone, InFlight
<1>8. WorkersSeeEachOther'
  <2> SUFFICES ASSUME NEW u \in Threads, NEW v \in Threads, Alone(u)', Alone(v)',
                      thread'[u].worker # thread'[v].worker
               PROVE  FALSE
    BY DEF WorkersSeeEachOther, Alone, InFlight
  <2>1. CASE u # t /\ v # t
    BY <1>3, <2>1 DEF LeaseInv, WorkersSeeEachOther, Alone, InFlight
  <2>2. CASE u = t /\ v # t
    BY <1>2, <1>3, <1>5, <2>2 DEF Alone, InFlight
  <2>3. CASE u # t /\ v = t
    BY <1>2, <1>3, <1>5, <2>3 DEF Alone, InFlight
  <2> QED
    BY <2>1, <2>2, <2>3
<1> QED
  BY <1>4, <1>7, <1>8 DEF LeaseInv

LEMMA LeaseExpiresStep ==
  ASSUME LeaseInv, NEW w \in Workers, LeaseExpires(w)
  PROVE  LeaseInv'
<1> DEFINE Lapse(u) == thread[u].lapsed \/ (InFlight(u) /\ thread[u].worker = w)
<1>1. ASSUME NEW u \in Threads
      PROVE  /\ Shaped(thread'[u]) /\ thread'[u].step = thread[u].step
             /\ thread'[u].worker = thread[u].worker /\ thread'[u].multi = thread[u].multi
             /\ thread'[u].lapsed = Lapse(u)
  <2>1. thread'[u] = [thread[u] EXCEPT !.lapsed = Lapse(u)]
    BY DEF LeaseExpires
  <2>2. Shaped(thread[u])
    BY DEF LeaseInv, Shapes
  <2> HIDE DEF Lapse
  <2> QED
    BY <2>1, <2>2 DEF Shaped
<1>2. thread' = [u \in Threads |-> thread'[u]] /\ leased' = leased \ {w} /\ former' = former
  BY DEF LeaseExpires
<1>3. \A u \in Threads : (Alone(u))' => Alone(u) /\ thread[u].worker # w
  BY <1>1 DEF Alone, InFlight
<1>4. Shapes'
  BY <1>1, <1>2 DEF LeaseInv, Shapes, InFlight
<1>5. Covered'
  BY <1>1, <1>2, <1>3 DEF LeaseInv, Covered
<1>6. WorkersSeeEachOther'
  BY <1>1, <1>3 DEF LeaseInv, WorkersSeeEachOther, Alone, InFlight
<1> QED
  BY <1>4, <1>5, <1>6 DEF LeaseInv

LEMMA RestartStep ==
  ASSUME LeaseInv, NEW w \in Workers, Restart(w)
  PROVE  LeaseInv'
<1>1. \A u \in Threads : thread'[u] = IF thread[u].worker = w THEN Idle ELSE thread[u]
  BY DEF Restart
<1>2. thread' = [u \in Threads |-> thread'[u]]
  BY DEF Restart
<1>3. leased \ {w} \subseteq leased' /\ leased' \subseteq Workers /\ former' \subseteq Workers
  BY DEF Restart, LeaseInv, Shapes
<1>4. Shaped(Idle) /\ Idle.step = "idle"
  BY DEF Shaped, Idle
<1>5. \A u \in Threads : InFlight(u)' => thread'[u] = thread[u] /\ thread[u].worker # w
  BY <1>1, <1>4 DEF InFlight
<1>6. Shapes'
  BY <1>1, <1>2, <1>3, <1>4, <1>5 DEF LeaseInv, Shapes, InFlight
<1>7. \A u \in Threads : Alone(u)' => Alone(u)
  BY <1>5 DEF Alone, InFlight
<1>8. Covered'
  BY <1>3, <1>5, <1>7 DEF LeaseInv, Covered, Alone
<1>9. WorkersSeeEachOther'
  BY <1>5, <1>7 DEF LeaseInv, WorkersSeeEachOther, Alone, InFlight
<1> QED
  BY <1>6, <1>8, <1>9 DEF LeaseInv

LEMMA NextLeaseInv == LeaseInv /\ [Next]_vars => LeaseInv'
<1> SUFFICES ASSUME LeaseInv, [Next]_vars PROVE LeaseInv'
  OBVIOUS
<1>1. ASSUME NEW t \in Threads, NEW w \in Workers, NEW k \in Keys, Begin(t, w, k)
      PROVE  LeaseInv'
  BY <1>1, BeginStep
<1>2. ASSUME NEW t \in Threads, Reuse(t) PROVE LeaseInv'
  BY <1>2, ReuseStep
<1>3. ASSUME NEW t \in Threads, Recreate(t) PROVE LeaseInv'
  BY <1>3, RecreateStep
<1>4. ASSUME NEW t \in Threads, Consume(t) PROVE LeaseInv'
  BY <1>4, ConsumeStep
<1>5. ASSUME NEW t \in Threads, Apply(t) PROVE LeaseInv'
  BY <1>5, StepOrEnd DEF Apply, InFlight
<1>6. ASSUME NEW t \in Threads, Note(t) PROVE LeaseInv'
  BY <1>6, StepOrEnd DEF Note, InFlight
<1>7. ASSUME NEW t \in Threads, Answer(t) PROVE LeaseInv'
  BY <1>7, StepOrEnd DEF Answer, InFlight
<1>8. ASSUME NEW t \in Threads, EvalFails(t) PROVE LeaseInv'
  BY <1>8, StepOrEnd DEF EvalFails, InFlight
<1>9. ASSUME NEW w \in Workers, Restart(w) PROVE LeaseInv'
  BY <1>9, RestartStep
<1>10. ASSUME NEW w \in Workers, LeaseExpires(w) PROVE LeaseInv'
  BY <1>10, LeaseExpiresStep
<1>11. ASSUME NEW w \in Workers, FormerExpires(w) PROVE LeaseInv'
  <2>1. /\ thread' = thread /\ leased' = leased
        /\ former' \subseteq former
    BY <1>11 DEF FormerExpires
  <2> QED
    BY <2>1 DEF LeaseInv, Shapes, Covered, WorkersSeeEachOther, Alone, InFlight
<1>12. CASE UNCHANGED vars
  BY <1>12 DEF vars, LeaseInv, Shapes, Covered, WorkersSeeEachOther, Alone, InFlight
<1> QED
  BY <1>1, <1>2, <1>3, <1>4, <1>5, <1>6, <1>7, <1>8, <1>9, <1>10, <1>11, <1>12 DEF Next

(* In every reachable state an evaluation that counted one worker, and     *)
(* whose lease did not lapse, has the lease of its process to show for it  *)
(* (touch_lease_and_count, BEGIN IMMEDIATE).                               *)
THEOREM LeaseInvariantHolds == Spec => []LeaseInv
<1>1. Init => LeaseInv
  BY InitLeaseInv
<1>2. LeaseInv /\ [Next]_vars => LeaseInv'
  BY NextLeaseInv
<1> QED
  BY <1>1, <1>2, PTL DEF Spec

(* For any number of processes and evaluations: two evaluations running in *)
(* different processes do not both count one worker, unless a lease lapsed *)
(* meanwhile (active_worker_count, pa_deployment_status).                  *)
THEOREM SeenByEachOther == Spec => []WorkersSeeEachOther
<1>1. LeaseInv => WorkersSeeEachOther
  BY DEF LeaseInv
<1> QED
  BY <1>1, LeaseInvariantHolds, PTL

(***************************************************************************)
(* Sequences by the positions picked of them.                              *)
(***************************************************************************)
(* A set of naturals that starts at 0 and goes from each number up to n to *)
(* the next has all of them, or there would be a least one missing.        *)
LEMMA CountingUp ==
  ASSUME NEW n \in Nat, NEW S, 0 \in S, \A m \in 1 .. n : m - 1 \in S => m \in S
  PROVE  n \in S
<1> SUFFICES ASSUME n \notin S PROVE FALSE
  OBVIOUS
<1> DEFINE R == {p \in Nat \X Nat : p[1] < p[2]}
           Left == {m \in 0 .. n : m \notin S}
<1>1. IsWellFoundedOn(R, Nat)
  BY NatLessThanWellFounded DEF OpToRel
<1>2. Left \subseteq Nat /\ Left # {}
  OBVIOUS
<1>3. PICK m \in Left : \A k \in Left : ~ (<<k, m>> \in R)
  <2> HIDE DEF R, Left
  <2> QED
    BY <1>1, <1>2, WFMin
<1>4. m \in 1 .. n
  OBVIOUS
<1>5. m - 1 \in Left /\ <<m - 1, m>> \in R
  BY <1>4
<1> QED
  BY <1>3, <1>5

Rises(h, set) ==
  h \in [1 .. Cardinality(set) -> set] /\ \A i, j \in DOMAIN h : i < j => h[i] < h[j]

(* Every finite set of positions can be listed in ascending order. *)
LEMMA AscendingExists ==
  ASSUME NEW n \in Nat, NEW I \in SUBSET (1 .. n)
  PROVE  \E h : Rises(h, I)
<1> DEFINE S == {m \in 0 .. n : \A J \in SUBSET (1 .. m) : \E h : Rises(h, J)}
<1>1. 0 \in S
  <2>1. ASSUME NEW J \in SUBSET (1 .. 0) PROVE J = {} /\ Cardinality(J) = 0
    <3>1. J = {}
      OBVIOUS
    <3> QED
      BY <3>1, FS_EmptySet
  <2>2. \A J \in SUBSET (1 .. 0) : Rises(<< >>, J)
    BY <2>1 DEF Rises
  <2> QED
    BY <2>2
<1>2. ASSUME NEW m \in 1 .. n, m - 1 \in S PROVE m \in S
  <2> SUFFICES ASSUME NEW J \in SUBSET (1 .. m) PROVE \E h : Rises(h, J)
    OBVIOUS
  <2>1. CASE m \notin J
    <3>1. J \in SUBSET (1 .. (m - 1))
      BY <2>1
    <3> QED
      BY <1>2, <3>1
  <2>2. CASE m \in J
    <3> DEFINE K == J \ {m}
               c == Cardinality(K)
    <3>1. K \in SUBSET (1 .. (m - 1))
      OBVIOUS
    <3>2. PICK g : Rises(g, K)
      BY <1>2, <3>1
    <3>3. IsFiniteSet(J)
      <4>1. IsFiniteSet(1 .. m)
        BY FS_Interval
      <4> QED
        BY <4>1, FS_Subset
    <3>4. IsFiniteSet(K) /\ c \in Nat /\ Cardinality(J) = c + 1
      <4>1. IsFiniteSet(K) /\ Cardinality(K) = Cardinality(J) - 1
        BY <2>2, <3>3, FS_RemoveElement
      <4> QED
        BY <4>1, <3>3, FS_CardinalityType
    <3> HIDE DEF c
    <3>5. g \in [1 .. c -> K] /\ \A i, j \in 1 .. c : i < j => g[i] < g[j]
      BY <3>2 DEF Rises, c
    <3> DEFINE h == [i \in 1 .. (c + 1) |-> IF i = c + 1 THEN m ELSE g[i]]
    <3>6. h \in [1 .. (c + 1) -> J]
      <4>1. ASSUME NEW i \in 1 .. (c + 1) PROVE h[i] \in J
        <5>1. CASE i = c + 1
          BY <2>2, <5>1
        <5>2. CASE i # c + 1
          <6>1. i \in 1 .. c
            BY <3>4, <5>2
          <6> QED
            BY <3>5, <5>2, <6>1
        <5> QED
          BY <5>1, <5>2
      <4> QED
        BY <4>1
    <3>7. ASSUME NEW i \in 1 .. (c + 1), NEW j \in 1 .. (c + 1), i < j PROVE h[i] < h[j]
      <4>0. i \in 1 .. c
        BY <3>4, <3>7
      <4>1. i \in 1 .. c /\ g[i] \in 1 .. (m - 1)
        <5>1. g[i] \in K
          BY <3>5, <4>0
        <5> QED
          BY <3>1, <4>0, <5>1
      <4>2. CASE j = c + 1
        BY <4>1, <4>2, <3>4
      <4>3. CASE j # c + 1
        <5>1. j \in 1 .. c
          BY <3>4, <4>3
        <5> QED
          BY <3>5, <3>7, <4>1, <5>1
      <4> QED
        BY <4>2, <4>3
    <3>8. Rises(h, J)
      <4> HIDE DEF h
      <4> QED
        BY <3>4, <3>6, <3>7 DEF Rises
    <3> QED
      BY <3>8
  <2> QED
    BY <2>1, <2>2
<1>3. n \in S
  <2> HIDE DEF S
  <2> QED
    BY <1>1, <1>2, CountingUp
<1> QED
  BY <1>3

(* Ascending lists every position once. *)
LEMMA AscendingFacts ==
  ASSUME NEW n \in Nat, NEW I \in SUBSET (1 .. n)
  PROVE  /\ IsFiniteSet(I) /\ Cardinality(I) \in 0 .. n
         /\ Ascending(I) \in [1 .. Cardinality(I) -> I]
         /\ \A i, j \in 1 .. Cardinality(I) : Ascending(I)[i] = Ascending(I)[j] => i = j
         /\ \A p \in I : \E i \in 1 .. Cardinality(I) : Ascending(I)[i] = p
<1> DEFINE c == Cardinality(I)
           h == Ascending(I)
<1>1. IsFiniteSet(I) /\ c \in 0 .. n
  <2>1. IsFiniteSet(1 .. n) /\ Cardinality(1 .. n) = n
    BY FS_Interval
  <2>2. IsFiniteSet(I) /\ Cardinality(I) <= n
    BY <2>1, FS_Subset
  <2> QED
    BY <2>2, FS_CardinalityType
<1>2. Rises(h, I)
  BY AscendingExists DEF Ascending, Rises
<1>3. h \in [1 .. c -> I] /\ \A i, j \in 1 .. c : i < j => h[i] < h[j]
  BY <1>2 DEF Rises
<1> HIDE DEF h, c
<1>4. \A i, j \in 1 .. c : h[i] = h[j] => i = j
  <2> SUFFICES ASSUME NEW i \in 1 .. c, NEW j \in 1 .. c, h[i] = h[j], i # j PROVE FALSE
    OBVIOUS
  <2>1. h[i] \in I /\ h[j] \in I /\ I \subseteq Int
    BY <1>3
  <2>2. h[i] < h[j] \/ h[j] < h[i]
    <3>1. i < j \/ j < i
      BY <1>1
    <3> QED
      BY <1>3, <3>1
  <2>3. \A x, y \in Int : x < y => x # y
    OBVIOUS
  <2> QED
    BY <2>1, <2>2, <2>3
<1>5. h \in Injection(1 .. c, I)
  BY <1>3, <1>4 DEF Injection, IsInjective
<1>6. h \in Surjection(1 .. c, I)
  <2>0. c \in Nat
    BY <1>1
  <2>1. Cardinality(1 .. c) = c
    <3>1. Cardinality(1 .. c) = IF 1 > c THEN 0 ELSE c - 1 + 1
      BY <2>0, FS_Interval
    <3> QED
      BY <2>0, <3>1
  <2>2. Cardinality(1 .. c) = Cardinality(I)
    BY <2>1 DEF c
  <2> QED
    BY <1>1, <1>5, <2>2, FS_Injection
<1>7. \A p \in I : \E i \in 1 .. c : h[i] = p
  BY <1>6 DEF Surjection
<1> QED
  BY <1>1, <1>3, <1>4, <1>7 DEF h, c

(* What Picked keeps: the elements at the positions, once each. *)
LEMMA PickedFacts ==
  ASSUME NEW S, NEW seq \in Seq(S), NEW I \in SUBSET DOMAIN seq
  PROVE  /\ Picked(seq, I) \in Seq(S)
         /\ Len(Picked(seq, I)) = Cardinality(I) /\ Cardinality(I) \in 0 .. Len(seq)
         /\ Range(Picked(seq, I)) = {seq[i] : i \in I}
         /\ \A i, j \in 1 .. Cardinality(I) :
              \E a, b \in I : /\ Picked(seq, I)[i] = seq[a] /\ Picked(seq, I)[j] = seq[b]
                              /\ a = b => i = j
<1> DEFINE c == Cardinality(I)
           h == Ascending(I)
           q == Picked(seq, I)
<1>0. Len(seq) \in Nat /\ I \in SUBSET (1 .. Len(seq)) /\ \A i \in 1 .. Len(seq) : seq[i] \in S
  OBVIOUS
<1>1. /\ c \in 0 .. Len(seq)
      /\ h \in [1 .. c -> I]
      /\ \A i, j \in 1 .. c : h[i] = h[j] => i = j
      /\ \A p \in I : \E i \in 1 .. c : h[i] = p
  BY <1>0, AscendingFacts
<1>2. q = [i \in 1 .. c |-> seq[h[i]]]
  BY DEF Picked
<1> HIDE DEF c, h, q
<1>3. \A i \in 1 .. c : q[i] = seq[h[i]] /\ h[i] \in I /\ seq[h[i]] \in S
  BY <1>0, <1>1, <1>2
<1>4. q \in Seq(S) /\ Len(q) = c /\ DOMAIN q = 1 .. c
  <2>1. c \in Nat
    BY <1>1
  <2>2. q \in [1 .. c -> S]
    BY <1>2, <1>3
  <2> QED
    BY <2>1, <2>2
<1>5. Range(q) = {seq[i] : i \in I}
  <2>1. Range(q) = {q[i] : i \in 1 .. c}
    BY <1>4 DEF Range
  <2>2. ASSUME NEW i \in 1 .. c PROVE q[i] \in {seq[j] : j \in I}
    BY <1>3
  <2>3. ASSUME NEW j \in I PROVE seq[j] \in {q[i] : i \in 1 .. c}
    <3>1. PICK i \in 1 .. c : h[i] = j
      BY <1>1
    <3> QED
      BY <1>3, <3>1
  <2> QED
    BY <2>1, <2>2, <2>3
<1>6. \A i, j \in 1 .. c : \E a, b \in I : q[i] = seq[a] /\ q[j] = seq[b] /\ (a = b => i = j)
  BY <1>1, <1>3
<1> QED
  BY <1>1, <1>4, <1>5, <1>6 DEF c, q

(***************************************************************************)
(* Facts about the registry of a process.                                  *)
(***************************************************************************)
DistinctKeys(live) == \A i, j \in DOMAIN live : live[i].key = live[j].key => i = j

(* What a concatenation ranges over. *)
LEMMA RangeOfConcat ==
  ASSUME NEW S, NEW q \in Seq(S), NEW r \in Seq(S)
  PROVE  /\ q \o r \in Seq(S) /\ Len(q \o r) = Len(q) + Len(r)
         /\ Range(q \o r) = Range(q) \cup Range(r)
<1>1. /\ q \o r \in Seq(S) /\ Len(q \o r) = Len(q) + Len(r)
      /\ \A i \in 1 .. Len(q) : (q \o r)[i] = q[i]
      /\ \A i \in 1 .. Len(r) : (q \o r)[Len(q) + i] = r[i]
  OBVIOUS
<1>2. Range(q \o r) \subseteq Range(q) \cup Range(r)
  <2> SUFFICES ASSUME NEW i \in 1 .. Len(q) + Len(r)
               PROVE  (q \o r)[i] \in Range(q) \cup Range(r)
    BY <1>1 DEF Range
  <2>1. CASE i <= Len(q)
    BY <2>1, <1>1 DEF Range
  <2>2. CASE i > Len(q)
    <3>1. i - Len(q) \in 1 .. Len(r) /\ i = Len(q) + (i - Len(q))
      BY <2>2
    <3>2. (q \o r)[i] = r[i - Len(q)]
      BY <3>1, <1>1
    <3> QED
      BY <3>1, <3>2 DEF Range
  <2> QED
    BY <2>1, <2>2
<1>3. \A i \in 1 .. Len(q) : i \in 1 .. Len(q) + Len(r)
  OBVIOUS
<1>4. \A i \in 1 .. Len(r) : Len(q) + i \in 1 .. Len(q) + Len(r)
  OBVIOUS
<1>5. DOMAIN (q \o r) = 1 .. Len(q) + Len(r) /\ DOMAIN q = 1 .. Len(q) /\ DOMAIN r = 1 .. Len(r)
  BY <1>1
<1>6. Range(q) \subseteq Range(q \o r)
  BY <1>1, <1>3, <1>5 DEF Range
<1>7. Range(r) \subseteq Range(q \o r)
  <2> SUFFICES ASSUME NEW i \in 1 .. Len(r) PROVE r[i] \in Range(q \o r)
    BY <1>5 DEF Range
  <2>1. (q \o r)[Len(q) + i] = r[i] /\ Len(q) + i \in DOMAIN (q \o r)
    BY <1>1, <1>4, <1>5
  <2> QED
    BY <2>1 DEF Range
<1> QED
  BY <1>1, <1>2, <1>6, <1>7

(* What a piece of a sequence ranges over. *)
LEMMA RangeOfSubSeq ==
  ASSUME NEW S, NEW q \in Seq(S), NEW m \in Nat, NEW n \in Nat, m >= 1, n <= Len(q)
  PROVE  /\ SubSeq(q, m, n) \in Seq(S)
         /\ Len(SubSeq(q, m, n)) = IF m <= n THEN n - m + 1 ELSE 0
         /\ Range(SubSeq(q, m, n)) = {q[i] : i \in m .. n}
<1>1. /\ SubSeq(q, m, n) \in Seq(S)
      /\ Len(SubSeq(q, m, n)) = IF m <= n THEN n - m + 1 ELSE 0
      /\ \A i \in 1 .. (n - m + 1) : SubSeq(q, m, n)[i] = q[m + i - 1]
  OBVIOUS
<1> DEFINE c == IF m <= n THEN n - m + 1 ELSE 0
<1>2. DOMAIN SubSeq(q, m, n) = 1 .. c
  BY <1>1
<1>3. \A i \in 1 .. c : SubSeq(q, m, n)[i] = q[m + i - 1] /\ m + i - 1 \in m .. n
  BY <1>1
<1>4. \A i \in m .. n : i - m + 1 \in 1 .. c /\ m + (i - m + 1) - 1 = i
  OBVIOUS
<1> HIDE DEF c
<1>5. Range(SubSeq(q, m, n)) \subseteq {q[i] : i \in m .. n}
  BY <1>2, <1>3 DEF Range
<1>6. ASSUME NEW i \in m .. n PROVE q[i] \in Range(SubSeq(q, m, n))
  <2>1. SubSeq(q, m, n)[i - m + 1] = q[i]
    BY <1>3, <1>4
  <2> QED
    BY <1>2, <1>4, <2>1 DEF Range
<1> QED
  BY <1>1, <1>5, <1>6

(* Dropping sessions keeps the others, each key still once. *)
LEMMA WithoutFacts ==
  ASSUME NEW live \in Seq(Sessions), NEW K
  PROVE  /\ Without(live, K) \in Seq(Sessions)
         /\ Len(Without(live, K)) \in 0 .. Len(live)
         /\ Range(Without(live, K)) = {s \in Range(live) : s.key \notin K}
         /\ DistinctKeys(live) => DistinctKeys(Without(live, K))
<1> DEFINE I == {i \in DOMAIN live : live[i].key \notin K}
           q == Without(live, K)
<1>1. q = Picked(live, I) /\ I \in SUBSET DOMAIN live
  BY DEF Without
<1> HIDE DEF I
<1>2. /\ q \in Seq(Sessions) /\ Len(q) = Cardinality(I) /\ Cardinality(I) \in 0 .. Len(live)
      /\ Range(q) = {live[i] : i \in I}
      /\ \A i, j \in 1 .. Cardinality(I) :
           \E a, b \in I : q[i] = live[a] /\ q[j] = live[b] /\ (a = b => i = j)
  BY <1>1, PickedFacts
<1>3. Range(q) = {s \in Range(live) : s.key \notin K}
  BY <1>2 DEF I, Range
<1>4. ASSUME DistinctKeys(live) PROVE DistinctKeys(q)
  <2> HIDE DEF q
  <2>1. DOMAIN q = 1 .. Cardinality(I) /\ I \subseteq DOMAIN live
    BY <1>1, <1>2
  <2> QED
    BY <1>2, <1>4, <2>1 DEF DistinctKeys
<1> QED
  BY <1>2, <1>3, <1>4

(* Forgetting tombstones keeps the others. *)
LEMMA ExceptFacts ==
  ASSUME NEW tombs \in Seq(Keys), NEW K
  PROVE  /\ Except(tombs, K) \in Seq(Keys)
         /\ Len(Except(tombs, K)) \in 0 .. Len(tombs)
         /\ Range(Except(tombs, K)) = Range(tombs) \ K
<1> DEFINE I == {i \in DOMAIN tombs : tombs[i] \notin K}
<1>1. Except(tombs, K) = Picked(tombs, I) /\ I \in SUBSET DOMAIN tombs
  BY DEF Except
<1> HIDE DEF I
<1>2. /\ Except(tombs, K) \in Seq(Keys)
      /\ Len(Except(tombs, K)) = Cardinality(I) /\ Cardinality(I) \in 0 .. Len(tombs)
      /\ Range(Except(tombs, K)) = {tombs[i] : i \in I}
  BY <1>1, PickedFacts
<1>3. {tombs[i] : i \in I} = Range(tombs) \ K
  BY DEF I, Range
<1> QED
  BY <1>2, <1>3

(* Every key lost gets a tombstone, and none goes. *)
LEMMA EntombedFacts ==
  ASSUME NEW tombs \in Seq(Keys), NEW gone \in Seq(Sessions)
  PROVE  /\ Entombed(tombs, gone) \in Seq(Keys)
         /\ Range(Entombed(tombs, gone)) = Range(tombs) \cup Lost(gone)
<1> DEFINE I == Accumulated(gone)
           lost == Picked(gone, I)
           keys == [i \in DOMAIN lost |-> lost[i].key]
<1>1. Entombed(tombs, gone) = Except(tombs, Lost(gone)) \o keys
  BY DEF Entombed
<1>2. I \in SUBSET DOMAIN gone /\ \A i \in DOMAIN gone : i \in I <=> gone[i].acc
  BY DEF Accumulated
<1> HIDE DEF I
<1>3. lost \in Seq(Sessions) /\ Range(lost) = {gone[i] : i \in I}
  BY <1>2, PickedFacts
<1> HIDE DEF lost
<1>4. keys \in Seq(Keys) /\ DOMAIN keys = DOMAIN lost
  <2>1. \A i \in 1 .. Len(lost) : lost[i].key \in Keys
    <3>1. \A i \in 1 .. Len(lost) : lost[i] \in Sessions
      BY <1>3
    <3> QED
      BY <3>1 DEF Sessions
  <2>2. DOMAIN lost = 1 .. Len(lost) /\ Len(lost) \in Nat
    BY <1>3
  <2> QED
    BY <2>1, <2>2
<1>5. Range(keys) = {s.key : s \in Range(lost)}
  BY <1>4 DEF Range
<1> HIDE DEF keys
<1>6. Lost(gone) = {s.key : s \in Range(lost)}
  <2>1. Range(lost) = {g \in Range(gone) : g.acc}
    BY <1>2, <1>3 DEF Range
  <2> QED
    BY <2>1 DEF Lost
<1>7. /\ Except(tombs, Lost(gone)) \in Seq(Keys)
      /\ Range(Except(tombs, Lost(gone))) = Range(tombs) \ Lost(gone)
  BY ExceptFacts
<1>8. /\ Entombed(tombs, gone) \in Seq(Keys)
      /\ Range(Entombed(tombs, gone)) = (Range(tombs) \ Lost(gone)) \cup Range(keys)
  BY <1>1, <1>4, <1>7, RangeOfConcat
<1> QED
  BY <1>5, <1>6, <1>8

(* Trimming leaves as many tombstones as allowed. *)
LEMMA TrimmedFacts ==
  ASSUME NEW tombs \in Seq(Keys), Overfull(tombs)
  PROVE  Trimmed(tombs) \in Seq(Keys) /\ Len(Trimmed(tombs)) = TombstoneCap
BY ContinuityAssumption DEF Overfull, Trimmed

(* Ranked lists every session once, whatever it lists first. *)
LEMMA RankedFacts ==
  ASSUME NEW live \in Seq(Sessions)
  PROVE  /\ Ranked(live) \in Seq(Sessions) /\ Len(Ranked(live)) = Len(live)
         /\ Range(Ranked(live)) = Range(live)
<1> DEFINE A == Accumulated(live)
           E == DOMAIN live \ A
<1>1. A \in SUBSET DOMAIN live /\ E \in SUBSET DOMAIN live
  BY DEF Accumulated
<1>2. Ranked(live) = Picked(live, E) \o Picked(live, A)
  BY DEF Ranked
<1> HIDE DEF A
<1>3. /\ Picked(live, E) \in Seq(Sessions) /\ Len(Picked(live, E)) = Cardinality(E)
      /\ Range(Picked(live, E)) = {live[i] : i \in E}
  BY <1>1, PickedFacts
<1>4. /\ Picked(live, A) \in Seq(Sessions) /\ Len(Picked(live, A)) = Cardinality(A)
      /\ Range(Picked(live, A)) = {live[i] : i \in A}
  BY <1>1, PickedFacts
<1>5. Cardinality(E) + Cardinality(A) = Len(live)
  <2>1. DOMAIN live = 1 .. Len(live) /\ Len(live) \in Nat
    OBVIOUS
  <2>2. IsFiniteSet(1 .. Len(live)) /\ Cardinality(1 .. Len(live)) = Len(live)
    <3>1. /\ IsFiniteSet(1 .. Len(live))
          /\ Cardinality(1 .. Len(live)) = IF 1 > Len(live) THEN 0 ELSE Len(live) - 1 + 1
      BY SMTT(30), <2>1, FS_Interval
    <3> QED
      BY <2>1, <3>1
  <2>3. IsFiniteSet(A) /\ IsFiniteSet(E)
    BY <1>1, <2>1, <2>2, FS_Subset
  <2>4. Cardinality(A) \in Nat /\ Cardinality(E) \in Nat
    BY <2>3, FS_CardinalityType
  <2>5. E \cup A = 1 .. Len(live) /\ E \cap A = {}
    BY <1>1, <2>1
  <2>6. Cardinality(E \cup A) = Cardinality(E) + Cardinality(A) - Cardinality(E \cap A)
    BY <2>3, FS_Union
  <2>7. Cardinality({}) = 0
    BY FS_EmptySet
  <2> HIDE DEF E
  <2> QED
    <3>1. Cardinality(E \cup A) = Len(live) /\ Cardinality(E \cap A) = 0
      BY <2>2, <2>5, <2>7
    <3> QED
      BY <2>1, <2>4, <2>6, <3>1
<1>6. Range(live) = {live[i] : i \in E} \cup {live[i] : i \in A}
  BY <1>1 DEF Range
<1> HIDE DEF E
<1> QED
  BY SMTT(30), <1>2, <1>3, <1>4, <1>5, <1>6, RangeOfConcat

(* Making room aims below the limit of sessions. *)
LEMMA TargetFacts == Target \in Nat /\ Target < MaxSessions
<1>1. CASE MaxSessions < 20
  BY <1>1, ContinuityAssumption DEF Target
<1>2. CASE ~ (MaxSessions < 20)
  <2>1. MaxSessions \div 10 \in 1 .. MaxSessions
    BY <1>2, ContinuityAssumption
  <2> QED
    BY <1>2, <2>1, ContinuityAssumption DEF Target
<1> QED
  BY <1>1, <1>2

(* How many sessions of a sequence go. *)
Surplus(live) == IF Len(live) > Target THEN Len(live) - Target ELSE 0

(* What goes beyond the expired sessions is ranked first. *)
LEMMA ExcessFacts ==
  ASSUME NEW live \in Seq(Sessions)
  PROVE  /\ Surplus(live) \in 0 .. Len(live)
         /\ Excess(live) \in Seq(Sessions)
         /\ Range(Excess(live)) = {Ranked(live)[i] : i \in 1 .. Surplus(live)}
         /\ Range(Excess(live)) \subseteq Range(live)
<1>1. /\ Ranked(live) \in Seq(Sessions) /\ Len(Ranked(live)) = Len(live)
      /\ Range(Ranked(live)) = Range(live)
  BY RankedFacts
<1>2. Surplus(live) \in 0 .. Len(live)
  BY TargetFacts DEF Surplus
<1>3. Excess(live) = SubSeq(Ranked(live), 1, Surplus(live))
  BY DEF Excess, Surplus
<1>4. /\ Excess(live) \in Seq(Sessions)
      /\ Range(Excess(live)) = {Ranked(live)[i] : i \in 1 .. Surplus(live)}
  BY <1>1, <1>2, <1>3, RangeOfSubSeq
<1>5. \A i \in 1 .. Surplus(live) : Ranked(live)[i] \in Range(Ranked(live))
  BY <1>1, <1>2 DEF Range
<1> QED
  BY <1>1, <1>2, <1>4, <1>5

(* What _make_room drops are sessions of the registry. *)
LEMMA DroppedFacts ==
  ASSUME NEW live \in Seq(Sessions), NEW idle \in 0 .. Len(live)
  PROVE  /\ Dropped(live, idle) \in Seq(Sessions)
         /\ Range(Dropped(live, idle)) \subseteq Range(live)
         /\ Len(live) >= MaxSessions =>
              Range(Dropped(live, idle)) =
                Range(SubSeq(live, 1, idle)) \cup Range(Excess(SubSeq(live, idle + 1, Len(live))))
<1> DEFINE first == SubSeq(live, 1, idle)
           rest  == SubSeq(live, idle + 1, Len(live))
<1>1. first \in Seq(Sessions) /\ Range(first) \subseteq Range(live)
  <2>1. first \in Seq(Sessions) /\ Range(first) = {live[i] : i \in 1 .. idle}
    BY RangeOfSubSeq
  <2> QED
    BY <2>1 DEF Range
<1>2. rest \in Seq(Sessions) /\ Range(rest) \subseteq Range(live)
  <2>1. rest \in Seq(Sessions) /\ Range(rest) = {live[i] : i \in (idle + 1) .. Len(live)}
    BY RangeOfSubSeq
  <2> QED
    BY <2>1 DEF Range
<1>3. Excess(rest) \in Seq(Sessions) /\ Range(Excess(rest)) \subseteq Range(live)
  BY <1>2, ExcessFacts
<1>4. CASE Len(live) < MaxSessions
  <2>1. Dropped(live, idle) = << >>
    BY <1>4 DEF Dropped
  <2> QED
    BY <1>4, <2>1, ContinuityAssumption DEF Range
<1>5. CASE ~ (Len(live) < MaxSessions)
  <2>1. Dropped(live, idle) = first \o Excess(rest)
    BY <1>5 DEF Dropped
  <2> HIDE DEF first, rest
  <2>2. Dropped(live, idle) \in Seq(Sessions)
        /\ Range(Dropped(live, idle)) = Range(first) \cup Range(Excess(rest))
    BY <2>1, <1>1, <1>3, RangeOfConcat
  <2> QED
    BY <2>2, <1>1, <1>3 DEF first, rest
<1> QED
  BY <1>4, <1>5

(* After making room at least one place is free: what stays was not among  *)
(* the first sessions ranked.                                              *)
LEMMA RoomMade ==
  ASSUME NEW live \in Seq(Sessions), DistinctKeys(live), Len(live) <= MaxSessions,
         NEW idle \in 0 .. Len(live)
  PROVE  Len(Without(live, KeysOf(Dropped(live, idle)))) < MaxSessions
<1> DEFINE gone == Dropped(live, idle)
           rest == SubSeq(live, idle + 1, Len(live))
           ranked == Ranked(rest)
           n == Surplus(rest)
           I == {i \in DOMAIN live : live[i].key \notin KeysOf(gone)}
<1>1. CASE Len(live) < MaxSessions
  <2>1. Len(Without(live, KeysOf(gone))) \in 0 .. Len(live)
    BY WithoutFacts
  <2> QED
    BY <1>1, <2>1, ContinuityAssumption
<1>2. CASE ~ (Len(live) < MaxSessions)
  <2>1. Without(live, KeysOf(gone)) = Picked(live, I) /\ I \in SUBSET DOMAIN live
    BY DEF Without
  <2>2. Len(Without(live, KeysOf(gone))) = Cardinality(I)
    BY <2>1, PickedFacts
  <2>3. /\ rest \in Seq(Sessions) /\ Len(rest) <= Len(live) /\ Len(rest) \in Nat
        /\ Range(rest) = {live[i] : i \in (idle + 1) .. Len(live)}
    BY RangeOfSubSeq
  <2>4. ranked \in Seq(Sessions) /\ Len(ranked) = Len(rest) /\ Range(ranked) = Range(rest)
    BY <2>3, RankedFacts
  <2>5. n \in 0 .. Len(rest) /\ Range(Excess(rest)) = {ranked[j] : j \in 1 .. n}
    BY <2>3, ExcessFacts
  <2>6. Len(rest) - n <= Target
    BY <2>3, TargetFacts DEF Surplus
  <2>7. Range(gone) = {live[i] : i \in 1 .. idle} \cup {ranked[j] : j \in 1 .. n}
    <3>1. Range(gone) = Range(SubSeq(live, 1, idle)) \cup Range(Excess(rest))
      BY <1>2, DroppedFacts, ContinuityAssumption
    <3>2. Range(SubSeq(live, 1, idle)) = {live[i] : i \in 1 .. idle}
      BY RangeOfSubSeq
    <3> QED
      BY <2>5, <3>1, <3>2
  <2> HIDE DEF gone, rest, ranked, n
  <2>8. ASSUME NEW i \in I PROVE \E j \in (n + 1) .. Len(ranked) : ranked[j] = live[i]
    <3>1. i \in 1 .. Len(live) /\ live[i].key \notin KeysOf(gone)
      OBVIOUS
    <3>2. live[i] \notin Range(gone)
      BY <3>1 DEF KeysOf
    <3>3. i \in (idle + 1) .. Len(live)
      BY <2>7, <3>1, <3>2
    <3>4. live[i] \in Range(ranked)
      BY <2>3, <2>4, <3>3
    <3>5. PICK j \in 1 .. Len(ranked) : ranked[j] = live[i]
      BY <2>4, <3>4 DEF Range
    <3>6. j \notin 1 .. n
      BY <2>7, <3>2, <3>5
    <3>7. j \in (n + 1) .. Len(ranked)
      BY <2>4, <2>5, <3>6
    <3> QED
      BY <3>5, <3>7
  <2> DEFINE f == [i \in I |-> CHOOSE j \in (n + 1) .. Len(ranked) : ranked[j] = live[i]]
  <2>9. \A i \in I : f[i] \in (n + 1) .. Len(ranked) /\ ranked[f[i]] = live[i]
    BY <2>8
  <2>10. \A i, j \in I : f[i] = f[j] => i = j
    <3> HIDE DEF f
    <3> QED
      BY <2>9 DEF DistinctKeys
  <2>11. f \in Injection(I, (n + 1) .. Len(ranked))
    <3>1. f \in [I -> (n + 1) .. Len(ranked)]
      BY <2>9
    <3> HIDE DEF f
    <3> QED
      BY <2>10, <3>1 DEF Injection, IsInjective
  <2>12. /\ IsFiniteSet((n + 1) .. Len(ranked))
         /\ Cardinality((n + 1) .. Len(ranked)) <= Target
    <3>0. n + 1 \in Int /\ Len(ranked) \in Int
      BY <2>4, <2>5
    <3>1. /\ IsFiniteSet((n + 1) .. Len(ranked))
          /\ Cardinality((n + 1) .. Len(ranked)) =
               IF n + 1 > Len(ranked) THEN 0 ELSE Len(ranked) - (n + 1) + 1
      BY <3>0, FS_Interval
    <3> QED
      BY <2>3, <2>4, <2>5, <2>6, <3>1, TargetFacts
  <2> HIDE DEF f, I
  <2>13. IsFiniteSet(I) /\ Cardinality(I) <= Cardinality((n + 1) .. Len(ranked))
    BY <2>11, <2>12, FS_Injection
  <2>14. Cardinality(I) \in Nat /\ Cardinality((n + 1) .. Len(ranked)) \in Nat
    BY <2>12, <2>13, FS_CardinalityType
  <2> QED
    BY <2>2, <2>12, <2>13, <2>14, TargetFacts, ContinuityAssumption DEF gone
<1> QED
  BY <1>1, <1>2

(* Taking a session: it becomes the most recently used of its process.     *)
LEMMA WithSessionFacts ==
  ASSUME NEW live \in Seq(Sessions), NEW s \in Sessions
  PROVE  LET q == Append(Without(live, {s.key}), s)
         IN  /\ q \in Seq(Sessions)
             /\ Range(q) = {x \in Range(live) : x.key # s.key} \cup {s}
             /\ DistinctKeys(live) => DistinctKeys(q)
             /\ Len(q) <= Len(live) + 1
             /\ DistinctKeys(live) /\ s.key \in KeysOf(live) => Len(q) <= Len(live)
<1> DEFINE p == Without(live, {s.key})
           q == Append(p, s)
<1>1. /\ p \in Seq(Sessions) /\ Len(p) \in 0 .. Len(live)
      /\ Range(p) = {x \in Range(live) : x.key \notin {s.key}}
      /\ DistinctKeys(live) => DistinctKeys(p)
  BY WithoutFacts
<1>2. p = Picked(live, {i \in DOMAIN live : live[i].key \notin {s.key}})
  BY DEF Without
<1> HIDE DEF p
<1>3. /\ q \in Seq(Sessions) /\ Len(q) = Len(p) + 1
      /\ \A i \in 1 .. Len(p) : q[i] = p[i]
      /\ q[Len(p) + 1] = s
  BY <1>1
<1>4. DOMAIN q = DOMAIN p \cup {Len(p) + 1} /\ DOMAIN p = 1 .. Len(p)
  BY <1>1, <1>3
<1> HIDE DEF q
<1>5. Range(q) = Range(p) \cup {s}
  BY <1>3, <1>4 DEF Range
<1>6. ASSUME DistinctKeys(live) PROVE DistinctKeys(q)
  <2>1. \A i \in 1 .. Len(p) : p[i].key # s.key
    BY <1>1, <1>4 DEF Range
  <2>2. DistinctKeys(p)
    BY <1>1, <1>6
  <2> QED
    BY <1>3, <1>4, <2>1, <2>2 DEF DistinctKeys
<1>7. ASSUME DistinctKeys(live), s.key \in KeysOf(live) PROVE Len(q) <= Len(live)
  <2> DEFINE I == {i \in DOMAIN live : live[i].key \notin {s.key}}
  <2>1. PICK m \in 1 .. Len(live) : live[m].key = s.key
    BY <1>7 DEF KeysOf, Range
  <2>2. I \subseteq (1 .. Len(live)) \ {m}
    BY <2>1
  <2>3. /\ IsFiniteSet(1 .. Len(live))
        /\ Cardinality(1 .. Len(live)) = Len(live)
    <3>1. Len(live) \in Nat
      OBVIOUS
    <3>2. /\ IsFiniteSet(1 .. Len(live))
          /\ Cardinality(1 .. Len(live)) = IF 1 > Len(live) THEN 0 ELSE Len(live) - 1 + 1
      BY <3>1, FS_Interval
    <3> QED
      BY <3>1, <3>2
  <2>4. /\ IsFiniteSet((1 .. Len(live)) \ {m})
        /\ Cardinality((1 .. Len(live)) \ {m}) = Len(live) - 1
    BY <2>1, <2>3, FS_RemoveElement
  <2>5. Cardinality(I) <= Len(live) - 1
    BY <2>2, <2>4, FS_Subset
  <2>6. Len(p) = Cardinality(I)
    <3>1. I \in SUBSET DOMAIN live
      OBVIOUS
    <3> HIDE DEF I
    <3>2. p = Picked(live, I)
      BY <1>2 DEF I
    <3> QED
      BY <3>1, <3>2, PickedFacts
  <2> QED
    BY <1>1, <1>3, <2>5, <2>6
<1>8. Len(q) <= Len(live) + 1
  BY <1>1, <1>3
<1>9. Range(q) = {x \in Range(live) : x.key # s.key} \cup {s}
  BY <1>1, <1>5
<1>10. q \in Seq(Sessions)
  BY <1>3
<1> QED
  BY <1>6, <1>7, <1>8, <1>9, <1>10 DEF q, p

(***************************************************************************)
(* The invariant of the registries.                                        *)
(***************************************************************************)
Processes == [live : Seq(Sessions), tombs : Seq(Keys), degraded : BOOLEAN]

Shape ==
  /\ proc \in [Workers -> Processes]
  /\ rows \in [Keys -> Rows \cup {NoRow}]
  /\ marked \in BOOLEAN /\ leased \in SUBSET Workers /\ former \in SUBSET Workers
  /\ thread \in [Threads -> Evaluations]
  /\ past \in [granted : SUBSET Keys, gaps : SUBSET Keys, lost : [Workers -> SUBSET Keys]]
  /\ \A t \in Threads : InFlight(t) => thread[t].worker \in Workers /\ thread[t].key \in Keys

Room ==
  \A w \in Workers : /\ DistinctKeys(proc[w].live)
                     /\ Len(proc[w].live) <= MaxSessions
                     /\ Len(proc[w].tombs) <= TombstoneCap

(* The evaluations that have asked for their session, and that have it. *)
Asked(t) == thread[t].step \in {"clearing", "claiming", "resolved", "applied", "noted"}
Has(t) == thread[t].step \in {"resolved", "applied", "noted"}

SessionsOf(w) == Range(proc[w].live)

(* Nothing answered in w for k can be taken for a clean slate any more.    *)
Known(w, k) == k \in past.gaps \/ proc[w].degraded

(* k is about to be created from its signal in w. *)
Pending(w, k) == \E t \in Threads : Consuming(t) /\ thread[t].worker = w /\ thread[t].key = k

(* The authority discarded of k leaves a trace in w. *)
Remembered(w, k) ==
  \/ Known(w, k) \/ k \in past.lost[w] \/ Pending(w, k)
  \/ \E s \in SessionsOf(w) : s.key = k /\ s.broken

Holds(w, k) ==
  \/ \E s \in SessionsOf(w) : s.key = k
  \/ \E t \in Threads : Asked(t) /\ thread[t].worker = w /\ thread[t].key = k

(* The registry lock. *)
Locked ==
  \A t \in Threads : Consuming(t) =>
    /\ rows[thread[t].key] # NoRow /\ thread[t].key \notin past.lost[thread[t].worker]
    /\ \A s \in SessionsOf(thread[t].worker) : s.key # thread[t].key
    /\ Len(proc[thread[t].worker].live) < MaxSessions
    /\ \A u \in Threads : Consuming(u) /\ thread[u].worker = thread[t].worker => u = t

LostAreGone == \A w \in Workers : \A s \in SessionsOf(w) : s.key \notin past.lost[w]

InUse ==
  \A t \in Threads : Has(t) /\ ~ thread[t].orphan =>
    \E s \in SessionsOf(thread[t].worker) :
      s.key = thread[t].key /\ (thread[t].step # "resolved" => s.acc)

OrphansRemembered ==
  \A t \in Threads : thread[t].orphan =>
    Has(t) /\ Remembered(thread[t].worker, thread[t].key)

(* A row that is no signal to w is about a session of w. *)
RowsExplained ==
  \A k \in Keys, w \in Workers :
    rows[k] # NoRow /\ ~ rows[k].tombstoned /\ rows[k].owner = w =>
      Remembered(w, k) \/ \E s \in SessionsOf(w) : s.key = k /\ s.acc

Missing(s) == ~ s.whole \/ (s.key \in past.granted /\ ~ s.acc)

CleanExplained ==
  \A w \in Workers : \A s \in SessionsOf(w) : Missing(s) => s.broken \/ Known(w, s.key)

Recorded ==
  \A k \in Keys :
    k \in past.granted \/ (\E t \in Threads : thread[t].step = "noted" /\ thread[t].key = k)
    => rows[k] # NoRow \/ k \in past.gaps

HeldOnce ==
  \A v, w \in Workers, k \in Keys : v # w /\ Holds(v, k) /\ Holds(w, k) => k \in past.gaps

BlindExplained ==
  \A t \in Threads : Has(t) /\ thread[t].blind =>
    thread[t].broken \/ Known(thread[t].worker, thread[t].key)

Story ==
  /\ Locked /\ LostAreGone /\ InUse /\ OrphansRemembered /\ RowsExplained
  /\ CleanExplained /\ Recorded /\ HeldOnce /\ BlindExplained /\ ForgottenMeansDegraded

IInv == Shape /\ Room /\ Story

(* The empty registries satisfy the invariant. *)
LEMMA InitIInv == Init => IInv
<1> SUFFICES ASSUME Init PROVE IInv
  OBVIOUS
<1>1. /\ proc = [w \in Workers |-> FreshProcess] /\ rows = [k \in Keys |-> NoRow]
      /\ thread = [t \in Threads |-> Idle] /\ leased \in SUBSET Workers /\ former = {}
      /\ marked = FALSE
      /\ past = [granted |-> {}, gaps |-> {}, lost |-> [w \in Workers |-> {}]]
  BY DEF Init
<1>2. FreshProcess \in Processes /\ FreshProcess.live = << >> /\ FreshProcess.tombs = << >>
  BY DEF FreshProcess, Processes
<1>3. Idle \in Evaluations /\ Idle.step = "idle" /\ ~ Idle.orphan
  BY DEF Idle, Evaluations, Steps
<1>4. /\ past.granted = {} /\ past.gaps = {} /\ past.lost = [w \in Workers |-> {}]
      /\ past \in [granted : SUBSET Keys, gaps : SUBSET Keys, lost : [Workers -> SUBSET Keys]]
  BY <1>1
<1>5. \A t \in Threads : thread[t] = Idle
  BY <1>1
<1>6. \A w \in Workers : proc[w] = FreshProcess
  BY <1>1
<1>7. Shape
  BY <1>1, <1>2, <1>3, <1>4, <1>5, <1>6 DEF Shape, InFlight
<1>8. \A w \in Workers : SessionsOf(w) = {} /\ Len(proc[w].live) = 0 /\ Len(proc[w].tombs) = 0
                         /\ DOMAIN proc[w].live = {}
  BY <1>2, <1>6 DEF SessionsOf, Range
<1>9. Room
  BY <1>8, ContinuityAssumption DEF Room, DistinctKeys
<1>10. \A t \in Threads : ~ Asked(t) /\ ~ Has(t) /\ ~ Consuming(t) /\ ~ thread[t].orphan
                          /\ thread[t].step # "noted"
  BY <1>3, <1>5 DEF Asked, Has, Consuming
<1>11. Locked /\ LostAreGone /\ InUse /\ OrphansRemembered /\ CleanExplained /\ BlindExplained
  BY <1>8, <1>10 DEF Locked, LostAreGone, InUse, OrphansRemembered, CleanExplained, BlindExplained
<1>12. RowsExplained /\ Recorded
  BY <1>1, <1>4, <1>10 DEF RowsExplained, Recorded
<1>13. HeldOnce
  BY <1>8, <1>10 DEF HeldOnce, Holds
<1>14. ForgottenMeansDegraded
  BY <1>4 DEF ForgottenMeansDegraded
<1> QED
  BY <1>7, <1>9, <1>11, <1>12, <1>13, <1>14 DEF IInv, Story

(* What an evaluation keeps when only its counts change. *)
Same(e, f) ==
  /\ f.step = e.step /\ f.worker = e.worker /\ f.key = e.key
  /\ f.orphan = e.orphan /\ f.broken = e.broken /\ f.blind = e.blind

(* A step that begins or ends evaluations, or changes none of them, and    *)
(* leaves the registries alone.                                            *)
LEMMA QuietStep ==
  ASSUME IInv, Shape', UNCHANGED <<rows, past>>,
         \A w \in Workers : /\ proc'[w].live = proc[w].live /\ proc'[w].tombs = proc[w].tombs
                            /\ proc[w].degraded => proc'[w].degraded,
         \A t \in Threads : \/ Same(thread[t], thread'[t])
                            \/ /\ ~ Consuming(t) /\ ~ thread'[t].orphan
                               /\ thread'[t].step \in {"idle", "counted"}
  PROVE  IInv'
<1>1. \A w \in Workers : (SessionsOf(w))' = SessionsOf(w)
  BY DEF SessionsOf
<1>2. \A w \in Workers : \A k : Known(w, k) => Known(w, k)'
  BY DEF Known
<1>3. \A t \in Threads : Consuming(t)' <=> Consuming(t) /\ Same(thread[t], thread'[t])
  BY DEF Consuming, Same
<1>4. \A t \in Threads : Consuming(t) => Consuming(t)'
  BY DEF Consuming, Same
<1>5. \A t \in Threads : Asked(t)' => Asked(t) /\ Same(thread[t], thread'[t])
  BY DEF Asked, Same
<1>6. \A t \in Threads : Has(t)' => Has(t) /\ Same(thread[t], thread'[t])
  BY DEF Has, Same
<1>7. \A t \in Threads : thread'[t].orphan => thread[t].orphan /\ Same(thread[t], thread'[t])
  BY DEF Same
<1>8. \A w \in Workers : \A k : Remembered(w, k) => Remembered(w, k)'
  BY <1>1, <1>2, <1>3, <1>4 DEF Remembered, Pending, Same
<1>9. \A w \in Workers : \A k : Holds(w, k)' => Holds(w, k)
  BY <1>1, <1>5 DEF Holds, Same
<1>10. \A t \in Threads : thread'[t].step = "noted" => Same(thread[t], thread'[t])
  OBVIOUS
<1>11. \A t \in Threads : Asked(t) => thread[t].worker \in Workers /\ thread[t].key \in Keys
  BY DEF IInv, Shape, Asked, InFlight
<1>12. \A t \in Threads : Has(t) => Asked(t)
  BY DEF Has, Asked
<1>13. \A t \in Threads : Consuming(t) => Asked(t)
  BY DEF Consuming, Asked
<1>14. Room'
  BY DEF IInv, Room
<1>15. Locked'
  BY <1>1, <1>3, <1>11, <1>13 DEF IInv, Story, Locked, Same
<1>16. LostAreGone'
  BY <1>1 DEF IInv, Story, LostAreGone
<1>17. InUse'
  BY <1>1, <1>6, <1>11, <1>12 DEF IInv, Story, InUse, Same
<1>18. OrphansRemembered'
  BY <1>7, <1>8, <1>11, <1>12 DEF IInv, Story, OrphansRemembered, Has, Same
<1>19. RowsExplained'
  BY <1>1, <1>8 DEF IInv, Story, RowsExplained
<1>20. CleanExplained'
  BY <1>1, <1>2 DEF IInv, Story, CleanExplained, Missing
<1>21. Recorded'
  BY <1>10 DEF IInv, Story, Recorded, Same
<1>22. HeldOnce'
  BY <1>9 DEF IInv, Story, HeldOnce
<1>23. BlindExplained'
  BY <1>2, <1>6, <1>11, <1>12 DEF IInv, Story, BlindExplained, Same
<1>24. ForgottenMeansDegraded'
  BY DEF IInv, Story, ForgottenMeansDegraded
<1> QED
  BY <1>14, <1>15, <1>16, <1>17, <1>18, <1>19, <1>20, <1>21, <1>22, <1>23, <1>24 DEF IInv, Story

(* The fields of an evaluation. *)
LEMMA EvaluationFields ==
  ASSUME NEW e \in Evaluations
  PROVE  /\ e.step \in Steps /\ e.worker \in Workers \cup {Former} /\ e.key \in Keys \cup {NoRow}
         /\ e.multi \in BOOLEAN /\ e.broken \in BOOLEAN /\ e.orphan \in BOOLEAN
         /\ e.blind \in BOOLEAN /\ e.lapsed \in BOOLEAN
BY DEF Evaluations

(* An evaluation that moves to another step. *)
LEMMA MovedEvaluation ==
  ASSUME NEW e \in Evaluations, NEW x \in Steps
  PROVE  LET f == [e EXCEPT !.step = x]
         IN  /\ f \in Evaluations /\ f.step = x /\ f.worker = e.worker /\ f.key = e.key
             /\ f.orphan = e.orphan /\ f.broken = e.broken /\ f.blind = e.blind
BY DEF Evaluations

(* An evaluation that got its session. *)
LEMMA ResolvedEvaluation ==
  ASSUME NEW e \in Evaluations, NEW s \in Sessions
  PROVE  /\ Resolved(e, s) \in Evaluations /\ Resolved(e, s).step = "resolved"
         /\ Resolved(e, s).worker = e.worker /\ Resolved(e, s).key = e.key
         /\ Resolved(e, s).orphan = e.orphan /\ Resolved(e, s).broken = s.broken
         /\ Resolved(e, s).blind = ~ s.whole
<1> DEFINE x == s.broken
           y == ~ s.whole
           e1 == [e EXCEPT !.step = "resolved"]
           e2 == [e1 EXCEPT !.broken = x]
           e3 == [e2 EXCEPT !.blind = y]
<1>1. Resolved(e, s) = e3
  BY DEF Resolved
<1>2. x \in BOOLEAN /\ y \in BOOLEAN
  BY DEF Sessions
<1> HIDE DEF x, y
<1>3. /\ e1 \in Evaluations /\ e1.step = "resolved" /\ e1.worker = e.worker
      /\ e1.key = e.key /\ e1.orphan = e.orphan
  BY DEF Evaluations, Steps
<1> HIDE DEF e1
<1>4. /\ e2 \in Evaluations /\ e2.step = e1.step /\ e2.worker = e1.worker
      /\ e2.key = e1.key /\ e2.orphan = e1.orphan /\ e2.broken = x
  BY <1>2, <1>3 DEF Evaluations
<1> HIDE DEF e2
<1>5. /\ e3 \in Evaluations /\ e3.step = e2.step /\ e3.worker = e2.worker
      /\ e3.key = e2.key /\ e3.orphan = e2.orphan /\ e3.broken = e2.broken /\ e3.blind = y
  BY <1>2, <1>4 DEF Evaluations
<1> HIDE DEF e3
<1> QED
  BY <1>1, <1>3, <1>4, <1>5 DEF x, y

(* An evaluation that was just begun. *)
LEMMA BegunEvaluation ==
  ASSUME NEW w \in Workers, NEW k \in Keys, NEW m \in BOOLEAN
  PROVE  LET f == Begun(w, k, m)
         IN  f \in Evaluations /\ f.step = "counted" /\ f.worker = w /\ f.key = k /\ ~ f.orphan
<1> DEFINE e1 == [Idle EXCEPT !.step = "counted"]
           e2 == [e1 EXCEPT !.worker = w]
           e3 == [e2 EXCEPT !.key = k]
           e4 == [e3 EXCEPT !.multi = m]
<1>1. Begun(w, k, m) = e4
  BY DEF Begun
<1>2. e1 \in Evaluations /\ e1.step = "counted" /\ ~ e1.orphan
  BY DEF Idle, Evaluations, Steps
<1> HIDE DEF e1
<1>3. e2 \in Evaluations /\ e2.step = "counted" /\ ~ e2.orphan /\ e2.worker = w
  BY <1>2 DEF Evaluations
<1> HIDE DEF e2
<1>4. e3 \in Evaluations /\ e3.step = "counted" /\ ~ e3.orphan /\ e3.worker = w /\ e3.key = k
  BY <1>3 DEF Evaluations
<1> HIDE DEF e3
<1>5. e4 \in Evaluations /\ e4.step = "counted" /\ ~ e4.orphan /\ e4.worker = w /\ e4.key = k
  BY <1>4 DEF Evaluations
<1> HIDE DEF e4
<1> QED
  BY <1>1, <1>5

(* The flag of a process may be set at any step. *)
LEMMA DegradedProcess ==
  ASSUME NEW p \in Processes, NEW b \in BOOLEAN
  PROVE  LET q == Degraded(p, b)
         IN  /\ q \in Processes /\ q.live = p.live /\ q.tombs = p.tombs
             /\ q.degraded <=> p.degraded \/ b
<1> DEFINE d == p.degraded \/ b
<1>1. d \in BOOLEAN
  BY DEF Processes
<1>2. Degraded(p, b) = [p EXCEPT !.degraded = d]
  BY DEF Degraded
<1>3. d <=> p.degraded \/ b
  OBVIOUS
<1> HIDE DEF d
<1> QED
  BY <1>1, <1>2, <1>3 DEF Processes

(* A call of the store succeeds or fails. *)
LEMMA Outcomes == StoreOutcomes \subseteq BOOLEAN
BY DEF StoreOutcomes

(* A step that sets the flag of a process, and nothing else of it. *)
LEMMA FlaggedOnly ==
  ASSUME Shape, NEW w \in Workers, NEW b \in BOOLEAN,
         proc' = [proc EXCEPT ![w] = Degraded(@, b)]
  PROVE  /\ proc' \in [Workers -> Processes]
         /\ \A v \in Workers : /\ proc'[v].live = proc[v].live /\ proc'[v].tombs = proc[v].tombs
                               /\ proc[v].degraded => proc'[v].degraded
         /\ b => proc'[w].degraded
<1> DEFINE q == Degraded(proc[w], b)
<1>1. proc[w] \in Processes /\ proc \in [Workers -> Processes]
  BY DEF Shape
<1>2. /\ q \in Processes /\ q.live = proc[w].live /\ q.tombs = proc[w].tombs
      /\ q.degraded <=> proc[w].degraded \/ b
  BY <1>1, DegradedProcess
<1>3. proc' = [proc EXCEPT ![w] = q]
  OBVIOUS
<1> HIDE DEF q
<1> QED
  BY <1>1, <1>2, <1>3

(* Begin sets a flag at most. *)
LEMMA BeginKeeps ==
  ASSUME IInv, NEW t \in Threads, NEW w \in Workers, NEW k \in Keys, Begin(t, w, k)
  PROVE  IInv'
<1>1. PICK ok \in StoreOutcomes :
        /\ leased' = IF ok THEN leased \cup {w} ELSE leased
        /\ proc' = [proc EXCEPT ![w] = Degraded(@, ~ ok)]
        /\ thread' = [thread EXCEPT ![t] = Begun(w, k, ~ ok \/ CountAfterTouch(w) > 1)]
  BY DEF Begin
<1>2. PICK m \in BOOLEAN : thread' = [thread EXCEPT ![t] = Begun(w, k, m)]
  <2> DEFINE m == ~ ok \/ CountAfterTouch(w) > 1
  <2>1. m \in BOOLEAN
    BY <1>1, Outcomes
  <2>2. thread' = [thread EXCEPT ![t] = Begun(w, k, m)]
    BY <1>1
  <2> HIDE DEF m
  <2> WITNESS m \in BOOLEAN
  <2> QED
    BY <2>2
<1> DEFINE f == Begun(w, k, m)
           b == ~ ok
<1>3. f \in Evaluations /\ f.step = "counted" /\ f.worker = w /\ f.key = k /\ ~ f.orphan
  BY BegunEvaluation
<1>4. thread' = [thread EXCEPT ![t] = f] /\ thread \in [Threads -> Evaluations]
  BY <1>2 DEF IInv, Shape
<1> HIDE DEF f
<1>5. \A u \in Threads : thread'[u] = IF u = t THEN f ELSE thread[u]
  BY <1>4
<1>6. /\ proc' \in [Workers -> Processes]
      /\ \A v \in Workers : /\ proc'[v].live = proc[v].live /\ proc'[v].tombs = proc[v].tombs
                            /\ proc[v].degraded => proc'[v].degraded
  <2>1. proc' = [proc EXCEPT ![w] = Degraded(@, b)] /\ Shape
    BY <1>1 DEF IInv
  <2>2. b \in BOOLEAN
    BY <1>1, Outcomes
  <2> HIDE DEF b
  <2> QED
    BY <2>1, <2>2, FlaggedOnly
<1>7. UNCHANGED <<rows, marked, former, past>> /\ leased' \subseteq Workers /\ ~ InFlight(t)
  BY <1>1 DEF Begin, IInv, Shape
<1>8. thread' \in [Threads -> Evaluations]
  BY <1>3, <1>4
<1>9. Shape'
  BY <1>3, <1>5, <1>6, <1>7, <1>8 DEF IInv, Shape, InFlight
<1>10. \A u \in Threads : \/ Same(thread[u], thread'[u])
                          \/ /\ ~ Consuming(u) /\ ~ thread'[u].orphan
                             /\ thread'[u].step \in {"idle", "counted"}
  BY <1>3, <1>5, <1>7 DEF Same, Consuming, InFlight
<1> QED
  BY <1>6, <1>7, <1>9, <1>10, QuietStep

(* Idle is an evaluation of nothing. *)
LEMMA IdleFacts == Idle \in Evaluations /\ Idle.step = "idle" /\ ~ Idle.orphan
BY DEF Idle, Evaluations, Steps

(* An evaluation may end anywhere after it got its session. *)
LEMMA EvalFailsKeeps ==
  ASSUME IInv, NEW t \in Threads, EvalFails(t)
  PROVE  IInv'
<1>1. /\ thread' = [thread EXCEPT ![t] = Idle] /\ thread \in [Threads -> Evaluations]
      /\ thread[t].step \in {"resolved", "applied", "noted"}
  BY DEF EvalFails, IInv, Shape
<1>2. UNCHANGED <<proc, rows, marked, leased, former, past>>
  BY DEF EvalFails
<1>3. \A u \in Threads : thread'[u] = IF u = t THEN Idle ELSE thread[u]
  BY <1>1
<1>4. thread' \in [Threads -> Evaluations]
  BY <1>1, IdleFacts
<1>5. Shape'
  BY <1>2, <1>3, <1>4, IdleFacts DEF IInv, Shape, InFlight
<1>6. \A u \in Threads : \/ Same(thread[u], thread'[u])
                         \/ /\ ~ Consuming(u) /\ ~ thread'[u].orphan
                            /\ thread'[u].step \in {"idle", "counted"}
  BY <1>1, <1>3, IdleFacts DEF Same, Consuming
<1> QED
  BY <1>2, <1>5, <1>6, QuietStep

(* Leases are no concern of the registries. *)
LEMMA LeaseExpiresKeeps ==
  ASSUME IInv, NEW w \in Workers, LeaseExpires(w)
  PROVE  IInv'
<1> DEFINE Lapse(u) == thread[u].lapsed \/ (InFlight(u) /\ thread[u].worker = w)
<1>1. ASSUME NEW u \in Threads
      PROVE  Same(thread[u], thread'[u]) /\ thread'[u] \in Evaluations
  <2> DEFINE e == thread[u]
             l == Lapse(u)
             f == [e EXCEPT !.lapsed = l]
  <2>1. e \in Evaluations
    BY DEF IInv, Shape
  <2>2. l \in BOOLEAN
    BY <2>1 DEF Evaluations
  <2>3. thread'[u] = f
    BY DEF LeaseExpires
  <2> HIDE DEF l
  <2>4. f \in Evaluations /\ Same(e, f)
    <3> HIDE DEF e
    <3> QED
      BY <2>1, <2>2 DEF Evaluations, Same
  <2> QED
    BY <2>3, <2>4
<1>2. thread' = [u \in Threads |-> thread'[u]] /\ leased' = leased \ {w}
  BY DEF LeaseExpires
<1>3. UNCHANGED <<proc, rows, marked, former, past>>
  BY DEF LeaseExpires
<1>4. thread' \in [Threads -> Evaluations]
  BY <1>1, <1>2
<1>5. Shape'
  BY <1>1, <1>2, <1>3, <1>4 DEF IInv, Shape, InFlight, Same
<1> QED
  BY <1>1, <1>3, <1>5, QuietStep

(* Neither are those of previous runs. *)
LEMMA FormerExpiresKeeps ==
  ASSUME IInv, NEW w \in Workers, FormerExpires(w)
  PROVE  IInv'
<1>1. UNCHANGED <<proc, rows, marked, leased, thread, past>> /\ former' = former \ {w}
  BY DEF FormerExpires
<1>2. Shape'
  BY <1>1 DEF IInv, Shape, InFlight
<1>3. \A u \in Threads : Same(thread[u], thread'[u])
  BY <1>1 DEF Same
<1> QED
  BY <1>1, <1>2, <1>3, QuietStep

(* The process in which a session became the most recently used. *)
LEMMA TakenSession ==
  ASSUME Shape, NEW w \in Workers, NEW s \in Sessions, NEW b \in BOOLEAN,
         proc' = [proc EXCEPT ![w] = Degraded(WithSession(@, s), b)]
  PROVE  /\ proc' \in [Workers -> Processes]
         /\ \A v \in Workers : v # w => proc'[v] = proc[v]
         /\ proc'[w].live = Append(Without(proc[w].live, {s.key}), s)
         /\ proc'[w].tombs = proc[w].tombs
         /\ proc[w].degraded => proc'[w].degraded
         /\ b => proc'[w].degraded
<1> DEFINE q == WithSession(proc[w], s)
           r == Degraded(q, b)
           l == Append(Without(proc[w].live, {s.key}), s)
<1>1. proc[w] \in Processes /\ proc[w].live \in Seq(Sessions) /\ proc \in [Workers -> Processes]
  BY DEF Shape, Processes
<1>2. l \in Seq(Sessions)
  BY <1>1, WithSessionFacts
<1>3. q = [proc[w] EXCEPT !.live = l]
  BY DEF WithSession
<1>4. proc' = [proc EXCEPT ![w] = r]
  OBVIOUS
<1> HIDE DEF l, q
<1>5. q \in Processes /\ q.live = l /\ q.tombs = proc[w].tombs /\ q.degraded = proc[w].degraded
  BY <1>1, <1>2, <1>3 DEF Processes
<1>6. /\ r \in Processes /\ r.live = l /\ r.tombs = proc[w].tombs
      /\ r.degraded <=> proc[w].degraded \/ b
  BY <1>5, DegradedProcess
<1> HIDE DEF r
<1> QED
  BY <1>1, <1>4, <1>6 DEF l

(* One evaluation moves on. *)
LEMMA OneMoves ==
  ASSUME Shape, NEW t \in Threads, NEW f \in Evaluations, thread' = [thread EXCEPT ![t] = f]
  PROVE  /\ thread' \in [Threads -> Evaluations] /\ thread'[t] = f
         /\ \A u \in Threads : u # t => thread'[u] = thread[u]
BY DEF Shape

(* Reuse hands out a session that is registered. *)
LEMMA ReuseKeeps ==
  ASSUME IInv, NEW t \in Threads, Reuse(t)
  PROVE  IInv'
<1>1. Shape /\ Room /\ Story
  BY DEF IInv
<1>0. PICK w \in Workers, k \in Keys : w = thread[t].worker /\ k = thread[t].key
  BY <1>1 DEF Reuse, Shape, InFlight
<1>2. /\ thread[t].step = "counted" /\ thread[t] \in Evaluations
      /\ UNCHANGED <<rows, marked, former, past>>
      /\ \A u \in Threads : Consuming(u) => thread[u].worker # w
  BY <1>0, <1>1 DEF Reuse, Shape, Unlocked
<1>3. PICK i \in DOMAIN proc[w].live, ok \in StoreOutcomes :
        /\ proc[w].live[i].key = k
        /\ leased' = Renewed(w, ok)
        /\ proc' = [proc EXCEPT ![w] = Degraded(WithSession(@, proc[w].live[i]), ~ ok)]
        /\ thread' = [thread EXCEPT ![t] = Resolved(@, proc[w].live[i])]
  BY <1>0 DEF Reuse
<1> DEFINE s == proc[w].live[i]
           f == Resolved(thread[t], s)
           b == ~ ok
<1>4. /\ proc[w] \in Processes /\ proc[w].live \in Seq(Sessions)
      /\ s \in Sessions /\ s \in SessionsOf(w)
  <2>1. proc[w] \in Processes /\ proc[w].live \in Seq(Sessions)
    BY <1>0, <1>1, <1>2 DEF Shape, Processes
  <2> QED
    BY <2>1 DEF SessionsOf, Range
<1>5. leased' \subseteq Workers /\ b \in BOOLEAN
  BY <1>0, <1>1, <1>2, <1>3, Outcomes DEF Renewed, Shape
<1>6. /\ proc' \in [Workers -> Processes]
      /\ \A v \in Workers : v # w => proc'[v] = proc[v]
      /\ proc'[w].live = Append(Without(proc[w].live, {s.key}), s)
      /\ proc'[w].tombs = proc[w].tombs
      /\ proc[w].degraded => proc'[w].degraded
  <2>1. proc' = [proc EXCEPT ![w] = Degraded(WithSession(@, s), b)]
    BY <1>3
  <2> HIDE DEF s, b
  <2>2. Shape /\ s \in Sessions /\ b \in BOOLEAN
    BY <1>1, <1>4, <1>5
  <2> QED
    BY <2>1, <2>2, TakenSession, Zenon
<1>7. /\ f \in Evaluations /\ f.step = "resolved" /\ f.worker = w /\ f.key = k
      /\ f.orphan = thread[t].orphan /\ f.broken = s.broken /\ f.blind = ~ s.whole
  BY <1>0, <1>2, <1>4, ResolvedEvaluation
<1>8. /\ thread' \in [Threads -> Evaluations] /\ thread'[t] = f
      /\ \A u \in Threads : u # t => thread'[u] = thread[u]
  <2>1. thread' = [thread EXCEPT ![t] = f]
    BY <1>3
  <2> HIDE DEF f
  <2> QED
    BY <1>0, <1>1, <1>7, <2>1, OneMoves
<1> HIDE DEF f
<1>9. s.key = k
  BY <1>3
<1> HIDE DEF s
<1>10. /\ SessionsOf(w)' = SessionsOf(w)
       /\ DistinctKeys(proc'[w].live) /\ Len(proc'[w].live) <= Len(proc[w].live)
  <2>1. DistinctKeys(proc[w].live)
    BY <1>0, <1>1, <1>2 DEF Room
  <2>2. s.key \in KeysOf(proc[w].live)
    BY <1>4 DEF KeysOf, SessionsOf
  <2>3. /\ Range(proc'[w].live) = {x \in Range(proc[w].live) : x.key # s.key} \cup {s}
        /\ DistinctKeys(proc'[w].live) /\ Len(proc'[w].live) <= Len(proc[w].live)
    BY <1>0, <1>4, <1>6, <2>1, <2>2, WithSessionFacts
  <2>4. \A x \in Range(proc[w].live) : x.key = s.key => x = s
    BY <1>0, <1>4, <2>1 DEF DistinctKeys, Range, SessionsOf
  <2> QED
    BY <1>0, <1>4, <2>3, <2>4 DEF SessionsOf
<1>11. \A v \in Workers : SessionsOf(v)' = SessionsOf(v)
  BY <1>6, <1>10 DEF SessionsOf
<1>12. Shape'
  BY <1>0, <1>1, <1>2, <1>5, <1>6, <1>7, <1>8 DEF Shape, InFlight
<1>13. Room'
  <2>1. \A v \in Workers : Len(proc[v].live) \in Nat /\ Len(proc'[v].live) \in Nat
    BY <1>0, <1>1, <1>6 DEF Shape, Processes
  <2>2. /\ DistinctKeys(proc'[w].live) /\ Len(proc'[w].live) <= MaxSessions
        /\ Len(proc'[w].tombs) <= TombstoneCap
    BY <1>1, <1>6, <1>10, <2>1, ContinuityAssumption DEF Room
  <2> QED
    BY <1>1, <1>6, <2>2 DEF Room
<1>14. \A v \in Workers : \A x : Known(v, x) => Known(v, x)'
  BY <1>0, <1>2, <1>6 DEF Known
<1>15. \A u \in Threads : Consuming(u)' <=> Consuming(u) /\ u # t
  BY <1>0, <1>2, <1>7, <1>8 DEF Consuming
<1>16. ~ Consuming(t) /\ ~ Asked(t) /\ ~ Has(t) /\ Asked(t)' /\ Has(t)' /\ ~ Consuming(t)'
  BY <1>0, <1>2, <1>7, <1>8 DEF Consuming, Asked, Has
<1>17. \A v \in Workers : \A x : Remembered(v, x) => Remembered(v, x)'
  BY <1>0, <1>2, <1>8, <1>11, <1>14, <1>15, <1>16 DEF Remembered, Pending
<1>18. \A v \in Workers : \A x : Holds(v, x)' => Holds(v, x)
  BY <1>0, <1>4, <1>7, <1>8, <1>9, <1>11 DEF Holds, Asked
<1>19. \A u \in Threads : Asked(u) => thread[u].worker \in Workers /\ thread[u].key \in Keys
  BY <1>1 DEF Shape, Asked, InFlight
<1>20. \A u \in Threads : Has(u) => Asked(u)
  BY DEF Has, Asked
<1>21. \A u \in Threads : Consuming(u) => Asked(u)
  BY DEF Consuming, Asked
<1>22. Locked'
  <2>1. \A v \in Workers : v # w => proc'[v] = proc[v]
    BY <1>6
  <2> QED
    BY <1>0, <1>1, <1>2, <1>8, <1>11, <1>15, <1>19, <1>21, <2>1 DEF Story, Locked
<1>23. LostAreGone'
  BY <1>0, <1>1, <1>2, <1>11 DEF Story, LostAreGone
<1>24. InUse'
  <2>1. ASSUME NEW u \in Threads, u # t, Has(u)', ~ thread'[u].orphan
        PROVE  \E x \in SessionsOf(thread[u].worker)' :
                 x.key = thread'[u].key /\ (thread'[u].step # "resolved" => x.acc)
    BY <1>0, <1>1, <1>8, <1>11, <1>19, <1>20, <2>1 DEF Story, InUse, Has
  <2>2. \E x \in SessionsOf(thread[t].worker)' :
                 x.key = thread'[t].key /\ (thread'[t].step # "resolved" => x.acc)
    BY <1>0, <1>2, <1>4, <1>7, <1>8, <1>9, <1>11
  <2> QED
    BY <2>1, <2>2 DEF InUse
<1>25. OrphansRemembered'
  BY <1>0, <1>1, <1>7, <1>8, <1>16, <1>17, <1>19, <1>20 DEF Story, OrphansRemembered, Has
<1>26. RowsExplained'
  BY <1>0, <1>1, <1>2, <1>11, <1>17 DEF Story, RowsExplained
<1>27. CleanExplained'
  BY <1>0, <1>1, <1>2, <1>11, <1>14 DEF Story, CleanExplained, Missing
<1>28. Recorded'
  BY <1>0, <1>1, <1>2, <1>7, <1>8 DEF Story, Recorded
<1>29. HeldOnce'
  BY <1>0, <1>1, <1>2, <1>18 DEF Story, HeldOnce
<1>30. BlindExplained'
  <2>1. thread'[t].blind => thread'[t].broken \/ Known(w, k)'
    BY <1>0, <1>1, <1>2, <1>4, <1>7, <1>8, <1>9, <1>14 DEF Story, CleanExplained, Missing
  <2> QED
    BY <1>0, <1>1, <1>7, <1>8, <1>14, <1>19, <1>20, <2>1 DEF Story, BlindExplained, Has
<1>31. ForgottenMeansDegraded'
  BY <1>0, <1>1, <1>2, <1>6 DEF Story, ForgottenMeansDegraded
<1> QED
  BY <1>12, <1>13, <1>22, <1>23, <1>24, <1>25, <1>26, <1>27, <1>28, <1>29, <1>30, <1>31
  DEF IInv, Story

(* The invariant in parts, and what it says of the values of the state. *)
LEMMA InvParts ==
  ASSUME IInv
  PROVE  /\ Shape /\ Room
         /\ Locked /\ LostAreGone /\ InUse /\ OrphansRemembered /\ RowsExplained
         /\ CleanExplained /\ Recorded /\ HeldOnce /\ BlindExplained /\ ForgottenMeansDegraded
         /\ \A u \in Threads : Asked(u) => thread[u].worker \in Workers /\ thread[u].key \in Keys
         /\ \A u \in Threads : (Has(u) => Asked(u)) /\ (Consuming(u) => Asked(u) /\ ~ Has(u))
         /\ \A u \in Threads : thread[u] \in Evaluations
         /\ \A v \in Workers : /\ proc[v] \in Processes /\ proc[v].live \in Seq(Sessions)
                               /\ proc[v].tombs \in Seq(Keys) /\ proc[v].degraded \in BOOLEAN
                               /\ SessionsOf(v) \subseteq Sessions
<1>1. Shape /\ Room /\ Story
  BY DEF IInv
<1>2. \A v \in Workers : /\ proc[v] \in Processes /\ proc[v].live \in Seq(Sessions)
                         /\ proc[v].tombs \in Seq(Keys) /\ proc[v].degraded \in BOOLEAN
  BY <1>1 DEF Shape, Processes
<1>3. \A v \in Workers : SessionsOf(v) \subseteq Sessions
  BY <1>2 DEF SessionsOf, Range
<1>4. /\ \A u \in Threads : Asked(u) => thread[u].worker \in Workers /\ thread[u].key \in Keys
      /\ \A u \in Threads : (Has(u) => Asked(u)) /\ (Consuming(u) => Asked(u) /\ ~ Has(u))
      /\ \A u \in Threads : thread[u] \in Evaluations
  BY <1>1 DEF Shape, Asked, Has, Consuming, InFlight
<1> QED
  BY <1>1, <1>2, <1>3, <1>4 DEF Story

(* A new session. *)
LEMMA NewSessionFacts ==
  ASSUME NEW k \in Keys, NEW b \in BOOLEAN
  PROVE  LET s == NewSession(k, b)
         IN  /\ s \in Sessions /\ s.key = k /\ ~ s.acc
             /\ s.broken = b /\ (s.whole <=> k \notin past.granted)
<1> DEFINE h == k \notin past.granted
<1>1. h \in BOOLEAN
  OBVIOUS
<1>2. NewSession(k, b) = [key |-> k, acc |-> FALSE, broken |-> b, whole |-> h]
  BY DEF NewSession
<1>3. h <=> k \notin past.granted
  OBVIOUS
<1> HIDE DEF h
<1> QED
  BY <1>1, <1>2, <1>3 DEF Sessions

(* The row after its signal was consumed. *)
LEMMA TakenRow ==
  ASSUME NEW row \in Rows, NEW w \in Workers, NEW x
  PROVE  Taken(row, w, x) \in Rows /\ Taken(row, w, x).owner = w
<1> DEFINE b == row.tombstoned /\ x = "claiming"
<1>1. b \in BOOLEAN
  BY DEF Rows
<1>2. Taken(row, w, x) = [tombstoned |-> b, owner |-> w]
  BY DEF Taken
<1> HIDE DEF b
<1> QED
  BY <1>1, <1>2 DEF Rows

(* Consume creates a broken session, for which room is still left. *)
LEMMA ConsumeKeeps ==
  ASSUME IInv, NEW t \in Threads, Consume(t)
  PROVE  IInv'
<1>1. PICK w \in Workers, k \in Keys : w = thread[t].worker /\ k = thread[t].key
  BY InvParts DEF Consume
<1>2. /\ Consuming(t) /\ ~ Has(t) /\ Asked(t) /\ ~ thread[t].orphan
      /\ UNCHANGED <<marked, leased, former, past>>
  BY InvParts DEF Consume, OrphansRemembered
<1>3. /\ rows[k] # NoRow /\ k \notin past.lost[w]
      /\ \A x \in SessionsOf(w) : x.key # k
      /\ Len(proc[w].live) < MaxSessions
      /\ \A u \in Threads : Consuming(u) /\ thread[u].worker = w => u = t
  BY <1>1, <1>2, InvParts DEF Locked
<1> DEFINE s == NewSession(k, TRUE)
           f == Resolved(thread[t], s)
<1>4. PICK ok \in StoreOutcomes :
        /\ rows' = IF ok THEN [rows EXCEPT ![k] = Taken(@, w, thread[t].step)] ELSE rows
        /\ proc' = [proc EXCEPT ![w] = Degraded(WithSession(@, s), ~ ok)]
  BY <1>1 DEF Consume
<1>5. s \in Sessions /\ s.key = k /\ s.broken = TRUE
  BY NewSessionFacts
<1>6. /\ proc' \in [Workers -> Processes]
      /\ \A v \in Workers : v # w => proc'[v] = proc[v]
      /\ proc'[w].live = Append(Without(proc[w].live, {s.key}), s)
      /\ proc'[w].tombs = proc[w].tombs
      /\ proc[w].degraded => proc'[w].degraded
  <2> DEFINE b == ~ ok
  <2>1. proc' = [proc EXCEPT ![w] = Degraded(WithSession(@, s), b)]
    BY <1>4
  <2>2. b \in BOOLEAN
    BY Outcomes
  <2> HIDE DEF s, b
  <2>3. Shape /\ s \in Sessions
    BY <1>5, InvParts
  <2> QED
    BY <2>1, <2>2, <2>3, TakenSession, Zenon
<1>7. /\ f \in Evaluations /\ f.step = "resolved" /\ f.worker = w /\ f.key = k
      /\ ~ f.orphan /\ f.broken = TRUE
  BY <1>1, <1>2, <1>5, InvParts, ResolvedEvaluation
<1>8. /\ thread' \in [Threads -> Evaluations] /\ thread'[t] = f
      /\ \A u \in Threads : u # t => thread'[u] = thread[u]
  <2>1. thread' = [thread EXCEPT ![t] = f]
    BY <1>1 DEF Consume
  <2> HIDE DEF f
  <2> QED
    BY <1>7, <2>1, InvParts, OneMoves
<1> HIDE DEF f, s
<1>9. /\ SessionsOf(w)' = SessionsOf(w) \cup {s}
      /\ DistinctKeys(proc'[w].live) /\ Len(proc'[w].live) <= MaxSessions
  <2>1. DistinctKeys(proc[w].live)
    BY InvParts DEF Room
  <2>2. /\ Range(proc'[w].live) = {x \in Range(proc[w].live) : x.key # s.key} \cup {s}
        /\ DistinctKeys(proc'[w].live) /\ Len(proc'[w].live) <= Len(proc[w].live) + 1
    BY <1>5, <1>6, <2>1, InvParts, WithSessionFacts
  <2>3. Len(proc[w].live) \in Nat /\ Len(proc'[w].live) \in Nat
    BY <1>6, InvParts DEF Processes
  <2> QED
    BY <1>3, <1>5, <2>2, <2>3, ContinuityAssumption DEF SessionsOf
<1>10. \A v \in Workers : SessionsOf(v) \subseteq SessionsOf(v)'
  BY <1>6, <1>9 DEF SessionsOf
<1>11. \A v \in Workers : v # w => SessionsOf(v)' = SessionsOf(v)
  BY <1>6 DEF SessionsOf
<1>12. /\ rows' \in [Keys -> Rows \cup {NoRow}] /\ rows'[k] # NoRow
       /\ \A x \in Keys : x # k => rows'[x] = rows[x]
       /\ rows' = rows \/ (rows'[k].owner = w)
  <2>1. rows[k] \in Rows /\ rows \in [Keys -> Rows \cup {NoRow}]
    BY <1>3, InvParts DEF Shape
  <2>2. Taken(rows[k], w, thread[t].step) \in Rows /\ Taken(rows[k], w, thread[t].step).owner = w
    BY <2>1, TakenRow
  <2> QED
    BY <1>3, <1>4, <2>1, <2>2, NoRowAssumption
<1>13. Shape'
  BY <1>2, <1>6, <1>7, <1>8, <1>12, InvParts DEF Shape, InFlight
<1>14. Room'
  <2>1. \A v \in Workers : proc'[v].tombs = proc[v].tombs
    BY <1>6
  <2> QED
    BY <1>6, <1>9, <2>1, InvParts DEF Room
<1>15. \A v \in Workers : \A x : Known(v, x) => Known(v, x)'
  BY <1>2, <1>6 DEF Known
<1>16. \A u \in Threads : Consuming(u)' <=> Consuming(u) /\ u # t
  BY <1>7, <1>8 DEF Consuming
<1>17. \A v \in Workers : \A x : Remembered(v, x) => Remembered(v, x)'
  <2>1. \A v \in Workers : \A x : Pending(v, x) => Pending(v, x)' \/ (v = w /\ x = k)
    BY <1>1, <1>8, <1>16 DEF Pending
  <2>2. Remembered(w, k)'
    BY <1>5, <1>9 DEF Remembered
  <2> QED
    BY <1>2, <1>10, <1>15, <2>1, <2>2 DEF Remembered
<1>18. \A v \in Workers : \A x : Holds(v, x)' => Holds(v, x)
  <2>1. Holds(w, k)
    BY <1>1, <1>2 DEF Holds
  <2>2. \A u \in Threads : Asked(u)' <=> Asked(u)
    BY <1>2, <1>7, <1>8 DEF Asked
  <2>3. \A u \in Threads : thread'[u].worker = thread[u].worker /\ thread'[u].key = thread[u].key
    BY <1>1, <1>7, <1>8
  <2> QED
    BY <1>5, <1>9, <1>11, <2>1, <2>2, <2>3 DEF Holds
<1>19. Locked'
  <2>1. ASSUME NEW u \in Threads, Consuming(u)'
        PROVE  Consuming(u) /\ thread'[u] = thread[u] /\ thread[u].worker \in Workers
               /\ thread[u].key \in Keys /\ thread[u].worker # w /\ u # t
    BY <1>1, <1>3, <1>8, <1>16, <2>1, InvParts
  <2>2. \A v \in Workers : v # w => proc'[v] = proc[v]
    BY <1>6
  <2>3. \A x \in Keys : rows[x] # NoRow => rows'[x] # NoRow
    BY <1>12
  <2> QED
    BY <1>2, <1>11, <2>1, <2>2, <2>3, InvParts DEF Locked
<1>20. LostAreGone'
  BY <1>2, <1>3, <1>5, <1>9, <1>11, InvParts DEF LostAreGone
<1>21. InUse'
  <2>1. ASSUME NEW u \in Threads, u # t, Has(u)', ~ thread'[u].orphan
        PROVE  \E x \in SessionsOf(thread[u].worker)' :
                 x.key = thread'[u].key /\ (thread'[u].step # "resolved" => x.acc)
    BY <1>8, <1>10, <2>1, InvParts DEF InUse, Has
  <2>2. \E x \in SessionsOf(thread[t].worker)' :
                 x.key = thread'[t].key /\ (thread'[t].step # "resolved" => x.acc)
    BY <1>1, <1>5, <1>7, <1>8, <1>9
  <2> QED
    BY <1>1, <1>7, <1>8, <2>1, <2>2 DEF InUse
<1>22. OrphansRemembered'
  BY <1>7, <1>8, <1>17, InvParts DEF OrphansRemembered, Has
<1>23. RowsExplained'
  <2>1. Remembered(w, k)'
    BY <1>5, <1>9 DEF Remembered
  <2>2. ASSUME NEW x \in Keys, NEW v \in Workers, rows'[x] # NoRow, ~ rows'[x].tombstoned,
               rows'[x].owner = v
        PROVE  \/ Remembered(v, x)'
               \/ \E y \in SessionsOf(v)' : y.key = x /\ y.acc
    <3>1. CASE x = k /\ v = w
      BY <2>1, <3>1
    <3>2. CASE x # k \/ v # w
      <4>1. rows'[x] = rows[x]
        BY <1>12, <2>2, <3>2
      <4>2. Remembered(v, x) \/ \E y \in SessionsOf(v) : y.key = x /\ y.acc
        BY <2>2, <4>1, InvParts DEF RowsExplained
      <4> QED
        BY <1>10, <1>17, <4>2
    <3> QED
      BY <3>1, <3>2
  <2> QED
    BY <2>2 DEF RowsExplained
<1>24. CleanExplained'
  BY <1>2, <1>5, <1>9, <1>11, <1>15, InvParts DEF CleanExplained, Missing
<1>25. Recorded'
  BY <1>2, <1>7, <1>8, <1>12, InvParts DEF Recorded
<1>26. HeldOnce'
  BY <1>2, <1>18, InvParts DEF HeldOnce
<1>27. BlindExplained'
  BY <1>7, <1>8, <1>15, InvParts DEF BlindExplained, Has
<1>28. ForgottenMeansDegraded'
  BY <1>2, <1>6, InvParts DEF ForgottenMeansDegraded
<1> QED
  BY <1>13, <1>14, <1>19, <1>20, <1>21, <1>22, <1>23, <1>24, <1>25, <1>26, <1>27, <1>28
  DEF IInv, Story

(* The sessions of a process are rewritten in place, one by one. *)
LEMMA RewrittenSessions ==
  ASSUME NEW live \in Seq(Sessions), NEW l, DOMAIN l = DOMAIN live,
         l = [i \in DOMAIN live |-> l[i]],
         \A i \in DOMAIN live : l[i] \in Sessions /\ l[i].key = live[i].key
  PROVE  /\ l \in Seq(Sessions) /\ Len(l) = Len(live)
         /\ DistinctKeys(live) => DistinctKeys(l)
<1>1. DOMAIN live = 1 .. Len(live) /\ Len(live) \in Nat
  OBVIOUS
<1>2. l \in [1 .. Len(live) -> Sessions]
  BY <1>1
<1>3. l \in Seq(Sessions) /\ Len(l) = Len(live)
  BY <1>1, <1>2
<1> QED
  BY <1>3 DEF DistinctKeys

(* A session after facts were applied. *)
LEMMA FilledFacts ==
  ASSUME NEW s \in Sessions, NEW b \in BOOLEAN
  PROVE  LET r == Filled(s, b)
         IN  /\ r \in Sessions /\ r.key = s.key /\ r.broken = s.broken /\ r.whole = s.whole
             /\ r.acc <=> s.acc \/ b
<1> DEFINE a == s.acc \/ b
<1>1. a \in BOOLEAN
  BY DEF Sessions
<1>2. Filled(s, b) = [s EXCEPT !.acc = a]
  BY DEF Filled
<1>3. a <=> s.acc \/ b
  OBVIOUS
<1> HIDE DEF a
<1> QED
  BY <1>1, <1>2, <1>3 DEF Sessions

(* A session that missed what another was granted. *)
LEMMA BereftFacts ==
  ASSUME NEW s \in Sessions, NEW b \in BOOLEAN
  PROVE  LET r == Bereft(s, b)
         IN  /\ r \in Sessions /\ r.key = s.key /\ r.broken = s.broken /\ r.acc = s.acc
             /\ r.whole <=> s.whole /\ ~ b
<1> DEFINE a == s.whole /\ ~ b
<1>1. a \in BOOLEAN
  BY DEF Sessions
<1>2. Bereft(s, b) = [s EXCEPT !.whole = a]
  BY DEF Bereft
<1>3. a <=> s.whole /\ ~ b
  OBVIOUS
<1> HIDE DEF a
<1> QED
  BY <1>1, <1>2, <1>3 DEF Sessions

(* Apply fills the session, unless it is an orphan by now. *)
LEMMA ApplyKeeps ==
  ASSUME IInv, NEW t \in Threads, Apply(t)
  PROVE  IInv'
<1>1. PICK w \in Workers, k \in Keys : w = thread[t].worker /\ k = thread[t].key
  BY InvParts DEF Apply, Asked
<1>2. /\ thread[t].step = "resolved" /\ thread[t] \in Evaluations
      /\ UNCHANGED <<rows, marked, leased, former, past>>
      /\ Has(t) /\ Asked(t) /\ ~ Consuming(t)
  BY InvParts DEF Apply, Has, Asked, Consuming
<1> DEFINE live == proc[w].live
           B(x) == Uses(t, w, x)
           l == [i \in DOMAIN live |-> Filled(live[i], B(live[i].key))]
           q == [proc[w] EXCEPT !.live = l]
           f == [thread[t] EXCEPT !.step = "applied"]
<1>3. proc' = [proc EXCEPT ![w] = q]
  BY <1>1 DEF Apply
<1>4. \A x : B(x) \in BOOLEAN /\ (B(x) <=> x = k /\ ~ thread[t].orphan)
  BY <1>1, <1>2 DEF Uses
<1> HIDE DEF B
<1>5. \A i \in DOMAIN live :
        /\ l[i] \in Sessions /\ l[i].key = live[i].key /\ l[i].broken = live[i].broken
        /\ l[i].whole = live[i].whole /\ (live[i].acc => l[i].acc)
        /\ live[i].key = k /\ ~ thread[t].orphan => l[i].acc
  <2> SUFFICES ASSUME NEW i \in DOMAIN live
               PROVE  /\ l[i] \in Sessions /\ l[i].key = live[i].key
                      /\ l[i].broken = live[i].broken
                      /\ l[i].whole = live[i].whole /\ (live[i].acc => l[i].acc)
                      /\ live[i].key = k /\ ~ thread[t].orphan => l[i].acc
    OBVIOUS
  <2>1. live[i] \in Sessions
    BY InvParts
  <2>2. l[i] = Filled(live[i], B(live[i].key))
    OBVIOUS
  <2> QED
    BY SMTT(30), <1>4, <2>1, <2>2, FilledFacts
<1>6. l = [i \in DOMAIN live |-> l[i]] /\ DOMAIN l = DOMAIN live
  OBVIOUS
<1> HIDE DEF l
<1>7. live \in Seq(Sessions) /\ proc[w] \in Processes /\ proc \in [Workers -> Processes]
  BY InvParts DEF Shape
<1>8. /\ l \in Seq(Sessions) /\ Len(l) = Len(live)
      /\ DistinctKeys(live) => DistinctKeys(l)
  <2> HIDE DEF live
  <2> QED
    BY <1>5, <1>6, <1>7, RewrittenSessions
<1>9. /\ q \in Processes /\ q.live = l /\ q.tombs = proc[w].tombs
      /\ q.degraded = proc[w].degraded
  BY <1>7, <1>8 DEF Processes
<1> HIDE DEF q
<1>10. /\ proc' \in [Workers -> Processes] /\ proc'[w] = q
       /\ \A v \in Workers : v # w => proc'[v] = proc[v]
  BY <1>3, <1>7, <1>9
<1>11. /\ f \in Evaluations /\ f.step = "applied" /\ f.worker = w /\ f.key = k
       /\ f.orphan = thread[t].orphan /\ f.broken = thread[t].broken
       /\ f.blind = thread[t].blind
  BY <1>1, <1>2, MovedEvaluation DEF Steps
<1>12. /\ thread' \in [Threads -> Evaluations] /\ thread'[t] = f
       /\ \A u \in Threads : u # t => thread'[u] = thread[u]
  <2>1. thread' = [thread EXCEPT ![t] = f]
    BY DEF Apply
  <2> HIDE DEF f
  <2> QED
    BY <1>11, <2>1, InvParts, OneMoves
<1> HIDE DEF f
<1>13. \A v \in Workers : \A x \in SessionsOf(v) : \E y \in SessionsOf(v)' :
         /\ y.key = x.key /\ y.broken = x.broken /\ (x.acc => y.acc)
         /\ v = w /\ x.key = k /\ ~ thread[t].orphan => y.acc
  BY <1>5, <1>6, <1>9, <1>10 DEF SessionsOf, Range
<1>14. \A v \in Workers : \A y \in SessionsOf(v)' : \E x \in SessionsOf(v) :
         y.key = x.key /\ y.broken = x.broken /\ y.whole = x.whole /\ (x.acc => y.acc)
  BY <1>5, <1>6, <1>9, <1>10 DEF SessionsOf, Range
<1>15. Shape'
  BY SMTT(30), <1>1, <1>2, <1>10, <1>11, <1>12, InvParts DEF Shape, InFlight
<1>16. Room'
  BY <1>8, <1>9, <1>10, InvParts DEF Room
<1>17. \A v \in Workers : \A x : Known(v, x) => Known(v, x)'
  BY <1>2, <1>9, <1>10 DEF Known
<1>18. \A u \in Threads : (Consuming(u)' <=> Consuming(u)) /\ (Has(u)' <=> Has(u))
                          /\ (Asked(u)' <=> Asked(u))
  BY <1>2, <1>11, <1>12 DEF Consuming, Has, Asked
<1>19. \A u \in Threads : /\ thread'[u].worker = thread[u].worker
                          /\ thread'[u].key = thread[u].key
                          /\ thread'[u].orphan = thread[u].orphan
                          /\ thread'[u].broken = thread[u].broken
                          /\ thread'[u].blind = thread[u].blind
  BY <1>1, <1>11, <1>12
<1>20. \A v \in Workers : \A x : Remembered(v, x) => Remembered(v, x)'
  <2>1. \A v \in Workers : \A x : Pending(v, x) => Pending(v, x)'
    BY <1>18, <1>19 DEF Pending
  <2> QED
    BY <1>2, <1>13, <1>17, <2>1 DEF Remembered
<1>21. \A v \in Workers : \A x : Holds(v, x)' => Holds(v, x)
  BY <1>14, <1>18, <1>19 DEF Holds
<1>22. Locked'
  <2>1. \A v \in Workers : Len(proc'[v].live) = Len(proc[v].live)
    BY <1>8, <1>9, <1>10
  <2>2. \A v \in Workers : \A y \in SessionsOf(v)' : \E x \in SessionsOf(v) : y.key = x.key
    BY <1>14
  <2>3. ASSUME NEW u \in Threads, Consuming(u)'
        PROVE  /\ rows'[thread'[u].key] # NoRow
               /\ thread'[u].key \notin past'.lost[thread'[u].worker]
               /\ \A s \in SessionsOf(thread[u].worker)' : s.key # thread'[u].key
               /\ Len(proc'[thread'[u].worker].live) < MaxSessions
               /\ \A o \in Threads : Consuming(o)' /\ thread'[o].worker = thread'[u].worker
                                     => o = u
    BY <1>2, <1>18, <1>19, <2>1, <2>2, <2>3, InvParts DEF Locked
  <2>4. \A u \in Threads : thread'[u].worker = thread[u].worker
    BY <1>19
  <2> QED
    BY <2>3, <2>4 DEF Locked
<1>23. LostAreGone'
  BY <1>2, <1>14, InvParts DEF LostAreGone
<1>24. InUse'
  <2>1. ASSUME NEW u \in Threads, Has(u)', ~ thread'[u].orphan
        PROVE  \E x \in SessionsOf(thread[u].worker)' :
                 x.key = thread'[u].key /\ (thread'[u].step # "resolved" => x.acc)
    <3>1. PICK v \in Workers : v = thread[u].worker
      BY <1>18, <2>1, InvParts
    <3>2. PICK x \in SessionsOf(v) :
            x.key = thread[u].key /\ (thread[u].step # "resolved" => x.acc)
      BY <1>18, <1>19, <2>1, <3>1, InvParts DEF InUse
    <3>3. PICK y \in SessionsOf(v)' :
            /\ y.key = x.key /\ (x.acc => y.acc)
            /\ v = w /\ x.key = k /\ ~ thread[t].orphan => y.acc
      BY <1>13, <3>1
    <3>4. u # t => thread'[u].step = thread[u].step
      BY <1>12
    <3>5. y.key = thread'[u].key /\ (thread'[u].step # "resolved" => y.acc)
      BY <1>1, <1>19, <2>1, <3>1, <3>2, <3>3, <3>4
    <3> QED
      BY <1>19, <3>1, <3>5
  <2> QED
    BY <1>19, <2>1 DEF InUse
<1>25. OrphansRemembered'
  BY <1>18, <1>19, <1>20, InvParts DEF OrphansRemembered
<1>26. RowsExplained'
  <2>1. \A v \in Workers : \A x : (\E y \in SessionsOf(v) : y.key = x /\ y.acc)
                              => \E y \in SessionsOf(v)' : y.key = x /\ y.acc
    BY <1>13
  <2> QED
    BY <1>2, <1>20, <2>1, InvParts DEF RowsExplained
<1>27. CleanExplained'
  BY <1>2, <1>14, <1>17, InvParts DEF CleanExplained, Missing
<1>28. Recorded'
  BY <1>2, <1>11, <1>12, InvParts DEF Recorded
<1>29. HeldOnce'
  BY <1>2, <1>21, InvParts DEF HeldOnce
<1>30. BlindExplained'
  BY <1>17, <1>18, <1>19, InvParts DEF BlindExplained
<1>31. ForgottenMeansDegraded'
  BY <1>2, <1>9, <1>10, InvParts DEF ForgottenMeansDegraded
<1> QED
  BY <1>15, <1>16, <1>22, <1>23, <1>24, <1>25, <1>26, <1>27, <1>28, <1>29, <1>30, <1>31
  DEF IInv, Story

(* Two sessions of a process with the same key are the same one. *)
LEMMA OneSessionPerKey ==
  ASSUME IInv, NEW v \in Workers, NEW x \in SessionsOf(v), NEW y \in SessionsOf(v), x.key = y.key
  PROVE  x = y
<1>1. DistinctKeys(proc[v].live)
  BY InvParts DEF Room
<1> QED
  BY <1>1 DEF DistinctKeys, SessionsOf, Range

(* The row after the authority was recorded. *)
LEMMA NotedRow ==
  ASSUME NEW row \in Rows \cup {NoRow}, NEW w \in Workers
  PROVE  LET r == IF row = NoRow THEN [tombstoned |-> FALSE, owner |-> w]
                  ELSE [row EXCEPT !.owner = w]
         IN  r \in Rows /\ r.owner = w
<1>1. CASE row = NoRow
  BY <1>1 DEF Rows
<1>2. CASE row # NoRow
  BY <1>2 DEF Rows
<1> QED
  BY <1>1, <1>2

(* Note leaves a row of the session it used, or a gap. *)
LEMMA NoteKeeps ==
  ASSUME IInv, NEW t \in Threads, Note(t)
  PROVE  IInv'
<1>1. PICK w \in Workers, k \in Keys : w = thread[t].worker /\ k = thread[t].key
  BY InvParts DEF Note, Asked
<1>2. /\ thread[t].step = "applied" /\ thread[t] \in Evaluations
      /\ UNCHANGED <<marked, leased, former>>
      /\ Has(t) /\ Asked(t) /\ ~ Consuming(t)
  BY InvParts DEF Note, Has, Asked, Consuming
<1> DEFINE row == IF rows[k] = NoRow THEN [tombstoned |-> FALSE, owner |-> w]
                  ELSE [rows[k] EXCEPT !.owner = w]
           f == [thread[t] EXCEPT !.step = "noted"]
<1>3. PICK ok \in StoreOutcomes :
        /\ rows' = IF ok THEN [rows EXCEPT ![k] = row] ELSE rows
        /\ proc' = [proc EXCEPT ![w] = Degraded(@, ~ ok)]
        /\ past' = [past EXCEPT !.gaps = IF ok THEN @ ELSE @ \cup {k}]
  BY <1>1 DEF Note
<1>4. /\ proc' \in [Workers -> Processes]
      /\ \A v \in Workers : /\ proc'[v].live = proc[v].live /\ proc'[v].tombs = proc[v].tombs
                            /\ proc[v].degraded => proc'[v].degraded
  <2> DEFINE b == ~ ok
  <2>1. proc' = [proc EXCEPT ![w] = Degraded(@, b)] /\ Shape
    BY <1>3, InvParts
  <2>2. b \in BOOLEAN
    BY Outcomes
  <2> HIDE DEF b
  <2> QED
    BY <2>1, <2>2, FlaggedOnly
<1>5. /\ past' \in [granted : SUBSET Keys, gaps : SUBSET Keys, lost : [Workers -> SUBSET Keys]]
      /\ past'.granted = past.granted /\ past'.lost = past.lost /\ past.gaps \subseteq past'.gaps
      /\ ~ ok => k \in past'.gaps
  <2> DEFINE g == IF ok THEN past.gaps ELSE past.gaps \cup {k}
  <2>1. past \in [granted : SUBSET Keys, gaps : SUBSET Keys, lost : [Workers -> SUBSET Keys]]
    BY InvParts DEF Shape
  <2>2. past' = [past EXCEPT !.gaps = g] /\ g \in SUBSET Keys /\ past.gaps \subseteq g
        /\ (~ ok => k \in g)
    BY <1>3, <2>1
  <2> HIDE DEF g
  <2> QED
    BY <2>1, <2>2
<1>6. rows \in [Keys -> Rows \cup {NoRow}] /\ row \in Rows /\ row.owner = w
  BY InvParts, NotedRow DEF Shape
<1> HIDE DEF row
<1>7. /\ rows' \in [Keys -> Rows \cup {NoRow}]
      /\ \A x \in Keys : x # k => rows'[x] = rows[x]
      /\ \A x \in Keys : rows[x] # NoRow => rows'[x] # NoRow
      /\ rows' = rows \/ (rows'[k].owner = w)
      /\ ok => rows'[k] # NoRow
  BY <1>3, <1>6, NoRowAssumption
<1>8. /\ f \in Evaluations /\ f.step = "noted" /\ f.worker = w /\ f.key = k
      /\ f.orphan = thread[t].orphan /\ f.broken = thread[t].broken
      /\ f.blind = thread[t].blind
  BY <1>1, <1>2, MovedEvaluation DEF Steps
<1>9. /\ thread' \in [Threads -> Evaluations] /\ thread'[t] = f
      /\ \A u \in Threads : u # t => thread'[u] = thread[u]
  <2>1. thread' = [thread EXCEPT ![t] = f]
    BY DEF Note
  <2> HIDE DEF f
  <2> QED
    BY <1>8, <2>1, InvParts, OneMoves
<1> HIDE DEF f
<1>10. \A v \in Workers : SessionsOf(v)' = SessionsOf(v)
  BY <1>4 DEF SessionsOf
<1>11. Shape'
  <2>1. \A u \in Threads : InFlight(u)' => thread'[u].worker \in Workers /\ thread'[u].key \in Keys
    BY <1>8, <1>9, InvParts DEF Shape, InFlight
  <2>2. marked' \in BOOLEAN /\ leased' \in SUBSET Workers /\ former' \in SUBSET Workers
    BY <1>2, InvParts DEF Shape
  <2> QED
    BY <1>4, <1>5, <1>7, <1>9, <2>1, <2>2 DEF Shape
<1>12. Room'
  BY <1>4, InvParts DEF Room
<1>13. \A v \in Workers : \A x : Known(v, x) => Known(v, x)'
  BY <1>4, <1>5 DEF Known
<1>14. \A u \in Threads : (Consuming(u)' <=> Consuming(u)) /\ (Has(u)' <=> Has(u))
                          /\ (Asked(u)' <=> Asked(u))
  BY <1>2, <1>8, <1>9 DEF Consuming, Has, Asked
<1>15. \A u \in Threads : /\ thread'[u].worker = thread[u].worker
                          /\ thread'[u].key = thread[u].key
                          /\ thread'[u].orphan = thread[u].orphan
                          /\ thread'[u].broken = thread[u].broken
                          /\ thread'[u].blind = thread[u].blind
                          /\ thread'[u].step = "resolved" <=> thread[u].step = "resolved"
  BY <1>1, <1>2, <1>8, <1>9
<1>16. \A v \in Workers : \A x : Remembered(v, x) => Remembered(v, x)'
  <2>1. \A v \in Workers : \A x : Pending(v, x) => Pending(v, x)'
    BY <1>14, <1>15 DEF Pending
  <2> QED
    BY <1>5, <1>10, <1>13, <2>1 DEF Remembered
<1>17. \A v \in Workers : \A x : Holds(v, x)' => Holds(v, x)
  BY <1>10, <1>14, <1>15 DEF Holds
<1>18. Locked'
  BY <1>4, <1>5, <1>7, <1>10, <1>14, <1>15, InvParts DEF Locked
<1>19. LostAreGone'
  BY <1>5, <1>10, InvParts DEF LostAreGone
<1>20. InUse'
  <2>1. ASSUME NEW u \in Threads, Has(u)', ~ thread'[u].orphan
        PROVE  \E x \in SessionsOf(thread[u].worker)' :
                 x.key = thread'[u].key /\ (thread'[u].step # "resolved" => x.acc)
    <3>1. PICK v \in Workers : v = thread[u].worker
      BY <1>14, <2>1, InvParts
    <3>2. \E x \in SessionsOf(v) : x.key = thread[u].key /\ (thread[u].step # "resolved" => x.acc)
      BY <1>14, <1>15, <2>1, <3>1, InvParts DEF InUse
    <3> QED
      BY <1>10, <1>15, <3>1, <3>2
  <2> QED
    BY <1>15, <2>1 DEF InUse
<1>21. OrphansRemembered'
  BY <1>14, <1>15, <1>16, InvParts DEF OrphansRemembered
<1>22. RowsExplained'
  <2>1. Remembered(w, k) \/ \E y \in SessionsOf(w) : y.key = k /\ y.acc
    <3>1. CASE thread[t].orphan
      BY <1>1, <3>1, InvParts DEF OrphansRemembered
    <3>2. CASE ~ thread[t].orphan
      BY <1>1, <1>2, <3>2, InvParts DEF InUse
    <3> QED
      BY <3>1, <3>2
  <2>2. ASSUME NEW x \in Keys, NEW v \in Workers, rows'[x] # NoRow, ~ rows'[x].tombstoned,
               rows'[x].owner = v
        PROVE  \/ Remembered(v, x)'
               \/ \E y \in SessionsOf(v)' : y.key = x /\ y.acc
    <3>1. CASE x = k /\ v = w
      BY <1>10, <1>16, <2>1, <3>1
    <3>2. CASE x # k \/ v # w
      <4>1. rows'[x] = rows[x]
        BY <1>7, <2>2, <3>2
      <4>2. Remembered(v, x) \/ \E y \in SessionsOf(v) : y.key = x /\ y.acc
        BY <2>2, <4>1, InvParts DEF RowsExplained
      <4> QED
        BY <1>10, <1>16, <4>2
    <3> QED
      BY <3>1, <3>2
  <2> QED
    BY <2>2 DEF RowsExplained
<1>23. CleanExplained'
  BY <1>5, <1>10, <1>13, InvParts DEF CleanExplained, Missing
<1>24. Recorded'
  <2>1. rows'[k] # NoRow \/ k \in past'.gaps
    BY <1>5, <1>7
  <2>2. \A u \in Threads : thread'[u].step = "noted" =>
          thread'[u].key = k \/ (thread[u].step = "noted" /\ thread'[u].key = thread[u].key)
    BY <1>8, <1>9
  <2> QED
    BY <1>5, <1>7, <2>1, <2>2, InvParts DEF Recorded
<1>25. HeldOnce'
  BY <1>5, <1>17, InvParts DEF HeldOnce
<1>26. BlindExplained'
  BY <1>13, <1>14, <1>15, InvParts DEF BlindExplained
<1>27. ForgottenMeansDegraded'
  BY <1>4, <1>5, InvParts DEF ForgottenMeansDegraded
<1> QED
  BY <1>11, <1>12, <1>18, <1>19, <1>20, <1>21, <1>22, <1>23, <1>24, <1>25, <1>26, <1>27
  DEF IInv, Story

(* What the answer to t makes of a process. *)
LEMMA NotWholeFacts ==
  ASSUME NEW p \in Processes, NEW v \in Workers, NEW t \in Threads
  PROVE  LET q == NotWhole(v, p, t)
         IN  /\ q \in Processes /\ q.tombs = p.tombs /\ q.degraded = p.degraded
             /\ Len(q.live) = Len(p.live) /\ DOMAIN q.live = DOMAIN p.live
             /\ DistinctKeys(p.live) => DistinctKeys(q.live)
             /\ \A i \in DOMAIN p.live :
                  /\ q.live[i].key = p.live[i].key /\ q.live[i].broken = p.live[i].broken
                  /\ q.live[i].acc = p.live[i].acc
                  /\ q.live[i].whole <=>
                       /\ p.live[i].whole
                       /\ ~ (p.live[i].key = thread[t].key /\ ~ Uses(t, v, thread[t].key))
<1> DEFINE k == thread[t].key
           B(s) == s.key = k /\ ~ Uses(t, v, k)
           live == p.live
           l == [i \in DOMAIN live |-> Bereft(live[i], B(live[i]))]
           q == NotWhole(v, p, t)
<1>1. live \in Seq(Sessions)
  BY DEF Processes
<1>2. q = [p EXCEPT !.live = l]
  BY DEF NotWhole
<1>3. \A s : B(s) \in BOOLEAN
  OBVIOUS
<1>4. \A s : B(s) <=> s.key = k /\ ~ Uses(t, v, k)
  OBVIOUS
<1> HIDE DEF B, k
<1>5. \A i \in DOMAIN live :
        /\ l[i] \in Sessions /\ l[i].key = live[i].key /\ l[i].broken = live[i].broken
        /\ l[i].acc = live[i].acc /\ (l[i].whole <=> live[i].whole /\ ~ B(live[i]))
  <2> SUFFICES ASSUME NEW i \in DOMAIN live
               PROVE  /\ l[i] \in Sessions /\ l[i].key = live[i].key
                      /\ l[i].broken = live[i].broken /\ l[i].acc = live[i].acc
                      /\ (l[i].whole <=> live[i].whole /\ ~ B(live[i]))
    OBVIOUS
  <2>1. live[i] \in Sessions
    BY <1>1
  <2>2. l[i] = Bereft(live[i], B(live[i]))
    OBVIOUS
  <2> QED
    BY <1>3, <2>1, <2>2, BereftFacts
<1>6. l = [i \in DOMAIN live |-> l[i]] /\ DOMAIN l = DOMAIN live
  OBVIOUS
<1> HIDE DEF l
<1>7. /\ l \in Seq(Sessions) /\ Len(l) = Len(live)
      /\ DistinctKeys(live) => DistinctKeys(l)
  <2> HIDE DEF live
  <2> QED
    BY <1>1, <1>5, <1>6, RewrittenSessions
<1>8. /\ q \in Processes /\ q.live = l /\ q.tombs = p.tombs /\ q.degraded = p.degraded
  BY <1>2, <1>7 DEF Processes
<1> HIDE DEF q
<1>9. \A i \in DOMAIN p.live :
        /\ q.live[i].key = p.live[i].key /\ q.live[i].broken = p.live[i].broken
        /\ q.live[i].acc = p.live[i].acc
        /\ q.live[i].whole <=>
             p.live[i].whole /\ ~ (p.live[i].key = k /\ ~ Uses(t, v, k))
  BY <1>4, <1>5, <1>8
<1> QED
  BY <1>6, <1>7, <1>8, <1>9 DEF q, k

(* Answer: sessions that miss what is granted are known to do so. *)
LEMMA AnswerKeeps ==
  ASSUME IInv, NEW t \in Threads, Answer(t)
  PROVE  IInv'
<1>1. PICK w \in Workers, k \in Keys : w = thread[t].worker /\ k = thread[t].key
  BY InvParts DEF Answer, Asked
<1>2. /\ thread[t].step = "noted" /\ thread[t] \in Evaluations
      /\ UNCHANGED <<rows, marked, leased, former>>
      /\ Has(t) /\ Asked(t) /\ ~ Consuming(t)
      /\ past' = [past EXCEPT !.granted = @ \cup {k}]
      /\ thread' = [thread EXCEPT ![t] = Idle]
  BY <1>1, InvParts DEF Answer, Has, Asked, Consuming
<1>3. PICK read \in StoreOutcomes, status \in StoreOutcomes :
        proc' = [v \in Workers |->
                   Degraded(NotWhole(v, proc[v], t), v = w /\ ((marked /\ read) \/ ~ status))]
  BY <1>1 DEF Answer
<1> DEFINE D(v) == v = w /\ ((marked /\ read) \/ ~ status)
           N(v) == NotWhole(v, proc[v], t)
<1>4. proc' = [v \in Workers |-> Degraded(N(v), D(v))] /\ \A v : D(v) \in BOOLEAN
  BY <1>3
<1> HIDE DEF D, N
<1>5. ASSUME NEW v \in Workers
      PROVE  /\ proc'[v] \in Processes /\ proc'[v].tombs = proc[v].tombs
             /\ proc[v].degraded => proc'[v].degraded
             /\ proc'[v].live = N(v).live
  <2>1. N(v) \in Processes /\ N(v).tombs = proc[v].tombs /\ N(v).degraded = proc[v].degraded
    BY InvParts, NotWholeFacts DEF N
  <2>2. proc'[v] = Degraded(N(v), D(v))
    BY <1>4
  <2> QED
    BY <1>4, <2>1, <2>2, DegradedProcess
<1>6. proc' \in [Workers -> Processes]
  BY <1>4, <1>5
<1>7. \A v \in Workers : Uses(t, v, k) <=> v = w /\ ~ thread[t].orphan
  BY <1>1, <1>2 DEF Uses
<1>8. ASSUME NEW v \in Workers
      PROVE  /\ Len(proc'[v].live) = Len(proc[v].live)
             /\ DOMAIN proc'[v].live = DOMAIN proc[v].live
             /\ DistinctKeys(proc'[v].live)
             /\ \A i \in DOMAIN proc[v].live :
                  LET x == proc[v].live[i]
                      y == proc'[v].live[i]
                  IN  /\ y.key = x.key /\ y.broken = x.broken /\ y.acc = x.acc
                      /\ y.whole <=> x.whole /\ ~ (x.key = k /\ (v = w => thread[t].orphan))
  <2>1. DistinctKeys(proc[v].live)
    BY InvParts DEF Room
  <2>2. Uses(t, v, k) <=> v = w /\ ~ thread[t].orphan
    BY <1>7
  <2> QED
    BY SMTT(30), <1>1, <1>5, <2>1, <2>2, InvParts, NotWholeFacts DEF N
<1>9. \A v \in Workers : \A x \in SessionsOf(v) : \E y \in SessionsOf(v)' :
        y.key = x.key /\ y.broken = x.broken /\ y.acc = x.acc
  BY <1>8 DEF SessionsOf, Range
<1>10. \A v \in Workers : \A y \in SessionsOf(v)' : \E x \in SessionsOf(v) :
         /\ y.key = x.key /\ y.broken = x.broken /\ y.acc = x.acc
         /\ y.whole <=> x.whole /\ ~ (x.key = k /\ (v = w => thread[t].orphan))
  BY <1>8 DEF SessionsOf, Range
<1>11. \A u \in Threads : thread'[u] = IF u = t THEN Idle ELSE thread[u]
  BY <1>2, InvParts DEF Shape
<1>12. thread' \in [Threads -> Evaluations]
  BY <1>2, IdleFacts, InvParts DEF Shape
<1>13. /\ past' \in [granted : SUBSET Keys, gaps : SUBSET Keys, lost : [Workers -> SUBSET Keys]]
       /\ past'.granted = past.granted \cup {k} /\ past'.gaps = past.gaps
       /\ past'.lost = past.lost
  BY <1>2, InvParts DEF Shape
<1>14. Shape'
  <2>1. \A u \in Threads : InFlight(u)' => thread'[u].worker \in Workers /\ thread'[u].key \in Keys
    BY <1>11, IdleFacts, InvParts DEF Shape, InFlight
  <2>2. /\ marked' \in BOOLEAN /\ leased' \in SUBSET Workers /\ former' \in SUBSET Workers
        /\ rows' \in [Keys -> Rows \cup {NoRow}]
    BY <1>2, InvParts DEF Shape
  <2> QED
    BY <1>6, <1>12, <1>13, <2>1, <2>2 DEF Shape
<1>15. Room'
  <2>1. \A v \in Workers : proc'[v].tombs = proc[v].tombs
    BY <1>5
  <2> QED
    BY <1>8, <2>1, InvParts DEF Room
<1>16. \A v \in Workers : \A x : Known(v, x) => Known(v, x)'
  BY <1>5, <1>13 DEF Known
<1>17. \A u \in Threads : /\ Consuming(u)' => Consuming(u)
                          /\ Consuming(u) => Consuming(u)' /\ u # t
                          /\ Has(u)' => Has(u) /\ u # t
                          /\ Asked(u)' => Asked(u) /\ u # t
  BY <1>2, <1>11, IdleFacts DEF Consuming, Has, Asked
<1>18. \A u \in Threads : u # t => thread'[u] = thread[u]
  BY <1>11
<1>19. \A v \in Workers : \A x : Remembered(v, x) => Remembered(v, x)'
  <2>1. \A v \in Workers : \A x : Pending(v, x) => Pending(v, x)'
    BY <1>17, <1>18 DEF Pending
  <2> QED
    BY <1>9, <1>13, <1>16, <2>1 DEF Remembered
<1>20. \A v \in Workers : \A x : Holds(v, x)' => Holds(v, x)
  BY <1>10, <1>17, <1>18 DEF Holds
<1>21. Locked'
  <2>1. \A v \in Workers : \A y \in SessionsOf(v)' : \E x \in SessionsOf(v) : y.key = x.key
    BY <1>10
  <2>2. \A v \in Workers : Len(proc'[v].live) = Len(proc[v].live)
    BY <1>8
  <2>3. \A u \in Threads : Consuming(u)' => Consuming(u) /\ thread'[u] = thread[u]
    BY <1>17, <1>18
  <2>4. ASSUME NEW u \in Threads, Consuming(u)'
        PROVE  /\ rows'[thread'[u].key] # NoRow
               /\ thread'[u].key \notin past'.lost[thread'[u].worker]
               /\ \A s \in SessionsOf(thread[u].worker)' : s.key # thread'[u].key
               /\ Len(proc'[thread'[u].worker].live) < MaxSessions
               /\ \A o \in Threads : Consuming(o)' /\ thread'[o].worker = thread'[u].worker
                                     => o = u
    <3>1. PICK v \in Workers : v = thread[u].worker
      BY <2>3, <2>4, InvParts
    <3>2. thread'[u] = thread[u] /\ Consuming(u)
      BY <2>3, <2>4
    <3>3. \A y \in SessionsOf(v)' : y.key # thread[u].key
      BY <2>1, <3>1, <3>2, InvParts DEF Locked
    <3> QED
      BY <1>2, <1>13, <2>2, <2>3, <3>1, <3>2, <3>3, InvParts DEF Locked
  <2> QED
    BY <2>3, <2>4 DEF Locked
<1>22. LostAreGone'
  BY <1>10, <1>13, InvParts DEF LostAreGone
<1>23. InUse'
  <2>1. ASSUME NEW u \in Threads, Has(u)', ~ thread'[u].orphan
        PROVE  \E x \in SessionsOf(thread[u].worker)' :
                 x.key = thread'[u].key /\ (thread'[u].step # "resolved" => x.acc)
    <3>0. Has(u) /\ thread'[u] = thread[u]
      BY <1>17, <1>18, <2>1
    <3>1. PICK v \in Workers : v = thread[u].worker
      BY <3>0, InvParts
    <3>2. PICK x \in SessionsOf(v) : x.key = thread[u].key /\ (thread[u].step # "resolved" => x.acc)
      BY <2>1, <3>0, <3>1, InvParts DEF InUse
    <3>3. PICK y \in SessionsOf(v)' : y.key = x.key /\ y.acc = x.acc
      BY <1>9
    <3> QED
      BY <3>0, <3>1, <3>2, <3>3
  <2> QED
    BY <1>17, <1>18, <2>1 DEF InUse
<1>24. OrphansRemembered'
  <2>1. ASSUME NEW u \in Threads, thread'[u].orphan
        PROVE  Has(u)' /\ Remembered(thread[u].worker, thread[u].key)' /\ thread'[u] = thread[u]
    <3>1. u # t /\ thread'[u] = thread[u]
      BY <1>11, <2>1, IdleFacts
    <3>2. Has(u) /\ Remembered(thread[u].worker, thread[u].key)
      BY <2>1, <3>1, InvParts DEF OrphansRemembered
    <3>3. PICK v \in Workers, x \in Keys : v = thread[u].worker /\ x = thread[u].key
      BY <3>2, InvParts
    <3>4. Remembered(v, x)'
      BY <1>19, <3>2, <3>3
    <3> QED
      BY <3>1, <3>2, <3>3, <3>4 DEF Has
  <2> QED
    BY <2>1 DEF OrphansRemembered
<1>25. RowsExplained'
  <2>1. \A v \in Workers : \A x : (\E y \in SessionsOf(v) : y.key = x /\ y.acc)
                              => \E y \in SessionsOf(v)' : y.key = x /\ y.acc
    BY <1>9
  <2> QED
    BY <1>2, <1>19, <2>1, InvParts DEF RowsExplained
<1>26. CleanExplained'
  <2>1. ASSUME NEW v \in Workers, NEW y \in SessionsOf(v)', Missing(y)'
        PROVE  y.broken \/ Known(v, y.key)'
    <3>1. PICK x \in SessionsOf(v) :
            /\ y.key = x.key /\ y.broken = x.broken /\ y.acc = x.acc
            /\ y.whole <=> x.whole /\ ~ (x.key = k /\ (v = w => thread[t].orphan))
      BY <1>10
    <3>2. CASE Missing(x)
      BY <1>16, <3>1, <3>2, InvParts DEF CleanExplained
    <3>3. CASE ~ Missing(x)
      <4>1. x.key = k /\ (~ x.acc \/ (v = w => thread[t].orphan))
        BY <1>13, <2>1, <3>1, <3>3 DEF Missing
      <4>2. CASE v # w
        <5>1. Holds(v, k) /\ Holds(w, k)
          BY <1>1, <1>2, <4>1 DEF Holds
        <5> QED
          BY <1>16, <3>1, <4>1, <4>2, <5>1, InvParts DEF HeldOnce, Known
      <4>3. CASE v = w /\ ~ thread[t].orphan
        <5>1. PICK z \in SessionsOf(w) : z.key = k /\ z.acc
          BY <1>1, <1>2, <4>3, InvParts DEF InUse
        <5> QED
          BY <4>1, <4>3, <5>1, OneSessionPerKey
      <4>4. CASE v = w /\ thread[t].orphan
        <5>1. Remembered(w, k)
          BY <1>1, <4>4, InvParts DEF OrphansRemembered
        <5>2. k \notin past.lost[w]
          BY <4>1, <4>4, InvParts DEF LostAreGone
        <5>3. ~ Pending(w, k)
          BY <4>1, <4>4, InvParts DEF Pending, Locked
        <5>4. CASE Known(w, k)
          BY <1>16, <3>1, <4>1, <4>4, <5>4
        <5>5. CASE \E s \in SessionsOf(w) : s.key = k /\ s.broken
          BY <3>1, <4>1, <4>4, <5>5, OneSessionPerKey
        <5> QED
          BY <5>1, <5>2, <5>3, <5>4, <5>5 DEF Remembered
      <4> QED
        BY <4>2, <4>3, <4>4
    <3> QED
      BY <3>2, <3>3
  <2> QED
    BY <2>1 DEF CleanExplained
<1>27. Recorded'
  <2>1. rows[k] # NoRow \/ k \in past.gaps
    BY <1>1, <1>2, InvParts DEF Recorded
  <2>2. \A u \in Threads : thread'[u].step = "noted" => thread'[u] = thread[u]
    BY <1>11, IdleFacts
  <2> QED
    BY <1>2, <1>13, <2>1, <2>2, InvParts DEF Recorded
<1>28. HeldOnce'
  BY <1>13, <1>20, InvParts DEF HeldOnce
<1>29. BlindExplained'
  BY <1>16, <1>17, <1>18, InvParts DEF BlindExplained
<1>30. ForgottenMeansDegraded'
  BY <1>5, <1>13, InvParts DEF ForgottenMeansDegraded
<1> QED
  BY <1>14, <1>15, <1>21, <1>22, <1>23, <1>24, <1>25, <1>26, <1>27, <1>28, <1>29, <1>30
  DEF IInv, Story

(* Restart: what the process knew is gone, and so is what it promised. *)
LEMMA RestartKeeps ==
  ASSUME IInv, NEW w \in Workers, Restart(w)
  PROVE  IInv'
<1>1. PICK probed \in StoreOutcomes, touched \in StoreOutcomes :
        /\ proc' = [proc EXCEPT ![w] =
                      [FreshProcess EXCEPT !.degraded = marked \/ ~ probed \/ ~ touched]]
        /\ leased' = IF touched THEN leased \cup {w} ELSE leased \ {w}
  BY DEF Restart
<1>2. /\ former' \in SUBSET Workers /\ leased' \in SUBSET Workers
      /\ marked' = marked /\ marked \in BOOLEAN
      /\ past' = [past EXCEPT !.lost[w] = {}]
      /\ rows' = [k \in Keys |-> IF rows[k] # NoRow /\ rows[k].owner = w
                                 THEN [rows[k] EXCEPT !.owner = Former] ELSE rows[k]]
      /\ thread' = [t \in Threads |-> IF thread[t].worker = w THEN Idle ELSE thread[t]]
  BY <1>1, InvParts DEF Restart, Shape
<1>3. /\ proc' \in [Workers -> Processes]
      /\ \A v \in Workers : v # w => proc'[v] = proc[v]
      /\ proc'[w].live = << >> /\ proc'[w].tombs = << >>
  <2> DEFINE d == marked \/ ~ probed \/ ~ touched
             q == [FreshProcess EXCEPT !.degraded = d]
  <2>1. d \in BOOLEAN
    BY <1>2, Outcomes
  <2>2. proc' = [proc EXCEPT ![w] = q] /\ proc \in [Workers -> Processes]
    BY <1>1, InvParts DEF Shape
  <2> HIDE DEF d
  <2>3. q \in Processes /\ q.live = << >> /\ q.tombs = << >>
    <3>1. /\ FreshProcess \in Processes
          /\ FreshProcess.live = << >> /\ FreshProcess.tombs = << >>
      BY DEF FreshProcess, Processes
    <3> QED
      BY <2>1, <3>1 DEF Processes
  <2> HIDE DEF q
  <2> QED
    BY <2>2, <2>3
<1>4. /\ SessionsOf(w)' = {} /\ \A v \in Workers : v # w => SessionsOf(v)' = SessionsOf(v)
      /\ Len(proc'[w].live) = 0 /\ Len(proc'[w].tombs) = 0 /\ DOMAIN proc'[w].live = {}
  BY <1>3 DEF SessionsOf, Range
<1>5. /\ past' \in [granted : SUBSET Keys, gaps : SUBSET Keys, lost : [Workers -> SUBSET Keys]]
      /\ past'.granted = past.granted /\ past'.gaps = past.gaps
      /\ past'.lost[w] = {} /\ \A v \in Workers : v # w => past'.lost[v] = past.lost[v]
  <2> DEFINE l == [past.lost EXCEPT ![w] = {}]
  <2>1. past \in [granted : SUBSET Keys, gaps : SUBSET Keys, lost : [Workers -> SUBSET Keys]]
    BY InvParts DEF Shape
  <2>2. past' = [past EXCEPT !.lost = l]
    BY <1>2
  <2>3. /\ l \in [Workers -> SUBSET Keys] /\ l[w] = {}
        /\ \A v \in Workers : v # w => l[v] = past.lost[v]
    BY <2>1
  <2> HIDE DEF l
  <2> QED
    BY <2>1, <2>2, <2>3
<1>6. /\ rows' \in [Keys -> Rows \cup {NoRow}]
      /\ \A x \in Keys : rows[x] # NoRow => rows'[x] # NoRow
      /\ \A x \in Keys : rows'[x] # NoRow /\ rows'[x].owner \in Workers =>
                           rows'[x] = rows[x] /\ rows[x].owner # w
  <2>1. rows \in [Keys -> Rows \cup {NoRow}]
    BY InvParts DEF Shape
  <2>2. ASSUME NEW x \in Keys, rows[x] # NoRow, rows[x].owner = w
        PROVE  rows'[x] \in Rows /\ rows'[x].owner = Former
    <3>1. rows[x] \in Rows
      BY <2>1, <2>2
    <3>2. rows'[x] = [rows[x] EXCEPT !.owner = Former]
      BY <1>2, <2>2
    <3> QED
      BY <3>1, <3>2 DEF Rows
  <2>3. \A x \in Keys : ~ (rows[x] # NoRow /\ rows[x].owner = w) => rows'[x] = rows[x]
    BY <1>2
  <2>4. rows' = [x \in Keys |-> rows'[x]]
    BY <1>2
  <2> QED
    BY <2>1, <2>2, <2>3, <2>4, NoRowAssumption, ContinuityAssumption
<1>7. \A u \in Threads : thread'[u] = IF thread[u].worker = w THEN Idle ELSE thread[u]
  BY <1>2
<1>8. thread' \in [Threads -> Evaluations]
  BY <1>2, IdleFacts, InvParts
<1>9. \A u \in Threads : thread'[u].step # "idle" \/ thread'[u].orphan
                         => thread'[u] = thread[u] /\ thread[u].worker # w
  BY <1>7, IdleFacts
<1>10. Shape'
  <2>1. \A u \in Threads : InFlight(u)' => thread'[u].worker \in Workers /\ thread'[u].key \in Keys
    BY <1>9, InvParts DEF Shape, InFlight
  <2> QED
    BY <1>2, <1>3, <1>5, <1>6, <1>8, <2>1 DEF Shape
<1>11. Room'
  <2>1. DistinctKeys(proc'[w].live)
    BY <1>4 DEF DistinctKeys
  <2> QED
    BY <1>3, <1>4, <2>1, InvParts, ContinuityAssumption DEF Room
<1>12. \A v \in Workers : \A x : v # w => (Known(v, x) <=> Known(v, x)')
  BY <1>3, <1>5 DEF Known
<1>13. \A u \in Threads : Asked(u)' => /\ Asked(u) /\ thread'[u] = thread[u] /\ thread[u].worker # w
                                       /\ (Has(u)' => Has(u)) /\ (Consuming(u)' => Consuming(u))
  BY <1>9 DEF Asked, Has, Consuming
<1>14. \A u \in Threads : (Has(u)' => Asked(u)') /\ (Consuming(u)' => Asked(u)')
  BY DEF Asked, Has, Consuming
<1>15. \A v \in Workers : \A x : v # w /\ Remembered(v, x) => Remembered(v, x)'
  <2>1. \A v \in Workers : \A x : v # w /\ Pending(v, x) => Pending(v, x)'
    BY <1>7 DEF Pending, Consuming
  <2> QED
    BY <1>4, <1>5, <1>12, <2>1 DEF Remembered
<1>16. \A v \in Workers : \A x : Holds(v, x)' => Holds(v, x)
  BY <1>4, <1>13 DEF Holds
<1>17. Locked'
  <2>1. ASSUME NEW u \in Threads, Consuming(u)'
        PROVE  /\ rows'[thread'[u].key] # NoRow
               /\ thread'[u].key \notin past'.lost[thread'[u].worker]
               /\ \A s \in SessionsOf(thread[u].worker)' : s.key # thread'[u].key
               /\ Len(proc'[thread'[u].worker].live) < MaxSessions
               /\ \A o \in Threads : Consuming(o)' /\ thread'[o].worker = thread'[u].worker
                                     => o = u
    <3>1. PICK v \in Workers : v = thread[u].worker /\ v # w
      BY <1>13, <1>14, <2>1, InvParts
    <3>2. thread'[u] = thread[u] /\ Consuming(u) /\ thread[u].key \in Keys
      BY <1>13, <1>14, <2>1, InvParts
    <3>3. \A y \in SessionsOf(v)' : y.key # thread[u].key
      BY <1>4, <3>1, <3>2, InvParts DEF Locked
    <3>4. proc'[v] = proc[v] /\ past'.lost[v] = past.lost[v]
      BY <1>3, <1>5, <3>1
    <3> QED
      BY <1>6, <1>13, <1>14, <3>1, <3>2, <3>3, <3>4, InvParts DEF Locked
  <2> QED
    BY <1>13, <1>14, <2>1 DEF Locked
<1>18. LostAreGone'
  BY <1>4, <1>5, InvParts DEF LostAreGone
<1>19. InUse'
  <2>1. ASSUME NEW u \in Threads, Has(u)', ~ thread'[u].orphan
        PROVE  \E x \in SessionsOf(thread[u].worker)' :
                 x.key = thread'[u].key /\ (thread'[u].step # "resolved" => x.acc)
    <3>1. PICK v \in Workers : v = thread[u].worker /\ v # w
      BY <1>13, <1>14, <2>1, InvParts
    <3>2. thread'[u] = thread[u] /\ Has(u)
      BY <1>13, <1>14, <2>1
    <3>3. \E x \in SessionsOf(v) : x.key = thread[u].key /\ (thread[u].step # "resolved" => x.acc)
      BY <2>1, <3>1, <3>2, InvParts DEF InUse
    <3> QED
      BY <1>4, <3>1, <3>2, <3>3
  <2> QED
    BY <1>13, <1>14, <2>1 DEF InUse
<1>20. OrphansRemembered'
  <2>1. ASSUME NEW u \in Threads, thread'[u].orphan
        PROVE  Has(u)' /\ Remembered(thread[u].worker, thread[u].key)' /\ thread'[u] = thread[u]
    <3>1. thread'[u] = thread[u] /\ thread[u].worker # w
      BY <1>9, <2>1
    <3>2. Has(u) /\ Remembered(thread[u].worker, thread[u].key)
      BY <2>1, <3>1, InvParts DEF OrphansRemembered
    <3>3. PICK v \in Workers, x \in Keys : v = thread[u].worker /\ x = thread[u].key
      BY <3>2, InvParts
    <3>4. Remembered(v, x)'
      BY <1>15, <3>1, <3>2, <3>3
    <3> QED
      BY <3>1, <3>2, <3>3, <3>4 DEF Has
  <2> QED
    BY <2>1 DEF OrphansRemembered
<1>21. RowsExplained'
  <2>1. ASSUME NEW x \in Keys, NEW v \in Workers, rows'[x] # NoRow, ~ rows'[x].tombstoned,
               rows'[x].owner = v
        PROVE  \/ Remembered(v, x)'
               \/ \E y \in SessionsOf(v)' : y.key = x /\ y.acc
    <3>1. v # w /\ rows'[x] = rows[x]
      BY <1>6, <2>1
    <3>2. Remembered(v, x) \/ \E y \in SessionsOf(v) : y.key = x /\ y.acc
      BY <2>1, <3>1, InvParts DEF RowsExplained
    <3> QED
      BY <1>4, <1>15, <3>1, <3>2
  <2> QED
    BY <2>1 DEF RowsExplained
<1>22. CleanExplained'
  <2>1. ASSUME NEW v \in Workers, NEW y \in SessionsOf(v)', Missing(y)'
        PROVE  y.broken \/ Known(v, y.key)'
    <3>1. v # w /\ y \in SessionsOf(v)
      BY <1>4, <2>1
    <3>2. Missing(y)
      BY <1>5, <2>1 DEF Missing
    <3> QED
      BY <1>12, <3>1, <3>2, InvParts DEF CleanExplained
  <2> QED
    BY <2>1 DEF CleanExplained
<1>23. Recorded'
  <2>1. \A u \in Threads : thread'[u].step = "noted" => thread'[u] = thread[u]
    BY <1>9
  <2> QED
    BY <1>5, <1>6, <2>1, InvParts DEF Recorded
<1>24. HeldOnce'
  BY <1>5, <1>16, InvParts DEF HeldOnce
<1>25. BlindExplained'
  <2>1. ASSUME NEW u \in Threads, Has(u)', thread'[u].blind
        PROVE  thread'[u].broken \/ Known(thread[u].worker, thread[u].key)'
    <3>1. PICK v \in Workers : v = thread[u].worker /\ v # w
      BY <1>13, <1>14, <2>1, InvParts
    <3>2. thread'[u] = thread[u] /\ Has(u)
      BY <1>13, <1>14, <2>1
    <3>3. thread[u].broken \/ Known(v, thread[u].key)
      BY <2>1, <3>1, <3>2, InvParts DEF BlindExplained
    <3> QED
      BY <1>3, <1>5, <3>1, <3>2, <3>3 DEF Known
  <2> QED
    BY <2>1 DEF BlindExplained
<1>26. ForgottenMeansDegraded'
  BY <1>3, <1>5, InvParts DEF ForgottenMeansDegraded
<1> QED
  BY <1>10, <1>11, <1>17, <1>18, <1>19, <1>20, <1>21, <1>22, <1>23, <1>24, <1>25, <1>26
  DEF IInv, Story

(* The keys whose authority goes are keys of sessions dropped. *)
LEMMA LostFacts ==
  ASSUME NEW gone \in Seq(Sessions)
  PROVE  Lost(gone) \subseteq KeysOf(gone) /\ KeysOf(gone) \subseteq Keys
<1>1. \A g \in Range(gone) : g.key \in Keys
  <2>1. Range(gone) \subseteq Sessions
    BY DEF Range
  <2> QED
    BY <2>1 DEF Sessions
<1> QED
  BY <1>1 DEF Lost, KeysOf

(* Evicting makes room and keeps the rest; what a process that is not      *)
(* degraded discarded has a tombstone.                                     *)
LEMMA EvictionFacts ==
  ASSUME NEW p \in Processes, NEW gone \in Seq(Sessions), NEW stored,
         DistinctKeys(p.live), Len(p.tombs) <= TombstoneCap
  PROVE  LET q == AfterEviction(p, gone, stored)
         IN  /\ q \in Processes /\ q.live = Without(p.live, KeysOf(gone))
             /\ DistinctKeys(q.live)
             /\ Range(q.live) = {s \in Range(p.live) : s.key \notin KeysOf(gone)}
             /\ Len(q.tombs) <= TombstoneCap
             /\ p.degraded \/ stored # Lost(gone) => q.degraded
             /\ ~ q.degraded => Range(q.tombs) = Range(p.tombs) \cup Lost(gone)
<1> DEFINE q == AfterEviction(p, gone, stored)
           tombs == Entombed(p.tombs, gone)
           kept == IF Overfull(tombs) THEN Trimmed(tombs) ELSE tombs
           d == p.degraded \/ Overfull(tombs) \/ stored # Lost(gone)
           live == Without(p.live, KeysOf(gone))
<1>1. p.live \in Seq(Sessions) /\ p.tombs \in Seq(Keys) /\ p.degraded \in BOOLEAN
  BY DEF Processes
<1>2. q = [live |-> live, tombs |-> kept, degraded |-> d]
  BY DEF AfterEviction
<1>3. d \in BOOLEAN /\ (d <=> p.degraded \/ Overfull(tombs) \/ stored # Lost(gone))
  BY <1>1
<1>4. tombs \in Seq(Keys) /\ Range(tombs) = Range(p.tombs) \cup Lost(gone)
  BY <1>1, EntombedFacts
<1> HIDE DEF tombs, d
<1>5. kept \in Seq(Keys) /\ Len(kept) <= TombstoneCap
  <2>1. CASE Overfull(tombs)
    BY <1>4, <2>1, TrimmedFacts, ContinuityAssumption
  <2>2. CASE ~ Overfull(tombs)
    BY <1>4, <2>2, ContinuityAssumption DEF Overfull
  <2> QED
    BY <2>1, <2>2
<1>6. ~ d => kept = tombs
  BY <1>3
<1>7. /\ live \in Seq(Sessions) /\ DistinctKeys(live)
      /\ Range(live) = {s \in Range(p.live) : s.key \notin KeysOf(gone)}
  BY <1>1, WithoutFacts
<1> HIDE DEF kept, live
<1>8. q \in Processes /\ q.live = live /\ q.tombs = kept /\ q.degraded = d
  BY <1>2, <1>3, <1>5, <1>7 DEF Processes
<1> HIDE DEF q
<1>9. q.live = Without(p.live, KeysOf(gone))
  BY <1>8 DEF live
<1>10. p.degraded \/ stored # Lost(gone) => q.degraded
  BY <1>3, <1>8
<1>11. ~ q.degraded => Range(q.tombs) = Range(p.tombs) \cup Lost(gone)
  BY <1>4, <1>6, <1>8
<1>12. Range(q.live) = {s \in Range(p.live) : s.key \notin KeysOf(gone)} /\ DistinctKeys(q.live)
  BY <1>7, <1>8
<1> QED
  BY <1>5, <1>8, <1>9, <1>10, <1>11, <1>12 DEF q

(* What the row of a key tells. *)
LEMMA SignalFacts ==
  ASSUME NEW row \in Rows \cup {NoRow}, NEW w
  PROVE  /\ Signal(row, w) \in {"resolved", "clearing", "claiming"}
         /\ row # NoRow /\ Signal(row, w) = "resolved" => ~ row.tombstoned /\ row.owner = w
         /\ Signal(row, w) # "resolved" => row # NoRow
BY DEF Signal

Remade(p, k, gone, stored, b, s, signal) ==
  LET ready == Degraded([AfterEviction(p, gone, stored) EXCEPT !.tombs = Except(@, {k})], b)
  IN  IF signal = "resolved" THEN WithSession(ready, s) ELSE ready

(* What the process q, that (re)created a session of k, kept of p. *)
Remakes(q, p, k, gone, stored, b, s, signal) ==
  /\ q \in Processes
  /\ Range(q.live) = {x \in Range(p.live) : x.key \notin KeysOf(gone)}
                     \cup (IF signal = "resolved" THEN {s} ELSE {})
  /\ DistinctKeys(q.live) /\ Len(q.live) <= MaxSessions
  /\ signal # "resolved" => Len(q.live) < MaxSessions
  /\ Len(q.tombs) <= TombstoneCap
  /\ p.degraded \/ b => q.degraded
  /\ stored # Lost(gone) => q.degraded
  /\ ~ q.degraded => Range(q.tombs) = (Range(p.tombs) \cup Lost(gone)) \ {k}

LEMMA RemadeFacts ==
  ASSUME NEW p \in Processes, NEW k \in Keys, NEW gone \in Seq(Sessions), NEW stored,
         NEW b \in BOOLEAN, NEW s \in Sessions, NEW signal,
         s.key = k, k \notin KeysOf(p.live), DistinctKeys(p.live), Len(p.tombs) <= TombstoneCap,
         Len(Without(p.live, KeysOf(gone))) < MaxSessions
  PROVE  Remakes(Remade(p, k, gone, stored, b, s, signal), p, k, gone, stored, b, s, signal)
<1> DEFINE roomy == AfterEviction(p, gone, stored)
           clear == Except(roomy.tombs, {k})
           r1 == [roomy EXCEPT !.tombs = clear]
           ready == Degraded(r1, b)
           full == WithSession(ready, s)
           l == Append(Without(ready.live, {s.key}), s)
           next == IF signal = "resolved" THEN full ELSE ready
<1>1. Remade(p, k, gone, stored, b, s, signal) = next
  BY DEF Remade
<1>3. \A x \in Range(p.live) : x.key # k
  BY DEF KeysOf
<1>5. /\ roomy \in Processes /\ DistinctKeys(roomy.live)
      /\ Range(roomy.live) = {x \in Range(p.live) : x.key \notin KeysOf(gone)}
      /\ Len(roomy.live) < MaxSessions
      /\ Len(roomy.tombs) <= TombstoneCap
      /\ p.degraded \/ stored # Lost(gone) => roomy.degraded
      /\ ~ roomy.degraded => Range(roomy.tombs) = Range(p.tombs) \cup Lost(gone)
  BY EvictionFacts
<1> HIDE DEF roomy
<1>6. roomy.tombs \in Seq(Keys)
  BY <1>5 DEF Processes
<1>7. /\ clear \in Seq(Keys) /\ Len(clear) <= TombstoneCap
      /\ Range(clear) = Range(roomy.tombs) \ {k}
  <2>1. /\ clear \in Seq(Keys) /\ Len(clear) \in 0 .. Len(roomy.tombs)
        /\ Range(clear) = Range(roomy.tombs) \ {k}
    BY <1>6, ExceptFacts
  <2> HIDE DEF clear
  <2>2. Len(roomy.tombs) \in Nat
    BY <1>6
  <2>3. Len(clear) <= TombstoneCap
    BY <1>5, <2>1, <2>2, ContinuityAssumption
  <2> QED
    BY <2>1, <2>3
<1> HIDE DEF clear
<1>8. /\ r1 \in Processes /\ r1.live = roomy.live /\ r1.tombs = clear
      /\ r1.degraded = roomy.degraded
  BY <1>5, <1>7 DEF Processes
<1> HIDE DEF r1
<1>9. /\ ready \in Processes /\ ready.live = roomy.live /\ ready.tombs = clear
      /\ ready.degraded <=> roomy.degraded \/ b
  BY <1>8, DegradedProcess
<1> HIDE DEF ready
<1>10. ready.live \in Seq(Sessions)
  BY <1>9 DEF Processes
<1>11. /\ l \in Seq(Sessions)
       /\ Range(l) = {x \in Range(ready.live) : x.key # s.key} \cup {s}
       /\ DistinctKeys(l) /\ Len(l) <= Len(ready.live) + 1
  <2>1. DistinctKeys(ready.live)
    BY <1>5, <1>9
  <2> QED
    BY <1>10, <2>1, WithSessionFacts
<1>12. full = [ready EXCEPT !.live = l]
  BY DEF WithSession
<1> HIDE DEF l
<1>13. /\ full \in Processes /\ full.live = l /\ full.tombs = ready.tombs
       /\ full.degraded = ready.degraded
  BY <1>9, <1>11, <1>12 DEF Processes
<1> HIDE DEF full
<1>14. /\ next \in Processes /\ next.tombs = clear /\ (next.degraded <=> roomy.degraded \/ b)
       /\ next.live = IF signal = "resolved" THEN l ELSE roomy.live
  BY <1>9, <1>13
<1>15. Len(roomy.live) \in Nat /\ Len(l) \in Nat
  BY <1>9, <1>10, <1>11
<1>16. /\ DistinctKeys(next.live) /\ Len(next.live) <= MaxSessions
       /\ signal # "resolved" => Len(next.live) < MaxSessions
       /\ Range(next.live) = {x \in Range(p.live) : x.key \notin KeysOf(gone)}
                             \cup (IF signal = "resolved" THEN {s} ELSE {})
  <2>1. CASE signal = "resolved"
    <3>1. Range(l) = Range(roomy.live) \cup {s}
      BY <1>3, <1>5, <1>9, <1>11
    <3>2. next.live = l
      BY <1>14, <2>1
    <3>3. Len(l) <= MaxSessions
      BY <1>5, <1>9, <1>11, <1>15, ContinuityAssumption
    <3>4. DistinctKeys(next.live) /\ Range(next.live) = Range(roomy.live) \cup {s}
      BY <1>11, <3>1, <3>2
    <3> HIDE DEF next
    <3>5. Range(next.live) = {x \in Range(p.live) : x.key \notin KeysOf(gone)}
                             \cup (IF signal = "resolved" THEN {s} ELSE {})
      BY <1>5, <2>1, <3>4
    <3> QED
      BY <2>1, <3>2, <3>3, <3>4, <3>5
  <2>2. CASE signal # "resolved"
    BY <1>5, <1>14, <1>15, <2>2, ContinuityAssumption
  <2> QED
    BY <2>1, <2>2
<1> HIDE DEF next
<1>17. stored # Lost(gone) => next.degraded
  BY <1>5, <1>14
<1>18. ~ next.degraded => Range(next.tombs) = (Range(p.tombs) \cup Lost(gone)) \ {k}
  BY <1>5, <1>7, <1>14
<1>19. /\ Len(next.tombs) <= TombstoneCap
       /\ p.degraded \/ b => next.degraded
  BY <1>5, <1>7, <1>14
<1> QED
  BY <1>1, <1>14, <1>16, <1>17, <1>18, <1>19 DEF Remakes

(* A key forgotten by the tombstones of a process degrades it. *)
LEMMA RemadeForgets ==
  ASSUME NEW p \in Processes, NEW k \in Keys, NEW gone \in Seq(Sessions), NEW stored,
         NEW b \in BOOLEAN, NEW s, NEW signal, NEW x,
         DistinctKeys(p.live), Len(p.tombs) <= TombstoneCap,
         x \in Range(p.tombs), x \notin Range(AfterEviction(p, gone, stored).tombs)
  PROVE  Remade(p, k, gone, stored, b, s, signal).degraded
<1> DEFINE roomy == AfterEviction(p, gone, stored)
           clear == Except(roomy.tombs, {k})
           r1 == [roomy EXCEPT !.tombs = clear]
           ready == Degraded(r1, b)
           l == Append(Without(ready.live, {s.key}), s)
<1>1. roomy \in Processes /\ roomy.degraded = TRUE
  <2>1. roomy \in Processes
    BY EvictionFacts
  <2>2. ~ roomy.degraded => Range(roomy.tombs) = Range(p.tombs) \cup Lost(gone)
    BY EvictionFacts
  <2> QED
    BY <2>1, <2>2 DEF Processes
<1> HIDE DEF roomy
<1>2. clear \in Seq(Keys)
  BY <1>1, ExceptFacts DEF Processes
<1> HIDE DEF clear
<1>3. r1 \in Processes /\ r1.degraded = TRUE
  BY <1>1, <1>2 DEF Processes
<1> HIDE DEF r1
<1>4. ready.degraded /\ ready \in Processes
  BY <1>3, DegradedProcess
<1> HIDE DEF ready, l
<1>5. [ready EXCEPT !.live = l].degraded
  BY <1>4 DEF Processes
<1>6. WithSession(ready, s) = [ready EXCEPT !.live = l]
  BY DEF WithSession, l
<1>7. Remade(p, k, gone, stored, b, s, signal) =
        IF signal = "resolved" THEN WithSession(ready, s) ELSE ready
  BY DEF Remade, ready, r1, clear, roomy
<1> QED
  BY <1>4, <1>5, <1>6, <1>7

(* An evaluation that may have lost its session. *)
LEMMA OrphanedEvaluation ==
  ASSUME NEW e \in Evaluations, NEW b \in BOOLEAN
  PROVE  LET f == [e EXCEPT !.orphan = b]
         IN  /\ f \in Evaluations /\ f.step = e.step /\ f.worker = e.worker /\ f.key = e.key
             /\ f.orphan = b /\ f.broken = e.broken /\ f.blind = e.blind
BY DEF Evaluations

(* The evaluations after a session was created, or its signal read. *)
LEMMA ThreadsAfterFacts ==
  ASSUME IInv, NEW t \in Threads, NEW w \in Workers, NEW gone, NEW s \in Sessions,
         NEW signal \in {"resolved", "clearing", "claiming"},
         thread[t].step = "counted", thread[t].worker = w,
         thread' = ThreadsAfter(t, w, gone, signal, s)
  PROVE  /\ thread' \in [Threads -> Evaluations]
         /\ thread'[t].step = signal /\ thread'[t].worker = w
         /\ thread'[t].key = thread[t].key /\ ~ thread'[t].orphan
         /\ signal = "resolved" => thread'[t].broken = s.broken /\ thread'[t].blind = ~ s.whole
         /\ \A u \in Threads \ {t} :
              /\ thread'[u].step = thread[u].step /\ thread'[u].worker = thread[u].worker
              /\ thread'[u].key = thread[u].key /\ thread'[u].broken = thread[u].broken
              /\ thread'[u].blind = thread[u].blind
              /\ thread'[u].orphan <=> thread[u].orphan \/ \E x \in KeysOf(gone) : Uses(u, w, x)
<1>1. thread[t] \in Evaluations /\ ~ thread[t].orphan
  BY InvParts DEF OrphansRemembered, Has
<1>2. /\ thread'[t] \in Evaluations /\ thread'[t].step = signal /\ thread'[t].worker = w
      /\ thread'[t].key = thread[t].key /\ ~ thread'[t].orphan
      /\ signal = "resolved" => thread'[t].broken = s.broken /\ thread'[t].blind = ~ s.whole
  <2>1. CASE signal = "resolved"
    <3>1. thread'[t] = Resolved(thread[t], s)
      BY <2>1 DEF ThreadsAfter, AfterCreate
    <3> QED
      BY <1>1, <2>1, <3>1, ResolvedEvaluation
  <2>2. CASE signal # "resolved"
    <3>1. thread'[t] = [thread[t] EXCEPT !.step = signal]
      BY <2>2 DEF ThreadsAfter, AfterCreate
    <3>2. signal \in Steps
      BY DEF Steps
    <3> QED
      BY <1>1, <2>2, <3>1, <3>2, MovedEvaluation
  <2> QED
    BY <2>1, <2>2
<1>3. ASSUME NEW u \in Threads \ {t}
      PROVE  /\ thread'[u] \in Evaluations
             /\ thread'[u].step = thread[u].step /\ thread'[u].worker = thread[u].worker
             /\ thread'[u].key = thread[u].key /\ thread'[u].broken = thread[u].broken
             /\ thread'[u].blind = thread[u].blind
             /\ thread'[u].orphan <=> thread[u].orphan \/ \E x \in KeysOf(gone) : Uses(u, w, x)
  <2> DEFINE b == thread[u].orphan \/ \E x \in KeysOf(gone) : Uses(u, w, x)
  <2>1. thread[u] \in Evaluations
    BY InvParts
  <2>2. b \in BOOLEAN
    BY <2>1 DEF Evaluations
  <2>3. thread'[u] = [thread[u] EXCEPT !.orphan = b]
    BY DEF ThreadsAfter
  <2>4. b <=> thread[u].orphan \/ \E x \in KeysOf(gone) : Uses(u, w, x)
    OBVIOUS
  <2> HIDE DEF b
  <2> QED
    BY <2>1, <2>2, <2>3, <2>4, OrphanedEvaluation
<1>4. thread' = [u \in Threads |-> thread'[u]]
  BY DEF ThreadsAfter
<1>5. thread' \in [Threads -> Evaluations]
  BY <1>2, <1>3, <1>4
<1> QED
  BY <1>2, <1>3, <1>5

(* Recreate: an eviction, and a session created or its signal read. *)
LEMMA RecreateKeeps ==
  ASSUME IInv, NEW t \in Threads, Recreate(t)
  PROVE  IInv'
<1>1. PICK w \in Workers, k \in Keys : w = thread[t].worker /\ k = thread[t].key
  BY InvParts DEF Recreate, Shape, InFlight
<1>2. /\ thread[t].step = "counted" /\ ~ Registered(w, k) /\ former' = former
      /\ \A u \in Threads : ~ (Consuming(u) /\ thread[u].worker = w)
      /\ ~ Consuming(t) /\ ~ Has(t) /\ ~ Asked(t)
  BY <1>1 DEF Recreate, Unlocked, Consuming, Has, Asked
<1>3. PICK idle \in 0 .. Len(proc[w].live), found \in StoreOutcomes, touched \in StoreOutcomes :
        LET gone == Dropped(proc[w].live, idle)
        IN  \E stored \in IF MayFail THEN SUBSET Lost(gone) ELSE {Lost(gone)},
               flagged \in IF Forgets(w, gone) THEN StoreOutcomes ELSE {TRUE} :
              EvictAndCreate(t, w, k, gone, stored, found, touched, flagged)
  BY ZenonT(60), <1>1 DEF Recreate
<1>4. PICK gone \in Seq(Sessions) :
        /\ gone = Dropped(proc[w].live, idle) /\ Range(gone) \subseteq SessionsOf(w)
        /\ Len(Without(proc[w].live, KeysOf(gone))) < MaxSessions
  <2>1. proc[w].live \in Seq(Sessions) /\ DistinctKeys(proc[w].live)
        /\ Len(proc[w].live) <= MaxSessions
    BY InvParts DEF Room
  <2> DEFINE g == Dropped(proc[w].live, idle)
  <2>2. g \in Seq(Sessions) /\ Range(g) \subseteq SessionsOf(w)
    BY <1>3, <2>1, DroppedFacts DEF SessionsOf
  <2>3. Len(Without(proc[w].live, KeysOf(g))) < MaxSessions
    BY <1>3, <2>1, RoomMade
  <2> QED
    BY <2>2, <2>3
<1>5. PICK stored \in SUBSET Lost(gone), flagged \in BOOLEAN :
        EvictAndCreate(t, w, k, gone, stored, found, touched, flagged)
  BY <1>3, <1>4, Outcomes
<1>6. Lost(gone) \subseteq KeysOf(gone) /\ KeysOf(gone) \subseteq Keys /\ k \notin KeysOf(gone)
  <2>1. \A x \in SessionsOf(w) : x.key # k
    BY <1>2 DEF Registered, KeysOf, SessionsOf
  <2> QED
    BY <1>4, <2>1, LostFacts DEF KeysOf
<1>7. \A x \in SessionsOf(w) : x.key \in KeysOf(gone) => x \in Range(gone)
  BY <1>4, OneSessionPerKey DEF KeysOf
<1>0. /\ rows \in [Keys -> Rows \cup {NoRow}] /\ Buried(w, stored) \in [Keys -> Rows \cup {NoRow}]
      /\ \A x \in Keys : rows[x] # NoRow => Buried(w, stored)[x] # NoRow
      /\ \A x \in Keys : Buried(w, stored)[x] = rows[x] \/ Buried(w, stored)[x].tombstoned
      /\ Buried(w, stored)[k] = rows[k]
  <2>1. rows \in [Keys -> Rows \cup {NoRow}]
    BY InvParts DEF Shape
  <2>2. [tombstoned |-> TRUE, owner |-> w] \in Rows
    BY DEF Rows
  <2>3. k \notin stored
    BY <1>5, <1>6
  <2> QED
    BY <2>1, <2>2, <2>3, NoRowAssumption DEF Buried
<1>8. PICK signal \in {"resolved", "clearing", "claiming"} :
        /\ signal = IF found THEN Signal(rows[k], w) ELSE "resolved"
        /\ signal # "resolved" => rows[k] # NoRow
        /\ found /\ signal = "resolved" /\ rows[k] # NoRow =>
             ~ rows[k].tombstoned /\ rows[k].owner = w
  <2>1. rows[k] \in Rows \cup {NoRow}
    BY <1>0
  <2> QED
    BY <2>1, SignalFacts
<1>9. PICK b \in BOOLEAN, broken \in BOOLEAN :
        /\ b = (~ touched \/ ~ found)
        /\ broken = (~ found \/ k \in Range(AfterEviction(proc[w], gone, stored).tombs))
  OBVIOUS
<1>10. PICK s \in Sessions :
         /\ s = NewSession(k, broken)
         /\ s.key = k /\ ~ s.acc /\ s.broken = broken
         /\ s.whole <=> k \notin past.granted
  BY NewSessionFacts
<1>11. /\ leased' = Renewed(w, touched) /\ rows' = Buried(w, stored)
       /\ marked' = (marked \/ (Forgets(w, gone) /\ flagged))
       /\ thread' = ThreadsAfter(t, w, gone, signal, s)
       /\ past' = [past EXCEPT
            !.gaps = @ \cup Slipping(w, gone) \cup (IF HeldElsewhere(w, k) THEN {k} ELSE {}),
            !.lost[w] = (@ \cup Lost(gone)) \ {k}]
  BY <1>0, <1>5, <1>8, <1>9, <1>10 DEF EvictAndCreate
<1>12. proc' = [proc EXCEPT ![w] = Remade(proc[w], k, gone, stored, b, s, signal)]
  BY <1>0, <1>5, <1>8, <1>9, <1>10 DEF EvictAndCreate, Remade
<1>13. PICK q \in Processes :
         /\ q = Remade(proc[w], k, gone, stored, b, s, signal)
         /\ Range(q.live) = {x \in Range(proc[w].live) : x.key \notin KeysOf(gone)}
                            \cup (IF signal = "resolved" THEN {s} ELSE {})
         /\ DistinctKeys(q.live) /\ Len(q.live) <= MaxSessions
         /\ signal # "resolved" => Len(q.live) < MaxSessions
         /\ Len(q.tombs) <= TombstoneCap
         /\ proc[w].degraded \/ b => q.degraded
         /\ stored # Lost(gone) => q.degraded
         /\ ~ q.degraded => Range(q.tombs) = (Range(proc[w].tombs) \cup Lost(gone)) \ {k}
  <2>1. /\ s.key = k /\ k \notin KeysOf(proc[w].live) /\ proc[w] \in Processes
        /\ DistinctKeys(proc[w].live) /\ Len(proc[w].tombs) <= TombstoneCap
        /\ Len(Without(proc[w].live, KeysOf(gone))) < MaxSessions
    BY <1>2, <1>4, <1>10, InvParts DEF Registered, Room
  <2> DEFINE r == Remade(proc[w], k, gone, stored, b, s, signal)
  <2>2. Remakes(r, proc[w], k, gone, stored, b, s, signal)
    BY <2>1, RemadeFacts
  <2> HIDE DEF r
  <2> QED
    BY <2>2 DEF r, Remakes
<1>14. /\ proc' \in [Workers -> Processes] /\ proc'[w] = q
       /\ \A v \in Workers : v # w => proc'[v] = proc[v]
  BY <1>12, <1>13, InvParts DEF Shape
<1>15. SessionsOf(w)' = {x \in SessionsOf(w) : x.key \notin KeysOf(gone)}
                        \cup (IF signal = "resolved" THEN {s} ELSE {})
  BY <1>13, <1>14 DEF SessionsOf
<1>16. /\ past' \in [granted : SUBSET Keys, gaps : SUBSET Keys, lost : [Workers -> SUBSET Keys]]
       /\ past'.granted = past.granted /\ past.gaps \subseteq past'.gaps
       /\ Slipping(w, gone) \subseteq past'.gaps
       /\ HeldElsewhere(w, k) => k \in past'.gaps
       /\ past'.lost[w] = (past.lost[w] \cup Lost(gone)) \ {k}
       /\ \A v \in Workers : v # w => past'.lost[v] = past.lost[v]
  <2> DEFINE g == past.gaps \cup Slipping(w, gone) \cup (IF HeldElsewhere(w, k) THEN {k} ELSE {})
             l == [past.lost EXCEPT ![w] = (past.lost[w] \cup Lost(gone)) \ {k}]
             p1 == [past EXCEPT !.gaps = g]
             p2 == [p1 EXCEPT !.lost = l]
  <2>1. past \in [granted : SUBSET Keys, gaps : SUBSET Keys, lost : [Workers -> SUBSET Keys]]
    BY InvParts DEF Shape
  <2>2. Slipping(w, gone) \subseteq KeysOf(gone)
    BY DEF Slipping, KeysOf
  <2>3. g \in SUBSET Keys /\ past.gaps \subseteq g /\ Slipping(w, gone) \subseteq g
        /\ (HeldElsewhere(w, k) => k \in g)
    BY <1>6, <2>1, <2>2
  <2>4. /\ l \in [Workers -> SUBSET Keys] /\ l[w] = (past.lost[w] \cup Lost(gone)) \ {k}
        /\ \A v \in Workers : v # w => l[v] = past.lost[v]
    BY <1>6, <2>1
  <2>5. past' = p2
    BY <1>11, <2>1
  <2> HIDE DEF g, l
  <2> QED
    BY <2>1, <2>3, <2>4, <2>5
<1>17. /\ thread' \in [Threads -> Evaluations]
       /\ thread'[t].step = signal /\ thread'[t].worker = w
       /\ thread'[t].key = k /\ ~ thread'[t].orphan
       /\ signal = "resolved" => thread'[t].broken = s.broken /\ thread'[t].blind = ~ s.whole
       /\ \A u \in Threads \ {t} :
            /\ thread'[u].step = thread[u].step /\ thread'[u].worker = thread[u].worker
            /\ thread'[u].key = thread[u].key /\ thread'[u].broken = thread[u].broken
            /\ thread'[u].blind = thread[u].blind
            /\ thread'[u].orphan <=> thread[u].orphan \/ \E x \in KeysOf(gone) : Uses(u, w, x)
  <2>1. thread[t].step = "counted" /\ thread[t].worker = w /\ thread[t].key = k
    BY <1>1, <1>2
  <2>2. thread' = ThreadsAfter(t, w, gone, signal, s)
    BY <1>11
  <2>3. /\ thread' \in [Threads -> Evaluations]
        /\ thread'[t].step = signal /\ thread'[t].worker = w
        /\ thread'[t].key = thread[t].key /\ ~ thread'[t].orphan
        /\ signal = "resolved" => thread'[t].broken = s.broken /\ thread'[t].blind = ~ s.whole
        /\ \A u \in Threads \ {t} :
             /\ thread'[u].step = thread[u].step /\ thread'[u].worker = thread[u].worker
             /\ thread'[u].key = thread[u].key /\ thread'[u].broken = thread[u].broken
             /\ thread'[u].blind = thread[u].blind
             /\ thread'[u].orphan <=> thread[u].orphan \/ \E x \in KeysOf(gone) : Uses(u, w, x)
    BY <2>1, <2>2, ThreadsAfterFacts
  <2> QED
    BY <2>1, <2>3
<1>18. Shape'
  <2>1. \A u \in Threads : InFlight(u)' => thread'[u].worker \in Workers /\ thread'[u].key \in Keys
    BY <1>17, InvParts DEF Shape, InFlight
  <2>2. leased' \in SUBSET Workers /\ former' \in SUBSET Workers /\ marked' \in BOOLEAN
    BY <1>2, <1>11, InvParts DEF Shape, Renewed
  <2>3. rows' \in [Keys -> Rows \cup {NoRow}]
    BY <1>0, <1>11
  <2> QED
    BY <1>14, <1>16, <1>17, <2>1, <2>2, <2>3 DEF Shape
<1>19. Room'
  BY <1>13, <1>14, InvParts DEF Room
<1>20. \A v \in Workers : \A x : Known(v, x) => Known(v, x)'
  BY <1>13, <1>14, <1>16 DEF Known
<1>21. \A v \in Workers : v # w => SessionsOf(v)' = SessionsOf(v)
  BY <1>14 DEF SessionsOf
(* A session that goes leaves a trace, unless it is empty and nobody cares. *)
<1>22. ASSUME NEW y \in SessionsOf(w)
       PROVE  \/ y \in SessionsOf(w)' /\ y.key \notin KeysOf(gone)
              \/ y.acc /\ y.key \in past'.lost[w]
              \/ y.key \in past'.gaps
              \/ ~ y.acc /\ ~ y.broken /\ ~ \E u \in Threads : Uses(u, w, y.key)
  <2>1. CASE y.key \notin KeysOf(gone)
    BY <1>15, <2>1
  <2>2. CASE y.key \in KeysOf(gone) /\ y.acc
    <3>1. y.key \in Lost(gone) /\ y.key # k
      BY <1>6, <1>7, <2>2 DEF Lost
    <3> QED
      BY <1>16, <2>2, <3>1
  <2>3. CASE y.key \in KeysOf(gone) /\ ~ y.acc /\ (y.broken \/ \E u \in Threads : Uses(u, w, y.key))
    <3>1. y.key \in Slipping(w, gone)
      BY <1>7, <2>3 DEF Slipping
    <3> QED
      BY <1>16, <3>1
  <2> QED
    BY <2>1, <2>2, <2>3
<1>23. \A u \in Threads : Consuming(u)' <=> IF u = t THEN signal # "resolved" ELSE Consuming(u)
  BY <1>17 DEF Consuming
<1>24. \A u \in Threads \ {t} : (Has(u)' <=> Has(u)) /\ (Asked(u)' <=> Asked(u))
  BY <1>17 DEF Has, Asked
(* What a process discarded of k before is in its tombstones. *)
<1>25. k \in past.lost[w] => s.broken \/ proc'[w].degraded
  <2> SUFFICES ASSUME k \in past.lost[w], ~ proc'[w].degraded PROVE s.broken
    OBVIOUS
  <2>1. ~ proc[w].degraded
    BY <1>13, <1>14
  <2>2. k \in Range(proc[w].tombs)
    BY <2>1, InvParts DEF ForgottenMeansDegraded
  <2>3. k \in Range(AfterEviction(proc[w], gone, stored).tombs)
    <3>1. DistinctKeys(proc[w].live) /\ Len(proc[w].tombs) <= TombstoneCap
          /\ proc[w] \in Processes
      BY InvParts DEF Room
    <3>2. ASSUME k \notin Range(AfterEviction(proc[w], gone, stored).tombs)
          PROVE  Remade(proc[w], k, gone, stored, b, s, signal).degraded
      BY <2>2, <3>1, <3>2, RemadeForgets
    <3> QED
      BY <1>13, <1>14, <3>2
  <2> QED
    BY <1>9, <1>10, <2>3
<1>26. \A v \in Workers : \A x : Remembered(v, x) => Remembered(v, x)'
  <2> SUFFICES ASSUME NEW v \in Workers, NEW x, Remembered(v, x) PROVE Remembered(v, x)'
    OBVIOUS
  <2>1. CASE Known(v, x)
    BY <1>20, <2>1 DEF Remembered
  <2>2. CASE x \in past.lost[v]
    <3>1. CASE v # w \/ x # k
      <4>1. x \in past'.lost[v]
        BY <1>16, <2>2, <3>1
      <4> QED
        BY <4>1 DEF Remembered
    <3>2. CASE v = w /\ x = k
      <4>1. CASE signal = "resolved"
        <5>1. s \in SessionsOf(w)'
          BY <1>15, <4>1
        <5> QED
          BY <1>10, <1>25, <2>2, <3>2, <5>1 DEF Remembered, Known
      <4>2. CASE signal # "resolved"
        <5>1. Pending(w, k)'
          BY <1>17, <1>23, <4>2 DEF Pending
        <5> QED
          BY <3>2, <5>1 DEF Remembered
      <4> QED
        BY <4>1, <4>2
    <3> QED
      BY <3>1, <3>2
  <2>3. CASE Pending(v, x)
    <3>1. Pending(v, x)'
      BY <1>2, <1>17, <1>23, <2>3 DEF Pending
    <3> QED
      BY <3>1 DEF Remembered
  <2>4. CASE \E y \in SessionsOf(v) : y.key = x /\ y.broken
    <3>1. CASE v # w
      BY <1>21, <2>4, <3>1 DEF Remembered
    <3>2. CASE v = w
      BY <1>22, <2>4, <3>2 DEF Remembered, Known
    <3> QED
      BY <3>1, <3>2
  <2> QED
    BY <2>1, <2>2, <2>3, <2>4 DEF Remembered
<1>27. \A v \in Workers : \A x : Holds(v, x)' => Holds(v, x) \/ (v = w /\ x = k)
  BY <1>10, <1>15, <1>17, <1>21, <1>24 DEF Holds
(* The new session is broken, if its key ever had authority, or w knows.   *)
<1>28. signal = "resolved" /\ k \in past.granted => s.broken \/ Known(w, k)'
  <2> SUFFICES ASSUME signal = "resolved", k \in past.granted, ~ Known(w, k)' PROVE s.broken
    OBVIOUS
  <2>1. ~ Known(w, k)
    BY <1>20
  <2>2. rows[k] # NoRow
    BY <2>1, InvParts DEF Recorded, Known
  <2>3. CASE ~ found
    BY <1>9, <1>10, <2>3
  <2>4. CASE found
    <3>1. ~ rows[k].tombstoned /\ rows[k].owner = w
      BY <1>8, <2>2, <2>4
    <3>2. \A y \in SessionsOf(w) : y.key # k
      BY <1>2 DEF Registered, KeysOf, SessionsOf
    <3>3. Remembered(w, k)
      BY <2>2, <3>1, <3>2, InvParts DEF RowsExplained
    <3>4. k \in past.lost[w]
      BY <1>2, <2>1, <3>2, <3>3 DEF Remembered, Pending
    <3> QED
      BY <1>25, <3>4 DEF Known
  <2> QED
    BY <2>3, <2>4
<1>29. Locked'
  <2>1. ASSUME NEW u \in Threads, Consuming(u)'
        PROVE  /\ rows'[thread'[u].key] # NoRow
               /\ thread'[u].key \notin past'.lost[thread'[u].worker]
               /\ \A x \in SessionsOf(thread[u].worker)' : x.key # thread'[u].key
               /\ Len(proc'[thread'[u].worker].live) < MaxSessions
               /\ \A o \in Threads : Consuming(o)' /\ thread'[o].worker = thread'[u].worker
                                     => o = u
    <3>1. CASE u = t
      <4>1. signal # "resolved" /\ rows'[k] # NoRow
        BY <1>0, <1>8, <1>11, <1>23, <2>1, <3>1
      <4>2. k \notin past'.lost[w] /\ Len(proc'[w].live) < MaxSessions
        BY <1>13, <1>14, <1>16, <4>1
      <4>3. \A x \in SessionsOf(w)' : x.key # k
        BY <1>2, <1>15, <4>1 DEF Registered, KeysOf, SessionsOf
      <4>4. \A o \in Threads : Consuming(o)' /\ thread'[o].worker = w => o = t
        BY <1>2, <1>17, <1>23
      <4> QED
        BY <1>17, <3>1, <4>1, <4>2, <4>3, <4>4
    <3>2. CASE u # t
      <4>1. Consuming(u) /\ thread'[u].worker = thread[u].worker /\ thread'[u].key = thread[u].key
        BY <1>17, <1>23, <2>1, <3>2
      <4>2. PICK v \in Workers, x \in Keys : v = thread[u].worker /\ x = thread[u].key
        BY <4>1, InvParts
      <4>3. v # w
        BY <1>2, <4>1, <4>2
      <4>4. rows'[x] # NoRow /\ x \notin past'.lost[v]
        BY <1>0, <1>11, <1>16, <4>1, <4>2, <4>3, InvParts DEF Locked
      <4>5. (\A y \in SessionsOf(v)' : y.key # x) /\ Len(proc'[v].live) < MaxSessions
        BY <1>14, <1>21, <4>1, <4>2, <4>3, InvParts DEF Locked
      <4>6. \A o \in Threads : Consuming(o)' /\ thread'[o].worker = v => o = u
        BY <1>17, <1>23, <4>1, <4>2, <4>3, InvParts DEF Locked
      <4> QED
        BY <4>1, <4>2, <4>4, <4>5, <4>6
    <3> QED
      BY <3>1, <3>2
  <2>2. \A u \in Threads : thread'[u].worker = thread[u].worker
    BY <1>1, <1>17
  <2> QED
    BY <2>1, <2>2 DEF Locked
<1>30. LostAreGone'
  <2>1. ASSUME NEW v \in Workers, NEW y \in SessionsOf(v)' PROVE y.key \notin past'.lost[v]
    <3>1. CASE v # w
      BY <1>16, <1>21, <2>1, <3>1, InvParts DEF LostAreGone
    <3>2. CASE v = w /\ y \in SessionsOf(w) /\ y.key \notin KeysOf(gone)
      BY <1>6, <1>16, <3>2, InvParts DEF LostAreGone
    <3>3. CASE v = w /\ y = s
      BY <1>10, <1>16, <3>3
    <3> QED
      BY <1>15, <2>1, <3>1, <3>2, <3>3
  <2> QED
    BY <2>1 DEF LostAreGone
<1>31. InUse'
  <2>1. ASSUME NEW u \in Threads, Has(u)', ~ thread'[u].orphan
        PROVE  \E x \in SessionsOf(thread[u].worker)' :
                 x.key = thread'[u].key /\ (thread'[u].step # "resolved" => x.acc)
    <3>1. CASE u = t
      <4>1. signal = "resolved"
        BY <1>8, <1>17, <2>1, <3>1 DEF Has
      <4>2. s \in SessionsOf(w)'
        BY <1>15, <4>1
      <4> QED
        BY <1>10, <1>17, <3>1, <4>1, <4>2
    <3>2. CASE u # t
      <4>1. /\ Has(u) /\ ~ thread[u].orphan /\ ~ \E x \in KeysOf(gone) : Uses(u, w, x)
            /\ thread'[u].worker = thread[u].worker /\ thread'[u].key = thread[u].key
            /\ thread'[u].step = thread[u].step
        BY <1>17, <1>24, <2>1, <3>2
      <4>2. PICK v \in Workers : v = thread[u].worker
        BY <4>1, InvParts
      <4>3. PICK x \in SessionsOf(v) :
              x.key = thread[u].key /\ (thread[u].step # "resolved" => x.acc)
        BY <4>1, <4>2, InvParts DEF InUse
      <4>4. x \in SessionsOf(v)'
        <5>1. CASE v = w
          <6>1. Uses(u, w, x.key)
            BY <4>1, <4>2, <4>3, <5>1 DEF Uses, Has
          <6>2. x.key \notin KeysOf(gone)
            BY <4>1, <6>1
          <6> QED
            BY <1>15, <4>3, <5>1, <6>2
        <5>2. CASE v # w
          BY <1>21, <4>3, <5>2
        <5> QED
          BY <5>1, <5>2
      <4> QED
        BY <4>1, <4>2, <4>3, <4>4
    <3> QED
      BY <3>1, <3>2
  <2>2. \A u \in Threads : thread'[u].worker = thread[u].worker
    BY <1>1, <1>17
  <2> QED
    BY <2>1, <2>2 DEF InUse
<1>32. OrphansRemembered'
  <2>1. ASSUME NEW u \in Threads, thread'[u].orphan
        PROVE  Has(u)' /\ Remembered(thread[u].worker, thread[u].key)'
    <3>1. u # t /\ (thread[u].orphan \/ \E x \in KeysOf(gone) : Uses(u, w, x))
          /\ thread'[u].worker = thread[u].worker /\ thread'[u].key = thread[u].key
      BY <1>17, <2>1
    <3>2. Has(u)
      BY <3>1, InvParts DEF OrphansRemembered, Uses, Has
    <3>3. PICK v \in Workers, x \in Keys : v = thread[u].worker /\ x = thread[u].key
      BY <3>2, InvParts
    <3>4. Remembered(v, x)'
      <4>1. CASE thread[u].orphan
        BY <1>26, <3>3, <4>1, InvParts DEF OrphansRemembered
      <4>2. CASE ~ thread[u].orphan
        <5>1. v = w /\ x \in KeysOf(gone) /\ Uses(u, w, x)
          BY <3>1, <3>3, <4>2 DEF Uses
        <5>2. PICK y \in SessionsOf(w) : y.key = x
          BY <3>2, <3>3, <4>2, <5>1, InvParts DEF InUse
        <5> QED
          BY <1>22, <5>1, <5>2 DEF Remembered, Known
      <4> QED
        BY <4>1, <4>2
    <3> QED
      BY <1>24, <3>1, <3>2, <3>3, <3>4
  <2>2. \A u \in Threads : thread'[u].worker = thread[u].worker
    BY <1>1, <1>17
  <2>3. \A u \in Threads : thread'[u].key = thread[u].key
    BY <1>1, <1>17
  <2> QED
    BY <2>1, <2>2, <2>3 DEF OrphansRemembered
<1>33. RowsExplained'
  <2>1. ASSUME NEW x \in Keys, NEW v \in Workers, rows'[x] # NoRow, ~ rows'[x].tombstoned,
               rows'[x].owner = v
        PROVE  \/ Remembered(v, x)'
               \/ \E y \in SessionsOf(v)' : y.key = x /\ y.acc
    <3>1. rows'[x] = rows[x]
      BY <1>0, <1>11, <2>1
    <3>2. CASE Remembered(v, x)
      BY <1>26, <3>2
    <3>3. CASE \E y \in SessionsOf(v) : y.key = x /\ y.acc
      <4>1. CASE v # w
        BY <1>21, <3>3, <4>1
      <4>2. CASE v = w
        BY <1>22, <3>3, <4>2 DEF Remembered, Known
      <4> QED
        BY <4>1, <4>2
    <3> QED
      BY <2>1, <3>1, <3>2, <3>3, InvParts DEF RowsExplained
  <2> QED
    BY <2>1 DEF RowsExplained
<1>34. CleanExplained'
  <2>1. ASSUME NEW v \in Workers, NEW y \in SessionsOf(v)', Missing(y)'
        PROVE  y.broken \/ Known(v, y.key)'
    <3>1. CASE y \in SessionsOf(v)
      <4>1. Missing(y)
        BY <1>16, <2>1 DEF Missing
      <4> QED
        BY <1>20, <3>1, <4>1, InvParts DEF CleanExplained
    <3>2. CASE v = w /\ y = s /\ signal = "resolved"
      <4>1. k \in past.granted
        BY <1>10, <1>16, <2>1, <3>2 DEF Missing
      <4> QED
        BY <1>10, <1>28, <3>2, <4>1
    <3> QED
      BY <1>15, <1>21, <2>1, <3>1, <3>2
  <2> QED
    BY <2>1 DEF CleanExplained
<1>35. Recorded'
  <2>1. \A x \in Keys : rows[x] # NoRow => rows'[x] # NoRow
    BY <1>0, <1>11
  <2>2. \A u \in Threads : thread'[u].step = "noted" =>
          thread[u].step = "noted" /\ thread'[u].key = thread[u].key
    BY <1>8, <1>17
  <2> QED
    BY <1>16, <2>1, <2>2, InvParts DEF Recorded
<1>36. HeldOnce'
  <2>1. ASSUME NEW v \in Workers, v # w, Holds(v, k)' PROVE k \in past'.gaps
    <3>1. Holds(v, k)
      BY <1>27, <2>1
    <3>2. HeldElsewhere(w, k)
      BY <2>1, <3>1 DEF Holds, HeldElsewhere, Registered, KeysOf, SessionsOf, Asked, InFlight
    <3> QED
      BY <1>16, <3>2
  <2> QED
    BY <1>16, <1>27, <2>1, InvParts DEF HeldOnce
<1>37. BlindExplained'
  <2>1. ASSUME NEW u \in Threads, Has(u)', thread'[u].blind
        PROVE  thread'[u].broken \/ Known(thread[u].worker, thread[u].key)'
    <3>1. CASE u = t
      <4>1. signal = "resolved"
        BY <1>8, <1>17, <2>1, <3>1 DEF Has
      <4>2. k \in past.granted /\ thread'[t].broken = s.broken
        BY <1>10, <1>17, <2>1, <3>1, <4>1
      <4>3. s.broken \/ Known(w, k)'
        BY <1>28, <4>1, <4>2
      <4> QED
        BY <1>17, <3>1, <4>2, <4>3 DEF Known
    <3>2. CASE u # t
      <4>1. /\ Has(u) /\ thread[u].blind /\ thread'[u].broken = thread[u].broken
            /\ thread'[u].worker = thread[u].worker /\ thread'[u].key = thread[u].key
        BY <1>17, <1>24, <2>1, <3>2
      <4>2. PICK v \in Workers, x \in Keys : v = thread[u].worker /\ x = thread[u].key
        BY <4>1, InvParts
      <4>3. thread[u].broken \/ Known(v, x)'
        BY <1>20, <4>1, <4>2, InvParts DEF BlindExplained
      <4> QED
        BY <4>1, <4>2, <4>3
    <3> QED
      BY <3>1, <3>2
  <2>2. \A u \in Threads : thread'[u].worker = thread[u].worker /\ thread'[u].key = thread[u].key
    BY <1>1, <1>17
  <2> QED
    BY <2>1, <2>2 DEF BlindExplained
<1>38. ForgottenMeansDegraded'
  <2>1. proc'[w].degraded \/ past'.lost[w] \subseteq Range(proc'[w].tombs)
    <3>1. CASE ~ proc'[w].degraded
      <4>1. Range(proc'[w].tombs) = (Range(proc[w].tombs) \cup Lost(gone)) \ {k}
        BY <1>13, <1>14, <3>1
      <4>2. past.lost[w] \subseteq Range(proc[w].tombs)
        BY <1>13, <1>14, <3>1, InvParts DEF ForgottenMeansDegraded
      <4> QED
        BY <1>16, <4>1, <4>2
    <3> QED
      BY <3>1
  <2> QED
    BY <1>14, <1>16, <2>1, InvParts DEF ForgottenMeansDegraded
<1> QED
  BY <1>18, <1>19, <1>29, <1>30, <1>31, <1>32, <1>33, <1>34, <1>35, <1>36, <1>37, <1>38
  DEF IInv, Story

(* Every step keeps the invariant. *)
LEMMA NextIInv == IInv /\ [Next]_vars => IInv'
<1> SUFFICES ASSUME IInv, [Next]_vars PROVE IInv'
  OBVIOUS
<1>1. ASSUME NEW t \in Threads, NEW w \in Workers, NEW k \in Keys, Begin(t, w, k) PROVE IInv'
  BY <1>1, BeginKeeps
<1>2. ASSUME NEW t \in Threads, Reuse(t) PROVE IInv'
  BY <1>2, ReuseKeeps
<1>3. ASSUME NEW t \in Threads, Recreate(t) PROVE IInv'
  BY <1>3, RecreateKeeps
<1>4. ASSUME NEW t \in Threads, Consume(t) PROVE IInv'
  BY <1>4, ConsumeKeeps
<1>5. ASSUME NEW t \in Threads, Apply(t) PROVE IInv'
  BY <1>5, ApplyKeeps
<1>6. ASSUME NEW t \in Threads, Note(t) PROVE IInv'
  BY <1>6, NoteKeeps
<1>7. ASSUME NEW t \in Threads, Answer(t) PROVE IInv'
  BY <1>7, AnswerKeeps
<1>8. ASSUME NEW t \in Threads, EvalFails(t) PROVE IInv'
  BY <1>8, EvalFailsKeeps
<1>9. ASSUME NEW w \in Workers, Restart(w) PROVE IInv'
  BY <1>9, RestartKeeps
<1>10. ASSUME NEW w \in Workers, LeaseExpires(w) PROVE IInv'
  BY <1>10, LeaseExpiresKeeps
<1>11. ASSUME NEW w \in Workers, FormerExpires(w) PROVE IInv'
  BY <1>11, FormerExpiresKeeps
<1>12. CASE UNCHANGED vars
  <2>1. UNCHANGED <<proc, rows, marked, leased, former, thread, past>>
    BY <1>12 DEF vars
  <2>2. Shape'
    BY <2>1 DEF IInv, Shape, InFlight
  <2>3. \A u \in Threads : Same(thread[u], thread'[u])
    BY <2>1 DEF Same
  <2> QED
    BY <2>1, <2>2, <2>3, QuietStep
<1> QED
  BY <1>1, <1>2, <1>3, <1>4, <1>5, <1>6, <1>7, <1>8, <1>9, <1>10, <1>11, <1>12 DEF Next

(* In every reachable state the invariant of the registries holds: the     *)
(* registry lock is held by at most one evaluation of a process, and every *)
(* key whose authority a process discarded is remembered by it, by a row,  *)
(* or as a gap (AuthorityRegistry.get_or_create, ContinuityStore).           *)
THEOREM RegistryInvariantHolds == Spec => []IInv
<1>1. Init => IInv
  BY InitIInv
<1>2. IInv /\ [Next]_vars => IInv'
  BY NextIInv
<1> QED
  BY <1>1, <1>2, PTL DEF Spec

(* For any number of sessions and tombstones allowed: the state keeps its  *)
(* shape, making room always leaves a place for the session created        *)
(* (_make_room), also when a signal is consumed in between, and the        *)
(* tombstones are trimmed to their cap (_record_authority_tombstone).      *)
THEOREM RegistryTypeCorrect == Spec => []ContinuityTypeOK
<1>1. IInv => ContinuityTypeOK
  <2> SUFFICES ASSUME IInv PROVE ContinuityTypeOK
    OBVIOUS
  <2>1. \A w \in Workers : /\ Range(proc[w].live) \subseteq Sessions
                           /\ Range(proc[w].tombs) \subseteq Keys
                           /\ proc[w].degraded \in BOOLEAN
    BY InvParts DEF Range
  <2>2. \A w \in Workers : Len(proc[w].live) <= MaxSessions /\ Len(proc[w].tombs) <= TombstoneCap
    BY InvParts DEF Room
  <2> QED
    BY <2>1, <2>2, InvParts DEF Shape, ContinuityTypeOK
<1> QED
  BY <1>1, RegistryInvariantHolds, PTL

(* For any number of processes, evaluations, keys and faults: an           *)
(* evaluation whose session lacks authority granted before is answered     *)
(* COMPLETE only if its key has a gap (get_or_create, record_authority,    *)
(* consume_recreate_signal, continuity_status).                            *)
THEOREM CleanOnlyKnown == Spec => []CleanOnlyThroughGaps
<1>1. IInv => CleanOnlyThroughGaps
  <2> SUFFICES ASSUME IInv, NEW t \in Threads,
                      thread[t].step = "noted", thread[t].blind, Complete(t)
               PROVE  thread[t].key \in past.gaps
    BY DEF CleanOnlyThroughGaps
  <2>1. thread[t].broken \/ Known(thread[t].worker, thread[t].key)
    BY InvParts DEF BlindExplained, Has
  <2> QED
    BY <2>1 DEF Complete, Known
<1> QED
  BY <1>1, RegistryInvariantHolds, PTL

(* For any sequence of evictions, lost tombstones, failed writes and       *)
(* restarts: a process that discarded authority of a key it did not        *)
(* recreate has its tombstone, or is degraded and answers nothing COMPLETE *)
(* (_record_authority_tombstone, _make_room).                              *)
THEOREM ForgottenDegrades == Spec => []ForgottenMeansDegraded
<1>1. IInv => ForgottenMeansDegraded
  BY InvParts
<1> QED
  BY <1>1, RegistryInvariantHolds, PTL
=============================================================================
