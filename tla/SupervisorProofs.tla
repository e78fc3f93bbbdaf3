--------------------------- MODULE SupervisorProofs ---------------------------
(***************************************************************************)
(* For every number of callers, every freshness and every bound: the       *)
(* supervisor's invariants, and that no call verifies an execution another *)
(* call has seen end.                                                      *)
(***************************************************************************)
EXTENDS Supervisor, TLAPS

\* the types TypeOK gives the launch and a call
Launchers ==
    [step : {"configured", "probe", "spawn", "identify", "wait", "write", "over"},
     wait : BOOLEAN, denied : BOOLEAN, lifecycle : Lifecycles, identity : {Gone, Own}]
Requests ==
    [step : Kinds \cup {"idle", "digest", "reseal", "reload", "signal", "confirm"},
     kind : Kinds, rec : Attestations \cup {NoRecord}, now : 0..MaxTime,
     answer : Answers]

(***************************************************************************)
(* The inductive invariant.                                                *)
(***************************************************************************)
\* A record with a pid is of a launch whose probes were denied and whose
\* command was started; one without is of a launch that started nothing.
Named(rec) ==
    /\ rec.pid => launcher.denied /\ born >= Own
    /\ ~rec.pid => born = 0
    /\ rec.verified => rec.pid /\ rec.started = Own

LaunchInv ==
    /\ launcher.step \in {"configured", "probe", "spawn"} => born = 0
    /\ launcher.step = "identify" => born = Own
    /\ launcher.step \in {"wait", "write"} => born >= Own
    /\ launcher.step \in {"spawn", "identify", "wait", "write"} => launcher.denied

RecordInv == record # NoRecord => launcher.step = "over" /\ Named(record)

\* the supervised command was started and is not running
Over == born >= Own /\ occupant # Own

CallInv(c) ==
    /\ call[c].step # "idle" =>
          record # NoRecord /\ Copy(c) # NoRecord /\ Named(Copy(c))
    /\ call[c].step \in Kinds => call[c].kind = call[c].step
    /\ call[c].step \in {"digest", "reload"} => call[c].kind = "renew"
    /\ call[c].step \in {"signal", "confirm"} => call[c].kind # "renew" /\ Copy(c).pid
    /\ call[c].step = "digest" \/ (call[c].step = "reseal" /\ call[c].kind = "renew") =>
          Copy(c).pid /\ Copy(c).started = Own
    /\ call[c].step = "reseal" /\ call[c].kind # "renew" => Over
    /\ call[c].answer = "CONFIRMED" => Over

EndedInv == ended => launcher.step = "over" /\ occupant # Own

IInv == TypeOK /\ LaunchInv /\ RecordInv /\ (\A c \in Calls : CallInv(c)) /\ EndedInv

LEMMA InitIInv == Init => IInv
<1> SUFFICES ASSUME Init PROVE IInv
  OBVIOUS
<1> USE BoundsAssumption DEF Init, Idle, Gone, Own, Kinds
<1>1. TypeOK
  <2>1. launcher \in Launchers
    BY DEF Launchers, Lifecycles
  <2>2. Idle \in Requests
    BY DEF Requests, Answers
  <2>3. call \in [Calls -> Requests]
    BY <2>2
  <2>4. clock \in 0..MaxTime /\ occupant \in 0..born /\ born \in 0..MaxProcesses
    OBVIOUS
  <2>5. intact \in BOOLEAN /\ ended \in BOOLEAN /\ record \in Attestations \cup {NoRecord}
    BY Zenon
  <2> QED BY Zenon, <2>1, <2>3, <2>4, <2>5 DEF TypeOK, Launchers, Requests
<1>2. LaunchInv /\ RecordInv /\ EndedInv
  BY DEF LaunchInv, RecordInv, EndedInv
<1>3. ASSUME NEW c \in Calls PROVE CallInv(c)
  BY DEF CallInv
<1> QED BY <1>1, <1>2, <1>3 DEF IInv

LEMMA LaunchKeepsIInv == IInv /\ Launch => IInv'
<1> SUFFICES ASSUME IInv, Launch PROVE IInv'
  OBVIOUS
<1> USE FreshnessAssumption, BoundsAssumption, NoRecordAssumption
    DEF IInv, TypeOK, LaunchInv, RecordInv, CallInv, EndedInv, Named, Over, World, Goes,
        Writes, Sealed, Copy, Gone, Own, Kinds, Lifecycles
<1>1. CASE LaunchRefused BY <1>1 DEF LaunchRefused
<1>2. CASE Observe BY <1>2 DEF Observe, Attestations
<1>3. CASE \E wait \in BOOLEAN, lifecycle \in Lifecycles : Prepare(wait, lifecycle)
  <2>1. PICK wait \in BOOLEAN, lifecycle \in Lifecycles : Prepare(wait, lifecycle)
    BY <1>3
  <2>2. launcher' \in Launchers
    BY <2>1 DEF Prepare, Launchers
  <2> QED BY <2>1, <2>2 DEF Prepare, Launchers
<1>4. CASE ProbeFails BY <1>4 DEF ProbeFails, Attestations
<1>5. CASE ProbesDenied BY <1>5 DEF ProbesDenied
<1>6. CASE LayoutFails BY <1>6 DEF LayoutFails
<1>7. CASE Spawn BY <1>7 DEF Spawn
<1>8. CASE Identify
  <2>1. occupant \in {Gone, Own}
    BY <1>8 DEF Identify
  <2>2. launcher' \in Launchers
    BY <1>8, <2>1 DEF Identify, Launchers
  <2>3. launcher'.step \in {"wait", "write"} /\ launcher'.denied = launcher.denied
    BY <1>8 DEF Identify
  <2> QED BY <1>8, <2>2, <2>3 DEF Identify, Launchers
<1>9. CASE WaitReturns BY <1>9 DEF WaitReturns, Attestations
<1>10. CASE WriteRunning BY <1>10 DEF WriteRunning, Attestations
<1>11. CASE LauncherDies BY <1>11 DEF LauncherDies
<1> QED BY <1>1, <1>2, <1>3, <1>4, <1>5, <1>6, <1>7, <1>8, <1>9, <1>10, <1>11 DEF Launch

LEMMA EnvironmentKeepsIInv == IInv /\ Environment => IInv'
<1> SUFFICES ASSUME IInv, Environment PROVE IInv'
  OBVIOUS
<1> USE BoundsAssumption, NoRecordAssumption
    DEF IInv, TypeOK, LaunchInv, RecordInv, CallInv, EndedInv, Named, Over, Table, Copy, Gone, Own
<1>1. CASE ProcessExits BY <1>1 DEF ProcessExits
<1>2. CASE PidReused BY <1>2 DEF PidReused
<1>3. CASE BytesChange BY <1>3 DEF BytesChange
<1>4. CASE ClockMoves BY <1>4 DEF ClockMoves
<1> QED BY <1>1, <1>2, <1>3, <1>4 DEF Environment

\* What renew and reseal make of a record.
LEMMA Resealed ==
  ASSUME NEW rec \in Attestations
  PROVE  /\ clock \in 0..MaxTime =>
              [rec EXCEPT !.state = "VERIFIED", !.verified = TRUE, !.issued = clock]
                 \in Attestations
         /\ [rec EXCEPT !.state = "TERMINATED", !.verified = FALSE] \in Attestations
         /\ [rec EXCEPT !.state = "VERIFIED", !.verified = TRUE, !.issued = clock].pid = rec.pid
         /\ [rec EXCEPT !.state = "VERIFIED", !.verified = TRUE, !.issued = clock].started
               = rec.started
         /\ [rec EXCEPT !.state = "TERMINATED", !.verified = FALSE].pid = rec.pid
         /\ ~[rec EXCEPT !.state = "TERMINATED", !.verified = FALSE].verified
         /\ [rec EXCEPT !.state = "TERMINATED", !.verified = FALSE].started = rec.started
  BY DEF Attestations

\* An answer that confirms nothing, and says TERMINATED only when the command
\* is gone, keeps the invariant.
LEMMA ReturnKeepsIInv ==
  ASSUME IInv, NEW c \in Calls, NEW answer \in Answers \ {"CONFIRMED"}, Returns(c, answer),
         answer = "TERMINATED" => occupant # Own,
         UNCHANGED <<World, launcher, record>>, launcher.step = "over"
  PROVE  IInv'
<1>1. call' \in [Calls -> Requests] /\ call'[c] = [Idle EXCEPT !.answer = answer]
      /\ \A d \in Calls \ {c} : call'[d] = call[d]
  BY BoundsAssumption DEF IInv, TypeOK, Returns, Idle, Requests, Kinds
<1>2. call'[c].step = "idle" /\ call'[c].answer # "CONFIRMED"
  BY <1>1 DEF Idle
<1>3. ended' \in BOOLEAN /\ (ended' => ended \/ answer = "TERMINATED")
  BY DEF Returns
<1>4. TypeOK'
  BY <1>1, <1>3 DEF IInv, TypeOK, World, Requests
<1>5. LaunchInv' /\ RecordInv' /\ EndedInv'
  BY <1>3 DEF IInv, LaunchInv, RecordInv, EndedInv, Named, World
<1>6. ASSUME NEW d \in Calls PROVE CallInv(d)'
  <2>1. CASE d = c
    BY <1>2, <2>1 DEF CallInv, Kinds
  <2>2. CASE d # c
    <3>1. CallInv(d) /\ call'[d] = call[d]
      BY <1>1, <2>2 DEF IInv
    <3> QED BY <3>1 DEF CallInv, Named, World, Copy, Over, Kinds
  <2> QED BY <2>1, <2>2
<1> QED BY <1>4, <1>5, <1>6 DEF IInv

LEMMA CallKeepsIInv == ASSUME IInv, NEW c \in Calls, CallStep(c) PROVE IInv'
<1> USE BoundsAssumption, NoRecordAssumption
    DEF IInv, TypeOK, LaunchInv, RecordInv, CallInv, EndedInv, Named, Over, World, Copy, Gone,
        Own, Kinds, Steps, Returns, Answers, Idle
<1>1. CASE \E kind \in Kinds : Load(c, kind)
  <2>1. PICK kind \in Kinds : Load(c, kind) BY <1>1
  <2> QED BY <2>1 DEF Load
<1>2. CASE Verify(c)
  <2>1. CASE MustStop(Copy(c), call[c].now, occupant)
    BY <1>2, <2>1 DEF Verify, MustStop, SameProcess
  <2>2. CASE ~MustStop(Copy(c), call[c].now, occupant)
    <3> DEFINE answer == VerifyAnswer(Copy(c), call[c].now, occupant)
    <3>1. Returns(c, answer)
      BY <1>2, <2>2 DEF Verify
    <3>2. answer \in Answers \ {"CONFIRMED"} /\ (answer = "TERMINATED" => occupant # Own)
      <4>1. Copy(c).pid \/ occupant = Gone
        BY <1>2 DEF Verify
      <4>2. CASE ~Copy(c).pid
        <5>1. answer = WithoutProcess(Copy(c))
          BY <4>2 DEF VerifyAnswer
        <5> QED BY <4>1, <4>2, <5>1 DEF WithoutProcess
      <4>3. CASE Copy(c).pid
        BY <4>3 DEF VerifyAnswer, SameProcess
      <4> QED BY <4>2, <4>3
    <3>3. UNCHANGED <<World, launcher, record>> /\ launcher.step = "over"
      BY <1>2 DEF Verify
    <3> HIDE DEF answer
    <3> QED BY ONLY <3>1, <3>2, <3>3, IInv, c \in Calls, ReturnKeepsIInv
  <2> QED BY <2>1, <2>2
<1>3. CASE RenewIdentity(c)
  <2>1. CASE Copy(c).pid /\ SameProcess(Copy(c), occupant)
    <3>1. Copy(c).started = Own
      BY <1>3, <2>1 DEF RenewIdentity, SameProcess, Attestations
    <3> QED BY <1>3, <2>1, <3>1 DEF RenewIdentity
  <2>2. CASE ~(Copy(c).pid /\ SameProcess(Copy(c), occupant))
    BY <1>3, <2>2, ReturnKeepsIInv DEF RenewIdentity
  <2> QED BY <2>1, <2>2
<1>4. CASE RenewDigest(c)
  <2>1. CASE intact BY <1>4, <2>1 DEF RenewDigest
  <2>2. CASE ~intact BY <1>4, <2>2, ReturnKeepsIInv DEF RenewDigest
  <2> QED BY <2>1, <2>2
<1>5. CASE RenewWrite(c)
  <2>1. Copy(c) \in Attestations /\ Copy(c).pid /\ Copy(c).started = Own
    BY <1>5 DEF RenewWrite
  <2>2. /\ record' \in Attestations /\ record'.pid = Copy(c).pid
        /\ record'.started = Copy(c).started
    BY <1>5, <2>1, Resealed DEF RenewWrite, Writes
  <2> QED BY <1>5, <2>1, <2>2 DEF RenewWrite
<1>6. CASE RenewReload(c) BY <1>6 DEF RenewReload
<1>7. CASE Terminate(c)
  <2>1. CASE Copy(c).pid /\ SameProcess(Copy(c), occupant)
    BY <1>7, <2>1 DEF Terminate, SameProcess
  <2>2. CASE ~(Copy(c).pid /\ SameProcess(Copy(c), occupant))
    <3>1. PICK answer \in {"FAILED", "TERMINATED"} :
             Returns(c, answer) /\ (answer = "TERMINATED" => occupant # Own)
      BY <1>7, <2>2 DEF Terminate
    <3>2. UNCHANGED <<World, launcher, record>> /\ launcher.step = "over"
      BY <1>7 DEF Terminate
    <3> QED BY <3>1, <3>2, ReturnKeepsIInv
  <2> QED BY <2>1, <2>2
<1>8. CASE Signal(c) BY <1>8 DEF Signal
<1>9. CASE Confirm(c) BY <1>9 DEF Confirm
<1>10. CASE ResealTerminated(c)
  <2>1. Copy(c) \in Attestations
    BY <1>10 DEF ResealTerminated
  <2>2. /\ record' \in Attestations /\ record'.pid = Copy(c).pid /\ ~record'.verified
        /\ record'.started = Copy(c).started
    BY <1>10, <2>1, Resealed DEF ResealTerminated, Writes
  <2> QED BY <1>10, <2>1, <2>2 DEF ResealTerminated
<1>11. CASE CallerDies(c) BY <1>11 DEF CallerDies
<1> QED BY <1>1, <1>2, <1>3, <1>4, <1>5, <1>6, <1>7, <1>8, <1>9, <1>10, <1>11 DEF CallStep

(***************************************************************************)
(* The theorems.                                                           *)
(***************************************************************************)
\* The inductive invariant holds in every reachable state.
THEOREM InvariantHolds == Spec => []IInv
<1>1. IInv /\ [Next]_vars => IInv'
  <2> SUFFICES ASSUME IInv, [Next]_vars PROVE IInv'
    OBVIOUS
  <2>1. CASE Launch BY <2>1, LaunchKeepsIInv
  <2>2. CASE \E c \in Calls : CallStep(c) BY <2>2, CallKeepsIInv
  <2>3. CASE Environment BY <2>3, EnvironmentKeepsIInv
  <2>4. CASE UNCHANGED vars
    BY <2>4 DEF vars, IInv, TypeOK, LaunchInv, RecordInv, CallInv, EndedInv, Named, Over, Copy
  <2> QED BY <2>1, <2>2, <2>3, <2>4 DEF Next
<1> QED BY InitIInv, <1>1, PTL DEF Spec

\* The launch, the record on disk and every call keep their shape, for every
\* number of callers and every bound.
THEOREM TypeCorrect == Spec => []TypeOK
<1>1. IInv => TypeOK BY DEF IInv
<1> QED BY <1>1, InvariantHolds, PTL

\* A record says VERIFIED only for a command the supervisor started behind
\* probes that were denied, however calls of renew overlap with others.
THEOREM Earned == Spec => []AttestationEarned
<1>1. IInv => AttestationEarned
  BY DEF IInv, RecordInv, Named, AttestationEarned
<1> QED BY <1>1, InvariantHolds, PTL

\* Termination is confirmed only of a command that was started and is gone.
THEOREM ConfirmedOnlyIfGone == Spec => []ConfirmedIsGone
<1>1. IInv => ConfirmedIsGone
  BY DEF IInv, CallInv, Over, ConfirmedIsGone
<1> QED BY <1>1, InvariantHolds, PTL

\* Once a call has answered that the command ended, none verifies it.
THEOREM NeverVerifiedAgain == Spec => VerifiedStops
<1>1. IInv /\ [Next]_vars =>
        [ended => \A c \in Calls :
            call'[c].answer = "VERIFIED" => call[c].answer = "VERIFIED"]_vars
  <2> SUFFICES ASSUME IInv, Next, ended, NEW d \in Calls, call'[d].answer = "VERIFIED"
               PROVE  call[d].answer = "VERIFIED"
    BY DEF VerifiedStops
  <2>1. call \in [Calls -> Requests] /\ launcher.step = "over" /\ occupant # Own
    BY DEF IInv, TypeOK, Requests, EndedInv
  <2>2. CASE Launch \/ Environment
    BY <2>2 DEF Launch, Environment, LaunchRefused, Observe, Prepare, ProbeFails, ProbesDenied,
       LayoutFails, Spawn, Identify, WaitReturns, WriteRunning, LauncherDies, ProcessExits,
       PidReused, BytesChange, ClockMoves
  <2>3. ASSUME NEW c \in Calls, CallStep(c) PROVE call[d].answer = "VERIFIED"
    <3>1. ASSUME NEW step, Steps(c, step) PROVE call[d].answer = "VERIFIED"
      BY <2>1, <3>1 DEF Steps, Requests
    <3>2. ASSUME NEW answer, Returns(c, answer), answer # "VERIFIED"
          PROVE  call[d].answer = "VERIFIED"
      BY <2>1, <3>2 DEF Returns, Idle, Requests
    <3>3. CASE \E kind \in Kinds : Load(c, kind)
      BY <2>1, <3>3 DEF Load, Requests
    <3>4. CASE Verify(c)
      <4>1. VerifyAnswer(Copy(c), call[c].now, occupant) # "VERIFIED"
        <5>1. Copy(c).started \in {Gone, Own} /\ Copy(c).pid \in BOOLEAN
          BY <3>4 DEF IInv, TypeOK, CallInv, Verify, Copy, Attestations
        <5>2. ~SameProcess(Copy(c), occupant)
          BY <2>1, <5>1 DEF SameProcess
        <5> QED BY <5>1, <5>2 DEF VerifyAnswer, WithoutProcess
      <4> QED BY <3>1, <3>2, <3>4, <4>1 DEF Verify
    <3>5. CASE RenewIdentity(c)
      <4>1. Steps(c, "digest") \/ Returns(c, "FAILED")
        BY <3>5 DEF RenewIdentity
      <4> QED BY <3>1, <3>2, <4>1
    <3>6. CASE RenewDigest(c)
      <4>1. Steps(c, "reseal") \/ Returns(c, "FAILED")
        BY <3>6 DEF RenewDigest
      <4> QED BY <3>1, <3>2, <4>1
    <3>7. CASE RenewWrite(c) \/ Signal(c)
      <4>1. Steps(c, "reload") \/ Steps(c, "confirm")
        BY <3>7 DEF RenewWrite, Signal
      <4> QED BY <3>1, <4>1
    <3>8. CASE RenewReload(c)
      BY <2>1, <3>8 DEF RenewReload, Requests
    <3>9. CASE Terminate(c)
      <4>1. Steps(c, "signal") \/ Returns(c, "FAILED") \/ Returns(c, "TERMINATED")
        BY <3>9 DEF Terminate
      <4> QED BY <3>1, <3>2, <4>1
    <3>10. CASE Confirm(c)
      <4>1. Steps(c, "reseal") \/ Returns(c, "EXPIRED") \/ Returns(c, "DEGRADED")
        BY <3>10 DEF Confirm
      <4> QED BY <3>1, <3>2, <4>1
    <3>11. CASE ResealTerminated(c)
      BY <3>2, <3>11 DEF ResealTerminated
    <3>12. CASE CallerDies(c)
      BY <2>1, <3>12 DEF CallerDies, Idle, Requests
    <3> QED
      BY <2>3, <3>3, <3>4, <3>5, <3>6, <3>7, <3>8, <3>9, <3>10, <3>11, <3>12
      DEF CallStep
  <2> QED BY <2>2, <2>3 DEF Next
<1> QED BY <1>1, InvariantHolds, PTL DEF Spec, VerifiedStops
=============================================================================
