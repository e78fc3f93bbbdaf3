----------------------------- MODULE Supervisor -----------------------------
(***************************************************************************)
(* The supervisor of one protected execution: launch probes the boundary,  *)
(* starts the command and seals an attestation record; verify (and claim), *)
(* renew and terminate are calls made later, by other processes, on that   *)
(* record.  A call loads the record, looks at the process table, and may   *)
(* write the record back: os.replace makes each write atomic and nothing   *)
(* compares what it overwrites.  Between two steps of a call the process   *)
(* may exit, its pid may be given to another process, the protected bytes  *)
(* may change, the wall clock may move either way, another call may run,   *)
(* and the caller may die.                                                 *)
(*                                                                         *)
(* A process is the ordinal of its start: Own is the supervised command,   *)
(* a larger number a later process that was given the same pid.            *)
(***************************************************************************)
EXTENDS Integers

CONSTANTS Calls,          \* concurrent calls of verify, renew and terminate
          Freshness,      \* freshness_s
          MaxTime,        \* bound: the clock stays in 0..MaxTime
          MaxProcesses,   \* bound: processes ever given the pid
          NoRecord        \* no attestation.json

Own  == 1
Gone == 0

Lifecycles == {"continue_restricted", "terminate"}
Kinds      == {"verify", "renew", "terminate"}
Answers    == {"none", "FAILED", "TERMINATED", "CONFIRMED", "EXPIRED",
               "DEGRADED", "VERIFIED"}

ASSUME FreshnessAssumption == Freshness \in Nat
ASSUME BoundsAssumption    == MaxTime \in Nat /\ MaxProcesses \in Nat \ {0}

VARIABLES clock,      \* time.time()
          occupant,   \* the process that holds the pid now, or Gone
          born,       \* processes that have held the pid so far
          intact,     \* the protected bytes equal those read before launch
          launcher,   \* the launch in progress
          record,     \* attestation.json
          call,       \* the calls in progress and their last answers
          ended       \* history: some call answered that the process ended

vars == <<clock, occupant, born, intact, launcher, record, call, ended>>

Attestations ==
    [state : {"VERIFIED", "ESTABLISHED", "TERMINATED", "FAILED"},
     verified : BOOLEAN, issued : 0..MaxTime, pid : BOOLEAN,
     started : {Gone, Own}, lifecycle : Lifecycles]

ASSUME NoRecordAssumption == NoRecord \notin Attestations

(***************************************************************************)
(* Launch.                                                                 *)
(***************************************************************************)
Sealed(state, pid, started) ==
    [state |-> state, verified |-> state = "VERIFIED", issued |-> clock,
     pid |-> pid, started |-> started, lifecycle |-> launcher.lifecycle]

Goes(step) == launcher' = [launcher EXCEPT !.step = step]
Writes(rec) == record' = rec

Table == <<occupant, born>>
World == <<clock, occupant, born, intact>>

\* the mode, the layout of the asset, the adapter or the key file stops it
LaunchRefused ==
    /\ launcher.step = "configured"
    /\ Goes("over")
    /\ UNCHANGED <<World, record, call, ended>>

\* --observe: the command runs without a boundary and is recorded as over
Observe ==
    /\ launcher.step = "configured"
    /\ Goes("over") /\ Writes(Sealed("TERMINATED", FALSE, Gone))
    /\ UNCHANGED <<World, call, ended>>

Prepare(wait, lifecycle) ==
    /\ launcher.step = "configured"
    /\ launcher' = [launcher EXCEPT !.step = "probe", !.wait = wait,
                                    !.lifecycle = lifecycle]
    /\ UNCHANGED <<World, record, call, ended>>

\* the write probe changed the bytes, or a probe was not denied
ProbeFails ==
    /\ launcher.step = "probe"
    /\ Goes("over") /\ Writes(Sealed("FAILED", FALSE, Gone))
    /\ UNCHANGED <<World, call, ended>>

ProbesDenied ==
    /\ launcher.step = "probe" /\ intact
    /\ launcher' = [launcher EXCEPT !.step = "spawn", !.denied = TRUE]
    /\ UNCHANGED <<World, record, call, ended>>

\* a hard link to the asset or to the key
LayoutFails ==
    /\ launcher.step = "spawn"
    /\ Goes("over")
    /\ UNCHANGED <<World, record, call, ended>>

Spawn ==
    /\ launcher.step = "spawn"
    /\ occupant' = Own /\ born' = Own
    /\ Goes("identify")
    /\ UNCHANGED <<clock, intact, record, call, ended>>

Identify ==
    /\ launcher.step = "identify"
    /\ launcher' = [launcher EXCEPT
           !.identity = occupant,
           !.step = IF launcher.wait THEN "wait" ELSE "write"]
    /\ UNCHANGED <<World, record, call, ended>>

WaitReturns ==
    /\ launcher.step = "wait" /\ occupant # Own
    /\ Writes(Sealed(IF intact THEN "TERMINATED" ELSE "FAILED",
                     TRUE, launcher.identity))
    /\ Goes("over")
    /\ UNCHANGED <<World, call, ended>>

WriteRunning ==
    /\ launcher.step = "write"
    /\ Writes(Sealed(IF launcher.identity = Gone THEN "ESTABLISHED"
                     ELSE "VERIFIED", TRUE, launcher.identity))
    /\ Goes("over")
    /\ UNCHANGED <<World, call, ended>>

LauncherDies ==
    /\ launcher.step \in {"probe", "spawn", "identify", "wait", "write"}
    /\ Goes("over")
    /\ UNCHANGED <<World, record, call, ended>>

(***************************************************************************)
(* Calls on the record.  Copy is what the call loaded, now the clock it    *)
(* compares issued_at with.                                                *)
(***************************************************************************)
Copy(c) == call[c].rec

Steps(c, step) == call' = [call EXCEPT ![c].step = step]

Idle == [step |-> "idle", kind |-> "verify", rec |-> NoRecord, now |-> 0,
         answer |-> "none"]

Returns(c, answer) ==
    /\ call' = [call EXCEPT ![c] = [Idle EXCEPT !.answer = answer]]
    /\ ended' = (ended \/ answer \in {"TERMINATED", "CONFIRMED"})

\* Mutant of SameProcess: any process with the pid is the supervised one.
SamePid(rec, process) == process # Gone

\* process_identity(pid) against the started_at of the record
SameProcess(rec, process) == process # Gone /\ process = rec.started

Expired(rec, now) == now - rec.issued > Freshness \/ now < rec.issued

\* the state answered when no live process can be this one
WithoutProcess(rec) == IF rec.state = "FAILED" THEN "FAILED" ELSE "TERMINATED"

\* verify's answer for the process found, and whether it goes on to signal it
VerifyAnswer(rec, now, process) ==
    CASE ~rec.pid                    -> WithoutProcess(rec)
      [] rec.pid /\ process = Gone   -> "TERMINATED"
      [] rec.pid /\ process # Gone /\ ~SameProcess(rec, process) -> "FAILED"
      [] rec.pid /\ SameProcess(rec, process) ->
            IF Expired(rec, now) THEN "EXPIRED"
            ELSE IF rec.verified THEN "VERIFIED" ELSE "DEGRADED"

MustStop(rec, now, process) ==
    /\ rec.pid /\ SameProcess(rec, process) /\ Expired(rec, now)
    /\ rec.lifecycle = "terminate"

Load(c, kind) ==
    /\ call[c].step = "idle"
    /\ IF record = NoRecord
       THEN /\ call' = [call EXCEPT ![c].answer = "FAILED"]
       ELSE /\ call' = [call EXCEPT ![c] = [step |-> kind, kind |-> kind,
                            rec |-> record, now |-> clock, answer |-> "none"]]
    /\ UNCHANGED <<World, launcher, record, ended>>

Verify(c) ==
    /\ call[c].step = "verify"
    /\ IF MustStop(Copy(c), call[c].now, occupant)
       THEN Steps(c, "signal") /\ UNCHANGED ended
       ELSE Returns(c, VerifyAnswer(Copy(c), call[c].now, occupant))
    /\ UNCHANGED <<World, launcher, record>>

\* Mutant of RenewIdentity: no process and no pid are the same identity.
RenewUnlessDifferent(c) ==
    /\ call[c].step = "renew"
    /\ IF (IF Copy(c).pid THEN occupant ELSE Gone) = Copy(c).started
       THEN Steps(c, "digest") /\ UNCHANGED ended
       ELSE Returns(c, "FAILED")
    /\ UNCHANGED <<World, launcher, record>>

RenewIdentity(c) ==
    /\ call[c].step = "renew"
    /\ IF Copy(c).pid /\ SameProcess(Copy(c), occupant)
       THEN Steps(c, "digest") /\ UNCHANGED ended
       ELSE Returns(c, "FAILED")
    /\ UNCHANGED <<World, launcher, record>>

RenewDigest(c) ==
    /\ call[c].step = "digest"
    /\ IF intact THEN Steps(c, "reseal") /\ UNCHANGED ended
                 ELSE Returns(c, "FAILED")
    /\ UNCHANGED <<World, launcher, record>>

\* the copy goes back whole, as VERIFIED and issued now; then verify
RenewWrite(c) ==
    /\ call[c].step = "reseal" /\ call[c].kind = "renew"
    /\ Writes([Copy(c) EXCEPT !.state = "VERIFIED", !.verified = TRUE,
                              !.issued = clock])
    /\ Steps(c, "reload")
    /\ UNCHANGED <<World, launcher, ended>>

RenewReload(c) ==
    /\ call[c].step = "reload"
    /\ call' = [call EXCEPT ![c] = [step |-> "verify", kind |-> "verify",
                    rec |-> record, now |-> clock, answer |-> "none"]]
    /\ UNCHANGED <<World, launcher, record, ended>>

Terminate(c) ==
    /\ call[c].step = "terminate"
    /\ IF Copy(c).pid /\ SameProcess(Copy(c), occupant)
       THEN Steps(c, "signal") /\ UNCHANGED ended
       ELSE Returns(c, IF Copy(c).pid /\ occupant # Gone THEN "FAILED"
                       ELSE "TERMINATED")
    /\ UNCHANGED <<World, launcher, record>>

\* _signal_tree: by pid alone, and the process may outlive it
Signal(c) ==
    /\ call[c].step = "signal"
    /\ occupant' \in {occupant, Gone}
    /\ Steps(c, "confirm")
    /\ UNCHANGED <<clock, born, intact, launcher, record, ended>>

\* Mutant of Confirm: a signal sent is a process gone.
ConfirmUnseen(c) ==
    /\ call[c].step = "confirm"
    /\ Steps(c, "reseal")
    /\ UNCHANGED <<World, launcher, record, ended>>

Confirm(c) ==
    /\ call[c].step = "confirm"
    /\ IF occupant = Gone
       THEN Steps(c, "reseal") /\ UNCHANGED ended
       ELSE Returns(c, IF call[c].kind = "verify" THEN "EXPIRED" ELSE "DEGRADED")
    /\ UNCHANGED <<World, launcher, record>>

\* Mutant of ResealTerminated: the answer given is written as the state.
ResealAsExpired(c) ==
    /\ call[c].step = "reseal" /\ call[c].kind # "renew"
    /\ Writes([Copy(c) EXCEPT !.state = "EXPIRED", !.verified = FALSE])
    /\ Returns(c, "CONFIRMED")
    /\ UNCHANGED <<World, launcher>>

ResealTerminated(c) ==
    /\ call[c].step = "reseal" /\ call[c].kind # "renew"
    /\ Writes([Copy(c) EXCEPT !.state = "TERMINATED", !.verified = FALSE])
    /\ Returns(c, "CONFIRMED")
    /\ UNCHANGED <<World, launcher>>

CallerDies(c) ==
    /\ call[c].step # "idle"
    /\ call' = [call EXCEPT ![c] = Idle]
    /\ UNCHANGED <<World, launcher, record, ended>>

(***************************************************************************)
(* The world.                                                              *)
(***************************************************************************)
ProcessExits ==
    /\ occupant # Gone /\ occupant' = Gone
    /\ UNCHANGED <<clock, born, intact, launcher, record, call, ended>>

\* not while the command is the launcher's unreaped child
PidReused ==
    /\ occupant = Gone /\ born \in 1..(MaxProcesses - 1)
    /\ launcher.step # "identify"
    /\ born' = born + 1 /\ occupant' = born + 1
    /\ UNCHANGED <<clock, intact, launcher, record, call, ended>>

BytesChange ==
    /\ intact' = ~intact
    /\ UNCHANGED <<clock, Table, launcher, record, call, ended>>

ClockMoves ==
    /\ clock' \in 0..MaxTime \ {clock}
    /\ UNCHANGED <<Table, intact, launcher, record, call, ended>>

Init ==
    /\ clock = 0 /\ occupant = Gone /\ born = 0 /\ intact = TRUE
    /\ launcher = [step |-> "configured", wait |-> FALSE, denied |-> FALSE,
                   lifecycle |-> "continue_restricted", identity |-> Gone]
    /\ record = NoRecord
    /\ call = [c \in Calls |-> Idle]
    /\ ended = FALSE

Launch ==
    \/ LaunchRefused \/ Observe
    \/ \E wait \in BOOLEAN, lifecycle \in Lifecycles : Prepare(wait, lifecycle)
    \/ ProbeFails \/ ProbesDenied \/ LayoutFails \/ Spawn \/ Identify
    \/ WaitReturns \/ WriteRunning \/ LauncherDies

CallStep(c) ==
    \/ \E kind \in Kinds : Load(c, kind)
    \/ Verify(c) \/ RenewIdentity(c) \/ RenewDigest(c) \/ RenewWrite(c)
    \/ RenewReload(c) \/ Terminate(c) \/ Signal(c) \/ Confirm(c)
    \/ ResealTerminated(c) \/ CallerDies(c)

Environment == ProcessExits \/ PidReused \/ BytesChange \/ ClockMoves

Next == Launch \/ (\E c \in Calls : CallStep(c)) \/ Environment

Spec == Init /\ [][Next]_vars

(***************************************************************************)
(* Properties.                                                             *)
(***************************************************************************)

\* The record, the launch and every call are always of the shape the code
\* gives them; a started_at on record is the supervised command's.
TypeOK ==
    /\ clock \in 0..MaxTime /\ occupant \in 0..born /\ born \in 0..MaxProcesses
    /\ intact \in BOOLEAN /\ ended \in BOOLEAN
    /\ launcher \in
         [step : {"configured", "probe", "spawn", "identify", "wait", "write", "over"},
          wait : BOOLEAN, denied : BOOLEAN, lifecycle : Lifecycles,
          identity : {Gone, Own}]
    /\ record \in Attestations \cup {NoRecord}
    /\ call \in [Calls ->
         [step : Kinds \cup {"idle", "digest", "reseal", "reload", "signal", "confirm"},
          kind : Kinds, rec : Attestations \cup {NoRecord}, now : 0..MaxTime,
          answer : Answers]]

\* A record that says VERIFIED was earned: the probes of this launch were
\* denied and the record names the command it started, even when renew wrote
\* it over the record of a launch that had failed or ended
\* (launch 225-263, renew 459-476).
AttestationEarned ==
    record # NoRecord /\ record.verified =>
        launcher.denied /\ record.pid /\ record.started = Own

\* Termination is confirmed only when the supervised command is gone for
\* good, whoever killed it and whoever holds its pid since
\* (docs/monitoring-integrity-boundary.md: "only after the process identity
\* is gone"; verify 402-414, terminate 488-495).
ConfirmedIsGone ==
    \A c \in Calls : call[c].answer = "CONFIRMED" => born >= Own /\ occupant # Own

\* After any call has answered that the process ended, no call answers
\* VERIFIED, although a renewal that loaded the record before may write
\* VERIFIED over TERMINATED and another process may hold the pid
\* (verify 386-399, renew 472-476).
VerifiedStops ==
    [][ended => \A c \in Calls :
          call'[c].answer = "VERIFIED" => call[c].answer = "VERIFIED"]_vars

=============================================================================
