----------------------------- MODULE AlertWorker -----------------------------
(***************************************************************************)
(* The alert thread of varden/alerts.py: it polls the newest events of the *)
(* audit log, derives up to two alerts from each, delivers each of them to *)
(* the sinks and writes it to the alerts table, and then moves last_seen,  *)
(* which lives in memory only.                                             *)
(***************************************************************************)
EXTENDS Naturals, Sequences

CONSTANTS
  MaxEvents,   \* events ever logged (bound)
  Window,      \* limit of list_events
  MaxStarts    \* starts of the server (bound)

ASSUME AlertAssumption ==
  /\ MaxEvents \in Nat
  /\ Window \in Nat \ {0} /\ MaxStarts \in Nat \ {0}

(* The alerts of one event, in the order derive_alerts returns them: 1 if   *)
(* it was blocked or warned, 2 if it was routed to the local model.        *)
Kinds == {1, 2}

VARIABLES
  due,       \* of each logged event: the alerts derive_alerts makes of it
  alerter,   \* the thread
  sent,      \* of each event and kind: how often all sinks took the alert
  stored     \* of each event and kind: rows of the alerts table

alertVars == <<due, alerter, sent, stored>>

EventIds == 1..MaxEvents
AlerterSteps == {"polling", "handling", "storing", "dead"}

(* next..last is what is left of the batch in hand, kind the alert of next  *)
(* that comes next; starts counts runs of the server, which the code does   *)
(* not keep.                                                               *)
FreshAlerter ==
  [step |-> "polling", next |-> 1, kind |-> 1, last |-> 0, seen |-> 0, starts |-> 1]

AlertInit ==
  /\ due = << >>
  /\ alerter = FreshAlerter
  /\ sent = [e \in EventIds |-> [k \in Kinds |-> 0]]
  /\ stored = [e \in EventIds |-> [k \in Kinds |-> 0]]

LogEvent ==
  /\ Len(due) < MaxEvents
  /\ \E alerts \in SUBSET Kinds : due' = Append(due, alerts)
  /\ UNCHANGED <<alerter, sent, stored>>

LaterOf(a, b) == IF a > b THEN a ELSE b

(* list_events(limit): the newest Window events, handled oldest first;     *)
(* those up to last_seen are skipped.                                      *)
OldestListed == IF Len(due) > Window THEN Len(due) - Window + 1 ELSE 1
FirstUnseen == LaterOf(OldestListed, alerter.seen + 1)

(* Mutant: a single new event is not noticed. *)
PollTwoNew ==
  /\ alerter.step = "polling" /\ Len(due) > alerter.seen + 1
  /\ alerter' = [alerter EXCEPT !.step = "handling", !.next = FirstUnseen,
                                !.kind = 1, !.last = Len(due)]
  /\ UNCHANGED <<due, sent, stored>>

Poll ==
  /\ alerter.step = "polling" /\ Len(due) > alerter.seen
  /\ alerter' = [alerter EXCEPT !.step = "handling", !.next = FirstUnseen,
                                !.kind = 1, !.last = Len(due)]
  /\ UNCHANGED <<due, sent, stored>>

InBatch == alerter.step = "handling" /\ alerter.next <= alerter.last
Due == alerter.kind \in due[alerter.next]

(* On to the next alert of the event; after the last one to the next event *)
(* of the batch, or to the next poll.                                      *)
Onwards(seen) ==
  IF alerter.kind = 1
  THEN [alerter EXCEPT !.step = "handling", !.kind = 2]
  ELSE IF alerter.next < alerter.last
  THEN [alerter EXCEPT !.step = "handling", !.next = @ + 1, !.kind = 1, !.seen = seen]
  ELSE [alerter EXCEPT !.step = "polling", !.next = 1, !.kind = 1, !.last = 0, !.seen = seen]

(* Mutants: last_seen is not moved; it jumps to the newest listed event;   *)
(* it moves one too far.                                                   *)
HandledAhead == Onwards(alerter.next + 1)
HandledUnseen == Onwards(alerter.seen)
HandledNewest == Onwards(alerter.last)

(* The alert in hand is done with; with the last one last_seen moves on. *)
Handled == Onwards(alerter.next)

(* No such alert is derived. *)
PassOver ==
  /\ InBatch /\ ~ Due
  /\ alerter' = Handled
  /\ UNCHANGED <<due, sent, stored>>

Deliver ==
  /\ InBatch /\ Due
  /\ sent' = [sent EXCEPT ![alerter.next][alerter.kind] = @ + 1]
  /\ alerter' = [alerter EXCEPT !.step = "storing"]
  /\ UNCHANGED <<due, stored>>

StoreAlert ==
  /\ alerter.step = "storing"
  /\ stored' = [stored EXCEPT ![alerter.next][alerter.kind] = @ + 1]
  /\ alerter' = Handled
  /\ UNCHANGED <<due, sent>>

(* list_events, a sink or the INSERT raises: _loop has no handler, so the  *)
(* thread ends.                                                            *)
AlerterDies ==
  /\ \/ alerter.step \in {"polling", "storing"}
     \/ InBatch /\ Due
  /\ alerter' = [FreshAlerter EXCEPT !.step = "dead", !.starts = alerter.starts]
  /\ UNCHANGED <<due, sent, stored>>

(* The server stops and starts again: last_seen is zero. *)
RestartServer ==
  /\ alerter.starts < MaxStarts
  /\ alerter' = [FreshAlerter EXCEPT !.starts = alerter.starts + 1]
  /\ UNCHANGED <<due, sent, stored>>

AlerterStep == Poll \/ PassOver \/ Deliver \/ StoreAlert

AlertNext == LogEvent \/ AlerterStep \/ AlerterDies \/ RestartServer

(* The loop polls for as long as the thread lives. *)
AlertFairness == WF_alertVars(AlerterStep)

AlertSpec == AlertInit /\ [][AlertNext]_alertVars /\ AlertFairness

(***************************************************************************)
(* Properties                                                              *)
(***************************************************************************)
AlertTypeOK ==
  /\ due \in Seq(SUBSET Kinds) /\ Len(due) <= MaxEvents
  /\ alerter \in [step : AlerterSteps, next : Nat, kind : Kinds, last : 0..Len(due),
                  seen : 0..Len(due), starts : 1..MaxStarts]
  /\ sent \in [EventIds -> [Kinds -> Nat]] /\ stored \in [EventIds -> [Kinds -> Nat]]

(* An event raises each of its alerts once per run of the server: polling  *)
(* again, or listing it again, does not repeat it; only a restart, which   *)
(* forgets last_seen, does.  A stored alert was delivered.                 *)
AlertedOncePerRun ==
  \A e \in EventIds, k \in Kinds :
    stored[e][k] <= sent[e][k] /\ sent[e][k] <= alerter.starts

(* So many newer events that e is no longer listed. *)
Outrun(e) == Len(due) >= e + Window

(* last_seen passes an event without one of its alerts only if newer       *)
(* events pushed it out of the window between two polls; it waits for both *)
(* alerts of an event, also when the thread dies between them.             *)
NoneOverlooked ==
  \A e \in 1..alerter.seen : \A k \in due[e] : stored[e][k] > 0 \/ Outrun(e)

(* Every alert an event calls for is raised, unless the event was pushed   *)
(* out of the window or the thread died.                                   *)
EveryAlertArrives ==
  \A e \in EventIds, k \in Kinds :
    (e <= Len(due) /\ k \in due[e])
      ~> (stored[e][k] > 0 \/ Outrun(e) \/ alerter.step = "dead")
=============================================================================
