----------------------------- MODULE SpendLedger -----------------------------
(***************************************************************************)
(* What token budgets promise, with no counters, clocks, windows to roll   *)
(* or request threads: a list of holds, each on one account.  A hold is    *)
(* opened only if everything its account is committed to stays within the  *)
(* limit; from then on it is priced at most once at its estimate and at    *)
(* most once finally, or voided for nothing.                               *)
(***************************************************************************)
EXTENDS Sums, Sequences

VARIABLE holds  \* a sequence of [account, amount, limit, bill, state]

Init == holds = << >>

(* What a hold costs its account now. *)
Weight(h) == IF h.state = "open" THEN h.amount ELSE h.bill

Committed(hs, account) ==
  SumTo([i \in 1..Len(hs) |-> IF hs[i].account = account THEN Weight(hs[i]) ELSE 0],
        Len(hs))

(* The legal next forms n of hold h. *)
Evolves(h, n) ==
  /\ n.account = h.account /\ n.amount = h.amount /\ n.limit = h.limit
  /\ \/ n.state = h.state /\ n.bill = h.bill
     \/ h.state = "open" /\ n.state = "estimated" /\ n.bill = h.amount
     \/ h.state \in {"open", "estimated"} /\ n.state = "final"
     \/ h.state = "open" /\ n.state = "void" /\ n.bill = 0

(* At most one hold is opened at a time, last in the list. *)
Opens(hs) ==
  LET h == hs[Len(hs)]
  IN  h.state = "open" /\ h.bill = 0 /\ Committed(hs, h.account) <= h.limit

Next ==
  /\ \A i \in 1..Len(holds) : i <= Len(holds') /\ Evolves(holds[i], holds'[i])
  /\ \/ Len(holds') = Len(holds)
     \/ Len(holds') = Len(holds) + 1 /\ Opens(holds')

Spec == Init /\ [][Next]_holds
=============================================================================
