---------------------------- MODULE MCBudgetGuard ----------------------------
(***************************************************************************)
(* Finite instances of BudgetGuard for TLC.                                *)
(***************************************************************************)
EXTENDS BudgetGuard, TLC

CONSTANTS g1, g2, p1, p2

HardSession == [id |-> "s", window |-> "session", limit |-> 3, hard |-> TRUE, price |-> 1]
HardDaily   == [id |-> "d", window |-> "daily", limit |-> 3, hard |-> TRUE, price |-> 1]

(* A later version of HardDaily: the same counter, a dearer model. *)
DearerDaily == [HardDaily EXCEPT !.limit = 5, !.price = 2]
SoftDaily   == [HardDaily EXCEPT !.hard = FALSE]

DailyRule    == {HardDaily}
DailyList    == {<<HardDaily>>}

(* A second rule of the same id, for a dearer model, as a copied policy    *)
(* may contain.                                                            *)
CopiedDaily  == [HardDaily EXCEPT !.limit = 6, !.price = 2]
BothHard     == {HardSession, HardDaily, CopiedDaily}
BothHardList == {<<HardSession, HardDaily>>, <<HardDaily, CopiedDaily>>}
SoftFirst     == {SoftDaily, HardSession}
SoftFirstList == {<<SoftDaily, HardSession>>}
AllRules     == {SoftDaily, DearerDaily}
AllLists     == {<<SoftDaily>>, <<DearerDaily>>, << >>}

SameCaller == g1 :> p1 @@ g2 :> p1
TwoCallers == g1 :> p1 @@ g2 :> p2

(* Calls of one caller may be swapped, and callers with their calls. *)
Interchangeable ==
  {s \in Permutations(Guards \cup Principals) :
     \A g \in Guards : s[g] \in Guards /\ PrincipalOf[s[g]] = s[PrincipalOf[g]]}
=============================================================================
