--------------------------- MODULE SingleUseGrant ---------------------------
(***************************************************************************)
(* What scoped approvals promise of one token: an operator issues it, at   *)
(* most one call spends it, and only while it is live.  A token may lose   *)
(* its force before it is spent (a newer one replaces it, the approval is  *)
(* denied or expires), and never gets it back.                             *)
(***************************************************************************)
CONSTANTS Tokens, Callers

VARIABLES
  standing,  \* of each token: "unissued", "live", "spent" or "void"
  spenders   \* of each token: the calls that spent it

grantVars == <<standing, spenders>>

Init ==
  /\ standing = [t \in Tokens |-> "unissued"]
  /\ spenders = [t \in Tokens |-> {}]

Live == {t \in Tokens : standing[t] = "live"}

Issue(t, lapsed) ==
  /\ standing[t] = "unissued"
  /\ lapsed \subseteq Live
  /\ standing' = [u \in Tokens |-> IF u = t THEN "live"
                                   ELSE IF u \in lapsed THEN "void" ELSE standing[u]]
  /\ UNCHANGED spenders

Spend(t, c) ==
  /\ standing[t] = "live"
  /\ standing' = [standing EXCEPT ![t] = "spent"]
  /\ spenders' = [spenders EXCEPT ![t] = {c}]

Lapse(lapsed) ==
  /\ lapsed \subseteq Live
  /\ standing' = [u \in Tokens |-> IF u \in lapsed THEN "void" ELSE standing[u]]
  /\ UNCHANGED spenders

Next ==
  \/ \E t \in Tokens, lapsed \in SUBSET Tokens : Issue(t, lapsed)
  \/ \E t \in Tokens, c \in Callers : Spend(t, c)
  \/ \E lapsed \in SUBSET Tokens : Lapse(lapsed)

Spec == Init /\ [][Next]_grantVars
=============================================================================
