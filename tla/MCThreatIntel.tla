---------------------------- MODULE MCThreatIntel ----------------------------
EXTENDS ThreatIntel, TLC

CONSTANTS h1, h2, h3, r1, r2

\* h1 and h2 select different contracts; h3 is h1 withdrawn by the source
TwoTemplates == h1 :> r1 @@ h2 :> r2 @@ h3 :> r1
OneRevision  == h1 :> {h2, h3} @@ h2 :> {} @@ h3 :> {}

\* the policy starts without the rules, and another route may replace it by
\* one with a rule of the first template's id that enforces nothing
NothingYet == {NoRules}
DormantOne == {[named |-> {r1}, proven |-> {}]}

\* calls differ in nothing but their name
Interchangeable == Permutations(Calls)

=============================================================================
