--------------------------- MODULE MCApprovalGuard ---------------------------
(***************************************************************************)
(* Finite instances of ApprovalGuard for TLC.                              *)
(***************************************************************************)
EXTENDS ApprovalGuard, TLC

CONSTANTS c1, c2, c3, o1, o2

InTrace  == [hash |-> "h", trace |-> "t"]
NoTraceGiven == [hash |-> "h", trace |-> NoTrace]
OtherTrace == [hash |-> "h", trace |-> "u"]

SomeActions == {InTrace, NoTraceGiven, OtherTrace}
SomeRequests == {<<InTrace, "plain">>, <<NoTraceGiven, "json_text">>, <<OtherTrace, "plain">>}
(* Requests and resolutions of a kind are interchangeable. *)
Interchangeable == Permutations(Calls) \cup Permutations(Operators)
Earlier == <<InTrace>>
OneAction == {InTrace}
OneRequest == {<<InTrace, "plain">>}
=============================================================================
