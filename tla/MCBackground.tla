---------------------------- MODULE MCBackground ----------------------------
(***************************************************************************)
(* Finite instances of Background for TLC.                                 *)
(*                                                                         *)
(* The workers and the alert thread share no variable, and every property  *)
(* is about one of them; so a behaviour in which only one of them ever     *)
(* moves shows as much of that one as any other.  focus says which: TLC    *)
(* then explores the two side by side instead of their product.            *)
(***************************************************************************)
EXTENDS Background, TLC

CONSTANTS w1, w2

VARIABLE focus

FocusedInit == Init /\ focus \in {"jobs", "alerts"}

FocusedNext ==
  /\ \/ focus = "jobs" /\ QueueNext /\ UNCHANGED alertVars
     \/ focus = "alerts" /\ AlertNext /\ UNCHANGED queueVars
  /\ UNCHANGED focus

(* The fairness of Spec: the part that never begins has nothing to do. *)
FocusedSpec ==
  FocusedInit /\ [][FocusedNext]_<<vars, focus>> /\ QueueFairness /\ AlertFairness
=============================================================================
