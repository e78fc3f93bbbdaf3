----------------------------- MODULE Background -----------------------------
(***************************************************************************)
(* What runs beside the request handlers: the job workers and the alert    *)
(* thread.  They share the database file but no row, so a step of one      *)
(* leaves the other as it is; each is scheduled fairly on its own.         *)
(***************************************************************************)
EXTENDS JobQueue, AlertWorker

vars == <<queueVars, alertVars>>

Init == QueueInit /\ AlertInit

Next ==
  \/ QueueNext /\ UNCHANGED alertVars
  \/ AlertNext /\ UNCHANGED queueVars

Spec == Init /\ [][Next]_vars /\ QueueFairness /\ AlertFairness
=============================================================================
