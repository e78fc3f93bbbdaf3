------------------------------ MODULE JobQueue ------------------------------
(***************************************************************************)
(* The jobs table of varden/queue.py and the worker threads of             *)
(* varden/worker_runtime.py, which poll it.                                *)
(*                                                                         *)
(* A worker goes round                                                     *)
(*                                                                         *)
(*   idle -> claiming -> running -> completing -> idle                     *)
(*                           \-> failing -> requeueing | burying -> idle   *)
(*                                                                         *)
(* reserve and fail read the row in one transaction and write it in the    *)
(* next one; neither write compares what was read.  A worker whose own     *)
(* call to reserve or fail raises, or whose process stops, is dead, and    *)
(* stays so until the service is started anew, which is not modelled.      *)
(***************************************************************************)
EXTENDS Naturals, FiniteSets

CONSTANTS
  Workers,      \* worker threads
  MaxJobs,      \* jobs ever enqueued (bound)
  MaxAttempts   \* max_attempts of every job

ASSUME QueueAssumption ==
  /\ IsFiniteSet(Workers)
  /\ MaxJobs \in Nat /\ MaxAttempts \in Nat \ {0}

VARIABLES
  jobs,     \* the jobs table: ids 1..n are enqueued
  worker    \* the worker threads

queueVars == <<jobs, worker>>

JobIds == 1..MaxJobs
JobStatuses == {"absent", "queued", "leased", "done", "dead_letter"}
WorkerSteps == {"idle", "claiming", "running", "completing", "failing",
                "requeueing", "burying", "dead"}

(* leased_until is left out: it is NULL in every queued row, and only      *)
(* queued rows are offered, so a lease that ran out changes nothing.       *)
(* succeeded says whether a handler ever returned; the code does not keep  *)
(* it.  Each claim starts a handler, so attempts counts its runs.          *)
NoJob == [status |-> "absent", attempts |-> 0, buried |-> FALSE, succeeded |-> FALSE]
IdleWorker == [step |-> "idle", job |-> 0]

QueueInit ==
  /\ jobs = [j \in JobIds |-> NoJob]
  /\ worker = [w \in Workers |-> IdleWorker]

Enqueued == {j \in JobIds : jobs[j].status # "absent"}

Enqueue ==
  /\ \E j \in JobIds \ Enqueued :
       /\ \A k \in JobIds : k < j => k \in Enqueued
       /\ jobs' = [jobs EXCEPT ![j].status = "queued"]
  /\ UNCHANGED worker

(* Mutant: whatever is not leased is offered. *)
OfferedUnlessLeased(j) == jobs[j].status # "leased" /\ ~ jobs[j].buried

(* The WHERE clause of reserve. *)
Offered(j) == jobs[j].status = "queued" /\ ~ jobs[j].buried

(* ORDER BY id LIMIT 1 *)
NextOffered(j) == Offered(j) /\ \A k \in JobIds : k < j => ~ Offered(k)

Go(w, step) == worker' = [worker EXCEPT ![w].step = step]

(* The SELECT of reserve.  When nothing is offered the worker sleeps and   *)
(* polls again.                                                            *)
SelectJob(w) ==
  /\ worker[w].step = "idle"
  /\ \E j \in JobIds : NextOffered(j)
                       /\ worker' = [worker EXCEPT ![w] = [step |-> "claiming", job |-> j]]
  /\ UNCHANGED jobs

(* Mutant: the attempt is not counted. *)
ClaimedUncounted(job) == [job EXCEPT !.status = "leased"]

Claimed(job) == [job EXCEPT !.status = "leased", !.attempts = @ + 1]

(* The UPDATE of reserve, by id.  The handler starts. *)
ClaimJob(w) ==
  /\ worker[w].step = "claiming"
  /\ jobs' = [jobs EXCEPT ![worker[w].job] = Claimed(@)]
  /\ Go(w, "running")

(* The handler returns, or it raises: an unknown job type raises too. *)
RunSucceeds(w) ==
  /\ worker[w].step = "running"
  /\ jobs' = [jobs EXCEPT ![worker[w].job].succeeded = TRUE]
  /\ Go(w, "completing")

RunRaises(w) ==
  /\ worker[w].step = "running"
  /\ Go(w, "failing")
  /\ UNCHANGED jobs

(* complete, by id.  If it raises the worker calls fail. *)
Complete(w) ==
  /\ worker[w].step = "completing"
  /\ jobs' = [jobs EXCEPT ![worker[w].job].status = "done"]
  /\ worker' = [worker EXCEPT ![w] = IdleWorker]

CompleteRaises(w) ==
  /\ worker[w].step = "completing"
  /\ Go(w, "failing")
  /\ UNCHANGED jobs

(* Mutants: every failure is retried; the last attempt is not granted. *)
NeverExhausted(job) == FALSE
ExhaustedEarly(job) == job.attempts + 1 >= MaxAttempts

Exhausted(job) == job.attempts >= MaxAttempts

(* The SELECT of fail ... *)
ReadAttempts(w) ==
  /\ worker[w].step = "failing"
  /\ Go(w, IF Exhausted(jobs[worker[w].job]) THEN "burying" ELSE "requeueing")
  /\ UNCHANGED jobs

(* ... and its two UPDATEs, by id.  A requeued row keeps dead_lettered. *)
Bury(w) ==
  /\ worker[w].step = "burying"
  /\ jobs' = [jobs EXCEPT ![worker[w].job].status = "dead_letter",
                          ![worker[w].job].buried = TRUE]
  /\ worker' = [worker EXCEPT ![w] = IdleWorker]

Requeue(w) ==
  /\ worker[w].step = "requeueing"
  /\ jobs' = [jobs EXCEPT ![worker[w].job].status = "queued"]
  /\ worker' = [worker EXCEPT ![w] = IdleWorker]

(* The process stops, or reserve or fail raises outside the try block and  *)
(* ends the thread, which nothing starts again; an idle worker may die so, *)
(* and all of them may.  The job it held stays as it is.                   *)
Die(w) ==
  /\ worker[w].step # "dead"
  /\ Go(w, "dead")
  /\ UNCHANGED jobs

WorkerStep(w) ==
  \/ SelectJob(w) \/ ClaimJob(w)
  \/ RunSucceeds(w) \/ RunRaises(w)
  \/ Complete(w) \/ CompleteRaises(w)
  \/ ReadAttempts(w) \/ Bury(w) \/ Requeue(w)

QueueNext == Enqueue \/ \E w \in Workers : WorkerStep(w) \/ Die(w)

(* A worker thread that lives keeps polling and its handlers return. *)
QueueFairness == \A w \in Workers : WF_queueVars(WorkerStep(w))

QueueSpec == QueueInit /\ [][QueueNext]_queueVars /\ QueueFairness

(***************************************************************************)
(* Properties                                                              *)
(***************************************************************************)
JobType == [status : JobStatuses, attempts : Nat, buried : BOOLEAN, succeeded : BOOLEAN]

(* Rows and threads have their types, and a thread that holds a job holds  *)
(* one that was enqueued.                                                  *)
QueueTypeOK ==
  /\ jobs \in [JobIds -> JobType]
  /\ worker \in [Workers -> [step : WorkerSteps, job : 0..MaxJobs]]
  /\ \A w \in Workers : worker[w].step \notin {"idle", "dead"} => worker[w].job \in Enqueued

(* Two workers may claim one job at once, and one may requeue what the     *)
(* other finished or buried; still a job is not run for ever.  When its    *)
(* last attempt starts, n workers may all be about to requeue it: the k-th *)
(* to do so offers it to k idle workers, and all k may claim it.           *)
Overrun == LET n == Cardinality(Workers) IN (n * (n + 1)) \div 2 - 1
AttemptsBounded == \A j \in JobIds : jobs[j].attempts <= MaxAttempts + Overrun

(* done means a handler returned, and a job is buried only after every     *)
(* attempt it may have was used.                                           *)
OutcomeEarned ==
  \A j \in JobIds :
    /\ jobs[j].status = "done" => jobs[j].succeeded
    /\ jobs[j].buried => jobs[j].attempts >= MaxAttempts

Settled(j) == jobs[j].status = "done" \/ jobs[j].buried

(* Leased to a worker that died: nothing takes such a lease back. *)
Abandoned(j) ==
  /\ jobs[j].status = "leased"
  /\ \E w \in Workers : worker[w] = [step |-> "dead", job |-> j]

NoWorkerLives == \A w \in Workers : worker[w].step = "dead"

(* Every job that is enqueued is finished or buried in the end, unless it  *)
(* is left leased to a worker that died, or no worker thread lives any     *)
(* more.  One that dies before it claims takes no job with it.             *)
EveryJobSettles ==
  \A j \in JobIds : (j \in Enqueued) ~> (Settled(j) \/ Abandoned(j) \/ NoWorkerLives)
=============================================================================
