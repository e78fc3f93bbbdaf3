-------------------------- MODULE BackgroundProofs --------------------------
(***************************************************************************)
(* For every number of workers, jobs, attempts and events, and any window: *)
(* what the job queue and the alert thread keep true.  The two share no    *)
(* variable, so each has an invariant of its own and leaves the other's    *)
(* alone.                                                                  *)
(***************************************************************************)
EXTENDS Background, FiniteSetTheorems, TLAPS

(***************************************************************************)
(* The job queue.                                                          *)
(***************************************************************************)
\* what a worker about to write "done" or "dead_letter" has learnt
OutcomeLearnt ==
  \A w \in Workers :
    /\ worker[w].step = "completing" => jobs[worker[w].job].succeeded
    /\ worker[w].step = "burying" => jobs[worker[w].job].attempts >= MaxAttempts

QueueInv == QueueTypeOK /\ OutcomeEarned /\ OutcomeLearnt

Threads == [step : WorkerSteps, job : 0..MaxJobs]

\* a row keeps what it has learnt
Outlives(later, job) ==
  /\ later \in JobType /\ later.status # "absent"
  /\ later.attempts >= job.attempts
  /\ job.succeeded => later.succeeded
  /\ later.status = "done" => later.succeeded
  /\ later.buried => later.attempts >= MaxAttempts

LEMMA QueueFacts ==
  ASSUME QueueInv
  PROVE  /\ jobs \in [JobIds -> JobType] /\ worker \in [Workers -> Threads]
         /\ \A w \in Workers : worker[w].step \notin {"idle", "dead"} =>
              worker[w].job \in JobIds /\ jobs[worker[w].job].status # "absent"
         /\ \A j \in JobIds : jobs[j].status # "absent" => Outlives(jobs[j], jobs[j])
<1>1. jobs \in [JobIds -> JobType] /\ worker \in [Workers -> Threads]
  BY DEF QueueInv, QueueTypeOK, Threads
<1>2. \A w \in Workers : worker[w].step \notin {"idle", "dead"} =>
        worker[w].job \in JobIds /\ jobs[worker[w].job].status # "absent"
  BY DEF QueueInv, QueueTypeOK, Enqueued
<1>3. \A j \in JobIds : jobs[j].status # "absent" => Outlives(jobs[j], jobs[j])
  BY <1>1 DEF QueueInv, OutcomeEarned, Outlives, JobType
<1> QED BY <1>1, <1>2, <1>3

\* a thread that moves on with what it has learnt, and perhaps a row written
LEMMA ThreadKeepsQueueInv ==
  ASSUME QueueInv, NEW w \in Workers, NEW t \in Threads,
         worker' = [worker EXCEPT ![w] = t], jobs' \in [JobIds -> JobType],
         \A j \in JobIds : jobs'[j] = jobs[j] \/ Outlives(jobs'[j], jobs[j]),
         t.step \notin {"idle", "dead"} =>
            t.job \in JobIds /\ jobs'[t.job].status # "absent",
         t.step = "completing" => jobs'[t.job].succeeded,
         t.step = "burying" => jobs'[t.job].attempts >= MaxAttempts
  PROVE  QueueInv'
<1>1. /\ jobs \in [JobIds -> JobType] /\ worker \in [Workers -> Threads]
      /\ worker' \in [Workers -> Threads]
  BY QueueFacts
<1>2. \A j \in JobIds : jobs[j].status # "absent" => jobs'[j].status # "absent"
  BY DEF Outlives
<1>3. ASSUME NEW v \in Workers, worker'[v].step \notin {"idle", "dead"}
      PROVE  worker'[v].job \in JobIds /\ jobs'[worker'[v].job].status # "absent"
  BY <1>1, <1>2, <1>3, QueueFacts
<1>4. QueueTypeOK'
  BY <1>1, <1>3 DEF QueueTypeOK, Threads, Enqueued
<1>5. OutcomeEarned'
  BY QueueFacts DEF QueueInv, OutcomeEarned, Outlives
<1>6. ASSUME NEW v \in Workers
      PROVE  /\ worker'[v].step = "completing" => jobs'[worker'[v].job].succeeded
             /\ worker'[v].step = "burying" => jobs'[worker'[v].job].attempts >= MaxAttempts
  <2>1. CASE v = w BY <1>1, <2>1
  <2>2. CASE v # w
    <3>1. worker'[v] = worker[v] BY <1>1, <2>2
    <3>2. CASE worker[v].step = "completing"
      BY <3>1, <3>2, QueueFacts DEF QueueInv, OutcomeLearnt, Outlives
    <3>3. CASE worker[v].step = "burying"
      <4>1. /\ worker[v].job \in JobIds
            /\ jobs[worker[v].job].attempts >= MaxAttempts
            /\ jobs[worker[v].job].attempts \in Nat /\ jobs'[worker[v].job].attempts \in Nat
        BY <3>3, QueueFacts DEF QueueInv, OutcomeLearnt, JobType
      <4> QED BY <3>1, <3>3, <4>1, QueueAssumption DEF Outlives
    <3> QED BY <3>1, <3>2, <3>3
  <2> QED BY <2>1, <2>2
<1> QED BY <1>4, <1>5, <1>6 DEF QueueInv, OutcomeLearnt

LEMMA WorkerKeepsQueueInv ==
  ASSUME QueueInv, NEW w \in Workers, WorkerStep(w) \/ Die(w)
  PROVE  QueueInv'
<1> DEFINE t(step) == [worker[w] EXCEPT !.step = step]
           job == worker[w].job
<1>1. /\ jobs \in [JobIds -> JobType] /\ worker \in [Workers -> Threads]
      /\ \A j \in JobIds : jobs[j].attempts \in Nat
  BY QueueFacts DEF JobType
<1>2. ASSUME NEW step, Go(w, step)
      PROVE  worker' = [worker EXCEPT ![w] = t(step)]
  BY <1>2 DEF Go
<1>3. \A step \in WorkerSteps :
        t(step) \in Threads /\ t(step).step = step /\ t(step).job = job
  BY <1>1 DEF Threads
<1>4. IdleWorker \in Threads /\ IdleWorker.step = "idle"
  BY QueueAssumption DEF IdleWorker, Threads, WorkerSteps
<1>5. worker[w].step \notin {"idle", "dead"} =>
        job \in JobIds /\ jobs[job] \in JobType /\ Outlives(jobs[job], jobs[job])
  BY <1>1, QueueFacts
<1> HIDE DEF t, job
<1>6. CASE SelectJob(w)
  <2>1. PICK j \in JobIds :
          /\ jobs[j].status = "queued"
          /\ worker' = [worker EXCEPT ![w] = [step |-> "claiming", job |-> j]]
    BY <1>6 DEF SelectJob, NextOffered, Offered
  <2>2. [step |-> "claiming", job |-> j] \in Threads
    BY DEF Threads, WorkerSteps, JobIds
  <2>3. UNCHANGED jobs
    BY <1>6 DEF SelectJob
  <2> QED BY <1>1, <2>1, <2>2, <2>3, ThreadKeepsQueueInv
<1>7. CASE ClaimJob(w)
  <2>1. /\ worker[w].step = "claiming" /\ Go(w, "running")
        /\ jobs' = [jobs EXCEPT ![job] = Claimed(jobs[job])]
    BY <1>7 DEF ClaimJob, job
  <2>2. Claimed(jobs[job]) \in JobType
    <3>1. jobs[job] \in JobType /\ jobs[job].attempts + 1 \in Nat
      BY <1>1, <1>5, <2>1
    <3>2. Claimed(jobs[job]) = [jobs[job] EXCEPT !.status = "leased",
                                                 !.attempts = jobs[job].attempts + 1]
      BY DEF Claimed
    <3> QED BY <3>1, <3>2, Zenon DEF JobType, JobStatuses
  <2>3. Outlives(Claimed(jobs[job]), jobs[job])
    <3>1. /\ Claimed(jobs[job]).attempts = jobs[job].attempts + 1
          /\ Claimed(jobs[job]).status = "leased"
          /\ Claimed(jobs[job]).buried = jobs[job].buried
          /\ Claimed(jobs[job]).succeeded = jobs[job].succeeded
      BY <1>5, <2>1 DEF Claimed, JobType
    <3>2. /\ jobs[job].attempts + 1 >= jobs[job].attempts
          /\ jobs[job].attempts >= MaxAttempts => jobs[job].attempts + 1 >= MaxAttempts
      BY <1>1, <1>5, <2>1, QueueAssumption
    <3> QED BY <1>5, <2>1, <2>2, <3>1, <3>2 DEF Outlives
  <2>4. jobs' \in [JobIds -> JobType] /\ jobs'[job] = Claimed(jobs[job])
        /\ \A j \in JobIds \ {job} : jobs'[j] = jobs[j]
    BY <1>1, <1>5, <2>1, <2>2
  <2>5. jobs'[job].status # "absent"
    BY <2>3, <2>4 DEF Outlives
  <2>6. "running" \in WorkerSteps BY DEF WorkerSteps
  <2>7. /\ t("running") \in Threads /\ t("running").step = "running" /\ t("running").job = job
        /\ worker' = [worker EXCEPT ![w] = t("running")]
    BY <1>2, <1>3, <2>1, <2>6
  <2> QED BY <1>5, <2>1, <2>3, <2>4, <2>5, <2>7, ThreadKeepsQueueInv
<1>8. CASE RunSucceeds(w)
  <2> DEFINE row == [jobs[job] EXCEPT !.succeeded = TRUE]
  <2>1. /\ worker[w].step = "running" /\ Go(w, "completing")
        /\ jobs' = [jobs EXCEPT ![job] = row]
    BY <1>8 DEF RunSucceeds, job
  <2>2. row \in JobType /\ row.succeeded /\ row.status = jobs[job].status
        /\ row.attempts = jobs[job].attempts /\ row.buried = jobs[job].buried
    BY <1>5, <2>1 DEF JobType
  <2> HIDE DEF row
  <2>3. Outlives(row, jobs[job])
    BY <1>5, <2>1, <2>2 DEF Outlives
  <2>4. jobs' \in [JobIds -> JobType] /\ jobs'[job] = row
        /\ \A j \in JobIds \ {job} : jobs'[j] = jobs[j]
    BY <1>1, <1>5, <2>1, <2>2
  <2>5. "completing" \in WorkerSteps BY DEF WorkerSteps
  <2>6. /\ t("completing") \in Threads /\ t("completing").step = "completing"
        /\ t("completing").job = job
        /\ worker' = [worker EXCEPT ![w] = t("completing")]
    BY <1>2, <1>3, <2>1, <2>5
  <2> QED BY <1>5, <2>1, <2>2, <2>3, <2>4, <2>6, ThreadKeepsQueueInv DEF Outlives
<1>9. CASE RunRaises(w) \/ CompleteRaises(w) \/ ReadAttempts(w) \/ Die(w)
  <2>1. PICK step \in {"failing", "requeueing", "burying", "dead"} :
          /\ Go(w, step)
          /\ step # "dead" => worker[w].step \notin {"idle", "dead"}
          /\ step = "burying" => Exhausted(jobs[job])
    BY <1>9 DEF RunRaises, CompleteRaises, ReadAttempts, Die, job
  <2>2. UNCHANGED jobs /\ step \in WorkerSteps
    BY <1>9 DEF RunRaises, CompleteRaises, ReadAttempts, Die, WorkerSteps
  <2>3. /\ t(step) \in Threads /\ t(step).step = step /\ t(step).job = job
        /\ worker' = [worker EXCEPT ![w] = t(step)]
    BY <1>2, <1>3, <2>1, <2>2
  <2>4. step # "dead" => job \in JobIds /\ jobs[job].status # "absent"
    BY <1>5, <2>1 DEF Outlives
  <2>5. step = "burying" => jobs[job].attempts >= MaxAttempts
    BY <2>1 DEF Exhausted
  <2> QED BY <1>1, <2>1, <2>2, <2>3, <2>4, <2>5, ThreadKeepsQueueInv
<1>10. CASE Complete(w) \/ Bury(w) \/ Requeue(w)
  <2>1. PICK row \in {[jobs[job] EXCEPT !.status = "done"],
                      [jobs[job] EXCEPT !.status = "dead_letter", !.buried = TRUE],
                      [jobs[job] EXCEPT !.status = "queued"]} :
          /\ jobs' = [jobs EXCEPT ![job] = row]
          /\ row = [jobs[job] EXCEPT !.status = "done"] => worker[w].step = "completing"
          /\ row = [jobs[job] EXCEPT !.status = "dead_letter", !.buried = TRUE] =>
                worker[w].step = "burying"
    <3>1. CASE Complete(w)
      BY <1>5, <3>1 DEF Complete, job, JobType
    <3>2. CASE Bury(w)
      BY <1>5, <3>2 DEF Bury, job, JobType
    <3>3. CASE Requeue(w)
      BY <1>5, <3>3 DEF Requeue, job, JobType
    <3> QED BY <1>10, <3>1, <3>2, <3>3
  <2>2. worker[w].step \in {"completing", "burying", "requeueing"}
        /\ worker' = [worker EXCEPT ![w] = IdleWorker]
    BY <1>10 DEF Complete, Bury, Requeue
  <2>3. row \in JobType
    BY <1>5, <2>1, <2>2 DEF JobType, JobStatuses
  <2>4. Outlives(row, jobs[job])
    <3>1. row.attempts = jobs[job].attempts /\ row.succeeded = jobs[job].succeeded
          /\ row.status \in {"done", "dead_letter", "queued"}
      BY <1>5, <2>1, <2>2 DEF JobType
    <3>2. row.status = "done" => worker[w].step = "completing"
      BY <1>5, <2>1, <2>2 DEF JobType
    <3>3. row.buried => jobs[job].buried \/ worker[w].step = "burying"
      BY <1>5, <2>1, <2>2 DEF JobType
    <3>4. /\ worker[w].step = "completing" => jobs[job].succeeded
          /\ worker[w].step = "burying" => jobs[job].attempts >= MaxAttempts
      BY DEF QueueInv, OutcomeLearnt, job
    <3> QED BY <1>5, <2>2, <2>3, <3>1, <3>2, <3>3, <3>4 DEF Outlives
  <2>5. jobs' \in [JobIds -> JobType] /\ jobs'[job] = row
        /\ \A j \in JobIds \ {job} : jobs'[j] = jobs[j]
    BY <1>1, <1>5, <2>1, <2>2, <2>3
  <2> QED BY <1>4, <2>2, <2>4, <2>5, ThreadKeepsQueueInv
<1> QED BY <1>6, <1>7, <1>8, <1>9, <1>10 DEF WorkerStep

LEMMA QueueInitInv == QueueInit => QueueInv
<1> SUFFICES ASSUME QueueInit PROVE QueueInv
  OBVIOUS
<1>1. jobs \in [JobIds -> JobType] /\ worker \in [Workers -> Threads]
  BY QueueAssumption DEF QueueInit, NoJob, IdleWorker, JobType, JobStatuses, Threads, WorkerSteps
<1> QED BY <1>1 DEF QueueInit, NoJob, IdleWorker, QueueInv, QueueTypeOK, Threads, OutcomeEarned,
       OutcomeLearnt

LEMMA QueueNextKeepsInv == QueueInv /\ [QueueNext]_queueVars => QueueInv'
<1> SUFFICES ASSUME QueueInv, [QueueNext]_queueVars PROVE QueueInv'
  OBVIOUS
<1>1. CASE Enqueue
  <2>1. PICK j \in JobIds : /\ jobs[j].status = "absent" /\ UNCHANGED worker
                            /\ jobs' = [jobs EXCEPT ![j].status = "queued"]
    BY <1>1 DEF Enqueue, Enqueued
  <2>2. jobs \in [JobIds -> JobType] /\ worker \in [Workers -> Threads]
    BY QueueFacts
  <2>3. [jobs[j] EXCEPT !.status = "queued"] \in JobType
    BY <2>2 DEF JobType, JobStatuses
  <2>4. /\ jobs' \in [JobIds -> JobType]
        /\ \A k \in JobIds : /\ jobs'[k].attempts = jobs[k].attempts
                             /\ jobs'[k].buried = jobs[k].buried
                             /\ jobs'[k].succeeded = jobs[k].succeeded
                             /\ jobs'[k].status \in {jobs[k].status, "queued"}
    <3>1. jobs' = [jobs EXCEPT ![j] = [jobs[j] EXCEPT !.status = "queued"]]
      BY <2>1
    <3>2. ASSUME NEW k \in JobIds
          PROVE  /\ jobs'[k].attempts = jobs[k].attempts
                 /\ jobs'[k].buried = jobs[k].buried
                 /\ jobs'[k].succeeded = jobs[k].succeeded
                 /\ jobs'[k].status \in {jobs[k].status, "queued"}
      <4>1. CASE k = j BY <2>2, <3>1, <4>1 DEF JobType
      <4>2. CASE k # j BY <2>2, <3>1, <4>2
      <4> QED BY <4>1, <4>2
    <3> QED BY <2>2, <2>3, <3>1, <3>2
  <2>5. QueueTypeOK'
    BY <2>1, <2>2, <2>4, QueueFacts DEF QueueTypeOK, Enqueued, Threads
  <2>6. OutcomeEarned' /\ OutcomeLearnt'
    BY <2>1, <2>4, QueueFacts DEF QueueInv, OutcomeEarned, OutcomeLearnt
  <2> QED BY <2>5, <2>6 DEF QueueInv
<1>2. ASSUME NEW w \in Workers, WorkerStep(w) \/ Die(w) PROVE QueueInv'
  BY <1>2, WorkerKeepsQueueInv
<1>3. CASE UNCHANGED queueVars
  BY <1>3 DEF queueVars, QueueInv, QueueTypeOK, Enqueued, OutcomeEarned, OutcomeLearnt
<1> QED BY <1>1, <1>2, <1>3 DEF QueueNext

THEOREM QueueInvariantHolds == Spec => []QueueInv
<1>1. Init => QueueInv
  BY QueueInitInv DEF Init
<1>2. QueueInv /\ [Next]_vars => QueueInv'
  <2> SUFFICES ASSUME QueueInv, [Next]_vars PROVE QueueInv'
    OBVIOUS
  <2>1. [QueueNext]_queueVars
    BY DEF Next, vars, queueVars
  <2> QED BY <2>1, QueueNextKeepsInv
<1> QED BY <1>1, <1>2, PTL DEF Spec

\* A thread that holds a job holds an enqueued one, for any number of either.
THEOREM QueueTypeCorrect == Spec => []QueueTypeOK
<1>1. QueueInv => QueueTypeOK BY DEF QueueInv
<1> QED BY <1>1, QueueInvariantHolds, PTL

\* A job that is done had a handler return; one that is buried had all its
\* attempts, although fail decides in one transaction and writes in another.
THEOREM OutcomesEarned == Spec => []OutcomeEarned
<1>1. QueueInv => OutcomeEarned BY DEF QueueInv
<1> QED BY <1>1, QueueInvariantHolds, PTL

(***************************************************************************)
(* How far a job can overrun its attempts.  With n workers, r of them      *)
(* about to requeue the job, c about to claim it and q more who may still  *)
(* select it, c + q claims are due now, and each of the r requeues can     *)
(* bring one claim of every worker who is not about to requeue then.       *)
(***************************************************************************)
Twice(n, a, r, c, q) == 2 * (a - MaxAttempts + 1) + 2 * (c + q) + r * (2 * n - r + 1)
Fits(n, a, r, c, q) == a >= MaxAttempts => Twice(n, a, r, c, q) <= n * (n + 1)

LEMMA FewerClaims ==
  ASSUME NEW n \in Nat, NEW a \in Nat, NEW r \in Nat, NEW c \in Nat, NEW q \in Nat,
         Fits(n, a, r, c, q), NEW d \in Nat, NEW p \in Nat, d + p <= c + q
  PROVE  Fits(n, a, r, d, p)
<1>1. 2 * (d + p) <= 2 * (c + q) /\ MaxAttempts \in Nat
  BY QueueAssumption
<1> DEFINE x == r * (2 * n - r + 1)
           y == n * (n + 1)
<1>2. x \in Int /\ y \in Int OBVIOUS
<1>3. a >= MaxAttempts => 2 * (a - MaxAttempts + 1) + 2 * (c + q) + x <= y
  BY DEF Fits, Twice
<1> HIDE DEF x, y
<1>4. a >= MaxAttempts => 2 * (a - MaxAttempts + 1) + 2 * (d + p) + x <= y
  BY <1>1, <1>2, <1>3
<1> QED BY <1>4 DEF Fits, Twice, x, y

\* the claim that starts the last attempt leaves room for all that may follow
LEMMA ClaimFits ==
  ASSUME NEW n \in Nat, NEW a \in Nat, NEW r \in Nat, NEW c \in Nat, NEW q \in Nat,
         Fits(n, a, r, c, q), c >= 1, r + c <= n
  PROVE  Fits(n, a + 1, r, c - 1, 0)
<1>1. MaxAttempts \in Nat
  BY QueueAssumption
<1>2. CASE a >= MaxAttempts
  <2> DEFINE x == r * (2 * n - r + 1)
             y == n * (n + 1)
  <2>1. x \in Int /\ y \in Int OBVIOUS
  <2>2. 2 * (a - MaxAttempts + 1) + 2 * (c + q) + x <= y
    BY <1>2 DEF Fits, Twice
  <2> HIDE DEF x, y
  <2>3. 2 * ((a + 1) - MaxAttempts + 1) + 2 * ((c - 1) + 0) + x <= y
    BY <1>1, <2>1, <2>2
  <2> QED BY <2>3 DEF Fits, Twice, x, y
<1>3. CASE a < MaxAttempts
  <2> SUFFICES ASSUME a + 1 >= MaxAttempts
               PROVE  Twice(n, a + 1, r, c - 1, 0) <= n * (n + 1)
    BY DEF Fits
  <2>1. a + 1 = MaxAttempts
    BY <1>1, <1>3
  <2>2. PICK e \in Nat : n = r + c + e
    <3>1. n - (r + c) \in Nat /\ n = r + c + (n - (r + c))
      OBVIOUS
    <3> QED BY <3>1
  <2>3. PICK f \in Nat : c = f + 1
    <3>1. c - 1 \in Nat /\ c = (c - 1) + 1
      OBVIOUS
    <3> QED BY <3>1
  <2> DEFINE m == e + f
  <2>4. m \in Nat /\ n = r + 1 + m /\ f <= m
    BY <2>2, <2>3
  <2> HIDE DEF m
  <2>5. 2 + 2 * f + r * (2 * n - r + 1) <= n * (n + 1)
    <3>1. r * (2 * n - r + 1) = r * r + 3 * r + 2 * (r * m)
      BY <2>4
    <3>2. n * (n + 1) = r * r + 3 * r + 2 + 2 * (r * m) + m * m + 3 * m
      BY <2>4
    <3>3. m * m >= 0 /\ m * m \in Int /\ r * r \in Int /\ r * m \in Int
      BY <2>4
    <3> QED BY <2>3, <2>4, <3>1, <3>2, <3>3
  <2> QED BY <1>1, <2>1, <2>3, <2>5 DEF Twice
<1> QED BY <1>1, <1>2, <1>3

\* a requeue spends what was set aside for it
LEMMA RequeueFits ==
  ASSUME NEW n \in Nat, NEW a \in Nat, NEW r \in Nat, NEW c \in Nat, NEW q \in Nat,
         Fits(n, a, r, c, q), r >= 1, NEW p \in Nat, p <= n - (r - 1) - c
  PROVE  Fits(n, a, r - 1, c, p)
<1>1. MaxAttempts \in Nat
  BY QueueAssumption
<1> SUFFICES ASSUME a >= MaxAttempts
             PROVE  Twice(n, a, r - 1, c, p) <= n * (n + 1)
  BY DEF Fits
<1> DEFINE x == r * (2 * n - r + 1)
           y == n * (n + 1)
           z == (r - 1) * (2 * n - (r - 1) + 1)
<1>2. x \in Int /\ y \in Int /\ z \in Int OBVIOUS
<1>3. x = z + 2 * (n - r + 1)
  <2>1. PICK k \in Nat : r = k + 1
    <3>1. r - 1 \in Nat /\ r = (r - 1) + 1
      OBVIOUS
    <3> QED BY <3>1
  <2>2. (k + 1) * (2 * n - (k + 1) + 1) = k * (2 * n - k + 1) + 2 * (n - (k + 1) + 1)
    BY <2>1
  <2> QED BY <2>1, <2>2
<1>4. 2 * (a - MaxAttempts + 1) + 2 * (c + q) + x <= y
  BY DEF Fits, Twice
<1> HIDE DEF x, y, z
<1>5. 2 * (a - MaxAttempts + 1) + 2 * (c + p) + z <= y
  BY <1>1, <1>2, <1>3, <1>4
<1> QED BY <1>5 DEF Twice, y, z

\* in the end the attempts themselves are within the bound
LEMMA FitsBounds ==
  ASSUME NEW n \in Nat, NEW a \in Nat, NEW r \in Nat, NEW c \in Nat, NEW q \in Nat,
         Fits(n, a, r, c, q), r <= n
  PROVE  a <= MaxAttempts + ((n * (n + 1)) \div 2 - 1)
<1>1. MaxAttempts \in Nat
  BY QueueAssumption
<1> DEFINE x == r * (2 * n - r + 1)
           y == n * (n + 1)
<1>2. x \in Int /\ y \in Int OBVIOUS
<1>3. x >= 0
  <2>1. 2 * n - r + 1 \in Nat OBVIOUS
  <2> QED BY <2>1
<1>4. y >= 0 OBVIOUS
<1>5. a >= MaxAttempts => 2 * (a - MaxAttempts + 1) + 2 * (c + q) + x <= y
  BY DEF Fits, Twice
<1> HIDE DEF x, y
<1>6. a - MaxAttempts + 1 <= y \div 2
  BY <1>1, <1>2, <1>3, <1>4, <1>5
<1>7. y \div 2 \in Int
  BY <1>2
<1>8. a <= MaxAttempts + (y \div 2 - 1)
  BY <1>1, <1>6, <1>7
<1> QED BY <1>8 DEF y

(***************************************************************************)
(* The workers at one step with one job, and how a thread's move changes   *)
(* their number.                                                           *)
(***************************************************************************)
Among(threads, step, j) == {w \in Workers : threads[w].step = step /\ threads[w].job = j}
Requeuers(j) == Cardinality(Among(worker, "requeueing", j))
Claimers(j) == Cardinality(Among(worker, "claiming", j))
Crew == Cardinality(Workers)
Takers(j) == IF Offered(j) THEN Crew - Requeuers(j) - Claimers(j) ELSE 0

CountsOK ==
  /\ Crew \in Nat
  /\ \A j : /\ Requeuers(j) \in Nat /\ Claimers(j) \in Nat
            /\ Requeuers(j) + Claimers(j) <= Crew

LEMMA Counts == CountsOK /\ CountsOK'
<1>1. IsFiniteSet(Workers)
  BY QueueAssumption
<1>2. Crew \in Nat
  BY <1>1, FS_CardinalityType DEF Crew
<1>3. ASSUME NEW threads, NEW j
      PROVE  LET R == {w \in Workers : threads[w].step = "requeueing" /\ threads[w].job = j}
                 C == {w \in Workers : threads[w].step = "claiming" /\ threads[w].job = j}
             IN  /\ Cardinality(R) \in Nat /\ Cardinality(C) \in Nat
                 /\ Cardinality(R) + Cardinality(C) <= Crew
  <2> DEFINE R == {w \in Workers : threads[w].step = "requeueing" /\ threads[w].job = j}
             C == {w \in Workers : threads[w].step = "claiming" /\ threads[w].job = j}
  <2>1. R \in SUBSET Workers /\ C \in SUBSET Workers /\ R \cup C \in SUBSET Workers
        /\ R \cap C = {}
    OBVIOUS
  <2> HIDE DEF R, C
  <2>2. IsFiniteSet(R) /\ IsFiniteSet(C)
    BY <1>1, <2>1, FS_Subset
  <2>3. Cardinality(R) \in Nat /\ Cardinality(C) \in Nat
    BY <2>2, FS_CardinalityType
  <2>4. Cardinality(R \cup C) = Cardinality(R) + Cardinality(C) - Cardinality({})
    BY <2>1, <2>2, FS_Union
  <2>5. Cardinality({}) = 0
    BY FS_EmptySet
  <2>6. Cardinality(R \cup C) <= Crew
    BY <1>1, <2>1, FS_Subset DEF Crew
  <2>7. Cardinality(R) + Cardinality(C) <= Crew
    BY <2>3, <2>4, <2>5, <2>6
  <2> QED BY <2>3, <2>7 DEF R, C
<1>4. CountsOK
  BY <1>2, <1>3 DEF CountsOK, Requeuers, Claimers, Among
<1>5. CountsOK'
  BY <1>2, <1>3 DEF CountsOK, Requeuers, Claimers, Among, Crew
<1> QED BY <1>4, <1>5

Holds(t, step, j) == t.step = step /\ t.job = j

LEMMA Moves ==
  ASSUME QueueInv, NEW w \in Workers, NEW t \in Threads,
         worker' = [worker EXCEPT ![w] = t], NEW j
  PROVE  /\ (Holds(worker[w], "requeueing", j) <=> Holds(t, "requeueing", j)) =>
              Requeuers(j)' = Requeuers(j)
         /\ (Holds(worker[w], "claiming", j) <=> Holds(t, "claiming", j)) =>
              Claimers(j)' = Claimers(j)
         /\ ~Holds(worker[w], "claiming", j) /\ Holds(t, "claiming", j) =>
              Claimers(j)' = Claimers(j) + 1
         /\ Holds(worker[w], "requeueing", j) /\ ~Holds(t, "requeueing", j) =>
              Requeuers(j)' = Requeuers(j) - 1
         /\ Holds(worker[w], "claiming", j) /\ ~Holds(t, "claiming", j) =>
              Claimers(j)' = Claimers(j) - 1
<1>1. /\ Requeuers(j) = Cardinality(Among(worker, "requeueing", j))
      /\ Claimers(j) = Cardinality(Among(worker, "claiming", j))
      /\ Requeuers(j)' = Cardinality(Among(worker', "requeueing", j))
      /\ Claimers(j)' = Cardinality(Among(worker', "claiming", j))
  BY DEF Requeuers, Claimers
<1>2. ASSUME NEW step \in {"requeueing", "claiming"}
      PROVE  LET S == Among(worker, step, j)
                 T == Among(worker', step, j)
             IN  /\ (Holds(worker[w], step, j) <=> Holds(t, step, j)) =>
                       Cardinality(T) = Cardinality(S)
                 /\ ~Holds(worker[w], step, j) /\ Holds(t, step, j) =>
                       Cardinality(T) = Cardinality(S) + 1
                 /\ Holds(worker[w], step, j) /\ ~Holds(t, step, j) =>
                       Cardinality(T) = Cardinality(S) - 1
  <2> DEFINE S == Among(worker, step, j)
             T == Among(worker', step, j)
  <2>1. worker \in [Workers -> Threads]
    BY QueueFacts
  <2>2. w \in S <=> Holds(worker[w], step, j)
    BY DEF Among, Holds
  <2>3. w \in T <=> Holds(t, step, j)
    BY <2>1 DEF Among, Holds
  <2>4. \A v : v # w => (v \in S <=> v \in T)
    BY <2>1 DEF Among
  <2>5. S \in SUBSET Workers
    BY DEF Among
  <2> HIDE DEF S, T
  <2>6. IsFiniteSet(S)
    BY <2>5, QueueAssumption, FS_Subset
  <2>7. ASSUME Holds(worker[w], step, j) <=> Holds(t, step, j)
        PROVE  Cardinality(T) = Cardinality(S)
    <3>1. S = T BY <2>2, <2>3, <2>4, <2>7
    <3> QED BY <3>1
  <2>8. ASSUME ~Holds(worker[w], step, j) /\ Holds(t, step, j)
        PROVE  Cardinality(T) = Cardinality(S) + 1
    <3>1. T = S \cup {w} /\ w \notin S BY <2>2, <2>3, <2>4, <2>8
    <3> QED BY <2>6, <3>1, FS_AddElement
  <2>9. ASSUME Holds(worker[w], step, j) /\ ~Holds(t, step, j)
        PROVE  Cardinality(T) = Cardinality(S) - 1
    <3>1. T = S \ {w} /\ w \in S BY <2>2, <2>3, <2>4, <2>9
    <3> QED BY <2>6, <3>1, FS_RemoveElement
  <2> QED BY <2>7, <2>8, <2>9 DEF S, T
<1> QED BY <1>1, <1>2

(***************************************************************************)
(* The bound is inductive.                                                 *)
(***************************************************************************)
FitsNow(j) == Fits(Crew, jobs[j].attempts, Requeuers(j), Claimers(j), Takers(j))

OverrunInv ==
  \A j \in JobIds : (jobs[j].status = "absent" => jobs[j].attempts = 0) /\ FitsNow(j)

\* a thread that turns neither to nor from a claim or a requeue of j, and
\* leaves j's attempts and does not offer it anew
LEMMA QuietKeepsFits ==
  ASSUME QueueInv, NEW w \in Workers, NEW t \in Threads,
         worker' = [worker EXCEPT ![w] = t], NEW j \in JobIds, FitsNow(j),
         t.step \in {"claiming", "requeueing"} => t.job # j,
         worker[w].step \in {"claiming", "requeueing"} => worker[w].job # j,
         jobs'[j].attempts = jobs[j].attempts, Offered(j)' => Offered(j)
  PROVE  FitsNow(j)'
<1>1. Requeuers(j)' = Requeuers(j) /\ Claimers(j)' = Claimers(j)
  BY Moves DEF Holds
<1>2. Takers(j) \in Nat /\ Takers(j)' \in Nat /\ Takers(j)' <= Takers(j)
  BY <1>1, Counts DEF Takers, CountsOK, Crew
<1>3. jobs[j].attempts \in Nat
  BY QueueFacts DEF JobType
<1> QED BY SMTT(30), <1>1, <1>2, <1>3, Counts, FewerClaims DEF FitsNow, CountsOK, Crew

LEMMA WorkerKeepsFits ==
  ASSUME QueueInv, NEW w \in Workers, WorkerStep(w) \/ Die(w), NEW j \in JobIds, FitsNow(j)
  PROVE  FitsNow(j)'
<1> DEFINE t(step) == [worker[w] EXCEPT !.step = step]
           job == worker[w].job
           n == Crew
           a == jobs[j].attempts
           r == Requeuers(j)
           c == Claimers(j)
           q == Takers(j)
<1>1. /\ jobs \in [JobIds -> JobType] /\ worker \in [Workers -> Threads]
      /\ worker[w].step \notin {"idle", "dead"} => job \in JobIds
  BY QueueFacts
<1>2. ASSUME NEW step, Go(w, step)
      PROVE  worker' = [worker EXCEPT ![w] = t(step)]
  BY <1>2 DEF Go
<1>3. \A step \in WorkerSteps :
        t(step) \in Threads /\ t(step).step = step /\ t(step).job = job
  BY <1>1 DEF Threads
<1>4. IdleWorker \in Threads /\ IdleWorker.step = "idle"
  BY QueueAssumption DEF IdleWorker, Threads, WorkerSteps
<1>5. /\ n \in Nat /\ a \in Nat /\ r \in Nat /\ c \in Nat /\ q \in Nat /\ r + c <= n
      /\ Fits(n, a, r, c, q)
      /\ Requeuers(j)' + Claimers(j)' <= n
  BY <1>1, Counts DEF CountsOK, Takers, JobType, FitsNow, Crew
<1>6. /\ Offered(j)' => Takers(j)' = n - Requeuers(j)' - Claimers(j)'
      /\ ~Offered(j)' => Takers(j)' = 0
      /\ Offered(j) => q = n - r - c
  BY DEF Takers, Crew
<1>7. ASSUME Fits(n, jobs'[j].attempts, Requeuers(j)', Claimers(j)', Takers(j)')
      PROVE  FitsNow(j)'
  BY <1>7 DEF FitsNow, Crew
<1> HIDE DEF t, job, n, a, r, c, q
<1>8. CASE SelectJob(w)
  <2>1. PICK k \in JobIds :
          /\ Offered(k) /\ worker[w].step = "idle"
          /\ worker' = [worker EXCEPT ![w] = [step |-> "claiming", job |-> k]]
    BY <1>8 DEF SelectJob, NextOffered
  <2>2. [step |-> "claiming", job |-> k] \in Threads
    BY DEF Threads, WorkerSteps, JobIds
  <2>3. UNCHANGED jobs /\ (Offered(j)' <=> Offered(j))
    BY <1>8 DEF SelectJob, Offered
  <2>4. CASE k = j
    <3>1. Requeuers(j)' = r /\ Claimers(j)' = c + 1
      BY <2>1, <2>2, <2>4, Moves DEF r, c, Holds
    <3>2. Takers(j)' = q - 1 /\ Takers(j)' \in Nat
      BY <1>5, <1>6, <2>1, <2>3, <2>4, <3>1
    <3>3. Fits(n, a, r, c + 1, Takers(j)')
      BY <1>5, <3>2, FewerClaims
    <3> QED BY <1>7, <2>3, <3>1, <3>3 DEF a
  <2>5. CASE k # j
    BY <2>1, <2>2, <2>3, <2>5, QuietKeepsFits
  <2> QED BY <2>4, <2>5
<1>9. CASE ClaimJob(w)
  <2>1. /\ worker[w].step = "claiming" /\ Go(w, "running")
        /\ jobs' = [jobs EXCEPT ![job] = Claimed(jobs[job])]
    BY <1>9 DEF ClaimJob, job
  <2>2. "running" \in WorkerSteps BY DEF WorkerSteps
  <2>3. /\ t("running") \in Threads /\ t("running").step = "running"
        /\ worker' = [worker EXCEPT ![w] = t("running")]
    BY <1>2, <1>3, <2>1, <2>2
  <2>4. CASE job = j
    <3>1. Requeuers(j)' = r /\ Claimers(j)' = c - 1 /\ c >= 1
      <4>1. Requeuers(j)' = r /\ Claimers(j)' = c - 1
        BY <1>5, <2>1, <2>3, <2>4, Moves DEF r, c, job, Holds
      <4>2. Claimers(j)' \in Nat
        BY Counts DEF CountsOK
      <4> QED BY <1>5, <4>1, <4>2
    <3>2. jobs'[j] = Claimed(jobs[j])
      BY <1>1, <2>1, <2>4
    <3>3. jobs'[j].attempts = a + 1 /\ jobs'[j].status = "leased"
      BY <1>1, <3>2 DEF Claimed, JobType, a
    <3>4. Takers(j)' = 0
      BY <1>6, <3>3 DEF Offered
    <3>5. Fits(n, a + 1, r, c - 1, 0)
      BY <1>5, <3>1, ClaimFits
    <3> QED BY <1>7, <3>1, <3>3, <3>4, <3>5
  <2>5. CASE job # j
    <3>1. jobs'[j] = jobs[j] BY <1>1, <2>1, <2>5
    <3> QED BY <2>1, <2>3, <2>5, <3>1, QuietKeepsFits DEF job, Offered
  <2> QED BY <2>4, <2>5
<1>10. CASE ReadAttempts(w)
  <2>1. PICK step \in {"burying", "requeueing"} :
          /\ Go(w, step) /\ worker[w].step = "failing" /\ UNCHANGED jobs
          /\ step = "requeueing" => ~Exhausted(jobs[job])
    BY <1>10 DEF ReadAttempts, job
  <2>2. step \in WorkerSteps BY DEF WorkerSteps
  <2>3. /\ t(step) \in Threads /\ t(step).step = step /\ t(step).job = job
        /\ worker' = [worker EXCEPT ![w] = t(step)]
    BY <1>2, <1>3, <2>1, <2>2
  <2>4. CASE step = "requeueing" /\ job = j
    <3>1. ~(jobs'[j].attempts >= MaxAttempts)
      BY <2>1, <2>4 DEF Exhausted
    <3> QED BY <1>7, <3>1 DEF Fits
  <2>5. CASE ~(step = "requeueing" /\ job = j)
    BY <2>1, <2>3, <2>5, QuietKeepsFits DEF Offered
  <2> QED BY <2>4, <2>5
<1>11. CASE RunSucceeds(w) \/ RunRaises(w) \/ CompleteRaises(w)
  <2>1. PICK step \in {"completing", "failing"} :
          Go(w, step) /\ worker[w].step \in {"running", "completing"}
    BY <1>11 DEF RunSucceeds, RunRaises, CompleteRaises
  <2>2. jobs'[j].attempts = jobs[j].attempts /\ (Offered(j)' => Offered(j))
    <3>1. CASE RunSucceeds(w)
      <4>1. jobs' = [jobs EXCEPT ![job] = [jobs[job] EXCEPT !.succeeded = TRUE]]
        BY <3>1 DEF RunSucceeds, job
      <4>2. CASE job = j
        <5>1. jobs'[j] = [jobs[j] EXCEPT !.succeeded = TRUE] /\ jobs[j] \in JobType
          BY <1>1, <4>1, <4>2
        <5> QED BY <5>1 DEF Offered, JobType
      <4>3. CASE job # j
        BY <1>1, <4>1, <4>3 DEF Offered
      <4> QED BY <4>2, <4>3
    <3>2. CASE ~RunSucceeds(w)
      BY <1>11, <3>2 DEF RunRaises, CompleteRaises, Offered
    <3> QED BY <3>1, <3>2
  <2>3. step \in WorkerSteps BY DEF WorkerSteps
  <2>4. /\ t(step) \in Threads /\ t(step).step = step
        /\ worker' = [worker EXCEPT ![w] = t(step)]
    BY <1>2, <1>3, <2>1, <2>3
  <2> QED BY <2>1, <2>2, <2>4, QuietKeepsFits
<1>12. CASE Complete(w) \/ Bury(w)
  <2>1. /\ worker[w].step \in {"completing", "burying"}
        /\ worker' = [worker EXCEPT ![w] = IdleWorker]
    BY <1>12 DEF Complete, Bury
  <2>2. jobs'[j].attempts = jobs[j].attempts /\ (Offered(j)' => Offered(j))
    <3>1. PICK row \in {[jobs[job] EXCEPT !.status = "done"],
                        [jobs[job] EXCEPT !.status = "dead_letter", !.buried = TRUE]} :
            jobs' = [jobs EXCEPT ![job] = row]
      BY <1>12 DEF Complete, Bury, job
    <3>2. CASE job = j
      <4>1. jobs'[j] = row /\ jobs[j] \in JobType
        BY <1>1, <3>1, <3>2
      <4>2. row.attempts = jobs[j].attempts /\ row.status # "queued"
        BY <3>1, <3>2, <4>1 DEF JobType
      <4> QED BY <4>1, <4>2 DEF Offered
    <3>3. CASE job # j
      BY <1>1, <3>1, <3>3 DEF Offered
    <3> QED BY <3>2, <3>3
  <2> QED BY <1>4, <2>1, <2>2, QuietKeepsFits
<1>13. CASE Requeue(w)
  <2>1. /\ worker[w].step = "requeueing"
        /\ worker' = [worker EXCEPT ![w] = IdleWorker]
        /\ jobs' = [jobs EXCEPT ![job] = [jobs[job] EXCEPT !.status = "queued"]]
    BY <1>13 DEF Requeue, job
  <2>2. CASE job = j
    <3>1. Requeuers(j)' = r - 1 /\ Claimers(j)' = c
      BY <1>4, <1>5, <2>1, <2>2, Moves DEF r, c, job, Holds
    <3>2. r >= 1
      BY <1>5, <3>1, Counts DEF CountsOK
    <3>3. Takers(j)' \in Nat /\ Takers(j)' <= n - (r - 1) - c
      BY <1>5, <1>6, <3>1, <3>2
    <3>4. jobs'[j].attempts = a
      BY <1>1, <2>1, <2>2 DEF a, JobType
    <3>5. Fits(n, a, r - 1, c, Takers(j)')
      BY <1>5, <3>2, <3>3, RequeueFits
    <3> QED BY <1>7, <3>1, <3>4, <3>5
  <2>3. CASE job # j
    <3>1. jobs'[j] = jobs[j] BY <1>1, <2>1, <2>3
    <3> QED BY <1>4, <2>1, <2>3, <3>1, QuietKeepsFits DEF job, Offered
  <2> QED BY <2>2, <2>3
<1>14. CASE Die(w)
  <2>1. Go(w, "dead") /\ UNCHANGED jobs /\ "dead" \in WorkerSteps
    BY <1>14 DEF Die, WorkerSteps
  <2>2. /\ t("dead") \in Threads /\ t("dead").step = "dead"
        /\ worker' = [worker EXCEPT ![w] = t("dead")]
    BY <1>2, <1>3, <2>1
  <2>3. /\ jobs'[j].attempts = a /\ (Offered(j)' <=> Offered(j))
    BY <2>1 DEF a, Offered
  <2>4. CASE worker[w].step = "requeueing" /\ job = j
    <3>1. Requeuers(j)' = r - 1 /\ Claimers(j)' = c
      BY <1>5, <2>2, <2>4, Moves DEF r, c, job, Holds
    <3>2. r >= 1
      BY <1>5, <3>1, Counts DEF CountsOK
    <3>3. Takers(j)' \in Nat /\ Takers(j)' <= n - (r - 1) - c
      BY <1>5, <1>6, <3>1, <3>2
    <3>4. Fits(n, a, r - 1, c, Takers(j)')
      BY <1>5, <3>2, <3>3, RequeueFits
    <3> QED BY <1>7, <2>3, <3>1, <3>4
  <2>5. CASE worker[w].step = "claiming" /\ job = j
    <3>1. Requeuers(j)' = r /\ Claimers(j)' = c - 1
      BY <1>5, <2>2, <2>5, Moves DEF r, c, job, Holds
    <3>2. c - 1 \in Nat
      BY <1>5, <3>1, Counts DEF CountsOK
    <3>3. Takers(j)' \in Nat /\ Takers(j)' <= q + 1
      BY <1>5, <1>6, <2>3, <3>1, <3>2
    <3>4. Fits(n, a, r, c - 1, Takers(j)')
      BY SMTT(30), <1>5, <3>2, <3>3, FewerClaims
    <3> QED BY <1>7, <2>3, <3>1, <3>4
  <2>6. CASE worker[w].step \in {"claiming", "requeueing"} => job # j
    BY <2>2, <2>3, <2>6, QuietKeepsFits DEF a, job
  <2> QED BY <2>4, <2>5, <2>6
<1> QED BY <1>8, <1>9, <1>10, <1>11, <1>12, <1>13, <1>14 DEF WorkerStep

LEMMA QueueNextKeepsOverrun ==
  QueueInv /\ OverrunInv /\ [QueueNext]_queueVars => OverrunInv'
<1> SUFFICES ASSUME QueueInv, OverrunInv, [QueueNext]_queueVars, NEW j \in JobIds
             PROVE  (jobs'[j].status = "absent" => jobs'[j].attempts = 0) /\ FitsNow(j)'
  BY DEF OverrunInv
<1>1. jobs \in [JobIds -> JobType] /\ worker \in [Workers -> Threads]
  BY QueueFacts
<1>2. (jobs[j].status = "absent" => jobs[j].attempts = 0) /\ FitsNow(j)
  BY DEF OverrunInv
<1>3. CASE Enqueue
  <2>1. PICK k \in JobIds : /\ jobs[k].status = "absent" /\ UNCHANGED worker
                            /\ jobs' = [jobs EXCEPT ![k].status = "queued"]
    BY <1>3 DEF Enqueue, Enqueued
  <2>2. CASE k = j
    <3>1. jobs'[j].attempts = 0 /\ jobs'[j].status = "queued"
      BY <1>1, <1>2, <2>1, <2>2 DEF JobType
    <3>2. ~(jobs'[j].attempts >= MaxAttempts)
      BY <3>1, QueueAssumption
    <3> QED BY <3>1, <3>2 DEF FitsNow, Fits
  <2>3. CASE k # j
    <3>1. jobs'[j] = jobs[j] BY <1>1, <2>1, <2>3
    <3>2. FitsNow(j)' <=> FitsNow(j)
      BY <2>1, <3>1 DEF FitsNow, Takers, Offered, Requeuers, Claimers, Among, Crew
    <3> QED BY <1>2, <3>1, <3>2
  <2> QED BY <2>2, <2>3
<1>4. ASSUME NEW w \in Workers, WorkerStep(w) \/ Die(w)
      PROVE  (jobs'[j].status = "absent" => jobs'[j].attempts = 0) /\ FitsNow(j)'
  <2>1. jobs'[j].status = "absent" => jobs'[j].attempts = 0
    <3>1. CASE ClaimJob(w)
      <4>1. jobs'[j] \in {jobs[j], Claimed(jobs[j])}
        BY <1>1, <3>1 DEF ClaimJob
      <4>2. Claimed(jobs[j]).status = "leased"
        BY <1>1 DEF Claimed, JobType
      <4> QED BY <1>2, <4>1, <4>2
    <3>2. CASE RunSucceeds(w)
      <4>1. jobs'[j] \in {jobs[j], [jobs[j] EXCEPT !.succeeded = TRUE]}
        BY <1>1, <3>2 DEF RunSucceeds
      <4> QED BY <1>1, <1>2, <4>1 DEF JobType
    <3>3. CASE Complete(w) \/ Bury(w) \/ Requeue(w)
      <4>1. jobs'[j] \in {jobs[j], [jobs[j] EXCEPT !.status = "done"],
                          [jobs[j] EXCEPT !.status = "dead_letter", !.buried = TRUE],
                          [jobs[j] EXCEPT !.status = "queued"]}
        BY <1>1, <3>3 DEF Complete, Bury, Requeue
      <4> QED BY <1>1, <1>2, <4>1 DEF JobType
    <3>4. CASE ~ (ClaimJob(w) \/ RunSucceeds(w) \/ Complete(w) \/ Bury(w) \/ Requeue(w))
      BY <1>2, <1>4, <3>4 DEF WorkerStep, SelectJob, RunRaises, CompleteRaises, ReadAttempts, Die
    <3> QED BY <3>1, <3>2, <3>3, <3>4
  <2> QED BY <1>2, <1>4, <2>1, WorkerKeepsFits
<1>5. CASE UNCHANGED queueVars
  <2>1. FitsNow(j)' <=> FitsNow(j)
    BY <1>5 DEF queueVars, FitsNow, Takers, Offered, Requeuers, Claimers, Among, Crew
  <2> QED BY <1>2, <1>5, <2>1 DEF queueVars
<1> QED BY <1>3, <1>4, <1>5 DEF QueueNext

\* However workers race over a job, it is run a bounded number of times,
\* for every number of workers: n of them may all be about to requeue it
\* when its last attempt starts.
THEOREM OverrunBounded == Spec => []AttemptsBounded
<1>1. Init => OverrunInv
  <2> SUFFICES ASSUME Init, NEW j \in JobIds
               PROVE  jobs[j].attempts = 0 /\ FitsNow(j)
    BY DEF OverrunInv
  <2>1. jobs[j].attempts = 0
    BY DEF Init, QueueInit, NoJob
  <2> QED BY <2>1, QueueAssumption DEF FitsNow, Fits
<1>2. QueueInv /\ OverrunInv /\ [Next]_vars => OverrunInv'
  <2> SUFFICES ASSUME QueueInv, OverrunInv, [Next]_vars PROVE OverrunInv'
    OBVIOUS
  <2>1. [QueueNext]_queueVars
    BY DEF Next, vars, queueVars
  <2> QED BY <2>1, QueueNextKeepsOverrun
<1>3. QueueInv /\ OverrunInv => AttemptsBounded
  <2> SUFFICES ASSUME QueueInv, OverrunInv, NEW j \in JobIds
               PROVE  jobs[j].attempts <= MaxAttempts + Overrun
    BY DEF AttemptsBounded
  <2> DEFINE n == Crew
             r == Requeuers(j)
  <2>1. /\ jobs[j].attempts \in Nat /\ n \in Nat /\ r \in Nat /\ Claimers(j) \in Nat
        /\ Takers(j) \in Nat /\ r <= n
    BY QueueFacts, Counts DEF JobType, CountsOK, Takers, Crew
  <2>2. Fits(n, jobs[j].attempts, r, Claimers(j), Takers(j))
    BY DEF OverrunInv, FitsNow
  <2>3. Overrun = (n * (n + 1)) \div 2 - 1
    BY DEF Overrun, Crew
  <2> HIDE DEF n, r
  <2> QED BY <2>1, <2>2, <2>3, FitsBounds
<1> QED BY <1>1, <1>2, <1>3, QueueInvariantHolds, PTL DEF Spec

(***************************************************************************)
(* The alert thread.                                                       *)
(***************************************************************************)
\* an alert e calls for was raised, or e was outrun
Arrived(e, k) == k \in due[e] => stored[e][k] > 0 \/ Outrun(e)
Accounted(e) == \A k \in Kinds : Arrived(e, k)

\* the batch in hand lies after last_seen; what it skipped was outrun
BatchInv ==
  alerter.step \in {"handling", "storing"} =>
    /\ alerter.seen < alerter.next /\ alerter.next <= alerter.last
    /\ \A e \in 1..(alerter.next - 1) : Accounted(e)
    /\ alerter.kind = 2 => Arrived(alerter.next, 1)

\* the alerts beyond last_seen that this run of the server has delivered:
\* those of the event in hand up to the one in hand
Delivered(e, k) ==
  /\ alerter.step \in {"handling", "storing"} /\ e = alerter.next
  /\ k < alerter.kind \/ (k = alerter.kind /\ alerter.step = "storing")

FreshInv ==
  \A e \in EventIds, k \in Kinds :
    /\ alerter.step # "dead" /\ e > alerter.seen /\ ~ Delivered(e, k) =>
         sent[e][k] < alerter.starts
    /\ alerter.step = "storing" /\ e = alerter.next /\ k = alerter.kind => stored[e][k] < sent[e][k]

AlertInv ==
  AlertTypeOK /\ AlertedOncePerRun /\ NoneOverlooked /\ BatchInv /\ FreshInv

AlerterThreads == [step : AlerterSteps, next : Nat, kind : Kinds, last : 0..Len(due),
                   seen : 0..Len(due), starts : 1..MaxStarts]

LEMMA AlertFacts ==
  ASSUME AlertTypeOK
  PROVE  /\ due \in Seq(SUBSET Kinds) /\ Len(due) \in Nat
         /\ Len(due) <= MaxEvents /\ MaxEvents \in Nat /\ MaxStarts \in Nat
         /\ Window \in Nat /\ Window > 0
         /\ alerter \in AlerterThreads /\ alerter.step \in AlerterSteps
         /\ alerter.next \in Nat /\ alerter.last \in Nat /\ alerter.last <= Len(due)
         /\ alerter.kind \in {1, 2}
         /\ alerter.seen \in Nat /\ alerter.seen <= Len(due)
         /\ alerter.starts \in Nat /\ 1 <= alerter.starts /\ alerter.starts <= MaxStarts
         /\ sent \in [EventIds -> [Kinds -> Nat]] /\ stored \in [EventIds -> [Kinds -> Nat]]
<1>1. alerter \in AlerterThreads /\ Len(due) \in Nat
  BY DEF AlertTypeOK, AlerterThreads
<1> QED BY <1>1, AlertAssumption DEF AlertTypeOK, AlerterThreads, Kinds

\* both parts of the safety properties, for one event and kind
LEMMA CountFacts ==
  ASSUME AlertTypeOK, AlertedOncePerRun, NEW e \in EventIds, NEW k \in Kinds
  PROVE  /\ sent[e][k] \in Nat /\ stored[e][k] \in Nat
         /\ stored[e][k] <= sent[e][k] /\ sent[e][k] <= alerter.starts
BY DEF AlertTypeOK, AlertedOncePerRun

LEMMA OverlookedFacts ==
  ASSUME AlertTypeOK
  PROVE  NoneOverlooked <=> \A e \in 1..alerter.seen : Accounted(e)
<1>1. \A e \in 1..alerter.seen : due[e] \subseteq Kinds
  BY AlertFacts
<1> QED BY <1>1 DEF NoneOverlooked, Accounted, Arrived

LEMMA AlertInitInv == AlertInit => AlertInv
<1> SUFFICES ASSUME AlertInit PROVE AlertInv
  OBVIOUS
<1>1. due = << >> /\ Len(due) = 0 /\ due \in Seq(SUBSET Kinds)
  BY DEF AlertInit
<1>2. FreshAlerter \in AlerterThreads
  BY <1>1, AlertAssumption DEF FreshAlerter, AlerterThreads, AlerterSteps, Kinds
<1>3. AlertTypeOK
  BY <1>1, <1>2, AlertAssumption DEF AlertInit, AlertTypeOK, AlerterThreads
<1>4. /\ alerter.step = "polling" /\ alerter.seen = 0 /\ alerter.starts = 1
      /\ \A e \in EventIds, k \in Kinds : sent[e][k] = 0 /\ stored[e][k] = 0
  BY DEF AlertInit, FreshAlerter
<1> QED BY <1>3, <1>4 DEF AlertInv, AlertedOncePerRun, NoneOverlooked, BatchInv, FreshInv

LEMMA LogKeepsAlertInv ==
  ASSUME AlertInv, LogEvent
  PROVE  AlertInv'
<1> USE AlertFacts DEF AlertInv
<1>1. PICK alerts \in SUBSET Kinds : due' = Append(due, alerts)
  BY DEF LogEvent
<1>2. Len(due) < MaxEvents /\ UNCHANGED <<alerter, sent, stored>>
  BY DEF LogEvent
<1>3. /\ due' \in Seq(SUBSET Kinds) /\ Len(due') = Len(due) + 1
      /\ \A e \in 1..Len(due) : due'[e] = due[e]
  BY <1>1
<1>4. AlertTypeOK'
  <2>1. alerter \in AlerterThreads'
    BY <1>3 DEF AlerterThreads
  <2> QED BY <1>2, <1>3, <2>1 DEF AlertTypeOK, AlerterThreads
<1>5. ASSUME NEW e \in 1..Len(due), NEW k \in Kinds, Arrived(e, k)
      PROVE  Arrived(e, k)'
  BY <1>2, <1>3, <1>5 DEF Arrived, Outrun
<1>6. \A e \in 1..Len(due) : Accounted(e) => Accounted(e)'
  BY <1>5 DEF Accounted
<1>7. NoneOverlooked'
  <2>1. \A e \in 1..alerter.seen : Accounted(e)
    BY OverlookedFacts
  <2>2. \A e \in 1..alerter.seen : Accounted(e)'
    BY <1>6, <2>1
  <2>3. \A e \in 1..alerter'.seen : due'[e] \subseteq Kinds
    BY <1>2, <1>3
  <2> QED BY <1>2, <2>2, <2>3 DEF NoneOverlooked, Accounted, Arrived
<1>8. BatchInv'
  <2>1. 1 \in Kinds BY DEF Kinds
  <2>2. alerter.step \in {"handling", "storing"} /\ alerter.kind = 2 => Arrived(alerter.next, 1)'
    <3> SUFFICES ASSUME alerter.step \in {"handling", "storing"}, alerter.kind = 2
                 PROVE  Arrived(alerter.next, 1)'
      OBVIOUS
    <3>1. alerter.next \in 1..Len(due) /\ Arrived(alerter.next, 1)
      BY DEF BatchInv
    <3>2. PICK n \in 1..Len(due) : n = alerter.next
      BY <3>1
    <3>3. Arrived(n, 1)'
      BY <1>5, <2>1, <3>1, <3>2
    <3> QED BY <1>2, <3>2, <3>3
  <2> QED BY <1>2, <1>6, <2>2 DEF BatchInv, Arrived, Outrun
<1>9. AlertedOncePerRun' /\ FreshInv'
  BY <1>2 DEF AlertedOncePerRun, FreshInv, Delivered
<1> QED BY <1>4, <1>7, <1>8, <1>9

\* once the last alert of the event in hand is dealt with, last_seen is at it,
\* and what is left of the batch comes after it
LEMMA HandledFacts ==
  ASSUME AlertTypeOK, BatchInv, alerter.step \in {"handling", "storing"}
  PROVE  /\ Handled \in AlerterThreads /\ Handled.starts = alerter.starts
         /\ Handled.step \in {"handling", "polling"}
         /\ alerter.kind = 1 =>
              /\ Handled.seen = alerter.seen /\ Handled.step = "handling"
              /\ Handled.next = alerter.next /\ Handled.kind = 2
              /\ Handled.last = alerter.last
         /\ alerter.kind = 2 =>
              /\ Handled.seen = alerter.next
              /\ Handled.step = "handling" =>
                   /\ Handled.next = alerter.next + 1 /\ Handled.last = alerter.last
                   /\ Handled.next <= Handled.last /\ Handled.kind = 1
<1> USE AlertFacts
<1>1. alerter.next \in 0..Len(due) /\ {1, 2} \subseteq Kinds
  BY DEF BatchInv, Kinds
<1>2. CASE alerter.kind = 1
  <2>1. Handled = [alerter EXCEPT !.step = "handling", !.kind = 2]
    BY <1>2 DEF Handled, Onwards
  <2>2. Handled \in AlerterThreads
    BY <1>1, <2>1 DEF AlerterThreads, AlerterSteps
  <2>3. /\ Handled.starts = alerter.starts /\ Handled.seen = alerter.seen
        /\ Handled.step = "handling" /\ Handled.next = alerter.next /\ Handled.kind = 2
        /\ Handled.last = alerter.last
    BY <2>1 DEF AlerterThreads
  <2> QED BY <1>2, <2>2, <2>3
<1>3. CASE alerter.kind = 2 /\ alerter.next < alerter.last
  <2>1. Handled = [alerter EXCEPT !.step = "handling", !.next = alerter.next + 1, !.kind = 1,
                                  !.seen = alerter.next]
    BY <1>3 DEF Handled, Onwards
  <2>2. alerter.next + 1 \in Nat /\ alerter.next + 1 <= alerter.last
    BY <1>3
  <2>3. Handled \in AlerterThreads
    BY <1>1, <2>1, <2>2 DEF AlerterThreads, AlerterSteps
  <2>4. /\ Handled.starts = alerter.starts /\ Handled.seen = alerter.next
        /\ Handled.step = "handling" /\ Handled.next = alerter.next + 1 /\ Handled.kind = 1
        /\ Handled.last = alerter.last
    BY <2>1 DEF AlerterThreads
  <2> QED BY <1>3, <2>2, <2>3, <2>4
<1>4. CASE alerter.kind = 2 /\ ~ (alerter.next < alerter.last)
  <2>1. Handled = [alerter EXCEPT !.step = "polling", !.next = 1, !.kind = 1, !.last = 0,
                                  !.seen = alerter.next]
    BY <1>4 DEF Handled, Onwards
  <2>2. Handled.seen = alerter.next /\ Handled.starts = alerter.starts
        /\ Handled.step = "polling"
    BY <2>1 DEF AlerterThreads
  <2>3. 1 \in Nat /\ 0 \in 0..Len(due)
    OBVIOUS
  <2>4. Handled \in AlerterThreads
    BY <1>1, <2>1, <2>3 DEF AlerterThreads, AlerterSteps
  <2> QED BY <1>4, <2>2, <2>4
<1> QED BY <1>2, <1>3, <1>4

LEMMA PollKeepsAlertInv ==
  ASSUME AlertInv, Poll
  PROVE  AlertInv'
<1> USE AlertFacts DEF AlertInv
<1>1. /\ alerter.step = "polling" /\ Len(due) > alerter.seen
      /\ alerter' = [alerter EXCEPT !.step = "handling", !.next = FirstUnseen,
                                    !.kind = 1, !.last = Len(due)]
      /\ UNCHANGED <<due, sent, stored>>
  BY DEF Poll
<1>2. /\ FirstUnseen \in Nat /\ FirstUnseen <= Len(due) /\ alerter.seen < FirstUnseen
      /\ \A e \in Nat : alerter.seen < e /\ e < FirstUnseen => Outrun(e)
  BY SMTT(30), <1>1 DEF FirstUnseen, LaterOf, OldestListed, Outrun
<1>3. /\ alerter'.step = "handling" /\ alerter'.next = FirstUnseen
      /\ alerter'.last = Len(due) /\ alerter'.seen = alerter.seen /\ alerter'.kind = 1
      /\ alerter'.starts = alerter.starts /\ alerter' \in AlerterThreads
  <2>1. Len(due) \in 0..Len(due) /\ FirstUnseen \in Nat /\ 1 \in Kinds
    BY <1>2 DEF Kinds
  <2>2. alerter' \in AlerterThreads
    BY <1>1, <2>1 DEF AlerterThreads, AlerterSteps
  <2>3. /\ alerter'.step = "handling" /\ alerter'.next = FirstUnseen
        /\ alerter'.last = Len(due) /\ alerter'.seen = alerter.seen /\ alerter'.kind = 1
        /\ alerter'.starts = alerter.starts
    BY <1>1 DEF AlerterThreads
  <2> QED BY <2>2, <2>3
<1>4. AlertTypeOK'
  BY <1>1, <1>3 DEF AlertTypeOK, AlerterThreads
<1>5. \A e \in 1..(FirstUnseen - 1) : Accounted(e)
  BY <1>2, OverlookedFacts DEF Accounted, Arrived
<1>6. \A e \in 1..(FirstUnseen - 1) : Accounted(e)'
  BY <1>1, <1>5 DEF Accounted, Arrived, Outrun
<1>7. BatchInv'
  BY <1>2, <1>3, <1>6 DEF BatchInv
<1>8. NoneOverlooked' /\ AlertedOncePerRun'
  BY <1>1, <1>3 DEF NoneOverlooked, Outrun, AlertedOncePerRun
<1>9. FreshInv'
  <2> SUFFICES ASSUME NEW e \in EventIds, NEW k \in Kinds, e > alerter.seen
               PROVE  sent[e][k] < alerter.starts
    BY <1>1, <1>3 DEF FreshInv
  <2>1. ~ Delivered(e, k)
    BY <1>1 DEF Delivered
  <2> QED BY <1>1, <2>1 DEF FreshInv
<1> QED BY <1>4, <1>7, <1>8, <1>9

LEMMA BeyondLater ==
  ASSUME NEW a \in Nat, NEW n \in Nat, NEW e \in Nat, NEW b \in {a, n}, a < n, e > b
  PROVE  e > a
OBVIOUS

LEMMA HandlingKeepsAlertInv ==
  ASSUME AlertInv, PassOver \/ StoreAlert
  PROVE  AlertInv'
<1> USE AlertFacts DEF AlertInv
<1>1. /\ alerter.step \in {"handling", "storing"} /\ alerter' = Handled
      /\ UNCHANGED <<due, sent>>
  BY DEF PassOver, StoreAlert, InBatch
<1>2. PICK n \in EventIds, q \in Kinds :
        n = alerter.next /\ q = alerter.kind /\ n \in 1..Len(due) /\ alerter.seen < n
  <2>1. /\ alerter.seen < alerter.next /\ alerter.next \in 1..Len(due)
        /\ alerter.next \in EventIds /\ alerter.kind \in Kinds
    BY <1>1 DEF BatchInv, EventIds, Kinds
  <2> QED BY <2>1
<1>3. /\ alerter' \in AlerterThreads
      /\ alerter'.starts = alerter.starts /\ alerter'.step \in {"handling", "polling"}
      /\ q = 1 => /\ alerter'.seen = alerter.seen /\ alerter'.step = "handling"
                  /\ alerter'.next = n /\ alerter'.kind = 2
                  /\ alerter'.last = alerter.last
      /\ q = 2 => /\ alerter'.seen = n
                  /\ alerter'.step = "handling" =>
                       /\ alerter'.next = n + 1 /\ alerter'.next <= alerter'.last
                       /\ alerter'.kind = 1
  BY <1>1, <1>2, HandledFacts
<1>4. /\ stored' \in [EventIds -> [Kinds -> Nat]]
      /\ \A e \in EventIds, k \in Kinds : e # n \/ k # q => stored'[e][k] = stored[e][k]
      /\ \A e \in EventIds, k \in Kinds : stored'[e][k] <= sent[e][k]
  <2>1. CASE PassOver
    BY <2>1 DEF PassOver, AlertedOncePerRun
  <2>2. CASE StoreAlert
    <3>1. stored' = [stored EXCEPT ![n][q] = stored[n][q] + 1] /\ alerter.step = "storing"
      BY <1>2, <2>2 DEF StoreAlert
    <3>2. stored[n][q] < sent[n][q] /\ stored[n][q] \in Nat /\ sent[n][q] \in Nat
      BY <1>2, <3>1, CountFacts DEF FreshInv
    <3>3. stored' \in [EventIds -> [Kinds -> Nat]] /\ stored'[n][q] = stored[n][q] + 1
      BY <3>1, <3>2
    <3>4. \A e \in EventIds, k \in Kinds : e # n \/ k # q => stored'[e][k] = stored[e][k]
      BY <3>1
    <3>5. ASSUME NEW e \in EventIds, NEW k \in Kinds
          PROVE  stored'[e][k] <= sent[e][k]
      <4>1. CASE e = n /\ k = q BY <3>2, <3>3, <4>1
      <4>2. CASE e # n \/ k # q BY <3>4, <4>2, CountFacts
      <4> QED BY <4>1, <4>2
    <3> QED BY <3>3, <3>4, <3>5
  <2> QED BY <2>1, <2>2
<1>5. Arrived(n, q)'
  <2>1. CASE PassOver
    BY <1>1, <1>2, <2>1 DEF PassOver, Due, Arrived
  <2>2. CASE StoreAlert
    <3>1. stored' = [stored EXCEPT ![n][q] = stored[n][q] + 1] /\ stored[n][q] \in Nat
      BY <1>2, <2>2, CountFacts DEF StoreAlert
    <3>2. stored'[n][q] > 0
      BY <1>2, <3>1
    <3> QED BY <3>2 DEF Arrived
  <2> QED BY <2>1, <2>2
<1>6. ASSUME NEW e \in EventIds, NEW k \in Kinds, Arrived(e, k), e # n \/ k # q
      PROVE  Arrived(e, k)'
  <2>1. stored'[e][k] = stored[e][k]
    BY <1>4, <1>6
  <2> QED BY <1>1, <1>6, <2>1 DEF Arrived, Outrun
<1>7. \A e \in 1..(n - 1) : Accounted(e)'
  <2> SUFFICES ASSUME NEW e \in 1..(n - 1), NEW k \in Kinds PROVE Arrived(e, k)'
    BY DEF Accounted
  <2>1. e \in EventIds /\ e # n
    BY <1>2 DEF EventIds
  <2>2. Arrived(e, k)
    BY <1>1, <1>2 DEF BatchInv, Accounted
  <2> QED BY <1>6, <2>1, <2>2
<1>8. q = 2 => Accounted(n)'
  <2> SUFFICES ASSUME q = 2, NEW k \in Kinds, k # q PROVE Arrived(n, k)'
    BY <1>5 DEF Accounted
  <2>1. k = 1 /\ Arrived(n, k)
    BY <1>1, <1>2 DEF BatchInv, Kinds
  <2> QED BY <1>6, <2>1
<1>9. AlertTypeOK'
  BY <1>1, <1>3, <1>4 DEF AlertTypeOK, AlerterThreads
<1>10. q = 1 \/ q = 2
  BY DEF Kinds
<1>11. BatchInv'
  <2>1. CASE q = 1
    BY <1>1, <1>2, <1>3, <1>5, <1>7, <2>1 DEF BatchInv
  <2>2. CASE q = 2
    <3>1. \A e \in 1..n : Accounted(e)'
      BY <1>2, <1>7, <1>8, <2>2
    <3> QED BY <1>2, <1>3, <2>2, <3>1 DEF BatchInv
  <2> QED BY <1>10, <2>1, <2>2
<1>12. \A e \in 1..alerter'.seen : Accounted(e)'
  <2>1. CASE q = 1
    BY <1>2, <1>3, <1>7, <2>1
  <2>2. CASE q = 2
    BY <1>2, <1>3, <1>7, <1>8, <2>2
  <2> QED BY <1>10, <2>1, <2>2
<1>13. NoneOverlooked'
  <2>1. alerter'.seen \in 0..Len(due)
    BY <1>3 DEF AlerterThreads
  <2>2. \A e \in 1..Len(due) : due[e] \subseteq Kinds
    OBVIOUS
  <2>3. \A e \in 1..alerter'.seen : due'[e] \subseteq Kinds
    BY <1>1, <2>1, <2>2
  <2> QED BY <1>12, <2>3 DEF NoneOverlooked, Accounted, Arrived
<1>14. AlertedOncePerRun'
  BY <1>1, <1>3, <1>4 DEF AlertedOncePerRun
<1>15. FreshInv'
  <2> SUFFICES ASSUME NEW e \in EventIds, NEW k \in Kinds, e > alerter'.seen,
                      ~ Delivered(e, k)'
               PROVE  sent[e][k] < alerter.starts
    BY <1>1, <1>3 DEF FreshInv
  <2>1. alerter'.seen \in {alerter.seen, n}
    BY <1>3, <1>10
  <2>2. e > alerter.seen /\ alerter.step # "dead"
    <3>1. /\ e \in Nat /\ n \in Nat /\ alerter.seen \in Nat /\ alerter.seen < n
          /\ e > alerter'.seen
      BY <1>2 DEF EventIds
    <3>2. e > alerter.seen
      BY <2>1, <3>1, BeyondLater
    <3>3. alerter.step # "dead"
      BY <1>1
    <3> QED BY <3>2, <3>3
  <2>3. ~ Delivered(e, k)
    <3>1. CASE q = 1
      BY <1>1, <1>2, <1>3, <3>1 DEF Delivered, Kinds
    <3>2. CASE q = 2
      BY <1>1, <1>2, <1>3, <3>2 DEF Delivered, EventIds
    <3> QED BY <1>10, <3>1, <3>2
  <2> QED BY <2>2, <2>3 DEF FreshInv
<1> QED BY <1>9, <1>11, <1>13, <1>14, <1>15

LEMMA DeliverKeepsAlertInv ==
  ASSUME AlertInv, Deliver
  PROVE  AlertInv'
<1> USE AlertFacts DEF AlertInv
<1>1. /\ alerter.step = "handling" /\ alerter' = [alerter EXCEPT !.step = "storing"]
      /\ UNCHANGED <<due, stored>>
  BY DEF Deliver, InBatch
<1>2. PICK n \in EventIds, q \in Kinds :
        n = alerter.next /\ q = alerter.kind /\ n \in 1..Len(due) /\ alerter.seen < n
  <2>1. /\ alerter.seen < alerter.next /\ alerter.next \in 1..Len(due)
        /\ alerter.next \in EventIds /\ alerter.kind \in Kinds
    BY <1>1 DEF BatchInv, EventIds, Kinds
  <2> QED BY <2>1
<1>3. /\ sent[n][q] < alerter.starts /\ stored[n][q] <= sent[n][q]
      /\ sent[n][q] \in Nat /\ stored[n][q] \in Nat
  <2>1. ~ Delivered(n, q)
    BY <1>1, <1>2 DEF Delivered, Kinds
  <2>2. sent[n][q] < alerter.starts
    BY <1>1, <1>2, <2>1 DEF FreshInv
  <2> QED BY <2>2, CountFacts
<1>4. sent' = [sent EXCEPT ![n][q] = sent[n][q] + 1]
  BY <1>2 DEF Deliver
<1>5. /\ sent' \in [EventIds -> [Kinds -> Nat]] /\ sent'[n][q] = sent[n][q] + 1
      /\ \A e \in EventIds, k \in Kinds : e # n \/ k # q => sent'[e][k] = sent[e][k]
  BY <1>3, <1>4
<1>6. /\ alerter'.step = "storing" /\ alerter'.next = n /\ alerter'.seen = alerter.seen
      /\ alerter'.last = alerter.last /\ alerter'.kind = q
      /\ alerter'.starts = alerter.starts /\ alerter' \in AlerterThreads
  BY <1>1, <1>2 DEF AlerterThreads, AlerterSteps
<1>7. AlertTypeOK'
  BY <1>1, <1>5, <1>6 DEF AlertTypeOK, AlerterThreads
<1>8. NoneOverlooked' /\ BatchInv'
  <2>1. /\ n <= alerter.last /\ \A e \in 1..(n - 1) : Accounted(e)
        /\ q = 2 => Arrived(n, 1)
    BY <1>1, <1>2 DEF BatchInv
  <2>2. \A e, k : Arrived(e, k) => Arrived(e, k)'
    BY <1>1 DEF Arrived, Outrun
  <2>3. \A e \in 1..(n - 1) : Accounted(e)'
    BY <2>1, <2>2 DEF Accounted
  <2>4. BatchInv'
    BY <1>2, <1>6, <2>1, <2>2, <2>3 DEF BatchInv
  <2>5. NoneOverlooked'
    BY <1>1, <1>6 DEF NoneOverlooked, Outrun
  <2> QED BY <2>4, <2>5
<1>9. AlertedOncePerRun'
  <2> SUFFICES ASSUME NEW e \in EventIds, NEW k \in Kinds
               PROVE  stored[e][k] <= sent'[e][k] /\ sent'[e][k] <= alerter.starts
    BY <1>1, <1>6 DEF AlertedOncePerRun
  <2>1. CASE e = n /\ k = q BY <1>3, <1>5, <2>1
  <2>2. CASE e # n \/ k # q BY <1>5, <2>2, CountFacts
  <2> QED BY <2>1, <2>2
<1>10. FreshInv'
  <2> SUFFICES ASSUME NEW e \in EventIds, NEW k \in Kinds
               PROVE  /\ e > alerter.seen /\ ~ Delivered(e, k)' =>
                           sent'[e][k] < alerter.starts
                      /\ e = n /\ k = q => stored[e][k] < sent'[e][k]
    BY <1>1, <1>6 DEF FreshInv
  <2>1. CASE e = n /\ k = q
    <3>1. Delivered(e, k)'
      BY <1>6, <2>1 DEF Delivered
    <3>2. stored[e][k] < sent'[e][k]
      BY <1>3, <1>5, <2>1
    <3> QED BY <3>1, <3>2
  <2>2. CASE e # n \/ k # q
    <3>1. sent'[e][k] = sent[e][k]
      BY <1>5, <2>2
    <3>2. Delivered(e, k) => Delivered(e, k)'
      BY <1>1, <1>2, <1>6 DEF Delivered
    <3> QED BY <1>1, <2>2, <3>1, <3>2 DEF FreshInv
  <2> QED BY <2>1, <2>2
<1> QED BY <1>7, <1>8, <1>9, <1>10

LEMMA StopKeepsAlertInv ==
  ASSUME AlertInv, AlerterDies \/ RestartServer
  PROVE  AlertInv'
<1> USE AlertFacts DEF AlertInv
<1>1. UNCHANGED <<due, sent, stored>>
  BY DEF AlerterDies, RestartServer
<1>2. /\ alerter'.step \in {"dead", "polling"} /\ alerter'.seen = 0
      /\ alerter'.starts >= alerter.starts
      /\ alerter'.step = "polling" => alerter'.starts > alerter.starts
      /\ alerter' \in AlerterThreads
  <2>1. CASE AlerterDies
    <3>1. alerter' = [FreshAlerter EXCEPT !.step = "dead", !.starts = alerter.starts]
      BY <2>1 DEF AlerterDies
    <3>2. 1 \in Nat /\ 0 \in 0..Len(due) /\ alerter.starts \in 1..MaxStarts
      OBVIOUS
    <3>3. alerter' \in AlerterThreads
      BY <3>1, <3>2 DEF FreshAlerter, AlerterThreads, AlerterSteps, Kinds
    <3> QED BY <3>1, <3>3 DEF FreshAlerter
  <2>2. CASE RestartServer
    <3>1. alerter' = [FreshAlerter EXCEPT !.starts = alerter.starts + 1]
          /\ alerter.starts < MaxStarts
      BY <2>2 DEF RestartServer
    <3>2. 1 \in Nat /\ 0 \in 0..Len(due) /\ alerter.starts + 1 \in 1..MaxStarts
      BY <3>1
    <3>3. alerter' \in AlerterThreads
      BY <3>1, <3>2 DEF FreshAlerter, AlerterThreads, AlerterSteps, Kinds
    <3> QED BY <3>1, <3>3 DEF FreshAlerter
  <2> QED BY <2>1, <2>2
<1>3. AlertTypeOK'
  BY <1>1, <1>2 DEF AlertTypeOK, AlerterThreads
<1>4. NoneOverlooked' /\ BatchInv'
  BY <1>2 DEF NoneOverlooked, BatchInv
<1>5. alerter'.starts \in Nat
  BY <1>2 DEF AlerterThreads
<1>6. AlertedOncePerRun' /\ FreshInv'
  <2>1. \A e \in EventIds, k \in Kinds :
          stored[e][k] <= sent[e][k] /\ sent[e][k] <= alerter.starts
    BY DEF AlertedOncePerRun
  <2>2. alerter'.step # "storing"
    BY <1>2
  <2>3. \A e \in EventIds, k \in Kinds : sent[e][k] <= alerter'.starts
    BY <1>2, <1>5, CountFacts
  <2>4. alerter'.step # "dead" => \A e \in EventIds, k \in Kinds : sent[e][k] < alerter'.starts
    <3> SUFFICES ASSUME alerter'.step # "dead", NEW e \in EventIds, NEW k \in Kinds
                 PROVE  sent[e][k] < alerter'.starts
      OBVIOUS
    <3> QED BY <1>2, <1>5, CountFacts
  <2> QED BY <1>1, <2>1, <2>2, <2>3, <2>4 DEF AlertedOncePerRun, FreshInv
<1> QED BY <1>3, <1>4, <1>6

THEOREM AlertInvariantHolds == Spec => []AlertInv
<1>1. Init => AlertInv
  BY AlertInitInv DEF Init
<1>2. AlertInv /\ [Next]_vars => AlertInv'
  <2> SUFFICES ASSUME AlertInv, [Next]_vars PROVE AlertInv'
    OBVIOUS
  <2>1. CASE AlertNext
    BY <2>1, LogKeepsAlertInv, PollKeepsAlertInv, HandlingKeepsAlertInv, DeliverKeepsAlertInv,
       StopKeepsAlertInv DEF AlertNext, AlerterStep
  <2>2. CASE UNCHANGED alertVars
    BY <2>2 DEF alertVars, AlertInv, AlertTypeOK, AlertedOncePerRun, NoneOverlooked, BatchInv,
       FreshInv, Accounted, Arrived, Delivered, Outrun
  <2> QED BY <2>1, <2>2 DEF Next, vars
<1> QED BY <1>1, <1>2, PTL DEF Spec

\* The thread and its counts keep their shape, for any window.
THEOREM AlertTypeCorrect == Spec => []AlertTypeOK
<1>1. AlertInv => AlertTypeOK BY DEF AlertInv
<1> QED BY <1>1, AlertInvariantHolds, PTL

\* Polling, listing an event again, a failed sink or a death never repeat an
\* alert within one run of the server.
THEOREM AlertedOnce == Spec => []AlertedOncePerRun
<1>1. AlertInv => AlertedOncePerRun BY DEF AlertInv
<1> QED BY <1>1, AlertInvariantHolds, PTL

\* last_seen passes an event without one of its alerts only if the window
\* moved beyond it.
THEOREM OnlyOutrunOverlooked == Spec => []NoneOverlooked
<1>1. AlertInv => NoneOverlooked BY DEF AlertInv
<1> QED BY <1>1, AlertInvariantHolds, PTL
=============================================================================
