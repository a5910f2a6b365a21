------------------------------- MODULE JobQueue -------------------------------
(***************************************************************************)
(* The Postgres-backed job queue (pipeline/queue.py), the workers that     *)
(* drain it (pipeline/worker.py) and the operators that requeue dead jobs  *)
(* (app/routes/ops.py).  What a stage does to the call is left to          *)
(* Pipeline.tla: here a stage only succeeds or raises.                     *)
(*                                                                         *)
(* Every database transaction that writes is one step, taken when it       *)
(* commits; process_one is three of them (claim; stage and complete;       *)
(* fail), and anything may happen in between.  POST /requeue is a SELECT   *)
(* and an unguarded UPDATE, two steps under READ COMMITTED.                *)
(*                                                                         *)
(* Time is one flag per job, elapsed: for a pending job its run_after has  *)
(* passed, for a running one its updated_at is older than the visibility   *)
(* timeout.  The order in which due jobs are claimed (ORDER BY run_after)  *)
(* is not modelled: any of them may be.                                    *)
(***************************************************************************)
EXTENDS Integers, FiniteSets

CONSTANTS Calls,        \* the calls that may be ingested
          NumStages,    \* the length of STAGE_ORDER; stages are its positions
          BranchStages, \* stages after which next_stage may end the pipeline
          Workers,      \* worker processes
          Operators,    \* concurrent requests to the requeue endpoint
          MaxAttempts,  \* settings.job_max_attempts
          NoJob,        \* "holds no job"
          MaxExpiries,  \* bound: expiries of the lease of a live worker
          MaxCrashes,   \* bound: worker crashes
          MaxRequeues   \* bound: requeues of one job

Stage == 1..NumStages
Jobs == Calls \X Stage

ASSUME QueueAssumption ==
    /\ NumStages \in Nat \ {0}
    /\ BranchStages \subseteq Stage
    /\ MaxAttempts \in Nat \ {0}
    /\ NoJob \notin Jobs
    /\ MaxExpiries \in Nat
    /\ MaxCrashes \in Nat
    /\ MaxRequeues \in Nat
    /\ IsFiniteSet(Workers)

VARIABLES
    status,    \* processing_jobs.status, "absent" where there is no row
    attempts,  \* processing_jobs.attempts
    elapsed,   \* the backoff, or the lease, of the job has run out
    pc,        \* where each worker is in process_one
    claim,     \* the JobClaim each worker holds
    saw,       \* the job each operator's request saw dead
    crashes,   \* how many workers have crashed
    expiries,  \* how often the lease of each job ran out under a live worker
    requeues,  \* how often each job has been requeued
    tries,     \* how often each job has been claimed, whatever its column says
    commits    \* how often the stage of each job has committed its work

table == <<status, attempts, elapsed>>
workers == <<pc, claim>>
history == <<crashes, expiries, requeues, tries, commits>>
vars == <<table, workers, saw, history>>

JobStatus == {"absent", "pending", "running", "done", "dead"}
Nothing == [job |-> NoJob, attempts |-> 0]

TypeOK ==
    /\ status \in [Jobs -> JobStatus]
    /\ attempts \in [Jobs -> Nat]
    /\ elapsed \in [Jobs -> BOOLEAN]
    /\ pc \in [Workers -> {"idle", "stage", "fail", "down"}]
    /\ claim \in [Workers -> [job : Jobs \cup {NoJob}, attempts : Nat]]
    /\ \A w \in Workers : pc[w] \in {"stage", "fail"} <=> claim[w].job \in Jobs
    /\ saw \in [Operators -> Jobs \cup {NoJob}]
    /\ crashes \in Nat
    /\ expiries \in [Jobs -> Nat] /\ requeues \in [Jobs -> Nat]
    /\ tries \in [Jobs -> Nat] /\ commits \in [Jobs -> Nat]

Init ==
    /\ status = [j \in Jobs |-> "absent"]
    /\ attempts = [j \in Jobs |-> 0]
    /\ elapsed = [j \in Jobs |-> FALSE]
    /\ pc = [w \in Workers |-> "idle"]
    /\ claim = [w \in Workers |-> Nothing]
    /\ saw = [o \in Operators |-> NoJob]
    /\ crashes = 0
    /\ expiries = [j \in Jobs |-> 0]
    /\ requeues = [j \in Jobs |-> 0]
    /\ tries = [j \in Jobs |-> 0]
    /\ commits = [j \in Jobs |-> 0]

-------------------------------------------------------------------------------
(***************************************************************************)
(* The job table.                                                          *)
(***************************************************************************)

\* The live workers that hold a claim on j, current or not.
Holders(j) == {w \in Workers : claim[w].job = j}

\* The WHERE clause of the claim query.
Due_NoRecovery(j) == status[j] = "pending" /\ elapsed[j]
Due_NoTimeout(j) == status[j] = "running" \/ (status[j] = "pending" /\ elapsed[j])
Due(j) == status[j] \in {"pending", "running"} /\ elapsed[j]

\* fail's test: has the claim w holds used up the job's attempts?
Spent_OneMore(w) == claim[w].attempts > MaxAttempts
Spent_OneLess(w) == claim[w].attempts + 1 >= MaxAttempts
Spent(w) == claim[w].attempts >= MaxAttempts

NextStages_Skip(s) ==
    {IF s + 1 < NumStages THEN s + 2 ELSE 0} \cup {n \in {0} : s \in BranchStages}
\* What next_stage may return after stage s; 0 stands for None.
NextStages(s) ==
    {IF s < NumStages THEN s + 1 ELSE 0} \cup {n \in {0} : s \in BranchStages}

NewRows_None(c, s) == {}
NewRows_Upsert(c, s) == {j \in Jobs : j = <<c, s>>}
\* INSERT ... ON CONFLICT DO NOTHING: the rows that enqueueing stage s adds.
NewRows(c, s) == {j \in Jobs : j = <<c, s>> /\ status[j] = "absent"}

\* ingest enqueues the first stage of a call it has just inserted.
Admit(c) ==
    /\ status[<<c, 1>>] = "absent"
    /\ status' = [status EXCEPT ![<<c, 1>>] = "pending"]
    /\ elapsed' = [elapsed EXCEPT ![<<c, 1>>] = TRUE]
    /\ UNCHANGED <<attempts, workers, saw, history>>

-------------------------------------------------------------------------------
(***************************************************************************)
(* The worker loop.                                                        *)
(***************************************************************************)

\* First transaction: lock one due row, flip it to running, count the attempt.
Claim(w, j) ==
    /\ pc[w] = "idle"
    /\ Due(j)
    /\ status' = [status EXCEPT ![j] = "running"]
    /\ attempts' = [attempts EXCEPT ![j] = @ + 1]
    /\ elapsed' = [elapsed EXCEPT ![j] = FALSE]
    /\ pc' = [pc EXCEPT ![w] = "stage"]
    /\ claim' = [claim EXCEPT ![w] = [job |-> j, attempts |-> attempts[j] + 1]]
    /\ tries' = [tries EXCEPT ![j] = @ + 1]
    /\ UNCHANGED <<saw, crashes, expiries, requeues, commits>>

Release_KeepsClaim(w, where) == pc' = [pc EXCEPT ![w] = where] /\ UNCHANGED claim
\* The worker no longer holds a claim.
Release(w, where) ==
    /\ pc' = [pc EXCEPT ![w] = where]
    /\ claim' = [claim EXCEPT ![w] = Nothing]

\* Second transaction: the stage has run; complete marks the job done by id,
\* whatever its row says by now, and enqueues the next stage with it.
Complete(w, next) ==
    LET j == claim[w].job
        new == NewRows(j[1], next)
    IN  /\ pc[w] = "stage"
        /\ status' = [k \in Jobs |-> IF k \in new THEN "pending"
                                     ELSE IF k = j THEN "done" ELSE status[k]]
        /\ elapsed' = [k \in Jobs |-> IF k \in new THEN TRUE
                                      ELSE IF k = j THEN FALSE ELSE elapsed[k]]
        /\ Release(w, "idle")
        /\ commits' = [commits EXCEPT ![j] = @ + 1]
        /\ UNCHANGED <<attempts, saw, crashes, expiries, requeues, tries>>

StageDone(w) == pc[w] = "stage" /\ \E n \in NextStages(claim[w].job[2]) : Complete(w, n)

\* The stage raises and its transaction rolls back.
StageError(w) ==
    /\ pc[w] = "stage"
    /\ pc' = [pc EXCEPT ![w] = "fail"]
    /\ UNCHANGED <<table, claim, saw, history>>

\* Third transaction: the job goes back to pending with a backoff or, when the
\* claim's own attempt number has used up the budget, is parked as dead.
Fail(w) ==
    LET j == claim[w].job
    IN  /\ pc[w] = "fail"
        /\ status' = [status EXCEPT ![j] =
                        IF Spent(w) THEN "dead" ELSE "pending"]
        /\ elapsed' = [elapsed EXCEPT ![j] = FALSE]
        /\ Release(w, "idle")
        /\ UNCHANGED <<attempts, saw, history>>

\* A worker stops anywhere in process_one, by a kill or because claim or fail
\* itself raises; what it had not committed is lost.
Crash(w) ==
    /\ pc[w] # "down"
    /\ crashes < MaxCrashes
    /\ crashes' = crashes + 1
    /\ Release(w, "down")
    /\ UNCHANGED <<table, saw, expiries, requeues, tries, commits>>

Restart(w) ==
    /\ pc[w] = "down"
    /\ pc' = [pc EXCEPT ![w] = "idle"]
    /\ UNCHANGED <<table, claim, saw, history>>

-------------------------------------------------------------------------------
(***************************************************************************)
(* Time, and the operators.                                                *)
(***************************************************************************)

BackoffElapses(j) ==
    /\ status[j] = "pending"
    /\ ~elapsed[j]
    /\ elapsed' = [elapsed EXCEPT ![j] = TRUE]
    /\ UNCHANGED <<status, attempts, workers, saw, history>>

\* A running job has not been touched for VISIBILITY_TIMEOUT_S.  Nothing renews
\* a lease, so it may also run out under a live worker (a slow stage): only then
\* is it counted.
LeaseExpires(j) ==
    /\ status[j] = "running"
    /\ ~elapsed[j]
    /\ Holders(j) # {} => expiries[j] < MaxExpiries
    /\ elapsed' = [elapsed EXCEPT ![j] = TRUE]
    /\ expiries' = IF Holders(j) = {} THEN expiries ELSE [expiries EXCEPT ![j] = @ + 1]
    /\ UNCHANGED <<status, attempts, workers, saw, crashes, requeues, tries, commits>>

\* requeue, up to its check that the job is dead ...
RequeueCheck(o, j) ==
    /\ saw[o] = NoJob
    /\ status[j] = "dead"
    /\ requeues[j] < MaxRequeues
    /\ saw' = [saw EXCEPT ![o] = j]
    /\ UNCHANGED <<table, workers, history>>

\* ... and its UPDATE, which does not check again.
RequeueUpdate(o) ==
    LET j == saw[o]
    IN  /\ j # NoJob
        /\ status' = [status EXCEPT ![j] = "pending"]
        /\ attempts' = [attempts EXCEPT ![j] = 0]
        /\ elapsed' = [elapsed EXCEPT ![j] = TRUE]
        /\ requeues' = [requeues EXCEPT ![j] = @ + 1]
        /\ saw' = [saw EXCEPT ![o] = NoJob]
        /\ UNCHANGED <<workers, crashes, expiries, tries, commits>>

-------------------------------------------------------------------------------
Next ==
    \/ \E c \in Calls : Admit(c)
    \/ \E w \in Workers, j \in Jobs : Claim(w, j)
    \/ \E w \in Workers : StageDone(w)
    \/ \E w \in Workers : StageError(w)
    \/ \E w \in Workers : Fail(w)
    \/ \E w \in Workers : Crash(w)
    \/ \E w \in Workers : Restart(w)
    \/ \E j \in Jobs : BackoffElapses(j)
    \/ \E j \in Jobs : LeaseExpires(j)
    \/ \E o \in Operators, j \in Jobs : RequeueCheck(o, j)
    \/ \E o \in Operators : RequeueUpdate(o)

Spec == Init /\ [][Next]_vars

\* A live worker goes round its loop and a stage returns or raises; time passes.
\* Nobody is obliged to ingest, to crash, to restart a worker or to requeue.
Fairness ==
    /\ \A w \in Workers : /\ WF_vars(\E j \in Jobs : Claim(w, j))
                          /\ WF_vars(StageDone(w) \/ StageError(w))
                          /\ WF_vars(Fail(w))
    /\ \A j \in Jobs : WF_vars(BackoffElapses(j)) /\ WF_vars(LeaseExpires(j))

FairSpec == Spec /\ Fairness

-------------------------------------------------------------------------------
(***************************************************************************)
(* Safety.                                                                 *)
(***************************************************************************)

\* Retries are bounded although nothing in claim looks at max_attempts: a job is
\* attempted max_attempts times at most for its ingestion and as often again for
\* each requeue, which sets its count back to 0, and once more for each lease that
\* ran out under a live worker and each worker that crashed.  Nothing bounds the
\* crashes: a job that takes its worker down each time is never parked (queue.py,
\* claim and fail; ops.py, requeue).
RetryBudget ==
    \A j \in Jobs : tries[j] <= MaxAttempts * (requeues[j] + 1) + expiries[j] + crashes

\* The atomic claim: a second live worker on a job needs a lease that ran out under
\* the first, or a requeue, and a third one two of them; a crash makes no second
\* one (queue.py, claim).
LeaseBound ==
    \A j \in Jobs : Cardinality(Holders(j)) <= 1 + requeues[j] + expiries[j]

\* However often a job is delivered, its stage commits its work once, and once more
\* at most for each lease that ran out under a live worker and each requeue: a stale
\* complete or fail may reopen a finished job, but what it lets run again has been
\* paid for; crashes and the stages before it never repeat it (queue.py, complete
\* and fail, which write by id; enqueue, ON CONFLICT DO NOTHING).
CommitsAreBounded ==
    \A j \in Jobs : commits[j] <= 1 + requeues[j] + expiries[j]

\* complete and enqueue are one transaction: whatever crashes, a call is never left
\* between two stages, the one done and no job for the other, except where the
\* pipeline may end (worker.py, process_one; queue.py, complete).
NeverStranded ==
    \A c \in Calls, s \in Stage \ (BranchStages \cup {NumStages}) :
        status[<<c, s>>] = "done" => status[<<c, s + 1>>] # "absent"

\* A job is parked as dead only when it has used up its attempts; says nothing
\* of a job that was requeued, whose count restarts (queue.py, fail).
DeadHasSpentRetries ==
    \A j \in Jobs : status[j] = "dead" /\ requeues[j] = 0 => attempts[j] >= MaxAttempts

\* Stages are opened in order, one at a time (stages/__init__.py).
Opened == [c \in Calls |-> {s \in Stage : status[<<c, s>>] # "absent"}]
Order == INSTANCE StageOrder WITH opened <- Opened
RefinesStageOrder == Order!Spec

-------------------------------------------------------------------------------
(***************************************************************************)
(* Liveness, under Fairness and as long as one worker survives.            *)
(***************************************************************************)

\* Every job that is enqueued is eventually done or dead: a crashed worker's job
\* is picked up again and a failing one is not retried for ever.
EveryJobSettles ==
    \A j \in Jobs : status[j] \in {"pending", "running"} ~> status[j] \in {"done", "dead"}
===============================================================================
