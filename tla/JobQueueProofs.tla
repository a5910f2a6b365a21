---------------------------- MODULE JobQueueProofs ----------------------------
(***************************************************************************)
(* What holds of the job queue for any number of calls, stages, workers    *)
(* and operators, and any values of the bounds.                            *)
(***************************************************************************)
EXTENDS JobQueue, FiniteSetTheorems, TLAPS

(***************************************************************************)
(* The inductive invariant.                                                *)
(***************************************************************************)

\* Can j be claimed now, or after a wait that nothing but time has to end?
Offer(j) ==
    IF status[j] = "pending" \/ (status[j] = "running" /\ (elapsed[j] \/ Holders(j) = {}))
    THEN 1 ELSE 0

\* The workers that will hand j back, rather than park it, if their stage fails.
Fresh(j) == {w \in Workers : claim[w].job = j /\ claim[w].attempts < MaxAttempts}

\* The attempts before the last that the count of j still leaves.
Left(j) == IF attempts[j] < MaxAttempts THEN MaxAttempts - 1 - attempts[j] ELSE 0

\* Nobody has to do with a job that does not exist.
UnbornInv ==
    \A j \in Jobs : status[j] = "absent" =>
        /\ attempts[j] = 0 /\ tries[j] = 0 /\ commits[j] = 0
        /\ \A w \in Workers : claim[w].job # j
        /\ \A o \in Operators : saw[o] # j

\* The opened stages of a call are those up to some stage.
PrefixInv ==
    \A c \in Calls, s, t \in Stage :
        s < t /\ status[<<c, t>>] # "absent" => status[<<c, s>>] # "absent"

\* A job that was not requeued never counted fewer attempts than a claim on it.
ClaimInv ==
    \A w \in Workers : claim[w].job \in Jobs /\ requeues[claim[w].job] = 0
        => claim[w].attempts <= attempts[claim[w].job]

\* Each commit, each holder and the offer is paid for by the first enqueueing, by a
\* lease that ran out under a live worker or by a requeue.
WorkPaid(j) == commits[j] + Cardinality(Holders(j)) + Offer(j) <= 1 + requeues[j] + expiries[j]

\* So is each attempt, a requeue paying for a whole budget; a crash pays for one
\* more attempt, which it needs if it was the last that the worker was at.
Budget(j) == MaxAttempts * (requeues[j] + 1)
TriesPaid(j) ==
    tries[j] + Left(j) + Offer(j) + Cardinality(Fresh(j)) <= Budget(j) + expiries[j] + crashes

Paid(j) == WorkPaid(j) /\ TriesPaid(j)

PaidInv == \A j \in Jobs : Paid(j)

OrderInv == TypeOK /\ UnbornInv /\ PrefixInv /\ NeverStranded
CountInv == PaidInv /\ ClaimInv /\ DeadHasSpentRetries

-------------------------------------------------------------------------------
(***************************************************************************)
(* Types.                                                                  *)
(***************************************************************************)

\* A row that enqueue adds is a job that did not exist.
LEMMA NewRowsType ==
    ASSUME NEW c, NEW s
    PROVE  NewRows(c, s) \subseteq Jobs /\ \A j \in NewRows(c, s) : status[j] = "absent"
BY DEF NewRows

\* Each step of the queue keeps the types.
LEMMA TypeStep ==
    ASSUME TypeOK, [Next]_vars
    PROVE  TypeOK'
<1>. USE QueueAssumption DEF TypeOK
<1>1. ASSUME NEW c \in Calls, Admit(c) PROVE TypeOK'
  <2>1. <<c, 1>> \in Jobs
    BY DEF Jobs, Stage
  <2>. QED  BY <1>1, <2>1 DEF Admit, JobStatus, workers, history
<1>2. ASSUME NEW w \in Workers, NEW j \in Jobs, Claim(w, j) PROVE TypeOK'
  BY <1>2 DEF Claim, JobStatus, history
<1>3. ASSUME NEW w \in Workers, StageDone(w) PROVE TypeOK'
  <2>1. PICK n : Complete(w, n)
    BY <1>3 DEF StageDone
  <2>2. /\ status' \in [Jobs -> JobStatus]
        /\ elapsed' \in [Jobs -> BOOLEAN]
    BY <2>1, NewRowsType DEF Complete, JobStatus
  <2>3. commits' \in [Jobs -> Nat]
    BY <2>1 DEF Complete
  <2>. QED  BY <2>1, <2>2, <2>3 DEF Complete, Release, Nothing
<1>4. ASSUME NEW w \in Workers, StageError(w) PROVE TypeOK'
  BY <1>4 DEF StageError, table, history
<1>5. ASSUME NEW w \in Workers, Fail(w) PROVE TypeOK'
  BY <1>5 DEF Fail, Release, Nothing, JobStatus, history
<1>6. ASSUME NEW w \in Workers, Crash(w) PROVE TypeOK'
  BY <1>6 DEF Crash, Release, Nothing, table
<1>7. ASSUME NEW w \in Workers, Restart(w) PROVE TypeOK'
  BY <1>7 DEF Restart, table, history
<1>8. ASSUME NEW j \in Jobs, BackoffElapses(j) PROVE TypeOK'
  BY <1>8 DEF BackoffElapses, workers, history
<1>9. ASSUME NEW j \in Jobs, LeaseExpires(j) PROVE TypeOK'
  BY <1>9 DEF LeaseExpires, workers
<1>10. ASSUME NEW o \in Operators, NEW j \in Jobs, RequeueCheck(o, j) PROVE TypeOK'
  BY <1>10 DEF RequeueCheck, table, workers, history
<1>11. ASSUME NEW o \in Operators, RequeueUpdate(o) PROVE TypeOK'
  BY <1>11 DEF RequeueUpdate, JobStatus, workers
<1>12. CASE UNCHANGED vars
  BY <1>12 DEF vars, table, workers, history
<1>. QED
  BY <1>1, <1>2, <1>3, <1>4, <1>5, <1>6, <1>7, <1>8, <1>9, <1>10, <1>11, <1>12 DEF Next

\* Every variable keeps its type, and a worker holds a claim exactly while it runs
\* a stage or records its failure (worker.py, process_one).
THEOREM TypeCorrect == Spec => []TypeOK
<1>1. Init => TypeOK
  BY QueueAssumption DEF Init, TypeOK, JobStatus, Nothing
<1>2. TypeOK /\ [Next]_vars => TypeOK'
  BY TypeStep
<1>. QED  BY <1>1, <1>2, PTL DEF Spec

-------------------------------------------------------------------------------
(***************************************************************************)
(* Which rows a step adds.                                                 *)
(***************************************************************************)

\* The step adds no job, and no job ever goes.
NoNewRow == \A j \in Jobs : status'[j] = "absent" <=> status[j] = "absent"

\* The step adds the job of stage s, the first one or the one after an opened stage.
OneNewRow(c, s) ==
    /\ status[<<c, s>>] = "absent"
    /\ s = 1 \/ (s - 1 \in Stage /\ status[<<c, s - 1>>] # "absent")
    /\ \A j \in Jobs : status'[j] = "absent" <=> status[j] = "absent" /\ j # <<c, s>>

\* What a worker holds a claim on is a job of the table.
LEMMA HeldJob ==
    ASSUME TypeOK, UnbornInv, NEW w \in Workers, claim[w].job \in Jobs
    PROVE  /\ status[claim[w].job] # "absent"
           /\ claim[w].job = <<claim[w].job[1], claim[w].job[2]>>
           /\ claim[w].job[1] \in Calls
           /\ claim[w].job[2] \in Stage
BY DEF UnbornInv, Jobs

\* complete adds the job of the stage that follows, if any.
LEMMA CompleteRows ==
    ASSUME TypeOK, UnbornInv, NEW w \in Workers,
           NEW n \in NextStages(claim[w].job[2]), Complete(w, n)
    PROVE  NoNewRow \/ \E c \in Calls, s \in Stage : OneNewRow(c, s)
<1>. DEFINE c == claim[w].job[1]
            s == claim[w].job[2]
<1>1. claim[w].job \in Jobs
  BY DEF Complete, TypeOK
<1>2. status[<<c, s>>] # "absent" /\ claim[w].job = <<c, s>> /\ c \in Calls /\ s \in Stage
  BY <1>1, HeldJob
<1>3. CASE NewRows(c, n) = {}
  BY <1>1, <1>2, <1>3 DEF Complete, NoNewRow, TypeOK
<1>4. CASE NewRows(c, n) # {}
  <2>1. <<c, n>> \in Jobs /\ status[<<c, n>>] = "absent" /\ NewRows(c, n) = {<<c, n>>}
    BY <1>4 DEF NewRows
  <2>2. n \in Stage /\ s = n - 1
    BY <2>1, <1>2, QueueAssumption DEF Jobs, NextStages, Stage
  <2>3. \A j \in Jobs : status'[j] = "absent" <=> status[j] = "absent" /\ j # <<c, n>>
    BY <2>1, <1>1, <1>2 DEF Complete, TypeOK
  <2>. QED  BY <1>2, <2>1, <2>2, <2>3 DEF OneNewRow
<1>. QED  BY <1>3, <1>4

\* No other step of the queue adds a job than ingest and complete.
LEMMA StepRows ==
    ASSUME TypeOK, UnbornInv, [Next]_vars
    PROVE  NoNewRow \/ \E c \in Calls, s \in Stage : OneNewRow(c, s)
<1>1. ASSUME NEW c \in Calls, Admit(c)
      PROVE  NoNewRow \/ \E s \in Stage : OneNewRow(c, s)
  <2>1. 1 \in Stage /\ <<c, 1>> \in Jobs
    BY QueueAssumption DEF Stage, Jobs
  <2>2. OneNewRow(c, 1)
    BY <1>1, <2>1 DEF Admit, OneNewRow, TypeOK
  <2>. QED  BY <2>1, <2>2
<1>2. ASSUME NEW w \in Workers, NEW j \in Jobs, Claim(w, j) PROVE NoNewRow
  BY <1>2 DEF Claim, Due, NoNewRow, TypeOK
<1>3. ASSUME NEW w \in Workers, StageDone(w)
      PROVE  NoNewRow \/ \E c \in Calls, s \in Stage : OneNewRow(c, s)
  BY <1>3, CompleteRows DEF StageDone
<1>4. ASSUME NEW w \in Workers, Fail(w) PROVE NoNewRow
  <2>1. claim[w].job \in Jobs
    BY <1>4 DEF Fail, TypeOK
  <2>. QED  BY <1>4, <2>1, HeldJob DEF Fail, NoNewRow, TypeOK
<1>5. ASSUME NEW o \in Operators, RequeueUpdate(o) PROVE NoNewRow
  <2>1. saw[o] \in Jobs /\ status[saw[o]] # "absent"
    BY <1>5 DEF RequeueUpdate, TypeOK, UnbornInv
  <2>. QED  BY <1>5, <2>1 DEF RequeueUpdate, NoNewRow, TypeOK
<1>6. CASE \/ \E w \in Workers : StageError(w) \/ Crash(w) \/ Restart(w)
           \/ \E j \in Jobs : BackoffElapses(j) \/ LeaseExpires(j)
           \/ \E o \in Operators, j \in Jobs : RequeueCheck(o, j)
           \/ UNCHANGED vars
  BY <1>6 DEF StageError, Crash, Restart, BackoffElapses, LeaseExpires, RequeueCheck,
              NoNewRow, vars, table
<1>. QED  BY <1>1, <1>2, <1>3, <1>4, <1>5, <1>6 DEF Next

-------------------------------------------------------------------------------
(***************************************************************************)
(* The order of the stages.                                                *)
(***************************************************************************)

LEMMA UnbornStep ==
    ASSUME TypeOK, TypeOK', UnbornInv, [Next]_vars
    PROVE  UnbornInv'
<1>. USE DEF UnbornInv, TypeOK
<1>1. ASSUME NEW c \in Calls, Admit(c) PROVE UnbornInv'
  BY <1>1 DEF Admit, workers, history
<1>2. ASSUME NEW w \in Workers, NEW j \in Jobs, Claim(w, j) PROVE UnbornInv'
  BY <1>2 DEF Claim
<1>3. ASSUME NEW w \in Workers, StageDone(w) PROVE UnbornInv'
  <2>1. PICK n : Complete(w, n)
    BY <1>3 DEF StageDone
  <2>2. \A j \in Jobs : status'[j] = "absent" => status[j] = "absent"
    BY <2>1 DEF Complete
  <2>3. /\ attempts' = attempts /\ tries' = tries /\ saw' = saw
        /\ claim' = [claim EXCEPT ![w] = Nothing]
        /\ commits' = [commits EXCEPT ![claim[w].job] = @ + 1]
    BY <2>1 DEF Complete, Release
  <2>. QED  BY <2>2, <2>3, QueueAssumption DEF Nothing
<1>4. ASSUME NEW w \in Workers, Fail(w) PROVE UnbornInv'
  BY <1>4, QueueAssumption DEF Fail, Release, Nothing, history
<1>5. ASSUME NEW w \in Workers, Crash(w) PROVE UnbornInv'
  BY <1>5, QueueAssumption DEF Crash, Release, Nothing, table
<1>6. ASSUME NEW o \in Operators, NEW j \in Jobs, RequeueCheck(o, j) PROVE UnbornInv'
  BY <1>6 DEF RequeueCheck, table, workers, history
<1>7. ASSUME NEW o \in Operators, RequeueUpdate(o) PROVE UnbornInv'
  BY <1>7, QueueAssumption DEF RequeueUpdate, workers
<1>8. CASE \/ \E w \in Workers : StageError(w) \/ Restart(w)
           \/ \E j \in Jobs : BackoffElapses(j) \/ LeaseExpires(j)
           \/ UNCHANGED vars
  BY <1>8 DEF StageError, Restart, BackoffElapses, LeaseExpires, vars, table,
              workers, history
<1>. QED  BY <1>1, <1>2, <1>3, <1>4, <1>5, <1>6, <1>7, <1>8 DEF Next

LEMMA PrefixStep ==
    ASSUME TypeOK, UnbornInv, PrefixInv, [Next]_vars
    PROVE  PrefixInv'
<1>1. CASE NoNewRow
  BY <1>1 DEF NoNewRow, PrefixInv, Jobs
<1>2. ASSUME NEW c \in Calls, NEW n \in Stage, OneNewRow(c, n) PROVE PrefixInv'
  <2> SUFFICES ASSUME NEW d \in Calls, NEW s \in Stage, NEW t \in Stage,
                      s < t, status'[<<d, t>>] # "absent"
               PROVE  status'[<<d, s>>] # "absent"
    BY DEF PrefixInv
  <2>1. <<d, s>> \in Jobs /\ <<d, t>> \in Jobs
    BY DEF Jobs
  <2>2. CASE status[<<d, t>>] # "absent"
    BY <1>2, <2>1, <2>2 DEF OneNewRow, PrefixInv
  <2>3. CASE <<d, t>> = <<c, n>>
    <3>1. s <= n - 1 /\ n - 1 \in Stage /\ status[<<d, n - 1>>] # "absent"
      BY <1>2, <2>3 DEF OneNewRow, Stage
    <3>2. s \in Nat /\ n \in Nat
      BY DEF Stage
    <3>3. status[<<d, s>>] # "absent"
      BY <3>1, <3>2 DEF PrefixInv
    <3>. QED  BY <1>2, <2>1, <3>3 DEF OneNewRow
  <2>. QED  BY <1>2, <2>1, <2>2, <2>3 DEF OneNewRow
<1>. QED  BY <1>1, <1>2, StepRows

\* A stage that the pipeline may not end with is never done without the next one.
LEMMA StrandedStep ==
    ASSUME TypeOK, UnbornInv, NeverStranded, [Next]_vars
    PROVE  NeverStranded'
<1> SUFFICES ASSUME NEW c \in Calls, NEW s \in Stage \ (BranchStages \cup {NumStages}),
                    status'[<<c, s>>] = "done"
             PROVE  status'[<<c, s + 1>>] # "absent"
  BY DEF NeverStranded
<1>1. <<c, s>> \in Jobs /\ <<c, s + 1>> \in Jobs
  BY QueueAssumption DEF Jobs, Stage
<1>2. \A j \in Jobs : status[j] # "absent" => status'[j] # "absent"
  BY StepRows, <1>1 DEF NoNewRow, OneNewRow
<1>3. CASE status[<<c, s>>] = "done"
  BY <1>1, <1>2, <1>3 DEF NeverStranded
<1>4. CASE status[<<c, s>>] # "done"
  <2>1. PICK w \in Workers : StageDone(w) /\ claim[w].job = <<c, s>>
    <3>. USE <1>1, <1>4 DEF TypeOK
    <3>1. ASSUME NEW d \in Calls, Admit(d) PROVE FALSE
      BY <3>1 DEF Admit
    <3>2. ASSUME NEW v \in Workers, NEW j \in Jobs, Claim(v, j) PROVE FALSE
      BY <3>2 DEF Claim
    <3>3. ASSUME NEW v \in Workers, StageDone(v) PROVE claim[v].job = <<c, s>>
      BY <3>3 DEF StageDone, Complete
    <3>4. ASSUME NEW v \in Workers, Fail(v) PROVE FALSE
      BY <3>4 DEF Fail
    <3>5. ASSUME NEW o \in Operators, RequeueUpdate(o) PROVE FALSE
      BY <3>5 DEF RequeueUpdate
    <3>6. CASE \/ \E v \in Workers : StageError(v) \/ Crash(v) \/ Restart(v)
               \/ \E j \in Jobs : BackoffElapses(j) \/ LeaseExpires(j)
               \/ \E o \in Operators, j \in Jobs : RequeueCheck(o, j)
               \/ UNCHANGED vars
      BY <3>6 DEF StageError, Crash, Restart, BackoffElapses, LeaseExpires,
                  RequeueCheck, vars, table
    <3>. QED  BY <3>1, <3>2, <3>3, <3>4, <3>5, <3>6 DEF Next
  <2>2. PICK n \in NextStages(s) : Complete(w, n)
    BY <2>1 DEF StageDone
  <2>3. n = s + 1
    BY QueueAssumption DEF NextStages, Stage
  <2>4. CASE status[<<c, s + 1>>] = "absent"
    BY <1>1, <2>1, <2>2, <2>3, <2>4 DEF Complete, NewRows
  <2>. QED  BY <1>1, <1>2, <2>4
<1>. QED  BY <1>3, <1>4

\* Each step of the queue opens the next stage of one call, or none.
LEMMA OrderStep ==
    ASSUME TypeOK, UnbornInv, PrefixInv, [Next]_vars
    PROVE  [Order!Next]_Opened
<1>1. CASE NoNewRow
  <2>1. Opened' = Opened
    BY <1>1 DEF NoNewRow, Opened, Jobs
  <2>. QED  BY <2>1
<1>2. ASSUME NEW c \in Calls, NEW s \in Stage, OneNewRow(c, s) PROVE Order!Next
  <2>1. <<c, s>> \in Jobs /\ s \notin Opened[c]
    BY <1>2 DEF OneNewRow, Opened, Jobs
  <2>2. Opened' = [Opened EXCEPT ![c] = @ \cup {s}]
    <3>1. \A d \in Calls : {t \in Stage : status'[<<d, t>>] # "absent"}
                            = IF d = c THEN Opened[c] \cup {s} ELSE Opened[d]
      BY <1>2 DEF OneNewRow, Opened, Jobs
    <3>. QED  BY <3>1 DEF Opened
  <2>3. CASE s = 1
    <3>1. Opened[c] = {}
      BY <1>2, <2>3 DEF OneNewRow, PrefixInv, Opened, Stage
    <3>. QED  BY <2>2, <2>3, <3>1 DEF Order!Next, Order!Admit
  <2>4. CASE s - 1 \in Stage /\ status[<<c, s - 1>>] # "absent"
    <3>1. s - 1 \in Opened[c] /\ s - 1 < NumStages /\ (s - 1) + 1 = s
      BY <2>4, QueueAssumption DEF Opened, Stage
    <3>. QED  BY <2>1, <2>2, <3>1 DEF Order!Next, Order!Advance
  <2>. QED  BY <1>2, <2>3, <2>4 DEF OneNewRow
<1>. QED  BY <1>1, <1>2, StepRows

\* What the theorems on the order of the stages rest on is inductive.
THEOREM OrderInvariant == Spec => []OrderInv
<1>1. Init => UnbornInv /\ PrefixInv /\ NeverStranded
  BY QueueAssumption DEF Init, UnbornInv, PrefixInv, NeverStranded, Nothing, Jobs
<1>2. TypeOK /\ TypeOK' /\ OrderInv /\ [Next]_vars => OrderInv'
  BY UnbornStep, PrefixStep, StrandedStep DEF OrderInv
<1>. QED  BY <1>1, <1>2, TypeCorrect, PTL DEF Spec, OrderInv

\* Whatever crashes, a call is never left between two stages (worker.py,
\* process_one; queue.py, complete).
THEOREM NeverStrandedHolds == Spec => []NeverStranded
<1>1. OrderInv => NeverStranded
  BY DEF OrderInv
<1>. QED  BY <1>1, OrderInvariant, PTL

\* The queue, with all its retries, crashes and requeues, opens the stages of a
\* call in the order of STAGE_ORDER (stages/__init__.py, next_stage).
THEOREM QueueRefinesStageOrder == Spec => RefinesStageOrder
<1>1. Init => Order!Init
  BY DEF Init, Order!Init, Opened, Jobs
<1>2. OrderInv /\ [Next]_vars => [Order!Next]_Opened
  BY OrderStep DEF OrderInv
<1>. QED  BY <1>1, <1>2, OrderInvariant, PTL DEF Spec, RefinesStageOrder, Order!Spec

-------------------------------------------------------------------------------
(***************************************************************************)
(* Attempts and holders.                                                   *)
(***************************************************************************)

LEMMA CountTypes ==
    ASSUME TypeOK
    PROVE  \A j \in Jobs : /\ IsFiniteSet(Holders(j)) /\ Cardinality(Holders(j)) \in Nat
                           /\ IsFiniteSet(Fresh(j)) /\ Cardinality(Fresh(j)) \in Nat
                           /\ Offer(j) \in 0..1 /\ Left(j) \in Nat
<1> SUFFICES ASSUME NEW j \in Jobs
             PROVE  /\ IsFiniteSet(Holders(j)) /\ Cardinality(Holders(j)) \in Nat
                    /\ IsFiniteSet(Fresh(j)) /\ Cardinality(Fresh(j)) \in Nat
                    /\ Offer(j) \in 0..1 /\ Left(j) \in Nat
  OBVIOUS
<1>1. Holders(j) \in SUBSET Workers /\ Fresh(j) \in SUBSET Workers
  BY DEF Holders, Fresh
<1>2. IsFiniteSet(Holders(j)) /\ IsFiniteSet(Fresh(j))
  BY <1>1, FS_Subset, QueueAssumption
<1>3. Offer(j) \in 0..1 /\ Left(j) \in Nat
  BY QueueAssumption DEF Offer, Left, TypeOK
<1>. QED  BY <1>2, <1>3, FS_CardinalityType

\* A worker that drops its claim, if it has one, is one holder less for its job.
LEMMA DropCounts ==
    ASSUME TypeOK, NEW w \in Workers, claim' = [claim EXCEPT ![w] = Nothing]
    PROVE  \A j \in Jobs :
              /\ Cardinality(Holders(j)') =
                    IF w \in Holders(j) THEN Cardinality(Holders(j)) - 1
                                       ELSE Cardinality(Holders(j))
              /\ Cardinality(Fresh(j)') =
                    IF w \in Fresh(j) THEN Cardinality(Fresh(j)) - 1
                                     ELSE Cardinality(Fresh(j))
<1> SUFFICES ASSUME NEW j \in Jobs
             PROVE  /\ Cardinality(Holders(j)') =
                          IF w \in Holders(j) THEN Cardinality(Holders(j)) - 1
                                       ELSE Cardinality(Holders(j))
                    /\ Cardinality(Fresh(j)') =
                          IF w \in Fresh(j) THEN Cardinality(Fresh(j)) - 1
                                     ELSE Cardinality(Fresh(j))
  OBVIOUS
<1>1. Holders(j)' = Holders(j) \ {w} /\ Fresh(j)' = Fresh(j) \ {w}
  BY QueueAssumption DEF Holders, Fresh, TypeOK, Nothing
<1>2. /\ IsFiniteSet(Holders(j)) /\ Cardinality(Holders(j)) \in Nat
      /\ IsFiniteSet(Fresh(j)) /\ Cardinality(Fresh(j)) \in Nat
  BY CountTypes
<1>. QED  BY <1>1, <1>2, FS_RemoveElement

LEMMA DropBound ==
    ASSUME TypeOK, NEW w \in Workers, claim' = [claim EXCEPT ![w] = Nothing], NEW j \in Jobs
    PROVE  /\ Cardinality(Holders(j)') \in Int
           /\ Cardinality(Holders(j)') <= Cardinality(Holders(j))
           /\ Cardinality(Fresh(j)') \in Int
           /\ Cardinality(Fresh(j)') <= Cardinality(Fresh(j))
<1>1. /\ Cardinality(Holders(j)') =
            IF w \in Holders(j) THEN Cardinality(Holders(j)) - 1
                               ELSE Cardinality(Holders(j))
      /\ Cardinality(Fresh(j)') =
            IF w \in Fresh(j) THEN Cardinality(Fresh(j)) - 1
                             ELSE Cardinality(Fresh(j))
  BY DropCounts
<1>2. Cardinality(Holders(j)) \in Nat /\ Cardinality(Fresh(j)) \in Nat
  BY CountTypes
<1>. QED  BY <1>1, <1>2

\* A worker that claims a job is one more holder of it.
LEMMA ClaimCounts ==
    ASSUME TypeOK, NEW w \in Workers, NEW k \in Jobs, Claim(w, k)
    PROVE  \A j \in Jobs :
              /\ Cardinality(Holders(j)') =
                    Cardinality(Holders(j)) + (IF j = k THEN 1 ELSE 0)
              /\ Cardinality(Fresh(j)') =
                    Cardinality(Fresh(j))
                        + (IF j = k /\ attempts[k] + 1 < MaxAttempts THEN 1 ELSE 0)
<1> SUFFICES ASSUME NEW j \in Jobs
             PROVE  /\ Cardinality(Holders(j)') =
                          Cardinality(Holders(j)) + (IF j = k THEN 1 ELSE 0)
                    /\ Cardinality(Fresh(j)') =
                          Cardinality(Fresh(j))
                              + (IF j = k /\ attempts[k] + 1 < MaxAttempts THEN 1 ELSE 0)
  OBVIOUS
<1>1. /\ claim[w].job \notin Jobs
      /\ claim' = [claim EXCEPT ![w] = [job |-> k, attempts |-> attempts[k] + 1]]
  BY DEF Claim, TypeOK
<1>2. /\ Holders(j)' = IF j = k THEN Holders(j) \cup {w} ELSE Holders(j)
      /\ w \notin Holders(j)
  BY <1>1 DEF Holders, TypeOK
<1>3. /\ Fresh(j)' = IF j = k /\ attempts[k] + 1 < MaxAttempts
                     THEN Fresh(j) \cup {w} ELSE Fresh(j)
      /\ w \notin Fresh(j)
  BY <1>1 DEF Fresh, TypeOK
<1>4. /\ IsFiniteSet(Holders(j)) /\ Cardinality(Holders(j)) \in Nat
      /\ IsFiniteSet(Fresh(j)) /\ Cardinality(Fresh(j)) \in Nat
  BY CountTypes
<1>5. ASSUME NEW S, IsFiniteSet(S), w \notin S
      PROVE  Cardinality(S \cup {w}) = Cardinality(S) + 1
  BY <1>5, FS_AddElement
<1>6. Cardinality(Holders(j)') = Cardinality(Holders(j)) + (IF j = k THEN 1 ELSE 0)
  <2>1. Cardinality(Holders(j) \cup {w}) = Cardinality(Holders(j)) + 1
    BY <1>2, <1>4, <1>5
  <2>. QED  BY <1>2, <1>4, <2>1
<1>7. Cardinality(Fresh(j)') =
        Cardinality(Fresh(j)) + (IF j = k /\ attempts[k] + 1 < MaxAttempts THEN 1 ELSE 0)
  <2>1. Cardinality(Fresh(j) \cup {w}) = Cardinality(Fresh(j)) + 1
    BY <1>3, <1>4, <1>5
  <2>. QED  BY <1>3, <1>4, <2>1
<1>. QED  BY <1>6, <1>7

\* What a step that leaves the claims alone does to the counts of a job.
LEMMA SameCounts ==
    ASSUME claim' = claim
    PROVE  \A j \in Jobs : Holders(j)' = Holders(j) /\ Fresh(j)' = Fresh(j)
BY DEF Holders, Fresh

\* Who holds a job after a worker that did not hold it drops its claim, and after a
\* worker makes one.
LEMMA HoldersStay ==
    ASSUME TypeOK, NEW w \in Workers, NEW j \in Jobs, claim' = [claim EXCEPT ![w] = Nothing],
           w \notin Holders(j)
    PROVE  Holders(j)' = Holders(j)
BY QueueAssumption DEF Holders, TypeOK, Nothing

LEMMA HoldersClaim ==
    ASSUME TypeOK, NEW w \in Workers, NEW j \in Jobs, NEW k \in Jobs, Claim(w, k)
    PROVE  Holders(j)' = IF j = k THEN Holders(j) \cup {w} ELSE Holders(j)
<1>1. /\ claim[w].job \notin Jobs
      /\ claim' = [claim EXCEPT ![w] = [job |-> k, attempts |-> attempts[k] + 1]]
  BY DEF Claim, TypeOK
<1>. QED  BY <1>1 DEF Holders, TypeOK

\* A job that has just been added has been paid for by its ingestion, or by the
\* completion of the stage before it.
LEMMA NewJobPaid ==
    ASSUME TypeOK, UnbornInv, NEW j \in Jobs, status[j] = "absent"
    PROVE  /\ Cardinality(Holders(j)) = 0
           /\ Cardinality(Fresh(j)) = 0
           /\ Left(j) = MaxAttempts - 1
           /\ tries[j] = 0
           /\ commits[j] = 0
<1>1. Holders(j) = {} /\ Fresh(j) = {}
  BY DEF UnbornInv, Holders, Fresh
<1>. QED  BY <1>1, FS_EmptySet, QueueAssumption DEF UnbornInv, Left

\* What a requeue adds to the budget.
LEMMA BudgetGrows ==
    ASSUME TypeOK, TypeOK', NEW j \in Jobs
    PROVE  /\ Budget(j) \in Nat /\ Budget(j)' \in Nat
           /\ requeues[j] = 0 => Budget(j) = MaxAttempts
           /\ Budget(j) >= MaxAttempts
           /\ requeues'[j] = requeues[j] => Budget(j)' = Budget(j)
           /\ requeues'[j] = requeues[j] + 1 => Budget(j)' = Budget(j) + MaxAttempts
<1>1. requeues[j] \in Nat /\ requeues'[j] \in Nat /\ MaxAttempts \in Nat
  BY QueueAssumption DEF TypeOK
<1>2. \A m, n \in Nat : /\ m * (n + 1) \in Nat /\ m * (n + 1) >= m /\ m * (0 + 1) = m
                        /\ m * (n + 1 + 1) = m * (n + 1) + m
  BY SMT
<1>. QED  BY <1>1, <1>2 DEF Budget

LEMMA PaidStep ==
    ASSUME TypeOK, TypeOK', UnbornInv, NEW j \in Jobs, Paid(j), [Next]_vars
    PROVE  Paid(j)'
<1>. USE QueueAssumption DEF TypeOK
<1>0. /\ Cardinality(Holders(j)) \in Nat /\ Cardinality(Fresh(j)) \in Nat
      /\ Cardinality(Holders(j)') \in Nat /\ Cardinality(Fresh(j)') \in Nat
      /\ Offer(j) \in 0..1 /\ Offer(j)' \in 0..1 /\ Left(j) \in Nat /\ Left(j)' \in Nat
      /\ requeues[j] \in Nat /\ expiries[j] \in Nat /\ crashes \in Nat
      /\ tries[j] \in Nat /\ commits[j] \in Nat /\ Budget(j) \in Nat /\ Budget(j) >= MaxAttempts
  <2>1. /\ Cardinality(Holders(j)) \in Nat /\ Cardinality(Fresh(j)) \in Nat
        /\ Offer(j) \in 0..1 /\ Left(j) \in Nat
    BY CountTypes
  <2>2. Holders(j)' \subseteq Workers /\ Fresh(j)' \subseteq Workers
    BY DEF Holders, Fresh
  <2>3. Cardinality(Holders(j)') \in Nat /\ Cardinality(Fresh(j)') \in Nat
    BY <2>2, FS_Subset, FS_CardinalityType
  <2>4. Offer(j)' \in 0..1 /\ Left(j)' \in Nat
    BY DEF Offer, Left
  <2>. QED  BY <2>1, <2>3, <2>4, BudgetGrows
<1>1. ASSUME NEW c \in Calls, Admit(c) PROVE Paid(j)'
  <2>1. Holders(j)' = Holders(j) /\ Fresh(j)' = Fresh(j) /\ Left(j)' = Left(j)
    BY <1>1, SameCounts DEF Admit, workers, Left
  <2>2. /\ requeues' = requeues /\ expiries' = expiries /\ crashes' = crashes
        /\ tries' = tries /\ commits' = commits /\ Budget(j)' = Budget(j)
    BY <1>1, BudgetGrows DEF Admit, history
  <2>3. CASE j = <<c, 1>>
    <3>1. status[j] = "absent"
      BY <1>1, <2>3 DEF Admit
    <3>. QED  BY <1>0, <2>1, <2>2, <3>1, NewJobPaid DEF Paid, WorkPaid, TriesPaid
  <2>4. CASE j # <<c, 1>>
    <3>1. Offer(j)' = Offer(j)
      BY <1>1, <2>1, <2>4 DEF Admit, Offer
    <3>. QED  BY <2>1, <2>2, <3>1 DEF Paid, WorkPaid, TriesPaid
  <2>. QED  BY <2>3, <2>4
<1>2. ASSUME NEW w \in Workers, NEW k \in Jobs, Claim(w, k) PROVE Paid(j)'
  <2>1. /\ requeues' = requeues /\ expiries' = expiries /\ crashes' = crashes
        /\ commits' = commits /\ Budget(j)' = Budget(j)
    BY <1>2, BudgetGrows DEF Claim, history
  <2>2. CASE j = k
    <3>1. w \in Holders(j)'
      BY <1>2, <2>2, HoldersClaim
    <3>2. Offer(j) = 1 /\ Offer(j)' = 0
      BY <1>2, <2>2, <3>1 DEF Claim, Due, Offer
    <3>3. /\ tries'[j] = tries[j] + 1
          /\ Left(j)' = Left(j) - (IF attempts[j] + 1 < MaxAttempts THEN 1 ELSE 0)
      BY <1>2, <2>2 DEF Claim, Left
    <3>4. /\ Cardinality(Holders(j)') = Cardinality(Holders(j)) + 1
          /\ Cardinality(Fresh(j)') = Cardinality(Fresh(j))
                                        + (IF attempts[j] + 1 < MaxAttempts THEN 1 ELSE 0)
      BY <1>2, <2>2, ClaimCounts
    <3>. QED  BY <1>0, <2>1, <3>2, <3>3, <3>4 DEF Paid, WorkPaid, TriesPaid
  <2>3. CASE j # k
    <3>1. /\ Cardinality(Holders(j)') = Cardinality(Holders(j))
          /\ Cardinality(Fresh(j)') = Cardinality(Fresh(j))
      BY <1>0, <1>2, <2>3, ClaimCounts
    <3>2. Holders(j)' = Holders(j)
      BY <1>2, <2>3, HoldersClaim
    <3>3. Offer(j)' = Offer(j) /\ Left(j)' = Left(j) /\ tries'[j] = tries[j]
      BY <1>2, <2>3, <3>2 DEF Claim, Offer, Left
    <3>. QED  BY <2>1, <3>1, <3>3 DEF Paid, WorkPaid, TriesPaid
  <2>. QED  BY <2>2, <2>3
<1>3. ASSUME NEW w \in Workers, StageDone(w) PROVE Paid(j)'
  <2>1. PICK n : Complete(w, n)
    BY <1>3 DEF StageDone
  <2>2. /\ requeues' = requeues /\ expiries' = expiries /\ crashes' = crashes
        /\ tries' = tries /\ Left(j)' = Left(j) /\ Budget(j)' = Budget(j)
        /\ claim' = [claim EXCEPT ![w] = Nothing]
        /\ commits' = [commits EXCEPT ![claim[w].job] = @ + 1]
    BY <2>1, BudgetGrows DEF Complete, Release, history, Left
  <2>3. /\ Cardinality(Holders(j)') =
              IF w \in Holders(j) THEN Cardinality(Holders(j)) - 1
                                 ELSE Cardinality(Holders(j))
        /\ Cardinality(Fresh(j)') <= Cardinality(Fresh(j))
    BY <2>2, DropCounts, DropBound
  <2>4. CASE j = claim[w].job
    <3>1. w \in Holders(j) /\ commits'[j] = commits[j] + 1
      BY <2>2, <2>4 DEF Holders
    <3>2. status[j] # "absent"
      BY <2>4 DEF UnbornInv
    <3>3. Offer(j)' = 0
      BY <2>1, <2>4, <3>2, NewRowsType DEF Complete, Offer
    <3>. QED  BY <1>0, <2>2, <2>3, <3>1, <3>3 DEF Paid, WorkPaid, TriesPaid
  <2>5. CASE j # claim[w].job
    <3>1. w \notin Holders(j) /\ commits'[j] = commits[j]
      BY <2>2, <2>5 DEF Holders
    <3>2. CASE status[j] = "absent"
      BY <1>0, <2>2, <2>3, <3>1, <3>2, NewJobPaid DEF Paid, WorkPaid, TriesPaid
    <3>3. CASE status[j] # "absent"
      <4>1. Holders(j)' = Holders(j)
        BY <2>2, <3>1, HoldersStay
      <4>2. Offer(j)' = Offer(j)
        BY <2>1, <2>5, <3>3, <4>1, NewRowsType DEF Complete, Offer
      <4>. QED  BY <1>0, <2>2, <2>3, <3>1, <4>2 DEF Paid, WorkPaid, TriesPaid
    <3>. QED  BY <3>2, <3>3
  <2>. QED  BY <2>4, <2>5
<1>4. ASSUME NEW w \in Workers, Fail(w) PROVE Paid(j)'
  <2>1. /\ requeues' = requeues /\ expiries' = expiries /\ crashes' = crashes
        /\ tries' = tries /\ commits' = commits /\ Left(j)' = Left(j) /\ Budget(j)' = Budget(j)
        /\ claim' = [claim EXCEPT ![w] = Nothing]
    BY <1>4, BudgetGrows DEF Fail, Release, history, Left
  <2>2. /\ Cardinality(Holders(j)') =
              IF w \in Holders(j) THEN Cardinality(Holders(j)) - 1
                                 ELSE Cardinality(Holders(j))
        /\ Cardinality(Fresh(j)') =
              IF w \in Fresh(j) THEN Cardinality(Fresh(j)) - 1
                               ELSE Cardinality(Fresh(j))
    BY <2>1, DropCounts
  <2>3. CASE j # claim[w].job
    <3>1. w \notin Holders(j) /\ w \notin Fresh(j)
      BY <2>3 DEF Holders, Fresh
    <3>2. Holders(j)' = Holders(j)
      BY <2>1, <3>1, HoldersStay
    <3>3. Offer(j)' = Offer(j)
      BY <1>4, <2>3, <3>2 DEF Fail, Offer
    <3>. QED  BY <1>0, <2>1, <2>2, <3>1, <3>3 DEF Paid, WorkPaid, TriesPaid
  <2>4. CASE j = claim[w].job /\ Spent(w)
    <3>1. Offer(j)' = 0 /\ w \in Holders(j) /\ w \notin Fresh(j)
      BY <1>4, <2>4 DEF Fail, Offer, Holders, Fresh, Spent
    <3>. QED  BY <1>0, <2>1, <2>2, <3>1 DEF Paid, WorkPaid, TriesPaid
  <2>5. CASE j = claim[w].job /\ ~Spent(w)
    <3>1. w \in Holders(j) /\ w \in Fresh(j)
      BY <2>5 DEF Holders, Fresh, Spent
    <3>. QED  BY <1>0, <2>1, <2>2, <3>1 DEF Paid, WorkPaid, TriesPaid
  <2>. QED  BY <2>3, <2>4, <2>5
<1>5. ASSUME NEW w \in Workers, Crash(w) PROVE Paid(j)'
  <2>1. /\ requeues' = requeues /\ expiries' = expiries /\ crashes' = crashes + 1
        /\ tries' = tries /\ commits' = commits /\ Left(j)' = Left(j) /\ Budget(j)' = Budget(j)
        /\ claim' = [claim EXCEPT ![w] = Nothing]
    BY <1>5, BudgetGrows DEF Crash, Release, table, Left
  <2>2. /\ Cardinality(Holders(j)') =
              IF w \in Holders(j) THEN Cardinality(Holders(j)) - 1
                                 ELSE Cardinality(Holders(j))
        /\ Cardinality(Fresh(j)') <= Cardinality(Fresh(j))
    BY <2>1, DropCounts, DropBound
  <2>3. ASSUME w \notin Holders(j) PROVE Offer(j)' = Offer(j)
    <3>1. Holders(j)' = Holders(j)
      BY <2>1, <2>3, HoldersStay
    <3>. QED  BY <1>5, <3>1 DEF Crash, Offer, table
  <2>. QED  BY <1>0, <2>1, <2>2, <2>3 DEF Paid, WorkPaid, TriesPaid
<1>6. ASSUME NEW k \in Jobs, LeaseExpires(k) PROVE Paid(j)'
  <2>1. Holders(j)' = Holders(j) /\ Fresh(j)' = Fresh(j)
    BY <1>6, SameCounts DEF LeaseExpires, workers
  <2>2. /\ requeues' = requeues /\ crashes' = crashes /\ tries' = tries /\ commits' = commits
        /\ Left(j)' = Left(j) /\ Budget(j)' = Budget(j)
    BY <1>6, BudgetGrows DEF LeaseExpires, Left
  <2>3. expiries'[j] - expiries[j] >= Offer(j)' - Offer(j) /\ expiries'[j] \in Nat
    BY <1>6, <2>1 DEF LeaseExpires, Offer
  <2>. QED  BY <1>0, <2>1, <2>2, <2>3 DEF Paid, WorkPaid, TriesPaid
<1>7. ASSUME NEW o \in Operators, RequeueUpdate(o) PROVE Paid(j)'
  <2>1. Holders(j)' = Holders(j) /\ Fresh(j)' = Fresh(j)
    BY <1>7, SameCounts DEF RequeueUpdate, workers
  <2>2. expiries' = expiries /\ crashes' = crashes /\ tries' = tries /\ commits' = commits
    BY <1>7 DEF RequeueUpdate
  <2>3. CASE j = saw[o]
    <3>1. requeues'[j] = requeues[j] + 1 /\ Left(j)' = MaxAttempts - 1
      BY <1>7, <2>3 DEF RequeueUpdate, Left
    <3>2. Budget(j)' = Budget(j) + MaxAttempts
      BY <3>1, BudgetGrows
    <3>. QED  BY <1>0, <2>1, <2>2, <3>1, <3>2 DEF Paid, WorkPaid, TriesPaid
  <2>4. CASE j # saw[o]
    <3>1. requeues'[j] = requeues[j] /\ Left(j)' = Left(j) /\ Offer(j)' = Offer(j)
      BY <1>7, <2>1, <2>4 DEF RequeueUpdate, Left, Offer
    <3>2. Budget(j)' = Budget(j)
      BY <3>1, BudgetGrows
    <3>. QED  BY <2>1, <2>2, <3>1, <3>2 DEF Paid, WorkPaid, TriesPaid
  <2>. QED  BY <2>3, <2>4
<1>8. CASE \/ \E w \in Workers : StageError(w) \/ Restart(w)
           \/ \E k \in Jobs : BackoffElapses(k)
           \/ \E o \in Operators, k \in Jobs : RequeueCheck(o, k)
           \/ UNCHANGED vars
  <2>1. /\ requeues' = requeues /\ expiries' = expiries /\ crashes' = crashes
        /\ tries' = tries /\ commits' = commits
        /\ Left(j)' = Left(j) /\ claim' = claim
    BY <1>8 DEF StageError, Restart, BackoffElapses, RequeueCheck, Left, vars, table,
                workers, history
  <2>2. Holders(j)' = Holders(j) /\ Fresh(j)' = Fresh(j) /\ Budget(j)' = Budget(j)
    BY <2>1, SameCounts, BudgetGrows
  <2>3. Offer(j)' = Offer(j)
    BY <1>8, <2>2 DEF StageError, Restart, BackoffElapses, RequeueCheck, Offer, vars, table
  <2>. QED  BY <2>1, <2>2, <2>3 DEF Paid, WorkPaid, TriesPaid
<1>. QED  BY <1>1, <1>2, <1>3, <1>4, <1>5, <1>6, <1>7, <1>8 DEF Next

\* A claim on a job that was never requeued is no younger than its count, so that
\* the job is parked only when the count has reached the budget.
LEMMA ParkStep ==
    ASSUME TypeOK, TypeOK', ClaimInv, DeadHasSpentRetries, [Next]_vars
    PROVE  ClaimInv' /\ DeadHasSpentRetries'
<1>. USE DEF TypeOK, ClaimInv, DeadHasSpentRetries
<1>1. ASSUME NEW c \in Calls, Admit(c) PROVE ClaimInv' /\ DeadHasSpentRetries'
  BY <1>1 DEF Admit, workers, history
<1>2. ASSUME NEW w \in Workers, NEW j \in Jobs, Claim(w, j)
      PROVE  ClaimInv' /\ DeadHasSpentRetries'
  BY <1>2 DEF Claim, Due, history
<1>3. ASSUME NEW w \in Workers, StageDone(w) PROVE ClaimInv' /\ DeadHasSpentRetries'
  <2>1. PICK n : Complete(w, n)
    BY <1>3 DEF StageDone
  <2>2. /\ \A j \in Jobs : status'[j] = "dead" => status[j] = "dead"
        /\ attempts' = attempts /\ requeues' = requeues
        /\ claim' = [claim EXCEPT ![w] = Nothing]
    BY <2>1 DEF Complete, Release, history
  <2>. QED  BY <2>2, QueueAssumption DEF Nothing
<1>4. ASSUME NEW w \in Workers, Fail(w) PROVE ClaimInv' /\ DeadHasSpentRetries'
  <2>1. /\ attempts' = attempts /\ requeues' = requeues
        /\ claim' = [claim EXCEPT ![w] = Nothing]
    BY <1>4 DEF Fail, Release, history
  <2>2. ClaimInv'
    BY <2>1, QueueAssumption DEF Nothing
  <2>3. claim[w].job \in Jobs
    BY <1>4 DEF Fail
  <2>4. ASSUME NEW j \in Jobs, status'[j] = "dead", requeues[j] = 0
        PROVE  attempts[j] >= MaxAttempts
    <3>1. CASE j = claim[w].job
      BY <1>4, <2>3, <2>4, <3>1, QueueAssumption DEF Fail, Spent
    <3>2. CASE j # claim[w].job
      BY <1>4, <2>4, <3>2 DEF Fail
    <3>. QED  BY <3>1, <3>2
  <2>. QED  BY <2>1, <2>2, <2>4
<1>5. ASSUME NEW w \in Workers, Crash(w) PROVE ClaimInv' /\ DeadHasSpentRetries'
  BY <1>5, QueueAssumption DEF Crash, Release, Nothing, table
<1>6. ASSUME NEW o \in Operators, RequeueUpdate(o) PROVE ClaimInv' /\ DeadHasSpentRetries'
  <2>1. /\ saw[o] \in Jobs
        /\ status' = [status EXCEPT ![saw[o]] = "pending"]
        /\ attempts' = [attempts EXCEPT ![saw[o]] = 0]
        /\ requeues' = [requeues EXCEPT ![saw[o]] = @ + 1]
        /\ claim' = claim
    BY <1>6 DEF RequeueUpdate, workers
  <2>2. requeues'[saw[o]] # 0
    BY <2>1
  <2>. QED  BY <2>1, <2>2
<1>7. CASE \/ \E w \in Workers : StageError(w) \/ Restart(w)
           \/ \E j \in Jobs : BackoffElapses(j) \/ LeaseExpires(j)
           \/ \E o \in Operators, j \in Jobs : RequeueCheck(o, j)
           \/ UNCHANGED vars
  BY <1>7 DEF StageError, Restart, BackoffElapses, LeaseExpires, RequeueCheck,
              vars, table, workers, history
<1>. QED  BY <1>1, <1>2, <1>3, <1>4, <1>5, <1>6, <1>7 DEF Next

\* What the theorems on attempts and holders rest on is inductive.
THEOREM CountInvariant == Spec => []CountInv
<1>1. Init => CountInv
  <2> SUFFICES ASSUME Init PROVE CountInv
    OBVIOUS
  <2>1. ClaimInv /\ DeadHasSpentRetries
    BY QueueAssumption DEF Init, ClaimInv, DeadHasSpentRetries, Nothing
  <2>2. ASSUME NEW j \in Jobs PROVE Paid(j)
    <3>1. Holders(j) = {} /\ Fresh(j) = {}
      BY QueueAssumption DEF Init, Holders, Fresh, Nothing
    <3>2. /\ Offer(j) = 0 /\ Left(j) = MaxAttempts - 1 /\ tries[j] = 0 /\ commits[j] = 0
          /\ requeues[j] = 0 /\ expiries[j] = 0 /\ crashes = 0
      BY QueueAssumption DEF Init, Offer, Left
    <3>3. Budget(j) = MaxAttempts
      BY <3>2, QueueAssumption DEF Budget
    <3>. QED  BY <3>1, <3>2, <3>3, FS_EmptySet, QueueAssumption DEF Paid, WorkPaid, TriesPaid
  <2>. QED  BY <2>1, <2>2 DEF CountInv, PaidInv
<1>2. OrderInv /\ OrderInv' /\ CountInv /\ [Next]_vars => CountInv'
  BY PaidStep, ParkStep DEF CountInv, PaidInv, OrderInv
<1>. QED  BY <1>1, <1>2, OrderInvariant, PTL DEF Spec

\* However often a job is delivered, it is attempted max_attempts times for its
\* ingestion and for each requeue, and once more for each lease that ran out under a
\* live worker and each crash (queue.py, claim and fail; ops.py, requeue).
THEOREM RetryBudgetHolds == Spec => []RetryBudget
<1>1. OrderInv /\ CountInv => RetryBudget
  <2> SUFFICES ASSUME TypeOK, PaidInv, NEW j \in Jobs
               PROVE  tries[j] <= Budget(j) + expiries[j] + crashes
    BY DEF OrderInv, CountInv, RetryBudget, Budget
  <2>1. Cardinality(Fresh(j)) \in Nat /\ Offer(j) \in 0..1 /\ Left(j) \in Nat
    BY CountTypes
  <2>2. /\ tries[j] \in Nat /\ expiries[j] \in Nat /\ crashes \in Nat /\ Budget(j) \in Nat
    BY QueueAssumption DEF TypeOK, Budget
  <2>. QED  BY <2>1, <2>2 DEF PaidInv, Paid, TriesPaid
<1>. QED  BY <1>1, OrderInvariant, CountInvariant, PTL

\* Two live workers share a job only after a lease ran out under one of them or an
\* operator stepped in, not after a crash (queue.py, claim).
THEOREM LeaseBoundHolds == Spec => []LeaseBound
<1>1. OrderInv /\ CountInv => LeaseBound
  <2> SUFFICES ASSUME TypeOK, PaidInv, NEW j \in Jobs
               PROVE  Cardinality(Holders(j)) <= 1 + requeues[j] + expiries[j]
    BY DEF OrderInv, CountInv, LeaseBound
  <2>1. Cardinality(Holders(j)) \in Nat /\ Offer(j) \in 0..1
    BY CountTypes
  <2>2. requeues[j] \in Nat /\ expiries[j] \in Nat /\ commits[j] \in Nat
    BY DEF TypeOK
  <2>. QED  BY <2>1, <2>2 DEF PaidInv, Paid, WorkPaid
<1>. QED  BY <1>1, OrderInvariant, CountInvariant, PTL

\* Whatever crashes and however late a stale worker comes, a stage commits its work
\* once, and once more at most for each lease that ran out under a live worker and
\* each requeue (queue.py, complete, fail and enqueue).
THEOREM CommitsAreBoundedHolds == Spec => []CommitsAreBounded
<1>1. OrderInv /\ CountInv => CommitsAreBounded
  <2> SUFFICES ASSUME TypeOK, PaidInv, NEW j \in Jobs
               PROVE  commits[j] <= 1 + requeues[j] + expiries[j]
    BY DEF OrderInv, CountInv, CommitsAreBounded
  <2>1. Cardinality(Holders(j)) \in Nat /\ Offer(j) \in 0..1
    BY CountTypes
  <2>2. requeues[j] \in Nat /\ expiries[j] \in Nat /\ commits[j] \in Nat
    BY DEF TypeOK
  <2>. QED  BY <2>1, <2>2 DEF PaidInv, Paid, WorkPaid
<1>. QED  BY <1>1, OrderInvariant, CountInvariant, PTL

\* A job that was never requeued is dead only with its attempts used up (queue.py,
\* fail).
THEOREM DeadHasSpentRetriesHolds == Spec => []DeadHasSpentRetries
<1>1. CountInv => DeadHasSpentRetries
  BY DEF CountInv
<1>. QED  BY <1>1, CountInvariant, PTL

-------------------------------------------------------------------------------
(***************************************************************************)
(* What holds while no stage outlives its lease and at most one operator   *)
(* requeues at a time: the bounds under which queue.py's docstring may      *)
(* promise that a job has one owner.  Workers may crash at any point, any   *)
(* number of them, and dead jobs be requeued.                              *)
(***************************************************************************)

Calm ==
    /\ MaxExpiries = 0
    /\ \A o, p \in Operators : o = p

\* A claimed job is the claimant's alone and cannot be claimed from him.
OwnerInv ==
    /\ \A w \in Workers : claim[w].job \in Jobs =>
          status[claim[w].job] = "running" /\ ~elapsed[claim[w].job]
    /\ \A w, v \in Workers : claim[w].job \in Jobs /\ claim[w].job = claim[v].job => w = v

\* A job that an operator is about to requeue is still dead.
RequeueInv == \A o \in Operators : saw[o] \in Jobs => status[saw[o]] = "dead"

\* A call comes to a stage only when the stages before are done, and stay done.
DonePrefixInv ==
    \A c \in Calls, s, t \in Stage :
        s < t /\ status[<<c, t>>] # "absent" => status[<<c, s>>] = "done"

SoleInv == OwnerInv /\ RequeueInv /\ DonePrefixInv

-------------------------------------------------------------------------------
\* What StageDone does to the jobs of the other calls, of the call, and itself.
LEMMA CompleteStatus ==
    ASSUME TypeOK, UnbornInv, NEW w \in Workers,
           NEW n \in NextStages(claim[w].job[2]), Complete(w, n)
    PROVE  /\ claim[w].job \in Jobs
           /\ status'[claim[w].job] = "done"
           /\ \A j \in Jobs : j # claim[w].job =>
                \/ status'[j] = status[j] /\ elapsed'[j] = elapsed[j]
                \/ /\ status[j] = "absent" /\ status'[j] = "pending"
                   /\ j = <<claim[w].job[1], claim[w].job[2] + 1>>
<1>. DEFINE c == claim[w].job[1]
            s == claim[w].job[2]
<1>1. claim[w].job \in Jobs
  BY DEF Complete, TypeOK
<1>2. status[claim[w].job] # "absent" /\ c \in Calls /\ s \in Stage
  BY <1>1, HeldJob
<1>3. claim[w].job \notin NewRows(c, n)
  BY <1>2, NewRowsType
<1>4. status'[claim[w].job] = "done"
  BY <1>1, <1>3 DEF Complete
<1>5. ASSUME NEW j \in Jobs, j # claim[w].job
      PROVE  \/ status'[j] = status[j] /\ elapsed'[j] = elapsed[j]
             \/ status[j] = "absent" /\ status'[j] = "pending" /\ j = <<c, s + 1>>
  <2>1. CASE j \in NewRows(c, n)
    <3>1. j = <<c, n>> /\ status[j] = "absent" /\ n \in Stage
      BY <2>1 DEF NewRows, Jobs
    <3>2. n = s + 1
      BY <3>1, <1>2, QueueAssumption DEF NextStages, Stage
    <3>. QED  BY <2>1, <3>1, <3>2 DEF Complete
  <2>2. CASE j \notin NewRows(c, n)
    BY <1>5, <2>2 DEF Complete
  <2>. QED  BY <2>1, <2>2
<1>. QED  BY <1>1, <1>4, <1>5

LEMMA OwnerStep ==
    ASSUME Calm, TypeOK, TypeOK', UnbornInv, SoleInv, [Next]_vars
    PROVE  OwnerInv'
<1>. USE DEF TypeOK, OwnerInv, SoleInv
<1>1. ASSUME NEW c \in Calls, Admit(c) PROVE OwnerInv'
  <2>1. \A w \in Workers : claim[w].job # <<c, 1>> \/ claim[w].job \notin Jobs
    BY <1>1 DEF Admit
  <2>. QED  BY <1>1, <2>1 DEF Admit, workers
<1>2. ASSUME NEW w \in Workers, NEW j \in Jobs, Claim(w, j) PROVE OwnerInv'
  <2>1. \A v \in Workers : claim[v].job # j
    BY <1>2 DEF Claim, Due
  <2>. QED  BY <1>2, <2>1 DEF Claim
<1>3. ASSUME NEW w \in Workers, StageDone(w) PROVE OwnerInv'
  <2>1. PICK n \in NextStages(claim[w].job[2]) : Complete(w, n)
    BY <1>3 DEF StageDone
  <2>2. claim' = [claim EXCEPT ![w] = Nothing]
    BY <2>1 DEF Complete, Release
  <2>3. claim'[w].job \notin Jobs
    BY <2>2, QueueAssumption DEF Nothing
  <2>4. \A v \in Workers : v # w => claim'[v] = claim[v]
    BY <2>2
  <2>5. ASSUME NEW v \in Workers, claim'[v].job \in Jobs
        PROVE  status'[claim[v].job] = "running" /\ ~elapsed'[claim[v].job]
    <3>1. v # w /\ claim[v].job \in Jobs /\ claim[v].job # claim[w].job
      BY <2>1, <2>3, <2>4, <2>5, CompleteStatus
    <3>. QED  BY <2>1, <3>1, CompleteStatus
  <2>6. ASSUME NEW v \in Workers, NEW u \in Workers,
               claim'[v].job \in Jobs, claim'[v].job = claim'[u].job
        PROVE  v = u
    <3>1. v # w /\ u # w
      BY <2>3, <2>6
    <3>. QED  BY <2>4, <2>6, <3>1
  <2>7. \A v \in Workers : claim'[v].job \in Jobs => claim'[v] = claim[v]
    BY <2>3, <2>4
  <2>. QED  BY <2>5, <2>6, <2>7
<1>4. ASSUME NEW w \in Workers, Fail(w) PROVE OwnerInv'
  <2>1. claim' = [claim EXCEPT ![w] = Nothing]
    BY <1>4 DEF Fail, Release
  <2>2. claim'[w].job \notin Jobs /\ claim[w].job \in Jobs
    BY <1>4, <2>1, QueueAssumption DEF Nothing, Fail
  <2>3. \A v \in Workers : v # w => claim'[v] = claim[v]
    BY <2>1
  <2>4. \A j \in Jobs : j # claim[w].job => status'[j] = status[j] /\ elapsed'[j] = elapsed[j]
    BY <1>4 DEF Fail
  <2>5. ASSUME NEW v \in Workers, claim'[v].job \in Jobs
        PROVE  status'[claim'[v].job] = "running" /\ ~elapsed'[claim'[v].job]
    <3>1. v # w /\ claim'[v] = claim[v] /\ claim[v].job # claim[w].job
      BY <2>2, <2>3, <2>5
    <3>. QED  BY <2>4, <2>5, <3>1
  <2>6. ASSUME NEW v \in Workers, NEW u \in Workers,
               claim'[v].job \in Jobs, claim'[v].job = claim'[u].job
        PROVE  v = u
    <3>1. v # w /\ u # w
      BY <2>2, <2>6
    <3>. QED  BY <2>3, <2>6, <3>1
  <2>. QED  BY <2>5, <2>6
<1>5. ASSUME NEW w \in Workers, Crash(w) PROVE OwnerInv'
  BY <1>5, QueueAssumption DEF Crash, Release, Nothing, table
<1>6. ASSUME NEW j \in Jobs, BackoffElapses(j) PROVE OwnerInv'
  BY <1>6 DEF BackoffElapses, workers
<1>7. ASSUME NEW j \in Jobs, LeaseExpires(j) PROVE OwnerInv'
  <2>1. Holders(j) = {}
    BY <1>7 DEF LeaseExpires, Calm
  <2>. QED  BY <1>7, <2>1 DEF LeaseExpires, Holders, workers
<1>8. ASSUME NEW o \in Operators, RequeueUpdate(o) PROVE OwnerInv'
  <2>1. \A w \in Workers : claim[w].job \in Jobs => claim[w].job # saw[o]
    BY <1>8 DEF RequeueUpdate, RequeueInv
  <2>. QED  BY <1>8, <2>1 DEF RequeueUpdate, workers
<1>9. CASE \/ \E w \in Workers : StageError(w) \/ Restart(w)
           \/ \E o \in Operators, j \in Jobs : RequeueCheck(o, j)
           \/ UNCHANGED vars
  BY <1>9 DEF StageError, Restart, RequeueCheck, vars, table, workers
<1>. QED  BY <1>1, <1>2, <1>3, <1>4, <1>5, <1>6, <1>7, <1>8, <1>9 DEF Next

\* Only the operator who saw it dead takes a job out of the dead ones.
LEMMA RequeueStep ==
    ASSUME Calm, TypeOK, TypeOK', UnbornInv, SoleInv, [Next]_vars
    PROVE  RequeueInv'
<1>. USE DEF TypeOK, OwnerInv, RequeueInv, SoleInv
<1>1. ASSUME NEW c \in Calls, Admit(c) PROVE RequeueInv'
  BY <1>1 DEF Admit
<1>2. ASSUME NEW w \in Workers, NEW j \in Jobs, Claim(w, j) PROVE RequeueInv'
  BY <1>2 DEF Claim, Due
<1>3. ASSUME NEW w \in Workers, StageDone(w) PROVE RequeueInv'
  <2>1. PICK n \in NextStages(claim[w].job[2]) : Complete(w, n)
    BY <1>3 DEF StageDone
  <2>2. saw' = saw
    BY <2>1 DEF Complete
  <2>3. ASSUME NEW o \in Operators, saw[o] \in Jobs PROVE status'[saw[o]] = "dead"
    <3>1. claim[w].job \in Jobs /\ saw[o] # claim[w].job
      BY <2>1, <2>3, CompleteStatus
    <3>. QED  BY <2>1, <2>3, <3>1, CompleteStatus
  <2>. QED  BY <2>2, <2>3
<1>4. ASSUME NEW w \in Workers, Fail(w) PROVE RequeueInv'
  BY <1>4 DEF Fail
<1>5. ASSUME NEW o \in Operators, NEW j \in Jobs, RequeueCheck(o, j) PROVE RequeueInv'
  BY <1>5 DEF RequeueCheck, table
<1>6. ASSUME NEW o \in Operators, RequeueUpdate(o) PROVE RequeueInv'
  <2>1. \A p \in Operators : saw'[p] = NoJob
    BY <1>6 DEF RequeueUpdate, Calm
  <2>. QED  BY <2>1, QueueAssumption
<1>7. CASE \/ \E w \in Workers : StageError(w) \/ Restart(w) \/ Crash(w)
           \/ \E j \in Jobs : BackoffElapses(j) \/ LeaseExpires(j)
           \/ UNCHANGED vars
  BY <1>7 DEF StageError, Restart, Crash, BackoffElapses, LeaseExpires, vars, table
<1>. QED  BY <1>1, <1>2, <1>3, <1>4, <1>5, <1>6, <1>7 DEF Next

\* What is done stays done.
LEMMA DoneStep ==
    ASSUME Calm, TypeOK, UnbornInv, SoleInv, [Next]_vars,
           NEW j \in Jobs, status[j] = "done"
    PROVE  status'[j] = "done"
<1>. USE DEF TypeOK, OwnerInv, RequeueInv, SoleInv
<1>1. ASSUME NEW c \in Calls, Admit(c) PROVE status'[j] = "done"
  BY <1>1 DEF Admit
<1>2. ASSUME NEW w \in Workers, NEW k \in Jobs, Claim(w, k) PROVE status'[j] = "done"
  BY <1>2 DEF Claim, Due
<1>3. ASSUME NEW w \in Workers, StageDone(w) PROVE status'[j] = "done"
  BY <1>3, CompleteStatus DEF StageDone
<1>4. ASSUME NEW w \in Workers, Fail(w) PROVE status'[j] = "done"
  BY <1>4 DEF Fail
<1>5. ASSUME NEW o \in Operators, RequeueUpdate(o) PROVE status'[j] = "done"
  BY <1>5 DEF RequeueUpdate
<1>6. CASE \/ \E w \in Workers : StageError(w) \/ Restart(w) \/ Crash(w)
           \/ \E k \in Jobs : BackoffElapses(k) \/ LeaseExpires(k)
           \/ \E o \in Operators, k \in Jobs : RequeueCheck(o, k)
           \/ UNCHANGED vars
  BY <1>6 DEF StageError, Restart, Crash, BackoffElapses, LeaseExpires, RequeueCheck,
              vars, table
<1>. QED  BY <1>1, <1>2, <1>3, <1>4, <1>5, <1>6 DEF Next

\* The only job a step can add is the first of a call, or the one that follows the
\* job the step completes.
LEMMA DonePrefixStep ==
    ASSUME Calm, TypeOK, UnbornInv, SoleInv, [Next]_vars
    PROVE  DonePrefixInv'
<1> SUFFICES ASSUME NEW c \in Calls, NEW s \in Stage, NEW t \in Stage,
                    s < t, status'[<<c, t>>] # "absent"
             PROVE  status'[<<c, s>>] = "done"
  BY DEF DonePrefixInv
<1>1. <<c, s>> \in Jobs /\ <<c, t>> \in Jobs /\ s \in Nat /\ t \in Nat
  BY DEF Jobs, Stage
<1>2. CASE status[<<c, t>>] # "absent"
  <2>1. status[<<c, s>>] = "done"
    BY <1>2 DEF SoleInv, DonePrefixInv
  <2>. QED  BY <1>1, <2>1, DoneStep
<1>3. CASE status[<<c, t>>] = "absent"
  <2>1. PICK w \in Workers : StageDone(w) /\ <<c, t>> # claim[w].job
                             /\ <<c, t>> = <<claim[w].job[1], claim[w].job[2] + 1>>
    <3>. USE <1>1, <1>3 DEF TypeOK
    <3>1. ASSUME NEW d \in Calls, Admit(d) PROVE FALSE
      <4>1. <<c, t>> = <<d, 1>>
        BY <3>1 DEF Admit
      <4>. QED  BY <4>1, <1>1 DEF Stage
    <3>2. ASSUME NEW w \in Workers, NEW j \in Jobs, Claim(w, j) PROVE FALSE
      BY <3>2 DEF Claim, Due
    <3>3. ASSUME NEW w \in Workers, StageDone(w)
          PROVE  /\ <<c, t>> # claim[w].job
                 /\ <<c, t>> = <<claim[w].job[1], claim[w].job[2] + 1>>
      <4>1. PICK n \in NextStages(claim[w].job[2]) : Complete(w, n)
        BY <3>3 DEF StageDone
      <4>2. claim[w].job \in Jobs /\ <<c, t>> # claim[w].job
        BY <4>1, CompleteStatus, HeldJob
      <4>. QED  BY <4>1, <4>2, CompleteStatus
    <3>4. ASSUME NEW w \in Workers, Fail(w) PROVE FALSE
      BY <3>4 DEF Fail, SoleInv, OwnerInv
    <3>5. ASSUME NEW o \in Operators, RequeueUpdate(o) PROVE FALSE
      BY <3>5 DEF RequeueUpdate, SoleInv, RequeueInv
    <3>6. CASE \/ \E w \in Workers : StageError(w) \/ Crash(w) \/ Restart(w)
               \/ \E j \in Jobs : BackoffElapses(j) \/ LeaseExpires(j)
               \/ \E o \in Operators, j \in Jobs : RequeueCheck(o, j)
               \/ UNCHANGED vars
      BY <3>6 DEF StageError, Crash, Restart, BackoffElapses, LeaseExpires,
                  RequeueCheck, vars, table
    <3>. QED  BY <3>1, <3>2, <3>3, <3>4, <3>5, <3>6 DEF Next
  <2>2. PICK n \in NextStages(claim[w].job[2]) : Complete(w, n)
    BY <2>1 DEF StageDone
  <2>3. claim[w].job \in Jobs /\ status'[claim[w].job] = "done"
    BY <2>2, CompleteStatus
  <2>4. claim[w].job = <<c, t - 1>> /\ t - 1 \in Stage /\ status[<<c, t - 1>>] # "absent"
    <3>1. /\ status[claim[w].job] # "absent" /\ claim[w].job[2] \in Stage
          /\ claim[w].job = <<claim[w].job[1], claim[w].job[2]>>
      BY <2>3, HeldJob
    <3>2. claim[w].job[1] = c /\ claim[w].job[2] = t - 1
      BY <2>1, <3>1, <1>1 DEF Stage
    <3>. QED  BY <3>1, <3>2
  <2>5. CASE s = t - 1
    BY <2>3, <2>4, <2>5
  <2>6. CASE s < t - 1
    <3>1. status[<<c, s>>] = "done"
      BY <2>4, <2>6 DEF SoleInv, DonePrefixInv
    <3>. QED  BY <1>1, <3>1, DoneStep
  <2>. QED  BY <1>1, <2>5, <2>6
<1>. QED  BY <1>2, <1>3

\* What the theorems on ownership rest on is inductive.
THEOREM SoleInvariant == ASSUME Calm PROVE Spec => []SoleInv
<1>1. Init => SoleInv
  BY QueueAssumption DEF Init, SoleInv, OwnerInv, RequeueInv, DonePrefixInv, Nothing, Jobs
<1>2. TypeOK /\ TypeOK' /\ UnbornInv /\ SoleInv /\ [Next]_vars => SoleInv'
  BY Calm, OwnerStep, RequeueStep, DonePrefixStep DEF SoleInv
<1>3. OrderInv => TypeOK /\ UnbornInv
  BY DEF OrderInv
<1>. QED  BY <1>1, <1>2, <1>3, OrderInvariant, PTL DEF Spec
===============================================================================
