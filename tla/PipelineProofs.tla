---------------------------- MODULE PipelineProofs ----------------------------
(***************************************************************************)
(* What holds of the calls that the workers take through the stages, for   *)
(* any number of calls, workers and operators, and any rubric.             *)
(***************************************************************************)
EXTENDS Pipeline, JobQueueProofs, SequenceTheorems

(***************************************************************************)
(* The stages use the queue as JobQueue describes it.                      *)
(***************************************************************************)

\* next_stage goes where the queue expects it to go.
LEMMA NextStageAllowed ==
    ASSUME NEW s \in Stage, NEW row
    PROVE  NextStage(s, row) \in NextStages(s)
BY QueueAssumption, PipelineAssumption
   DEF NextStage, NextStages, Stage, CLASSIFY, VALIDATE

\* A worker in a stage has the job of a call.
LEMMA StageJob ==
    ASSUME TypeOK, NEW w \in Workers, pc[w] = "stage"
    PROVE  /\ claim[w].job \in Jobs
           /\ claim[w].job = <<claim[w].job[1], claim[w].job[2]>>
           /\ claim[w].job[1] \in Calls
           /\ claim[w].job[2] \in Stage
BY DEF TypeOK, Jobs

\* Every step of the pipeline is a step of the queue, or one that it does not see.
LEMMA PipelineStepIsQueueStep ==
    ASSUME TypeOK, [PipelineNext]_pipelineVars
    PROVE  [Next]_vars
<1>1. CASE QueueStep
  BY <1>1 DEF QueueStep, Next
<1>2. ASSUME NEW w \in Workers, Read(w) PROVE UNCHANGED vars
  BY <1>2 DEF Read
<1>3. ASSUME NEW w \in Workers, StageCommit(w) PROVE Next
  <2>1. pc[w] = "stage" /\ \E row : Complete(w, NextStage(claim[w].job[2], row))
    BY <1>3 DEF StageCommit
  <2>2. claim[w].job[2] \in Stage
    BY <2>1, StageJob
  <2>3. StageDone(w)
    BY <2>1, <2>2, NextStageAllowed DEF StageDone
  <2>. QED  BY <2>3 DEF Next
<1>4. ASSUME NEW w \in Workers, StageRollback(w) PROVE Next
  BY <1>4 DEF StageRollback, Next
<1>5. ASSUME NEW w \in Workers, WorkerCrash(w) PROVE Next
  BY <1>5 DEF WorkerCrash, Next
<1>6. CASE UNCHANGED pipelineVars
  BY <1>6 DEF pipelineVars
<1>. QED  BY <1>1, <1>2, <1>3, <1>4, <1>5, <1>6 DEF PipelineNext

\* The workers with their stages implement the queue whose stages only succeed or
\* raise: every theorem on JobQueue holds of the pipeline (worker.py, process_one).
THEOREM PipelineImplementsQueue == PipelineSpec => Spec
<1>1. PipelineInit => Init /\ TypeOK
  BY QueueAssumption DEF PipelineInit, Init, TypeOK, JobStatus, Nothing
<1>2. TypeOK /\ [PipelineNext]_pipelineVars => TypeOK' /\ [Next]_vars
  BY PipelineStepIsQueueStep, TypeStep
<1>. QED  BY <1>1, <1>2, PTL DEF PipelineSpec, Spec

-------------------------------------------------------------------------------
(***************************************************************************)
(* Types.                                                                  *)
(***************************************************************************)

\* A stage that goes over the segments leaves as many as there were.
LEMMA SameSegments ==
    ASSUME NEW ts \in Seq(Transcript), NEW us,
           us = [i \in DOMAIN ts |-> us[i]],
           \A i \in DOMAIN ts : us[i] \in Transcript
    PROVE  /\ us \in Seq(Transcript)
           /\ Len(us) = Len(ts)
           /\ DOMAIN us = DOMAIN ts
<1>1. DOMAIN ts = 1..Len(ts) /\ Len(ts) \in Nat
  BY LenProperties
<1>2. us \in [1..Len(ts) -> Transcript]
  BY <1>1
<1>3. us \in Seq(Transcript)
  BY <1>1, <1>2, SeqDef
<1>4. DOMAIN us = 1..Len(us) /\ Len(us) \in Nat
  BY <1>3, LenProperties
<1>. QED  BY <1>1, <1>2, <1>3, <1>4

Label == {"unlabelled", "opener", "flipped"}

\* What it does to a segment leaves a segment.
LEMMA SegmentTypes ==
    ASSUME NEW t \in Transcript
    PROVE  /\ t.speaker \in Label /\ t.redacted \in BOOLEAN
           /\ \A l \in Label : [t EXCEPT !.speaker = l] \in Transcript
           /\ \A b \in BOOLEAN : [t EXCEPT !.redacted = b] \in Transcript
           /\ [t EXCEPT !.speaker = Flip(@)] \in Transcript
<1>1. t.speaker \in Label /\ t.redacted \in BOOLEAN
  BY DEF Transcript, Label
<1>2. \A l \in Label : [t EXCEPT !.speaker = l] \in Transcript
  BY DEF Transcript, Label
<1>3. \A b \in BOOLEAN : [t EXCEPT !.redacted = b] \in Transcript
  BY DEF Transcript
<1>4. Flip(t.speaker) \in Label
  BY <1>1 DEF Flip, Label
<1>. QED  BY <1>1, <1>2, <1>3, <1>4

\* The fields of a row of calls.
LEMMA RowTypes ==
    ASSUME NEW row \in CallRow
    PROVE  /\ row.transcripts \in Seq(Transcript)
           /\ row.scores \in Seq(Dimensions)
           /\ row.scored \in BOOLEAN /\ row.swapped \in BOOLEAN
           /\ row.tagged \in SUBSET {"classify", "analyse"}
           /\ row.status \in {"received", "processing", "done", "needs_review"}
           /\ \A i \in DOMAIN row.transcripts : row.transcripts[i] \in Transcript
<1>1. row.transcripts \in Seq(Transcript)
  BY DEF CallRow
<1>2. \A i \in DOMAIN row.transcripts : row.transcripts[i] \in Transcript
  BY <1>1, LenProperties, ElementOfSeq
<1>. QED  BY <1>1, <1>2 DEF CallRow

\* The rows of segments as the three stages that go over them leave them.
LEMMA SegmentsTypes ==
    ASSUME NEW ts \in Seq(Transcript), NEW known
    PROVE  /\ \A l \in Label :
                [i \in DOMAIN ts |-> [ts[i] EXCEPT !.speaker = l]] \in Seq(Transcript)
           /\ MaskSegments(ts, known) \in Seq(Transcript)
           /\ FlipSegments(ts) \in Seq(Transcript)
<1>1. \A i \in DOMAIN ts : ts[i] \in Transcript
  BY LenProperties, ElementOfSeq
<1>2. ASSUME NEW l \in Label
      PROVE  [i \in DOMAIN ts |-> [ts[i] EXCEPT !.speaker = l]] \in Seq(Transcript)
  <2>. DEFINE us == [i \in DOMAIN ts |-> [ts[i] EXCEPT !.speaker = l]]
  <2>1. us = [i \in DOMAIN ts |-> us[i]]
    OBVIOUS
  <2>2. \A i \in DOMAIN ts : us[i] \in Transcript
    BY <1>1, SegmentTypes
  <2>. HIDE DEF us
  <2>3. us \in Seq(Transcript)
    BY <2>1, <2>2, SameSegments
  <2>. QED  BY <2>3 DEF us
<1>3. MaskSegments(ts, known) \in Seq(Transcript)
  <2>. DEFINE us == MaskSegments(ts, known)
  <2>1. us = [i \in DOMAIN ts |-> us[i]]
    BY DEF MaskSegments
  <2>2. ASSUME NEW i \in DOMAIN ts PROVE us[i] \in Transcript
    <3>1. [ts[i] EXCEPT !.redacted = ts[i].redacted \/ i \in known] \in Transcript
      BY <1>1 DEF Transcript
    <3>. QED  BY <3>1 DEF MaskSegments
  <2>. HIDE DEF us
  <2>3. us \in Seq(Transcript)
    BY <2>1, <2>2, SameSegments
  <2>. QED  BY <2>3 DEF us
<1>4. FlipSegments(ts) \in Seq(Transcript)
  <2>. DEFINE us == FlipSegments(ts)
  <2>1. us = [i \in DOMAIN ts |-> us[i]]
    BY DEF FlipSegments
  <2>2. \A i \in DOMAIN ts : us[i] \in Transcript
    BY <1>1, SegmentTypes DEF FlipSegments
  <2>. HIDE DEF us
  <2>3. us \in Seq(Transcript)
    BY <2>1, <2>2, SameSegments
  <2>. QED  BY <2>3 DEF us
<1>. QED  BY <1>2, <1>3, <1>4

\* Outcomes, stage by stage.
LEMMA OutcomeCases ==
    ASSUME NEW s \in Stage, NEW now, NEW seen, NEW row \in Outcomes(s, now, seen)
    PROVE  \/ s = TRANSCRIBE /\ row \in Transcribed(now, seen)
           \/ s = DIARISE    /\ row \in Diarised(now, seen)
           \/ s = REDACT     /\ row \in Redacted(now, seen)
           \/ s = CLASSIFY   /\ row \in Classified(now, seen)
           \/ s = ANALYSE    /\ row \in Analysed(now, seen)
           \/ s = VALIDATE   /\ row \in Validated(now, seen)
BY PipelineAssumption
   DEF Outcomes, Stage, TRANSCRIBE, DIARISE, REDACT, CLASSIFY, ANALYSE, VALIDATE

\* Whatever a stage has read and whatever is committed, it leaves a row of calls.
LEMMA OutcomeType ==
    ASSUME NEW s \in Stage, NEW now \in CallRow, NEW seen \in CallRow,
           NEW row \in Outcomes(s, now, seen)
    PROVE  row \in CallRow
<1>1. CASE row \in Transcribed(now, seen)
  <2>1. [speaker |-> "unlabelled", redacted |-> FALSE] \in Transcript
    BY DEF Transcript
  <2>2. Append(now.transcripts, [speaker |-> "unlabelled", redacted |-> FALSE])
          \in Seq(Transcript)
    BY <2>1, RowTypes, AppendProperties
  <2>. QED  BY <1>1, <2>2 DEF Transcribed, CallRow
<1>2. CASE row \in Diarised(now, seen)
  <2>1. ASSUME NEW l \in Label, NEW confidence \in {"measured", "given"}
        PROVE  Relabelled(now, l, confidence) \in CallRow
    <3>1. now.transcripts \in Seq(Transcript)
      BY RowTypes
    <3>2. [i \in DOMAIN now.transcripts |-> [now.transcripts[i] EXCEPT !.speaker = l]]
            \in Seq(Transcript)
      BY <3>1, SegmentsTypes
    <3>. QED  BY <3>2 DEF Relabelled, CallRow
  <2>2. \A i \in DOMAIN seen.transcripts : seen.transcripts[i].speaker \in Label
    BY RowTypes, SegmentTypes
  <2>3. "opener" \in Label
    BY DEF Label
  <2>. QED  BY <1>2, <2>1, <2>2, <2>3 DEF Diarised
<1>3. CASE row \in Redacted(now, seen)
  <2>1. MaskSegments(now.transcripts, DOMAIN seen.transcripts) \in Seq(Transcript)
    BY RowTypes, SegmentsTypes
  <2>2. \A ts \in Seq(Transcript) : [now EXCEPT !.transcripts = ts] \in CallRow
    BY DEF CallRow
  <2>. QED  BY <1>3, <2>1, <2>2, Zenon DEF Redacted
<1>4. CASE row \in Classified(now, seen)
  <2>1. FlipSegments(now.transcripts) \in Seq(Transcript)
    BY RowTypes, SegmentsTypes
  <2>2. \A customerIsRep \in BOOLEAN : Swapped(now, seen, customerIsRep) \in CallRow
    BY <2>1 DEF Swapped, CallRow
  <2>3. \A r \in CallRow, sales \in BOOLEAN : SetAside(r, sales) \in CallRow
    BY DEF SetAside, CallRow
  <2>. QED  BY <1>4, <2>2, <2>3 DEF Classified
<1>5. CASE row \in Analysed(now, seen)
  <2>1. \A result \in AnalysisResults : now.scores \o result \in Seq(Dimensions)
    BY PipelineAssumption, RowTypes, ConcatProperties
  <2>2. \A issues \in SUBSET {"analyse"} :
          now.tagged \cup issues \in SUBSET {"classify", "analyse"}
    BY RowTypes
  <2>3. ASSUME NEW answer \in [scores : AnalysisResults, issues : SUBSET {"analyse"}]
        PROVE  [now EXCEPT !.scores = @ \o answer.scores, !.tagged = @ \cup answer.issues,
                           !.scored = TRUE] \in CallRow
    BY <2>1, <2>2 DEF CallRow
  <2>. QED  BY <1>5, <2>3 DEF Analysed
<1>6. CASE row \in Validated(now, seen)
  <2>1. \A verdict \in {"done", "needs_review"} : [now EXCEPT !.status = verdict] \in CallRow
    BY DEF CallRow
  <2>2. (IF seen.scored /\ Len(seen.scores) = Cardinality(Dimensions)
         THEN "done" ELSE "needs_review") \in {"done", "needs_review"}
    OBVIOUS
  <2>. QED  BY <1>6, <2>1, <2>2, Zenon DEF Validated
<1>. QED  BY <1>1, <1>2, <1>3, <1>4, <1>5, <1>6, OutcomeCases

\* What a commit does to the calls: the call of the job gets one of the rows that
\* its stage may leave.
LEMMA CommitRow ==
    ASSUME PipelineTypeOK, NEW w \in Workers, StageCommit(w)
    PROVE  LET c == claim[w].job[1]
               s == claim[w].job[2]
           IN  /\ pc[w] = "stage" /\ read[w] \in CallRow
               /\ c \in Calls /\ s \in Stage /\ claim[w].job = <<c, s>>
               /\ \E row \in Outcomes(s, call[c], read[w]) :
                     /\ row \in CallRow
                     /\ call' = [call EXCEPT ![c] = row]
                     /\ Complete(w, NextStage(s, row))
               /\ read' = [read EXCEPT ![w] = NotRead]
<1>1. pc[w] = "stage" /\ read[w] \in CallRow
  BY DEF StageCommit, PipelineTypeOK
<1>2. /\ claim[w].job[1] \in Calls /\ claim[w].job[2] \in Stage
      /\ claim[w].job = <<claim[w].job[1], claim[w].job[2]>>
  BY <1>1, StageJob DEF PipelineTypeOK
<1>3. call[claim[w].job[1]] \in CallRow
  BY <1>2 DEF PipelineTypeOK
<1>. QED  BY <1>1, <1>2, <1>3, OutcomeType DEF StageCommit

LEMMA PipelineTypeStep ==
    ASSUME PipelineTypeOK, [PipelineNext]_pipelineVars
    PROVE  PipelineTypeOK'
<1>. USE DEF PipelineTypeOK
<1>0. TypeOK'
  BY PipelineStepIsQueueStep, TypeStep
<1>1. CASE QueueStep /\ UNCHANGED <<call, read>>
  <2>1. \A w \in Workers : pc'[w] # "stage" => read[w] = NotRead
    BY <1>1 DEF QueueStep, TypeOK, Admit, Claim, Fail, Restart, BackoffElapses,
                LeaseExpires, RequeueCheck, RequeueUpdate, Release, workers
  <2>. QED  BY <1>0, <1>1, <2>1
<1>2. ASSUME NEW w \in Workers, Read(w) PROVE PipelineTypeOK'
  <2>1. claim[w].job[1] \in Calls /\ pc' = pc
    BY <1>2, StageJob DEF Read, vars, workers
  <2>2. read' = [read EXCEPT ![w] = call[claim[w].job[1]]] /\ call' = call
    BY <1>2 DEF Read
  <2>3. call[claim[w].job[1]] \in CallRow
    BY <2>1
  <2>. QED  BY <1>0, <1>2, <2>1, <2>2, <2>3 DEF Read
<1>3. ASSUME NEW w \in Workers, StageCommit(w) PROVE PipelineTypeOK'
  <2>1. /\ read' = [read EXCEPT ![w] = NotRead]
        /\ \E row \in CallRow : call' = [call EXCEPT ![claim[w].job[1]] = row]
    BY <1>3, CommitRow
  <2>2. \A v \in Workers : v # w => pc'[v] = pc[v]
    BY <1>3 DEF StageCommit, Complete, Release, TypeOK
  <2>. QED  BY <1>0, <2>1, <2>2
<1>4. ASSUME NEW w \in Workers, StageRollback(w) \/ WorkerCrash(w) PROVE PipelineTypeOK'
  <2>1. /\ read' = [read EXCEPT ![w] = NotRead]
        /\ call' = call
        /\ \A v \in Workers : v # w => pc'[v] = pc[v]
    BY <1>4 DEF StageRollback, WorkerCrash, StageError, Crash, Release, TypeOK
  <2>. QED  BY <1>0, <2>1
<1>5. CASE UNCHANGED pipelineVars
  BY <1>0, <1>5 DEF pipelineVars, vars, workers
<1>. QED  BY <1>1, <1>2, <1>3, <1>4, <1>5 DEF PipelineNext

\* The calls and what the stages have read of them keep their types, and only a
\* worker in a stage has read anything (pipeline/stages/).
THEOREM PipelineTypeCorrect == PipelineSpec => []PipelineTypeOK
<1>1. PipelineInit => PipelineTypeOK
  <2> SUFFICES ASSUME PipelineInit PROVE PipelineTypeOK
    OBVIOUS
  <2>1. TypeOK
    BY QueueAssumption DEF PipelineInit, Init, TypeOK, JobStatus, Nothing
  <2>2. <<>> \in Seq(Transcript) /\ <<>> \in Seq(Dimensions)
    BY EmptySeq
  <2>. QED  BY <2>1, <2>2 DEF PipelineInit, PipelineTypeOK, CallRow
<1>. QED  BY <1>1, PipelineTypeStep, PTL DEF PipelineSpec

-------------------------------------------------------------------------------
(***************************************************************************)
(* Scores and verdicts, however often the queue delivers a stage.          *)
(***************************************************************************)

OneAnalysisOf(row) == IF row.scored THEN row.scores \in AnalysisResults
                                    ELSE row.scores = <<>>

Counted(row) == row.scored /\ Len(row.scores) = Cardinality(Dimensions)

\* What w has read of the scores is what the call has: they never change again.
SeenScoresInv ==
    \A w \in Workers : read[w] # NotRead /\ read[w].scored =>
        call[claim[w].job[1]].scored /\ call[claim[w].job[1]].scores = read[w].scores

\* No stage changes scores that are committed, and none takes back a tag.
LEMMA OutcomeScores ==
    ASSUME NEW s \in Stage, NEW now \in CallRow, NEW seen \in CallRow,
           NEW row \in Outcomes(s, now, seen)
    PROVE  /\ now.scored => row.scored /\ row.scores = now.scores
           /\ now.tagged \subseteq row.tagged
           /\ OneAnalysisOf(now) => OneAnalysisOf(row)
           /\ row.status = "done" =>
                \/ now.status = "done"
                \/ "classify" \in row.tagged
                \/ Counted(seen)
<1>. DEFINE Goal == /\ now.scored => row.scored /\ row.scores = now.scores
                    /\ now.tagged \subseteq row.tagged
                    /\ OneAnalysisOf(now) => OneAnalysisOf(row)
                    /\ row.status = "done" =>
                         \/ now.status = "done"
                         \/ "classify" \in row.tagged
                         \/ Counted(seen)
<1>1. CASE row \in Transcribed(now, seen)
  BY <1>1 DEF Transcribed, CallRow, OneAnalysisOf
<1>2. CASE row \in Diarised(now, seen)
  <2>1. ASSUME NEW l, NEW confidence, row = Relabelled(now, l, confidence) PROVE Goal
    BY <2>1 DEF Relabelled, CallRow, OneAnalysisOf
  <2>2. row = now \/ \E l, confidence : row = Relabelled(now, l, confidence)
    BY <1>2 DEF Diarised
  <2>. QED  BY <2>1, <2>2
<1>3. CASE row \in Redacted(now, seen)
  BY <1>3 DEF Redacted, CallRow, OneAnalysisOf
<1>4. CASE row \in Classified(now, seen)
  <2>1. ASSUME NEW customerIsRep, NEW sales,
               row = SetAside(Swapped(now, seen, customerIsRep), sales)
        PROVE  Goal
    <3>1. LET r == Swapped(now, seen, customerIsRep)
          IN  /\ r.scored = now.scored /\ r.scores = now.scores
              /\ r.tagged = now.tagged /\ r.status = now.status
      BY DEF Swapped, CallRow
    <3>2. Swapped(now, seen, customerIsRep) \in CallRow
      <4>1. FlipSegments(now.transcripts) \in Seq(Transcript)
        BY RowTypes, SegmentsTypes
      <4>. QED  BY <4>1 DEF Swapped, CallRow
    <3>. QED  BY <2>1, <3>1, <3>2 DEF SetAside, CallRow, OneAnalysisOf
  <2>2. \/ row = now
        \/ \E customerIsRep, sales : row = SetAside(Swapped(now, seen, customerIsRep), sales)
    BY <1>4 DEF Classified
  <2>. QED  BY <2>1, <2>2
<1>5. CASE row \in Analysed(now, seen)
  <2>1. ASSUME NEW answer \in [scores : AnalysisResults, issues : SUBSET {"analyse"}],
               ~now.scored,
               row = [now EXCEPT !.scores = @ \o answer.scores, !.tagged = @ \cup answer.issues,
                                 !.scored = TRUE]
        PROVE  Goal
    <3>1. row.scored /\ row.status = now.status /\ now.tagged \subseteq row.tagged
      BY <2>1 DEF CallRow
    <3>2. row.scores = now.scores \o answer.scores
      BY <2>1 DEF CallRow
    <3>3. now.scores = <<>> => row.scores \in AnalysisResults
      BY <3>2, PipelineAssumption, ConcatEmptySeq
    <3>. QED  BY <2>1, <3>1, <3>3 DEF OneAnalysisOf
  <2>2. \/ row = now
        \/ \E answer \in [scores : AnalysisResults, issues : SUBSET {"analyse"}] :
              /\ ~now.scored
              /\ row = [now EXCEPT !.scores = @ \o answer.scores,
                                   !.tagged = @ \cup answer.issues, !.scored = TRUE]
    BY <1>5 DEF Analysed
  <2>. QED  BY <2>1, <2>2
<1>6. CASE row \in Validated(now, seen)
  BY <1>6 DEF Validated, CallRow, OneAnalysisOf, Counted
<1>. QED  BY <1>1, <1>2, <1>3, <1>4, <1>5, <1>6, OutcomeCases

\* Only a commit changes a call.
LEMMA CallStep ==
    ASSUME PipelineTypeOK, [PipelineNext]_pipelineVars
    PROVE  call' = call \/ \E w \in Workers : StageCommit(w)
BY DEF PipelineNext, Read, StageRollback, WorkerCrash, pipelineVars

\* The scores of the calls are those of one answer each.
LEMMA OneAnalysisStep ==
    ASSUME PipelineTypeOK, OneAnalysis, [PipelineNext]_pipelineVars
    PROVE  OneAnalysis'
<1>1. CASE call' = call
  BY <1>1 DEF OneAnalysis
<1>2. ASSUME NEW w \in Workers, StageCommit(w) PROVE OneAnalysis'
  <2>. DEFINE c == claim[w].job[1]
              s == claim[w].job[2]
  <2>1. c \in Calls /\ s \in Stage /\ read[w] \in CallRow /\ call[c] \in CallRow
    BY <1>2, CommitRow DEF PipelineTypeOK
  <2>2. PICK row \in Outcomes(s, call[c], read[w]) : call' = [call EXCEPT ![c] = row]
    BY <1>2, CommitRow
  <2>3. OneAnalysisOf(call[c]) => OneAnalysisOf(row)
    BY <2>1, OutcomeScores
  <2>4. \A d \in Calls : call'[d] = IF d = c THEN row ELSE call[d]
    BY <2>2 DEF PipelineTypeOK
  <2>. QED  BY <2>1, <2>3, <2>4 DEF OneAnalysis, OneAnalysisOf
<1>. QED  BY <1>1, <1>2, CallStep

\* However many workers analyse a call, it has the scores of one LLM answer and the
\* composite that goes with them, or neither (analyse.py, run).
THEOREM OneAnalysisHolds == PipelineSpec => []OneAnalysis
<1>1. PipelineInit => OneAnalysis
  BY DEF PipelineInit, OneAnalysis
<1>2. PipelineTypeOK /\ OneAnalysis /\ [PipelineNext]_pipelineVars => OneAnalysis'
  BY OneAnalysisStep
<1>. QED  BY <1>1, <1>2, PipelineTypeCorrect, PTL DEF PipelineSpec

\* The steps that touch no call take no claim from a worker in a stage.
LEMMA QueueStepKeepsClaims ==
    ASSUME TypeOK, QueueStep, NEW v \in Workers, pc[v] = "stage"
    PROVE  claim'[v] = claim[v]
<1>1. ASSUME NEW w \in Workers, NEW j \in Jobs, Claim(w, j) PROVE claim'[v] = claim[v]
  BY <1>1 DEF Claim, TypeOK
<1>2. ASSUME NEW w \in Workers, Fail(w) PROVE claim'[v] = claim[v]
  BY <1>2 DEF Fail, Release, TypeOK
<1>3. CASE \/ \E c \in Calls : Admit(c)
           \/ \E w \in Workers : Restart(w)
           \/ \E j \in Jobs : BackoffElapses(j) \/ LeaseExpires(j)
           \/ \E o \in Operators, j \in Jobs : RequeueCheck(o, j)
           \/ \E o \in Operators : RequeueUpdate(o)
  BY <1>3 DEF Admit, Restart, BackoffElapses, LeaseExpires, RequeueCheck, RequeueUpdate,
              workers
<1>. QED  BY <1>1, <1>2, <1>3 DEF QueueStep

LEMMA SeenScoresStep ==
    ASSUME PipelineTypeOK, PipelineTypeOK', SeenScoresInv, [PipelineNext]_pipelineVars
    PROVE  SeenScoresInv'
<1>. SUFFICES ASSUME NEW v \in Workers, read'[v] # NotRead, read'[v].scored
              PROVE  /\ call'[claim'[v].job[1]].scored
                     /\ call'[claim'[v].job[1]].scores = read'[v].scores
  BY DEF SeenScoresInv
<1>1. pc'[v] = "stage"
  BY DEF PipelineTypeOK
<1>2. CASE QueueStep /\ UNCHANGED <<call, read>>
  <2>1. pc[v] = "stage"
    BY <1>2 DEF PipelineTypeOK
  <2>2. claim'[v] = claim[v]
    BY <1>2, <2>1, QueueStepKeepsClaims DEF PipelineTypeOK
  <2>. QED  BY <1>2, <2>2 DEF SeenScoresInv
<1>3. ASSUME NEW w \in Workers, Read(w)
      PROVE  /\ call'[claim'[v].job[1]].scored
             /\ call'[claim'[v].job[1]].scores = read'[v].scores
  <2>1. /\ call' = call /\ claim' = claim
        /\ read' = [read EXCEPT ![w] = call[claim[w].job[1]]]
    BY <1>3 DEF Read, vars, workers
  <2>. QED  BY <2>1 DEF SeenScoresInv, PipelineTypeOK
<1>4. ASSUME NEW w \in Workers, StageCommit(w)
      PROVE  /\ call'[claim'[v].job[1]].scored
             /\ call'[claim'[v].job[1]].scores = read'[v].scores
  <2>. DEFINE c == claim[w].job[1]
              s == claim[w].job[2]
  <2>1. c \in Calls /\ s \in Stage /\ read[w] \in CallRow /\ call[c] \in CallRow
    BY <1>4, CommitRow DEF PipelineTypeOK
  <2>2. PICK row \in Outcomes(s, call[c], read[w]) : call' = [call EXCEPT ![c] = row]
    BY <1>4, CommitRow
  <2>3. v # w /\ read'[v] = read[v]
    BY <1>4 DEF StageCommit, PipelineTypeOK
  <2>4. claim'[v] = claim[v]
    BY <1>4, <2>3 DEF StageCommit, Complete, Release, PipelineTypeOK, TypeOK
  <2>5. claim[v].job[1] \in Calls
    <3>1. pc[v] = "stage"
      BY <2>3 DEF PipelineTypeOK
    <3>. QED  BY <3>1, StageJob DEF PipelineTypeOK
  <2>6. /\ call[claim[v].job[1]].scored
        /\ call[claim[v].job[1]].scores = read[v].scores
    BY <2>3 DEF SeenScoresInv
  <2>7. call[c].scored => row.scored /\ row.scores = call[c].scores
    BY <2>1, OutcomeScores
  <2>8. \A d \in Calls : call'[d] = IF d = c THEN row ELSE call[d]
    BY <2>2 DEF PipelineTypeOK
  <2>. QED  BY <2>3, <2>4, <2>5, <2>6, <2>7, <2>8
<1>5. ASSUME NEW w \in Workers, StageRollback(w) \/ WorkerCrash(w)
      PROVE  /\ call'[claim'[v].job[1]].scored
             /\ call'[claim'[v].job[1]].scores = read'[v].scores
  <2>1. call' = call /\ read' = [read EXCEPT ![w] = NotRead]
    BY <1>5 DEF StageRollback, WorkerCrash
  <2>2. v # w /\ read'[v] = read[v]
    BY <2>1 DEF PipelineTypeOK
  <2>3. claim'[v] = claim[v]
    BY <1>5, <2>2 DEF StageRollback, WorkerCrash, StageError, Crash, Release,
                      PipelineTypeOK, TypeOK
  <2>. QED  BY <2>1, <2>2, <2>3 DEF SeenScoresInv
<1>6. CASE UNCHANGED pipelineVars
  BY <1>6 DEF pipelineVars, vars, workers, SeenScoresInv
<1>. QED  BY <1>2, <1>3, <1>4, <1>5, <1>6 DEF PipelineNext

\* Before anybody asks for its dimensions, a done call has as many scores as there are.
DoneIsCounted ==
    \A c \in Calls :
        call[c].status = "done" => "classify" \in call[c].tagged \/ Counted(call[c])

LEMMA DoneIsCountedStep ==
    ASSUME PipelineTypeOK, SeenScoresInv, DoneIsCounted, [PipelineNext]_pipelineVars
    PROVE  DoneIsCounted'
<1>1. CASE call' = call
  BY <1>1 DEF DoneIsCounted, Counted
<1>2. ASSUME NEW w \in Workers, StageCommit(w) PROVE DoneIsCounted'
  <2>. DEFINE c == claim[w].job[1]
              s == claim[w].job[2]
  <2>1. /\ c \in Calls /\ s \in Stage /\ read[w] \in CallRow /\ call[c] \in CallRow
        /\ read[w] # NotRead
    BY <1>2, CommitRow DEF PipelineTypeOK, StageCommit
  <2>2. PICK row \in Outcomes(s, call[c], read[w]) : call' = [call EXCEPT ![c] = row]
    BY <1>2, CommitRow
  <2>3. /\ call[c].scored => row.scored /\ row.scores = call[c].scores
        /\ call[c].tagged \subseteq row.tagged
        /\ row.status = "done" => \/ call[c].status = "done"
                                  \/ "classify" \in row.tagged
                                  \/ Counted(read[w])
    BY <2>1, OutcomeScores
  <2>4. Counted(read[w]) => Counted(call[c])
    BY <2>1 DEF SeenScoresInv, Counted
  <2>5. call[c].status = "done" => "classify" \in call[c].tagged \/ Counted(call[c])
    BY <2>1 DEF DoneIsCounted
  <2>6. row.status = "done" => "classify" \in row.tagged \/ Counted(row)
    BY <2>3, <2>4, <2>5 DEF Counted
  <2>7. \A d \in Calls : call'[d] = IF d = c THEN row ELSE call[d]
    BY <2>2 DEF PipelineTypeOK
  <2>. QED  BY <2>1, <2>6, <2>7 DEF DoneIsCounted, Counted
<1>. QED  BY <1>1, <1>2, CallStep

\* As many scores as dimensions, and none twice: every dimension has one.
LEMMA CountedIsEvery ==
    ASSUME NEW scores \in Seq(Dimensions), Len(scores) = Cardinality(Dimensions),
           \A i, k \in DOMAIN scores : scores[i] = scores[k] => i = k,
           NEW d \in Dimensions
    PROVE  \E i \in DOMAIN scores : scores[i] = d
<1>. DEFINE n == Len(scores)
            Numbers == 1..n
            Scored == {scores[i] : i \in Numbers}
<1>1. n \in Nat /\ DOMAIN scores = Numbers /\ scores \in [Numbers -> Dimensions]
  BY LenProperties
<1>2. IsFiniteSet(Numbers) /\ Cardinality(Numbers) = n
  BY <1>1, FS_Interval
<1>3. Scored \subseteq Dimensions
  BY <1>1
<1>4. scores \in Surjection(Numbers, Scored)
  BY <1>1 DEF Surjection
<1>5. scores \in Bijection(Numbers, Scored)
  BY <1>1, <1>4 DEF Bijection, Injection, IsInjective, Surjection
<1>6. Cardinality(Scored) = n
  <2>1. ExistsBijection(Numbers, Scored)
    BY <1>5 DEF ExistsBijection
  <2>. HIDE DEF Numbers, Scored
  <2>. QED  BY <2>1, <1>2, FS_Bijection
<1>7. Scored = Dimensions
  BY <1>3, <1>6, PipelineAssumption, FS_Subset
<1>. QED  BY <1>1, <1>7

LEMMA CountedIsScored ==
    ASSUME PipelineTypeOK, NoneRepeated, OneAnalysis, DoneIsCounted
    PROVE  DoneIsScored
<1>. SUFFICES ASSUME NEW c \in Calls, Counted(call[c]), NEW d \in Dimensions
              PROVE  \E i \in DOMAIN call[c].scores : call[c].scores[i] = d
  BY DEF DoneIsScored, DoneIsCounted, Counted
<1>1. call[c].scores \in AnalysisResults
  BY DEF OneAnalysis, Counted
<1>2. call[c].scores \in Seq(Dimensions)
  BY <1>1, PipelineAssumption
<1>3. \A i, k \in DOMAIN call[c].scores : call[c].scores[i] = call[c].scores[k] => i = k
  BY <1>1 DEF NoneRepeated
<1>. QED  BY <1>2, <1>3, CountedIsEvery DEF Counted

\* If the LLM scores no dimension twice in one answer, a call shown as done is set
\* aside or has a composite and a score for every dimension, also when two workers run
\* its stages at once (validate.py, run; classify.py, run).
THEOREM DoneIsScoredHolds == NoneRepeated /\ PipelineSpec => []DoneIsScored
<1>1. PipelineInit => SeenScoresInv /\ DoneIsCounted
  BY DEF PipelineInit, SeenScoresInv, DoneIsCounted
<1>2. PipelineTypeOK /\ PipelineTypeOK' /\ SeenScoresInv /\ DoneIsCounted
      /\ [PipelineNext]_pipelineVars => SeenScoresInv' /\ DoneIsCounted'
  BY SeenScoresStep, DoneIsCountedStep
<1>3. CASE NoneRepeated
  <2>1. PipelineTypeOK /\ OneAnalysis /\ DoneIsCounted => DoneIsScored
    BY <1>3, CountedIsScored
  <2>. QED  BY <1>1, <1>2, <2>1, PipelineTypeCorrect, OneAnalysisHolds, PTL DEF PipelineSpec
<1>4. CASE ~NoneRepeated
  BY <1>4
<1>. QED  BY <1>3, <1>4

-------------------------------------------------------------------------------
(***************************************************************************)
(* What the stages leave of a call while every job has one owner: as long  *)
(* as no lease runs out under a live worker and one operator requeues at a *)
(* time (Calm), whatever workers crash and whatever stages raise.          *)
(***************************************************************************)

Final(row) == row.status \in {"done", "needs_review"}

\* The jobs of a call, by stage.
Progress(c) == [s \in Stage |-> status[<<c, s>>]]

\* ... and after a step.
After(c) == [s \in Stage |-> status'[<<c, s>>]]

\* The row of a call is as far as the jobs of the call that are done.
Fits(row, jobs) ==
    /\ Len(row.transcripts) <= 1
    /\ jobs[TRANSCRIBE] # "done" => row.transcripts = <<>>
    /\ row.confidence # "given"
    /\ \A i \in DOMAIN row.transcripts :
          /\ row.transcripts[i].speaker = IF jobs[DIARISE] # "done" THEN "unlabelled"
                                          ELSE IF row.swapped THEN "flipped" ELSE "opener"
          /\ jobs[REDACT] = "done" => row.transcripts[i].redacted
    /\ jobs[CLASSIFY] # "done" => ~row.swapped /\ row.tagged = {}
    /\ jobs[ANALYSE] # "done" => ~row.scored
    /\ "classify" \in row.tagged => jobs[CLASSIFY] = "done" /\ jobs[ANALYSE] = "absent"
    /\ jobs[CLASSIFY] = "done" /\ jobs[ANALYSE] = "absent" => row.status = "done"
    /\ jobs[VALIDATE] = "done" => Final(row)
    /\ Final(row) => jobs[VALIDATE] = "done" \/ "classify" \in row.tagged

RowsInv == \A c \in Calls : Fits(call[c], Progress(c))

\* What a stage has read of its call is still what the call is.
ReadInv == \A w \in Workers : read[w] # NotRead => read[w] = call[claim[w].job[1]]

CalmInv == RowsInv /\ ReadInv

\* The numbers of the stages.
LEMMA Stages ==
    /\ Stage = 1..6
    /\ TRANSCRIBE = 1 /\ DIARISE = 2 /\ REDACT = 3
    /\ CLASSIFY = 4 /\ ANALYSE = 5 /\ VALIDATE = 6
BY PipelineAssumption DEF Stage, TRANSCRIBE, DIARISE, REDACT, CLASSIFY, ANALYSE, VALIDATE

-------------------------------------------------------------------------------
(***************************************************************************)
(* A stage that runs alone takes a call one stage further.                 *)
(***************************************************************************)

\* The jobs of a call before and after the commit of stage s, which leaves row.
Advances(s, row, before, after) ==
    /\ \A t \in Stage : t < s => before[t] = "done" /\ after[t] = "done"
    /\ before[s] = "running" /\ after[s] = "done"
    /\ \A t \in Stage : t > s =>
          /\ before[t] = "absent"
          /\ after[t] = IF t = NextStage(s, row) THEN "pending" ELSE "absent"

LEMMA FitsAdvances ==
    ASSUME NEW s \in Stage, NEW now \in CallRow, NEW before, NEW after,
           NEW row \in Outcomes(s, now, now),
           Fits(now, before), Advances(s, row, before, after)
    PROVE  Fits(row, after)
<1>. USE Stages
<1>0. /\ now.transcripts \in Seq(Transcript)
      /\ DOMAIN now.transcripts = 1..Len(now.transcripts)
      /\ Len(now.transcripts) \in Nat
      /\ \A i \in DOMAIN now.transcripts : now.transcripts[i] \in Transcript
  BY RowTypes, LenProperties
<1>1. CASE s = TRANSCRIBE /\ row \in Transcribed(now, now)
  <2>. DEFINE new == [speaker |-> "unlabelled", redacted |-> FALSE]
  <2>1. /\ before[1] = "running" /\ \A t \in 2..6 : before[t] = "absent"
        /\ after[1] = "done" /\ \A t \in 2..6 : after[t] \in {"pending", "absent"}
    BY <1>1 DEF Advances
  <2>2. now.transcripts = <<>>
    BY <2>1 DEF Fits
  <2>3. row = [now EXCEPT !.status = "processing", !.transcripts = Append(<<>>, new)]
    BY <1>1, <2>2 DEF Transcribed, CallRow
  <2>4. new \in Transcript /\ new.speaker = "unlabelled"
    BY DEF Transcript
  <2>5. /\ Append(<<>>, new) \in Seq(Transcript)
        /\ Len(Append(<<>>, new)) = 1 /\ Append(<<>>, new)[1] = new
    <3>1. <<>> \in Seq(Transcript) /\ Len(<<>>) = 0
      BY EmptySeq
    <3>. QED  BY <2>4, <3>1, AppendProperties
  <2>6. DOMAIN Append(<<>>, new) = 1..1
    BY <2>5, LenProperties
  <2>. HIDE DEF new
  <2>7. /\ row.transcripts = Append(<<>>, new) /\ row.status = "processing"
        /\ row.confidence = now.confidence /\ row.swapped = now.swapped
        /\ row.tagged = now.tagged /\ row.scored = now.scored
    BY <2>3 DEF CallRow
  <2>. QED  BY <2>1, <2>4, <2>5, <2>6, <2>7 DEF Fits, Final
<1>2. CASE s = DIARISE /\ row \in Diarised(now, now)
  <2>1. /\ before[1] = "done" /\ before[2] = "running" /\ \A t \in 3..6 : before[t] = "absent"
        /\ after[1] = "done" /\ after[2] = "done"
        /\ \A t \in 3..6 : after[t] \in {"pending", "absent"}
    BY <1>2 DEF Advances
  <2>2. \A i \in DOMAIN now.transcripts : now.transcripts[i].speaker = "unlabelled"
    BY <2>1 DEF Fits
  <2>3. \/ row = now /\ DOMAIN now.transcripts = {}
        \/ row = Relabelled(now, "opener", "measured")
    BY <1>2, <2>2 DEF Diarised
  <2>4. ~now.swapped
    BY <2>1 DEF Fits
  <2>5. CASE row = now /\ DOMAIN now.transcripts = {}
    BY <2>1, <2>5 DEF Fits, Final
  <2>6. CASE row = Relabelled(now, "opener", "measured")
    <3>. DEFINE us == [i \in DOMAIN now.transcripts |->
                          [now.transcripts[i] EXCEPT !.speaker = "opener"]]
    <3>1. us \in Seq(Transcript) /\ DOMAIN us = DOMAIN now.transcripts
      BY <1>0, SegmentsTypes DEF Label
    <3>2. Len(us) = Len(now.transcripts)
      BY <1>0, <3>1, LenProperties
    <3>3. \A i \in DOMAIN us : us[i].speaker = "opener"
      BY <1>0 DEF Transcript
    <3>4. /\ row.transcripts = us /\ row.confidence = "measured"
          /\ row.status = now.status /\ row.swapped = now.swapped
          /\ row.tagged = now.tagged /\ row.scored = now.scored
      BY <2>6 DEF Relabelled, CallRow
    <3>. HIDE DEF us
    <3>. QED  BY <2>1, <2>4, <3>2, <3>3, <3>4 DEF Fits, Final
  <2>. QED  BY <2>3, <2>5, <2>6
<1>3. CASE s = REDACT /\ row \in Redacted(now, now)
  <2>1. /\ before[1] = "done" /\ before[2] = "done" /\ before[3] = "running"
        /\ \A t \in 4..6 : before[t] = "absent"
        /\ \A t \in 1..3 : after[t] = "done"
        /\ \A t \in 4..6 : after[t] \in {"pending", "absent"}
    BY <1>3 DEF Advances
  <2>. DEFINE us == MaskSegments(now.transcripts, DOMAIN now.transcripts)
  <2>2. us \in Seq(Transcript) /\ DOMAIN us = DOMAIN now.transcripts
    BY <1>0, SegmentsTypes DEF MaskSegments
  <2>3. Len(us) = Len(now.transcripts)
    BY <1>0, <2>2, LenProperties
  <2>4. \A i \in DOMAIN us : us[i].speaker = now.transcripts[i].speaker /\ us[i].redacted
    BY <1>0 DEF Transcript, MaskSegments
  <2>5. /\ row.transcripts = us /\ row.confidence = now.confidence
        /\ row.status = now.status /\ row.swapped = now.swapped
        /\ row.tagged = now.tagged /\ row.scored = now.scored
    BY <1>3 DEF Redacted, CallRow
  <2>. HIDE DEF us
  <2>. QED  BY <2>1, <2>2, <2>3, <2>4, <2>5 DEF Fits, Final
<1>4. CASE s = CLASSIFY /\ row \in Classified(now, now)
  <2>1. /\ \A t \in 1..3 : before[t] = "done"
        /\ before[4] = "running" /\ before[5] = "absent" /\ before[6] = "absent"
        /\ \A t \in 1..4 : after[t] = "done"
        /\ after[5] = (IF NextStage(s, row) = 5 THEN "pending" ELSE "absent")
        /\ after[6] \in {"pending", "absent"}
    BY <1>4 DEF Advances
  <2>2. ~now.swapped /\ now.tagged = {} /\ ~now.scored /\ ~Final(now)
    BY <2>1 DEF Fits
  <2>3. PICK customerIsRep \in BOOLEAN, sales \in BOOLEAN :
          row = SetAside(Swapped(now, now, customerIsRep), sales)
    <3>1. \E answer \in [customerIsRep : BOOLEAN, sales : BOOLEAN] :
            row = SetAside(Swapped(now, now, answer.customerIsRep), answer.sales)
      BY <1>4, <2>2 DEF Classified
    <3>. QED  BY <3>1
  <2>. DEFINE r == Swapped(now, now, customerIsRep)
  <2>4. r \in CallRow
    <3>1. FlipSegments(now.transcripts) \in Seq(Transcript)
      BY <1>0, SegmentsTypes
    <3>. QED  BY <3>1 DEF Swapped, CallRow
  <2>5. /\ r.confidence = now.confidence /\ r.status = now.status
        /\ r.tagged = now.tagged /\ r.scored = now.scored
    BY DEF Swapped, CallRow
  <2>6. /\ Len(r.transcripts) = Len(now.transcripts)
        /\ \A i \in DOMAIN r.transcripts :
              /\ r.transcripts[i].speaker = IF r.swapped THEN "flipped" ELSE "opener"
              /\ r.transcripts[i].redacted
    <3>1. \A i \in DOMAIN now.transcripts :
            now.transcripts[i].speaker = "opener" /\ now.transcripts[i].redacted
      BY <2>1, <2>2 DEF Fits
    <3>2. CASE r = now
      BY <2>2, <3>1, <3>2
    <3>3. CASE r # now
      <4>. DEFINE us == FlipSegments(now.transcripts)
      <4>1. us \in Seq(Transcript) /\ DOMAIN us = DOMAIN now.transcripts
        BY <1>0, SegmentsTypes DEF FlipSegments
      <4>2. Len(us) = Len(now.transcripts)
        BY <1>0, <4>1, LenProperties
      <4>3. \A i \in DOMAIN us : us[i].speaker = "flipped" /\ us[i].redacted
        BY <1>0, <3>1 DEF Transcript, FlipSegments, Flip
      <4>4. r.transcripts = us /\ r.swapped
        BY <2>2, <3>3 DEF Swapped, CallRow
      <4>. HIDE DEF us, r
      <4>. QED  BY <4>2, <4>3, <4>4
    <3>. QED  BY <3>2, <3>3
  <2>. HIDE DEF r
  <2>7. /\ row.transcripts = r.transcripts /\ row.swapped = r.swapped
        /\ row.confidence = r.confidence /\ row.scored = r.scored
        /\ IF sales THEN row.status = r.status /\ row.tagged = r.tagged
           ELSE row.status = "done" /\ row.tagged = r.tagged \cup {"classify"}
    BY <2>3, <2>4 DEF r, SetAside, CallRow
  <2>8. NextStage(s, row) = IF row.status = "done" THEN 0 ELSE 5
    BY <1>4, PipelineAssumption DEF NextStage
  <2>. QED  BY <2>1, <2>2, <2>5, <2>6, <2>7, <2>8 DEF Fits, Final
<1>5. CASE s = ANALYSE /\ row \in Analysed(now, now)
  <2>1. /\ \A t \in 1..4 : before[t] = "done"
        /\ before[5] = "running" /\ before[6] = "absent"
        /\ \A t \in 1..5 : after[t] = "done" /\ after[6] \in {"pending", "absent"}
    BY <1>5 DEF Advances
  <2>2. "classify" \notin now.tagged /\ ~Final(now) /\ ~now.scored
    BY <2>1 DEF Fits
  <2>3. PICK answer \in [scores : AnalysisResults, issues : SUBSET {"analyse"}] :
          row = [now EXCEPT !.scores = @ \o answer.scores, !.tagged = @ \cup answer.issues,
                            !.scored = TRUE]
    BY <1>5, <2>2 DEF Analysed
  <2>4. /\ row.transcripts = now.transcripts /\ row.confidence = now.confidence
        /\ row.status = now.status /\ row.swapped = now.swapped
        /\ "classify" \notin row.tagged
    BY <2>2, <2>3 DEF CallRow
  <2>. QED  BY <2>1, <2>2, <2>4 DEF Fits, Final
<1>6. CASE s = VALIDATE /\ row \in Validated(now, now)
  <2>1. /\ \A t \in 1..5 : before[t] = "done"
        /\ before[6] = "running"
        /\ \A t \in 1..6 : after[t] = "done"
    BY <1>6 DEF Advances
  <2>2. "classify" \notin now.tagged
    BY <2>1 DEF Fits
  <2>3. /\ row.transcripts = now.transcripts /\ row.confidence = now.confidence
        /\ row.swapped = now.swapped /\ row.tagged = now.tagged /\ row.scored = now.scored
        /\ Final(row)
    BY <1>6 DEF Validated, CallRow, Final
  <2>. QED  BY <2>1, <2>2, <2>3 DEF Fits
<1>. QED  BY <1>1, <1>2, <1>3, <1>4, <1>5, <1>6, OutcomeCases

-------------------------------------------------------------------------------
(***************************************************************************)
(* The steps.                                                              *)
(***************************************************************************)

QueueInv == TypeOK /\ UnbornInv /\ SoleInv

\* Two workers never run stages of the same call.
LEMMA OneWorkerPerCall ==
    ASSUME QueueInv, NEW v \in Workers, NEW w \in Workers,
           pc[v] = "stage", pc[w] = "stage", claim[v].job[1] = claim[w].job[1]
    PROVE  v = w
<1>. DEFINE c == claim[w].job[1]
            s == claim[v].job[2]
            t == claim[w].job[2]
<1>1. /\ claim[v].job \in Jobs /\ claim[v].job = <<c, s>> /\ c \in Calls /\ s \in Stage
      /\ claim[w].job \in Jobs /\ claim[w].job = <<c, t>> /\ t \in Stage
  BY StageJob DEF QueueInv
<1>2. status[<<c, s>>] = "running" /\ status[<<c, t>>] = "running"
  BY <1>1 DEF QueueInv, SoleInv, OwnerInv
<1>3. ~(s < t) /\ ~(t < s)
  BY <1>1, <1>2 DEF QueueInv, SoleInv, DonePrefixInv
<1>4. s = t
  BY <1>1, <1>3 DEF Stage
<1>. QED  BY <1>1, <1>4 DEF QueueInv, SoleInv, OwnerInv

\* A commit takes its call one stage further and leaves the jobs of the others alone.
LEMMA CommitAdvances ==
    ASSUME QueueInv, PipelineTypeOK, NEW w \in Workers, StageCommit(w)
    PROVE  LET c == claim[w].job[1]
               s == claim[w].job[2]
           IN  \E row \in Outcomes(s, call[c], read[w]) :
                  /\ call' = [call EXCEPT ![c] = row]
                  /\ Advances(s, row, Progress(c), After(c))
                  /\ \A d \in Calls : d # c => After(d) = Progress(d)
<1>. DEFINE c == claim[w].job[1]
            s == claim[w].job[2]
<1>1. /\ pc[w] = "stage" /\ c \in Calls /\ s \in Stage
      /\ claim[w].job = <<c, s>> /\ <<c, s>> \in Jobs
  BY CommitRow DEF Jobs
<1>2. PICK row \in Outcomes(s, call[c], read[w]) :
        call' = [call EXCEPT ![c] = row] /\ Complete(w, NextStage(s, row))
  BY CommitRow
<1>. DEFINE n == NextStage(s, row)
<1>3. status[<<c, s>>] = "running"
  BY <1>1 DEF QueueInv, SoleInv, OwnerInv
<1>4. ASSUME NEW t \in Stage, t < s PROVE status[<<c, t>>] = "done"
  BY <1>1, <1>3, <1>4 DEF QueueInv, SoleInv, DonePrefixInv
<1>5. ASSUME NEW t \in Stage, t > s PROVE status[<<c, t>>] = "absent"
  BY <1>1, <1>3, <1>5 DEF QueueInv, SoleInv, DonePrefixInv
<1>6. \A j \in Jobs : status'[j] = IF j = <<c, n>> /\ status[j] = "absent" THEN "pending"
                                   ELSE IF j = <<c, s>> THEN "done" ELSE status[j]
  BY <1>1, <1>2 DEF Complete, NewRows
<1>7. \A d \in Calls, t \in Stage : <<d, t>> \in Jobs
  BY DEF Jobs
<1>8. \A d \in Calls, t \in Stage :
        Progress(d)[t] = status[<<d, t>>] /\ After(d)[t] = status'[<<d, t>>]
  BY DEF Progress, After
<1>. HIDE DEF c, s, n
<1>9. Advances(s, row, Progress(c), After(c))
  <2>1. ASSUME NEW t \in Stage, t < s
        PROVE  Progress(c)[t] = "done" /\ After(c)[t] = "done"
    <3>1. status'[<<c, t>>] = "done"
      BY <1>1, <1>4, <1>6, <1>7, <2>1
    <3>. QED  BY <1>1, <1>4, <1>8, <2>1, <3>1
  <2>2. Progress(c)[s] = "running" /\ After(c)[s] = "done"
    BY <1>1, <1>3, <1>6, <1>8
  <2>3. ASSUME NEW t \in Stage, t > s
        PROVE  /\ Progress(c)[t] = "absent"
               /\ After(c)[t] = IF t = n THEN "pending" ELSE "absent"
    <3>1. status'[<<c, t>>] = IF t = n THEN "pending" ELSE "absent"
      <4>1. t # s
        BY <1>1, <2>3 DEF Stage
      <4>. QED  BY <1>1, <1>5, <1>6, <1>7, <2>3, <4>1
    <3>. QED  BY <1>1, <1>5, <1>8, <2>3, <3>1
  <2>. QED  BY <2>1, <2>2, <2>3 DEF Advances, n
<1>10. ASSUME NEW d \in Calls, d # c PROVE After(d) = Progress(d)
  <2>1. \A t \in Stage : status'[<<d, t>>] = status[<<d, t>>]
    BY <1>6, <1>7, <1>10
  <2>. QED  BY <2>1 DEF Progress, After
<1>. QED  BY <1>2, <1>9, <1>10 DEF c, s, n

\* No other step completes a job, or opens one past the first stage.
LEMMA OtherStepsKeepProgress ==
    ASSUME QueueInv, PipelineTypeOK, [PipelineNext]_pipelineVars,
           \A w \in Workers : ~StageCommit(w), NEW c \in Calls
    PROVE  \A s \in Stage :
              /\ After(c)[s] = "done" <=> Progress(c)[s] = "done"
              /\ s # TRANSCRIBE => (After(c)[s] = "absent" <=> Progress(c)[s] = "absent")
<1>. DEFINE Kept(j) == /\ status'[j] = "done" <=> status[j] = "done"
                       /\ j[2] # 1 => (status'[j] = "absent" <=> status[j] = "absent")
<1>. USE DEF QueueInv, TypeOK
<1>1. \A j \in Jobs : Kept(j)
  <2>1. ASSUME NEW d \in Calls, Admit(d), NEW j \in Jobs PROVE Kept(j)
    BY <2>1 DEF Admit
  <2>2. ASSUME NEW w \in Workers, NEW k \in Jobs, Claim(w, k), NEW j \in Jobs PROVE Kept(j)
    BY <2>2 DEF Claim, Due
  <2>3. ASSUME NEW w \in Workers, Fail(w), NEW j \in Jobs PROVE Kept(j)
    BY <2>3 DEF Fail, SoleInv, OwnerInv
  <2>4. ASSUME NEW o \in Operators, RequeueUpdate(o), NEW j \in Jobs PROVE Kept(j)
    BY <2>4 DEF RequeueUpdate, SoleInv, RequeueInv
  <2>5. CASE \/ \E w \in Workers : Restart(w)
             \/ \E j \in Jobs : BackoffElapses(j) \/ LeaseExpires(j)
             \/ \E o \in Operators, j \in Jobs : RequeueCheck(o, j)
             \/ \E w \in Workers : Read(w) \/ StageRollback(w) \/ WorkerCrash(w)
             \/ UNCHANGED pipelineVars
    BY <2>5 DEF Restart, BackoffElapses, LeaseExpires, RequeueCheck, Read, StageRollback,
                StageError, WorkerCrash, Crash, pipelineVars, vars, table
  <2>. HIDE DEF Kept
  <2>. QED  BY <2>1, <2>2, <2>3, <2>4, <2>5 DEF PipelineNext, QueueStep
<1>2. \A s \in Stage : <<c, s>> \in Jobs /\ <<c, s>>[2] = s
  BY DEF Jobs
<1>3. \A s \in Stage : /\ Progress(c)[s] = status[<<c, s>>]
                       /\ After(c)[s] = status'[<<c, s>>]
  BY DEF Progress, After
<1>4. ASSUME NEW s \in Stage
      PROVE  /\ After(c)[s] = "done" <=> Progress(c)[s] = "done"
             /\ s # 1 => (After(c)[s] = "absent" <=> Progress(c)[s] = "absent")
  <2>1. Kept(<<c, s>>)
    BY <1>1, <1>2
  <2>. HIDE DEF QueueInv, TypeOK
  <2>. QED  BY <1>2, <1>3, <2>1
<1>. HIDE DEF QueueInv, TypeOK
<1>. QED  BY <1>4 DEF TRANSCRIBE

LEMMA RowsStep ==
    ASSUME QueueInv, PipelineTypeOK, CalmInv, [PipelineNext]_pipelineVars
    PROVE  RowsInv'
<1>1. ASSUME NEW w \in Workers, StageCommit(w) PROVE RowsInv'
  <2>. DEFINE c == claim[w].job[1]
              s == claim[w].job[2]
  <2>1. c \in Calls /\ s \in Stage /\ call[c] \in CallRow /\ read[w] = call[c]
    BY <1>1, CommitRow DEF PipelineTypeOK, StageCommit, CalmInv, ReadInv
  <2>2. PICK row \in Outcomes(s, call[c], read[w]) :
          /\ call' = [call EXCEPT ![c] = row]
          /\ Advances(s, row, Progress(c), After(c))
          /\ \A d \in Calls : d # c => After(d) = Progress(d)
    BY <1>1, CommitAdvances
  <2>3. Fits(call[c], Progress(c))
    BY <2>1 DEF CalmInv, RowsInv
  <2>4. Fits(row, After(c))
    BY <2>1, <2>2, <2>3, FitsAdvances
  <2>5. \A d \in Calls : call'[d] = IF d = c THEN row ELSE call[d]
    BY <2>2 DEF PipelineTypeOK
  <2>6. ASSUME NEW d \in Calls PROVE Fits(call'[d], After(d))
    <3>1. CASE d = c
      BY <2>4, <2>5, <3>1
    <3>2. CASE d # c
      <4>1. call'[d] = call[d] /\ After(d) = Progress(d)
        BY <2>2, <2>5, <3>2
      <4>. QED  BY <4>1 DEF CalmInv, RowsInv
    <3>. QED  BY <3>1, <3>2
  <2>. QED  BY <2>6 DEF RowsInv, Progress, After
<1>2. CASE \A w \in Workers : ~StageCommit(w)
  <2>1. call' = call
    BY <1>2, CallStep
  <2>2. ASSUME NEW c \in Calls PROVE Fits(call[c], After(c))
    <3>1. Fits(call[c], Progress(c))
      BY DEF CalmInv, RowsInv
    <3>2. \A s \in 1..6 :
              /\ After(c)[s] = "done" <=> Progress(c)[s] = "done"
              /\ s # 1 => (After(c)[s] = "absent" <=> Progress(c)[s] = "absent")
      BY <1>2, OtherStepsKeepProgress, Stages
    <3>. QED  BY <3>1, <3>2, Stages DEF Fits
  <2>. QED  BY <2>1, <2>2 DEF RowsInv, Progress, After
<1>. QED  BY <1>1, <1>2

LEMMA ReadStep ==
    ASSUME QueueInv, PipelineTypeOK, PipelineTypeOK', CalmInv, [PipelineNext]_pipelineVars
    PROVE  ReadInv'
<1>. SUFFICES ASSUME NEW v \in Workers, read'[v] # NotRead
              PROVE  read'[v] = call'[claim'[v].job[1]]
  BY DEF ReadInv
<1>1. CASE QueueStep /\ UNCHANGED <<call, read>>
  <2>1. pc[v] = "stage"
    BY <1>1 DEF PipelineTypeOK
  <2>2. claim'[v] = claim[v]
    BY <1>1, <2>1, QueueStepKeepsClaims DEF QueueInv
  <2>. QED  BY <1>1, <2>2 DEF CalmInv, ReadInv
<1>2. ASSUME NEW w \in Workers, Read(w) PROVE read'[v] = call'[claim'[v].job[1]]
  <2>1. /\ call' = call /\ claim' = claim
        /\ read' = [read EXCEPT ![w] = call[claim[w].job[1]]]
    BY <1>2 DEF Read, vars, workers
  <2>. QED  BY <2>1 DEF CalmInv, ReadInv, PipelineTypeOK
<1>3. ASSUME NEW w \in Workers, StageCommit(w) PROVE read'[v] = call'[claim'[v].job[1]]
  <2>1. v # w /\ read'[v] = read[v]
    BY <1>3 DEF StageCommit, PipelineTypeOK
  <2>2. claim'[v] = claim[v]
    BY <1>3, <2>1 DEF StageCommit, Complete, Release, PipelineTypeOK, TypeOK
  <2>3. pc[v] = "stage" /\ pc[w] = "stage" /\ claim[v].job[1] \in Calls
    <3>1. pc[v] = "stage" /\ pc[w] = "stage"
      BY <1>3, <2>1 DEF PipelineTypeOK, StageCommit
    <3>. QED  BY <3>1, StageJob DEF PipelineTypeOK
  <2>4. claim[v].job[1] # claim[w].job[1]
    BY <2>1, <2>3, OneWorkerPerCall
  <2>5. call'[claim[v].job[1]] = call[claim[v].job[1]]
    BY <1>3, <2>3, <2>4, CommitRow DEF PipelineTypeOK
  <2>. QED  BY <2>1, <2>2, <2>5 DEF CalmInv, ReadInv
<1>4. ASSUME NEW w \in Workers, StageRollback(w) \/ WorkerCrash(w)
      PROVE  read'[v] = call'[claim'[v].job[1]]
  <2>1. call' = call /\ read' = [read EXCEPT ![w] = NotRead]
    BY <1>4 DEF StageRollback, WorkerCrash
  <2>2. v # w /\ read'[v] = read[v]
    BY <2>1 DEF PipelineTypeOK
  <2>3. claim'[v] = claim[v]
    BY <1>4, <2>2 DEF StageRollback, WorkerCrash, StageError, Crash, Release,
                      PipelineTypeOK, TypeOK
  <2>. QED  BY <2>1, <2>2, <2>3 DEF CalmInv, ReadInv
<1>5. CASE UNCHANGED pipelineVars
  BY <1>5 DEF pipelineVars, vars, workers, CalmInv, ReadInv
<1>. QED  BY <1>1, <1>2, <1>3, <1>4, <1>5 DEF PipelineNext

-------------------------------------------------------------------------------
(***************************************************************************)
(* The theorems.                                                           *)
(***************************************************************************)

\* Every job of the pipeline has one owner.
THEOREM QueueInvariant == ASSUME Calm PROVE PipelineSpec => []QueueInv
<1>1. OrderInv /\ SoleInv => QueueInv
  BY DEF OrderInv, QueueInv
<1>. QED  BY <1>1, Calm, PipelineImplementsQueue, OrderInvariant, SoleInvariant, PTL

\* What the theorems below rest on is inductive: each call's row is as far as its
\* jobs, and no stage has read a row that has changed since.
THEOREM CalmInvariant == ASSUME Calm PROVE PipelineSpec => []CalmInv
<1>1. PipelineInit => CalmInv
  <2> SUFFICES ASSUME PipelineInit PROVE CalmInv
    OBVIOUS
  <2>1. ASSUME NEW c \in Calls PROVE Fits(call[c], Progress(c))
    <3>1. /\ call[c].transcripts = <<>> /\ Len(<<>>) = 0 /\ DOMAIN <<>> = {}
          /\ call[c].confidence = "none" /\ call[c].status = "received"
          /\ ~call[c].swapped /\ call[c].tagged = {} /\ ~call[c].scored
      BY DEF PipelineInit
    <3>2. \A s \in 1..6 : Progress(c)[s] = "absent"
      BY Stages DEF PipelineInit, Init, Progress, Jobs
    <3>. QED  BY <3>1, <3>2, Stages DEF Fits, Final
  <2>2. ReadInv
    BY DEF PipelineInit, ReadInv
  <2>. QED  BY <2>1, <2>2 DEF CalmInv, RowsInv
<1>2. QueueInv /\ PipelineTypeOK /\ PipelineTypeOK' /\ CalmInv
      /\ [PipelineNext]_pipelineVars => CalmInv'
  BY RowsStep, ReadStep DEF CalmInv
<1>. QED
  BY <1>1, <1>2, Calm, QueueInvariant, PipelineTypeCorrect, PTL DEF PipelineSpec

\* Retries never duplicate output: a call has at most one transcript (transcribe.py,
\* run).
THEOREM OneTranscriptHolds == ASSUME Calm PROVE PipelineSpec => []OneTranscript
<1>1. CalmInv => OneTranscript
  BY DEF CalmInv, RowsInv, Fits, OneTranscript
<1>. QED  BY <1>1, Calm, CalmInvariant, PTL

\* A call that classify has set aside is never scored (classify.py, run; analyse.py,
\* run).
THEOREM NonSalesNeverScoredHolds == ASSUME Calm PROVE PipelineSpec => []NonSalesNeverScored
<1>1. CalmInv => NonSalesNeverScored
  BY Stages DEF CalmInv, RowsInv, Fits, NonSalesNeverScored
<1>. QED  BY <1>1, Calm, CalmInvariant, PTL

\* The labels are those of the diarisation exactly while roles_swapped is unset
\* (classify.py, run; diarise.py, run).
THEOREM RolesMatchSwapHolds == ASSUME Calm PROVE PipelineSpec => []RolesMatchSwap
<1>1. PipelineTypeOK /\ CalmInv => RolesMatchSwap
  <2> SUFFICES ASSUME PipelineTypeOK, CalmInv, NEW c \in Calls,
                      NEW i \in DOMAIN call[c].transcripts,
                      call[c].transcripts[i].speaker # "unlabelled"
               PROVE  call[c].transcripts[i].speaker = "flipped" <=> call[c].swapped
    BY DEF RolesMatchSwap
  <2>1. call[c].swapped \in BOOLEAN
    BY DEF PipelineTypeOK, CallRow
  <2>2. Fits(call[c], Progress(c))
    BY DEF CalmInv, RowsInv
  <2>. QED  BY <2>1, <2>2 DEF Fits
<1>. QED  BY <1>1, Calm, CalmInvariant, PipelineTypeCorrect, PTL

\* The stages that send a call's text to the LLM have it masked and labelled
\* (redact.py; models.py, Segment.redacted_text).
THEOREM LlmSeesOnlyRedactedHolds == ASSUME Calm PROVE PipelineSpec => []LlmSeesOnlyRedacted
<1>1. QueueInv /\ PipelineTypeOK /\ CalmInv => LlmSeesOnlyRedacted
  <2> SUFFICES ASSUME QueueInv, PipelineTypeOK, CalmInv, NEW w \in Workers, AsksLlm(w),
                      NEW i \in DOMAIN read[w].transcripts
               PROVE  /\ read[w].transcripts[i].redacted
                      /\ read[w].transcripts[i].speaker # "unlabelled"
    BY DEF LlmSeesOnlyRedacted
  <2>. DEFINE c == claim[w].job[1]
              s == claim[w].job[2]
  <2>1. /\ claim[w].job \in Jobs /\ claim[w].job = <<c, s>>
        /\ c \in Calls /\ s \in {4, 5} /\ s \in Stage
    BY StageJob, Stages DEF AsksLlm, QueueInv
  <2>2. status[<<c, s>>] = "running"
    BY <2>1 DEF QueueInv, SoleInv, OwnerInv
  <2>3. Progress(c)[2] = "done" /\ Progress(c)[3] = "done"
    <3>1. \A t \in Stage : t < s => status[<<c, t>>] = "done"
      BY <2>1, <2>2 DEF QueueInv, SoleInv, DonePrefixInv
    <3>. HIDE DEF c, s
    <3>2. status[<<c, 2>>] = "done" /\ status[<<c, 3>>] = "done"
      BY <2>1, <3>1, Stages
    <3>. QED  BY <3>2, Stages DEF Progress
  <2>4. read[w] = call[c] /\ Fits(call[c], Progress(c))
    BY <2>1 DEF AsksLlm, CalmInv, ReadInv, RowsInv
  <2>. QED  BY <2>3, <2>4, Stages DEF Fits
<1>. QED  BY <1>1, Calm, QueueInvariant, CalmInvariant, PipelineTypeCorrect, PTL

\* No call shows the confidence 1.0 of labels that a transcriber gave (diarise.py,
\* run).
THEOREM ConfidenceIsMeasuredHolds == ASSUME Calm PROVE PipelineSpec => []ConfidenceIsMeasured
<1>1. CalmInv => ConfidenceIsMeasured
  BY DEF CalmInv, RowsInv, Fits, ConfidenceIsMeasured
<1>. QED  BY <1>1, Calm, CalmInvariant, PTL

\* A call all of whose jobs are done has its verdict (classify.py and validate.py,
\* set_call_status; queue.py, complete).
THEOREM SettledCallHasVerdictHolds ==
    ASSUME Calm PROVE PipelineSpec => []SettledCallHasVerdict
<1>1. NeverStranded /\ CalmInv => SettledCallHasVerdict
  <2> SUFFICES ASSUME NeverStranded, CalmInv, NEW c \in Calls,
                      status[<<c, TRANSCRIBE>>] # "absent",
                      \A s \in Stage : status[<<c, s>>] \in {"absent", "done"}
               PROVE  call[c].status \in {"done", "needs_review"}
    BY DEF SettledCallHasVerdict
  <2>1. \A s \in {1, 2, 3, 5} : status[<<c, s>>] = "done" => status[<<c, s + 1>>] # "absent"
    BY PipelineAssumption, Stages DEF NeverStranded
  <2>2. /\ status[<<c, 4>>] = "done"
        /\ status[<<c, 5>>] = "absent" \/ status[<<c, 6>>] = "done"
    <3>1. status[<<c, 1>>] = "done"
      BY Stages
    <3>2. status[<<c, 2>>] = "done"
      BY <2>1, <3>1, Stages
    <3>3. status[<<c, 3>>] = "done"
      BY <2>1, <3>2, Stages
    <3>4. status[<<c, 4>>] = "done"
      BY <2>1, <3>3, Stages
    <3>. QED  BY <2>1, <3>4, Stages
  <2>3. Fits(call[c], Progress(c)) /\ \A s \in 1..6 : Progress(c)[s] = status[<<c, s>>]
    BY Stages DEF CalmInv, RowsInv, Progress
  <2>. QED  BY <2>2, <2>3, Stages DEF Fits, Final
<1>. QED
  BY <1>1, Calm, PipelineImplementsQueue, NeverStrandedHolds, CalmInvariant, PTL

\* No stage changes the verdict on a call: a commit finds a call that has none
\* (transcribe.py, run; validate.py, run).
THEOREM VerdictIsFinalHolds == ASSUME Calm PROVE PipelineSpec => VerdictIsFinal
<1>1. ASSUME QueueInv, PipelineTypeOK, CalmInv, [PipelineNext]_pipelineVars,
             NEW c \in Calls, call[c].status \in {"done", "needs_review"}
      PROVE  call'[c].status = call[c].status
  <2>1. CASE call' = call
    BY <2>1
  <2>2. ASSUME NEW w \in Workers, StageCommit(w) PROVE claim[w].job[1] # c
    <3>. DEFINE s == claim[w].job[2]
    <3> SUFFICES ASSUME claim[w].job[1] = c PROVE FALSE
      OBVIOUS
    <3>1. s \in Stage
      BY <1>1, <2>2, CommitRow
    <3>2. PICK row : Advances(s, row, Progress(c), After(c))
      BY <1>1, <2>2, CommitAdvances
    <3>3. /\ \A t \in 1..6 : t < s => Progress(c)[t] = "done"
          /\ Progress(c)[s] = "running"
          /\ \A t \in 1..6 : t > s => Progress(c)[t] = "absent"
      BY <3>2, Stages DEF Advances
    <3>4. Fits(call[c], Progress(c)) /\ Final(call[c])
      BY <1>1 DEF CalmInv, RowsInv, Final
    <3>5. s \in 1..6
      BY <3>1, Stages
    <3>6. CASE s \in 1..5
      BY <3>3, <3>4, <3>6, Stages DEF Fits
    <3>7. CASE s = 6
      BY <3>3, <3>4, <3>7, Stages DEF Fits
    <3>. QED  BY <3>5, <3>6, <3>7
  <2>3. ASSUME NEW w \in Workers, StageCommit(w) PROVE call'[c] = call[c]
    <3>1. PICK row : call' = [call EXCEPT ![claim[w].job[1]] = row]
      BY <1>1, <2>3, CommitRow
    <3>. QED  BY <1>1, <2>2, <2>3, <3>1 DEF PipelineTypeOK
  <2>. QED  BY <1>1, <2>1, <2>3, CallStep
<1>2. QueueInv /\ PipelineTypeOK /\ CalmInv /\ [PipelineNext]_pipelineVars
      => [\A c \in Calls : call[c].status \in {"done", "needs_review"}
                           => call'[c].status = call[c].status]_pipelineVars
  BY <1>1
<1>. QED
  BY <1>2, Calm, QueueInvariant, CalmInvariant, PipelineTypeCorrect, PTL
  DEF PipelineSpec, VerdictIsFinal
===============================================================================
