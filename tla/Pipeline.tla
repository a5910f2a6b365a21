------------------------------- MODULE Pipeline -------------------------------
(***************************************************************************)
(* The six stages of pipeline/stages/ run by the workers of JobQueue.tla:  *)
(* what each stage reads of a call, what it writes, and what is left when  *)
(* the queue delivers a stage more than once.                              *)
(*                                                                         *)
(* A stage first reads the committed rows of its call (Read), then spends  *)
(* seconds or minutes in Whisper or an LLM, and commits all its writes     *)
(* with complete (StageCommit).  The database runs at READ COMMITTED, so a *)
(* stage decides on what it read and writes over whatever is committed by  *)
(* then.  A row lock taken early (transcribe updates calls first) only     *)
(* delays the other transaction, which is the same as its commit coming    *)
(* later.                                                                  *)
(*                                                                         *)
(* A transcript stands for its segments: they carry the same kind of label *)
(* and are redacted together.  They have no labels before diarisation, and *)
(* then its labels ("opener": advisor is whoever speaks first or is on the *)
(* left channel) or the opposite ("flipped").  What Whisper and the LLM    *)
(* answer is not modelled: anything, and not twice the same.               *)
(***************************************************************************)
EXTENDS JobQueue, Sequences

CONSTANTS Dimensions,      \* the rubric's dimensions
          AnalysisResults, \* the dimension lists the LLM may return
          NotRead          \* "this stage has not read the call yet"

TRANSCRIBE == 1
DIARISE    == 2
REDACT     == 3
CLASSIFY   == 4
ANALYSE    == 5
VALIDATE   == 6

ASSUME PipelineAssumption ==
    /\ NumStages = VALIDATE
    /\ BranchStages = {CLASSIFY}
    /\ IsFiniteSet(Dimensions)
    /\ AnalysisResults \subseteq Seq(Dimensions)

VARIABLES
    call,  \* what the database holds on each call
    read   \* what the stage of each worker has read of its call

pipelineVars == <<vars, call, read>>

Transcript == [speaker : {"unlabelled", "opener", "flipped"}, redacted : BOOLEAN]

CallRow ==
    [status      : {"received", "processing", "done", "needs_review"},
     transcripts : Seq(Transcript),                            \* rows of transcripts
     confidence  : {"none", "measured", "given"},              \* diarisation_confidence
     swapped     : BOOLEAN,                                    \* roles_swapped
     tagged      : SUBSET {"classify", "analyse"},             \* stages whose non_sales_call flag it has
     scores      : Seq(Dimensions),                            \* rows of scores
     scored      : BOOLEAN]                                    \* a row in call_scores

PipelineTypeOK ==
    /\ TypeOK
    /\ call \in [Calls -> CallRow]
    /\ read \in [Workers -> CallRow \cup {NotRead}]
    /\ \A w \in Workers : pc[w] # "stage" => read[w] = NotRead

PipelineInit ==
    /\ Init
    /\ call = [c \in Calls |-> [status |-> "received", transcripts |-> <<>>,
                                confidence |-> "none", swapped |-> FALSE,
                                tagged |-> {}, scores |-> <<>>, scored |-> FALSE]]
    /\ read = [w \in Workers |-> NotRead]

-------------------------------------------------------------------------------
(***************************************************************************)
(* The stages: the rows each may leave, from the rows now committed and    *)
(* those it has seen.  No row: its transaction cannot commit.              *)
(***************************************************************************)

\* Skips if a transcript exists; else the call is processing and gets one more.
Transcribed(now, seen) ==
    IF seen.transcripts # <<>> THEN {now}
    ELSE {[now EXCEPT !.status = "processing",
                      !.transcripts = Append(@, [speaker |-> "unlabelled",
                                                 redacted |-> FALSE])]}

\* UPDATE segments ... SET speaker, by call and segment index, and the confidence.
Relabelled(now, speaker, confidence) ==
    [now EXCEPT !.transcripts = [i \in DOMAIN @ |-> [@[i] EXCEPT !.speaker = speaker]],
                !.confidence = confidence]

\* Nothing to skip on: segments that all have a label count as labelled by the
\* transcriber, and are written back with confidence 1.0.  Otherwise, or when
\* diarisation left one of them unknown, the labels come from the channels or the
\* voices, or from taking turns, with the confidence that goes with it.
Diarised(now, seen) ==
    LET labels == {seen.transcripts[i].speaker : i \in DOMAIN seen.transcripts}
        given  == {Relabelled(now, l, "given") : l \in labels}
        found  == Relabelled(now, "opener", "measured")
    IN  CASE labels = {}             -> {now}
          [] "unlabelled" \in labels -> {found}
          [] OTHER                   -> given \cup {found}

MaskSegments(transcripts, known) ==
    [i \in DOMAIN transcripts |-> [transcripts[i] EXCEPT !.redacted = @ \/ i \in known]]

\* Masks the segments it has seen unmasked.
Redacted(now, seen) ==
    {[now EXCEPT !.transcripts = MaskSegments(@, DOMAIN seen.transcripts)]}

Flip(speaker) == CASE speaker = "opener"  -> "flipped"
                   [] speaker = "flipped" -> "opener"
                   [] OTHER               -> "unlabelled"

FlipSegments(transcripts) ==
    [i \in DOMAIN transcripts |-> [transcripts[i] EXCEPT !.speaker = Flip(@)]]

Swapped_Unmarked(now, seen, customerIsRep) ==
    IF ~customerIsRep \/ seen.swapped THEN now
    ELSE [now EXCEPT !.transcripts = FlipSegments(@)]
\* The swap flips the labels now committed, if roles_swapped was not seen set.
Swapped(now, seen, customerIsRep) ==
    IF ~customerIsRep \/ seen.swapped THEN now
    ELSE [now EXCEPT !.swapped = TRUE, !.transcripts = FlipSegments(@)]

SetAside(row, sales) ==
    IF sales THEN row
    ELSE [row EXCEPT !.tagged = @ \cup {"classify"}, !.status = "done"]

\* Skips if already tagged; else swaps the roles if the LLM says so and finalises
\* the call if the LLM says it is no sales call.
Classified(now, seen) ==
    IF seen.tagged # {} THEN {now}
    ELSE {SetAside(Swapped(now, seen, answer.customerIsRep), answer.sales)
            : answer \in [customerIsRep : BOOLEAN, sales : BOOLEAN]}

Analysed_NoKey(now, seen) ==
    IF seen.scored THEN {now}
    ELSE {[now EXCEPT !.scores = @ \o result, !.scored = TRUE] : result \in AnalysisResults}
\* Skips if scored; else one row per returned dimension, a flag for every issue,
\* which may be non_sales_call, and the composite, whose primary key is the call:
\* a second one is refused and takes the rest with it.
Analysed(now, seen) ==
    IF seen.scored THEN {now}
    ELSE {[now EXCEPT !.scores = @ \o answer.scores, !.tagged = @ \cup answer.issues,
                      !.scored = TRUE]
            : answer \in {a \in [scores : AnalysisResults, issues : SUBSET {"analyse"}] :
                            ~now.scored}}

Validated_AnyCount(now, seen) ==
    {[now EXCEPT !.status = IF seen.scored THEN "done" ELSE "needs_review"]}
\* The gate: a composite, and as many rows in scores as there are dimensions.
Validated(now, seen) ==
    {[now EXCEPT !.status = IF seen.scored /\ Len(seen.scores) = Cardinality(Dimensions)
                            THEN "done" ELSE "needs_review"]}

Outcomes(s, now, seen) ==
    CASE s = TRANSCRIBE -> Transcribed(now, seen)
      [] s = DIARISE    -> Diarised(now, seen)
      [] s = REDACT     -> Redacted(now, seen)
      [] s = CLASSIFY   -> Classified(now, seen)
      [] s = ANALYSE    -> Analysed(now, seen)
      [] s = VALIDATE   -> Validated(now, seen)

NextStage_NoBranch(s, row) == IF s = NumStages THEN 0 ELSE s + 1
NextStage_NoGate(s, row) ==
    IF (s = CLASSIFY /\ row.status = "done") \/ s = ANALYSE THEN 0 ELSE s + 1
NextStage_SkipRedact(s, row) ==
    CASE s = DIARISE -> CLASSIFY
      [] (s = CLASSIFY /\ row.status = "done") \/ s = NumStages -> 0
      [] OTHER -> s + 1
\* next_stage reads the call's status in the stage's own transaction.
NextStage(s, row) ==
    IF (s = CLASSIFY /\ row.status = "done") \/ s = NumStages THEN 0 ELSE s + 1

-------------------------------------------------------------------------------
(***************************************************************************)
(* The steps.                                                              *)
(***************************************************************************)

\* The stage's SELECTs, up to its call of Whisper or the LLM.
Read(w) ==
    /\ pc[w] = "stage"
    /\ read[w] = NotRead
    /\ read' = [read EXCEPT ![w] = call[claim[w].job[1]]]
    /\ UNCHANGED <<vars, call>>

\* The stage returns: its writes, complete and the next job are one commit.
StageCommit(w) ==
    LET c == claim[w].job[1]
        s == claim[w].job[2]
    IN  /\ pc[w] = "stage"
        /\ read[w] # NotRead
        /\ \E row \in Outcomes(s, call[c], read[w]) :
              /\ call' = [call EXCEPT ![c] = row]
              /\ Complete(w, NextStage(s, row))
        /\ read' = [read EXCEPT ![w] = NotRead]

StageRollback_KeepsRead(w) == StageError(w) /\ UNCHANGED <<call, read>>
\* The stage raises, or the database refuses its writes: nothing is left of it.
StageRollback(w) ==
    /\ StageError(w)
    /\ read' = [read EXCEPT ![w] = NotRead]
    /\ UNCHANGED call

WorkerCrash(w) ==
    /\ Crash(w)
    /\ read' = [read EXCEPT ![w] = NotRead]
    /\ UNCHANGED call

\* The steps of the queue that touch no call.
QueueStep ==
    \/ \E c \in Calls : Admit(c)
    \/ \E w \in Workers, j \in Jobs : Claim(w, j)
    \/ \E w \in Workers : Fail(w)
    \/ \E w \in Workers : Restart(w)
    \/ \E j \in Jobs : BackoffElapses(j)
    \/ \E j \in Jobs : LeaseExpires(j)
    \/ \E o \in Operators, j \in Jobs : RequeueCheck(o, j)
    \/ \E o \in Operators : RequeueUpdate(o)

PipelineNext ==
    \/ QueueStep /\ UNCHANGED <<call, read>>
    \/ \E w \in Workers : Read(w)
    \/ \E w \in Workers : StageCommit(w)
    \/ \E w \in Workers : StageRollback(w)
    \/ \E w \in Workers : WorkerCrash(w)

PipelineSpec == PipelineInit /\ [][PipelineNext]_pipelineVars

\* As in JobQueue: live workers go round their loop, time passes.
PipelineFairness ==
    /\ \A w \in Workers :
          /\ WF_pipelineVars(\E j \in Jobs : Claim(w, j) /\ UNCHANGED <<call, read>>)
          /\ WF_pipelineVars(Read(w) \/ StageCommit(w) \/ StageRollback(w))
          /\ WF_pipelineVars(Fail(w) /\ UNCHANGED <<call, read>>)
    /\ \A j \in Jobs :
          /\ WF_pipelineVars(BackoffElapses(j) /\ UNCHANGED <<call, read>>)
          /\ WF_pipelineVars(LeaseExpires(j) /\ UNCHANGED <<call, read>>)

FairPipelineSpec == PipelineSpec /\ PipelineFairness

-------------------------------------------------------------------------------
(***************************************************************************)
(* Safety, however often a stage is delivered.                             *)
(***************************************************************************)

\* Two workers that analyse the same call never both leave their scores: the rows
\* of scores are those of one LLM answer, and there is a composite exactly when
\* they are there (analyse.py, run; CallScore's primary key).
OneAnalysis ==
    \A c \in Calls : IF call[c].scored THEN call[c].scores \in AnalysisResults
                                      ELSE call[c].scores = <<>>

-------------------------------------------------------------------------------
(***************************************************************************)
(* Safety, as long as no lease runs out under a live worker: workers may   *)
(* crash anywhere, stages fail, dead jobs be requeued.                     *)
(***************************************************************************)

\* "retries never duplicate output" (CallSense_0-1_Plan.md): at most one transcript
\* per call (transcribe.py, run: the exists check).
OneTranscript == \A c \in Calls : Len(call[c].transcripts) <= 1

\* A call that classify has finalised as no sales call has no composite, so that no
\* average counts it (classify.py, docstring and run).
NonSalesNeverScored ==
    \A c \in Calls : ~("classify" \in call[c].tagged /\ call[c].scored)

\* roles_swapped tells whether the labels are those of the diarisation or have
\* been swapped since (classify.py, run; diarise.py, run, which would undo it).
RolesMatchSwap ==
    \A c \in Calls : \A i \in DOMAIN call[c].transcripts :
        LET speaker == call[c].transcripts[i].speaker
        IN  speaker # "unlabelled" => (speaker = "flipped" <=> call[c].swapped)

\* Does the stage of w, having read the call, send its text to the LLM?
AsksLlm(w) ==
    /\ pc[w] = "stage"
    /\ read[w] # NotRead
    /\ \/ claim[w].job[2] = CLASSIFY /\ read[w].tagged = {}
       \/ claim[w].job[2] = ANALYSE /\ ~read[w].scored

\* No text reaches the LLM before it is masked and its speakers are known
\* (redact.py, docstring; models.py, Segment.redacted_text: "LLM never sees raw").
LlmSeesOnlyRedacted ==
    \A w \in Workers : AsksLlm(w) =>
        \A i \in DOMAIN read[w].transcripts :
            /\ read[w].transcripts[i].redacted
            /\ read[w].transcripts[i].speaker # "unlabelled"

\* The confidence shown for labels that a transcriber left unknown is the one
\* diarisation had in them (diarise.py, run: the "low diarisation confidence" banner).
ConfidenceIsMeasured == \A c \in Calls : call[c].confidence # "given"

\* When every job of a call is done the call has its verdict, so that no page
\* waits for one (classify.py and validate.py, set_call_status).
SettledCallHasVerdict ==
    \A c \in Calls :
        /\ status[<<c, TRANSCRIBE>>] # "absent"
        /\ \A s \in Stage : status[<<c, s>>] \in {"absent", "done"}
        => call[c].status \in {"done", "needs_review"}

\* A verdict is final: no stage reopens a finished call (transcribe.py, run, which
\* sets processing; validate.py, run).
VerdictIsFinal ==
    [][\A c \in Calls : call[c].status \in {"done", "needs_review"}
                        => call'[c].status = call[c].status]_pipelineVars

-------------------------------------------------------------------------------
(***************************************************************************)
(* What the documentation says and the stages do not do.                   *)
(***************************************************************************)

\* A call tagged non_sales_call is "excluded from scoring" (CallSense_0-1_Plan.md,
\* the taxonomy), whichever stage has tagged it.
TaggedNeverScored == \A c \in Calls : call[c].tagged # {} => ~call[c].scored

\* The LLM scores no dimension twice in one answer.
NoneRepeated ==
    \A result \in AnalysisResults : \A i, k \in DOMAIN result :
        result[i] = result[k] => i = k

\* A call shown as done is set aside as no sales call or has a composite, and every
\* dimension of the rubric is scored ("a materialised composite exists and all rubric
\* dimensions were scored", validate.py, docstring).  It holds if NoneRepeated, even
\* when two workers run a stage at once; validate.py, run, counts rows, so that a
\* repeated dimension makes up for a missing one otherwise.
DoneIsScored ==
    \A c \in Calls :
        call[c].status = "done" =>
            \/ "classify" \in call[c].tagged
            \/ /\ call[c].scored
               /\ \A d \in Dimensions : \E i \in DOMAIN call[c].scores : call[c].scores[i] = d

-------------------------------------------------------------------------------
\* Every ingested call ends with a verdict or with a dead job in the ops view.
EveryCallConcludes ==
    \A c \in Calls :
        status[<<c, TRANSCRIBE>>] # "absent" ~>
            \/ call[c].status \in {"done", "needs_review"}
            \/ \E s \in Stage : status[<<c, s>>] = "dead"
===============================================================================
