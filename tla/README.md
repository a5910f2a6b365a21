# CallSense: a TLA+ model

CallSense takes recordings of sales calls, transcribes and diarises them, masks
personal data, asks an LLM to classify and score them, and lets advisors and
team leaders dispute what it flags. These modules model how the parts of its
backend behave together: a job queue in Postgres, the workers that drain it, the
six stages they run, and the dispute loop on what comes out. Beside them are the
parts that have a life of their own: the scoring rules, the algorithms of a
stage, the LLM client, the rate limiter and the page of a call.

Checked with TLC, proved with TLAPS. Paths are relative to the repository.

## The system

| Component | State | Operations | What makes it hard |
|---|---|---|---|
| Job queue (`backend/pipeline/queue.py`, `backend/app/routes/ops.py`) | one row of `processing_jobs` per call and stage: status, attempts, `run_after`, `updated_at` | enqueue, claim, complete, fail, requeue | a 300 s lease nobody renews, writes by id that check neither status nor owner, crashes between transactions, dead letters |
| Worker loop (`backend/pipeline/worker.py`) | the claim in hand | claim / stage + complete / fail, each a transaction | stops anywhere; several of them run |
| Stages (`backend/pipeline/stages/`) | transcripts, segments, scores, flags, the composite, the call's status and metadata | transcribe, diarise, redact, classify, analyse, validate | at-least-once delivery; each reads, spends minutes outside, then writes |
| Dispute loop (`backend/feedback.py`, `backend/analysis/recompute.py`) | flag states, disputes, calibration examples, the compliance cap | raise, resolve | handlers in a thread pool at READ COMMITTED, check then write |
| Ingestion (`backend/ingestion/`, `backend/app/routes/ingest.py`) | calls, idempotency keys, audit log | ingest from folder, REST and CRM; inline drain | double delivery, a shared queue drained in a request |
| Scoring rules (`backend/analysis/rubric.py`, `verify.py`, `metrics.py`, `backend/pipeline/stages/analyse.py`) | scores, flags, the composite | composite and cap, downgrades, recompute, quote matching, talk ratio | boundaries, repeats, a new rubric version |
| LLM client (`backend/analysis/llm.py`) | time of the last call | throttle, retry | holds a stage, and so its lease |
| Redaction and diarisation (`backend/analysis/redaction.py`, `backend/transcription/diarize.py`, `acoustic.py`) | the text or the labels in hand | six substitutions; three strategies | what one pass leaves is the next one's input |
| Rate limiter (`backend/app/ratelimit.py`) | hits per address | check and count | reads the clock before it takes its lock |
| Read side (`backend/app/routes/calls.py`, `summaries.py`, `backend/db/views.sql`) | none | call detail, lists, rollup averages | an answer is put together from several SELECTs; which calls count |
| Frontend (`frontend/`) | per page | polling, dispute and resolve forms | overtaken requests, stale answers |
| Demo (`demo/`) | none | reset and seed | TRUNCATE under a running worker |

The parts meet in the database. Ingestion inserts a call and its first job in
one transaction; a worker claims the job, runs the stage and, in the same
transaction, completes the job and enqueues the next one; `classify` may end the
pipeline by setting the call to done; `validate` sets done or needs_review. The
ops page reads the job table and requeues dead jobs. The dispute handlers change
flags of calls that have been scored, recompute the composite, and leave
examples that the next `analyse` puts into its prompt. The page of a call polls
`call_detail` until the status it shows is settled. Uploads pass the rate limiter
first. The LLM client runs inside a stage, and so inside the lease of its job.

What must be right of each:

- *queue*: no job is lost, or attempted, run side by side or committed more often
  than its budget, the requeues and the leases that ran out explain; stages are
  opened in order; every job ends done or dead.
- *stages*: re-delivery leaves no second transcript, set of scores, role swap or
  tag; nothing unmasked reaches the LLM; a verdict is there in the end, is final,
  and a call that is done has every dimension scored.
- *disputes*: the states of a flag follow one path; each decision that stands is
  learned as it was taken; the cap is there exactly while a critical flag stands;
  every dispute can be decided.
- *ingestion*: one call per recording, always with its first job.
- *scoring rules*: nothing but a finding that earned it holds a call at the cap,
  and a dismissal undoes exactly what its finding did; a quote that was said is
  found where it was said, and one that was not is not.
- *redaction, diarisation*: a number is masked as what it is, whatever stands
  around it; labels come from one strategy, and nothing of one that gave up stays.
- *LLM client*: throttle, retries and delays fit into the lease of the job.
- *rate limiter*: no burst above the limit, no rejection without cause, and
  Retry-After is not a lie.
- *call page*: it never goes back, and does not stop before it shows all of a
  settled call.

`PROJECT.json` lists the hazards with their lines and the properties that cover
them.

## The modules

`StageOrder` is what the stage registry promises without a queue: the set of
opened stages of a call grows by the next stage, one at a time.

`JobQueue` is the queue, the workers and the requeue endpoint. A row is
`status`, `attempts` and `elapsed`; the last stands for both clocks of a row
(the backoff of a pending job, the lease of a running one). A transaction that
writes is one action:

| Code | Action |
|---|---|
| `ingest` (its INSERT and enqueue) | `Admit` |
| `claim` | `Claim` |
| stage, `next_stage`, `complete`, `enqueue` | `StageDone` (`Complete`) |
| stage raises | `StageError` |
| `fail` | `Fail` |
| worker killed, or `claim`/`fail` raise and end `main` | `Crash`, `Restart` |
| time | `BackoffElapses`, `LeaseExpires` |
| `requeue`, SELECT and UPDATE | `RequeueCheck`, `RequeueUpdate` |

Here a stage succeeds or raises, and `next_stage` may end the pipeline after a
branch stage. `complete` and `fail` write the row by id whatever it says, as the
code does, also for a worker whose lease ran out. Beside the rows stands what the
code does not keep: `tries` and `commits` count the claims and the commits of each
job, since `requeue` sets `attempts` back to 0. The order of due jobs (`ORDER BY run_after`) is left open. A job
table with status `failed` does not occur: no code writes it.

`Pipeline` extends `JobQueue` with the row of each call and with what each
worker has read of it. A stage is `Read` (its SELECTs, before Whisper or the
LLM) and `StageCommit` (all its writes with `complete`); `Transcribed` to
`Validated` are the six `run` functions, each from the rows committed by then
and the rows it saw. `StageRollback` also stands for a commit that the database
refuses, as for a second row in `call_scores`. A transcript stands for its
segments. Labels are *unlabelled*, those of diarisation (*opener*), or the
opposite (*flipped*). The model is of real recordings: the mock transcriber,
whose fixtures come with labels, and a recording without any speech are left out.

`Feedback` is the dispute loop on one scored call. A handler is its check
(`RaiseCheck`, `ResolveCheck`) and its writes (`RaiseCommit`; `ResolveWrite` up
to the SELECT of `recompute`, then `ResolveCommit`), with the lock on the flag's
row in between. `Abort` is a request cut off. The composite is its cap.

`DisputeDesk` is what the loop promises when each request takes effect at once.

`Ingest` is ingestion: a delivery reads a file and builds its envelope
(`Deliver`), is refused by ffprobe (`RejectCall`), inserts its row (`Insert`) and
commits it with job and audit entry (`Commit`), or meets the row of another one
(`Duplicate`), for whose end the INSERT has waited. `Abort` is a delivery cut off.
Files are atomic, and an upload that is too large or over the rate limit never
gets to `ingest`. A process delivers one recording at a time, as the upload
handler does, which is `async` but awaits nothing once it has the file.

`RateLimiter` is the window of one address; addresses share nothing. A request
reads the clock (`Arrive`) and gets the lock later (`Decide`), so that hits enter
the deque out of the order of their stamps. `MaxDelay` bounds the time between.

`CallPage` is the page of a call with the endpoint behind it. A request is its
SELECTs (`Select`), each of which sees what is committed by then; what it finds is
abstracted to the moment it saw: how many stages were committed, how many
decisions taken. A new request (`Poll`, or `DisputeAnswered` after a dispute)
makes the one before late, and its answer (`AnswerLate`) may come at any time.

`Scorecard` is one call from the answer of the LLM to its composite and what
disputes make of it: marks and findings, the quote gate and both downgrades, the
cap, `recompute`, and the release of a new rubric version. The weight of a mark is
whole in hundredths, so that composites are integers. Decisions come one at a
time here; `Feedback` is about their overlap, and there the composite is its cap.

`Diarise` is the sequence of strategies, `ChannelSplit`, `VoiceSplit` and
`TakeTurns`, over the segments of a call. What signal processing hears is any
channel or voice for any segment, at any separation.

`QuoteGate` is `verify_quote` with its windows and the ratio of difflib, by
difflib's definition: longest common block, leftmost first, then both sides of
it. Texts are sequences of characters, as they are to difflib: words are what the
spaces leave (`Runs`), and letters match inside different words too, so that a
misspelt quote can be found. The loop over segments and windows is given by what it
keeps: the first of the best ratios (`BestOf`). `Occurs` and `StandsIn` are the
references it is checked against: the quote's own words in a row, and a run of words
in which most of the quote's characters stand in order.

`Redaction` is the six substitutions, token by token. What passes Luhn's test is
any set of the runs that could.

`LlmClient` is what a stage spends on the LLM: which client it gets, throttle,
attempts, delays with their jitter, and the second try of `analyse`. Time is in
tenths of a second.

The `MC` modules give instances, symmetry sets and answers of the LLM for TLC.
`MCParts` checks the eight modules from `Ingest` on in one run: `part` says which of
them moves, the others rest in one state, so that their states add up and do not
multiply.

Theorems are in modules of their own: `JobQueueProofs` and, on top of it,
`PipelineProofs`; `FeedbackProofs`, `IngestProofs`, `RateLimiterProofs` and
`CallPageProofs`; `AnalyseProofs` for what a stage does with the LLM, and the card
that comes of it, quotes included (`LlmClient`, `Scorecard`, `QuoteGate`); `TranscriptProofs` for what is done to
a transcript (`Diarise`, `Redaction`).

Definitions named after another with a suffix (`Due_NoTimeout`,
`Minted_None`, ...) are faulty variants of it, each with a slip of the
kind the code could have had; no specification uses them. For every property of
a passing run, putting a variant in the place of its original makes the run
fail.

## The runs

Bounds are in the guards: `MaxExpiries` (leases that run out under a live worker,
per job), `MaxCrashes`, `MaxRequeues`, `MaxDisputes`, `MaxDeliveries`,
`MaxAborts`, and in the parts `MaxDelay`, `Horizon`, `MaxEdits`, `MaxLate`. A lease
of a crashed worker may run out without bound. Retries are bounded by the code.

| Run | Bounds | Shows |
|---|---|---|
| `MCJobQueue` | 2 workers, 1 operator, 3 stages, 2 attempts, 1 expiry, crash, requeue | attempts, holders and commits of a job bounded, nobody stranded, dead letters only when spent; implements `StageOrder` |
| `MCPipelineCrash` | six stages, 2 workers, 1 attempt, 2 crashes, 1 requeue, no lease outlived | one transcript, one swap, masked text, honest confidence, one final verdict |
| `MCPipelineOverrun` | 1 attempt, 1 expiry per job under a live worker; no dimension scored twice | what even then holds: one analysis, and done means that every dimension is scored |
| `MCPipelineLive` | fairness; 2 attempts, 1 crash, no lease outlived | every job ends done or dead, every call with a verdict or a visible dead job |
| `MCFeedback` | fairness; 2 requests, 2 flags, 3 disputes, 1 abort | decisions are learned; a disputed flag has an open dispute; every dispute is decided |
| `MCFeedbackSerial` | 1 request, 3 flags, 3 disputes, 2 aborts | implements `DisputeDesk`; the cap tracks the flags |
| `MCParts` | see below | ingestion, the limiter, the call page, the scorecard, diarisation, the quote gate, redaction and the LLM client, one at a time |

The bounds of `MCParts`:

| Part | Bounds | Shows |
|---|---|---|
| ingest | 3 processes, 3 recordings (one broken), 2 sources, 5 deliveries, 2 aborts | one call per recording and source; accepted means stored and queued; the audit log is complete |
| limiter | 2 requests, limit 2, window 3, delay 1, clock up to 8 | no burst above the limit, no unfair rejection |
| page | 3 SELECTs, 2 stages, 1 decision of others, 1 late request | it never goes back, and stops only when complete |
| card | composites below, at and above the cap; a dimension missing or marked twice; 2 findings, each of 6 kinds | the cap is earned |
| diarise | 0 to 5 segments, separations on both sides of each threshold | labels are of one strategy |
| quote | quotes of up to 3 words and pairs of segments of up to 4, over three short words that share letters and one of seven letters in two spellings | quotes are cited |
| redaction | texts of up to 3 tokens of 9 kinds, and of 4 to 6 tokens of words, keywords and groups of four digits | numbers are masked as what they are |
| llm | requests of 0.1 or 32 s, interval 1 s, 4 retries, lease 300 s | a stage fits its lease |

A window that holds two hits, of two requests that cross between clock and lock,
is the smallest in which the deque is out of order and the oldest hit is not at
the left. Three SELECTs have a first (the status), one with the flags, and a last.
A fourth fingerprint lets the voices through, and the fifth segment is the sliver
beside it; a card number is four groups, and six tokens leave room for its
neighbours. Thresholds, marks and separations are chosen on both sides of each
comparison in the code.

Two workers are enough for each race: every one is between a worker that lost
its lease and the one that took over. One call is enough, as calls share nothing
but the workers; that a worker busy with another call is only slower is covered
by steps that do not happen. Three stages show a branch in the middle and an
end. Two attempts show the retry and the last one. The bound on expiries is per
job, so that each stage of a call may be outlived once. Deadlock is not checked: with
every job done, or every worker down, the system does stop.

The fairness of `JobQueue` is weak fairness of a live worker's loop, of a stage
ending and of time passing; none of restarts, since the compose file restarts
nothing, nor of operators. The bounds keep one worker alive. A request of
`Feedback` goes on once it has begun; team leaders are strongly fair to each
dispute in the inbox (they come back to it while it is listed). That the page of a
call catches up is not stated: `useApi.ts` starts the interval anew at each render,
and each poll cancels the request before it, so that a page that renders all the
time, or whose answers always take longer than the interval, never updates. The code
gives no fairness from which it would.

### What properties take for granted

Some properties of the parts hold under a premise that is in their text or in a
bound, and the hazards in `PROJECT.json` say what lies outside it:

- `StageFitsLease`: requests of 32 s at most. The code sets no timeout. With 33 s
  a stage may outlast its lease. In general, `LeaseSuffices` says which settings leave
  room for it.
- `CapIsEarned`: no dimension marked twice (`recompute` reads marks in any order,
  `analyse` keeps the last), and no new rubric version released meanwhile
  (`recompute` then finds no scores and leaves the cap).
- `MaskedAsWhatItIs`: numbers that stand apart from other digits. A card number
  behind a group of four digits is swallowed with it and fails Luhn's test.
- `QuotesAreCited`: windows below 200 characters, from where difflib drops frequent
  ones (`AutoJunk`).
- `DoneIsScored`: an LLM that scores no dimension twice in one answer
  (`NoneRepeated`). `MCPipelineDuplicate` shows what happens otherwise.
- The properties of `MCPipelineCrash` (but for `PipelineTypeOK`): no lease outlived.
- `CapTracksFlags` and `ImplementsDesk`: one request at a time.
- `BurstBound`: a window less the longest wait for the lock, as the stamp is from
  before the wait.

### Where code and documents differ

These runs end with a counterexample; `PROJECT.json` quotes the lines.

- `MCPipelineTagged`: `analyse` may tag a call as excluded from scoring, and
  scores it.
- `MCPipelineTwoTranscripts`: a transcription that outlasts its lease leaves two
  transcripts.
- `MCPipelineDuplicate`: `validate` counts rows, so that a dimension scored twice
  makes up for one that was not scored.
- `MCFeedbackSkew`: two dismissals that overlap leave a cap that nothing lifts.
- `MCFeedbackNoQuote`: the dispute of a flag without a quote cannot be resolved.

The safety properties of `MCPipelineCrash` need their premise: with
`MaxExpiries = 1` they fail. An outlived lease brings a tagged call that is scored,
labels swapped back, raw text in a prompt, a confidence of 1.0 that nobody measured,
and a settled call set back to processing. In the queue a stale worker may reopen a
finished job, or take a dead one out again: no property says that it cannot, and
`RetryBudget`, `LeaseBound` and `CommitsAreBounded` say how far it goes. Two requests
on one flag may reopen a decided one, or teach the prompt both verdicts;
`DecisionsAreLearned` says that the last one is among them, and no property that the
other is not.

`RetryBudget` is not the dead-letter rule of `queue.py`'s docstring ("attempts >=
max_attempts parks the job as dead"): its bound also grows with each requeue, which
sets the count back; with each outlived lease; and with each crash, since `claim`
does not look at `max_attempts` and only `fail` parks. A job that takes its worker
down each time is attempted for ever.

## The theorems

In `JobQueueProofs`, for any sets of calls and operators, any finite set of
workers, any number of stages, and any bounds; `QueueAssumption` is all they
assume.

- `TypeCorrect`. By the cases of `Next`.
- `NeverStrandedHolds` and `QueueRefinesStageOrder`. A worker writes rows by id,
  so one must know that the row exists (`UnbornInv`: nobody holds or has seen a
  job that is absent). `StepRows` then says that a step adds no row or the one
  after an opened stage, from which `PrefixInv` (the opened stages of a call are
  an initial segment) follows, and with it the step of `StageOrder`.
- `RetryBudgetHolds`, `LeaseBoundHolds` and `CommitsAreBoundedHolds`. None is
  inductive: that a job may be claimed once more is as good as a claim, that a stage
  runs as good as its commit, and a claim that would hand the job back on failure as
  good as an attempt. `Paid` counts them together. `WorkPaid`: commits, plus holders,
  plus `Offer` (claimable now or later). `TriesPaid`: attempts made, plus those before
  the last that the row still leaves (`Left`), plus `Offer`, plus `Fresh` (claims below
  the budget). A claim turns the offer into a holder, a failure a holder into an
  offer, a commit a holder into a commit. An outlived lease and a requeue raise
  both sums, a crash only the second, and what they add is on the right-hand side: a
  requeue pays for a whole budget of attempts (`Budget`).
- `DeadHasSpentRetriesHolds`. With `ClaimInv`: as long as a job was not requeued,
  its count is not below any claim's.

In `FeedbackProofs`, for any flags and any bounds; `FeedbackAssumption` is all
they assume. The first three allow any number of overlapping requests:

- `TypeCorrect`. The `op` of a request tells what else is known of it
  (`RaiseType`, `ResolveType`), a dispute never goes away (`AppendedType`,
  `ResolvedType`).
- `DecisionsAreLearnedHolds`, `DisputedIsInInboxHolds`. Together they are
  inductive (`FlagInv`): only two kinds of step write tables, and each is one
  transaction.

The others assume `Serial`, one request at a time; `MCFeedbackSkew` shows that
`CapTracksFlags` fails without it.

- `CapTracksFlagsHolds`. `SerialInv` adds what a handler relies on between its read
  and its write: the flag is as it was read, and the new composite is that of the
  flags as they are.
- `ImplementsDeskHolds`. From `SerialInv`, a commit is a step of `DisputeDesk`
  (`SerialRaise`, `SerialResolve`, `ResolveLearns`), and any other step leaves the
  tables alone.

In `IngestProofs`, for any recordings, sources and processes; they assume
`IngestAssumption`.

- `OneCallPerRecordingHolds`. `KeyInv` is what the unique index gives: the keys of
  rows, committed or not, differ; an INSERT that waited keeps it so.
- `AcceptedIsQueuedHolds`, `AuditIsCompleteHolds`. With `JobsInv`, every committed
  call has its first job; a duplicate's answer names a call of its own recording
  and source since the key tells them (`KeyIsInjective`).

In `RateLimiterProofs`, for any number of threads and any limit, window and delay;
they assume `LimiterAssumption`.

- `BurstBoundHolds`, `RejectionIsFairHolds`. Stamps are out of order, the times at
  which requests get the lock are not: `LogInv` keeps both, and that they differ by
  `MaxDelay` at most. `HitsInv` says that the deque holds the stamps of the latest
  admissions and that what it dropped is out of the window. It drops by stamps
  from the left only, which may keep an old hit behind a young one; this makes it
  stricter, never laxer. `PromiseInv` is what the last rejection was told.

The last section of `JobQueueProofs` is for any number of workers and crashes, but under `Calm`: no
lease runs out under a live worker (`MaxExpiries = 0`), and one operator requeues at
a time. It is what `queue.py` takes for granted when it says that a job has one
owner.

- `SoleInvariant`. A claimed job is its claimant's alone (`OwnerInv`), a job that an
  operator has seen dead still is (`RequeueInv`), and a call comes to a stage only when
  those before are done (`DonePrefixInv`). The second half of `PipelineProofs` rests on
  it.

In `PipelineProofs`, for any calls, workers and bounds, also with outlived leases:

- `PipelineImplementsQueue`. A stage that reads and commits is, to the queue, one
  that succeeds or raises, so that each theorem on `JobQueue` is one on `Pipeline`.
- `PipelineTypeCorrect`, and `OneAnalysisHolds`. Scores, once there, never change
  (`OutcomeScores`): the primary key of `call_scores` refuses the second set.
- `DoneIsScoredHolds`, under `NoneRepeated`. What a validation has read of the scores
  is what is there (`SeenScoresInv`), however late it commits, so that a done call
  has as many of them as the rubric has dimensions (`DoneIsCountedStep`). As they are
  those of one answer without repeats, and there are finitely many dimensions, each is
  among them (`CountedIsEvery`).

The same module, under `Calm`:

- `OneTranscriptHolds`, `NonSalesNeverScoredHolds`, `RolesMatchSwapHolds`,
  `LlmSeesOnlyRedactedHolds`, `ConfidenceIsMeasuredHolds`, `SettledCallHasVerdictHolds`,
  `VerdictIsFinalHolds`. All follow from one invariant: a call's row is what its
  done jobs have made of it (`RowsInv`, with `Fits` listing what that is after each
  stage), and what a stage has read is still so (`ReadInv`). It is inductive
  since only one worker runs stages of a call (`OneWorkerPerCall`, from
  `DonePrefixInv`), and each commit takes a row that fits n done jobs to one that
  fits n + 1 (`FitsAdvances`). `MCPipelineTwoTranscripts` shows that the first of
  them fails without the premise.

In `CallPageProofs`, for any list of SELECTs with the call first, and any bounds:

- `StoppedIsCompleteHolds`, `NeverGoesBackHolds`. What the SELECTs of one request see
  ascends (`Ascending`), so that a settled status, the first of them, makes the rest
  settled; and a request that is alive was sent after the answer on the page
  had come (`AskingInv`). Nothing need be known of overtaken requests.

In `AnalyseProofs`:

- `StageFitsLeaseHolds`, for any interval, retries, request times and lease that
  satisfy `LeaseSuffices`; TLC checks that the settings of `MCParts` do, which are
  those of the code. `SpentInv` bounds what is spent by the number of the attempt:
  so many requests and the delays between them (`MaxDelays`), with what is left of
  the throttle's interval counted as spent. That delays double is a fact about powers
  of two which the prover does not know; they are counted as sets of subsets
  (`PowersDouble`), for which the library has it.
- `CapIsEarnedHolds`, for any marks, findings and decisions. With one mark for each
  dimension, the marks that `analyse` keeps and those that `recompute` reads, in
  whatever order, are one function (`Recompute`); what stands of the flags on a
  committed card is earned and not dismissed (`StandingIsEarned`).
- `QuotesAreCitedHolds`, for quotes and segments of any words over any letters
  (`QuoteSpec`); it assumes that a space is no letter. difflib's recursion is a function
  over parts of the texts, and that there is such a function is proved first, part by
  part as they get wider (`WithinExists`): induction over a set of numbers, from
  `LeastNumber`. By the same induction what is matched is aligned (`Aligned`), so that
  no character is matched twice and only equal texts are matched throughout
  (`AllMatchedIsSame`). A segment has the quote's words in a row just if one of its
  windows is the quote (`OccursIsCandidate`): a run beside a space has fewer words than
  its segment (`RunHasFewerWords`), so that a quote which is shorter by no word is all of
  it. The loop therefore keeps the first segment that has the words (`ExactIsKept`). What
  is found has a ratio of 0.85 with a window, and since matches are no more than the
  shorter text is long, 17 in 23 of the quote's characters stand in it, in order
  (`ShareOfOne`). This is all that the gate says of a quote that is not verbatim: a word
  of it may be misspelt, or another one that is spelt alike.

In `TranscriptProofs`:

- `LabelsOfOneStrategyHolds`, for transcripts of any length. A segment that is not
  heard has the voice of the segment before it (`VoicesCarryOver`), and the opener is
  the first that is heard (`OpenerIsFirst`): both need the greatest or the least
  number of a set, which is there by well-foundedness (`LeastNumber`,
  `GreatestNumber`).
- `MaskedAsWhatItIsHolds`, for a text of any length and any set of its runs that pass
  Luhn's test (`RedactionSpec`). Each number is followed from the text to its mask
  (`FollowedInv`): up to its own substitution it stands as it was, with no digits
  beside it and, unless it is a code, behind no keyword (`Intact`); after it, one mask
  is all there is of its tokens (`Gone`). The core is `TakesAllOrNothing`: a match
  that meets what is followed is its own and takes exactly that. Two things that
  earlier substitutions leave could spoil it, and do not: a mask of a card is short
  enough to stand between a keyword and a code, but no digits come to stand behind it;
  and what is left of a code of more than eight digits is digits again, but they had no
  number of their own beside them. Numbers that stand side by side are not followed;
  of them `SinglesInv` and `AadhaarInv` say what no text holds once its substitution has
  gone past. Of the digits of a run only so much is needed as runs of up to three groups
  tell (`TooFewDigits`); sums over longer ones are left as they are.

### Only model-checked

- Liveness: `EveryJobSettles`, `EveryCallConcludes`, `EveryDisputeIsDecided`.
  They need fairness and `ENABLED`, which the prover does not
  handle.

## Not modelled

- The rollup views, the lists and the inboxes: queries without state. Whether an
  inbox lists each dispute is a hazard without a property.
- The drain that `POST /ingest/upload` runs in mock mode: to the queue it is one
  more worker, and `JobQueue` has any number of them. That it stops as soon as
  nothing is due, and what `processed_inline` tells of it, is left out.
- The reset of the demo data (`demo/seed.py`), which truncates all tables and
  restarts their ids: the image runs it before the API starts, and a worker of
  another container that still holds a claim would then complete a job of a new
  call by its id. No module has two lives of a database. Fixtures are data.
- Rubric versions in `Feedback`, where the composite is its cap (`Scorecard` has
  them), and the audit log of disputes.
- Files that are still being written: recordings are atomic in `Ingest`.
- The talk ratio: one pass of sums over segments. Parsing of the LLM's answers,
  prompts and their wording: text.
- Signal processing, and the transcriber and the LLM themselves: they answer
  anything.
- Rendering, settings, wiring of the API, migrations.
