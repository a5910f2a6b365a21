------------------------------- MODULE LlmClient -------------------------------
(***************************************************************************)
(* What a stage does while it asks the LLM (analysis/llm.py, and            *)
(* _analyse_with_retry of pipeline/stages/analyse.py), and how long that    *)
(* takes.  A process has one worker thread, which asks one thing at a time, *)
(* so that nothing waits for the lock of the throttle.                      *)
(*                                                                         *)
(* Times are in tenths of a second.  How long a request takes is the        *)
(* model's business: RequestTimes, for which the code sets no bound.        *)
(***************************************************************************)
EXTENDS Naturals

CONSTANTS RequestTimes, \* what a request to the model may take
          Lease,        \* VISIBILITY_TIMEOUT_S
          MinInterval,  \* llm_min_interval_s
          MaxRetries    \* llm_max_retries

ASSUME LlmAssumption ==
    /\ RequestTimes \subseteq Nat
    /\ {Lease, MinInterval} \subseteq Nat
    /\ MaxRetries \in Nat \ {0}

VARIABLES
    client,  \* the LLM that get_llm picked
    stage,   \* the stage that asks: classify or analyse
    asks,    \* how many times it has called the LLM
    attempt, \* the attempt of _generate
    doing,   \* throttle or request, or how the stage ended
    ago,     \* how long ago _throttle let the last request go, MinInterval at most
    spent    \* how long the stage has been at it

llmVars == <<client, stage, asks, attempt, doing, ago, spent>>

Shorter(a, b) == IF a < b THEN a ELSE b
Reaches(t) == Shorter(MinInterval, t)

\* Settings are mock_mode, the provider that is asked for, and the keys there are.
get_llm(mock_mode, provider, keys) ==
    IF mock_mode THEN "mock"
    ELSE IF provider \in keys THEN provider
    ELSE IF "gemini" \in keys THEN "gemini"
    ELSE IF "anthropic" \in keys THEN "anthropic"
    ELSE "mock"

LlmInit ==
    /\ \E mock_mode \in BOOLEAN, provider \in {"mock", "gemini", "anthropic"},
          keys \in SUBSET {"gemini", "anthropic"} :
             client = get_llm(mock_mode, provider, keys)
    /\ stage \in {"classify", "analyse"}
    /\ asks = 1
    /\ attempt = 1
    /\ doing = "throttle"
    /\ ago \in {0, MinInterval}
    /\ spent = 0

-------------------------------------------------------------------------------
\* min(30, 2 ** attempt), seven to thirteen tenths of it.
Delays(n) == LET base == Shorter(30, 2 ^ n) IN {7 * base, 13 * base}

LastAttempt_TooLate == attempt > MaxRetries
LastAttempt == attempt = MaxRetries

Takes(t) ==
    /\ spent' = spent + t
    /\ ago' = Reaches(ago + t)

End(how, t) ==
    /\ doing' = how
    /\ Takes(t)
    /\ UNCHANGED <<asks, attempt>>

\* Only Gemini's client has a throttle.
Throttle ==
    /\ doing = "throttle"
    /\ client = "gemini"
    /\ spent' = spent + (MinInterval - ago)
    /\ ago' = 0
    /\ doing' = "request"
    /\ UNCHANGED <<client, stage, asks, attempt>>

\* The others send the request at once; the mock has its answer at hand.
SendAtOnce ==
    /\ doing = "throttle"
    /\ client # "gemini"
    /\ doing' = "request"
    /\ UNCHANGED <<client, stage, asks, attempt, ago, spent>>

Taking(t) == IF client = "mock" THEN t = 0 ELSE t \in RequestTimes

\* An answer that will do.  To classify, one that is no JSON does too: it falls back
\* on defaults.
Answered ==
    /\ doing = "request"
    /\ \E t \in RequestTimes \cup {0} : Taking(t) /\ End("answered", t)
    /\ UNCHANGED <<client, stage>>

\* analyse asks again, once, if the answer is not an AnalysisResult; classify fails
\* on JSON that is not an object.
Malformed ==
    /\ doing = "request"
    /\ client # "mock"
    /\ \E t \in RequestTimes :
          \/ /\ stage = "analyse" /\ asks = 1
             /\ asks' = 2
             /\ attempt' = 1
             /\ doing' = "throttle"
             /\ Takes(t)
          \/ (stage = "classify" \/ asks = 2) /\ End("failed", t)
    /\ UNCHANGED <<client, stage>>

\* A rate limit or an overload: Gemini's client tries again after a delay.
Overloaded ==
    /\ doing = "request"
    /\ client = "gemini"
    /\ \E t \in RequestTimes :
          \/ /\ ~LastAttempt
             /\ \E d \in Delays(attempt) : Takes(t + d)
             /\ attempt' = attempt + 1
             /\ doing' = "throttle"
             /\ UNCHANGED asks
          \/ LastAttempt /\ End("failed", t)
    /\ UNCHANGED <<client, stage>>

\* Any other error ends the stage at once, and with Anthropic's client each does.
Broken ==
    /\ doing = "request"
    /\ client # "mock"
    /\ \E t \in RequestTimes : End("failed", t)
    /\ UNCHANGED <<client, stage>>

LlmNext == Throttle \/ SendAtOnce \/ Answered \/ Malformed \/ Overloaded \/ Broken

LlmSpec == LlmInit /\ [][LlmNext]_llmVars

-------------------------------------------------------------------------------
\* All that a stage may spend on throttling, requests, delays, retries and the
\* second try of analyse fits into its lease, so that no other worker takes the job
\* over meanwhile: for requests that take no longer than RequestTimes.
StageFitsLease == spent <= Lease

\* The most that the delays before attempt n add up to.
MaxDelays(n) == 13 * (2 ^ n - 2)

\* Settings under which it does, whatever the model answers: twice MaxRetries requests
\* of at most so long, none before MinInterval has passed since the one before, and
\* the delays between them.
LeaseSuffices ==
    \E longest \in 0..Lease :
        /\ MinInterval <= longest
        /\ \A t \in RequestTimes : t <= longest
        /\ MinInterval + 2 * (MaxRetries * longest) + 2 * MaxDelays(MaxRetries) <= Lease
===============================================================================
