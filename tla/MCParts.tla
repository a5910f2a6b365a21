-------------------------------- MODULE MCParts --------------------------------
(***************************************************************************)
(* Instances, for TLC, of the components that share nothing with the queue  *)
(* and with each other.  One run checks them all: "part" says which one it  *)
(* is that moves, and the others rest in one state, so that the states of   *)
(* the components add up and do not multiply.                               *)
(***************************************************************************)
EXTENDS RateLimiter, CallPage, Scorecard, Diarise, QuoteGate, Redaction, LlmClient, Ingest, TLC

Sequence == INSTANCE SequencesExt

VARIABLE part

vars == <<part, limiterVars, pageVars, cardVars, diariseVars, quoteVars, redactionVars, llmVars, ingestVars>>

-------------------------------------------------------------------------------
\* The values of constants that a .cfg cannot hold.
ASSUME SettingsOfTheClient == LeaseSuffices

MCSelects == <<"call", "flags", "jobs">>

MCPoints == [needs |-> 5, product |-> 3, objection |-> 4, compliance |-> 5, next |-> 3]

\* Composites below, at and above the cap; a dimension missing, and one marked twice.
MCMarks ==
    {<<[dimension |-> "needs", score |-> a], [dimension |-> "product", score |-> 2],
       [dimension |-> "objection", score |-> b], [dimension |-> "compliance", score |-> c],
       [dimension |-> d, score |-> e]>> :
     a \in {0, 5}, b \in {2, 3}, c \in {2, 5}, d \in {"next", "needs"}, e \in {0, 2, 4} }

Serious == [critical |-> TRUE, cited |-> TRUE, sure |-> TRUE, speaker |-> "advisor"]
\* A finding that earns the cap, and each way not to.
MCFindings ==
    {Serious, [Serious EXCEPT !.critical = FALSE], [Serious EXCEPT !.cited = FALSE],
     [Serious EXCEPT !.sure = FALSE], [Serious EXCEPT !.speaker = "customer"],
     [Serious EXCEPT !.speaker = "unknown"]}

Spaced(words) ==
    IF words = <<>> THEN <<>>
    ELSE Sequence!FoldLeft(LAMBDA text, word : text \o <<Space>> \o word, Head(words), Tail(words))
TextsOf(words, n) == {Spaced(ws) : ws \in UNION {[1..k -> words] : k \in 0..n}}

\* Words that share letters, and a long one with two spellings: one wrong letter in
\* seven is alike enough, and is not with a word that is wrong altogether.
Short == {<<"a">>, <<"a", "b">>, <<"c", "a">>}
Long == <<"a", "b", "c", "c", "a", "b", "c">>
Misspelt == <<"a", "b", "c", "a", "a", "b", "c">>

MCQuotes ==
    TextsOf(Short, 2) \cup {Spaced(ws) : ws \in {<<Long>>, <<Misspelt>>, <<<<"a">>, Long>>,
                                              <<<<"c", "a">>, Misspelt, <<"a", "b">>>>}}
MCSegments ==
    {<<s, t>> : s \in TextsOf(Short, 3) \cup {Spaced(<<<<"a", "b">>, Misspelt, <<"a">>>>),
                                            Spaced(<<<<"c", "a">>, Long, <<"a", "b">>, <<"a">>>>)},
                t \in {<<>>, <<"a", "b">>, Long, Spaced(<<<<"a">>, <<"a", "b">>, <<"c", "a">>>>)} }

\* Texts of up to three tokens of any kind, and longer ones with broken up numbers.
Group(digits, high) == <<"group", digits, high>>
Plain == {<<kind, 0, FALSE>> : kind \in {"word", "email", "pan", "keyword"}}
Texts(kinds, lengths) ==
    {[i \in DOMAIN s |-> Token(s[i][1], s[i][2], s[i][3], i)] : s \in UNION {[1..n -> kinds] : n \in lengths} }
MCTexts ==
    Texts(Plain \cup {Group(4, FALSE), Group(8, TRUE), Group(10, TRUE), Group(12, FALSE), Group(16, FALSE)}, 0..3)
       \cup Texts({<<"word", 0, FALSE>>, <<"keyword", 0, FALSE>>, Group(4, FALSE)}, 4..6)
CardNumbers(text) ==
    {Places(SubSeq(text, p[1], p[2])) :
        p \in {q \in (1..Len(text)) \X (1..Len(text)) :
                  q[1] <= q[2] /\ LooksLikeCard(SubSeq(text, q[1], q[2]))} }

-------------------------------------------------------------------------------
PageRests ==
    /\ db = [stage |-> 0, edits |-> 0]
    /\ asking = NotAsking /\ late = <<>>
    /\ shown = NoData /\ error = FALSE /\ dispute = "no"

LlmRests ==
    /\ client = "mock" /\ stage = "classify" /\ doing = "answered"
    /\ asks = 1 /\ attempt = 1 /\ ago = 0 /\ spent = 0

Init ==
    /\ part \in {"limiter", "page", "card", "diarise", "quote", "redaction", "llm", "ingest"}
    /\ LimiterInit /\ IngestInit
    /\ IF part = "page" THEN PageInit ELSE PageRests
    /\ IF part = "card"
       THEN \E marks \in MCMarks, findings \in [Findings -> MCFindings] : CardInit(marks, findings)
       ELSE CardInit(<<>>, <<>>)
    /\ IF part = "diarise"
       THEN \E n \in 0..5, ls \in {"advisor", "unknown"} : DiariseInit([i \in 1..n |-> ls])
       ELSE DiariseInit(<<>>)
    /\ IF part = "quote"
       THEN \E quote \in MCQuotes, segments \in MCSegments : QuoteInit(quote, segments)
       ELSE QuoteInit(<<>>, <<>>)
    /\ IF part = "redaction"
       THEN \E text \in MCTexts : \E cards \in SUBSET CardNumbers(text) : RedactionInit(text, cards)
       ELSE RedactionInit(<<>>, {})
    /\ IF part = "llm" THEN LlmInit ELSE LlmRests

Next ==
    /\ UNCHANGED part
    /\ \/ part = "limiter"   /\ LimiterNext
       \/ part = "page"      /\ PageNext
       \/ part = "card"      /\ CardNext
       \/ part = "diarise"   /\ DiariseNext
       \/ part = "quote"     /\ QuoteNext
       \/ part = "redaction" /\ RedactionNext
       \/ part = "llm"       /\ LlmNext
       \/ part = "ingest"    /\ IngestNext
    /\ part # "limiter"   => UNCHANGED limiterVars
    /\ part # "page"      => UNCHANGED pageVars
    /\ part # "card"      => UNCHANGED cardVars
    /\ part # "diarise"   => UNCHANGED diariseVars
    /\ part # "quote"     => UNCHANGED quoteVars
    /\ part # "redaction" => UNCHANGED redactionVars
    /\ part # "llm"       => UNCHANGED llmVars
    /\ part # "ingest"    => UNCHANGED ingestVars

Spec == Init /\ [][Next]_vars

Symmetry == Permutations(Deliverers) \cup Permutations(Playable)
===============================================================================
