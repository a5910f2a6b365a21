------------------------------- MODULE QuoteGate -------------------------------
(***************************************************************************)
(* The quote gate (analysis/verify.py): a quote is looked for in the        *)
(* segments of a call, window by window, and stands if one of them is like  *)
(* enough.                                                                  *)
(*                                                                         *)
(* A text is a sequence of letters and spaces, normalised: lower case, no   *)
(* punctuation, one space between two words and none at either end.  Ratios *)
(* are compared as fractions.  What a quote is compared with is below 200   *)
(* characters: from there on difflib ignores frequent ones (autojunk).      *)
(***************************************************************************)
EXTENDS Integers, Sequences, FiniteSets

CONSTANTS Letters, \* what words are made of
          NotAsked \* verify_quote has not been called

Space == " "
AutoJunk == 200
Characters == Letters \cup {Space}

ASSUME SpaceIsNoLetter == Space \notin Letters

VARIABLES asked,   \* the quote and the segments that verify_quote is called with
          match    \* what it returned: found or not, and in which segment, or in none

quoteVars == <<asked, match>>

\* What _normalise returns.
Normalised ==
    {text \in Seq(Characters) :
        \A i \in DOMAIN text : text[i] = Space => /\ 1 < i /\ i < Len(text)
                                                /\ text[i + 1] # Space}

\* Words, split at the spaces.
WordCount(text) ==
    IF text = <<>> THEN 0 ELSE 1 + Cardinality({i \in DOMAIN text : text[i] = Space})
WordStarts(text) == {i \in DOMAIN text : i = 1 \/ text[i - 1] = Space}
WordEnds_OneShort(text) == {i \in DOMAIN text : i < Len(text) /\ text[i + 1] = Space}
WordEnds(text) == {i \in DOMAIN text : i = Len(text) \/ text[i + 1] = Space}

\* " ".join(words[i:k]): words that the text has in a row.
Runs(text) == {SubSeq(text, p[1], p[2]) : p \in WordStarts(text) \X WordEnds(text)}

\* difflib's find_longest_match, in the characters from r[1] to before r[2] of a and
\* from r[3] to before r[4] of b: the longest common block, the leftmost one.
Blocks(a, b, r) ==
    {blk \in (r[1]..(r[2] - 1)) \X (r[3]..(r[4] - 1)) \X (1..Len(a)) :
        /\ blk[1] + blk[3] <= r[2]
        /\ blk[2] + blk[3] <= r[4]
        /\ \A d \in 0..(blk[3] - 1) : a[blk[1] + d] = b[blk[2] + d]}
Better(x, y) ==
    \/ x[3] > y[3]
    \/ x[3] = y[3] /\ x[1] < y[1]
    \/ x[3] = y[3] /\ x[1] = y[1] /\ x[2] <= y[2]
LongestBlock(blocks) == CHOOSE x \in blocks : \A y \in blocks : Better(x, y)

\* Which characters of a and b are matched: the longest block, and what within says
\* of the parts before it and behind it.
MatchedIn(within, a, b, r) ==
    LET blocks == Blocks(a, b, r)
        x == LongestBlock(blocks)
    IN IF blocks = {} THEN {}
       ELSE {<<x[1] + d, x[2] + d>> : d \in 0..(x[3] - 1)}
               \cup within[<<r[1], x[1], r[3], x[2]>>]
               \cup within[<<x[1] + x[3], r[2], x[2] + x[3], r[4]>>]

Limits(text) == 1..(Len(text) + 1)
Parts(a, b) == Limits(a) \X Limits(a) \X Limits(b) \X Limits(b)
\* get_matching_blocks
Matching(a, b) ==
    LET within[r \in Parts(a, b)] == MatchedIn(within, a, b, r)
    IN within[<<1, Len(a) + 1, 1, Len(b) + 1>>]

\* SequenceMatcher.ratio: twice the matches, of so many characters.
Ratio(a, b) == [of |-> Len(a) + Len(b), matched |-> 2 * Cardinality(Matching(a, b))]
Above(r, s) == r.matched * s.of > s.matched * r.of
\* DEFAULT_THRESHOLD
Alike(r) == 100 * r.matched >= 85 * r.of
Nought == [of |-> 1, matched |-> 0]

\* What a quote is compared with: every window of as many words, or the whole segment
\* if it has no more.
Candidates(quote, segment) ==
    IF segment = <<>> THEN {}
    ELSE IF WordCount(segment) <= WordCount(quote) THEN {segment}
    ELSE {run \in Runs(segment) : WordCount(run) = WordCount(quote)}

Ratios(quote, segment) == {Ratio(quote, c) : c \in Candidates(quote, segment)}

\* r > best_ratio
Beats(r, best) == Above(r, best)

\* The ratios, segment by segment.
Tried(quote, segments) ==
    UNION {{[segment |-> i, ratio |-> r] : r \in Ratios(quote, segments[i])} : i \in DOMAIN segments}

\* What the loop keeps: a later segment that is as good does not count.
BestOf(tried) ==
    {x \in tried : /\ Beats(x.ratio, Nought)
                   /\ \A y \in tried : /\ ~Beats(y.ratio, x.ratio)
                                       /\ y.segment < x.segment => Beats(x.ratio, y.ratio)}

verify_quote(quote, segments) ==
    LET kept == BestOf(Tried(quote, segments))
        best == CHOOSE x \in kept : TRUE
    IN IF quote = <<>> \/ kept = {} THEN [found |-> FALSE, segment |-> 0]
       ELSE [found |-> Alike(best.ratio), segment |-> best.segment]

QuoteInit(quote, segments) ==
    /\ asked = [quote |-> quote, segments |-> segments]
    /\ match = NotAsked

QuoteNext ==
    /\ match = NotAsked
    /\ match' = verify_quote(asked.quote, asked.segments)
    /\ UNCHANGED asked

\* Any quote, and any segments.
QuoteSpec ==
    /\ \E quote \in Normalised, segments \in Seq(Normalised) :
          /\ \A i \in DOMAIN segments : \A c \in Candidates(quote, segments[i]) : Len(c) < AutoJunk
          /\ QuoteInit(quote, segments)
    /\ [][QuoteNext]_quoteVars

-------------------------------------------------------------------------------
\* The segment has the quote somewhere, from the start of a word to the end of one.
Occurs(quote, segment) ==
    \E i \in DOMAIN segment :
        LET k == i + Len(quote) - 1
        IN  /\ k <= Len(segment)
            /\ SubSeq(segment, i, k) = quote
            /\ i = 1 \/ segment[i - 1] = Space
            /\ k = Len(segment) \/ segment[k + 1] = Space

\* The segment has words in a row, no more than the quote has, in which at least 17 in
\* 23 of the quote's characters stand in the quote's order (of two texts with a ratio
\* of 0.85 the shorter one cannot be matched more often than it is long).
StandsIn(quote, segment) ==
    \E run \in Runs(segment) :
        LET pairs == Matching(quote, run)
        IN  /\ WordCount(run) <= WordCount(quote)
            /\ \A x \in pairs : quote[x[1]] = run[x[2]]
            /\ \A x, y \in pairs : x[1] < y[1] <=> x[2] < y[2]
            /\ 23 * Cardinality(pairs) >= 17 * Len(quote)

\* The gate lets through what was said and stops what was not (verify.py, "the
\* model cannot assert without citing"): words that a segment has in a row, at its
\* very end too, are found, and cited where they were first said; what is found, with
\* words misspelt or not, stands in the segment that is cited, most of its characters
\* in their order; and no words are found nowhere.
QuotesAreCited ==
    match # NotAsked =>
        LET quote == asked.quote
            segs  == asked.segments
            exact == {i \in DOMAIN segs : quote # <<>> /\ Occurs(quote, segs[i])}
        IN /\ exact # {} => /\ match.found
                           /\ match.segment \in exact
                           /\ \A i \in exact : match.segment <= i
           /\ match.found => /\ quote # <<>>
                            /\ match.segment \in DOMAIN segs
                            /\ StandsIn(quote, segs[match.segment])
===============================================================================
