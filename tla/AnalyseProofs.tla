---------------------------- MODULE AnalyseProofs ----------------------------
(***************************************************************************)
(* What holds of the parts of analyse: how long it asks the LLM, for any   *)
(* settings, what it makes of the answer, for any marks and findings, and  *)
(* which quotes it lets through, for any quote and segments.               *)
(***************************************************************************)
EXTENDS LlmClient, Scorecard, QuoteGate, FiniteSetTheorems, SequenceTheorems, WellFoundedInduction, TLAPS

(***************************************************************************)
(* Powers of two, by counting subsets.                                     *)
(***************************************************************************)

LEMMA SubsetsOfInterval ==
    ASSUME NEW n \in Nat
    PROVE  /\ IsFiniteSet(SUBSET (1..n))
           /\ Cardinality(SUBSET (1..n)) = 2 ^ n
           /\ 2 ^ n \in Nat
<1>1. IsFiniteSet(1..n) /\ Cardinality(1..n) = n
  BY FS_Interval
<1>2. IsFiniteSet(SUBSET (1..n)) /\ Cardinality(SUBSET (1..n)) = 2 ^ n
  BY <1>1, FS_SUBSET
<1>. QED  BY <1>2, FS_CardinalityType

LEMMA PowersGrow ==
    ASSUME NEW m \in Nat, NEW n \in Nat, m <= n
    PROVE  2 ^ m <= 2 ^ n
<1>. DEFINE small == SUBSET (1..m)
            large == SUBSET (1..n)
<1>1. small \in SUBSET large
  OBVIOUS
<1>2. IsFiniteSet(large) /\ Cardinality(large) = 2 ^ n /\ Cardinality(small) = 2 ^ m
  BY SubsetsOfInterval
<1>. HIDE DEF small, large
<1>3. Cardinality(small) <= Cardinality(large)
  BY <1>1, <1>2, FS_Subset
<1>. QED  BY <1>2, <1>3

\* Each subset of 1..n is one of 1..n+1, and another one with n+1.
LEMMA PowersDouble ==
    ASSUME NEW n \in Nat
    PROVE  2 ^ n + 2 ^ n <= 2 ^ (n + 1)
<1>. DEFINE without == SUBSET (1..n)
            with == {s \in SUBSET (1..(n + 1)) : n + 1 \in s}
            add == [s \in without |-> s \cup {n + 1}]
<1>1. IsFiniteSet(without) /\ Cardinality(without) = 2 ^ n /\ 2 ^ n \in Nat
  BY SubsetsOfInterval
<1>2. /\ IsFiniteSet(SUBSET (1..(n + 1)))
      /\ Cardinality(SUBSET (1..(n + 1))) = 2 ^ (n + 1)
      /\ 2 ^ (n + 1) \in Nat
  BY SubsetsOfInterval, n + 1 \in Nat
<1>3. with \in SUBSET (SUBSET (1..(n + 1)))
  OBVIOUS
<1>4. IsFiniteSet(with) /\ Cardinality(with) \in Nat
  BY <1>2, <1>3, FS_Subset, FS_CardinalityType
<1>5. add \in Injection(without, with)
  <2>1. \A s \in without : s \cup {n + 1} \in with /\ n + 1 \notin s
    OBVIOUS
  <2>2. add \in [without -> with]
    BY <2>1
  <2>3. \A s, t \in without : s \cup {n + 1} = t \cup {n + 1} => s = t
    BY <2>1
  <2>4. \A s, t \in without : add[s] = add[t] => s = t
    BY <2>3
  <2>. QED  BY <2>2, <2>4 DEF Injection, IsInjective
<1>6. 2 ^ n <= Cardinality(with)
  BY <1>1, <1>4, <1>5, FS_Injection
<1>7. without \cap with = {}
  OBVIOUS
<1>9. without \cup with \in SUBSET (SUBSET (1..(n + 1)))
  OBVIOUS
<1>. HIDE DEF without, with, add
<1>8. /\ IsFiniteSet(without \cup with)
      /\ Cardinality(without \cup with) = 2 ^ n + Cardinality(with)
  <2>1. /\ IsFiniteSet(without \cup with)
        /\ Cardinality(without \cup with) = 2 ^ n + Cardinality(with) - Cardinality(without \cap with)
    BY <1>1, <1>4, FS_Union
  <2>2. Cardinality(without \cap with) = 0
    BY <1>7, FS_EmptySet
  <2>. QED  BY <1>1, <1>4, <2>1, <2>2
<1>10. Cardinality(without \cup with) <= 2 ^ (n + 1)
  BY <1>2, <1>9, FS_Subset
<1>. QED  BY <1>1, <1>2, <1>4, <1>6, <1>8, <1>10

-------------------------------------------------------------------------------
(***************************************************************************)
(* How long a stage asks the LLM.                                          *)
(***************************************************************************)

\* What may be spent before attempt n of call a, if no request takes longer than this.
Allowed(longest, a, n) ==
    MinInterval + (a - 1) * (MaxRetries * longest + MaxDelays(MaxRetries))
                + (n - 1) * longest + MaxDelays(n)

Longest(longest) ==
    /\ longest \in Nat
    /\ MinInterval <= longest
    /\ \A t \in RequestTimes : t <= longest
    /\ MinInterval + 2 * (MaxRetries * longest) + 2 * MaxDelays(MaxRetries) <= Lease

LlmTypeOK ==
    /\ asks \in 1..2
    /\ attempt \in 1..MaxRetries
    /\ doing \in {"throttle", "request", "answered", "failed"}
    /\ ago \in 0..MinInterval
    /\ spent \in Nat

\* With Gemini's client a request begins with the throttle, so that what is left of the
\* interval counts as spent; the other clients try each call once.
SpentInv(longest) ==
    /\ client = "gemini" =>
          /\ doing = "throttle" => spent + (MinInterval - ago) <= Allowed(longest, asks, attempt)
          /\ doing = "request" => ago = 0 /\ spent <= Allowed(longest, asks, attempt)
    /\ client # "gemini" =>
          /\ attempt = 1
          /\ doing \in {"throttle", "request"} => spent <= Allowed(longest, asks, attempt)
    /\ spent <= Lease

LlmInv(longest) == LlmTypeOK /\ SpentInv(longest)

LEMMA DelaysGrow ==
    ASSUME LlmAssumption, NEW n \in 1..MaxRetries
    PROVE  /\ MaxDelays(n) \in Nat
           /\ MaxDelays(n) <= MaxDelays(MaxRetries)
           /\ n < MaxRetries => MaxDelays(n) + 13 * Shorter(30, 2 ^ n) <= MaxDelays(n + 1)
<1>1. /\ 2 ^ 1 = 2 /\ 1 \in Nat
      /\ MaxRetries \in Nat /\ n \in Nat
      /\ 1 <= n /\ n <= MaxRetries
  BY DEF LlmAssumption
<1>2. 2 ^ 1 <= 2 ^ n /\ 2 ^ n <= 2 ^ MaxRetries
  BY <1>1, PowersGrow, Zenon
<1>3. 2 ^ n \in Nat /\ 2 ^ MaxRetries \in Nat /\ 2 ^ (n + 1) \in Nat
  BY <1>1, n + 1 \in Nat, SubsetsOfInterval
<1>4. 2 ^ n + 2 ^ n <= 2 ^ (n + 1)
  BY <1>1, PowersDouble
<1>. QED  BY <1>1, <1>2, <1>3, <1>4 DEF MaxDelays, Shorter

LEMMA AllowedGrows ==
    ASSUME LlmAssumption, NEW longest \in Nat, Longest(longest),
           NEW a \in 1..2, NEW n \in 1..MaxRetries
    PROVE  /\ Allowed(longest, a, n) \in Nat
           /\ MinInterval <= Allowed(longest, a, n)
           /\ Allowed(longest, a, n) + longest <= Lease
           /\ n < MaxRetries =>
                 Allowed(longest, a, n) + longest + 13 * Shorter(30, 2 ^ n) <= Allowed(longest, a, n + 1)
           /\ a = 1 => Allowed(longest, a, n) + longest <= Allowed(longest, 2, 1)
<1>. DEFINE d == MaxDelays(n)
            e == MaxDelays(n + 1)
            f == MaxDelays(MaxRetries)
            p == MaxRetries * longest
            q == (n - 1) * longest
            x == 13 * Shorter(30, 2 ^ n)
<1>1. /\ MinInterval \in Nat /\ Lease \in Nat /\ MaxRetries \in Nat \ {0} /\ n \in Nat
  BY DEF LlmAssumption
<1>2. /\ d \in Nat /\ f \in Nat /\ d <= f
      /\ n < MaxRetries => d + x <= e
      /\ MaxDelays(1) = 0
  <2>1. 2 ^ 1 = 2
    OBVIOUS
  <2>. QED  BY <2>1, DelaysGrow, <1>1 DEF MaxDelays
<1>3. n < MaxRetries => e \in Nat /\ x \in Nat
  <2>1. 2 ^ n \in Nat
    BY <1>1, SubsetsOfInterval
  <2>. QED  BY <2>1, DelaysGrow, <1>1 DEF Shorter
<1>4. p \in Nat /\ q \in Nat /\ q + longest <= p
  <2>1. q + longest = n * longest
    BY <1>1
  <2>2. n * longest <= p
    BY <1>1
  <2>3. q \in Nat /\ p \in Nat
    BY <1>1
  <2>. QED  BY <2>1, <2>2, <2>3
<1>5. MinInterval + 2 * p + 2 * f <= Lease
  BY DEF Longest
<1>6. ((n + 1) - 1) * longest = q + longest /\ (1 - 1) * longest = 0
  BY <1>1
<1>7. /\ Allowed(longest, 1, n) = MinInterval + q + d
      /\ Allowed(longest, 2, n) = MinInterval + (p + f) + q + d
      /\ Allowed(longest, 1, n + 1) = MinInterval + (q + longest) + e
      /\ Allowed(longest, 2, n + 1) = MinInterval + (p + f) + (q + longest) + e
      /\ Allowed(longest, 2, 1) = MinInterval + (p + f)
  <2>. HIDE DEF p, q, d, e, f
  <2>. QED  BY <1>1, <1>2, <1>3, <1>4, <1>6 DEF Allowed, p, q, d, e, f
<1>10. x = 13 * Shorter(30, 2 ^ n)
  OBVIOUS
<1>. HIDE DEF p, q, d, e, f, x
<1>8. CASE a = 1
  BY <1>1, <1>2, <1>3, <1>4, <1>5, <1>7, <1>8, <1>10
<1>9. CASE a = 2
  BY <1>1, <1>2, <1>3, <1>4, <1>5, <1>7, <1>9, <1>10
<1>. QED  BY <1>8, <1>9, a \in {1, 2}

\* A request of at most that long ends in time, and so does a delay after it.
LEMMA LlmStep ==
    ASSUME LlmAssumption, NEW longest \in Nat, Longest(longest),
           LlmInv(longest), [LlmNext]_llmVars
    PROVE  LlmInv(longest)'
<1>. USE DEF LlmInv, LlmTypeOK
<1>. DEFINE now == Allowed(longest, asks, attempt)
<1>1. /\ RequestTimes \subseteq Nat /\ MinInterval \in Nat /\ Lease \in Nat
      /\ MaxRetries \in Nat \ {0} /\ MinInterval <= longest
      /\ \A t \in RequestTimes : t <= longest
  BY DEF LlmAssumption, Longest
<1>2. /\ now \in Nat /\ MinInterval <= now /\ now + longest <= Lease
      /\ attempt < MaxRetries =>
            now + longest + 13 * Shorter(30, 2 ^ attempt) <= Allowed(longest, asks, attempt + 1)
      /\ asks = 1 => now + longest <= Allowed(longest, 2, 1)
  BY AllowedGrows
<1>3. /\ 1 \in 1..2 /\ 2 \in 1..2 /\ 1 \in 1..MaxRetries
      /\ Allowed(longest, 2, 1) \in Nat /\ Allowed(longest, 2, 1) + longest <= Lease
  BY <1>1, AllowedGrows
<1>4. CASE Throttle
  <2>1. client = "gemini" /\ spent' = spent + (MinInterval - ago) /\ spent' <= now
    BY <1>4 DEF Throttle, SpentInv
  <2>. QED  BY <1>1, <1>2, <1>4, <2>1 DEF Throttle, SpentInv
<1>5. CASE SendAtOnce
  BY <1>1, <1>5 DEF SendAtOnce, SpentInv
<1>6. ASSUME NEW t \in RequestTimes \cup {0}, doing = "request"
      PROVE  /\ t \in Nat /\ spent + t <= now + longest
             /\ Reaches(ago + t) \in 0..MinInterval
             /\ client = "gemini" => ago = 0
  BY <1>1, <1>2, <1>6 DEF SpentInv, Reaches, Shorter
<1>7. ASSUME doing = "request", UNCHANGED client,
             NEW how \in {"answered", "failed"}, NEW t \in RequestTimes \cup {0}, End(how, t)
      PROVE  LlmInv(longest)'
  BY <1>1, <1>2, <1>6, <1>7 DEF End, Takes, SpentInv
<1>8. CASE Answered
  BY <1>7, <1>8 DEF Answered
<1>9. CASE Malformed
  <2>1. ASSUME NEW t \in RequestTimes, asks = 1, asks' = 2, attempt' = 1,
               doing' = "throttle", Takes(t)
        PROVE  LlmInv(longest)'
    <3>1. /\ doing = "request" /\ t \in Nat /\ spent' = spent + t /\ ago' = Reaches(ago + t)
          /\ UNCHANGED client
      BY <1>1, <1>9, <2>1 DEF Malformed, Takes
    <3>2. LlmTypeOK'
      BY <1>1, <1>6, <2>1, <3>1
    <3>3. spent' <= Allowed(longest, 2, 1)
      BY <1>2, <1>3, <1>6, <2>1, <3>1
    <3>4. client = "gemini" => spent' + (MinInterval - ago') <= Allowed(longest, 2, 1)
      <4>1. client = "gemini" => ago = 0 /\ spent <= now
        BY <3>1 DEF SpentInv
      <4>2. client = "gemini" => ago' = IF MinInterval < t THEN MinInterval ELSE t
        BY <1>1, <3>1, <4>1 DEF Reaches, Shorter
      <4>. QED  BY <1>1, <1>2, <1>3, <2>1, <3>1, <4>1, <4>2
    <3>. QED  BY <1>1, <1>3, <2>1, <3>1, <3>2, <3>3, <3>4 DEF SpentInv
  <2>. QED  BY <1>7, <1>9, <2>1 DEF Malformed
<1>10. CASE Overloaded
  <2>1. doing = "request" /\ client = "gemini" /\ ago = 0 /\ spent <= now /\ UNCHANGED <<client, stage>>
    BY <1>10 DEF Overloaded, SpentInv
  <2>2. ASSUME NEW t \in RequestTimes, ~LastAttempt, NEW d \in Delays(attempt), Takes(t + d),
               attempt' = attempt + 1, doing' = "throttle", UNCHANGED asks
        PROVE  LlmInv(longest)'
    <3>. DEFINE then == Allowed(longest, asks, attempt + 1)
                base == Shorter(30, 2 ^ attempt)
    <3>1. attempt + 1 \in 1..MaxRetries /\ attempt < MaxRetries
      BY <1>1, <2>2 DEF LastAttempt
    <3>2. then \in Nat /\ then + longest <= Lease /\ now + longest + 13 * base <= then
      BY <1>2, <3>1, AllowedGrows
    <3>3. base \in Nat /\ d \in Nat /\ d <= 13 * base
      <4>1. 2 ^ attempt \in Nat
        BY SubsetsOfInterval, attempt \in Nat
      <4>2. base \in Nat
        BY <4>1 DEF Shorter
      <4>3. d = 7 * base \/ d = 13 * base
        BY <2>2 DEF Delays
      <4>. HIDE DEF base
      <4>. QED  BY <4>2, <4>3
    <3>. HIDE DEF base, then
    <3>4. t \in Nat /\ t <= longest /\ spent' = spent + t + d
      BY <1>1, <2>2, <3>3 DEF Takes
    <3>5. spent' <= then /\ spent' \in Nat
      BY <1>2, <2>1, <3>2, <3>3, <3>4
    <3>6. ago' = IF MinInterval < t + d THEN MinInterval ELSE t + d
      BY <1>1, <2>1, <2>2, <3>3, <3>4 DEF Takes, Reaches, Shorter
    <3>7. spent' + (MinInterval - ago') <= then
      BY <1>1, <1>2, <2>1, <3>2, <3>3, <3>4, <3>6
    <3>8. spent' <= Lease
      BY <1>1, <3>2, <3>5
    <3>9. then = Allowed(longest, asks', attempt')
      BY <2>2 DEF then
    <3>. QED  BY <1>1, <2>1, <2>2, <3>1, <3>3, <3>4, <3>5, <3>6, <3>7, <3>8, <3>9 DEF SpentInv
  <2>. QED  BY <1>7, <1>10, <2>1, <2>2 DEF Overloaded
<1>11. CASE Broken
  BY <1>7, <1>11 DEF Broken
<1>12. CASE UNCHANGED llmVars
  BY <1>12 DEF llmVars, SpentInv
<1>. QED  BY <1>4, <1>5, <1>8, <1>9, <1>10, <1>11, <1>12 DEF LlmNext

\* Under settings that leave room for it, the lease of a stage outlasts all of its
\* requests, delays and retries: for any settings of the client, any of the models
\* and any way that requests end.
THEOREM StageFitsLeaseHolds ==
    ASSUME LeaseSuffices
    PROVE  LlmSpec => []StageFitsLease
<1>1. PICK longest \in Nat : Longest(longest)
  BY LlmAssumption, LeaseSuffices DEF LeaseSuffices, Longest, LlmAssumption
<1>2. LlmInit => LlmInv(longest)
  <2>1. 1 \in 1..2 /\ 1 \in 1..MaxRetries /\ MinInterval \in Nat /\ Lease \in Nat
    BY LlmAssumption DEF LlmAssumption
  <2>2. /\ Allowed(longest, 1, 1) \in Nat /\ MinInterval <= Allowed(longest, 1, 1)
        /\ Allowed(longest, 1, 1) + longest <= Lease
    BY <1>1, <2>1, LlmAssumption, AllowedGrows
  <2>. QED  BY <2>1, <2>2 DEF LlmInit, LlmInv, LlmTypeOK, SpentInv
<1>3. LlmInv(longest) /\ [LlmNext]_llmVars => LlmInv(longest)'
  BY <1>1, LlmAssumption, LlmStep
<1>4. LlmInv(longest) => StageFitsLease
  BY DEF LlmInv, SpentInv, StageFitsLease
<1>. QED  BY <1>2, <1>3, <1>4, PTL DEF LlmSpec

-------------------------------------------------------------------------------
(***************************************************************************)
(* What the marks and findings of an answer come to.                       *)
(***************************************************************************)

\* Marks of different dimensions have one mark each.
LEMMA OneMarkEach ==
    ASSUME NEW marks \in Seq(Mark), NoRepeats(marks),
           NEW i \in DOMAIN marks, NEW j \in DOMAIN marks,
           marks[i].dimension = marks[j].dimension
    PROVE  i = j
<1>. DEFINE n == Len(marks)
            of == [k \in 1..n |-> marks[k].dimension]
<1>1. DOMAIN marks = 1..n /\ n \in Nat
  OBVIOUS
<1>2. of \in Surjection(1..n, Marked(marks))
  BY <1>1 DEF Surjection, Marked
<1>3. IsFiniteSet(1..n) /\ Cardinality(1..n) = n
  <2>. HIDE DEF n
  <2>. QED  BY <1>1, FS_Interval
<1>4. Cardinality(Marked(marks)) = n
  BY DEF NoRepeats
<1>5. of \in Injection(1..n, Marked(marks))
  BY <1>2, <1>3, <1>4, FS_SurjSameCardinalityImpliesInj
<1>6. of[i] = of[j] => i = j
  BY <1>1, <1>5 DEF Injection, IsInjective
<1>. QED  BY <1>1, <1>6

LEMMA MaxOfOne ==
    ASSUME NEW n \in Nat
    PROVE  Max({n}) = n
BY DEF Max

\* So the last mark of a dimension is any mark of it.
LEMMA AnyIsLast ==
    ASSUME NEW marks \in Seq(Mark), NoRepeats(marks)
    PROVE  AnyOf(marks) = {LastOf(marks)}
<1>1. ASSUME NEW d \in Marked(marks)
      PROVE  \E i \in DOMAIN marks :
                /\ marks[i].dimension = d
                /\ LastOf(marks)[d] = marks[i].score
                /\ \A j \in DOMAIN marks : marks[j].dimension = d => j = i
  <2>1. PICK i \in DOMAIN marks : marks[i].dimension = d
    BY DEF Marked
  <2>2. \A j \in DOMAIN marks : marks[j].dimension = d => j = i
    BY <2>1, OneMarkEach
  <2>3. {j \in DOMAIN marks : marks[j].dimension = d} = {i}
    BY <2>1, <2>2
  <2>4. LastOf(marks)[d] = marks[i].score
    BY <2>3, MaxOfOne DEF LastOf
  <2>. QED  BY <2>1, <2>2, <2>4
<1>2. \A i \in DOMAIN marks : marks[i] \in Mark
  OBVIOUS
<1>3. LastOf(marks) \in AnyOf(marks)
  <2>1. LastOf(marks) \in [Marked(marks) -> {marks[i].score : i \in DOMAIN marks}]
    <3>1. LastOf(marks) = [d \in Marked(marks) |-> LastOf(marks)[d]]
      BY DEF LastOf
    <3>. QED  BY <1>1, <3>1
  <2>2. \A d \in Marked(marks) : \E i \in DOMAIN marks :
           marks[i] = [dimension |-> d, score |-> LastOf(marks)[d]]
    BY <1>1, <1>2 DEF Mark
  <2>. QED  BY <2>1, <2>2 DEF AnyOf
<1>4. ASSUME NEW s \in AnyOf(marks)
      PROVE  s = LastOf(marks)
  <2>1. s \in [Marked(marks) -> {marks[i].score : i \in DOMAIN marks}]
    BY DEF AnyOf
  <2>2. ASSUME NEW d \in Marked(marks)
        PROVE  s[d] = LastOf(marks)[d]
    <3>1. PICK i \in DOMAIN marks : marks[i] = [dimension |-> d, score |-> s[d]]
      BY DEF AnyOf
    <3>. QED  BY <1>1, <3>1
  <2>3. DOMAIN LastOf(marks) = Marked(marks)
    BY DEF LastOf
  <2>4. LastOf(marks) = [d \in Marked(marks) |-> LastOf(marks)[d]]
    BY DEF LastOf
  <2>. QED  BY <2>1, <2>2, <2>4
<1>. QED  BY <1>3, <1>4

\* No marks, no cap.
LEMMA NothingIsNotCapped ==
    ASSUME NEW scores, DOMAIN scores = {}
    PROVE  \A b \in BOOLEAN : compute_composite(scores, b) = [composite |-> 0, capped |-> FALSE]
<1>1. Raw(scores) = 0
  BY DEF Raw, MapThenSumSet, MapThenFoldSet
<1>2. ~(Raw(scores) > COMPLIANCE_CAP)
  BY <1>1 DEF COMPLIANCE_CAP
<1>. QED  BY <1>1, <1>2, Zenon DEF compute_composite

\* The rows are those that analyse wrote, and the composite is that of the flags.
CardInv ==
    /\ answer \in [marks : Seq(Mark), findings : [Findings -> Finding]]
    /\ released \in BOOLEAN
    /\ card # Unscored =>
          /\ rows = answer.marks
          /\ DOMAIN flags = Cited(answer.findings)
          /\ \A f \in DOMAIN flags :
                /\ flags[f].critical = Critical(answer.findings[f])
                /\ flags[f].dismissed \in BOOLEAN
          /\ ~released /\ NoRepeats(answer.marks) =>
                card = compute_composite(LastOf(answer.marks), Standing(flags) # {})

LEMMA Recompute ==
    ASSUME NEW marks \in Seq(Mark), NoRepeats(marks), rows = marks, ~released, NEW fs, NEW gs,
           card = compute_composite(LastOf(marks), Standing(gs) # {})
    PROVE  Recomputed(fs) = {compute_composite(LastOf(marks), Standing(fs) # {})}
<1>1. CASE rows = <<>>
  <2>1. Recomputed(fs) = {card}
    BY <1>1 DEF Recomputed
  <2>2. DOMAIN LastOf(marks) = {}
    BY <1>1 DEF LastOf, Marked
  <2>. QED  BY <2>1, <2>2, NothingIsNotCapped
<1>2. CASE rows # <<>>
  <2>1. Recomputed(fs) = {compute_composite(scores, Standing(fs) # {}) : scores \in AnyOf(rows)}
    BY <1>2 DEF Recomputed
  <2>2. AnyOf(rows) = {LastOf(marks)}
    BY AnyIsLast
  <2>. QED  BY <2>1, <2>2
<1>. QED  BY <1>1, <1>2

LEMMA CardStep ==
    ASSUME CardInv, [CardNext]_cardVars
    PROVE  CardInv'
<1>1. CASE Analyse
  <2>1. /\ DOMAIN flags' = Cited(answer.findings)
        /\ \A f \in DOMAIN flags' : flags'[f] = [critical |-> Critical(answer.findings[f]), dismissed |-> FALSE]
    BY <1>1 DEF Analyse
  <2>. QED  BY <1>1, <2>1 DEF Analyse, CardInv
<1>2. ASSUME NEW f \in DOMAIN flags, NEW dismissed \in BOOLEAN, Resolve(f, dismissed)
      PROVE  CardInv'
  <2>1. /\ card # Unscored /\ card' \in Recomputed(flags')
        /\ flags' = [flags EXCEPT ![f].dismissed = dismissed]
        /\ UNCHANGED <<answer, rows, released>>
    BY <1>2 DEF Resolve
  <2>2. /\ DOMAIN flags' = Cited(answer.findings)
        /\ \A g \in DOMAIN flags' :
              /\ flags'[g].critical = Critical(answer.findings[g])
              /\ flags'[g].dismissed \in BOOLEAN
    BY <2>1 DEF CardInv
  <2>3. ~released /\ NoRepeats(answer.marks) =>
           card' = compute_composite(LastOf(answer.marks), Standing(flags') # {})
    <3>. SUFFICES ASSUME ~released, NoRepeats(answer.marks)
                  PROVE  card' = compute_composite(LastOf(answer.marks), Standing(flags') # {})
      BY <2>1
    <3>1. /\ answer.marks \in Seq(Mark) /\ rows = answer.marks
          /\ card = compute_composite(LastOf(answer.marks), Standing(flags) # {})
      BY <2>1 DEF CardInv
    <3>2. Recomputed(flags') = {compute_composite(LastOf(answer.marks), Standing(flags') # {})}
      BY <3>1, Recompute
    <3>. QED  BY <2>1, <3>2
  <2>. QED  BY <2>1, <2>2, <2>3 DEF CardInv
<1>3. CASE Release
  BY <1>3 DEF Release, CardInv
<1>4. CASE UNCHANGED cardVars
  BY <1>4 DEF cardVars, CardInv
<1>. QED  BY <1>1, <1>2, <1>3, <1>4 DEF CardNext

\* A finding that stands in the rows is one that earned the cap.
LEMMA StandingIsEarned ==
    ASSUME CardInv, card # Unscored
    PROVE  Standing(flags) # {} <=>
              \E f \in DOMAIN flags : Earned(answer.findings[f]) /\ ~flags[f].dismissed
<1>1. ASSUME NEW f \in DOMAIN flags
      PROVE  flags[f].critical <=> Earned(answer.findings[f])
  <2>1. answer.findings[f] \in Finding /\ answer.findings[f].cited
    BY DEF CardInv, Cited
  <2>2. flags[f].critical = Critical(answer.findings[f])
    BY DEF CardInv
  <2>. QED  BY <2>1, <2>2 DEF Finding, Earned, Critical
<1>. QED  BY <1>1 DEF Standing

\* Whatever the marks, the findings and the decisions on them, and in whatever order
\* the rows come: the cap is earned.
THEOREM CapIsEarnedHolds == CardSpec => []CapIsEarned
<1>2. (\E marks \in Seq(Mark), findings \in [Findings -> Finding] : CardInit(marks, findings)) => CardInv
  <2>. SUFFICES ASSUME NEW marks \in Seq(Mark), NEW findings \in [Findings -> Finding],
                       CardInit(marks, findings)
                PROVE  CardInv
    OBVIOUS
  <2>1. answer = [marks |-> marks, findings |-> findings] /\ card = Unscored /\ released = FALSE
    BY DEF CardInit
  <2>2. answer \in [marks : Seq(Mark), findings : [Findings -> Finding]]
    BY <2>1, Zenon
  <2>. QED  BY <2>1, <2>2 DEF CardInv
<1>3. CardInv /\ [CardNext]_cardVars => CardInv'
  BY CardStep
<1>4. CardInv => CapIsEarned
  <2>. SUFFICES ASSUME CardInv, card # Unscored, NoRepeats(answer.marks), ~released
                PROVE  card = compute_composite(LastOf(answer.marks),
                                 \E f \in DOMAIN flags : Earned(answer.findings[f]) /\ ~flags[f].dismissed)
    BY DEF CapIsEarned
  <2>1. card = compute_composite(LastOf(answer.marks), Standing(flags) # {})
    BY DEF CardInv
  <2>2. (Standing(flags) # {}) = \E f \in DOMAIN flags : Earned(answer.findings[f]) /\ ~flags[f].dismissed
    BY StandingIsEarned
  <2>. QED  BY <2>1, <2>2, Zenon
<1>. QED  BY <1>2, <1>3, <1>4, PTL DEF CardSpec

-------------------------------------------------------------------------------
(***************************************************************************)
(* The quote gate.  First, induction, for sets of numbers.                 *)
(***************************************************************************)

LEMMA LeastNumber ==
    ASSUME NEW S \in SUBSET Nat, S # {}
    PROVE  \E n \in S : \A m \in S : n <= m
<1>. DEFINE less == OpToRel(<, Nat)
<1>1. IsWellFoundedOn(less, Nat)
  BY NatLessThanWellFounded
<1>2. \A m, n \in Nat : <<m, n>> \in less <=> m < n
  BY DEF OpToRel
<1>. HIDE DEF less
<1>3. PICK n \in S : \A m \in S : ~(<<m, n>> \in less)
  BY <1>1, WFMin
<1>4. \A m \in S : ~(m < n)
  BY <1>2, <1>3, Zenon
<1>. QED  BY <1>3, <1>4

LEMMA GreatestNumber ==
    ASSUME NEW bound \in Nat, NEW S \in SUBSET (0..bound), S # {}
    PROVE  \E n \in S : \A m \in S : m <= n
<1>. DEFINE below == {bound - n : n \in S}
<1>1. below \in SUBSET Nat /\ below # {}
  <2>1. \A n \in S : bound - n \in Nat
    OBVIOUS
  <2>. QED  BY <2>1
<1>2. PICK d \in below : \A e \in below : d <= e
  BY <1>1, LeastNumber
<1>3. PICK n \in S : d = bound - n
  BY <1>2
<1>4. \A m \in S : bound - m \in below
  OBVIOUS
<1>5. \A m \in S : bound - n <= bound - m
  BY <1>2, <1>3, <1>4
<1>. QED  BY <1>3, <1>5

\* What holds of 0, and of the next number if it holds of one, holds of all.
LEMMA EveryNumber ==
    ASSUME NEW S \in SUBSET Nat, 0 \in S, \A n \in S : n + 1 \in S
    PROVE  \A n \in Nat : n \in S
<1>. SUFFICES ASSUME Nat \ S # {}  PROVE FALSE
  OBVIOUS
<1>1. PICK n \in Nat \ S : \A m \in Nat \ S : n <= m
  <2>1. Nat \ S \in SUBSET Nat
    OBVIOUS
  <2>. QED  BY <2>1, LeastNumber
<1>2. n # 0 /\ n - 1 \in Nat
  BY <1>1
<1>3. n - 1 \in S
  BY <1>1, <1>2
<1>4. n - 1 + 1 = n
  BY <1>1
<1>. QED  BY <1>1, <1>3, <1>4

-------------------------------------------------------------------------------
(***************************************************************************)
(* difflib: the recursion is sound, as parts get narrower.                 *)
(***************************************************************************)

Whole(a, b) == <<1, Len(a) + 1, 1, Len(b) + 1>>

\* There is a longest block.
LEMMA LongestBlockExists ==
    ASSUME NEW blocks \in SUBSET (Nat \X Nat \X Nat), blocks # {},
           NEW n \in Nat, \A x \in blocks : x[3] <= n
    PROVE  /\ LongestBlock(blocks) \in blocks
           /\ \A y \in blocks : Better(LongestBlock(blocks), y)
<1>. DEFINE sizes == {x[3] : x \in blocks}
<1>1. PICK k \in sizes : \A m \in sizes : m <= k
  <2>1. sizes \in SUBSET (0..n) /\ sizes # {}
    OBVIOUS
  <2>. HIDE DEF sizes
  <2>. QED  BY <2>1, GreatestNumber
<1>. DEFINE long   == {x \in blocks : x[3] = k}
            starts == {x[1] : x \in long}
<1>2. PICK i \in starts : \A m \in starts : i <= m
  <2>1. starts \in SUBSET Nat /\ starts # {}
    BY <1>1
  <2>. HIDE DEF starts
  <2>. QED  BY <2>1, LeastNumber
<1>. DEFINE left  == {x \in long : x[1] = i}
            there == {x[2] : x \in left}
<1>3. PICK j \in there : \A m \in there : j <= m
  <2>1. there \in SUBSET Nat /\ there # {}
    BY <1>2
  <2>. HIDE DEF there
  <2>. QED  BY <2>1, LeastNumber
<1>4. PICK x \in left : x[2] = j
  BY <1>3
<1>5. \A y \in blocks : Better(x, y)
  <2>. SUFFICES ASSUME NEW y \in blocks  PROVE Better(x, y)
    OBVIOUS
  <2>1. x[3] = k /\ x[1] = i /\ x[2] = j /\ x \in blocks
    BY <1>4
  <2>2. y[3] <= k
    BY <1>1
  <2>3. y[3] = k => i <= y[1]
    BY <1>2
  <2>4. y[3] = k /\ y[1] = i => j <= y[2]
    BY <1>3
  <2>5. k \in Nat /\ i \in Nat /\ j \in Nat /\ y[1] \in Nat /\ y[2] \in Nat /\ y[3] \in Nat
    BY <2>1
  <2>. HIDE DEF left, long, there, starts, sizes
  <2>. QED  BY <2>1, <2>2, <2>3, <2>4, <2>5 DEF Better
<1>6. x \in blocks
  BY <1>4
<1>. HIDE DEF left, long, there, starts, sizes
<1>. QED  BY <1>5, <1>6, Zenon DEF LongestBlock

LEMMA WithinLimits ==
    ASSUME NEW n \in Nat, NEW low \in 1..(n + 1), NEW high \in 1..(n + 1),
           NEW i \in low..(high - 1), NEW k \in Nat, k > 0, i + k <= high
    PROVE  i \in Nat /\ low <= i /\ i \in 1..(n + 1) /\ i + k \in 1..(n + 1)
OBVIOUS

LEMMA NotNegative ==
    ASSUME NEW low \in Nat, NEW high \in Nat, NEW i \in low..(high - 1)
    PROVE  i \in Nat
OBVIOUS

LEMMA BlockInLimits ==
    ASSUME NEW a \in Seq(Characters), NEW b \in Seq(Characters), NEW r \in Parts(a, b),
           NEW blocks, blocks = Blocks(a, b, r), blocks # {}
    PROVE  LET x == LongestBlock(blocks)
           IN /\ x \in blocks
              /\ \A y \in blocks : Better(x, y)
              /\ x = <<x[1], x[2], x[3]>>
              /\ x[1] \in Nat /\ x[2] \in Nat /\ x[3] \in Nat
              /\ x[3] > 0
              /\ r[1] <= x[1] /\ x[1] + x[3] <= r[2]
              /\ r[3] <= x[2] /\ x[2] + x[3] <= r[4]
              /\ \A d \in 0..(x[3] - 1) : a[x[1] + d] = b[x[2] + d]
              /\ <<r[1], x[1], r[3], x[2]>> \in Parts(a, b)
              /\ <<x[1] + x[3], r[2], x[2] + x[3], r[4]>> \in Parts(a, b)
<1>1. Len(a) \in Nat /\ Len(b) \in Nat
  OBVIOUS
<1>2. /\ r[1] \in 1..(Len(a) + 1) /\ r[2] \in 1..(Len(a) + 1)
      /\ r[3] \in 1..(Len(b) + 1) /\ r[4] \in 1..(Len(b) + 1)
  BY DEF Parts, Limits
<1>3. r[1] \in Nat /\ r[2] \in Nat /\ r[3] \in Nat /\ r[4] \in Nat /\ r[1] > 0 /\ r[3] > 0
  BY <1>2
<1>4. \A x \in blocks : /\ x = <<x[1], x[2], x[3]>>
                        /\ x[1] \in r[1]..(r[2] - 1) /\ x[2] \in r[3]..(r[4] - 1) /\ x[3] \in 1..Len(a)
                        /\ x[1] + x[3] <= r[2]
                        /\ x[2] + x[3] <= r[4]
                        /\ \A d \in 0..(x[3] - 1) : a[x[1] + d] = b[x[2] + d]
  BY DEF Blocks
<1>5. \A x \in blocks : x \in Nat \X Nat \X Nat /\ x[3] <= Len(a)
  <2>. SUFFICES ASSUME NEW x \in blocks  PROVE x \in Nat \X Nat \X Nat /\ x[3] <= Len(a)
    OBVIOUS
  <2>1. x[1] \in r[1]..(r[2] - 1) /\ x[2] \in r[3]..(r[4] - 1) /\ x[3] \in 1..Len(a)
    BY <1>4
  <2>2. x[3] \in Nat /\ x[3] <= Len(a)
    BY <1>1, <2>1
  <2>3. x[1] \in Nat /\ x[2] \in Nat
    BY <1>3, <2>1, NotNegative
  <2>. QED  BY <1>4, <2>2, <2>3
<1>6. LongestBlock(blocks) \in blocks /\ \A y \in blocks : Better(LongestBlock(blocks), y)
  <2>1. blocks \in SUBSET (Nat \X Nat \X Nat)
    BY <1>5
  <2>. QED  BY <1>1, <1>5, <2>1, LongestBlockExists
<1>. DEFINE x == LongestBlock(blocks)
<1>7. /\ x \in blocks
      /\ \A y \in blocks : Better(x, y)
      /\ x = <<x[1], x[2], x[3]>>
      /\ x[1] \in r[1]..(r[2] - 1) /\ x[2] \in r[3]..(r[4] - 1) /\ x[3] \in 1..Len(a)
      /\ x[1] + x[3] <= r[2]
      /\ x[2] + x[3] <= r[4]
      /\ \A d \in 0..(x[3] - 1) : a[x[1] + d] = b[x[2] + d]
  BY <1>4, <1>6
<1>. HIDE DEF x
<1>8. x[3] \in Nat /\ x[3] > 0
  <2>1. x[3] \in 1..Len(a)
    BY <1>7
  <2>. QED  BY <1>1, <2>1
<1>9. x[1] \in Nat /\ r[1] <= x[1] /\ x[1] \in 1..(Len(a) + 1) /\ x[1] + x[3] \in 1..(Len(a) + 1)
  <2>1. x[1] \in r[1]..(r[2] - 1) /\ x[1] + x[3] <= r[2]
    BY <1>7
  <2>. QED  BY <1>1, <1>2, <1>8, <2>1, WithinLimits
<1>10. x[2] \in Nat /\ r[3] <= x[2] /\ x[2] \in 1..(Len(b) + 1) /\ x[2] + x[3] \in 1..(Len(b) + 1)
  <2>1. x[2] \in r[3]..(r[4] - 1) /\ x[2] + x[3] <= r[4]
    BY <1>7
  <2>. QED  BY <1>1, <1>2, <1>8, <2>1, WithinLimits
<1>11. /\ <<r[1], x[1], r[3], x[2]>> \in Parts(a, b)
      /\ <<x[1] + x[3], r[2], x[2] + x[3], r[4]>> \in Parts(a, b)
  BY <1>2, <1>9, <1>10 DEF Parts, Limits
<1>. QED  BY <1>7, <1>8, <1>9, <1>10, <1>11 DEF x

Width(r) == r[2] - r[1]
Before(x, r) == <<r[1], x[1], r[3], x[2]>>
Behind(x, r) == <<x[1] + x[3], r[2], x[2] + x[3], r[4]>>

\* The parts before the longest block and behind it are narrower.
LEMMA PartsAreNarrower ==
    ASSUME NEW a \in Seq(Characters), NEW b \in Seq(Characters), NEW r \in Parts(a, b),
           NEW blocks, blocks = Blocks(a, b, r), blocks # {}
    PROVE  LET x == LongestBlock(blocks)
           IN /\ Before(x, r) \in Parts(a, b) /\ Width(Before(x, r)) < Width(r)
              /\ Behind(x, r) \in Parts(a, b) /\ Width(Behind(x, r)) < Width(r)
<1>. DEFINE x == LongestBlock(blocks)
<1>1. /\ x[1] \in Nat /\ x[3] \in Nat /\ x[3] > 0
      /\ r[1] <= x[1] /\ x[1] + x[3] <= r[2]
  BY BlockInLimits
<1>2. Before(x, r) \in Parts(a, b) /\ Behind(x, r) \in Parts(a, b)
  BY BlockInLimits DEF Before, Behind
<1>3. r[1] \in Nat /\ r[2] \in Nat
  BY DEF Parts, Limits
<1>. HIDE DEF x
<1>4. Width(Before(x, r)) = x[1] - r[1] /\ Width(Behind(x, r)) = r[2] - (x[1] + x[3])
  BY DEF Before, Behind, Width
<1>5. x[1] - r[1] < r[2] - r[1] /\ r[2] - (x[1] + x[3]) < r[2] - r[1]
  BY <1>1, <1>3
<1>. QED  BY <1>2, <1>4, <1>5 DEF x, Width

LEMMA NoBlockInNothing ==
    ASSUME NEW a \in Seq(Characters), NEW b \in Seq(Characters), NEW r \in Parts(a, b), Width(r) <= 0
    PROVE  Blocks(a, b, r) = {}
<1>1. r[1] \in Nat /\ r[2] \in Nat
  BY DEF Parts, Limits
<1>2. r[1]..(r[2] - 1) = {}
  BY <1>1 DEF Width
<1>. QED  BY <1>2 DEF Blocks

\* What is matched in a part depends on what is matched in narrower ones.
LEMMA SameWithin ==
    ASSUME NEW a \in Seq(Characters), NEW b \in Seq(Characters), NEW r \in Parts(a, b),
           NEW f, NEW g, \A s \in Parts(a, b) : Width(s) < Width(r) => f[s] = g[s]
    PROVE  MatchedIn(f, a, b, r) = MatchedIn(g, a, b, r)
<1>. DEFINE blocks == Blocks(a, b, r)
            x      == LongestBlock(blocks)
<1>1. CASE blocks = {}
  BY <1>1 DEF MatchedIn
<1>2. CASE blocks # {}
  <2>1. /\ Before(x, r) \in Parts(a, b) /\ Width(Before(x, r)) < Width(r)
        /\ Behind(x, r) \in Parts(a, b) /\ Width(Behind(x, r)) < Width(r)
    BY <1>2, PartsAreNarrower
  <2>2. f[Before(x, r)] = g[Before(x, r)] /\ f[Behind(x, r)] = g[Behind(x, r)]
    <3>. HIDE DEF x
    <3>. QED  BY <2>1
  <2>. QED  BY <1>2, <2>2 DEF MatchedIn, Before, Behind
<1>. QED  BY <1>1, <1>2

\* The recursion of Matching is sound: there is a function as it says.
LEMMA WithinExists ==
    ASSUME NEW a \in Seq(Characters), NEW b \in Seq(Characters)
    PROVE  \E f : f = [r \in Parts(a, b) |-> MatchedIn(f, a, b, r)]
<1>. DEFINE Good(f, k) == \A r \in Parts(a, b) : Width(r) <= k => f[r] = MatchedIn(f, a, b, r)
            numbers == {k \in Nat : \E f : f = [r \in Parts(a, b) |-> f[r]] /\ Good(f, k)}
<1>1. \A r \in Parts(a, b) : Width(r) \in Int /\ Width(r) <= Len(a)
  <2>. SUFFICES ASSUME NEW r \in Parts(a, b)  PROVE Width(r) \in Int /\ Width(r) <= Len(a)
    OBVIOUS
  <2>1. r[1] \in 1..(Len(a) + 1) /\ r[2] \in 1..(Len(a) + 1) /\ Len(a) \in Nat
    BY DEF Parts, Limits
  <2>. QED  BY <2>1 DEF Width
<1>2. 0 \in numbers
  <2>. DEFINE f == [r \in Parts(a, b) |-> {}]
  <2>1. \A r \in Parts(a, b) : Width(r) <= 0 => MatchedIn(f, a, b, r) = {}
    BY NoBlockInNothing DEF MatchedIn
  <2>2. Good(f, 0)
    BY <2>1
  <2>. QED  BY <2>2
<1>3. ASSUME NEW k \in numbers  PROVE k + 1 \in numbers
  <2>1. PICK f : f = [r \in Parts(a, b) |-> f[r]] /\ Good(f, k)
    OBVIOUS
  <2>. DEFINE g == [r \in Parts(a, b) |-> MatchedIn(f, a, b, r)]
  <2>2. k \in Nat
    OBVIOUS
  <2>3. ASSUME NEW r \in Parts(a, b), Width(r) <= k + 1
        PROVE  g[r] = MatchedIn(g, a, b, r)
    <3>1. \A s \in Parts(a, b) : Width(s) < Width(r) => Width(s) <= k
      BY <1>1, <2>2, <2>3
    <3>2. \A s \in Parts(a, b) : Width(s) < Width(r) => f[s] = g[s]
      BY <2>1, <3>1
    <3>. HIDE DEF g
    <3>3. MatchedIn(f, a, b, r) = MatchedIn(g, a, b, r)
      BY <3>2, SameWithin
    <3>. QED  BY <3>3 DEF g
  <2>4. g = [r \in Parts(a, b) |-> g[r]] /\ Good(g, k + 1)
    BY <2>3
  <2>. HIDE DEF g, Good
  <2>. QED  BY <2>2, <2>4
<1>4. Len(a) \in numbers
  <2>1. numbers \in SUBSET Nat /\ Len(a) \in Nat
    OBVIOUS
  <2>. HIDE DEF numbers
  <2>. QED  BY <1>2, <1>3, <2>1, EveryNumber
<1>5. PICK f : f = [r \in Parts(a, b) |-> f[r]] /\ Good(f, Len(a))
  BY <1>4
<1>6. \A r \in Parts(a, b) : f[r] = MatchedIn(f, a, b, r)
  BY <1>1, <1>5
<1>7. f = [r \in Parts(a, b) |-> MatchedIn(f, a, b, r)]
  BY <1>5, <1>6
<1>. QED  BY <1>7

LEMMA MatchingIsWithin ==
    ASSUME NEW a \in Seq(Characters), NEW b \in Seq(Characters)
    PROVE  \E f : f = [r \in Parts(a, b) |-> MatchedIn(f, a, b, r)] /\ Matching(a, b) = f[Whole(a, b)]
<1>. DEFINE f == CHOOSE g : g = [r \in Parts(a, b) |-> MatchedIn(g, a, b, r)]
<1>1. f = [r \in Parts(a, b) |-> MatchedIn(f, a, b, r)]
  BY WithinExists, Zenon
<1>2. Matching(a, b) = f[Whole(a, b)]
  BY Zenon DEF Matching, Whole
<1>. HIDE DEF f
<1>. QED  BY <1>1, <1>2

-------------------------------------------------------------------------------
(***************************************************************************)
(* What is matched is aligned: in the order of both texts.                 *)
(***************************************************************************)

\* Matched characters are equal, and matched in the order of both texts.
Aligned(pairs, a, b, r) ==
    /\ pairs \subseteq (r[1]..(r[2] - 1)) \X (r[3]..(r[4] - 1))
    /\ \A x \in pairs : a[x[1]] = b[x[2]]
    /\ \A x, y \in pairs : x[1] < y[1] <=> x[2] < y[2]

Diagonal(x) == {<<x[1] + d, x[2] + d>> : d \in 0..(x[3] - 1)}

\* Pairs of three parts, each before the next in both texts, are aligned together.
LEMMA AlignedTogether ==
    ASSUME NEW a, NEW b,
           NEW r1 \in Nat, NEW r2 \in Nat, NEW r3 \in Nat, NEW r4 \in Nat,
           NEW i \in Nat, NEW j \in Nat, NEW k \in Nat,
           r1 <= i, i + k <= r2, r3 <= j, j + k <= r4,
           NEW early, Aligned(early, a, b, <<r1, i, r3, j>>),
           NEW block, Aligned(block, a, b, <<i, i + k, j, j + k>>),
           NEW late, Aligned(late, a, b, <<i + k, r2, j + k, r4>>)
    PROVE  Aligned(block \cup early \cup late, a, b, <<r1, r2, r3, r4>>)
<1>. DEFINE all == block \cup early \cup late
<1>1. \A x \in early : x = <<x[1], x[2]>> /\ x[1] \in r1..(i - 1) /\ x[2] \in r3..(j - 1)
  BY DEF Aligned
<1>2. \A x \in block : x = <<x[1], x[2]>> /\ x[1] \in i..(i + k - 1) /\ x[2] \in j..(j + k - 1)
  BY DEF Aligned
<1>3. \A x \in late : x = <<x[1], x[2]>> /\ x[1] \in (i + k)..(r2 - 1) /\ x[2] \in (j + k)..(r4 - 1)
  BY DEF Aligned
<1>4. \A x \in all : a[x[1]] = b[x[2]]
  BY DEF Aligned
<1>5. ASSUME NEW x \in all
      PROVE  x = <<x[1], x[2]>> /\ x[1] \in r1..(r2 - 1) /\ x[2] \in r3..(r4 - 1)
  <2>1. CASE x \in early
    BY <1>1, <2>1
  <2>2. CASE x \in block
    BY <1>2, <2>2
  <2>3. CASE x \in late
    BY <1>3, <2>3
  <2>. QED  BY <2>1, <2>2, <2>3
<1>6. ASSUME NEW x \in all, NEW y \in all
      PROVE  x[1] < y[1] <=> x[2] < y[2]
  <2>1. CASE (x \in early /\ y \in early) \/ (x \in block /\ y \in block) \/ (x \in late /\ y \in late)
    BY <2>1 DEF Aligned
  <2>2. ASSUME NEW u \in early, NEW v \in block  PROVE u[1] < v[1] /\ u[2] < v[2]
    BY <1>1, <1>2
  <2>3. ASSUME NEW u \in early, NEW v \in late  PROVE u[1] < v[1] /\ u[2] < v[2]
    BY <1>1, <1>3
  <2>4. ASSUME NEW u \in block, NEW v \in late  PROVE u[1] < v[1] /\ u[2] < v[2]
    BY <1>2, <1>3
  <2>5. x[1] \in Int /\ x[2] \in Int /\ y[1] \in Int /\ y[2] \in Int
    BY <1>5
  <2>6. CASE (x \in early /\ y \in block) \/ (x \in early /\ y \in late) \/ (x \in block /\ y \in late)
    <3>1. x[1] < y[1] /\ x[2] < y[2]
      BY <2>2, <2>3, <2>4, <2>6
    <3>. QED  BY <3>1
  <2>7. CASE (y \in early /\ x \in block) \/ (y \in early /\ x \in late) \/ (y \in block /\ x \in late)
    <3>1. y[1] < x[1] /\ y[2] < x[2]
      BY <2>2, <2>3, <2>4, <2>7
    <3>. QED  BY <2>5, <3>1
  <2>8. (x \in block \/ x \in early \/ x \in late) /\ (y \in block \/ y \in early \/ y \in late)
    OBVIOUS
  <2>. HIDE DEF all
  <2>. QED  BY <2>1, <2>6, <2>7, <2>8
<1>7. all \subseteq (r1..(r2 - 1)) \X (r3..(r4 - 1))
  <2>. HIDE DEF all
  <2>. QED  BY <1>5
<1>. HIDE DEF all
<1>8. Aligned(all, a, b, <<r1, r2, r3, r4>>)
  BY <1>4, <1>6, <1>7 DEF Aligned
<1>. QED  BY <1>8 DEF all

LEMMA DiagonalAligned ==
    ASSUME NEW a, NEW b, NEW x, x[1] \in Nat, x[2] \in Nat, x[3] \in Nat,
           \A d \in 0..(x[3] - 1) : a[x[1] + d] = b[x[2] + d]
    PROVE  Aligned(Diagonal(x), a, b, <<x[1], x[1] + x[3], x[2], x[2] + x[3]>>)
<1>1. \A y \in Diagonal(x) : \E d \in 0..(x[3] - 1) : y = <<x[1] + d, x[2] + d>>
  BY DEF Diagonal
<1>2. ASSUME NEW y \in Diagonal(x)
      PROVE  /\ y[1] \in x[1]..(x[1] + x[3] - 1) /\ y[2] \in x[2]..(x[2] + x[3] - 1)
             /\ y = <<y[1], y[2]>> /\ a[y[1]] = b[y[2]]
  <2>1. PICK d \in 0..(x[3] - 1) : y = <<x[1] + d, x[2] + d>>
    BY <1>1
  <2>2. y = <<y[1], y[2]>> /\ y[1] = x[1] + d /\ y[2] = x[2] + d
    BY <2>1
  <2>3. x[1] + d \in x[1]..(x[1] + x[3] - 1) /\ x[2] + d \in x[2]..(x[2] + x[3] - 1)
    OBVIOUS
  <2>. QED  BY <2>2, <2>3
<1>3. ASSUME NEW y \in Diagonal(x), NEW z \in Diagonal(x)
      PROVE  y[1] < z[1] <=> y[2] < z[2]
  <2>1. PICK d \in 0..(x[3] - 1) : y = <<x[1] + d, x[2] + d>>
    BY <1>1
  <2>2. PICK e \in 0..(x[3] - 1) : z = <<x[1] + e, x[2] + e>>
    BY <1>1
  <2>3. y[1] = x[1] + d /\ y[2] = x[2] + d /\ z[1] = x[1] + e /\ z[2] = x[2] + e
    BY <2>1, <2>2
  <2>. QED  BY <2>3
<1>4. Diagonal(x) \subseteq (x[1]..(x[1] + x[3] - 1)) \X (x[2]..(x[2] + x[3] - 1))
  BY <1>2
<1>. QED  BY <1>2, <1>3, <1>4 DEF Aligned

LEMMA WithinAligned ==
    ASSUME NEW a \in Seq(Characters), NEW b \in Seq(Characters),
           NEW f, f = [r \in Parts(a, b) |-> MatchedIn(f, a, b, r)]
    PROVE  \A r \in Parts(a, b) : Aligned(f[r], a, b, r)
<1>. DEFINE numbers == {k \in Nat : \A r \in Parts(a, b) : Width(r) <= k => Aligned(f[r], a, b, r)}
<1>1. \A r \in Parts(a, b) : Width(r) \in Int /\ Width(r) <= Len(a)
  <2>. SUFFICES ASSUME NEW r \in Parts(a, b)  PROVE Width(r) \in Int /\ Width(r) <= Len(a)
    OBVIOUS
  <2>1. r[1] \in 1..(Len(a) + 1) /\ r[2] \in 1..(Len(a) + 1) /\ Len(a) \in Nat
    BY DEF Parts, Limits
  <2>. QED  BY <2>1 DEF Width
<1>2. \A r \in Parts(a, b) : f[r] = MatchedIn(f, a, b, r)
  OBVIOUS
<1>3. \A r : Aligned({}, a, b, r)
  BY Zenon DEF Aligned
<1>4. 0 \in numbers
  BY <1>2, <1>3, NoBlockInNothing DEF MatchedIn
<1>5. ASSUME NEW k \in numbers  PROVE k + 1 \in numbers
  <2>1. k \in Nat /\ \A r \in Parts(a, b) : Width(r) <= k => Aligned(f[r], a, b, r)
    OBVIOUS
  <2>. HIDE DEF numbers
  <2>2. ASSUME NEW r \in Parts(a, b), Width(r) <= k + 1
        PROVE  Aligned(f[r], a, b, r)
    <3>. DEFINE blocks == Blocks(a, b, r)
                x      == LongestBlock(blocks)
    <3>1. CASE blocks = {}
      <4>1. MatchedIn(f, a, b, r) = {}
        BY <3>1 DEF MatchedIn
      <4>. QED  BY <1>2, <1>3, <4>1
    <3>2. CASE blocks # {}
      <4>1. /\ Before(x, r) \in Parts(a, b) /\ Width(Before(x, r)) < Width(r)
            /\ Behind(x, r) \in Parts(a, b) /\ Width(Behind(x, r)) < Width(r)
        BY <3>2, PartsAreNarrower
      <4>2. /\ x[1] \in Nat /\ x[2] \in Nat /\ x[3] \in Nat
            /\ r[1] <= x[1] /\ x[1] + x[3] <= r[2]
            /\ r[3] <= x[2] /\ x[2] + x[3] <= r[4]
            /\ \A d \in 0..(x[3] - 1) : a[x[1] + d] = b[x[2] + d]
        BY <3>2, BlockInLimits, Zenon
      <4>3. f[r] = Diagonal(x) \cup f[Before(x, r)] \cup f[Behind(x, r)]
        BY <1>2, <3>2, Zenon DEF MatchedIn, Diagonal, Before, Behind
      <4>. HIDE DEF x
      <4>4. Width(Before(x, r)) <= k /\ Width(Behind(x, r)) <= k
        BY <1>1, <2>1, <2>2, <4>1
      <4>5. Aligned(f[Before(x, r)], a, b, Before(x, r)) /\ Aligned(f[Behind(x, r)], a, b, Behind(x, r))
        BY <2>1, <4>1, <4>4
      <4>6. Aligned(Diagonal(x), a, b, <<x[1], x[1] + x[3], x[2], x[2] + x[3]>>)
        BY <4>2, DiagonalAligned
      <4>7. r = <<r[1], r[2], r[3], r[4]>> /\ r[1] \in Nat /\ r[2] \in Nat /\ r[3] \in Nat /\ r[4] \in Nat
        BY DEF Parts, Limits
      <4>8. Aligned(Diagonal(x) \cup f[Before(x, r)] \cup f[Behind(x, r)], a, b, <<r[1], r[2], r[3], r[4]>>)
        BY <4>2, <4>5, <4>6, <4>7, AlignedTogether DEF Before, Behind
      <4>. QED  BY <4>3, <4>7, <4>8
    <3>. QED  BY <3>1, <3>2
  <2>3. k + 1 \in Nat
    BY <2>1
  <2>. QED  BY <2>2, <2>3 DEF numbers
<1>6. Len(a) \in numbers
  <2>1. numbers \in SUBSET Nat /\ Len(a) \in Nat
    OBVIOUS
  <2>. HIDE DEF numbers
  <2>. QED  BY <1>4, <1>5, <2>1, EveryNumber
<1>. QED  BY <1>1, <1>6

LEMMA MatchingAligned ==
    ASSUME NEW a \in Seq(Characters), NEW b \in Seq(Characters)
    PROVE  Aligned(Matching(a, b), a, b, Whole(a, b))
<1>1. Whole(a, b) \in Parts(a, b)
  BY DEF Whole, Parts, Limits
<1>. QED  BY <1>1, MatchingIsWithin, WithinAligned

\* Of a text and itself every character is matched.
LEMMA AllOfTheSame ==
    ASSUME NEW a \in Seq(Characters)
    PROVE  \A p \in 1..Len(a) : <<p, p>> \in Matching(a, a)
<1>. SUFFICES ASSUME NEW p \in 1..Len(a)  PROVE <<p, p>> \in Matching(a, a)
  OBVIOUS
<1>. DEFINE r      == Whole(a, a)
            blocks == Blocks(a, a, r)
            x      == LongestBlock(blocks)
<1>1. Len(a) \in Nat /\ Len(a) > 0
  OBVIOUS
<1>2. r \in Parts(a, a)
  BY DEF Whole, Parts, Limits
<1>3. <<1, 1, Len(a)>> \in blocks
  BY <1>1 DEF Blocks, Whole
<1>4. Better(x, <<1, 1, Len(a)>>)
  BY <1>2, <1>3, BlockInLimits
<1>5. x[1] \in Nat /\ x[2] \in Nat /\ x[3] \in Nat /\ 1 <= x[1] /\ x[1] + x[3] <= Len(a) + 1 /\ 1 <= x[2]
  <2>1. x[1] \in Nat /\ x[2] \in Nat /\ x[3] \in Nat /\ r[1] <= x[1] /\ x[1] + x[3] <= r[2] /\ r[3] <= x[2]
    BY <1>2, <1>3, BlockInLimits, Zenon
  <2>2. r[1] = 1 /\ r[2] = Len(a) + 1 /\ r[3] = 1
    BY DEF Whole
  <2>. HIDE DEF x, blocks, r
  <2>. QED  BY <2>1, <2>2
<1>6. Diagonal(x) \subseteq Matching(a, a)
  <2>1. PICK f : f = [s \in Parts(a, a) |-> MatchedIn(f, a, a, s)] /\ Matching(a, a) = f[r]
    BY MatchingIsWithin
  <2>2. f[r] = MatchedIn(f, a, a, r)
    BY <1>2, <2>1
  <2>3. f[r] = Diagonal(x) \cup f[Before(x, r)] \cup f[Behind(x, r)]
    BY <1>3, <2>2 DEF MatchedIn, Diagonal, Before, Behind
  <2>. QED  BY <2>1, <2>3
<1>. HIDE DEF x, blocks, r
<1>7. x[1] = 1 /\ x[2] = 1 /\ x[3] = Len(a)
  BY <1>1, <1>4, <1>5 DEF Better
<1>8. <<1 + (p - 1), 1 + (p - 1)>> \in Diagonal(x)
  BY <1>1, <1>7 DEF Diagonal
<1>9. 1 + (p - 1) = p
  OBVIOUS
<1>. QED  BY <1>6, <1>8, <1>9

-------------------------------------------------------------------------------
(***************************************************************************)
(* How many characters are matched: all of the same text, and of no other. *)
(***************************************************************************)

\* An injection counts.
LEMMA Injected ==
    ASSUME NEW S, NEW T, IsFiniteSet(T), NEW f \in [S -> T],
           \A x, y \in S : f[x] = f[y] => x = y
    PROVE  /\ IsFiniteSet(S)
           /\ Cardinality(S) \in Nat
           /\ Cardinality(S) <= Cardinality(T)
<1>1. f \in Injection(S, T)
  BY DEF Injection, IsInjective
<1>. QED  BY <1>1, FS_Injection, FS_CardinalityType

LEMMA InjectedOnto ==
    ASSUME NEW S, NEW T, IsFiniteSet(T), NEW f \in [S -> T],
           \A x, y \in S : f[x] = f[y] => x = y,
           Cardinality(S) = Cardinality(T)
    PROVE  \A t \in T : \E x \in S : f[x] = t
<1>1. f \in Injection(S, T)
  BY DEF Injection, IsInjective
<1>2. f \in Surjection(S, T)
  BY <1>1, FS_Injection
<1>. QED  BY <1>2 DEF Surjection

\* No character is matched twice.
LEMMA MatchingCounts ==
    ASSUME NEW a \in Seq(Characters), NEW b \in Seq(Characters)
    PROVE  LET pairs == Matching(a, b)
           IN /\ \A x \in pairs : x[1] \in 1..Len(a) /\ x[2] \in 1..Len(b) /\ a[x[1]] = b[x[2]]
              /\ \A x, y \in pairs : x[1] < y[1] <=> x[2] < y[2]
              /\ \A x, y \in pairs : x[1] = y[1] \/ x[2] = y[2] => x = y
              /\ IsFiniteSet(pairs)
              /\ Cardinality(pairs) \in Nat
              /\ Cardinality(pairs) <= Len(a)
              /\ Cardinality(pairs) <= Len(b)
              /\ Cardinality(pairs) = Len(a) => \A p \in 1..Len(a) : \E x \in pairs : x[1] = p
              /\ Cardinality(pairs) = Len(b) => \A p \in 1..Len(b) : \E x \in pairs : x[2] = p
<1>. DEFINE pairs == Matching(a, b)
            n == Len(a)
            m == Len(b)
<1>1. Aligned(pairs, a, b, Whole(a, b))
  BY MatchingAligned
<1>2. n \in Nat /\ m \in Nat
  OBVIOUS
<1>. HIDE DEF n, m, pairs
<1>3. pairs \subseteq (1..(n + 1 - 1)) \X (1..(m + 1 - 1))
  BY <1>1 DEF Aligned, Whole, n, m
<1>4. \A x \in pairs : x = <<x[1], x[2]>> /\ x[1] \in 1..n /\ x[2] \in 1..m /\ a[x[1]] = b[x[2]]
  BY <1>1, <1>2, <1>3 DEF Aligned
<1>5. \A x, y \in pairs : x[1] < y[1] <=> x[2] < y[2]
  BY <1>1 DEF Aligned
<1>6. ASSUME NEW x \in pairs, NEW y \in pairs, x[1] = y[1] \/ x[2] = y[2]
      PROVE  x = y
  <2>1. x[1] \in Int /\ x[2] \in Int /\ y[1] \in Int /\ y[2] \in Int
    BY <1>4
  <2>2. (x[1] < y[1] <=> x[2] < y[2]) /\ (y[1] < x[1] <=> y[2] < x[2])
    BY <1>5
  <2>3. x[1] = y[1] /\ x[2] = y[2]
    BY <1>6, <2>1, <2>2
  <2>4. x = <<x[1], x[2]>> /\ y = <<y[1], y[2]>>
    BY <1>4
  <2>. QED  BY <2>3, <2>4
<1>7. IsFiniteSet(1..n) /\ Cardinality(1..n) = n /\ IsFiniteSet(1..m) /\ Cardinality(1..m) = m
  BY <1>2, FS_Interval
<1>. DEFINE first  == [x \in pairs |-> x[1]]
            second == [x \in pairs |-> x[2]]
<1>8. first \in [pairs -> 1..n] /\ \A x, y \in pairs : first[x] = first[y] => x = y
  BY <1>4, <1>6
<1>9. second \in [pairs -> 1..m] /\ \A x, y \in pairs : second[x] = second[y] => x = y
  BY <1>4, <1>6
<1>10. /\ \A x \in pairs : first[x] = x[1]
       /\ \A x \in pairs : second[x] = x[2]
  OBVIOUS
<1>. HIDE DEF first, second
<1>11. IsFiniteSet(pairs) /\ Cardinality(pairs) \in Nat /\ Cardinality(pairs) <= n
  <2>1. IsFiniteSet(pairs) /\ Cardinality(pairs) \in Nat /\ Cardinality(pairs) <= Cardinality(1..n)
    BY <1>7, <1>8, Injected
  <2>. QED  BY <1>7, <2>1
<1>12. Cardinality(pairs) <= m
  <2>1. Cardinality(pairs) <= Cardinality(1..m)
    BY <1>7, <1>9, Injected
  <2>. QED  BY <1>7, <2>1
<1>13. ASSUME Cardinality(pairs) = n  PROVE \A p \in 1..n : \E x \in pairs : x[1] = p
  <2>1. Cardinality(pairs) = Cardinality(1..n)
    BY <1>7, <1>13
  <2>. DEFINE places == 1..n
  <2>2. IsFiniteSet(places) /\ Cardinality(pairs) = Cardinality(places) /\ first \in [pairs -> places]
    BY <1>7, <1>8, <2>1
  <2>. HIDE DEF places
  <2>3. \A p \in places : \E x \in pairs : first[x] = p
    BY <1>8, <2>2, InjectedOnto
  <2>. QED  BY <1>10, <2>3 DEF places
<1>14. ASSUME Cardinality(pairs) = m  PROVE \A p \in 1..m : \E x \in pairs : x[2] = p
  <2>1. Cardinality(pairs) = Cardinality(1..m)
    BY <1>7, <1>14
  <2>. DEFINE places == 1..m
  <2>2. IsFiniteSet(places) /\ Cardinality(pairs) = Cardinality(places) /\ second \in [pairs -> places]
    BY <1>7, <1>9, <2>1
  <2>. HIDE DEF places
  <2>3. \A p \in places : \E x \in pairs : second[x] = p
    BY <1>9, <2>2, InjectedOnto
  <2>. QED  BY <1>10, <2>3 DEF places
<1>. QED  BY <1>4, <1>5, <1>6, <1>11, <1>12, <1>13, <1>14 DEF pairs, n, m

\* Texts of which every character is matched are the same.
LEMMA AllMatchedIsSame ==
    ASSUME NEW a \in Seq(Characters), NEW b \in Seq(Characters),
           Cardinality(Matching(a, b)) = Len(a), Cardinality(Matching(a, b)) = Len(b)
    PROVE  a = b
<1>. DEFINE pairs == Matching(a, b)
            n == Len(a)
<1>1. /\ \A x \in pairs : x[1] \in 1..n /\ x[2] \in 1..n /\ a[x[1]] = b[x[2]]
      /\ \A x, y \in pairs : x[1] < y[1] <=> x[2] < y[2]
      /\ \A p \in 1..n : \E x \in pairs : x[1] = p
      /\ \A p \in 1..n : \E x \in pairs : x[2] = p
  <2>1. \A x \in pairs : x[1] \in 1..Len(a) /\ x[2] \in 1..Len(b) /\ a[x[1]] = b[x[2]]
    BY MatchingCounts
  <2>2. \A x, y \in pairs : x[1] < y[1] <=> x[2] < y[2]
    BY MatchingCounts
  <2>3. \A p \in 1..Len(a) : \E x \in pairs : x[1] = p
    BY MatchingCounts
  <2>4. \A p \in 1..Len(b) : \E x \in pairs : x[2] = p
    BY MatchingCounts
  <2>. QED  BY <2>1, <2>2, <2>3, <2>4
<1>2. n \in Nat /\ Len(b) = n
  OBVIOUS
<1>. HIDE DEF pairs, n
<1>. DEFINE shifted == {x \in pairs : x[1] # x[2]}
            places  == {x[1] : x \in shifted}
<1>3. shifted = {}
  <2>. SUFFICES ASSUME shifted # {}  PROVE FALSE
    OBVIOUS
  <2>1. PICK p \in places : \A q \in places : p <= q
    <3>1. places \in SUBSET Nat /\ places # {}
      BY <1>1, <1>2
    <3>. HIDE DEF places
    <3>. QED  BY <3>1, LeastNumber
  <2>2. PICK x \in shifted : x[1] = p
    BY <2>1
  <2>3. \A y \in pairs : y[1] < x[1] => y[1] = y[2]
    <3>1. \A y \in shifted : x[1] <= y[1]
      BY <2>1, <2>2
    <3>2. \A y \in pairs : y[1] \in Int /\ x[1] \in Int
      BY <1>1, <1>2
    <3>. QED  BY <3>1, <3>2
  <2>4. x[1] \in 1..n /\ x[2] \in 1..n /\ x[1] # x[2] /\ x \in pairs
    BY <1>1
  <2>. HIDE DEF shifted, places
  <2>5. CASE x[1] < x[2]
    <3>1. PICK y \in pairs : y[2] = x[1]
      BY <1>1, <2>4
    <3>2. y[1] < x[1]
      BY <1>1, <2>4, <2>5, <3>1
    <3>3. y[1] = x[1]
      BY <2>3, <3>1, <3>2
    <3>4. x[1] \in Int
      BY <1>2, <2>4
    <3>. QED  BY <3>2, <3>3, <3>4
  <2>6. CASE x[2] < x[1]
    <3>1. PICK y \in pairs : y[1] = x[2]
      BY <1>1, <2>4
    <3>2. y[2] < x[2]
      BY <1>1, <2>4, <2>6, <3>1
    <3>3. y[2] = x[2]
      BY <2>3, <2>6, <3>1
    <3>4. x[2] \in Int
      BY <1>2, <2>4
    <3>. QED  BY <3>2, <3>3, <3>4
  <2>7. x[1] \in Int /\ x[2] \in Int
    BY <1>2, <2>4
  <2>. QED  BY <2>4, <2>5, <2>6, <2>7
<1>4. \A p \in 1..n : a[p] = b[p]
  <2>. SUFFICES ASSUME NEW p \in 1..n  PROVE a[p] = b[p]
    OBVIOUS
  <2>1. PICK x \in pairs : x[1] = p
    BY <1>1
  <2>2. x[1] = x[2]
    BY <1>3
  <2>. QED  BY <1>1, <2>1, <2>2
<1>. QED  BY <1>2, <1>4, SeqEqual DEF n

LEMMA SameIsAllMatched ==
    ASSUME NEW a \in Seq(Characters)
    PROVE  Cardinality(Matching(a, a)) = Len(a)
<1>. DEFINE pairs == Matching(a, a)
            n == Len(a)
            twice == [p \in 1..n |-> <<p, p>>]
<1>1. IsFiniteSet(pairs) /\ Cardinality(pairs) \in Nat /\ Cardinality(pairs) <= n
  BY MatchingCounts
<1>2. \A p \in 1..n : <<p, p>> \in pairs
  BY AllOfTheSame
<1>3. n \in Nat
  OBVIOUS
<1>. HIDE DEF pairs, n
<1>4. twice \in [1..n -> pairs] /\ \A p, q \in 1..n : twice[p] = twice[q] => p = q
  BY <1>2
<1>5. Cardinality(1..n) <= Cardinality(pairs)
  <2>. HIDE DEF twice
  <2>. QED  BY <1>1, <1>4, Injected
<1>6. Cardinality(1..n) = n
  BY <1>3, FS_Interval
<1>. QED  BY <1>1, <1>3, <1>5, <1>6 DEF pairs, n

-------------------------------------------------------------------------------
(***************************************************************************)
(* Words in a row.                                                         *)
(***************************************************************************)

SpacesOf(text) == {i \in DOMAIN text : text[i] = Space}

LEMMA WordsCounted ==
    ASSUME NEW text \in Seq(Characters)
    PROVE  /\ IsFiniteSet(SpacesOf(text)) /\ Cardinality(SpacesOf(text)) \in Nat
           /\ text # <<>> => WordCount(text) = 1 + Cardinality(SpacesOf(text))
           /\ text = <<>> => WordCount(text) = 0
<1>. DEFINE places == 1..Len(text)
<1>1. IsFiniteSet(places) /\ SpacesOf(text) \subseteq places
  BY FS_Interval DEF SpacesOf
<1>2. IsFiniteSet(SpacesOf(text)) /\ Cardinality(SpacesOf(text)) \in Nat
  <2>. HIDE DEF places
  <2>. QED  BY <1>1, FS_Subset, FS_CardinalityType
<1>. QED  BY <1>2 DEF WordCount, SpacesOf

LEMMA RunOfText ==
    ASSUME NEW text \in Seq(Characters), NEW i \in 1..Len(text), NEW k \in 1..Len(text), i <= k
    PROVE  /\ SubSeq(text, i, k) \in Seq(Characters)
           /\ Len(SubSeq(text, i, k)) = k - i + 1
           /\ \A p \in 1..(k - i + 1) : SubSeq(text, i, k)[p] = text[i + p - 1]
<1>1. Len(text) \in Nat /\ i \in Int /\ k \in Int
  OBVIOUS
<1>2. \A j \in i..k : j \in 1..Len(text)
  BY <1>1
<1>3. \A j \in i..k : text[j] \in Characters
  BY <1>2
<1>. QED  BY <1>1, <1>3, SubSeqProperties

LEMMA InRuns ==
    ASSUME NEW text, NEW i \in WordStarts(text), NEW k \in WordEnds(text)
    PROVE  SubSeq(text, i, k) \in Runs(text)
<1>1. <<i, k>> \in WordStarts(text) \X WordEnds(text)
  OBVIOUS
<1>2. SubSeq(text, i, k) = SubSeq(text, <<i, k>>[1], <<i, k>>[2])
  OBVIOUS
<1>. QED  BY <1>1, <1>2, Zenon DEF Runs

LEMMA RunIs ==
    ASSUME NEW text, NEW run \in Runs(text)
    PROVE  \E i \in WordStarts(text), k \in WordEnds(text) : run = SubSeq(text, i, k)
<1>1. PICK p \in WordStarts(text) \X WordEnds(text) : run = SubSeq(text, p[1], p[2])
  BY DEF Runs
<1>2. p[1] \in WordStarts(text) /\ p[2] \in WordEnds(text)
  OBVIOUS
<1>. QED  BY <1>1, <1>2, Zenon

LEMMA PlaceInRun ==
    ASSUME NEW n \in Nat, NEW i \in 1..n, NEW k \in 1..n, NEW p \in 1..(k - i + 1)
    PROVE  i + p - 1 \in 1..n /\ i + p - 1 # i - 1 /\ i + p - 1 # k + 1
OBVIOUS

\* A run that is not the whole text lies beside a space, and so has fewer words.
LEMMA RunHasFewerWords ==
    ASSUME NEW text \in Seq(Characters), NEW i \in WordStarts(text), NEW k \in WordEnds(text),
           i <= k, i # 1 \/ k # Len(text)
    PROVE  WordCount(SubSeq(text, i, k)) < WordCount(text)
<1>. DEFINE n      == Len(text)
            run    == SubSeq(text, i, k)
            m      == Len(run)
            whole  == SpacesOf(text)
            within == SpacesOf(run)
            place  == [p \in within |-> i + p - 1]
<1>1. n \in Nat /\ DOMAIN text = 1..n /\ i \in 1..n /\ k \in 1..n
  BY DEF WordStarts, WordEnds
<1>2. run \in Seq(Characters) /\ m = k - i + 1 /\ \A p \in 1..m : run[p] = text[i + p - 1]
  <2>1. i \in 1..Len(text) /\ k \in 1..Len(text)
    BY <1>1
  <2>. QED  BY <2>1, RunOfText
<1>3. PICK beside \in whole : beside = i - 1 \/ beside = k + 1
  <2>1. CASE i # 1
    <3>1. text[i - 1] = Space
      BY <2>1 DEF WordStarts
    <3>2. i - 1 \in 1..n
      <4>. HIDE DEF n
      <4>. QED  BY <1>1, <2>1
    <3>. QED  BY <1>1, <3>1, <3>2 DEF SpacesOf
  <2>2. CASE k # Len(text)
    <3>1. text[k + 1] = Space
      BY <2>2 DEF WordEnds
    <3>2. k + 1 \in 1..n
      <4>1. k # n
        BY <2>2
      <4>. HIDE DEF n
      <4>. QED  BY <1>1, <4>1
    <3>. QED  BY <1>1, <3>1, <3>2 DEF SpacesOf
  <2>. QED  BY <2>1, <2>2
<1>4. ASSUME NEW p \in within  PROVE p \in 1..m /\ i + p - 1 \in whole \ {beside}
  <2>1. p \in 1..m /\ run[p] = Space
    BY <1>2 DEF SpacesOf
  <2>2. i + p - 1 \in 1..n /\ i + p - 1 # i - 1 /\ i + p - 1 # k + 1
    <3>1. m = k - i + 1 /\ p \in 1..m
      BY <1>2, <2>1
    <3>. HIDE DEF m, n
    <3>. QED  BY <1>1, <3>1, PlaceInRun
  <2>3. text[i + p - 1] = Space
    BY <1>2, <2>1
  <2>. QED  BY <1>1, <1>3, <2>1, <2>2, <2>3 DEF SpacesOf
<1>5. IsFiniteSet(whole) /\ Cardinality(whole) \in Nat
  BY WordsCounted
<1>6. /\ IsFiniteSet(whole \ {beside}) /\ Cardinality(whole \ {beside}) = Cardinality(whole) - 1
  BY <1>3, <1>5, FS_RemoveElement
<1>. HIDE DEF whole
<1>7. place \in [within -> whole \ {beside}]
  BY <1>4
<1>8. \A p, q \in within : place[p] = place[q] => p = q
  <2>. SUFFICES ASSUME NEW p \in within, NEW q \in within, i + p - 1 = i + q - 1
                PROVE  p = q
    OBVIOUS
  <2>1. p \in Int /\ q \in Int /\ i \in Int
    <3>1. p \in 1..m /\ q \in 1..m /\ m \in Int
      BY <1>2, <1>4
    <3>. HIDE DEF m, n, within
    <3>. QED  BY <1>1, <3>1
  <2>. QED  BY <2>1
<1>9. Cardinality(within) \in Nat /\ Cardinality(within) <= Cardinality(whole \ {beside})
  <2>. HIDE DEF within, place
  <2>. QED  BY <1>6, <1>7, <1>8, Injected
<1>10. text # <<>> /\ run # <<>>
  <2>1. n > 0 /\ m > 0
    <3>1. m = k - i + 1
      BY <1>2
    <3>. HIDE DEF n, m
    <3>. QED  BY <1>1, <3>1
  <2>2. Len(<<>>) = 0
    BY EmptySeq
  <2>3. run # <<>>
    <3>. HIDE DEF run
    <3>. QED  BY <2>1, <2>2
  <2>4. text # <<>>
    BY <2>1, <2>2
  <2>. QED  BY <2>3, <2>4
<1>11. WordCount(run) = 1 + Cardinality(within) /\ WordCount(text) = 1 + Cardinality(whole)
  BY <1>2, <1>10, WordsCounted DEF whole
<1>. HIDE DEF within, run
<1>. QED  BY <1>5, <1>6, <1>9, <1>11 DEF run

\* A quote is compared with runs of the segment, of no more words than it has.
LEMMA CandidatesAreRuns ==
    ASSUME NEW quote \in Seq(Characters), quote # <<>>, NEW segment \in Seq(Characters),
           NEW c \in Candidates(quote, segment)
    PROVE  /\ c \in Seq(Characters) /\ c # <<>>
           /\ c \in Runs(segment)
           /\ WordCount(c) <= WordCount(quote)
<1>. DEFINE n == Len(segment)
<1>1. n \in Nat /\ DOMAIN segment = 1..n /\ WordCount(quote) \in Nat /\ WordCount(quote) > 0
  BY WordsCounted
<1>2. CASE segment # <<>> /\ WordCount(segment) <= WordCount(quote) /\ c = segment
  <2>1. n > 0
    BY <1>1, <1>2, EmptySeq
  <2>2. 1 \in WordStarts(segment) /\ n \in WordEnds(segment)
    BY <1>1, <2>1 DEF WordStarts, WordEnds
  <2>3. SubSeq(segment, 1, n) = segment
    BY SubSeqFull
  <2>4. segment \in Runs(segment)
    BY <2>2, <2>3, InRuns
  <2>. QED  BY <1>2, <2>4
<1>3. CASE c \in Runs(segment) /\ WordCount(c) = WordCount(quote)
  <2>1. PICK i \in WordStarts(segment), k \in WordEnds(segment) : c = SubSeq(segment, i, k)
    BY <1>3, RunIs
  <2>2. i \in 1..n /\ k \in 1..n
    BY <1>1 DEF WordStarts, WordEnds
  <2>3. c # <<>>
    <3>1. WordCount(<<>>) = 0
      BY DEF WordCount
    <3>. QED  BY <1>1, <1>3, <3>1
  <2>4. i <= k
    <3>1. i \in Int /\ k \in Int
      BY <2>2
    <3>2. k < i => c = <<>>
      BY <2>1, <3>1, SubSeqEmpty
    <3>. QED  BY <2>3, <3>1, <3>2
  <2>5. c \in Seq(Characters)
    BY <2>1, <2>2, <2>4, RunOfText
  <2>. QED  BY <1>1, <1>3, <2>3, <2>5
<1>. QED  BY <1>2, <1>3 DEF Candidates

\* The quote is compared with itself where a segment has its words in a row, and only there.
LEMMA OccursIsCandidate ==
    ASSUME NEW quote \in Seq(Characters), quote # <<>>, NEW segment \in Seq(Characters)
    PROVE  Occurs(quote, segment) <=> quote \in Candidates(quote, segment)
<1>. DEFINE n == Len(quote)
            m == Len(segment)
<1>1. n \in Nat /\ n > 0 /\ m \in Nat /\ DOMAIN segment = 1..m
  BY EmptySeq
<1>2. WordCount(quote) \in Nat /\ WordCount(segment) \in Nat
  BY WordsCounted
<1>3. ASSUME Occurs(quote, segment)  PROVE quote \in Candidates(quote, segment)
  <2>1. PICK i \in 1..m : /\ i + n - 1 <= m
                          /\ SubSeq(segment, i, i + n - 1) = quote
                          /\ i = 1 \/ segment[i - 1] = Space
                          /\ i + n - 1 = m \/ segment[(i + n - 1) + 1] = Space
    BY <1>1, <1>3 DEF Occurs
  <2>. DEFINE k == i + n - 1
  <2>2. k \in 1..m /\ i <= k
    BY <1>1, <2>1
  <2>3. i \in WordStarts(segment) /\ k \in WordEnds(segment)
    BY <1>1, <2>1, <2>2 DEF WordStarts, WordEnds
  <2>4. quote = SubSeq(segment, i, k) /\ segment # <<>>
    BY <1>1, <2>1
  <2>. HIDE DEF k, n, m
  <2>5. CASE i = 1 /\ k = m
    <3>1. segment = quote
      BY <2>4, <2>5, SubSeqFull DEF m
    <3>2. WordCount(segment) <= WordCount(quote)
      BY <1>2, <3>1
    <3>. QED  BY <2>4, <3>1, <3>2 DEF Candidates
  <2>6. CASE i # 1 \/ k # m
    <3>1. WordCount(quote) < WordCount(segment)
      BY <2>2, <2>3, <2>4, <2>6, RunHasFewerWords DEF m
    <3>2. ~(WordCount(segment) <= WordCount(quote))
      BY <1>2, <3>1
    <3>3. quote \in Runs(segment)
      BY <2>3, <2>4, InRuns
    <3>. QED  BY <2>4, <3>2, <3>3 DEF Candidates
  <2>. QED  BY <2>5, <2>6
<1>4. ASSUME quote \in Candidates(quote, segment)  PROVE Occurs(quote, segment)
  <2>1. PICK i \in WordStarts(segment), k \in WordEnds(segment) : quote = SubSeq(segment, i, k)
    BY <1>4, CandidatesAreRuns, RunIs
  <2>2. /\ i \in 1..m /\ k \in 1..m
        /\ i = 1 \/ segment[i - 1] = Space
        /\ k = m \/ segment[k + 1] = Space
    BY <1>1 DEF WordStarts, WordEnds
  <2>3. i <= k
    <3>1. i \in Int /\ k \in Int
      BY <2>2
    <3>2. k < i => quote = <<>>
      BY <2>1, <3>1, SubSeqEmpty
    <3>. QED  BY <3>1, <3>2
  <2>4. n = k - i + 1
    BY <2>1, <2>2, <2>3, RunOfText
  <2>. HIDE DEF n, m
  <2>5. i + n - 1 = k /\ k <= m
    BY <1>1, <2>2, <2>4
  <2>. QED  BY <1>1, <2>1, <2>2, <2>5 DEF Occurs, n, m
<1>. QED  BY <1>3, <1>4

-------------------------------------------------------------------------------
(***************************************************************************)
(* Ratios.                                                                 *)
(***************************************************************************)

LEMMA RatioOf ==
    ASSUME NEW quote \in Seq(Characters), quote # <<>>, NEW c \in Seq(Characters), c # <<>>
    PROVE  LET r == Ratio(quote, c)
           IN /\ r.of \in Nat /\ r.matched \in Nat
              /\ r.of > 0
              /\ r.matched <= r.of
              /\ r.matched = r.of <=> c = quote
<1>. DEFINE k == Cardinality(Matching(quote, c))
            r == Ratio(quote, c)
<1>1. Len(quote) \in Nat /\ Len(quote) > 0 /\ Len(c) \in Nat
  BY EmptySeq
<1>2. k \in Nat /\ k <= Len(quote) /\ k <= Len(c)
  BY MatchingCounts
<1>3. k = Len(quote) /\ k = Len(c) => c = quote
  BY AllMatchedIsSame
<1>4. c = quote => k = Len(quote) /\ k = Len(c)
  BY SameIsAllMatched
<1>5. r.of = Len(quote) + Len(c) /\ r.matched = 2 * k
  BY DEF Ratio
<1>. HIDE DEF k, r
<1>6. r.matched = r.of <=> k = Len(quote) /\ k = Len(c)
  BY <1>1, <1>2, <1>5
<1>7. r.of \in Nat /\ r.matched \in Nat /\ r.of > 0 /\ r.matched <= r.of
  BY <1>1, <1>2, <1>5
<1>8. r.matched = r.of <=> c = quote
  BY <1>3, <1>4, <1>6
<1>. QED  BY <1>7, <1>8 DEF r

LEMMA Products ==
    ASSUME NEW k \in Nat, k > 0, NEW m \in Nat, NEW n \in Nat
    PROVE  /\ m <= n => ~(m * k > k * n)
           /\ k * n > m * k <=> m < n
<1>1. k * n - m * k = k * (n - m)
  OBVIOUS
<1>2. n - m > 0 => k * (n - m) > 0
  OBVIOUS
<1>3. n - m <= 0 => k * (n - m) <= 0
  OBVIOUS
<1>4. m * k \in Int /\ k * n \in Int /\ k * (n - m) \in Int
  OBVIOUS
<1>. QED  BY <1>1, <1>2, <1>3, <1>4

Share(r) == r.of \in Nat /\ r.matched \in Nat /\ r.of > 0 /\ r.matched <= r.of
Full(r) == Share(r) /\ r.matched = r.of

LEMMA FullIsBest ==
    ASSUME NEW r, Full(r), NEW s, Share(s)
    PROVE  ~Above(s, r) /\ (Above(r, s) <=> ~Full(s))
<1>1. /\ s.matched <= s.of => ~(s.matched * r.of > r.of * s.of)
      /\ r.of * s.of > s.matched * r.of <=> s.matched < s.of
  BY Products DEF Full, Share
<1>2. r.matched = r.of /\ s.matched <= s.of /\ s.matched \in Nat /\ s.of \in Nat
  BY DEF Full, Share
<1>3. s.matched < s.of <=> ~Full(s)
  BY <1>2 DEF Full
<1>. QED  BY <1>1, <1>2, <1>3 DEF Above

\* 85 in a hundred of both texts are 17 in 23 of one: the other has at least what is matched.
LEMMA ShareOfOne ==
    ASSUME NEW k \in Nat, NEW n \in Nat, NEW m \in Nat, k <= m,
           100 * (2 * k) >= 85 * (n + m)
    PROVE  23 * k >= 17 * n
OBVIOUS

LEMMA AlikeStandsIn ==
    ASSUME NEW quote \in Seq(Characters), quote # <<>>, NEW segment \in Seq(Characters),
           NEW c \in Candidates(quote, segment), Alike(Ratio(quote, c))
    PROVE  StandsIn(quote, segment)
<1>. DEFINE pairs == Matching(quote, c)
<1>1. c \in Seq(Characters) /\ c \in Runs(segment) /\ WordCount(c) <= WordCount(quote)
  BY CandidatesAreRuns
<1>2. \A x \in pairs : quote[x[1]] = c[x[2]]
  BY <1>1, MatchingCounts
<1>3. \A x, y \in pairs : x[1] < y[1] <=> x[2] < y[2]
  BY <1>1, MatchingCounts
<1>4. 23 * Cardinality(pairs) >= 17 * Len(quote)
  <2>1. Cardinality(pairs) \in Nat /\ Cardinality(pairs) <= Len(c)
    BY <1>1, MatchingCounts
  <2>2. 100 * (2 * Cardinality(pairs)) >= 85 * (Len(quote) + Len(c))
    BY DEF Alike, Ratio
  <2>3. Len(quote) \in Nat /\ Len(c) \in Nat
    BY <1>1
  <2>. HIDE DEF pairs
  <2>. QED  BY <2>1, <2>2, <2>3, ShareOfOne
<1>. QED  BY <1>1, <1>2, <1>3, <1>4 DEF StandsIn

LEMMA TriedIsShare ==
    ASSUME NEW quote \in Seq(Characters), quote # <<>>, NEW segments \in Seq(Seq(Characters)),
           NEW x \in Tried(quote, segments)
    PROVE  /\ x.segment \in DOMAIN segments
           /\ Share(x.ratio)
           /\ Full(x.ratio) => Occurs(quote, segments[x.segment])
           /\ Alike(x.ratio) => StandsIn(quote, segments[x.segment])
<1>1. PICK i \in DOMAIN segments : \E r \in Ratios(quote, segments[i]) : x = [segment |-> i, ratio |-> r]
  BY DEF Tried
<1>2. PICK r \in Ratios(quote, segments[i]) : x = [segment |-> i, ratio |-> r]
  BY <1>1
<1>3. PICK c \in Candidates(quote, segments[i]) : r = Ratio(quote, c)
  BY DEF Ratios
<1>4. segments[i] \in Seq(Characters)
  OBVIOUS
<1>5. c \in Seq(Characters) /\ c # <<>>
  BY <1>4, CandidatesAreRuns
<1>6. Share(r) /\ (Full(r) => c = quote)
  <2>1. /\ r.of \in Nat /\ r.matched \in Nat
        /\ r.of > 0
        /\ r.matched <= r.of
    BY <1>3, <1>5, RatioOf
  <2>2. r.matched = r.of <=> c = quote
    BY <1>3, <1>5, RatioOf
  <2>. QED  BY <2>1, <2>2 DEF Share, Full
<1>7. Full(r) => Occurs(quote, segments[i])
  BY <1>4, <1>6, OccursIsCandidate
<1>8. Alike(r) => StandsIn(quote, segments[i])
  BY <1>3, <1>4, AlikeStandsIn
<1>. QED  BY <1>2, <1>6, <1>7, <1>8

LEMMA OccursIsTried ==
    ASSUME NEW quote \in Seq(Characters), quote # <<>>, NEW segments \in Seq(Seq(Characters)),
           NEW i \in DOMAIN segments, Occurs(quote, segments[i])
    PROVE  \E x \in Tried(quote, segments) : x.segment = i /\ Full(x.ratio)
<1>. DEFINE r == Ratio(quote, quote)
            x == [segment |-> i, ratio |-> r]
<1>1. segments[i] \in Seq(Characters)
  OBVIOUS
<1>2. r \in Ratios(quote, segments[i])
  BY <1>1, OccursIsCandidate DEF Ratios
<1>3. Full(r)
  <2>1. r.of \in Nat /\ r.matched \in Nat /\ r.of > 0 /\ r.matched <= r.of
    BY RatioOf
  <2>2. r.matched = r.of
    BY RatioOf
  <2>. QED  BY <2>1, <2>2 DEF Full, Share
<1>. HIDE DEF r
<1>4. x \in Tried(quote, segments)
  BY <1>2 DEF Tried
<1>. QED  BY <1>3, <1>4

\* If any segment has the quote's words in a row, the first that has them is what the
\* loop keeps.
LEMMA ExactIsKept ==
    ASSUME NEW quote \in Seq(Characters), quote # <<>>, NEW segments \in Seq(Seq(Characters)),
           NEW i \in DOMAIN segments, Occurs(quote, segments[i]),
           \A j \in DOMAIN segments : Occurs(quote, segments[j]) => i <= j
    PROVE  LET kept == BestOf(Tried(quote, segments))
           IN kept # {} /\ \A x \in kept : x.segment = i /\ Full(x.ratio)
<1>. DEFINE tried == Tried(quote, segments)
<1>1. \A y \in tried : /\ y.segment \in DOMAIN segments /\ Share(y.ratio)
                       /\ Full(y.ratio) => i <= y.segment
  BY TriedIsShare
<1>2. PICK x \in tried : x.segment = i /\ Full(x.ratio)
  BY OccursIsTried
<1>3. \A y \in tried : y.segment \in Int
  BY <1>1
<1>. HIDE DEF tried
<1>4. \A y \in tried : ~Above(y.ratio, x.ratio) /\ (Above(x.ratio, y.ratio) <=> ~Full(y.ratio))
  BY <1>1, <1>2, FullIsBest
<1>5. x \in BestOf(tried)
  <2>1. Beats(x.ratio, Nought)
    <3>1. Share(Nought) /\ ~Full(Nought)
      BY DEF Share, Full, Nought
    <3>. QED  BY <1>2, <3>1, FullIsBest DEF Beats
  <2>2. ASSUME NEW y \in tried, y.segment < x.segment  PROVE Beats(x.ratio, y.ratio)
    <3>1. ~Full(y.ratio)
      BY <1>1, <1>2, <1>3, <2>2
    <3>. QED  BY <1>4, <3>1 DEF Beats
  <2>. QED  BY <1>4, <2>1, <2>2 DEF BestOf, Beats
<1>6. ASSUME NEW z \in BestOf(tried)  PROVE z.segment = i /\ Full(z.ratio)
  <2>1. z \in tried /\ ~Above(x.ratio, z.ratio)
    BY <1>2 DEF BestOf, Beats
  <2>2. Full(z.ratio)
    BY <1>4, <2>1
  <2>3. i <= z.segment
    BY <1>1, <2>1, <2>2
  <2>4. ~(x.segment < z.segment)
    <3>. SUFFICES ASSUME x.segment < z.segment  PROVE FALSE
      OBVIOUS
    <3>1. Above(z.ratio, x.ratio)
      BY <1>2 DEF BestOf, Beats
    <3>. QED  BY <1>4, <2>1, <3>1
  <2>. QED  BY <1>2, <1>3, <2>1, <2>2, <2>3, <2>4
<1>. QED  BY <1>5, <1>6 DEF tried

LEMMA WiderSeq ==
    ASSUME NEW S, NEW T, S \subseteq T, NEW s \in Seq(S)
    PROVE  s \in Seq(T)
<1>1. Len(s) \in Nat /\ \A i \in 1..Len(s) : s[i] \in T
  OBVIOUS
<1>2. s = [i \in 1..Len(s) |-> s[i]]
  OBVIOUS
<1>. QED  BY <1>1, <1>2, IsASeq

QuoteInv ==
    /\ asked \in [quote : Seq(Characters), segments : Seq(Seq(Characters))]
    /\ match # NotAsked => match = verify_quote(asked.quote, asked.segments)

LEMMA ExactIsCited ==
    ASSUME NEW quote \in Seq(Characters), quote # <<>>, NEW segments \in Seq(Seq(Characters)),
           NEW exact, exact = {i \in DOMAIN segments : Occurs(quote, segments[i])}, exact # {}
    PROVE  LET result == verify_quote(quote, segments)
           IN result.found /\ result.segment \in exact /\ \A i \in exact : result.segment <= i
<1>1. PICK i \in exact : \A j \in exact : i <= j
  <2>1. exact \in SUBSET Nat
    OBVIOUS
  <2>. QED  BY <2>1, LeastNumber
<1>. DEFINE kept == BestOf(Tried(quote, segments))
            best == CHOOSE x \in kept : TRUE
<1>2. kept # {} /\ \A x \in kept : x.segment = i /\ Full(x.ratio)
  BY <1>1, ExactIsKept
<1>3. best \in kept
  BY <1>2
<1>4. verify_quote(quote, segments) = [found |-> Alike(best.ratio), segment |-> best.segment]
  BY <1>2 DEF verify_quote
<1>. HIDE DEF best, kept
<1>5. best.segment = i /\ Full(best.ratio)
  BY <1>2, <1>3
<1>6. Alike(best.ratio)
  BY <1>5 DEF Alike, Full, Share
<1>. QED  BY <1>1, <1>4, <1>5, <1>6

LEMMA FoundStandsIn ==
    ASSUME NEW quote \in Seq(Characters), NEW segments \in Seq(Seq(Characters)),
           NEW result, result = verify_quote(quote, segments), result.found
    PROVE  /\ quote # <<>>
           /\ result.segment \in DOMAIN segments
           /\ StandsIn(quote, segments[result.segment])
<1>. DEFINE kept == BestOf(Tried(quote, segments))
            best == CHOOSE x \in kept : TRUE
<1>1. quote # <<>> /\ kept # {}
  BY DEF verify_quote
<1>2. result = [found |-> Alike(best.ratio), segment |-> best.segment]
  BY <1>1 DEF verify_quote
<1>3. best \in kept
  BY <1>1
<1>4. best \in Tried(quote, segments)
  BY <1>3 DEF BestOf
<1>. HIDE DEF best, kept
<1>5. Alike(best.ratio) /\ result.segment = best.segment
  BY <1>2
<1>. QED  BY <1>1, <1>4, <1>5, TriedIsShare

\* What was said word for word is found and cited where it was first said, and what is
\* found stands in the segment it cites, most of its characters in their order, for any
\* letters, quotes and segments (verify.py, verify_quote).
THEOREM QuotesAreCitedHolds == QuoteSpec => []QuotesAreCited
<1>1. ASSUME NEW quote \in Normalised, NEW segments \in Seq(Normalised), QuoteInit(quote, segments)
      PROVE  QuoteInv
  <2>1. Normalised \subseteq Seq(Characters)
    BY DEF Normalised
  <2>2. quote \in Seq(Characters) /\ segments \in Seq(Seq(Characters))
    <3>. HIDE DEF Characters
    <3>. QED  BY <2>1, WiderSeq
  <2>. QED  BY <1>1, <2>2 DEF QuoteInit, QuoteInv
<1>2. QuoteInv /\ [QuoteNext]_quoteVars => QuoteInv'
  <2>. SUFFICES ASSUME QuoteInv, [QuoteNext]_quoteVars  PROVE QuoteInv'
    OBVIOUS
  <2>1. CASE QuoteNext
    BY <2>1 DEF QuoteInv, QuoteNext
  <2>2. CASE UNCHANGED quoteVars
    BY <2>2 DEF QuoteInv, quoteVars
  <2>. QED  BY <2>1, <2>2
<1>3. QuoteInv => QuotesAreCited
  <2>. SUFFICES ASSUME QuoteInv, match # NotAsked  PROVE QuotesAreCited
    BY DEF QuotesAreCited
  <2>. DEFINE quote == asked.quote
              segs  == asked.segments
              exact == {i \in DOMAIN segs : quote # <<>> /\ Occurs(quote, segs[i])}
  <2>1. quote \in Seq(Characters) /\ segs \in Seq(Seq(Characters)) /\ match = verify_quote(quote, segs)
    BY DEF QuoteInv
  <2>2. ASSUME exact # {}
        PROVE  match.found /\ match.segment \in exact /\ \A i \in exact : match.segment <= i
    <3>1. quote # <<>>
      BY <2>2
    <3>2. exact = {i \in DOMAIN segs : Occurs(quote, segs[i])}
      BY <3>1
    <3>. HIDE DEF quote, segs, exact
    <3>. QED  BY <2>1, <2>2, <3>1, <3>2, ExactIsCited
  <2>3. ASSUME match.found
        PROVE  /\ quote # <<>>
               /\ match.segment \in DOMAIN segs
               /\ StandsIn(quote, segs[match.segment])
    <3>. HIDE DEF quote, segs, exact
    <3>. QED  BY <2>1, <2>3, FoundStandsIn
  <2>. QED  BY <2>2, <2>3 DEF QuotesAreCited
<1>4. (/\ \E quote \in Normalised, segments \in Seq(Normalised) :
             /\ \A i \in DOMAIN segments : \A c \in Candidates(quote, segments[i]) : Len(c) < AutoJunk
             /\ QuoteInit(quote, segments)) => QuoteInv
  BY <1>1
<1>. QED  BY <1>2, <1>3, <1>4, PTL DEF QuoteSpec

===============================================================================
