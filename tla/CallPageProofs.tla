---------------------------- MODULE CallPageProofs ----------------------------
(***************************************************************************)
(* What the page of a call shows, for any list of SELECTs, any number of   *)
(* stages and any values of the bounds.  Overtaken requests are not in the *)
(* invariant at all: their answers reach no part of the page.              *)
(***************************************************************************)
EXTENDS CallPage, SequenceTheorems, TLAPS

\* Later SELECTs have seen no less than earlier ones, and none more than there is.
Ascending(answer) ==
    /\ \A i, k \in DOMAIN answer : i <= k => Older(answer[i], answer[k])
    /\ \A i \in DOMAIN answer : Older(answer[i], db)

\* The request that is alive was sent after the answer on the page had come: it sees
\* nothing that is older.
AskingInv ==
    asking # NotAsking =>
        /\ asking \in Seq(Moment)
        /\ Len(asking) <= Len(Selects)
        /\ Ascending(asking)
        /\ shown # NoData => \A i \in DOMAIN asking, k \in DOMAIN Selects :
                                Older(shown[k], asking[i])

ShownInv ==
    shown # NoData =>
        /\ shown \in Seq(Moment)
        /\ Len(shown) = Len(Selects)
        /\ Ascending(shown)

PageInv == db \in Moment /\ AskingInv /\ ShownInv

-------------------------------------------------------------------------------
\* Older is a partial order, of which this is used.
LEMMA OlderOrder ==
    /\ \A a \in Moment : Older(a, a)
    /\ \A a, b, c \in Moment : Older(a, b) /\ Older(b, c) => Older(a, c)
BY PageAssumption DEF Older, Moment

\* The database only gets further.
LEMMA DbStep ==
    ASSUME PageInv, [PageNext]_pageVars
    PROVE  db' \in Moment /\ Older(db, db')
<1>. USE DEF PageInv
<1>1. CASE StageCommits
  BY <1>1, PageAssumption DEF StageCommits, Older, Moment
<1>2. CASE OthersEdit \/ DisputeCommits
  BY <1>2, PageAssumption DEF OthersEdit, DisputeCommits, Older, Moment
<1>3. CASE \/ Select \/ SelectLate \/ Answer \/ AnswerFails \/ AnswerLate \/ Poll
           \/ SubmitDispute \/ DisputeRefused \/ DisputeAnswered \/ UNCHANGED pageVars
  <2>1. db' = db
    BY <1>3 DEF Select, SelectLate, Answer, AnswerFails, AnswerLate, Poll, SubmitDispute,
                DisputeRefused, DisputeAnswered, pageVars
  <2>. QED  BY <2>1, OlderOrder
<1>. QED  BY <1>1, <1>2, <1>3 DEF PageNext

\* An answer stays in order while the call moves on.
LEMMA AscendingStep ==
    ASSUME PageInv, [PageNext]_pageVars, NEW answer \in Seq(Moment), Ascending(answer)
    PROVE  /\ \A i, k \in DOMAIN answer : i <= k => Older(answer[i], answer[k])
           /\ \A i \in DOMAIN answer : Older(answer[i], db')
<1>1. \A i \in DOMAIN answer : answer[i] \in Moment
  BY LenProperties, ElementOfSeq
<1>2. db \in Moment /\ db' \in Moment /\ Older(db, db')
  BY DbStep DEF PageInv
<1>. QED  BY <1>1, <1>2, OlderOrder DEF Ascending

\* One more SELECT sees what is committed, which is no less than what the others saw.
LEMMA SelectStep ==
    ASSUME PageInv, Select
    PROVE  AskingInv'
<1>1. /\ asking \in Seq(Moment) /\ Len(asking) < Len(Selects) /\ Ascending(asking)
      /\ db \in Moment /\ asking' = Append(asking, db) /\ db' = db /\ shown' = shown
      /\ shown # NoData => \A i \in DOMAIN asking, k \in DOMAIN Selects :
                                Older(shown[k], asking[i])
  BY DEF Select, PageInv, AskingInv
<1>2. /\ asking' \in Seq(Moment) /\ Len(asking') = Len(asking) + 1
      /\ \A i \in 1..Len(asking) : asking'[i] = asking[i]
      /\ asking'[Len(asking) + 1] = db
  BY <1>1, AppendProperties
<1>3. /\ DOMAIN asking = 1..Len(asking) /\ DOMAIN asking' = 1..Len(asking')
      /\ Len(asking) \in Nat /\ Len(Selects) \in Nat
  BY <1>1, <1>2, LenProperties, PageAssumption
<1>4. \A i \in DOMAIN asking' : i \in DOMAIN asking \/ asking'[i] = db
  BY <1>2, <1>3
<1>5. \A i \in DOMAIN asking' : Older(asking'[i], db)
  BY <1>1, <1>2, <1>3, <1>4, OlderOrder DEF Ascending
<1>6. \A i, k \in DOMAIN asking' : i <= k => Older(asking'[i], asking'[k])
  <2> SUFFICES ASSUME NEW i \in DOMAIN asking', NEW k \in DOMAIN asking', i <= k
               PROVE  Older(asking'[i], asking'[k])
    OBVIOUS
  <2>1. CASE k = Len(asking) + 1
    BY <1>2, <1>5, <2>1
  <2>2. CASE k # Len(asking) + 1
    <3>1. i \in DOMAIN asking /\ k \in DOMAIN asking
      BY <1>2, <1>3, <2>2
    <3>. QED  BY <1>1, <1>2, <1>3, <3>1 DEF Ascending
  <2>. QED  BY <2>1, <2>2
<1>7. ASSUME shown # NoData, NEW i \in DOMAIN asking', NEW k \in DOMAIN Selects
      PROVE  Older(shown[k], asking'[i])
  <2>1. k \in DOMAIN shown /\ Ascending(shown)
    <3>1. DOMAIN Selects = 1..Len(Selects)
      BY PageAssumption, LenProperties
    <3>. QED  BY <1>7, <3>1, LenProperties DEF PageInv, ShownInv
  <2>. QED  BY <1>1, <1>2, <1>3, <1>4, <1>7, <2>1 DEF Ascending
<1>. QED
  BY <1>1, <1>2, <1>3, <1>5, <1>6, <1>7 DEF AskingInv, Ascending

\* A request that has just been sent has seen nothing yet.
LEMMA FreshRequest ==
    ASSUME asking' = <<>>
    PROVE  AskingInv'
<1>1. <<>> \in Seq(Moment) /\ Len(<<>>) = 0 /\ DOMAIN <<>> = {} /\ Len(Selects) \in Nat
  BY EmptySeq, LenProperties, PageAssumption
<1>2. Moment' = Moment
  BY DEF Moment
<1>. QED  BY <1>1, <1>2 DEF AskingInv, Ascending

LEMMA PageStep ==
    ASSUME PageInv, [PageNext]_pageVars
    PROVE  PageInv'
<1>0. db' \in Moment
  BY DbStep
<1>1. CASE Select
  <2>1. AskingInv'
    BY <1>1, SelectStep
  <2>2. shown' = shown /\ db' = db
    BY <1>1 DEF Select
  <2>. QED  BY <1>0, <2>1, <2>2 DEF PageInv, ShownInv, Ascending, Moment
<1>2. CASE Answer
  <2>1. /\ asking \in Seq(Moment) /\ Len(asking) = Len(Selects) /\ Ascending(asking)
        /\ shown' = asking /\ asking' = NotAsking /\ db' = db
    BY <1>2 DEF Answer, Kept, PageInv, AskingInv
  <2>. QED  BY <1>0, <2>1 DEF PageInv, AskingInv, ShownInv, Ascending, Moment
<1>3. CASE AnswerFails
  <2>1. asking' = NotAsking /\ shown' = shown /\ db' = db
    BY <1>3 DEF AnswerFails
  <2>. QED  BY <1>0, <2>1 DEF PageInv, AskingInv, ShownInv, Ascending, Moment
<1>4. CASE Poll \/ DisputeAnswered
  <2>1. asking' = <<>> /\ shown' = shown /\ db' = db
    BY <1>4 DEF Poll, DisputeAnswered, Reload
  <2>2. AskingInv'
    BY <2>1, FreshRequest
  <2>. QED  BY <1>0, <2>1, <2>2 DEF PageInv, ShownInv, Ascending, Moment
<1>5. CASE \/ StageCommits \/ OthersEdit \/ SelectLate \/ AnswerLate
           \/ SubmitDispute \/ DisputeCommits \/ DisputeRefused \/ UNCHANGED pageVars
  <2>1. asking' = asking /\ shown' = shown
    BY <1>5 DEF StageCommits, OthersEdit, SelectLate, AnswerLate, Kept, SubmitDispute,
                DisputeCommits, DisputeRefused, pageVars
  <2>2. \A answer \in Seq(Moment) : Ascending(answer) =>
          /\ \A i, k \in DOMAIN answer : i <= k => Older(answer[i], answer[k])
          /\ \A i \in DOMAIN answer : Older(answer[i], db')
    BY AscendingStep
  <2>3. AskingInv'
    <3>1. ASSUME asking # NotAsking PROVE Ascending(asking)'
      BY <2>1, <2>2, <3>1 DEF PageInv, AskingInv, Ascending, Older
    <3>. QED  BY <2>1, <3>1 DEF PageInv, AskingInv, Moment, Older
  <2>4. ShownInv'
    <3>1. ASSUME shown # NoData PROVE Ascending(shown)'
      BY <2>1, <2>2, <3>1 DEF PageInv, ShownInv, Ascending, Older
    <3>. QED  BY <2>1, <3>1 DEF PageInv, ShownInv, Moment
  <2>. QED  BY <1>0, <2>3, <2>4 DEF PageInv, Moment
<1>. QED  BY <1>1, <1>2, <1>3, <1>4, <1>5 DEF PageNext

\* What the theorems on the page rest on is inductive.
THEOREM PageInvariant == PageSpec => []PageInv
<1>1. PageInit => PageInv
  <2> SUFFICES ASSUME PageInit PROVE PageInv
    OBVIOUS
  <2>1. <<>> \in Seq(Moment) /\ Len(<<>>) = 0 /\ DOMAIN <<>> = {} /\ Len(Selects) \in Nat
    BY EmptySeq, LenProperties, PageAssumption
  <2>. QED  BY <2>1 DEF PageInit, PageInv, AskingInv, ShownInv, Ascending
<1>. QED  BY <1>1, PageStep, PTL DEF PageSpec

\* A page that has stopped polling shows nothing from before the call was settled,
\* whatever committed between the SELECTs of its answer (call_detail).
THEOREM StoppedIsCompleteHolds == PageSpec => []StoppedIsComplete
<1>1. PageInv => StoppedIsComplete
  <2> SUFFICES ASSUME PageInv, ShowsSettled, NEW k \in DOMAIN Selects
               PROVE  shown[k].stage = Final
    BY DEF StoppedIsComplete
  <2>1. /\ shown \in Seq(Moment) /\ DOMAIN shown = DOMAIN Selects
        /\ k \in 1..Len(Selects) /\ 1 \in DOMAIN Selects
        /\ Ascending(shown) /\ shown[1].stage = Final
    BY PageAssumption, LenProperties DEF PageInv, ShownInv, ShowsSettled, StatusOf
  <2>2. shown[k] \in Moment
    BY <2>1, LenProperties, ElementOfSeq
  <2>3. Older(shown[1], shown[k])
    BY <2>1 DEF Ascending
  <2>. QED  BY <2>1, <2>2, <2>3, PageAssumption DEF Older, Moment
<1>. QED  BY <1>1, PageInvariant, PTL

\* No part of the page is ever replaced by an older one, however the answers of the
\* polls overtake each other (useApi.ts, alive).
THEOREM NeverGoesBackHolds == PageSpec => NeverGoesBack
<1>1. ASSUME PageInv, PageNext, shown # NoData, NEW k \in DOMAIN Selects
      PROVE  Older(shown[k], shown'[k])
  <2>1. k \in DOMAIN shown /\ shown[k] \in Moment
    BY <1>1, PageAssumption, LenProperties, ElementOfSeq DEF PageInv, ShownInv
  <2>2. CASE Answer
    <3>1. /\ asking \in Seq(Moment) /\ Len(asking) = Len(Selects) /\ shown' = asking
          /\ \A i \in DOMAIN asking : Older(shown[k], asking[i])
      BY <1>1, <2>2 DEF Answer, Kept, PageInv, AskingInv
    <3>2. k \in DOMAIN asking
      BY <3>1, PageAssumption, LenProperties
    <3>. QED  BY <3>1, <3>2
  <2>3. CASE ~Answer
    <3>1. shown' = shown
      BY <1>1, <2>3 DEF PageNext, StageCommits, OthersEdit, Select, SelectLate, AnswerFails,
           AnswerLate, Kept, Poll, SubmitDispute, DisputeCommits, DisputeRefused,
           DisputeAnswered
    <3>. QED  BY <2>1, <3>1, OlderOrder
  <2>. QED  BY <2>2, <2>3
<1>2. PageInv /\ [PageNext]_pageVars
      => [shown # NoData => \A k \in DOMAIN Selects : Older(shown[k], shown'[k])]_pageVars
  BY <1>1
<1>. QED  BY <1>2, PageInvariant, PTL DEF PageSpec, NeverGoesBack
===============================================================================
