------------------------------ MODULE Scorecard ------------------------------
(***************************************************************************)
(* How the marks and findings of an analysis become the composite of a call *)
(* (analysis/rubric.py, pipeline/stages/analyse.py) and what becomes of it  *)
(* when findings are disputed (analysis/recompute.py).                      *)
(*                                                                         *)
(* A mark counts score/5 of its weight, and weights add up to 1: in         *)
(* hundredths a mark counts a whole number per point (Points), so that      *)
(* composites are integers here.  Decisions are taken one at a time; how    *)
(* they overlap is Feedback's matter.                                       *)
(***************************************************************************)
EXTENDS Naturals, Sequences, FiniteSets, FiniteSetsExt

CONSTANTS Points,    \* for each dimension: what a point of its score counts
          Findings,  \* the flags of one answer
          Unscored   \* there is no row in call_scores

ASSUME ScorecardAssumption ==
    \A d \in DOMAIN Points : Points[d] \in Nat

VARIABLES
    answer,   \* what the model reported: the marks, and what is true of each finding
    rows,     \* the rows of scores
    flags,    \* the rows of flags: severity, and whether dismissed
    card,     \* the row of call_scores
    released  \* whether RUBRIC_VERSION is another one by now

cardVars == <<answer, rows, flags, card, released>>

Dimension == DOMAIN Points
Mark == [dimension : Dimension, score : 0..5]
\* A finding is of a critical tag or not, its quote was found or not, in a
\* segment of that speaker, and the model was sure of it or not.
Finding == [critical : BOOLEAN, cited : BOOLEAN, sure : BOOLEAN,
            speaker : {"advisor", "customer", "unknown"}]

COMPLIANCE_CAP == 40

CardTypeOK ==
    /\ rows \in Seq(Mark)
    /\ DOMAIN flags \subseteq Findings
    /\ card \in [composite : Nat, capped : BOOLEAN] \cup {Unscored}
    /\ released \in BOOLEAN

CardInit(marks, findings) ==
    /\ answer = [marks |-> marks, findings |-> findings]
    /\ rows = <<>>
    /\ flags = <<>>
    /\ card = Unscored
    /\ released = FALSE

-------------------------------------------------------------------------------
\* scores.get(dim, 0): a dimension without a mark counts nothing.
Raw(scores) == MapThenSumSet(LAMBDA d : scores[d] * Points[d], DOMAIN scores)

compute_composite(scores, critical) ==
    [composite |-> IF critical /\ Raw(scores) > COMPLIANCE_CAP THEN COMPLIANCE_CAP ELSE Raw(scores),
     capped    |-> critical /\ Raw(scores) > COMPLIANCE_CAP]

Marked(marks) == {marks[i].dimension : i \in DOMAIN marks}

\* The dict of analyse: the last mark of a dimension stays.
LastOf(marks) ==
    [d \in Marked(marks) |->
        marks[Max({i \in DOMAIN marks : marks[i].dimension = d})].score]

\* The dicts that recompute may get from the rows, which it reads in any order.
AnyOf(marks) ==
    {s \in [Marked(marks) -> {marks[i].score : i \in DOMAIN marks}] :
        \A d \in Marked(marks) : \E i \in DOMAIN marks : marks[i] = [dimension |-> d, score |-> s[d]]}

Critical_Unsure(finding) == finding.critical /\ finding.speaker # "customer"
\* The severity of a finding after both downgrades.
Critical(finding) == finding.critical /\ finding.sure /\ finding.speaker # "customer"

\* A finding whose quote was not found is dropped.
Cited(findings) == {f \in DOMAIN findings : findings[f].cited}

\* The rows that keep the cap.
Standing(fs) == {f \in DOMAIN fs : fs[f].critical /\ ~fs[f].dismissed}

-------------------------------------------------------------------------------
\* analyse writes all of it in one transaction.
Analyse ==
    /\ card = Unscored
    /\ rows' = answer.marks
    /\ flags' = [f \in Cited(answer.findings) |->
                    [critical |-> Critical(answer.findings[f]), dismissed |-> FALSE]]
    /\ card' = compute_composite(LastOf(answer.marks), Standing(flags') # {})
    /\ UNCHANGED <<answer, released>>

\* recompute_call_score: only scores of the current rubric version count, and
\* with none the card stays.
Recomputed(fs) ==
    IF released \/ rows = <<>> THEN {card}
    ELSE {compute_composite(scores, Standing(fs) # {}) : scores \in AnyOf(rows)}

\* A dispute was resolved.
Resolve(f, dismissed) ==
    /\ card # Unscored
    /\ ~flags[f].dismissed
    /\ flags' = [flags EXCEPT ![f].dismissed = dismissed]
    /\ card' \in Recomputed(flags')
    /\ UNCHANGED <<answer, rows, released>>

\* The backend is deployed with a new RUBRIC_VERSION.
Release ==
    /\ card # Unscored
    /\ ~released
    /\ released' = TRUE
    /\ UNCHANGED <<answer, rows, flags, card>>

CardNext ==
    \/ Analyse
    \/ \E f \in DOMAIN flags, dismissed \in BOOLEAN : Resolve(f, dismissed)
    \/ Release

\* Any marks may be reported, also none, with any findings.
CardSpec ==
    /\ \E marks \in Seq(Mark), findings \in [Findings -> Finding] : CardInit(marks, findings)
    /\ [][CardNext]_cardVars

-------------------------------------------------------------------------------
\* What must be true of a finding for it to cap a call: a critical tag, a quote of
\* the call, a confident model, and not the customer's own words (analyse.py,
\* "Flags judge ADVISOR behaviour", "Low confidence degrades to info").
Earned(finding) ==
    finding \in [critical : {TRUE}, cited : {TRUE}, sure : {TRUE},
                 speaker : {"advisor", "unknown"}]

NoRepeats(marks) == Cardinality(Marked(marks)) = Len(marks)

\* However findings were decided on, the composite is what the analysis would have
\* given without the dismissed ones, and nothing but an earned finding that was not
\* dismissed holds it at the cap: as long as no dimension was marked twice and the
\* rubric version is the same.
CapIsEarned ==
    card # Unscored /\ NoRepeats(answer.marks) /\ ~released =>
        card = compute_composite(
                   LastOf(answer.marks),
                   \E f \in DOMAIN flags : Earned(answer.findings[f]) /\ ~flags[f].dismissed)
===============================================================================
