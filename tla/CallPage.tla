------------------------------- MODULE CallPage -------------------------------
(***************************************************************************)
(* The page of one call (frontend/app/calls/[id]/page.tsx): it shows the    *)
(* answers of useApi (frontend/lib/useApi.ts), polls while the call that it *)
(* shows is in the pipeline, and asks again after a dispute.                *)
(*                                                                         *)
(* An answer (app/routes/calls.py, call_detail) is put together from        *)
(* several SELECTs at READ COMMITTED, each of which sees what is committed  *)
(* by then.  What they find is abstracted to what the database had been     *)
(* through: the stages the call has passed, and the decisions on its flags. *)
(*                                                                         *)
(* Only the latest request is alive; the answers of the others are ignored. *)
(* Leaving the page is left out, and so is the time between polls: any      *)
(* request may fail, or be overtaken by the next poll before it is          *)
(* answered.                                                                *)
(***************************************************************************)
EXTENDS Naturals, Sequences

CONSTANTS Selects,      \* the SELECTs of call_detail, in their order
          Final,        \* the stage that settles the status of the call
          MaxEdits,     \* bound: disputes raised and resolved
          MaxLate,      \* bound: overtaken requests that are remembered
          NotAsking,    \* no request is alive
          NoData        \* nothing was shown yet

ASSUME PageAssumption ==
    /\ Selects \in Seq(STRING) \ {<<>>}
    /\ Selects[1] = "call"
    /\ Final \in Nat \ {0}
    /\ {MaxEdits, MaxLate} \subseteq Nat

VARIABLES
    db,        \* what the call has been through: stages and edits
    asking,    \* what the SELECTs of the request that is alive have seen
    late,      \* the same, of requests that are not alive any more
    shown,     \* data: what each SELECT of the answer on the page has seen
    error,     \* whether the page shows an error in its place
    dispute    \* the POST of submitDispute: no, sent or done

pageVars == <<db, asking, late, shown, error, dispute>>

Moment == [stage : 0..Final, edits : 0..MaxEdits]
Older(a, b) == a.stage <= b.stage /\ a.edits <= b.edits

Detail == [DOMAIN Selects -> Moment]
\* The answer so far: the first SELECTs of call_detail.
Partial == UNION {[1..n -> Moment] : n \in 0..Len(Selects)}

PageTypeOK ==
    /\ db \in Moment
    /\ asking \in Partial \cup {NotAsking}
    /\ late \in UNION {[1..n -> Partial] : n \in 0..MaxLate}
    /\ shown \in Detail \cup {NoData}
    /\ error \in BOOLEAN
    /\ dispute \in {"no", "sent", "done"}

\* The page is opened at any stage of the call, and asks at once.
PageInit ==
    /\ db \in {m \in Moment : m.edits = 0}
    /\ asking = <<>>
    /\ late = <<>>
    /\ shown = NoData
    /\ error = FALSE
    /\ dispute = "no"

-------------------------------------------------------------------------------
StatusOf_Last(detail) == detail[Len(Selects)].stage
\* call.status comes from the first SELECT.
StatusOf(detail) == detail[1].stage

Processing == shown # NoData /\ StatusOf(shown) < Final

\* The flags come with the analysis, the stage before the last.
Flagged(m) == m.stage >= Final - 1

Kept_Any(answer, alive) == answer
\* alive && setData(d)
Kept(answer, alive) == IF alive THEN answer ELSE shown

Without(s, i) == SubSeq(s, 1, i - 1) \o SubSeq(s, i + 1, Len(s))

\* A new nonce: the cleanup of the effect makes the previous request late.
Reload ==
    /\ asking' = <<>>
    /\ late' = IF asking = NotAsking THEN late
               ELSE LET all == Append(late, asking)
                    IN SubSeq(all, IF Len(all) > MaxLate THEN 2 ELSE 1, Len(all))

-------------------------------------------------------------------------------
\* The pipeline, and other users.
StageCommits ==
    /\ db.stage < Final
    /\ db' = [db EXCEPT !.stage = @ + 1]
    /\ UNCHANGED <<asking, late, shown, error, dispute>>

OthersEdit ==
    /\ Flagged(db)
    /\ db.edits < MaxEdits
    /\ db' = [db EXCEPT !.edits = @ + 1]
    /\ UNCHANGED <<asking, late, shown, error, dispute>>

\* The next SELECT of a request.
Select ==
    /\ asking # NotAsking
    /\ Len(asking) < Len(Selects)
    /\ asking' = Append(asking, db)
    /\ UNCHANGED <<db, late, shown, error, dispute>>

SelectLate ==
    /\ \E i \in DOMAIN late :
          /\ Len(late[i]) < Len(Selects)
          /\ late' = [late EXCEPT ![i] = Append(@, db)]
    /\ UNCHANGED <<db, asking, shown, error, dispute>>

\* The answer of the request that is alive: setData, setError(null).
Answer ==
    /\ asking # NotAsking
    /\ Len(asking) = Len(Selects)
    /\ shown' = Kept(asking, TRUE)
    /\ error' = FALSE
    /\ asking' = NotAsking
    /\ UNCHANGED <<db, late, dispute>>

\* It fails: the error takes the place of the data, which are kept.
AnswerFails ==
    /\ asking # NotAsking
    /\ error' = TRUE
    /\ asking' = NotAsking
    /\ UNCHANGED <<db, late, shown, dispute>>

\* The answer of an overtaken request, which may come before or after that of
\* the latest one.
AnswerLate ==
    /\ \E i \in DOMAIN late :
          /\ Len(late[i]) = Len(Selects)
          /\ shown' = Kept(late[i], FALSE)
          /\ late' = Without(late, i)
    /\ UNCHANGED <<db, asking, error, dispute>>

\* The interval elapses, although the last answer may still be on its way.
Poll ==
    /\ Processing
    /\ Reload
    /\ UNCHANGED <<db, shown, error, dispute>>

\* submitDispute, unless busy: the form is there with a flag, without an error.
SubmitDispute ==
    /\ dispute = "no"
    /\ shown # NoData /\ ~error
    /\ \E k \in DOMAIN Selects : Selects[k] = "flags" /\ Flagged(shown[k])
    /\ dispute' = "sent"
    /\ UNCHANGED <<db, asking, late, shown, error>>

DisputeCommits ==
    /\ dispute = "sent"
    /\ db.edits < MaxEdits
    /\ db' = [db EXCEPT !.edits = @ + 1]
    /\ dispute' = "done"
    /\ UNCHANGED <<asking, late, shown, error>>

\* The API refuses it, or is not there: the page stays as it is.
DisputeRefused ==
    /\ dispute = "sent"
    /\ dispute' = "no"
    /\ UNCHANGED <<db, asking, late, shown, error>>

DisputeAnswered ==
    /\ dispute = "done"
    /\ dispute' = "no"
    /\ Reload
    /\ UNCHANGED <<db, shown, error>>

PageNext ==
    \/ StageCommits \/ OthersEdit
    \/ Select \/ SelectLate
    \/ Answer \/ AnswerFails \/ AnswerLate
    \/ Poll
    \/ SubmitDispute \/ DisputeCommits \/ DisputeRefused \/ DisputeAnswered

PageSpec == PageInit /\ [][PageNext]_pageVars

-------------------------------------------------------------------------------
ShowsSettled == shown # NoData /\ StatusOf(shown) = Final

\* A page that shows a settled call, and so polls no more, shows all of it: no part
\* of the answer is from before the call was settled, although each comes from a
\* SELECT of its own (call_detail; page.tsx: "poll so the page fills in live").
StoppedIsComplete ==
    ShowsSettled => \A k \in DOMAIN Selects : shown[k].stage = Final

\* What the page has shown of a call it never takes back: answers that come late
\* or out of order replace no part of it by an older one (useApi.ts, alive).
NeverGoesBack ==
    [][shown # NoData => \A k \in DOMAIN Selects : Older(shown[k], shown'[k])]_pageVars
===============================================================================
