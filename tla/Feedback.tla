------------------------------- MODULE Feedback -------------------------------
(***************************************************************************)
(* The dispute loop of one scored call: feedback.py and                    *)
(* analysis/recompute.py, behind POST /flags/{id}/dispute and              *)
(* POST /disputes/{id}/resolve.                                            *)
(*                                                                         *)
(* FastAPI runs the handlers in a thread pool, each with a transaction of  *)
(* its own, at READ COMMITTED.  A handler reads the flag, decides, writes  *)
(* and commits; nothing locks the flag before it is written.  A transaction *)
(* that has written a flag holds its row until it commits, and what other  *)
(* transactions have not committed it does not see: recompute, which reads *)
(* the flags of the call between the two, counts only committed decisions  *)
(* and its own.                                                            *)
(*                                                                         *)
(* The composite is abstracted to whether it is capped: its dimensions are *)
(* those of a call the cap would lower.                                    *)
(***************************************************************************)
EXTENDS Naturals, Sequences, FiniteSets

CONSTANTS Flags,       \* the flags of the call
          Critical,    \* those whose severity is critical
          Quoted,      \* those whose quote is not NULL
          Requests,    \* requests that may be in flight together
          MaxDisputes, \* bound: disputes raised
          MaxAborts    \* bound: requests that are cut off

ASSUME FeedbackAssumption ==
    /\ Critical \subseteq Flags
    /\ Quoted \subseteq Flags
    /\ MaxDisputes \in Nat
    /\ MaxAborts \in Nat

VARIABLES
    flag,     \* flags.state
    dispute,  \* the rows of disputes: flag_id and resolution
    example,  \* the rows of calibration_examples: source_dispute_id and verdict
    capped,   \* call_scores.compliance_capped
    req,      \* what each request in flight has done so far
    aborts    \* how many requests were cut off

tables == <<flag, dispute, example, capped>>
vars == <<tables, req, aborts>>

FlagState == {"open", "disputed", "upheld", "dismissed"}
Resolution == {"upheld", "dismissed"}

None == [op |-> "none"]
Raising(f) == [op |-> "raise", flag |-> f]
Resolving(d, res) == [op |-> "resolve", dispute |-> d, as |-> res]
Written(d, res, cap) == [op |-> "written", dispute |-> d, as |-> res, cap |-> cap]

TypeOK ==
    /\ flag \in [Flags -> FlagState]
    /\ dispute \in Seq([flag : Flags, resolution : Resolution \cup {"none"}])
    /\ example \subseteq [dispute : DOMAIN dispute, verdict : Resolution]
    /\ capped \in BOOLEAN
    /\ DOMAIN req = Requests
    /\ \A r \in Requests :
          \/ req[r] = None
          \/ \E f \in Flags : req[r] = Raising(f)
          \/ \E d \in DOMAIN dispute, res \in Resolution :
                req[r] = Resolving(d, res) \/ \E cap \in BOOLEAN : req[r] = Written(d, res, cap)
    /\ aborts \in 0..MaxAborts

Init ==
    /\ flag = [f \in Flags |-> "open"]
    /\ dispute = <<>>
    /\ example = {}
    /\ capped = (Critical # {})
    /\ req = [r \in Requests |-> None]
    /\ aborts = 0

-------------------------------------------------------------------------------
\* A transaction that has written f holds its row until it commits.
Locked(f) ==
    \E r \in Requests : req[r].op = "written" /\ dispute[req[r].dispute].flag = f

MustCap_AnyState(f, res) == Critical # {}
\* recompute's SELECT, in a transaction that has resolved f as res.
MustCap(f, res) ==
    \E g \in Critical : IF g = f THEN res # "dismissed" ELSE flag[g] # "dismissed"

\* The states raise_dispute and resolve_dispute refuse to go on from.
Disputable_Any(f) == TRUE
Disputable(f) == flag[f] = "open"
Resolvable(d) == flag[dispute[d].flag] = "disputed"

Inserted_OncePerFlag(f) ==
    IF \E d \in DOMAIN dispute : dispute[d].flag = f THEN dispute
    ELSE Append(dispute, [flag |-> f, resolution |-> "none"])
\* raise_dispute's INSERT.
Inserted(f) == Append(dispute, [flag |-> f, resolution |-> "none"])

Decided_Forgotten(r) == flag
\* resolve_dispute's UPDATE of the flag.
Decided(r) == [flag EXCEPT ![dispute[req[r].dispute].flag] = req[r].as]

Minted_None(r) == {}
Minted_OldState(r) ==
    {[dispute |-> req[r].dispute, verdict |-> flag[dispute[req[r].dispute].flag]]}
\* Its INSERT of a calibration example.
Minted(r) == {[dispute |-> req[r].dispute, verdict |-> req[r].as]}

-------------------------------------------------------------------------------
\* raise_dispute reads an open flag; of any other it says so and changes nothing.
RaiseCheck(r, f) ==
    /\ req[r] = None
    /\ Len(dispute) + Cardinality({q \in Requests : req[q].op = "raise"}) < MaxDisputes
    /\ Disputable(f)
    /\ req' = [req EXCEPT ![r] = Raising(f)]
    /\ UNCHANGED <<tables, aborts>>

\* Its INSERT and its UPDATE, which does not look at the state again, and commit.
RaiseCommit(r) ==
    /\ req[r].op = "raise"
    /\ ~Locked(req[r].flag)
    /\ dispute' = Inserted(req[r].flag)
    /\ flag' = [flag EXCEPT ![req[r].flag] = "disputed"]
    /\ req' = [req EXCEPT ![r] = None]
    /\ UNCHANGED <<example, capped, aborts>>

\* resolve_dispute reads a dispute whose flag is disputed.
ResolveCheck(r, d, res) ==
    /\ req[r] = None
    /\ Resolvable(d)
    /\ req' = [req EXCEPT ![r] = Resolving(d, res)]
    /\ UNCHANGED <<tables, aborts>>

\* It updates the dispute and the flag, mints the example, and recomputes.
ResolveWrite(r) ==
    LET d == req[r].dispute
        f == dispute[d].flag
    IN  /\ req[r].op = "resolve"
        /\ ~Locked(f)
        /\ f \in Quoted
        /\ req' = [req EXCEPT ![r] = Written(d, req[r].as, MustCap(f, req[r].as))]
        /\ UNCHANGED <<tables, aborts>>

\* calibration_examples.quote is NOT NULL: the transaction of a flag without a
\* quote is refused there and rolls back.
ResolveRefused(r) ==
    /\ req[r].op = "resolve"
    /\ ~Locked(dispute[req[r].dispute].flag)
    /\ dispute[req[r].dispute].flag \notin Quoted
    /\ req' = [req EXCEPT ![r] = None]
    /\ UNCHANGED <<tables, aborts>>

\* The decision, its example and the new composite become visible together.
ResolveCommit(r) ==
    /\ req[r].op = "written"
    /\ dispute' = [dispute EXCEPT ![req[r].dispute].resolution = req[r].as]
    /\ flag' = Decided(r)
    /\ example' = example \cup Minted(r)
    /\ capped' = req[r].cap
    /\ req' = [req EXCEPT ![r] = None]
    /\ UNCHANGED aborts

\* The server stops under a request: its transaction is rolled back.
Abort(r) ==
    /\ req[r] # None
    /\ aborts < MaxAborts
    /\ aborts' = aborts + 1
    /\ req' = [req EXCEPT ![r] = None]
    /\ UNCHANGED tables

Next ==
    \/ \E r \in Requests, f \in Flags : RaiseCheck(r, f)
    \/ \E r \in Requests : RaiseCommit(r)
    \/ \E r \in Requests, d \in DOMAIN dispute, res \in Resolution : ResolveCheck(r, d, res)
    \/ \E r \in Requests : ResolveWrite(r)
    \/ \E r \in Requests : ResolveRefused(r)
    \/ \E r \in Requests : ResolveCommit(r)
    \/ \E r \in Requests : Abort(r)

Spec == Init /\ [][Next]_vars

\* A request in flight goes on, and a team leader comes back to every dispute of
\* the inbox (team_summary: those whose flag is disputed) until it has left it.
Fairness ==
    /\ \A r \in Requests : WF_vars(RaiseCommit(r) \/ ResolveWrite(r)
                                   \/ ResolveRefused(r) \/ ResolveCommit(r))
    /\ \A d \in 1..MaxDisputes :
          SF_vars(/\ d \in DOMAIN dispute
                  /\ \E r \in Requests, res \in Resolution : ResolveCheck(r, d, res))

FairSpec == Spec /\ Fairness

-------------------------------------------------------------------------------
\* Whatever overlaps, a decision and its example are one commit: a flag that was
\* decided has an example of that very verdict (feedback.py, resolve_dispute).
DecisionsAreLearned ==
    \A f \in Flags : flag[f] \in Resolution =>
        \E e \in example : dispute[e.dispute].flag = f /\ e.verdict = flag[f]

\* A disputed flag has a dispute that nobody has resolved yet, the row that the inbox
\* lists if the call has an advisor (feedback.py, raise_dispute; summaries.py,
\* team_summary).
DisputedIsInInbox ==
    \A f \in Flags : flag[f] = "disputed" =>
        \E d \in DOMAIN dispute : dispute[d].flag = f /\ dispute[d].resolution = "none"

\* The composite is capped exactly while a critical flag is not dismissed
\* (recompute.py, recompute_call_score).
CapTracksFlags == capped <=> \E f \in Critical : flag[f] # "dismissed"

\* One request at a time, the handlers do what DisputeDesk says.
Learned == {<<dispute[e.dispute].flag, e.verdict>> : e \in example}
Desk == INSTANCE DisputeDesk WITH state <- flag, learned <- Learned
ImplementsDesk == Desk!Spec

\* Every disputed flag is decided in the end.
EveryDisputeIsDecided ==
    \A f \in Flags : flag[f] = "disputed" ~> flag[f] \in Resolution
===============================================================================
