---------------------------- MODULE FeedbackProofs ----------------------------
(***************************************************************************)
(* What holds of the dispute loop for any flags, and any number of         *)
(* requests that overlap or are cut off.                                   *)
(***************************************************************************)
EXTENDS Feedback, TLAPS

DisputeRow == [flag : Flags, resolution : Resolution \cup {"none"}]

\* What request r may be about, the disputes being those in ids.
Doing(r, ids) ==
    \/ req[r] = None
    \/ \E f \in Flags : req[r] = Raising(f)
    \/ \E d \in ids, res \in Resolution :
          req[r] = Resolving(d, res) \/ \E cap \in BOOLEAN : req[r] = Written(d, res, cap)

-------------------------------------------------------------------------------
(***************************************************************************)
(* Types.                                                                  *)
(***************************************************************************)

LEMMA TypeParts ==
    ASSUME TypeOK
    PROVE  /\ flag \in [Flags -> FlagState]
           /\ dispute \in Seq(DisputeRow)
           /\ example \subseteq [dispute : DOMAIN dispute, verdict : Resolution]
           /\ capped \in BOOLEAN
           /\ DOMAIN req = Requests
           /\ \A r \in Requests : Doing(r, DOMAIN dispute)
           /\ aborts \in 0..MaxAborts
BY DEF TypeOK, DisputeRow, Doing

LEMMA Fields ==
    /\ None.op = "none"
    /\ \A f : Raising(f).op = "raise" /\ Raising(f).flag = f
    /\ \A d, res : /\ Resolving(d, res).op = "resolve"
                   /\ Resolving(d, res).dispute = d
                   /\ Resolving(d, res).as = res
    /\ \A d, res, cap : /\ Written(d, res, cap).op = "written"
                        /\ Written(d, res, cap).dispute = d
                        /\ Written(d, res, cap).as = res
                        /\ Written(d, res, cap).cap = cap
BY DEF None, Raising, Resolving, Written

\* The op of a request tells what else is known of it.
LEMMA RaiseType ==
    ASSUME TypeOK, NEW r \in Requests, req[r].op = "raise"
    PROVE  req[r].flag \in Flags
BY TypeParts, Fields DEF Doing

LEMMA ResolveType ==
    ASSUME TypeOK, NEW r \in Requests, req[r].op \in {"resolve", "written"}
    PROVE  /\ req[r].dispute \in DOMAIN dispute
           /\ req[r].as \in Resolution
           /\ dispute[req[r].dispute] \in DisputeRow
           /\ dispute[req[r].dispute].flag \in Flags
<1>1. req[r].dispute \in DOMAIN dispute /\ req[r].as \in Resolution
  BY TypeParts, Fields DEF Doing
<1>2. dispute[req[r].dispute] \in DisputeRow
  BY <1>1, TypeParts
<1>. QED  BY <1>1, <1>2 DEF DisputeRow

LEMMA WrittenType ==
    ASSUME TypeOK, NEW r \in Requests, req[r].op = "written"
    PROVE  req[r].cap \in BOOLEAN
BY TypeParts, Fields DEF Doing

\* A step that changes what one request is about, and takes no dispute away, leaves
\* the others with what they may be about.
LEMMA OthersType ==
    ASSUME TypeOK, NEW r \in Requests, DOMAIN dispute \subseteq DOMAIN dispute',
           \A q \in Requests \ {r} : req'[q] = req[q],
           Doing(r, DOMAIN dispute)'
    PROVE  \A q \in Requests : Doing(q, DOMAIN dispute)'
BY TypeParts DEF Doing

\* An inserted dispute comes after the others, which stay.
LEMMA AppendedType ==
    ASSUME TypeOK, NEW f \in Flags, dispute' = Inserted(f)
    PROVE  /\ dispute' \in Seq(DisputeRow)
           /\ Len(dispute) \in Nat
           /\ DOMAIN dispute = 1..Len(dispute)
           /\ DOMAIN dispute' = DOMAIN dispute \cup {Len(dispute) + 1}
           /\ \A d \in DOMAIN dispute : dispute'[d] = dispute[d]
           /\ dispute'[Len(dispute) + 1] = [flag |-> f, resolution |-> "none"]
<1>1. dispute \in Seq(DisputeRow) /\ [flag |-> f, resolution |-> "none"] \in DisputeRow
  BY TypeParts DEF DisputeRow
<1>. QED  BY <1>1 DEF Inserted

\* A resolved dispute stays where it is, and that of its flag.
LEMMA ResolvedType ==
    ASSUME TypeOK, NEW r \in Requests, ResolveCommit(r)
    PROVE  /\ dispute' \in Seq(DisputeRow)
           /\ DOMAIN dispute' = DOMAIN dispute
           /\ \A d \in DOMAIN dispute : dispute'[d].flag = dispute[d].flag
           /\ \A d \in DOMAIN dispute \ {req[r].dispute} : dispute'[d] = dispute[d]
<1>. DEFINE d == req[r].dispute
<1>1. d \in DOMAIN dispute /\ req[r].as \in Resolution /\ dispute[d] \in DisputeRow
  BY ResolveType DEF ResolveCommit
<1>2. dispute' = [dispute EXCEPT ![d] = [dispute[d] EXCEPT !.resolution = req[r].as]]
  BY DEF ResolveCommit
<1>3. /\ [dispute[d] EXCEPT !.resolution = req[r].as] \in DisputeRow
      /\ [dispute[d] EXCEPT !.resolution = req[r].as].flag = dispute[d].flag
  BY <1>1 DEF DisputeRow
<1>4. dispute \in Seq(DisputeRow)
  BY TypeParts
<1>. QED  BY <1>1, <1>2, <1>3, <1>4

\* A step that leaves disputes, examples and the flags alone.
LEMMA OnlyRequests ==
    ASSUME TypeOK, NEW r \in Requests, UNCHANGED tables, aborts' \in 0..MaxAborts,
           DOMAIN req' = Requests,
           \A q \in Requests \ {r} : req'[q] = req[q],
           Doing(r, DOMAIN dispute)'
    PROVE  TypeOK'
<1>1. \A q \in Requests : Doing(q, DOMAIN dispute)'
  BY OthersType DEF tables
<1>. QED  BY <1>1 DEF TypeOK, tables, Doing

\* Requests are about flags and disputes that exist, and all rows keep their types
\* (feedback.py, the tables of models.py).
THEOREM TypeCorrect == Spec => []TypeOK
<1>1. Init => TypeOK
  BY FeedbackAssumption DEF Init, TypeOK, FlagState
<1>2. ASSUME TypeOK, [Next]_vars PROVE TypeOK'
  <2>. USE <1>2
  <2>1. ASSUME NEW r \in Requests, NEW f \in Flags, RaiseCheck(r, f) PROVE TypeOK'
    <3>1. Doing(r, DOMAIN dispute)'
      BY <2>1, TypeParts DEF RaiseCheck, Doing
    <3>. QED  BY <2>1, <3>1, OnlyRequests, TypeParts DEF RaiseCheck
  <2>2. ASSUME NEW r \in Requests, RaiseCommit(r) PROVE TypeOK'
    <3>. DEFINE f == req[r].flag
    <3>1. f \in Flags
      BY <2>2, RaiseType DEF RaiseCommit
    <3>2. dispute' = Inserted(f)
      BY <2>2 DEF RaiseCommit
    <3>3. dispute' \in Seq(DisputeRow) /\ DOMAIN dispute \subseteq DOMAIN dispute'
      BY <3>1, <3>2, AppendedType
    <3>4. flag' \in [Flags -> FlagState]
      BY <2>2, TypeParts DEF RaiseCommit, FlagState
    <3>5. Doing(r, DOMAIN dispute)'
      BY <2>2, TypeParts DEF RaiseCommit, Doing
    <3>6. \A q \in Requests : Doing(q, DOMAIN dispute)'
      BY <2>2, <3>3, <3>5, OthersType DEF RaiseCommit
    <3>7. example' \subseteq [dispute : DOMAIN dispute', verdict : Resolution]
      BY <2>2, <3>3, TypeParts DEF RaiseCommit
    <3>8. capped' \in BOOLEAN /\ aborts' \in 0..MaxAborts /\ DOMAIN req' = Requests
      BY <2>2, TypeParts DEF RaiseCommit
    <3>. QED  BY <3>3, <3>4, <3>6, <3>7, <3>8 DEF TypeOK, DisputeRow, Doing
  <2>3. ASSUME NEW r \in Requests, NEW d \in DOMAIN dispute, NEW res \in Resolution,
               ResolveCheck(r, d, res)
        PROVE  TypeOK'
    <3>1. Doing(r, DOMAIN dispute)'
      BY <2>3, TypeParts DEF ResolveCheck, Doing, tables
    <3>. QED  BY <2>3, <3>1, OnlyRequests, TypeParts DEF ResolveCheck
  <2>4. ASSUME NEW r \in Requests, ResolveWrite(r) PROVE TypeOK'
    <3>. DEFINE d == req[r].dispute
                cap == MustCap(dispute[d].flag, req[r].as)
    <3>1. d \in DOMAIN dispute /\ req[r].as \in Resolution
      BY <2>4, ResolveType DEF ResolveWrite
    <3>2. cap \in BOOLEAN
      BY DEF MustCap
    <3>3. req' = [req EXCEPT ![r] = Written(d, req[r].as, cap)] /\ UNCHANGED <<tables, aborts>>
      BY <2>4 DEF ResolveWrite
    <3>4. Doing(r, DOMAIN dispute)'
      BY <3>1, <3>2, <3>3, TypeParts DEF Doing, tables
    <3>. QED  BY <3>3, <3>4, OnlyRequests, TypeParts
  <2>5. ASSUME NEW r \in Requests, ResolveRefused(r) \/ Abort(r) PROVE TypeOK'
    <3>1. req' = [req EXCEPT ![r] = None] /\ UNCHANGED tables /\ aborts' \in 0..MaxAborts
      BY <2>5, TypeParts, FeedbackAssumption DEF ResolveRefused, Abort
    <3>2. Doing(r, DOMAIN dispute)'
      BY <3>1, TypeParts DEF Doing
    <3>. QED  BY <3>1, <3>2, OnlyRequests, TypeParts
  <2>6. ASSUME NEW r \in Requests, ResolveCommit(r) PROVE TypeOK'
    <3>. DEFINE d == req[r].dispute
    <3>1. /\ d \in DOMAIN dispute
          /\ req[r].as \in Resolution
          /\ req[r].cap \in BOOLEAN
      BY <2>6, ResolveType, WrittenType DEF ResolveCommit
    <3>2. dispute' \in Seq(DisputeRow) /\ DOMAIN dispute' = DOMAIN dispute
      BY <2>6, ResolvedType
    <3>3. flag' \in [Flags -> FlagState]
      BY <2>6, <3>1, TypeParts DEF ResolveCommit, Decided, FlagState, Resolution
    <3>4. example' \subseteq [dispute : DOMAIN dispute', verdict : Resolution]
      BY <2>6, <3>1, <3>2, TypeParts DEF ResolveCommit, Minted
    <3>5. Doing(r, DOMAIN dispute)'
      BY <2>6, TypeParts DEF ResolveCommit, Doing
    <3>6. \A q \in Requests : Doing(q, DOMAIN dispute)'
      BY <2>6, <3>2, <3>5, OthersType DEF ResolveCommit
    <3>7. capped' \in BOOLEAN /\ aborts' \in 0..MaxAborts /\ DOMAIN req' = Requests
      BY <2>6, <3>1, TypeParts DEF ResolveCommit
    <3>. QED  BY <3>2, <3>3, <3>4, <3>6, <3>7 DEF TypeOK, DisputeRow, Doing
  <2>7. CASE UNCHANGED vars
    BY <2>7 DEF vars, tables, TypeOK
  <2>. QED  BY <2>1, <2>2, <2>3, <2>4, <2>5, <2>6, <2>7 DEF Next
<1>. QED  BY <1>1, <1>2, PTL DEF Spec

-------------------------------------------------------------------------------
(***************************************************************************)
(* Decisions, examples and the inbox.                                      *)
(***************************************************************************)

FlagInv == DecisionsAreLearned /\ DisputedIsInInbox

\* Only RaiseCommit and ResolveCommit write tables.
LEMMA OtherSteps ==
    ASSUME [Next]_vars,
           ~\E r \in Requests : RaiseCommit(r) \/ ResolveCommit(r)
    PROVE  UNCHANGED tables
BY DEF Next, RaiseCheck, ResolveCheck, ResolveWrite, ResolveRefused, Abort, vars

LEMMA FlagStep == FlagInv /\ TypeOK /\ [Next]_vars => FlagInv'
<1>. SUFFICES ASSUME FlagInv, TypeOK, [Next]_vars PROVE FlagInv'
  OBVIOUS
<1>1. ASSUME NEW r \in Requests, RaiseCommit(r) PROVE FlagInv'
  <2>. DEFINE f == req[r].flag
              id == Len(dispute) + 1
  <2>1. f \in Flags /\ dispute' = Inserted(f)
    BY <1>1, RaiseType DEF RaiseCommit
  <2>2. /\ DOMAIN dispute' = DOMAIN dispute \cup {id}
        /\ \A d \in DOMAIN dispute : dispute'[d] = dispute[d]
        /\ dispute'[id] = [flag |-> f, resolution |-> "none"]
    BY <2>1, AppendedType
  <2>3. flag' = [flag EXCEPT ![f] = "disputed"] /\ example' = example
    BY <1>1 DEF RaiseCommit
  <2>4. \A e \in example : e.dispute \in DOMAIN dispute
    BY TypeParts
  <2>5. \A g \in Flags : flag'[g] = IF g = f THEN "disputed" ELSE flag[g]
    BY <2>3, TypeParts
  <2>6. DecisionsAreLearned'
    BY <2>2, <2>3, <2>4, <2>5 DEF FlagInv, DecisionsAreLearned, Resolution
  <2>7. ASSUME NEW g \in Flags, flag'[g] = "disputed"
        PROVE  \E d \in DOMAIN dispute' : dispute'[d].flag = g /\ dispute'[d].resolution = "none"
    <3>1. CASE g = f
      BY <2>2, <3>1
    <3>2. CASE g # f
      BY <2>2, <2>5, <2>7, <3>2 DEF FlagInv, DisputedIsInInbox
    <3>. QED  BY <3>1, <3>2
  <2>. QED  BY <2>6, <2>7 DEF FlagInv, DisputedIsInInbox
<1>2. ASSUME NEW r \in Requests, ResolveCommit(r) PROVE FlagInv'
  <2>. DEFINE d == req[r].dispute
              f == dispute[d].flag
              new == [dispute |-> d, verdict |-> req[r].as]
  <2>1. d \in DOMAIN dispute /\ req[r].as \in Resolution /\ f \in Flags
    BY <1>2, ResolveType DEF ResolveCommit
  <2>2. /\ DOMAIN dispute' = DOMAIN dispute
        /\ \A c \in DOMAIN dispute : dispute'[c].flag = dispute[c].flag
        /\ \A c \in DOMAIN dispute \ {d} : dispute'[c] = dispute[c]
    BY <1>2, ResolvedType
  <2>3. flag' = [flag EXCEPT ![f] = req[r].as] /\ example' = example \cup {new}
    BY <1>2 DEF ResolveCommit, Decided, Minted
  <2>4. \A e \in example : e.dispute \in DOMAIN dispute
    BY TypeParts
  <2>5. \A g \in Flags : flag'[g] = IF g = f THEN req[r].as ELSE flag[g]
    BY <2>3, TypeParts
  <2>6. ASSUME NEW g \in Flags, flag'[g] \in Resolution
        PROVE  \E e \in example' : dispute'[e.dispute].flag = g /\ e.verdict = flag'[g]
    <3>1. CASE g = f
      <4>1. new \in example' /\ dispute'[new.dispute].flag = g /\ new.verdict = flag'[g]
        BY <2>1, <2>2, <2>3, <2>5, <3>1
      <4>. QED  BY <4>1
    <3>2. CASE g # f
      BY <2>2, <2>3, <2>4, <2>5, <2>6, <3>2 DEF FlagInv, DecisionsAreLearned
    <3>. QED  BY <3>1, <3>2
  <2>7. ASSUME NEW g \in Flags, flag'[g] = "disputed"
        PROVE  \E c \in DOMAIN dispute' : dispute'[c].flag = g /\ dispute'[c].resolution = "none"
    <3>1. g # f
      BY <2>1, <2>5, <2>7 DEF Resolution
    <3>. QED  BY <2>2, <2>5, <2>7, <3>1 DEF FlagInv, DisputedIsInInbox
  <2>. QED  BY <2>6, <2>7 DEF FlagInv, DecisionsAreLearned, DisputedIsInInbox
<1>3. CASE UNCHANGED tables
  BY <1>3 DEF tables, FlagInv, DecisionsAreLearned, DisputedIsInInbox
<1>. QED  BY <1>1, <1>2, <1>3, OtherSteps

LEMMA FlagInvariant == Spec => []FlagInv
<1>1. Init => FlagInv
  BY DEF Init, FlagInv, DecisionsAreLearned, DisputedIsInInbox, Resolution
<1>. QED  BY <1>1, FlagStep, TypeCorrect, PTL DEF Spec

\* However requests overlap or break off, a decided flag has an example of that very
\* verdict (feedback.py, resolve_dispute: one transaction).
THEOREM DecisionsAreLearnedHolds == Spec => []DecisionsAreLearned
<1>1. FlagInv => DecisionsAreLearned
  BY DEF FlagInv
<1>. QED  BY <1>1, FlagInvariant, PTL

\* However requests overlap or break off, a disputed flag has a dispute in the inbox
\* that nobody has resolved (feedback.py, raise_dispute).
THEOREM DisputedIsInInboxHolds == Spec => []DisputedIsInInbox
<1>1. FlagInv => DisputedIsInInbox
  BY DEF FlagInv
<1>. QED  BY <1>1, FlagInvariant, PTL

-------------------------------------------------------------------------------
(***************************************************************************)
(* One request at a time.                                                  *)
(***************************************************************************)

\* The flag that r resolves.
Target(r) == dispute[req[r].dispute].flag

Serial == \E r0 : Requests = {r0}

\* MustCap, of flags in states s.
CapOf(s, f, res) ==
    \E g \in Critical : IF g = f THEN res # "dismissed" ELSE s[g] # "dismissed"

\* What the request has read is still so, and the tables agree.
SerialInv ==
    /\ \A r \in Requests : req[r].op = "raise" => flag[req[r].flag] = "open"
    /\ \A r \in Requests : req[r].op \in {"resolve", "written"} =>
          flag[dispute[req[r].dispute].flag] = "disputed"
    /\ \A r \in Requests : req[r].op = "written" =>
          req[r].cap = CapOf(flag, dispute[req[r].dispute].flag, req[r].as)
    /\ CapTracksFlags

\* A raised dispute changes its flag from open to disputed, and nothing that a
\* reader of decisions could tell.
LEMMA SerialRaise ==
    ASSUME TypeOK, SerialInv, NEW r \in Requests, RaiseCommit(r)
    PROVE  /\ req[r].flag \in Flags
           /\ flag[req[r].flag] = "open"
           /\ flag' = [flag EXCEPT ![req[r].flag] = "disputed"]
           /\ \A g \in Flags : flag'[g] = IF g = req[r].flag THEN "disputed" ELSE flag[g]
           /\ UNCHANGED <<example, capped>>
           /\ DOMAIN dispute \subseteq DOMAIN dispute'
           /\ \A d \in DOMAIN dispute : dispute'[d] = dispute[d]
           /\ \A e \in example : e.dispute \in DOMAIN dispute
<1>1. req[r].flag \in Flags
  BY RaiseType DEF RaiseCommit
<1>2. /\ DOMAIN dispute \subseteq DOMAIN dispute'
      /\ \A d \in DOMAIN dispute : dispute'[d] = dispute[d]
  BY <1>1, AppendedType DEF RaiseCommit
<1>3. flag' = [flag EXCEPT ![req[r].flag] = "disputed"]
  BY DEF RaiseCommit
<1>4. \A g \in Flags : flag'[g] = IF g = req[r].flag THEN "disputed" ELSE flag[g]
  BY <1>3, TypeParts
<1>. QED  BY <1>1, <1>2, <1>3, <1>4, TypeParts DEF RaiseCommit, SerialInv

\* A resolution changes its flag from disputed to the decision, adds the one
\* example, and caps the composite as the flags now want it.
LEMMA SerialResolve ==
    ASSUME TypeOK, SerialInv, NEW r \in Requests, ResolveCommit(r)
    PROVE  /\ req[r].dispute \in DOMAIN dispute /\ req[r].as \in Resolution
           /\ Target(r) \in Flags
           /\ flag[Target(r)] = "disputed"
           /\ flag' = [flag EXCEPT ![Target(r)] = req[r].as]
           /\ \A g \in Flags : flag'[g] = IF g = Target(r) THEN req[r].as ELSE flag[g]
           /\ example' = example \cup {[dispute |-> req[r].dispute, verdict |-> req[r].as]}
           /\ capped' = \E g \in Critical : flag'[g] # "dismissed"
           /\ DOMAIN dispute' = DOMAIN dispute
           /\ \A c \in DOMAIN dispute : dispute'[c].flag = dispute[c].flag
           /\ \A e \in example : e.dispute \in DOMAIN dispute
<1>. DEFINE f == Target(r)
<1>1. req[r].dispute \in DOMAIN dispute /\ req[r].as \in Resolution /\ f \in Flags
  BY ResolveType DEF ResolveCommit, Target
<1>2. /\ flag' = [flag EXCEPT ![f] = req[r].as]
      /\ example' = example \cup {[dispute |-> req[r].dispute, verdict |-> req[r].as]}
      /\ capped' = req[r].cap
  BY DEF ResolveCommit, Decided, Minted, Target
<1>3. flag[f] = "disputed" /\ req[r].cap = CapOf(flag, f, req[r].as)
  BY DEF ResolveCommit, SerialInv, Target
<1>4. \A g \in Flags : flag'[g] = IF g = f THEN req[r].as ELSE flag[g]
  BY <1>2, TypeParts
<1>5. CapOf(flag, f, req[r].as) = \E g \in Critical : flag'[g] # "dismissed"
  BY <1>4, FeedbackAssumption DEF CapOf
<1>. QED  BY <1>1, <1>2, <1>3, <1>4, <1>5, ResolvedType, TypeParts

\* What does not write tables keeps what SerialInv says of them.
LEMMA SameTables ==
    ASSUME SerialInv, UNCHANGED tables
    PROVE  CapTracksFlags'
<1>1. flag' = flag /\ capped' = capped
  BY DEF tables
<1>. QED  BY <1>1 DEF SerialInv, CapTracksFlags

LEMMA SerialStep == Serial /\ SerialInv /\ TypeOK /\ [Next]_vars => SerialInv'
<1>. SUFFICES ASSUME NEW r0, Requests = {r0}, SerialInv, TypeOK, [Next]_vars PROVE SerialInv'
  BY DEF Serial
<1>1. ASSUME NEW r \in Requests, NEW f \in Flags, RaiseCheck(r, f) PROVE SerialInv'
  <2>1. req'[r] = Raising(f) /\ flag[f] = "open" /\ UNCHANGED tables
    BY <1>1, TypeParts DEF RaiseCheck, Disputable
  <2>. QED  BY <2>1, Fields DEF SerialInv, tables, CapTracksFlags
<1>2. ASSUME NEW r \in Requests, RaiseCommit(r) PROVE SerialInv'
  <2>1. req'[r] = None
    BY <1>2, TypeParts DEF RaiseCommit
  <2>2. CapTracksFlags'
    BY <1>2, SerialRaise, FeedbackAssumption DEF SerialInv, CapTracksFlags
  <2>. QED  BY <1>2, <2>1, <2>2, SerialRaise, Fields DEF SerialInv
<1>3. ASSUME NEW r \in Requests, NEW d \in DOMAIN dispute, NEW res \in Resolution,
             ResolveCheck(r, d, res)
      PROVE  SerialInv'
  <2>1. req'[r] = Resolving(d, res) /\ flag[dispute[d].flag] = "disputed" /\ UNCHANGED tables
    BY <1>3, TypeParts DEF ResolveCheck, Resolvable
  <2>. QED  BY <2>1, Fields DEF SerialInv, tables, CapTracksFlags
<1>4. ASSUME NEW r \in Requests, ResolveWrite(r) PROVE SerialInv'
  <2>. DEFINE d == req[r].dispute
              cap == CapOf(flag, dispute[d].flag, req[r].as)
  <2>1. req'[r] = Written(d, req[r].as, cap) /\ req[r].op = "resolve" /\ UNCHANGED tables
    BY <1>4, TypeParts DEF ResolveWrite, MustCap, CapOf
  <2>2. flag' = flag /\ dispute' = dispute
    BY <2>1 DEF tables
  <2>3. /\ req'[r].op = "written" /\ req'[r].dispute = d
        /\ req'[r].as = req[r].as /\ req'[r].cap = cap
    BY <2>1, Fields
  <2>4. flag[dispute[d].flag] = "disputed"
    BY <2>1 DEF SerialInv
  <2>5. \A q \in Requests : q = r
    OBVIOUS
  <2>. QED  BY <2>1, <2>2, <2>3, <2>4, <2>5, SameTables DEF SerialInv
<1>5. ASSUME NEW r \in Requests, ResolveRefused(r) \/ Abort(r) PROVE SerialInv'
  <2>1. req'[r] = None /\ UNCHANGED tables
    BY <1>5, TypeParts DEF ResolveRefused, Abort
  <2>. QED  BY <2>1, Fields DEF SerialInv, tables, CapTracksFlags
<1>6. ASSUME NEW r \in Requests, ResolveCommit(r) PROVE SerialInv'
  <2>1. req'[r] = None
    BY <1>6, TypeParts DEF ResolveCommit
  <2>2. CapTracksFlags'
    BY <1>6, SerialResolve DEF CapTracksFlags
  <2>. QED  BY <2>1, <2>2, Fields DEF SerialInv
<1>7. CASE UNCHANGED vars
  <2>1. req' = req /\ flag' = flag /\ dispute' = dispute /\ UNCHANGED tables
    BY <1>7 DEF vars, tables
  <2>. QED  BY <2>1, SameTables DEF SerialInv
<1>. QED  BY <1>1, <1>2, <1>3, <1>4, <1>5, <1>6, <1>7 DEF Next

LEMMA SerialInvariant == Serial /\ Spec => []SerialInv
<1>1. Init => SerialInv
  BY FeedbackAssumption, Fields DEF Init, SerialInv, CapTracksFlags
<1>2. Serial /\ SerialInv /\ TypeOK /\ [Next]_vars => SerialInv'
  BY SerialStep
<1>3. CASE Serial
  <2>1. SerialInv /\ TypeOK /\ [Next]_vars => SerialInv'
    BY <1>2, <1>3
  <2>. QED  BY <1>1, <2>1, TypeCorrect, PTL DEF Spec
<1>4. CASE ~Serial
  BY <1>4
<1>. QED  BY <1>3, <1>4

\* With one request at a time, the composite is capped exactly while a critical flag
\* is not dismissed (recompute.py, recompute_call_score).
THEOREM CapTracksFlagsHolds == Serial /\ Spec => []CapTracksFlags
<1>1. SerialInv => CapTracksFlags
  BY DEF SerialInv
<1>. QED  BY <1>1, SerialInvariant, PTL

\* A raised dispute teaches nothing, a resolved one its decision.
LEMMA RaiseLearns ==
    ASSUME TypeOK, SerialInv, NEW r \in Requests, RaiseCommit(r)
    PROVE  Learned' = Learned
<1>1. /\ example' = example
      /\ \A e \in example : dispute'[e.dispute] = dispute[e.dispute]
  BY SerialRaise
<1>. QED  BY <1>1 DEF Learned

LEMMA ResolveLearns ==
    ASSUME TypeOK, SerialInv, NEW r \in Requests, ResolveCommit(r)
    PROVE  Learned' = Learned \cup {<<Target(r), req[r].as>>}
<1>. DEFINE new == [dispute |-> req[r].dispute, verdict |-> req[r].as]
<1>1. /\ example' = example \cup {new}
      /\ \A e \in example : dispute'[e.dispute].flag = dispute[e.dispute].flag
      /\ dispute'[new.dispute].flag = Target(r)
  BY SerialResolve DEF Target
<1>2. Learned' = {<<dispute'[e.dispute].flag, e.verdict>> : e \in example'}
  BY DEF Learned
<1>3. @ = {<<dispute'[e.dispute].flag, e.verdict>> : e \in example}
              \cup {<<dispute'[new.dispute].flag, new.verdict>>}
  BY <1>1
<1>4. @ = {<<dispute[e.dispute].flag, e.verdict>> : e \in example}
              \cup {<<Target(r), req[r].as>>}
  BY <1>1
<1>. QED  BY <1>2, <1>3, <1>4 DEF Learned

\* With one request at a time, the handlers of the dispute loop do what the
\* docstring of feedback.py says: a commit is a step of DisputeDesk, and whatever
\* comes before it changes nothing.
THEOREM ImplementsDeskHolds == Serial /\ Spec => ImplementsDesk
<1>1. Init => Desk!Init
  BY FeedbackAssumption DEF Init, Desk!Init, Desk!Standing, Learned
<1>2. ASSUME TypeOK, SerialInv, [Next]_vars PROVE [Desk!Next]_(Desk!vars)
  <2>. USE <1>2
  <2>1. ASSUME NEW r \in Requests, RaiseCommit(r) PROVE Desk!Next
    <3>1. Desk!Raise(req[r].flag) /\ req[r].flag \in Flags
      BY <2>1, SerialRaise, RaiseLearns DEF Desk!Raise
    <3>. QED  BY <3>1 DEF Desk!Next
  <2>2. ASSUME NEW r \in Requests, ResolveCommit(r) PROVE Desk!Next
    <3>1. capped' = Desk!Standing(flag)'
      BY <2>2, SerialResolve DEF Desk!Standing
    <3>2. Desk!Resolve(Target(r), req[r].as) /\ Target(r) \in Flags /\ req[r].as \in Resolution
      BY <2>2, <3>1, SerialResolve, ResolveLearns DEF Desk!Resolve, Desk!Standing
    <3>. QED  BY <3>2 DEF Desk!Next, Resolution
  <2>3. CASE UNCHANGED tables
    BY <2>3 DEF tables, Desk!vars, Learned
  <2>. QED  BY <2>1, <2>2, <2>3, OtherSteps
<1>. QED  BY <1>1, <1>2, TypeCorrect, SerialInvariant, PTL DEF Spec, ImplementsDesk, Desk!Spec
===============================================================================
