------------------------------ MODULE StageOrder ------------------------------
(***************************************************************************)
(* What the stage registry promises of the queue, without the queue: the   *)
(* stages of a call are opened one at a time and in the order of           *)
(* STAGE_ORDER, the first one when the call is admitted; no stage is       *)
(* skipped and none, once opened, is ever forgotten.  Claims, retries,     *)
(* crashes, dead letters and requeues are invisible at this level.         *)
(*                                                                         *)
(* Stages are numbered by their position in STAGE_ORDER.                   *)
(***************************************************************************)
EXTENDS Naturals

CONSTANTS Calls,      \* the calls that may be ingested
          NumStages   \* the length of STAGE_ORDER

VARIABLE opened       \* opened[c]: the stages of c that have a job

Init == opened = [c \in Calls |-> {}]

\* The first stage is opened when the call is ingested.
Admit(c) ==
    /\ opened[c] = {}
    /\ opened' = [opened EXCEPT ![c] = {1}]

\* A stage is opened right after its predecessor in STAGE_ORDER.
Advance(c) ==
    \E s \in opened[c] :
        /\ s < NumStages
        /\ s + 1 \notin opened[c]
        /\ opened' = [opened EXCEPT ![c] = @ \cup {s + 1}]

Next == \E c \in Calls : Admit(c) \/ Advance(c)

Spec == Init /\ [][Next]_opened
===============================================================================
