----------------------------- MODULE DisputeDesk ------------------------------
(***************************************************************************)
(* What the dispute loop promises (feedback.py, docstring), with every     *)
(* request taking effect at once: a flag goes from open to disputed to     *)
(* upheld or dismissed, a decision is learned as it is taken, and the      *)
(* composite of the call is capped as long as a critical flag stands.      *)
(***************************************************************************)
CONSTANTS Flags,    \* the flags of one call
          Critical  \* those whose severity is critical

VARIABLES state,    \* the state of each flag
          learned,  \* the decisions handed to the prompt as examples
          capped    \* the composite of the call is capped

vars == <<state, learned, capped>>

Standing(s) == \E f \in Critical : s[f] # "dismissed"

Init ==
    /\ state = [f \in Flags |-> "open"]
    /\ learned = {}
    /\ capped = Standing(state)

Raise(f) ==
    /\ state[f] = "open"
    /\ state' = [state EXCEPT ![f] = "disputed"]
    /\ UNCHANGED <<learned, capped>>

Resolve(f, resolution) ==
    /\ state[f] = "disputed"
    /\ state' = [state EXCEPT ![f] = resolution]
    /\ learned' = learned \cup {<<f, resolution>>}
    /\ capped' = Standing(state')

Next == \E f \in Flags : Raise(f) \/ \E r \in {"upheld", "dismissed"} : Resolve(f, r)

Spec == Init /\ [][Next]_vars
===============================================================================
