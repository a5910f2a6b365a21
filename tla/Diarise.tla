-------------------------------- MODULE Diarise --------------------------------
(***************************************************************************)
(* How the segments of a call get their speakers (transcription/diarize.py, *)
(* acoustic.py): by channel, else by voice, else in turns.                  *)
(*                                                                         *)
(* Each strategy writes its labels into the segments before it knows        *)
(* whether they are any good, and leaves them there when it gives up.       *)
(* Signal processing is abstracted to what it finds: the louder channel of  *)
(* a segment and how far channels are apart, the voice of a segment and how *)
(* far voices are apart, in hundredths.  Nothing else runs on these         *)
(* segments: the model is the sequential program.                           *)
(***************************************************************************)
EXTENDS Integers, Sequences, FiniteSets

CONSTANTS Separations,  \* the separations that measuring may give
          Stereo        \* whether the file has two channels

ASSUME DiariseAssumption == Separations \subseteq Nat

VARIABLES
    label,      \* the speaker of each segment
    confidence, \* what diarise returns, or 0
    heard,      \* what the last measurement found in each segment
    next,       \* the strategy that comes next, or done
    by          \* history: the strategy that gave the labels

diariseVars == <<label, confidence, heard, next, by>>

Speakers == {"advisor", "customer", "unknown"}
Unheard == "none"

\* _STEREO_SEPARATION_MIN, MIN_SEPARATION
STEREO_SEPARATION_MIN == 15
MIN_SEPARATION == 115

DiariseTypeOK ==
    /\ label \in Seq(Speakers)
    /\ confidence \in 0..100
    /\ DOMAIN heard = DOMAIN label
    /\ next \in {"channels", "voices", "turns", "done"}
    /\ by \in {"none", "given", "channels", "voices", "turns"}

Labelled(ls) == {i \in DOMAIN ls : ls[i] # "unknown"}
Count(ls, speaker) == Cardinality({i \in DOMAIN ls : ls[i] = speaker})
SmallerOf(a, b) == IF a < b THEN a ELSE b
LargerOf(a, b) == IF a > b THEN a ELSE b

\* Segments as the transcriber leaves them: labelled by a fixture, or not at all.
DiariseInit(ls) ==
    /\ label = ls
    /\ heard = [i \in DOMAIN ls |-> Unheard]
    /\ IF ls # <<>> /\ Labelled(ls) = DOMAIN ls
       THEN next = "done" /\ confidence = 100 /\ by = "given"
       ELSE /\ next = IF Stereo THEN "channels" ELSE "voices"
            /\ confidence = 0
            /\ by = "none"

-------------------------------------------------------------------------------
ByChannel(found) ==
    [i \in DOMAIN found |-> IF found[i] = "left" THEN "advisor"
                            ELSE IF found[i] = "right" THEN "customer"
                            ELSE "unknown"]

\* One label has swallowed nearly everything.
OneSided_Any(ls) == FALSE
OneSided(ls) ==
    /\ Cardinality(Labelled(ls)) >= 4
    /\ SmallerOf(Count(ls, "advisor"), Count(ls, "customer"))
          < LargerOf(2, Cardinality(Labelled(ls)) \div 10)

Done(strategy, certainty) ==
    /\ next' = "done"
    /\ by' = strategy
    /\ confidence' = certainty

GiveUp(strategy) ==
    /\ next' = strategy
    /\ UNCHANGED <<by, confidence>>

\* _channel_split: an empty crop has no channel; with none at all, no separation.
\* The file may also turn out unreadable, and nothing is written.
ChannelSplit ==
    /\ next = "channels"
    /\ \/ \E found \in [DOMAIN label -> {"left", "right", Unheard}],
             s \in {x \in Separations : x <= 100} :
             /\ heard' = found
             /\ label' = ByChannel(found)
             /\ IF s < STEREO_SEPARATION_MIN \/ Labelled(label') = {} \/ OneSided(label')
                THEN GiveUp("voices")
                ELSE Done("channels", SmallerOf(100, 60 + s))
       \/ GiveUp("voices") /\ UNCHANGED <<label, heard>>

\* The segment that gives segment i its voice: itself, or the last one before it
\* that has one.
VoiceOf(found, i) ==
    LET earlier == {j \in 1..i : found[j] # Unheard}
    IN IF earlier = {} THEN Unheard
       ELSE found[CHOOSE j \in earlier : \A k \in earlier : k <= j]

Opener(found) ==
    found[CHOOSE i \in DOMAIN found : found[i] # Unheard /\ \A j \in 1..(i - 1) : found[j] = Unheard]

Voiced_KeepsLabel(found, i) ==
    IF VoiceOf(found, i) = Unheard THEN label[i]
    ELSE IF VoiceOf(found, i) = Opener(found) THEN "advisor" ELSE "customer"
\* Who opens the call is the advisor; slivers go with the voice before them.
Voiced(found, i) ==
    IF VoiceOf(found, i) = Unheard THEN "unknown"
    ELSE IF VoiceOf(found, i) = Opener(found) THEN "advisor" ELSE "customer"

\* acoustic_diarise: needs four fingerprints and two voices that are apart.
VoiceSplit ==
    /\ next = "voices"
    /\ \/ \E found \in [DOMAIN label -> {"a", "b", Unheard}], s \in Separations :
             /\ Cardinality({i \in DOMAIN found : found[i] # Unheard}) >= 4
             /\ {"a", "b"} \subseteq {found[i] : i \in DOMAIN found}
             /\ s >= MIN_SEPARATION
             /\ heard' = found
             /\ label' = [i \in DOMAIN label |-> Voiced(found, i)]
             /\ Done("voices", SmallerOf(95, 50 + (s \div 8)))
       \/ GiveUp("turns") /\ UNCHANGED <<label, heard>>

\* _turn_fallback: it starts with the advisor.
TakeTurns ==
    /\ next = "turns"
    /\ label' = [i \in DOMAIN label |-> IF i % 2 = 1 THEN "advisor" ELSE "customer"]
    /\ Done("turns", 50)
    /\ UNCHANGED heard

DiariseNext == ChannelSplit \/ VoiceSplit \/ TakeTurns

DiariseSpec == (\E ls \in Seq(Speakers) : DiariseInit(ls)) /\ [][DiariseNext]_diariseVars

-------------------------------------------------------------------------------
\* The labels are those of one strategy throughout, and nothing that another one
\* wrote before it gave up is left among them (diarize.py sets seg.speaker in
\* place): channels are kept apart, and both are there; voices are kept apart, and
\* nobody speaks before the first of them; turns alternate.  The confidence tells
\* the strategies apart: below 0.7 the page warns of labels by turns.
LabelsOfOneStrategy ==
    /\ by = "channels" =>
          /\ \A i \in DOMAIN label : label[i] = "unknown" <=> heard[i] = Unheard
          /\ \A i, j \in Labelled(label) : label[i] = label[j] <=> heard[i] = heard[j]
          /\ Cardinality(Labelled(label)) >= 4 => {"advisor", "customer"} \subseteq {label[i] : i \in DOMAIN label}
          /\ confidence >= 75
    /\ by = "voices" =>
          /\ \A i, j \in DOMAIN label : heard[i] # Unheard /\ heard[j] # Unheard =>
                (label[i] = label[j] <=> heard[i] = heard[j])
          /\ \A i \in DOMAIN label : heard[i] = Unheard =>
                label[i] = IF i = 1 THEN "unknown" ELSE label[i - 1]
          /\ \E i \in DOMAIN label : label[i] = "advisor" /\ \A j \in 1..(i - 1) : label[j] = "unknown"
          /\ confidence \in 64..95
    /\ by = "turns" =>
          /\ \A i \in DOMAIN label \ {1} : {label[i - 1], label[i]} = {"advisor", "customer"}
          /\ confidence = 50
===============================================================================
