--------------------------- MODULE TranscriptProofs ---------------------------
(***************************************************************************)
(* What holds of diarise and redact for transcripts of any length.         *)
(***************************************************************************)
EXTENDS Diarise, Redaction, FiniteSetTheorems, SequenceTheorems, WellFoundedInduction, TLAPS

(***************************************************************************)
(* Induction, for sets of numbers.                                         *)
(***************************************************************************)

LEMMA LeastNumber ==
    ASSUME NEW S \in SUBSET Nat, S # {}
    PROVE  \E n \in S : \A m \in S : n <= m
<1>. DEFINE less == OpToRel(<, Nat)
<1>1. IsWellFoundedOn(less, Nat)
  BY NatLessThanWellFounded
<1>2. \A m, n \in Nat : <<m, n>> \in less <=> m < n
  BY DEF OpToRel
<1>. HIDE DEF less
<1>3. PICK n \in S : \A m \in S : ~(<<m, n>> \in less)
  BY <1>1, WFMin
<1>4. \A m \in S : ~(m < n)
  BY <1>2, <1>3, Zenon
<1>. QED  BY <1>3, <1>4

LEMMA GreatestNumber ==
    ASSUME NEW bound \in Nat, NEW S \in SUBSET (0..bound), S # {}
    PROVE  \E n \in S : \A m \in S : m <= n
<1>. DEFINE below == {bound - n : n \in S}
<1>1. below \in SUBSET Nat /\ below # {}
  <2>1. \A n \in S : bound - n \in Nat
    OBVIOUS
  <2>. QED  BY <2>1
<1>2. PICK d \in below : \A e \in below : d <= e
  BY <1>1, LeastNumber
<1>3. PICK n \in S : d = bound - n
  BY <1>2
<1>4. \A m \in S : bound - m \in below
  OBVIOUS
<1>5. \A m \in S : bound - n <= bound - m
  BY <1>2, <1>3, <1>4
<1>. QED  BY <1>3, <1>5

-------------------------------------------------------------------------------
(***************************************************************************)
(* Diarisation.                                                            *)
(***************************************************************************)

DiariseInv ==
    /\ label \in Seq(Speakers)
    /\ DOMAIN heard = DOMAIN label
    /\ next # "done" => by = "none"
    /\ LabelsOfOneStrategy

\* A split that is not one-sided has both labels.
LEMMA BothLabels ==
    ASSUME NEW ls \in Seq(Speakers), ~OneSided(ls), Cardinality(Labelled(ls)) >= 4
    PROVE  {"advisor", "customer"} \subseteq {ls[i] : i \in DOMAIN ls}
<1>. DEFINE n == Len(ls)
            with(speaker) == {i \in DOMAIN ls : ls[i] = speaker}
<1>1. DOMAIN ls = 1..n /\ n \in Nat
  OBVIOUS
<1>2. IsFiniteSet(1..n)
  <2>. HIDE DEF n
  <2>. QED  BY <1>1, FS_Interval
<1>3. ASSUME NEW speaker
      PROVE  Count(ls, speaker) \in Nat /\ (Count(ls, speaker) = 0 <=> with(speaker) = {})
  <2>1. with(speaker) \in SUBSET (1..n)
    BY <1>1
  <2>2. IsFiniteSet(with(speaker))
    BY <1>2, <2>1, FS_Subset
  <2>. QED  BY <2>2, FS_CardinalityType, FS_EmptySet DEF Count
<1>4. Cardinality(Labelled(ls)) \in Nat
  <2>1. Labelled(ls) \in SUBSET (1..n)
    BY <1>1 DEF Labelled
  <2>. QED  BY <1>2, <2>1, FS_Subset, FS_CardinalityType
<1>. HIDE DEF with
<1>5. Count(ls, "advisor") # 0 /\ Count(ls, "customer") # 0
  BY <1>3, <1>4 DEF OneSided, SmallerOf, LargerOf
<1>6. with("advisor") # {} /\ with("customer") # {}
  BY <1>3, <1>5
<1>. QED  BY <1>6 DEF with

LEMMA ChannelSplitStep ==
    ASSUME DiariseAssumption, DiariseInv, ChannelSplit
    PROVE  DiariseInv'
<1>1. by = "none"
  BY DEF DiariseInv, ChannelSplit
<1>2. ASSUME UNCHANGED by
      PROVE  LabelsOfOneStrategy'
  BY <1>1, <1>2 DEF LabelsOfOneStrategy
<1>3. ASSUME NEW found \in [DOMAIN label -> {"left", "right", Unheard}]
      PROVE  /\ ByChannel(found) \in Seq(Speakers)
             /\ DOMAIN found = DOMAIN label /\ DOMAIN ByChannel(found) = DOMAIN label
             /\ \A i \in DOMAIN label : ByChannel(found)[i] = "unknown" <=> found[i] = Unheard
             /\ \A i, j \in Labelled(ByChannel(found)) :
                   ByChannel(found)[i] = ByChannel(found)[j] <=> found[i] = found[j]
  <2>1. DOMAIN label = 1..Len(label) /\ Len(label) \in Nat
    BY DEF DiariseInv
  <2>2. \A i \in DOMAIN label : found[i] \in {"left", "right", Unheard}
    OBVIOUS
  <2>3. ByChannel(found) \in [1..Len(label) -> Speakers]
    BY <2>1, <2>2 DEF ByChannel, Speakers
  <2>. QED  BY <2>1, <2>2, <2>3 DEF ByChannel, Labelled, Unheard
<1>4. ASSUME NEW found \in [DOMAIN label -> {"left", "right", Unheard}], NEW s \in Separations,
             s <= 100, heard' = found, label' = ByChannel(found),
             ~(s < STEREO_SEPARATION_MIN), ~OneSided(label'),
             Done("channels", SmallerOf(100, 60 + s))
      PROVE  DiariseInv'
  <2>1. confidence' >= 75
    BY <1>4 DEF DiariseAssumption, Done, SmallerOf, STEREO_SEPARATION_MIN
  <2>2. Cardinality(Labelled(label')) >= 4 =>
           {"advisor", "customer"} \subseteq {label'[i] : i \in DOMAIN label'}
    BY <1>3, <1>4, BothLabels
  <2>3. LabelsOfOneStrategy'
    BY <1>3, <1>4, <2>1, <2>2 DEF LabelsOfOneStrategy, Done
  <2>. QED  BY <1>3, <1>4, <2>3 DEF DiariseInv, Done
<1>5. CASE UNCHANGED <<label, heard>> /\ GiveUp("voices")
  BY <1>1, <1>2, <1>5 DEF DiariseInv, GiveUp
<1>6. ASSUME NEW found \in [DOMAIN label -> {"left", "right", Unheard}],
             heard' = found, label' = ByChannel(found), GiveUp("voices")
      PROVE  DiariseInv'
  BY <1>1, <1>2, <1>3, <1>6 DEF DiariseInv, GiveUp
<1>. QED  BY <1>4, <1>5, <1>6 DEF ChannelSplit

\* A segment with a voice has its own, and one without has that of the one before.
LEMMA VoicesCarryOver ==
    ASSUME NEW n \in Nat, NEW found \in [1..n -> {"a", "b", Unheard}], NEW i \in 1..n
    PROVE  /\ found[i] # Unheard => VoiceOf(found, i) = found[i]
           /\ found[i] = Unheard /\ i = 1 => VoiceOf(found, i) = Unheard
           /\ found[i] = Unheard /\ i # 1 => VoiceOf(found, i) = VoiceOf(found, i - 1)
           /\ VoiceOf(found, i) \in {"a", "b", Unheard}
<1>. DEFINE earlier(k) == {j \in 1..k : found[j] # Unheard}
<1>1. ASSUME found[i] # Unheard
      PROVE  VoiceOf(found, i) = found[i]
  <2>1. i \in earlier(i) /\ \A k \in earlier(i) : k <= i
    BY <1>1
  <2>2. \A j \in earlier(i) : (\A k \in earlier(i) : k <= j) => j = i
    BY <2>1
  <2>3. (CHOOSE j \in earlier(i) : \A k \in earlier(i) : k <= j) = i
    BY <2>1, <2>2
  <2>4. earlier(i) # {}
    BY <2>1
  <2>. QED  BY <2>3, <2>4 DEF VoiceOf
<1>2. ASSUME found[i] = Unheard, i = 1
      PROVE  VoiceOf(found, i) = Unheard
  <2>1. earlier(i) = {}
    BY <1>2
  <2>. QED  BY <2>1 DEF VoiceOf
<1>3. ASSUME found[i] = Unheard, i # 1
      PROVE  VoiceOf(found, i) = VoiceOf(found, i - 1)
  <2>. DEFINE voice(js) == IF js = {} THEN Unheard
                           ELSE found[CHOOSE j \in js : \A k \in js : k <= j]
  <2>1. earlier(i) = earlier(i - 1)
    BY <1>3
  <2>2. VoiceOf(found, i) = voice(earlier(i)) /\ VoiceOf(found, i - 1) = voice(earlier(i - 1))
    BY DEF VoiceOf
  <2>. HIDE DEF voice, earlier
  <2>. QED  BY <2>1, <2>2
<1>4. VoiceOf(found, i) \in {"a", "b", Unheard}
  <2>1. CASE earlier(i) = {}
    BY <2>1 DEF VoiceOf
  <2>2. CASE earlier(i) # {}
    <3>1. earlier(i) \in SUBSET (0..n)
      OBVIOUS
    <3>2. \E j \in earlier(i) : \A k \in earlier(i) : k <= j
      BY <2>2, <3>1, GreatestNumber
    <3>3. (CHOOSE j \in earlier(i) : \A k \in earlier(i) : k <= j) \in earlier(i)
      BY <3>2
    <3>. QED  BY <2>2, <3>3 DEF VoiceOf
  <2>. QED  BY <2>1, <2>2
<1>. QED  BY <1>1, <1>2, <1>3, <1>4

\* The opener is the first with a voice.
LEMMA OpenerIsFirst ==
    ASSUME NEW n \in Nat, NEW found \in [1..n -> {"a", "b", Unheard}],
           \E i \in 1..n : found[i] # Unheard
    PROVE  \E i \in 1..n : /\ found[i] # Unheard /\ Opener(found) = found[i]
                           /\ \A j \in 1..(i - 1) : VoiceOf(found, j) = Unheard
<1>. DEFINE heardAt == {i \in 1..n : found[i] # Unheard}
            first(i) == found[i] # Unheard /\ \A j \in 1..(i - 1) : found[j] = Unheard
<1>1. heardAt \in SUBSET Nat /\ heardAt # {}
  OBVIOUS
<1>2. PICK i \in heardAt : \A m \in heardAt : i <= m
  BY <1>1, LeastNumber
<1>3. i \in 1..n /\ first(i)
  BY <1>2
<1>4. DOMAIN found = 1..n
  OBVIOUS
<1>5. \A k \in 1..n : first(k) => k = i
  BY <1>3
<1>6. (CHOOSE k \in DOMAIN found : first(k)) = i
  BY <1>3, <1>4, <1>5
<1>7. Opener(found) = found[i]
  BY <1>6 DEF Opener
<1>8. \A j \in 1..(i - 1) : {k \in 1..j : found[k] # Unheard} = {}
  BY <1>3
<1>9. \A j \in 1..(i - 1) : VoiceOf(found, j) = Unheard
  BY <1>8 DEF VoiceOf
<1>. QED  BY <1>3, <1>7, <1>9

LEMMA VoiceSplitStep ==
    ASSUME DiariseAssumption, DiariseInv, VoiceSplit
    PROVE  DiariseInv'
<1>. DEFINE n == Len(label)
<1>1. by = "none" /\ DOMAIN label = 1..n /\ n \in Nat
  BY DEF DiariseInv, VoiceSplit
<1>2. ASSUME NEW found \in [DOMAIN label -> {"a", "b", Unheard}], NEW s \in Separations,
             Cardinality({i \in DOMAIN found : found[i] # Unheard}) >= 4,
             {"a", "b"} \subseteq {found[i] : i \in DOMAIN found},
             s >= MIN_SEPARATION, heard' = found,
             label' = [i \in DOMAIN label |-> Voiced(found, i)],
             Done("voices", SmallerOf(95, 50 + (s \div 8)))
      PROVE  DiariseInv'
  <2>1. /\ DOMAIN found = 1..n /\ DOMAIN label' = 1..n /\ found \in [1..n -> {"a", "b", Unheard}]
        /\ \A i \in 1..n : label'[i] = Voiced(found, i)
    BY <1>1, <1>2
  <2>. HIDE DEF n
  <2>2. ASSUME NEW i \in 1..n
        PROVE  /\ found[i] # Unheard => VoiceOf(found, i) = found[i]
               /\ found[i] = Unheard /\ i = 1 => VoiceOf(found, i) = Unheard
               /\ found[i] = Unheard /\ i # 1 => VoiceOf(found, i) = VoiceOf(found, i - 1)
               /\ VoiceOf(found, i) \in {"a", "b", Unheard}
    BY <1>1, <2>1, VoicesCarryOver
  <2>3. \E i \in 1..n : found[i] # Unheard
    BY <1>2, <2>1 DEF Unheard
  <2>4. PICK o \in 1..n : /\ found[o] # Unheard /\ Opener(found) = found[o]
                          /\ \A j \in 1..(o - 1) : VoiceOf(found, j) = Unheard
    BY <1>1, <2>1, <2>3, OpenerIsFirst
  <2>5. \A i \in 1..n : label'[i] = IF VoiceOf(found, i) = Unheard THEN "unknown"
                                    ELSE IF VoiceOf(found, i) = found[o] THEN "advisor"
                                    ELSE "customer"
    BY <2>1, <2>4 DEF Voiced
  <2>6. label' \in Seq(Speakers)
    <3>1. label' \in [1..n -> Speakers]
      BY <1>1, <1>2, <2>1, <2>5 DEF Speakers
    <3>. QED  BY <1>1, <3>1
  <2>7. \A i, j \in 1..n : found[i] # Unheard /\ found[j] # Unheard =>
           (label'[i] = label'[j] <=> found[i] = found[j])
    BY <2>1, <2>2, <2>4, <2>5 DEF Unheard
  <2>8. \A i \in 1..n : found[i] = Unheard =>
           label'[i] = IF i = 1 THEN "unknown" ELSE label'[i - 1]
    <3>1. \A i \in 1..n : i # 1 => i - 1 \in 1..n
      BY <1>1
    <3>. QED  BY <2>2, <2>5, <3>1
  <2>9. \E i \in 1..n : label'[i] = "advisor" /\ \A j \in 1..(i - 1) : label'[j] = "unknown"
    <3>1. label'[o] = "advisor"
      BY <2>2, <2>4, <2>5
    <3>2. \A j \in 1..(o - 1) : j \in 1..n
      BY <1>1
    <3>3. \A j \in 1..(o - 1) : label'[j] = "unknown"
      BY <2>4, <2>5, <3>2
    <3>. QED  BY <3>1, <3>3
  <2>10. confidence' \in 64..95
    <3>1. s \in Nat /\ s >= 115
      BY <1>2 DEF DiariseAssumption, MIN_SEPARATION
    <3>2. s \div 8 \in Nat /\ s \div 8 >= 14
      BY <3>1
    <3>. QED  BY <1>2, <3>2 DEF Done, SmallerOf
  <2>11. by' = "voices" /\ next' = "done"
    BY <1>2 DEF Done
  <2>12. LabelsOfOneStrategy'
    BY <1>2, <2>1, <2>7, <2>8, <2>9, <2>10, <2>11, SMTT(60) DEF LabelsOfOneStrategy
  <2>. QED  BY <1>2, <2>1, <2>6, <2>11, <2>12 DEF DiariseInv
<1>3. CASE GiveUp("turns") /\ UNCHANGED <<label, heard>>
  BY <1>1, <1>3 DEF DiariseInv, GiveUp, LabelsOfOneStrategy
<1>. QED  BY <1>2, <1>3 DEF VoiceSplit

LEMMA TakeTurnsStep ==
    ASSUME DiariseInv, TakeTurns
    PROVE  DiariseInv'
<1>. DEFINE n == Len(label)
<1>1. DOMAIN label = 1..n /\ n \in Nat
  BY DEF DiariseInv
<1>2. label' = [i \in 1..n |-> IF i % 2 = 1 THEN "advisor" ELSE "customer"]
  BY <1>1 DEF TakeTurns
<1>. HIDE DEF n
<1>3. label' \in Seq(Speakers) /\ DOMAIN label' = 1..n
  <2>1. label' \in [1..n -> Speakers]
    BY <1>2 DEF Speakers
  <2>. QED  BY <1>1, <1>2, <2>1
<1>4. \A i \in (1..n) \ {1} : {label'[i - 1], label'[i]} = {"advisor", "customer"}
  <2>1. \A i \in (1..n) \ {1} : i - 1 \in 1..n /\ (i % 2 = 1 <=> (i - 1) % 2 # 1)
    BY <1>1
  <2>. QED  BY <1>2, <2>1
<1>. QED  BY <1>1, <1>3, <1>4 DEF DiariseInv, TakeTurns, Done, LabelsOfOneStrategy

\* For any transcript, whatever is heard in it and however far it is apart, the labels
\* are those of the strategy that gave them.
THEOREM LabelsOfOneStrategyHolds == DiariseSpec => []LabelsOfOneStrategy
<1>1. (\E ls \in Seq(Speakers) : DiariseInit(ls)) => DiariseInv
  BY DEF DiariseInit, DiariseInv, LabelsOfOneStrategy
<1>2. DiariseInv /\ [DiariseNext]_diariseVars => DiariseInv'
  <2>. SUFFICES ASSUME DiariseInv, [DiariseNext]_diariseVars
                PROVE  DiariseInv'
    OBVIOUS
  <2>1. CASE ChannelSplit
    BY <2>1, DiariseAssumption, ChannelSplitStep
  <2>2. CASE VoiceSplit
    BY <2>2, DiariseAssumption, VoiceSplitStep
  <2>3. CASE TakeTurns
    BY <2>3, TakeTurnsStep
  <2>4. CASE UNCHANGED diariseVars
    <3>1. label' = label /\ heard' = heard /\ next' = next /\ by' = by /\ confidence' = confidence
      BY <2>4 DEF diariseVars
    <3>2. LabelsOfOneStrategy' <=> LabelsOfOneStrategy
      <4>1. Labelled(label)' = Labelled(label)
        BY <3>1 DEF Labelled
      <4>. QED  BY <3>1, <4>1 DEF LabelsOfOneStrategy
    <3>. QED  BY <3>1, <3>2 DEF DiariseInv
  <2>. QED  BY <2>1, <2>2, <2>3, <2>4 DEF DiariseNext
<1>3. DiariseInv => LabelsOfOneStrategy
  BY DEF DiariseInv
<1>. QED  BY <1>1, <1>2, <1>3, PTL DEF DiariseSpec
-------------------------------------------------------------------------------
(***************************************************************************)
(* Masking.                                                                *)
(***************************************************************************)

Kinds == {"word", "email", "pan", "keyword", "group", "EMAIL", "CARD", "AADHAAR", "OTP", "PHONE", "PAN"}
AnyToken == [kind : Kinds, digits : Nat, high : BOOLEAN, at : Nat]

\* The text as it stands: what the substitution has gone past, and what is before it.
Now == done \o rest

\* Where that which masks the number from i to j begins: a code with its keyword.
Start(kind, i) ==
    IF kind # "OTP" THEN i
    ELSE IF given.text[i - 1].kind = "keyword" THEN i - 1
    ELSE i - 2

\* What is of this kind from i to j of the text stands in w as it was, p places
\* further on, and what is around it does not make it another kind.
Intact(kind, i, j, w, p) ==
    /\ 1 <= p + Start(kind, i) /\ p + j <= Len(w)
    /\ \A k \in Start(kind, i)..j : w[p + k] = given.text[k]
    /\ \A x \in 1..Len(w) : x < p + i \/ p + j < x => w[x].at \notin i..j
    /\ kind \notin {"EMAIL", "PAN"} =>
          /\ p + i > 1 => w[p + i - 1].kind # "group"
          /\ p + j < Len(w) => w[p + j + 1].kind # "group"
    /\ kind \in {"PHONE", "PAN"} /\ p + i > 1 => w[p + i - 1].kind # "keyword"
    /\ kind = "PHONE" /\ p + i > 2 /\ IsShort(w[p + i - 1]) => w[p + i - 2].kind # "keyword"

\* It has been masked, at x, and no digits came to stand behind it.
Gone(kind, i, j, w, x) ==
    /\ x \in 1..Len(w)
    /\ w[x] = Masked(kind, i)
    /\ \A y \in 1..Len(w) : y # x => w[y].at \notin i..j
    /\ kind = "CARD" /\ x < Len(w) => w[x + 1].kind # "group"

\* It stays as it is up to its own substitution, which does not miss it.
Followed(c, i, j) ==
    /\ pass < c => \E p \in Int : Intact(Order[c], i, j, Now, p)
    /\ pass = c => \/ \E p \in Int : Intact(Order[c], i, j, Now, p) /\ Len(done) < p + Start(Order[c], i)
                   \/ \E x \in Nat : Gone(Order[c], i, j, Now, x)
    /\ pass > c => \E x \in Nat : Gone(Order[c], i, j, Now, x)

FollowedInv ==
    \A c \in 1..6, i, j \in 1..Len(given.text) : i <= j /\ Is(Order[c], i, j) => Followed(c, i, j)

\* What a substitution of single tokens has gone past.
Single(c, t) ==
    \/ c = 1 /\ t.kind = "email"
    \/ c = 5 /\ LooksLikePhone(t)
    \/ c = 6 /\ t.kind = "pan"

SinglesInv ==
    \A c \in {1, 5, 6} :
        /\ pass = c => \A x \in 1..Len(done) : ~Single(c, done[x])
        /\ pass > c => \A x \in 1..Len(Now) : ~Single(c, Now[x])

\* No Aadhaar number begins where its substitution has gone past; of what is left of a
\* code one may.
AadhaarInv ==
    /\ pass = 3 => \A s \in 1..Len(done), e \in 1..Len(Now) :
          s <= e => ~LooksLikeAadhaar(SubSeq(Now, s, e))
    /\ pass > 3 => \A s, e \in 1..Len(Now) :
          s <= e /\ 0 \notin Places(SubSeq(Now, s, e)) => ~LooksLikeAadhaar(SubSeq(Now, s, e))

RedactionType ==
    /\ given.text \in Seq(RawToken)
    /\ \A i \in 1..Len(given.text) : given.text[i].at = i
    /\ done \in Seq(AnyToken)
    /\ rest \in Seq(AnyToken)
    /\ pass \in 1..7

\* With no substitution left, the text is all before it.
EndInv == pass = 7 => done = <<>>

RedactionInv == RedactionType /\ FollowedInv /\ SinglesInv /\ AadhaarInv /\ EndInv

-------------------------------------------------------------------------------
(***************************************************************************)
(* Masking: what a step does to the text as it stands.                     *)
(***************************************************************************)

LEMMA OrderOfKinds ==
    /\ Order[1] = "EMAIL" /\ Order[2] = "CARD" /\ Order[3] = "AADHAAR"
    /\ Order[4] = "OTP" /\ Order[5] = "PHONE" /\ Order[6] = "PAN"
    /\ Len(Order) = 6
  BY DEF Order

\* Runs with the same tokens are the same.
LEMMA SameRun ==
    ASSUME NEW v \in Seq(AnyToken), NEW w \in Seq(AnyToken), NEW shift \in Int,
           NEW s \in Int, NEW e \in Int, 1 <= s, e <= Len(w), 1 <= s + shift, e + shift <= Len(v),
           \A x \in s..e : w[x] = v[x + shift]
    PROVE  SubSeq(w, s, e) = SubSeq(v, s + shift, e + shift)
<1>1. Len(v) \in Nat /\ Len(w) \in Nat
  BY LenProperties
<1>2. /\ \A x \in s..e : w[x] \in AnyToken
      /\ \A x \in (s + shift)..(e + shift) : v[x] \in AnyToken
  BY <1>1, ElementOfSeq
<1>3. /\ SubSeq(w, s, e) \in Seq(AnyToken)
      /\ Len(SubSeq(w, s, e)) = IF s <= e THEN e - s + 1 ELSE 0
      /\ \A x \in 1..(e - s + 1) : SubSeq(w, s, e)[x] = w[s + x - 1]
  BY <1>2, SubSeqProperties
<1>4. /\ SubSeq(v, s + shift, e + shift) \in Seq(AnyToken)
      /\ Len(SubSeq(v, s + shift, e + shift)) = IF s <= e THEN e - s + 1 ELSE 0
      /\ \A x \in 1..(e - s + 1) : SubSeq(v, s + shift, e + shift)[x] = v[s + shift + x - 1]
  <2>. DEFINE s2 == s + shift
              e2 == e + shift
  <2>1. s2 \in Int /\ e2 \in Int /\ e2 - s2 + 1 = e - s + 1 /\ (s2 <= e2 <=> s <= e)
    OBVIOUS
  <2>2. \A x \in s2..e2 : v[x] \in AnyToken
    BY <1>2
  <2>. HIDE DEF s2, e2
  <2>3. /\ SubSeq(v, s2, e2) \in Seq(AnyToken)
        /\ Len(SubSeq(v, s2, e2)) = IF s2 <= e2 THEN e2 - s2 + 1 ELSE 0
        /\ \A x \in 1..(e2 - s2 + 1) : SubSeq(v, s2, e2)[x] = v[s2 + x - 1]
    BY <2>1, <2>2, SubSeqProperties, SMTT(60)
  <2>. QED  BY <2>1, <2>3 DEF s2, e2
<1>5. \A x \in 1..(e - s + 1) : SubSeq(w, s, e)[x] = SubSeq(v, s + shift, e + shift)[x]
  <2>. SUFFICES ASSUME NEW x \in 1..(e - s + 1)
                PROVE  w[s + x - 1] = v[s + shift + x - 1]
    BY <1>3, <1>4
  <2>1. s + x - 1 \in s..e /\ (s + x - 1) + shift = s + shift + x - 1
    OBVIOUS
  <2>. QED  BY <2>1
<1>. DEFINE one == SubSeq(w, s, e)
            two == SubSeq(v, s + shift, e + shift)
<1>6. /\ one \in Seq(AnyToken) /\ two \in Seq(AnyToken) /\ Len(one) = Len(two)
      /\ Len(one) = IF s <= e THEN e - s + 1 ELSE 0
  BY <1>3, <1>4
<1>7. \A x \in 1..Len(one) : x \in 1..(e - s + 1)
  <2>1. CASE s <= e
    BY <1>6, <2>1
  <2>2. CASE ~(s <= e)
    BY <1>6, <2>2
  <2>. QED  BY <2>1, <2>2
<1>8. \A x \in 1..Len(one) : one[x] = two[x]
  BY <1>5, <1>7
<1>. HIDE DEF one, two
<1>9. one = two
  BY <1>6, <1>8, SeqEqual
<1>. QED  BY <1>9 DEF one, two

\* The tokens of two sequences in a row.
LEMMA Joined ==
    ASSUME NEW a \in Seq(AnyToken), NEW b \in Seq(AnyToken)
    PROVE  /\ a \o b \in Seq(AnyToken)
           /\ Len(a) \in Nat /\ Len(b) \in Nat
           /\ Len(a \o b) = Len(a) + Len(b)
           /\ \A x \in 1..Len(a) : (a \o b)[x] = a[x]
           /\ \A x \in 1..Len(b) : (a \o b)[Len(a) + x] = b[x]
<1>1. Len(a) \in Nat /\ Len(b) \in Nat
  BY LenProperties
<1>2. /\ a \o b \in Seq(AnyToken)
      /\ Len(a \o b) = Len(a) + Len(b)
      /\ \A x \in 1..(Len(a) + Len(b)) :
            (a \o b)[x] = IF x <= Len(a) THEN a[x] ELSE b[x - Len(a)]
  BY ConcatProperties
<1>3. \A x \in 1..Len(a) : (a \o b)[x] = a[x]
  BY <1>1, <1>2
<1>4. \A x \in 1..Len(b) : (a \o b)[Len(a) + x] = b[x]
  <2>. SUFFICES ASSUME NEW x \in 1..Len(b)  PROVE  (a \o b)[Len(a) + x] = b[x]
    OBVIOUS
  <2>1. Len(a) + x \in 1..(Len(a) + Len(b)) /\ ~(Len(a) + x <= Len(a)) /\ Len(a) + x - Len(a) = x
    BY <1>1
  <2>. QED  BY <1>2, <2>1
<1>. QED  BY <1>1, <1>2, <1>3, <1>4

LEMMA Associative ==
    ASSUME NEW a \in Seq(AnyToken), NEW b \in Seq(AnyToken), NEW c \in Seq(AnyToken)
    PROVE  (a \o b) \o c = a \o (b \o c)
  BY ConcatAssociative

\* The tokens of the text as it stands.
LEMMA NowIs ==
    ASSUME RedactionType
    PROVE  /\ Now \in Seq(AnyToken)
           /\ Len(done) \in Nat /\ Len(rest) \in Nat
           /\ Len(Now) = Len(done) + Len(rest)
           /\ \A x \in 1..Len(done) : Now[x] = done[x]
           /\ \A x \in 1..Len(rest) : Now[Len(done) + x] = rest[x]
  BY Joined DEF RedactionType, Now

\* What is found is the longest run that fits.
LEMMA TheMatch ==
    ASSUME RedactionType, NEW pattern, Lengths(pattern) # {}
    PROVE  /\ Len(Matched(pattern)) \in 1..Len(rest)
           /\ Matched(pattern) = SubSeq(rest, 1, Len(Matched(pattern)))
           /\ Matched(pattern) \in Seq(AnyToken)
           /\ Fits(pattern, Matched(pattern))
           /\ \A x \in 1..Len(Matched(pattern)) :
                 Matched(pattern)[x] = rest[x] /\ rest[x] = Now[Len(done) + x]
           /\ \A k \in Lengths(pattern) : k <= Len(Matched(pattern))
<1>. DEFINE n == Max(Lengths(pattern))
<1>1. rest \in Seq(AnyToken) /\ Len(rest) \in Nat
  BY LenProperties DEF RedactionType
<1>2. n \in Lengths(pattern) /\ \A k \in Lengths(pattern) : k <= n
  <2>1. Lengths(pattern) \in SUBSET (0..Len(rest))
    BY <1>1 DEF Lengths
  <2>2. PICK m \in Lengths(pattern) : \A k \in Lengths(pattern) : k <= m
    BY <1>1, <2>1, GreatestNumber
  <2>3. \A x, y \in Lengths(pattern) : x >= y <=> y <= x
    BY <1>1 DEF Lengths
  <2>. QED  BY <2>2, <2>3 DEF Max
<1>3. n \in 1..Len(rest) /\ Fits(pattern, SubSeq(rest, 1, n))
  BY <1>2 DEF Lengths
<1>. HIDE DEF n
<1>4. \A x \in 1..n : rest[x] \in AnyToken
  BY <1>1, <1>3, ElementOfSeq
<1>5. /\ SubSeq(rest, 1, n) \in Seq(AnyToken)
      /\ Len(SubSeq(rest, 1, n)) = n
      /\ \A x \in 1..n : SubSeq(rest, 1, n)[x] = rest[x]
  <2>1. 1 \in Int /\ n \in Int /\ 1 <= n /\ n - 1 + 1 = n
    BY <1>1, <1>3
  <2>2. /\ SubSeq(rest, 1, n) \in Seq(AnyToken)
        /\ Len(SubSeq(rest, 1, n)) = IF 1 <= n THEN n - 1 + 1 ELSE 0
        /\ \A x \in 1..(n - 1 + 1) : SubSeq(rest, 1, n)[x] = rest[1 + x - 1]
    BY <1>4, <2>1, SubSeqProperties
  <2>3. \A x \in 1..n : 1 + x - 1 = x
    BY <1>1, <1>3
  <2>. QED  BY <2>1, <2>2, <2>3
<1>6. Matched(pattern) = SubSeq(rest, 1, n)
  BY DEF Matched, n
<1>7. \A x \in 1..n : rest[x] = Now[Len(done) + x]
  BY <1>1, <1>3, NowIs
<1>. QED  BY <1>2, <1>3, <1>5, <1>6, <1>7

\* In w, m new tokens stand for the n of v behind the first d; and what is new is not
\* taken for what it is not.
Rewritten(v, w, d, n, m) ==
    /\ d \in Nat /\ n \in 1..(Len(v) - d) /\ m \in Nat \ {0}
    /\ Len(w) = Len(v) - n + m
    /\ \A x \in 1..d : w[x] = v[x]
    /\ \A x \in (d + n + 1)..Len(v) : w[x - n + m] = v[x]
    /\ \A x \in (d + 1)..(d + m) :
          /\ w[x].at = 0 \/ \E y \in (d + 1)..(d + n) : w[x].at = v[y].at
          /\ w[x].kind \notin {"email", "pan"}
          /\ w[x].kind = "group" => w[x].at = 0
    /\ w[d + 1].kind # "group"
    /\ w[d + m].kind # "keyword"
    /\ w[d + m].kind = "group" => v[d + n].kind = "group"
    /\ IsShort(w[d + m]) => v[d + n].kind = "group" \/ (m > 1 /\ w[d + m - 1].kind # "keyword")

\* The tokens of new stand where n of v stood, behind the first d.
Spliced(v, w, d, n, new) ==
    /\ w \in Seq(AnyToken)
    /\ Len(w) = Len(v) - n + Len(new)
    /\ \A x \in 1..d : w[x] = v[x]
    /\ \A x \in 1..Len(new) : w[d + x] = new[x]
    /\ \A x \in (d + n + 1)..Len(v) : w[x - n + Len(new)] = v[x]

\* Where the tokens of a sequence go when others come in the place of some of it.
LEMMA Splice ==
    ASSUME NEW a \in Seq(AnyToken), NEW b \in Seq(AnyToken), NEW new \in Seq(AnyToken), NEW n \in 1..Len(b)
    PROVE  Spliced(a \o b, (a \o new) \o SubSeq(b, n + 1, Len(b)), Len(a), n, new)
<1>. DEFINE tail == SubSeq(b, n + 1, Len(b))
            v == a \o b
            u == a \o new
            w == u \o tail
<1>1. Len(a) \in Nat /\ Len(b) \in Nat /\ Len(new) \in Nat /\ n \in Nat
  BY LenProperties
<1>2. \A x \in (n + 1)..Len(b) : b[x] \in AnyToken
  BY <1>1, ElementOfSeq
<1>3. /\ tail \in Seq(AnyToken)
      /\ Len(tail) = Len(b) - n
      /\ \A x \in 1..(Len(b) - n) : tail[x] = b[n + x]
  <2>. DEFINE s == n + 1
              e == Len(b)
  <2>1. s \in Int /\ e \in Int /\ e - s + 1 = Len(b) - n /\ (s <= e \/ Len(b) - n = 0)
        /\ \A x \in 1..(Len(b) - n) : s + x - 1 = n + x
    BY <1>1
  <2>2. \A x \in s..e : b[x] \in AnyToken
    BY <1>2
  <2>3. tail = SubSeq(b, s, e)
    OBVIOUS
  <2>. HIDE DEF s, e, tail
  <2>4. /\ SubSeq(b, s, e) \in Seq(AnyToken)
        /\ Len(SubSeq(b, s, e)) = IF s <= e THEN e - s + 1 ELSE 0
        /\ \A x \in 1..(e - s + 1) : SubSeq(b, s, e)[x] = b[s + x - 1]
    BY <2>1, <2>2, SubSeqProperties
  <2>. QED  BY <2>1, <2>3, <2>4
<1>. HIDE DEF tail
<1>4. /\ Len(v) = Len(a) + Len(b)
      /\ \A x \in 1..Len(a) : v[x] = a[x]
      /\ \A x \in 1..Len(b) : v[Len(a) + x] = b[x]
  BY Joined
<1>5. /\ u \in Seq(AnyToken) /\ Len(u) = Len(a) + Len(new)
      /\ \A x \in 1..Len(a) : u[x] = a[x]
      /\ \A x \in 1..Len(new) : u[Len(a) + x] = new[x]
  BY Joined
<1>. HIDE DEF u, v
<1>6. /\ w \in Seq(AnyToken) /\ Len(w) = Len(u) + Len(tail)
      /\ \A x \in 1..Len(u) : w[x] = u[x]
      /\ \A x \in 1..Len(tail) : w[Len(u) + x] = tail[x]
  BY <1>3, <1>5, Joined
<1>. HIDE DEF w
<1>7. \A x \in 1..Len(a) : w[x] = v[x]
  BY <1>1, <1>4, <1>5, <1>6
<1>8. \A x \in 1..Len(new) : w[Len(a) + x] = new[x]
  BY <1>1, <1>5, <1>6
<1>9. \A x \in (Len(a) + n + 1)..Len(v) : w[x - n + Len(new)] = v[x]
  <2>. SUFFICES ASSUME NEW x \in (Len(a) + n + 1)..Len(v)
                PROVE  w[x - n + Len(new)] = v[x]
    OBVIOUS
  <2>. DEFINE y == x - Len(a) - n
  <2>1. y \in 1..(Len(b) - n) /\ x - n + Len(new) = Len(u) + y /\ x = Len(a) + (n + y)
    BY <1>1, <1>4, <1>5
  <2>. HIDE DEF y
  <2>2. w[Len(u) + y] = b[n + y]
    BY <1>3, <1>6, <2>1
  <2>3. n + y \in 1..Len(b)
    BY <1>1, <2>1
  <2>. QED  BY <1>4, <2>1, <2>2, <2>3
<1>10. Len(w) = Len(v) - n + Len(new)
  BY <1>1, <1>3, <1>4, <1>5, <1>6
<1>11. Spliced(v, w, Len(a), n, new)
  BY <1>6, <1>7, <1>8, <1>9, <1>10 DEF Spliced
<1>. QED  BY <1>11 DEF w, u, v, tail

-------------------------------------------------------------------------------
(***************************************************************************)
(* Masking: what each substitution finds.                                  *)
(***************************************************************************)

\* The shapes of an Aadhaar number.
AadhaarShape(run) ==
    /\ \A x \in 1..Len(run) : run[x].kind = "group"
    /\ \/ Len(run) = 1 /\ run[1].digits = 12
       \/ Len(run) = 2 /\ run[1].digits = 4 /\ run[2].digits = 8
       \/ Len(run) = 2 /\ run[1].digits = 8 /\ run[2].digits = 4
       \/ Len(run) = 3 /\ run[1].digits = 4 /\ run[2].digits = 4 /\ run[3].digits = 4

LEMMA AadhaarHasShape ==
    ASSUME NEW run \in Seq(AnyToken), LooksLikeAadhaar(run)
    PROVE  AadhaarShape(run)
<1>. DEFINE digits == [i \in DOMAIN run |-> run[i].digits]
<1>1. DOMAIN run = 1..Len(run) /\ Len(run) \in Nat
  BY LenProperties
<1>2. digits \in {<<12>>, <<4, 8>>, <<8, 4>>, <<4, 4, 4>>}
  BY DEF LooksLikeAadhaar
<1>3. \A x \in 1..Len(run) : run[x].kind = "group"
  BY <1>1 DEF LooksLikeAadhaar, AreGroups
<1>4. \A x \in 1..Len(run) : digits[x] = run[x].digits
  BY <1>1
<1>5. DOMAIN digits = 1..Len(run)
  BY <1>1
<1>. HIDE DEF digits
<1>6. CASE digits = <<12>>
  <2>1. digits[1] = 12 /\ 1 \in DOMAIN digits /\ 2 \notin DOMAIN digits
    BY <1>6
  <2>2. Len(run) = 1
    BY <1>1, <1>5, <2>1
  <2>. QED  BY <1>3, <1>4, <2>1, <2>2 DEF AadhaarShape
<1>7. CASE digits = <<4, 8>> \/ digits = <<8, 4>>
  <2>1. 1..Len(run) = 1..2
    BY <1>5, <1>7
  <2>2. Len(run) = 2
    BY <1>1, <2>1
  <2>. QED  BY <1>3, <1>4, <1>7, <2>2 DEF AadhaarShape
<1>8. CASE digits = <<4, 4, 4>>
  <2>1. digits[1] = 4 /\ digits[2] = 4 /\ digits[3] = 4
    BY <1>8
  <2>2. 3 \in DOMAIN digits /\ 4 \notin DOMAIN digits
    BY <1>8
  <2>3. Len(run) = 3
    BY <1>1, <1>5, <2>2
  <2>. QED  BY <1>3, <1>4, <2>1, <2>3 DEF AadhaarShape
<1>. QED  BY <1>2, <1>6, <1>7, <1>8

LEMMA WhatFits ==
    ASSUME NEW run \in Seq(AnyToken), NEW n \in Nat \ {0}, Len(run) = n
    PROVE  /\ Fits("EMAIL", run) => n = 1 /\ run[1].kind = "email"
           /\ Fits("CARD", run) => LooksLikeCard(run) /\ \A x \in 1..n : run[x].kind = "group"
           /\ Fits("AADHAAR", run) => AadhaarShape(run)
           /\ Fits("OTP", run) =>
                 /\ n \in {2, 3} /\ run[1].kind = "keyword"
                 /\ \/ run[n].kind = "group" /\ run[n].digits >= 4
                    \/ run[n].kind = "pan" /\ n = 2
                 /\ n = 3 => IsShort(run[2])
           /\ Fits("PHONE", run) => n = 1 /\ run[1].kind = "group" /\ run[1].digits = 10 /\ run[1].high
           /\ Fits("PAN", run) => n = 1 /\ run[1].kind = "pan"
<1>1. DOMAIN run = 1..n
  BY LenProperties
<1>2. Fits("CARD", run) => LooksLikeCard(run) /\ \A x \in 1..n : run[x].kind = "group"
  BY <1>1 DEF Fits, LooksLikeCard, AreGroups
<1>3. Fits("AADHAAR", run) => AadhaarShape(run)
  BY AadhaarHasShape DEF Fits
<1>4. Fits("OTP", run) =>
         /\ n \in {2, 3} /\ run[1].kind = "keyword"
         /\ \/ run[n].kind = "group" /\ run[n].digits >= 4
            \/ run[n].kind = "pan" /\ n = 2
         /\ n = 3 => IsShort(run[2])
  BY DEF Fits, HasCode
<1>5. /\ Fits("EMAIL", run) => n = 1 /\ run[1].kind = "email"
      /\ Fits("PHONE", run) => n = 1 /\ run[1].kind = "group" /\ run[1].digits = 10 /\ run[1].high
      /\ Fits("PAN", run) => n = 1 /\ run[1].kind = "pan"
  BY DEF Fits, LooksLikePhone
<1>. QED  BY <1>2, <1>3, <1>4, <1>5

\* A run of few digits is no card number.
LEMMA TooFewDigits ==
    ASSUME NEW run \in Seq(AnyToken),
           \/ Len(run) = 1 /\ run[1].digits <= 12
           \/ Len(run) = 2 /\ run[1].digits + run[2].digits <= 12
           \/ Len(run) = 3 /\ run[1].digits + run[2].digits + run[3].digits <= 12
    PROVE  ~LooksLikeCard(run)
<1>. DEFINE S == DOMAIN run
            D(x) == IF x \in 1..Len(run) THEN run[x].digits ELSE 0
            sum(s) == (IF 1 \in s THEN D(1) ELSE 0) + (IF 2 \in s THEN D(2) ELSE 0) + (IF 3 \in s THEN D(3) ELSE 0)
            rec(f) == f = [s \in SUBSET S |-> IF s = {} THEN 0
                            ELSE LET x == CHOOSE x \in s : TRUE IN run[x].digits + f[s \ {x}]]
            iter == CHOOSE f : rec(f)
<1>1. Len(run) \in 1..3 /\ S = 1..Len(run)
  BY LenProperties
<1>2. \A x \in S : run[x].digits \in Nat /\ D(x) = run[x].digits
  <2>1. \A x \in S : run[x] \in AnyToken
    BY <1>1, ElementOfSeq
  <2>. QED  BY <1>1, <2>1 DEF AnyToken
<1>3. D(1) \in Nat /\ D(2) \in Nat /\ D(3) \in Nat
  BY <1>1, <1>2
<1>4. D(1) + D(2) + D(3) <= 12
  BY <1>1, <1>2, SMTT(60)
<1>. HIDE DEF D
<1>5. \A s \in SUBSET S : s # {} =>
         LET x == CHOOSE x \in s : TRUE IN x \in s /\ s \ {x} \in SUBSET S /\ sum(s) = D(x) + sum(s \ {x})
  <2>. SUFFICES ASSUME NEW s \in SUBSET S, NEW x \in s
                PROVE  sum(s) = D(x) + sum(s \ {x})
    OBVIOUS
  <2>1. x = 1 \/ x = 2 \/ x = 3
    BY <1>1
  <2>. QED  BY <1>3, <2>1
<1>6. sum({}) = 0
  OBVIOUS
<1>. HIDE DEF sum
<1>7. rec(iter)
  <2>. DEFINE f == [s \in SUBSET S |-> sum(s)]
  <2>1. rec(f)
    <3>1. \A s \in SUBSET S : sum(s) = IF s = {} THEN 0
              ELSE LET x == CHOOSE x \in s : TRUE IN run[x].digits + f[s \ {x}]
      BY <1>2, <1>5, <1>6
    <3>. QED  BY <3>1
  <2>. HIDE DEF f, rec
  <2>. QED  BY <2>1
<1>. HIDE DEF iter
<1>8. iter[{}] = sum({})
  BY <1>6, <1>7
<1>9. \A s \in SUBSET S : s # {} /\ (\A x \in s : iter[s \ {x}] = sum(s \ {x})) => iter[s] = sum(s)
  BY <1>2, <1>5, <1>7, ZenonT(60)
<1>. HIDE DEF rec, S
<1>10. \A a \in S : iter[{a}] = sum({a})
  <2>. SUFFICES ASSUME NEW a \in S  PROVE  iter[{a}] = sum({a})
    OBVIOUS
  <2>1. {a} \ {a} = {}
    OBVIOUS
  <2>. QED  BY <1>8, <1>9, <2>1
<1>11. \A a, b \in S : iter[{a, b}] = sum({a, b})
  <2>. SUFFICES ASSUME NEW a \in S, NEW b \in S, a # b  PROVE  iter[{a, b}] = sum({a, b})
    BY <1>10
  <2>1. {a, b} \ {a} = {b} /\ {a, b} \ {b} = {a}
    OBVIOUS
  <2>. QED  BY <1>9, <1>10, <2>1
<1>12. iter[S] = sum(S)
  <2>1. CASE Len(run) = 3
    <3>1. 1 \in S /\ 2 \in S /\ 3 \in S /\ S # {}
      BY <1>1, <2>1
    <3>2. \A x \in S : x = 1 \/ x = 2 \/ x = 3
      BY <1>1, <2>1
    <3>3. S \ {1} = {2, 3} /\ S \ {2} = {1, 3} /\ S \ {3} = {1, 2}
      BY <3>1, <3>2
    <3>4. \A x \in S : iter[S \ {x}] = sum(S \ {x})
      <4>1. iter[{2, 3}] = sum({2, 3}) /\ iter[{1, 3}] = sum({1, 3}) /\ iter[{1, 2}] = sum({1, 2})
        BY <1>11, <3>1
      <4>2. /\ iter[S \ {1}] = sum(S \ {1}) /\ iter[S \ {2}] = sum(S \ {2})
            /\ iter[S \ {3}] = sum(S \ {3})
        BY <3>3, <4>1, Zenon
      <4>. QED  BY <3>2, <4>2, Zenon
    <3>. QED  BY <1>9, <3>1, <3>4
  <2>2. CASE Len(run) = 1
    <3>1. 1 \in S /\ S = {1}
      BY <1>1, <2>2
    <3>. QED  BY <1>10, <3>1, Zenon
  <2>3. CASE Len(run) = 2
    <3>1. 1 \in S /\ 2 \in S /\ S = {1, 2}
      BY <1>1, <2>3
    <3>. QED  BY <1>11, <3>1, Zenon
  <2>4. Len(run) = 1 \/ Len(run) = 2 \/ Len(run) = 3
    BY <1>1
  <2>. QED  BY <2>1, <2>2, <2>3, <2>4
<1>13. sum(S) = D(1) + D(2) + D(3)
  <2>1. Len(run) < 2 => D(2) = 0
    BY <1>1 DEF D
  <2>2. Len(run) < 3 => D(3) = 0
    BY <1>1 DEF D
  <2>. QED  BY <1>1, <1>3, <2>1, <2>2 DEF sum
<1>14. MapThenSumSet(LAMBDA i : run[i].digits, DOMAIN run) = iter[S]
  BY DEF MapThenSumSet, MapThenFoldSet, iter, rec, S
<1>. QED  BY <1>3, <1>4, <1>12, <1>13, <1>14 DEF LooksLikeCard
-------------------------------------------------------------------------------
(***************************************************************************)
(* Masking: what each step does to the text as it stands.                  *)
(***************************************************************************)

\* What follows the match.
LEMMA RestAfter ==
    ASSUME RedactionType, NEW n \in 0..Len(rest)
    PROVE  After(n) \in Seq(AnyToken)
<1>1. rest \in Seq(AnyToken) /\ Len(rest) \in Nat
  BY LenProperties DEF RedactionType
<1>2. n + 1 \in Int /\ \A x \in (n + 1)..Len(rest) : rest[x] \in AnyToken
  BY <1>1, ElementOfSeq
<1>3. SubSeq(rest, n + 1, Len(rest)) \in Seq(AnyToken)
  BY <1>1, <1>2, SubSeqProperties
<1>. QED  BY <1>3 DEF After

\* A step that replaces nothing leaves the text as it stands.
LEMMA GoingOnKeepsText ==
    ASSUME RedactionType, NEW pattern, GoOn(pattern)
    PROVE  /\ RedactionType' /\ Now' = Now
           /\ Len(done') = Len(done) + 1
           /\ \A x \in 1..Len(done) : done'[x] = done[x]
           /\ done'[Len(done) + 1] = Now[Len(done) + 1]
           /\ Len(done) + 1 <= Len(Now)
<1>1. done \in Seq(AnyToken) /\ rest \in Seq(AnyToken) /\ rest # <<>>
  BY DEF RedactionType, GoOn
<1>2. Len(rest) \in Nat \ {0}
  BY <1>1, EmptySeq
<1>3. rest[1] \in AnyToken /\ 1 \in 0..Len(rest)
  BY <1>1, <1>2, ElementOfSeq
<1>. DEFINE one == <<rest[1]>>
<1>4. one \in Seq(AnyToken) /\ Len(one) = 1 /\ one[1] = rest[1]
  BY <1>3
<1>5. After(1) \in Seq(AnyToken)
  BY <1>3, RestAfter
<1>6. done' = done \o one /\ rest' = After(1)
  BY <1>1, <1>3 DEF GoOn
<1>. HIDE DEF one
<1>7. one \o After(1) = rest
  <2>1. rest = <<rest[1]>> \o SubSeq(rest, 1 + 1, Len(rest))
    <3>1. 1 \in 1..Len(rest) /\ Len(rest) \in 1..Len(rest) /\ SubSeq(rest, 1, Len(rest)) = rest
      BY <1>1, <1>2, SubSeqFull
    <3>. QED  BY <1>1, <3>1, SubSeqRecursiveFirst
  <2>. QED  BY <2>1 DEF one, After
<1>8. Now' = Now
  <2>1. (done \o one) \o After(1) = done \o (one \o After(1))
    BY <1>1, <1>4, <1>5, Associative, SMTT(60)
  <2>. QED  BY <1>6, <1>7, <2>1 DEF Now
<1>9. /\ done' \in Seq(AnyToken) /\ Len(done') = Len(done) + 1
      /\ \A x \in 1..Len(done) : done'[x] = done[x]
      /\ done'[Len(done) + 1] = rest[1]
  <2>1. 1 \in 1..Len(one)
    BY <1>4
  <2>2. /\ done \o one \in Seq(AnyToken) /\ Len(done) \in Nat
        /\ Len(done \o one) = Len(done) + Len(one)
        /\ \A x \in 1..Len(done) : (done \o one)[x] = done[x]
        /\ \A x \in 1..Len(one) : (done \o one)[Len(done) + x] = one[x]
    BY <1>1, <1>4, Joined
  <2>. QED  BY <1>4, <1>6, <2>1, <2>2
<1>10. rest[1] = Now[Len(done) + 1] /\ Len(done) + 1 <= Len(Now)
  BY <1>2, NowIs
<1>11. RedactionType'
  BY <1>5, <1>6, <1>9 DEF RedactionType, GoOn
<1>. QED  BY <1>8, <1>9, <1>10, <1>11

LEMMA PuttingBackKeepsText ==
    ASSUME RedactionType, NEW pattern, PutBack(pattern)
    PROVE  /\ RedactionType' /\ Now' = Now
           /\ Len(done') = Len(done) + Len(Matched(pattern))
<1>. DEFINE run == Matched(pattern)
            n == Len(run)
<1>1. done \in Seq(AnyToken) /\ rest \in Seq(AnyToken)
  BY DEF RedactionType
<1>2. n \in 1..Len(rest) /\ run = SubSeq(rest, 1, n) /\ run \in Seq(AnyToken)
  BY TheMatch DEF PutBack
<1>3. done' = done \o run /\ rest' = After(n)
  BY DEF PutBack
<1>4. After(n) \in Seq(AnyToken)
  BY <1>2, RestAfter
<1>. HIDE DEF n
<1>5. run \o After(n) = rest
  <2>1. Len(rest) \in Nat
    BY <1>1, LenProperties
  <2>2. 1 \in 1..Len(rest)+1 /\ n \in (1 - 1)..Len(rest) /\ Len(rest) \in n..Len(rest)
    BY <1>2, <2>1
  <2>3. SubSeq(rest, 1, n) \o SubSeq(rest, n + 1, Len(rest)) = SubSeq(rest, 1, Len(rest))
    BY <1>1, <2>2, ConcatAdjacentSubSeq
  <2>. QED  BY <1>1, <1>2, <2>3, SubSeqFull DEF After
<1>6. Now' = Now
  <2>1. (done \o run) \o After(n) = done \o (run \o After(n))
    BY <1>1, <1>2, <1>4, Associative
  <2>. QED  BY <1>3, <1>5, <2>1 DEF Now
<1>7. done' \in Seq(AnyToken) /\ Len(done') = Len(done) + n
  <2>1. done \o run \in Seq(AnyToken) /\ Len(done \o run) = Len(done) + Len(run)
    BY <1>1, <1>2, Joined
  <2>. QED  BY <1>3, <2>1 DEF n
<1>8. RedactionType'
  BY <1>3, <1>4, <1>7 DEF RedactionType, PutBack
<1>. QED  BY <1>6, <1>7, <1>8 DEF n

\* A replacement puts its mask in the place of the match.
LEMMA ReplacingRewrites ==
    ASSUME RedactionType, NEW pattern \in {"EMAIL", "CARD", "AADHAAR", "PHONE", "PAN"}, Replace(pattern)
    PROVE  LET d == Len(done)
           IN /\ RedactionType'
              /\ Rewritten(Now, Now', d, Len(Matched(pattern)), 1)
              /\ Len(done') = d + 1
              /\ \A x \in 1..d : done'[x] = done[x]
              /\ done'[d + 1] = Masked(pattern, Now[d + 1].at)
              /\ Now'[d + 1] = Masked(pattern, Now[d + 1].at)
<1>. DEFINE run == Matched(pattern)
            n == Len(run)
            d == Len(done)
            mask == Masked(pattern, rest[1].at)
            new == <<mask>>
<1>1. /\ done \in Seq(AnyToken) /\ rest \in Seq(AnyToken)
      /\ d \in Nat /\ Len(rest) \in Nat /\ Len(Now) = d + Len(rest) /\ Now \in Seq(AnyToken)
  BY NowIs DEF RedactionType
<1>2. /\ n \in 1..Len(rest) /\ run \in Seq(AnyToken) /\ Fits(pattern, run)
      /\ \A x \in 1..n : run[x] = Now[d + x]
  BY TheMatch DEF Replace
<1>3. rest[1] \in AnyToken /\ rest[1] = Now[d + 1]
  <2>1. 1 \in 1..Len(rest)
    BY <1>1, <1>2
  <2>. QED  BY <1>1, <2>1, ElementOfSeq, NowIs
<1>4. mask \in AnyToken /\ mask.kind = pattern /\ mask.at = Now[d + 1].at
  BY <1>3 DEF Masked, Token, AnyToken, Kinds
<1>5. done' = Append(done, mask) /\ rest' = After(n)
  BY DEF Replace
<1>6. After(n) \in Seq(AnyToken)
  BY <1>2, RestAfter
<1>. HIDE DEF mask, n
<1>7. new \in Seq(AnyToken) /\ Len(new) = 1 /\ new[1] = mask
  BY <1>4
<1>8. done' = done \o new
  BY <1>1, <1>4, <1>5
<1>. HIDE DEF new
<1>9. /\ done' \in Seq(AnyToken) /\ Len(done') = d + 1
      /\ \A x \in 1..d : done'[x] = done[x]
      /\ done'[d + 1] = mask
  <2>1. 1 \in 1..Len(new)
    BY <1>7
  <2>2. /\ done \o new \in Seq(AnyToken)
        /\ Len(done \o new) = Len(done) + Len(new)
        /\ \A x \in 1..Len(done) : (done \o new)[x] = done[x]
        /\ \A x \in 1..Len(new) : (done \o new)[Len(done) + x] = new[x]
    BY <1>1, <1>7, Joined
  <2>. QED  BY <1>1, <1>7, <1>8, <2>1, <2>2
<1>10. RedactionType'
  BY <1>5, <1>6, <1>9 DEF RedactionType, Replace
<1>11. /\ Now' \in Seq(AnyToken)
       /\ Len(Now') = Len(Now) - n + 1
       /\ \A x \in 1..d : Now'[x] = Now[x]
       /\ Now'[d + 1] = mask
       /\ \A x \in (d + n + 1)..Len(Now) : Now'[x - n + 1] = Now[x]
  <2>1. 1 \in 1..Len(new)
    BY <1>7
  <2>2. Now' = (done \o new) \o SubSeq(rest, n + 1, Len(rest))
    BY <1>5, <1>8 DEF Now, After
  <2>. DEFINE w == (done \o new) \o SubSeq(rest, n + 1, Len(rest))
              v == done \o rest
  <2>3. Spliced(v, w, Len(done), n, new)
    <3>1. /\ done \in Seq(AnyToken) /\ rest \in Seq(AnyToken) /\ new \in Seq(AnyToken)
          /\ n \in 1..Len(rest)
      BY <1>1, <1>2, <1>7
    <3>. QED  BY <3>1, Splice
  <2>4. Now' = w /\ Now = v
    BY <2>2 DEF Now
  <2>. HIDE DEF w, v
  <2>. QED  BY <1>7, <2>1, <2>3, <2>4 DEF Spliced
<1>12. IsShort(mask) => Now[d + n].kind = "group"
  <2>1. IsShort(mask) => pattern = "CARD"
    BY <1>4 DEF IsShort
  <2>2. pattern = "CARD" => \A x \in 1..n : run[x].kind = "group"
    BY <1>1, <1>2, WhatFits DEF n
  <2>3. n \in 1..n /\ run[n] = Now[d + n]
    BY <1>1, <1>2
  <2>. QED  BY <2>1, <2>2, <2>3
<1>13. Rewritten(Now, Now', d, n, 1)
  <2>1. d + 1 \in (d + 1)..(d + n) /\ n \in 1..(Len(Now) - d) /\ \A x \in (d + 1)..(d + 1) : x = d + 1
    BY <1>1, <1>2
  <2>2. mask.kind \notin {"email", "pan", "group", "keyword"}
    BY <1>4
  <2>3. \A x \in (d + 1)..(d + 1) :
           /\ Now'[x].at = 0 \/ \E y \in (d + 1)..(d + n) : Now'[x].at = Now[y].at
           /\ Now'[x].kind \notin {"email", "pan"}
           /\ Now'[x].kind = "group" => Now'[x].at = 0
    BY <1>4, <1>11, <2>1, <2>2
  <2>. QED  BY <1>1, <1>4, <1>11, <1>12, <2>1, <2>2, <2>3 DEF Rewritten
<1>. QED  BY <1>4, <1>9, <1>10, <1>11, <1>13, <1>3 DEF n, mask

\* A code is replaced behind its keyword, and what is left of the token that it was
\* taken from follows.
LEMMA CodeRewrites ==
    ASSUME RedactionType, ReplaceCode("OTP")
    PROVE  LET d == Len(done)
               n == Len(Matched("OTP"))
           IN /\ RedactionType'
              /\ \E m \in Nat : /\ m >= 2 /\ Rewritten(Now, Now', d, n, m)
                               /\ \A x \in (d + 3)..(d + m) : Now'[x].at = 0
              /\ Len(done') = d + 2
              /\ Now'[d + 1] = Now[d + 1]
              /\ Now'[d + 2] = Masked("OTP", Now[d + n].at)
<1>. DEFINE run == Matched("OTP")
            n == Len(run)
            d == Len(done)
            code == rest[n]
            mask == Masked("OTP", code.at)
            two == <<rest[1], mask>>
<1>1. /\ done \in Seq(AnyToken) /\ rest \in Seq(AnyToken)
      /\ d \in Nat /\ Len(rest) \in Nat /\ Len(Now) = d + Len(rest) /\ Now \in Seq(AnyToken)
  BY NowIs DEF RedactionType
<1>2. /\ n \in 1..Len(rest) /\ run \in Seq(AnyToken) /\ Fits("OTP", run)
      /\ \A x \in 1..n : run[x] = rest[x] /\ rest[x] = Now[d + x]
  BY TheMatch DEF ReplaceCode
<1>3. /\ rest[1] \in AnyToken /\ rest[1] = Now[d + 1] /\ rest[1].kind = "keyword"
      /\ code \in AnyToken /\ code = Now[d + n]
      /\ code.kind = "group" \/ code.kind = "pan"
      /\ n \in {2, 3}
  <2>1. 1 \in 1..n /\ n \in 1..n /\ 1 \in 1..Len(rest) /\ n \in Nat \ {0}
    BY <1>1, <1>2
  <2>2. /\ n \in {2, 3} /\ run[1].kind = "keyword"
        /\ run[n].kind = "group" \/ run[n].kind = "pan"
    BY <1>2, <2>1, WhatFits
  <2>. QED  BY <1>1, <1>2, <2>1, <2>2, ElementOfSeq
<1>4. mask \in AnyToken /\ mask.kind = "OTP" /\ mask.at = Now[d + n].at
  BY <1>3 DEF Masked, Token, AnyToken, Kinds
<1>5. PICK left \in Remainders(code) : done' = done \o two /\ rest' = left \o After(n)
  BY DEF ReplaceCode
<1>6. After(n) \in Seq(AnyToken)
  BY <1>2, RestAfter
<1>. HIDE DEF mask, n, code
<1>7. two \in Seq(AnyToken) /\ Len(two) = 2 /\ two[1] = rest[1] /\ two[2] = mask
  BY <1>3, <1>4
<1>. HIDE DEF two
<1>8. \/ left = <<>>
      \/ \E t \in AnyToken : /\ left = <<t>> /\ t.at = 0
                             /\ \/ t.kind = "word" /\ code.kind = "pan"
                                \/ t.kind = "group" /\ code.kind = "group"
  <2>1. CASE code.kind = "pan"
    <3>1. left = <<Token("word", 0, FALSE, 0)>>
      BY <1>5, <2>1 DEF Remainders
    <3>2. Token("word", 0, FALSE, 0) \in AnyToken
      BY DEF Token, AnyToken, Kinds
    <3>. QED  BY <2>1, <3>1, <3>2 DEF Token
  <2>2. CASE code.kind = "group" /\ code.digits <= 8
    BY <1>5, <2>2 DEF Remainders
  <2>3. CASE code.kind = "group" /\ ~(code.digits <= 8)
    <3>1. PICK h \in BOOLEAN : left = <<Token("group", code.digits - 8, h, 0)>>
      BY <1>5, <2>3 DEF Remainders
    <3>2. code.digits - 8 \in Nat
      BY <1>3, <2>3 DEF AnyToken
    <3>3. Token("group", code.digits - 8, h, 0) \in AnyToken
      BY <3>2 DEF Token, AnyToken, Kinds
    <3>. QED  BY <2>3, <3>1, <3>3 DEF Token
  <2>. QED  BY <1>3, <2>1, <2>2, <2>3
<1>9. left \in Seq(AnyToken) /\ (Len(left) = 0 \/ Len(left) = 1)
  <2>1. CASE left = <<>>
    BY <2>1, EmptySeq
  <2>2. CASE \E t \in AnyToken : left = <<t>>
    BY <2>2
  <2>. QED  BY <1>8, <2>1, <2>2
<1>10. /\ Len(left) = 1 => /\ left[1].at = 0
                           /\ \/ left[1].kind = "word" /\ code.kind = "pan"
                              \/ left[1].kind = "group" /\ code.kind = "group"
  BY <1>8
<1>. DEFINE new == two \o left
            m == Len(new)
<1>11. /\ new \in Seq(AnyToken) /\ m = 2 + Len(left)
       /\ new[1] = rest[1] /\ new[2] = mask
       /\ Len(left) = 1 => new[3] = left[1]
  <2>1. 1 \in 1..2 /\ 2 \in 1..2 /\ 2 + 1 = 3
    OBVIOUS
  <2>2. Len(left) = 1 => 1 \in 1..Len(left)
    OBVIOUS
  <2>3. /\ new \in Seq(AnyToken)
        /\ Len(new) = Len(two) + Len(left)
        /\ \A x \in 1..Len(two) : new[x] = two[x]
        /\ \A x \in 1..Len(left) : new[Len(two) + x] = left[x]
    BY <1>7, <1>9, Joined
  <2>. HIDE DEF new
  <2>4. Len(left) = 1 => new[2 + 1] = left[1]
    BY <1>7, <2>2, <2>3
  <2>. QED  BY <1>7, <2>1, <2>3, <2>4
<1>12. /\ done' \in Seq(AnyToken) /\ Len(done') = d + 2 /\ rest' \in Seq(AnyToken)
  <2>1. done \o two \in Seq(AnyToken) /\ Len(done \o two) = Len(done) + Len(two)
    BY <1>1, <1>7, Joined
  <2>2. left \o After(n) \in Seq(AnyToken)
    BY <1>6, <1>9, Joined
  <2>. QED  BY <1>5, <1>7, <2>1, <2>2
<1>13. RedactionType'
  BY <1>12 DEF RedactionType, ReplaceCode
<1>14. Now' = (done \o new) \o SubSeq(rest, n + 1, Len(rest))
  <2>1. Now' = (done \o two) \o (left \o After(n))
    BY <1>5 DEF Now
  <2>2. done \o two \in Seq(AnyToken)
    BY <1>1, <1>7, Joined
  <2>3. (done \o two) \o (left \o After(n)) = ((done \o two) \o left) \o After(n)
    <3>1. left \in Seq(AnyToken)
      BY <1>9
    <3>. QED  BY <1>6, <2>2, <3>1, Associative
  <2>4. (done \o two) \o left = done \o (two \o left)
    <3>1. done \in Seq(AnyToken) /\ two \in Seq(AnyToken) /\ left \in Seq(AnyToken)
      BY <1>1, <1>7, <1>9
    <3>. QED  BY <3>1, Associative
  <2>. QED  BY <2>1, <2>3, <2>4 DEF After
<1>. HIDE DEF new
<1>15. /\ Now' \in Seq(AnyToken)
       /\ Len(Now') = Len(Now) - n + m
       /\ \A x \in 1..d : Now'[x] = Now[x]
       /\ \A x \in 1..m : Now'[d + x] = new[x]
       /\ \A x \in (d + n + 1)..Len(Now) : Now'[x - n + m] = Now[x]
  <2>. DEFINE w == (done \o new) \o SubSeq(rest, n + 1, Len(rest))
              v == done \o rest
  <2>1. Spliced(v, w, Len(done), n, new)
    <3>1. /\ done \in Seq(AnyToken) /\ rest \in Seq(AnyToken) /\ new \in Seq(AnyToken)
          /\ n \in 1..Len(rest)
      BY <1>1, <1>2, <1>11
    <3>. QED  BY <3>1, Splice
  <2>2. Now' = w /\ Now = v
    BY <1>14 DEF Now
  <2>. HIDE DEF w, v
  <2>. QED  BY <2>1, <2>2 DEF Spliced
<1>16. m \in {2, 3} /\ (m = 3 <=> Len(left) = 1)
  <2>1. CASE Len(left) = 0
    BY <1>11, <2>1
  <2>2. CASE Len(left) = 1
    BY <1>11, <2>2
  <2>. QED  BY <1>9, <2>1, <2>2
<1>. HIDE DEF m
<1>17. /\ Now'[d + 1] = Now[d + 1] /\ Now'[d + 2] = mask
       /\ m = 3 => /\ Now'[d + 3].at = 0
                   /\ \/ Now'[d + 3].kind = "word" /\ Now[d + n].kind = "pan"
                      \/ Now'[d + 3].kind = "group" /\ Now[d + n].kind = "group"
  <2>1. 1 \in 1..m /\ 2 \in 1..m /\ (m = 3 => 3 \in 1..m)
    BY <1>16
  <2>. QED  BY <1>3, <1>10, <1>11, <1>15, <1>16, <2>1
<1>18. Rewritten(Now, Now', d, n, m)
  <2>1. d + 1 \in (d + 1)..(d + n) /\ d + n \in (d + 1)..(d + n) /\ n \in 1..(Len(Now) - d)
    BY <1>1, <1>2, <1>3
  <2>2. \A x \in (d + 1)..(d + m) : x = d + 1 \/ x = d + 2 \/ (m = 3 /\ x = d + 3)
    BY <1>1, <1>16
  <2>3. Now'[d + 1].kind = "keyword" /\ Now'[d + 1].at = Now[d + 1].at
    BY <1>3, <1>17
  <2>4. Now'[d + 2].kind = "OTP" /\ Now'[d + 2].at = Now[d + n].at
    BY <1>4, <1>17
  <2>5. \A x \in (d + 1)..(d + m) :
          /\ Now'[x].at = 0 \/ \E y \in (d + 1)..(d + n) : Now'[x].at = Now[y].at
          /\ Now'[x].kind \notin {"email", "pan"}
          /\ Now'[x].kind = "group" => Now'[x].at = 0
    BY <1>17, <2>1, <2>2, <2>3, <2>4
  <2>6. CASE m = 2
    BY <1>1, <1>15, <2>1, <2>3, <2>4, <2>5, <2>6 DEF Rewritten, IsShort
  <2>7. CASE m = 3
    <3>1. d + m - 1 = d + 2 /\ d + m = d + 3
      BY <1>1, <2>7
    <3>. QED  BY <1>1, <1>15, <1>17, <2>1, <2>3, <2>4, <2>5, <2>7, <3>1 DEF Rewritten, IsShort
  <2>. QED  BY <1>16, <2>6, <2>7
<1>19. m \in Nat /\ m >= 2 /\ \A x \in (d + 3)..(d + m) : Now'[x].at = 0
  <2>1. \A x \in (d + 3)..(d + m) : m = 3 /\ x = d + 3
    BY <1>1, <1>16
  <2>. QED  BY <1>16, <1>17, <2>1
<1>. QED  BY <1>3, <1>12, <1>13, <1>17, <1>18, <1>19 DEF mask, n

-------------------------------------------------------------------------------
(***************************************************************************)
(* Masking: a match takes all of what it is for, and nothing of the rest.  *)
(***************************************************************************)

LEMMA RawTokens ==
    ASSUME RedactionType
    PROVE  /\ given.text \in Seq(AnyToken)
           /\ Len(given.text) \in Nat
           /\ DOMAIN given.text = 1..Len(given.text)
           /\ \A k \in 1..Len(given.text) : given.text[k] \in RawToken /\ given.text[k].at = k
<1>1. given.text \in Seq(RawToken)
  BY DEF RedactionType
<1>2. RawToken \subseteq AnyToken
  BY DEF RawToken, AnyToken, Kinds
<1>. QED  BY <1>1, <1>2, SeqMonotonic, ElementOfSeq, LenProperties DEF RedactionType

LEMMA RunOfText ==
    ASSUME RedactionType, NEW i \in 1..Len(given.text), NEW j \in 1..Len(given.text), i <= j
    PROVE  LET run == SubSeq(given.text, i, j)
           IN /\ run \in Seq(AnyToken)
              /\ Len(run) = j - i + 1
              /\ DOMAIN run = 1..(j - i + 1)
              /\ \A x \in 1..(j - i + 1) : run[x] = given.text[i + x - 1]
              /\ run[1] = given.text[i]
<1>1. \A k \in i..j : given.text[k] \in AnyToken
  BY RawTokens, ElementOfSeq
<1>2. i \in Int /\ j \in Int
  BY RawTokens
<1>3. /\ SubSeq(given.text, i, j) \in Seq(AnyToken)
      /\ Len(SubSeq(given.text, i, j)) = IF i <= j THEN j - i + 1 ELSE 0
      /\ \A x \in 1..(j - i + 1) : SubSeq(given.text, i, j)[x] = given.text[i + x - 1]
  BY <1>1, <1>2, SubSeqProperties
<1>4. 1 \in 1..(j - i + 1) /\ i + 1 - 1 = i
  BY <1>2
<1>. QED  BY <1>3, <1>4, LenProperties

\* What is of a kind in the text, and what is around it.
LEMMA WhatIs ==
    ASSUME RedactionType, NEW i \in 1..Len(given.text), NEW j \in 1..Len(given.text), i <= j
    PROVE  LET text == given.text IN
           /\ Is("EMAIL", i, j) => i = j /\ text[i].kind = "email"
           /\ Is("CARD", i, j) =>
                 /\ Apart(i, j) /\ \A k \in i..j : text[k].kind = "group"
                 /\ LooksLikeCard(SubSeq(text, i, j))
                 /\ Places(SubSeq(text, i, j)) \in given.cards
           /\ Is("AADHAAR", i, j) =>
                 /\ Apart(i, j) /\ \A k \in i..j : text[k].kind = "group"
                 /\ LooksLikeAadhaar(SubSeq(text, i, j))
                 /\ \/ j = i /\ text[i].digits = 12
                    \/ j = i + 1 /\ text[i].digits = 4 /\ text[i + 1].digits = 8
                    \/ j = i + 1 /\ text[i].digits = 8 /\ text[i + 1].digits = 4
                    \/ j = i + 2 /\ text[i].digits = 4 /\ text[i + 1].digits = 4 /\ text[i + 2].digits = 4
           /\ Is("OTP", i, j) =>
                 /\ Apart(i, j) /\ i = j /\ text[i].kind = "group" /\ text[i].digits \in 4..8
                 /\ Start("OTP", i) \in 1..i
                 /\ \/ Start("OTP", i) = i - 1
                    \/ Start("OTP", i) = i - 2 /\ IsShort(text[i - 1]) /\ text[i - 1].kind # "keyword"
                 /\ text[Start("OTP", i)].kind = "keyword"
           /\ Is("PHONE", i, j) =>
                 /\ Apart(i, j) /\ i = j /\ ~BehindKeyword(i)
                 /\ text[i].kind = "group" /\ text[i].digits = 10 /\ text[i].high
           /\ Is("PAN", i, j) => i = j /\ ~BehindKeyword(i) /\ text[i].kind = "pan"
<1>. DEFINE text == given.text
            run == SubSeq(text, i, j)
<1>1. /\ run \in Seq(AnyToken)
      /\ Len(run) = j - i + 1
      /\ DOMAIN run = 1..(j - i + 1)
      /\ \A x \in 1..(j - i + 1) : run[x] = text[i + x - 1]
      /\ run[1] = text[i]
  BY RunOfText
<1>2. Len(text) \in Nat
  BY RawTokens
<1>3. (\A x \in 1..Len(run) : run[x].kind = "group") => \A k \in i..j : text[k].kind = "group"
  <2>. SUFFICES ASSUME \A x \in 1..Len(run) : run[x].kind = "group", NEW k \in i..j
                PROVE  text[k].kind = "group"
    OBVIOUS
  <2>. DEFINE x == k - i + 1
  <2>1. x \in 1..(j - i + 1) /\ i + x - 1 = k
    BY <1>2
  <2>. HIDE DEF x
  <2>. QED  BY <1>1, <2>1
<1>4. Is("EMAIL", i, j) => i = j /\ text[i].kind = "email"
  BY <1>1 DEF Is
<1>5. Is("CARD", i, j) => Apart(i, j) /\ LooksLikeCard(run) /\ Places(run) \in given.cards
  BY DEF Is
<1>6. LooksLikeCard(run) => \A k \in i..j : text[k].kind = "group"
  BY <1>1, <1>3 DEF LooksLikeCard, AreGroups
<1>7. Is("AADHAAR", i, j) => Apart(i, j) /\ LooksLikeAadhaar(run)
  BY DEF Is
<1>8. LooksLikeAadhaar(run) =>
         /\ \A k \in i..j : text[k].kind = "group"
         /\ \/ j = i /\ text[i].digits = 12
            \/ j = i + 1 /\ text[i].digits = 4 /\ text[i + 1].digits = 8
            \/ j = i + 1 /\ text[i].digits = 8 /\ text[i + 1].digits = 4
            \/ j = i + 2 /\ text[i].digits = 4 /\ text[i + 1].digits = 4 /\ text[i + 2].digits = 4
  <2>. SUFFICES ASSUME LooksLikeAadhaar(run)
                PROVE  /\ \A k \in i..j : text[k].kind = "group"
                       /\ \/ j = i /\ text[i].digits = 12
                          \/ j = i + 1 /\ text[i].digits = 4 /\ text[i + 1].digits = 8
                          \/ j = i + 1 /\ text[i].digits = 8 /\ text[i + 1].digits = 4
                          \/ j = i + 2 /\ text[i].digits = 4 /\ text[i + 1].digits = 4 /\ text[i + 2].digits = 4
    OBVIOUS
  <2>1. AadhaarShape(run)
    BY <1>1, AadhaarHasShape
  <2>2. i + 2 - 1 = i + 1 /\ i + 3 - 1 = i + 2
    BY <1>2
  <2>3. (j - i + 1 >= 2 => run[2] = text[i + 1]) /\ (j - i + 1 >= 3 => run[3] = text[i + 2])
    BY <1>1, <1>2, <2>2
  <2>4. \A k \in i..j : text[k].kind = "group"
    BY <1>3, <2>1 DEF AadhaarShape
  <2>. HIDE DEF run
  <2>5. j - i + 1 = 1 => j = i
    BY <1>2
  <2>6. j - i + 1 = 2 => j = i + 1
    BY <1>2
  <2>7. j - i + 1 = 3 => j = i + 2
    BY <1>2
  <2>. QED  BY <1>1, <2>1, <2>3, <2>4, <2>5, <2>6, <2>7 DEF AadhaarShape
<1>9. Is("OTP", i, j) =>
         Apart(i, j) /\ i = j /\ BehindKeyword(i) /\ text[i].kind = "group" /\ text[i].digits \in 4..8
  BY <1>1 DEF Is
<1>10. BehindKeyword(i) =>
          /\ Start("OTP", i) \in 1..i
          /\ \/ Start("OTP", i) = i - 1
             \/ Start("OTP", i) = i - 2 /\ IsShort(text[i - 1]) /\ text[i - 1].kind # "keyword"
          /\ text[Start("OTP", i)].kind = "keyword"
  <2>1. CASE i > 1 /\ text[i - 1].kind = "keyword"
    BY <1>2, <2>1 DEF Start
  <2>2. CASE i > 2 /\ IsShort(text[i - 1]) /\ text[i - 2].kind = "keyword" /\ text[i - 1].kind # "keyword"
    BY <1>2, <2>2 DEF Start
  <2>. QED  BY <1>2, <2>1, <2>2 DEF BehindKeyword
<1>11. Is("PHONE", i, j) =>
          /\ Apart(i, j) /\ i = j /\ ~BehindKeyword(i)
          /\ text[i].kind = "group" /\ text[i].digits = 10 /\ text[i].high
  BY <1>1 DEF Is, LooksLikePhone
<1>12. Is("PAN", i, j) => i = j /\ ~BehindKeyword(i) /\ text[i].kind = "pan"
  BY <1>1 DEF Is
<1>. QED  BY <1>4, <1>5, <1>6, <1>7, <1>8, <1>9, <1>10, <1>11, <1>12

KindNames == {"EMAIL", "CARD", "AADHAAR", "OTP", "PHONE", "PAN"}

\* What is of a kind, and is next, fits the pattern of the kind.
LEMMA ItFits ==
    ASSUME RedactionType, NEW kind \in KindNames,
           NEW i \in 1..Len(given.text), NEW j \in 1..Len(given.text), i <= j, Is(kind, i, j),
           NEW p \in Int, Intact(kind, i, j, Now, p), Len(done) + 1 = p + Start(kind, i)
    PROVE  /\ j - Start(kind, i) + 1 \in Lengths(kind)
           /\ kind # "OTP" => SubSeq(rest, 1, j - i + 1) = SubSeq(given.text, i, j)
<1>. DEFINE text == given.text
            s == Start(kind, i)
            L == j - s + 1
            run == SubSeq(rest, 1, L)
<1>1. /\ text \in Seq(AnyToken) /\ Len(text) \in Nat
      /\ rest \in Seq(AnyToken) /\ Len(rest) \in Nat /\ Len(done) \in Nat
      /\ Len(Now) = Len(done) + Len(rest)
      /\ \A x \in 1..Len(rest) : Now[Len(done) + x] = rest[x]
  BY RawTokens, NowIs DEF RedactionType
<1>2. s \in 1..i /\ s \in Int /\ (kind # "OTP" => s = i)
  <2>1. CASE kind = "OTP"
    BY <1>1, <2>1, WhatIs
  <2>2. CASE kind # "OTP"
    BY <1>1, <2>2 DEF Start
  <2>. QED  BY <2>1, <2>2
<1>3. /\ p + j <= Len(Now)
      /\ \A k \in s..j : Now[p + k] = text[k]
      /\ Len(done) + 1 = p + s
  BY DEF Intact
<1>. HIDE DEF s
<1>4. L \in 1..Len(rest)
  BY <1>1, <1>2, <1>3 DEF s
<1>5. \A x \in 1..L : rest[x] = text[s + x - 1]
  <2>. SUFFICES ASSUME NEW x \in 1..L  PROVE  rest[x] = text[s + x - 1]
    OBVIOUS
  <2>1. x \in 1..Len(rest) /\ s + x - 1 \in s..j
    BY <1>1, <1>2, <1>4, SMTT(60)
  <2>2. p + (s + x - 1) = Len(done) + x
    <3>1. Len(done) + 1 = p + s /\ Len(done) \in Int /\ s \in Int /\ x \in Int
      BY <1>1, <1>2, <1>3
    <3>. QED  BY <3>1
  <2>. QED  BY <1>1, <1>3, <2>1, <2>2
<1>6. /\ run \in Seq(AnyToken) /\ Len(run) = L /\ DOMAIN run = 1..L
      /\ \A x \in 1..L : run[x] = text[s + x - 1]
  <2>1. \A x \in 1..L : rest[x] \in AnyToken
    BY <1>1, <1>4, ElementOfSeq
  <2>. HIDE DEF L
  <2>2. L \in Int /\ 1 <= L /\ L - 1 + 1 = L /\ \A x \in 1..L : 1 + x - 1 = x
    BY <1>1, <1>4
  <2>3. /\ run \in Seq(AnyToken) /\ Len(run) = IF 1 <= L THEN L - 1 + 1 ELSE 0
        /\ \A x \in 1..(L - 1 + 1) : run[x] = rest[1 + x - 1]
    BY <2>1, <2>2, SubSeqProperties
  <2>. QED  BY <1>5, <2>2, <2>3, LenProperties
<1>7. kind # "OTP" => run = SubSeq(text, i, j)
  <2>. SUFFICES ASSUME kind # "OTP"  PROVE run = SubSeq(text, i, j)
    OBVIOUS
  <2>1. s = i /\ L = j - i + 1
    BY <1>2
  <2>2. /\ SubSeq(text, i, j) \in Seq(AnyToken)
        /\ Len(SubSeq(text, i, j)) = j - i + 1
        /\ \A x \in 1..(j - i + 1) : SubSeq(text, i, j)[x] = text[i + x - 1]
    BY RunOfText
  <2>. HIDE DEF run, L
  <2>3. Len(run) = Len(SubSeq(text, i, j)) /\ \A x \in 1..Len(run) : run[x] = SubSeq(text, i, j)[x]
    BY <1>6, <2>1, <2>2
  <2>. QED  BY <1>6, <2>2, <2>3, SeqEqual
<1>. HIDE DEF run
<1>8. Fits(kind, run)
  <2>. HIDE DEF L
  <2>1. 1 \in 1..L /\ L \in 1..L /\ run[1] = text[s] /\ run[L] = text[j]
    <3>1. 1 \in 1..L /\ L \in 1..L /\ s + 1 - 1 = s /\ s + L - 1 = j
      BY <1>1, <1>2, <1>4 DEF L
    <3>. QED  BY <1>6, <3>1
  <2>2. CASE kind \in {"EMAIL", "PHONE", "PAN"}
    <3>1. i = j /\ s = i
      BY <1>2, <2>2, WhatIs
    <3>2. L = 1
      BY <3>1 DEF L
    <3>3. /\ kind = "EMAIL" => text[i].kind = "email"
          /\ kind = "PHONE" => text[i].kind = "group" /\ text[i].digits = 10 /\ text[i].high
          /\ kind = "PAN" => text[i].kind = "pan"
      BY WhatIs
    <3>. QED  BY <1>6, <2>1, <2>2, <3>1, <3>2, <3>3 DEF Fits, LooksLikePhone
  <2>3. CASE kind = "CARD"
    <3>1. LooksLikeCard(SubSeq(text, i, j))
      BY <2>3, WhatIs
    <3>. QED  BY <1>7, <2>3, <3>1 DEF Fits
  <2>4. CASE kind = "AADHAAR"
    <3>1. LooksLikeAadhaar(SubSeq(text, i, j))
      BY <2>4, WhatIs
    <3>. QED  BY <1>7, <2>4, <3>1 DEF Fits
  <2>5. CASE kind = "OTP"
    <3>1. /\ i = j /\ text[i].kind = "group" /\ text[i].digits \in 4..8
          /\ \/ s = i - 1
             \/ s = i - 2 /\ IsShort(text[i - 1])
          /\ text[s].kind = "keyword"
      BY <2>5, WhatIs DEF s
    <3>2. L = 2 \/ (L = 3 /\ s = i - 2)
      BY <1>1, <3>1 DEF L
    <3>3. L = 3 => run[2] = text[i - 1]
      <4>1. L = 3 => 2 \in 1..L /\ s + 2 - 1 = i - 1
        BY <1>1, <3>1, <3>2
      <4>. QED  BY <1>6, <4>1
    <3>4. L = 3 => IsShort(run[2])
      BY <3>1, <3>2, <3>3, <1>1
    <3>5. HasCode(run)
      BY <1>6, <2>1, <3>1, <3>2, <3>4 DEF HasCode
    <3>. QED  BY <2>5, <3>5 DEF Fits
  <2>. QED  BY <2>2, <2>3, <2>4, <2>5 DEF KindNames
<1>9. L \in Lengths(kind)
  BY <1>4, <1>8 DEF Lengths, run
<1>10. kind # "OTP" => L = j - i + 1
  BY <1>2
<1>. QED  BY <1>7, <1>9, <1>10 DEF run, s

\* What a match is, where it stands.
LEMMA WhatMatches ==
    ASSUME RedactionType, NEW pattern, Lengths(pattern) # {}
    PROVE  LET d == Len(done)
               n == Len(Matched(pattern))
           IN /\ d \in Nat /\ n \in Nat \ {0} /\ d + n <= Len(Now) /\ Len(Now) \in Nat
              /\ pattern = "EMAIL" => n = 1 /\ Now[d + 1].kind = "email"
              /\ pattern = "CARD" => \A x \in (d + 1)..(d + n) : Now[x].kind = "group"
              /\ pattern = "AADHAAR" =>
                    /\ \A x \in (d + 1)..(d + n) : Now[x].kind = "group"
                    /\ n = 1 => Now[d + 1].digits = 12
              /\ pattern = "OTP" =>
                    /\ n \in {2, 3} /\ Now[d + 1].kind = "keyword"
                    /\ \/ Now[d + n].kind = "group" /\ Now[d + n].digits >= 4
                       \/ Now[d + n].kind = "pan" /\ n = 2
                    /\ n = 3 => IsShort(Now[d + 2])
              /\ pattern = "PHONE" => n = 1 /\ Now[d + 1].kind = "group" /\ Now[d + 1].digits = 10
              /\ pattern = "PAN" => n = 1 /\ Now[d + 1].kind = "pan"
<1>. DEFINE d == Len(done)
            run == Matched(pattern)
            n == Len(run)
<1>1. /\ n \in 1..Len(rest) /\ run \in Seq(AnyToken) /\ Fits(pattern, run)
      /\ \A x \in 1..n : run[x] = Now[d + x]
  BY TheMatch
<1>2. d \in Nat /\ Len(rest) \in Nat /\ Len(Now) = d + Len(rest)
  BY NowIs
<1>. HIDE DEF d, run
<1>3. n \in Nat \ {0} /\ 1 \in 1..n /\ n \in 1..n /\ d + n <= Len(Now) /\ Len(Now) \in Nat
  BY <1>1, <1>2
<1>. HIDE DEF n
<1>4. (\A x \in 1..n : run[x].kind = "group") => \A x \in (d + 1)..(d + n) : Now[x].kind = "group"
  <2>. SUFFICES ASSUME \A x \in 1..n : run[x].kind = "group", NEW x \in (d + 1)..(d + n)
                PROVE  Now[x].kind = "group"
    OBVIOUS
  <2>1. x - d \in 1..n /\ d + (x - d) = x
    BY <1>2, <1>3
  <2>. QED  BY <1>1, <2>1
<1>5. /\ pattern = "EMAIL" => n = 1 /\ run[1].kind = "email"
      /\ pattern = "CARD" => \A x \in 1..n : run[x].kind = "group"
      /\ pattern = "AADHAAR" => AadhaarShape(run)
      /\ pattern = "OTP" =>
            /\ n \in {2, 3} /\ run[1].kind = "keyword"
            /\ \/ run[n].kind = "group" /\ run[n].digits >= 4
               \/ run[n].kind = "pan" /\ n = 2
            /\ n = 3 => IsShort(run[2])
      /\ pattern = "PHONE" => n = 1 /\ run[1].kind = "group" /\ run[1].digits = 10
      /\ pattern = "PAN" => n = 1 /\ run[1].kind = "pan"
  BY <1>1, <1>3, WhatFits DEF n
<1>6. run[1] = Now[d + 1] /\ run[n] = Now[d + n] /\ (n = 3 => run[2] = Now[d + 2])
  <2>1. n = 3 => 2 \in 1..n
    OBVIOUS
  <2>. QED  BY <1>1, <1>3, <2>1
<1>7. pattern = "AADHAAR" =>
         (\A x \in (d + 1)..(d + n) : Now[x].kind = "group") /\ (n = 1 => Now[d + 1].digits = 12)
  BY <1>4, <1>5, <1>6 DEF AadhaarShape, n
<1>8. pattern = "OTP" =>
            /\ n \in {2, 3} /\ Now[d + 1].kind = "keyword"
            /\ \/ Now[d + n].kind = "group" /\ Now[d + n].digits >= 4
               \/ Now[d + n].kind = "pan" /\ n = 2
            /\ n = 3 => IsShort(Now[d + 2])
  BY <1>5, <1>6
<1>. QED  BY <1>2, <1>3, <1>4, <1>5, <1>6, <1>7, <1>8 DEF n, run, d

\* What stands of a kind is next to no other digits and, unless a code, behind no
\* keyword: seen from where it is now.
LEMMA WhatStands ==
    ASSUME RedactionType, NEW kind \in KindNames,
           NEW i \in 1..Len(given.text), NEW j \in 1..Len(given.text), i <= j, Is(kind, i, j),
           NEW p \in Int, Intact(kind, i, j, Now, p)
    PROVE  LET s == Start(kind, i)
               text == given.text
           IN /\ s \in 1..i /\ i \in Nat /\ j \in Nat /\ (kind # "OTP" => s = i)
              /\ 1 <= p + s /\ p + j <= Len(Now)
              /\ \A y \in (p + s)..(p + j) : Now[y] = text[y - p]
              /\ kind \in {"CARD", "AADHAAR", "OTP", "PHONE"} =>
                    \A y \in (p + i)..(p + j) : Now[y].kind = "group"
              /\ kind \in {"OTP", "PHONE"} => i = j
              /\ kind = "EMAIL" => i = j /\ Now[p + i].kind = "email"
              /\ kind = "PAN" => i = j /\ Now[p + i].kind = "pan"
              /\ kind = "OTP" =>
                    /\ Now[p + s].kind = "keyword" /\ Now[p + i].digits \in 4..8
                    /\ s = i - 1 \/ (s = i - 2 /\ IsShort(Now[p + i - 1]) /\ Now[p + i - 1].kind # "keyword")
              /\ kind = "PHONE" => Now[p + i].digits = 10
<1>. DEFINE s == Start(kind, i)
            text == given.text
<1>1. s \in 1..i /\ i \in Nat /\ j \in Nat /\ (kind # "OTP" => s = i)
  <2>1. CASE kind = "OTP"
    BY <2>1, WhatIs, RawTokens
  <2>2. CASE kind # "OTP"
    BY <2>2, RawTokens DEF Start
  <2>. QED  BY <2>1, <2>2
<1>2. 1 <= p + s /\ p + j <= Len(Now) /\ \A k \in s..j : Now[p + k] = text[k]
  BY DEF Intact
<1>. HIDE DEF s
<1>3. \A y \in (p + s)..(p + j) : Now[y] = text[y - p]
  <2>. SUFFICES ASSUME NEW y \in (p + s)..(p + j)  PROVE  Now[y] = text[y - p]
    OBVIOUS
  <2>1. y - p \in s..j /\ p + (y - p) = y
    BY <1>1
  <2>. QED  BY <1>2, <2>1
<1>4. kind \in {"CARD", "AADHAAR", "OTP", "PHONE"} => \A y \in (p + i)..(p + j) : Now[y].kind = "group"
  <2>. SUFFICES ASSUME kind \in {"CARD", "AADHAAR", "OTP", "PHONE"}, NEW y \in (p + i)..(p + j)
                PROVE  Now[y].kind = "group"
    OBVIOUS
  <2>1. \A k \in i..j : text[k].kind = "group"
    <3>1. kind \in {"OTP", "PHONE"} => i = j /\ text[i].kind = "group"
      BY WhatIs
    <3>2. kind \in {"CARD", "AADHAAR"} => \A k \in i..j : text[k].kind = "group"
      BY WhatIs
    <3>3. i = j => \A k \in i..j : k = i
      BY <1>1
    <3>. QED  BY <3>1, <3>2, <3>3
  <2>2. y - p \in i..j /\ y \in (p + s)..(p + j)
    BY <1>1
  <2>. QED  BY <1>3, <2>1, <2>2
<1>5. i \in s..j /\ Now[p + i] = text[i] /\ Now[p + s] = text[s]
  BY <1>1, <1>2
<1>6. kind = "OTP" =>
         /\ i = j /\ text[s].kind = "keyword" /\ text[i].digits \in 4..8
         /\ s = i - 1 \/ (s = i - 2 /\ IsShort(text[i - 1]) /\ text[i - 1].kind # "keyword")
  <2>. SUFFICES ASSUME kind = "OTP"
                PROVE  /\ i = j /\ text[s].kind = "keyword" /\ text[i].digits \in 4..8
                       /\ s = i - 1 \/ (s = i - 2 /\ IsShort(text[i - 1]) /\ text[i - 1].kind # "keyword")
    OBVIOUS
  <2>1. s = Start("OTP", i) /\ Is("OTP", i, j)
    BY DEF s
  <2>. QED  BY <2>1, WhatIs
<1>7. kind = "OTP" /\ s = i - 2 => Now[p + i - 1] = text[i - 1]
  <2>. SUFFICES ASSUME kind = "OTP", s = i - 2  PROVE  Now[p + i - 1] = text[i - 1]
    OBVIOUS
  <2>1. i - 1 \in s..j /\ p + (i - 1) = p + i - 1
    BY <1>1
  <2>. QED  BY <1>2, <2>1
<1>8. /\ kind = "PHONE" => i = j /\ text[i].digits = 10
      /\ kind = "EMAIL" => i = j /\ text[i].kind = "email"
      /\ kind = "PAN" => i = j /\ text[i].kind = "pan"
  BY WhatIs
<1>9. kind = "OTP" =>
         /\ Now[p + s].kind = "keyword" /\ Now[p + i].digits \in 4..8
         /\ s = i - 1 \/ (s = i - 2 /\ IsShort(Now[p + i - 1]) /\ Now[p + i - 1].kind # "keyword")
  <2>. SUFFICES ASSUME kind = "OTP"
                PROVE  /\ Now[p + s].kind = "keyword" /\ Now[p + i].digits \in 4..8
                       /\ s = i - 1 \/ (s = i - 2 /\ IsShort(Now[p + i - 1]) /\ Now[p + i - 1].kind # "keyword")
    OBVIOUS
  <2>1. CASE s = i - 1
    BY <1>5, <1>6, <2>1
  <2>2. CASE s = i - 2 /\ IsShort(text[i - 1]) /\ text[i - 1].kind # "keyword"
    BY <1>5, <1>6, <1>7, <2>2
  <2>. QED  BY <1>6, <2>1, <2>2
<1>. QED  BY <1>1, <1>2, <1>3, <1>4, <1>5, <1>6, <1>8, <1>9 DEF s


\* It takes all of it, and nothing else.
Takes(a, c, i, j, p) ==
    /\ a = c
    /\ Len(done) + Len(Matched(Order[a])) = p + j
    /\ c # 4 => Len(done) + 1 = p + i

\* A match that takes something of what stands is for it, and takes all of it.
LEMMA TakesAllOrNothing ==
    ASSUME RedactionType, NEW a \in 1..6, NEW c \in 1..6, a <= c, Lengths(Order[a]) # {},
           NEW i \in 1..Len(given.text), NEW j \in 1..Len(given.text), i <= j, Is(Order[c], i, j),
           NEW p \in Int, Intact(Order[c], i, j, Now, p),
           a = c => Len(done) < p + Start(Order[c], i),
           p + Start(Order[c], i) <= Len(done) + Len(Matched(Order[a])), Len(done) + 1 <= p + j
    PROVE  Takes(a, c, i, j, p)
<1>0. SUFFICES /\ a = c
               /\ Len(done) + Len(Matched(Order[a])) = p + j
               /\ c # 4 => Len(done) + 1 = p + i
  BY DEF Takes
<1>. DEFINE d == Len(done)
            n == Len(Matched(Order[a]))
            s == Start(Order[c], i)
<1>1. \A k \in 1..6 : Order[k] \in KindNames
  BY OrderOfKinds DEF KindNames
<1>2. /\ d \in Nat /\ n \in Nat \ {0} /\ d + n <= Len(Now) /\ Len(Now) \in Nat
      /\ a = 1 => n = 1 /\ Now[d + 1].kind = "email"
      /\ a \in {2, 3} => \A x \in (d + 1)..(d + n) : Now[x].kind = "group"
      /\ a = 3 /\ n = 1 => Now[d + 1].digits = 12
      /\ a = 4 =>
            /\ n \in {2, 3} /\ Now[d + 1].kind = "keyword"
            /\ \/ Now[d + n].kind = "group" /\ Now[d + n].digits >= 4
               \/ Now[d + n].kind = "pan" /\ n = 2
            /\ n = 3 => IsShort(Now[d + 2])
      /\ a = 5 => n = 1 /\ Now[d + 1].kind = "group" /\ Now[d + 1].digits = 10
      /\ a = 6 => n = 1 /\ Now[d + 1].kind = "pan"
  BY OrderOfKinds, WhatMatches
<1>3. /\ s \in 1..i /\ i \in Nat /\ j \in Nat /\ (c # 4 => s = i)
      /\ 1 <= p + s /\ p + j <= Len(Now)
      /\ c \in {2, 3, 4, 5} => \A y \in (p + i)..(p + j) : Now[y].kind = "group"
      /\ c \in {4, 5} => i = j
      /\ c = 1 => i = j /\ Now[p + i].kind = "email"
      /\ c = 6 => i = j /\ Now[p + i].kind = "pan"
      /\ c = 4 =>
            /\ Now[p + s].kind = "keyword" /\ Now[p + i].digits \in 4..8
            /\ s = i - 1 \/ (s = i - 2 /\ IsShort(Now[p + i - 1]) /\ Now[p + i - 1].kind # "keyword")
      /\ c = 5 => Now[p + i].digits = 10
  <2>1. (Order[c] = "EMAIL" <=> c = 1) /\ (Order[c] = "CARD" <=> c = 2) /\ (Order[c] = "AADHAAR" <=> c = 3)
        /\ (Order[c] = "OTP" <=> c = 4) /\ (Order[c] = "PHONE" <=> c = 5) /\ (Order[c] = "PAN" <=> c = 6)
    BY OrderOfKinds
  <2>2. Order[c] \in KindNames
    BY <1>1
  <2>. DEFINE kind == Order[c]
  <2>3. /\ s \in 1..i /\ i \in Nat /\ j \in Nat /\ (kind # "OTP" => s = i)
        /\ 1 <= p + s /\ p + j <= Len(Now)
        /\ kind \in {"CARD", "AADHAAR", "OTP", "PHONE"} =>
              \A y \in (p + i)..(p + j) : Now[y].kind = "group"
        /\ kind \in {"OTP", "PHONE"} => i = j
        /\ kind = "EMAIL" => i = j /\ Now[p + i].kind = "email"
        /\ kind = "PAN" => i = j /\ Now[p + i].kind = "pan"
        /\ kind = "OTP" =>
              /\ Now[p + s].kind = "keyword" /\ Now[p + i].digits \in 4..8
              /\ s = i - 1 \/ (s = i - 2 /\ IsShort(Now[p + i - 1]) /\ Now[p + i - 1].kind # "keyword")
        /\ kind = "PHONE" => Now[p + i].digits = 10
    BY <2>2, WhatStands, SMTT(60)
  <2>. HIDE DEF s, kind
  <2>4. (kind = "EMAIL" <=> c = 1) /\ (kind = "CARD" <=> c = 2) /\ (kind = "AADHAAR" <=> c = 3)
        /\ (kind = "OTP" <=> c = 4) /\ (kind = "PHONE" <=> c = 5) /\ (kind = "PAN" <=> c = 6)
    BY <2>1 DEF kind
  <2>. QED  BY <2>3, <2>4
<1>4. a = c => d < p + s
  OBVIOUS
<1>5. p + s <= d + n /\ d + 1 <= p + j
  OBVIOUS
<1>6. a = c /\ d + 1 = p + s => n >= j - s + 1
  <2>. SUFFICES ASSUME a = c, d + 1 = p + s  PROVE  n >= j - s + 1
    OBVIOUS
  <2>1. j - s + 1 \in Lengths(Order[a])
    BY <1>1, ItFits
  <2>2. \A k \in Lengths(Order[a]) : k <= n
    BY TheMatch
  <2>3. j - s + 1 <= n
    BY <2>1, <2>2
  <2>. HIDE DEF n, s
  <2>. QED  BY <1>2, <1>3, <2>3
<1>7. c \in {2, 3, 4, 5} =>
         /\ p + i > 1 => Now[p + i - 1].kind # "group"
         /\ p + j < Len(Now) => Now[p + j + 1].kind # "group"
  BY OrderOfKinds DEF Intact
<1>8. /\ c \in {5, 6} /\ p + i > 1 => Now[p + i - 1].kind # "keyword"
      /\ c = 5 /\ p + i > 2 /\ IsShort(Now[p + i - 1]) => Now[p + i - 2].kind # "keyword"
  BY OrderOfKinds DEF Intact
\* What is in it, at y.
<1>9. ASSUME NEW y \in (p + s)..(p + j)
      PROVE  /\ c = 1 => y = p + i /\ Now[y].kind = "email"
             /\ c \in {2, 3, 5} => y >= p + i /\ Now[y].kind = "group"
             /\ c = 4 => \/ y = p + i /\ Now[y].kind = "group"
                         \/ y < p + i /\ Now[y].kind \in {"word", "keyword", "CARD"}
             /\ c = 6 => y = p + i /\ Now[y].kind = "pan"
  <2>. HIDE DEF s
  <2>1. CASE c # 4
    <3>1. s = i /\ y \in (p + i)..(p + j)
      BY <1>3, <2>1
    <3>2. c \in {1, 6} => y = p + i
      BY <1>3, <3>1
    <3>. QED  BY <1>3, <2>1, <3>1, <3>2
  <2>2. CASE c = 4 /\ s = i - 1
    BY <1>3, <2>2
  <2>3. CASE c = 4 /\ s = i - 2
    <3>1. i = j /\ i \in Int /\ s = i - 2
      BY <1>3, <2>3
    <3>2. y = p + s \/ y = p + i - 1 \/ y = p + i
      BY <3>1
    <3>3. Now[p + s].kind = "keyword" /\ Now[p + i - 1].kind \in {"word", "keyword", "CARD"}
      BY <1>3, <2>3 DEF IsShort
    <3>4. Now[p + i].kind = "group"
      <4>1. p + i \in (p + i)..(p + j)
        BY <3>1
      <4>. QED  BY <1>3, <2>3, <4>1
    <3>. QED  BY <2>3, <3>1, <3>2, <3>3, <3>4, SMTT(60)
  <2>4. c = 4 => s = i - 1 \/ s = i - 2
    BY <1>3
  <2>. QED  BY <2>1, <2>2, <2>3, <2>4
\* Of digits only, it is in one piece.
<1>10. ASSUME a \in {2, 3}
       PROVE  c \in {2, 3, 4, 5} /\ p + i <= d + 1 /\ d + n <= p + j
  <2>. HIDE DEF s, d, n
  <2>1. PICK y \in (p + s)..(p + j) : y \in (d + 1)..(d + n)
    <3>1. CASE d + 1 <= p + s
      <4>1. p + s \in (p + s)..(p + j) /\ p + s \in (d + 1)..(d + n)
        BY <1>2, <1>3, <1>5, <3>1, SMTT(60)
      <4>. QED  BY <4>1
    <3>2. CASE p + s < d + 1
      <4>1. d + 1 \in (p + s)..(p + j) /\ d + 1 \in (d + 1)..(d + n)
        BY <1>2, <1>3, <1>5, <3>2
      <4>. QED  BY <4>1
    <3>. QED  BY <1>2, <1>3, <3>1, <3>2
  <2>2. Now[y].kind = "group"
    BY <1>2, <1>10, <2>1
  <2>3. c \in {2, 3, 4, 5} /\ y >= p + i
    <3>1. /\ c = 1 => Now[y].kind = "email"
          /\ c \in {2, 3, 5} => y >= p + i
          /\ c = 4 => \/ y = p + i
                      \/ Now[y].kind \in {"word", "keyword", "CARD"}
          /\ c = 6 => Now[y].kind = "pan"
      BY <1>9, <2>1
    <3>2. y = p + i => y >= p + i
      BY <1>3
    <3>. QED  BY <2>2, <3>1, <3>2
  <2>4. p + i <= d + 1
    <3>. SUFFICES ASSUME d + 1 < p + i  PROVE FALSE
      BY <1>2, <1>3
    <3>1. p + i - 1 \in (d + 1)..(d + n) /\ p + i > 1
      BY <1>2, <1>3, <2>1, <2>3
    <3>. QED  BY <1>2, <1>7, <1>10, <2>3, <3>1
  <2>5. d + n <= p + j
    <3>. SUFFICES ASSUME p + j < d + n  PROVE FALSE
      BY <1>2, <1>3
    <3>1. p + j + 1 \in (d + 1)..(d + n) /\ p + j < Len(Now)
      BY <1>2, <1>3, <1>5
    <3>. QED  BY <1>2, <1>7, <1>10, <2>3, <3>1
  <2>. QED  BY <2>3, <2>4, <2>5
<1>11. CASE a = 1
  <2>. HIDE DEF s, d, n
  <2>1. d + 1 \in (p + s)..(p + j) /\ n = 1
    BY <1>2, <1>3, <1>5, <1>11
  <2>2. c = 1
    BY <1>2, <1>9, <1>11, <2>1, SMTT(60)
  <2>. QED  BY <1>2, <1>3, <1>9, <1>11, <2>1, <2>2 DEF d, n
<1>12. CASE a = c /\ a \in {2, 3}
  <2>. HIDE DEF s, d, n
  <2>1. d + 1 = p + i /\ s = i
    BY <1>2, <1>3, <1>4, <1>10, <1>12, SMTT(60)
  <2>2. d + n = p + j
    BY <1>2, <1>3, <1>6, <1>10, <1>12, <2>1
  <2>. QED  BY <1>12, <2>1, <2>2 DEF d, n
<1>13. CASE a \in {2, 3} /\ c \in {4, 5}
  <2>. HIDE DEF s, d, n
  <2>1. n = 1 /\ d + 1 = p + i
    BY <1>2, <1>3, <1>10, <1>13
  <2>2. Now[d + 1].digits \in 4..10
    <3>1. CASE c = 4
      BY <1>3, <2>1, <3>1
    <3>2. CASE c = 5
      BY <1>3, <2>1, <3>2
    <3>. QED  BY <1>13, <3>1, <3>2
  <2>3. a = 2
    <3>1. a = 3 => Now[d + 1].digits = 12
      BY <1>2, <2>1
    <3>. QED  BY <1>13, <2>2, <3>1, SMTT(60)
  <2>4. /\ Matched("CARD") \in Seq(AnyToken) /\ Len(Matched("CARD")) = 1
        /\ Matched("CARD")[1] = Now[d + 1] /\ LooksLikeCard(Matched("CARD"))
    <3>1. Order[a] = "CARD" /\ Lengths("CARD") # {}
      BY <2>3, OrderOfKinds
    <3>2. Len(Matched("CARD")) = 1 /\ 1 \in 1..1
      BY <2>1, <3>1 DEF n
    <3>. QED  BY <3>1, <3>2, TheMatch DEF Fits, d
  <2>5. Matched("CARD")[1].digits <= 12
    <3>1. Matched("CARD")[1].digits \in 4..10
      BY <2>2, <2>4, Zenon
    <3>2. \A k \in 4..10 : k <= 12
      OBVIOUS
    <3>. QED  BY <3>1, <3>2, Zenon
  <2>. QED  BY <2>4, <2>5, TooFewDigits
<1>14. CASE a = 2 /\ c = 3
  <2>. DEFINE run == Matched("CARD")
              u == given.text
  <2>1. Order[a] = "CARD" /\ Order[c] = "AADHAAR" /\ s = i
    BY <1>3, <1>14, OrderOfKinds
  <2>2. /\ run \in Seq(AnyToken) /\ Len(run) = n /\ LooksLikeCard(run)
        /\ \A x \in 1..n : run[x] = Now[d + x]
    BY <2>1, TheMatch DEF Fits
  <2>3. \/ j = i /\ u[i].digits = 12
        \/ j = i + 1 /\ u[i].digits = 4 /\ u[i + 1].digits = 8
        \/ j = i + 1 /\ u[i].digits = 8 /\ u[i + 1].digits = 4
        \/ j = i + 2 /\ u[i].digits = 4 /\ u[i + 1].digits = 4 /\ u[i + 2].digits = 4
    <3>1. Is("AADHAAR", i, j)
      BY <2>1
    <3>. QED  BY <3>1, WhatIs
  <2>4. \A k \in i..j : Now[p + k] = u[k]
    BY <2>1 DEF Intact
  <2>5. p + i <= d + 1 /\ d + n <= p + j
    BY <1>10, <1>14
  <2>. HIDE DEF run, u, s, d, n
  \* The match begins m places behind it.
  <2>. DEFINE m == d + 1 - (p + i)
  <2>6. m \in Nat /\ d = p + i + m - 1 /\ i + m + n - 1 <= j
    BY <1>2, <1>3, <2>5
  <2>. HIDE DEF m
  <2>7. \A x \in 1..n : run[x] = u[i + m + x - 1]
    <3>. SUFFICES ASSUME NEW x \in 1..n  PROVE  run[x] = u[i + m + x - 1]
      OBVIOUS
    <3>1. i + m + x - 1 \in i..j /\ p + (i + m + x - 1) = d + x
      BY <1>2, <1>3, <2>6
    <3>. QED  BY <2>2, <2>4, <3>1
  <2>8. \/ n = 1 /\ m \in {0, 1, 2} /\ (m = 0 \/ (m = 1 /\ j >= i + 1) \/ (m = 2 /\ j = i + 2))
        \/ n = 2 /\ (m = 0 \/ (m = 1 /\ j = i + 2)) /\ j >= i + 1
        \/ n = 3 /\ m = 0 /\ j = i + 2
    BY <1>2, <1>3, <2>3, <2>6
  <2>9. CASE n = 1
    <3>1. run[1] = u[i + m]
      <4>1. 1 \in 1..n /\ i + m + 1 - 1 = i + m
        BY <1>3, <2>6, <2>9
      <4>. QED  BY <2>7, <4>1
    <3>2. run[1].digits \in {4, 8, 12}
      BY <1>3, <2>3, <2>8, <2>9, <3>1, SMTT(60)
    <3>. QED  BY <2>2, <2>9, <3>2, TooFewDigits
  <2>10. CASE n = 2
    <3>1. run[1] = u[i + m] /\ run[2] = u[i + m + 1]
      <4>1. 1 \in 1..n /\ 2 \in 1..n /\ i + m + 1 - 1 = i + m /\ i + m + 2 - 1 = i + m + 1
        BY <1>3, <2>6, <2>10
      <4>. QED  BY <2>7, <4>1
    <3>2. run[1].digits + run[2].digits <= 12
      <4>1. CASE m = 0
        <5>1. i + m = i /\ i + m + 1 = i + 1
          BY <1>3, <4>1
        <5>2. run[1] = u[i] /\ run[2] = u[i + 1] /\ j >= i + 1
          BY <2>8, <2>10, <3>1, <5>1
        <5>3. j # i
          BY <1>3, <5>2
        <5>4. \/ run[1].digits = 4 /\ run[2].digits = 8
              \/ run[1].digits = 8 /\ run[2].digits = 4
              \/ run[1].digits = 4 /\ run[2].digits = 4
          BY <2>3, <5>2, <5>3, Zenon
        <5>. QED  BY <5>4
      <4>2. CASE m = 1 /\ j = i + 2
        <5>1. i + m = i + 1 /\ i + m + 1 = i + 2
          BY <1>3, <4>2
        <5>2. run[1] = u[i + 1] /\ run[2] = u[i + 2]
          BY <3>1, <5>1
        <5>. QED  BY <1>3, <2>3, <4>2, <5>2
      <4>3. m = 0 \/ (m = 1 /\ j = i + 2)
        BY <2>8, <2>10
      <4>. QED  BY <4>1, <4>2, <4>3, Zenon
    <3>. QED  BY <2>2, <2>10, <3>2, TooFewDigits
  <2>11. CASE n = 3
    <3>1. run[1] = u[i] /\ run[2] = u[i + 1] /\ run[3] = u[i + 2]
      <4>1. 1 \in 1..n /\ 2 \in 1..n /\ 3 \in 1..n /\ m = 0
            /\ i + 0 + 1 - 1 = i /\ i + 0 + 2 - 1 = i + 1 /\ i + 0 + 3 - 1 = i + 2
        BY <1>3, <2>8, <2>11
      <4>. QED  BY <2>7, <4>1
    <3>2. run[1].digits + run[2].digits + run[3].digits <= 12
      BY <1>3, <2>3, <2>8, <2>11, <3>1, SMTT(60)
    <3>. QED  BY <2>2, <2>11, <3>2, TooFewDigits
  <2>. QED  BY <2>8, <2>9, <2>10, <2>11
<1>15. CASE a = 4
  <2>. HIDE DEF s, d, n
  <2>1. /\ n \in {2, 3} /\ Now[d + 1].kind = "keyword"
        /\ \/ Now[d + n].kind = "group" /\ Now[d + n].digits >= 4
           \/ Now[d + n].kind = "pan" /\ n = 2
        /\ n = 3 => IsShort(Now[d + 2])
    BY <1>2, <1>15
  <2>2. CASE c = 4
    <3>1. /\ i = j /\ d < p + s /\ Now[p + s].kind = "keyword" /\ Now[p + i].kind = "group"
          /\ s = i - 1 \/ (s = i - 2 /\ IsShort(Now[p + i - 1]) /\ Now[p + i - 1].kind # "keyword")
      BY <1>3, <1>4, <1>15, <2>2
    <3>2. CASE d + 1 = p + s
      <4>1. n >= i - s + 1
        BY <1>6, <1>15, <2>2, <3>1, <3>2
      <4>2. CASE s = i - 1
        <5>1. d + 2 = p + i /\ ~IsShort(Now[p + i])
          BY <1>2, <1>3, <3>1, <3>2, <4>2, SMTT(60) DEF IsShort
        <5>2. n = 2
          BY <2>1, <5>1
        <5>. QED  BY <1>2, <1>15, <2>2, <3>1, <5>1, <5>2 DEF d, n
      <4>3. CASE s = i - 2
        <5>1. n = 3 /\ d + 3 = p + i
          BY <1>2, <1>3, <2>1, <3>2, <4>1, <4>3
        <5>. QED  BY <1>15, <2>2, <3>1, <5>1 DEF d, n
      <4>. QED  BY <3>1, <4>2, <4>3
    <3>3. CASE d + 1 # p + s
      <4>1. p + s = d + n \/ (n = 3 /\ p + s = d + 2)
        BY <1>2, <1>3, <1>5, <2>1, <3>1, <3>3
      <4>2. n = 3 /\ p + s = d + 2
        BY <2>1, <3>1, <4>1
      <4>3. d + 3 = p + s + 1 /\ Now[d + 3].kind = "group"
        BY <1>2, <1>3, <2>1, <4>2
      <4>4. s = i - 1
        <5>1. s = i - 2 => d + 3 = p + i - 1
          BY <1>2, <1>3, <4>3
        <5>. QED  BY <3>1, <4>3, <5>1 DEF IsShort
      <4>5. d + n = p + j
        BY <1>2, <1>3, <3>1, <4>2, <4>4
      <4>. QED  BY <1>15, <2>2, <4>5 DEF d, n
    <3>. QED  BY <3>2, <3>3
  <2>3. CASE c \in {5, 6}
    <3>1. s = i /\ i = j
      BY <1>3, <2>3
    <3>2. p + i = d + 1 \/ p + i = d + n \/ (n = 3 /\ p + i = d + 2)
      BY <1>2, <1>3, <1>5, <2>1, <3>1
    <3>3. Now[p + i].kind = IF c = 5 THEN "group" ELSE "pan"
      BY <1>3, <2>3, <3>1
    <3>4. p + i = d + n
      BY <2>1, <2>3, <3>2, <3>3 DEF IsShort
    <3>5. CASE n = 2
      <4>1. p + i - 1 = d + 1 /\ p + i > 1
        BY <1>2, <3>4, <3>5
      <4>. QED  BY <1>8, <2>1, <2>3, <4>1
    <3>6. CASE n = 3
      <4>1. p + i - 1 = d + 2 /\ p + i - 2 = d + 1 /\ p + i > 2
        BY <1>2, <3>4, <3>6
      <4>2. c = 5
        BY <2>1, <2>3, <3>3, <3>4, <3>6
      <4>. QED  BY <1>8, <2>1, <3>6, <4>1, <4>2
    <3>. QED  BY <2>1, <3>5, <3>6
  <2>. QED  BY <1>15, <2>2, <2>3
<1>16. CASE a = 5 \/ a = 6
  <2>. HIDE DEF s, d, n
  <2>1. d + 1 \in (p + s)..(p + j) /\ n = 1
    BY <1>2, <1>3, <1>5, <1>16, SMTT(60)
  <2>2. c = a
    BY <1>2, <1>9, <1>16, <2>1
  <2>. QED  BY <1>2, <1>3, <1>9, <1>16, <2>1, <2>2 DEF d, n
<1>17. a \in {2, 3} => c # 6
  BY <1>10
<1>18. \/ a = 1 \/ (a = c /\ a \in {2, 3}) \/ (a \in {2, 3} /\ c \in {4, 5}) \/ (a = 2 /\ c = 3)
       \/ a = 4 \/ a = 5 \/ a = 6
  BY <1>17
<1>. QED  BY <1>11, <1>12, <1>13, <1>14, <1>15, <1>16, <1>18

-------------------------------------------------------------------------------
(***************************************************************************)
(* Masking: a replacement somewhere else.                                  *)
(***************************************************************************)

\* Where what is around a replacement comes from.
LEMMA Elsewhere ==
    ASSUME NEW v \in Seq(AnyToken), NEW w \in Seq(AnyToken), NEW d, NEW n, NEW m, Rewritten(v, w, d, n, m)
    PROVE  /\ d \in Nat /\ n \in Nat \ {0} /\ m \in Nat \ {0} /\ Len(v) \in Nat /\ Len(w) \in Nat
           /\ d + n <= Len(v) /\ Len(w) = Len(v) - n + m
           /\ \A x \in 1..d : w[x] = v[x]
           /\ \A x \in (d + m + 1)..Len(w) : x + n - m \in (d + n + 1)..Len(v) /\ w[x] = v[x + n - m]
           /\ \A x \in (d + n + 1)..Len(v) : x - n + m \in (d + m + 1)..Len(w) /\ w[x - n + m] = v[x]
<1>1. Len(v) \in Nat /\ Len(w) \in Nat
  BY LenProperties
<1>2. /\ d \in Nat /\ n \in 1..(Len(v) - d) /\ m \in Nat \ {0} /\ Len(w) = Len(v) - n + m
      /\ \A x \in 1..d : w[x] = v[x]
      /\ \A x \in (d + n + 1)..Len(v) : w[x - n + m] = v[x]
  BY DEF Rewritten
<1>3. n \in Nat \ {0} /\ d + n <= Len(v)
  BY <1>1, <1>2
<1>4. \A x \in (d + m + 1)..Len(w) : x + n - m \in (d + n + 1)..Len(v) /\ w[x] = v[x + n - m]
  <2>. SUFFICES ASSUME NEW x \in (d + m + 1)..Len(w)
                PROVE  x + n - m \in (d + n + 1)..Len(v) /\ w[x] = v[x + n - m]
    OBVIOUS
  <2>1. x + n - m \in (d + n + 1)..Len(v) /\ (x + n - m) - n + m = x
    BY <1>1, <1>2, <1>3
  <2>. QED  BY <1>2, <2>1
<1>5. \A x \in (d + n + 1)..Len(v) : x - n + m \in (d + m + 1)..Len(w)
  BY <1>1, <1>2, <1>3
<1>. QED  BY <1>1, <1>2, <1>3, <1>4, <1>5

\* No place from i to j comes from elsewhere.
LEMMA OthersStayOthers ==
    ASSUME NEW v \in Seq(AnyToken), NEW w \in Seq(AnyToken), NEW d, NEW n, NEW m, Rewritten(v, w, d, n, m),
           NEW i \in Nat \ {0}, NEW j \in Nat, NEW from \in Int, NEW to \in Int, NEW shift \in {0, m - n},
           \/ d + n < from /\ shift = m - n
           \/ to < d + 1 /\ shift = 0,
           from <= to,
           \A x \in 1..Len(v) : x < from \/ to < x => v[x].at \notin i..j
    PROVE  \A x \in 1..Len(w) : x < from + shift \/ to + shift < x => w[x].at \notin i..j
<1>. SUFFICES ASSUME NEW x \in 1..Len(w), x < from + shift \/ to + shift < x
              PROVE  w[x].at \notin i..j
  OBVIOUS
<1>1. /\ d \in Nat /\ n \in Nat \ {0} /\ m \in Nat \ {0} /\ Len(v) \in Nat /\ Len(w) \in Nat
      /\ d + n <= Len(v) /\ Len(w) = Len(v) - n + m
      /\ \A y \in 1..d : w[y] = v[y]
      /\ \A y \in (d + m + 1)..Len(w) : y + n - m \in (d + n + 1)..Len(v) /\ w[y] = v[y + n - m]
  BY Elsewhere
<1>2. CASE x <= d
  <2>1. x \in 1..d /\ x \in 1..Len(v) /\ (x < from \/ to < x)
    BY <1>1, <1>2
  <2>. QED  BY <1>1, <2>1
<1>3. CASE x \in (d + 1)..(d + m)
  <2>1. w[x].at = 0 \/ \E y \in (d + 1)..(d + n) : w[x].at = v[y].at
    BY <1>3 DEF Rewritten
  <2>2. \A y \in (d + 1)..(d + n) : y \in 1..Len(v) /\ (y < from \/ to < y)
    BY <1>1
  <2>3. 0 \notin i..j
    OBVIOUS
  <2>. QED  BY <2>1, <2>2, <2>3
<1>4. CASE x > d + m
  <2>. DEFINE y == x + n - m
  <2>1. y \in (d + n + 1)..Len(v) /\ w[x] = v[y]
    <3>1. x \in (d + m + 1)..Len(w)
      BY <1>1, <1>4
    <3>. QED  BY <1>1, <3>1
  <2>2. y \in 1..Len(v) /\ (y < from \/ to < y)
    BY <1>1, <1>4
  <2>. QED  BY <2>1, <2>2
<1>. QED  BY <1>1, <1>2, <1>3, <1>4

\* What is not touched stays as it was.
LEMMA IntactStays ==
    ASSUME RedactionType, NEW kind \in KindNames,
           NEW i \in 1..Len(given.text), NEW j \in 1..Len(given.text), i <= j, Is(kind, i, j),
           NEW p \in Int, Intact(kind, i, j, Now, p),
           NEW w \in Seq(AnyToken), NEW d, NEW n, NEW m, Rewritten(Now, w, d, n, m),
           d + n < p + Start(kind, i) \/ p + j < d + 1
    PROVE  \E q \in Int : /\ Intact(kind, i, j, w, q)
                          /\ d < p + Start(kind, i) => d + m < q + Start(kind, i)
<1>. DEFINE s == Start(kind, i)
            v == Now
            text == given.text
<1>1. v \in Seq(AnyToken)
  BY NowIs
<1>2. /\ d \in Nat /\ n \in Nat \ {0} /\ m \in Nat \ {0} /\ Len(v) \in Nat /\ Len(w) \in Nat
      /\ d + n <= Len(v) /\ Len(w) = Len(v) - n + m
      /\ \A x \in 1..d : w[x] = v[x]
      /\ \A x \in (d + m + 1)..Len(w) : x + n - m \in (d + n + 1)..Len(v) /\ w[x] = v[x + n - m]
      /\ \A x \in (d + n + 1)..Len(v) : x - n + m \in (d + m + 1)..Len(w) /\ w[x - n + m] = v[x]
  BY <1>1, Elsewhere
<1>3. /\ s \in 1..i /\ i \in Nat /\ j \in Nat /\ (kind # "OTP" => s = i)
      /\ 1 <= p + s /\ p + j <= Len(v)
  BY WhatStands
<1>4. kind = "OTP" => /\ i > 1 /\ s <= i - 1
                      /\ s = i - 1 \/ s = i - 2
  BY <1>3, WhatStands
<1>5. /\ \A k \in s..j : v[p + k] = text[k]
      /\ \A x \in 1..Len(v) : x < p + i \/ p + j < x => v[x].at \notin i..j
      /\ kind \notin {"EMAIL", "PAN"} =>
            /\ p + i > 1 => v[p + i - 1].kind # "group"
            /\ p + j < Len(v) => v[p + j + 1].kind # "group"
      /\ kind \in {"PHONE", "PAN"} /\ p + i > 1 => v[p + i - 1].kind # "keyword"
      /\ kind = "PHONE" /\ p + i > 2 /\ IsShort(v[p + i - 1]) => v[p + i - 2].kind # "keyword"
  BY DEF Intact
<1>6. /\ w[d + 1].kind # "group"
      /\ w[d + m].kind # "keyword"
      /\ w[d + m].kind = "group" => v[d + n].kind = "group"
      /\ IsShort(w[d + m]) => v[d + n].kind = "group" \/ (m > 1 /\ w[d + m - 1].kind # "keyword")
  BY DEF Rewritten
<1>7. d + n < p + s \/ p + j < d + 1
  OBVIOUS
<1>. HIDE DEF s, v
<1>8. CASE p + j < d + 1
  <2>1. 1 <= p + s /\ p + j <= Len(w) /\ ~(d < p + s) /\ 1 <= p + i
    BY <1>2, <1>3, <1>8
  <2>2. \A k \in s..j : w[p + k] = text[k]
    <3>. SUFFICES ASSUME NEW k \in s..j  PROVE  w[p + k] = text[k]
      OBVIOUS
    <3>1. p + k \in 1..d
      BY <1>2, <1>3, <1>8
    <3>. QED  BY <1>2, <1>5, <3>1
  <2>3. \A x \in 1..Len(w) : x < p + i \/ p + j < x => w[x].at \notin i..j
    <3>1. /\ p + i \in Int /\ p + j \in Int /\ p + i <= p + j /\ 0 \in {0, m - n}
          /\ p + i + 0 = p + i /\ p + j + 0 = p + j /\ i \in Nat \ {0}
      BY <1>3
    <3>2. \A x \in 1..Len(v) : x < p + i \/ p + j < x => v[x].at \notin i..j
      BY <1>5
    <3>3. Rewritten(v, w, d, n, m)
      BY DEF v
    <3>4. \A x \in 1..Len(w) : x < p + i + 0 \/ p + j + 0 < x => w[x].at \notin i..j
      BY <1>1, <1>3, <1>8, <3>1, <3>2, <3>3, OthersStayOthers
    <3>. QED  BY <3>1, <3>4
  <2>4. p + i > 1 => w[p + i - 1] = v[p + i - 1]
    <3>1. p + i > 1 => p + i - 1 \in 1..d
      BY <1>2, <1>3, <1>8
    <3>. QED  BY <1>2, <3>1
  <2>5. p + i > 2 => w[p + i - 2] = v[p + i - 2]
    <3>1. p + i > 2 => p + i - 2 \in 1..d
      BY <1>2, <1>3, <1>8
    <3>. QED  BY <1>2, <3>1
  <2>6. kind \notin {"EMAIL", "PAN"} /\ p + j < Len(w) => w[p + j + 1].kind # "group"
    <3>1. CASE p + j = d
      BY <1>6, <3>1
    <3>2. CASE p + j < d
      <4>1. p + j + 1 \in 1..d /\ p + j < Len(v)
        BY <1>2, <1>3, <2>1, <3>2, SMTT(60)
      <4>. QED  BY <1>2, <1>5, <4>1
    <3>. QED  BY <1>2, <1>3, <1>8, <3>1, <3>2
  <2>7. Intact(kind, i, j, w, p)
    BY <1>5, <2>1, <2>2, <2>3, <2>4, <2>5, <2>6 DEF Intact, s
  <2>. QED  BY <2>1, <2>7 DEF s
<1>9. CASE d + n < p + s
  <2>. DEFINE q == p + (m - n)
  <2>1. /\ q \in Int /\ d + m < q + s /\ 1 <= q + s /\ q + j <= Len(w)
        /\ q + i > 1 /\ p + i > 1 /\ q + i = p + i - n + m /\ q + j = p + j - n + m
    <3>1. /\ p \in Int /\ s \in Int /\ i \in Int /\ j \in Int /\ d \in Int /\ n \in Int /\ m \in Int
          /\ s <= i /\ d >= 0 /\ n >= 1 /\ m >= 1 /\ Len(v) \in Int
          /\ p + j <= Len(v) /\ Len(w) = Len(v) - n + m
      BY <1>2, <1>3
    <3>. QED  BY <1>9, <3>1
  <2>2. \A k \in s..j : w[q + k] = text[k]
    <3>. SUFFICES ASSUME NEW k \in s..j  PROVE  w[q + k] = text[k]
      OBVIOUS
    <3>1. p + k \in (d + n + 1)..Len(v) /\ (p + k) - n + m = q + k
      BY <1>2, <1>3, <1>9
    <3>2. w[(p + k) - n + m] = v[p + k]
      BY <1>2, <3>1
    <3>. QED  BY <1>5, <3>1, <3>2
  <2>3. \A x \in 1..Len(w) : x < q + i \/ q + j < x => w[x].at \notin i..j
    <3>. DEFINE shift == m - n
    <3>1. /\ p + i \in Int /\ p + j \in Int /\ p + i <= p + j /\ shift \in {0, m - n} /\ shift = m - n
          /\ p + i + shift = q + i /\ p + j + shift = q + j /\ i \in Nat \ {0} /\ d + n < p + i
      BY <1>2, <1>3, <1>9
    <3>2. \A x \in 1..Len(v) : x < p + i \/ p + j < x => v[x].at \notin i..j
      BY <1>5
    <3>3. Rewritten(v, w, d, n, m)
      BY DEF v
    <3>. HIDE DEF q, shift
    <3>4. \A x \in 1..Len(w) : x < p + i + shift \/ p + j + shift < x => w[x].at \notin i..j
      BY <1>1, <1>3, <3>1, <3>2, <3>3, OthersStayOthers
    <3>. QED  BY <3>1, <3>4
  \* What is in front of it.
  <2>4. kind # "OTP" /\ p + i > d + n + 1 => w[q + i - 1] = v[p + i - 1]
    <3>1. p + i > d + n + 1 => p + i - 1 \in (d + n + 1)..Len(v) /\ (p + i - 1) - n + m = q + i - 1
      BY <1>2, <1>3
    <3>. QED  BY <1>2, <3>1
  <2>5. kind # "OTP" /\ p + i > d + n + 2 => w[q + i - 2] = v[p + i - 2] /\ p + i > 2
    <3>1. p + i > d + n + 2 => p + i - 2 \in (d + n + 1)..Len(v) /\ (p + i - 2) - n + m = q + i - 2 /\ p + i > 2
      BY <1>2, <1>3
    <3>. QED  BY <1>2, <3>1
  <2>6. p + i = d + n + 1 => q + i - 1 = d + m /\ p + i - 1 = d + n /\ q + i - 2 = d + m - 1
    BY <1>2, <1>3
  <2>7. p + i = d + n + 2 => q + i - 2 = d + m
    BY <1>2, <1>3
  <2>8. kind # "OTP" => p + i > d + n
    BY <1>3, <1>9
  <2>9. kind \notin {"EMAIL", "PAN"} => w[q + i - 1].kind # "group"
    <3>1. CASE kind = "OTP"
      <4>1. i - 1 \in s..j /\ q + (i - 1) = q + i - 1 /\ p + (i - 1) = p + i - 1
        BY <1>2, <1>3, <1>4, <3>1
      <4>2. w[q + (i - 1)] = text[i - 1] /\ v[p + (i - 1)] = text[i - 1]
        BY <1>5, <2>2, <4>1
      <4>. QED  BY <1>5, <2>1, <3>1, <4>1, <4>2
    <3>2. CASE kind # "OTP" /\ p + i = d + n + 1
      BY <1>5, <1>6, <2>1, <2>6, <3>2
    <3>3. CASE kind # "OTP" /\ p + i > d + n + 1
      BY <1>5, <2>1, <2>4, <3>3
    <3>. QED  BY <1>2, <1>3, <2>8, <3>1, <3>2, <3>3
  <2>10. kind \in {"PHONE", "PAN"} => w[q + i - 1].kind # "keyword"
    <3>1. CASE p + i = d + n + 1
      BY <1>6, <2>6, <3>1
    <3>2. CASE p + i > d + n + 1
      BY <1>5, <2>1, <2>4, <3>2
    <3>3. kind \in {"PHONE", "PAN"} => p + i = d + n + 1 \/ p + i > d + n + 1
      <4>1. p + i \in Int /\ d + n \in Int /\ (kind \in {"PHONE", "PAN"} => p + i > d + n)
        BY <1>2, <1>3, <2>8
      <4>. DEFINE x == p + i
                  y == d + n
      <4>. HIDE DEF x, y
      <4>2. x \in Int /\ y \in Int /\ x > y => x = y + 1 \/ x > y + 1
        OBVIOUS
      <4>. QED  BY <4>1, <4>2 DEF x, y
    <3>. QED  BY <3>1, <3>2, <3>3
  <2>11. kind = "PHONE" /\ IsShort(w[q + i - 1]) => w[q + i - 2].kind # "keyword"
    <3>1. CASE p + i = d + n + 1
      BY <1>5, <1>6, <2>1, <2>6, <3>1
    <3>2. CASE p + i = d + n + 2
      BY <1>6, <2>7, <3>2
    <3>3. CASE p + i > d + n + 2
      <4>1. p + i > d + n + 1
        BY <1>2, <1>3, <3>3, SMTT(60)
      <4>. QED  BY <1>5, <2>4, <2>5, <3>3, <4>1
    <3>. QED  BY <1>2, <1>3, <2>8, <3>1, <3>2, <3>3
  <2>12. kind \notin {"EMAIL", "PAN"} /\ q + j < Len(w) => w[q + j + 1].kind # "group"
    <3>. SUFFICES ASSUME kind \notin {"EMAIL", "PAN"}, q + j < Len(w)
                  PROVE  w[q + j + 1].kind # "group"
      OBVIOUS
    <3>1. p + j + 1 \in (d + n + 1)..Len(v) /\ (p + j + 1) - n + m = q + j + 1 /\ p + j < Len(v)
      BY <1>2, <1>3, <1>9
    <3>. QED  BY <1>2, <1>5, <3>1
  <2>. HIDE DEF q
  <2>13. Intact(kind, i, j, w, q)
    BY <2>1, <2>2, <2>3, <2>9, <2>10, <2>11, <2>12 DEF Intact, s
  <2>. QED  BY <2>1, <2>13 DEF s
<1>. QED  BY <1>7, <1>8, <1>9


\* What has been masked stays so.
LEMMA GoneStays ==
    ASSUME RedactionType, NEW kind \in KindNames,
           NEW i \in 1..Len(given.text), NEW j \in 1..Len(given.text),
           NEW x \in Nat, Gone(kind, i, j, Now, x),
           NEW w \in Seq(AnyToken), NEW d, NEW n, NEW m, Rewritten(Now, w, d, n, m),
           x \notin (d + 1)..(d + n)
    PROVE  \E y \in Nat : Gone(kind, i, j, w, y)
<1>. DEFINE v == Now
<1>1. v \in Seq(AnyToken)
  BY NowIs
<1>2. /\ d \in Nat /\ n \in Nat \ {0} /\ m \in Nat \ {0} /\ Len(v) \in Nat /\ Len(w) \in Nat
      /\ d + n <= Len(v) /\ Len(w) = Len(v) - n + m
      /\ \A y \in 1..d : w[y] = v[y]
      /\ \A y \in (d + n + 1)..Len(v) : y - n + m \in (d + m + 1)..Len(w) /\ w[y - n + m] = v[y]
  BY <1>1, Elsewhere
<1>3. i \in Nat \ {0} /\ j \in Nat
  BY RawTokens
<1>4. /\ x \in 1..Len(v) /\ v[x] = Masked(kind, i)
      /\ \A y \in 1..Len(v) : y < x \/ x < y => v[y].at \notin i..j
      /\ kind = "CARD" /\ x < Len(v) => v[x + 1].kind # "group"
  BY DEF Gone
<1>5. w[d + 1].kind # "group"
  BY DEF Rewritten
<1>6. Rewritten(v, w, d, n, m)
  BY DEF v
<1>. HIDE DEF v
<1>7. CASE x <= d
  <2>1. x \in 1..Len(w) /\ w[x] = Masked(kind, i)
    BY <1>2, <1>4, <1>7
  <2>2. \A y \in 1..Len(w) : y # x => w[y].at \notin i..j
    <3>1. x \in Int /\ 0 \in {0, m - n} /\ x < d + 1 /\ x <= x /\ x + 0 = x
      BY <1>2, <1>7
    <3>2. \A y \in 1..Len(w) : y < x + 0 \/ x + 0 < y => w[y].at \notin i..j
      BY <1>1, <1>3, <1>4, <1>6, <3>1, OthersStayOthers
    <3>3. \A y \in 1..Len(w) : y # x => y < x + 0 \/ x + 0 < y
      BY <1>2
    <3>. QED  BY <3>2, <3>3
  <2>3. kind = "CARD" /\ x < Len(w) => w[x + 1].kind # "group"
    <3>1. CASE x = d
      BY <1>5, <3>1
    <3>2. CASE x < d
      <4>1. x + 1 \in 1..d /\ x < Len(v)
        BY <1>2, <3>2
      <4>. QED  BY <1>2, <1>4, <4>1
    <3>. QED  BY <1>2, <1>7, <3>1, <3>2
  <2>. QED  BY <2>1, <2>2, <2>3 DEF Gone
<1>8. CASE d + n < x
  <2>. DEFINE shift == m - n
              y == x + shift
  <2>1. x \in (d + n + 1)..Len(v) /\ x - n + m = y
    BY <1>2, <1>4, <1>8, SMTT(60)
  <2>2. y \in 1..Len(w) /\ w[y] = Masked(kind, i)
    BY <1>2, <1>4, <2>1
  <2>3. \A z \in 1..Len(w) : z # y => w[z].at \notin i..j
    <3>1. x \in Int /\ shift \in {0, m - n} /\ shift = m - n /\ d + n < x /\ x <= x /\ y = x + shift /\ y \in Int
      BY <1>2, <1>8
    <3>. HIDE DEF shift, y
    <3>2. \A z \in 1..Len(w) : z < x + shift \/ x + shift < z => w[z].at \notin i..j
      BY <1>1, <1>3, <1>4, <1>6, <3>1, OthersStayOthers
    <3>3. \A z \in 1..Len(w) : z # y => z < y \/ y < z
      BY <1>2, <3>1
    <3>. QED  BY <3>1, <3>2, <3>3
  <2>4. kind = "CARD" /\ y < Len(w) => w[y + 1].kind # "group"
    <3>. SUFFICES ASSUME kind = "CARD", y < Len(w)  PROVE  w[y + 1].kind # "group"
      OBVIOUS
    <3>. HIDE DEF y, shift
    <3>1. x < Len(v) /\ x + 1 \in (d + n + 1)..Len(v) /\ (x + 1) - n + m = y + 1
      <4>1. /\ x \in Int /\ n \in Int /\ m \in Int /\ d \in Int /\ Len(v) \in Int /\ x - n + m = y
            /\ y < Len(v) - n + m
        BY <1>2, <2>1
      <4>. QED  BY <1>8, <4>1
    <3>. QED  BY <1>2, <1>4, <3>1
  <2>5. y \in Nat
    BY <1>2, <2>2
  <2>. HIDE DEF y
  <2>. QED  BY <2>2, <2>3, <2>4, <2>5 DEF Gone
<1>. QED  BY <1>2, <1>4, <1>7, <1>8

\* A match takes nothing that has been masked.
LEMMA GoneUntouched ==
    ASSUME RedactionType, NEW a \in 1..6, Lengths(Order[a]) # {}, NEW kind \in KindNames,
           NEW i \in 1..Len(given.text), NEW j \in 1..Len(given.text),
           NEW x \in Nat, Gone(kind, i, j, Now, x)
    PROVE  x \notin (Len(done) + 1)..(Len(done) + Len(Matched(Order[a])))
<1>. DEFINE d == Len(done)
            n == Len(Matched(Order[a]))
<1>1. /\ d \in Nat /\ n \in Nat \ {0} /\ d + n <= Len(Now) /\ Len(Now) \in Nat
      /\ a = 1 => n = 1 /\ Now[d + 1].kind = "email"
      /\ a \in {2, 3} => \A y \in (d + 1)..(d + n) : Now[y].kind = "group"
      /\ a = 4 =>
            /\ n \in {2, 3} /\ Now[d + 1].kind = "keyword"
            /\ Now[d + n].kind = "group" \/ (Now[d + n].kind = "pan" /\ n = 2)
            /\ n = 3 => IsShort(Now[d + 2])
      /\ a = 5 => n = 1 /\ Now[d + 1].kind = "group"
      /\ a = 6 => n = 1 /\ Now[d + 1].kind = "pan"
  BY OrderOfKinds, WhatMatches, SMTT(60)
<1>2. /\ x \in 1..Len(Now) /\ Now[x].kind = kind
      /\ kind = "CARD" /\ x < Len(Now) => Now[x + 1].kind # "group"
  BY DEF Gone, Masked, Token
<1>3. kind \notin {"email", "pan", "group", "keyword", "word"}
  BY DEF KindNames
<1>. HIDE DEF d, n
<1>4. SUFFICES ASSUME x \in (d + 1)..(d + n)  PROVE  FALSE
  BY DEF d, n
<1>5. n = 1 => x = d + 1
  BY <1>1, <1>4
<1>6. CASE a \in {1, 5, 6}
  BY <1>1, <1>2, <1>3, <1>5, <1>6
<1>7. CASE a \in {2, 3}
  BY <1>1, <1>2, <1>3, <1>4, <1>7
<1>8. CASE a = 4
  <2>1. x # d + 1 /\ x # d + n
    BY <1>1, <1>2, <1>3, <1>8
  <2>2. n = 3 /\ x = d + 2 /\ x + 1 = d + n /\ x < Len(Now)
    BY <1>1, <1>4, <1>8, <2>1
  <2>3. kind = "CARD" /\ Now[d + n].kind = "group"
    BY <1>1, <1>2, <1>3, <1>8, <2>2 DEF IsShort
  <2>. QED  BY <1>2, <2>2, <2>3
<1>. QED  BY <1>6, <1>7, <1>8

\* A number that is not a card number is not taken for one that stands apart.
LEMMA NotPutBack ==
    ASSUME RedactionType, NEW i \in 1..Len(given.text), NEW j \in 1..Len(given.text), i <= j, Is("CARD", i, j),
           NEW p \in Int, Intact("CARD", i, j, Now, p), Len(done) + 1 = p + i,
           Lengths("CARD") # {}, Len(done) + Len(Matched("CARD")) = p + j
    PROVE  ~FailsTest("CARD")
<1>1. "CARD" \in KindNames /\ "CARD" # "OTP" /\ Start("CARD", i) = i
  BY DEF KindNames, Start
<1>2. SubSeq(rest, 1, j - i + 1) = SubSeq(given.text, i, j)
  BY <1>1, ItFits
<1>3. Matched("CARD") = SubSeq(rest, 1, Len(Matched("CARD"))) /\ Len(Matched("CARD")) \in Int
  BY TheMatch, NowIs
<1>4. Len(Matched("CARD")) = j - i + 1
  <2>1. Len(done) \in Int /\ i \in Int /\ j \in Int
    BY NowIs, RawTokens
  <2>. QED  BY <1>3, <2>1
<1>5. Places(SubSeq(given.text, i, j)) \in given.cards
  BY WhatIs
<1>. QED  BY <1>2, <1>3, <1>4, <1>5 DEF FailsTest

\* What is taken is masked, as what it is.
LEMMA ReplacedIsGone ==
    ASSUME RedactionType, NEW kind \in KindNames, kind # "OTP",
           NEW i \in 1..Len(given.text), NEW j \in 1..Len(given.text), i <= j,
           NEW p \in Int, Intact(kind, i, j, Now, p), Len(done) + 1 = p + i,
           Replace(kind), Len(done) + Len(Matched(kind)) = p + j
    PROVE  Gone(kind, i, j, Now', Len(done) + 1)
<1>. DEFINE d == Len(done)
            n == Len(Matched(kind))
            v == Now
            w == Now'
<1>1. /\ Rewritten(v, w, d, n, 1)
      /\ w[d + 1] = Masked(kind, v[d + 1].at)
      /\ w \in Seq(AnyToken)
  <2>1. kind \in {"EMAIL", "CARD", "AADHAAR", "PHONE", "PAN"}
    BY DEF KindNames
  <2>2. /\ RedactionType'
        /\ Rewritten(Now, Now', d, n, 1)
        /\ Now'[d + 1] = Masked(kind, Now[d + 1].at)
    BY <2>1, ReplacingRewrites
  <2>3. Now' \in Seq(AnyToken)
    <3>1. done' \in Seq(AnyToken) /\ rest' \in Seq(AnyToken)
      BY <2>2 DEF RedactionType
    <3>. QED  BY <3>1, Joined DEF Now
  <2>. QED  BY <2>2, <2>3
<1>2. v \in Seq(AnyToken)
  BY NowIs
<1>4. /\ i \in Nat /\ j \in Nat /\ i \in i..j /\ d + 1 = p + i /\ d + n = p + j
      /\ v[p + i] = given.text[i] /\ given.text[i].at = i
      /\ \A x \in 1..Len(v) : x < p + i \/ p + j < x => v[x].at \notin i..j
      /\ kind = "CARD" /\ p + j < Len(v) => v[p + j + 1].kind # "group"
  <2>1. i \in Nat /\ j \in Nat /\ i \in i..j /\ given.text[i].at = i
    BY RawTokens
  <2>2. \A k \in i..j : v[p + k] = given.text[k]
    BY DEF Intact, Start
  <2>3. /\ \A x \in 1..Len(v) : x < p + i \/ p + j < x => v[x].at \notin i..j
        /\ kind = "CARD" /\ p + j < Len(v) => v[p + j + 1].kind # "group"
    BY DEF Intact
  <2>. QED  BY <2>1, <2>2, <2>3
<1>. HIDE DEF d, n, v, w
<1>3. /\ d \in Nat /\ n \in Nat \ {0} /\ Len(v) \in Nat /\ Len(w) \in Nat
      /\ d + n <= Len(v) /\ Len(w) = Len(v) - n + 1
      /\ \A x \in 1..d : w[x] = v[x]
      /\ \A x \in (d + 1 + 1)..Len(w) : x + n - 1 \in (d + n + 1)..Len(v) /\ w[x] = v[x + n - 1]
  BY <1>1, <1>2, Elsewhere, SMTT(60)
<1>5. d + 1 \in 1..Len(w) /\ w[d + 1] = Masked(kind, i)
  <2>1. d + 1 \in 1..Len(w)
    BY <1>3
  <2>2. v[d + 1].at = i
    BY <1>4
  <2>. QED  BY <1>1, <2>1, <2>2
<1>6. \A y \in 1..Len(w) : y # d + 1 => w[y].at \notin i..j
  <2>. SUFFICES ASSUME NEW y \in 1..Len(w), y # d + 1  PROVE  w[y].at \notin i..j
    OBVIOUS
  <2>1. CASE y <= d
    <3>1. y \in 1..d /\ y \in 1..Len(v) /\ y < p + i
      BY <1>3, <1>4, <2>1
    <3>. QED  BY <1>3, <1>4, <3>1
  <2>2. CASE y > d + 1
    <3>1. y \in (d + 1 + 1)..Len(w)
      BY <1>3, <2>2
    <3>2. y + n - 1 \in 1..Len(v) /\ p + j < y + n - 1 /\ w[y] = v[y + n - 1]
      BY <1>3, <1>4, <3>1, SMTT(60)
    <3>. QED  BY <1>4, <3>2
  <2>. QED  BY <1>3, <2>1, <2>2
<1>7. kind = "CARD" /\ d + 1 < Len(w) => w[d + 1 + 1].kind # "group"
  <2>. SUFFICES ASSUME kind = "CARD", d + 1 < Len(w)  PROVE  w[d + 1 + 1].kind # "group"
    OBVIOUS
  <2>1. d + 1 + 1 \in (d + 1 + 1)..Len(w) /\ (d + 1 + 1) + n - 1 = d + n + 1 /\ d + n < Len(v)
    <3>1. d \in Int /\ n \in Int /\ Len(v) \in Int /\ Len(w) = Len(v) - n + 1
      BY <1>3
    <3>2. Len(w) \in Int
      BY <1>3
    <3>. QED  BY <3>1, <3>2, SMTT(60)
  <2>2. w[d + 1 + 1] = v[(d + 1 + 1) + n - 1]
    BY <1>3, <2>1
  <2>3. d + n = p + j
    BY <1>4
  <2>. QED  BY <1>4, <2>1, <2>2, <2>3
<1>8. Gone(kind, i, j, w, d + 1)
  BY <1>5, <1>6, <1>7 DEF Gone
<1>. QED  BY <1>8 DEF d, w

LEMMA CodeIsGone ==
    ASSUME RedactionType,
           NEW i \in 1..Len(given.text), NEW j \in 1..Len(given.text), i <= j, Is("OTP", i, j),
           NEW p \in Int, Intact("OTP", i, j, Now, p),
           ReplaceCode("OTP"), Len(done) + Len(Matched("OTP")) = p + j
    PROVE  Gone("OTP", i, j, Now', Len(done) + 2)
<1>. DEFINE d == Len(done)
            n == Len(Matched("OTP"))
            v == Now
            w == Now'
<1>1. /\ RedactionType' /\ w[d + 1] = v[d + 1] /\ w[d + 2] = Masked("OTP", v[d + n].at)
      /\ \E m \in Nat : m >= 2 /\ Rewritten(v, w, d, n, m) /\ \A x \in (d + 3)..(d + m) : w[x].at = 0
  BY CodeRewrites
<1>2. PICK m \in Nat : m >= 2 /\ Rewritten(v, w, d, n, m) /\ \A x \in (d + 3)..(d + m) : w[x].at = 0
  BY <1>1
<1>3. v \in Seq(AnyToken) /\ w \in Seq(AnyToken)
  <2>1. done' \in Seq(AnyToken) /\ rest' \in Seq(AnyToken)
    BY <1>1 DEF RedactionType
  <2>. QED  BY <2>1, Joined, NowIs DEF Now
<1>5. n \in {2, 3}
  <2>1. Lengths("OTP") # {}
    BY DEF ReplaceCode
  <2>. QED  BY <2>1, WhatMatches
<1>6. /\ i \in Nat \ {0} /\ j = i /\ i \in i..j /\ d + n = p + i
      /\ v[p + i] = given.text[i] /\ given.text[i].at = i
      /\ \A x \in 1..Len(v) : x < p + i \/ p + j < x => v[x].at \notin i..j
  <2>1. i \in Nat \ {0} /\ i = j /\ given.text[i].at = i /\ Start("OTP", i) \in 1..i
    BY RawTokens, WhatIs
  <2>2. /\ \A k \in Start("OTP", i)..j : v[p + k] = given.text[k]
        /\ \A x \in 1..Len(v) : x < p + i \/ p + j < x => v[x].at \notin i..j
    BY DEF Intact
  <2>3. i \in Start("OTP", i)..j /\ i \in i..j
    BY <2>1
  <2>. QED  BY <2>1, <2>2, <2>3
<1>. HIDE DEF d, n, v, w
<1>4. /\ d \in Nat /\ n \in Nat \ {0} /\ Len(v) \in Nat /\ Len(w) \in Nat
      /\ d + n <= Len(v) /\ Len(w) = Len(v) - n + m
      /\ \A x \in 1..d : w[x] = v[x]
      /\ \A x \in (d + m + 1)..Len(w) : x + n - m \in (d + n + 1)..Len(v) /\ w[x] = v[x + n - m]
  BY <1>2, <1>3, Elsewhere, SMTT(60)
<1>7. d + 2 \in 1..Len(w) /\ w[d + 2] = Masked("OTP", i)
  <2>1. d + 2 \in 1..Len(w)
    BY <1>2, <1>4
  <2>2. v[d + n].at = i
    BY <1>6
  <2>. QED  BY <1>1, <2>1, <2>2
<1>8. \A y \in 1..Len(w) : y # d + 2 => w[y].at \notin i..j
  <2>. SUFFICES ASSUME NEW y \in 1..Len(w), y # d + 2  PROVE  w[y].at \notin i..j
    OBVIOUS
  <2>1. CASE y <= d
    <3>1. y \in 1..d /\ y \in 1..Len(v) /\ y < p + i
      BY <1>4, <1>6, <2>1, SMTT(60)
    <3>. QED  BY <1>4, <1>6, <3>1
  <2>2. CASE y = d + 1
    <3>1. d + 1 \in 1..Len(v) /\ d + 1 < d + n
      BY <1>4, <1>5
    <3>. QED  BY <1>1, <1>6, <2>2, <3>1
  <2>3. CASE y \in (d + 3)..(d + m)
    <3>1. w[y].at = 0
      BY <1>2, <2>3
    <3>. QED  BY <1>6, <3>1
  <2>4. CASE y > d + m
    <3>1. y \in (d + m + 1)..Len(w)
      BY <1>2, <1>4, <2>4
    <3>2. y + n - m \in 1..Len(v) /\ p + j < y + n - m /\ w[y] = v[y + n - m]
      BY <1>4, <1>6, <3>1
    <3>. QED  BY <1>6, <3>2
  <2>. QED  BY <1>2, <1>4, <2>1, <2>2, <2>3, <2>4
<1>9. Gone("OTP", i, j, w, d + 2)
  BY <1>7, <1>8 DEF Gone
<1>. QED  BY <1>9 DEF d, w

-------------------------------------------------------------------------------
(***************************************************************************)
(* Masking: a number is followed from the text to its mask.                *)
(***************************************************************************)

\* What is followed is what stands in the text, and that stays.
LEMMA FollowedNext ==
    ASSUME given' = given, NEW c \in 1..6, NEW i, NEW j,
           pass' < c => \E p \in Int : Intact(Order[c], i, j, Now', p),
           pass' = c => \/ \E p \in Int : Intact(Order[c], i, j, Now', p) /\ Len(done') < p + Start(Order[c], i)
                        \/ \E x \in Nat : Gone(Order[c], i, j, Now', x),
           pass' > c => \E x \in Nat : Gone(Order[c], i, j, Now', x)
    PROVE  Followed(c, i, j)'
<1>1. Start(Order[c], i)' = Start(Order[c], i)
  BY DEF Start
<1>2. \A p \in Int : Intact(Order[c], i, j, Now', p) => Intact(Order[c], i, j, Now, p)'
  BY <1>1 DEF Intact
<1>3. \A x \in Nat : Gone(Order[c], i, j, Now', x) => Gone(Order[c], i, j, Now, x)'
  BY DEF Gone
<1>. QED  BY <1>1, <1>2, <1>3 DEF Followed

LEMMA IsNext ==
    ASSUME given' = given, NEW kind, NEW i, NEW j
    PROVE  Is(kind, i, j)' <=> Is(kind, i, j)
BY DEF Is, Apart, BehindKeyword

\* A substitution that goes on does not pass by what it is for.
LEMMA GoingOnFollows ==
    ASSUME RedactionType, pass \in 1..6, GoOn(Order[pass]),
           NEW c \in 1..6, NEW i \in 1..Len(given.text), NEW j \in 1..Len(given.text), i <= j,
           Is(Order[c], i, j), Followed(c, i, j)
    PROVE  Followed(c, i, j)'
<1>1. /\ given' = given /\ pass' = pass /\ Now' = Now /\ Len(done') = Len(done) + 1
  BY GoingOnKeepsText DEF GoOn
<1>2. Order[c] \in KindNames
  BY OrderOfKinds DEF KindNames
<1>3. ASSUME pass = c, NEW p \in Int, Intact(Order[c], i, j, Now, p), Len(done) < p + Start(Order[c], i)
      PROVE  Len(done') < p + Start(Order[c], i)
  <2>1. Lengths(Order[c]) = {}
    BY <1>3 DEF GoOn
  <2>2. Len(done) + 1 # p + Start(Order[c], i)
    BY <1>2, <1>3, <2>1, ItFits
  <2>3. Start(Order[c], i) \in Int /\ Len(done) \in Int
    BY <1>2, <1>3, WhatStands, NowIs
  <2>. QED  BY <1>1, <1>3, <2>2, <2>3
<1>. QED  BY <1>1, <1>3, FollowedNext DEF Followed

LEMMA PuttingBackFollows ==
    ASSUME RedactionType, pass \in 1..6, PutBack(Order[pass]),
           NEW c \in 1..6, NEW i \in 1..Len(given.text), NEW j \in 1..Len(given.text), i <= j,
           Is(Order[c], i, j), Followed(c, i, j)
    PROVE  Followed(c, i, j)'
<1>1. /\ given' = given /\ pass' = pass /\ Now' = Now
      /\ Len(done') = Len(done) + Len(Matched(Order[pass]))
  BY PuttingBackKeepsText DEF PutBack
<1>2. Order[pass] = "CARD" /\ pass = 2 /\ "CARD" \in KindNames
  BY OrderOfKinds DEF PutBack, FailsTest, KindNames
<1>3. ASSUME pass = c, NEW p \in Int, Intact(Order[c], i, j, Now, p), Len(done) < p + Start(Order[c], i)
      PROVE  Len(done') < p + Start(Order[c], i)
  <2>1. Lengths(Order[c]) # {} /\ FailsTest(Order[c])
    BY <1>3 DEF PutBack
  <2>2. Start(Order[c], i) = i /\ i \in Int /\ j \in Int /\ i <= j
    BY <1>2, <1>3, RawTokens DEF Start
  <2>3. Len(done) \in Int /\ Len(Matched(Order[c])) \in Int
    BY <2>1, TheMatch, NowIs
  <2>4. SUFFICES ASSUME p + i <= Len(done) + Len(Matched(Order[c]))  PROVE  FALSE
    BY <1>1, <1>3, <2>2, <2>3
  <2>5. Len(done) + 1 <= p + j
    BY <1>3, <2>2, <2>3
  <2>6. Len(done) + Len(Matched(Order[c])) = p + j /\ Len(done) + 1 = p + i
    <3>1. /\ c <= c /\ c # 4 /\ Len(done) < p + Start(Order[c], i)
          /\ p + Start(Order[c], i) <= Len(done) + Len(Matched(Order[c]))
      BY <1>2, <1>3, <2>2, <2>4
    <3>2. Takes(c, c, i, j, p)
      BY <1>3, <2>1, <2>5, <3>1, TakesAllOrNothing
    <3>. QED  BY <3>1, <3>2 DEF Takes
  <2>. QED  BY <1>2, <1>3, <2>1, <2>6, NotPutBack
<1>. QED  BY <1>1, <1>3, FollowedNext DEF Followed

\* A replacement leaves alone what is not for it, and masks what is.
LEMMA RewritingFollows ==
    ASSUME RedactionType, pass \in 1..6, Replace(Order[pass]) \/ ReplaceCode(Order[pass]),
           NEW c \in 1..6, NEW i \in 1..Len(given.text), NEW j \in 1..Len(given.text), i <= j,
           Is(Order[c], i, j), Followed(c, i, j)
    PROVE  Followed(c, i, j)'
<1>. DEFINE d == Len(done)
            n == Len(Matched(Order[pass]))
            w == Now'
<1>1. given' = given /\ pass' = pass /\ Lengths(Order[pass]) # {}
  BY DEF Replace, ReplaceCode
<1>2. /\ w \in Seq(AnyToken) /\ done' \in Seq(AnyToken)
      /\ \E m \in Nat \ {0} : Rewritten(Now, w, d, n, m) /\ Len(done') <= d + m
  <2>1. CASE Replace(Order[pass])
    <3>1. Order[pass] \in {"EMAIL", "CARD", "AADHAAR", "PHONE", "PAN"}
      BY <2>1, OrderOfKinds DEF Replace
    <3>2. RedactionType' /\ Rewritten(Now, w, d, n, 1) /\ Len(done') = d + 1
      BY <2>1, <3>1, ReplacingRewrites
    <3>3. done' \in Seq(AnyToken) /\ rest' \in Seq(AnyToken) /\ d \in Int
      BY <3>2, NowIs DEF RedactionType
    <3>4. w \in Seq(AnyToken)
      BY <3>3, Joined DEF Now
    <3>. HIDE DEF w, n, d
    <3>. QED  BY <3>2, <3>3, <3>4
  <2>2. CASE ReplaceCode(Order[pass])
    <3>1. Order[pass] = "OTP"
      BY <2>2 DEF ReplaceCode
    <3>2. RedactionType' /\ Len(done') = d + 2 /\ \E m \in Nat : m >= 2 /\ Rewritten(Now, w, d, n, m)
      BY <2>2, <3>1, CodeRewrites
    <3>3. done' \in Seq(AnyToken) /\ rest' \in Seq(AnyToken) /\ d \in Int
      BY <3>2, NowIs DEF RedactionType
    <3>4. w \in Seq(AnyToken)
      BY <3>3, Joined DEF Now
    <3>. HIDE DEF w, n, d
    <3>5. PICK m \in Nat : m >= 2 /\ Rewritten(Now, w, d, n, m)
      BY <3>2
    <3>6. m \in Nat \ {0} /\ d + 2 <= d + m
      BY <3>3, <3>5
    <3>. QED  BY <3>2, <3>3, <3>4, <3>5, <3>6
  <2>. QED  BY <2>1, <2>2
<1>3. PICK m \in Nat \ {0} : Rewritten(Now, w, d, n, m) /\ Len(done') <= d + m
  BY <1>2
<1>4. Order[c] \in KindNames
  BY OrderOfKinds DEF KindNames
<1>5. (\E x \in Nat : Gone(Order[c], i, j, Now, x)) => \E x \in Nat : Gone(Order[c], i, j, w, x)
  <2>. SUFFICES ASSUME NEW x \in Nat, Gone(Order[c], i, j, Now, x)
                PROVE  \E y \in Nat : Gone(Order[c], i, j, w, y)
    OBVIOUS
  <2>1. x \notin (d + 1)..(d + n)
    BY <1>1, <1>4, GoneUntouched
  <2>. HIDE DEF d, n, w
  <2>. QED  BY <1>2, <1>3, <1>4, <2>1, GoneStays
<1>6. ASSUME NEW p \in Int, Intact(Order[c], i, j, Now, p), pass <= c,
             pass = c => d < p + Start(Order[c], i)
      PROVE  \/ \E q \in Int : /\ Intact(Order[c], i, j, w, q)
                               /\ pass = c => Len(done') < q + Start(Order[c], i)
             \/ pass = c /\ \E x \in Nat : Gone(Order[c], i, j, w, x)
  <2>. DEFINE s == Start(Order[c], i)
  <2>1. s \in Int /\ i \in Int /\ j \in Int /\ s <= j /\ (c # 4 => s = i)
    <3>1. (Order[c] = "OTP" <=> c = 4)
      BY OrderOfKinds
    <3>. QED  BY <1>4, <1>6, <3>1, WhatStands
  <2>2. d \in Int /\ n \in Int /\ Len(done') \in Int /\ m \in Int
    <3>1. done' \in Seq(AnyToken)
      BY <1>2
    <3>. QED  BY <1>1, <3>1, LenProperties, TheMatch, NowIs
  <2>3. CASE d + n < p + s \/ p + j < d + 1
    <3>. HIDE DEF d, n, w
    <3>1. \E q \in Int : /\ Intact(Order[c], i, j, w, q)
                         /\ d < p + s => d + m < q + s
      BY <1>2, <1>3, <1>4, <1>6, <2>3, IntactStays
    <3>2. PICK q \in Int : Intact(Order[c], i, j, w, q) /\ (d < p + s => d + m < q + s)
      BY <3>1
    <3>3. pass = c => Len(done') < q + s
      BY <1>3, <1>6, <2>1, <2>2, <3>2
    <3>. QED  BY <3>2, <3>3
  <2>4. CASE ~(d + n < p + s) /\ ~(p + j < d + 1)
    <3>1. p + s <= d + n /\ d + 1 <= p + j
      BY <2>1, <2>2, <2>4
    <3>2. pass = c /\ d + n = p + j /\ (c # 4 => d + 1 = p + i)
      <4>1. /\ pass \in 1..6 /\ pass <= c /\ Lengths(Order[pass]) # {}
            /\ Intact(Order[c], i, j, Now, p)
            /\ pass = c => Len(done) < p + Start(Order[c], i)
            /\ p + Start(Order[c], i) <= Len(done) + Len(Matched(Order[pass]))
            /\ Len(done) + 1 <= p + j
        BY <1>1, <1>6, <3>1
      <4>2. Takes(pass, c, i, j, p)
        BY <4>1, TakesAllOrNothing
      <4>. QED  BY <4>2 DEF Takes
    <3>3. CASE c # 4
      <4>1. Order[c] # "OTP" /\ Replace(Order[c])
        BY <3>2, <3>3, OrderOfKinds, SMTT(60) DEF Replace, ReplaceCode
      <4>2. Gone(Order[c], i, j, w, d + 1)
        BY <1>4, <1>6, <3>2, <3>3, <4>1, ReplacedIsGone
      <4>3. d + 1 \in Nat
        BY NowIs
      <4>. QED  BY <3>2, <4>2, <4>3
    <3>4. CASE c = 4
      <4>1. Order[c] = "OTP" /\ ReplaceCode("OTP")
        BY <3>2, <3>4, OrderOfKinds DEF Replace, ReplaceCode
      <4>2. Gone("OTP", i, j, w, d + 2)
        BY <1>6, <3>2, <4>1, CodeIsGone
      <4>3. d + 2 \in Nat
        BY NowIs
      <4>. QED  BY <3>2, <4>1, <4>2, <4>3
    <3>. QED  BY <3>3, <3>4
  <2>. QED  BY <2>3, <2>4
<1>. HIDE DEF d, n
<1>7. CASE pass < c
  <2>1. PICK p \in Int : Intact(Order[c], i, j, Now, p)
    BY <1>7 DEF Followed
  <2>2. pass <= c /\ pass # c /\ ~(pass > c)
    BY <1>7
  <2>. QED  BY <1>1, <1>6, <2>1, <2>2, FollowedNext
<1>8. CASE pass = c
  <2>1. \/ \E p \in Int : Intact(Order[c], i, j, Now, p) /\ d < p + Start(Order[c], i)
        \/ \E x \in Nat : Gone(Order[c], i, j, Now, x)
    BY <1>8 DEF Followed, d
  <2>2. pass <= c /\ ~(pass < c) /\ ~(pass > c)
    BY <1>8
  <2>3. \/ \E p \in Int : Intact(Order[c], i, j, w, p) /\ Len(done') < p + Start(Order[c], i)
        \/ \E x \in Nat : Gone(Order[c], i, j, w, x)
    BY <1>5, <1>6, <1>8, <2>1, <2>2
  <2>. QED  BY <1>1, <2>2, <2>3, FollowedNext
<1>9. CASE pass > c
  <2>1. \E x \in Nat : Gone(Order[c], i, j, Now, x)
    BY <1>9 DEF Followed
  <2>2. ~(pass < c) /\ pass # c
    BY <1>9
  <2>. QED  BY <1>1, <1>5, <2>1, <2>2, FollowedNext
<1>. QED  BY <1>7, <1>8, <1>9

\* With the text gone through, the next substitution begins with it.
LEMMA NextPassKeepsText ==
    ASSUME RedactionType, pass \in 1..6, NextPass
    PROVE  /\ RedactionType' /\ Now' = Now /\ given' = given
           /\ pass' = pass + 1 /\ done' = <<>> /\ Now = done /\ rest' = Now
<1>1. done \in Seq(AnyToken) /\ rest = <<>> /\ rest' = done /\ done' = <<>> /\ pass' = pass + 1 /\ given' = given
  BY DEF RedactionType, NextPass
<1>2. done \o <<>> = done /\ <<>> \o done = done
  BY <1>1, ConcatEmptySeq
<1>3. Now = done /\ Now' = done
  BY <1>1, <1>2 DEF Now
<1>4. done' \in Seq(AnyToken)
  BY <1>1
<1>. QED  BY <1>1, <1>3, <1>4 DEF RedactionType

LEMMA NextPassFollows ==
    ASSUME RedactionType, pass \in 1..6, NextPass,
           NEW c \in 1..6, NEW i \in 1..Len(given.text), NEW j \in 1..Len(given.text), i <= j,
           Is(Order[c], i, j), Followed(c, i, j)
    PROVE  Followed(c, i, j)'
<1>1. Now' = Now /\ given' = given /\ pass' = pass + 1 /\ Len(done') = 0 /\ Now = done
  BY NextPassKeepsText, EmptySeq
<1>2. Order[c] \in KindNames
  BY OrderOfKinds DEF KindNames
<1>3. ASSUME NEW p \in Int, Intact(Order[c], i, j, Now, p)
      PROVE  Len(done') < p + Start(Order[c], i) /\ ~(Len(done) < p + Start(Order[c], i))
  <2>1. /\ Start(Order[c], i) \in 1..i /\ i \in Int /\ j \in Int /\ i <= j
        /\ 1 <= p + Start(Order[c], i) /\ p + j <= Len(Now)
    BY <1>2, <1>3, WhatStands
  <2>2. Len(done) \in Int
    BY NowIs
  <2>. QED  BY <1>1, <2>1, <2>2
<1>4. CASE pass < c
  <2>1. \E p \in Int : Intact(Order[c], i, j, Now, p)
    BY <1>4 DEF Followed
  <2>. QED  BY <1>1, <1>3, <1>4, <2>1, FollowedNext
<1>5. CASE pass = c
  <2>1. \E x \in Nat : Gone(Order[c], i, j, Now, x)
    BY <1>3, <1>5 DEF Followed
  <2>2. ~(pass' < c) /\ pass' # c
    BY <1>1, <1>5
  <2>. QED  BY <1>1, <2>1, <2>2, FollowedNext
<1>6. CASE pass > c
  <2>1. \E x \in Nat : Gone(Order[c], i, j, Now, x)
    BY <1>6 DEF Followed
  <2>2. ~(pass' < c) /\ pass' # c
    BY <1>1, <1>6
  <2>. QED  BY <1>1, <2>1, <2>2, FollowedNext
<1>. QED  BY <1>4, <1>5, <1>6

LEMMA FollowedStep ==
    ASSUME RedactionType, FollowedInv, RedactionNext
    PROVE  FollowedInv'
<1>1. given' = given /\ pass \in 1..6
  BY OrderOfKinds DEF RedactionType, RedactionNext, PutBack, Replace, ReplaceCode, GoOn, NextPass
<1>2. SUFFICES ASSUME NEW c \in 1..6, NEW i \in 1..Len(given.text), NEW j \in 1..Len(given.text),
                      i <= j, Is(Order[c], i, j)'
               PROVE  Followed(c, i, j)'
  BY <1>1 DEF FollowedInv
<1>3. Is(Order[c], i, j)
  BY <1>1, <1>2, IsNext
<1>4. Followed(c, i, j)
  BY <1>2, <1>3 DEF FollowedInv
<1>5. CASE PutBack(Order[pass])
  BY <1>1, <1>2, <1>3, <1>4, <1>5, PuttingBackFollows
<1>6. CASE Replace(Order[pass]) \/ ReplaceCode(Order[pass])
  BY <1>1, <1>2, <1>3, <1>4, <1>6, RewritingFollows
<1>7. CASE GoOn(Order[pass])
  BY <1>1, <1>2, <1>3, <1>4, <1>7, GoingOnFollows
<1>8. CASE NextPass
  BY <1>1, <1>2, <1>3, <1>4, <1>8, NextPassFollows
<1>. QED  BY <1>5, <1>6, <1>7, <1>8 DEF RedactionNext

\* In the text itself everything is as it is.
LEMMA IntactInText ==
    ASSUME RedactionType, NEW kind \in KindNames,
           NEW i \in 1..Len(given.text), NEW j \in 1..Len(given.text), i <= j, Is(kind, i, j)
    PROVE  Intact(kind, i, j, given.text, 0) /\ 0 < 0 + Start(kind, i)
<1>. DEFINE text == given.text
            s == Start(kind, i)
<1>1. /\ i \in Nat \ {0} /\ j \in Nat /\ Len(text) \in Nat /\ j <= Len(text)
      /\ \A k \in 1..Len(text) : text[k].at = k
  BY RawTokens
<1>2. s \in 1..i
  <2>1. CASE kind = "OTP"
    BY <2>1, WhatIs
  <2>2. CASE kind # "OTP"
    BY <1>1, <2>2 DEF Start
  <2>. QED  BY <2>1, <2>2
<1>3. kind \notin {"EMAIL", "PAN"} => Apart(i, j)
  BY WhatIs DEF KindNames
<1>4. kind \in {"PHONE", "PAN"} => ~BehindKeyword(i)
  BY WhatIs
<1>. HIDE DEF text, s
<1>5. 1 <= 0 + s /\ 0 + j <= Len(text) /\ 0 + i = i /\ 0 + j = j
  BY <1>1, <1>2
<1>6. \A k \in s..j : text[0 + k] = text[k]
  BY <1>1, <1>2
<1>7. \A x \in 1..Len(text) : x < 0 + i \/ 0 + j < x => text[x].at \notin i..j
  BY <1>1
<1>8. kind \notin {"EMAIL", "PAN"} =>
          /\ 0 + i > 1 => text[0 + i - 1].kind # "group"
          /\ 0 + j < Len(text) => text[0 + j + 1].kind # "group"
  BY <1>3, <1>5 DEF Apart, text
<1>9. /\ kind \in {"PHONE", "PAN"} /\ 0 + i > 1 => text[0 + i - 1].kind # "keyword"
      /\ kind = "PHONE" /\ 0 + i > 2 /\ IsShort(text[0 + i - 1]) => text[0 + i - 2].kind # "keyword"
  BY <1>4, <1>5 DEF BehindKeyword, text
<1>10. Intact(kind, i, j, text, 0)
  BY <1>5, <1>6, <1>7, <1>8, <1>9 DEF Intact, text, s
<1>. QED  BY <1>2, <1>5, <1>10 DEF text, s

LEMMA FollowedInit ==
    ASSUME RedactionType, done = <<>>, rest = given.text, pass = 1
    PROVE  FollowedInv
<1>1. Now = given.text /\ Len(done) = 0
  <2>1. rest \in Seq(AnyToken)
    BY DEF RedactionType
  <2>. QED  BY <2>1, ConcatEmptySeq, EmptySeq DEF Now
<1>2. SUFFICES ASSUME NEW c \in 1..6, NEW i \in 1..Len(given.text), NEW j \in 1..Len(given.text),
                      i <= j, Is(Order[c], i, j)
               PROVE  Followed(c, i, j)
  BY DEF FollowedInv
<1>3. Order[c] \in KindNames
  BY OrderOfKinds DEF KindNames
<1>4. Intact(Order[c], i, j, Now, 0) /\ Len(done) < 0 + Start(Order[c], i)
  BY <1>1, <1>2, <1>3, IntactInText
<1>5. ~(pass > c) /\ 0 \in Int
  OBVIOUS
<1>. QED  BY <1>4, <1>5 DEF Followed

-------------------------------------------------------------------------------
(***************************************************************************)
(* Masking: what no text holds any more.                                   *)
(***************************************************************************)

\* Of one token, a substitution of single tokens finds all.
LEMMA NoneFoundNotSingle ==
    ASSUME RedactionType, NEW c \in {1, 5, 6}, Len(rest) > 0, Lengths(Order[c]) = {}
    PROVE  ~Single(c, rest[1])
<1>1. rest \in Seq(AnyToken) /\ 1 \in 1..Len(rest) /\ 1 \in 1..1
  BY NowIs DEF RedactionType
<1>2. ~Fits(Order[c], SubSeq(rest, 1, 1))
  BY <1>1 DEF Lengths
<1>. DEFINE run == SubSeq(rest, 1, 1)
<1>4. Len(run) = 1 /\ run[1] = rest[1]
  <2>1. 1 \in Int /\ 1 <= 1 /\ 1 - 1 + 1 = 1 /\ 1 + 1 - 1 = 1 /\ \A x \in 1..1 : rest[x] \in AnyToken
    BY <1>1, ElementOfSeq
  <2>2. /\ Len(run) = IF 1 <= 1 THEN 1 - 1 + 1 ELSE 0
        /\ \A x \in 1..(1 - 1 + 1) : run[x] = rest[1 + x - 1]
    BY <1>1, <2>1, SubSeqProperties
  <2>3. run[1] = rest[1 + 1 - 1]
    BY <2>1, <2>2
  <2>. QED  BY <2>1, <2>2, <2>3
<1>. HIDE DEF run
<1>5. ~Fits(Order[c], run)
  BY <1>2 DEF run
<1>6. CASE c = 1
  <2>1. ~Fits("EMAIL", run)
    BY <1>5, <1>6, OrderOfKinds
  <2>2. run[1].kind # "email"
    BY <1>4, <2>1 DEF Fits
  <2>. QED  BY <1>4, <1>6, <2>2 DEF Single
<1>7. CASE c = 5
  <2>1. ~Fits("PHONE", run)
    BY <1>5, <1>7, OrderOfKinds
  <2>2. ~LooksLikePhone(run[1])
    BY <1>4, <2>1 DEF Fits
  <2>. QED  BY <1>4, <1>7, <2>2 DEF Single
<1>8. CASE c = 6
  <2>1. ~Fits("PAN", run)
    BY <1>5, <1>8, OrderOfKinds
  <2>2. run[1].kind # "pan"
    BY <1>4, <2>1 DEF Fits
  <2>. QED  BY <1>4, <1>8, <2>2 DEF Single
<1>. QED  BY <1>6, <1>7, <1>8

\* A replacement brings no address, no PAN and, but for what is left of a code, no number.
LEMMA NoNewSingles ==
    ASSUME NEW v \in Seq(AnyToken), NEW w \in Seq(AnyToken), NEW d, NEW n, NEW m, Rewritten(v, w, d, n, m),
           NEW c \in {1, 5, 6}, c = 1 \/ m = 1,
           \A x \in 1..Len(v) : ~Single(c, v[x])
    PROVE  \A x \in 1..Len(w) : ~Single(c, w[x])
<1>. SUFFICES ASSUME NEW x \in 1..Len(w)  PROVE  ~Single(c, w[x])
  OBVIOUS
<1>1. /\ d \in Nat /\ n \in Nat \ {0} /\ m \in Nat \ {0} /\ Len(v) \in Nat /\ Len(w) \in Nat
      /\ d + n <= Len(v) /\ Len(w) = Len(v) - n + m
      /\ \A y \in 1..d : w[y] = v[y]
      /\ \A y \in (d + m + 1)..Len(w) : y + n - m \in (d + n + 1)..Len(v) /\ w[y] = v[y + n - m]
  BY Elsewhere
<1>2. CASE x <= d
  <2>1. x \in 1..d /\ x \in 1..Len(v)
    BY <1>1, <1>2
  <2>. QED  BY <1>1, <2>1
<1>3. CASE x \in (d + 1)..(d + m)
  <2>1. w[x].kind \notin {"email", "pan"} /\ w[d + 1].kind # "group"
    BY <1>3 DEF Rewritten
  <2>2. m = 1 => x = d + 1
    BY <1>1, <1>3
  <2>. QED  BY <2>1, <2>2 DEF Single, LooksLikePhone
<1>4. CASE x > d + m
  <2>1. x \in (d + m + 1)..Len(w)
    BY <1>1, <1>4
  <2>2. x + n - m \in 1..Len(v) /\ w[x] = v[x + n - m]
    BY <1>1, <2>1
  <2>. QED  BY <2>2
<1>. QED  BY <1>1, <1>2, <1>3, <1>4

\* What a substitution leaves of those before it.
LEMMA SinglesStep ==
    ASSUME RedactionType, SinglesInv, RedactionNext
    PROVE  SinglesInv'
<1>1. pass \in 1..6
  BY OrderOfKinds DEF RedactionType, RedactionNext
<1>2. SUFFICES ASSUME NEW c \in {1, 5, 6}
               PROVE  /\ pass' = c => \A x \in 1..Len(done') : ~Single(c, done'[x])
                      /\ pass' > c => \A x \in 1..Len(Now') : ~Single(c, Now'[x])
  BY DEF SinglesInv, Single, LooksLikePhone
<1>3. /\ pass = c => \A x \in 1..Len(done) : ~Single(c, done[x])
      /\ pass > c => \A x \in 1..Len(Now) : ~Single(c, Now[x])
  BY DEF SinglesInv
<1>4. Len(done) \in Nat
  BY NowIs
<1>5. CASE PutBack(Order[pass])
  <2>1. pass = 2 /\ pass' = pass /\ Now' = Now
    BY <1>1, <1>5, OrderOfKinds, PuttingBackKeepsText DEF PutBack, FailsTest
  <2>. QED  BY <1>3, <2>1
<1>6. CASE Replace(Order[pass])
  <2>1. pass' = pass /\ Order[pass] \in {"EMAIL", "CARD", "AADHAAR", "PHONE", "PAN"}
    BY <1>1, <1>6, OrderOfKinds DEF Replace
  <2>2. /\ Rewritten(Now, Now', Len(done), Len(Matched(Order[pass])), 1) /\ RedactionType'
        /\ Len(done') = Len(done) + 1
        /\ \A x \in 1..Len(done) : done'[x] = done[x]
        /\ done'[Len(done) + 1] = Masked(Order[pass], Now[Len(done) + 1].at)
    BY <1>6, <2>1, ReplacingRewrites
  <2>3. CASE pass = c
    <3>1. ~Single(c, done'[Len(done) + 1])
      BY <2>1, <2>2 DEF Masked, Token, Single, LooksLikePhone
    <3>2. \A x \in 1..Len(done') : x \in 1..Len(done) \/ x = Len(done) + 1
      BY <1>4, <2>2
    <3>. QED  BY <1>3, <2>1, <2>2, <2>3, <3>1, <3>2
  <2>4. CASE pass > c
    <3>1. Now \in Seq(AnyToken) /\ Now' \in Seq(AnyToken)
      <4>1. done' \in Seq(AnyToken) /\ rest' \in Seq(AnyToken)
        BY <2>2 DEF RedactionType
      <4>. QED  BY <4>1, Joined, NowIs DEF Now
    <3>2. \A x \in 1..Len(Now') : ~Single(c, Now'[x])
      BY <1>3, <2>2, <2>4, <3>1, NoNewSingles
    <3>. QED  BY <2>1, <2>4, <3>2
  <2>. QED  BY <2>1, <2>3, <2>4
<1>7. CASE ReplaceCode(Order[pass])
  <2>1. pass' = pass /\ pass = 4 /\ ReplaceCode("OTP")
    <3>1. Order[pass] = "OTP" /\ pass' = pass
      BY <1>7 DEF ReplaceCode
    <3>2. \A k \in 1..6 : Order[k] = "OTP" => k = 4
      BY OrderOfKinds
    <3>3. ReplaceCode("OTP")
      BY <1>7, <3>1
    <3>. QED  BY <1>1, <3>1, <3>2, <3>3
  <2>2. RedactionType' /\ \E m \in Nat : Rewritten(Now, Now', Len(done), Len(Matched("OTP")), m)
    BY <2>1, CodeRewrites
  <2>3. PICK m \in Nat : Rewritten(Now, Now', Len(done), Len(Matched("OTP")), m)
    BY <2>2
  <2>4. CASE c = 1
    <3>1. Now \in Seq(AnyToken) /\ Now' \in Seq(AnyToken)
      <4>1. done' \in Seq(AnyToken) /\ rest' \in Seq(AnyToken)
        BY <2>2 DEF RedactionType
      <4>. QED  BY <4>1, Joined, NowIs DEF Now
    <3>2. \A x \in 1..Len(Now) : ~Single(c, Now[x])
      BY <1>3, <2>1, <2>4
    <3>3. \A x \in 1..Len(Now') : ~Single(c, Now'[x])
      BY <2>3, <2>4, <3>1, <3>2, NoNewSingles
    <3>. QED  BY <2>1, <2>4, <3>3
  <2>5. CASE c # 1
    BY <2>1, <2>5
  <2>. QED  BY <2>4, <2>5
<1>8. CASE GoOn(Order[pass])
  <2>1. /\ pass' = pass /\ Now' = Now /\ Len(done') = Len(done) + 1
        /\ \A x \in 1..Len(done) : done'[x] = done[x]
        /\ done'[Len(done) + 1] = Now[Len(done) + 1]
    BY <1>8, GoingOnKeepsText DEF GoOn
  <2>2. CASE pass = c
    <3>1. rest # <<>> /\ Lengths(Order[c]) = {} /\ rest \in Seq(AnyToken)
      BY <1>8, <2>2 DEF GoOn, RedactionType
    <3>2. Len(rest) > 0 /\ 1 \in 1..Len(rest)
      BY <3>1, EmptySeq
    <3>3. Now[Len(done) + 1] = rest[1]
      BY <3>2, NowIs
    <3>4. ~Single(c, done'[Len(done) + 1])
      BY <2>1, <3>1, <3>2, <3>3, NoneFoundNotSingle
    <3>5. \A x \in 1..Len(done') : x \in 1..Len(done) \/ x = Len(done) + 1
      BY <1>4, <2>1
    <3>. QED  BY <1>3, <2>1, <2>2, <3>4, <3>5
  <2>3. CASE pass # c
    BY <1>3, <2>1, <2>3
  <2>. QED  BY <2>2, <2>3
<1>9. CASE NextPass
  <2>1. pass' = pass + 1 /\ Now' = Now /\ Len(done') = 0 /\ Now = done
    BY <1>1, <1>9, NextPassKeepsText, EmptySeq
  <2>2. pass' > c => pass = c \/ pass > c
    BY <1>1, <2>1
  <2>. QED  BY <1>3, <2>1, <2>2
<1>. QED  BY <1>5, <1>6, <1>7, <1>8, <1>9 DEF RedactionNext

\* The tokens of a run, and their places.
LEMMA InRun ==
    ASSUME NEW w \in Seq(AnyToken), NEW s \in Int, NEW e \in Int, 1 <= s, e <= Len(w),
           NEW x \in s..e
    PROVE  /\ w[x].at \in Places(SubSeq(w, s, e))
           /\ LooksLikeAadhaar(SubSeq(w, s, e)) => w[x].kind = "group"
<1>. DEFINE run == SubSeq(w, s, e)
<1>1. Len(w) \in Nat /\ \A k \in s..e : w[k] \in AnyToken
  <2>1. Len(w) \in Nat
    BY LenProperties
  <2>. QED  BY <2>1, ElementOfSeq
<1>2. /\ run \in Seq(AnyToken)
      /\ Len(run) = IF s <= e THEN e - s + 1 ELSE 0
      /\ \A k \in 1..(e - s + 1) : run[k] = w[s + k - 1]
  BY <1>1, SubSeqProperties
<1>. DEFINE k == x - s + 1
<1>3. s <= e /\ k \in 1..(e - s + 1) /\ s + k - 1 = x
  OBVIOUS
<1>. HIDE DEF run, k
<1>4. run[k] = w[x] /\ k \in 1..Len(run)
  BY <1>2, <1>3
<1>5. DOMAIN run = 1..Len(run)
  BY <1>2, LenProperties
<1>6. w[x].at \in Places(run)
  BY <1>4, <1>5 DEF Places
<1>7. LooksLikeAadhaar(run) => w[x].kind = "group"
  BY <1>4, <1>5 DEF LooksLikeAadhaar, AreGroups
<1>. QED  BY <1>6, <1>7 DEF run

\* A replacement makes no Aadhaar number but of what is left of a code.
LEMMA NoNewAadhaar ==
    ASSUME NEW v \in Seq(AnyToken), NEW w \in Seq(AnyToken), NEW d, NEW n, NEW m, Rewritten(v, w, d, n, m),
           NEW s \in 1..Len(w), NEW e \in 1..Len(w), s <= e,
           LooksLikeAadhaar(SubSeq(w, s, e)),
           0 \notin Places(SubSeq(w, s, e)) \/ m = 1
    PROVE  \/ e <= d /\ SubSeq(w, s, e) = SubSeq(v, s, e)
           \/ /\ d + m < s /\ s + (n - m) \in 1..Len(v) /\ e + (n - m) \in 1..Len(v)
              /\ s + (n - m) <= e + (n - m)
              /\ SubSeq(w, s, e) = SubSeq(v, s + (n - m), e + (n - m))
<1>1. /\ d \in Nat /\ n \in Nat \ {0} /\ m \in Nat \ {0} /\ Len(v) \in Nat /\ Len(w) \in Nat
      /\ d + n <= Len(v) /\ Len(w) = Len(v) - n + m
      /\ \A y \in 1..d : w[y] = v[y]
      /\ \A y \in (d + m + 1)..Len(w) : y + n - m \in (d + n + 1)..Len(v) /\ w[y] = v[y + n - m]
  BY Elsewhere
<1>2. s \in Int /\ e \in Int /\ 1 <= s /\ e <= Len(w) /\ s \in Nat
  BY <1>1
<1>3. \A x \in s..e : w[x].kind = "group" /\ w[x].at \in Places(SubSeq(w, s, e))
  BY <1>2, InRun
<1>4. \A x \in (d + 1)..(d + m) : x \notin s..e
  <2>. SUFFICES ASSUME NEW x \in (d + 1)..(d + m), x \in s..e  PROVE  FALSE
    OBVIOUS
  <2>1. w[x].kind = "group" /\ w[x].at \in Places(SubSeq(w, s, e))
    BY <1>3
  <2>2. w[x].at = 0 /\ w[d + 1].kind # "group"
    BY <2>1 DEF Rewritten
  <2>3. m = 1 => x = d + 1
    BY <1>1
  <2>. QED  BY <2>1, <2>2, <2>3
<1>5. e <= d \/ d + m < s
  <2>. SUFFICES ASSUME ~(e <= d), ~(d + m < s)  PROVE  FALSE
    OBVIOUS
  <2>1. CASE s <= d + 1
    <3>1. d + 1 \in (d + 1)..(d + m) /\ d + 1 \in s..e
      BY <1>1, <1>2, <2>1
    <3>. QED  BY <1>4, <3>1
  <2>2. CASE s > d + 1
    <3>1. s \in (d + 1)..(d + m) /\ s \in s..e
      BY <1>1, <1>2, <2>2
    <3>. QED  BY <1>4, <3>1
  <2>. QED  BY <1>1, <1>2, <2>1, <2>2
<1>6. CASE e <= d
  <2>1. 0 \in Int /\ s + 0 = s /\ e + 0 = e /\ 1 <= s + 0 /\ e + 0 <= Len(v)
    BY <1>1, <1>2, <1>6
  <2>2. \A x \in s..e : w[x] = v[x + 0]
    <3>1. \A x \in s..e : x \in 1..d /\ x + 0 = x
      BY <1>1, <1>2, <1>6
    <3>. QED  BY <1>1, <3>1
  <2>3. SubSeq(w, s, e) = SubSeq(v, s + 0, e + 0)
    BY <1>2, <2>1, <2>2, SameRun
  <2>. QED  BY <1>6, <2>1, <2>3
<1>7. CASE d + m < s
  <2>. DEFINE shift == n - m
  <2>1. /\ shift \in Int /\ 1 <= s + shift /\ e + shift <= Len(v) /\ s + shift <= e + shift
        /\ s + shift \in 1..Len(v) /\ e + shift \in 1..Len(v)
    BY <1>1, <1>2, <1>7
  <2>2. \A x \in s..e : w[x] = v[x + shift]
    <3>1. \A x \in s..e : x \in (d + m + 1)..Len(w) /\ x + n - m = x + shift
      BY <1>1, <1>2, <1>7
    <3>. HIDE DEF shift
    <3>. QED  BY <1>1, <3>1
  <2>. HIDE DEF shift
  <2>3. SubSeq(w, s, e) = SubSeq(v, s + shift, e + shift)
    BY <1>2, <2>1, <2>2, SameRun, SMTT(60)
  <2>. QED  BY <1>7, <2>1, <2>3 DEF shift
<1>. QED  BY <1>5, <1>6, <1>7

LEMMA AadhaarStep ==
    ASSUME RedactionType, AadhaarInv, RedactionNext
    PROVE  AadhaarInv'
<1>1. pass \in 1..6 /\ Now \in Seq(AnyToken) /\ Len(done) \in Nat /\ Len(rest) \in Nat
      /\ Len(Now) = Len(done) + Len(rest)
  BY OrderOfKinds, NowIs DEF RedactionType, RedactionNext
<1>2. SUFFICES
        /\ pass' = 3 => \A s \in 1..Len(done'), e \in 1..Len(Now') :
              s <= e => ~LooksLikeAadhaar(SubSeq(Now', s, e))
        /\ pass' > 3 => \A s, e \in 1..Len(Now') :
              s <= e /\ 0 \notin Places(SubSeq(Now', s, e)) => ~LooksLikeAadhaar(SubSeq(Now', s, e))
  BY DEF AadhaarInv, LooksLikeAadhaar, AreGroups, Places
<1>3. /\ pass = 3 => \A s \in 1..Len(done), e \in 1..Len(Now) :
            s <= e => ~LooksLikeAadhaar(SubSeq(Now, s, e))
      /\ pass > 3 => \A s, e \in 1..Len(Now) :
            s <= e /\ 0 \notin Places(SubSeq(Now, s, e)) => ~LooksLikeAadhaar(SubSeq(Now, s, e))
  BY DEF AadhaarInv
<1>4. CASE PutBack(Order[pass])
  <2>1. pass = 2 /\ pass' = pass
    <3>1. Order[pass] = "CARD" /\ pass' = pass
      BY <1>4 DEF PutBack, FailsTest
    <3>2. \A k \in 1..6 : Order[k] = "CARD" => k = 2
      BY OrderOfKinds
    <3>. QED  BY <1>1, <3>1, <3>2
  <2>. QED  BY <2>1
<1>5. CASE Replace(Order[pass])
  <2>1. pass' = pass /\ Order[pass] \in {"EMAIL", "CARD", "AADHAAR", "PHONE", "PAN"}
    BY <1>1, <1>5, OrderOfKinds DEF Replace
  <2>. DEFINE d == Len(done)
              n == Len(Matched(Order[pass]))
  <2>2. /\ Rewritten(Now, Now', d, n, 1) /\ RedactionType'
        /\ Len(done') = d + 1
    BY <1>5, <2>1, ReplacingRewrites
  <2>3. Now' \in Seq(AnyToken)
    <3>1. done' \in Seq(AnyToken) /\ rest' \in Seq(AnyToken)
      BY <2>2 DEF RedactionType
    <3>. QED  BY <3>1, Joined DEF Now
  <2>. HIDE DEF n
  <2>4. ASSUME NEW s \in 1..Len(Now'), NEW e \in 1..Len(Now'), s <= e, LooksLikeAadhaar(SubSeq(Now', s, e))
        PROVE  \/ e <= d /\ SubSeq(Now', s, e) = SubSeq(Now, s, e)
               \/ /\ d + 1 < s /\ s + (n - 1) \in 1..Len(Now) /\ e + (n - 1) \in 1..Len(Now)
                  /\ s + (n - 1) <= e + (n - 1)
                  /\ SubSeq(Now', s, e) = SubSeq(Now, s + (n - 1), e + (n - 1))
    <3>. DEFINE v == Now
                w == Now'
    <3>1. /\ v \in Seq(AnyToken) /\ w \in Seq(AnyToken) /\ Rewritten(v, w, d, n, 1)
          /\ s \in 1..Len(w) /\ e \in 1..Len(w) /\ LooksLikeAadhaar(SubSeq(w, s, e))
          /\ 0 \notin Places(SubSeq(w, s, e)) \/ 1 = 1
      BY <1>1, <2>2, <2>3, <2>4
    <3>. HIDE DEF d, v, w
    <3>2. \/ e <= d /\ SubSeq(w, s, e) = SubSeq(v, s, e)
          \/ /\ d + 1 < s /\ s + (n - 1) \in 1..Len(v) /\ e + (n - 1) \in 1..Len(v)
             /\ s + (n - 1) <= e + (n - 1)
             /\ SubSeq(w, s, e) = SubSeq(v, s + (n - 1), e + (n - 1))
      BY <2>4, <3>1, NoNewAadhaar
    <3>. QED  BY <3>2 DEF v, w
  <2>5. ASSUME pass = 3, NEW s \in 1..Len(done'), NEW e \in 1..Len(Now'), s <= e,
               LooksLikeAadhaar(SubSeq(Now', s, e))
        PROVE  FALSE
    <3>1. ~(d + 1 < s) /\ s \in Nat /\ s >= 1 /\ e \in Nat
      BY <1>1, <2>2, <2>5
    <3>2. s \in 1..Len(Now')
      BY <2>5, <3>1
    <3>3. e <= d /\ SubSeq(Now', s, e) = SubSeq(Now, s, e)
      BY <2>4, <2>5, <3>1, <3>2
    <3>4. s \in 1..Len(done) /\ e \in 1..Len(Now)
      BY <1>1, <2>5, <3>1, <3>3
    <3>. QED  BY <1>3, <2>5, <3>3, <3>4
  <2>6. ASSUME pass > 3, NEW s \in 1..Len(Now'), NEW e \in 1..Len(Now'), s <= e,
               0 \notin Places(SubSeq(Now', s, e)), LooksLikeAadhaar(SubSeq(Now', s, e))
        PROVE  FALSE
    <3>1. CASE e <= d /\ SubSeq(Now', s, e) = SubSeq(Now, s, e)
      <4>1. s \in 1..Len(Now) /\ e \in 1..Len(Now)
        BY <1>1, <2>6, <3>1
      <4>. QED  BY <1>3, <2>6, <3>1, <4>1
    <3>2. CASE /\ s + (n - 1) \in 1..Len(Now) /\ e + (n - 1) \in 1..Len(Now)
               /\ s + (n - 1) <= e + (n - 1)
               /\ SubSeq(Now', s, e) = SubSeq(Now, s + (n - 1), e + (n - 1))
      BY <1>3, <2>6, <3>2
    <3>. QED  BY <2>4, <2>6, <3>1, <3>2
  <2>. QED  BY <2>1, <2>5, <2>6
<1>6. CASE ReplaceCode(Order[pass])
  <2>1. pass = 4 /\ pass' = pass /\ ReplaceCode("OTP")
    <3>1. Order[pass] = "OTP" /\ pass' = pass
      BY <1>6 DEF ReplaceCode
    <3>2. \A k \in 1..6 : Order[k] = "OTP" => k = 4
      BY OrderOfKinds
    <3>3. ReplaceCode("OTP")
      BY <1>6, <3>1
    <3>. QED  BY <1>1, <3>1, <3>2, <3>3
  <2>. DEFINE d == Len(done)
              n == Len(Matched("OTP"))
  <2>2. RedactionType' /\ \E m \in Nat : Rewritten(Now, Now', d, n, m)
    BY <2>1, CodeRewrites
  <2>3. PICK m \in Nat : Rewritten(Now, Now', d, n, m)
    BY <2>2
  <2>4. Now' \in Seq(AnyToken)
    <3>1. done' \in Seq(AnyToken) /\ rest' \in Seq(AnyToken)
      BY <2>2 DEF RedactionType
    <3>. QED  BY <3>1, Joined DEF Now
  <2>. HIDE DEF n
  <2>5. ASSUME NEW s \in 1..Len(Now'), NEW e \in 1..Len(Now'), s <= e,
               0 \notin Places(SubSeq(Now', s, e)), LooksLikeAadhaar(SubSeq(Now', s, e))
        PROVE  FALSE
    <3>1. \/ e <= d /\ SubSeq(Now', s, e) = SubSeq(Now, s, e)
          \/ /\ d + m < s /\ s + (n - m) \in 1..Len(Now) /\ e + (n - m) \in 1..Len(Now)
             /\ s + (n - m) <= e + (n - m)
             /\ SubSeq(Now', s, e) = SubSeq(Now, s + (n - m), e + (n - m))
      <4>. DEFINE v == Now
                  w == Now'
      <4>1. /\ v \in Seq(AnyToken) /\ w \in Seq(AnyToken) /\ Rewritten(v, w, d, n, m)
            /\ s \in 1..Len(w) /\ e \in 1..Len(w) /\ LooksLikeAadhaar(SubSeq(w, s, e))
            /\ 0 \notin Places(SubSeq(w, s, e)) \/ m = 1
        BY <1>1, <2>3, <2>4, <2>5
      <4>. HIDE DEF d, v, w
      <4>2. \/ e <= d /\ SubSeq(w, s, e) = SubSeq(v, s, e)
            \/ /\ d + m < s /\ s + (n - m) \in 1..Len(v) /\ e + (n - m) \in 1..Len(v)
               /\ s + (n - m) <= e + (n - m)
               /\ SubSeq(w, s, e) = SubSeq(v, s + (n - m), e + (n - m))
        BY <2>5, <4>1, NoNewAadhaar
      <4>. QED  BY <4>2 DEF v, w
    <3>2. CASE e <= d /\ SubSeq(Now', s, e) = SubSeq(Now, s, e)
      <4>1. s \in 1..Len(Now) /\ e \in 1..Len(Now)
        BY <1>1, <2>5, <3>2
      <4>. QED  BY <1>3, <2>1, <2>5, <3>2, <4>1
    <3>3. CASE /\ s + (n - m) \in 1..Len(Now) /\ e + (n - m) \in 1..Len(Now)
               /\ s + (n - m) <= e + (n - m)
               /\ SubSeq(Now', s, e) = SubSeq(Now, s + (n - m), e + (n - m))
      BY <1>3, <2>1, <2>5, <3>3
    <3>. QED  BY <3>1, <3>2, <3>3
  <2>. QED  BY <2>1, <2>5
<1>7. CASE GoOn(Order[pass])
  <2>1. pass' = pass /\ Now' = Now /\ Len(done') = Len(done) + 1
    BY <1>7, GoingOnKeepsText DEF GoOn
  <2>2. ASSUME pass = 3, NEW s \in 1..Len(done'), NEW e \in 1..Len(Now), s <= e
        PROVE  ~LooksLikeAadhaar(SubSeq(Now, s, e))
    <3>1. CASE s <= Len(done)
      <4>1. s \in 1..Len(done)
        BY <1>1, <2>1, <3>1
      <4>. QED  BY <1>3, <2>2, <4>1
    <3>2. CASE s = Len(done) + 1
      <4>. DEFINE k == e - Len(done)
                  d == Len(done)
      <4>1. k \in 1..Len(rest) /\ e = k + d /\ s = 1 + d
        BY <1>1, <2>2, <3>2
      <4>2. Lengths("AADHAAR") = {}
        BY <1>7, <2>2, OrderOfKinds DEF GoOn
      <4>3. ~Fits("AADHAAR", SubSeq(rest, 1, k))
        <5>. HIDE DEF k
        <5>. QED  BY <4>1, <4>2 DEF Lengths
      <4>4. ~LooksLikeAadhaar(SubSeq(rest, 1, k))
        <5>. DEFINE run == SubSeq(rest, 1, k)
        <5>. HIDE DEF run
        <5>1. ~Fits("AADHAAR", run)
          BY <4>3 DEF run
        <5>2. ~LooksLikeAadhaar(run)
          BY <5>1 DEF Fits
        <5>. QED  BY <5>2 DEF run
      <4>5. SubSeq(rest, 1, k) = SubSeq(Now, s, e)
        <5>1. /\ rest \in Seq(AnyToken) /\ d \in Int /\ 1 \in Int /\ k \in Int /\ 1 <= 1 /\ k <= Len(rest)
              /\ 1 <= 1 + d /\ k + d <= Len(Now)
          BY <1>1, <4>1 DEF RedactionType
        <5>2. \A x \in 1..k : rest[x] = Now[x + d]
          <6>1. \A x \in 1..k : x \in 1..Len(rest) /\ x + d = d + x
            BY <1>1, <4>1
          <6>2. \A x \in 1..Len(rest) : Now[d + x] = rest[x]
            BY NowIs
          <6>. HIDE DEF d, k
          <6>. QED  BY <6>1, <6>2
        <5>. HIDE DEF d, k
        <5>3. SubSeq(rest, 1, k) = SubSeq(Now, 1 + d, k + d)
          BY <1>1, <5>1, <5>2, SameRun
        <5>. QED  BY <4>1, <5>3
      <4>. QED  BY <4>4, <4>5
    <3>. QED  BY <1>1, <2>1, <3>1, <3>2
  <2>. QED  BY <1>3, <2>1, <2>2
<1>8. CASE NextPass
  <2>1. pass' = pass + 1 /\ Now' = Now /\ Len(done') = 0 /\ Now = done
    BY <1>1, <1>8, NextPassKeepsText, EmptySeq
  <2>2. pass' > 3 => pass = 3 \/ pass > 3
    BY <1>1, <2>1
  <2>3. pass' = 3 => \A s \in 1..Len(done') : FALSE
    BY <2>1
  <2>. QED  BY <1>3, <2>1, <2>2, <2>3
<1>. QED  BY <1>4, <1>5, <1>6, <1>7, <1>8 DEF RedactionNext

-------------------------------------------------------------------------------
(***************************************************************************)
(* Masking: the invariant, and what it says of the masked text.            *)
(***************************************************************************)

LEMMA RedactionBegins ==
    ASSUME NEW text \in Seq(RawToken), NEW cards \in SUBSET SUBSET Nat,
           \A i \in DOMAIN text : text[i].at = i, RedactionInit(text, cards)
    PROVE  RedactionInv
<1>1. given.text = text /\ done = <<>> /\ rest = text /\ pass = 1
  BY DEF RedactionInit
<1>2. DOMAIN text = 1..Len(text) /\ Len(text) \in Nat
  BY LenProperties
<1>3. \A k \in 1..Len(text) : text[k] \in RawToken
  BY <1>2, ElementOfSeq
<1>4. \A k \in 1..Len(text) : text[k] \in AnyToken
  BY <1>3 DEF RawToken, AnyToken, Kinds
<1>5. text \in Seq(AnyToken)
  BY <1>2, <1>4, SeqDef
<1>6. <<>> \in Seq(AnyToken) /\ Len(<<>>) = 0
  OBVIOUS
<1>7. RedactionType
  BY <1>1, <1>2, <1>5, <1>6 DEF RedactionType
<1>8. FollowedInv
  BY <1>1, <1>7, FollowedInit
<1>9. SinglesInv
  BY <1>1, <1>6 DEF SinglesInv
<1>10. AadhaarInv
  BY <1>1 DEF AadhaarInv
<1>11. EndInv
  BY <1>1 DEF EndInv
<1>. QED  BY <1>7, <1>8, <1>9, <1>10, <1>11 DEF RedactionInv

LEMMA RedactionGoesOn ==
    ASSUME RedactionInv, [RedactionNext]_redactionVars
    PROVE  RedactionInv'
<1>1. CASE UNCHANGED redactionVars
  <2>1. given' = given /\ done' = done /\ rest' = rest /\ pass' = pass
    BY <1>1 DEF redactionVars
  <2>2. RedactionType' /\ EndInv'
    BY <2>1 DEF RedactionInv, RedactionType, EndInv
  <2>3. Now' = Now
    BY <2>1 DEF Now
  <2>4. FollowedInv'
    <3>1. SUFFICES ASSUME NEW c \in 1..6, NEW i \in 1..Len(given.text), NEW j \in 1..Len(given.text),
                          i <= j, Is(Order[c], i, j)'
                   PROVE  Followed(c, i, j)'
      BY <2>1 DEF FollowedInv
    <3>2. Is(Order[c], i, j)
      BY <2>1, <3>1, IsNext
    <3>3. Followed(c, i, j)
      BY <3>1, <3>2 DEF RedactionInv, FollowedInv
    <3>. QED  BY <2>1, <2>3, <3>3, FollowedNext DEF Followed
  <2>5. SinglesInv'
    BY <2>1, <2>3 DEF RedactionInv, SinglesInv, Single, LooksLikePhone
  <2>6. AadhaarInv'
    <3>1. SUFFICES
            /\ pass' = 3 => \A s \in 1..Len(done'), e \in 1..Len(Now') :
                  s <= e => ~LooksLikeAadhaar(SubSeq(Now', s, e))
            /\ pass' > 3 => \A s, e \in 1..Len(Now') :
                  s <= e /\ 0 \notin Places(SubSeq(Now', s, e)) => ~LooksLikeAadhaar(SubSeq(Now', s, e))
      BY DEF AadhaarInv, LooksLikeAadhaar, AreGroups, Places
    <3>. QED  BY <2>1, <2>3 DEF RedactionInv, AadhaarInv
  <2>. QED  BY <2>2, <2>4, <2>5, <2>6 DEF RedactionInv
<1>2. CASE RedactionNext
  <2>1. RedactionType /\ FollowedInv /\ SinglesInv /\ AadhaarInv
    BY DEF RedactionInv
  <2>2. pass \in 1..6
    BY <1>2, <2>1, OrderOfKinds DEF RedactionType, RedactionNext
  <2>3. RedactionType' /\ EndInv'
    <3>1. CASE PutBack(Order[pass])
      <4>1. RedactionType' /\ pass' = pass
        BY <2>1, <3>1, PuttingBackKeepsText DEF PutBack
      <4>. QED  BY <2>2, <4>1 DEF EndInv
    <3>2. CASE Replace(Order[pass])
      <4>1. Order[pass] \in {"EMAIL", "CARD", "AADHAAR", "PHONE", "PAN"} /\ pass' = pass
        BY <2>2, <3>2, OrderOfKinds DEF Replace
      <4>2. RedactionType'
        BY <2>1, <3>2, <4>1, ReplacingRewrites
      <4>. QED  BY <2>2, <4>1, <4>2 DEF EndInv
    <3>3. CASE ReplaceCode(Order[pass])
      <4>1. ReplaceCode("OTP") /\ pass' = pass
        BY <3>3 DEF ReplaceCode
      <4>2. RedactionType'
        BY <2>1, <4>1, CodeRewrites
      <4>. QED  BY <2>2, <4>1, <4>2 DEF EndInv
    <3>4. CASE GoOn(Order[pass])
      <4>1. RedactionType' /\ pass' = pass
        BY <2>1, <3>4, GoingOnKeepsText DEF GoOn
      <4>. QED  BY <2>2, <4>1 DEF EndInv
    <3>5. CASE NextPass
      BY <2>1, <2>2, <3>5, NextPassKeepsText DEF EndInv
    <3>. QED  BY <1>2, <3>1, <3>2, <3>3, <3>4, <3>5 DEF RedactionNext
  <2>. QED  BY <1>2, <2>1, <2>3, FollowedStep, SinglesStep, AadhaarStep DEF RedactionInv
<1>. QED  BY <1>1, <1>2

LEMMA MaskedInTheEnd ==
    ASSUME RedactionInv, Redacted
    PROVE  /\ \A kind \in Tokens(Order), i, j \in DOMAIN given.text :
                 i <= j /\ Is(kind, i, j) =>
                     {t \in Tokens(rest) : t.at \in i..j} = {Masked(kind, i)}
           /\ \A t \in Tokens(rest) : t.kind \notin {"email", "pan"} /\ ~LooksLikePhone(t)
           /\ \A i, j \in DOMAIN rest :
                 i <= j /\ 0 \notin Places(SubSeq(rest, i, j)) => ~LooksLikeAadhaar(SubSeq(rest, i, j))
<1>1. RedactionType /\ FollowedInv /\ SinglesInv /\ AadhaarInv /\ EndInv
  BY DEF RedactionInv
<1>2. pass = 7 /\ pass > 3
  BY <1>1, OrderOfKinds DEF RedactionType, Redacted
<1>3. /\ rest \in Seq(AnyToken) /\ DOMAIN rest = 1..Len(rest) /\ Len(rest) \in Nat
      /\ DOMAIN given.text = 1..Len(given.text)
  BY <1>1, LenProperties, RawTokens DEF RedactionType
<1>4. Now = rest
  <2>1. done = <<>>
    BY <1>1, <1>2 DEF EndInv
  <2>. QED  BY <1>3, <2>1, ConcatEmptySeq DEF Now
<1>5. ASSUME NEW kind \in Tokens(Order), NEW i \in DOMAIN given.text, NEW j \in DOMAIN given.text,
             i <= j, Is(kind, i, j)
      PROVE  {t \in Tokens(rest) : t.at \in i..j} = {Masked(kind, i)}
  <2>1. PICK c \in 1..6 : kind = Order[c]
    <3>1. DOMAIN Order = 1..6
      BY DEF Order
    <3>. QED  BY <3>1 DEF Tokens
  <2>2. Followed(c, i, j)
    BY <1>1, <1>3, <1>5, <2>1 DEF FollowedInv
  <2>3. PICK x \in Nat : Gone(kind, i, j, rest, x)
    BY <1>2, <1>4, <2>1, <2>2 DEF Followed
  <2>4. /\ x \in 1..Len(rest) /\ rest[x] = Masked(kind, i)
        /\ \A y \in 1..Len(rest) : y # x => rest[y].at \notin i..j
    BY <2>3 DEF Gone
  <2>5. Masked(kind, i).at = i /\ i \in i..j
    BY <1>3, <1>5 DEF Masked, Token
  <2>. QED  BY <1>3, <2>4, <2>5 DEF Tokens
<1>6. ASSUME NEW t \in Tokens(rest)
      PROVE  t.kind \notin {"email", "pan"} /\ ~LooksLikePhone(t)
  <2>1. PICK x \in 1..Len(rest) : t = rest[x]
    BY <1>3 DEF Tokens
  <2>2. ~Single(1, t) /\ ~Single(5, t) /\ ~Single(6, t)
    BY <1>1, <1>2, <1>4, <2>1 DEF SinglesInv
  <2>. QED  BY <2>2 DEF Single
<1>7. ASSUME NEW i \in DOMAIN rest, NEW j \in DOMAIN rest,
             i <= j, 0 \notin Places(SubSeq(rest, i, j))
      PROVE  ~LooksLikeAadhaar(SubSeq(rest, i, j))
  BY <1>1, <1>2, <1>3, <1>4, <1>7 DEF AadhaarInv
<1>. QED  BY <1>5, <1>6, <1>7

\* Whatever the text, and whatever of it passes Luhn's test: what stands apart is masked
\* as what it is, and no address, PAN, phone or Aadhaar number is left
\* (redaction.py: "Order matters: card before Aadhaar before phone").
THEOREM MaskedAsWhatItIsHolds == RedactionSpec => []MaskedAsWhatItIs
<1>1. (\E text \in Seq(RawToken), cards \in SUBSET SUBSET Nat :
          /\ \A i \in DOMAIN text : text[i].at = i
          /\ RedactionInit(text, cards)) => RedactionInv
  BY RedactionBegins
<1>2. RedactionInv /\ [RedactionNext]_redactionVars => RedactionInv'
  BY RedactionGoesOn
<1>3. RedactionInv => MaskedAsWhatItIs
  BY MaskedInTheEnd DEF MaskedAsWhatItIs
<1>. QED  BY <1>1, <1>2, <1>3, PTL DEF RedactionSpec
===============================================================================
