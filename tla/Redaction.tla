------------------------------- MODULE Redaction -------------------------------
(***************************************************************************)
(* How personal data are masked (analysis/redaction.py): one substitution   *)
(* after the other runs over the text, from left to right, and each finds   *)
(* what those before it have left.                                          *)
(*                                                                         *)
(* A text is a sequence of tokens with a space between two of them.  A      *)
(* token is a word of three to six letters, an address, a PAN, a keyword    *)
(* (otp or code) or a group of so many digits.  Layout, dashes and +91 are  *)
(* left out, and so is the list of the kinds found.  Which runs of groups   *)
(* pass Luhn's test is part of the input.                                   *)
(***************************************************************************)
EXTENDS Naturals, Sequences, FiniteSetsExt

VARIABLES
    given, \* the text, and its card numbers: the places of their groups
    done,  \* what the substitution has gone past
    rest,  \* what is still before it; with no substitution left, the masked text
    pass   \* the index of the substitution

redactionVars == <<given, done, rest, pass>>

\* "digits" and "high" (the first digit is from 6 to 9) tell groups apart; "at" is
\* the place in the text that a token comes from, or 0.
Token(kind, digits, high, at) == [kind |-> kind, digits |-> digits, high |-> high, at |-> at]
Masked(pattern, at) == Token(pattern, 0, FALSE, at)

Order_AadhaarFirst == <<"EMAIL", "AADHAAR", "CARD", "OTP", "PHONE", "PAN">>
Order == <<"EMAIL", "CARD", "AADHAAR", "OTP", "PHONE", "PAN">>

RedactionInit(text, cards) ==
    /\ given = [text |-> text, cards |-> cards]
    /\ done = <<>>
    /\ rest = text
    /\ pass = 1

-------------------------------------------------------------------------------
AreGroups(run) == \A i \in DOMAIN run : run[i].kind = "group"
Places(run) == {run[i].at : i \in DOMAIN run}

LooksLikeCard(run) ==
    AreGroups(run) /\ MapThenSumSet(LAMBDA i : run[i].digits, DOMAIN run) \in 13..16

LooksLikeAadhaar(run) ==
    AreGroups(run) /\ [i \in DOMAIN run |-> run[i].digits] \in {<<12>>, <<4, 8>>, <<8, 4>>, <<4, 4, 4>>}

LooksLikePhone(token) == token.kind = "group" /\ token.digits = 10 /\ token.high

\* What fits with its spaces into the eight characters after a keyword.
IsShort(token) == token.kind \in {"word", "keyword", "CARD"}

\* A keyword, and four digits or more behind it; the digits of a PAN will do.
HasCode(run) ==
    /\ Len(run) \in {2, 3}
    /\ run[1].kind = "keyword"
    /\ \/ run[Len(run)].kind = "group" /\ run[Len(run)].digits >= 4
       \/ run[Len(run)].kind = "pan" /\ Len(run) = 2
    /\ Len(run) = 3 => IsShort(run[2])

Fits(pattern, run) ==
    CASE pattern = "EMAIL"   -> Len(run) = 1 /\ run[1].kind = "email"
      [] pattern = "CARD"    -> LooksLikeCard(run)
      [] pattern = "AADHAAR" -> LooksLikeAadhaar(run)
      [] pattern = "OTP"     -> HasCode(run)
      [] pattern = "PHONE"   -> Len(run) = 1 /\ LooksLikePhone(run[1])
      [] pattern = "PAN"     -> Len(run) = 1 /\ run[1].kind = "pan"

\* How many tokens from here on the pattern takes: as many as fit.
Lengths(pattern) == {n \in 1..Len(rest) : Fits(pattern, SubSeq(rest, 1, n))}
Matched(pattern) == SubSeq(rest, 1, Max(Lengths(pattern)))
After(n) == SubSeq(rest, n + 1, Len(rest))

\* What is left of the token that a code of eight digits at most was taken from.
Remainders(token) ==
    IF token.kind = "pan" THEN {<<Token("word", 0, FALSE, 0)>>}
    ELSE IF token.digits <= 8 THEN {<<>>}
    ELSE {<<Token("group", token.digits - 8, h, 0)>> : h \in BOOLEAN}

\* What passes the pattern but not Luhn's test.
FailsTest(pattern) == pattern = "CARD" /\ Places(Matched(pattern)) \notin given.cards

-------------------------------------------------------------------------------
\* card_sub puts a number that fails the test back, and sub goes on behind it.
PutBack(pattern) ==
    /\ Lengths(pattern) # {}
    /\ FailsTest(pattern)
    /\ done' = done \o Matched(pattern)
    /\ rest' = After(Len(Matched(pattern)))
    /\ UNCHANGED <<given, pass>>

Replace(pattern) ==
    /\ pattern # "OTP"
    /\ Lengths(pattern) # {}
    /\ ~FailsTest(pattern)
    /\ done' = Append(done, Masked(pattern, rest[1].at))
    /\ rest' = After(Len(Matched(pattern)))
    /\ UNCHANGED <<given, pass>>

\* The keyword stays, what is between it and the code does not.
ReplaceCode(pattern) ==
    /\ pattern = "OTP"
    /\ Lengths(pattern) # {}
    /\ LET code == rest[Len(Matched(pattern))]
       IN /\ done' = done \o <<rest[1], Masked(pattern, code.at)>>
          /\ \E left \in Remainders(code) : rest' = left \o After(Len(Matched(pattern)))
    /\ UNCHANGED <<given, pass>>

GoOn(pattern) ==
    /\ rest # <<>>
    /\ Lengths(pattern) = {}
    /\ done' = Append(done, rest[1])
    /\ rest' = After(1)
    /\ UNCHANGED <<given, pass>>

NextPass ==
    /\ rest = <<>>
    /\ pass' = pass + 1
    /\ done' = <<>>
    /\ rest' = done
    /\ UNCHANGED given

RedactionNext ==
    /\ pass <= Len(Order)
    /\ \/ PutBack(Order[pass]) \/ Replace(Order[pass]) \/ ReplaceCode(Order[pass]) \/ GoOn(Order[pass])
       \/ NextPass

\* Any text, and any of its runs may be a card number.
RawToken == [kind : {"word", "email", "pan", "keyword", "group"}, digits : Nat, high : BOOLEAN, at : Nat]
RedactionSpec ==
    /\ \E text \in Seq(RawToken), cards \in SUBSET SUBSET Nat :
          /\ \A i \in DOMAIN text : text[i].at = i
          /\ RedactionInit(text, cards)
    /\ [][RedactionNext]_redactionVars

-------------------------------------------------------------------------------
Redacted == pass > Len(Order)
Tokens(text) == {text[i] : i \in DOMAIN text}

\* No digits stand beside the tokens from i to j of the text.
Apart(i, j) ==
    /\ i > 1 => given.text[i - 1].kind # "group"
    /\ j < Len(given.text) => given.text[j + 1].kind # "group"

BehindKeyword(i) ==
    \/ i > 1 /\ given.text[i - 1].kind = "keyword"
    \/ i > 2 /\ IsShort(given.text[i - 1]) /\ given.text[i - 2].kind = "keyword"

\* What a reader takes the tokens from i to j for.
Is(kind, i, j) ==
    LET run == SubSeq(given.text, i, j)
    IN CASE kind = "EMAIL"   -> i = j /\ run[1].kind = "email"
         [] kind = "CARD"    -> Apart(i, j) /\ LooksLikeCard(run) /\ Places(run) \in given.cards
         [] kind = "AADHAAR" -> Apart(i, j) /\ LooksLikeAadhaar(run)
         [] kind = "OTP"     -> Apart(i, j) /\ i = j /\ BehindKeyword(i) /\ run[1].kind = "group" /\ run[1].digits \in 4..8
         [] kind = "PHONE"   -> Apart(i, j) /\ i = j /\ ~BehindKeyword(i) /\ LooksLikePhone(run[1])
         [] kind = "PAN"     -> i = j /\ ~BehindKeyword(i) /\ run[1].kind = "pan"

\* What stands apart from other digits is masked as what it is, whatever else the
\* text holds, and none of its tokens stays (redaction.py: "Order matters: card
\* before Aadhaar before phone so the longer patterns win").  Even where numbers
\* stand side by side, no address, PAN or phone number is left, nor an Aadhaar
\* number that is not the rest of a longer group.
MaskedAsWhatItIs ==
    Redacted => LET masked == rest IN
        /\ \A kind \in Tokens(Order), i, j \in DOMAIN given.text :
              i <= j /\ Is(kind, i, j) =>
                  {t \in Tokens(masked) : t.at \in i..j} = {Masked(kind, i)}
        /\ \A t \in Tokens(masked) : t.kind \notin {"email", "pan"} /\ ~LooksLikePhone(t)
        /\ \A i, j \in DOMAIN masked :
              LET run == SubSeq(masked, i, j)
              IN i <= j /\ 0 \notin Places(run) => ~LooksLikeAadhaar(run)
===============================================================================
