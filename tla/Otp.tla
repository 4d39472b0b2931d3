---------------------------------- MODULE Otp ----------------------------------
(***************************************************************************)
(* What an SMS delivers: parseServiceOtp, which looks in the text of a      *)
(* message for the code of the service an order is for.                     *)
(*                                                                         *)
(* A text is a sequence of symbols: an ASCII digit, a digit of another      *)
(* script, a dash, a blank, another mark, a decoy label (date, phone...) or *)
(* the name of a brand; a brand of no interest stands for any other word.   *)
(* A sender is the set of brands its id names.                              *)
(*                                                                         *)
(* Abstractions.  Codes are shorter than the six digits of the code, in     *)
(* the same two shapes; the marks the pattern allows between a decoy label  *)
(* and a code are the dash; the 24 characters in which it looks for the     *)
(* label are the whole text before the code.  The text grows by a symbol a  *)
(* step, so that TLC meets every text up to MaxLength.                      *)
(***************************************************************************)
EXTENDS Sequences, FiniteSets, Naturals

CONSTANTS
  Registered,     \* services with an entry in the registry, each a brand
  ThirdParties,   \* brands no code is sold for
  Unregistered,   \* services without an entry
  CodeLength,     \* the digits of a registered service's code
  Grouped,        \* registered services that may split theirs in two halves
  MaxLength,      \* bound on the symbols of a text
  MaxWords        \* bound on those that are neither ASCII digits nor dashes

Brands == Registered \cup ThirdParties
Digits == {"digit", "numeral"}
Words == Digits \cup {"label"} \cup Brands
Symbols == Words \cup {"dash", "blank", "mark"}

ASSUME OtpAssumption ==
  /\ CodeLength \in [Registered -> Nat \ {0}]
  /\ Grouped \subseteq Registered
  /\ \A s \in Grouped : CodeLength[s] % 2 = 0
  /\ Registered \cap (ThirdParties \cup Unregistered) = {}
  /\ Brands \cap {"digit", "numeral", "label", "dash", "blank", "mark", "edge"} = {}
  /\ MaxLength \in Nat /\ MaxWords \in Nat

VARIABLE body  \* the text read so far

otpVars == <<body>>

OtpInit == body = <<>>

Receive(x) ==
  /\ Len(body) < MaxLength
  /\ x \notin {"digit", "dash"} =>
       Cardinality({i \in DOMAIN body : body[i] \notin {"digit", "dash"}}) < MaxWords
  /\ body' = Append(body, x)

OtpNext == \E x \in Symbols : Receive(x)

OtpSpec == OtpInit /\ [][OtpNext]_otpVars

-------------------------------------------------------------------------------
At(b, i) == IF i \in DOMAIN b THEN b[i] ELSE "edge"

(* A sender is foreign when its id names a brand other than the service's.  *)
IsForeignSender(s, sender) == sender \ {s} # {}

(* The service is named by a word of its own, not within a longer one.      *)
HasKeyword(b, s) ==
  \E i \in DOMAIN b : b[i] = s /\ At(b, i - 1) \notin Words /\ At(b, i + 1) \notin Words

(* The two alternatives of the pattern, at one place of the text.           *)
Contiguous(b, s, i) == \A k \in 0..(CodeLength[s] - 1) : At(b, i + k) = "digit"

InHalves(b, s, i) ==
  LET half == CodeLength[s] \div 2 IN
  /\ s \in Grouped
  /\ \A k \in 0..CodeLength[s] : At(b, i + k) = IF k = half THEN "dash" ELSE "digit"

Span(i, length) == [first |-> i, last |-> i + length - 1]

(* matchAll: from the left, the contiguous form first, and on from the end   *)
(* of each match, intact or not.                                            *)
Matches(b, s) ==
  LET from[i \in 1..(Len(b) + CodeLength[s] + 2)] ==
        IF i > Len(b) THEN {}
        ELSE IF Contiguous(b, s, i)
             THEN {Span(i, CodeLength[s])} \cup from[i + CodeLength[s]]
             ELSE IF InHalves(b, s, i)
                  THEN {Span(i, CodeLength[s] + 1)} \cup from[i + CodeLength[s] + 1]
                  ELSE from[i + 1]
  IN from[1]

(* A link of a longer chain: beyond the dash next to it is another digit.   *)
InChain(b, x) ==
  \/ At(b, x.first - 1) = "dash" /\ At(b, x.first - 2) \in Digits
  \/ At(b, x.last + 1) = "dash" /\ At(b, x.last + 2) \in Digits

(* Mutant: a match in two halves is not asked what it is a part of. *)
IntactAlone(b, x) ==
  At(b, x.first - 1) \notin Digits /\ At(b, x.last + 1) \notin Digits

Intact(b, x) ==
  /\ At(b, x.first - 1) \notin Digits /\ At(b, x.last + 1) \notin Digits
  /\ (\E i \in x.first..x.last : b[i] = "dash") => ~InChain(b, x)

Candidates(b, s) == {x \in Matches(b, s) : Intact(b, x)}

(* A label, a word of its own, with at most one mark and any blanks between  *)
(* it and the code.                                                         *)
DirectDecoyLabel(b, x) ==
  \E i \in 1..(x.first - 1) :
    /\ b[i] = "label" /\ At(b, i - 1) \notin Words
    /\ \A k \in (i + 1)..(x.first - 1) : b[k] \in {"blank", "dash"}
    /\ Cardinality({k \in (i + 1)..(x.first - 1) : b[k] = "dash"}) <= 1

Parse(b, s, sender) ==
  CASE s \notin Registered -> "unsupported_service"
    [] s \in Registered /\ IsForeignSender(s, sender) -> "foreign_sender"
    [] OTHER ->
       IF ~HasKeyword(b, s) THEN "missing_keyword"
       ELSE LET found == Candidates(b, s) IN
            IF found = {} THEN "no_candidate"
            ELSE IF Cardinality(found) > 1 THEN "ambiguous_candidates"
            ELSE IF \E x \in found : DirectDecoyLabel(b, x) THEN "decoy_candidate"
            ELSE "matched"

-------------------------------------------------------------------------------
(* The numbers a reader sees in a text: runs of digits of any script, joined *)
(* by single dashes, as long as they go.                                    *)
Joined(b, i, j) ==
  /\ b[i] \in Digits /\ b[j] \in Digits
  /\ \A k \in i..j : b[k] \in Digits \/ (b[k] = "dash" /\ b[k + 1] \in Digits)

Numbers(b) ==
  {x \in [first : DOMAIN b, last : DOMAIN b] :
     /\ x.first <= x.last /\ Joined(b, x.first, x.last)
     /\ At(b, x.first - 1) \notin Digits /\ At(b, x.last + 1) \notin Digits
     /\ ~InChain(b, x)}

(* Those that read as a code of the service.                                *)
ReadsAsCode(b, s, x) ==
  \/ Contiguous(b, s, x.first) /\ x.last = x.first + CodeLength[s] - 1
  \/ InHalves(b, s, x.first) /\ x.last = x.first + CodeLength[s]

Codes(b, s) == {x \in Numbers(b) : ReadsAsCode(b, s, x)}

(* A code is delivered only if no other number of the text reads as a code   *)
(* of the service; it is a run of digits no digit touches, and in two       *)
(* halves it is all of its number, never a piece of a phone number, a date  *)
(* or an id.  And a message of a sender that is not foreign, which names    *)
(* the service and holds one number, its code, is not refused unless the    *)
(* code is labelled as something else.                                      *)
CodeIsTheNumber == body # <<>> =>
  \A s \in Registered \cup Unregistered, sender \in SUBSET Brands :
    /\ Parse(body, s, sender) = "matched" =>
         \A x \in Candidates(body, s) :
           /\ Codes(body, s) \subseteq {x}
           /\ At(body, x.first - 1) \notin Digits /\ At(body, x.last + 1) \notin Digits
           /\ InHalves(body, s, x.first) => x \in Numbers(body)
    /\ /\ ~IsForeignSender(s, sender) /\ HasKeyword(body, s)
       /\ Cardinality(Numbers(body)) = 1 /\ Numbers(body) = Codes(body, s)
       => Parse(body, s, sender) \in {"matched", "decoy_candidate"}

===============================================================================
