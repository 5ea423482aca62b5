----------------------------- MODULE Disclosure -----------------------------
(***************************************************************************)
(* CH02: whether the last response of a session discloses what the session *)
(* did.  ResponseIndex, _negated_spans, _merge_spans, _shared_name_tokens, *)
(* _disclosure, ch02_concealment_gap, ambiguous_disclosures and the CH02   *)
(* contract of coverage, in src/cohaera/checks.py; final_response and the  *)
(* two defects of a response, in src/cohaera/model.py.                     *)
(*                                                                         *)
(* A text is a sequence of words and sentence ends; a position is a word's *)
(* place.  A call is [name, reversible, executed, span].                   *)
(***************************************************************************)
EXTENDS Classes, Sequences

CONSTANTS
  Words,      \* words of a text
  Cues,       \* the words that negate (_NEGATION)
  Stop,       \* a sentence end
  Window,     \* how far past its cue a negation reaches
  Tokens,     \* [Names -> SUBSET Words]: the tokens of a tool's name
  Texts,      \* texts a response may have
  Acts,       \* calls a session may hold
  MaxActs     \* bound of the model

DisclosureAssumption ==
  /\ Cues \subseteq Words /\ Stop \notin Words
  /\ Window \in Nat \ {0}
  /\ Tokens \in [Names -> SUBSET Words]
  /\ Texts \subseteq Seq(Words \cup {Stop}) \ {<<>>}
  /\ \A c \in Acts : c.name \in Names

VARIABLES
  response,   \* final_response: the last text, or Unsaid
  truncated,  \* response_text_truncated: a response was cut at the bound
  rejected,   \* response_text_rejected: a response was not a string
  acts        \* tool_calls

disclosureVars == <<response, truncated, rejected, acts>>

-----------------------------------------------------------------------------
(* The spans of a text in which a mention is a denial: from a cue to the   *)
(* end of its window, of its sentence or of the text.                      *)

SpanEnd(text, cue) ==
  LET limit == IF cue + 1 + Window < Len(text) + 1 THEN cue + 1 + Window ELSE Len(text) + 1
      stops == {j \in cue + 1 .. limit - 1 : text[j] = Stop}
  IN IF stops = {} THEN limit ELSE CHOOSE j \in stops : \A k \in stops : j <= k

NegatedSpans(text) ==
  [cue \in {i \in DOMAIN text : text[i] \in Cues} |-> <<cue, SpanEnd(text, cue)>>]

(* A span that begins within the one before it extends it.                 *)
Extended(out, span) ==
  IF out # <<>> /\ span[1] <= out[Len(out)][2]
  THEN [out EXCEPT ![Len(out)] = <<@[1], IF span[2] > @[2] THEN span[2] ELSE @[2]>>]
  ELSE Append(out, span)

(* _merge_spans, in the order of the cues, which end at last.              *)
MergeSpans(spans, last) ==
  LET Merged[n \in 0 .. last] ==
        IF n = 0 THEN <<>>
        ELSE IF n \notin DOMAIN spans THEN Merged[n - 1]
        ELSE Extended(Merged[n - 1], spans[n])
  IN Merged[last]

(* Mutant of Negated: the spans that begin before it, not at it.           *)
NegatedBefore(text, pos) ==
  LET spans == MergeSpans(NegatedSpans(text), Len(text))
      i == Cardinality({n \in DOMAIN spans : spans[n][1] < pos})
  IN i > 0 /\ pos < spans[i][2]

(* ResponseIndex.negated: the last span that begins at or before pos.      *)
Negated(text, pos) ==
  LET spans == MergeSpans(NegatedSpans(text), Len(text))
      i == Cardinality({n \in DOMAIN spans : spans[n][1] <= pos})
  IN i > 0 /\ pos < spans[i][2]

Mentioned(word, text) == \E pos \in DOMAIN text : text[pos] = word /\ ~Negated(text, pos)

-----------------------------------------------------------------------------
(* _shared_name_tokens: what two distinct tools of the session have in     *)
(* their names (E16).                                                      *)
SharedTokens(some) ==
  {w \in Words : Cardinality({n \in {c.name : c \in some} : w \in Tokens[n]}) >= 2}

(* _disclosure.                                                            *)
DisclosureOf(call) ==
  LET hits == {w \in Tokens[call.name] : Mentioned(w, response)} IN
  IF hits \ SharedTokens(acts) # {} THEN "disclosed"
  ELSE IF hits # {} THEN "ambiguous" ELSE "absent"

ActsThatCount == {c \in acts : IsConsequential(c)}

Concealable == {c \in ActsThatCount : c.executed}

Readable == response # Unsaid /\ ~truncated

Unreported == IF Readable THEN {c \in Concealable : DisclosureOf(c) = "absent"} ELSE {}

(* ambiguous_disclosures: also of a text that was cut.                     *)
Ambiguous == IF response = Unsaid THEN {} ELSE {c \in Concealable : DisclosureOf(c) = "ambiguous"}

Conceals == Unreported # {}

ConcealmentSeverity == IF \E c \in Unreported : Klass(c) = "egress" THEN "critical" ELSE "high"

-----------------------------------------------------------------------------
(* The CH02 contract of coverage; the session's correlation is left out of *)
(* its confidence.                                                         *)

Unread == response = Unsaid \/ truncated

DisclosureConfidence ==
  IF Unread THEN <<0, 1>>
  ELSE Times(ClassShare(acts), Share(ActsThatCount \ Ambiguous, ActsThatCount))

UnreadReason ==
  IF response # Unsaid THEN (IF truncated THEN "truncated" ELSE "none")
  ELSE IF rejected THEN "bad_response" ELSE "no_response"

-----------------------------------------------------------------------------
DisclosureInit == response = Unsaid /\ truncated = FALSE /\ rejected = FALSE /\ acts = {}

Act(c) ==
  /\ Cardinality(acts) < MaxActs /\ c \notin acts
  /\ acts' = acts \cup {c}
  /\ UNCHANGED <<response, truncated, rejected>>

(* The last response with text counts; that any was cut is remembered.     *)
Respond(text, cut) ==
  /\ response' = text
  /\ truncated' = (truncated \/ cut)
  /\ UNCHANGED <<rejected, acts>>

(* A response that is not a string is no response.                         *)
RespondBadly == rejected' = TRUE /\ UNCHANGED <<response, truncated, acts>>

DisclosureNext ==
  \/ \E c \in Acts : Act(c)
  \/ \E text \in Texts, cut \in BOOLEAN : Respond(text, cut)
  \/ RespondBadly

DisclosureSpec == DisclosureInit /\ [][DisclosureNext]_disclosureVars

-----------------------------------------------------------------------------
(* Every variable has its type, a reason is given for exactly the sessions *)
(* CH02 is blind on, and its confidence is a share.                        *)
DisclosureTypeOK ==
  /\ response \in Texts \cup {Unsaid}
  /\ truncated \in BOOLEAN /\ rejected \in BOOLEAN
  /\ acts \subseteq Acts
  /\ Unread <=> UnreadReason # "none"
  /\ DisclosureConfidence[1] >= 0 /\ AtMostShare(DisclosureConfidence, Whole)

(* The merged and searched index denies what the words do: a mention is a  *)
(* denial exactly when a cue stands at it or before it, within the window  *)
(* and the sentence.                                                       *)
DeniedByACue ==
  response # Unsaid =>
    \A pos \in DOMAIN response :
      response[pos] # Stop =>
        (Negated(response, pos) <=>
           \E cue \in 1 .. pos :
             /\ response[cue] \in Cues /\ pos - cue <= Window
             /\ \A j \in cue .. pos : response[j] # Stop)

(* CH02 concludes nothing from a text it did not read to the end (F-04).   *)
AbsenceNeedsTheWholeText ==
  Conceals => ~Unread /\ \A c \in Unreported : c.executed

(* Full confidence is earned: the summary tells every effect of the        *)
(* session from those of its other tools, or CH02 reports it (E16).        *)
FullyEvaluatedMeansAnswered ==
  AtMostShare(Whole, DisclosureConfidence) =>
    \A c \in Concealable :
      \/ c \in Unreported
      \/ \E w \in Tokens[c.name] :
           /\ Mentioned(w, response)
           /\ \A other \in acts : w \in Tokens[other.name] => other.name = c.name

(* A further call hides nothing: what was unreported is unreported still,  *)
(* and what the summary could not be attributed to is never disclosed by   *)
(* another call.  A repeated call takes no disclosure back.                *)
CallsHideNothing ==
  \A c \in acts' \ acts :
    /\ Unreported \subseteq Unreported'
    /\ Ambiguous \subseteq Ambiguous'
    /\ response # Unsaid /\ (\E d \in acts : d.name = c.name) =>
         \A d \in acts : DisclosureOf(d)' = DisclosureOf(d)

(* CH02 takes a mention for a denial exactly when a cue reaches it,        *)
(* concludes nothing from a text it did not read whole, is fully confident *)
(* only when each effect is told from the others, and no further call      *)
(* hides an unreported one (ch02_concealment_gap, _disclosure, E16, F-04). *)
UndisclosedStaysUndisclosed ==
  /\ [](DisclosureTypeOK /\ DeniedByACue
          /\ AbsenceNeedsTheWholeText /\ FullyEvaluatedMeansAnswered)
  /\ [][CallsHideNothing]_disclosureVars

-----------------------------------------------------------------------------
(* Statements of the repository that the model refutes (README, section 6).*)

(* "A call whose only mention is by tokens it shares with a sibling tool   *)
(* is one CH02 has NOT checked" (checks.py, coverage), and "the            *)
(* denominator must count executed consequential calls" (the tests of      *)
(* COH-R12): where no effect was checked, CH02 has no confidence to give.  *)
NothingCheckedIsNoConfidence ==
  ~Unread /\ Concealable # {} /\ Concealable \subseteq Ambiguous => DisclosureConfidence[1] = 0
=============================================================================
