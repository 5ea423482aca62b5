------------------------------ MODULE Grammar -------------------------------
(***************************************************************************)
(* CH01: the order of a session's calls against a bigram model of benign   *)
(* sessions.  SequenceGrammar, _is_retry, _baseline_out_of_distribution,   *)
(* ch01_sequence_order and the CH01 contract of coverage, in               *)
(* src/cohaera/checks.py.                                                  *)
(*                                                                         *)
(* Whether a call is consequential is a question about that call, not      *)
(* about its tool: for a tool no manifest declares it is what the producer *)
(* said of the call (Klass).                                               *)
(***************************************************************************)
EXTENDS Classes, Sequences

CONSTANTS
  NoDigest,  \* no argument digest
  Digests,   \* argument digests
  Steps,     \* [name, reversible, executed, args]: calls a session may hold
  Benign,    \* sequences of names a baseline may be fitted on
  MaxSteps   \* bound of the model

Start == "START"
End   == "END"

GrammarAssumption ==
  /\ Steps \subseteq [name : Names, reversible : BOOLEAN \cup {Unsaid}, executed : BOOLEAN,
                      args : Digests \cup {NoDigest}]
  /\ Benign \subseteq Seq(Names)

VARIABLES
  bigrams,   \* transitions the baseline has seen
  unigrams,  \* names it has seen
  fitted,    \* history: the sequences it was fitted on
  steps      \* tool_calls of the session

grammarVars == <<bigrams, unigrams, fitted, steps>>

-----------------------------------------------------------------------------
(* SequenceGrammar.                                                        *)

Bracketed(names) == <<Start>> \o names \o <<End>>

Transitions(names) ==
  LET seq == Bracketed(names) IN [j \in 1 .. Len(names) + 1 |-> <<seq[j], seq[j + 1]>>]

(* Fit one benign session.  Of the counts it keeps, only whether a          *)
(* transition was seen at all is ever asked.                               *)
Fit(names) ==
  /\ names \notin fitted
  /\ fitted'   = fitted \cup {names}
  /\ bigrams'  = bigrams \cup {Transitions(names)[j] : j \in 1 .. Len(names) + 1}
  /\ unigrams' = unigrams \cup {Bracketed(names)[j] : j \in 1 .. Len(names) + 2}
  /\ UNCHANGED steps

Step(c) ==
  /\ Len(steps) < MaxSteps
  /\ steps' = Append(steps, c)
  /\ UNCHANGED <<bigrams, unigrams, fitted>>

StepNames == [j \in DOMAIN steps |-> steps[j].name]

(* The transitions of the session the baseline has not seen: transition j  *)
(* arrives at call j, the last one at the end.                             *)
Unseen == {j \in 1 .. Len(steps) + 1 : Transitions(StepNames)[j] \notin bigrams}

(* Mutant of IsRetry: whatever the call before came to.                    *)
IsRetryOfAny(j) ==
  /\ j > 1 /\ steps[j].name = steps[j - 1].name
  /\ steps[j].args # NoDigest /\ steps[j].args = steps[j - 1].args

(* _is_retry: the same call again, after a failure.                        *)
IsRetry(j) ==
  /\ j > 1
  /\ steps[j].name = steps[j - 1].name /\ ~steps[j - 1].executed
  /\ steps[j].args # NoDigest /\ steps[j].args = steps[j - 1].args

UnseenIntoConsequential ==
  {j \in Unseen : j <= Len(steps) /\ IsConsequential(steps[j]) /\ ~IsRetry(j)}

KnownSteps == {j \in DOMAIN steps : steps[j].name \in unigrams}

-----------------------------------------------------------------------------
(* ch01_sequence_order.                                                    *)

(* _baseline_out_of_distribution: three calls at least, and less than half *)
(* of them by tools the baseline knows.                                    *)
OutOfDistribution == Len(steps) >= 3 /\ 2 * Cardinality(KnownSteps) < Len(steps)

(* A rate above 0.25.                                                      *)
ByRate == 4 * Cardinality(Unseen) > Len(steps) + 1

ByCount == UnseenIntoConsequential # {}

Deviates == fitted # {} /\ ~OutOfDistribution /\ (ByRate \/ ByCount)

(* The novel tools it names, which make the finding one of high severity.  *)
NovelTools ==
  {StepNames[j] : j \in {i \in Unseen : i <= Len(steps) /\ StepNames[i] \notin unigrams}}

(* The CH01 contract of coverage.                                          *)
CannotJudge == fitted = {} \/ OutOfDistribution

-----------------------------------------------------------------------------
GrammarInit == bigrams = {} /\ unigrams = {} /\ fitted = {} /\ steps = <<>>

GrammarNext == (\E names \in Benign : Fit(names)) \/ (\E c \in Steps : Step(c))

GrammarSpec == GrammarInit /\ [][GrammarNext]_grammarVars

-----------------------------------------------------------------------------
(* Every variable has its type, and the model is what it was fitted on.    *)
GrammarTypeOK ==
  /\ bigrams = UNION {{Transitions(names)[j] : j \in 1 .. Len(names) + 1} : names \in fitted}
  /\ unigrams \subseteq Names \cup {Start, End}
  /\ fitted \subseteq Benign
  /\ steps \in Seq(Steps)

(* No finding stands beside a contract that says CH01 could not look.      *)
BlindIsSilent == CannotJudge => ~Deviates

(* A session the baseline was fitted on is never a deviation from it.      *)
BaselineIsQuiet == StepNames \in fitted => ~Deviates

(* The retries whose failed copy was not consequential, and they are.      *)
Reclassified(tool) ==
  {j \in DOMAIN steps : /\ steps[j].name = tool /\ IsRetry(j)
                        /\ IsConsequential(steps[j]) /\ ~IsConsequential(steps[j - 1])}

(* Suppressing retries hides an effect only where a call is no longer      *)
(* classed as its failed copy was: the consequential calls of a novel tool *)
(* that completed are no more than the novel routes counted into it and    *)
(* the retries so reclassified, however many failures precede them, and    *)
(* only the producer's flag, of a tool no manifest declares, reclassifies  *)
(* (_is_retry, ToolCall.klass).                                            *)
EffectsAreCounted ==
  fitted # {} =>
    \A tool \in Names \ unigrams :
      /\ Cardinality({j \in DOMAIN steps : /\ steps[j].name = tool /\ steps[j].executed
                                           /\ IsConsequential(steps[j])})
           <= Cardinality({j \in UnseenIntoConsequential : steps[j].name = tool})
              + Cardinality(Reclassified(tool))
      /\ \A j \in Reclassified(tool) :
           tool \notin Manifest /\ steps[j].reversible # steps[j - 1].reversible

(* Once a session is long enough to judge, no call by a tool the baseline  *)
(* knows silences the count (E02).                                         *)
PaddingKeepsTheCount ==
  \A j \in DOMAIN steps' \ DOMAIN steps :
    /\ steps'[j].name \in unigrams /\ Len(steps) >= 3
    /\ Deviates /\ ByCount
    => Deviates'

(* CH01 is silent where it says it could not look and on what it was       *)
(* fitted on; retries hide no effect of a novel tool but where the         *)
(* producer reclassified the call; and once a session is long enough to    *)
(* judge, padding with routine calls does not silence the count            *)
(* (ch01_sequence_order, _is_retry, E02).                                  *)
NovelEffectsAreHeard ==
  /\ [](GrammarTypeOK /\ BlindIsSilent /\ BaselineIsQuiet /\ EffectsAreCounted)
  /\ [][PaddingKeepsTheCount]_grammarVars

-----------------------------------------------------------------------------
(* Statements of the repository that the model refutes (README, section 6).*)

(* "Padding with routine calls cannot reduce this, which is why it is the  *)
(* answer to E02" (checks.py, ch01_sequence_order).                        *)
PaddingNeverSilences ==
  [][\A c \in Steps :
       Step(c) /\ c.name \in unigrams /\ Deviates /\ ByCount => Deviates']_grammarVars

(* "The failed copy is itself a consequential call at the end of the same  *)
(* novel transition, so it is counted and CH01 still fires" (checks.py,    *)
(* _is_retry): a completed consequential call of a novel tool is counted,  *)
(* or a copy of it is.                                                     *)
CopyIsCounted ==
  fitted # {} /\ (\E j \in DOMAIN steps : /\ steps[j].executed /\ IsConsequential(steps[j])
                                         /\ steps[j].name \notin unigrams)
    => ByCount
=============================================================================
