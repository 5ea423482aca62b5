------------------------------- MODULE Taint --------------------------------
(***************************************************************************)
(* CH03: consequential calls after a record a scanner marked.              *)
(* scanner_marked and scanner_reported of src/cohaera/model.py;            *)
(* ch03_untrusted_to_consequential, unordered_after_marker,                *)
(* _scanner_coverage, _local_content_signal, _result_share and the CH03    *)
(* contract of coverage, in src/cohaera/checks.py.                         *)
(*                                                                         *)
(* A call is [name, reversible, executed, span, result, at]: `result` says *)
(* whether its result was captured.  A record is [span, name, claim, list, *)
(* hits, at]: has_injection_patterns and injection_patterns, "bad" when    *)
(* they are not of their type, and whether Cohaera's own patterns match    *)
(* the result captured on it.  Moments are those of module Moments.        *)
(***************************************************************************)
EXTENDS Classes, Moments, Sequences, SequencesExt

CONSTANTS
  Uses,        \* calls a session may hold
  Records,     \* records about its content
  MaxUses, MaxRecords   \* bounds of the model

TaintAssumption ==
  /\ \A c \in Uses : c.at \in Moments /\ Clocked(c.at)
  /\ Records \subseteq [span : {r.span : r \in Records}, name : Names \cup {Unsaid},
                         claim : {"none", "true", "false", "bad"},
                         list : {"none", "empty", "markers", "bad"},
                         hits : BOOLEAN, at : Moments]

VARIABLES
  uses,     \* tool_calls, in their order
  records   \* unique_events

taintVars == <<uses, records>>

-----------------------------------------------------------------------------
(* What a scanner said on a record (COH-R03).                              *)

Marked(r) == r.claim = "true" \/ r.list = "markers"

ScannerReported(r) == r.claim \in {"true", "false"} \/ r.list \in {"empty", "markers"}

Markers == {i \in DOMAIN records : Marked(records[i])}

UsesThatCount == {i \in DOMAIN uses : IsConsequential(uses[i])}

Scannable == DOMAIN uses \ UsesThatCount

-----------------------------------------------------------------------------
(* ch03_untrusted_to_consequential.                                        *)

MarkedMoments == {records[i].at : i \in Markers}

MarkStanding(i) == Against(MarkedMoments, uses[i].at)

(* unordered_after_marker.                                                 *)
Unordered == {i \in UsesThatCount : MarkStanding(i) = "indeterminate"}

Candidates == {i \in UsesThatCount : MarkStanding(i) = "after"}

CompletedUses == {i \in Candidates : uses[i].executed}
AttemptedUses == Candidates \ CompletedUses

Tainted == Candidates # {}

(* first_marker_ts: the earliest clock of a marker, and 0 without one.     *)
FirstMarkerTs ==
  LET clocks == {m.ts : m \in {n \in MarkedMoments : Clocked(n)}} IN
  IF clocks = {} THEN 0 ELSE CHOOSE t \in clocks : \A u \in clocks : t <= u

-----------------------------------------------------------------------------
(* Which call an answer is about: the last with its span, else the first   *)
(* with its name; 0 when there is none.                                    *)

WithSpan(r) == {i \in DOMAIN uses : r.span # Unsaid /\ uses[i].span = r.span}
WithName(r) == {i \in DOMAIN uses : r.name # Unsaid /\ uses[i].name = r.name}

BoundTo(r) ==
  IF WithSpan(r) # {} THEN CHOOSE i \in WithSpan(r) : \A j \in WithSpan(r) : j <= i
  ELSE IF WithName(r) # {} THEN CHOOSE i \in WithName(r) : \A j \in WithName(r) : i <= j
  ELSE 0

ScannerAnswers == {i \in DOMAIN records : ScannerReported(records[i])}

(* _scanner_coverage (COH-R09).                                            *)

(* Mutant of Scanned: an answer by name is about every call of the name.   *)
ScannedByName ==
  {i \in Scannable : \E a \in ScannerAnswers : \E j \in DOMAIN uses :
                     BoundTo(records[a]) = j /\ uses[j].name = uses[i].name}

Scanned == {i \in Scannable : \E a \in ScannerAnswers : BoundTo(records[a]) = i}

UnboundAnswers == {a \in ScannerAnswers : BoundTo(records[a]) = 0}

(* _local_content_signal (E09).                                            *)

Hit == {i \in Scannable : \E k \in DOMAIN records : records[k].hits /\ BoundTo(records[k]) = i}

SaidMarked == {i \in Scannable : \E k \in Markers : BoundTo(records[k]) = i}

(* The unscanned of LocalContentSignal, which only a remedy is made of.    *)
UnscannedHits == Hit \ Scanned

DisputedUses == (Hit \cap Scanned) \ SaidMarked

(* _result_share.                                                          *)
WithResult == {i \in Scannable : uses[i].result}

-----------------------------------------------------------------------------
(* The CH03 contract of coverage; the session's correlation and clock are  *)
(* left out of its confidence.                                             *)

NoAnswer == ScannerAnswers = {}

(* 0.8 + 0.2 * share, in tenths.                                           *)
ResultQuality ==
  LET share == Share(WithResult, Scannable) IN <<8 * share[2] + 2 * share[1], 10 * share[2]>>

ContradictionCharge ==
  IF Scanned = {} THEN Whole ELSE HalfCharged(Share(DisputedUses, Scanned))

OrderCharge ==
  IF Unordered = {} THEN Whole
  ELSE <<Cardinality(UsesThatCount) - Cardinality(Unordered), Cardinality(UsesThatCount)>>

TaintConfidence ==
  IF NoAnswer THEN <<0, 1>>
  ELSE Times(Times(ClassShare(ToSet(uses)), Share(Scanned, Scannable)),
             Times(ResultQuality, Times(ContradictionCharge, OrderCharge)))

FullyScanned == Scanned = Scannable /\ UnboundAnswers = {}

-----------------------------------------------------------------------------
TaintInit == uses = <<>> /\ records = <<>>

(* The calls of a session are in the order of its events' clocks.          *)
Use(c) ==
  /\ Len(uses) < MaxUses
  /\ uses # <<>> => Last(uses).at.ts <= c.at.ts
  /\ uses' = Append(uses, c)
  /\ UNCHANGED records

Report(r) == Len(records) < MaxRecords /\ records' = Append(records, r) /\ UNCHANGED uses

TaintNext == (\E c \in Uses : Use(c)) \/ (\E r \in Records : Report(r))

TaintSpec == TaintInit /\ [][TaintNext]_taintVars

-----------------------------------------------------------------------------
(* Every variable has its type, and CH03's confidence is a share.          *)
TaintTypeOK ==
  /\ uses \in Seq(Uses) /\ records \in Seq(Records)
  /\ TaintConfidence[1] >= 0 /\ AtMostShare(TaintConfidence, Whole)

(* A finding is never beside a contract that says no scanner answered, and *)
(* it stands on a record whose claim could be read (COH-R03).              *)
FoundOnAReadableClaim ==
  Tainted => /\ ~NoAnswer
             /\ \E i \in DOMAIN records :
                  {records[i].claim, records[i].list} \cap {"true", "markers"} # {}

(* One answer is about one call (COH-R09): the calls counted as scanned    *)
(* and the answers that name none are no more than the answers.            *)
AnAnswerCoversOneCall ==
  Cardinality(Scanned) + Cardinality(UnboundAnswers) <= Cardinality(ScannerAnswers)

(* Full confidence is earned: every call that could bring content in has   *)
(* an answer of its own, its result captured and not in dispute; every     *)
(* consequential call is placed against the markers; every class was       *)
(* declared (COH-R09, COH-R11, E09).                                       *)
FullyEvaluatedMeansWatched ==
  ~NoAnswer /\ AtMostShare(Whole, TaintConfidence) =>
    /\ \A i \in Scannable :
         /\ uses[i].result
         /\ \E k \in DOMAIN records :
              /\ records[k].claim \in {"true", "false"} \/ records[k].list \in {"empty", "markers"}
              /\ records[k].span = uses[i].span \/ records[k].name = uses[i].name
    /\ \A i \in UsesThatCount :
         i \in Candidates \/ \A m \in MarkedMoments : Order(uses[i].at, m) # "after"
    /\ \A i \in DOMAIN uses : uses[i].name \in Manifest

(* What Cohaera's own patterns see only lowers a confidence: a record that *)
(* carries content and no answer changes no finding and does not make CH03 *)
(* evaluated, whatever call it is about (EVASION.md E09).                  *)
ContentOnlyLowers ==
  \A i \in DOMAIN records' \ DOMAIN records :
    records'[i].claim \in {"none", "bad"} /\ records'[i].list \in {"none", "bad"} =>
      /\ CompletedUses' = CompletedUses /\ AttemptedUses' = AttemptedUses
      /\ NoAnswer' = NoAnswer
      /\ AtMostShare(TaintConfidence', TaintConfidence)

(* Where a scanner's markers and Cohaera's patterns agree nothing is       *)
(* charged, and where the scanner said a call was clean what it missed is. *)
OnlyACleanAnswerIsContradicted ==
  DisputedUses # {} =>
    \A i \in DisputedUses :
      /\ \E a \in ScannerAnswers : BoundTo(records[a]) = i
      /\ \A a \in ScannerAnswers :
           BoundTo(records[a]) = i => records[a].claim # "true" /\ records[a].list # "markers"

(* One scanner answer is about one call, a finding stands on a claim that  *)
(* could be read, full confidence means every call that could bring        *)
(* content in was answered for, and what Cohaera's own patterns see only   *)
(* lowers it (ch03_untrusted_to_consequential, _scanner_coverage; COH-R03, *)
(* COH-R09, E09).                                                          *)
OneAnswerOneCall ==
  /\ [](TaintTypeOK /\ FoundOnAReadableClaim /\ AnAnswerCoversOneCall
          /\ FullyEvaluatedMeansWatched /\ OnlyACleanAnswerIsContradicted)
  /\ [][ContentOnlyLowers]_taintVars

-----------------------------------------------------------------------------
(* Statements of the repository that the model refutes (README, section 6).*)

(* "N of M call(s) that could return untrusted content carry no scanner    *)
(* answer" (the remedy of checks.py, coverage): reads of one tool, each    *)
(* answered for under the tool's name, are not without an answer.          *)
AnsweredReadsAreScanned ==
  \A name \in Names :
    LET reads == {i \in Scannable : uses[i].name = name}
        answers == {a \in ScannerAnswers : records[a].name = name /\ WithSpan(records[a]) = {}}
    IN Cardinality(answers) >= Cardinality(reads) => reads \subseteq Scanned

(* "Injection markers were flagged at t=...": the moment a finding names   *)
(* is the moment of a marker (checks.py, ch03_untrusted_to_consequential). *)
FlaggedWhenItSays == Tainted => \E m \in MarkedMoments : m.ts = FirstMarkerTs
=============================================================================
