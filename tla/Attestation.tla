---------------------------- MODULE Attestation -----------------------------
(***************************************************************************)
(* CH06: what one run concludes of how far each session's telemetry was    *)
(* attested.  SessionIntegrity and StreamVerifier.finalise of              *)
(* src/cohaera/evidence.py; evidence_status, ch06_evidence_integrity and   *)
(* the CH06 contract of coverage, in src/cohaera/checks.py.                *)
(*                                                                         *)
(* Module StreamVerifier has streams that lose, repeat and rewrite         *)
(* records.  Here every stream is whole and in order, many sessions share  *)
(* it, and the question is what a session may say of its own records.      *)
(***************************************************************************)
EXTENDS Integers, FiniteSets, Sequences

CONSTANTS
  NoSeq,
  AttestedSessions, AttestedStreams,
  MaxStreams,     \* max_integrity_streams
  MaxObserved     \* bound of the model

AttestationAssumption == MaxStreams \in Nat /\ MaxObserved \in Nat /\ NoSeq \notin Int

(* What signed a record: nothing, a signature that does not verify, or one *)
(* that does, over a record of no clock, of a clock within the freshness   *)
(* bound or of one beyond it.                                              *)
Marks == {"unsigned", "invalid", "undated", "fresh", "stale"}

Inadmissible ==
  {"SIGNATURE_INVALID", "STALE", "PARTIAL_INTEGRITY", "STREAM_END_MISSING", "RECORDS_AFTER_CLOSE"}

VARIABLES
  run,       \* [keys, bound, ledger, closed]: what the operator supplied
  streams,   \* stream -> _Stream, for the streams within the budget
  sessions,  \* session -> SessionIntegrity
  fed,       \* history: session -> the positions <<stream, seq>> it had
  ended      \* finalise has run

attestationVars == <<run, streams, sessions, fed, ended>>

NewSession ==
  [with |-> 0, without |-> 0, verified |-> 0, checked |-> 0, codes |-> {}, ranges |-> {}]

NewStream == [last |-> -1, verifiedTo |-> NoSeq, closed |-> NoSeq, final |-> FALSE, seen |-> {}]

-----------------------------------------------------------------------------
(* observe, for a record with a sidecar and one without.                   *)

Verifies(mark) == mark \in {"undated", "fresh", "stale"}

CodesOf(mark, after) ==
  (IF after THEN {"RECORDS_AFTER_CLOSE"} ELSE {}) \cup
  (IF ~run.keys THEN (IF mark = "unsigned" THEN {} ELSE {"NO_COLLECTOR_KEYS"})
   ELSE IF mark = "unsigned" THEN {"UNSIGNED"}
   ELSE IF mark = "invalid" THEN {"SIGNATURE_INVALID"}
   ELSE IF mark = "stale" /\ run.bound THEN {"STALE"} ELSE {})

(* A stream past the budget is counted and never looked at.                *)
ObserveUntracked(k, s) ==
  /\ s \notin DOMAIN streams /\ Cardinality(DOMAIN streams) >= MaxStreams
  /\ sessions' = [sessions EXCEPT ![k].with = @ + 1, ![k].codes = @ \cup {"STREAM_BUDGET"}]
  /\ fed' = [fed EXCEPT ![k] = @ \cup {<<s, Cardinality({p \in @ : p[1] = s})>>}]
  /\ UNCHANGED <<run, streams, ended>>

(* Mutant of Signed: the session is credited, whatever the record.         *)
SignedAtAll(st, seq, mark, final) ==
  [st EXCEPT !.verifiedTo = seq, !.closed = IF final /\ @ = NoSeq THEN seq ELSE @]

(* _check_signature, of what a signature reaches.                          *)
Signed(st, seq, mark, final) ==
  IF run.keys /\ Verifies(mark)
  THEN [st EXCEPT !.verifiedTo = seq, !.closed = IF final /\ @ = NoSeq THEN seq ELSE @]
  ELSE st

Observe(k, s, mark, final) ==
  LET st  == IF s \in DOMAIN streams THEN streams[s] ELSE NewStream
      seq == st.last + 1
      consumed == [st EXCEPT !.last = seq, !.final = @ \/ final, !.seen = @ \cup {k}]
      verified == run.keys /\ Verifies(mark)
  IN /\ s \in DOMAIN streams \/ Cardinality(DOMAIN streams) < MaxStreams
     /\ streams' = [t \in DOMAIN streams \cup {s} |->
                      IF t = s THEN Signed(consumed, seq, mark, final) ELSE streams[t]]
     /\ sessions' =
          [sessions EXCEPT
             ![k].with = @ + 1,
             ![k].verified = IF run.keys /\ mark # "unsigned" THEN @ + 1 ELSE @,
             ![k].checked = IF verified /\ run.bound /\ mark # "undated" THEN @ + 1 ELSE @,
             ![k].codes = @ \cup CodesOf(mark, st.closed # NoSeq)]
     /\ fed' = [fed EXCEPT ![k] = @ \cup {<<s, seq>>}]
     /\ UNCHANGED <<run, ended>>

ObserveBare(k) ==
  /\ sessions' = [sessions EXCEPT ![k].without = @ + 1]
  /\ UNCHANGED <<run, streams, fed, ended>>

-----------------------------------------------------------------------------
(* finalise.                                                               *)

ClosingCodes(k) ==
  UNION {(IF streams[s].closed # NoSeq THEN {}
          ELSE {"STREAM_NOT_CLOSED"}
               \cup (IF streams[s].final THEN {"CLOSE_UNVERIFIED"} ELSE {})
               \cup (IF run.closed THEN {"STREAM_END_MISSING"} ELSE {})) :
         s \in {t \in DOMAIN streams : k \in streams[t].seen}}

RunCodes(k) ==
  LET with == sessions[k].with > 0 IN
  (IF with /\ ~run.ledger THEN {"NO_STREAM_LEDGER"} ELSE {})
  \cup (IF with /\ sessions[k].without > 0 THEN {"PARTIAL_INTEGRITY"} ELSE {})
  \cup (IF with /\ run.bound /\ sessions[k].checked = 0 THEN {"FRESHNESS_UNVERIFIABLE"} ELSE {})

(* signature_ranges: of each stream that fed the session, where it ended   *)
(* and how far a verified signature reached.  Every stream begins at 0.    *)
Ranges(k) ==
  {[stream |-> s, last |-> streams[s].last, verifiedTo |-> streams[s].verifiedTo] :
     s \in {t \in DOMAIN streams : k \in streams[t].seen}}

Finalise ==
  /\ ~ended
  /\ ended' = TRUE
  /\ sessions' =
       [k \in AttestedSessions |->
          [sessions[k] EXCEPT !.codes = @ \cup ClosingCodes(k) \cup RunCodes(k),
                              !.ranges = Ranges(k)]]
  /\ UNCHANGED <<run, streams, fed>>

-----------------------------------------------------------------------------
(* What a session says of itself.                                          *)

Failed(k) == sessions[k].codes \cap Inadmissible # {}

Reaches(g) == g.verifiedTo # NoSeq /\ g.verifiedTo >= g.last

(* signature_covers_final.                                                 *)
CoversFinal(k) == sessions[k].ranges # {} /\ \A g \in sessions[k].ranges : Reaches(g)

(* sequence_verified.                                                      *)
SequenceVerified(k, s, seq) ==
  /\ ~Failed(k)
  /\ \E g \in sessions[k].ranges : g.stream = s /\ g.verifiedTo # NoSeq /\ seq <= g.verifiedTo

(* signature_coverage: a numerator and a denominator.                      *)
SignatureCoverage(k) ==
  LET all  == UNION {{<<g.stream, n>> : n \in 0 .. g.last} : g \in sessions[k].ranges}
      held == UNION {IF g.verifiedTo = NoSeq THEN {}
                     ELSE {<<g.stream, n>> : n \in 0 .. g.verifiedTo} : g \in sessions[k].ranges}
  IN <<Cardinality(held), IF all = {} THEN 1 ELSE Cardinality(all)>>

(* evidence_status.                                                        *)
EvidenceStatus(k) ==
  IF sessions[k].with = 0 THEN "unattested"
  ELSE IF Failed(k) THEN "inadmissible"
  ELSE IF sessions[k].verified = 0 THEN "chained_unsigned"
  ELSE IF CoversFinal(k) THEN "verified_complete" ELSE "verified_prefix"

EvidenceFires(k) == Failed(k)

Unattested(k) == sessions[k].with = 0

(* What a code costs, in tenths.                                           *)
Charge(there, cost) == IF there THEN cost ELSE 10

(* The confidence of the CH06 contract, in tenths of tenths of its share.  *)
EvidenceConfidence(k) ==
  LET signature == IF sessions[k].verified = 0 THEN <<6, 10>>
                   ELSE IF CoversFinal(k) THEN <<1, 1>> ELSE SignatureCoverage(k)
      fresh  == Charge(sessions[k].checked = 0, 8)
      ledger == Charge("NO_STREAM_LEDGER" \in sessions[k].codes, 9)
      close  == Charge("STREAM_NOT_CLOSED" \in sessions[k].codes, 9)
  IN IF Unattested(k) \/ Failed(k) THEN <<0, 1>>
     ELSE <<signature[1] * fresh * ledger * close, signature[2] * 1000>>

(* The reason the contract gives beside its charge for freshness.          *)
SaysNoBound(k) == ~Unattested(k) /\ sessions[k].checked = 0

-----------------------------------------------------------------------------
AttestationInit ==
  /\ run \in [keys : BOOLEAN, bound : BOOLEAN, ledger : BOOLEAN, closed : BOOLEAN]
  /\ streams = << >>
  /\ sessions = [k \in AttestedSessions |-> NewSession]
  /\ fed = [k \in AttestedSessions |-> {}]
  /\ ended = FALSE

Arrived ==
  LET Count[S \in SUBSET AttestedSessions] ==
                 IF S = {} THEN 0
                 ELSE LET k == CHOOSE x \in S : TRUE
                      IN sessions[k].with + sessions[k].without + Count[S \ {k}]
           IN Count[AttestedSessions]

AttestationNext ==
  \/ /\ ~ended /\ Arrived < MaxObserved
     /\ \E k \in AttestedSessions :
          \/ \E s \in AttestedStreams :
               \/ ObserveUntracked(k, s)
               \/ \E mark \in Marks, final \in BOOLEAN : Observe(k, s, mark, final)
          \/ ObserveBare(k)
  \/ Finalise

AttestationSpec == AttestationInit /\ [][AttestationNext]_attestationVars

-----------------------------------------------------------------------------
(* Every variable has its type, and the share of a session that a          *)
(* signature reaches is a share.                                           *)
AttestationTypeOK ==
  /\ run \in [keys : BOOLEAN, bound : BOOLEAN, ledger : BOOLEAN, closed : BOOLEAN]
  /\ DOMAIN streams \subseteq AttestedStreams /\ Cardinality(DOMAIN streams) <= MaxStreams
  /\ \A s \in DOMAIN streams :
       /\ streams[s].last \in Nat
       /\ streams[s].verifiedTo \in {NoSeq} \cup 0 .. streams[s].last
       /\ streams[s].closed \in {NoSeq} \cup 0 .. streams[s].last
       /\ streams[s].seen \subseteq AttestedSessions
  /\ ended \in BOOLEAN
  /\ \A k \in AttestedSessions :
       SignatureCoverage(k)[1] >= 0 /\ SignatureCoverage(k)[1] <= SignatureCoverage(k)[2]

(* A position that may overrule the clock was reached by a signature that  *)
(* verified, in a session nothing spoils; and without keys there is none   *)
(* (F-03).                                                                 *)
OrderingNeedsASignature ==
  \A k \in AttestedSessions : \A p \in fed[k] :
    SequenceVerified(k, p[1], p[2]) =>
      /\ run.keys /\ ~EvidenceFires(k)
      /\ p[1] \in DOMAIN streams /\ streams[p[1]].verifiedTo >= p[2]

(* A session called complete is: each of its records on a stream the run   *)
(* tracked is at or before a signature that verified (R-05).               *)
CompleteIsCovered ==
  \A k \in AttestedSessions :
    ended /\ EvidenceStatus(k) = "verified_complete" =>
      \A p \in fed[k] : p[1] \in DOMAIN streams => SequenceVerified(k, p[1], p[2])

(* Stripping the sidecar off some records of a session never leaves it     *)
(* better off: it is inadmissible, reported, and worth nothing.            *)
StrippingShows ==
  \A k \in AttestedSessions :
    ended /\ sessions[k].with > 0 /\ sessions[k].without > 0 =>
      EvidenceFires(k) /\ EvidenceStatus(k) = "inadmissible" /\ EvidenceConfidence(k)[1] = 0

(* Full confidence is earned: signed to the end, dated, remembered, whole  *)
(* and none of it past a signed close.                                     *)
FullConfidenceIsEarned ==
  \A k \in AttestedSessions :
    ended /\ EvidenceConfidence(k)[1] >= EvidenceConfidence(k)[2] =>
      /\ EvidenceStatus(k) = "verified_complete"
      /\ run.keys /\ run.bound /\ run.ledger
      /\ sessions[k].without = 0
      /\ \A p \in fed[k] :
           p[1] \in DOMAIN streams => streams[p[1]].closed # NoSeq /\ p[2] <= streams[p[1]].closed

(* A session's own word never attests it: order by sequence needs a        *)
(* verified signature, a session called complete is covered to its end,    *)
(* stripping sidecars shows, and full confidence is signed, dated,         *)
(* remembered and whole (evidence_status, finalise; F-03, R-05).           *)
AttestedIsSigned ==
  /\ AttestationTypeOK
  /\ OrderingNeedsASignature /\ CompleteIsCovered
  /\ StrippingShows /\ FullConfidenceIsEarned

-----------------------------------------------------------------------------
(* Statements of the repository that the model refutes (README, section 6).*)

(* "verified_complete: a verified signature reaches the last record of     *)
(* every stream feeding the session" (docs/EVIDENCE-TRUST.md).             *)
CompleteOnEveryStream ==
  \A k \in AttestedSessions :
    ended /\ EvidenceStatus(k) = "verified_complete" =>
      \A p \in fed[k] : SequenceVerified(k, p[1], p[2])

(* "A signature covers the chain head at its own sequence, so it attests   *)
(* every record up to that point" (checks.py): a session all of whose      *)
(* streams are signed to their end is not one with "nothing to verify it   *)
(* against".                                                               *)
CoveredIsNotUnsigned ==
  \A k \in AttestedSessions : ended /\ CoversFinal(k) => EvidenceStatus(k) # "chained_unsigned"

(* "Share of this session's attested records a signature actually reaches" *)
(* (evidence.py, signature_coverage).                                      *)
CoverageIsOfTheSession ==
  \A k \in AttestedSessions :
    ended /\ ~Failed(k) /\ fed[k] # {} /\ (\A p \in fed[k] : p[1] \in DOMAIN streams) =>
      LET held == Cardinality({p \in fed[k] : SequenceVerified(k, p[1], p[2])})
      IN held * SignatureCoverage(k)[2] = SignatureCoverage(k)[1] * Cardinality(fed[k])

(* "No freshness bound was in force, so this session was not checked for   *)
(* stream replay at all" (checks.py, coverage).                            *)
NoBoundMeansNone == \A k \in AttestedSessions : ended /\ SaysNoBound(k) => ~run.bound
=============================================================================
