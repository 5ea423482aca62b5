------------------------------ MODULE Ordering ------------------------------
(***************************************************************************)
(* Did a call start after any of a set of events?  _References of          *)
(* src/cohaera/checks.py: a reduction that answers it for a growing set of *)
(* references in constant space.                                           *)
(***************************************************************************)
EXTENDS Moments, FiniteSets

CONSTANT MaxRefs   \* bound of the model: references

OrderingAssumption == None \notin Positions \cup (Clocks \X (Streams \cup {None}))

VARIABLES
  refs,       \* history: the references the reduction has been given
  minSeq,     \* min_seq: the least attested position of a stream
  best,       \* _best: <<clock, stream>> of the earliest reference, or None
  next,       \* _next: the earliest of another stream than best's, or None
  unclocked   \* unclocked: how many have no clock

orderingVars == <<refs, minSeq, best, next, unclocked>>

-----------------------------------------------------------------------------
(* _References.                                                            *)

Before(ts, other) == other = None \/ ts < other[1]

(* Mutant of NextWith: the best is replaced and what it was forgotten.     *)
NextForgotten(ts, stream) ==
  IF best # None /\ ts >= best[1] /\ stream # best[2] /\ Before(ts, next)
    THEN <<ts, stream>>
  ELSE next

(* _note_clock.                                                            *)
NextWith(ts, stream) ==
  IF Before(ts, best)
    THEN IF best # None /\ best[2] # stream THEN best ELSE next
  ELSE IF stream # best[2] /\ Before(ts, next) THEN <<ts, stream>>
  ELSE next

BestWith(ts, stream) == IF Before(ts, best) THEN <<ts, stream>> ELSE best

MinSeqWith(ref) ==
  IF ref.stream = None THEN minSeq
  ELSE LET low == minSeq[ref.stream] IN
       IF low = None \/ ref.seq < low THEN [minSeq EXCEPT ![ref.stream] = ref.seq]
       ELSE minSeq

(* A reference is counted (the model gives each moment once).              *)
Note(ref) ==
  /\ refs'   = refs \cup {ref}
  /\ minSeq' = MinSeqWith(ref)
  /\ IF Clocked(ref)
       THEN /\ best' = BestWith(ref.ts, ref.stream)
            /\ next' = NextWith(ref.ts, ref.stream)
            /\ UNCHANGED unclocked
       ELSE /\ unclocked' = unclocked + 1
            /\ UNCHANGED <<best, next>>

(* What the clock compares: not the call's own stream, which its sequence  *)
(* has settled.                                                            *)
ClockFor(stream) == IF best # None /\ stream # None /\ best[2] = stream THEN next ELSE best

SeqAfter(call) ==
  call.stream # None /\ minSeq[call.stream] # None /\ call.seq > minSeq[call.stream]

ClockAfter(call) ==
  ClockFor(call.stream) # None /\ Clocked(call) /\ call.ts > ClockFor(call.stream)[1]

Tied(call) ==
  \/ call.stream # None /\ minSeq[call.stream] # None /\ call.seq = minSeq[call.stream]
  \/ ClockFor(call.stream) # None /\ (~Clocked(call) \/ call.ts = ClockFor(call.stream)[1])
  \/ unclocked > 0 /\ ~(call.stream # None /\ minSeq[call.stream] # None)

(* verdict.                                                                *)
ReferencesVerdict(call) ==
  IF SeqAfter(call) \/ ClockAfter(call) THEN "after"
  ELSE IF Tied(call) THEN "indeterminate"
  ELSE "not_after"

OrderingInit ==
  /\ refs = {}
  /\ minSeq = [s \in Streams |-> None]
  /\ best = None
  /\ next = None
  /\ unclocked = 0

OrderingNext ==
  \E ref \in Moments :
    /\ Cardinality(refs) < MaxRefs /\ ref \notin refs
    /\ Note(ref)

OrderingSpec == OrderingInit /\ [][OrderingNext]_orderingVars

-----------------------------------------------------------------------------
(* Every variable has its type.                                            *)
ClockMarks == (Clocks \X (Streams \cup {None})) \cup {None}

OrderingTypeOK ==
  /\ refs \subseteq Moments
  /\ minSeq \in [Streams -> Positions \cup {None}]
  /\ best \in ClockMarks /\ next \in ClockMarks
  /\ unclocked \in Nat

(* The reduction misses nothing and invents nothing: it says that a call   *)
(* came after the references exactly when it came after one of them, by    *)
(* the instrument that decides that pair, whatever the order they were     *)
(* given in (_References; COH-R11).                                        *)
AfterExactly ==
  \A call \in Moments :
    (ReferencesVerdict(call) = "after") <=> \E ref \in refs : Order(call, ref) = "after"

(* A call is not said to have come before the references while one of them *)
(* shares its tick, or its position, or cannot be compared by clock at     *)
(* all; unless the call's own stream has settled another (verdict).        *)
TiesReported ==
  \A call \in Moments :
    ReferencesVerdict(call) = "not_after" =>
      \A ref \in refs :
        Order(call, ref) = "indeterminate" =>
          ~Clocked(ref) /\ \E other \in refs : BySequence(call, other)

(* The reduction answers what the pairwise order says of the set, in       *)
(* constant space: this is what the checks that use it may read it as      *)
(* (Moments.Against; Guardrails, Taint).                                   *)
ReductionExact == \A call \in Moments : ReferencesVerdict(call) = Against(refs, call)

(* The constant-space reduction says that a call came after some reference *)
(* exactly when it came after one of them, reports every tie, and answers  *)
(* what the pairwise order says of the set, whatever order the references  *)
(* were given in (_References; COH-R11).                                   *)
ReductionIsTheOrder == OrderingTypeOK /\ AfterExactly /\ TiesReported /\ ReductionExact

-----------------------------------------------------------------------------
(* Statements of the repository that the model refutes (README, section 6).*)

(* "AFTER beats INDETERMINATE beats NOT_AFTER" (checks.py,                 *)
(* _References.verdict): before all of them is said only when it is        *)
(* before each.                                                            *)
Strongest ==
  \A call \in Moments :
    ReferencesVerdict(call) = "not_after" => \A ref \in refs : Order(call, ref) = "not_after"
=============================================================================
