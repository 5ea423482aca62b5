----------------------------- MODULE Guardrails -----------------------------
(***************************************************************************)
(* CH04: a guardrail fired and consequential work went on.                 *)
(* ch04_guardrail_overrun, _resolved_enforcement, _undeclared_controls,    *)
(* unordered_after_policy and the CH04 contract of coverage, in            *)
(* src/cohaera/checks.py, over the events of one session in the order they *)
(* are listed.                                                             *)
(*                                                                         *)
(* How a call stands with the approvals of its session (_approval_state,   *)
(* see Approvals) is an attribute of the call.                             *)
(***************************************************************************)
EXTENDS Moments, FiniteSets, Sequences

CONSTANTS
  Types,        \* POLICY_EVENTS
  Declared,     \* the manifest's policies: policy ids and types it names ...
  Enforced,     \* ... and what each of them does
  Firings,      \* policy events a session may hold
  Works,        \* consequential calls a session may hold
  Common,       \* what correlation and classification cost every check
  MaxFirings, MaxWorks   \* bounds of the model

GuardrailsAssumption ==
  /\ Enforced \in [Declared -> {"advisory", "blocking"}]
  /\ Firings \subseteq [type : Types, policy : {e.policy : e \in Firings},
                        enforcement : {"advisory", "blocking", "undeclared"},
                        at : Moments, seq : Int \cup {None}]
  /\ \A c \in Works : c.at \in Moments /\ c.executed \in BOOLEAN
  /\ None \notin Firings \cup Int \cup {"advisory", "blocking"}

VARIABLES
  fired,      \* policy events of the session, in list order
  earliest,   \* earliest: the firing of a type that a finding names, or None
  unusable,   \* unusable_clock: firings without a clock
  works,      \* its consequential calls
  dangling    \* it holds an approval that names no call of it

guardrailVars == <<fired, earliest, unusable, works, dangling>>

-----------------------------------------------------------------------------
(* The loop over the events.                                               *)

(* Mutant of Earlier: the last of two on one tick is kept.                 *)
EarlierOrEqual(e) == earliest[e.type] = None \/ e.at.ts <= earliest[e.type].at.ts

Earlier(e) == earliest[e.type] = None \/ e.at.ts < earliest[e.type].at.ts

Fire(e) ==
  /\ Len(fired) < MaxFirings
  /\ fired' = Append(fired, e)
  /\ unusable' = IF Clocked(e.at) THEN unusable ELSE unusable + 1
  /\ earliest' = IF Clocked(e.at) /\ Earlier(e) THEN [earliest EXCEPT ![e.type] = e]
                 ELSE earliest
  /\ UNCHANGED <<works, dangling>>

Work(c) ==
  /\ Cardinality(works) < MaxWorks /\ c \notin works
  /\ works' = works \cup {c}
  /\ UNCHANGED <<fired, earliest, unusable, dangling>>

(* An approval for another call: dangling_approvals.                       *)
Dangle ==
  /\ ~dangling
  /\ dangling' = TRUE
  /\ UNCHANGED <<fired, earliest, unusable, works>>

(* The firings of a type, by their places in the list.                     *)
Of(type) == {i \in DOMAIN fired : fired[i].type = type}

FiringsOf(type) == {fired[i] : i \in Of(type)}

FiredTypes == {t \in Types : Of(t) # {}}

(* A type whose firings have no clock is named by its least sequence, read *)
(* from the record whether or not a signature reaches it, and by the first *)
(* listed when none has one.                                               *)
Sequenced(type) == {i \in Of(type) : fired[i].seq # None}

Least(type) == {i \in Sequenced(type) : \A j \in Sequenced(type) : fired[i].seq <= fired[j].seq}

(* min() compares the events themselves when two share the least sequence, *)
(* and events have no order: TypeError.                                    *)
Raises(type) == earliest[type] = None /\ Cardinality(Least(type)) > 1

Concludes == \A t \in FiredTypes : ~Raises(t)

Named(type) ==
  IF earliest[type] # None THEN earliest[type]
  ELSE IF Least(type) # {} THEN fired[CHOOSE i \in Least(type) : TRUE]
  ELSE fired[CHOOSE i \in Of(type) : \A j \in Of(type) : i <= j]

-----------------------------------------------------------------------------
(* What a firing is declared to do.                                        *)

(* CapabilityManifest.policy: by policy_id, then by type; None when none.  *)
Declaration(e) ==
  IF e.policy \in Declared THEN Enforced[e.policy]
  ELSE IF e.type \in Declared THEN Enforced[e.type]
  ELSE None

(* _resolved_enforcement: the operator's word outranks the event's.        *)
Enforcement(e) == IF Declaration(e) # None THEN Declaration(e) ELSE e.enforcement

Source(e) ==
  IF Declaration(e) # None THEN "manifest"
  ELSE IF e.enforcement # "undeclared" THEN "policy_event"
  ELSE "undeclared"

(* _undeclared_controls.                                                   *)
UndeclaredControls ==
  IF Declared = {} THEN {} ELSE {i \in DOMAIN fired : Declaration(fired[i]) = None}

-----------------------------------------------------------------------------
(* The findings of a type.                                                 *)

PolicyRef(type) == {e.at : e \in FiringsOf(type)}

Standing(type, c) == Against(PolicyRef(type), c.at)

Cand(type) == {c \in works : Standing(type, c) = "after"}

Completed(type) == {c \in Cand(type) : c.executed /\ c.approval # "approved"}

Attempted(type) == {c \in Cand(type) : ~c.executed /\ c.approval # "approved"}

Denied(some) == {c \in some : c.approval = "denied"}

(* An advisory control reports the calls denied by name and nothing else.  *)
Advisory(type) == Enforcement(Named(type)) = "advisory"

Overrun(type) == IF Advisory(type) THEN Denied(Completed(type)) ELSE Completed(type)

IsBypass(type) ==
  /\ Overrun(type) # {}
  /\ Enforcement(Named(type)) = "blocking" \/ Denied(Overrun(type)) # {}

Found(type) ==
  [bypassed  |-> IF IsBypass(type) THEN Overrun(type) ELSE {},
   completed |-> IF IsBypass(type) THEN {} ELSE Overrun(type),
   attempted |-> IF Advisory(type) THEN {} ELSE Attempted(type)]

Reported(type) == Found(type).bypassed \cup Found(type).completed \cup Found(type).attempted

-----------------------------------------------------------------------------
(* What coverage says of CH04.                                             *)

(* unordered_after_policy: pair by pair, and of firings with a clock.      *)
UnorderedAfterPolicy ==
  {c \in works : \E i \in DOMAIN fired :
     Clocked(fired[i].at) /\ Order(c.at, fired[i].at) = "indeterminate"}

Sources == {Source(fired[i]) : i \in DOMAIN fired}

(* Mutant of Semantics: averaged over the firings.                         *)
SemanticsAveraged ==
  IF Sources = {"undeclared"} THEN {"no_policy_semantics"}
  ELSE IF Sources = {"policy_event"} THEN {"enforcement_from_producer"}
  ELSE {}

(* _policy_semantics: one undeclared firing, or one on the event's word.   *)
Semantics ==
  IF "undeclared" \in Sources THEN {"no_policy_semantics"}
  ELSE IF "policy_event" \in Sources THEN {"enforcement_from_producer"}
  ELSE {}

Approvals == {c \in works : c.approval # "none"}

ApprovalEvidence ==
  IF Approvals = {} /\ ~dangling THEN {"no_approval_evidence"}
  ELSE IF \E c \in Approvals : c.bySpan THEN {"approval_not_argument_bound"}
  ELSE {}

Clockless ==
  IF unusable > 0 \/ \E c \in works : ~Clocked(c.at) THEN {"invalid_clock"} ELSE {}

Unplaced == IF UnorderedAfterPolicy # {} THEN {"order_indeterminate"} ELSE {}

(* What lowers the confidence of CH04 below 1.  A session without a firing *)
(* is a result only where the operator declared the controls               *)
(* (EXTERNAL-01).                                                          *)
Charges ==
  Common \cup Clockless \cup
    (IF fired = <<>> THEN {} ELSE Semantics \cup ApprovalEvidence \cup Unplaced)

GuardrailStatus ==
  IF fired = <<>> /\ Declared = {} THEN "not_evaluated"
  ELSE IF Charges = {} THEN "evaluated" ELSE "degraded"

-----------------------------------------------------------------------------
GuardrailInit ==
  /\ fired = <<>>
  /\ earliest = [t \in Types |-> None]
  /\ unusable = 0
  /\ works = {}
  /\ dangling = FALSE

GuardrailNext == (\E e \in Firings : Fire(e)) \/ (\E c \in Works : Work(c)) \/ Dangle

GuardrailSpec == GuardrailInit /\ [][GuardrailNext]_guardrailVars

-----------------------------------------------------------------------------
(* Every variable has its type.                                            *)
GuardrailTypeOK ==
  /\ fired \in Seq(Firings)
  /\ earliest \in [Types -> Firings \cup {None}]
  /\ unusable \in Nat
  /\ works \subseteq Works
  /\ dangling \in BOOLEAN

(* A finding names the first listed of the earliest firings of its type,   *)
(* whichever was listed first (the amplification note of CH04).            *)
NamesTheEarliest ==
  \A t \in Types :
    LET clocked == {i \in Of(t) : Clocked(fired[i].at)} IN
    IF clocked = {} THEN earliest[t] = None
    ELSE \E i \in clocked :
           /\ earliest[t] = fired[i]
           /\ \A j \in clocked :
                IF j < i THEN fired[i].at.ts < fired[j].at.ts
                ELSE fired[i].at.ts <= fired[j].at.ts

(* A completed call that an approval bound to it refused is reported as a  *)
(* bypass after every control that fired before it, advisory or not ("the  *)
(* narrower, later, call-specific decision wins").                         *)
RefusedIsBypass ==
  Concludes => \A t \in FiredTypes : \A c \in Denied(works) :
    c.executed /\ Standing(t, c) = "after" => c \in Found(t).bypassed

(* No call after a control is lost: it is approved, or reported, or the    *)
(* control is named as advisory by whoever may say so (E20).               *)
ContinuationAccounted ==
  Concludes => \A t \in FiredTypes : \A c \in Cand(t) :
    \/ c.approval = "approved"
    \/ c \in Reported(t)
    \/ /\ Declaration(Named(t)) = "advisory" \/
            (Declaration(Named(t)) = None /\ Named(t).enforcement = "advisory")
       /\ ~(c.executed /\ c.approval = "denied")

(* The order CH04 cannot establish is charged to its coverage: the two     *)
(* reductions agree wherever every firing has a clock (COH-R11).           *)
TiesCharged ==
  unusable = 0 =>
    \A t \in FiredTypes : \A c \in works :
      Standing(t, c) = "indeterminate" => c \in UnorderedAfterPolicy

(* Where CH04 says it was fully evaluated, work that nobody approved is    *)
(* before every control, or reported, or after a control that the operator *)
(* and not the producer declared advisory: no tie, no missing clock and no *)
(* word of the watched agent stands behind the silence (E20, COH-R11).     *)
FullyEvaluatedMeansHeard ==
  Concludes /\ GuardrailStatus = "evaluated" =>
    \A t \in FiredTypes : \A c \in works : c.approval = "none" =>
      \/ Standing(t, c) = "not_after"
      \/ c \in Reported(t)
      \/ Declaration(Named(t)) = "advisory"

(* CH04 names the earliest firing of a type whichever was listed first,    *)
(* reports a refused call as a bypass after every control, and charges     *)
(* what it cannot order (ch04_guardrail_overrun, unordered_after_policy).  *)
RefusedWorkIsNamed ==
  GuardrailTypeOK /\ NamesTheEarliest /\ RefusedIsBypass /\ TiesCharged

(* Nothing after a control is lost: where CH04 says it was fully evaluated *)
(* work that nobody approved is before every control, reported, or after a *)
(* control the operator declared advisory (coverage, E20, COH-R11).        *)
SilenceIsEarned == ContinuationAccounted /\ FullyEvaluatedMeansHeard

-----------------------------------------------------------------------------
(* Statements of the repository that the model refutes (README, section 6).*)

(* "Every type that fired gets a NAMED event" (checks.py, CH04).           *)
EveryFiringNamed == \A t \in FiredTypes : ~Raises(t)

(* "That silence is now a reported blind spot rather than a clean session" *)
(* (checks.py, unordered_after_policy).                                    *)
SilenceIsReported ==
  \A t \in FiredTypes : \A c \in works :
    Standing(t, c) = "indeterminate" => c \in UnorderedAfterPolicy

(* "the share it could not place now costs it confidence" (checks.py,      *)
(* CH04 of coverage): a call that CH04 placed is not in that share.        *)
PlacedIsNotCharged ==
  \A c \in UnorderedAfterPolicy : \E t \in FiredTypes : Standing(t, c) # "after"

(* "the control was DECLARED blocking, work completed after it, and no     *)
(* approval bound to that work" (checks.py, CH04_BYPASSED).                *)
BlockingFiringHeard ==
  \A t \in FiredTypes : \A e \in FiringsOf(t) : \A c \in works :
    Enforcement(e) = "blocking" /\ Order(c.at, e.at) = "after" /\ c.executed
      /\ c.approval = "none" => c \in Found(t).bypassed

(* The same line, of what is reported as a bypass.                         *)
BypassFollowsBlocking ==
  \A t \in FiredTypes : \A c \in Found(t).bypassed :
    c.approval # "denied" =>
      \/ Denied(Found(t).bypassed) # {}
      \/ \E e \in FiringsOf(t) : Enforcement(e) = "blocking" /\ Order(c.at, e.at) = "after"
=============================================================================
