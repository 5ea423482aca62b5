------------------------------ MODULE Receipts ------------------------------
(***************************************************************************)
(* CH07: a call that reports failure and carries the receipt of an effect. *)
(* _receipt_binding, _receipt_trust, ch07_effect_contradiction and the     *)
(* CH07 contract of coverage, in src/cohaera/checks.py; EffectReceipt of   *)
(* src/cohaera/evidence.py; the argument identities of a call,             *)
(* _argument_identity of src/cohaera/model.py.                             *)
(*                                                                         *)
(* A call is [name, reversible, executed, span, declared, captured,        *)
(* receipt]: the digest the producer declared of its arguments, and the    *)
(* one recomputed from the arguments captured.  A receipt is [span, tool,  *)
(* args, assurance]: the fields of its binding, and what its adapter says  *)
(* the identifier is worth.                                                *)
(***************************************************************************)
EXTENDS Classes

CONSTANTS
  Outcomes,     \* calls a session may hold
  MaxOutcomes   \* bound of the model

ReceiptsAssumption == \A c \in Outcomes : c.name \in Names

VARIABLE outcomes   \* the session's tool_calls

receiptVars == <<outcomes>>

-----------------------------------------------------------------------------
(* _argument_identity: what was captured is believed over what was         *)
(* declared.                                                               *)
ArgsOf(call) == IF call.captured # Unsaid THEN call.captured ELSE call.declared

Disagrees(call) ==
  call.captured # Unsaid /\ call.declared # Unsaid /\ call.captured # call.declared

NamesAll(r) == r.span # Unsaid /\ r.tool # Unsaid /\ r.args # Unsaid

(* Mutant of Contradicts: the tool is not asked.                           *)
ContradictsSpan(r, call) == r.span # Unsaid /\ call.span # Unsaid /\ r.span # call.span

(* The receipt names another call.                                         *)
Contradicts(r, call) ==
  \/ r.span # Unsaid /\ call.span # Unsaid /\ r.span # call.span
  \/ r.tool # Unsaid /\ r.tool # call.name

(* _receipt_binding.                                                       *)
Binding(call) ==
  LET r == call.receipt IN
  IF r = Unsaid \/ Contradicts(r, call) THEN "unbound"
  ELSE IF Disagrees(call) THEN "arg_mismatch"
  ELSE IF r.args # Unsaid /\ ArgsOf(call) # Unsaid /\ r.args # ArgsOf(call) THEN "arg_mismatch"
  ELSE IF NamesAll(r) /\ call.span # Unsaid /\ ArgsOf(call) # Unsaid THEN "exact"
  ELSE "span_only"

Receipted == {c \in outcomes : c.receipt # Unsaid}

(* The three populations of ch07_effect_contradiction.                     *)
Contradicted == {c \in Receipted : Binding(c) = "exact" /\ ~c.executed}
Partial      == {c \in Receipted : Binding(c) = "span_only" /\ ~c.executed}
Unbound      == {c \in Receipted : Binding(c) \notin {"exact", "span_only"}}

ReceiptFindings == Contradicted \cup Partial \cup Unbound

-----------------------------------------------------------------------------
(* What a receipt is worth: claimed 0, bound 1, authenticated 2,           *)
(* reconciled 3.                                                           *)

Assurances ==
  {Unsaid, "unreadable", "client_claimed", "provider_returned_object",
   "provider_returned_operation"}

(* EffectReceipt.trust_ceiling.                                            *)
Ceiling(r) ==
  IF r.assurance \in {"unreadable", "client_claimed"} THEN 0
  ELSE IF r.assurance = "provider_returned_object" THEN 1
  ELSE 3

(* _receipt_trust_of: exact binding makes a receipt bound, within the      *)
(* ceiling; nothing makes it more.                                         *)
TrustOf(call) == IF Binding(call) = "exact" /\ Ceiling(call.receipt) > 0 THEN 1 ELSE 0

(* _receipt_trust: the weakest.                                            *)
Trust(some) ==
  IF some = {} THEN 0
  ELSE CHOOSE t \in {TrustOf(c) : c \in some} : \A c \in some : t <= TrustOf(c)

(* _receipt_severity.                                                      *)
ReceiptSeverity ==
  LET egress == \E c \in Contradicted : Klass(c) = "egress" IN
  IF Trust(Contradicted) >= 2 THEN (IF egress THEN "critical" ELSE "high")
  ELSE IF egress THEN "high" ELSE "medium"

-----------------------------------------------------------------------------
(* The CH07 contract of coverage.                                          *)

Effectful == {c \in outcomes : IsConsequential(c) \/ Klass(c) = "unknown"}

Covered == Effectful \cap Receipted

Loose == {c \in Covered : Binding(c) = "span_only"}

NothingFalsifiable == Covered = {}

Disputed == IF \E c \in outcomes : Disagrees(c) THEN <<1, 2>> ELSE Whole

(* Of the qualities it is a product of, the session's correlation is left  *)
(* out: CH07 does not change it.                                           *)
ReceiptConfidence ==
  IF NothingFalsifiable THEN <<0, 1>>
  ELSE Times(Times(Share(Covered, Effectful), ClassShare(outcomes)),
             Times(HalfCharged(Share(Loose, Covered)), Disputed))

-----------------------------------------------------------------------------
ReceiptInit == outcomes = {}

Return(c) ==
  /\ Cardinality(outcomes) < MaxOutcomes
  /\ c \notin outcomes
  /\ outcomes' = outcomes \cup {c}

ReceiptNext == \E c \in Outcomes : Return(c)

ReceiptSpec == ReceiptInit /\ [][ReceiptNext]_receiptVars

-----------------------------------------------------------------------------
(* A share is a share: the confidence of CH07 is between nothing and the   *)
(* whole, whatever carries receipts (COH-R12).                             *)
ReceiptTypeOK ==
  /\ outcomes \subseteq Outcomes
  /\ ReceiptConfidence[1] >= 0 /\ AtMostShare(ReceiptConfidence, Whole)

(* A receipt issued for one call contradicts no other: copied onto a call  *)
(* with another span, tool or arguments, or one that leaves its span or    *)
(* its arguments unsaid, it is reported as unbound or as partial (R-01).   *)
CopiesDoNotAccuse ==
  \A c \in Contradicted :
    /\ NamesAll(c.receipt)
    /\ c.receipt.span = c.span /\ c.receipt.tool = c.name
    /\ \A digest \in {c.declared, c.captured} \ {Unsaid} : digest = c.receipt.args

(* Full confidence is earned: every call that may have had an effect has a *)
(* receipt that names all of it, or that is reported as another call's,    *)
(* and is classified by the operator (COH-R12, R-01).                      *)
FullyEvaluatedMeansFalsifiable ==
  ~NothingFalsifiable /\ AtMostShare(Whole, ReceiptConfidence) =>
    \A c \in Effectful :
      /\ c.receipt # Unsaid /\ (c \in Unbound \/ NamesAll(c.receipt))
      /\ c.name \in Manifest

(* CH07 is blind beside a finding of its own only when all it found is on  *)
(* calls classified as reading (COH-R12).                                  *)
BlindOnlyOfReads == NothingFalsifiable => \A c \in ReceiptFindings : Klass(c) = "read_only"

(* A call that is known to read buys no coverage, and a call whose receipt *)
(* is worth less never raises what the finding says its receipts are worth *)
(* (COH-R12, EH-05).                                                       *)
MoreCallsBuyNothing ==
  \A c \in outcomes' \ outcomes :
    /\ Klass(c) = "read_only" => AtMostShare(ReceiptConfidence', ReceiptConfidence)
    /\ Contradicted # {} => Trust(Contradicted)' <= Trust(Contradicted)

(* A receipt copied from another call accuses none, full confidence means  *)
(* every effect could have been contradicted, and neither a read nor a     *)
(* weaker receipt raises what CH07 is worth (_receipt_binding,             *)
(* ch07_effect_contradiction; R-01, COH-R12, EH-05).                       *)
ReceiptsAccuseTheirCall ==
  /\ [](ReceiptTypeOK /\ CopiesDoNotAccuse
          /\ FullyEvaluatedMeansFalsifiable /\ BlindOnlyOfReads)
  /\ [][MoreCallsBuyNothing]_receiptVars

-----------------------------------------------------------------------------
(* Statements of the repository that the model refutes (README, section 6).*)

(* "CH07 produced a finding; a contract saying it could not be evaluated   *)
(* contradicts the finding in the same verdict" (tests/test_hostile.py).   *)
FindingMeansEvaluated == ReceiptFindings # {} => ~NothingFalsifiable
=============================================================================
