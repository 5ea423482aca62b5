------------------------------ MODULE Classes -------------------------------
(***************************************************************************)
(* What a call is taken to do, how far that is known, and the shares a     *)
(* contract's confidence is a product of: ToolCall.klass and               *)
(* ToolCall.klass_source of src/cohaera/model.py, Capability.klass of      *)
(* src/cohaera/capabilities.py, _classification_quality of                 *)
(* src/cohaera/checks.py.                                                  *)
(*                                                                         *)
(* A call has a name and the producer's `reversible` flag, Unsaid when it  *)
(* gave none.                                                              *)
(***************************************************************************)
EXTENDS Integers, FiniteSets

CONSTANTS
  Unsaid,     \* what a record does not say
  Names,      \* tool names
  Manifest,   \* the names the operator's manifest declares ...
  Effects,    \* ... and the effects it declares of each
  ByName      \* what the words of a name suggest (_classify)

Klasses == {"egress", "state_change", "read_only", "unknown"}

ValidEffects == {"read", "write", "delete", "execute", "egress"}

ClassesAssumption ==
  /\ Manifest \subseteq Names
  /\ Effects \in [Manifest -> SUBSET ValidEffects]
  /\ ByName \in [Names -> Klasses]

(* Capability.klass.                                                       *)
DeclaredKlass(name) ==
  IF "egress" \in Effects[name] THEN "egress"
  ELSE IF Effects[name] \cap {"write", "delete", "execute"} # {} THEN "state_change"
  ELSE IF "read" \in Effects[name] THEN "read_only"
  ELSE "unknown"

(* ToolCall.klass: the manifest, then egress by name, then the producer's  *)
(* flag, then the name.                                                    *)
Klass(call) ==
  IF call.name \in Manifest THEN DeclaredKlass(call.name)
  ELSE IF ByName[call.name] = "egress" THEN "egress"
  ELSE IF call.reversible = Unsaid THEN ByName[call.name]
  ELSE IF call.reversible THEN "read_only" ELSE "state_change"

IsConsequential(call) == Klass(call) \in {"state_change", "egress"}

(* What a call's class is worth, in tenths: nothing when it is unknown,    *)
(* the whole when the operator declared it.                                *)
Worth(call) ==
  IF Klass(call) = "unknown" THEN 0 ELSE IF call.name \in Manifest THEN 10 ELSE 7

(* _classification_quality: the worst call of the session (COH-R07).       *)
WorstWorth(calls) ==
  IF calls = {} THEN 10
  ELSE CHOOSE w \in {Worth(c) : c \in calls} : \A c \in calls : w <= Worth(c)

-----------------------------------------------------------------------------
(* Shares: a numerator and a denominator.                                  *)

Whole == <<1, 1>>

Share(part, all) == IF all = {} THEN Whole ELSE <<Cardinality(part), Cardinality(all)>>

Times(a, b) == <<a[1] * b[1], a[2] * b[2]>>

AtMostShare(a, b) == a[1] * b[2] <= b[1] * a[2]

(* Half of what is in dispute is charged: 1 - share / 2.                   *)
HalfCharged(share) == <<2 * share[2] - share[1], 2 * share[2]>>

ClassShare(calls) == <<WorstWorth(calls), 10>>
=============================================================================
