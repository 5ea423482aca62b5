------------------------------ MODULE Manifest ------------------------------
(***************************************************************************)
(* Reading a capability manifest, and its two digests:                     *)
(* CapabilityManifest.from_bytes, from_obj and semantic_digest of          *)
(* src/cohaera/capabilities.py, for one manifest after another.            *)
(*                                                                         *)
(* A value of a wrong type, a string or list over its bound and a word     *)
(* outside its vocabulary are all Junk.  A file is its own file digest:    *)
(* digests do not collide.                                                 *)
(***************************************************************************)
EXTENDS Naturals, Sequences, SequencesExt

CONSTANTS
  Files,        \* manifest files: [readable, tools, policies, label]
  Junk, Unset,  \* a value no field may have; a field that is not there
  Blank,        \* ""
  MaxTools, MaxSensitive   \* limits.max_manifest_tools, max_manifest_sensitive_args

Effects == {"read", "write", "delete", "execute", "egress"}

ManifestAssumption ==
  /\ MaxTools \in Nat /\ MaxSensitive \in Nat
  /\ Unset \notin Files
  /\ \A f \in Files :
       /\ f.tools \in Seq(Range(f.tools)) /\ f.policies \in Seq(Range(f.policies))
       /\ \A t \in Range(f.tools) : t[2].approval \in BOOLEAN \cup {Unset, Junk}

VARIABLES
  source,    \* the file being read, or Unset
  tools,     \* tools: the capabilities read so far, a set of <<tool_id, Capability>>
  policies,  \* policies: the declarations read so far
  position,  \* entries of the file that were read
  stage,     \* "idle", "tools", "policies", "loaded" or "refused"
  before     \* the manifest loaded before this one, or Unset

manifestVars == <<source, tools, policies, position, stage, before>>

-----------------------------------------------------------------------------
(* One entry.                                                              *)

(* Mutant of Usable: what is false is taken for what is not there.         *)
UsableFalsey(entry) ==
  /\ entry.effects # <<>> /\ Range(entry.effects) \subseteq Effects
  /\ Junk \notin {entry.reversible, entry.destination, entry.approval}
  /\ entry.sensitive \in {Unset, Junk} \/
       (Len(entry.sensitive) <= MaxSensitive /\ Junk \notin Range(entry.sensitive))

Usable(entry) ==
  /\ entry.effects # <<>> /\ Range(entry.effects) \subseteq Effects
  /\ Junk \notin {entry.reversible, entry.destination, entry.approval, entry.sensitive}
  /\ entry.sensitive = Unset \/
       (Len(entry.sensitive) <= MaxSensitive /\ Junk \notin Range(entry.sensitive))

Capability(entry) ==
  [effects |-> Range(entry.effects), reversible |-> entry.reversible,
   destination |-> entry.destination,
   approval |-> IF entry.approval = Unset THEN FALSE ELSE entry.approval,
   sensitive |-> IF entry.sensitive \in {Unset, Junk} THEN <<>> ELSE entry.sensitive]

(* Capability.klass.                                                       *)
Klass(cap) ==
  IF "egress" \in cap.effects THEN "egress"
  ELSE IF cap.effects \cap {"write", "delete", "execute"} # {} THEN "state_change"
  ELSE "read_only"

-----------------------------------------------------------------------------
(* The digests.                                                            *)

(* Capability.semantics.                                                   *)
Meaning(cap) ==
  [effects |-> cap.effects, reversible |-> cap.reversible,
   destination |-> IF cap.destination = Blank THEN Unset ELSE cap.destination,
   approval |-> cap.approval, sensitive |-> Range(cap.sensitive)]

(* semantic_digest; with nothing declared it is "", here the empty sets.   *)
SemanticDigest(caps, decls) ==
  [tools |-> {<<t[1], Meaning(t[2])>> : t \in caps}, policies |-> decls]

-----------------------------------------------------------------------------
(* The loader.                                                             *)

Open(f) ==
  /\ stage \in {"idle", "loaded", "refused"}
  /\ before' = IF stage = "loaded"
               THEN [file |-> source, tools |-> tools, policies |-> policies]
               ELSE before
  /\ source' = f /\ tools' = {} /\ policies' = {} /\ position' = 0
  /\ stage' = IF f.readable /\ Len(f.tools) <= MaxTools THEN "tools" ELSE "refused"

(* The first entry that is no good refuses the file.                       *)
ReadTool ==
  LET t == source.tools[position + 1] IN
  /\ stage = "tools" /\ position < Len(source.tools)
  /\ IF Usable(t[2])
       THEN /\ position' = position + 1 /\ UNCHANGED stage
            /\ tools' = tools \cup {<<t[1], Capability(t[2])>>}
       ELSE stage' = "refused" /\ UNCHANGED <<position, tools>>
  /\ UNCHANGED <<source, policies, before>>

TurnToPolicies ==
  /\ stage = "tools" /\ position = Len(source.tools)
  /\ position' = 0
  /\ stage' = IF Len(source.policies) <= MaxTools THEN "policies" ELSE "refused"
  /\ UNCHANGED <<source, tools, policies, before>>

(* No default: a policy that says nothing usable refuses the file.         *)
ReadPolicy ==
  LET p == source.policies[position + 1] IN
  /\ stage = "policies" /\ position < Len(source.policies)
  /\ IF p[2] \in {"blocking", "advisory"}
       THEN position' = position + 1 /\ policies' = policies \cup {p} /\ UNCHANGED stage
       ELSE stage' = "refused" /\ UNCHANGED <<position, policies>>
  /\ UNCHANGED <<source, tools, before>>

Finish ==
  /\ stage = "policies" /\ position = Len(source.policies)
  /\ stage' = IF source.label = Junk THEN "refused" ELSE "loaded"
  /\ UNCHANGED <<source, tools, policies, position, before>>

ManifestInit ==
  /\ source = Unset /\ tools = {} /\ policies = {} /\ position = 0
  /\ stage = "idle" /\ before = Unset

ManifestNext == (\E f \in Files : Open(f)) \/ ReadTool \/ TurnToPolicies \/ ReadPolicy \/ Finish

ManifestSpec == ManifestInit /\ [][ManifestNext]_manifestVars

-----------------------------------------------------------------------------
Loaded == stage = "loaded"

(* A manifest that stands beside one loaded before it.                     *)
Compared == Loaded /\ before # Unset

Same(caps, decls) == SemanticDigest(tools, policies) = SemanticDigest(caps, decls)

(* Every variable has its type.                                            *)
ManifestTypeOK ==
  /\ source \in Files \cup {Unset}
  /\ stage \in {"idle", "tools", "policies", "loaded", "refused"}
  /\ stage = "idle" <=> source = Unset
  /\ stage = "tools" => position \in 0 .. Len(source.tools)
  /\ \A t \in tools : t[2].effects \subseteq Effects /\ t[2].approval \in BOOLEAN

(* A manifest is loaded whole or not at all: what the file says of a tool  *)
(* or a policy is what the manifest says ("Refuse it; do not half-load     *)
(* it", and the quiet half of COH-R06).                                    *)
LoadedWhole ==
  Loaded =>
    /\ {t[1] : t \in tools} = {t[1] : t \in Range(source.tools)}
    /\ policies = Range(source.policies)
    /\ \A t \in tools : \E e \in {x[2] : x \in {y \in Range(source.tools) : y[1] = t[1]}} :
         /\ t[2].effects = Range(e.effects)
         /\ e.approval # Unset => t[2].approval = e.approval
         /\ e.sensitive # Unset => t[2].sensitive = e.sensitive

(* Two manifests of one semantic digest give every tool the same class and *)
(* every policy the same enforcement: verdicts that differ in neither      *)
(* digest were reached under one policy (C4-10).                           *)
DigestFixesTheClasses ==
  Compared /\ Same(before.tools, before.policies) =>
    /\ {<<t[1], Klass(t[2])>> : t \in tools} = {<<t[1], Klass(t[2])>> : t \in before.tools}
    /\ policies = before.policies

(* An edit of spelling alone moves the file digest only: the order of      *)
(* entries, effects and arguments, a name given twice, a blank             *)
(* destination, a label.                                                   *)
Respelled(f, g) ==
  LET Said(e) == [effects |-> Range(e.effects), reversible |-> e.reversible,
                  destination |-> IF e.destination = Blank THEN Unset ELSE e.destination,
                  approval |-> e.approval,
                  sensitive |-> IF e.sensitive = Unset THEN {} ELSE Range(e.sensitive)]
      Tools(h) == {<<t[1], Said(t[2])>> : t \in Range(h.tools)}
  IN Tools(f) = Tools(g) /\ Range(f.policies) = Range(g.policies)

SpellingMovesNothing ==
  Compared /\ Respelled(source, before.file) => Same(before.tools, before.policies)

(* A manifest is loaded whole or not at all, manifests of one semantic     *)
(* digest give every tool its class, and a respelling moves no digest      *)
(* (from_obj, semantic_digest; COH-R06, C4-10).                            *)
LoadedWholeUnderOneDigest ==
  ManifestTypeOK /\ LoadedWhole /\ DigestFixesTheClasses /\ SpellingMovesNothing

-----------------------------------------------------------------------------
(* Statements of the repository that the model refutes (README, section 6).*)

(* "Two declarations that Cohaera would act on identically must reduce to  *)
(* the same structure here" (capabilities.py, Capability.semantics): the   *)
(* class is all that the engine reads of a capability.                     *)
ActedOnAlikeIsDigestedAlike ==
  Compared /\ policies = before.policies
    /\ {<<t[1], Klass(t[2])>> : t \in tools} = {<<t[1], Klass(t[2])>> : t \in before.tools}
  => Same(before.tools, before.policies)
=============================================================================
