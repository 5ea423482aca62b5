---------------------------- MODULE TrustedKeys -----------------------------
(***************************************************************************)
(* What a trust store says and what a policy signature is worth under it:  *)
(* TrustedKey, TrustStore.from_obj, _trusted_key, _store_warnings and      *)
(* verify_policy_signature of src/cohaera/evidence.py.                     *)
(*                                                                         *)
(* A key is [roles, not_before, not_after, revoked_at, replaces]; a store  *)
(* is a function of key ids.  Every id has a key of its own, and a         *)
(* signature that is not genuine verifies under none of them.              *)
(***************************************************************************)
EXTENDS Integers, FiniteSets

CONSTANTS
  None,
  Ids,        \* key ids
  Times,      \* seconds since the epoch
  MaxKeys     \* max_collector_keys

TrustedKeysAssumption == None \notin Ids /\ None \notin Times /\ Times \subseteq Int

Roles == {"collector", "policy", "approval"}

KeyEntries ==
  [roles : SUBSET Roles, not_before : Times \cup {None}, not_after : Times \cup {None},
   revoked_at : Times \cup {None}, replaces : Ids \cup {None}]

Revoked(key)  == key.revoked_at # None
HasWindow(key) == key.not_before # None \/ key.not_after # None

(* open_ended.                                                             *)
OpenEnded(key) == ~HasWindow(key) /\ ~Revoked(key)

(* covers_clock, of a time.                                                *)
Covers(key, when) ==
  /\ key.not_before # None => key.not_before <= when
  /\ key.not_after # None => when <= key.not_after

HasRole(keys, role) == \E id \in DOMAIN keys : role \in keys[id].roles

-----------------------------------------------------------------------------
(* A bare key of the superseded file: a collector's, for ever.             *)
LegacyKey ==
  [roles |-> {"collector"}, not_before |-> None, not_after |-> None,
   revoked_at |-> None, replaces |-> None]

(* _trusted_key, of a key that has every type right.                       *)
WellFormed(id, key) ==
  /\ key.roles # {}
  /\ key.not_before # None /\ key.not_after # None => key.not_before <= key.not_after
  /\ key.replaces # id

(* from_obj.                                                               *)
Loads(keys) ==
  /\ DOMAIN keys # {} /\ Cardinality(DOMAIN keys) <= MaxKeys
  /\ \A id \in DOMAIN keys : WellFormed(id, keys[id])

-----------------------------------------------------------------------------
(* _store_warnings.                                                        *)

Superseded(keys) == {keys[id].replaces : id \in DOMAIN keys} \cap DOMAIN keys

(* The walk from one key along `replaces`: does it meet a key again?       *)
Loops(keys, start) ==
  LET Walk[seen \in SUBSET DOMAIN keys] ==
        [cur \in Ids \cup {None} |->
           IF cur \notin DOMAIN keys THEN FALSE
           ELSE IF cur \in seen THEN TRUE
           ELSE Walk[seen \cup {cur}][keys[cur].replaces]]
  IN Walk[{start}][keys[start].replaces]

Warnings(keys, legacy) ==
  (IF legacy THEN {"legacy_schema"} ELSE {})
  \cup (IF \E id \in Superseded(keys) : OpenEnded(keys[id])
        THEN {"superseded_key_still_open"} ELSE {})
  \cup (IF \E id \in DOMAIN keys : Loops(keys, id) THEN {"rotation_cycle"} ELSE {})
  \cup (IF \A id \in DOMAIN keys : Revoked(keys[id]) THEN {"all_keys_revoked"} ELSE {})

-----------------------------------------------------------------------------
(* A policy signature is [artifact, content, at, key, genuine]: over which *)
(* kind of file, over which bytes, when, and by which key it says.         *)

(* verify_policy_signature.  What an expired key and one not yet valid are *)
(* called apart is left out.                                               *)
Outcome(sig, content, artifact, keys) ==
  IF sig.artifact # artifact THEN "artifact_mismatch"
  ELSE IF sig.content # content THEN "digest_mismatch"
  ELSE IF ~HasRole(keys, "policy") THEN "no_policy_keys"
  ELSE IF sig.key \notin DOMAIN keys THEN "key_unknown"
  ELSE IF "policy" \notin keys[sig.key].roles THEN "key_wrong_role"
  ELSE IF Revoked(keys[sig.key]) THEN "key_revoked"
  ELSE IF ~sig.genuine THEN "invalid"
  ELSE IF Covers(keys[sig.key], sig.at) THEN "verified" ELSE "outside_window"
=============================================================================
