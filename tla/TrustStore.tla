----------------------------- MODULE TrustStore -----------------------------
(***************************************************************************)
(* The trust store as its operator maintains it: keys are added by add_key *)
(* of src/cohaera/emit/keys.py, which refuses what the verifier would not  *)
(* load, and retired or revoked by hand.                                   *)
(***************************************************************************)
EXTENDS TrustedKeys

CONSTANT StoreEntries   \* entries an operator may write

StoreAssumption == StoreEntries \subseteq KeyEntries /\ LegacyKey \in KeyEntries

VARIABLES
  storeKeys,     \* the keys of the document
  storeLegacy    \* it is a file of collector keys

storeVars == <<storeKeys, storeLegacy>>

-----------------------------------------------------------------------------
WithKey(id, entry) ==
  [k \in DOMAIN storeKeys \cup {id} |-> IF k = id THEN entry ELSE storeKeys[k]]

(* Mutant of AddKey: an entry of the same id is written over.              *)
AddKeyOver(id, entry) ==
  /\ ~storeLegacy
  /\ storeKeys' = WithKey(id, entry) /\ Loads(storeKeys')
  /\ UNCHANGED storeLegacy

(* add_key: a key is never replaced, and a file that could not say its     *)
(* role is not upgraded.                                                   *)
AddKey(id, entry) ==
  /\ ~storeLegacy /\ id \notin DOMAIN storeKeys
  /\ storeKeys' = WithKey(id, entry) /\ Loads(storeKeys')
  /\ UNCHANGED storeLegacy

(* By hand: the operator dates the end of a key, or declares it held by    *)
(* somebody else.                                                          *)
RetireKey(id, when) ==
  /\ ~storeLegacy /\ storeKeys[id].not_after = None
  /\ storeKeys' = [storeKeys EXCEPT ![id].not_after = when] /\ Loads(storeKeys')
  /\ UNCHANGED storeLegacy

RevokeKey(id, when) ==
  /\ ~storeLegacy /\ ~Revoked(storeKeys[id])
  /\ storeKeys' = [storeKeys EXCEPT ![id].revoked_at = when]
  /\ UNCHANGED storeLegacy

(* By hand: the superseded file rewritten as a trust store.                *)
Rewrite ==
  /\ storeLegacy /\ storeLegacy' = FALSE
  /\ UNCHANGED storeKeys

-----------------------------------------------------------------------------
StoreInit ==
  /\ storeLegacy \in BOOLEAN
  /\ \E id \in Ids, entry \in StoreEntries :
       /\ storeKeys = [k \in {id} |-> IF storeLegacy THEN LegacyKey ELSE entry]
       /\ Loads(storeKeys)

StoreNext ==
  \/ \E id \in Ids, entry \in StoreEntries : AddKey(id, entry)
  \/ \E id \in DOMAIN storeKeys, when \in Times : RetireKey(id, when) \/ RevokeKey(id, when)
  \/ Rewrite

StoreSpec == StoreInit /\ [][StoreNext]_storeVars

-----------------------------------------------------------------------------
(* The document always loads: a collection of well-formed keys, within the *)
(* bound, of ids of their own.                                             *)
StoreTypeOK ==
  /\ DOMAIN storeKeys \subseteq Ids
  /\ \A id \in DOMAIN storeKeys : storeKeys[id] \in KeyEntries
  /\ storeLegacy \in BOOLEAN
  /\ Loads(storeKeys)

(* The walks find a cycle exactly when there is one: keys each of which    *)
(* replaces another of them, wherever the walk began (add_key takes a      *)
(* successor before the key it replaces, and so can close a ring).         *)
CycleReported ==
  ("rotation_cycle" \in Warnings(storeKeys, storeLegacy)) <=>
    \E ring \in (SUBSET DOMAIN storeKeys) \ {{}} : \A id \in ring : storeKeys[id].replaces \in ring

Signatures(ids) == [artifact : {"manifest"}, content : {"c"}, at : Times, key : ids, genuine : {TRUE}]

(* A revoked key vouches for nothing, whenever it says it signed; and when *)
(* the store warns that every key is revoked, nothing verifies at all.     *)
RevokedVouchesForNothing ==
  \A sig \in Signatures(Ids) :
    Outcome(sig, "c", "manifest", storeKeys) = "verified" =>
      /\ ~Revoked(storeKeys[sig.key])
      /\ "all_keys_revoked" \notin Warnings(storeKeys, storeLegacy)

(* A revocation is for good: no rotation writes over it (add_key).         *)
RevokedForGood ==
  \A id \in DOMAIN storeKeys :
    Revoked(storeKeys[id]) => id \in DOMAIN storeKeys' /\ Revoked(storeKeys'[id])

(* A key added vouches for itself alone: what another key signed is not    *)
(* accepted for its sake, even where the store had no policy key before.   *)
AddedVouchesForItself ==
  \A sig \in Signatures(DOMAIN storeKeys) :
    /\ DOMAIN storeKeys' # DOMAIN storeKeys
    /\ Outcome(sig, "c", "manifest", storeKeys') = "verified"
    => Outcome(sig, "c", "manifest", storeKeys) = "verified"

(* The store always loads, reports a ring of replacements exactly when     *)
(* there is one, and lets no revoked key vouch for anything; a revocation  *)
(* is for good, and a key added vouches for itself alone (add_key,         *)
(* from_obj, _store_warnings, verify_policy_signature).                    *)
RevocationsHold ==
  /\ [](StoreTypeOK /\ CycleReported /\ RevokedVouchesForNothing)
  /\ [][RevokedForGood /\ AddedVouchesForItself]_storeVars

-----------------------------------------------------------------------------
(* Statements of the repository that the model refutes (README, section 6).*)

(* "A key superseded by a live one, with no not_after and no revoked_at,   *)
(* keeps signing valid records forever ... That is invisible unless        *)
(* something looks for it" (evidence.py, _store_warnings).                 *)
SupersededIsBounded ==
  (\E id \in Superseded(storeKeys) : storeKeys[id].not_after = None /\ ~Revoked(storeKeys[id]))
    => "superseded_key_still_open" \in Warnings(storeKeys, storeLegacy)
=============================================================================
