----------------------------- MODULE MCOperator -----------------------------
(***************************************************************************)
(* What the operator supplies and maintains around the verifier, one part  *)
(* of it in each behaviour: the trust store (TrustStore), the files of a   *)
(* run's policy (PolicyRun), key generation (KeyRuns), collectors that     *)
(* share files (SharedSigner), the identity of runs (RunIdentity) and the  *)
(* capability manifest (Manifest).                                         *)
(*                                                                         *)
(* The parts share no state, so a behaviour runs one of them: `part` says  *)
(* which, and the variables of the others stay at an initial state.        *)
(***************************************************************************)
EXTENDS TrustStore, PolicyRun, KeyRuns, SharedSigner, Manifest, RunIdentity, TLC

CONSTANTS
  b0, b1,     \* bodies
  Twins       \* two runs of keygen

VARIABLE part

allVars ==
  <<part, storeVars, policyVars, keygenVars, sharingVars, identityVars, manifestVars>>

Alike == Permutations(Ids)

-----------------------------------------------------------------------------
(* TrustStore: keys of one role, open or with either end of a window.      *)
MCStoreEntries ==
  [roles : {{"collector"}, {"policy"}}, not_before : {1, None}, not_after : {2, None},
   revoked_at : {None}, replaces : Ids \cup {None}]

-----------------------------------------------------------------------------
(* PolicyRun: a policy key, one that is revoked, and a collector's;        *)
(* signatures of either file over two contents; every pair of them on a    *)
(* command line.                                                           *)
PolicyKey(roles, revoked) ==
  [roles |-> roles, not_before |-> None, not_after |-> None,
   revoked_at |-> revoked, replaces |-> None]

PolicyStores ==
  {("p" :> PolicyKey({"policy"}, None) @@ "c" :> PolicyKey({"collector"}, None)),
   ("p" :> PolicyKey({"policy"}, 1)),
   ("c" :> PolicyKey({"collector"}, None))}

Over(artifact, key, genuine) ==
  [artifact |-> artifact, content |-> "good", at |-> 1, key |-> key, genuine |-> genuine]

ManifestSigs == {None, Over("manifest", "p", TRUE), Over("baseline", "p", TRUE)}

BaselineSigs ==
  {None, Over("manifest", "p", TRUE), Over("baseline", "c", TRUE)}
  \cup {Over("baseline", "p", g) : g \in BOOLEAN}

NoSignatures == "manifest" :> [artifact |-> "none"] @@ "baseline" :> [artifact |-> "none"]

CommandLines ==
  [files : SUBSET Artifacts,
   sigs : {"manifest" :> m @@ "baseline" :> b : m \in ManifestSigs, b \in BaselineSigs},
   keys : PolicyStores, require : BOOLEAN, partial : {FALSE}]
  \cup
  [files : {{"baseline"}, {"manifest", "baseline"}},
   sigs : {"manifest" :> m @@ "baseline" :> b : m \in ManifestSigs, b \in BaselineSigs},
   keys : PolicyStores, require : {FALSE}, partial : {TRUE}]
  \cup [files : {{"manifest", "baseline"}}, sigs : {NoSignatures},
        keys : PolicyStores, require : BOOLEAN, partial : {FALSE}]

(* Where the policy is not the part: nothing is given.                     *)
NothingGiven ==
  [files |-> {}, sigs |-> [a \in Artifacts |-> None],
   keys |-> "p" :> PolicyKey({"policy"}, 1), require |-> FALSE, partial |-> FALSE]

PolicyAside == args = NothingGiven /\ content = <<"good", "good">>

-----------------------------------------------------------------------------
(* KeyRuns: four runs: two for one key file, one that overwrites it, one   *)
(* apart.                                                                  *)
KeygenRuns == Twins \cup {"overwriting", "apart"}

WrittenTo == [r \in KeygenRuns |-> IF r = "apart" THEN "g" ELSE "f"]

-----------------------------------------------------------------------------
(* SharedSigner: a collector of two threads, and a second collector that   *)
(* may be started beside it on the same files.                             *)
HomeOf    == "w1" :> "p1" @@ "w2" :> "p1" @@ "w3" :> "p2"
RecordsOf == "w1" :> 2 @@ "w2" :> 1 @@ "w3" :> 1
LivesOf   == "p1" :> 2 @@ "p2" :> 1

-----------------------------------------------------------------------------
(* RunIdentity: one stream in two halves and whole, approvals with either  *)
(* of two nonces, and runs without ledgers that pin their instant or do    *)
(* not.                                                                    *)
Chain == << <<0, "K1">>, b0, b1 >>
HeadAt(n) == SubSeq(Chain, 1, n + 2)

Stretch(first, last, nonces, uses) ==
  [stream |-> 0, first |-> first, prev |-> HeadAt(first - 1),
   heads |-> [i \in 1 .. last - first + 1 |-> HeadAt(first + i - 1)],
   closed |-> FALSE, admit |-> TRUE, nonces |-> nonces, uses |-> uses]

ScoredBatch ==
  "First" :> Stretch(0, 0, <<NoNonce>>, {"streams"}) @@
  "Rest"  :> Stretch(1, 1, <<NoNonce>>, {"streams"}) @@
  "Whole" :> Stretch(0, 1, <<NoNonce>>, {"streams"}) @@
  "Approving" :> Stretch(0, 1, <<"n1">>, {"approvals"}) @@
  "Spending"  :> Stretch(0, 1, <<"n2", "n2">>, {"approvals"}) @@
  "Plain"   :> Stretch(0, 1, <<NoNonce>>, {}) @@
  "Past"    :> Stretch(0, 1, <<NoNonce>>, {}) @@
  "Present" :> Stretch(0, 1, <<NoNonce>>, {})

Pins ==
  [r \in DOMAIN ScoredBatch |-> IF r = "Past" THEN 0 ELSE IF r \in {"Present", "Rest"} THEN 2
                                ELSE NotPinned]

ScoredRuns  == DOMAIN ScoredBatch
OneKeyStore ==
  "K1" :> [collector |-> TRUE, revoked |-> FALSE, window |-> <<>>, replaces |-> NoKey]
NoFreshness == [enabled |-> FALSE, asOf |-> 0, maxAge |-> 0, maxSkew |-> 0]

-----------------------------------------------------------------------------
(* Manifest: files of up to two tools and two policies: every way one      *)
(* field of an entry can be wrong, and respellings of the same entry.      *)
Entry(effects, destination, approval, sensitive) ==
  [effects |-> effects, reversible |-> Unset, destination |-> destination,
   approval |-> approval, sensitive |-> sensitive]

Writing == Entry(<<"write">>, Unset, FALSE, Unset)

ToolEntries ==
  {Entry(e, Unset, Unset, Unset) :
     e \in {<<>>, <<Junk>>, <<"read">>, <<"write", "delete">>, <<"delete", "write">>,
            <<"read", "egress">>, <<"egress">>, <<"read", Junk>>}} \cup
  {Entry(<<"write">>, d, FALSE, Unset) : d \in {Unset, Blank, "dest", Junk}} \cup
  {Entry(<<"write">>, Unset, a, Unset) : a \in {TRUE, Junk}} \cup
  {Entry(<<"write">>, Unset, FALSE, s) :
     s \in {<<>>, <<"a">>, <<"a", "a">>, <<"a", "b">>, <<"b", "a">>, <<"a", Junk>>,
            <<"a", "a", "b">>, Junk}} \cup
  {[Writing EXCEPT !.reversible = r] : r \in {TRUE, Junk}}

File(ts, ps, label) ==
  [readable |-> TRUE, tools |-> ts, policies |-> ps, label |-> label]

Declarations ==
  {<<>>, <<<<"p1", "blocking">>>>, <<<<"p1", "advisory">>>>, <<<<"p1", Junk>>>>,
   <<<<"p1", "blocking">>, <<"p2", "advisory">>>>,
   <<<<"p2", "advisory">>, <<"p1", "blocking">>>>,
   <<<<"p1", "blocking">>, <<"p2", Junk>>>>,
   <<<<"p1", "blocking">>, <<"p2", "advisory">>, <<"p3", "advisory">>>>}

ManifestFiles ==
  {File(<<<<"t1", e>>>>, <<>>, "1") : e \in ToolEntries} \cup
  {File(<<<<"t2", Writing>>, <<"t1", e>>>>, <<<<"p1", "blocking">>>>, "1") : e \in ToolEntries} \cup
  {File(<<<<"t1", Writing>>, <<"t2", Writing>>>>, ps, label) :
     ps \in Declarations, label \in {"1", "2", Junk}} \cup
  {File(<<>>, <<>>, "1"), File(<<>>, <<<<"p1", "advisory">>>>, "1"),
   File(<<<<"t1", Writing>>, <<"t2", Writing>>, <<"t3", Writing>>>>, <<>>, "1"),
   [File(<<<<"t1", Writing>>>>, <<>>, "1") EXCEPT !.readable = FALSE]}

ASSUME PartsAssumption ==
  /\ TrustedKeysAssumption /\ StoreAssumption
  /\ PolicyRunAssumption
  /\ KeyRunsAssumption
  /\ SharingAssumption
  /\ RunIdentityAssumption
  /\ ManifestAssumption

-----------------------------------------------------------------------------
MCInit ==
  /\ KeygenInit /\ SharingInit /\ PolicyInit /\ IdentityInit /\ ManifestInit
  /\ part \in {"store", "policy", "keygen", "sharing", "identity", "manifest"}
  /\ StoreInit /\ (part = "store" \/ storeLegacy)
  /\ part = "policy" \/ PolicyAside

MCNext ==
  \/ /\ part = "store" /\ StoreNext
     /\ UNCHANGED <<part, policyVars, keygenVars, sharingVars, identityVars, manifestVars>>
  \/ /\ part = "policy" /\ PolicyNext
     /\ UNCHANGED <<part, storeVars, keygenVars, sharingVars, identityVars, manifestVars>>
  \/ /\ part = "keygen" /\ KeygenNext
     /\ UNCHANGED <<part, storeVars, policyVars, sharingVars, identityVars, manifestVars>>
  \/ /\ part = "sharing" /\ SharingNext
     /\ UNCHANGED <<part, storeVars, policyVars, keygenVars, identityVars, manifestVars>>
  \/ /\ part = "identity" /\ IdentityNext
     /\ UNCHANGED <<part, storeVars, policyVars, keygenVars, sharingVars, manifestVars>>
  \/ /\ part = "manifest" /\ ManifestNext
     /\ UNCHANGED <<part, storeVars, policyVars, keygenVars, sharingVars, identityVars>>

MCSpec == MCInit /\ [][MCNext]_allVars

(* The statements of the repository that these instances refute are in the *)
(* modules of the parts (README, section 6).                               *)
=============================================================================
