------------------------------ MODULE MCChecks ------------------------------
(***************************************************************************)
(* The checks over one session, each with its contract of coverage, one of *)
(* them in each behaviour: the order of calls and references (Ordering),   *)
(* CH01 (Grammar), CH02 (Disclosure), CH03 (Taint), CH04 (Guardrails),     *)
(* CH06 (Attestation) and CH07 (Receipts).                                 *)
(*                                                                         *)
(* The checks share no state, so a behaviour runs one of them: `part` says *)
(* which, and the variables of the others stay at an initial state.        *)
(***************************************************************************)
EXTENDS Ordering, Grammar, Disclosure, Taint, Guardrails, Attestation, Receipts, TLC

VARIABLE part

checkVars ==
  <<part, orderingVars, grammarVars, disclosureVars, taintVars, guardrailVars,
    attestationVars, receiptVars>>

(* Moments: without an attested position, and with one on the stream "st". *)
At(t) == [ts |-> t, stream |-> None, seq |-> 0]
AttestedAt(t, n) == [ts |-> t, stream |-> "st", seq |-> n]

-----------------------------------------------------------------------------
(* Names of the three checks that classify: of CH02, two tools of one      *)
(* family and one whose name holds a cue; of CH03 and CH07, a declared     *)
(* egress tool, two the manifest says read, and one no one knows.          *)
DisclosureNames == {"group_list", "group_apply", "skip_mail"}

MCNames == DisclosureNames \cup {"fetch", "send", "read", "odd"}

MCEffects ==
  "group_list" :> {"read"} @@ "group_apply" :> {"write"} @@
  "fetch" :> {"read"} @@ "send" :> {"egress"} @@ "read" :> {"read"}

MCByName ==
  [n \in MCNames |-> IF n \in {"skip_mail", "send", "read"} THEN "egress" ELSE "unknown"]

-----------------------------------------------------------------------------
(* Grammar: a routine tool, one the manifest declares and one the producer *)
(* alone classes, call by call; failures, retries, no argument digests.    *)
Called(n, v, x, a) == [name |-> n, reversible |-> v, executed |-> x, args |-> a]

GrammarSteps ==
  {Called("read", Unsaid, TRUE, NoDigest), Called("odd", FALSE, TRUE, "d2"),
   Called("odd", Unsaid, FALSE, "d1")}
  \cup {Called("odd", FALSE, x, a) : x \in BOOLEAN, a \in {NoDigest, "d1"}}
  \cup {Called("send", Unsaid, x, "d1") : x \in BOOLEAN}

Baselines == {<<>>, <<"read", "send">>, <<"read", "read", "fetch">>, <<"odd">>}

-----------------------------------------------------------------------------
(* Disclosure: the second tool of the family called twice; texts of up to  *)
(* four words.                                                             *)
MCTokens ==
  [n \in MCNames |->
     IF n = "group_list" THEN {"group", "list"} ELSE IF n = "group_apply" THEN {"group", "apply"}
     ELSE IF n = "skip_mail" THEN {"skip", "mail"} ELSE {}]

MCTexts ==
  {<<w>> : w \in Words} \cup (Cues \X Words) \cup {<<"group", "list">>, <<"apply", "mail">>} \cup
  ({"never", "skip"} \X {"STOP", "skip", "mail"} \X {"apply", "mail", "group"}) \cup
  {<<"never", "skip", "mail", "apply">>, <<"never", "STOP", "never", "mail">>}

DisclosureActs ==
  {[name |-> n, reversible |-> Unsaid, executed |-> x, span |-> "s1"] :
     n \in DisclosureNames, x \in BOOLEAN} \cup
  {[name |-> "group_apply", reversible |-> Unsaid, executed |-> TRUE, span |-> "s2"]}

-----------------------------------------------------------------------------
(* Taint: answers by span, by name and about nothing, readable and not,    *)
(* before and after the calls.                                             *)
UseOf(n, x, s, r, m) ==
  [name |-> n, reversible |-> Unsaid, executed |-> x, span |-> s, result |-> r, at |-> m]

TaintUses ==
  {UseOf("fetch", TRUE, Unsaid, r, At(1)) : r \in BOOLEAN}
  \cup {UseOf("fetch", TRUE, s, TRUE, At(1)) : s \in {"s1", "s2"}}
  \cup {UseOf("send", FALSE, "s3", FALSE, At(2))}
  \cup {UseOf("send", TRUE, "s3", FALSE, m) : m \in {At(1), AttestedAt(1, 2)}}
  \cup {UseOf("odd", TRUE, "s1", TRUE, At(1))}

Answer(s, n, c, l, h, m) ==
  [span |-> s, name |-> n, claim |-> c, list |-> l, hits |-> h, at |-> m]

TaintRecords ==
  {Answer("s1", "fetch", "false", "none", h, At(1)) : h \in BOOLEAN}
  \cup {Answer("s1", "fetch", "none", "markers", FALSE, m) : m \in {At(1), AttestedAt(NoClock, 1)}}
  \cup {Answer("s9", "fetch", "false", "none", FALSE, At(1)),
        Answer("s1", "fetch", "none", "bad", FALSE, At(1)),
        Answer(Unsaid, Unsaid, "false", "empty", FALSE, At(1)),
        Answer("s9", "send", "true", "bad", FALSE, At(2)),
        Answer("s1", "odd", "bad", "none", TRUE, At(1)),
        Answer("s2", "fetch", "false", "markers", TRUE, At(1))}

-----------------------------------------------------------------------------
(* Guardrails: two types of control, one named by the manifest and one     *)
(* policy id too; clocks that tie, are missing, or disagree with an        *)
(* attested sequence.                                                      *)
MCEnforced == "p1" :> "blocking" @@ "depth" :> "advisory"

Firing(type, policy, enforcement, at, seq) ==
  [type |-> type, policy |-> policy, enforcement |-> enforcement, at |-> at, seq |-> seq]

MCFirings ==
  {Firing("cost", None, e, At(1), None) : e \in {"advisory", "blocking", "undeclared"}} \cup
  {Firing("cost", p, IF p = None THEN "blocking" ELSE "advisory", At(2), None) :
     p \in {None, "p1"}} \cup
  {Firing("cost", None, "advisory", AttestedAt(3, 1), 1),
   Firing("cost", None, "blocking", AttestedAt(1, 3), 3)} \cup
  {Firing("cost", None, "blocking", At(NoClock), n) : n \in {None, 1}} \cup
  {Firing("depth", "p2", "advisory", At(2), None)}

MCWorks ==
  {[at |-> At(2), executed |-> x, approval |-> a, bySpan |-> FALSE] :
     x \in BOOLEAN, a \in {"none", "approved", "denied"}} \cup
  {[at |-> At(3), executed |-> TRUE, approval |-> a, bySpan |-> FALSE] :
     a \in {"none", "denied"}} \cup
  {[at |-> AttestedAt(2, 2), executed |-> TRUE, approval |-> a, bySpan |-> a # "none"] :
     a \in {"none", "expired"}}

-----------------------------------------------------------------------------
(* Attestation: two sessions on three streams, of which the verifier       *)
(* tracks two; which is which makes no difference.  A run with keys is   *)
(* given the bound, the ledger and the closed streams one after the other. *)
Alike == Permutations(AttestedSessions) \cup Permutations(AttestedStreams)

NothingSupplied == [keys |-> FALSE, bound |-> FALSE, ledger |-> FALSE, closed |-> FALSE]

Supplied ==
  /\ run.bound => run.keys
  /\ run.keys /\ run.ledger => run.bound
  /\ run.closed => run.bound /\ run.ledger

-----------------------------------------------------------------------------
(* Receipts: receipts for the call they are on, for another span, another  *)
(* tool and other arguments, and with fields missing.                      *)
Receipt(s, t, a, w) == [span |-> s, tool |-> t, args |-> a, assurance |-> w]

ReceiptsOf(name) ==
  {Unsaid} \cup
  {Receipt("s1", name, "d1", w) : w \in {Unsaid, "client_claimed"}} \cup
  {Receipt("s2", name, "d1", Unsaid), Receipt("s1", "other", "d1", Unsaid),
   Receipt("s1", name, "d2", "unreadable"), Receipt("s1", Unsaid, Unsaid, Unsaid)}

ReceiptOutcomes ==
  UNION {{[name |-> n, reversible |-> Unsaid, executed |-> v[1], span |-> "s1",
           declared |-> "d1", captured |-> v[2], receipt |-> r] :
            v \in {<<FALSE, Unsaid>>} \cup (IF n = "read" THEN {} ELSE {<<TRUE, Unsaid>>})
                  \cup (IF n = "send" THEN {<<FALSE, "d2">>} ELSE {}), r \in ReceiptsOf(n)} :
         n \in {"send", "read", "odd"}}
  \cup {[name |-> "odd", reversible |-> v, executed |-> FALSE, span |-> s, declared |-> Unsaid,
         captured |-> a, receipt |-> Receipt("s1", "odd", "d1", Unsaid)] :
          v \in BOOLEAN, s \in {Unsaid, "s1"}, a \in {Unsaid, "d1"}}

ASSUME PartsAssumption ==
  /\ MomentsAssumption /\ ClassesAssumption
  /\ OrderingAssumption
  /\ GrammarAssumption
  /\ DisclosureAssumption
  /\ TaintAssumption
  /\ GuardrailsAssumption
  /\ AttestationAssumption
  /\ ReceiptsAssumption

-----------------------------------------------------------------------------
MCInit ==
  /\ part \in {"order", "CH01", "CH02", "CH03", "CH04", "CH06", "CH07"}
  /\ OrderingInit /\ GrammarInit /\ DisclosureInit /\ TaintInit
  /\ GuardrailInit /\ AttestationInit /\ ReceiptInit
  /\ Supplied /\ (part = "CH06" \/ run = NothingSupplied)

MCNext ==
  \/ /\ part = "order" /\ OrderingNext
     /\ UNCHANGED <<part, grammarVars, disclosureVars, taintVars, guardrailVars,
                    attestationVars, receiptVars>>
  \/ /\ part = "CH01" /\ GrammarNext
     /\ UNCHANGED <<part, orderingVars, disclosureVars, taintVars, guardrailVars,
                    attestationVars, receiptVars>>
  \/ /\ part = "CH02" /\ DisclosureNext
     /\ UNCHANGED <<part, orderingVars, grammarVars, taintVars, guardrailVars,
                    attestationVars, receiptVars>>
  \/ /\ part = "CH03" /\ TaintNext
     /\ UNCHANGED <<part, orderingVars, grammarVars, disclosureVars, guardrailVars,
                    attestationVars, receiptVars>>
  \/ /\ part = "CH04" /\ GuardrailNext
     /\ UNCHANGED <<part, orderingVars, grammarVars, disclosureVars, taintVars,
                    attestationVars, receiptVars>>
  \/ /\ part = "CH06" /\ AttestationNext
     /\ UNCHANGED <<part, orderingVars, grammarVars, disclosureVars, taintVars,
                    guardrailVars, receiptVars>>
  \/ /\ part = "CH07" /\ ReceiptNext
     /\ UNCHANGED <<part, orderingVars, grammarVars, disclosureVars, taintVars,
                    guardrailVars, attestationVars>>

MCSpec == MCInit /\ [][MCNext]_checkVars

(* The statements of the repository that these instances refute are in the *)
(* modules of the checks (README, section 6).                              *)
=============================================================================
