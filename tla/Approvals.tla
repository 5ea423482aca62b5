----------------------------- MODULE Approvals ------------------------------
(***************************************************************************)
(* Which approval covers a call: the approvals of a session, the memo of   *)
(* what was verified, and the ledger of spent nonces, over the sessions of *)
(* one run.  Session.approvals_for, covering_approval and                  *)
(* _checked_approval of src/cohaera/model.py, _approval_state of           *)
(* src/cohaera/checks.py, verify_approval and ApprovalLedger.spend of      *)
(* src/cohaera/evidence.py, and the issuer of src/cohaera/emit/approvals.py.*)
(*                                                                         *)
(* A signature is the content it signs, under the issuer's key.            *)
(***************************************************************************)
EXTENDS Moments, FiniteSets, Sequences

CONSTANTS
  Contents,       \* decision, subject, nonce and window: the signed fields
  Keys,           \* key ids
  IssuerKey,      \* the issuer's
  Trusted,        \* keys the store lets approve, and has not revoked
  KeyWindow,      \* from when to when a key is valid
  Presentable,    \* approval records a producer may put in a session
  Calls,          \* the consequential calls of a session
  Early,          \* those that may be judged before it is sealed
  RequireSigned,  \* --require-signed-approvals
  LedgerOn,       \* --seen-approvals
  MaxNonces,      \* max_approval_nonces
  MaxApprovals,   \* max_approvals_per_session
  MaxPresented, MaxIssued, LastSession   \* bounds of the model

ApprovalsAssumption ==
  /\ IssuerKey \in Keys /\ Trusted \subseteq Keys /\ Early \subseteq Calls
  /\ RequireSigned \in BOOLEAN /\ LedgerOn \in BOOLEAN
  /\ RequireSigned => Trusted # {}
  /\ MaxNonces \in Nat /\ MaxApprovals \in Nat
  /\ \A c \in Contents : {c.granted, c.expires} \subseteq Int \cup {None}
  /\ \A r \in Presentable : r.content \in Contents
  /\ \A call \in Calls : call.at \in Moments

VARIABLES
  issued,    \* contents the issuer has signed
  session,   \* number of the session
  approvals, \* its approval records in clock order (ordered_events)
  sealed,    \* Session.sealed
  checked,   \* approval_checks: what is remembered of a record
  loaded,    \* nonces the ledger held when it was read
  spent,     \* ApprovalLedger._nonces
  asking,    \* the call being judged and the records still to check, or None
  told,      \* history of the session: <<record, verdict>>
  answers,   \* history of the session: <<call, state, sealed by then>>
  vouched,   \* history of the run: <<session, nonce>> found unspent
  covered    \* history of the run: <<session, nonce>> that covered a call

approvalsVars ==
  <<issued, session, approvals, sealed, checked, loaded, spent, asking, told, answers,
    vouched, covered>>

Presented == {approvals[i] : i \in DOMAIN approvals}

Nonces == {c.nonce : c \in Contents} \ {None}

-----------------------------------------------------------------------------
(* The issuer (ApprovalIssuer.issue): a complete subject, an expiry, a     *)
(* nonce of its own.                                                       *)

Complete(c) == c.span # None /\ c.tool # None /\ c.args # None

Issuable(c) ==
  /\ Complete(c)
  /\ c.granted # None /\ c.expires # None /\ c.expires > c.granted
  /\ c.nonce # None /\ \A d \in issued : d.nonce # c.nonce

Issue(c) ==
  /\ Cardinality(issued) < MaxIssued
  /\ Issuable(c)
  /\ issued' = issued \cup {c}
  /\ UNCHANGED <<session, approvals, sealed, checked, loaded, spent, asking, told,
                 answers, vouched, covered>>

-----------------------------------------------------------------------------
(* The session.                                                            *)

(* Event.sort_key: records without a clock come last.                      *)
NotAfter(a, b) == IF Clocked(a.at) THEN ~Clocked(b.at) \/ a.at.ts <= b.at.ts ELSE ~Clocked(b.at)

Inserted(r) ==
  LET place == 1 + Cardinality({i \in DOMAIN approvals : NotAfter(approvals[i], r)})
  IN [i \in 1 .. Len(approvals) + 1 |->
        IF i < place THEN approvals[i] ELSE IF i = place THEN r ELSE approvals[i - 1]]

NoMemo == [r \in {} |-> "unverified"]

(* add_event; a record delivered again is not a second one.                *)
Present(r) ==
  /\ ~sealed /\ asking = None
  /\ Len(approvals) < MaxPresented /\ r \notin Presented
  /\ r.sig # None => r.sig.over \in issued
  /\ approvals' = Inserted(r)
  /\ checked' = NoMemo
  /\ UNCHANGED <<issued, session, sealed, loaded, spent, asking, told, answers, vouched,
                 covered>>

Seal ==
  /\ ~sealed /\ asking = None
  /\ sealed' = TRUE
  /\ checked' = NoMemo
  /\ UNCHANGED <<issued, session, approvals, loaded, spent, asking, told, answers, vouched,
                 covered>>

NextSession ==
  /\ sealed /\ asking = None /\ session < LastSession
  /\ session' = session + 1
  /\ approvals' = <<>> /\ sealed' = FALSE /\ checked' = NoMemo
  /\ told' = {} /\ answers' = {}
  /\ UNCHANGED <<issued, loaded, spent, asking, vouched, covered>>

-----------------------------------------------------------------------------
(* approvals_for: the approvals that name a call, and how well.            *)

Indexed == {approvals[i] : i \in {j \in DOMAIN approvals : j <= MaxApprovals}}

Names(r, call) ==
  /\ call.span # None /\ r.content.span = call.span
  /\ r.content.tool \in {None, call.name}

Matching(call) == {r \in Indexed : Names(r, call)}

Binding(r, call) ==
  IF \/ call.unbindable
     \/ r.content.args # None /\ call.args # None /\ r.content.args # call.args
    THEN "arg_mismatch"
  ELSE IF Complete(r.content) /\ call.args # None THEN "exact"
  ELSE "span_only"

(* covers_clock.                                                           *)
Outside(from, to, t) == (from # None /\ t < from) \/ (to # None /\ t > to)

Expired(r, call) ==
  Clocked(call.at) /\ Outside(r.content.granted, r.content.expires, call.at.ts)

(* _observed_before, where it is True.                                     *)
ObservedBefore(r, call) ==
  IF BySequence(call.at, r.at) THEN r.at.seq < call.at.seq
  ELSE Clocked(call.at) /\ Clocked(r.at) /\ r.at.ts <= call.at.ts

-----------------------------------------------------------------------------
(* _checked_approval: a record is verified and its nonce spent once.       *)

(* verify_approval.                                                        *)
Verified(r) ==
  /\ r.sig # None /\ r.content.expires # None
  /\ r.sig.key \in Trusted
  /\ r.content.granted # None =>
       ~Outside(KeyWindow[r.sig.key][1], KeyWindow[r.sig.key][2], r.content.granted)
  /\ r.sig.key = IssuerKey /\ r.sig.over = r.content

Full == Cardinality(spent) >= MaxNonces

(* ApprovalLedger.spend records the nonce.                                 *)
Recorded(r) ==
  Verified(r) /\ LedgerOn /\ r.content.nonce \notin spent \cup {None} /\ ~Full

(* Mutant of Verdict: the nonces the ledger was read with are asked.       *)
VerdictAsRead(r) ==
  IF ~Verified(r) THEN "unverified"
  ELSE IF ~LedgerOn \/ r.content.nonce = None THEN "no_answer"
  ELSE IF r.content.nonce \in loaded THEN "spent"
  ELSE IF Full THEN "no_answer"
  ELSE "unspent"

Verdict(r) ==
  IF ~Verified(r) THEN "unverified"
  ELSE IF ~LedgerOn \/ r.content.nonce = None THEN "no_answer"
  ELSE IF r.content.nonce \in spent THEN "spent"
  ELSE IF Full THEN "no_answer"
  ELSE "unspent"

(* In the order of the session.                                            *)
IsFirst(r, some) ==
  \E i \in DOMAIN approvals : approvals[i] = r /\ \A j \in 1 .. i - 1 : approvals[j] \notin some

ToCheck(call) == Matching(call) \ DOMAIN checked

Ask(call) ==
  /\ sealed \/ call \in Early
  /\ asking = None
  /\ asking' = [call |-> call, todo |-> ToCheck(call)]
  /\ UNCHANGED <<issued, session, approvals, sealed, checked, loaded, spent, told, answers,
                 vouched, covered>>

Check(r) ==
  /\ asking # None /\ r \in asking.todo /\ IsFirst(r, asking.todo)
  /\ checked' = [q \in DOMAIN checked \cup {r} |-> IF q = r THEN Verdict(r) ELSE checked[q]]
  /\ spent' = IF Recorded(r) THEN spent \cup {r.content.nonce} ELSE spent
  /\ vouched' = IF Verdict(r) = "unspent" THEN vouched \cup {<<session, r.content.nonce>>}
                ELSE vouched
  /\ told' = told \cup {<<r, Verdict(r)>>}
  /\ asking' = [asking EXCEPT !.todo = @ \ {r}]
  /\ UNCHANGED <<issued, session, approvals, sealed, loaded, answers, covered>>

-----------------------------------------------------------------------------
(* covering_approval and _approval_state.                                  *)

Assured(r) == checked[r] \notin {"unverified", "spent"}

Fits(r, call) ==
  /\ r.content.decision = "allow"
  /\ Binding(r, call) = "exact" /\ ~Expired(r, call)
  /\ ObservedBefore(r, call)

Covering(call) == {r \in Matching(call) : Fits(r, call) /\ (RequireSigned => Assured(r))}

State(call) ==
  LET matches == Matching(call) IN
  IF \E r \in matches : r.content.decision = "deny" /\ Binding(r, call) = "exact" THEN "denied"
  ELSE IF Covering(call) # {} THEN "approved"
  ELSE IF RequireSigned /\ \E r \in matches : Fits(r, call) THEN "unassured"
  ELSE IF \E r \in matches : Binding(r, call) = "arg_mismatch" THEN "arg_mismatch"
  ELSE IF \E r \in matches : Expired(r, call) THEN "expired"
  ELSE IF \E r \in matches : Binding(r, call) = "span_only" THEN "span_only"
  ELSE "none"

States == {"denied", "approved", "unassured", "arg_mismatch", "expired", "span_only", "none"}

Answer ==
  /\ asking # None /\ asking.todo = {}
  /\ LET call == asking.call IN
       /\ answers' = answers \cup {<<call, State(call), sealed>>}
       /\ covered' = IF State(call) = "approved"
                       THEN covered \cup {<<session, r.content.nonce>> : r \in Covering(call)}
                     ELSE covered
  /\ asking' = None
  /\ UNCHANGED <<issued, session, approvals, sealed, checked, loaded, spent, told, vouched>>

-----------------------------------------------------------------------------
ApprovalsInit ==
  /\ issued = {} /\ session = 1
  /\ approvals = <<>> /\ sealed = FALSE /\ checked = NoMemo
  /\ loaded \in {held \in SUBSET Nonces : IsFiniteSet(held) /\ (held # {} => LedgerOn)}
  /\ spent = loaded
  /\ asking = None
  /\ told = {} /\ answers = {} /\ vouched = {} /\ covered = {}

ApprovalsNext ==
  \/ \E c \in Contents : Issue(c)
  \/ \E r \in Presentable : Present(r)
  \/ Seal \/ NextSession
  \/ \E call \in Calls : Ask(call)
  \/ \E r \in Presented : Check(r)
  \/ Answer

ApprovalsSpec == ApprovalsInit /\ [][ApprovalsNext]_approvalsVars

-----------------------------------------------------------------------------
(* Every variable has its type, and the memo is about the session.         *)
Verdicts == {"unverified", "no_answer", "unspent", "spent"}

ApprovalsTypeOK ==
  /\ issued \subseteq Contents
  /\ session \in Nat
  /\ approvals \in Seq(Presentable)
  /\ sealed \in BOOLEAN
  /\ DOMAIN checked \subseteq Presented /\ \A r \in DOMAIN checked : checked[r] \in Verdicts
  /\ loaded \subseteq spent /\ spent \subseteq Nonces
  /\ asking # None => asking.call \in Calls /\ asking.todo \subseteq Presented
  /\ told \subseteq Presentable \X Verdicts
  /\ answers \subseteq Calls \X States \X BOOLEAN
  /\ vouched \subseteq Nat \X Nonces
  /\ covered \subseteq Nat \X (Nonces \cup {None})

(* Where signed approvals are required, a call counts as approved only if  *)
(* the issuer signed an ALLOW of exactly this call, and for the time it    *)
(* started at when that can be read: no other approval lends its signature *)
(* (E26; covering_approval, verify_approval, ApprovalIssuer.issue).        *)
CoveredWasIssued ==
  RequireSigned =>
    \A answer \in answers :
      answer[2] = "approved" =>
        \E c \in issued :
          /\ c.decision = "allow"
          /\ c.span = answer[1].span /\ c.tool = answer[1].name /\ c.args = answer[1].args
          /\ Clocked(answer[1].at) =>
               c.granted <= answer[1].at.ts /\ answer[1].at.ts <= c.expires

(* A nonce is found unspent in one session of a run at most, and in none   *)
(* if the ledger already had it (ApprovalLedger.spend).                    *)
NonceVouchesOnce ==
  \A v, w \in vouched : v[2] \notin loaded /\ (v[2] = w[2] => v = w)

(* Only a signature spends a nonce: a forged approval cannot burn the      *)
(* nonce of a genuine one (_checked_approval).                             *)
SpentWasIssued == \A n \in spent \ loaded : \E c \in issued : c.nonce = n

(* Asking does not change the answer: every question about a sealed        *)
(* session's call gets the same state (_checked_approval).                 *)
AnswerKept ==
  \A a, b \in answers : a[1] = b[1] /\ a[3] /\ b[3] => a = b

(* While the ledger has room, an approval that covered a call of one       *)
(* session covers none of another (E26).                                   *)
ReplayNeedsAFullLedger ==
  RequireSigned /\ LedgerOn /\ ~Full =>
    \A c, d \in covered : c[2] # None /\ c[2] = d[2] => c = d

(* The five together, well typed.                                          *)
CoveredOnceByTheIssuer ==
  /\ ApprovalsTypeOK
  /\ CoveredWasIssued /\ NonceVouchesOnce /\ SpentWasIssued
  /\ AnswerKept /\ ReplayNeedsAFullLedger

-----------------------------------------------------------------------------
(* Statements of the repository that the model refutes (README, section 6).*)

(* "Verify an approval ONCE per session, and spend its nonce once"         *)
(* (model.py, _checked_approval).                                          *)
SpentOncePerSession ==
  \A r \in Presentable : ~(<<r, "unspent">> \in told /\ <<r, "spent">> \in told)

(* "None is 'there is no ledger' -- and None must never collapse into      *)
(* either" (evidence.py, ApprovalLedger): an approval covers no second     *)
(* session.                                                                *)
NoReplayCovers ==
  RequireSigned /\ LedgerOn =>
    \A c, d \in covered : c[2] # None /\ c[2] = d[2] => c = d

(* "no approval was presented for it" (checks.py, _APPROVAL_WORDING).      *)
NoneMeansNonePresented ==
  \A answer \in answers :
    answer[2] = "none" =>
      ~\E t \in told : Names(t[1], answer[1])
=============================================================================
