--------------------------- MODULE StreamVerifier ---------------------------
(***************************************************************************)
(* One run of the evidence verifier (class StreamVerifier of               *)
(* src/cohaera/evidence.py) over a whole input, in arrival order.          *)
(*                                                                         *)
(* The environment delivers sidecars in any order, with losses, repeats    *)
(* and alterations: each arrival is any member of Records.  observe() is   *)
(* one action per branch; its _drain loop is one Drain action per record   *)
(* released and finalise() one action per loop iteration, with `draining`  *)
(* and `inHand` saying where in the handler the run stands.  No record is  *)
(* observed until both are empty again, so the handlers stay atomic with   *)
(* respect to arrivals, as in the single-threaded code.                    *)
(***************************************************************************)
EXTENDS StreamLedger

CONSTANTS
  Records,        \* the records with a sidecar that may be delivered
  BareSessions,   \* the sessions that may deliver a record without one
  MaxArrivals,    \* bound of the model: records delivered in one run
  MaxReorder,     \* Limits.max_reorder_window, over all streams
  MaxStreams,     \* Limits.max_integrity_streams
  MaxSignatures,  \* Limits.max_signature_verifications
  SlowHost,       \* may Limits.max_signature_seconds run out?
  RequireClosed,  \* --require-closed-streams
  LedgerEnabled,  \* --seen-streams was given
  Ledgers         \* the ledgers a run may have loaded

NoSeq     == -1
SeqOrNone == Nat \cup {NoSeq}

(* A record as the verifier sees it: its parsed sidecar, the session the   *)
(* assembler put it in, the digest of its body and its own clock.          *)
SidecarRecord ==
  [stream : Streams, seq : Nat, session : AnySession, body : Bodies,
   prev : Heads, chain : Heads, key : AnyKey,
   sig : Seq(AnyKey \cup (Streams \X Nat \X Heads \X BOOLEAN)),
   final : BOOLEAN, clock : Nat \cup {NoClock}]

ASSUME BoundsAssumption ==
  /\ MaxArrivals \in Nat /\ MaxReorder \in Nat /\ MaxStreams \in Nat
  /\ MaxSignatures \in Nat
  /\ SlowHost \in BOOLEAN /\ RequireClosed \in BOOLEAN /\ LedgerEnabled \in BOOLEAN

ASSUME RecordsAssumption ==
  /\ \A r \in Records : r \in SidecarRecord
  /\ BareSessions \subseteq AnySession

ASSUME LedgersAssumption == \A l \in Ledgers : IsLedger(l)

VARIABLES
  phase,        \* "observe", "finalise", "judge", "done"
  arrived,      \* records delivered so far
  streams,      \* per stream: the _Stream object, and the history `log`
  sessions,     \* per session key: its SessionIntegrity
  pendingTotal, \* records held over all streams
  draining,     \* <<>> or <<stream, reordered>>: inside _drain
  inHand,       \* <<>> or <<record>>: _hold's record, waiting for the drain
  sigsChecked,  \* signature verifications spent
  sigTimeSpent, \* the wall-clock budget for them has run out
  ledger,       \* the loaded seen-stream ledger, as this run changes it
  judged,       \* streams compared with the ledger
  seen,         \* history: the records observed
  repeated      \* history: <<stream, seq>> positions delivered more than once

vars == <<phase, arrived, streams, sessions, pendingTotal, draining, inHand,
          sigsChecked, sigTimeSpent, ledger, judged, seen, repeated>>

handler  == <<draining, inHand>>
sigSpent == <<sigsChecked, sigTimeSpent>>
history  == <<seen, repeated>>

LogEntries == [seq : Nat, body : Bodies, session : AnySession, by : AnyKey]

StreamState ==
  [open : BOOLEAN, expected : Nat, head : Heads, lastSession : AnySession,
   pending : SUBSET Records, first : SeqOrNone, last : SeqOrNone,
   firstPrev : Heads, cpSeq : SeqOrNone, reached : BOOLEAN,
   checkpoint : Heads, feeds : SUBSET AnySession, codes : SUBSET Codes,
   verifiedTo : SeqOrNone, closedAt : SeqOrNone,
   finalSeen : BOOLEAN, unscored : BOOLEAN, key : AnyKey,
   log : Seq(LogEntries)]

SessionState ==
  [codes : SUBSET Codes, with : BOOLEAN, without : BOOLEAN,
   tried : BOOLEAN, dated : BOOLEAN,
   ranges : SUBSET [stream : Streams, first : Nat, last : Nat,
                    verifiedTo : SeqOrNone]]

UnopenedStream ==
  [open |-> FALSE, expected |-> 0, head |-> NoHead, lastSession |-> NoSession,
   pending |-> {}, first |-> NoSeq, last |-> NoSeq, firstPrev |-> NoHead,
   cpSeq |-> NoSeq, reached |-> FALSE, checkpoint |-> NoHead, feeds |-> {},
   codes |-> {}, verifiedTo |-> NoSeq, closedAt |-> NoSeq, finalSeen |-> FALSE,
   unscored |-> FALSE, key |-> NoKey, log |-> <<>>]

EmptySession ==
  [codes |-> {}, with |-> FALSE, without |-> FALSE, tried |-> FALSE,
   dated |-> FALSE, ranges |-> {}]

OpenStreams == {s \in Streams : streams[s].open}
Idle        == draining = <<>> /\ inHand = <<>>

(* {code} if the condition holds: how a verdict on a record adds codes.    *)
On(condition, code) == IF condition THEN {code} ELSE {}

(* Add codes to the sessions of a set.                                     *)
Noted(ss, who, codes) ==
  [k \in AnySession |->
     IF k \in who THEN [ss[k] EXCEPT !.codes = @ \cup codes] ELSE ss[k]]

-----------------------------------------------------------------------------
(* _check_signature: what is concluded of one record's signature, and of   *)
(* the key that made it.  Decided from the store first, then the budget,   *)
(* then the signature, and only then the record's own clock.               *)

BudgetSpent == sigsChecked >= MaxSignatures \/ sigTimeSpent

SignatureOutcome(r) ==
  CASE ~Signed(r)                      -> "unsigned"
    [] ~KeysLoaded                     -> "no_keys"
    [] ~Trusted(r.key)                 -> "unknown"
    [] ~TrustStore[r.key].collector    -> "wrong_role"
    [] TrustStore[r.key].revoked       -> "revoked"
    [] BudgetSpent                     -> "budget"
    [] ~SigVerifies(r)                 -> "invalid"
    [] OTHER                           -> "holds"

Holds(r)    == SignatureOutcome(r) = "holds"
Attempts(r) == SignatureOutcome(r) \in {"invalid", "holds"}

(* _pin_key: a verified key other than the pinned one must succeed it.     *)
(* Mutant of KeyChanged: a succession read in both directions.             *)
KeyChangedEitherWay(st, r) ==
  /\ st.key # NoKey /\ r.key # st.key
  /\ ~Succeeds(r.key, st.key) /\ ~Succeeds(st.key, r.key)

KeyChanged(st, r) ==
  st.key # NoKey /\ r.key # st.key /\ ~Succeeds(r.key, st.key)

PinnedKey(st, r) == IF KeyChanged(st, r) THEN st.key ELSE r.key

VerifiedCodes(st, r) ==
  On(KeyChanged(st, r), R_STREAM_KEY_CHANGED)
  \cup (IF Windowed(r.key) /\ r.clock # NoClock /\ ~InsideWindow(r.key, r.clock)
          THEN IF r.clock < TrustStore[r.key].window[1]
                 THEN {R_KEY_NOT_YET_VALID} ELSE {R_KEY_EXPIRED}
          ELSE {})
  \cup On(Freshness.enabled /\ FromFuture(r.clock), R_FROM_FUTURE)
  \cup On(Freshness.enabled /\ Stale(r.clock), R_STALE)

(* Codes charged to the record's stream and to its session.                *)
SignatureCodes(st, r) ==
  LET outcome == SignatureOutcome(r) IN
  On(outcome = "unsigned" /\ KeysLoaded, R_UNSIGNED)
  \cup On(outcome = "unknown", R_KEY_UNKNOWN)
  \cup On(outcome = "wrong_role", R_KEY_WRONG_ROLE)
  \cup On(outcome = "revoked", R_KEY_REVOKED)
  \cup On(outcome = "invalid", R_SIGNATURE_INVALID)
  \cup (IF outcome = "holds" THEN VerifiedCodes(st, r) ELSE {})

(* Codes charged to the session alone.                                     *)
SessionOnlyCodes(r) ==
  LET outcome == SignatureOutcome(r) IN
  On(outcome = "no_keys", R_NO_COLLECTOR_KEYS)
  \cup On(outcome = "budget", R_SIGNATURE_BUDGET)
  \cup On(outcome = "holds" /\ Windowed(r.key) /\ r.clock = NoClock,
          R_KEY_WINDOW_UNCHECKED)

-----------------------------------------------------------------------------
(* _consume: chain- and signature-check one in-order record.               *)

(* Mutant of Unanchored: a record bound to nothing goes unremarked.        *)
UnanchoredNever(st, r) == FALSE

Unanchored(st, r) == st.head = NoHead /\ r.seq > 0

ExpectedChain(st, r) == IF st.head = NoHead THEN NoHead ELSE ChainStep(st.head, r.body)

ChainBreaks(st, r) ==
  /\ st.head # NoHead
  /\ \/ r.chain # NoHead /\ r.chain # ExpectedChain(st, r)
     \/ r.prev # NoHead /\ r.prev # st.head

(* A broken boundary is charged to the sessions on both sides of it.       *)
BreakSessions(st, r) ==
  IF ChainBreaks(st, r) THEN {st.lastSession, r.session} \ {NoSession} ELSE {}

(* Mutant of NextHead: one broken record poisons every record after it.    *)
NextHeadComputed(st, r) ==
  IF ExpectedChain(st, r) # NoHead THEN ExpectedChain(st, r)
  ELSE IF r.chain # NoHead THEN r.chain
  ELSE st.head

NextHead(st, r) ==
  IF r.chain # NoHead THEN r.chain
  ELSE IF ExpectedChain(st, r) # NoHead THEN ExpectedChain(st, r)
  ELSE st.head

(* Mutant of AfterClose: off by one.                                       *)
WellAfterClose(st, r) == st.closedAt # NoSeq /\ r.seq > st.closedAt + 1

AfterClose(st, r) == st.closedAt # NoSeq /\ r.seq > st.closedAt

(* Mutant of VerifiedTo: an attempted verification counts as one that held. *)
AttemptedTo(st, r) ==
  IF Attempts(r) /\ r.seq > st.verifiedTo THEN r.seq ELSE st.verifiedTo

VerifiedTo(st, r) ==
  IF Holds(r) /\ r.seq > st.verifiedTo THEN r.seq ELSE st.verifiedTo

RecordCodes(st, r) ==
  On(AfterClose(st, r), R_RECORDS_AFTER_CLOSE)
  \cup On(Unanchored(st, r), R_CHAIN_UNANCHORED)
  \cup SignatureCodes(st, r)

AtCheckpoint(st, r) == st.cpSeq # NoSeq /\ r.seq = st.cpSeq

(* What the history keeps of a consumed record: `by` is the key whose       *)
(* signature on it verified.                                               *)
LogEntry(r) == [seq |-> r.seq, body |-> r.body, session |-> r.session,
                by |-> IF Holds(r) THEN r.key ELSE NoKey]

Consumed(st, r) ==
  [st EXCEPT
     !.expected    = r.seq + 1,
     !.head        = NextHead(st, r),
     !.lastSession = r.session,
     !.first       = IF @ = NoSeq THEN r.seq ELSE @,
     !.firstPrev   = IF st.first = NoSeq THEN r.prev ELSE @,
     !.last        = r.seq,
     !.reached     = IF AtCheckpoint(st, r) THEN TRUE ELSE @,
     !.checkpoint  = IF AtCheckpoint(st, r) THEN NextHead(st, r) ELSE @,
     !.feeds       = @ \cup {r.session},
     !.codes       = @ \cup RecordCodes(st, r)
                       \cup On(BreakSessions(st, r) # {}, R_CHAIN_BROKEN),
     !.verifiedTo  = VerifiedTo(st, r),
     !.closedAt    = IF Holds(r) /\ r.final /\ (@ = NoSeq \/ r.seq < @)
                       THEN r.seq ELSE @,
     !.finalSeen   = IF r.final THEN TRUE ELSE @,
     !.unscored    = IF r.session = NoSession THEN TRUE ELSE @,
     !.key         = IF Holds(r) THEN PinnedKey(st, r) ELSE @,
     !.log         = Append(@, LogEntry(r))]

ConsumedSessions(ss, st, r) ==
  LET broken == Noted(ss, BreakSessions(st, r), {R_CHAIN_BROKEN})
      noted  == Noted(broken, {r.session}, RecordCodes(st, r) \cup SessionOnlyCodes(r))
  IN [noted EXCEPT ![r.session].tried = @ \/ Attempts(r),
                   ![r.session].dated =
                      @ \/ (Holds(r) /\ Freshness.enabled /\ r.clock # NoClock)]

(* Consume r from its stream, whose state is st and the sessions' ss.      *)
Consume(ss, st, r) ==
  /\ streams'     = [streams EXCEPT ![r.stream] = Consumed(st, r)]
  /\ sessions'    = ConsumedSessions(ss, st, r)
  /\ sigsChecked' = sigsChecked + (IF Attempts(r) THEN 1 ELSE 0)
  /\ UNCHANGED sigTimeSpent

-----------------------------------------------------------------------------
(* observe                                                                 *)

(* _begin: the state of a stream whose first record is r.                  *)
Begin(r) ==
  [UnopenedStream EXCEPT
     !.open     = TRUE,
     !.head     = IF r.seq = 0 THEN ChainSeed(r.stream, r.key) ELSE r.prev,
     !.expected = r.seq,
     !.cpSeq    = IF LedgerEnabled /\ Known(ledger, r.stream)
                    THEN ledger.entries[r.stream].last ELSE NoSeq]

Opened(r) == IF streams[r.stream].open THEN streams[r.stream] ELSE Begin(r)

Held(st, seq) == \E p \in st.pending : p.seq = seq

StreamBudgetSpent(r) ==
  ~streams[r.stream].open /\ Cardinality(OpenStreams) >= MaxStreams

(* The session that owns an arriving record has one with a sidecar.        *)
Arrive(r) ==
  /\ phase = "observe" /\ Idle /\ arrived < MaxArrivals
  /\ arrived'  = arrived + 1
  /\ seen'     = seen \cup {r}
  /\ repeated' = repeated \cup On(\E q \in seen : q.stream = r.stream /\ q.seq = r.seq,
                                  <<r.stream, r.seq>>)
  /\ UNCHANGED <<phase, ledger, judged>>

WithSidecar(r) == [sessions EXCEPT ![r.session].with = TRUE]

ObserveBare(k) ==
  /\ phase = "observe" /\ Idle /\ arrived < MaxArrivals
  /\ arrived'  = arrived + 1
  /\ sessions' = [sessions EXCEPT ![k].without = TRUE]
  /\ UNCHANGED <<phase, streams, pendingTotal, handler, sigSpent, ledger, judged,
                 history>>

(* Mutant of ObserveOverStreamBudget: the record is dropped in silence.    *)
DropOverStreamBudget(r) ==
  /\ Arrive(r)
  /\ StreamBudgetSpent(r)
  /\ sessions' = WithSidecar(r)
  /\ UNCHANGED <<streams, pendingTotal, handler, sigSpent>>

ObserveOverStreamBudget(r) ==
  /\ Arrive(r)
  /\ StreamBudgetSpent(r)
  /\ sessions' = Noted(WithSidecar(r), {r.session}, {R_STREAM_BUDGET})
  /\ UNCHANGED <<streams, pendingTotal, handler, sigSpent>>

ObserveInOrder(r) ==
  /\ Arrive(r)
  /\ ~StreamBudgetSpent(r)
  /\ r.seq = Opened(r).expected
  /\ LET joined == On(~streams[r.stream].open /\ r.seq # 0, R_JOINED_MIDSTREAM)
     IN Consume(Noted(WithSidecar(r), {r.session}, joined), Opened(r), r)
  /\ draining' = <<r.stream, TRUE>>
  /\ UNCHANGED <<pendingTotal, inHand>>

ObserveTaken(r) ==
  /\ Arrive(r)
  /\ streams[r.stream].open
  /\ r.seq < streams[r.stream].expected \/ Held(streams[r.stream], r.seq)
  /\ r.seq # streams[r.stream].expected
  /\ streams'  = [streams EXCEPT ![r.stream].codes = @ \cup {R_SEQUENCE_REPLAY}]
  /\ sessions' = Noted(WithSidecar(r), {r.session}, {R_SEQUENCE_REPLAY})
  /\ UNCHANGED <<pendingTotal, handler, sigSpent>>

Early(r) ==
  /\ streams[r.stream].open
  /\ r.seq > streams[r.stream].expected
  /\ ~Held(streams[r.stream], r.seq)

(* Mutant of Hold: the held record is not counted.                         *)
HoldUncounted(r) ==
  /\ streams' = [streams EXCEPT ![r.stream].pending = @ \cup {r}]
  /\ UNCHANGED pendingTotal

Hold(r) ==
  /\ streams'      = [streams EXCEPT ![r.stream].pending = @ \cup {r}]
  /\ pendingTotal' = pendingTotal + 1

ObserveEarly(r) ==
  /\ Arrive(r)
  /\ Early(r)
  /\ pendingTotal < MaxReorder
  /\ Hold(r)
  /\ sessions' = WithSidecar(r)
  /\ UNCHANGED <<handler, sigSpent>>

(* _force: declare the records before the earliest held one gone, and      *)
(* resync on the predecessor that record declares.  It does nothing when   *)
(* nothing is held, or when the earliest held position is not ahead.       *)
Earliest(st) == CHOOSE p \in st.pending : \A q \in st.pending : p.seq <= q.seq

Skips(st) == st.pending # {} /\ Earliest(st).seq > st.expected

(* Mutant of GapSessions: only the session that wrote next is charged.     *)
GapSessionsAfter(st) ==
  IF Skips(st) THEN {Earliest(st).session} \ {NoSession} ELSE {}

GapSessions(st) ==
  IF Skips(st) THEN {st.lastSession, Earliest(st).session} \ {NoSession} ELSE {}

(* Mutants of Forced: no resync of the head, or of the position.           *)
ForcedKeepingHead(st) ==
  IF Skips(st)
    THEN [st EXCEPT !.expected = Earliest(st).seq,
                    !.codes    = @ \cup On(GapSessions(st) # {}, R_SEQUENCE_GAP)]
    ELSE st

ForcedInPlace(st) ==
  IF Skips(st)
    THEN [st EXCEPT !.head  = Earliest(st).prev,
                    !.codes = @ \cup On(GapSessions(st) # {}, R_SEQUENCE_GAP)]
    ELSE st

Forced(st) ==
  IF Skips(st)
    THEN [st EXCEPT !.head     = Earliest(st).prev,
                    !.expected = Earliest(st).seq,
                    !.codes    = @ \cup On(GapSessions(st) # {}, R_SEQUENCE_GAP)]
    ELSE st

(* Mutant of ReorderBudgetNoted: degrading in silence.                     *)
ReorderBudgetHidden(st) == st

ReorderBudgetNoted(st) == [st EXCEPT !.codes = @ \cup {R_REORDER_BUDGET}]

(* The buffer is full: record that a bound decided, force, drain, and then *)
(* come back to the record in hand.                                        *)
ObserveEarlyForced(r) ==
  /\ Arrive(r)
  /\ Early(r)
  /\ pendingTotal >= MaxReorder
  /\ LET st == ReorderBudgetNoted(streams[r.stream])
     IN /\ streams'  = [streams EXCEPT ![r.stream] = Forced(st)]
        /\ sessions' = Noted(Noted(WithSidecar(r), {r.session}, {R_REORDER_BUDGET}),
                             GapSessions(st), {R_SEQUENCE_GAP})
  /\ draining' = <<r.stream, FALSE>>
  /\ inHand'   = <<r>>
  /\ UNCHANGED <<pendingTotal, sigSpent>>

(* Back in _hold with the drain finished: the record is next, or is held.  *)
Place ==
  /\ inHand # <<>> /\ draining = <<>>
  /\ inHand' = <<>>
  /\ UNCHANGED <<phase, arrived, ledger, judged, history>>

PlaceInOrder ==
  /\ Place
  /\ LET r == inHand[1] IN
       /\ r.seq = streams[r.stream].expected
       /\ Consume(sessions, streams[r.stream], r)
       /\ draining' = <<r.stream, TRUE>>
  /\ UNCHANGED pendingTotal

PlaceHeld ==
  /\ Place
  /\ inHand[1].seq # streams[inHand[1].stream].expected
  /\ Hold(inHand[1])
  /\ UNCHANGED <<sessions, draining, sigSpent>>

-----------------------------------------------------------------------------
(* _drain: consume everything now contiguous, one record per step.         *)

DrainNext ==
  /\ draining # <<>>
  /\ LET s == draining[1] IN
     \E p \in streams[s].pending :
       /\ p.seq = streams[s].expected
       /\ Consume(Noted(sessions, {p.session}, On(draining[2], R_REORDERED)),
                  [streams[s] EXCEPT !.pending = @ \ {p}], p)
  /\ pendingTotal' = pendingTotal - 1
  /\ UNCHANGED <<phase, arrived, handler, ledger, judged, history>>

DrainEnd ==
  /\ draining # <<>>
  /\ ~Held(streams[draining[1]], streams[draining[1]].expected)
  /\ draining' = <<>>
  /\ UNCHANGED <<phase, arrived, streams, sessions, pendingTotal, inHand, sigSpent,
                 ledger, judged, history>>

(* Environment: the verifications done so far took the wall-clock budget.  *)
SignatureTimeRunsOut ==
  /\ SlowHost /\ phase \in {"observe", "finalise"} /\ sigsChecked > 0 /\ ~sigTimeSpent
  /\ sigTimeSpent' = TRUE
  /\ UNCHANGED <<phase, arrived, streams, sessions, pendingTotal, handler,
                 sigsChecked, ledger, judged, history>>

-----------------------------------------------------------------------------
(* finalise                                                                *)

EndOfInput ==
  /\ phase = "observe" /\ Idle
  /\ phase' = "finalise"
  /\ UNCHANGED <<arrived, streams, sessions, pendingTotal, handler, sigSpent, ledger,
                 judged, history>>

LeastOf(S) == CHOOSE s \in S : \A t \in S : s <= t

Holding == {s \in Streams : streams[s].pending # {}}

(* One iteration of `while stream.pending: _force(); _drain()`.            *)
FinaliseForce ==
  /\ phase = "finalise" /\ Idle /\ Holding # {}
  /\ LET s  == LeastOf(Holding)
         st == streams[s]
     IN /\ streams'  = [streams EXCEPT ![s] = Forced(st)]
        /\ sessions' = Noted(sessions, GapSessions(st), {R_SEQUENCE_GAP})
        /\ draining' = <<s, FALSE>>
  /\ UNCHANGED <<phase, arrived, pendingTotal, inHand, sigSpent, ledger, judged,
                 history>>

(* Which streams were closed by their collector, charged to every session  *)
(* they fed.                                                               *)
Unclosed(s) ==
  LET st == streams[s] IN st.open /\ st.first # NoSeq /\ st.closedAt = NoSeq

CloseCodes(s) ==
  {R_STREAM_NOT_CLOSED} \cup On(streams[s].finalSeen, R_CLOSE_UNVERIFIED)
                        \cup On(RequireClosed, R_STREAM_END_MISSING)

FinaliseClose ==
  /\ phase = "finalise" /\ Idle /\ Holding = {}
  /\ sessions' = [k \in AnySession |->
       IF k = NoSession THEN sessions[k]
       ELSE [sessions[k] EXCEPT !.codes = @ \cup
               UNION {CloseCodes(s) : s \in {t \in Streams :
                                               Unclosed(t) /\ k \in streams[t].feeds}}]]
  /\ streams' = [s \in Streams |->
       IF Unclosed(s) /\ streams[s].feeds \ {NoSession} # {}
         THEN [streams[s] EXCEPT !.codes = @ \cup CloseCodes(s)]
         ELSE streams[s]]
  /\ phase' = "judge"
  /\ UNCHANGED <<arrived, pendingTotal, handler, sigSpent, ledger, judged, history>>

(* _admission: may this stream be written to the ledger?                   *)
(* Mutant of Admitted: evidence that did not hold is admitted (R-03).      *)
AdmittedUnheld(st) ==
  /\ ~st.unscored
  /\ KeysLoaded => st.verifiedTo # NoSeq

Admitted(st) ==
  /\ ~st.unscored
  /\ st.codes \cap INADMISSIBLE = {}
  /\ KeysLoaded => st.verifiedTo # NoSeq

View(st) ==
  [first |-> st.first, last |-> st.last, head |-> st.head,
   firstPrev |-> st.firstPrev, reached |-> st.reached,
   checkpoint |-> st.checkpoint, closed |-> st.closedAt # NoSeq]

Unjudged == {s \in OpenStreams : streams[s].first # NoSeq} \ judged

JudgeAgainstLedger ==
  /\ phase = "judge" /\ LedgerEnabled /\ Unjudged # {}
  /\ LET s       == LeastOf(Unjudged)
         st      == streams[s]
         verdict == Compare(ledger, s, View(st))
         codes   == VerdictCodes(verdict)
                    \cup On(~Admitted(st), R_LEDGER_NOT_ADVANCED)
                    \cup On(verdict.boundary = BOUNDARY_UNSTATED,
                            R_STREAM_BOUNDARY_UNVERIFIED)
                    \cup On(ledger'.exhausted, R_LEDGER_BUDGET)
     IN /\ ledger'   = Record(ledger, s, verdict, View(st), Admitted(st))
        /\ sessions' = Noted(sessions, st.feeds \ {NoSession}, codes)
        /\ judged'   = judged \cup {s}
  /\ UNCHANGED <<phase, arrived, streams, pendingTotal, handler, sigSpent, history>>

(* How far each stream ran and how far a verified signature reached into   *)
(* it, and the conclusions only the whole input allows.                    *)
RangesOf(k) ==
  {[stream |-> s, first |-> streams[s].first, last |-> streams[s].last,
    verifiedTo |-> streams[s].verifiedTo] :
     s \in {t \in OpenStreams : streams[t].first # NoSeq /\ k \in streams[t].feeds}}

ClosingCodes(ss) ==
  On(~LedgerEnabled /\ ss.with, R_NO_STREAM_LEDGER)
  \cup On(ss.with /\ ss.without, R_PARTIAL_INTEGRITY)
  \cup On(Freshness.enabled /\ ss.with /\ ~ss.dated, R_FRESHNESS_UNVERIFIABLE)

Report ==
  /\ phase = "judge"
  /\ LedgerEnabled => Unjudged = {}
  /\ sessions' = [k \in AnySession |->
       [sessions[k] EXCEPT !.codes  = @ \cup ClosingCodes(sessions[k]),
                           !.ranges = IF k = NoSession THEN {} ELSE RangesOf(k)]]
  /\ phase' = "done"
  /\ UNCHANGED <<arrived, streams, pendingTotal, handler, sigSpent, ledger, judged,
                 history>>

Terminated == phase = "done" /\ UNCHANGED vars

-----------------------------------------------------------------------------
Init ==
  /\ phase = "observe"
  /\ arrived = 0
  /\ streams = [s \in Streams |-> UnopenedStream]
  /\ sessions = [k \in AnySession |-> EmptySession]
  /\ pendingTotal = 0
  /\ draining = <<>>
  /\ inHand = <<>>
  /\ sigsChecked = 0
  /\ sigTimeSpent = FALSE
  /\ ledger \in Ledgers
  /\ judged = {}
  /\ seen = {}
  /\ repeated = {}

ObserveRecord ==
  \E r \in Records :
    \/ ObserveOverStreamBudget(r)
    \/ ObserveInOrder(r)
    \/ ObserveTaken(r)
    \/ ObserveEarly(r)
    \/ ObserveEarlyForced(r)

(* What the running handler does next, whatever the environment does.      *)
Handler ==
  \/ PlaceInOrder
  \/ PlaceHeld
  \/ DrainNext
  \/ DrainEnd

Finalise ==
  \/ FinaliseForce
  \/ FinaliseClose
  \/ JudgeAgainstLedger
  \/ Report

Next ==
  \/ ObserveRecord
  \/ \E k \in BareSessions : ObserveBare(k)
  \/ Handler
  \/ SignatureTimeRunsOut
  \/ EndOfInput
  \/ Finalise
  \/ Terminated

Spec == Init /\ [][Next]_vars

(* The process runs on: a handler that can take a step takes it, the input *)
(* is a file that ends, and finalise proceeds.                             *)
FairSpec == Spec /\ WF_vars(Handler) /\ WF_vars(EndOfInput) /\ WF_vars(Finalise)
=============================================================================
