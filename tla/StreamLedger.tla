---------------------------- MODULE StreamLedger ----------------------------
(***************************************************************************)
(* The seen-stream ledger's judgement (class StreamLedger of               *)
(* src/cohaera/evidence.py): how a stream as verified by this run compares *)
(* with what previous runs recorded, and what is folded into the ledger.   *)
(* Locking, loading and saving the file are in ScoreRuns.                  *)
(*                                                                         *)
(* A ledger is [entries, exhausted]: entries maps a known stream id to     *)
(* [first, last, head, closed].  The run counter, run id, time and key ids *)
(* of an entry are carried into reports and decide nothing; they are left  *)
(* out.                                                                    *)
(***************************************************************************)
EXTENDS Sidecar

CONSTANT MaxLedgerStreams   \* Limits.max_ledger_streams

ASSUME MaxLedgerStreamsAssumption == MaxLedgerStreams \in Nat

SEEN_NEW           == "new"
SEEN_ADVANCED      == "advanced"
SEEN_DISCONTINUOUS == "discontinuous"
SEEN_REPLAYED      == "replayed"
SEEN_FORKED        == "forked"
SEEN_AFTER_CLOSE   == "after_close"

BOUNDARY_MATCH        == "match"
BOUNDARY_DIFFERS      == "differs"
BOUNDARY_UNSTATED     == "unstated"
BOUNDARY_GAP          == "gap"
BOUNDARY_NOT_COMPARED == "not_compared"

SeenStreams == [first : Nat, last : Nat, head : Heads, closed : BOOLEAN]

IsLedger(ledger) ==
  /\ ledger = [entries |-> ledger.entries, exhausted |-> ledger.exhausted]
  /\ DOMAIN ledger.entries \subseteq Streams
  /\ ledger.entries \in [DOMAIN ledger.entries -> SeenStreams]
  /\ ledger.exhausted \in BOOLEAN

Known(ledger, s) == s \in DOMAIN ledger.entries

EmptyLedger == [entries |-> [s \in {} |-> 0], exhausted |-> FALSE]

-----------------------------------------------------------------------------
(* A view is what one run established of one stream: its extent, its head, *)
(* the predecessor its first record declared, whether the run passed the   *)
(* position the ledger stopped at (`reached`) with which head there        *)
(* (`checkpoint`), and whether a verified final record closed it.          *)

SeenVerdict(status, boundary) == [status |-> status, boundary |-> boundary]

CompareContinuation(previous, view) ==
  IF previous.closed
    THEN SeenVerdict(SEEN_AFTER_CLOSE, BOUNDARY_NOT_COMPARED)
  ELSE IF view.first # previous.last + 1
    THEN SeenVerdict(SEEN_DISCONTINUOUS, BOUNDARY_GAP)
  ELSE IF view.firstPrev = NoHead
    THEN SeenVerdict(SEEN_ADVANCED, BOUNDARY_UNSTATED)
  ELSE IF view.firstPrev # previous.head
    THEN SeenVerdict(SEEN_FORKED, BOUNDARY_DIFFERS)
  ELSE SeenVerdict(SEEN_ADVANCED, BOUNDARY_MATCH)

CompareOverlap(previous, view) ==
  SeenVerdict(IF view.reached /\ view.checkpoint # previous.head
                THEN SEEN_FORKED ELSE SEEN_REPLAYED,
              BOUNDARY_NOT_COMPARED)

Compare(ledger, s, view) ==
  IF ~Known(ledger, s)
    THEN SeenVerdict(SEEN_NEW, BOUNDARY_NOT_COMPARED)
  ELSE IF view.first > ledger.entries[s].last
    THEN CompareContinuation(ledger.entries[s], view)
  ELSE CompareOverlap(ledger.entries[s], view)

(* The reason code a verdict charges to every session the stream fed.      *)
VerdictCodes(verdict) ==
  CASE verdict.status = SEEN_FORKED        -> {R_STREAM_FORKED}
    [] verdict.status = SEEN_REPLAYED      -> {R_STREAM_REPLAYED}
    [] verdict.status = SEEN_DISCONTINUOUS -> {R_STREAM_SKIPPED_RECORDS}
    [] verdict.status = SEEN_AFTER_CLOSE   -> {R_RECORDS_AFTER_CLOSE}
    [] OTHER                               -> {}

-----------------------------------------------------------------------------
(* Folding one verified stream into the ledger.  A refused stream, a       *)
(* replay, a fork and a continuation past a close leave its entry alone.   *)

(* Mutant of Advances: a replay or a fork is recorded as progress.         *)
AdvancesIfAdmitted(verdict, admit) == admit

Advances(verdict, admit) ==
  /\ admit
  /\ verdict.status \notin {SEEN_REPLAYED, SEEN_FORKED, SEEN_AFTER_CLOSE}

LedgerFull(ledger) == Cardinality(DOMAIN ledger.entries) >= MaxLedgerStreams

SeenStream(view) ==
  [first |-> view.first, last |-> view.last, head |-> view.head,
   closed |-> view.closed]

MergedStream(previous, view) ==
  [first  |-> previous.first,
   last   |-> IF view.last > previous.last THEN view.last ELSE previous.last,
   head   |-> view.head,
   closed |-> view.closed \/ previous.closed]

Record(ledger, s, verdict, view, admit) ==
  IF ~Advances(verdict, admit)
    THEN ledger
  ELSE IF Known(ledger, s)
    THEN [ledger EXCEPT !.entries[s] = MergedStream(@, view)]
  ELSE IF LedgerFull(ledger)
    THEN [ledger EXCEPT !.exhausted = TRUE]
  ELSE [ledger EXCEPT !.entries =
          [t \in DOMAIN ledger.entries \cup {s} |->
             IF t = s THEN SeenStream(view) ELSE ledger.entries[t]]]
=============================================================================
