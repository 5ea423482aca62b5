---------------------------- MODULE Observation ----------------------------
(***************************************************************************)
(* What one run of `cohaera score` observes, in memory: a stream compared  *)
(* with a seen-stream ledger, and approval nonces presented to an approval *)
(* ledger (StreamLedger.compare and ApprovalLedger.spend of                *)
(* src/cohaera/evidence.py).  ScoreRuns runs it; ObservationLedger says    *)
(* what the ledgers promise about it.                                      *)
(***************************************************************************)
EXTENDS StreamLedger

CONSTANTS
  Runs,       \* the inputs that are scored
  Nonces,     \* approval nonces
  NoNonce,    \* a session that presents no signed approval
  Batch,      \* [Runs -> Batches]: what each run is given
  MaxNonces   \* Limits.max_approval_nonces

LedgerNames == {"streams", "approvals"}

(* A batch is one stream as verification leaves it, as positions from      *)
(* `first` with the chain head after each, the predecessor it declares,    *)
(* whether it was closed and whether its evidence is admitted; the nonce   *)
(* each session presents; and the ledgers the run was given.               *)
Batches ==
  [stream : Streams, first : Nat, heads : Seq(Heads) \ {<<>>}, prev : Heads,
   closed : BOOLEAN, admit : BOOLEAN, nonces : Seq(Nonces \cup {NoNonce}),
   uses : SUBSET LedgerNames]

ASSUME ObservationAssumption ==
  /\ NoNonce \notin Nonces
  /\ \A r \in Runs : Batch[r] \in Batches
  /\ MaxNonces \in Nat

Uses(r, name) == name \in Batch[r].uses

LastOf(b) == b.first + Len(b.heads) - 1

Positions(b) == b.first .. LastOf(b)

-----------------------------------------------------------------------------
(* What verification establishes of the batch's stream, the head at the    *)
(* position the ledger stopped at included.                                *)
View(b, ledger) ==
  LET position == ledger.entries[b.stream].last
      reached  == Known(ledger, b.stream) /\ position \in Positions(b)
  IN [first |-> b.first, last |-> LastOf(b), head |-> b.heads[Len(b.heads)],
      firstPrev |-> b.prev, reached |-> reached,
      checkpoint |-> IF reached THEN b.heads[position - b.first + 1] ELSE NoHead,
      closed |-> b.closed]

Judged(b, ledger) == Compare(ledger, b.stream, View(b, ledger))

(* The ledger after the stream has been folded in, as it is written: that  *)
(* its budget ran out is not.                                              *)
Scored(b, ledger) ==
  Record(ledger, b.stream, Judged(b, ledger), View(b, ledger), b.admit)

AsDocument(ledger) == [ledger EXCEPT !.exhausted = FALSE]

-----------------------------------------------------------------------------
UNSPENT   == "unspent"
SPENT     == "spent"
NO_ANSWER == "no_answer"

(* ApprovalLedger.spend of a nonce, when `spent` are the nonces known.     *)
Answer(nonce, spent) ==
  IF nonce = NoNonce THEN NO_ANSWER
  ELSE IF nonce \in spent THEN SPENT
  ELSE IF Cardinality(spent) >= MaxNonces THEN NO_ANSWER
  ELSE UNSPENT

(* The nonces told to be unspent by the first n answers, and those known   *)
(* from then on.                                                           *)
Granted(b, answers, n) == {b.nonces[i] : i \in {k \in 1 .. n : answers[k] = UNSPENT}}

SpentAfter(b, answers, n, spent) == spent \cup Granted(b, answers, n)
=============================================================================
