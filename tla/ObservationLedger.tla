------------------------- MODULE ObservationLedger -------------------------
(***************************************************************************)
(* What the two ledgers promise, whatever the number of runs and wherever  *)
(* they stop: each observation that reached a ledger was judged, as one    *)
(* step, against everything that had reached it before, and all of it was  *)
(* told to the analyst.  `told` is the sequence of those observations.     *)
(***************************************************************************)
EXTENDS Observation

VARIABLES streams, approvals, told

avars == <<streams, approvals, told>>

AInit ==
  /\ streams   = EmptyLedger
  /\ approvals = {}
  /\ told      = <<>>

(* A run's stream is judged, reported and recorded.                        *)
ObserveStream(r) ==
  /\ streams' = AsDocument(Scored(Batch[r], streams))
  /\ told' = Append(told, [run |-> r, ledger |-> "streams",
                           outcome |-> Judged(Batch[r], streams).status])
  /\ UNCHANGED approvals

(* Each session is answered knowing the answers before it.                *)
InTurn(b, answers, spent) ==
  \A n \in DOMAIN answers :
    answers[n] = Answer(b.nonces[n], SpentAfter(b, answers, n - 1, spent))

(* A run's approvals are presented, answered and recorded.                 *)
ObserveApprovals(r) ==
  LET b == Batch[r] IN
  /\ \E answers \in [DOMAIN b.nonces -> {UNSPENT, SPENT, NO_ANSWER}] :
       /\ InTurn(b, answers, approvals)
       /\ approvals' = SpentAfter(b, answers, Len(b.nonces), approvals)
       /\ told' = Append(told, [run |-> r, ledger |-> "approvals",
                                outcome |-> answers])
  /\ UNCHANGED streams

ANext == \E r \in Runs : ObserveStream(r) \/ ObserveApprovals(r)

ASpec == AInit /\ [][ANext]_avars
=============================================================================
