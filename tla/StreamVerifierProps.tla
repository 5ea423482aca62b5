------------------------- MODULE StreamVerifierProps -------------------------
(***************************************************************************)
(* What a run of the stream verifier promises.  The properties compare the *)
(* run with what the collector really wrote: `Written`, the bodies of each *)
(* stream by position, and `SeedKey`, the key id its chain was seeded with.*)
(* Neither is known to the verifier.                                       *)
(***************************************************************************)
EXTENDS StreamVerifier

CONSTANTS
  Written,   \* [Streams -> Seq(Bodies)]
  SeedKey    \* [Streams -> Keys]

ASSUME WrittenAssumption ==
  /\ Written \in [Streams -> Seq(Bodies)]
  /\ SeedKey \in [Streams -> Keys]

(* The chain head before the record at position n of stream s.             *)
GenuineHead(s, n) == ChainSeed(s, SeedKey[s]) \o SubSeq(Written[s], 1, n)

(* A signature that the verifier will accept was made by the collector     *)
(* over what it wrote: the keys of the trust store are the collector's.    *)
Acceptable(r) ==
  /\ Signed(r) /\ Trusted(r.key) /\ SigVerifies(r)
  /\ TrustStore[r.key].collector /\ ~TrustStore[r.key].revoked

ASSUME SignaturesAreGenuine ==
  \A r \in Records : Acceptable(r) =>
    r.seq < Len(Written[r.stream]) /\ r.chain = GenuineHead(r.stream, r.seq + 1)

(* The heads a previous run left in the ledger are the collector's.        *)
ASSUME LedgersAreGenuine ==
  \A l \in Ledgers : \A s \in DOMAIN l.entries :
    /\ l.entries[s].last < Len(Written[s])
    /\ l.entries[s].head = GenuineHead(s, l.entries[s].last + 1)

Genuine(r) ==
  /\ r.seq < Len(Written[r.stream])
  /\ r.body  = Written[r.stream][r.seq + 1]
  /\ r.prev  = GenuineHead(r.stream, r.seq)
  /\ r.chain = GenuineHead(r.stream, r.seq + 1)
  /\ r.seq = 0 => r.key = SeedKey[r.stream]

-----------------------------------------------------------------------------
TypeOK ==
  /\ phase \in {"observe", "finalise", "judge", "done"}
  /\ arrived \in Nat
  /\ streams \in [Streams -> StreamState]
  /\ sessions \in [AnySession -> SessionState]
  /\ pendingTotal \in Nat
  /\ draining \in {<<>>} \cup (Streams \X BOOLEAN)
  /\ inHand \in {<<>>} \cup {<<r>> : r \in Records}
  /\ sigsChecked \in Nat
  /\ sigTimeSpent \in BOOLEAN
  /\ IsLedger(ledger)
  /\ judged \subseteq Streams
  /\ seen \subseteq Records

-----------------------------------------------------------------------------
(* Delivery: reordering, loss and repetition of genuine records.           *)

(* Positions i of a stream's log where the next record consumed is not the *)
(* next position: what the run concluded was missing.                      *)
Holes(log) == {i \in 1 .. Len(log) - 1 : log[i + 1].seq # log[i].seq + 1}

Neighbours(log, i) == {log[i].session, log[i + 1].session} \ {NoSession}

(* No position of a stream is scored twice, and positions are scored in    *)
(* order, however they were delivered, held, forced and drained (_consume  *)
(* is reached from four places).                                           *)
ConsumedOnceInOrder ==
  \A s \in Streams : \A i, j \in DOMAIN streams[s].log :
    i < j => streams[s].log[i].seq < streams[s].log[j].seq

(* A sequence gap is charged to exactly the sessions on the two sides of a *)
(* hole in what was consumed: none is passed over in silence and no        *)
(* bystander on the same stream is blamed (_force, _Stream.last_session).  *)
GapChargedToNeighbours ==
  Idle => \A k \in Sessions :
    R_SEQUENCE_GAP \in sessions[k].codes <=>
      \E s \in Streams : \E i \in Holes(streams[s].log) :
        k \in Neighbours(streams[s].log, i)

ConsumedPositions(st) == {st.log[i].seq : i \in DOMAIN st.log}

ForcedByBudget(st) == R_REORDER_BUDGET \in st.codes

(* "Reordering is not deletion": unless the reorder budget forced the      *)
(* decision, and says so, a gap means that a record between the first and  *)
(* the last one consumed never arrived.                                    *)
GapMeansLost ==
  phase = "done" => \A s \in Streams :
    LET st == streams[s] IN
    R_SEQUENCE_GAP \in st.codes /\ ~ForcedByBudget(st) =>
      \E n \in st.first .. st.last : \A r \in seen : ~(r.stream = s /\ r.seq = n)

(* Losing, repeating or reordering the collector's own records never reads *)
(* as an altered chain: resyncing after a gap must not accuse the survivor.*)
NoFalseBreak ==
  (\A r \in seen : Genuine(r)) =>
    \A s \in Streams :
      streams[s].codes \cap {R_CHAIN_BROKEN, R_CHAIN_UNANCHORED} = {}

InLog(r) ==
  \E i \in DOMAIN streams[r.stream].log :
    LET e == streams[r.stream].log[i] IN
    e.seq = r.seq /\ e.body = r.body /\ e.session = r.session

(* Every record handed to observe() is scored, still held, or leaves a     *)
(* code on its own session that says why it was not: nothing is dropped in *)
(* silence by a budget, a hold or a force.                                 *)
EveryRecordAccounted ==
  \A r \in seen :
    \/ InLog(r)
    \/ r \in streams[r.stream].pending
    \/ inHand = <<r>>
    \/ sessions[r.session].codes \cap {R_SEQUENCE_REPLAY, R_STREAM_BUDGET} # {}

(* The one global counter the reorder budget is decided on agrees with     *)
(* what the streams really hold, through every hold, force and drain.      *)
PendingCounted ==
  pendingTotal = Cardinality(UNION {streams[s].pending : s \in Streams})

(* However records arrive, the positions scored and the positions held are *)
(* told apart exactly: each is scored once, in order, and the one counter  *)
(* that decides when the reorder budget forces a gap is the number held.   *)
InOrderAndCounted == ConsumedOnceInOrder /\ PendingCounted

(* A gap is declared where one is and charged to its two sides alone, and  *)
(* short of a budget that says so it means a record that never arrived.    *)
GapsAreJust == GapChargedToNeighbours /\ GapMeansLost

(* A held record falls behind the stream only when the reorder budget      *)
(* forced a gap past the record in hand, and then the stream says so.      *)
StrandedOnlyByForcing ==
  \A s \in Streams : \A p \in streams[s].pending :
    p.seq < streams[s].expected => ForcedByBudget(streams[s])

(* finalise() resolves every stream at end of input, provided no stream's  *)
(* reorder budget was ever exhausted.                                      *)
FinaliseEnds ==
  (phase = "finalise" /\ \A s \in Streams : ~ForcedByBudget(streams[s]))
    ~> phase = "done"

-----------------------------------------------------------------------------
(* Tampering: records altered, stripped of their links or re-chained.      *)

(* If a stream's own evidence holds, the bodies it was scored on are the   *)
(* ones the collector wrote, at the positions it wrote them, up to the     *)
(* last verified signature (_consume, _force, _begin, _admission).         *)
AdmittedIsGenuine ==
  \A s \in Streams :
    LET st == streams[s] IN
    Admitted(st) => \A i \in DOMAIN st.log :
      st.log[i].seq <= st.verifiedTo =>
        /\ st.log[i].seq < Len(Written[s])
        /\ st.log[i].body = Written[s][st.log[i].seq + 1]

Altered(s, e) == e.seq >= Len(Written[s]) \/ e.body # Written[s][e.seq + 1]

(* Every record that may come is the collector's, links and all, or has a  *)
(* body the collector did not write at its position.                       *)
OnlyAltered == \A r \in Records : Genuine(r) \/ Altered(r.stream, r)

(* One altered record is charged to its own boundaries only: a break names *)
(* a session that has an altered record or is next to one in the stream.   *)
BreaksAreLocal ==
  \A k \in Sessions : R_CHAIN_BROKEN \in sessions[k].codes =>
    \E s \in Streams : \E i, j \in DOMAIN streams[s].log :
      /\ Altered(s, streams[s].log[i])
      /\ j \in i - 1 .. i + 1
      /\ streams[s].log[j].session = k

Learns(s) ==
  /\ s \in DOMAIN ledger'.entries
  /\ s \in DOMAIN ledger.entries => ledger'.entries[s] # ledger.entries[s]

(* What this run writes into the ledger as already scored really was: each *)
(* position of the run, in a session that was scored, and on the body the  *)
(* collector wrote as far as a verified signature reaches (_admission,     *)
(* StreamLedger.record).                                                   *)
LedgerRecordsOnlyScored ==
  [][\A s \in Streams : Learns(s) =>
       LET st == streams[s] IN
       /\ ledger'.entries[s].last = st.last
       /\ \A n \in st.first .. st.last : \E i \in DOMAIN st.log :
            /\ st.log[i].seq = n
            /\ st.log[i].session # NoSession
            /\ n <= st.verifiedTo =>
                 n < Len(Written[s]) /\ st.log[i].body = Written[s][n + 1]]_vars

(* Once loaded, an entry moves forward only: no replay, fork, refusal or   *)
(* continuation past a close makes the ledger forget or rewrite what an    *)
(* earlier run scored.                                                     *)
LedgerNeverForgets ==
  [][\A s \in DOMAIN ledger.entries :
       /\ s \in DOMAIN ledger'.entries
       /\ \/ ledger'.entries[s] = ledger.entries[s]
          \/ /\ ledger.entries[s].last < streams[s].first
             /\ ledger.entries[s].last < ledger'.entries[s].last
             /\ ledger'.entries[s].first = ledger.entries[s].first
             /\ ~ledger.entries[s].closed]_vars

(* The ledger learns only what was scored, and unlearns nothing: what a    *)
(* run writes over an earlier entry continues it, position by position.    *)
LedgerFollowsTheScored == LedgerNeverForgets /\ LedgerRecordsOnlyScored

-----------------------------------------------------------------------------
(* Keys, closes and budgets.                                               *)

Vouchers(log) == {i \in DOMAIN log : log[i].by # NoKey}

(* A stream without R_STREAM_KEY_CHANGED was attested by one line of keys: *)
(* each verified signature is by the key of every earlier one or by a key  *)
(* the trust store records as its successor (_pin_key, _succeeds).         *)
OneLineOfKeys ==
  \A s \in Streams :
    LET log == streams[s].log IN
    R_STREAM_KEY_CHANGED \notin streams[s].codes =>
      \A i, j \in Vouchers(log) :
        i < j => log[i].by = log[j].by \/ Succeeds(log[j].by, log[i].by)

(* A session counted as reached by a signature up to `verifiedTo` really   *)
(* has an accepted signature at that position, and none beyond it.         *)
RangesAreVouched ==
  \A k \in Sessions : \A g \in sessions[k].ranges :
    LET log == streams[g.stream].log IN
    /\ g.verifiedTo # NoSeq =>
         \E i \in Vouchers(log) : log[i].seq = g.verifiedTo
    /\ \A i \in Vouchers(log) : log[i].seq <= g.verifiedTo

(* A close that a verified signature made is never outrun in silence:      *)
(* whatever is consumed past it, whenever it arrived, is charged.          *)
NothingFollowsAClose ==
  \A s \in Streams :
    streams[s].closedAt # NoSeq /\ streams[s].last > streams[s].closedAt =>
      R_RECORDS_AFTER_CLOSE \in streams[s].codes

-----------------------------------------------------------------------------
(* What the code's comments say and the code does not do.                  *)

(* "Resolve every stream at end of input" (StreamVerifier.finalise).       *)
FinaliseAlwaysEnds == phase = "finalise" ~> phase = "done"

(* "Either a duplicate delivery or a replay" (StreamVerifier.observe): a   *)
(* replay code means a position was delivered twice.                       *)
ReplayMeansRepeated ==
  \A s \in Streams :
    R_SEQUENCE_REPLAY \in streams[s].codes =>
      ForcedByBudget(streams[s]) \/ \E p \in repeated : p[1] = s

(* "Once keys ARE loaded, an unsigned record is not evidence, and the      *)
(* ledger is exactly the place that must not treat it as any"              *)
(* (StreamVerifier._admission): the ledger moves no further than a         *)
(* verified signature reached.                                             *)
LedgerStopsAtAttested ==
  [][\A s \in Streams : KeysLoaded /\ Learns(s) =>
       ledger'.entries[s].last <= streams[s].verifiedTo]_vars
=============================================================================
