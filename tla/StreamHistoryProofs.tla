------------------------ MODULE StreamHistoryProofs ------------------------
(***************************************************************************)
(* What a run of the stream verifier promises of its history: that nothing *)
(* follows a close unremarked, that what a session is said to be vouched   *)
(* for is, that a held record is stranded only by a force, that genuine    *)
(* records are never read as a broken chain, and that every record that    *)
(* was observed is accounted for.  Then whom it charges: a gap names the   *)
(* sessions at the two sides of a hole and no others, and short of a spent *)
(* reorder budget it means a record that never came; a broken chain names  *)
(* a session at an altered record or next to one; and a stream whose key   *)
(* was not found changed is signed by one line of keys.                    *)
(*                                                                         *)
(* All rest on the inductive invariant of StreamVerifierProofs and on one  *)
(* lemma, StepOfStream: the four things a step can do to a stream.         *)
(***************************************************************************)
EXTENDS StreamVerifierProofs

USE DEF NoSeq, NoClock, NoHead, NoSig

-----------------------------------------------------------------------------
(* What a step does to one stream.                                         *)

(* It may add codes, none of which speaks of the chain, ...                *)
ChainCodes == {R_CHAIN_BROKEN, R_CHAIN_UNANCHORED, R_SEQUENCE_GAP}

Annotates(s) ==
  /\ \E codes \in SUBSET (Codes \ ChainCodes) :
       streams'[s] = [streams[s] EXCEPT !.codes = @ \cup codes]
  /\ \/ draining' = draining
     \/ draining = <<>>
     \/ draining[1] # s
     \/ ~Held(streams[s], streams[s].expected)

(* ... hold the record that has just come or was in hand, ...              *)
HoldsBack(s, r) ==
  /\ r.stream = s /\ streams[s].open /\ ~Held(streams[s], r.seq)
  /\ streams'[s] = [streams[s] EXCEPT !.pending = @ \cup {r}]
  /\ draining' = draining
  /\ \/ r \in seen' /\ r.seq > streams[s].expected
     \/ inHand = <<r>>

(* ... force a gap, because the reorder budget is spent or the input has   *)
(* ended, ...                                                              *)
Forces == FinaliseForce \/ \E q \in Records : ObserveEarlyForced(q)

ForcesOn(s) ==
  /\ Forces /\ streams[s].open /\ draining = <<>>
  /\ draining' # <<>> /\ draining'[1] = s
  /\ \/ streams'[s] = Forced(ReorderBudgetNoted(streams[s]))
     \/ phase = "finalise" /\ streams'[s] = Forced(streams[s])

(* ... or consume a record: the first of its stream, one that is next, the *)
(* one in hand, or one that was held.                                      *)
Source(s, st, r) ==
  \/ /\ ~streams[s].open /\ ~StreamBudgetSpent(r)
     /\ st = Begin(r) /\ seen' = seen \cup {r}
  \/ /\ streams[s].open /\ st = streams[s]
     /\ draining = <<>>
     /\ inHand = <<r>> \/ (inHand = <<>> /\ r \in seen')
  \/ /\ r \in streams[s].pending
     /\ st = [streams[s] EXCEPT !.pending = @ \ {r}]

ConsumesOne(s, st, r) ==
  /\ r.stream = s /\ r.seq = st.expected /\ Based(s, st)
  /\ st.head # NoHead \/ r.seq > 0
  /\ Source(s, st, r)
  /\ streams'[s] = Consumed(st, r)
  /\ draining' # <<>> /\ draining'[1] = s

StreamStep(s) ==
  \/ Annotates(s)
  \/ \E r \in Records : HoldsBack(s, r)
  \/ ForcesOn(s)
  \/ \E r \in Records : \E st \in StreamState : ConsumesOne(s, st, r)

(* A stream that a step leaves as it was.                                  *)
LEMMA Untouched ==
  ASSUME IInv, NEW s \in Streams, streams'[s] = streams[s],
         \/ draining' = draining \/ draining = <<>> \/ draining[1] # s
         \/ ~Held(streams[s], streams[s].expected)
  PROVE  Annotates(s)
<1>1. streams[s] \in StreamState
  BY DEF IInv, TypeOK
<1>2. streams'[s] = [streams[s] EXCEPT !.codes = @ \cup {}]
  BY <1>1 DEF StreamState
<1> QED BY <1>2 DEF Annotates

(* The three actions that consume a record.                                *)
LEMMA ObserveConsumes ==
  ASSUME IInv, NEW q \in Records, ObserveInOrder(q)
  PROVE  Opened(q) \in StreamState /\ ConsumesOne(q.stream, Opened(q), q)
<1> DEFINE s == q.stream
<1>1. /\ Arrive(q) /\ q \in seen' /\ draining = <<>> /\ inHand = <<>>
      /\ streams \in [Streams -> StreamState] /\ StreamInv(s, streams[s])
      /\ s \in Streams /\ IsLedger(ledger)
  BY RecordType DEF ObserveInOrder, Arrive, Idle, IInv, TypeOK
<1>2. /\ streams' = [streams EXCEPT ![q.stream] = Consumed(Opened(q), q)]
      /\ q.seq = Opened(q).expected /\ draining' = <<q.stream, TRUE>>
  BY DEF ObserveInOrder, Consume
<1>3. streams'[s] = Consumed(Opened(q), q) /\ draining' # <<>> /\ draining'[1] = s
  BY <1>1, <1>2
<1>4. CASE streams[s].open
  <2>1. Opened(q) = streams[s]
    BY <1>4 DEF Opened
  <2>2. Based(s, streams[s]) /\ streams[s].expected > 0 /\ streams[s] \in StreamState
    BY <1>1, <1>4, OpenBased
  <2>3. Source(s, streams[s], q)
    BY <1>1, <1>4 DEF Source
  <2> QED BY <1>2, <1>3, <2>1, <2>2, <2>3 DEF ConsumesOne
<1>5. CASE ~streams[s].open
  <2>1. Opened(q) = Begin(q)
    BY <1>5 DEF Opened
  <2>2. Based(s, Begin(q)) /\ (Begin(q).head # NoHead \/ q.seq > 0)
    BY <1>1, BeginBased
  <2>3. Begin(q) \in StreamState
    BY <1>1, BeginType
  <2>4. Source(s, Begin(q), q)
    BY <1>1, <1>5 DEF Source, ObserveInOrder, Arrive
  <2> QED BY <1>2, <1>3, <2>1, <2>2, <2>3, <2>4 DEF ConsumesOne
<1> QED BY <1>4, <1>5

LEMMA PlaceConsumes ==
  ASSUME IInv, PlaceInOrder, NEW r \in Records, inHand = <<r>>
  PROVE  ConsumesOne(r.stream, streams[r.stream], r)
<1> DEFINE s == r.stream
<1>1. /\ draining = <<>> /\ inHand[1] = r /\ r.seq = streams[s].expected
      /\ streams' = [streams EXCEPT ![s] = Consumed(streams[s], r)]
      /\ draining' = <<s, TRUE>>
  BY DEF PlaceInOrder, Place, Consume
<1>2. /\ s \in Streams /\ streams[s] \in StreamState /\ StreamInv(s, streams[s])
      /\ streams[s].open /\ streams \in [Streams -> StreamState]
  BY <1>1, InHandTypes DEF IInv, TypeOK
<1>3. streams'[s] = Consumed(streams[s], r) /\ draining' # <<>> /\ draining'[1] = s
  BY <1>1, <1>2
<1>4. Based(s, streams[s]) /\ streams[s].expected > 0
  BY <1>2, OpenBased
<1>5. Source(s, streams[s], r)
  BY <1>1, <1>2 DEF Source
<1> QED BY <1>1, <1>3, <1>4, <1>5 DEF ConsumesOne

Drained(s, p) == [streams[s] EXCEPT !.pending = @ \ {p}]

LEMMA DrainConsumes ==
  ASSUME IInv, DrainNext
  PROVE  \E s \in Streams : \E p \in Records :
           /\ draining[1] = s /\ p.stream = s /\ p \in streams[s].pending
           /\ Drained(s, p) \in StreamState /\ ConsumesOne(s, Drained(s, p), p)
           /\ streams' = [streams EXCEPT ![s] = Consumed(Drained(s, p), p)]
           /\ sessions' = ConsumedSessions(
                            Noted(sessions, {p.session}, On(draining[2], R_REORDERED)),
                            Drained(s, p), p)
<1> DEFINE s == draining[1]
<1>1. draining # <<>> /\ draining' = draining
  BY DEF DrainNext, handler
<1>2. /\ s \in Streams /\ streams \in [Streams -> StreamState]
      /\ streams[s] \in StreamState /\ StreamInv(s, streams[s])
  BY <1>1 DEF IInv, TypeOK
<1>3. PICK p \in streams[s].pending :
        /\ p.seq = streams[s].expected
        /\ Consume(Noted(sessions, {p.session}, On(draining[2], R_REORDERED)),
                   Drained(s, p), p)
  BY DEF DrainNext, Drained
<1>4. p \in Records /\ p.stream = s
  BY <1>2 DEF StreamInv, Shape, StreamState
<1>5. /\ Drained(s, p) \in StreamState /\ Based(s, Drained(s, p))
      /\ Drained(s, p).expected = streams[s].expected /\ streams[s].expected > 0
  BY <1>2, <1>3, DrainBased DEF Drained
<1>6. /\ streams' = [streams EXCEPT ![s] = Consumed(Drained(s, p), p)]
      /\ sessions' = ConsumedSessions(
                       Noted(sessions, {p.session}, On(draining[2], R_REORDERED)),
                       Drained(s, p), p)
  BY <1>3, <1>4 DEF Consume
<1>7. streams'[s] = Consumed(Drained(s, p), p)
  BY <1>2, <1>6
<1>8. Source(s, Drained(s, p), p)
  BY <1>3 DEF Source, Drained
<1>9. ConsumesOne(s, Drained(s, p), p)
  BY <1>1, <1>3, <1>4, <1>5, <1>7, <1>8 DEF ConsumesOne
<1> QED BY <1>2, <1>3, <1>4, <1>5, <1>6, <1>9

LEMMA ObserveSteps ==
  ASSUME IInv, NEW q \in Records, NEW s \in Streams,
         \/ ObserveOverStreamBudget(q) \/ ObserveInOrder(q) \/ ObserveTaken(q)
         \/ ObserveEarly(q) \/ ObserveEarlyForced(q)
  PROVE  StreamStep(s)
<1>1. /\ Arrive(q) /\ q \in seen' /\ draining = <<>> /\ inHand = <<>>
      /\ streams \in [Streams -> StreamState] /\ StreamInv(s, streams[s])
      /\ StreamsInv /\ q.stream \in Streams
  BY RecordType DEF ObserveOverStreamBudget, ObserveInOrder, ObserveTaken, ObserveEarly,
     ObserveEarlyForced, Arrive, Idle, IInv, TypeOK, StreamsInv
<1>2. streams'[s] = streams[s] => StreamStep(s)
  BY <1>1, Untouched DEF StreamStep
<1>3. CASE ObserveOverStreamBudget(q)
  BY <1>2, <1>3 DEF ObserveOverStreamBudget
<1>4. CASE ObserveInOrder(q)
  <2>1. streams' = [streams EXCEPT ![q.stream] = Consumed(Opened(q), q)]
    BY <1>4 DEF ObserveInOrder, Consume
  <2>2. CASE q.stream # s
    BY <1>1, <1>2, <2>1, <2>2
  <2>3. CASE q.stream = s
    BY <1>4, <2>3, ObserveConsumes DEF StreamStep
  <2> QED BY <2>2, <2>3
<1>5. CASE ObserveTaken(q)
  <2>1. /\ streams' = [streams EXCEPT ![q.stream].codes = @ \cup {R_SEQUENCE_REPLAY}]
        /\ draining' = draining
    BY <1>5 DEF ObserveTaken, handler
  <2>2. CASE q.stream # s
    BY <1>1, <1>2, <2>1, <2>2
  <2>3. CASE q.stream = s
    <3>1. streams'[s] = [streams[s] EXCEPT !.codes = @ \cup {R_SEQUENCE_REPLAY}]
      BY <1>1, <2>1, <2>3
    <3>2. {R_SEQUENCE_REPLAY} \in SUBSET (Codes \ ChainCodes)
      BY DEF Codes, INADMISSIBLE, ChainCodes, R_SEQUENCE_REPLAY, R_CHAIN_BROKEN,
             R_CHAIN_UNANCHORED, R_SEQUENCE_GAP
    <3> QED BY <2>1, <3>1, <3>2 DEF Annotates, StreamStep
  <2> QED BY <2>2, <2>3
<1>6. CASE ObserveEarly(q)
  <2>1. /\ streams' = [streams EXCEPT ![q.stream].pending = @ \cup {q}]
        /\ draining' = draining /\ Early(q)
    BY <1>6 DEF ObserveEarly, Hold, handler
  <2>2. CASE q.stream # s
    BY <1>1, <1>2, <2>1, <2>2
  <2>3. CASE q.stream = s
    <3>1. HoldsBack(s, q)
      BY <1>1, <2>1, <2>3 DEF HoldsBack, Early
    <3> QED BY <3>1 DEF StreamStep
  <2> QED BY <2>2, <2>3
<1>7. CASE ObserveEarlyForced(q)
  <2>1. /\ streams' = [streams EXCEPT ![q.stream] = Forced(ReorderBudgetNoted(streams[q.stream]))]
        /\ draining' = <<q.stream, FALSE>> /\ Early(q)
    BY <1>7 DEF ObserveEarlyForced
  <2>2. CASE q.stream # s
    BY <1>1, <1>2, <2>1, <2>2
  <2>3. CASE q.stream = s
    <3>1. ForcesOn(s)
      BY <1>1, <1>7, <2>1, <2>3 DEF ForcesOn, Forces, Early
    <3> QED BY <3>1 DEF StreamStep
  <2> QED BY <2>2, <2>3
<1> QED BY <1>3, <1>4, <1>5, <1>6, <1>7

LEMMA PlaceSteps ==
  ASSUME IInv, PlaceInOrder \/ PlaceHeld, NEW s \in Streams
  PROVE  StreamStep(s)
<1> DEFINE r == inHand[1]
<1>1. /\ inHand # <<>> /\ draining = <<>> /\ inHand = <<r>>
      /\ r \in Records /\ r.stream \in Streams
      /\ streams[r.stream] \in StreamState /\ StreamInv(r.stream, streams[r.stream])
      /\ streams[r.stream].open /\ ~Held(streams[r.stream], r.seq)
      /\ streams \in [Streams -> StreamState]
  <2>1. inHand # <<>> /\ draining = <<>>
    BY DEF PlaceInOrder, PlaceHeld, Place
  <2>2. inHand = <<inHand[1]>>
    BY <2>1 DEF IInv, TypeOK
  <2> QED BY <2>1, <2>2, InHandTypes DEF IInv, TypeOK
<1>2. streams'[s] = streams[s] => StreamStep(s)
  BY <1>1, Untouched DEF StreamStep
<1>3. CASE PlaceInOrder
  <2>1. streams' = [streams EXCEPT ![r.stream] = Consumed(streams[r.stream], r)]
    BY <1>3 DEF PlaceInOrder, Consume
  <2>2. CASE r.stream # s
    BY <1>1, <1>2, <2>1, <2>2
  <2>3. CASE r.stream = s
    BY <1>1, <1>3, <2>3, PlaceConsumes DEF StreamStep
  <2> QED BY <2>2, <2>3
<1>4. CASE PlaceHeld
  <2>1. /\ streams' = [streams EXCEPT ![r.stream].pending = @ \cup {r}]
        /\ draining' = draining
    BY <1>4 DEF PlaceHeld, Hold
  <2> HIDE DEF r
  <2>2. CASE r.stream # s
    BY <1>1, <1>2, <2>1, <2>2
  <2>3. CASE r.stream = s
    <3>1. HoldsBack(s, r)
      BY <1>1, <2>1, <2>3 DEF HoldsBack
    <3> QED BY <1>1, <3>1 DEF StreamStep
  <2> QED BY <2>2, <2>3
<1> QED BY <1>3, <1>4

LEMMA DrainSteps ==
  ASSUME IInv, DrainNext, NEW s \in Streams
  PROVE  StreamStep(s)
<1>1. PICK t \in Streams, p \in Records :
        /\ draining[1] = t /\ Drained(t, p) \in StreamState
        /\ ConsumesOne(t, Drained(t, p), p)
        /\ streams' = [streams EXCEPT ![t] = Consumed(Drained(t, p), p)]
  BY DrainConsumes
<1>2. CASE t = s
  BY <1>1, <1>2 DEF StreamStep
<1>3. CASE t # s
  <2>1. streams'[s] = streams[s] /\ draining' = draining
    BY <1>1, <1>3 DEF DrainNext, handler, IInv, TypeOK
  <2> QED BY <2>1, Untouched DEF StreamStep
<1> QED BY <1>2, <1>3

LEMMA FinaliseSteps ==
  ASSUME IInv, FinaliseForce \/ FinaliseClose, NEW s \in Streams
  PROVE  StreamStep(s)
<1>1. /\ streams \in [Streams -> StreamState] /\ streams[s] \in StreamState
      /\ StreamInv(s, streams[s]) /\ draining = <<>>
  BY DEF IInv, TypeOK, FinaliseForce, FinaliseClose, Idle
<1>2. streams'[s] = streams[s] => StreamStep(s)
  BY <1>1, Untouched DEF StreamStep
<1>3. CASE FinaliseForce
  <2> DEFINE t == LeastOf(Holding)
  <2>1. /\ Holding # {} /\ streams' = [streams EXCEPT ![t] = Forced(streams[t])]
        /\ draining' = <<t, FALSE>>
    BY <1>3 DEF FinaliseForce
  <2>2. t \in Holding
    BY <2>1, LeastOfIsMember, StreamsAssumption DEF Holding
  <2> HIDE DEF t
  <2>3. CASE t # s
    BY <1>1, <1>2, <2>1, <2>3
  <2>4. CASE t = s
    <3>1. streams[s].open
      BY <1>1, <2>2, <2>4 DEF Holding, StreamInv, Shape
    <3>2. ForcesOn(s)
      BY <1>1, <1>3, <2>1, <2>4, <3>1 DEF ForcesOn, Forces, FinaliseForce
    <3> QED BY <3>2 DEF StreamStep
  <2> QED BY <2>3, <2>4
<1>4. CASE FinaliseClose
  <2>1. /\ streams'[s] = streams[s]
           \/ streams'[s] = [streams[s] EXCEPT !.codes = @ \cup CloseCodes(s)]
    BY <1>4 DEF FinaliseClose
  <2>2. CloseCodes(s) \in SUBSET (Codes \ ChainCodes)
    BY DEF CloseCodes, On, Codes, INADMISSIBLE, ChainCodes, R_CHAIN_BROKEN,
           R_CHAIN_UNANCHORED, R_SEQUENCE_GAP, R_STREAM_NOT_CLOSED, R_CLOSE_UNVERIFIED, R_STREAM_END_MISSING
  <2> QED BY <1>1, <1>2, <2>1, <2>2 DEF Annotates, StreamStep
<1> QED BY <1>3, <1>4

(* Every step does one of the four to every stream.                        *)
LEMMA StepOfStream ==
  ASSUME IInv, [Next]_vars, NEW s \in Streams
  PROVE  StreamStep(s)
<1>1. CASE ObserveRecord
  BY <1>1, ObserveSteps DEF ObserveRecord
<1>2. CASE PlaceInOrder \/ PlaceHeld
  BY <1>2, PlaceSteps
<1>3. CASE DrainNext
  BY <1>3, DrainSteps
<1>4. CASE FinaliseForce \/ FinaliseClose
  BY <1>4, FinaliseSteps
<1>5. CASE DrainEnd
  <2>1. /\ streams' = streams /\ draining # <<>>
        /\ ~Held(streams[draining[1]], streams[draining[1]].expected)
    BY <1>5 DEF DrainEnd
  <2>2. Annotates(s)
    BY <2>1, Untouched
  <2> QED BY <2>2 DEF StreamStep
<1>6. CASE \/ \E k \in BareSessions : ObserveBare(k)
           \/ SignatureTimeRunsOut \/ EndOfInput \/ JudgeAgainstLedger \/ Report
           \/ UNCHANGED vars
  <2>1. streams' = streams /\ draining' = draining
    BY <1>6 DEF ObserveBare, SignatureTimeRunsOut, EndOfInput, JudgeAgainstLedger, Report,
       vars, handler
  <2>2. Annotates(s)
    BY <2>1, Untouched
  <2> QED BY <2>2 DEF StreamStep
<1> QED BY <1>1, <1>2, <1>3, <1>4, <1>5, <1>6 DEF Next, Handler, Finalise, Terminated

(* Of the four only the last adds to what the stream has consumed.         *)
KeepsHistory(s) ==
  LET old == streams[s]
      new == streams'[s]
  IN /\ new.log = old.log /\ new.first = old.first /\ new.last = old.last
     /\ new.open = old.open /\ new.verifiedTo = old.verifiedTo
     /\ new.closedAt = old.closedAt /\ new.key = old.key
     /\ old.codes \subseteq new.codes

LEMMA HistoryStep ==
  ASSUME IInv, [Next]_vars, NEW s \in Streams
  PROVE  \/ KeepsHistory(s)
         \/ \E r \in Records : \E st \in StreamState : ConsumesOne(s, st, r)
<1>1. StreamStep(s) /\ streams[s] \in StreamState
  BY StepOfStream DEF IInv, TypeOK
<1>2. CASE Annotates(s)
  <2>1. PICK codes \in SUBSET (Codes \ ChainCodes) :
          streams'[s] = [streams[s] EXCEPT !.codes = @ \cup codes]
    BY <1>2 DEF Annotates
  <2> QED BY <1>1, <2>1 DEF KeepsHistory, StreamState
<1>3. CASE \E r \in Records : HoldsBack(s, r)
  <2>1. PICK r \in Records :
          streams'[s] = [streams[s] EXCEPT !.pending = @ \cup {r}]
    BY <1>3 DEF HoldsBack
  <2> QED BY <1>1, <2>1 DEF KeepsHistory, StreamState
<1>4. CASE ForcesOn(s)
  <2>1. ASSUME NEW st \in StreamState
        PROVE  /\ Forced(st).log = st.log /\ Forced(st).first = st.first
               /\ Forced(st).last = st.last /\ Forced(st).open = st.open
               /\ Forced(st).verifiedTo = st.verifiedTo
               /\ Forced(st).closedAt = st.closedAt /\ Forced(st).key = st.key
               /\ st.codes \subseteq Forced(st).codes
    BY DEF Forced, StreamState
  <2> DEFINE noted == ReorderBudgetNoted(streams[s])
  <2>2. /\ noted \in StreamState
        /\ noted.log = streams[s].log /\ noted.first = streams[s].first
        /\ noted.last = streams[s].last /\ noted.open = streams[s].open
        /\ noted.verifiedTo = streams[s].verifiedTo
        /\ noted.closedAt = streams[s].closedAt /\ noted.key = streams[s].key
        /\ streams[s].codes \subseteq noted.codes
    BY <1>1 DEF ReorderBudgetNoted, StreamState, Codes
  <2> HIDE DEF noted
  <2>3. streams'[s] = Forced(noted) \/ streams'[s] = Forced(streams[s])
    BY <1>4 DEF ForcesOn, noted
  <2>4. CASE streams'[s] = Forced(noted)
    BY <2>1, <2>2, <2>4 DEF KeepsHistory
  <2>5. CASE streams'[s] = Forced(streams[s])
    BY <1>1, <2>1, <2>5 DEF KeepsHistory
  <2> QED BY <2>3, <2>4, <2>5
<1> QED BY <1>1, <1>2, <1>3, <1>4 DEF StreamStep

(* The state a record is consumed from has the stream's own history, which *)
(* is none where the record is the first.                                  *)
LEMMA SourceHistory ==
  ASSUME IInv, NEW s \in Streams, NEW st \in StreamState, NEW r \in Records,
         ConsumesOne(s, st, r)
  PROVE  /\ st.log = streams[s].log /\ st.verifiedTo < st.expected
         /\ \A i \in DOMAIN st.log : st.log[i].seq < st.expected
         /\ \/ st.closedAt = NoSeq /\ st.verifiedTo = NoSeq /\ st.log = <<>>
            \/ /\ st.closedAt = streams[s].closedAt
               /\ st.verifiedTo = streams[s].verifiedTo
               /\ st.last = streams[s].last /\ st.log # <<>>
               /\ st.codes = streams[s].codes /\ st.key = streams[s].key
<1>1. /\ streams[s] \in StreamState /\ StreamInv(s, streams[s]) /\ Based(s, st)
      /\ Source(s, st, r)
  BY DEF IInv, TypeOK, ConsumesOne
<1>2. st.verifiedTo < st.expected /\ \A i \in DOMAIN st.log : st.log[i].seq < st.expected
  BY <1>1 DEF Based, Extent, InOrder
<1>3. CASE ~streams[s].open /\ st = Begin(r)
  <2>1. streams[s].log = <<>>
    BY <1>1, <1>3 DEF StreamInv, Shape
  <2>2. st.closedAt = NoSeq /\ st.verifiedTo = NoSeq /\ st.log = <<>>
    BY <1>3 DEF Begin, UnopenedStream
  <2> QED BY <1>2, <2>1, <2>2
<1>4. CASE streams[s].open /\ (st = streams[s] \/ \E x : st = [streams[s] EXCEPT !.pending = x])
  <2>1. streams[s].log # <<>>
    BY <1>1, <1>4 DEF StreamInv, Shape
  <2> QED BY <1>1, <1>2, <1>4, <2>1 DEF StreamState
<1>5. r \in streams[s].pending => streams[s].open
  BY <1>1 DEF StreamInv, Shape
<1> QED BY <1>1, <1>3, <1>4, <1>5 DEF Source

-----------------------------------------------------------------------------
(* Closes.                                                                 *)

ClosedInv(st) ==
  st.closedAt # NoSeq =>
    /\ st.log # <<>> /\ st.closedAt <= st.last
    /\ st.last > st.closedAt => R_RECORDS_AFTER_CLOSE \in st.codes

LEMMA ClosedStep ==
  ASSUME IInv, [Next]_vars, NEW s \in Streams, ClosedInv(streams[s])
  PROVE  ClosedInv(streams'[s])
<1>1. CASE KeepsHistory(s)
  BY <1>1 DEF KeepsHistory, ClosedInv
<1>2. ASSUME NEW r \in Records, NEW st \in StreamState, ConsumesOne(s, st, r)
      PROVE  ClosedInv(streams'[s])
  <2> DEFINE c == Consumed(st, r)
  <2>1. /\ c.log = Append(st.log, LogEntry(r)) /\ c.last = r.seq
        /\ c.codes = st.codes \cup RecordCodes(st, r)
                       \cup On(BreakSessions(st, r) # {}, R_CHAIN_BROKEN)
        /\ c.closedAt = IF Holds(r) /\ r.final /\ (st.closedAt = NoSeq \/ r.seq < st.closedAt)
                          THEN r.seq ELSE st.closedAt
    BY DEF Consumed, StreamState
  <2>2. c.log # <<>> /\ r.seq \in Nat /\ st.closedAt \in Int
    BY <2>1, ConsumedLog, RecordType DEF StreamState, SeqOrNone
  <2> HIDE DEF c
  <2>3. streams'[s] = c /\ r.seq = st.expected
    BY <1>2 DEF ConsumesOne, c
  <2>4. CASE st.closedAt = NoSeq
    BY <2>1, <2>2, <2>3, <2>4 DEF ClosedInv
  <2>5. CASE st.closedAt # NoSeq
    <3>1. st.closedAt = streams[s].closedAt /\ st.last = streams[s].last /\ st.log # <<>>
          /\ st.log = streams[s].log
      BY <1>2, <2>5, SourceHistory
    <3>2. st.last = st.log[Len(st.log)].seq /\ Len(st.log) \in DOMAIN st.log
      BY <1>2, <3>1, StreamNumbers DEF ConsumesOne, Based, Extent
    <3>3. st.last < r.seq /\ st.last \in Nat
      BY <1>2, <2>3, <3>2, SourceHistory, StreamNumbers
    <3>4. st.closedAt < r.seq
      BY <2>2, <2>5, <3>1, <3>3 DEF ClosedInv
    <3>5. R_RECORDS_AFTER_CLOSE \in c.codes
      BY <2>1, <2>5, <3>4 DEF RecordCodes, AfterClose, On
    <3>6. c.closedAt = st.closedAt
      BY <2>1, <2>2, <2>5, <3>4
    <3> QED BY <2>1, <2>2, <2>3, <3>4, <3>5, <3>6 DEF ClosedInv
  <2> QED BY <2>4, <2>5
<1> QED BY <1>1, <1>2, HistoryStep

(* A close that a verified signature made is never outrun in silence       *)
(* (StreamVerifier._consume).                                              *)
THEOREM ClosesAreFinal == Spec => []NothingFollowsAClose
<1> DEFINE Inv == \A s \in Streams : ClosedInv(streams[s])
<1>1. Init => Inv
  BY DEF Init, ClosedInv, UnopenedStream
<1>2. IInv /\ Inv /\ [Next]_vars => Inv'
  BY ClosedStep
<1>3. Inv => NothingFollowsAClose
  BY DEF ClosedInv, NothingFollowsAClose
<1> QED BY <1>1, <1>2, <1>3, Inductive, PTL DEF Spec

-----------------------------------------------------------------------------
(* What signatures reach.                                                  *)

VouchedInv(st) ==
  /\ st.verifiedTo # NoSeq =>
       \E i \in Vouchers(st.log) : st.log[i].seq = st.verifiedTo
  /\ \A i \in Vouchers(st.log) : st.log[i].seq <= st.verifiedTo

LEMMA VouchedStep ==
  ASSUME IInv, [Next]_vars, NEW s \in Streams, VouchedInv(streams[s])
  PROVE  VouchedInv(streams'[s])
<1>1. CASE KeepsHistory(s)
  BY <1>1 DEF KeepsHistory, VouchedInv
<1>2. ASSUME NEW r \in Records, NEW st \in StreamState, ConsumesOne(s, st, r)
      PROVE  VouchedInv(streams'[s])
  <2> DEFINE c == Consumed(st, r)
             n == Len(st.log) + 1
  <2>1. c.log = Append(st.log, LogEntry(r)) /\ c.verifiedTo = VerifiedTo(st, r)
    BY ConsumedFields
  <2>2. /\ DOMAIN c.log = 1 .. n /\ n \in Nat /\ n > 0
        /\ DOMAIN st.log = 1 .. n - 1
        /\ \A i \in 1 .. n - 1 : c.log[i] = st.log[i]
        /\ c.log[n] = LogEntry(r)
    BY <2>1, ConsumedLog, StreamNumbers
  <2>3. /\ streams'[s] = c /\ r.seq = st.expected
        /\ st.verifiedTo < st.expected
        /\ \A i \in DOMAIN st.log : st.log[i].seq < st.expected
    BY <1>2, SourceHistory DEF ConsumesOne
  <2>4. VouchedInv(st)
    <3>1. CASE st.verifiedTo = NoSeq /\ st.log = <<>>
      BY <3>1 DEF VouchedInv, Vouchers
    <3>2. CASE st.verifiedTo = streams[s].verifiedTo /\ st.log = streams[s].log
      BY <3>2 DEF VouchedInv
    <3> QED BY <1>2, <3>1, <3>2, SourceHistory
  <2>5. /\ \A i \in DOMAIN st.log : st.log[i].seq \in Nat
        /\ st.verifiedTo \in Int /\ r.seq \in Nat
    BY StreamNumbers, RecordType
  <2> HIDE DEF c, n
  <2>6. CASE Holds(r)
    <3>1. r.key # NoKey
      BY <2>6, HoldsIsAcceptable DEF Acceptable, Signed
    <3>2. c.log[n].by # NoKey /\ c.log[n].seq = r.seq
      BY <2>2, <2>6, <3>1 DEF LogEntry
    <3>3. c.verifiedTo = r.seq
      BY <2>1, <2>3, <2>5, <2>6 DEF VerifiedTo
    <3>4. n \in Vouchers(c.log)
      BY <2>2, <3>2 DEF Vouchers
    <3>5. \A i \in DOMAIN c.log : c.log[i].seq <= r.seq
      BY <2>2, <2>3, <2>5, <3>2
    <3> QED BY <2>3, <3>2, <3>3, <3>4, <3>5 DEF VouchedInv, Vouchers
  <2>7. CASE ~Holds(r)
    <3>1. c.log[n].by = NoKey
      BY <2>2, <2>7 DEF LogEntry
    <3>2. c.verifiedTo = st.verifiedTo
      BY <2>1, <2>7 DEF VerifiedTo
    <3>3. Vouchers(c.log) = Vouchers(st.log)
      BY <2>2, <3>1 DEF Vouchers
    <3>4. \A i \in Vouchers(st.log) : c.log[i] = st.log[i]
      BY <2>2 DEF Vouchers
    <3> QED BY <2>3, <2>4, <3>2, <3>3, <3>4 DEF VouchedInv
  <2> QED BY <2>6, <2>7
<1> QED BY <1>1, <1>2, HistoryStep

(* The ranges are written once, at the end, from the streams.              *)
RangesInv ==
  \A k \in AnySession : \A g \in sessions[k].ranges :
    /\ phase = "done"
    /\ g.stream \in Streams /\ g.verifiedTo = streams[g.stream].verifiedTo

(* Nothing is left in a handler once every stream has been drained.        *)
DrainedInv == phase \in {"judge", "done"} => Idle

LEMMA DrainedStep ==
  ASSUME DrainedInv, [Next]_vars
  PROVE  DrainedInv'
BY DEF DrainedInv, Idle, Next, ObserveRecord, ObserveOverStreamBudget, ObserveInOrder,
       ObserveTaken, ObserveEarly, ObserveEarlyForced, Arrive, ObserveBare, Handler,
       PlaceInOrder, PlaceHeld, Place, DrainNext, DrainEnd, SignatureTimeRunsOut,
       EndOfInput, Finalise, FinaliseForce, FinaliseClose, JudgeAgainstLedger, Report,
       Terminated, vars, handler

-----------------------------------------------------------------------------
(* What a step does to the sessions: codes are never taken back, and only  *)
(* the report writes ranges.                                               *)

Grows(ss, tt) ==
  \A k \in AnySession : ss[k].codes \subseteq tt[k].codes /\ tt[k].ranges = ss[k].ranges

LEMMA NotedGrows ==
  ASSUME NEW ss \in [AnySession -> SessionState], NEW who, NEW codes \in SUBSET Codes
  PROVE  Grows(ss, Noted(ss, who, codes))
BY DEF Grows, Noted, SessionState

LEMMA NotedCodes ==
  ASSUME NEW ss \in [AnySession -> SessionState], NEW who, NEW codes \in SUBSET Codes,
         NEW k \in who, k \in AnySession
  PROVE  codes \subseteq Noted(ss, who, codes)[k].codes
BY DEF Noted, SessionState

LEMMA WithSidecarGrows ==
  ASSUME NEW r \in Records, sessions \in [AnySession -> SessionState]
  PROVE  Grows(sessions, WithSidecar(r))
BY RecordType DEF Grows, WithSidecar, SessionState

LEMMA ConsumedGrows ==
  ASSUME NEW ss \in [AnySession -> SessionState], NEW st \in StreamState, NEW r \in Records
  PROVE  Grows(ss, ConsumedSessions(ss, st, r))
<1> DEFINE broken == Noted(ss, BreakSessions(st, r), {R_CHAIN_BROKEN})
           noted  == Noted(broken, {r.session}, RecordCodes(st, r) \cup SessionOnlyCodes(r))
           tried  == noted[r.session].tried \/ Attempts(r)
           dated  == \/ noted[r.session].dated
                     \/ Holds(r) /\ Freshness.enabled /\ r.clock # NoClock
<1>1. broken \in [AnySession -> SessionState] /\ Grows(ss, broken)
  BY NotedType, NotedGrows DEF Codes, INADMISSIBLE
<1>2. noted \in [AnySession -> SessionState] /\ Grows(broken, noted)
  <2> HIDE DEF broken
  <2> QED BY <1>1, RecordCodesType, NotedType, NotedGrows
<1>3. ConsumedSessions(ss, st, r) =
        [noted EXCEPT ![r.session].tried = tried, ![r.session].dated = dated]
  BY DEF ConsumedSessions
<1>4. r.session \in AnySession
  BY RecordType
<1> HIDE DEF noted, tried, dated
<1>5. Grows(noted, ConsumedSessions(ss, st, r))
  BY <1>2, <1>3, <1>4 DEF Grows, SessionState
<1> HIDE DEF broken
<1> QED BY <1>1, <1>2, <1>5 DEF Grows

LEMMA ObservedSessions ==
  ASSUME IInv, NEW q \in Records,
         \/ ObserveOverStreamBudget(q) \/ ObserveInOrder(q) \/ ObserveTaken(q)
         \/ ObserveEarly(q) \/ ObserveEarlyForced(q)
  PROVE  Grows(sessions, sessions')
<1> DEFINE ss == WithSidecar(q)
<1>1. /\ sessions \in [AnySession -> SessionState]
      /\ ss \in [AnySession -> SessionState] /\ Grows(sessions, ss)
      /\ IsLedger(ledger) /\ q.stream \in Streams
      /\ streams \in [Streams -> StreamState]
  BY WithSidecarType, WithSidecarGrows, RecordType DEF IInv, TypeOK
<1>2. \A c \in {R_STREAM_BUDGET, R_SEQUENCE_REPLAY, R_REORDER_BUDGET, R_SEQUENCE_GAP,
                R_JOINED_MIDSTREAM} : {c} \in SUBSET Codes
  BY DEF Codes, INADMISSIBLE
<1> HIDE DEF ss
<1>3. CASE ObserveOverStreamBudget(q)
  <2>1. sessions' = Noted(ss, {q.session}, {R_STREAM_BUDGET})
    BY <1>3 DEF ObserveOverStreamBudget, ss
  <2> QED BY <1>1, <1>2, <2>1, NotedGrows DEF Grows
<1>4. CASE ObserveInOrder(q)
  <2> DEFINE joined == On(~streams[q.stream].open /\ q.seq # 0, R_JOINED_MIDSTREAM)
             tt     == Noted(ss, {q.session}, joined)
  <2>1. sessions' = ConsumedSessions(tt, Opened(q), q)
    BY <1>4 DEF ObserveInOrder, Consume, ss
  <2>2. joined \in SUBSET Codes
    BY <1>2 DEF On
  <2>3. tt \in [AnySession -> SessionState] /\ Grows(ss, tt)
    <3> HIDE DEF joined
    <3> QED BY <1>1, <2>2, NotedType, NotedGrows
  <2>4. Opened(q) \in StreamState
    BY <1>1, BeginType DEF Opened
  <2> HIDE DEF tt
  <2>5. Grows(tt, sessions')
    BY <2>1, <2>3, <2>4, ConsumedGrows
  <2> QED BY <1>1, <2>3, <2>5 DEF Grows
<1>5. CASE ObserveTaken(q)
  <2>1. sessions' = Noted(ss, {q.session}, {R_SEQUENCE_REPLAY})
    BY <1>5 DEF ObserveTaken, ss
  <2> QED BY <1>1, <1>2, <2>1, NotedGrows DEF Grows
<1>6. CASE ObserveEarly(q)
  BY <1>1, <1>6 DEF ObserveEarly, ss
<1>7. CASE ObserveEarlyForced(q)
  <2> DEFINE tt == Noted(ss, {q.session}, {R_REORDER_BUDGET})
  <2>1. PICK who : sessions' = Noted(tt, who, {R_SEQUENCE_GAP})
    BY <1>7 DEF ObserveEarlyForced, ss
  <2>2. tt \in [AnySession -> SessionState] /\ Grows(ss, tt)
    BY <1>1, <1>2, NotedType, NotedGrows
  <2> HIDE DEF tt
  <2>3. Grows(tt, sessions')
    BY <1>2, <2>1, <2>2, NotedGrows
  <2> QED BY <1>1, <2>2, <2>3 DEF Grows
<1> QED BY <1>3, <1>4, <1>5, <1>6, <1>7

LEMMA SessionsStep ==
  ASSUME IInv, [Next]_vars
  PROVE  \A k \in AnySession :
           /\ sessions[k].codes \subseteq sessions'[k].codes
           /\ ~Report => sessions'[k].ranges = sessions[k].ranges
<1>1. sessions \in [AnySession -> SessionState]
  BY DEF IInv, TypeOK
<1>2. CASE ObserveRecord
  BY <1>2, ObservedSessions DEF ObserveRecord, Grows
<1>3. ASSUME NEW k \in BareSessions, ObserveBare(k)
      PROVE  Grows(sessions, sessions')
  BY <1>1, <1>3, RecordsAssumption DEF ObserveBare, Grows, SessionState
<1>4. CASE PlaceInOrder
  <2>1. sessions' = ConsumedSessions(sessions, streams[inHand[1].stream], inHand[1])
    BY <1>4 DEF PlaceInOrder, Consume
  <2>2. inHand # <<>>
    BY <1>4 DEF PlaceInOrder, Place
  <2>3. Grows(sessions, sessions')
    BY <1>1, <2>1, <2>2, InHandTypes, ConsumedGrows
  <2> QED BY <2>3 DEF Grows
<1>5. CASE DrainNext
  <2> DEFINE s == draining[1]
  <2>1. s \in Streams /\ streams[s] \in StreamState /\ StreamInv(s, streams[s])
    BY <1>5 DEF DrainNext, IInv, TypeOK
  <2>2. PICK p \in streams[s].pending :
          sessions' = ConsumedSessions(
            Noted(sessions, {p.session}, On(draining[2], R_REORDERED)),
            [streams[s] EXCEPT !.pending = @ \ {p}], p)
    BY <1>5 DEF DrainNext, Consume
  <2> DEFINE ss == Noted(sessions, {p.session}, On(draining[2], R_REORDERED))
             st == [streams[s] EXCEPT !.pending = @ \ {p}]
  <2>3. p \in Records /\ st \in StreamState
    BY <2>1, DrainBased DEF StreamState
  <2>4. ss \in [AnySession -> SessionState] /\ Grows(sessions, ss)
    BY <1>1, NotedType, NotedGrows DEF On, Codes
  <2>5. sessions' = ConsumedSessions(ss, st, p)
    BY <2>2
  <2> HIDE DEF s, ss, st
  <2>6. Grows(ss, sessions')
    BY <2>3, <2>4, <2>5, ConsumedGrows
  <2> QED BY <2>4, <2>6 DEF Grows
<1>6. CASE FinaliseForce
  <2>1. PICK who : sessions' = Noted(sessions, who, {R_SEQUENCE_GAP})
    BY <1>6 DEF FinaliseForce
  <2>2. Grows(sessions, sessions')
    BY <1>1, <2>1, NotedGrows DEF Codes, INADMISSIBLE
  <2> QED BY <2>2 DEF Grows
<1>7. CASE FinaliseClose
  <2> DEFINE charges(k) == UNION {CloseCodes(s) : s \in {t \in Streams :
                                    Unclosed(t) /\ k \in streams[t].feeds}}
  <2>1. sessions' = [k \in AnySession |->
          IF k = NoSession THEN sessions[k]
          ELSE [sessions[k] EXCEPT !.codes = @ \cup charges(k)]]
    BY <1>7 DEF FinaliseClose
  <2> HIDE DEF charges
  <2> QED BY <1>1, <2>1 DEF SessionState
<1>8. CASE JudgeAgainstLedger
  <2>1. PICK who, codes : sessions' = Noted(sessions, who, codes)
    BY <1>8 DEF JudgeAgainstLedger
  <2> QED BY <1>1, <2>1 DEF Noted, SessionState
<1>9. CASE Report
  <2> DEFINE ranges(k) == IF k = NoSession THEN {} ELSE RangesOf(k)
             codes(k)  == sessions[k].codes \cup ClosingCodes(sessions[k])
  <2>1. sessions' = [k \in AnySession |->
                       [sessions[k] EXCEPT !.codes = codes(k), !.ranges = ranges(k)]]
    BY <1>9 DEF Report
  <2>2. \A k \in AnySession : sessions[k].codes \subseteq codes(k)
    OBVIOUS
  <2> HIDE DEF ranges, codes
  <2> QED BY <1>1, <1>9, <2>1, <2>2 DEF SessionState
<1>10. CASE PlaceHeld \/ DrainEnd \/ SignatureTimeRunsOut \/ EndOfInput \/ UNCHANGED vars
  <2>1. sessions' = sessions
    BY <1>10 DEF PlaceHeld, DrainEnd, SignatureTimeRunsOut, EndOfInput, vars
  <2> QED BY <2>1
<1> QED BY <1>2, <1>3, <1>4, <1>5, <1>6, <1>7, <1>8, <1>9, <1>10
        DEF Next, Handler, Finalise, Terminated, Grows

LEMMA RangesStep ==
  ASSUME IInv, DrainedInv, RangesInv, [Next]_vars
  PROVE  RangesInv'
<1>1. CASE Report
  <2>1. /\ sessions' = [k \in AnySession |->
              [sessions[k] EXCEPT !.codes  = @ \cup ClosingCodes(sessions[k]),
                                  !.ranges = IF k = NoSession THEN {} ELSE RangesOf(k)]]
        /\ phase' = "done" /\ streams' = streams
        /\ sessions \in [AnySession -> SessionState]
    BY <1>1 DEF Report, IInv, TypeOK
  <2> DEFINE ranges(k) == IF k = NoSession THEN {} ELSE RangesOf(k)
             codes(k)  == sessions[k].codes \cup ClosingCodes(sessions[k])
  <2>2. \A k \in AnySession : \A g \in ranges(k) :
          g.stream \in Streams /\ g.verifiedTo = streams[g.stream].verifiedTo
    BY DEF RangesOf, OpenStreams
  <2>3. sessions' = [k \in AnySession |->
                       [sessions[k] EXCEPT !.codes = codes(k), !.ranges = ranges(k)]]
    BY <2>1
  <2> HIDE DEF ranges, codes
  <2>4. ASSUME NEW k \in AnySession
        PROVE  sessions'[k].ranges = ranges(k)
    <3>1. sessions[k] \in SessionState
      BY <2>1
    <3>2. sessions'[k] = [sessions[k] EXCEPT !.codes = codes(k), !.ranges = ranges(k)]
      BY <2>3
    <3> QED BY <3>1, <3>2 DEF SessionState
  <2> QED BY <2>1, <2>2, <2>4 DEF RangesInv
<1>2. CASE ~Report
  <2>1. \A k \in AnySession : sessions'[k].ranges = sessions[k].ranges
    BY <1>2, SessionsStep
  <2>2. phase = "done" => phase' = "done" /\ streams' = streams
    BY DEF DrainedInv, Idle, Next, ObserveRecord, ObserveOverStreamBudget, ObserveInOrder,
       ObserveTaken, ObserveEarly, ObserveEarlyForced, Arrive, ObserveBare, Handler,
       PlaceInOrder, PlaceHeld, Place, DrainNext, DrainEnd, SignatureTimeRunsOut,
       EndOfInput, Finalise, FinaliseForce, FinaliseClose, JudgeAgainstLedger, Report,
       Terminated, vars
  <2> QED BY <2>1, <2>2 DEF RangesInv
<1> QED BY <1>1, <1>2

(* How far a session is said to be vouched for is where a signature        *)
(* verified, and none verified beyond it (_coverage, _check_signature).    *)
THEOREM RangesVouchedFor == Spec => []RangesAreVouched
<1> DEFINE Inv == /\ \A s \in Streams : VouchedInv(streams[s])
                  /\ DrainedInv /\ RangesInv
<1>1. Init => Inv
  BY DEF Init, VouchedInv, Vouchers, UnopenedStream, DrainedInv, RangesInv, EmptySession
<1>2. IInv /\ Inv /\ [Next]_vars => Inv'
  BY VouchedStep, DrainedStep, RangesStep
<1>3. Inv => RangesAreVouched
  BY DEF VouchedInv, RangesInv, RangesAreVouched, AnySession
<1> QED BY <1>1, <1>2, <1>3, Inductive, PTL DEF Spec

-----------------------------------------------------------------------------
(* Every record that was observed.                                         *)

LEMMA ArrivalOrNot ==
  ASSUME [Next]_vars
  PROVE  \/ seen' = seen
         \/ \E q \in Records :
              /\ seen' = seen \cup {q}
              /\ \/ ObserveOverStreamBudget(q) \/ ObserveInOrder(q) \/ ObserveTaken(q)
                 \/ ObserveEarly(q) \/ ObserveEarlyForced(q)
<1>1. CASE ObserveRecord
  BY <1>1 DEF ObserveRecord, ObserveOverStreamBudget, ObserveInOrder, ObserveTaken,
     ObserveEarly, ObserveEarlyForced, Arrive
<1>2. CASE ~ObserveRecord
  BY <1>2 DEF Next, ObserveBare, Handler, PlaceInOrder, PlaceHeld, Place, DrainNext,
     DrainEnd, SignatureTimeRunsOut, EndOfInput, Finalise, FinaliseForce, FinaliseClose,
     JudgeAgainstLedger, Report, Terminated, vars, history
<1> QED BY <1>1, <1>2

(* A record leaves the hand for its stream.                                *)
LEMMA HandStep ==
  ASSUME IInv, [Next]_vars, inHand # <<>>
  PROVE  LET r == inHand[1] IN
         \/ inHand' = inHand
         \/ /\ inHand' = <<>>
            /\ \/ streams'[r.stream] = Consumed(streams[r.stream], r)
               \/ streams'[r.stream] = [streams[r.stream] EXCEPT !.pending = @ \cup {r}]
<1>1. CASE PlaceInOrder \/ PlaceHeld
  <2>1. inHand[1].stream \in Streams /\ streams \in [Streams -> StreamState]
    BY InHandTypes DEF IInv, TypeOK
  <2> QED BY <1>1, <2>1 DEF PlaceInOrder, PlaceHeld, Place, Consume, Hold
<1>2. CASE ~(PlaceInOrder \/ PlaceHeld)
  BY <1>2 DEF Next, ObserveRecord, ObserveOverStreamBudget, ObserveInOrder, ObserveTaken,
     ObserveEarly, ObserveEarlyForced, Arrive, Idle, ObserveBare, Handler, DrainNext,
     DrainEnd, SignatureTimeRunsOut, EndOfInput, Finalise, FinaliseForce, FinaliseClose,
     JudgeAgainstLedger, Report, Terminated, vars, handler
<1> QED BY <1>1, <1>2

LEMMA ConsumedIsLogged ==
  ASSUME NEW st \in StreamState, NEW r \in Records,
         streams'[r.stream] = Consumed(st, r)
  PROVE  InLog(r)'
<1>1. Consumed(st, r).log = Append(st.log, LogEntry(r))
  BY ConsumedFields
<1>2. PICK i \in DOMAIN Consumed(st, r).log : Consumed(st, r).log[i] = LogEntry(r)
  BY <1>1, ConsumedLog, StreamNumbers
<1> QED BY <1>2 DEF InLog, LogEntry

LEMMA LoggedStays ==
  ASSUME IInv, [Next]_vars, NEW r \in Records, InLog(r)
  PROVE  InLog(r)'
<1> DEFINE s == r.stream
<1>1. s \in Streams
  BY RecordType
<1>2. CASE KeepsHistory(s)
  BY <1>2 DEF KeepsHistory, InLog
<1>3. ASSUME NEW q \in Records, NEW st \in StreamState, ConsumesOne(s, st, q)
      PROVE  InLog(r)'
  <2>1. Consumed(st, q).log = Append(st.log, LogEntry(q))
    BY ConsumedFields
  <2>2. streams'[s] = Consumed(st, q)
    BY <1>3 DEF ConsumesOne
  <2>3. st.log = streams[s].log
    BY <1>1, <1>3, SourceHistory
  <2>4. /\ \A i \in DOMAIN st.log : i \in DOMAIN Consumed(st, q).log
        /\ \A i \in DOMAIN st.log : Consumed(st, q).log[i] = st.log[i]
    BY <2>1, ConsumedLog
  <2> QED BY <2>2, <2>3, <2>4 DEF InLog
<1> HIDE DEF s
<1> QED BY <1>1, <1>2, <1>3, HistoryStep

LEMMA HeldStaysOrIsLogged ==
  ASSUME IInv, [Next]_vars, NEW r \in Records, r \in streams[r.stream].pending
  PROVE  r \in streams'[r.stream].pending \/ InLog(r)'
<1> DEFINE s == r.stream
<1>1. s \in Streams /\ streams[s] \in StreamState /\ StreamInv(s, streams[s])
  BY RecordType DEF IInv, TypeOK
<1>2. StreamStep(s)
  BY <1>1, StepOfStream
<1>3. CASE Annotates(s) \/ \E q \in Records : HoldsBack(s, q)
  BY <1>1, <1>3 DEF Annotates, HoldsBack, StreamState
<1>4. CASE ForcesOn(s)
  <2>1. /\ ReorderBudgetNoted(streams[s]) \in StreamState
        /\ ReorderBudgetNoted(streams[s]).pending = streams[s].pending
    BY <1>1 DEF ReorderBudgetNoted, StreamState, Codes
  <2>2. \A st \in StreamState : Forced(st).pending = st.pending
    BY DEF Forced, StreamState
  <2> QED BY <1>1, <1>4, <2>1, <2>2 DEF ForcesOn
<1>5. ASSUME NEW q \in Records, NEW st \in StreamState, ConsumesOne(s, st, q)
      PROVE  r \in streams'[r.stream].pending \/ InLog(r)'
  <2>1. streams'[s] = Consumed(st, q) /\ streams'[s].pending = st.pending
    <3>1. Consumed(st, q).pending = st.pending
      BY ConsumedFields
    <3>2. streams'[s] = Consumed(st, q)
      BY <1>5 DEF ConsumesOne
    <3> QED BY <3>1, <3>2
  <2>2. streams[s].open
    BY <1>1 DEF StreamInv, Shape
  <2>3. st.pending = streams[s].pending \/ st.pending = streams[s].pending \ {q}
    BY <1>1, <1>5, <2>2 DEF ConsumesOne, Source, StreamState
  <2>4. q = r => InLog(r)'
    BY <2>1, ConsumedIsLogged
  <2> QED BY <2>1, <2>3, <2>4
<1> QED BY <1>2, <1>3, <1>4, <1>5 DEF StreamStep

(* The record that has just come is consumed, charged, held or in hand.    *)
LEMMA ArrivalAccounted ==
  ASSUME IInv, NEW q \in Records,
         \/ ObserveOverStreamBudget(q) \/ ObserveInOrder(q) \/ ObserveTaken(q)
         \/ ObserveEarly(q) \/ ObserveEarlyForced(q)
  PROVE  \/ InLog(q)' \/ q \in streams'[q.stream].pending \/ inHand' = <<q>>
         \/ sessions'[q.session].codes \cap {R_SEQUENCE_REPLAY, R_STREAM_BUDGET} # {}
<1>1. /\ WithSidecar(q) \in [AnySession -> SessionState]
      /\ q.session \in AnySession /\ q.stream \in Streams
      /\ streams \in [Streams -> StreamState] /\ IsLedger(ledger)
  BY WithSidecarType, RecordType DEF IInv, TypeOK
<1>2. CASE ObserveOverStreamBudget(q)
  <2>1. {R_STREAM_BUDGET} \subseteq sessions'[q.session].codes
    <3>1. sessions' = Noted(WithSidecar(q), {q.session}, {R_STREAM_BUDGET})
      BY <1>2 DEF ObserveOverStreamBudget
    <3>2. {R_STREAM_BUDGET} \in SUBSET Codes
      BY DEF Codes
    <3> QED BY <1>1, <3>1, <3>2, NotedCodes
  <2> QED BY <2>1
<1>3. CASE ObserveInOrder(q)
  <2>1. Opened(q) \in StreamState
    BY <1>1, BeginType DEF Opened
  <2>2. streams'[q.stream] = Consumed(Opened(q), q)
    BY <1>1, <1>3 DEF ObserveInOrder, Consume
  <2> QED BY <2>1, <2>2, ConsumedIsLogged
<1>4. CASE ObserveTaken(q)
  <2>1. {R_SEQUENCE_REPLAY} \subseteq sessions'[q.session].codes
    <3>1. sessions' = Noted(WithSidecar(q), {q.session}, {R_SEQUENCE_REPLAY})
      BY <1>4 DEF ObserveTaken
    <3>2. {R_SEQUENCE_REPLAY} \in SUBSET Codes
      BY DEF Codes, INADMISSIBLE
    <3> QED BY <1>1, <3>1, <3>2, NotedCodes
  <2> QED BY <2>1
<1>5. CASE ObserveEarly(q)
  <2>1. streams' = [streams EXCEPT ![q.stream].pending = @ \cup {q}]
    BY <1>5 DEF ObserveEarly, Hold
  <2>2. streams'[q.stream].pending = streams[q.stream].pending \cup {q}
    BY <1>1, <2>1 DEF StreamState
  <2> QED BY <2>2
<1>6. CASE ObserveEarlyForced(q)
  BY <1>6 DEF ObserveEarlyForced
<1> QED BY <1>2, <1>3, <1>4, <1>5, <1>6

LEMMA AccountedStep ==
  ASSUME IInv, [Next]_vars, EveryRecordAccounted
  PROVE  EveryRecordAccounted'
<1>1. seen \subseteq Records
  BY DEF IInv, TypeOK
<1>2. ASSUME NEW r \in seen
      PROVE  \/ InLog(r)' \/ r \in streams'[r.stream].pending \/ inHand' = <<r>>
             \/ sessions'[r.session].codes \cap {R_SEQUENCE_REPLAY, R_STREAM_BUDGET} # {}
  <2>1. r \in Records
    BY <1>1
  <2>2. CASE InLog(r)
    BY <2>1, <2>2, LoggedStays
  <2>3. CASE r \in streams[r.stream].pending
    BY <2>1, <2>3, HeldStaysOrIsLogged
  <2>4. CASE inHand = <<r>>
    <3>1. inHand # <<>> /\ inHand[1] = r
      BY <2>4
    <3>2. \/ inHand' = <<r>>
          \/ streams'[r.stream] = Consumed(streams[r.stream], r)
          \/ streams'[r.stream] = [streams[r.stream] EXCEPT !.pending = @ \cup {r}]
      BY <2>4, <3>1, HandStep
    <3>3. streams[r.stream] \in StreamState
      BY <2>1, RecordType DEF IInv, TypeOK
    <3>4. [streams[r.stream] EXCEPT !.pending = @ \cup {r}].pending
            = streams[r.stream].pending \cup {r}
      BY <3>3 DEF StreamState
    <3> QED BY <2>1, <3>2, <3>3, <3>4, ConsumedIsLogged
  <2>5. CASE sessions[r.session].codes \cap {R_SEQUENCE_REPLAY, R_STREAM_BUDGET} # {}
    BY <2>1, <2>5, RecordType, SessionsStep
  <2> QED BY <2>2, <2>3, <2>4, <2>5 DEF EveryRecordAccounted
<1>3. CASE seen' = seen
  BY <1>2, <1>3 DEF EveryRecordAccounted
<1>4. ASSUME NEW q \in Records, seen' = seen \cup {q},
             \/ ObserveOverStreamBudget(q) \/ ObserveInOrder(q) \/ ObserveTaken(q)
             \/ ObserveEarly(q) \/ ObserveEarlyForced(q)
      PROVE  EveryRecordAccounted'
  BY <1>2, <1>4, ArrivalAccounted DEF EveryRecordAccounted
<1> QED BY <1>3, <1>4, ArrivalOrNot

(* No record that was observed is dropped in silence by a budget, a hold   *)
(* or a force (observe, _hold, _force, _drain).                            *)
THEOREM RecordsAreAccounted == Spec => []EveryRecordAccounted
<1>1. Init => EveryRecordAccounted
  BY DEF Init, EveryRecordAccounted
<1> QED BY <1>1, AccountedStep, Inductive, PTL DEF Spec

-----------------------------------------------------------------------------
(* Genuine records, however they come.                                     *)

LEMMA GenuineHeadStarts ==
  ASSUME NEW s \in Streams
  PROVE  GenuineHead(s, 0) = ChainSeed(s, SeedKey[s])
<1>1. /\ Written[s] \in Seq(Bodies) /\ SeedKey[s] \in AnyKey
      /\ ChainSeed(s, SeedKey[s]) \in Heads
  BY WrittenAssumption, ChainSeedType DEF AnyKey
<1>2. SubSeq(Written[s], 1, 0) = <<>>
  BY <1>1
<1>3. \A h \in Heads : h \o <<>> = h
  BY DEF Heads
<1> QED BY <1>1, <1>2, <1>3 DEF GenuineHead

LEMMA GenuineHeadSteps ==
  ASSUME NEW s \in Streams, NEW n \in Nat, n < Len(Written[s])
  PROVE  /\ GenuineHead(s, n) \in Heads /\ GenuineHead(s, n) # NoHead
         /\ GenuineHead(s, n + 1) # NoHead
         /\ ChainStep(GenuineHead(s, n), Written[s][n + 1]) = GenuineHead(s, n + 1)
<1> DEFINE seed  == ChainSeed(s, SeedKey[s])
           short == SubSeq(Written[s], 1, n)
           long  == SubSeq(Written[s], 1, n + 1)
           b     == Written[s][n + 1]
<1>1. /\ Written[s] \in Seq(Bodies) /\ Len(Written[s]) \in Nat
      /\ seed \in Heads /\ Len(seed) = 1
  BY WrittenAssumption, ChainSeedType DEF AnyKey
<1>2. short \in Seq(Bodies) /\ b \in Bodies /\ long = Append(short, b)
  <2>1. \A w \in Seq(Bodies) : n < Len(w) =>
          /\ SubSeq(w, 1, n) \in Seq(Bodies) /\ w[n + 1] \in Bodies
          /\ SubSeq(w, 1, n + 1) = Append(SubSeq(w, 1, n), w[n + 1])
    <3> TAKE w \in Seq(Bodies)
    <3> HAVE n < Len(w)
    <3>1. Len(w) \in Nat /\ n + 1 \in 1 .. Len(w)
      OBVIOUS
    <3>2. SubSeq(w, 1, n) \in Seq(Bodies) /\ Len(SubSeq(w, 1, n)) = n
      BY <3>1
    <3>3. w[n + 1] \in Bodies
      BY <3>1
    <3>4. SubSeq(w, 1, n + 1) = Append(SubSeq(w, 1, n), w[n + 1])
      BY <3>1
    <3> QED BY <3>2, <3>3, <3>4
  <2> QED BY <1>1, <2>1
<1>3. short \in Heads /\ b \in (Streams \X AnyKey) \cup Bodies
  BY <1>2 DEF Heads
<1>4. /\ GenuineHead(s, n) = seed \o short
      /\ GenuineHead(s, n + 1) = seed \o Append(short, b)
  BY <1>2 DEF GenuineHead
<1> HIDE DEF seed, short, long
<1>5. seed \o short \in Heads /\ Len(seed \o short) = 1 + Len(short)
  BY <1>1, <1>3, ConcatProperties DEF Heads
<1>6. seed \o Append(short, b) = Append(seed \o short, b)
  BY <1>1, <1>3, <1>5 DEF Heads
<1>7. Append(seed \o short, b) \in Heads /\ Append(seed \o short, b) # NoHead
  BY <1>3, <1>5 DEF Heads
<1> QED BY <1>3, <1>4, <1>5, <1>6, <1>7 DEF ChainStep, Heads

(* The chain of the stream held so far, and its head is the collector's.   *)
GenuineStream(s, st) ==
  /\ st.codes \cap {R_CHAIN_BROKEN, R_CHAIN_UNANCHORED} = {}
  /\ st.open => st.head = GenuineHead(s, st.expected)

AllGenuine == \A r \in seen : Genuine(r)

NeverBroken == AllGenuine => \A s \in Streams : GenuineStream(s, streams[s])

(* What is held or in hand was observed.                                   *)
KnownInv ==
  /\ \A s \in Streams : streams[s].pending \subseteq seen
  /\ inHand # <<>> => inHand[1] \in seen

LEMMA KnownStep ==
  ASSUME IInv, [Next]_vars, KnownInv
  PROVE  KnownInv'
<1>1. seen \subseteq seen'
  BY ArrivalOrNot
<1>2. ASSUME NEW s \in Streams
      PROVE  streams'[s].pending \subseteq seen'
  <2>1. streams[s] \in StreamState /\ streams[s].pending \subseteq seen'
        /\ StreamInv(s, streams[s])
    BY <1>1 DEF IInv, TypeOK, KnownInv
  <2>2. CASE Annotates(s)
    BY <2>1, <2>2 DEF Annotates, StreamState
  <2>3. ASSUME NEW r \in Records, HoldsBack(s, r)
        PROVE  streams'[s].pending \subseteq seen'
    <3>1. r \in seen'
      BY <1>1, <2>3 DEF HoldsBack, KnownInv
    <3>2. streams'[s].pending = streams[s].pending \cup {r}
      BY <2>1, <2>3 DEF HoldsBack, StreamState
    <3> QED BY <2>1, <3>1, <3>2
  <2>4. CASE ForcesOn(s)
    <3>1. /\ ReorderBudgetNoted(streams[s]) \in StreamState
          /\ ReorderBudgetNoted(streams[s]).pending = streams[s].pending
      BY <2>1 DEF ReorderBudgetNoted, StreamState, Codes
    <3>2. \A st \in StreamState : Forced(st).pending = st.pending
      BY DEF Forced, StreamState
    <3> QED BY <2>1, <2>4, <3>1, <3>2 DEF ForcesOn
  <2>5. ASSUME NEW r \in Records, NEW st \in StreamState, ConsumesOne(s, st, r)
        PROVE  streams'[s].pending \subseteq seen'
    <3>1. Consumed(st, r).pending = st.pending
      BY ConsumedFields
    <3>2. streams'[s] = Consumed(st, r) /\ Source(s, st, r)
      BY <2>5 DEF ConsumesOne
    <3>3. st.pending \subseteq streams[s].pending
      <4>1. Begin(r).pending = {}
        BY DEF Begin, UnopenedStream
      <4> QED BY <2>1, <3>2, <4>1 DEF Source, StreamState
    <3> QED BY <2>1, <3>1, <3>2, <3>3
  <2> QED BY <2>2, <2>3, <2>4, <2>5, StepOfStream DEF StreamStep
<1>3. inHand' # <<>> => inHand'[1] \in seen'
  <2>1. \/ inHand' = inHand \/ inHand' = <<>>
        \/ \E q \in seen' : inHand' = <<q>>
    BY DEF Next, ObserveRecord, ObserveOverStreamBudget, ObserveInOrder, ObserveTaken,
       ObserveEarly, ObserveEarlyForced, Arrive, ObserveBare, Handler, PlaceInOrder,
       PlaceHeld, Place, DrainNext, DrainEnd, SignatureTimeRunsOut, EndOfInput, Finalise,
       FinaliseForce, FinaliseClose, JudgeAgainstLedger, Report, Terminated, vars, handler
  <2> QED BY <1>1, <2>1 DEF KnownInv
<1> QED BY <1>2, <1>3 DEF KnownInv

(* Of these codes a record's own checks give at most that it is unanchored. *)
LEMMA ChainCodesOfRecord ==
  ASSUME NEW st, NEW r
  PROVE  /\ SessionOnlyCodes(r) \cap ChainCodes = {}
         /\ RecordCodes(st, r) \cap {R_CHAIN_BROKEN, R_SEQUENCE_GAP} = {}
         /\ ~Unanchored(st, r) => R_CHAIN_UNANCHORED \notin RecordCodes(st, r)
<1> USE DEF R_RECORDS_AFTER_CLOSE, R_UNSIGNED, R_KEY_UNKNOWN, R_KEY_WRONG_ROLE,
            R_KEY_REVOKED, R_SIGNATURE_INVALID, R_STREAM_KEY_CHANGED, R_KEY_NOT_YET_VALID,
            R_KEY_EXPIRED, R_FROM_FUTURE, R_STALE, R_CHAIN_BROKEN, R_CHAIN_UNANCHORED,
            R_SEQUENCE_GAP, R_NO_COLLECTOR_KEYS, R_SIGNATURE_BUDGET, R_KEY_WINDOW_UNCHECKED
<1>1. VerifiedCodes(st, r) \cap ChainCodes = {}
  BY DEF VerifiedCodes, On, ChainCodes
<1>2. SignatureCodes(st, r) \cap ChainCodes = {}
  BY <1>1 DEF SignatureCodes, On, ChainCodes
<1>3. SessionOnlyCodes(r) \cap ChainCodes = {}
  BY DEF SessionOnlyCodes, On, ChainCodes
<1> QED BY <1>2, <1>3 DEF RecordCodes, On, ChainCodes

(* A genuine record extends a genuine chain.                               *)
LEMMA GenuineConsumed ==
  ASSUME NEW st \in StreamState, NEW r \in Records, Genuine(r),
         st.codes \cap {R_CHAIN_BROKEN, R_CHAIN_UNANCHORED} = {},
         st.head = GenuineHead(r.stream, r.seq)
  PROVE  GenuineStream(r.stream, Consumed(st, r))
<1> DEFINE s == r.stream
           c == Consumed(st, r)
<1>1. s \in Streams /\ r.seq \in Nat
  BY RecordType
<1>2. /\ r.seq < Len(Written[s]) /\ r.body = Written[s][r.seq + 1]
      /\ r.prev = st.head /\ r.chain = GenuineHead(s, r.seq + 1)
  BY DEF Genuine
<1>3. st.head # NoHead /\ r.chain # NoHead /\ ChainStep(st.head, r.body) = r.chain
  BY <1>1, <1>2, GenuineHeadSteps
<1>4. ExpectedChain(st, r) = r.chain
  BY <1>3 DEF ExpectedChain
<1>5. /\ ~ChainBreaks(st, r) /\ ~Unanchored(st, r) /\ NextHead(st, r) = r.chain
  BY <1>2, <1>3, <1>4 DEF ChainBreaks, Unanchored, NextHead
<1>6. c.codes = st.codes \cup RecordCodes(st, r)
                  \cup On(BreakSessions(st, r) # {}, R_CHAIN_BROKEN)
      /\ c.head = NextHead(st, r) /\ c.expected = r.seq + 1
  BY ConsumedFields
<1>7. On(BreakSessions(st, r) # {}, R_CHAIN_BROKEN) = {}
  BY <1>5 DEF BreakSessions, On
<1>8. RecordCodes(st, r) \cap {R_CHAIN_BROKEN, R_CHAIN_UNANCHORED} = {}
  BY <1>5, ChainCodesOfRecord
<1> HIDE DEF c
<1> QED BY <1>2, <1>5, <1>6, <1>7, <1>8 DEF GenuineStream, c

LEMMA NeverBrokenStep ==
  ASSUME IInv, [Next]_vars, KnownInv, NeverBroken
  PROVE  NeverBroken'
<1> SUFFICES ASSUME AllGenuine', NEW s \in Streams
             PROVE  GenuineStream(s, streams'[s])
  BY DEF NeverBroken
<1>1. seen \subseteq seen' /\ KnownInv'
  BY ArrivalOrNot, KnownStep
<1>2. /\ GenuineStream(s, streams[s]) /\ streams[s] \in StreamState
      /\ StreamInv(s, streams[s])
  BY <1>1 DEF NeverBroken, AllGenuine, IInv, TypeOK
<1>3. CASE Annotates(s)
  <2>1. PICK codes \in SUBSET (Codes \ ChainCodes) :
          streams'[s] = [streams[s] EXCEPT !.codes = @ \cup codes]
    BY <1>3 DEF Annotates
  <2> QED BY <1>2, <2>1 DEF GenuineStream, ChainCodes, StreamState
<1>4. ASSUME NEW r \in Records, HoldsBack(s, r)
      PROVE  GenuineStream(s, streams'[s])
  BY <1>2, <1>4 DEF HoldsBack, GenuineStream, StreamState
<1>5. CASE ForcesOn(s)
  <2>1. ASSUME NEW st \in StreamState, GenuineStream(s, st),
               st.pending = streams[s].pending
        PROVE  GenuineStream(s, Forced(st))
    <3>1. CASE Skips(st)
      <4> DEFINE e == Earliest(st)
      <4>1. e \in streams[s].pending
        BY <2>1, <3>1, EarliestIsHeld DEF Skips
      <4>2. Genuine(e) /\ e.stream = s
        BY <1>1, <1>2, <4>1 DEF KnownInv, AllGenuine, StreamInv, Shape
      <4>3. e.prev = GenuineHead(s, e.seq)
        BY <4>2 DEF Genuine
      <4>4. /\ Forced(st).head = e.prev /\ Forced(st).expected = e.seq
            /\ Forced(st).codes = st.codes \cup On(GapSessions(st) # {}, R_SEQUENCE_GAP)
        BY <3>1 DEF Forced, StreamState
      <4>5. On(GapSessions(st) # {}, R_SEQUENCE_GAP)
              \cap {R_CHAIN_BROKEN, R_CHAIN_UNANCHORED} = {}
        BY DEF On, R_SEQUENCE_GAP, R_CHAIN_BROKEN, R_CHAIN_UNANCHORED
      <4> HIDE DEF e
      <4> QED BY <2>1, <4>3, <4>4, <4>5 DEF GenuineStream
    <3>2. CASE ~Skips(st)
      BY <2>1, <3>2 DEF Forced
    <3> QED BY <3>1, <3>2
  <2> DEFINE noted == ReorderBudgetNoted(streams[s])
  <2>2. /\ noted \in StreamState /\ noted.pending = streams[s].pending
        /\ noted.codes = streams[s].codes \cup {R_REORDER_BUDGET}
        /\ noted.open = streams[s].open /\ noted.head = streams[s].head
        /\ noted.expected = streams[s].expected
    BY <1>2 DEF ReorderBudgetNoted, StreamState, Codes
  <2> HIDE DEF noted
  <2>3. GenuineStream(s, noted)
    BY <1>2, <2>2 DEF GenuineStream, R_REORDER_BUDGET, R_CHAIN_BROKEN, R_CHAIN_UNANCHORED
  <2> QED BY <1>2, <1>5, <2>1, <2>2, <2>3 DEF ForcesOn, noted
<1>6. ASSUME NEW r \in Records, NEW st \in StreamState, ConsumesOne(s, st, r)
      PROVE  GenuineStream(s, streams'[s])
  <2>1. /\ r.stream = s /\ r.seq = st.expected /\ Source(s, st, r)
        /\ streams'[s] = Consumed(st, r)
    BY <1>6 DEF ConsumesOne
  <2>2. r \in seen'
    BY <1>1, <2>1 DEF Source, KnownInv
  <2>3. Genuine(r)
    BY <2>2 DEF AllGenuine
  <2>4. /\ st.codes \cap {R_CHAIN_BROKEN, R_CHAIN_UNANCHORED} = {}
        /\ st.head = GenuineHead(s, r.seq)
    <3>1. CASE st = Begin(r)
      <4>1. /\ Begin(r).codes = {}
            /\ Begin(r).head = IF r.seq = 0 THEN ChainSeed(r.stream, r.key) ELSE r.prev
        BY DEF Begin, UnopenedStream
      <4>2. r.seq = 0 => Begin(r).head = GenuineHead(s, 0)
        BY <2>1, <2>3, <4>1, GenuineHeadStarts DEF Genuine
      <4>3. r.seq # 0 => Begin(r).head = GenuineHead(s, r.seq)
        BY <2>1, <2>3, <4>1 DEF Genuine
      <4> QED BY <3>1, <4>1, <4>2, <4>3
    <3>2. CASE streams[s].open /\ (st = streams[s] \/ \E x : st = [streams[s] EXCEPT !.pending = x])
      BY <1>2, <2>1, <3>2 DEF GenuineStream, StreamState
    <3>3. r \in streams[s].pending => streams[s].open
      BY <1>2 DEF StreamInv, Shape
    <3> QED BY <2>1, <3>1, <3>2, <3>3 DEF Source
  <2> QED BY <2>1, <2>3, <2>4, GenuineConsumed
<1> QED BY <1>3, <1>4, <1>5, <1>6, StepOfStream DEF StreamStep

(* Losing, repeating or reordering the collector's own records never reads *)
(* as an altered chain (StreamVerifier._consume, _force, _begin).          *)
THEOREM GenuineNeverBreaks == Spec => []NoFalseBreak
<1>1. Init => KnownInv /\ NeverBroken
  BY DEF Init, KnownInv, NeverBroken, GenuineStream, UnopenedStream
<1>2. IInv /\ KnownInv /\ NeverBroken /\ [Next]_vars => KnownInv' /\ NeverBroken'
  BY KnownStep, NeverBrokenStep
<1>3. NeverBroken => NoFalseBreak
  BY DEF NeverBroken, AllGenuine, GenuineStream, NoFalseBreak
<1> QED BY <1>1, <1>2, <1>3, Inductive, PTL DEF Spec

-----------------------------------------------------------------------------
(* Records that fall behind their stream.                                  *)

(* Unless the reorder budget has forced it, a stream holds nothing behind  *)
(* the position it expects, and a record at that position only while it is *)
(* being drained.                                                          *)
Ahead(s) ==
  ~ForcedByBudget(streams[s]) =>
    \A p \in streams[s].pending :
      /\ p.seq >= streams[s].expected
      /\ p.seq = streams[s].expected => draining # <<>> /\ draining[1] = s

OneEach(s) == \A p, q \in streams[s].pending : p.seq = q.seq => p = q

HandInv == inHand # <<>> => ForcedByBudget(streams[inHand[1].stream])

LEMMA ForcedFields ==
  ASSUME NEW st \in StreamState
  PROVE  /\ Forced(st).pending = st.pending
         /\ st.codes \subseteq Forced(st).codes
         /\ Skips(st) => Forced(st).expected = Earliest(st).seq
         /\ ~Skips(st) => Forced(st) = st
BY DEF Forced, StreamState

LEMMA NotedFields ==
  ASSUME NEW st \in StreamState
  PROVE  LET noted == ReorderBudgetNoted(st) IN
         /\ noted \in StreamState /\ noted.pending = st.pending
         /\ noted.codes = st.codes \cup {R_REORDER_BUDGET}
BY DEF ReorderBudgetNoted, StreamState, Codes

LEMMA ForcedStays ==
  ASSUME IInv, [Next]_vars, NEW s \in Streams, streams[s].open, ForcedByBudget(streams[s])
  PROVE  ForcedByBudget(streams'[s])
<1>1. streams[s].log # <<>>
  BY DEF IInv, StreamInv, Shape
<1>2. CASE KeepsHistory(s)
  BY <1>2 DEF KeepsHistory, ForcedByBudget
<1>3. ASSUME NEW r \in Records, NEW st \in StreamState, ConsumesOne(s, st, r)
      PROVE  ForcedByBudget(streams'[s])
  <2>1. st.codes = streams[s].codes
    BY <1>1, <1>3, SourceHistory
  <2>2. streams'[s] = Consumed(st, r)
    BY <1>3 DEF ConsumesOne
  <2>3. st.codes \subseteq Consumed(st, r).codes
    BY ConsumedFields
  <2> QED BY <2>1, <2>2, <2>3 DEF ForcedByBudget
<1> QED BY <1>2, <1>3, HistoryStep

LEMMA AheadStep ==
  ASSUME IInv, [Next]_vars, HandInv, NEW s \in Streams, Ahead(s), OneEach(s)
  PROVE  Ahead(s)' /\ OneEach(s)'
<1>1. /\ streams[s] \in StreamState /\ StreamInv(s, streams[s])
      /\ streams[s].expected \in Nat /\ \A p \in streams[s].pending : p.seq \in Nat
  BY RecordType DEF IInv, TypeOK, StreamState
<1>2. CASE Annotates(s)
  <2>1. /\ streams'[s].pending = streams[s].pending
        /\ streams'[s].expected = streams[s].expected
        /\ streams[s].codes \subseteq streams'[s].codes
    BY <1>1, <1>2 DEF Annotates, StreamState
  <2>2. ~ForcedByBudget(streams'[s]) => ~ForcedByBudget(streams[s])
    BY <2>1 DEF ForcedByBudget
  <2>3. OneEach(s)'
    BY <2>1 DEF OneEach
  <2>4. Ahead(s)'
    BY <1>2, <2>1, <2>2 DEF Ahead, Annotates, Held
  <2> QED BY <2>3, <2>4
<1>3. ASSUME NEW r \in Records, HoldsBack(s, r)
      PROVE  Ahead(s)' /\ OneEach(s)'
  <2>1. /\ streams'[s].pending = streams[s].pending \cup {r}
        /\ streams'[s].expected = streams[s].expected
        /\ streams'[s].codes = streams[s].codes
        /\ draining' = draining
    BY <1>1, <1>3 DEF HoldsBack, StreamState
  <2>2. OneEach(s)'
    BY <1>3, <2>1 DEF OneEach, HoldsBack, Held
  <2>3. CASE inHand = <<r>>
    <3>1. ForcedByBudget(streams[s])
      BY <1>3, <2>3 DEF HandInv, HoldsBack
    <3>2. ForcedByBudget(streams'[s])
      BY <2>1, <3>1 DEF ForcedByBudget
    <3> QED BY <2>2, <3>2 DEF Ahead
  <2>4. CASE r.seq > streams[s].expected
    <3>1. r.seq \in Nat /\ (ForcedByBudget(streams'[s]) <=> ForcedByBudget(streams[s]))
      BY <2>1, RecordType DEF ForcedByBudget
    <3>2. Ahead(s)'
      BY <1>1, <2>1, <2>4, <3>1 DEF Ahead
    <3> QED BY <2>2, <3>2
  <2> QED BY <1>3, <2>2, <2>3, <2>4 DEF HoldsBack
<1>4. CASE ForcesOn(s)
  <2> DEFINE noted == ReorderBudgetNoted(streams[s])
  <2>1. /\ noted \in StreamState /\ noted.pending = streams[s].pending
        /\ R_REORDER_BUDGET \in noted.codes
    BY <1>1, NotedFields
  <2> HIDE DEF noted
  <2>2. draining' # <<>> /\ draining'[1] = s
    BY <1>4 DEF ForcesOn
  <2>3. CASE streams'[s] = Forced(noted)
    <3>1. streams'[s].pending = streams[s].pending /\ ForcedByBudget(streams'[s])
      BY <2>1, <2>3, ForcedFields DEF ForcedByBudget
    <3> QED BY <3>1 DEF Ahead, OneEach
  <2>4. CASE streams'[s] = Forced(streams[s])
    <3>1. /\ streams'[s].pending = streams[s].pending
          /\ streams[s].codes \subseteq streams'[s].codes
      BY <1>1, <2>4, ForcedFields
    <3>2. CASE Skips(streams[s])
      <4>1. streams'[s].expected = Earliest(streams[s]).seq
        BY <1>1, <2>4, <3>2, ForcedFields
      <4>2. \A p \in streams[s].pending : Earliest(streams[s]).seq <= p.seq
        BY <1>1, <3>2, EarliestIsHeld DEF Skips
      <4>3. Earliest(streams[s]).seq \in Nat
        BY <1>1, <3>2, EarliestIsHeld DEF Skips
      <4> QED BY <1>1, <2>2, <3>1, <4>1, <4>2, <4>3 DEF Ahead, OneEach
    <3>3. CASE ~Skips(streams[s])
      <4>1. streams'[s] = streams[s]
        BY <1>1, <2>4, <3>3, ForcedFields
      <4> QED BY <2>2, <4>1 DEF Ahead, OneEach
    <3> QED BY <3>2, <3>3
  <2> QED BY <1>4, <2>3, <2>4 DEF ForcesOn, noted
<1>5. ASSUME NEW r \in Records, NEW st \in StreamState, ConsumesOne(s, st, r)
      PROVE  Ahead(s)' /\ OneEach(s)'
  <2>1. /\ r.seq = st.expected /\ Source(s, st, r) /\ streams'[s] = Consumed(st, r)
        /\ draining' # <<>> /\ draining'[1] = s /\ r.seq \in Nat
    BY <1>5, RecordType DEF ConsumesOne
  <2>2. /\ streams'[s].pending = st.pending /\ streams'[s].expected = r.seq + 1
        /\ st.codes \subseteq streams'[s].codes
    <3>1. /\ Consumed(st, r).pending = st.pending
          /\ Consumed(st, r).expected = r.seq + 1
          /\ st.codes \subseteq Consumed(st, r).codes
      BY ConsumedFields
    <3> QED BY <2>1, <3>1
  <2>3. CASE st = Begin(r)
    <3>1. st.pending = {}
      BY <2>3 DEF Begin, UnopenedStream
    <3> QED BY <2>2, <3>1 DEF Ahead, OneEach
  <2>4. CASE st = streams[s] /\ draining = <<>>
    BY <1>1, <2>1, <2>2, <2>4 DEF Ahead, OneEach, ForcedByBudget
  <2>5. CASE r \in streams[s].pending /\ st = [streams[s] EXCEPT !.pending = @ \ {r}]
    <3>1. /\ st.pending = streams[s].pending \ {r} /\ st.expected = streams[s].expected
          /\ st.codes = streams[s].codes
      BY <1>1, <2>5 DEF StreamState
    <3>2. \A p \in st.pending : p.seq # r.seq
      BY <2>5, <3>1 DEF OneEach
    <3> QED BY <1>1, <2>1, <2>2, <3>1, <3>2 DEF Ahead, OneEach, ForcedByBudget
  <2> QED BY <2>1, <2>3, <2>4, <2>5 DEF Source
<1> QED BY <1>2, <1>3, <1>4, <1>5, StepOfStream DEF StreamStep

LEMMA HandForced ==
  ASSUME IInv, [Next]_vars, HandInv
  PROVE  HandInv'
<1>1. ASSUME inHand # <<>>, inHand' = inHand
      PROVE  HandInv'
  BY <1>1, InHandTypes, ForcedStays DEF HandInv
<1>2. ASSUME NEW q \in Records, ObserveEarlyForced(q)
      PROVE  HandInv'
  <2>1. /\ q.stream \in Streams /\ streams \in [Streams -> StreamState]
    BY RecordType DEF IInv, TypeOK
  <2>2. /\ streams' = [streams EXCEPT ![q.stream] = Forced(ReorderBudgetNoted(streams[q.stream]))]
        /\ inHand' = <<q>>
    BY <1>2 DEF ObserveEarlyForced
  <2>3. streams'[q.stream] = Forced(ReorderBudgetNoted(streams[q.stream]))
    BY <2>1, <2>2
  <2>4. /\ ReorderBudgetNoted(streams[q.stream]) \in StreamState
        /\ R_REORDER_BUDGET \in ReorderBudgetNoted(streams[q.stream]).codes
    BY <2>1, NotedFields
  <2>5. R_REORDER_BUDGET \in streams'[q.stream].codes
    BY <2>3, <2>4, ForcedFields
  <2> QED BY <2>2, <2>5 DEF HandInv, ForcedByBudget
<1>3. \/ inHand' = inHand \/ inHand' = <<>>
      \/ \E q \in Records : ObserveEarlyForced(q)
  BY DEF Next, ObserveRecord, ObserveOverStreamBudget, ObserveInOrder, ObserveTaken,
     ObserveEarly, ObserveBare, Handler, PlaceInOrder, PlaceHeld, Place, DrainNext,
     DrainEnd, SignatureTimeRunsOut, EndOfInput, Finalise, FinaliseForce, FinaliseClose,
     JudgeAgainstLedger, Report, Terminated, vars, handler
<1> QED BY <1>1, <1>2, <1>3 DEF HandInv

(* A held record falls behind its stream only where the reorder budget     *)
(* forced a gap, and then the stream says so (_hold, _force, _drain).      *)
THEOREM OnlyForcingStrands == Spec => []StrandedOnlyByForcing
<1> DEFINE Inv == HandInv /\ \A s \in Streams : Ahead(s) /\ OneEach(s)
<1>1. Init => Inv
  BY DEF Init, HandInv, Ahead, OneEach, UnopenedStream
<1>2. IInv /\ Inv /\ [Next]_vars => Inv'
  BY AheadStep, HandForced
<1>3. IInv /\ Inv => StrandedOnlyByForcing
  <2> SUFFICES ASSUME IInv, Inv, NEW s \in Streams, NEW p \in streams[s].pending,
                      p.seq < streams[s].expected
               PROVE  ForcedByBudget(streams[s])
    BY DEF StrandedOnlyByForcing
  <2>1. p.seq \in Nat /\ streams[s].expected \in Nat
    BY RecordType DEF IInv, TypeOK, StreamState
  <2> QED BY <2>1 DEF Ahead
<1> QED BY <1>1, <1>2, <1>3, Inductive, PTL DEF Spec

-----------------------------------------------------------------------------
(* What a step does to the codes of the sessions.                          *)

(* From ss to tt the code c is given to the sessions `who`, and to no      *)
(* other.                                                                  *)
Charges(c, ss, tt, who) ==
  \A k \in AnySession : c \in tt[k].codes <=> c \in ss[k].codes \/ k \in who

LEMMA ChargesChain ==
  ASSUME NEW c, NEW ss, NEW tt, NEW uu, NEW who,
         Charges(c, ss, tt, {}), Charges(c, tt, uu, who)
  PROVE  Charges(c, ss, uu, who)
BY DEF Charges

LEMMA NotedCharges ==
  ASSUME NEW ss \in [AnySession -> SessionState], NEW who, NEW codes, NEW c
  PROVE  /\ c \notin codes => Charges(c, ss, Noted(ss, who, codes), {})
         /\ c \in codes    => Charges(c, ss, Noted(ss, who, codes), who)
BY DEF Charges, Noted, SessionState

LEMMA WithSidecarCharges ==
  ASSUME NEW r \in Records, sessions \in [AnySession -> SessionState], NEW c
  PROVE  Charges(c, sessions, WithSidecar(r), {})
BY RecordType DEF Charges, WithSidecar, SessionState

(* Consuming a record charges no gap, and a break to its two sides.        *)
LEMMA ConsumedCharges ==
  ASSUME NEW ss \in [AnySession -> SessionState], NEW st \in StreamState, NEW r \in Records
  PROVE  LET tt == ConsumedSessions(ss, st, r) IN
         /\ Charges(R_SEQUENCE_GAP, ss, tt, {})
         /\ Charges(R_CHAIN_BROKEN, ss, tt, BreakSessions(st, r))
<1> DEFINE broken == Noted(ss, BreakSessions(st, r), {R_CHAIN_BROKEN})
           codes  == RecordCodes(st, r) \cup SessionOnlyCodes(r)
           noted  == Noted(broken, {r.session}, codes)
           tt     == ConsumedSessions(ss, st, r)
           tried  == noted[r.session].tried \/ Attempts(r)
           dated  == \/ noted[r.session].dated
                     \/ Holds(r) /\ Freshness.enabled /\ r.clock # NoClock
<1>1. /\ broken \in [AnySession -> SessionState]
      /\ Charges(R_SEQUENCE_GAP, ss, broken, {})
      /\ Charges(R_CHAIN_BROKEN, ss, broken, BreakSessions(st, r))
  <2>1. {R_CHAIN_BROKEN} \in SUBSET Codes
    BY DEF Codes, INADMISSIBLE
  <2>2. R_SEQUENCE_GAP \notin {R_CHAIN_BROKEN}
    BY DEF R_SEQUENCE_GAP, R_CHAIN_BROKEN
  <2> QED BY <2>1, <2>2, NotedType, NotedCharges
<1>2. R_SEQUENCE_GAP \notin codes /\ R_CHAIN_BROKEN \notin codes
  BY ChainCodesOfRecord DEF ChainCodes
<1>3. codes \in SUBSET Codes
  BY RecordCodesType
<1> HIDE DEF broken, codes
<1>4. /\ noted \in [AnySession -> SessionState]
      /\ Charges(R_SEQUENCE_GAP, broken, noted, {})
      /\ Charges(R_CHAIN_BROKEN, broken, noted, {})
  BY <1>1, <1>2, <1>3, NotedType, NotedCharges
<1>5. tt = [noted EXCEPT ![r.session].tried = tried, ![r.session].dated = dated]
  BY DEF ConsumedSessions, broken, codes
<1>6. r.session \in AnySession
  BY RecordType
<1> HIDE DEF noted, tried, dated, tt
<1>7. \A k \in AnySession : tt[k].codes = noted[k].codes
  BY <1>4, <1>5, <1>6 DEF SessionState
<1>8. /\ Charges(R_SEQUENCE_GAP, ss, tt, {})
      /\ Charges(R_CHAIN_BROKEN, ss, tt, BreakSessions(st, r))
  BY <1>1, <1>4, <1>7 DEF Charges
<1> QED BY <1>8 DEF tt

(* Neither code comes from a close, from the ledger or from the report.    *)
LEMMA ClosingCodesOfRun ==
  /\ \A s : CloseCodes(s) \cap ChainCodes = {}
  /\ \A verdict : VerdictCodes(verdict) \cap ChainCodes = {}
  /\ \A ss : ClosingCodes(ss) \cap ChainCodes = {}
<1> USE DEF ChainCodes, On, R_CHAIN_BROKEN, R_CHAIN_UNANCHORED, R_SEQUENCE_GAP
<1>1. \A s : CloseCodes(s) \cap ChainCodes = {}
  BY DEF CloseCodes, R_STREAM_NOT_CLOSED, R_CLOSE_UNVERIFIED, R_STREAM_END_MISSING
<1>2. \A verdict : VerdictCodes(verdict) \cap ChainCodes = {}
  BY DEF VerdictCodes, R_STREAM_FORKED, R_STREAM_REPLAYED, R_STREAM_SKIPPED_RECORDS,
         R_RECORDS_AFTER_CLOSE
<1>3. \A ss : ClosingCodes(ss) \cap ChainCodes = {}
  BY DEF ClosingCodes, R_NO_STREAM_LEDGER, R_PARTIAL_INTEGRITY, R_FRESHNESS_UNVERIFIABLE
<1> QED BY <1>1, <1>2, <1>3

-----------------------------------------------------------------------------
(* A step charges neither code, or forces one stream and charges its gap,  *)
(* or consumes one record and charges what it broke.                       *)

Charge(gap, broken) ==
  /\ Charges(R_SEQUENCE_GAP, sessions, sessions', gap)
  /\ Charges(R_CHAIN_BROKEN, sessions, sessions', broken)

Elsewhere(t) == \A s \in Streams \ {t} : streams'[s] = streams[s]

ChargesNothing ==
  /\ Charge({}, {})
  /\ \A s \in Streams : Annotates(s) \/ \E r \in Records : HoldsBack(s, r)

ChargesGap(t) ==
  ForcesOn(t) /\ Elsewhere(t) /\ Charge(GapSessions(streams[t]), {})

ChargesBreak(t, st, r) ==
  ConsumesOne(t, st, r) /\ Elsewhere(t) /\ Charge({}, BreakSessions(st, r))

ChargeStep ==
  \/ ChargesNothing
  \/ \E t \in Streams : ChargesGap(t)
  \/ \E t \in Streams : \E st \in StreamState : \E r \in Records : ChargesBreak(t, st, r)

(* A step after which no stream is being drained forced none and consumed  *)
(* nothing; nor did one that left the streams and the drain alone.         *)
LEMMA NothingCharged ==
  ASSUME IInv, [Next]_vars, Charge({}, {}),
         draining' = <<>> \/ (streams' = streams /\ draining' = draining)
  PROVE  ChargesNothing
<1> SUFFICES ASSUME NEW s \in Streams
             PROVE  Annotates(s) \/ \E r \in Records : HoldsBack(s, r)
  BY DEF ChargesNothing
<1>1. CASE draining' = <<>>
  BY <1>1, StepOfStream DEF StreamStep, ForcesOn, ConsumesOne
<1>2. CASE streams' = streams /\ draining' = draining
  BY <1>2, Untouched
<1> QED BY <1>1, <1>2

LEMMA SameCodes ==
  ASSUME \A k \in AnySession : sessions'[k].codes = sessions[k].codes
  PROVE  Charge({}, {})
BY DEF Charge, Charges

LEMMA NotedTwo ==
  ASSUME NEW ss \in [AnySession -> SessionState], NEW who, NEW codes \in SUBSET Codes,
         codes \cap ChainCodes = {}
  PROVE  /\ Noted(ss, who, codes) \in [AnySession -> SessionState]
         /\ Charges(R_SEQUENCE_GAP, ss, Noted(ss, who, codes), {})
         /\ Charges(R_CHAIN_BROKEN, ss, Noted(ss, who, codes), {})
<1>1. R_SEQUENCE_GAP \notin codes /\ R_CHAIN_BROKEN \notin codes
  BY DEF ChainCodes
<1> QED BY <1>1, NotedType, NotedCharges

(* The codes observe() gives of itself are none of the three.              *)
LEMMA ObserveCodes ==
  \A c \in {R_STREAM_BUDGET, R_SEQUENCE_REPLAY, R_REORDER_BUDGET, R_JOINED_MIDSTREAM,
           R_REORDERED} : {c} \in SUBSET Codes /\ {c} \cap ChainCodes = {}
BY DEF Codes, INADMISSIBLE, ChainCodes, R_STREAM_BUDGET, R_SEQUENCE_REPLAY,
       R_REORDER_BUDGET, R_JOINED_MIDSTREAM, R_REORDERED, R_CHAIN_BROKEN,
       R_CHAIN_UNANCHORED, R_SEQUENCE_GAP

LEMMA ObserveCharges ==
  ASSUME IInv, [Next]_vars, NEW q \in Records,
         \/ ObserveOverStreamBudget(q) \/ ObserveInOrder(q) \/ ObserveTaken(q)
         \/ ObserveEarly(q) \/ ObserveEarlyForced(q)
  PROVE  ChargeStep
<1> DEFINE ss == WithSidecar(q)
<1>1. /\ sessions \in [AnySession -> SessionState]
      /\ ss \in [AnySession -> SessionState]
      /\ Charges(R_SEQUENCE_GAP, sessions, ss, {})
      /\ Charges(R_CHAIN_BROKEN, sessions, ss, {})
      /\ draining = <<>> /\ q.stream \in Streams
      /\ streams \in [Streams -> StreamState]
  BY WithSidecarType, WithSidecarCharges, RecordType DEF IInv, TypeOK, Arrive, Idle,
     ObserveOverStreamBudget, ObserveInOrder, ObserveTaken, ObserveEarly, ObserveEarlyForced
<1> HIDE DEF ss
<1>2. ASSUME NEW c \in {R_STREAM_BUDGET, R_SEQUENCE_REPLAY}, draining' = draining,
             sessions' = Noted(ss, {q.session}, {c})
      PROVE  ChargeStep
  <2>1. {c} \in SUBSET Codes /\ {c} \cap ChainCodes = {}
    BY <1>2, ObserveCodes
  <2>2. Charge({}, {})
    BY <1>1, <1>2, <2>1, NotedTwo, ChargesChain DEF Charge
  <2> QED BY <1>1, <1>2, <2>2, NothingCharged DEF ChargeStep
<1>3. CASE ObserveOverStreamBudget(q)
  BY <1>2, <1>3 DEF ObserveOverStreamBudget, handler, ss
<1>4. CASE ObserveTaken(q)
  BY <1>2, <1>4 DEF ObserveTaken, handler, ss
<1>5. CASE ObserveEarly(q)
  <2>1. sessions' = ss /\ draining' = draining
    BY <1>5 DEF ObserveEarly, handler, ss
  <2>2. Charge({}, {})
    BY <1>1, <2>1 DEF Charge
  <2> QED BY <1>1, <2>1, <2>2, NothingCharged DEF ChargeStep
<1>6. CASE ObserveInOrder(q)
  <2> DEFINE joined == On(~streams[q.stream].open /\ q.seq # 0, R_JOINED_MIDSTREAM)
             tt     == Noted(ss, {q.session}, joined)
  <2>1. /\ sessions' = ConsumedSessions(tt, Opened(q), q)
        /\ streams' = [streams EXCEPT ![q.stream] = Consumed(Opened(q), q)]
    BY <1>6 DEF ObserveInOrder, Consume, ss
  <2>2. joined \in SUBSET Codes /\ joined \cap ChainCodes = {}
    BY ObserveCodes DEF On
  <2> HIDE DEF joined
  <2>3. /\ tt \in [AnySession -> SessionState]
        /\ Charges(R_SEQUENCE_GAP, ss, tt, {}) /\ Charges(R_CHAIN_BROKEN, ss, tt, {})
    BY <1>1, <2>2, NotedTwo
  <2>4. Opened(q) \in StreamState /\ ConsumesOne(q.stream, Opened(q), q)
    BY <1>6, ObserveConsumes
  <2> HIDE DEF tt
  <2>5. Charge({}, BreakSessions(Opened(q), q))
    BY <1>1, <2>1, <2>3, <2>4, ConsumedCharges, ChargesChain DEF Charge
  <2>6. Elsewhere(q.stream)
    BY <1>1, <2>1 DEF Elsewhere
  <2> QED BY <1>1, <2>4, <2>5, <2>6 DEF ChargesBreak, ChargeStep
<1>7. CASE ObserveEarlyForced(q)
  <2> DEFINE tt    == Noted(ss, {q.session}, {R_REORDER_BUDGET})
             noted == ReorderBudgetNoted(streams[q.stream])
  <2>1. /\ sessions' = Noted(tt, GapSessions(noted), {R_SEQUENCE_GAP})
        /\ streams' = [streams EXCEPT ![q.stream] = Forced(noted)]
        /\ draining' = <<q.stream, FALSE>>
    BY <1>7 DEF ObserveEarlyForced, ss
  <2>2. /\ tt \in [AnySession -> SessionState]
        /\ Charges(R_SEQUENCE_GAP, ss, tt, {}) /\ Charges(R_CHAIN_BROKEN, ss, tt, {})
    BY <1>1, ObserveCodes, NotedTwo
  <2>3. GapSessions(noted) = GapSessions(streams[q.stream])
    <3>1. /\ noted.pending = streams[q.stream].pending
          /\ noted.expected = streams[q.stream].expected
          /\ noted.lastSession = streams[q.stream].lastSession
      BY <1>1 DEF ReorderBudgetNoted, StreamState
    <3> HIDE DEF noted
    <3> QED BY <3>1 DEF GapSessions, Skips, Earliest
  <2> HIDE DEF tt, noted
  <2>4. /\ Charges(R_SEQUENCE_GAP, tt, sessions', GapSessions(streams[q.stream]))
        /\ Charges(R_CHAIN_BROKEN, tt, sessions', {})
    BY <2>1, <2>2, <2>3, NotedCharges DEF R_SEQUENCE_GAP, R_CHAIN_BROKEN
  <2>5. Charge(GapSessions(streams[q.stream]), {})
    BY <1>1, <2>2, <2>4, ChargesChain DEF Charge
  <2>6. ForcesOn(q.stream) /\ Elsewhere(q.stream)
    <3>1. streams'[q.stream] = Forced(noted)
      BY <1>1, <2>1
    <3>2. Elsewhere(q.stream)
      BY <1>1, <2>1 DEF Elsewhere
    <3>3. Forces
      BY <1>7 DEF Forces
    <3>4. streams[q.stream].open
      BY <1>7 DEF ObserveEarlyForced, Early
    <3> QED BY <1>1, <2>1, <3>1, <3>2, <3>3, <3>4 DEF ForcesOn, noted
  <2> QED BY <1>1, <2>5, <2>6 DEF ChargesGap, ChargeStep
<1> QED BY <1>3, <1>4, <1>5, <1>6, <1>7

LEMMA PlaceCharges ==
  ASSUME IInv, [Next]_vars, PlaceInOrder
  PROVE  ChargeStep
<1> DEFINE r == inHand[1]
<1>1. inHand # <<>>
  BY DEF PlaceInOrder, Place
<1>2. /\ r \in Records /\ r.stream \in Streams /\ inHand = <<r>>
      /\ streams[r.stream] \in StreamState /\ streams \in [Streams -> StreamState]
      /\ sessions \in [AnySession -> SessionState]
  BY <1>1, InHandTypes DEF IInv, TypeOK
<1>3. /\ sessions' = ConsumedSessions(sessions, streams[r.stream], r)
      /\ streams' = [streams EXCEPT ![r.stream] = Consumed(streams[r.stream], r)]
  BY DEF PlaceInOrder, Consume
<1> HIDE DEF r
<1>4. Charge({}, BreakSessions(streams[r.stream], r))
  BY <1>2, <1>3, ConsumedCharges DEF Charge
<1>5. ConsumesOne(r.stream, streams[r.stream], r) /\ Elsewhere(r.stream)
  BY <1>2, <1>3, PlaceConsumes DEF Elsewhere
<1> QED BY <1>2, <1>4, <1>5 DEF ChargesBreak, ChargeStep

LEMMA DrainCharges ==
  ASSUME IInv, [Next]_vars, DrainNext
  PROVE  ChargeStep
<1>1. PICK s \in Streams, p \in Records :
        /\ Drained(s, p) \in StreamState /\ ConsumesOne(s, Drained(s, p), p)
        /\ streams' = [streams EXCEPT ![s] = Consumed(Drained(s, p), p)]
        /\ sessions' = ConsumedSessions(
                         Noted(sessions, {p.session}, On(draining[2], R_REORDERED)),
                         Drained(s, p), p)
  BY DrainConsumes
<1> DEFINE codes == On(draining[2], R_REORDERED)
           tt    == Noted(sessions, {p.session}, codes)
<1>2. codes \in SUBSET Codes /\ codes \cap ChainCodes = {}
  BY ObserveCodes DEF On
<1> HIDE DEF codes
<1>3. /\ tt \in [AnySession -> SessionState]
      /\ Charges(R_SEQUENCE_GAP, sessions, tt, {})
      /\ Charges(R_CHAIN_BROKEN, sessions, tt, {})
  BY <1>2, NotedTwo DEF IInv, TypeOK
<1>4. sessions' = ConsumedSessions(tt, Drained(s, p), p)
  BY <1>1 DEF codes
<1> HIDE DEF tt
<1>5. Charge({}, BreakSessions(Drained(s, p), p))
  BY <1>1, <1>3, <1>4, ConsumedCharges, ChargesChain DEF Charge
<1>6. Elsewhere(s)
  BY <1>1 DEF Elsewhere, IInv, TypeOK
<1> QED BY <1>1, <1>5, <1>6 DEF ChargesBreak, ChargeStep

LEMMA FinaliseCharges ==
  ASSUME IInv, [Next]_vars,
         FinaliseForce \/ FinaliseClose \/ JudgeAgainstLedger \/ Report
  PROVE  ChargeStep
<1>1. /\ sessions \in [AnySession -> SessionState]
      /\ streams \in [Streams -> StreamState]
  BY DEF IInv, TypeOK
<1>2. CASE FinaliseForce
  <2> DEFINE t == LeastOf(Holding)
  <2>1. /\ Holding # {} /\ draining = <<>> /\ draining' = <<t, FALSE>>
        /\ streams' = [streams EXCEPT ![t] = Forced(streams[t])]
        /\ sessions' = Noted(sessions, GapSessions(streams[t]), {R_SEQUENCE_GAP})
        /\ phase = "finalise"
    BY <1>2 DEF FinaliseForce, Idle
  <2>2. t \in Holding
    BY <2>1, LeastOfIsMember, StreamsAssumption DEF Holding
  <2> HIDE DEF t
  <2>3. t \in Streams /\ streams[t].open
    BY <2>2 DEF Holding, IInv, StreamInv, Shape
  <2>4. streams'[t] = Forced(streams[t]) /\ Elsewhere(t)
    BY <1>1, <2>1, <2>3 DEF Elsewhere
  <2>5. Forces
    BY <1>2 DEF Forces
  <2>6. ForcesOn(t)
    BY <2>1, <2>3, <2>4, <2>5 DEF ForcesOn
  <2>7. Charge(GapSessions(streams[t]), {})
    BY <1>1, <2>1, NotedCharges DEF Charge, R_SEQUENCE_GAP, R_CHAIN_BROKEN
  <2> QED BY <2>3, <2>4, <2>6, <2>7 DEF ChargesGap, ChargeStep
<1>3. CASE FinaliseClose
  <2> DEFINE charges(k) == UNION {CloseCodes(s) : s \in {t \in Streams :
                                    Unclosed(t) /\ k \in streams[t].feeds}}
  <2>1. sessions' = [k \in AnySession |->
          IF k = NoSession THEN sessions[k]
          ELSE [sessions[k] EXCEPT !.codes = @ \cup charges(k)]]
    BY <1>3 DEF FinaliseClose
  <2>2. \A k : charges(k) \cap ChainCodes = {}
    BY ClosingCodesOfRun
  <2>3. draining' = <<>>
    BY <1>3 DEF FinaliseClose, Idle, handler
  <2> HIDE DEF charges
  <2>4. Charge({}, {})
    BY <1>1, <2>1, <2>2 DEF Charge, Charges, SessionState, ChainCodes
  <2> QED BY <2>3, <2>4, NothingCharged DEF ChargeStep
<1>4. CASE JudgeAgainstLedger
  <2> DEFINE s       == LeastOf(Unjudged)
             verdict == Compare(ledger, s, View(streams[s]))
             codes   == VerdictCodes(verdict)
                        \cup On(~Admitted(streams[s]), R_LEDGER_NOT_ADVANCED)
                        \cup On(verdict.boundary = BOUNDARY_UNSTATED,
                                R_STREAM_BOUNDARY_UNVERIFIED)
                        \cup On(ledger'.exhausted, R_LEDGER_BUDGET)
  <2>1. /\ sessions' = Noted(sessions, streams[s].feeds \ {NoSession}, codes)
        /\ streams' = streams /\ draining' = draining
    BY <1>4 DEF JudgeAgainstLedger, handler
  <2>2. R_SEQUENCE_GAP \notin codes /\ R_CHAIN_BROKEN \notin codes
    BY ClosingCodesOfRun DEF On, ChainCodes, R_SEQUENCE_GAP, R_CHAIN_BROKEN,
       R_LEDGER_NOT_ADVANCED, R_STREAM_BOUNDARY_UNVERIFIED, R_LEDGER_BUDGET
  <2> HIDE DEF codes
  <2>3. Charge({}, {})
    BY <1>1, <2>1, <2>2, NotedCharges DEF Charge
  <2> QED BY <2>1, <2>3, NothingCharged DEF ChargeStep
<1>5. CASE Report
  <2> DEFINE ranges(k) == IF k = NoSession THEN {} ELSE RangesOf(k)
             codes(k)  == ClosingCodes(sessions[k])
  <2>1. /\ sessions' = [k \in AnySession |->
             [sessions[k] EXCEPT !.codes = @ \cup codes(k), !.ranges = ranges(k)]]
        /\ streams' = streams /\ draining' = draining
    BY <1>5 DEF Report, handler
  <2>2. \A k : codes(k) \cap ChainCodes = {}
    BY ClosingCodesOfRun
  <2> HIDE DEF codes, ranges
  <2>3. Charge({}, {})
    BY <1>1, <2>1, <2>2 DEF Charge, Charges, SessionState, ChainCodes
  <2> QED BY <2>1, <2>3, NothingCharged DEF ChargeStep
<1> QED BY <1>2, <1>3, <1>4, <1>5

LEMMA StepCharges ==
  ASSUME IInv, [Next]_vars
  PROVE  ChargeStep
<1>1. CASE ObserveRecord
  BY <1>1, ObserveCharges DEF ObserveRecord
<1>2. ASSUME NEW k \in BareSessions, ObserveBare(k)
      PROVE  ChargeStep
  <2>1. /\ sessions' = [sessions EXCEPT ![k].without = TRUE]
        /\ streams' = streams /\ draining' = draining
    BY <1>2 DEF ObserveBare, handler
  <2>2. \A j \in AnySession : sessions'[j].codes = sessions[j].codes
    BY <2>1, RecordsAssumption DEF IInv, TypeOK, SessionState
  <2> QED BY <2>1, <2>2, SameCodes, NothingCharged DEF ChargeStep
<1>3. CASE PlaceInOrder
  BY <1>3, PlaceCharges
<1>4. CASE DrainNext
  BY <1>4, DrainCharges
<1>5. CASE FinaliseForce \/ FinaliseClose \/ JudgeAgainstLedger \/ Report
  BY <1>5, FinaliseCharges
<1>6. CASE PlaceHeld \/ DrainEnd \/ SignatureTimeRunsOut \/ EndOfInput \/ UNCHANGED vars
  <2>1. /\ sessions' = sessions
        /\ draining' = <<>> \/ (streams' = streams /\ draining' = draining)
    BY <1>6 DEF PlaceHeld, Place, DrainEnd, SignatureTimeRunsOut, EndOfInput, vars, handler
  <2> QED BY <2>1, SameCodes, NothingCharged DEF ChargeStep
<1> QED BY <1>1, <1>2, <1>3, <1>4, <1>5, <1>6 DEF Next, Handler, Finalise, Terminated

-----------------------------------------------------------------------------
(* Holes, and what is about to become one.                                 *)

(* The stream is between a force and the drain of the record it jumped to. *)
Jumped(st) == st.log # <<>> /\ st.expected # st.last + 1

JumpInv(s) ==
  Jumped(streams[s]) =>
    /\ streams[s].expected > streams[s].last + 1
    /\ Held(streams[s], streams[s].expected)
    /\ draining # <<>> /\ draining[1] = s

(* The sessions at the two sides of what has been declared missing.        *)
Charged(st, k) ==
  \/ \E i \in Holes(st.log) : k \in Neighbours(st.log, i)
  \/ /\ Jumped(st)
     /\ \E p \in st.pending :
          p.seq = st.expected /\ k \in {st.lastSession, p.session} \ {NoSession}

GapInv ==
  \A k \in Sessions :
    R_SEQUENCE_GAP \in sessions[k].codes <=> \E s \in Streams : Charged(streams[s], k)

(* What adding codes or holding a record leaves as it was.                 *)
LEMMA QuietFields ==
  ASSUME IInv, NEW s \in Streams, Annotates(s) \/ \E r \in Records : HoldsBack(s, r)
  PROVE  /\ streams'[s].open = streams[s].open /\ streams'[s].log = streams[s].log
         /\ streams'[s].first = streams[s].first /\ streams'[s].last = streams[s].last
         /\ streams'[s].expected = streams[s].expected
         /\ streams'[s].head = streams[s].head
         /\ streams'[s].lastSession = streams[s].lastSession
         /\ streams[s].codes \subseteq streams'[s].codes
         /\ R_SEQUENCE_GAP \in streams'[s].codes => R_SEQUENCE_GAP \in streams[s].codes
         /\ streams[s].pending \subseteq streams'[s].pending
         /\ Held(streams[s], streams[s].expected) =>
              /\ draining # <<>> /\ draining[1] = s => draining' = draining
              /\ \A p \in streams'[s].pending :
                   p.seq = streams[s].expected => p \in streams[s].pending
<1>1. streams[s] \in StreamState
  BY DEF IInv, TypeOK
<1>2. CASE Annotates(s)
  <2>1. PICK codes \in SUBSET (Codes \ ChainCodes) :
          streams'[s] = [streams[s] EXCEPT !.codes = @ \cup codes]
    BY <1>2 DEF Annotates
  <2>2. R_SEQUENCE_GAP \notin codes
    BY DEF ChainCodes
  <2>3. \/ draining' = draining \/ draining = <<>> \/ draining[1] # s
        \/ ~Held(streams[s], streams[s].expected)
    BY <1>2 DEF Annotates
  <2> QED BY <1>1, <2>1, <2>2, <2>3 DEF StreamState
<1>3. ASSUME NEW r \in Records, HoldsBack(s, r)
      PROVE  /\ streams'[s].open = streams[s].open /\ streams'[s].log = streams[s].log
             /\ streams'[s].first = streams[s].first /\ streams'[s].last = streams[s].last
             /\ streams'[s].expected = streams[s].expected
             /\ streams'[s].head = streams[s].head
             /\ streams'[s].lastSession = streams[s].lastSession
             /\ streams'[s].codes = streams[s].codes
             /\ streams'[s].pending = streams[s].pending \cup {r}
             /\ draining' = draining /\ ~Held(streams[s], r.seq)
  <2>1. /\ streams'[s] = [streams[s] EXCEPT !.pending = @ \cup {r}]
        /\ draining' = draining /\ ~Held(streams[s], r.seq)
    BY <1>3 DEF HoldsBack
  <2> QED BY <1>1, <2>1 DEF StreamState
<1>4. CASE \E r \in Records : HoldsBack(s, r)
  BY <1>3, <1>4 DEF Held
<1> QED BY <1>2, <1>4

(* What forcing does, with the budget noted first or not.                  *)
LEMMA ForcedStream ==
  ASSUME IInv, [Next]_vars, NEW s \in Streams, ForcesOn(s)
  PROVE  /\ streams'[s].open = streams[s].open /\ streams'[s].log = streams[s].log
         /\ streams'[s].first = streams[s].first /\ streams'[s].last = streams[s].last
         /\ streams'[s].lastSession = streams[s].lastSession
         /\ streams'[s].pending = streams[s].pending
         /\ streams[s].codes \subseteq streams'[s].codes
         /\ Skips(streams[s]) =>
              /\ streams'[s].expected = Earliest(streams[s]).seq
              /\ streams'[s].head = Earliest(streams[s]).prev
         /\ ~Skips(streams[s]) =>
              /\ streams'[s].expected = streams[s].expected
              /\ streams'[s].head = streams[s].head
              /\ R_SEQUENCE_GAP \in streams'[s].codes =>
                   R_SEQUENCE_GAP \in streams[s].codes
         /\ ForcedByBudget(streams'[s]) \/ phase = "finalise"
<1> DEFINE noted == ReorderBudgetNoted(streams[s])
<1>1. streams[s] \in StreamState
  BY DEF IInv, TypeOK
<1>2. /\ noted \in StreamState /\ noted.open = streams[s].open
      /\ noted.log = streams[s].log /\ noted.first = streams[s].first
      /\ noted.last = streams[s].last /\ noted.lastSession = streams[s].lastSession
      /\ noted.pending = streams[s].pending /\ noted.expected = streams[s].expected
      /\ noted.head = streams[s].head
      /\ noted.codes = streams[s].codes \cup {R_REORDER_BUDGET}
  BY <1>1 DEF ReorderBudgetNoted, StreamState, Codes
<1> HIDE DEF noted
<1>3. R_SEQUENCE_GAP # R_REORDER_BUDGET
  BY DEF R_SEQUENCE_GAP, R_REORDER_BUDGET
<1>4. Skips(noted) <=> Skips(streams[s])
  BY <1>2 DEF Skips, Earliest
<1>5. Earliest(noted) = Earliest(streams[s])
  BY <1>2 DEF Earliest
<1>6. ASSUME NEW st \in StreamState
      PROVE  /\ Forced(st).open = st.open /\ Forced(st).log = st.log
             /\ Forced(st).first = st.first /\ Forced(st).last = st.last
             /\ Forced(st).lastSession = st.lastSession
             /\ Forced(st).pending = st.pending
             /\ st.codes \subseteq Forced(st).codes
             /\ Skips(st) => /\ Forced(st).expected = Earliest(st).seq
                             /\ Forced(st).head = Earliest(st).prev
             /\ ~Skips(st) => Forced(st) = st
  BY DEF Forced, StreamState
<1>7. CASE streams'[s] = Forced(noted)
  BY <1>2, <1>3, <1>4, <1>5, <1>6, <1>7 DEF ForcedByBudget
<1>8. CASE phase = "finalise" /\ streams'[s] = Forced(streams[s])
  BY <1>1, <1>6, <1>8
<1> QED BY <1>7, <1>8 DEF ForcesOn, noted

(* What consuming does to a stream that has consumed before.               *)
LEMMA ConsumedStream ==
  ASSUME IInv, NEW s \in Streams, NEW st \in StreamState, NEW r \in Records,
         ConsumesOne(s, st, r)
  PROVE  /\ streams'[s].log = Append(st.log, LogEntry(r)) /\ streams'[s].last = r.seq
         /\ streams'[s].expected = r.seq + 1 /\ streams'[s].head = NextHead(st, r)
         /\ streams'[s].pending = st.pending /\ r.seq = st.expected
         /\ \/ /\ streams[s].log = <<>> /\ st = Begin(r) /\ ~streams[s].open
               /\ ~StreamBudgetSpent(r) /\ seen' = seen \cup {r}
            \/ /\ streams[s].log # <<>> /\ streams[s].open
               /\ st.log = streams[s].log /\ st.expected = streams[s].expected
               /\ st.last = streams[s].last /\ st.lastSession = streams[s].lastSession
               /\ st.head = streams[s].head /\ st.codes = streams[s].codes
               /\ st.first = streams[s].first /\ st.first # NoSeq
               /\ \/ /\ st = streams[s] /\ draining = <<>>
                     /\ inHand = <<r>> \/ (inHand = <<>> /\ r \in seen')
                  \/ r \in streams[s].pending /\ st.pending = streams[s].pending \ {r}
<1>1. /\ streams[s] \in StreamState /\ StreamInv(s, streams[s]) /\ Source(s, st, r)
      /\ streams'[s] = Consumed(st, r) /\ r.seq = st.expected
  BY DEF IInv, TypeOK, ConsumesOne
<1>2. /\ Consumed(st, r).log = Append(st.log, LogEntry(r))
      /\ Consumed(st, r).last = r.seq /\ Consumed(st, r).expected = r.seq + 1
      /\ Consumed(st, r).head = NextHead(st, r) /\ Consumed(st, r).pending = st.pending
  BY ConsumedFields
<1>3. CASE ~streams[s].open /\ st = Begin(r) /\ ~StreamBudgetSpent(r) /\ seen' = seen \cup {r}
  BY <1>1, <1>2, <1>3 DEF StreamInv, Shape
<1>4. streams[s].open => streams[s].log # <<>> /\ streams[s].first # NoSeq
  <2>1. ASSUME streams[s].open
        PROVE  streams[s].log # <<>> /\ streams[s].first # NoSeq
    <3>1. streams[s].log # <<>> /\ streams[s].first = streams[s].log[1].seq
      BY <1>1, <2>1 DEF StreamInv, Shape, Extent
    <3>2. streams[s].log[1].seq \in Nat
      BY <1>1, <3>1, StreamNumbers
    <3> QED BY <3>1, <3>2
  <2> QED BY <2>1
<1>5. CASE streams[s].open /\ st = streams[s] /\ draining = <<>>
           /\ (inHand = <<r>> \/ (inHand = <<>> /\ r \in seen'))
  BY <1>1, <1>2, <1>4, <1>5
<1>6. CASE r \in streams[s].pending /\ st = [streams[s] EXCEPT !.pending = @ \ {r}]
  <2>1. streams[s].open
    BY <1>1, <1>6 DEF StreamInv, Shape
  <2>2. /\ st.log = streams[s].log /\ st.expected = streams[s].expected
        /\ st.last = streams[s].last /\ st.lastSession = streams[s].lastSession
        /\ st.head = streams[s].head /\ st.codes = streams[s].codes
        /\ st.first = streams[s].first /\ st.pending = streams[s].pending \ {r}
    BY <1>1, <1>6 DEF StreamState
  <2> QED BY <1>1, <1>2, <1>4, <1>6, <2>1, <2>2
<1> QED BY <1>1, <1>3, <1>5, <1>6 DEF Source

LEMMA JumpStep ==
  ASSUME IInv, [Next]_vars, \A s \in Streams : JumpInv(s), NEW s \in Streams
  PROVE  JumpInv(s)'
<1>1. /\ streams[s] \in StreamState /\ StreamInv(s, streams[s]) /\ JumpInv(s)
      /\ streams[s].expected \in Nat
  BY DEF IInv, TypeOK, StreamState
<1>2. CASE Annotates(s) \/ \E r \in Records : HoldsBack(s, r)
  <2>1. /\ streams'[s].log = streams[s].log /\ streams'[s].last = streams[s].last
        /\ streams'[s].expected = streams[s].expected
        /\ streams[s].pending \subseteq streams'[s].pending
        /\ Held(streams[s], streams[s].expected) =>
             (draining # <<>> /\ draining[1] = s => draining' = draining)
    BY <1>2, QuietFields
  <2> QED BY <1>1, <2>1 DEF JumpInv, Jumped, Held
<1>3. CASE ForcesOn(s)
  <2>1. /\ draining = <<>> /\ draining' # <<>> /\ draining'[1] = s
    BY <1>3 DEF ForcesOn
  <2>2. /\ streams'[s].log = streams[s].log /\ streams'[s].last = streams[s].last
        /\ streams'[s].pending = streams[s].pending
        /\ Skips(streams[s]) => streams'[s].expected = Earliest(streams[s]).seq
        /\ ~Skips(streams[s]) => streams'[s].expected = streams[s].expected
    BY <1>3, ForcedStream
  <2>3. ~Jumped(streams[s])
    BY <1>1, <2>1 DEF JumpInv
  <2>4. CASE ~Skips(streams[s])
    BY <2>2, <2>3, <2>4 DEF JumpInv, Jumped
  <2>5. CASE Skips(streams[s])
    <3>1. /\ Earliest(streams[s]) \in streams[s].pending
          /\ Earliest(streams[s]).seq > streams[s].expected
      BY <1>1, <2>5, EarliestIsHeld DEF Skips
    <3> QED BY <2>1, <2>2, <2>3, <2>5, <3>1 DEF JumpInv, Jumped, Held
  <2> QED BY <2>4, <2>5
<1>4. ASSUME NEW r \in Records, NEW st \in StreamState, ConsumesOne(s, st, r)
      PROVE  JumpInv(s)'
  <2>1. streams'[s].last = r.seq /\ streams'[s].expected = r.seq + 1
    BY <1>4, ConsumedStream
  <2> QED BY <2>1 DEF JumpInv, Jumped
<1> QED BY <1>2, <1>3, <1>4, StepOfStream DEF StreamStep

(* The record a force jumps to is the one that is consumed next.           *)
LEMMA JumpedTo ==
  ASSUME IInv, NEW s \in Streams, JumpInv(s), OneEach(s), Jumped(streams[s]),
         NEW st \in StreamState, NEW r \in Records, ConsumesOne(s, st, r)
  PROVE  /\ r \in streams[s].pending /\ r.seq = streams[s].expected
         /\ \A p \in streams[s].pending : p.seq = streams[s].expected => p = r
<1>1. streams[s].log # <<>> /\ draining # <<>>
  BY DEF Jumped, JumpInv
<1>2. r.seq = st.expected /\ st.expected = streams[s].expected
  BY <1>1, ConsumedStream
<1>3. Source(s, st, r) /\ streams[s].open
  BY <1>1 DEF ConsumesOne, IInv, StreamInv, Shape
<1>4. r.seq = streams[s].expected /\ r \in streams[s].pending
  BY <1>1, <1>2, <1>3 DEF Source
<1> QED BY <1>4 DEF OneEach

(* Consuming a record leaves the holes there were, and makes one more      *)
(* where the record does not follow the last.                              *)
LEMMA HolesOfAppend ==
  ASSUME NEW log \in Seq(LogEntries), NEW e \in LogEntries, log # <<>>
  PROVE  LET new == Append(log, e)
             n   == Len(log)
         IN /\ n \in 1 .. n /\ n \in Nat
            /\ \A i : i \in Holes(new) <=>
                 i \in Holes(log) \/ (i = n /\ e.seq # log[n].seq + 1)
            /\ \A i \in Holes(log) : Neighbours(new, i) = Neighbours(log, i)
            /\ Neighbours(new, n) = {log[n].session, e.session} \ {NoSession}
<1> DEFINE new == Append(log, e)
           n   == Len(log)
<1>1. /\ n \in Nat /\ n > 0 /\ Len(new) = n + 1 /\ new[n + 1] = e
      /\ \A i \in 1 .. n : new[i] = log[i]
  OBVIOUS
<1> HIDE DEF new, n
<1>2. \A i \in 1 .. n - 1 : new[i] = log[i] /\ new[i + 1] = log[i + 1]
  BY <1>1
<1>3. new[n] = log[n]
  BY <1>1
<1>4. \A i : i \in Holes(new) <=> i \in 1 .. n /\ new[i + 1].seq # new[i].seq + 1
  BY <1>1 DEF Holes
<1>5. \A i : i \in Holes(log) <=> i \in 1 .. n - 1 /\ log[i + 1].seq # log[i].seq + 1
  BY DEF Holes, n
<1>6. \A i \in 1 .. n - 1 : i \in Holes(new) <=> i \in Holes(log)
  BY <1>1, <1>2, <1>4, <1>5
<1>7. n \in Holes(new) <=> e.seq # log[n].seq + 1
  BY <1>1, <1>3, <1>4
<1>8. \A i : i \in Holes(new) <=>
             i \in Holes(log) \/ (i = n /\ e.seq # log[n].seq + 1)
  BY <1>1, <1>4, <1>5, <1>6, <1>7
<1>9. \A i \in Holes(log) : Neighbours(new, i) = Neighbours(log, i)
  BY <1>2, <1>5 DEF Neighbours
<1>10. Neighbours(new, n) = {log[n].session, e.session} \ {NoSession}
  BY <1>1, <1>3 DEF Neighbours
<1> QED BY <1>1, <1>8, <1>9, <1>10 DEF new, n

(* Whom a stream charges: nothing changes it but a force, which adds the   *)
(* sessions it is told to.                                                 *)
LEMMA QuietCharged ==
  ASSUME IInv, NEW s \in Streams, JumpInv(s), NEW k,
         Annotates(s) \/ \E r \in Records : HoldsBack(s, r)
  PROVE  Charged(streams'[s], k) <=> Charged(streams[s], k)
<1>1. /\ streams'[s].log = streams[s].log /\ streams'[s].last = streams[s].last
      /\ streams'[s].expected = streams[s].expected
      /\ streams'[s].lastSession = streams[s].lastSession
      /\ streams[s].pending \subseteq streams'[s].pending
      /\ Held(streams[s], streams[s].expected) =>
           \A p \in streams'[s].pending :
             p.seq = streams[s].expected => p \in streams[s].pending
  BY QuietFields
<1>2. Jumped(streams'[s]) <=> Jumped(streams[s])
  BY <1>1 DEF Jumped
<1>3. CASE ~Jumped(streams[s])
  BY <1>1, <1>2, <1>3 DEF Charged
<1>4. CASE Jumped(streams[s])
  <2>1. \A p : p \in streams'[s].pending /\ p.seq = streams[s].expected
               <=> p \in streams[s].pending /\ p.seq = streams[s].expected
    BY <1>1, <1>4 DEF JumpInv
  <2> QED BY <1>1, <1>2, <2>1 DEF Charged
<1> QED BY <1>3, <1>4

LEMMA ForcedCharged ==
  ASSUME IInv, [Next]_vars, NEW s \in Streams, JumpInv(s), OneEach(s), ForcesOn(s), NEW k
  PROVE  Charged(streams'[s], k) <=> Charged(streams[s], k) \/ k \in GapSessions(streams[s])
<1> DEFINE e == Earliest(streams[s])
<1>1. /\ streams[s] \in StreamState /\ StreamInv(s, streams[s])
      /\ streams[s].open /\ draining = <<>>
  BY DEF IInv, TypeOK, ForcesOn
<1>2. ~Jumped(streams[s]) /\ streams[s].log # <<>>
  BY <1>1 DEF JumpInv, StreamInv, Shape
<1>3. /\ streams'[s].log = streams[s].log /\ streams'[s].last = streams[s].last
      /\ streams'[s].lastSession = streams[s].lastSession
      /\ streams'[s].pending = streams[s].pending
      /\ Skips(streams[s]) => streams'[s].expected = e.seq
      /\ ~Skips(streams[s]) => streams'[s].expected = streams[s].expected
  BY ForcedStream
<1>4. CASE ~Skips(streams[s])
  <2>1. ~Jumped(streams'[s])
    BY <1>2, <1>3, <1>4 DEF Jumped
  <2> QED BY <1>2, <1>3, <1>4, <2>1 DEF Charged, GapSessions
<1>5. CASE Skips(streams[s])
  <2>1. e \in streams[s].pending /\ e.seq > streams[s].expected
    BY <1>1, <1>5, EarliestIsHeld DEF Skips
  <2>2. e.seq \in Nat /\ streams[s].expected \in Nat
    BY <1>1, <2>1, RecordType DEF StreamState
  <2>3. Jumped(streams'[s])
    BY <1>2, <1>3, <1>5, <2>1, <2>2 DEF Jumped
  <2>4. \A p \in streams[s].pending : p.seq = e.seq <=> p = e
    BY <2>1 DEF OneEach
  <2>5. GapSessions(streams[s]) = {streams[s].lastSession, e.session} \ {NoSession}
    BY <1>5 DEF GapSessions
  <2> HIDE DEF e
  <2> QED BY <1>2, <1>3, <1>5, <2>1, <2>3, <2>4, <2>5 DEF Charged
<1> QED BY <1>4, <1>5

LEMMA ConsumedCharged ==
  ASSUME IInv, NEW s \in Streams, JumpInv(s), OneEach(s), NEW k,
         NEW st \in StreamState, NEW r \in Records, ConsumesOne(s, st, r)
  PROVE  Charged(streams'[s], k) <=> Charged(streams[s], k)
<1> DEFINE old == streams[s]
           new == streams'[s]
<1>1. /\ old \in StreamState /\ StreamInv(s, old)
      /\ new.log = Append(st.log, LogEntry(r)) /\ new.last = r.seq
      /\ new.expected = r.seq + 1
  BY ConsumedStream DEF IInv, TypeOK
<1>2. ~Jumped(new)
  BY <1>1 DEF Jumped
<1>3. CASE old.log = <<>>
  <2>1. st = Begin(r)
    BY <1>3, ConsumedStream
  <2>2. st.log = <<>>
    BY <2>1 DEF Begin, UnopenedStream
  <2>3. Len(new.log) = 1 /\ Len(old.log) = 0
    BY <1>1, <1>3, <2>2
  <2>4. Holes(new.log) = {} /\ Holes(old.log) = {}
    BY <2>3 DEF Holes
  <2> QED BY <1>2, <1>3, <2>4 DEF Charged, Jumped
<1>4. CASE old.log # <<>>
  <2> DEFINE n == Len(old.log)
             e == LogEntry(r)
  <2>1. /\ st.log = old.log /\ r.seq = old.expected
    BY <1>4, ConsumedStream
  <2>2. old.last = old.log[n].seq /\ old.lastSession = old.log[n].session
    BY <1>1, <1>4 DEF StreamInv, Extent
  <2>3. /\ old.log \in Seq(LogEntries) /\ e \in LogEntries
        /\ e.seq = r.seq /\ e.session = r.session
    BY <1>1, RecordType, StreamNumbers DEF LogEntry, LogEntries, AnyKey
  <2> HIDE DEF e
  <2>4. /\ \A i : i \in Holes(new.log) <=>
               i \in Holes(old.log) \/ (i = n /\ e.seq # old.log[n].seq + 1)
        /\ \A i \in Holes(old.log) : Neighbours(new.log, i) = Neighbours(old.log, i)
        /\ Neighbours(new.log, n) = {old.log[n].session, e.session} \ {NoSession}
    BY <1>1, <1>4, <2>1, <2>3, HolesOfAppend DEF e
  <2>5. e.seq # old.log[n].seq + 1 <=> Jumped(old)
    BY <1>4, <2>1, <2>2, <2>3 DEF Jumped
  <2>6. CASE ~Jumped(old)
    <3>1. Holes(new.log) = Holes(old.log)
      BY <2>4, <2>5, <2>6
    <3> QED BY <1>2, <2>4, <2>6, <3>1 DEF Charged
  <2>7. CASE Jumped(old)
    <3>1. /\ r \in old.pending /\ r.seq = old.expected
          /\ \A p \in old.pending : p.seq = old.expected => p = r
      BY <2>7, JumpedTo
    <3>2. Neighbours(new.log, n) = {old.lastSession, r.session} \ {NoSession}
      BY <2>2, <2>3, <2>4
    <3>3. \A i : i \in Holes(new.log) <=> i \in Holes(old.log) \/ i = n
      BY <2>4, <2>5, <2>7
    <3> HIDE DEF old, new, n
    <3>4. Charged(new, k) <=> \/ \E i \in Holes(old.log) : k \in Neighbours(old.log, i)
                              \/ k \in Neighbours(new.log, n)
      BY <1>2, <2>4, <3>3 DEF Charged
    <3>5. Charged(old, k) <=> \/ \E i \in Holes(old.log) : k \in Neighbours(old.log, i)
                              \/ k \in {old.lastSession, r.session} \ {NoSession}
      BY <2>7, <3>1 DEF Charged
    <3> QED BY <3>2, <3>4, <3>5 DEF old, new
  <2> QED BY <2>6, <2>7
<1> QED BY <1>3, <1>4

LEMMA GapStep ==
  ASSUME IInv, [Next]_vars, \A s \in Streams : JumpInv(s) /\ OneEach(s), GapInv
  PROVE  GapInv'
<1> SUFFICES ASSUME NEW k \in Sessions
             PROVE  R_SEQUENCE_GAP \in sessions'[k].codes
                      <=> \E s \in Streams : Charged(streams'[s], k)
  BY DEF GapInv, Charged, Jumped, Holes, Neighbours
<1>1. /\ k \in AnySession
      /\ R_SEQUENCE_GAP \in sessions[k].codes
           <=> \E s \in Streams : Charged(streams[s], k)
  BY DEF GapInv, AnySession
<1>2. CASE ChargesNothing
  <2>1. R_SEQUENCE_GAP \in sessions'[k].codes <=> R_SEQUENCE_GAP \in sessions[k].codes
    BY <1>1, <1>2 DEF ChargesNothing, Charge, Charges
  <2>2. \A s \in Streams : Charged(streams'[s], k) <=> Charged(streams[s], k)
    BY <1>2, QuietCharged DEF ChargesNothing
  <2> QED BY <1>1, <2>1, <2>2
<1>3. ASSUME NEW t \in Streams, ChargesGap(t)
      PROVE  R_SEQUENCE_GAP \in sessions'[k].codes
               <=> \E s \in Streams : Charged(streams'[s], k)
  <2>1. /\ R_SEQUENCE_GAP \in sessions'[k].codes <=>
             R_SEQUENCE_GAP \in sessions[k].codes \/ k \in GapSessions(streams[t])
        /\ ForcesOn(t) /\ Elsewhere(t)
    BY <1>1, <1>3 DEF ChargesGap, Charge, Charges
  <2>2. Charged(streams'[t], k) <=> Charged(streams[t], k) \/ k \in GapSessions(streams[t])
    BY <2>1, ForcedCharged
  <2>3. \A s \in Streams \ {t} : Charged(streams'[s], k) <=> Charged(streams[s], k)
    BY <2>1 DEF Elsewhere
  <2> QED BY <1>1, <2>1, <2>2, <2>3
<1>4. ASSUME NEW t \in Streams, NEW st \in StreamState, NEW r \in Records,
             ChargesBreak(t, st, r)
      PROVE  R_SEQUENCE_GAP \in sessions'[k].codes
               <=> \E s \in Streams : Charged(streams'[s], k)
  <2>1. /\ R_SEQUENCE_GAP \in sessions'[k].codes <=> R_SEQUENCE_GAP \in sessions[k].codes
        /\ ConsumesOne(t, st, r) /\ Elsewhere(t)
    BY <1>1, <1>4 DEF ChargesBreak, Charge, Charges
  <2>2. Charged(streams'[t], k) <=> Charged(streams[t], k)
    BY <2>1, ConsumedCharged
  <2>3. \A s \in Streams \ {t} : Charged(streams'[s], k) <=> Charged(streams[s], k)
    BY <2>1 DEF Elsewhere
  <2> QED BY <1>1, <2>1, <2>2, <2>3
<1> QED BY <1>2, <1>3, <1>4, StepCharges DEF ChargeStep

(* What the theorems about a stream's holes have in common.                *)
HoldingInv == HandInv /\ \A s \in Streams : Ahead(s) /\ OneEach(s) /\ JumpInv(s)

LEMMA HoldingStarts == Init => HoldingInv
BY DEF Init, HoldingInv, HandInv, Ahead, OneEach, JumpInv, Jumped, UnopenedStream

LEMMA HoldingStep == IInv /\ HoldingInv /\ [Next]_vars => HoldingInv'
BY AheadStep, HandForced, JumpStep DEF HoldingInv

LEMMA ChargedAtRest ==
  ASSUME HoldingInv, GapInv, Idle, NEW k \in Sessions
  PROVE  R_SEQUENCE_GAP \in sessions[k].codes <=>
           \E s \in Streams : \E i \in Holes(streams[s].log) :
             k \in Neighbours(streams[s].log, i)
<1>1. \A s \in Streams : ~Jumped(streams[s])
  BY DEF HoldingInv, JumpInv, Idle
<1> QED BY <1>1 DEF GapInv, Charged

(* A sequence gap is charged to the sessions on the two sides of a hole in *)
(* what was consumed, and to no other (_force, _Stream.last_session).      *)
THEOREM GapsNameTheirNeighbours == Spec => []GapChargedToNeighbours
<1>1. Init => GapInv
  BY DEF Init, GapInv, Charged, Jumped, Holes, UnopenedStream, EmptySession, AnySession
<1>2. IInv /\ HoldingInv /\ GapInv /\ [Next]_vars => GapInv'
  BY GapStep DEF HoldingInv
<1>3. HoldingInv /\ GapInv => GapChargedToNeighbours
  BY ChargedAtRest DEF GapChargedToNeighbours
<1> QED BY <1>1, <1>2, <1>3, HoldingStarts, HoldingStep, Inductive, PTL DEF Spec

-----------------------------------------------------------------------------
(* What a gap means.                                                       *)

(* A stream whose records were refused stays refused: the streams it would *)
(* exceed the budget with are all still open.                              *)
RefusedInv ==
  /\ IsFiniteSet(OpenStreams)
  /\ \A s \in Streams :
       ~streams[s].open /\ (\E r \in seen : r.stream = s)
         => Cardinality(OpenStreams) >= MaxStreams

(* Short of a spent budget, every record of an open stream that was        *)
(* observed is behind the position it expects or is held.                  *)
CoveredInv(s) ==
  streams[s].open /\ ~ForcedByBudget(streams[s]) =>
    \A r \in seen : r.stream = s =>
      r.seq < streams[s].expected \/ Held(streams[s], r.seq)

Missing(s, n) == \A r \in seen : ~(r.stream = s /\ r.seq = n)

LostInv(s) ==
  R_SEQUENCE_GAP \in streams[s].codes /\ ~ForcedByBudget(streams[s]) =>
    /\ phase # "observe" /\ streams[s].open
    /\ \E n \in Nat : /\ streams[s].first <= n /\ n < streams[s].expected
                      /\ Missing(s, n)

(* Streams are opened, one at a time, and never shut.                      *)
LEMMA StaysOpen ==
  ASSUME IInv, [Next]_vars, NEW s \in Streams
  PROVE  /\ streams[s].open => streams'[s].open
         /\ streams'[s].open => \/ streams[s].open
                                \/ \E r \in Records : \E st \in StreamState :
                                     ConsumesOne(s, st, r)
<1>1. CASE KeepsHistory(s)
  BY <1>1 DEF KeepsHistory
<1>2. ASSUME NEW r \in Records, NEW st \in StreamState, ConsumesOne(s, st, r)
      PROVE  streams'[s].open
  <2>1. IInv'
    BY NextInv
  <2>2. streams'[s].log = Append(st.log, LogEntry(r))
    BY <1>2, ConsumedStream
  <2>3. streams'[s].log # <<>>
    BY <2>2, ConsumedLog
  <2> QED BY <2>1, <2>3 DEF IInv, StreamInv, Shape
<1> QED BY <1>1, <1>2, HistoryStep

LEMMA OpenStreamsStep ==
  ASSUME IInv, [Next]_vars, IsFiniteSet(OpenStreams)
  PROVE  /\ IsFiniteSet(OpenStreams')
         /\ Cardinality(OpenStreams) <= Cardinality(OpenStreams')
         /\ Cardinality(OpenStreams) \in Nat /\ Cardinality(OpenStreams') \in Nat
<1>1. OpenStreams \subseteq OpenStreams'
  BY StaysOpen DEF OpenStreams
<1>2. \E t : OpenStreams' \subseteq OpenStreams \cup {t}
  <2>1. CASE ChargesNothing
    <3>1. \A s \in Streams : streams'[s].open = streams[s].open
      BY <2>1, QuietFields DEF ChargesNothing
    <3> QED BY <3>1 DEF OpenStreams
  <2>2. CASE \E t \in Streams : Elsewhere(t)
    BY <2>2 DEF Elsewhere, OpenStreams
  <2> QED BY <2>1, <2>2, StepCharges DEF ChargeStep, ChargesGap, ChargesBreak
<1>3. IsFiniteSet(OpenStreams')
  <2>1. PICK t : OpenStreams' \subseteq OpenStreams \cup {t}
    BY <1>2
  <2>2. IsFiniteSet(OpenStreams \cup {t})
    BY FS_AddElement
  <2> QED BY <2>1, <2>2, FS_Subset
<1> QED BY <1>1, <1>3, FS_Subset, FS_CardinalityType

LEMMA RefusedStep ==
  ASSUME IInv, [Next]_vars, RefusedInv
  PROVE  RefusedInv'
<1>1. /\ IsFiniteSet(OpenStreams')
      /\ Cardinality(OpenStreams) <= Cardinality(OpenStreams')
      /\ Cardinality(OpenStreams) \in Nat /\ Cardinality(OpenStreams') \in Nat
      /\ MaxStreams \in Nat
  BY OpenStreamsStep, BoundsAssumption DEF RefusedInv
<1>2. ASSUME NEW s \in Streams, ~streams'[s].open, NEW r \in seen', r.stream = s
      PROVE  Cardinality(OpenStreams) >= MaxStreams
  <2>1. ~streams[s].open
    BY <1>2, StaysOpen
  <2>2. CASE r \in seen
    BY <1>2, <2>1, <2>2 DEF RefusedInv
  <2>3. CASE r \notin seen
    <3>1. PICK q \in Records :
            /\ seen' = seen \cup {q}
            /\ \/ ObserveOverStreamBudget(q) \/ ObserveInOrder(q) \/ ObserveTaken(q)
               \/ ObserveEarly(q) \/ ObserveEarlyForced(q)
      BY <1>2, <2>3, ArrivalOrNot
    <3>2. q = r
      BY <1>2, <2>3, <3>1
    <3>3. ~ObserveInOrder(q)
      <4>1. ASSUME ObserveInOrder(q)
            PROVE  streams'[s].open
        <5>1. Opened(q) \in StreamState /\ ConsumesOne(s, Opened(q), q)
          BY <1>2, <3>2, <4>1, ObserveConsumes
        <5>2. streams'[s].log = Append(Opened(q).log, LogEntry(q))
          BY <5>1, ConsumedStream
        <5>3. streams'[s].log # <<>> /\ IInv'
          BY <5>1, <5>2, ConsumedLog, NextInv
        <5> QED BY <5>3 DEF IInv, StreamInv, Shape
      <4> QED BY <1>2, <4>1
    <3>4. StreamBudgetSpent(q)
      BY <1>2, <2>1, <3>1, <3>2, <3>3 DEF ObserveOverStreamBudget, ObserveTaken,
         ObserveEarly, ObserveEarlyForced, Early
    <3> QED BY <3>4 DEF StreamBudgetSpent
  <2> QED BY <2>2, <2>3
<1>3. \A s \in Streams :
        ~streams'[s].open /\ (\E r \in seen' : r.stream = s)
          => Cardinality(OpenStreams') >= MaxStreams
  BY <1>1, <1>2
<1> QED BY <1>1, <1>3 DEF RefusedInv

(* The record that has just come is behind, held, or decided by the budget. *)
LEMMA ArrivalCovered ==
  ASSUME IInv, NEW q \in Records, streams'[q.stream].open,
         ~ForcedByBudget(streams'[q.stream]),
         \/ ObserveOverStreamBudget(q) \/ ObserveInOrder(q) \/ ObserveTaken(q)
         \/ ObserveEarly(q) \/ ObserveEarlyForced(q)
  PROVE  q.seq < streams'[q.stream].expected \/ Held(streams'[q.stream], q.seq)
<1> DEFINE s == q.stream
<1>1. /\ s \in Streams /\ streams \in [Streams -> StreamState]
      /\ streams[s] \in StreamState /\ q.seq \in Nat
  BY RecordType DEF IInv, TypeOK
<1>2. CASE ObserveOverStreamBudget(q)
  BY <1>2 DEF ObserveOverStreamBudget, StreamBudgetSpent
<1>3. CASE ObserveInOrder(q)
  <2>1. Opened(q) \in StreamState /\ ConsumesOne(s, Opened(q), q)
    BY <1>3, ObserveConsumes
  <2>2. streams'[s].expected = q.seq + 1
    BY <1>1, <2>1, ConsumedStream
  <2> QED BY <1>1, <2>2
<1>4. CASE ObserveTaken(q)
  <2>1. streams' = [streams EXCEPT ![q.stream].codes = @ \cup {R_SEQUENCE_REPLAY}]
    BY <1>4 DEF ObserveTaken
  <2>2. /\ streams'[s].expected = streams[s].expected
        /\ streams'[s].pending = streams[s].pending
    BY <1>1, <2>1 DEF StreamState
  <2> QED BY <1>4, <2>2 DEF ObserveTaken, Held
<1>5. CASE ObserveEarly(q)
  <2>1. streams' = [streams EXCEPT ![q.stream].pending = @ \cup {q}]
    BY <1>5 DEF ObserveEarly, Hold
  <2>2. streams'[s].pending = streams[s].pending \cup {q}
    BY <1>1, <2>1 DEF StreamState
  <2> QED BY <2>2 DEF Held
<1>6. CASE ObserveEarlyForced(q)
  <2>1. streams' = [streams EXCEPT ![q.stream] = Forced(ReorderBudgetNoted(streams[q.stream]))]
    BY <1>6 DEF ObserveEarlyForced
  <2>2. /\ ReorderBudgetNoted(streams[s]) \in StreamState
        /\ R_REORDER_BUDGET \in ReorderBudgetNoted(streams[s]).codes
    BY <1>1, NotedFields
  <2>3. streams'[s] = Forced(ReorderBudgetNoted(streams[s]))
    BY <1>1, <2>1
  <2>4. R_REORDER_BUDGET \in streams'[s].codes
    BY <2>2, <2>3, ForcedFields
  <2> QED BY <2>4 DEF ForcedByBudget
<1> QED BY <1>2, <1>3, <1>4, <1>5, <1>6

(* What was behind stays behind, and what was held is held or consumed.    *)
LEMMA StaysCovered ==
  ASSUME IInv, [Next]_vars, RefusedInv, NEW s \in Streams, CoveredInv(s),
         streams'[s].open, ~ForcedByBudget(streams'[s]), NEW r \in seen, r.stream = s
  PROVE  r.seq < streams'[s].expected \/ Held(streams'[s], r.seq)
<1>1. /\ streams[s] \in StreamState /\ StreamInv(s, streams[s])
      /\ streams[s].expected \in Nat /\ r \in Records /\ r.seq \in Nat
  BY RecordType DEF IInv, TypeOK, StreamState
<1>2. CASE ~streams[s].open
  <2>1. PICK q \in Records, st \in StreamState : ConsumesOne(s, st, q)
    BY <1>2, StaysOpen
  <2>2. q.stream = s /\ ~StreamBudgetSpent(q)
    <3>1. streams[s].log = <<>>
      BY <1>1, <1>2 DEF StreamInv, Shape
    <3> QED BY <2>1, <3>1, ConsumedStream DEF ConsumesOne
  <2> QED BY <1>2, <2>2 DEF RefusedInv, StreamBudgetSpent
<1>3. CASE streams[s].open
  <2>1. ~ForcedByBudget(streams[s])
    BY <1>3, ForcedStays
  <2>2. r.seq < streams[s].expected \/ Held(streams[s], r.seq)
    BY <1>3, <2>1 DEF CoveredInv
  <2>3. CASE Annotates(s) \/ \E q \in Records : HoldsBack(s, q)
    <3>1. /\ streams'[s].expected = streams[s].expected
          /\ streams[s].pending \subseteq streams'[s].pending
      BY <2>3, QuietFields
    <3> QED BY <2>2, <3>1 DEF Held
  <2>4. CASE ForcesOn(s)
    <3>1. /\ streams'[s].pending = streams[s].pending
          /\ Skips(streams[s]) => streams'[s].expected = Earliest(streams[s]).seq
          /\ ~Skips(streams[s]) => streams'[s].expected = streams[s].expected
      BY <2>4, ForcedStream
    <3>2. streams'[s].expected \in Nat /\ streams'[s].expected >= streams[s].expected
      <4>1. CASE Skips(streams[s])
        <5>1. Earliest(streams[s]).seq \in Nat
          BY <1>1, <4>1, EarliestIsHeld, RecordType DEF Skips, StreamState
        <5> QED BY <1>1, <3>1, <4>1, <5>1 DEF Skips
      <4> QED BY <1>1, <3>1, <4>1
    <3> QED BY <1>1, <2>2, <3>1, <3>2 DEF Held
  <2>5. ASSUME NEW q \in Records, NEW st \in StreamState, ConsumesOne(s, st, q)
        PROVE  r.seq < streams'[s].expected \/ Held(streams'[s], r.seq)
    <3>1. streams[s].log # <<>>
      BY <1>1, <1>3 DEF StreamInv, Shape
    <3>2. /\ streams'[s].expected = q.seq + 1 /\ q.seq = st.expected
          /\ streams'[s].pending = st.pending /\ st.expected = streams[s].expected
      BY <2>5, <3>1, ConsumedStream
    <3>3. st.pending = streams[s].pending \/ st.pending = streams[s].pending \ {q}
      BY <1>1, <1>3, <2>5 DEF ConsumesOne, Source, StreamState
    <3> QED BY <1>1, <2>2, <3>2, <3>3 DEF Held
  <2> QED BY <2>3, <2>4, <2>5, StepOfStream DEF StreamStep
<1> QED BY <1>2, <1>3

LEMMA CoveredStep ==
  ASSUME IInv, [Next]_vars, RefusedInv, NEW s \in Streams, CoveredInv(s)
  PROVE  CoveredInv(s)'
<1> SUFFICES ASSUME streams'[s].open, ~ForcedByBudget(streams'[s]),
                    NEW r \in seen', r.stream = s
             PROVE  r.seq < streams'[s].expected \/ Held(streams'[s], r.seq)
  BY DEF CoveredInv
<1>1. CASE r \in seen
  BY <1>1, StaysCovered
<1>2. CASE r \notin seen
  BY <1>2, ArrivalOrNot, ArrivalCovered
<1> QED BY <1>1, <1>2

(* No record is observed once the input has ended.                         *)
LEMMA InputHasEnded ==
  ASSUME [Next]_vars, phase # "observe"
  PROVE  phase' # "observe" /\ seen' = seen
BY DEF Next, ObserveRecord, ObserveOverStreamBudget, ObserveInOrder, ObserveTaken,
       ObserveEarly, ObserveEarlyForced, Arrive, ObserveBare, Handler, PlaceInOrder,
       PlaceHeld, Place, DrainNext, DrainEnd, SignatureTimeRunsOut, EndOfInput, Finalise,
       FinaliseForce, FinaliseClose, JudgeAgainstLedger, Report, Terminated, vars, history

(* Without the budget, a force skips a position no record was observed at. *)
LEMMA ForcedOverMissing ==
  ASSUME IInv, NEW s \in Streams, ForcesOn(s), ~ForcedByBudget(streams[s]), Ahead(s),
         CoveredInv(s)
  PROVE  Missing(s, streams[s].expected)
<1>1. streams[s].open /\ draining = <<>> /\ streams[s].expected \in Nat
  BY DEF ForcesOn, IInv, TypeOK, StreamState
<1>2. ~Held(streams[s], streams[s].expected)
  BY <1>1 DEF Ahead, Held
<1>3. \A r \in seen : r.stream = s =>
        r.seq < streams[s].expected \/ Held(streams[s], r.seq)
  BY <1>1 DEF CoveredInv
<1> QED BY <1>1, <1>2, <1>3 DEF Missing

LEMMA LostStep ==
  ASSUME IInv, [Next]_vars, NEW s \in Streams, Ahead(s), CoveredInv(s), LostInv(s)
  PROVE  LostInv(s)'
<1> SUFFICES ASSUME R_SEQUENCE_GAP \in streams'[s].codes, ~ForcedByBudget(streams'[s])
             PROVE  /\ phase' # "observe" /\ streams'[s].open
                    /\ \E n \in Nat : /\ streams'[s].first <= n
                                      /\ n < streams'[s].expected
                                      /\ Missing(s, n)'
  BY DEF LostInv
<1>1. /\ streams[s] \in StreamState /\ StreamInv(s, streams[s])
      /\ streams[s].expected \in Nat
  BY DEF IInv, TypeOK, StreamState
(* A gap that was there already stays one.                                 *)
<1>2. ASSUME R_SEQUENCE_GAP \in streams[s].codes, ~ForcedByBudget(streams[s]),
             streams'[s].first = streams[s].first,
             streams'[s].expected \in Nat, streams'[s].expected >= streams[s].expected
      PROVE  /\ phase' # "observe" /\ streams'[s].open
             /\ \E n \in Nat : /\ streams'[s].first <= n
                               /\ n < streams'[s].expected
                               /\ Missing(s, n)'
  <2>1. /\ phase # "observe" /\ streams[s].open
        /\ \E n \in Nat : /\ streams[s].first <= n /\ n < streams[s].expected
                          /\ Missing(s, n)
    BY <1>2 DEF LostInv
  <2>2. phase' # "observe" /\ seen' = seen /\ streams'[s].open
    BY <2>1, InputHasEnded, StaysOpen
  <2>3. PICK n \in Nat : /\ streams[s].first <= n /\ n < streams[s].expected
                         /\ Missing(s, n)
    BY <2>1
  <2>4. n < streams'[s].expected
    BY <1>1, <1>2, <2>3
  <2>5. Missing(s, n)'
    BY <2>2, <2>3 DEF Missing
  <2> QED BY <1>2, <2>2, <2>3, <2>4, <2>5
<1>3. CASE Annotates(s) \/ \E r \in Records : HoldsBack(s, r)
  <2>1. /\ streams'[s].first = streams[s].first
        /\ streams'[s].expected = streams[s].expected
        /\ streams[s].codes \subseteq streams'[s].codes
        /\ R_SEQUENCE_GAP \in streams'[s].codes => R_SEQUENCE_GAP \in streams[s].codes
    BY <1>3, QuietFields
  <2> QED BY <1>1, <1>2, <2>1 DEF ForcedByBudget
<1>4. CASE ForcesOn(s)
  <2>1. /\ streams'[s].first = streams[s].first /\ phase = "finalise"
        /\ streams[s].codes \subseteq streams'[s].codes
        /\ streams'[s].open = streams[s].open
        /\ Skips(streams[s]) => streams'[s].expected = Earliest(streams[s]).seq
        /\ ~Skips(streams[s]) =>
             /\ streams'[s].expected = streams[s].expected
             /\ R_SEQUENCE_GAP \in streams'[s].codes =>
                  R_SEQUENCE_GAP \in streams[s].codes
    BY <1>4, ForcedStream
  <2>2. ~ForcedByBudget(streams[s])
    BY <2>1 DEF ForcedByBudget
  <2>3. CASE ~Skips(streams[s])
    BY <1>1, <1>2, <2>1, <2>2, <2>3
  <2>4. CASE Skips(streams[s])
    <3> PICK n \in Nat : n = streams[s].expected
      BY <1>1
    <3>1. Earliest(streams[s]).seq \in Nat /\ Earliest(streams[s]).seq > n
      BY <1>1, <2>4, EarliestIsHeld, RecordType DEF Skips, StreamState
    <3>2. n < streams'[s].expected
      BY <1>1, <2>1, <2>4, <3>1
    <3>3. streams[s].first <= n
      <4>1. streams[s].log # <<>>
        BY <1>1, <1>4 DEF ForcesOn, StreamInv, Shape
      <4>2. 1 \in DOMAIN streams[s].log /\ streams[s].log[1].seq \in Nat
        BY <1>1, <4>1, StreamNumbers
      <4>3. streams[s].first = streams[s].log[1].seq /\ streams[s].log[1].seq < n
        BY <1>1, <4>1, <4>2 DEF StreamInv, Extent, InOrder
      <4> QED BY <1>1, <4>2, <4>3
    <3>4. phase' # "observe" /\ seen' = seen /\ streams[s].open
      BY <1>4, <2>1, InputHasEnded DEF ForcesOn
    <3>5. Missing(s, n)
      BY <1>4, <2>2, ForcedOverMissing
    <3>6. Missing(s, n)'
      BY <3>4, <3>5 DEF Missing
    <3> QED BY <2>1, <3>2, <3>3, <3>4, <3>6
  <2> QED BY <2>3, <2>4
<1>5. ASSUME NEW r \in Records, NEW st \in StreamState, ConsumesOne(s, st, r)
      PROVE  /\ phase' # "observe" /\ streams'[s].open
             /\ \E n \in Nat : /\ streams'[s].first <= n
                               /\ n < streams'[s].expected
                               /\ Missing(s, n)'
  <2>1. /\ Consumed(st, r).first = IF st.first = NoSeq THEN r.seq ELSE st.first
        /\ Consumed(st, r).expected = r.seq + 1
        /\ Consumed(st, r).codes = st.codes \cup RecordCodes(st, r)
                                     \cup On(BreakSessions(st, r) # {}, R_CHAIN_BROKEN)
    BY ConsumedFields
  <2>2. streams'[s] = Consumed(st, r)
    BY <1>5 DEF ConsumesOne
  <2>3. /\ R_SEQUENCE_GAP \in st.codes
        /\ st.codes \subseteq streams'[s].codes
    <3>1. R_SEQUENCE_GAP \notin RecordCodes(st, r)
      BY ChainCodesOfRecord
    <3>2. R_SEQUENCE_GAP \notin On(BreakSessions(st, r) # {}, R_CHAIN_BROKEN)
      BY DEF On, R_SEQUENCE_GAP, R_CHAIN_BROKEN
    <3> QED BY <2>1, <2>2, <3>1, <3>2
  <2>4. CASE streams[s].log = <<>>
    <3>1. st = Begin(r)
      BY <1>5, <2>4, ConsumedStream
    <3>2. st.codes = {}
      BY <3>1 DEF Begin, UnopenedStream
    <3> QED BY <2>3, <3>2
  <2>5. CASE streams[s].log # <<>>
    <3>1. /\ st.codes = streams[s].codes /\ st.first = streams[s].first
          /\ st.first # NoSeq /\ r.seq = st.expected /\ st.expected = streams[s].expected
      BY <1>5, <2>5, ConsumedStream
    <3>2. /\ R_SEQUENCE_GAP \in streams[s].codes /\ ~ForcedByBudget(streams[s])
      BY <2>3, <3>1 DEF ForcedByBudget
    <3>3. /\ streams'[s].first = streams[s].first
          /\ streams'[s].expected = streams[s].expected + 1
      BY <2>1, <2>2, <3>1
    <3>4. streams'[s].expected \in Nat /\ streams'[s].expected >= streams[s].expected
      BY <1>1, <3>3
    <3> QED BY <1>2, <3>2, <3>3, <3>4
  <2> QED BY <2>4, <2>5
<1> QED BY <1>3, <1>4, <1>5, StepOfStream DEF StreamStep

LEMMA LostAtTheEnd ==
  ASSUME IInv, HoldingInv, DrainedInv, phase = "done", NEW s \in Streams, LostInv(s),
         R_SEQUENCE_GAP \in streams[s].codes, ~ForcedByBudget(streams[s])
  PROVE  \E n \in streams[s].first .. streams[s].last :
           \A r \in seen : ~(r.stream = s /\ r.seq = n)
<1>1. PICK n \in Nat : /\ streams[s].first <= n /\ n < streams[s].expected
                       /\ Missing(s, n)
  BY DEF LostInv
<1>2. /\ streams[s] \in StreamState /\ StreamInv(s, streams[s]) /\ streams[s].open
  BY DEF IInv, TypeOK, LostInv
<1>3. streams[s].log # <<>> /\ ~Jumped(streams[s])
  BY <1>2 DEF StreamInv, Shape, HoldingInv, JumpInv, DrainedInv, Idle
<1>4. streams[s].expected = streams[s].last + 1
  BY <1>3 DEF Jumped
<1>5. streams[s].first \in Int /\ streams[s].last \in Int
  BY <1>2 DEF StreamState, SeqOrNone
<1>6. n \in streams[s].first .. streams[s].last
  BY <1>1, <1>4, <1>5
<1> QED BY <1>1, <1>6 DEF Missing

(* "Reordering is not deletion": short of a spent reorder budget, a gap    *)
(* means a record that never came (StreamVerifier._hold, _force).          *)
THEOREM GapsMeanALostRecord == Spec => []GapMeansLost
<1> DEFINE Inv == /\ HoldingInv /\ DrainedInv /\ RefusedInv
                  /\ \A s \in Streams : CoveredInv(s) /\ LostInv(s)
<1>1. Init => Inv
  <2>1. Init => OpenStreams = {}
    BY DEF Init, OpenStreams, UnopenedStream
  <2>2. Init => RefusedInv
    BY <2>1, FS_EmptySet DEF Init, RefusedInv
  <2> QED BY <2>2, HoldingStarts DEF Init, DrainedInv, CoveredInv, LostInv, UnopenedStream
<1>2. IInv /\ Inv /\ [Next]_vars => Inv'
  BY HoldingStep, DrainedStep, RefusedStep, CoveredStep, LostStep DEF HoldingInv
<1>3. IInv /\ Inv => GapMeansLost
  BY LostAtTheEnd DEF GapMeansLost
<1> QED BY <1>1, <1>2, <1>3, Inductive, PTL DEF Spec

(* A gap is declared where one is, charged to its two sides alone, and     *)
(* short of a budget that says so it means a record that never arrived.    *)
THEOREM GapsAreJustlyCharged == Spec => []GapsAreJust
BY GapsNameTheirNeighbours, GapsMeanALostRecord, PTL DEF GapsAreJust

-----------------------------------------------------------------------------
(* What a broken chain means.                                              *)

(* After a force the head is the one the record to come declares; else it  *)
(* is the collector's own, unless the last record consumed was altered.    *)
HeadInv(s) ==
  LET st == streams[s] IN
  st.log # <<>> =>
    /\ Jumped(st) => \A p \in st.pending : p.seq = st.expected => st.head = p.prev
    /\ ~Jumped(st) => \/ Altered(s, st.log[Len(st.log)])
                      \/ st.head = GenuineHead(s, st.expected)

NextToAltered(s, log, k) ==
  \E i, j \in DOMAIN log :
    Altered(s, log[i]) /\ j \in i - 1 .. i + 1 /\ log[j].session = k

LEMMA HeadStep ==
  ASSUME OnlyAltered, IInv, [Next]_vars, NEW s \in Streams, JumpInv(s), OneEach(s), HeadInv(s)
  PROVE  HeadInv(s)'
<1>1. streams[s] \in StreamState /\ StreamInv(s, streams[s])
  BY DEF IInv, TypeOK
<1>2. CASE Annotates(s) \/ \E r \in Records : HoldsBack(s, r)
  <2>1. /\ streams'[s].log = streams[s].log /\ streams'[s].last = streams[s].last
        /\ streams'[s].expected = streams[s].expected
        /\ streams'[s].head = streams[s].head
        /\ Held(streams[s], streams[s].expected) =>
             \A p \in streams'[s].pending :
               p.seq = streams[s].expected => p \in streams[s].pending
    BY <1>2, QuietFields
  <2>2. Jumped(streams'[s]) <=> Jumped(streams[s])
    BY <2>1 DEF Jumped
  <2>3. Jumped(streams[s]) => Held(streams[s], streams[s].expected)
    BY DEF JumpInv
  <2> QED BY <2>1, <2>2, <2>3 DEF HeadInv
<1>3. CASE ForcesOn(s)
  <2> DEFINE e == Earliest(streams[s])
  <2>1. /\ streams'[s].log = streams[s].log /\ streams'[s].last = streams[s].last
        /\ streams'[s].pending = streams[s].pending
        /\ Skips(streams[s]) => /\ streams'[s].expected = e.seq
                                /\ streams'[s].head = e.prev
        /\ ~Skips(streams[s]) => /\ streams'[s].expected = streams[s].expected
                                 /\ streams'[s].head = streams[s].head
    BY <1>3, ForcedStream
  <2>2. ~Jumped(streams[s])
    BY <1>3 DEF JumpInv, ForcesOn
  <2>3. CASE ~Skips(streams[s])
    <3>1. ~Jumped(streams'[s])
      BY <2>1, <2>2, <2>3 DEF Jumped
    <3> QED BY <2>1, <2>2, <2>3, <3>1 DEF HeadInv
  <2>4. CASE Skips(streams[s])
    <3>1. e \in streams[s].pending /\ e.seq > streams[s].expected
      BY <1>1, <2>4, EarliestIsHeld DEF Skips
    <3>2. e.seq \in Nat /\ streams[s].expected \in Nat
      BY <1>1, <3>1, RecordType DEF StreamState
    <3>3. streams[s].log # <<>> => Jumped(streams'[s])
      BY <2>1, <2>2, <2>4, <3>1, <3>2 DEF Jumped
    <3>4. \A p \in streams[s].pending : p.seq = e.seq => p = e
      BY <3>1 DEF OneEach
    <3> HIDE DEF e
    <3> QED BY <2>1, <2>4, <3>3, <3>4 DEF HeadInv
  <2> QED BY <2>3, <2>4
<1>4. ASSUME NEW r \in Records, NEW st \in StreamState, ConsumesOne(s, st, r)
      PROVE  HeadInv(s)'
  <2>1. /\ streams'[s].log = Append(st.log, LogEntry(r)) /\ streams'[s].last = r.seq
        /\ streams'[s].expected = r.seq + 1 /\ streams'[s].head = NextHead(st, r)
    BY <1>4, ConsumedStream
  <2>2. ~Jumped(streams'[s]) /\ r.stream = s
    BY <1>4, <2>1 DEF Jumped, ConsumesOne
  <2>3. streams'[s].log[Len(streams'[s].log)] = LogEntry(r)
    BY <2>1, ConsumedLog
  <2>4. Altered(s, LogEntry(r)) <=> Altered(s, r)
    BY DEF Altered, LogEntry
  <2>5. ASSUME Genuine(r)
        PROVE  NextHead(st, r) = GenuineHead(s, r.seq + 1)
    <3>1. r.chain = GenuineHead(s, r.seq + 1) /\ r.seq < Len(Written[s]) /\ r.seq \in Nat
      BY <2>2, <2>5, RecordType DEF Genuine
    <3>2. r.chain # NoHead
      BY <3>1, GenuineHeadSteps
    <3> QED BY <3>1, <3>2 DEF NextHead
  <2>6. Genuine(r) \/ Altered(s, r)
    BY <2>2 DEF OnlyAltered
  <2> QED BY <2>1, <2>2, <2>3, <2>4, <2>5, <2>6 DEF HeadInv
<1> QED BY <1>2, <1>3, <1>4, StepOfStream DEF StreamStep

(* A genuine record after the collector's own head breaks nothing.         *)
LEMMA GenuineBreaksNothing ==
  ASSUME NEW r \in Records, Genuine(r), NEW st, st.head = GenuineHead(r.stream, r.seq)
  PROVE  ~ChainBreaks(st, r)
<1>1. r.stream \in Streams /\ r.seq \in Nat
  BY RecordType
<1>2. /\ r.seq < Len(Written[r.stream]) /\ r.body = Written[r.stream][r.seq + 1]
      /\ r.prev = st.head /\ r.chain = GenuineHead(r.stream, r.seq + 1)
  BY DEF Genuine
<1>3. st.head # NoHead /\ ChainStep(st.head, r.body) = r.chain
  BY <1>1, <1>2, GenuineHeadSteps
<1> QED BY <1>2, <1>3 DEF ChainBreaks, ExpectedChain

(* So where the chain breaks, the record or the one before it was altered. *)
LEMMA BreakHasACulprit ==
  ASSUME OnlyAltered, IInv, NEW s \in Streams, JumpInv(s), OneEach(s), HeadInv(s),
         NEW st \in StreamState, NEW r \in Records, ConsumesOne(s, st, r), ChainBreaks(st, r)
  PROVE  \/ Altered(s, r)
         \/ streams[s].log # <<>> /\ Altered(s, streams[s].log[Len(streams[s].log)])
<1> SUFFICES ASSUME ~Altered(s, r),
                    ~(streams[s].log # <<>> /\ Altered(s, streams[s].log[Len(streams[s].log)]))
             PROVE  st.head = GenuineHead(s, r.seq)
  <2>1. r.stream = s
    BY DEF ConsumesOne
  <2>2. ~Altered(s, r) => Genuine(r)
    BY <2>1 DEF OnlyAltered
  <2> QED BY <2>1, <2>2, GenuineBreaksNothing
<1>1. r.stream = s /\ Genuine(r)
  BY DEF ConsumesOne, OnlyAltered
<1>2. r.prev = GenuineHead(s, r.seq) /\ (r.seq = 0 => r.key = SeedKey[s])
  BY <1>1 DEF Genuine
<1>3. CASE streams[s].log = <<>>
  <2>1. st = Begin(r)
    BY <1>3, ConsumedStream
  <2>2. st.head = IF r.seq = 0 THEN ChainSeed(s, r.key) ELSE r.prev
    BY <1>1, <2>1 DEF Begin, UnopenedStream
  <2> QED BY <1>2, <2>2, GenuineHeadStarts
<1>4. CASE streams[s].log # <<>>
  <2>1. /\ st.head = streams[s].head /\ r.seq = st.expected
        /\ st.expected = streams[s].expected
    BY <1>4, ConsumedStream
  <2>2. CASE Jumped(streams[s])
    <3>1. r \in streams[s].pending /\ r.seq = streams[s].expected
      BY <2>2, JumpedTo
    <3> QED BY <1>2, <1>4, <2>1, <2>2, <3>1 DEF HeadInv
  <2>3. CASE ~Jumped(streams[s])
    BY <1>4, <2>1, <2>3 DEF HeadInv
  <2> QED BY <2>2, <2>3
<1> QED BY <1>3, <1>4

LEMMA BreakIsLocal ==
  ASSUME OnlyAltered, IInv, NEW s \in Streams, JumpInv(s), OneEach(s), HeadInv(s),
         NEW st \in StreamState, NEW r \in Records, ConsumesOne(s, st, r),
         NEW k \in BreakSessions(st, r)
  PROVE  NextToAltered(s, streams'[s].log, k)
<1> DEFINE old == streams[s].log
           new == streams'[s].log
           n   == Len(old)
<1>1. /\ ChainBreaks(st, r) /\ k \in {st.lastSession, r.session} /\ k # NoSession
  BY DEF BreakSessions
<1>2. /\ streams[s] \in StreamState /\ StreamInv(s, streams[s])
      /\ streams'[s].log = Append(st.log, LogEntry(r))
  BY ConsumedStream DEF IInv, TypeOK
<1>3. Altered(s, LogEntry(r)) <=> Altered(s, r)
  BY DEF Altered, LogEntry
<1>4. LogEntry(r).session = r.session
  BY DEF LogEntry
<1>5. CASE old = <<>>
  <2>1. st = Begin(r)
    BY <1>5, ConsumedStream
  <2>2. st.lastSession = NoSession /\ st.log = <<>>
    BY <2>1 DEF Begin, UnopenedStream
  <2>3. Len(st.log) = 0
    BY <2>2
  <2>4. DOMAIN new = 1 .. 1 /\ new[1] = LogEntry(r)
    BY <1>2, <2>3, ConsumedLog
  <2>5. Altered(s, r) /\ k = r.session
    BY <1>1, <1>5, <2>2, BreakHasACulprit
  <2>6. 1 \in DOMAIN new /\ 1 \in 1 - 1 .. 1 + 1
    BY <2>4
  <2> QED BY <1>3, <1>4, <2>4, <2>5, <2>6 DEF NextToAltered
<1>6. CASE old # <<>>
  <2>1. st.log = old /\ st.lastSession = streams[s].lastSession
    BY <1>6, ConsumedStream
  <2>2. n \in Nat /\ n > 0 /\ n \in DOMAIN old
    BY <1>2, <1>6, StreamNumbers
  <2>3. /\ DOMAIN new = 1 .. n + 1 /\ new[n + 1] = LogEntry(r) /\ new[n] = old[n]
    BY <1>2, <2>1, <2>2, ConsumedLog
  <2>4. st.lastSession = old[n].session
    BY <1>2, <1>6, <2>1 DEF StreamInv, Extent
  <2>5. Altered(s, r) \/ Altered(s, old[n])
    BY <1>1, BreakHasACulprit
  <2> HIDE DEF old, new, n
  <2>6. Altered(s, new[n + 1]) \/ Altered(s, new[n])
    BY <1>3, <2>3, <2>5
  <2>7. new[n].session = k \/ new[n + 1].session = k
    BY <1>1, <1>4, <2>3, <2>4
  <2>8. /\ n \in DOMAIN new /\ n + 1 \in DOMAIN new
        /\ n \in n - 1 .. n + 1 /\ n + 1 \in n - 1 .. n + 1
        /\ n \in (n + 1) - 1 .. (n + 1) + 1 /\ n + 1 \in (n + 1) - 1 .. (n + 1) + 1
    BY <2>2, <2>3
  <2>9. NextToAltered(s, new, k)
    BY <2>6, <2>7, <2>8 DEF NextToAltered
  <2> QED BY <2>9 DEF new
<1> QED BY <1>5, <1>6

(* What a stream has consumed is never revised.                            *)
LEMMA StaysNextToAltered ==
  ASSUME IInv, [Next]_vars, NEW s \in Streams, NEW k, NextToAltered(s, streams[s].log, k)
  PROVE  NextToAltered(s, streams'[s].log, k)
<1>1. CASE KeepsHistory(s)
  BY <1>1 DEF KeepsHistory
<1>2. ASSUME NEW r \in Records, NEW st \in StreamState, ConsumesOne(s, st, r)
      PROVE  NextToAltered(s, streams'[s].log, k)
  <2>1. streams'[s].log = Append(st.log, LogEntry(r)) /\ st.log = streams[s].log
    BY <1>2, ConsumedStream, SourceHistory
  <2>2. \A i \in DOMAIN st.log :
          i \in DOMAIN streams'[s].log /\ streams'[s].log[i] = st.log[i]
    BY <2>1, ConsumedLog
  <2> QED BY <2>1, <2>2 DEF NextToAltered
<1> QED BY <1>1, <1>2, HistoryStep

LocalInv ==
  \A k \in Sessions : R_CHAIN_BROKEN \in sessions[k].codes =>
    \E s \in Streams : NextToAltered(s, streams[s].log, k)

LEMMA LocalStep ==
  ASSUME OnlyAltered, IInv, HoldingInv, [Next]_vars, \A s \in Streams : HeadInv(s), LocalInv
  PROVE  LocalInv'
<1> SUFFICES ASSUME NEW k \in Sessions, R_CHAIN_BROKEN \in sessions'[k].codes
             PROVE  \E s \in Streams : NextToAltered(s, streams'[s].log, k)
  BY DEF LocalInv, NextToAltered
<1>1. ASSUME R_CHAIN_BROKEN \in sessions[k].codes
      PROVE  \E s \in Streams : NextToAltered(s, streams'[s].log, k)
  BY <1>1, StaysNextToAltered DEF LocalInv
<1>2. CASE R_CHAIN_BROKEN \notin sessions[k].codes
  <2>1. PICK t \in Streams, st \in StreamState, r \in Records : ChargesBreak(t, st, r)
    BY <1>2, StepCharges DEF ChargeStep, ChargesNothing, ChargesGap, Charge, Charges, AnySession
  <2>2. k \in BreakSessions(st, r) /\ ConsumesOne(t, st, r)
    BY <1>2, <2>1 DEF ChargesBreak, Charge, Charges, AnySession
  <2>3. NextToAltered(t, streams'[t].log, k)
    BY <2>2, BreakIsLocal DEF HoldingInv
  <2> QED BY <2>3
<1> QED BY <1>1, <1>2

(* One altered record is charged to its own boundaries only, where what    *)
(* comes is the collector's or altered in its body (_consume, _force).     *)
THEOREM BreaksStayLocal ==
  ASSUME OnlyAltered
  PROVE  Spec => []BreaksAreLocal
<1> DEFINE Inv == HoldingInv /\ LocalInv /\ \A s \in Streams : HeadInv(s)
<1>1. Init => Inv
  BY HoldingStarts DEF Init, LocalInv, HeadInv, UnopenedStream, EmptySession, AnySession
<1>2. IInv /\ Inv /\ [Next]_vars => Inv'
  BY HoldingStep, LocalStep, HeadStep DEF HoldingInv
<1>3. Inv => BreaksAreLocal
  BY DEF LocalInv, NextToAltered, BreaksAreLocal
<1> QED BY <1>1, <1>2, <1>3, Inductive, PTL DEF Spec

-----------------------------------------------------------------------------
(* Succession of keys.                                                     *)

KeyCount == Cardinality(DOMAIN TrustStore)

(* The predecessors of a key, one step further back.                       *)
Longer(key, keys) == keys \cup ReplacedBy({key} \cup keys)

(* The n-th element is the line of key after n steps, as in Succeeds.      *)
IsLine(line, key, m) ==
  line = [n \in 0 .. m |->
            IF n = 0 THEN {} ELSE Longer(key, line[n - 1])]

LEMMA LineExists ==
  ASSUME NEW key, NEW m \in Nat
  PROVE  \E line : IsLine(line, key, m)
<1> DEFINE T == {n \in Nat : ~ \E line : IsLine(line, key, n)}
<1> SUFFICES ASSUME T # {}
             PROVE  FALSE
  OBVIOUS
<1>1. PICK n \in T : \A j \in T : n <= j
  BY LeastNatural
<1>2. CASE n = 0
  <2>1. PICK line : line = [i \in 0 .. 0 |-> {}]
    OBVIOUS
  <2>2. \A i \in 0 .. 0 : i = 0 /\ line[i] = {}
    BY <2>1
  <2>3. line = [i \in 0 .. 0 |-> IF i = 0 THEN {}
                                 ELSE Longer(key, line[i - 1])]
    BY <2>1, <2>2
  <2>4. IsLine(line, key, 0)
    BY <2>3 DEF IsLine
  <2> QED BY <1>1, <1>2, <2>4
<1>3. CASE n # 0
  <2>1. n - 1 \in Nat /\ n - 1 \notin T
    BY <1>1, <1>3
  <2>2. PICK old : IsLine(old, key, n - 1)
    BY <2>1
  <2>3. PICK last : last = Longer(key, old[n - 1])
    OBVIOUS
  <2>4. PICK line : line = [i \in 0 .. n |-> IF i = n THEN last ELSE old[i]]
    OBVIOUS
  <2>5. \A i \in 0 .. n - 1 :
          old[i] = IF i = 0 THEN {} ELSE Longer(key, old[i - 1])
    BY <2>2 DEF IsLine
  <2>6. /\ \A i \in 0 .. n - 1 : line[i] = old[i]
        /\ line[n] = last
    BY <1>1, <2>4
  <2>7. ASSUME NEW i \in 0 .. n
        PROVE  line[i] = IF i = 0 THEN {}
                         ELSE Longer(key, line[i - 1])
    <3>1. CASE i = n
      <4>1. line[i - 1] = old[n - 1]
        BY <1>1, <1>3, <2>6, <3>1
      <4> QED BY <1>3, <2>3, <2>6, <3>1, <4>1
    <3>2. CASE i # n
      <4>1. i \in 0 .. n - 1
        BY <1>1, <3>2
      <4>2. CASE i = 0
        BY <2>5, <2>6, <4>1, <4>2
      <4>3. CASE i # 0
        <5>1. i - 1 \in 0 .. n - 1
          BY <1>1, <4>1, <4>3
        <5> QED BY <2>5, <2>6, <4>1, <4>3, <5>1
      <4> QED BY <4>2, <4>3
    <3> QED BY <3>1, <3>2
  <2>8. IsLine(line, key, n)
    BY <2>4, <2>7 DEF IsLine
  <2> QED BY <1>1, <2>8
<1> QED BY <1>2, <1>3

(* What Succeeds reaches is the last line of the key.                      *)
LEMMA LineOfKey ==
  ASSUME NEW key
  PROVE  \E line : /\ IsLine(line, key, KeyCount)
                   /\ \A p : Succeeds(key, p) <=> p \in line[KeyCount]
<1>0. KeyCount \in Nat
  BY TrustStoreAssumption, FS_CardinalityType DEF KeyCount
<1>1. PICK line : line = CHOOSE f : IsLine(f, key, KeyCount)
  OBVIOUS
<1>2. IsLine(line, key, KeyCount)
  BY <1>0, <1>1, LineExists
<1>3. \A p : Succeeds(key, p) <=> p \in line[KeyCount]
  BY <1>1 DEF Succeeds, IsLine, KeyCount, Longer
<1> QED BY <1>2, <1>3

(* What some key of the trust store replaces; no more keys than the store. *)
Replaced == {TrustStore[k].replaces : k \in DOMAIN TrustStore}

LEMMA ReplacedIsFinite ==
  /\ KeyCount \in Nat
  /\ IsFiniteSet(Replaced)
  /\ Cardinality(Replaced) <= KeyCount
<1>1. PICK f : f = [k \in DOMAIN TrustStore |-> TrustStore[k].replaces]
  OBVIOUS
<1>2. f \in Surjection(DOMAIN TrustStore, Replaced)
  BY <1>1 DEF Surjection, Replaced
<1> QED BY <1>2, TrustStoreAssumption, FS_Surjection, FS_CardinalityType DEF KeyCount

LEMMA LineSteps ==
  ASSUME NEW key, NEW m \in Nat, NEW line, IsLine(line, key, m)
  PROVE  /\ line[0] = {}
         /\ \A n \in 1 .. m : line[n] = Longer(key, line[n - 1])
<1>1. \A i \in 0 .. m :
        line[i] = IF i = 0 THEN {} ELSE Longer(key, line[i - 1])
  BY DEF IsLine
<1>2. 0 \in 0 .. m /\ \A n \in 1 .. m : n \in 0 .. m /\ n # 0
  OBVIOUS
<1> QED BY <1>1, <1>2

LEMMA LineGrows ==
  ASSUME NEW key, NEW m \in Nat, NEW line, IsLine(line, key, m)
  PROVE  \A n \in 1 .. m : line[n] = Longer(key, line[n - 1])
BY LineSteps

LEMMA LineInReplaced ==
  ASSUME NEW key, NEW m \in Nat, NEW line, IsLine(line, key, m), NEW n \in 0 .. m
  PROVE  line[n] \subseteq Replaced
<1>0. PICK T : T = {i \in 0 .. m : ~ (line[i] \subseteq Replaced)}
  OBVIOUS
<1>1. SUFFICES ASSUME T # {}
               PROVE  FALSE
  BY <1>0
<1>2. PICK i \in T : \A j \in T : i <= j
  <2>1. T \subseteq Nat
    BY <1>0
  <2> QED BY <1>1, <2>1, LeastNatural
<1>3. i \in 1 .. m
  <2>1. i # 0
    BY <1>0, LineSteps
  <2> QED BY <1>0, <2>1
<1>4. i - 1 \in 0 .. m /\ i - 1 \notin T
  BY <1>0, <1>2, <1>3
<1>5. ReplacedBy({key} \cup line[i - 1]) \subseteq Replaced
  BY DEF ReplacedBy, Replaced
<1>6. line[i] = Longer(key, line[i - 1])
  <2>1. \A j \in 1 .. m : line[j] = Longer(key, line[j - 1])
    BY LineGrows
  <2> QED BY <1>3, <2>1
<1>7. line[i - 1] \subseteq Replaced
  BY <1>0, <1>4
<1>8. line[i] = line[i - 1] \cup ReplacedBy({key} \cup line[i - 1])
  BY <1>6 DEF Longer
<1>9. ~ (line[i] \subseteq Replaced)
  BY <1>0, <1>2
<1> QED BY <1>5, <1>7, <1>8, <1>9

(* A line that has stopped growing is closed: nothing that the key or one  *)
(* of its predecessors replaces is missing from it.                        *)
LEMMA LineStays ==
  ASSUME NEW key, NEW m \in Nat, NEW line, IsLine(line, key, m),
         NEW n \in 0 .. m, ReplacedBy({key} \cup line[n]) \subseteq line[n]
  PROVE  line[m] = line[n]
<1>0. PICK T : T = {i \in n .. m : line[i] # line[n]}
  OBVIOUS
<1>1. SUFFICES ASSUME T # {}
               PROVE  FALSE
  BY <1>0
<1>2. PICK i \in T : \A j \in T : i <= j
  <2>1. T \subseteq Nat
    BY <1>0
  <2> QED BY <1>1, <2>1, LeastNatural
<1>3. i \in 1 .. m /\ i \in n .. m /\ i # n
  BY <1>0
<1>4. i - 1 \in n .. m /\ i - 1 \notin T
  BY <1>2, <1>3
<1>5. line[i - 1] = line[n]
  BY <1>0, <1>4
<1>6. line[i] = Longer(key, line[i - 1])
  <2>1. \A j \in 1 .. m : line[j] = Longer(key, line[j - 1])
    BY LineGrows
  <2> QED BY <1>3, <2>1
<1>7. line[i] = line[n]
  BY <1>5, <1>6 DEF Longer
<1>8. line[i] # line[n]
  BY <1>0, <1>2
<1> QED BY <1>7, <1>8

(* It has stopped growing after as many steps as the store has keys.       *)
LEMMA LineIsClosed ==
  ASSUME NEW key, NEW line, IsLine(line, key, KeyCount)
  PROVE  ReplacedBy({key} \cup line[KeyCount]) \subseteq line[KeyCount]
<1>0. KeyCount \in Nat
  BY ReplacedIsFinite
<1>1. SUFFICES ASSUME NEW p \in ReplacedBy({key} \cup line[KeyCount]), p \notin line[KeyCount]
               PROVE  FALSE
  OBVIOUS
<1>2. \A n \in 0 .. KeyCount : ~ (ReplacedBy({key} \cup line[n]) \subseteq line[n])
  BY <1>0, <1>1, LineStays
<1>3. \A n \in 0 .. KeyCount : /\ IsFiniteSet(line[n])
                               /\ Cardinality(line[n]) \in Nat
  BY <1>0, LineInReplaced, ReplacedIsFinite, FS_Subset, FS_CardinalityType
<1>T. PICK T : T = {n \in 0 .. KeyCount : Cardinality(line[n]) < n}
  OBVIOUS
<1>4. ASSUME T # {}
      PROVE  FALSE
  <2>1. PICK n \in T : \A j \in T : n <= j
    <3>1. T \subseteq Nat
      BY <1>0, <1>T
    <3> QED BY <1>4, <3>1, LeastNatural
  <2>2. n \in 1 .. KeyCount
    <3>1. n # 0
      <4>1. Cardinality(line[0]) \in Nat
        BY <1>0, <1>3
      <4> QED BY <1>T, <4>1
    <3> QED BY <1>0, <1>T, <3>1
  <2>3. /\ n - 1 \in 0 .. KeyCount
        /\ n - 1 \notin T
    BY <1>0, <2>1, <2>2
  <2>4. Cardinality(line[n - 1]) >= n - 1
    BY <1>0, <1>3, <1>T, <2>2, <2>3
  <2>5. line[n] = Longer(key, line[n - 1])
    <3>1. \A j \in 1 .. KeyCount : line[j] = Longer(key, line[j - 1])
      BY <1>0, LineGrows
    <3> QED BY <2>2, <3>1
  <2>6. line[n - 1] \subseteq line[n] /\ line[n - 1] # line[n]
    BY <1>2, <2>3, <2>5 DEF Longer
  <2>7. Cardinality(line[n - 1]) < Cardinality(line[n])
    <3>1. line[n - 1] \in SUBSET line[n] /\ IsFiniteSet(line[n])
      BY <1>0, <1>3, <2>2, <2>6
    <3>2. /\ Cardinality(line[n - 1]) <= Cardinality(line[n])
          /\ Cardinality(line[n]) = Cardinality(line[n - 1]) => line[n] = line[n - 1]
      BY <3>1, FS_Subset
    <3>3. Cardinality(line[n - 1]) \in Nat /\ Cardinality(line[n]) \in Nat
      BY <1>0, <1>3, <2>2, <2>3
    <3> QED BY <2>6, <3>2, <3>3
  <2>8. Cardinality(line[n]) < n
    BY <1>T
  <2>9. Cardinality(line[n - 1]) \in Nat /\ Cardinality(line[n]) \in Nat /\ n \in Nat
    BY <1>0, <1>3, <2>2, <2>3
  <2> QED BY <2>4, <2>7, <2>8, <2>9
<1>5. Cardinality(line[KeyCount]) >= KeyCount
  BY <1>0, <1>3, <1>4, <1>T
<1>6. /\ line[KeyCount] \cup {p} \in SUBSET Replaced
      /\ IsFiniteSet(line[KeyCount])
  <2>1. line[KeyCount] \subseteq Replaced
    BY <1>0, LineInReplaced
  <2>2. p \in Replaced
    BY <1>1 DEF ReplacedBy, Replaced
  <2> QED BY <1>0, <1>3, <2>1, <2>2
<1>7. Cardinality(line[KeyCount] \cup {p}) = Cardinality(line[KeyCount]) + 1
  BY <1>1, <1>6, FS_AddElement
<1>8. Cardinality(line[KeyCount] \cup {p}) <= Cardinality(Replaced)
  BY <1>6, ReplacedIsFinite, FS_Subset
<1>9. Cardinality(Replaced) \in Nat /\ Cardinality(line[KeyCount]) \in Nat
  BY <1>0, <1>3, ReplacedIsFinite, FS_CardinalityType
<1> QED BY <1>0, <1>5, <1>7, <1>8, <1>9, ReplacedIsFinite

(* A line of a key of the line is part of the line: succession through     *)
(* trusted intermediates is succession.                                    *)
LEMMA SuccessionIsTransitive ==
  ASSUME NEW a, NEW b, NEW c, Succeeds(c, b), Succeeds(b, a)
  PROVE  Succeeds(c, a)
<1>0. KeyCount \in Nat
  BY ReplacedIsFinite
<1>1. PICK lineC : /\ IsLine(lineC, c, KeyCount)
                   /\ \A p : Succeeds(c, p) <=> p \in lineC[KeyCount]
  BY LineOfKey
<1>2. PICK lineB : /\ IsLine(lineB, b, KeyCount)
                   /\ \A p : Succeeds(b, p) <=> p \in lineB[KeyCount]
  BY LineOfKey
<1>3. b \in lineC[KeyCount] /\ a \in lineB[KeyCount]
  BY <1>1, <1>2
<1>4. ReplacedBy({c} \cup lineC[KeyCount]) \subseteq lineC[KeyCount]
  BY <1>1, LineIsClosed
<1>T. PICK T : T = {n \in 0 .. KeyCount : ~ (lineB[n] \subseteq lineC[KeyCount])}
  OBVIOUS
<1>5. ASSUME T # {}
      PROVE  FALSE
  <2>1. PICK n \in T : \A j \in T : n <= j
    <3>1. T \subseteq Nat
      BY <1>0, <1>T
    <3> QED BY <1>5, <3>1, LeastNatural
  <2>2. n \in 1 .. KeyCount
    <3>1. n # 0
      BY <1>0, <1>2, <1>T, LineSteps
    <3> QED BY <1>0, <1>T, <3>1
  <2>3. n - 1 \in 0 .. KeyCount /\ n - 1 \notin T
    BY <1>0, <2>1, <2>2
  <2>4. ReplacedBy({b} \cup lineB[n - 1]) \subseteq ReplacedBy({c} \cup lineC[KeyCount])
    BY <1>0, <1>3, <1>T, <2>2, <2>3 DEF ReplacedBy
  <2>5. lineB[n] = Longer(b, lineB[n - 1])
    <3>1. \A j \in 1 .. KeyCount : lineB[j] = Longer(b, lineB[j - 1])
      BY <1>0, <1>2, LineGrows
    <3> QED BY <2>2, <3>1
  <2>6. lineB[n - 1] \subseteq lineC[KeyCount]
    BY <1>T, <2>3
  <2> QED BY <1>4, <1>T, <2>4, <2>5, <2>6 DEF Longer
<1> QED BY <1>0, <1>1, <1>3, <1>5, <1>T

-----------------------------------------------------------------------------
(* One line of keys.                                                       *)

(* The pinned key succeeds every key that has vouched for a record.        *)
KeyInv(st) ==
  R_STREAM_KEY_CHANGED \notin st.codes =>
    /\ \A i \in Vouchers(st.log) :
         st.key # NoKey /\ (st.key = st.log[i].by \/ Succeeds(st.key, st.log[i].by))
    /\ \A i, j \in Vouchers(st.log) :
         i < j => st.log[i].by = st.log[j].by \/ Succeeds(st.log[j].by, st.log[i].by)

LEMMA ConsumedKey ==
  ASSUME NEW st \in StreamState, NEW r \in Records
  PROVE  /\ Consumed(st, r).key = IF Holds(r) THEN PinnedKey(st, r) ELSE st.key
         /\ Consumed(st, r).log = Append(st.log, LogEntry(r))
         /\ st.codes \subseteq Consumed(st, r).codes
         /\ Holds(r) /\ KeyChanged(st, r) => R_STREAM_KEY_CHANGED \in Consumed(st, r).codes
<1>1. /\ Consumed(st, r).key = IF Holds(r) THEN PinnedKey(st, r) ELSE st.key
      /\ Consumed(st, r).log = Append(st.log, LogEntry(r))
      /\ Consumed(st, r).codes = st.codes \cup RecordCodes(st, r)
                                   \cup On(BreakSessions(st, r) # {}, R_CHAIN_BROKEN)
  BY DEF Consumed, StreamState
<1>2. ASSUME Holds(r), KeyChanged(st, r)
      PROVE  R_STREAM_KEY_CHANGED \in RecordCodes(st, r)
  <2>1. R_STREAM_KEY_CHANGED \in VerifiedCodes(st, r)
    BY <1>2 DEF VerifiedCodes, On
  <2>2. R_STREAM_KEY_CHANGED \in SignatureCodes(st, r)
    BY <1>2, <2>1 DEF SignatureCodes, Holds
  <2> QED BY <2>2 DEF RecordCodes
<1> QED BY <1>1, <1>2

LEMMA KeyStep ==
  ASSUME IInv, [Next]_vars, NEW s \in Streams, KeyInv(streams[s])
  PROVE  KeyInv(streams'[s])
<1>1. CASE KeepsHistory(s)
  BY <1>1 DEF KeepsHistory, KeyInv
<1>2. ASSUME NEW r \in Records, NEW st \in StreamState, ConsumesOne(s, st, r)
      PROVE  KeyInv(streams'[s])
  <2> DEFINE c == Consumed(st, r)
             n == Len(st.log) + 1
  <2>1. /\ c.key = IF Holds(r) THEN PinnedKey(st, r) ELSE st.key
        /\ c.log = Append(st.log, LogEntry(r)) /\ st.codes \subseteq c.codes
        /\ Holds(r) /\ KeyChanged(st, r) => R_STREAM_KEY_CHANGED \in c.codes
    BY ConsumedKey
  <2>2. /\ DOMAIN c.log = 1 .. n /\ n \in Nat /\ n > 0
        /\ DOMAIN st.log = 1 .. n - 1
        /\ \A i \in 1 .. n - 1 : c.log[i] = st.log[i]
        /\ c.log[n] = LogEntry(r)
    BY <2>1, ConsumedLog, StreamNumbers
  <2>3. KeyInv(st)
    <3>1. CASE st.log = <<>>
      BY <3>1 DEF KeyInv, Vouchers
    <3>2. CASE st.log = streams[s].log /\ st.codes = streams[s].codes /\ st.key = streams[s].key
      BY <3>2 DEF KeyInv
    <3> QED BY <1>2, <3>1, <3>2, SourceHistory
  <2>4. streams'[s] = c
    BY <1>2 DEF ConsumesOne
  <2> HIDE DEF c, n
  <2>5. SUFFICES ASSUME R_STREAM_KEY_CHANGED \notin c.codes
                 PROVE  /\ \A i \in Vouchers(c.log) :
                             c.key # NoKey /\ (c.key = c.log[i].by \/ Succeeds(c.key, c.log[i].by))
                        /\ \A i, j \in Vouchers(c.log) :
                             i < j => \/ c.log[i].by = c.log[j].by
                                      \/ Succeeds(c.log[j].by, c.log[i].by)
    BY <2>4 DEF KeyInv
  <2>6. /\ \A i \in Vouchers(st.log) :
             st.key # NoKey /\ (st.key = st.log[i].by \/ Succeeds(st.key, st.log[i].by))
        /\ \A i, j \in Vouchers(st.log) :
             i < j => st.log[i].by = st.log[j].by \/ Succeeds(st.log[j].by, st.log[i].by)
    BY <2>1, <2>3, <2>5 DEF KeyInv
  <2>7. CASE ~Holds(r)
    <3>1. c.log[n].by = NoKey
      BY <2>2, <2>7 DEF LogEntry
    <3>2. /\ Vouchers(c.log) = Vouchers(st.log)
          /\ \A i \in Vouchers(st.log) : c.log[i] = st.log[i]
      BY <2>2, <3>1 DEF Vouchers
    <3>3. c.key = st.key
      BY <2>1, <2>7
    <3> QED BY <2>6, <3>2, <3>3
  <2>8. CASE Holds(r)
    <3>1. r.key # NoKey
      BY <2>8, HoldsIsAcceptable DEF Acceptable, Signed
    <3>2. ~KeyChanged(st, r) /\ c.key = r.key
      BY <2>1, <2>5, <2>8 DEF PinnedKey
    <3>3. c.log[n].by = r.key
      BY <2>2, <2>8 DEF LogEntry
    <3>4. /\ Vouchers(c.log) = Vouchers(st.log) \cup {n}
          /\ \A i \in Vouchers(st.log) : c.log[i] = st.log[i] /\ i \in 1 .. n - 1
      BY <2>2, <3>1, <3>3 DEF Vouchers
    <3>5. ASSUME NEW i \in Vouchers(st.log)
          PROVE  r.key = st.log[i].by \/ Succeeds(r.key, st.log[i].by)
      <4>1. st.key # NoKey /\ (st.key = st.log[i].by \/ Succeeds(st.key, st.log[i].by))
        BY <2>6
      <4>2. r.key = st.key \/ Succeeds(r.key, st.key)
        BY <3>2, <4>1 DEF KeyChanged
      <4> QED BY <4>1, <4>2, SuccessionIsTransitive
    <3>6. \A i \in Vouchers(c.log) :
            c.key # NoKey /\ (c.key = c.log[i].by \/ Succeeds(c.key, c.log[i].by))
      BY <3>1, <3>2, <3>3, <3>4, <3>5
    <3>7. ASSUME NEW i \in Vouchers(c.log), NEW j \in Vouchers(c.log), i < j
          PROVE  c.log[i].by = c.log[j].by \/ Succeeds(c.log[j].by, c.log[i].by)
      <4>1. i # n
        BY <2>2, <3>4, <3>7
      <4>2. CASE j = n
        BY <3>3, <3>4, <3>5, <4>1, <4>2
      <4>3. CASE j # n
        BY <2>6, <3>4, <3>7, <4>1, <4>3
      <4> QED BY <4>2, <4>3
    <3> QED BY <3>6, <3>7
  <2> QED BY <2>7, <2>8
<1> QED BY <1>1, <1>2, HistoryStep

(* A stream whose key was never found changed is signed by one line of     *)
(* keys, each succeeding those before it (_pin_key, TrustStore.succeeds).  *)
THEOREM StreamsHaveOneKeyLine == Spec => []OneLineOfKeys
<1> DEFINE Inv == \A s \in Streams : KeyInv(streams[s])
<1>1. Init => Inv
  BY DEF Init, KeyInv, UnopenedStream, Vouchers
<1>2. IInv /\ Inv /\ [Next]_vars => Inv'
  BY KeyStep
<1>3. Inv => OneLineOfKeys
  BY DEF KeyInv, OneLineOfKeys
<1> QED BY <1>1, <1>2, <1>3, Inductive, PTL DEF Spec
=============================================================================
