------------------------ MODULE StreamVerifierProofs ------------------------
(***************************************************************************)
(* Proofs about one run of the stream verifier, for every set of streams,  *)
(* sessions, keys and records, every trust store and every bound.          *)
(***************************************************************************)
EXTENDS StreamVerifierProps, SequenceTheorems, FiniteSetTheorems, TLAPS

USE DEF NoSeq, NoClock, NoHead, NoSig

-----------------------------------------------------------------------------
(* What the operators of the verifier return.                              *)

LEMMA RecordType ==
  ASSUME NEW r \in Records
  PROVE  /\ r \in SidecarRecord
         /\ r.stream \in Streams /\ r.seq \in Nat /\ r.session \in AnySession
         /\ r.body \in Bodies /\ r.prev \in Heads /\ r.chain \in Heads
         /\ r.key \in AnyKey /\ r.final \in BOOLEAN
         /\ r.clock \in Nat \cup {NoClock}
BY RecordsAssumption DEF SidecarRecord

(* Folding a body into a head gives a head one element longer.             *)
LEMMA ChainStepType ==
  ASSUME NEW h \in Heads, NEW b \in Bodies
  PROVE  /\ ChainStep(h, b) \in Heads
         /\ ChainStep(h, b) # NoHead
         /\ Len(ChainStep(h, b)) = Len(h) + 1
         /\ ChainStep(h, b)[Len(h) + 1] = b
         /\ \A i \in 1 .. Len(h) : ChainStep(h, b)[i] = h[i]
BY DEF ChainStep, Heads

LEMMA ChainSeedType ==
  ASSUME NEW s \in Streams, NEW k \in AnyKey
  PROVE  ChainSeed(s, k) \in Heads /\ ChainSeed(s, k) # NoHead /\ Len(ChainSeed(s, k)) = 1
BY DEF ChainSeed, Heads

LEMMA NoHeadIsHead == NoHead \in Heads
BY DEF Heads

LEMMA NextHeadType ==
  ASSUME NEW st \in StreamState, NEW r \in Records
  PROVE  NextHead(st, r) \in Heads
BY RecordType, ChainStepType DEF NextHead, ExpectedChain, StreamState

LEMMA RecordCodesType ==
  ASSUME NEW st \in StreamState, NEW r \in Records
  PROVE  RecordCodes(st, r) \in SUBSET Codes /\ SessionOnlyCodes(r) \in SUBSET Codes
<1>1. VerifiedCodes(st, r) \in SUBSET Codes
  BY DEF VerifiedCodes, On, Codes, INADMISSIBLE
<1>2. SignatureCodes(st, r) \in SUBSET Codes
  BY <1>1 DEF SignatureCodes, On, Codes, INADMISSIBLE
<1>3. RecordCodes(st, r) \in SUBSET Codes
  BY <1>2 DEF RecordCodes, On, Codes, INADMISSIBLE
<1>4. SessionOnlyCodes(r) \in SUBSET Codes
  BY DEF SessionOnlyCodes, On, Codes
<1> QED BY <1>3, <1>4

LEMMA ConsumedType ==
  ASSUME NEW st \in StreamState, NEW r \in Records
  PROVE  Consumed(st, r) \in StreamState
<1> DEFINE
      head       == NextHead(st, r)
      expected   == r.seq + 1
      session    == r.session
      seq        == r.seq
      first      == IF st.first = NoSeq THEN r.seq ELSE st.first
      firstPrev  == IF st.first = NoSeq THEN r.prev ELSE st.firstPrev
      reached    == IF AtCheckpoint(st, r) THEN TRUE ELSE st.reached
      checkpoint == IF AtCheckpoint(st, r) THEN NextHead(st, r) ELSE st.checkpoint
      feeds      == st.feeds \cup {r.session}
      codes      == st.codes \cup RecordCodes(st, r)
                      \cup On(BreakSessions(st, r) # {}, R_CHAIN_BROKEN)
      verifiedTo == VerifiedTo(st, r)
      closedAt   == IF Holds(r) /\ r.final /\ (st.closedAt = NoSeq \/ r.seq < st.closedAt)
                      THEN r.seq ELSE st.closedAt
      finalSeen  == IF r.final THEN TRUE ELSE st.finalSeen
      unscored   == IF r.session = NoSession THEN TRUE ELSE st.unscored
      key        == IF Holds(r) THEN PinnedKey(st, r) ELSE st.key
      log        == Append(st.log, LogEntry(r))
<1>1. Consumed(st, r) =
        [st EXCEPT !.expected = expected, !.head = head, !.lastSession = session,
                   !.first = first, !.firstPrev = firstPrev, !.last = seq,
                   !.reached = reached, !.checkpoint = checkpoint, !.feeds = feeds,
                   !.codes = codes, !.verifiedTo = verifiedTo, !.closedAt = closedAt,
                   !.finalSeen = finalSeen, !.unscored = unscored, !.key = key,
                   !.log = log]
  BY DEF Consumed
<1>2. LogEntry(r) \in LogEntries
  BY RecordType DEF LogEntry, LogEntries, AnyKey
<1>3. log \in Seq(LogEntries)
  BY <1>2 DEF StreamState
<1>4. verifiedTo \in SeqOrNone
  BY RecordType DEF VerifiedTo, StreamState, SeqOrNone
<1>5. key \in AnyKey
  BY RecordType DEF PinnedKey, StreamState
<1>6. codes \in SUBSET Codes
  BY RecordCodesType DEF StreamState, On, Codes, INADMISSIBLE
<1>7. reached \in BOOLEAN /\ finalSeen \in BOOLEAN /\ unscored \in BOOLEAN
  BY DEF StreamState
<1>8. /\ expected \in Nat /\ seq \in SeqOrNone
      /\ first \in SeqOrNone /\ closedAt \in SeqOrNone
  BY RecordType DEF StreamState, SeqOrNone
<1>9. /\ head \in Heads /\ firstPrev \in Heads /\ checkpoint \in Heads
      /\ session \in AnySession /\ feeds \in SUBSET AnySession
  BY RecordType, NextHeadType DEF StreamState
<1> HIDE DEF head, expected, session, seq, first, firstPrev, reached, checkpoint, feeds,
             codes, verifiedTo, closedAt, finalSeen, unscored, key, log
<1>10. [st EXCEPT !.expected = expected, !.head = head, !.lastSession = session,
                  !.first = first, !.firstPrev = firstPrev, !.last = seq,
                  !.reached = reached, !.checkpoint = checkpoint, !.feeds = feeds,
                  !.codes = codes, !.verifiedTo = verifiedTo, !.closedAt = closedAt,
                  !.finalSeen = finalSeen, !.unscored = unscored, !.key = key,
                  !.log = log] \in StreamState
  BY <1>3, <1>4, <1>5, <1>6, <1>7, <1>8, <1>9 DEF StreamState
<1> QED BY <1>1, <1>10

(* What arithmetic needs of a stream.                                      *)
LEMMA StreamNumbers ==
  ASSUME NEW st \in StreamState
  PROVE  /\ st.expected \in Nat /\ st.verifiedTo \in Int
         /\ st.log \in Seq(LogEntries) /\ Len(st.log) \in Nat
         /\ DOMAIN st.log = 1 .. Len(st.log)
         /\ \A i \in DOMAIN st.log : st.log[i].seq \in Nat
<1>1. st.log \in Seq(LogEntries)
  BY DEF StreamState
<1>2. /\ Len(st.log) \in Nat /\ DOMAIN st.log = 1 .. Len(st.log)
      /\ \A i \in DOMAIN st.log : st.log[i] \in LogEntries
  BY <1>1
<1>3. \A i \in DOMAIN st.log : st.log[i].seq \in Nat
  BY <1>2 DEF LogEntries
<1>4. st.expected \in Nat /\ st.verifiedTo \in Int
  BY DEF StreamState, SeqOrNone
<1> QED BY <1>1, <1>2, <1>3, <1>4

(* What the two CHOOSEs of the model choose: a non-empty set of naturals   *)
(* has a least element.                                                    *)
LEMMA LeastNatural ==
  ASSUME NEW T, T \subseteq Nat, T # {}
  PROVE  \E x \in T : \A y \in T : x <= y
<1> SUFFICES ASSUME \A x \in T : \E y \in T : y < x
             PROVE  FALSE
  OBVIOUS
<1> PICK n \in T : TRUE
  OBVIOUS
<1> DEFINE S    == {x \in 0 .. n : \E t \in T : t <= x}
           pred == [x \in S |-> x - 1]
<1>1. \A x \in S : x \in Int /\ x <= n /\ x - 1 \in S
  OBVIOUS
<1>2. n \in S
  OBVIOUS
<1>3. IsFiniteSet(S)
  <2>1. IsFiniteSet(0 .. n)
    BY FS_Interval
  <2> QED BY <2>1, FS_Subset
<1> HIDE DEF S
<1>4. pred \in Injection(S, S)
  BY <1>1 DEF Injection, IsInjective
<1>5. pred \in Surjection(S, S)
  BY <1>3, <1>4, FS_Injection
<1>6. \E x \in S : x - 1 = n
  BY <1>2, <1>5 DEF Surjection
<1> QED BY <1>1, <1>6

LEMMA EarliestIsHeld ==
  ASSUME NEW st \in StreamState, st.pending # {}
  PROVE  /\ Earliest(st) \in st.pending
         /\ \A q \in st.pending : Earliest(st).seq <= q.seq
<1> DEFINE T == {p.seq : p \in st.pending}
<1>1. T \subseteq Nat /\ T # {}
  BY RecordType DEF StreamState
<1>2. \E x \in T : \A y \in T : x <= y
  BY <1>1, LeastNatural
<1>3. \E p \in st.pending : \A q \in st.pending : p.seq <= q.seq
  BY <1>2
<1> QED BY <1>3 DEF Earliest

LEMMA LeastOfIsMember ==
  ASSUME NEW T, T \subseteq Nat, T # {}
  PROVE  LeastOf(T) \in T
BY LeastNatural DEF LeastOf

LEMMA ForcedType ==
  ASSUME NEW st \in StreamState
  PROVE  Forced(st) \in StreamState
<1>1. CASE ~Skips(st)
  BY <1>1 DEF Forced
<1>2. CASE Skips(st)
  <2>1. /\ Earliest(st).prev \in Heads /\ Earliest(st).seq \in Nat
    BY <1>2, EarliestIsHeld, RecordType DEF Skips, StreamState
  <2>2. st.codes \cup On(GapSessions(st) # {}, R_SEQUENCE_GAP) \in SUBSET Codes
    BY DEF StreamState, On, Codes, INADMISSIBLE
  <2> QED BY <1>2, <2>1, <2>2 DEF Forced, StreamState
<1> QED BY <1>1, <1>2

LEMMA BeginType ==
  ASSUME NEW r \in Records, IsLedger(ledger)
  PROVE  Begin(r) \in StreamState
<1> DEFINE head  == IF r.seq = 0 THEN ChainSeed(r.stream, r.key) ELSE r.prev
           seq   == r.seq
           cpSeq == IF LedgerEnabled /\ Known(ledger, r.stream)
                      THEN ledger.entries[r.stream].last ELSE NoSeq
<1>1. UnopenedStream \in StreamState
  BY NoHeadIsHead DEF UnopenedStream, StreamState, SeqOrNone, AnySession, AnyKey
<1>2. head \in Heads
  BY RecordType, ChainSeedType
<1>3. cpSeq \in SeqOrNone
  BY RecordType DEF IsLedger, Known, SeenStreams, SeqOrNone
<1>4. seq \in Nat
  BY RecordType
<1>5. Begin(r) = [UnopenedStream EXCEPT !.open = TRUE, !.head = head,
                                        !.expected = seq, !.cpSeq = cpSeq]
  BY DEF Begin
<1> HIDE DEF head, seq, cpSeq
<1> QED BY <1>1, <1>2, <1>3, <1>4, <1>5 DEF StreamState

LEMMA NotedType ==
  ASSUME NEW ss \in [AnySession -> SessionState], NEW who, NEW codes \in SUBSET Codes
  PROVE  Noted(ss, who, codes) \in [AnySession -> SessionState]
BY DEF Noted, SessionState

LEMMA WithSidecarType ==
  ASSUME NEW r \in Records, sessions \in [AnySession -> SessionState]
  PROVE  WithSidecar(r) \in [AnySession -> SessionState]
BY RecordType DEF WithSidecar, SessionState

LEMMA ConsumedSessionsType ==
  ASSUME NEW ss \in [AnySession -> SessionState], NEW st \in StreamState, NEW r \in Records
  PROVE  ConsumedSessions(ss, st, r) \in [AnySession -> SessionState]
<1> DEFINE broken == Noted(ss, BreakSessions(st, r), {R_CHAIN_BROKEN})
           noted  == Noted(broken, {r.session}, RecordCodes(st, r) \cup SessionOnlyCodes(r))
           tried  == noted[r.session].tried \/ Attempts(r)
           dated  == \/ noted[r.session].dated
                     \/ Holds(r) /\ Freshness.enabled /\ r.clock # NoClock
<1>1. broken \in [AnySession -> SessionState]
  BY NotedType DEF Codes, INADMISSIBLE
<1>2. noted \in [AnySession -> SessionState]
  <2> HIDE DEF broken
  <2> QED BY <1>1, RecordCodesType, NotedType
<1>3. ConsumedSessions(ss, st, r) =
        [noted EXCEPT ![r.session].tried = tried, ![r.session].dated = dated]
  BY DEF ConsumedSessions
<1>4. tried \in BOOLEAN /\ dated \in BOOLEAN
  OBVIOUS
<1>5. r.session \in AnySession
  BY RecordType
<1> HIDE DEF noted, tried, dated
<1> QED BY <1>2, <1>3, <1>4, <1>5 DEF SessionState

LEMMA RecordLedgerType ==
  ASSUME IsLedger(ledger), NEW s \in Streams, NEW verdict, NEW admit \in BOOLEAN,
         NEW view, view.first \in Nat, view.last \in Nat, view.head \in Heads,
         view.closed \in BOOLEAN
  PROVE  IsLedger(Record(ledger, s, verdict, view, admit))
<1> DEFINE previous == ledger.entries[s]
<1>1. SeenStream(view) \in SeenStreams
  BY DEF SeenStream, SeenStreams
<1>2. ASSUME Known(ledger, s)
      PROVE  MergedStream(previous, view) \in SeenStreams
  <2>1. previous \in SeenStreams
    BY <1>2 DEF IsLedger, Known
  <2>2. view.closed \/ previous.closed \in BOOLEAN
    BY <2>1 DEF SeenStreams
  <2> QED BY <2>1, <2>2 DEF MergedStream, SeenStreams
<1>3. CASE ~Advances(verdict, admit)
  BY <1>3 DEF Record
<1>4. CASE Advances(verdict, admit) /\ Known(ledger, s)
  <2>1. Record(ledger, s, verdict, view, admit)
          = [ledger EXCEPT !.entries[s] = MergedStream(previous, view)]
    BY <1>4 DEF Record
  <2> QED BY <1>2, <1>4, <2>1 DEF IsLedger, Known
<1>5. CASE Advances(verdict, admit) /\ ~Known(ledger, s) /\ LedgerFull(ledger)
  BY <1>5 DEF Record, IsLedger
<1>6. CASE Advances(verdict, admit) /\ ~Known(ledger, s) /\ ~LedgerFull(ledger)
  <2>1. Record(ledger, s, verdict, view, admit)
          = [ledger EXCEPT !.entries =
               [t \in DOMAIN ledger.entries \cup {s} |->
                  IF t = s THEN SeenStream(view) ELSE ledger.entries[t]]]
    BY <1>6 DEF Record
  <2> QED BY <1>1, <1>6, <2>1 DEF IsLedger, Known
<1> QED BY <1>3, <1>4, <1>5, <1>6

-----------------------------------------------------------------------------
(* The inductive invariant: what holds of each stream by itself, between   *)
(* any two steps of the run.                                               *)

(* An open stream has consumed its first record, and only its own records  *)
(* wait for it.                                                            *)
Shape(s, st) ==
  /\ st.open <=> st.log # <<>>
  /\ ~st.open => st.pending = {}
  /\ \A p \in st.pending : p.stream = s

(* The extent the stream reports is that of what it consumed.              *)
Extent(st) ==
  /\ st.log = <<>> => st.first = NoSeq
  /\ st.log # <<>> => /\ st.first       = st.log[1].seq
                      /\ st.last        = st.log[Len(st.log)].seq
                      /\ st.lastSession = st.log[Len(st.log)].session
  /\ st.verifiedTo < st.expected

InOrder(st) ==
  /\ \A i \in DOMAIN st.log : st.log[i].seq < st.expected
  /\ \A i, j \in DOMAIN st.log : i < j => st.log[i].seq < st.log[j].seq

AllScored(st) ==
  ~st.unscored => \A i \in DOMAIN st.log : st.log[i].session # NoSession

(* The codes that say the chain did not hold from first record to last.    *)
Clean(st) ==
  /\ ~st.unscored
  /\ st.codes \cap {R_SEQUENCE_GAP, R_CHAIN_BROKEN, R_CHAIN_UNANCHORED} = {}

Contiguous(st) ==
  \A i \in DOMAIN st.log : st.log[i].seq = st.expected - Len(st.log) + i - 1

(* The head commits to every body consumed, at its distance from the end.  *)
Folded(st) ==
  /\ Len(st.head) >= Len(st.log)
  /\ \A i \in DOMAIN st.log :
       st.head[Len(st.head) - Len(st.log) + i] = st.log[i].body

AsWritten(s, st) ==
  \A i \in DOMAIN st.log :
    st.log[i].seq <= st.verifiedTo =>
      /\ st.log[i].seq < Len(Written[s])
      /\ st.log[i].body = Written[s][st.log[i].seq + 1]

Faithful(s, st) == Clean(st) => Contiguous(st) /\ Folded(st) /\ AsWritten(s, st)

StreamInv(s, st) ==
  Shape(s, st) /\ Extent(st) /\ InOrder(st) /\ AllScored(st) /\ Faithful(s, st)

(* The reorder budget's counter is the number of records held.             *)
HeldRecords == UNION {streams[s].pending : s \in Streams}

Counted == IsFiniteSet(HeldRecords) /\ pendingTotal = Cardinality(HeldRecords)

(* The record in hand is not also held.                                    *)
InHandOK ==
  inHand # <<>> =>
    /\ streams[inHand[1].stream].open
    /\ ~Held(streams[inHand[1].stream], inHand[1].seq)

IInv ==
  /\ TypeOK
  /\ \A s \in Streams : StreamInv(s, streams[s])
  /\ InHandOK
  /\ Counted

-----------------------------------------------------------------------------
(* What the collector's signatures vouch for.                              *)

LEMMA GenuineHeadType ==
  ASSUME NEW s \in Streams, NEW n \in 0 .. Len(Written[s])
  PROVE  /\ Len(GenuineHead(s, n)) = n + 1
         /\ \A m \in 1 .. n : GenuineHead(s, n)[m + 1] = Written[s][m]
<1> DEFINE seed == ChainSeed(s, SeedKey[s])
           body == SubSeq(Written[s], 1, n)
<1>1. Written[s] \in Seq(Bodies) /\ SeedKey[s] \in AnyKey
  BY WrittenAssumption DEF AnyKey
<1>2. seed \in Heads /\ Len(seed) = 1
  BY <1>1, ChainSeedType
<1>3. body \in Seq(Bodies) /\ Len(body) = n /\ \A m \in 1 .. n : body[m] = Written[s][m]
  BY <1>1
<1>4. body \in Heads
  BY <1>3 DEF Heads
<1>5. GenuineHead(s, n) = seed \o body
  BY DEF GenuineHead
<1> HIDE DEF seed, body
<1>6. /\ Len(seed \o body) = Len(seed) + Len(body)
      /\ \A i \in 1 .. Len(seed) + Len(body) :
           (seed \o body)[i] = IF i <= Len(seed) THEN seed[i] ELSE body[i - Len(seed)]
  BY <1>2, <1>4, ConcatProperties DEF Heads
<1> QED BY <1>2, <1>3, <1>5, <1>6

LEMMA HoldsIsAcceptable ==
  ASSUME NEW r \in Records, Holds(r)
  PROVE  Acceptable(r)
BY DEF Holds, SignatureOutcome, Acceptable

-----------------------------------------------------------------------------
(* Each operation on one stream preserves the stream's invariant.          *)

LEMMA CodesAdded ==
  ASSUME NEW s \in Streams, NEW st \in StreamState, StreamInv(s, st),
         NEW codes \in SUBSET Codes
  PROVE  /\ [st EXCEPT !.codes = @ \cup codes] \in StreamState
         /\ StreamInv(s, [st EXCEPT !.codes = @ \cup codes])
<1> DEFINE c == [st EXCEPT !.codes = @ \cup codes]
<1>1. /\ c \in StreamState
      /\ c.open = st.open /\ c.log = st.log /\ c.pending = st.pending
      /\ c.first = st.first /\ c.last = st.last /\ c.lastSession = st.lastSession
      /\ c.verifiedTo = st.verifiedTo /\ c.expected = st.expected
      /\ c.unscored = st.unscored /\ c.head = st.head
      /\ st.codes \subseteq c.codes
  BY DEF StreamState
<1> HIDE DEF c
<1>2. Clean(c) => Clean(st)
  BY <1>1 DEF Clean
<1>3. StreamInv(s, c)
  BY <1>1, <1>2 DEF StreamInv, Shape, Extent, InOrder, AllScored, Faithful, Contiguous,
                    Folded, AsWritten
<1> QED BY <1>1, <1>3 DEF c

LEMMA RecordHeld ==
  ASSUME NEW s \in Streams, NEW st \in StreamState, StreamInv(s, st), st.open,
         NEW r \in Records, r.stream = s
  PROVE  /\ [st EXCEPT !.pending = @ \cup {r}] \in StreamState
         /\ StreamInv(s, [st EXCEPT !.pending = @ \cup {r}])
<1> DEFINE c == [st EXCEPT !.pending = @ \cup {r}]
<1>1. /\ c \in StreamState
      /\ c.open = st.open /\ c.log = st.log /\ c.pending = st.pending \cup {r}
      /\ c.first = st.first /\ c.last = st.last /\ c.lastSession = st.lastSession
      /\ c.verifiedTo = st.verifiedTo /\ c.expected = st.expected
      /\ c.unscored = st.unscored /\ c.head = st.head
      /\ st.codes = c.codes
  BY DEF StreamState
<1> HIDE DEF c
<1>2. Clean(c) => Clean(st)
  BY <1>1 DEF Clean
<1>3. StreamInv(s, c)
  BY <1>1, <1>2 DEF StreamInv, Shape, Extent, InOrder, AllScored, Faithful, Contiguous,
                    Folded, AsWritten
<1> QED BY <1>1, <1>3 DEF c

(* Forcing skips positions only ahead, and a gap nobody can be charged     *)
(* with means that the stream already lost an unscored record.             *)
LEMMA ForcedInv ==
  ASSUME NEW s \in Streams, NEW st \in StreamState, StreamInv(s, st), st.open
  PROVE  StreamInv(s, Forced(st))
<1>1. CASE ~Skips(st)
  BY <1>1 DEF Forced
<1>2. CASE Skips(st)
  <2> DEFINE c == Forced(st)
             e == Earliest(st)
  <2>1. e.seq \in Nat /\ e.seq > st.expected
    BY <1>2, EarliestIsHeld, RecordType DEF Skips, StreamState
  <2>2. /\ c.open = st.open /\ c.log = st.log /\ c.pending = st.pending
        /\ c.first = st.first /\ c.last = st.last /\ c.lastSession = st.lastSession
        /\ c.verifiedTo = st.verifiedTo /\ c.expected = e.seq
        /\ c.unscored = st.unscored
        /\ c.codes = st.codes \cup On(GapSessions(st) # {}, R_SEQUENCE_GAP)
    BY <1>2 DEF Forced, StreamState
  <2> HIDE DEF c, e
  <2>3. ~Clean(c)
    <3>1. CASE GapSessions(st) # {}
      BY <2>2, <3>1 DEF Clean, On
    <3>2. CASE GapSessions(st) = {}
      <4>1. st.lastSession = NoSession
        BY <1>2, <3>2 DEF GapSessions
      <4>2. st.log \in Seq(LogEntries) /\ st.log # <<>>
        BY DEF StreamInv, Shape, StreamState
      <4>3. Len(st.log) \in DOMAIN st.log
        BY <4>2
      <4>4. st.log[Len(st.log)].session = NoSession
        BY <4>1, <4>2 DEF StreamInv, Extent
      <4>5. AllScored(st)
        BY DEF StreamInv
      <4>6. st.unscored
        BY <4>3, <4>4, <4>5, Zenon DEF AllScored
      <4> QED BY <2>2, <4>6 DEF Clean
    <3> QED BY <3>1, <3>2
  <2>4. Extent(c) /\ InOrder(c)
    <3>1. Extent(st) /\ InOrder(st)
      BY DEF StreamInv
    <3> QED BY <2>1, <2>2, <3>1, StreamNumbers DEF Extent, InOrder
  <2> QED BY <2>2, <2>3, <2>4 DEF StreamInv, Shape, AllScored, Faithful, c
<1> QED BY <1>1, <1>2

(* A stream about to consume: one that is open, or one just begun.         *)
Based(s, st) ==
  /\ st.open /\ \A p \in st.pending : p.stream = s
  /\ Extent(st) /\ InOrder(st) /\ AllScored(st) /\ Faithful(s, st)

LEMMA ConsumedFields ==
  ASSUME NEW st \in StreamState, NEW r \in Records
  PROVE  LET c == Consumed(st, r) IN
         /\ c.open = st.open /\ c.pending = st.pending
         /\ c.log = Append(st.log, LogEntry(r))
         /\ c.expected = r.seq + 1 /\ c.last = r.seq
         /\ c.lastSession = r.session /\ c.head = NextHead(st, r)
         /\ c.first = IF st.first = NoSeq THEN r.seq ELSE st.first
         /\ c.verifiedTo = VerifiedTo(st, r)
         /\ c.unscored = IF r.session = NoSession THEN TRUE ELSE st.unscored
         /\ c.codes = st.codes \cup RecordCodes(st, r)
                       \cup On(BreakSessions(st, r) # {}, R_CHAIN_BROKEN)
BY DEF Consumed, StreamState

(* What Append does, with the old entries in their places.                 *)
LEMMA ConsumedLog ==
  ASSUME NEW st \in StreamState, NEW r \in Records
  PROVE  LET log == Append(st.log, LogEntry(r)) IN
         /\ log \in Seq(LogEntries) /\ log # <<>>
         /\ Len(log) = Len(st.log) + 1
         /\ DOMAIN log = 1 .. Len(st.log) + 1
         /\ \A i \in DOMAIN st.log : i \in DOMAIN log /\ log[i] = st.log[i]
         /\ \A i \in DOMAIN log : i \in DOMAIN st.log \/ i = Len(st.log) + 1
         /\ log[Len(st.log) + 1] = LogEntry(r)
<1>1. LogEntry(r) \in LogEntries
  BY RecordType DEF LogEntry, LogEntries, AnyKey
<1> QED BY <1>1, StreamNumbers

(* While the chain is clean, a consumed record extends the head by its     *)
(* own body and by nothing else.                                           *)
LEMMA CleanHeadSteps ==
  ASSUME NEW st \in StreamState, NEW r \in Records, Clean(Consumed(st, r)),
         st.head # NoHead \/ r.seq > 0
  PROVE  /\ Clean(st)
         /\ NextHead(st, r) = ChainStep(st.head, r.body)
         /\ r.chain # NoHead => r.chain = NextHead(st, r)
<1> DEFINE c == Consumed(st, r)
<1>1. /\ c.unscored = IF r.session = NoSession THEN TRUE ELSE st.unscored
      /\ c.codes = st.codes \cup RecordCodes(st, r)
                    \cup On(BreakSessions(st, r) # {}, R_CHAIN_BROKEN)
  BY ConsumedFields
<1> HIDE DEF c
<1>2. /\ ~c.unscored
      /\ R_SEQUENCE_GAP \notin c.codes /\ R_CHAIN_BROKEN \notin c.codes
      /\ R_CHAIN_UNANCHORED \notin c.codes
  BY DEF Clean, c
<1>3. r.session # NoSession
  BY <1>1, <1>2
<1>4. ~Unanchored(st, r)
  BY <1>1, <1>2 DEF RecordCodes, On
<1>5. st.head # NoHead
  BY <1>4, RecordType DEF Unanchored
<1>6. BreakSessions(st, r) = {}
  BY <1>1, <1>2 DEF On
<1>7. ~ChainBreaks(st, r)
  BY <1>3, <1>6 DEF BreakSessions
<1>8. ExpectedChain(st, r) = ChainStep(st.head, r.body)
  BY <1>5 DEF ExpectedChain
<1>9. ChainStep(st.head, r.body) # NoHead
  BY ChainStepType, RecordType DEF StreamState
<1>10. /\ NextHead(st, r) = ChainStep(st.head, r.body)
       /\ r.chain # NoHead => r.chain = NextHead(st, r)
  BY <1>5, <1>7, <1>8, <1>9 DEF ChainBreaks, NextHead
<1>11. Clean(st)
  BY <1>1, <1>2, <1>3 DEF Clean
<1> QED BY <1>10, <1>11

LEMMA ConsumedFaithful ==
  ASSUME NEW s \in Streams, NEW st \in StreamState, NEW r \in Records,
         Based(s, st), r.stream = s, r.seq = st.expected,
         st.head # NoHead \/ r.seq > 0, Clean(Consumed(st, r))
  PROVE  /\ Contiguous(Consumed(st, r))
         /\ Folded(Consumed(st, r))
         /\ AsWritten(s, Consumed(st, r))
<1> DEFINE c == Consumed(st, r)
           n == Len(st.log)
           h == Len(st.head)
<1>1. Contiguous(st) /\ Folded(st) /\ AsWritten(s, st)
  BY CleanHeadSteps DEF Based, Faithful
<1>2. /\ c.log = Append(st.log, LogEntry(r)) /\ c.expected = r.seq + 1
      /\ c.head = ChainStep(st.head, r.body)
      /\ r.chain # NoHead => r.chain = c.head
      /\ c.verifiedTo = VerifiedTo(st, r)
  BY ConsumedFields, CleanHeadSteps
<1>3. n \in Nat /\ DOMAIN st.log = 1 .. n /\ h \in Nat /\ r.seq \in Nat
  BY StreamNumbers, RecordType DEF StreamState, Heads
<1>4. /\ Len(c.log) = n + 1 /\ DOMAIN c.log = 1 .. n + 1
      /\ \A i \in 1 .. n : c.log[i] = st.log[i]
      /\ c.log[n + 1].seq = r.seq /\ c.log[n + 1].body = r.body
  BY <1>2, <1>3, ConsumedLog DEF LogEntry
<1>5. /\ Len(c.head) = h + 1 /\ c.head[h + 1] = r.body
      /\ \A i \in 1 .. h : c.head[i] = st.head[i]
  <2>1. st.head \in Heads /\ r.body \in Bodies
    BY RecordType DEF StreamState
  <2> HIDE DEF c
  <2> QED BY <1>2, <2>1, ChainStepType
<1> HIDE DEF c, n, h
<1>6. \A i \in 1 .. n + 1 : c.log[i].seq = c.expected - (n + 1) + i - 1
  <2>1. \A i \in 1 .. n : st.log[i].seq = r.seq - n + i - 1
    BY <1>1, <1>3 DEF Contiguous, n
  <2>2. ASSUME NEW i \in 1 .. n + 1
        PROVE  c.log[i].seq = r.seq - n + i - 1
    <3>1. CASE i \in 1 .. n
      BY <1>4, <2>1, <3>1
    <3>2. CASE i = n + 1
      BY <1>3, <1>4, <3>2
    <3> QED BY <1>3, <3>1, <3>2
  <2>3. c.expected = r.seq + 1 /\ r.seq \in Nat /\ n \in Nat
    BY <1>2, <1>3
  <2> QED BY <2>2, <2>3
<1>7. Contiguous(c)
  BY <1>4, <1>6 DEF Contiguous
<1>8. h >= n /\ \A i \in 1 .. n : st.head[h - n + i] = st.log[i].body
  BY <1>1, <1>3 DEF Folded, n, h
<1>9. \A i \in 1 .. n + 1 : c.head[(h + 1) - (n + 1) + i] = c.log[i].body
  <2> TAKE i \in 1 .. n + 1
  <2>1. CASE i \in 1 .. n
    <3>1. (h + 1) - (n + 1) + i = h - n + i /\ h - n + i \in 1 .. h
      BY <1>3, <1>8, <2>1
    <3> QED BY <1>4, <1>5, <1>8, <2>1, <3>1
  <2>2. CASE i = n + 1
    <3>1. (h + 1) - (n + 1) + i = h + 1
      BY <1>3, <2>2
    <3> QED BY <1>4, <1>5, <2>2, <3>1
  <2> QED BY <1>3, <2>1, <2>2
<1>10. Folded(c)
  <2>1. /\ Len(c.head) = h + 1 /\ Len(c.log) = n + 1 /\ DOMAIN c.log = 1 .. n + 1
        /\ h \in Nat /\ n \in Nat /\ h >= n
    BY <1>3, <1>4, <1>5, <1>8
  <2> QED BY <1>9, <2>1 DEF Folded
<1>11. AsWritten(s, c)
  <2>1. CASE Holds(r) /\ r.seq > st.verifiedTo
    <3>1. r.seq < Len(Written[s]) /\ r.chain = GenuineHead(s, r.seq + 1)
      BY <2>1, HoldsIsAcceptable, SignaturesAreGenuine
    <3>2. r.seq + 1 \in 0 .. Len(Written[s])
      BY <1>3, <3>1, WrittenAssumption
    <3>3. /\ Len(r.chain) = r.seq + 2
          /\ \A m \in 1 .. r.seq + 1 : r.chain[m + 1] = Written[s][m]
      BY <1>3, <3>1, <3>2, GenuineHeadType
    <3>4. r.chain = c.head
      <4>1. r.chain # NoHead
        BY <1>3, <3>3
      <4> QED BY <1>2, <4>1
    <3>5. h = r.seq + 1
      BY <1>3, <1>5, <3>3, <3>4
    <3>6. ASSUME NEW i \in 1 .. n + 1
          PROVE  /\ c.log[i].seq < Len(Written[s])
                 /\ c.log[i].body = Written[s][c.log[i].seq + 1]
      <4>1. n \in Nat /\ h \in Nat /\ r.seq \in Nat /\ h >= n /\ i \in Nat
        BY <1>3, <1>8
      <4>2. c.expected = r.seq + 1
        BY <1>2
      <4>3. c.log[i].seq = h - n + i - 2 /\ c.log[i].seq \in Nat
        <5>1. c \in StreamState
          BY ConsumedType DEF c
        <5>2. c.log[i].seq \in Nat
          BY <1>4, <5>1, StreamNumbers
        <5>3. c.log[i].seq = c.expected - (n + 1) + i - 1
          BY <1>6
        <5>4. \A x, y, z \in Int : x - (y + 1) + z - 1 = x - y + z - 2
          OBVIOUS
        <5>5. c.expected \in Int /\ n \in Int /\ i \in Int /\ c.expected = h
          BY <3>5, <4>1, <4>2
        <5>6. c.expected - (n + 1) + i - 1 = h - n + i - 2
          BY <5>4, <5>5
        <5> QED BY <5>2, <5>3, <5>6
      <4>4. c.log[i].seq + 1 \in 1 .. r.seq + 1
        BY <3>5, <4>1, <4>3
      <4>5. (c.log[i].seq + 1) + 1 = (h + 1) - (n + 1) + i
        BY <4>1, <4>3
      <4>6. c.log[i].body = r.chain[(c.log[i].seq + 1) + 1]
        BY <1>9, <3>4, <4>5
      <4>7. c.log[i].body = Written[s][c.log[i].seq + 1]
        BY <3>3, <4>4, <4>6
      <4>8. Len(Written[s]) \in Nat
        BY WrittenAssumption
      <4>9. c.log[i].seq <= r.seq
        BY <4>1, <4>3, <4>4
      <4> QED BY <3>1, <4>1, <4>3, <4>7, <4>8, <4>9
    <3> QED BY <1>4, <3>6 DEF AsWritten
  <2>2. CASE ~(Holds(r) /\ r.seq > st.verifiedTo)
    <3>1. c.verifiedTo = st.verifiedTo
      BY <1>2, <2>2 DEF VerifiedTo
    <3>2. ~(c.log[n + 1].seq <= c.verifiedTo)
      BY <1>3, <1>4, <3>1, StreamNumbers DEF Based, Extent
    <3> QED BY <1>1, <1>3, <1>4, <3>1, <3>2 DEF AsWritten
  <2> QED BY <2>1, <2>2
<1> QED BY <1>7, <1>10, <1>11 DEF c

LEMMA ConsumedInv ==
  ASSUME NEW s \in Streams, NEW st \in StreamState, NEW r \in Records,
         Based(s, st), r.stream = s, r.seq = st.expected,
         st.head # NoHead \/ r.seq > 0
  PROVE  StreamInv(s, Consumed(st, r))
<1> DEFINE c == Consumed(st, r)
           n == Len(st.log)
<1>1. /\ c.open = st.open /\ c.pending = st.pending
      /\ c.log = Append(st.log, LogEntry(r))
      /\ c.expected = r.seq + 1 /\ c.last = r.seq
      /\ c.lastSession = r.session
      /\ c.first = IF st.first = NoSeq THEN r.seq ELSE st.first
      /\ c.verifiedTo = VerifiedTo(st, r)
      /\ c.unscored = IF r.session = NoSession THEN TRUE ELSE st.unscored
  BY ConsumedFields
<1>2. n \in Nat /\ DOMAIN st.log = 1 .. n /\ r.seq \in Nat
  BY StreamNumbers, RecordType
<1>3. /\ Len(c.log) = n + 1 /\ DOMAIN c.log = 1 .. n + 1 /\ c.log # <<>>
      /\ \A i \in 1 .. n : c.log[i] = st.log[i]
      /\ c.log[n + 1].seq = r.seq /\ c.log[n + 1].session = r.session
  BY <1>1, <1>2, ConsumedLog DEF LogEntry
<1>4. Faithful(s, c)
  BY ConsumedFaithful DEF Faithful
<1> HIDE DEF c
<1>5. Shape(s, c)
  BY <1>1, <1>3 DEF Shape, Based
<1>6. Extent(c)
  <2>1. CASE st.log = <<>>
    <3>1. n = 0
      BY <2>1
    <3> QED BY <1>1, <1>2, <1>3, <2>1, <3>1, StreamNumbers DEF Extent, Based, VerifiedTo
  <2>2. CASE st.log # <<>>
    <3>1. n > 0
      BY <1>2, <2>2, StreamNumbers
    <3>2. st.first = st.log[1].seq /\ c.log[1] = st.log[1]
      BY <1>2, <1>3, <2>2, <3>1 DEF Based, Extent
    <3>3. st.log[1].seq \in Nat
      BY <1>2, <3>1, StreamNumbers
    <3>4. st.first # NoSeq
      BY <3>2, <3>3
    <3> QED BY <1>1, <1>2, <1>3, <3>2, <3>4, StreamNumbers DEF Extent, Based, VerifiedTo
  <2> QED BY <2>1, <2>2
<1>7. InOrder(c)
  <2>1. InOrder(st)
    BY DEF Based
  <2> QED BY <1>1, <1>2, <1>3, <2>1, StreamNumbers DEF InOrder
<1>8. AllScored(c)
  <2>1. AllScored(st)
    BY DEF Based
  <2> QED BY <1>1, <1>2, <1>3, <2>1 DEF AllScored
<1> QED BY <1>4, <1>5, <1>6, <1>7, <1>8 DEF StreamInv, c

-----------------------------------------------------------------------------
(* The states a record is consumed from.                                   *)

LEMMA BeginBased ==
  ASSUME NEW r \in Records, IsLedger(ledger)
  PROVE  /\ Based(r.stream, Begin(r))
         /\ Begin(r).expected = r.seq /\ Begin(r).pending = {}
         /\ Begin(r).head # NoHead \/ r.seq > 0
<1>1. /\ Begin(r) \in StreamState
      /\ Begin(r).open = TRUE /\ Begin(r).pending = {} /\ Begin(r).log = <<>>
      /\ Begin(r).first = NoSeq /\ Begin(r).verifiedTo = NoSeq
      /\ Begin(r).expected = r.seq
      /\ Begin(r).head = IF r.seq = 0 THEN ChainSeed(r.stream, r.key) ELSE r.prev
  BY BeginType DEF Begin, UnopenedStream
<1>2. r.seq \in Nat /\ Len(Begin(r).head) \in Nat
  BY <1>1, RecordType DEF StreamState, Heads
<1>3. Begin(r).head # NoHead \/ r.seq > 0
  BY <1>1, <1>2, ChainSeedType, RecordType
<1>4. Contiguous(Begin(r)) /\ Folded(Begin(r)) /\ AsWritten(r.stream, Begin(r))
  BY <1>1, <1>2 DEF Contiguous, Folded, AsWritten
<1>5. Extent(Begin(r)) /\ InOrder(Begin(r)) /\ AllScored(Begin(r))
  BY <1>1, <1>2 DEF Extent, InOrder, AllScored
<1> QED BY <1>1, <1>3, <1>4, <1>5 DEF Based, Faithful

LEMMA OpenBased ==
  ASSUME NEW s \in Streams, NEW st \in StreamState, StreamInv(s, st), st.open
  PROVE  Based(s, st) /\ st.expected > 0
<1>1. Based(s, st)
  BY DEF Based, StreamInv, Shape
<1>2. st.log # <<>>
  BY DEF StreamInv, Shape
<1>3. 1 \in DOMAIN st.log
  BY <1>2, StreamNumbers
<1>4. st.log[1].seq < st.expected
  BY <1>3 DEF StreamInv, InOrder
<1> QED BY <1>1, <1>3, <1>4, StreamNumbers

LEMMA DrainBased ==
  ASSUME NEW s \in Streams, NEW st \in StreamState, StreamInv(s, st), NEW p \in st.pending
  PROVE  LET c == [st EXCEPT !.pending = @ \ {p}] IN
         /\ c \in StreamState /\ Based(s, c)
         /\ c.expected = st.expected /\ st.expected > 0
         /\ c.pending = st.pending \ {p}
<1> DEFINE c == [st EXCEPT !.pending = @ \ {p}]
<1>1. st.open
  BY DEF StreamInv, Shape
<1>2. Based(s, st) /\ st.expected > 0
  BY <1>1, OpenBased
<1>3. /\ c \in StreamState
      /\ c.open = st.open /\ c.log = st.log /\ c.pending = st.pending \ {p}
      /\ c.first = st.first /\ c.last = st.last /\ c.lastSession = st.lastSession
      /\ c.verifiedTo = st.verifiedTo /\ c.expected = st.expected
      /\ c.unscored = st.unscored /\ c.head = st.head /\ c.codes = st.codes
  BY DEF StreamState
<1> HIDE DEF c
<1>4. Clean(c) => Clean(st)
  BY <1>3 DEF Clean
<1>5. Based(s, c)
  BY <1>2, <1>3, <1>4 DEF Based, Extent, InOrder, AllScored, Faithful, Contiguous,
                         Folded, AsWritten
<1> QED BY <1>2, <1>3, <1>5 DEF c

-----------------------------------------------------------------------------
(* The streams together, and the records they hold.                        *)

StreamsInv ==
  /\ streams \in [Streams -> StreamState]
  /\ \A s \in Streams : StreamInv(s, streams[s])

LEMMA StreamsUpdated ==
  ASSUME StreamsInv, NEW t \in Streams, NEW st \in StreamState, StreamInv(t, st),
         streams' = [streams EXCEPT ![t] = st]
  PROVE  /\ StreamsInv'
         /\ streams'[t] = st
         /\ \A s \in Streams \ {t} : streams'[s] = streams[s]
BY DEF StreamsInv

LEMMA HeldUnchanged ==
  ASSUME \A s \in Streams : streams'[s].pending = streams[s].pending
  PROVE  HeldRecords' = HeldRecords
BY DEF HeldRecords

LEMMA HeldAdded ==
  ASSUME NEW t \in Streams, NEW r,
         \A s \in Streams \ {t} : streams'[s].pending = streams[s].pending,
         streams'[t].pending = streams[t].pending \cup {r}
  PROVE  HeldRecords' = HeldRecords \cup {r}
BY DEF HeldRecords

LEMMA HeldRemoved ==
  ASSUME StreamsInv, NEW t \in Streams, NEW p \in streams[t].pending,
         \A s \in Streams \ {t} : streams'[s].pending = streams[s].pending,
         streams'[t].pending = streams[t].pending \ {p}
  PROVE  HeldRecords' = HeldRecords \ {p} /\ p \in HeldRecords
<1>1. \A s \in Streams \ {t} : p \notin streams[s].pending
  BY DEF StreamsInv, StreamInv, Shape
<1> QED BY <1>1 DEF HeldRecords

LEMMA NotHeld ==
  ASSUME StreamsInv, NEW r \in Records, ~Held(streams[r.stream], r.seq)
  PROVE  r \notin HeldRecords
BY RecordType DEF StreamsInv, StreamInv, Shape, HeldRecords, Held

(* Consuming a record from a stream about to consume.                      *)
LEMMA ConsumeStep ==
  ASSUME StreamsInv, NEW ss \in [AnySession -> SessionState], NEW st \in StreamState,
         NEW r \in Records, Based(r.stream, st), r.seq = st.expected,
         st.head # NoHead \/ r.seq > 0, sigsChecked \in Nat, sigTimeSpent \in BOOLEAN,
         Consume(ss, st, r)
  PROVE  /\ StreamsInv'
         /\ sessions' \in [AnySession -> SessionState]
         /\ sigsChecked' \in Nat /\ sigTimeSpent' \in BOOLEAN
         /\ streams'[r.stream].pending = st.pending /\ streams'[r.stream].open
         /\ \A s \in Streams \ {r.stream} : streams'[s] = streams[s]
<1>1. /\ Consumed(st, r) \in StreamState /\ StreamInv(r.stream, Consumed(st, r))
      /\ r.stream \in Streams
  BY ConsumedType, ConsumedInv, RecordType
<1>2. streams' = [streams EXCEPT ![r.stream] = Consumed(st, r)]
  BY DEF Consume
<1>3. /\ StreamsInv' /\ streams'[r.stream] = Consumed(st, r)
      /\ \A s \in Streams \ {r.stream} : streams'[s] = streams[s]
  BY <1>1, <1>2, StreamsUpdated
<1>4. Consumed(st, r).pending = st.pending /\ Consumed(st, r).open
  BY ConsumedFields DEF Based
<1>5. sessions' \in [AnySession -> SessionState]
  BY ConsumedSessionsType DEF Consume
<1>6. sigsChecked' \in Nat /\ sigTimeSpent' \in BOOLEAN
  BY DEF Consume
<1> QED BY <1>3, <1>4, <1>5, <1>6

-----------------------------------------------------------------------------
(* The invariant holds initially and every action preserves it.            *)

LEMMA InitInv == Init => IInv
<1> SUFFICES ASSUME Init PROVE IInv
  OBVIOUS
<1> USE DEF Init
<1>1. UnopenedStream \in StreamState
  BY NoHeadIsHead DEF UnopenedStream, StreamState, SeqOrNone, AnySession, AnyKey
<1>2. EmptySession \in SessionState
  BY DEF EmptySession, SessionState
<1>3. IsLedger(ledger)
  BY LedgersAssumption
<1>4. TypeOK
  BY <1>1, <1>2, <1>3 DEF TypeOK
<1>5. ASSUME NEW s \in Streams
      PROVE  StreamInv(s, UnopenedStream)
  <2>1. /\ UnopenedStream.log = <<>> /\ ~UnopenedStream.open
        /\ UnopenedStream.pending = {} /\ UnopenedStream.first = NoSeq
        /\ UnopenedStream.verifiedTo = NoSeq /\ UnopenedStream.expected = 0
        /\ UnopenedStream.head = <<>>
    BY DEF UnopenedStream
  <2> QED BY <2>1 DEF StreamInv, Shape, Extent, InOrder, AllScored, Faithful, Contiguous,
                      Folded, AsWritten
<1>6. \A s \in Streams : StreamInv(s, streams[s])
  BY <1>5
<1>7. InHandOK
  BY DEF InHandOK
<1>8. HeldRecords = {}
  BY DEF HeldRecords, UnopenedStream
<1>9. Counted
  BY <1>8, FS_EmptySet DEF Counted
<1> QED BY <1>4, <1>6, <1>7, <1>9 DEF IInv

(* What the invariant says of the record that arrives.                     *)
LEMMA ArriveTypes ==
  ASSUME IInv, NEW r \in Records, Arrive(r)
  PROVE  /\ arrived' \in Nat /\ seen' \subseteq Records
         /\ phase' = phase /\ ledger' = ledger /\ judged' = judged
         /\ draining = <<>> /\ inHand = <<>>
         /\ WithSidecar(r) \in [AnySession -> SessionState]
         /\ streams[r.stream] \in StreamState
         /\ StreamInv(r.stream, streams[r.stream])
BY WithSidecarType, RecordType DEF IInv, TypeOK, Arrive, Idle

LEMMA OverStreamBudgetInv ==
  ASSUME IInv, NEW r \in Records, ObserveOverStreamBudget(r)
  PROVE  IInv'
<1>1. sessions' \in [AnySession -> SessionState]
  BY ArriveTypes, NotedType DEF ObserveOverStreamBudget, Codes
<1>2. /\ UNCHANGED <<streams, pendingTotal, draining, inHand, sigsChecked, sigTimeSpent>>
      /\ Arrive(r)
  BY DEF ObserveOverStreamBudget, handler, sigSpent
<1>3. TypeOK'
  BY <1>1, <1>2, ArriveTypes DEF IInv, TypeOK
<1>4. HeldRecords' = HeldRecords
  BY <1>2, HeldUnchanged
<1> QED BY <1>2, <1>3, <1>4 DEF IInv, InHandOK, Counted, Held

LEMMA ObserveInOrderInv ==
  ASSUME IInv, NEW r \in Records, ObserveInOrder(r)
  PROVE  IInv'
<1> DEFINE joined == On(~streams[r.stream].open /\ r.seq # 0, R_JOINED_MIDSTREAM)
           ss     == Noted(WithSidecar(r), {r.session}, joined)
           st     == Opened(r)
<1>1. Arrive(r) /\ Consume(ss, st, r) /\ r.seq = st.expected
      /\ draining' = <<r.stream, TRUE>> /\ UNCHANGED <<pendingTotal, inHand>>
  BY DEF ObserveInOrder
<1>2. /\ StreamsInv /\ IsLedger(ledger) /\ sigsChecked \in Nat /\ sigTimeSpent \in BOOLEAN
      /\ r.stream \in Streams /\ inHand = <<>>
  BY <1>1, RecordType, ArriveTypes DEF IInv, TypeOK, StreamsInv
<1>3. ss \in [AnySession -> SessionState]
  BY <1>1, ArriveTypes, NotedType DEF On, Codes
<1>4. /\ st \in StreamState /\ Based(r.stream, st)
      /\ st.head # NoHead \/ r.seq > 0
      /\ st.pending = streams[r.stream].pending
  <2>1. CASE streams[r.stream].open
    BY <1>1, <1>2, <2>1, ArriveTypes, OpenBased DEF Opened
  <2>2. CASE ~streams[r.stream].open
    <3>1. streams[r.stream].pending = {}
      BY <1>2, <2>2 DEF StreamsInv, StreamInv, Shape
    <3> QED BY <1>2, <2>2, <3>1, BeginType, BeginBased DEF Opened
  <2> QED BY <2>1, <2>2
<1> HIDE DEF ss, st
<1>5. /\ StreamsInv' /\ sessions' \in [AnySession -> SessionState]
      /\ sigsChecked' \in Nat /\ sigTimeSpent' \in BOOLEAN
      /\ streams'[r.stream].pending = st.pending
      /\ \A s \in Streams \ {r.stream} : streams'[s] = streams[s]
  BY <1>1, <1>2, <1>3, <1>4, ConsumeStep
<1>6. HeldRecords' = HeldRecords
  BY <1>4, <1>5, HeldUnchanged
<1>7. TypeOK'
  BY <1>1, <1>2, <1>5, ArriveTypes DEF IInv, TypeOK, StreamsInv
<1>8. InHandOK' /\ Counted'
  BY <1>1, <1>2, <1>6 DEF IInv, InHandOK, Counted
<1> QED BY <1>5, <1>7, <1>8 DEF IInv, StreamsInv

LEMMA ObserveTakenInv ==
  ASSUME IInv, NEW r \in Records, ObserveTaken(r)
  PROVE  IInv'
<1> DEFINE st == [streams[r.stream] EXCEPT !.codes = @ \cup {R_SEQUENCE_REPLAY}]
<1>1. /\ Arrive(r) /\ streams' = [streams EXCEPT ![r.stream] = st]
      /\ UNCHANGED <<pendingTotal, draining, inHand, sigsChecked, sigTimeSpent>>
  BY DEF ObserveTaken, handler, sigSpent
<1>2. StreamsInv /\ r.stream \in Streams
  BY RecordType DEF IInv, TypeOK, StreamsInv
<1>3. st \in StreamState /\ StreamInv(r.stream, st) /\ st.pending = streams[r.stream].pending
  <2>1. {R_SEQUENCE_REPLAY} \in SUBSET Codes
    BY DEF Codes, INADMISSIBLE
  <2>2. streams[r.stream] \in StreamState /\ StreamInv(r.stream, streams[r.stream])
    BY <1>1, ArriveTypes
  <2>3. st.pending = streams[r.stream].pending
    BY <2>2 DEF StreamState
  <2> QED BY <1>2, <2>1, <2>2, <2>3, CodesAdded
<1>4. sessions' \in [AnySession -> SessionState]
  BY ArriveTypes, NotedType DEF ObserveTaken, Codes, INADMISSIBLE
<1> HIDE DEF st
<1>5. /\ StreamsInv' /\ streams'[r.stream] = st
      /\ \A s \in Streams \ {r.stream} : streams'[s] = streams[s]
  BY <1>1, <1>2, <1>3, StreamsUpdated
<1>6. HeldRecords' = HeldRecords
  BY <1>3, <1>5, HeldUnchanged
<1>7. TypeOK'
  BY <1>1, <1>4, <1>5, ArriveTypes DEF IInv, TypeOK, StreamsInv
<1>8. InHandOK' /\ Counted'
  BY <1>1, <1>6, ArriveTypes DEF IInv, InHandOK, Counted
<1> QED BY <1>5, <1>7, <1>8 DEF IInv, StreamsInv

LEMMA HoldStep ==
  ASSUME StreamsInv, Counted, pendingTotal \in Nat, NEW r \in Records,
         streams[r.stream].open, ~Held(streams[r.stream], r.seq), Hold(r)
  PROVE  StreamsInv' /\ Counted' /\ pendingTotal' \in Nat
<1> DEFINE st == [streams[r.stream] EXCEPT !.pending = @ \cup {r}]
<1>1. /\ streams' = [streams EXCEPT ![r.stream] = st]
      /\ pendingTotal' = pendingTotal + 1
  BY DEF Hold
<1>2. /\ r.stream \in Streams /\ streams[r.stream] \in StreamState
      /\ StreamInv(r.stream, streams[r.stream])
  BY RecordType DEF StreamsInv
<1>3. st \in StreamState /\ StreamInv(r.stream, st)
  BY <1>2, RecordHeld
<1>4. st.pending = streams[r.stream].pending \cup {r}
  BY <1>2 DEF StreamState
<1> HIDE DEF st
<1>5. /\ StreamsInv' /\ streams'[r.stream] = st
      /\ \A s \in Streams \ {r.stream} : streams'[s] = streams[s]
  BY <1>1, <1>2, <1>3, StreamsUpdated
<1>6. HeldRecords' = HeldRecords \cup {r}
  BY <1>2, <1>4, <1>5, HeldAdded
<1>7. r \notin HeldRecords
  BY NotHeld
<1> QED BY <1>1, <1>5, <1>6, <1>7, FS_AddElement DEF Counted

LEMMA ForceStep ==
  ASSUME StreamsInv, NEW t \in Streams, NEW st \in StreamState, StreamInv(t, st), st.open,
         st.pending = streams[t].pending, streams' = [streams EXCEPT ![t] = Forced(st)]
  PROVE  /\ StreamsInv' /\ HeldRecords' = HeldRecords
         /\ streams'[t].open /\ streams'[t].pending = streams[t].pending
         /\ \A s \in Streams \ {t} : streams'[s] = streams[s]
<1>1. Forced(st) \in StreamState /\ StreamInv(t, Forced(st))
  BY ForcedType, ForcedInv
<1>2. Forced(st).open /\ Forced(st).pending = st.pending
  BY DEF Forced, StreamState
<1>3. /\ StreamsInv' /\ streams'[t] = Forced(st)
      /\ \A s \in Streams \ {t} : streams'[s] = streams[s]
  BY <1>1, StreamsUpdated
<1>4. HeldRecords' = HeldRecords
  BY <1>2, <1>3, HeldUnchanged
<1> QED BY <1>2, <1>3, <1>4

LEMMA ObserveEarlyInv ==
  ASSUME IInv, NEW r \in Records, ObserveEarly(r)
  PROVE  IInv'
<1>1. /\ Arrive(r) /\ Early(r) /\ Hold(r) /\ sessions' = WithSidecar(r)
      /\ UNCHANGED <<draining, inHand, sigsChecked, sigTimeSpent>>
  BY DEF ObserveEarly, handler, sigSpent
<1>2. StreamsInv /\ Counted /\ pendingTotal \in Nat
  BY DEF IInv, TypeOK, StreamsInv
<1>3. StreamsInv' /\ Counted' /\ pendingTotal' \in Nat
  BY <1>1, <1>2, HoldStep DEF Early
<1>4. TypeOK'
  BY <1>1, <1>3, ArriveTypes DEF IInv, TypeOK, StreamsInv
<1>5. InHandOK'
  BY <1>1, ArriveTypes DEF InHandOK
<1> QED BY <1>3, <1>4, <1>5 DEF IInv, StreamsInv

LEMMA ObserveEarlyForcedInv ==
  ASSUME IInv, NEW r \in Records, ObserveEarlyForced(r)
  PROVE  IInv'
<1> DEFINE before == streams[r.stream]
           st     == ReorderBudgetNoted(before)
<1>1. /\ Arrive(r) /\ Early(r) /\ streams' = [streams EXCEPT ![r.stream] = Forced(st)]
      /\ sessions' = Noted(Noted(WithSidecar(r), {r.session}, {R_REORDER_BUDGET}),
                           GapSessions(st), {R_SEQUENCE_GAP})
      /\ draining' = <<r.stream, FALSE>> /\ inHand' = <<r>>
      /\ UNCHANGED <<pendingTotal, sigsChecked, sigTimeSpent>>
  BY DEF ObserveEarlyForced, sigSpent
<1>2. /\ StreamsInv /\ r.stream \in Streams /\ before \in StreamState
      /\ StreamInv(r.stream, before)
  BY RecordType DEF IInv, TypeOK, StreamsInv
<1>3. /\ st \in StreamState /\ StreamInv(r.stream, st)
      /\ st.open = before.open /\ st.pending = before.pending
  <2>1. {R_REORDER_BUDGET} \in SUBSET Codes
    BY DEF Codes
  <2>2. st.open = before.open /\ st.pending = before.pending
    BY <1>2 DEF ReorderBudgetNoted, StreamState
  <2> QED BY <1>2, <2>1, <2>2, CodesAdded DEF ReorderBudgetNoted
<1>4. before.open /\ ~Held(before, r.seq)
  BY <1>1 DEF Early
<1>5. sessions' \in [AnySession -> SessionState]
  <2>1. {R_REORDER_BUDGET} \in SUBSET Codes /\ {R_SEQUENCE_GAP} \in SUBSET Codes
    BY DEF Codes, INADMISSIBLE
  <2> QED BY <1>1, <2>1, ArriveTypes, NotedType
<1> HIDE DEF st
<1>6. /\ StreamsInv' /\ HeldRecords' = HeldRecords
      /\ streams'[r.stream].open /\ streams'[r.stream].pending = before.pending
  BY <1>1, <1>2, <1>3, <1>4, ForceStep
<1>7. TypeOK'
  BY <1>1, <1>2, <1>5, <1>6, ArriveTypes DEF IInv, TypeOK, StreamsInv
<1>8. InHandOK'
  BY <1>1, <1>4, <1>6 DEF InHandOK, Held
<1>9. Counted'
  BY <1>1, <1>6 DEF IInv, Counted
<1> QED BY <1>6, <1>7, <1>8, <1>9 DEF IInv, StreamsInv

(* What the invariant says of the record in hand.                          *)
LEMMA InHandTypes ==
  ASSUME IInv, inHand # <<>>
  PROVE  LET r == inHand[1] IN
         /\ r \in Records /\ r.stream \in Streams
         /\ streams[r.stream] \in StreamState /\ StreamInv(r.stream, streams[r.stream])
         /\ streams[r.stream].open /\ ~Held(streams[r.stream], r.seq)
<1>1. PICK r \in Records : inHand = <<r>>
  BY DEF IInv, TypeOK
<1>2. inHand[1] = r
  BY <1>1
<1> QED BY <1>2, RecordType DEF IInv, TypeOK, InHandOK

LEMMA PlaceInOrderInv ==
  ASSUME IInv, PlaceInOrder
  PROVE  IInv'
<1> DEFINE r  == inHand[1]
           st == streams[r.stream]
<1>1. /\ inHand # <<>> /\ inHand' = <<>> /\ r.seq = st.expected
      /\ Consume(sessions, st, r) /\ draining' = <<r.stream, TRUE>>
      /\ UNCHANGED <<phase, arrived, ledger, judged, seen, pendingTotal>>
  BY DEF PlaceInOrder, Place, history
<1>2. /\ r \in Records /\ r.stream \in Streams /\ st \in StreamState
      /\ Based(r.stream, st) /\ r.seq > 0
  BY <1>1, InHandTypes, OpenBased
<1>3. /\ StreamsInv /\ sessions \in [AnySession -> SessionState]
      /\ sigsChecked \in Nat /\ sigTimeSpent \in BOOLEAN
  BY DEF IInv, TypeOK, StreamsInv
<1> HIDE DEF r
<1>4. /\ StreamsInv' /\ sessions' \in [AnySession -> SessionState]
      /\ sigsChecked' \in Nat /\ sigTimeSpent' \in BOOLEAN
      /\ streams'[r.stream].pending = st.pending
      /\ \A s \in Streams \ {r.stream} : streams'[s] = streams[s]
  BY <1>1, <1>2, <1>3, ConsumeStep
<1>5. HeldRecords' = HeldRecords
  BY <1>4, HeldUnchanged
<1>6. TypeOK'
  BY <1>1, <1>2, <1>4 DEF IInv, TypeOK, StreamsInv
<1>7. InHandOK' /\ Counted'
  BY <1>1, <1>5 DEF IInv, InHandOK, Counted
<1> QED BY <1>4, <1>6, <1>7 DEF IInv, StreamsInv

LEMMA PlaceHeldInv ==
  ASSUME IInv, PlaceHeld
  PROVE  IInv'
<1>1. /\ inHand # <<>> /\ inHand' = <<>> /\ Hold(inHand[1])
      /\ UNCHANGED <<phase, arrived, sessions, draining, sigsChecked, sigTimeSpent,
                      ledger, judged, seen>>
  BY DEF PlaceHeld, Place, history, sigSpent
<1>2. StreamsInv /\ Counted /\ pendingTotal \in Nat
  BY DEF IInv, TypeOK, StreamsInv
<1>3. StreamsInv' /\ Counted' /\ pendingTotal' \in Nat
  BY <1>1, <1>2, InHandTypes, HoldStep
<1>4. TypeOK'
  BY <1>1, <1>3 DEF IInv, TypeOK, StreamsInv
<1>5. InHandOK'
  BY <1>1 DEF InHandOK
<1> QED BY <1>3, <1>4, <1>5 DEF IInv, StreamsInv

LEMMA DrainNextInv ==
  ASSUME IInv, DrainNext
  PROVE  IInv'
<1> DEFINE s == draining[1]
<1>1. /\ draining # <<>> /\ pendingTotal' = pendingTotal - 1
      /\ UNCHANGED <<phase, arrived, draining, inHand, ledger, judged, seen>>
  BY DEF DrainNext, handler, history
<1>2. s \in Streams
  BY <1>1 DEF IInv, TypeOK
<1>3. PICK p \in streams[s].pending :
        /\ p.seq = streams[s].expected
        /\ Consume(Noted(sessions, {p.session}, On(draining[2], R_REORDERED)),
                   [streams[s] EXCEPT !.pending = @ \ {p}], p)
  BY DEF DrainNext
<1> DEFINE ss == Noted(sessions, {p.session}, On(draining[2], R_REORDERED))
           st == [streams[s] EXCEPT !.pending = @ \ {p}]
<1>4. /\ StreamsInv /\ streams[s] \in StreamState /\ StreamInv(s, streams[s])
      /\ sessions \in [AnySession -> SessionState]
      /\ sigsChecked \in Nat /\ sigTimeSpent \in BOOLEAN
  BY <1>2 DEF IInv, TypeOK, StreamsInv
<1>5. p \in Records /\ p.stream = s
  BY <1>4 DEF StreamInv, Shape, StreamState
<1>6. /\ st \in StreamState /\ Based(p.stream, st) /\ p.seq = st.expected /\ p.seq > 0
      /\ st.pending = streams[s].pending \ {p}
  BY <1>2, <1>3, <1>4, <1>5, DrainBased
<1>7. ss \in [AnySession -> SessionState]
  BY <1>4, NotedType DEF On, Codes
<1>8. Consume(ss, st, p)
  BY <1>3
<1> HIDE DEF s, ss, st
<1>9. /\ StreamsInv' /\ sessions' \in [AnySession -> SessionState]
      /\ sigsChecked' \in Nat /\ sigTimeSpent' \in BOOLEAN
      /\ streams'[s].pending = streams[s].pending \ {p} /\ streams'[s].open
      /\ \A t \in Streams \ {s} : streams'[t] = streams[t]
  BY <1>4, <1>5, <1>6, <1>7, <1>8, ConsumeStep
<1>10. HeldRecords' = HeldRecords \ {p} /\ p \in HeldRecords
  BY <1>2, <1>3, <1>4, <1>9, HeldRemoved
<1>11. Counted' /\ pendingTotal' \in Nat
  <2>1. /\ IsFiniteSet(HeldRecords) /\ pendingTotal = Cardinality(HeldRecords)
        /\ pendingTotal \in Nat
    BY DEF IInv, Counted, TypeOK
  <2>2. /\ IsFiniteSet(HeldRecords') /\ Cardinality(HeldRecords') = pendingTotal - 1
    BY <1>10, <2>1, FS_RemoveElement
  <2>3. Cardinality(HeldRecords') \in Nat
    BY <2>2, FS_CardinalityType
  <2> QED BY <1>1, <2>2, <2>3 DEF Counted
<1>12. TypeOK'
  BY <1>1, <1>9, <1>11 DEF IInv, TypeOK, StreamsInv
<1>13. InHandOK'
  <2> SUFFICES ASSUME inHand # <<>>
               PROVE  LET r == inHand[1] IN
                      streams'[r.stream].open /\ ~Held(streams'[r.stream], r.seq)
    BY <1>1 DEF InHandOK
  <2> DEFINE r == inHand[1]
  <2>1. /\ r.stream \in Streams /\ streams[r.stream].open
        /\ ~Held(streams[r.stream], r.seq)
    BY InHandTypes
  <2> HIDE DEF r
  <2>2. streams'[r.stream].open /\ ~Held(streams'[r.stream], r.seq)
    <3>1. CASE r.stream = s
      BY <1>9, <2>1, <3>1 DEF Held
    <3>2. CASE r.stream # s
      BY <1>9, <2>1, <3>2
    <3> QED BY <3>1, <3>2
  <2> QED BY <2>2 DEF r
<1> QED BY <1>9, <1>11, <1>12, <1>13 DEF IInv, StreamsInv

(* A step that changes neither the streams nor what the handler holds.     *)
LEMMA StreamsKept ==
  ASSUME IInv, TypeOK', UNCHANGED <<streams, pendingTotal, inHand>>
  PROVE  IInv'
<1>1. HeldRecords' = HeldRecords
  BY HeldUnchanged
<1> QED BY <1>1 DEF IInv, InHandOK, Counted, Held

LEMMA QuietInv ==
  ASSUME IInv,
         \/ \E k \in BareSessions : ObserveBare(k)
         \/ DrainEnd
         \/ SignatureTimeRunsOut
         \/ EndOfInput
         \/ UNCHANGED vars
  PROVE  IInv'
<1>1. ASSUME NEW k \in BareSessions, ObserveBare(k)
      PROVE  IInv'
  <2>1. k \in AnySession
    BY RecordsAssumption
  <2>2. sessions' \in [AnySession -> SessionState]
    BY <1>1, <2>1 DEF ObserveBare, IInv, TypeOK, SessionState
  <2>3. TypeOK' /\ UNCHANGED <<streams, pendingTotal, inHand>>
    BY <1>1, <2>2 DEF ObserveBare, IInv, TypeOK, handler, sigSpent, history
  <2> QED BY <2>3, StreamsKept
<1>2. CASE DrainEnd
  <2>1. TypeOK' /\ UNCHANGED <<streams, pendingTotal, inHand>>
    BY <1>2 DEF DrainEnd, IInv, TypeOK, sigSpent, history
  <2> QED BY <2>1, StreamsKept
<1>3. CASE SignatureTimeRunsOut
  <2>1. TypeOK' /\ UNCHANGED <<streams, pendingTotal, inHand>>
    BY <1>3 DEF SignatureTimeRunsOut, IInv, TypeOK, handler, history
  <2> QED BY <2>1, StreamsKept
<1>4. CASE EndOfInput
  <2>1. TypeOK' /\ UNCHANGED <<streams, pendingTotal, inHand>>
    BY <1>4 DEF EndOfInput, IInv, TypeOK, handler, sigSpent, history
  <2> QED BY <2>1, StreamsKept
<1>5. CASE UNCHANGED vars
  <2>1. TypeOK' /\ UNCHANGED <<streams, pendingTotal, inHand>>
    BY <1>5 DEF vars, IInv, TypeOK
  <2> QED BY <2>1, StreamsKept
<1> QED BY <1>1, <1>2, <1>3, <1>4, <1>5

LEMMA FinaliseForceInv ==
  ASSUME IInv, FinaliseForce
  PROVE  IInv'
<1> DEFINE s  == LeastOf(Holding)
           st == streams[s]
<1>1. /\ inHand = <<>> /\ Holding # {}
      /\ streams' = [streams EXCEPT ![s] = Forced(st)]
      /\ sessions' = Noted(sessions, GapSessions(st), {R_SEQUENCE_GAP})
      /\ draining' = <<s, FALSE>>
      /\ UNCHANGED <<phase, arrived, pendingTotal, inHand, sigsChecked, sigTimeSpent,
                      ledger, judged, seen>>
  BY DEF FinaliseForce, Idle, sigSpent, history
<1>2. s \in Streams /\ st.pending # {}
  <2>1. Holding \subseteq Nat
    BY StreamsAssumption DEF Holding
  <2>2. s \in Holding
    BY <1>1, <2>1, LeastOfIsMember
  <2> QED BY <2>2 DEF Holding
<1>3. StreamsInv /\ st \in StreamState /\ StreamInv(s, st) /\ st.open
  BY <1>2 DEF IInv, TypeOK, StreamsInv, StreamInv, Shape
<1>4. sessions' \in [AnySession -> SessionState]
  <2>1. {R_SEQUENCE_GAP} \in SUBSET Codes
    BY DEF Codes, INADMISSIBLE
  <2> QED BY <1>1, <2>1, NotedType DEF IInv, TypeOK
<1> HIDE DEF s
<1>5. StreamsInv' /\ HeldRecords' = HeldRecords
  BY <1>1, <1>2, <1>3, ForceStep
<1>6. TypeOK'
  BY <1>1, <1>2, <1>4, <1>5 DEF IInv, TypeOK, StreamsInv
<1>7. InHandOK' /\ Counted'
  BY <1>1, <1>5 DEF IInv, InHandOK, Counted
<1> QED BY <1>5, <1>6, <1>7 DEF IInv, StreamsInv

LEMMA FinaliseCloseInv ==
  ASSUME IInv, FinaliseClose
  PROVE  IInv'
<1> DEFINE closed(s) == [streams[s] EXCEPT !.codes = @ \cup CloseCodes(s)]
           charges(k) == UNION {CloseCodes(s) : s \in {t \in Streams :
                                   Unclosed(t) /\ k \in streams[t].feeds}}
<1>1. /\ inHand = <<>> /\ phase' = "judge"
      /\ sessions' = [k \in AnySession |->
            IF k = NoSession THEN sessions[k]
            ELSE [sessions[k] EXCEPT !.codes = @ \cup charges(k)]]
      /\ streams' = [s \in Streams |->
            IF Unclosed(s) /\ streams[s].feeds \ {NoSession} # {}
              THEN closed(s) ELSE streams[s]]
      /\ UNCHANGED <<arrived, pendingTotal, draining, inHand, sigsChecked, sigTimeSpent,
                      ledger, judged, seen>>
  BY DEF FinaliseClose, Idle, handler, sigSpent, history
<1>2. \A s \in Streams : CloseCodes(s) \in SUBSET Codes
  BY DEF CloseCodes, On, Codes, INADMISSIBLE
<1>3. ASSUME NEW s \in Streams
      PROVE  /\ streams[s] \in StreamState /\ StreamInv(s, streams[s])
             /\ closed(s) \in StreamState /\ StreamInv(s, closed(s))
             /\ closed(s).pending = streams[s].pending
  <2>1. streams[s] \in StreamState /\ StreamInv(s, streams[s])
    BY DEF IInv, TypeOK
  <2>2. closed(s).pending = streams[s].pending
    BY <2>1 DEF StreamState
  <2> QED BY <1>2, <2>1, <2>2, CodesAdded
<1>4. \A k \in AnySession : charges(k) \in SUBSET Codes
  BY <1>2
<1>5. sessions' \in [AnySession -> SessionState]
  <2> HIDE DEF charges
  <2>1. sessions \in [AnySession -> SessionState]
    BY DEF IInv, TypeOK
  <2>2. \A k \in AnySession :
          [sessions[k] EXCEPT !.codes = @ \cup charges(k)] \in SessionState
    BY <1>4, <2>1 DEF SessionState
  <2> QED BY <1>1, <2>1, <2>2
<1> HIDE DEF closed
<1>6. /\ streams' \in [Streams -> StreamState]
      /\ \A s \in Streams : StreamInv(s, streams'[s])
      /\ \A s \in Streams : streams'[s].pending = streams[s].pending
  BY <1>1, <1>3
<1>7. HeldRecords' = HeldRecords
  BY <1>6, HeldUnchanged
<1>8. TypeOK'
  BY <1>1, <1>5, <1>6 DEF IInv, TypeOK
<1>9. InHandOK' /\ Counted'
  BY <1>1, <1>7 DEF IInv, InHandOK, Counted
<1> QED BY <1>6, <1>8, <1>9 DEF IInv

LEMMA JudgeInv ==
  ASSUME IInv, JudgeAgainstLedger
  PROVE  IInv'
<1> DEFINE s       == LeastOf(Unjudged)
           st      == streams[s]
           verdict == Compare(ledger, s, View(st))
           codes   == VerdictCodes(verdict)
                      \cup On(~Admitted(st), R_LEDGER_NOT_ADVANCED)
                      \cup On(verdict.boundary = BOUNDARY_UNSTATED,
                              R_STREAM_BOUNDARY_UNVERIFIED)
                      \cup On(ledger'.exhausted, R_LEDGER_BUDGET)
<1>1. /\ Unjudged # {}
      /\ ledger' = Record(ledger, s, verdict, View(st), Admitted(st))
      /\ sessions' = Noted(sessions, st.feeds \ {NoSession}, codes)
      /\ judged' = judged \cup {s}
      /\ UNCHANGED <<phase, arrived, streams, pendingTotal, draining, inHand,
                      sigsChecked, sigTimeSpent, seen>>
  BY DEF JudgeAgainstLedger, handler, sigSpent, history
<1>2. s \in Streams /\ st.open /\ st.first # NoSeq
  <2>1. Unjudged \subseteq Nat
    BY StreamsAssumption DEF Unjudged, OpenStreams
  <2>2. s \in Unjudged
    BY <1>1, <2>1, LeastOfIsMember
  <2> QED BY <2>2 DEF Unjudged, OpenStreams
<1>3. /\ st \in StreamState /\ StreamInv(s, st) /\ IsLedger(ledger)
      /\ sessions \in [AnySession -> SessionState]
  BY <1>2 DEF IInv, TypeOK
<1>4. /\ View(st).first \in Nat /\ View(st).last \in Nat /\ View(st).head \in Heads
      /\ View(st).closed \in BOOLEAN
  <2>1. st.log # <<>>
    BY <1>2, <1>3 DEF StreamInv, Shape
  <2>2. st.last = st.log[Len(st.log)].seq /\ Len(st.log) \in DOMAIN st.log
    BY <1>3, <2>1, StreamNumbers DEF StreamInv, Extent
  <2>3. st.last \in Nat
    BY <1>3, <2>2, StreamNumbers
  <2> QED BY <1>2, <1>3, <2>3 DEF View, StreamState, SeqOrNone
<1>5. IsLedger(ledger')
  <2>1. Admitted(st) \in BOOLEAN
    BY DEF Admitted
  <2> QED BY <1>1, <1>2, <1>3, <1>4, <2>1, RecordLedgerType
<1>6. codes \in SUBSET Codes
  BY DEF VerdictCodes, On, Codes, INADMISSIBLE
<1>7. sessions' \in [AnySession -> SessionState]
  BY <1>1, <1>3, <1>6, NotedType
<1>8. TypeOK'
  BY <1>1, <1>2, <1>5, <1>7 DEF IInv, TypeOK
<1> QED BY <1>1, <1>8, StreamsKept

LEMMA ReportInv ==
  ASSUME IInv, Report
  PROVE  IInv'
<1>1. /\ sessions' = [k \in AnySession |->
            [sessions[k] EXCEPT !.codes  = @ \cup ClosingCodes(sessions[k]),
                                !.ranges = IF k = NoSession THEN {} ELSE RangesOf(k)]]
      /\ phase' = "done"
      /\ UNCHANGED <<arrived, streams, pendingTotal, draining, inHand, sigsChecked,
                      sigTimeSpent, ledger, judged, seen>>
  BY DEF Report, handler, sigSpent, history
<1>2. ASSUME NEW k \in AnySession
      PROVE  RangesOf(k) \subseteq [stream : Streams, first : Nat, last : Nat,
                                     verifiedTo : SeqOrNone]
  <2> SUFFICES ASSUME NEW s \in Streams, streams[s].first # NoSeq
               PROVE  /\ streams[s].first \in Nat /\ streams[s].last \in Nat
                      /\ streams[s].verifiedTo \in SeqOrNone
    BY DEF RangesOf, OpenStreams
  <2>1. streams[s] \in StreamState /\ StreamInv(s, streams[s])
    BY DEF IInv, TypeOK
  <2>2. streams[s].log # <<>>
    BY <2>1 DEF StreamInv, Extent
  <2>3. /\ streams[s].last = streams[s].log[Len(streams[s].log)].seq
        /\ Len(streams[s].log) \in DOMAIN streams[s].log
    BY <2>1, <2>2, StreamNumbers DEF StreamInv, Extent
  <2> QED BY <2>1, <2>3, StreamNumbers DEF StreamState, SeqOrNone
<1>3. \A k \in AnySession : ClosingCodes(sessions[k]) \in SUBSET Codes
  BY DEF ClosingCodes, On, Codes, INADMISSIBLE
<1>4. sessions' \in [AnySession -> SessionState]
  <2> DEFINE ranges(k) == IF k = NoSession THEN {} ELSE RangesOf(k)
             codes(k)  == sessions[k].codes \cup ClosingCodes(sessions[k])
  <2>1. sessions \in [AnySession -> SessionState]
    BY DEF IInv, TypeOK
  <2>2. \A k \in AnySession :
          /\ ranges(k) \subseteq [stream : Streams, first : Nat, last : Nat,
                                  verifiedTo : SeqOrNone]
          /\ codes(k) \in SUBSET Codes
    BY <1>2, <1>3, <2>1 DEF SessionState
  <2>3. sessions' = [k \in AnySession |->
                       [sessions[k] EXCEPT !.codes = codes(k), !.ranges = ranges(k)]]
    BY <1>1
  <2> HIDE DEF ranges, codes
  <2> QED BY <2>1, <2>2, <2>3 DEF SessionState
<1>5. TypeOK'
  BY <1>1, <1>4 DEF IInv, TypeOK
<1> QED BY <1>1, <1>5, StreamsKept

LEMMA NextInv ==
  ASSUME IInv, [Next]_vars
  PROVE  IInv'
<1>1. CASE ObserveRecord
  BY <1>1, OverStreamBudgetInv, ObserveInOrderInv, ObserveTakenInv, ObserveEarlyInv,
     ObserveEarlyForcedInv DEF ObserveRecord
<1>2. CASE Handler
  BY <1>2, PlaceInOrderInv, PlaceHeldInv, DrainNextInv, QuietInv DEF Handler
<1>3. CASE Finalise
  BY <1>3, FinaliseForceInv, FinaliseCloseInv, JudgeInv, ReportInv DEF Finalise
<1>4. CASE \/ \E k \in BareSessions : ObserveBare(k)
           \/ SignatureTimeRunsOut \/ EndOfInput \/ UNCHANGED vars
  BY <1>4, QuietInv
<1> QED BY <1>1, <1>2, <1>3, <1>4 DEF Next, Terminated

-----------------------------------------------------------------------------
(* The theorems.                                                           *)

(* The inductive invariant holds in every run.                             *)
THEOREM Inductive == Spec => []IInv
<1>1. Init => IInv
  BY InitInv
<1>2. IInv /\ [Next]_vars => IInv'
  BY NextInv
<1> QED BY <1>1, <1>2, PTL DEF Spec

(* Every variable keeps its type, so that in particular the counter of     *)
(* held records never goes below zero (StreamVerifier._drain).             *)
THEOREM TypeCorrect == Spec => []TypeOK
<1>1. IInv => TypeOK
  BY DEF IInv
<1> QED BY <1>1, Inductive, PTL

(* The reorder budget's counter is always the number of records held.      *)
THEOREM PendingIsCounted == Spec => []PendingCounted
<1>1. IInv => PendingCounted
  BY DEF IInv, Counted, PendingCounted, HeldRecords
<1> QED BY <1>1, Inductive, PTL

(* No record is scored twice or out of order, whatever is delivered.       *)
THEOREM OnceInOrder == Spec => []ConsumedOnceInOrder
<1>1. IInv => ConsumedOnceInOrder
  BY DEF IInv, StreamInv, InOrder, ConsumedOnceInOrder
<1> QED BY <1>1, Inductive, PTL

(* If a stream's evidence holds, the bodies scored are the collector's, up *)
(* to the last verified signature: whatever was delivered, and whatever    *)
(* the budgets forced.                                                     *)
THEOREM AdmittedEvidenceIsGenuine == Spec => []AdmittedIsGenuine
<1>1. IInv => AdmittedIsGenuine
  <2> SUFFICES ASSUME IInv, NEW s \in Streams, Admitted(streams[s])
               PROVE  AsWritten(s, streams[s])
    BY DEF AdmittedIsGenuine, AsWritten
  <2>1. Clean(streams[s])
    BY DEF Admitted, Clean, INADMISSIBLE
  <2> QED BY <2>1 DEF IInv, StreamInv, Faithful
<1> QED BY <1>1, Inductive, PTL

-----------------------------------------------------------------------------
(* What a run does to the ledger.                                          *)

LEMMA OnlyJudgingChangesTheLedger ==
  ASSUME [Next]_vars, ~JudgeAgainstLedger
  PROVE  UNCHANGED ledger
BY DEF Next, ObserveRecord, ObserveOverStreamBudget, ObserveInOrder, ObserveTaken,
       ObserveEarly, ObserveEarlyForced, Arrive, ObserveBare, Handler, PlaceInOrder,
       PlaceHeld, Place, DrainNext, DrainEnd, SignatureTimeRunsOut, EndOfInput, Finalise,
       FinaliseForce, FinaliseClose, Report, Terminated, vars

(* The ledger advances a known stream only past its recorded end.          *)
LEMMA AdvanceIsContinuation ==
  ASSUME NEW t \in Streams, Known(ledger, t), NEW view, NEW admit,
         Advances(Compare(ledger, t, view), admit)
  PROVE  view.first > ledger.entries[t].last /\ ~ledger.entries[t].closed
BY DEF Advances, Compare, CompareContinuation, CompareOverlap, SeenVerdict,
       SEEN_REPLAYED, SEEN_FORKED, SEEN_AFTER_CLOSE

(* A judged stream's extent, by what it consumed.                          *)
LEMMA ExtentOfLog ==
  ASSUME NEW s \in Streams, NEW st \in StreamState, StreamInv(s, st), st.first # NoSeq
  PROVE  /\ Len(st.log) \in Nat /\ Len(st.log) > 0 /\ DOMAIN st.log = 1 .. Len(st.log)
         /\ st.first = st.log[1].seq /\ st.last = st.log[Len(st.log)].seq
         /\ st.first \in Nat /\ st.last \in Nat /\ st.first <= st.last
<1>1. st.log # <<>>
  BY DEF StreamInv, Extent
<1>2. Len(st.log) \in Nat /\ Len(st.log) > 0 /\ DOMAIN st.log = 1 .. Len(st.log)
  BY <1>1, StreamNumbers
<1>3. 1 \in DOMAIN st.log /\ Len(st.log) \in DOMAIN st.log
  BY <1>2
<1>4. /\ st.first = st.log[1].seq /\ st.last = st.log[Len(st.log)].seq
      /\ st.first \in Nat /\ st.last \in Nat
  BY <1>1, <1>3, StreamNumbers DEF StreamInv, Extent
<1>5. 1 < Len(st.log) => st.log[1].seq < st.log[Len(st.log)].seq
  BY <1>3 DEF StreamInv, InOrder
<1>6. 1 = Len(st.log) => st.first = st.last
  BY <1>4
<1> QED BY <1>2, <1>4, <1>5, <1>6

(* One judgement changes the judged stream's entry alone, and only when it *)
(* is admitted, new or continued, and then up to where the stream ended.   *)
LEMMA JudgedEntry ==
  ASSUME IInv, JudgeAgainstLedger, NEW s \in DOMAIN ledger'.entries,
         s \in DOMAIN ledger.entries => ledger'.entries[s] # ledger.entries[s]
  PROVE  /\ s \in Streams /\ streams[s].first # NoSeq /\ Admitted(streams[s])
         /\ ledger'.entries[s].last = streams[s].last
         /\ s \in DOMAIN ledger.entries =>
              /\ ledger.entries[s].last < streams[s].first
              /\ ledger'.entries[s].first = ledger.entries[s].first
              /\ ~ledger.entries[s].closed
<1> DEFINE t       == LeastOf(Unjudged)
           st      == streams[t]
           verdict == Compare(ledger, t, View(st))
<1>1. Unjudged # {} /\ ledger' = Record(ledger, t, verdict, View(st), Admitted(st))
  BY DEF JudgeAgainstLedger
<1>2. t \in Streams /\ st.first # NoSeq
  <2>1. Unjudged \subseteq Nat
    BY StreamsAssumption DEF Unjudged, OpenStreams
  <2>2. t \in Unjudged
    BY <1>1, <2>1, LeastOfIsMember
  <2> QED BY <2>2 DEF Unjudged, OpenStreams
<1>3. /\ st \in StreamState /\ StreamInv(t, st) /\ IsLedger(ledger)
  BY <1>2 DEF IInv, TypeOK
<1>4. st.first \in Nat /\ st.last \in Nat /\ st.first <= st.last
  BY <1>2, <1>3, ExtentOfLog
<1>5. View(st).first = st.first /\ View(st).last = st.last
  BY DEF View
<1> HIDE DEF t
<1>6. CASE ~Advances(verdict, Admitted(st))
  BY <1>1, <1>6 DEF Record
<1>7. CASE Advances(verdict, Admitted(st)) /\ Known(ledger, t)
  <2>1. /\ View(st).first > ledger.entries[t].last /\ ~ledger.entries[t].closed
        /\ Admitted(st)
    BY <1>2, <1>7, AdvanceIsContinuation DEF Advances
  <2>2. ledger' = [ledger EXCEPT !.entries[t] = MergedStream(@, View(st))]
    BY <1>1, <1>7 DEF Record
  <2>3. /\ DOMAIN ledger'.entries = DOMAIN ledger.entries
        /\ ledger'.entries[t] = MergedStream(ledger.entries[t], View(st))
        /\ \A u \in DOMAIN ledger.entries \ {t} : ledger'.entries[u] = ledger.entries[u]
    BY <1>3, <1>7, <2>2 DEF IsLedger, Known
  <2>4. s = t
    BY <2>3
  <2>5. ledger.entries[t].last \in Nat
    BY <1>3, <1>7 DEF IsLedger, Known, SeenStreams
  <2>6. /\ ledger'.entries[t].last = st.last
        /\ ledger'.entries[t].first = ledger.entries[t].first
    BY <1>4, <1>5, <2>1, <2>3, <2>5 DEF MergedStream
  <2> QED BY <1>2, <1>4, <1>5, <2>1, <2>4, <2>5, <2>6
<1>8. CASE Advances(verdict, Admitted(st)) /\ ~Known(ledger, t) /\ LedgerFull(ledger)
  BY <1>1, <1>3, <1>8 DEF Record, IsLedger
<1>9. CASE Advances(verdict, Admitted(st)) /\ ~Known(ledger, t) /\ ~LedgerFull(ledger)
  <2>1. ledger'.entries = [u \in DOMAIN ledger.entries \cup {t} |->
                             IF u = t THEN SeenStream(View(st)) ELSE ledger.entries[u]]
    BY <1>1, <1>3, <1>9 DEF Record, IsLedger
  <2>2. s = t /\ s \notin DOMAIN ledger.entries
    BY <1>9, <2>1 DEF Known
  <2>3. Admitted(st)
    BY <1>9 DEF Advances
  <2> QED BY <1>2, <1>5, <2>1, <2>2, <2>3 DEF SeenStream
<1> QED BY <1>6, <1>7, <1>8, <1>9

(* An entry that is known stays, whatever is judged.                       *)
LEMMA EntriesStay ==
  ASSUME IInv, JudgeAgainstLedger
  PROVE  DOMAIN ledger.entries \subseteq DOMAIN ledger'.entries
<1> DEFINE t  == LeastOf(Unjudged)
           st == streams[t]
<1>1. ledger' = Record(ledger, t, Compare(ledger, t, View(st)), View(st), Admitted(st))
  BY DEF JudgeAgainstLedger
<1>2. IsLedger(ledger)
  BY DEF IInv, TypeOK
<1> HIDE DEF t
<1> QED BY <1>1, <1>2 DEF Record, IsLedger, Known

(* Once loaded, an entry is only ever continued past its recorded end.     *)
THEOREM LedgerOnlyContinues == Spec => LedgerNeverForgets
<1> DEFINE Step(s) ==
      /\ s \in DOMAIN ledger'.entries
      /\ \/ ledger'.entries[s] = ledger.entries[s]
         \/ /\ ledger.entries[s].last < streams[s].first
            /\ ledger.entries[s].last < ledger'.entries[s].last
            /\ ledger'.entries[s].first = ledger.entries[s].first
            /\ ~ledger.entries[s].closed
<1>1. ASSUME IInv, [Next]_vars, NEW s \in DOMAIN ledger.entries
      PROVE  Step(s)
  <2>1. CASE ~JudgeAgainstLedger
    BY <1>1, <2>1, OnlyJudgingChangesTheLedger
  <2>2. CASE JudgeAgainstLedger /\ ledger'.entries[s] # ledger.entries[s]
    <3>1. s \in DOMAIN ledger'.entries
      BY <1>1, <2>2, EntriesStay
    <3>2. /\ s \in Streams /\ streams[s].first # NoSeq
          /\ ledger'.entries[s].last = streams[s].last
          /\ ledger.entries[s].last < streams[s].first
          /\ ledger'.entries[s].first = ledger.entries[s].first
          /\ ~ledger.entries[s].closed
      BY <1>1, <2>2, <3>1, JudgedEntry
    <3>3. /\ streams[s].first \in Nat /\ streams[s].last \in Nat
          /\ streams[s].first <= streams[s].last
      BY <1>1, <3>2, ExtentOfLog DEF IInv, TypeOK
    <3>4. ledger.entries[s].last \in Nat
      BY <1>1 DEF IInv, TypeOK, IsLedger, SeenStreams
    <3> QED BY <3>1, <3>2, <3>3, <3>4
  <2>3. CASE JudgeAgainstLedger /\ ledger'.entries[s] = ledger.entries[s]
    BY <1>1, <2>3, EntriesStay
  <2> QED BY <2>1, <2>2, <2>3
<1>2. IInv /\ [Next]_vars => [\A s \in DOMAIN ledger.entries : Step(s)]_vars
  BY <1>1
<1>3. IInv /\ [Next]_vars =>
        [\A s \in DOMAIN ledger.entries :
           /\ s \in DOMAIN ledger'.entries
           /\ \/ ledger'.entries[s] = ledger.entries[s]
              \/ /\ ledger.entries[s].last < streams[s].first
                 /\ ledger.entries[s].last < ledger'.entries[s].last
                 /\ ledger'.entries[s].first = ledger.entries[s].first
                 /\ ~ledger.entries[s].closed]_vars
  BY <1>2
<1> QED BY <1>3, Inductive, PTL DEF Spec, LedgerNeverForgets

(* The ledger records as already scored only what was: every position of   *)
(* the run it admits was consumed, in a session that was scored, and on    *)
(* the collector's body as far as a verified signature reaches.            *)
THEOREM LedgerIsScored == Spec => LedgerRecordsOnlyScored
<1>1. ASSUME IInv, [Next]_vars, NEW s \in Streams, Learns(s)
      PROVE  LET st == streams[s] IN
             /\ ledger'.entries[s].last = st.last
             /\ \A n \in st.first .. st.last : \E i \in DOMAIN st.log :
                  /\ st.log[i].seq = n
                  /\ st.log[i].session # NoSession
                  /\ n <= st.verifiedTo =>
                       n < Len(Written[s]) /\ st.log[i].body = Written[s][n + 1]
  <2> DEFINE st == streams[s]
  <2>1. JudgeAgainstLedger
    BY <1>1, OnlyJudgingChangesTheLedger DEF Learns
  <2>2. st.first # NoSeq /\ Admitted(st) /\ ledger'.entries[s].last = st.last
    BY <1>1, <2>1, JudgedEntry DEF Learns
  <2>3. st \in StreamState /\ StreamInv(s, st)
    BY <1>1 DEF IInv, TypeOK
  <2> HIDE DEF st
  <2>4. Clean(st)
    BY <2>2 DEF Admitted, Clean, INADMISSIBLE
  <2>5. /\ Contiguous(st) /\ AsWritten(s, st)
        /\ \A i \in DOMAIN st.log : st.log[i].session # NoSession
    BY <2>3, <2>4 DEF StreamInv, Faithful, AllScored, Clean
  <2>6. /\ Len(st.log) \in Nat /\ Len(st.log) > 0 /\ DOMAIN st.log = 1 .. Len(st.log)
        /\ st.first = st.log[1].seq /\ st.last = st.log[Len(st.log)].seq
        /\ st.first \in Nat /\ st.last \in Nat /\ st.expected \in Nat
    BY <2>2, <2>3, ExtentOfLog, StreamNumbers
  <2>7. /\ st.first = st.expected - Len(st.log) + 1 - 1
        /\ st.last = st.expected - Len(st.log) + Len(st.log) - 1
    <3>1. 1 \in DOMAIN st.log /\ Len(st.log) \in DOMAIN st.log
      BY <2>6
    <3>2. /\ st.log[1].seq = st.expected - Len(st.log) + 1 - 1
          /\ st.log[Len(st.log)].seq = st.expected - Len(st.log) + Len(st.log) - 1
      BY <2>5, <3>1 DEF Contiguous
    <3> QED BY <2>6, <3>2
  <2>8. ASSUME NEW n \in st.first .. st.last
        PROVE  \E i \in DOMAIN st.log : st.log[i].seq = n
    <3> DEFINE i == n - st.first + 1
    <3>1. i \in 1 .. Len(st.log) /\ st.expected - Len(st.log) + i - 1 = n
      BY <2>6, <2>7
    <3> QED BY <2>5, <2>6, <3>1 DEF Contiguous
  <2> QED BY <2>2, <2>5, <2>8 DEF AsWritten, st
<1>2. IInv /\ [Next]_vars =>
        [\A s \in Streams : Learns(s) =>
           LET st == streams[s] IN
           /\ ledger'.entries[s].last = st.last
           /\ \A n \in st.first .. st.last : \E i \in DOMAIN st.log :
                /\ st.log[i].seq = n
                /\ st.log[i].session # NoSession
                /\ n <= st.verifiedTo =>
                     n < Len(Written[s]) /\ st.log[i].body = Written[s][n + 1]]_vars
  BY <1>1
<1> QED BY <1>2, Inductive, PTL DEF Spec, LedgerRecordsOnlyScored

(* The two counts a verifier keeps of a stream, what it scored and what it *)
(* holds, agree with the records (observe, _hold, _force, _drain).         *)
THEOREM InOrderAndWellCounted == Spec => []InOrderAndCounted
  BY OnceInOrder, PendingIsCounted, PTL DEF InOrderAndCounted

(* The ledger learns what was scored and forgets nothing                   *)
(* (StreamLedger.compare, record, _judge_against_ledger).                  *)
THEOREM LedgerIsFaithful == Spec => LedgerFollowsTheScored
  BY LedgerOnlyContinues, LedgerIsScored, PTL DEF LedgerFollowsTheScored
=============================================================================
