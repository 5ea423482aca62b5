---------------------------- MODULE ChecksProofs ----------------------------
(***************************************************************************)
(* The checks over one session and their contracts of coverage, for any    *)
(* calls, names, texts, records, policies and streams: the reduction of    *)
(* references (Ordering), CH01 (Grammar), CH02 (Disclosure), CH03 (Taint), *)
(* CH04 (Guardrails), CH06 (Attestation) and CH07 (Receipts).              *)
(*                                                                         *)
(* No check asks another, so each has an invariant and a theorem of its    *)
(* own; what they share, here first, are the facts about numbers and about *)
(* the shares a confidence is a product of.                                *)
(***************************************************************************)
EXTENDS Ordering, Grammar, Disclosure, Taint, Guardrails, Attestation, Receipts,
        FiniteSetTheorems, WellFoundedInduction, TLAPS

(* Numbers and finite sets.                                                *)

LEMMA LeastNumber ==
  ASSUME NEW S, S \subseteq Nat, S # {}
  PROVE  \E m \in S : \A n \in S : m =< n
<1> DEFINE below == {p \in Nat \X Nat : p[1] < p[2]}
<1>1. IsWellFoundedOn(below, Nat) BY NatLessThanWellFounded DEF OpToRel
<1> HIDE DEF below
<1>2. PICK m \in S : \A n \in S : ~(<<n, m>> \in below) BY <1>1, WFMin, Zenon
<1>3. m \in Nat OBVIOUS
<1>4. ASSUME NEW n \in S PROVE m =< n
  <2>1. n \in Nat /\ <<n, m>> \notin below BY <1>2
  <2>2. ~(n < m) BY <2>1, <1>3 DEF below
  <2>3. QED BY <2>1, <2>2, <1>3
<1>5. QED BY <1>4

LEMMA GreatestNumber ==
  ASSUME NEW n \in Nat, NEW S, S \subseteq 1 .. n, S # {}
  PROVE  \E m \in S : \A x \in S : x <= m
<1> DEFINE T == {t \in Nat : \E x \in S : t = n - x}
<1>1. T \subseteq Nat /\ T # {}
  <2>1. PICK x \in S : TRUE OBVIOUS
  <2>2. n - x \in T OBVIOUS
  <2>3. QED BY <2>2
<1>2. PICK t \in T : \A u \in T : t <= u
  <2> HIDE DEF T
  <2>1. QED BY <1>1, LeastNumber
<1>3. PICK m \in S : t = n - m OBVIOUS
<1>4. ASSUME NEW x \in S PROVE x <= m
  <2>1. n - x \in T OBVIOUS
  <2>2. t <= n - x BY <1>2, <2>1
  <2>3. QED BY <1>3, <2>2
<1>5. QED BY <1>4

LEMMA ImageIsFinite ==
  ASSUME NEW S, IsFiniteSet(S), NEW F, DOMAIN F = S
  PROVE  /\ IsFiniteSet({F[x] : x \in S})
         /\ Cardinality({F[x] : x \in S}) <= Cardinality(S)
<1> DEFINE T == {F[x] : x \in S}
<1>1. [x \in S |-> F[x]] \in Surjection(S, T) BY DEF Surjection
<1>2. QED BY <1>1, FS_Surjection

-----------------------------------------------------------------------------
(* Shares.  A share has a numerator and a positive denominator, both       *)
(* natural numbers.                                                        *)

Shares == Nat \X (Nat \ {0})

LEMMA ProductBound ==
  ASSUME NEW a \in Nat, NEW b \in Nat, NEW c \in Nat, NEW d \in Nat, a <= b, c <= d
  PROVE  a * c <= b * d
<1>1. a * c <= a * d OBVIOUS
<1>2. a * d <= b * d OBVIOUS
<1>3. a * c \in Nat /\ a * d \in Nat /\ b * d \in Nat OBVIOUS
<1>4. QED BY <1>1, <1>2, <1>3

LEMMA ProductEqual ==
  ASSUME NEW a \in Nat, NEW b \in Nat \ {0}, NEW c \in Nat, NEW d \in Nat \ {0}, a <= b, c <= d,
         a * c >= b * d
  PROVE  a = b /\ c = d
<1>1. a = b
  <2> SUFFICES ASSUME a < b PROVE FALSE OBVIOUS
  <2>1. a * c <= a * d OBVIOUS
  <2>2. a * d < b * d OBVIOUS
  <2>3. a * c \in Nat /\ a * d \in Nat /\ b * d \in Nat OBVIOUS
  <2>4. QED BY <2>1, <2>2, <2>3
<1>2. c = d
  <2> SUFFICES ASSUME c < d PROVE FALSE OBVIOUS
  <2>1. b * c < b * d OBVIOUS
  <2>2. QED BY <1>1, <2>1
<1>3. QED BY <1>1, <1>2

LEMMA TimesIsAShare ==
  ASSUME NEW a \in Shares, NEW b \in Shares
  PROVE  Times(a, b) \in Shares
<1>1. a[1] * b[1] \in Nat /\ a[2] * b[2] \in Nat /\ a[2] * b[2] # 0 BY DEF Shares
<1>2. QED BY <1>1 DEF Shares, Times

(* No share is more than the whole, nor a product of such shares; and the  *)
(* product is whole only if both are.                                      *)
LEMMA TimesOfParts ==
  ASSUME NEW a \in Shares, NEW b \in Shares, a[1] <= a[2], b[1] <= b[2]
  PROVE  /\ Times(a, b)[1] <= Times(a, b)[2]
         /\ Times(a, b)[1] >= Times(a, b)[2] => a[1] = a[2] /\ b[1] = b[2]
<1>1. /\ a[1] \in Nat /\ a[2] \in Nat \ {0} /\ b[1] \in Nat /\ b[2] \in Nat \ {0} BY DEF Shares
<1>2. Times(a, b)[1] = a[1] * b[1] /\ Times(a, b)[2] = a[2] * b[2] BY DEF Times
<1>3. a[1] * b[1] <= a[2] * b[2] BY <1>1, ProductBound
<1>4. a[1] * b[1] >= a[2] * b[2] => a[1] = a[2] /\ b[1] = b[2] BY <1>1, ProductEqual
<1>5. QED BY <1>2, <1>3, <1>4

LEMMA TimesIsMonotone ==
  ASSUME NEW a \in Shares, NEW b \in Shares, NEW c \in Shares, NEW d \in Shares,
         AtMostShare(a, c), AtMostShare(b, d)
  PROVE  AtMostShare(Times(a, b), Times(c, d))
<1>1. /\ a[1] \in Nat /\ a[2] \in Nat /\ b[1] \in Nat /\ b[2] \in Nat
      /\ c[1] \in Nat /\ c[2] \in Nat /\ d[1] \in Nat /\ d[2] \in Nat
  BY DEF Shares
<1>2. /\ Times(a, b)[1] = a[1] * b[1] /\ Times(a, b)[2] = a[2] * b[2]
      /\ Times(c, d)[1] = c[1] * d[1] /\ Times(c, d)[2] = c[2] * d[2]
  BY DEF Times
<1>3. a[1] * c[2] <= c[1] * a[2] /\ b[1] * d[2] <= d[1] * b[2] BY DEF AtMostShare
<1>4. /\ a[1] * c[2] \in Nat /\ c[1] * a[2] \in Nat /\ b[1] * d[2] \in Nat /\ d[1] * b[2] \in Nat
  BY <1>1
<1>5. (a[1] * c[2]) * (b[1] * d[2]) <= (c[1] * a[2]) * (d[1] * b[2])
  BY <1>3, <1>4, ProductBound
<1>6. (a[1] * c[2]) * (b[1] * d[2]) = (a[1] * b[1]) * (c[2] * d[2]) BY <1>1
<1>7. (c[1] * a[2]) * (d[1] * b[2]) = (c[1] * d[1]) * (a[2] * b[2]) BY <1>1
<1>8. QED BY <1>2, <1>5, <1>6, <1>7 DEF AtMostShare

LEMMA AtMostItself ==
  ASSUME NEW a \in Shares
  PROVE  AtMostShare(a, a)
<1>1. a[1] \in Nat /\ a[2] \in Nat BY DEF Shares
<1>2. a[1] * a[2] \in Nat BY <1>1
<1>3. QED BY <1>2 DEF AtMostShare

LEMMA ShareOfASet ==
  ASSUME NEW all, IsFiniteSet(all), NEW part \in SUBSET all
  PROVE  /\ Share(part, all) \in Shares /\ Share(part, all)[1] <= Share(part, all)[2]
         /\ Share(part, all)[1] = Share(part, all)[2] => part = all
         /\ IsFiniteSet(part) /\ Cardinality(part) \in Nat
<1>1. /\ IsFiniteSet(part) /\ Cardinality(part) \in Nat /\ Cardinality(all) \in Nat
      /\ Cardinality(part) <= Cardinality(all)
      /\ Cardinality(all) = Cardinality(part) => all = part
      /\ Cardinality(all) = 0 <=> all = {}
  BY FS_Subset, FS_CardinalityType, FS_EmptySet
<1>2. CASE all = {} BY <1>1, <1>2 DEF Share, Whole, Shares
<1>3. CASE all # {} BY <1>1, <1>3 DEF Share, Shares
<1>4. QED BY <1>2, <1>3

LEMMA HalfOfAShare ==
  ASSUME NEW a \in Shares, a[1] <= a[2]
  PROVE  /\ HalfCharged(a) \in Shares /\ HalfCharged(a)[1] <= HalfCharged(a)[2]
         /\ HalfCharged(a)[1] = HalfCharged(a)[2] => a[1] = 0
<1>1. a[1] \in Nat /\ a[2] \in Nat \ {0} BY DEF Shares
<1>2. 2 * a[2] - a[1] \in Nat /\ 2 * a[2] \in Nat \ {0} BY <1>1
<1>3. QED BY <1>1, <1>2 DEF HalfCharged, Shares

LEMMA DoubledDifference ==
  ASSUME NEW m \in Nat, NEW n \in Nat, NEW k \in Nat
  PROVE  (2 * m - n) * (2 * k) = 4 * (m * k) - 2 * (n * k)
OBVIOUS

LEMMA HalfOfAShareLowers ==
  ASSUME NEW a \in Shares, NEW b \in Shares, a[1] <= a[2], b[1] <= b[2], AtMostShare(b, a)
  PROVE  AtMostShare(HalfCharged(a), HalfCharged(b))
<1>1. a[1] \in Nat /\ a[2] \in Nat /\ b[1] \in Nat /\ b[2] \in Nat BY DEF Shares
<1>2. /\ HalfCharged(a)[1] = 2 * a[2] - a[1] /\ HalfCharged(a)[2] = 2 * a[2]
      /\ HalfCharged(b)[1] = 2 * b[2] - b[1] /\ HalfCharged(b)[2] = 2 * b[2]
  BY DEF HalfCharged
<1>3. b[1] * a[2] <= a[1] * b[2] BY DEF AtMostShare
<1> DEFINE ab == a[2] * b[2]
           p == b[1] * a[2]
           q == a[1] * b[2]
<1>4. ab \in Nat /\ p \in Nat /\ q \in Nat BY <1>1
<1>5. (2 * a[2] - a[1]) * (2 * b[2]) = 4 * ab - 2 * q BY <1>1, DoubledDifference
<1>6. (2 * b[2] - b[1]) * (2 * a[2]) = 4 * ab - 2 * p
  <2>1. ab = b[2] * a[2] BY <1>1
  <2>2. (2 * b[2] - b[1]) * (2 * a[2]) = 4 * (b[2] * a[2]) - 2 * (b[1] * a[2])
    BY <1>1, DoubledDifference
  <2>3. QED BY <2>1, <2>2
<1>7. p <= q BY <1>3
<1> HIDE DEF ab, p, q
<1>8. 4 * ab - 2 * q <= 4 * ab - 2 * p BY <1>4, <1>7
<1>9. QED BY <1>2, <1>5, <1>6, <1>8 DEF AtMostShare

-----------------------------------------------------------------------------
(* Classes.                                                                *)

LEMMA WorthOfACall ==
  ASSUME NEW c
  PROVE  Worth(c) \in {0, 7, 10} /\ (Worth(c) = 10 => c.name \in Manifest)
BY DEF Worth

LEMMA WorstIsLeast ==
  ASSUME NEW calls
  PROVE  /\ WorstWorth(calls) \in 0 .. 10
         /\ \A c \in calls : WorstWorth(calls) <= Worth(c)
         /\ calls # {} => \E c \in calls : WorstWorth(calls) = Worth(c)
<1>1. CASE calls = {} BY <1>1 DEF WorstWorth
<1>2. CASE calls # {}
  <2> DEFINE W == {Worth(c) : c \in calls}
  <2>1. W \subseteq {0, 7, 10} /\ W # {} BY <1>2, WorthOfACall
  <2>2. \E w \in W : \A v \in W : w <= v
    <3> HIDE DEF W
    <3>1. CASE 0 \in W BY <3>1, <2>1
    <3>2. CASE 0 \notin W /\ 7 \in W BY <3>2, <2>1
    <3>3. CASE 0 \notin W /\ 7 \notin W
      <4>1. W = {10} BY <3>3, <2>1
      <4>2. QED BY <4>1
    <3>4. QED BY <3>1, <3>2, <3>3
  <2>3. \E w \in W : \A c \in calls : w <= Worth(c) BY <2>2
  <2>4. WorstWorth(calls) = CHOOSE w \in W : \A c \in calls : w <= Worth(c)
    BY <1>2 DEF WorstWorth
  <2>5. WorstWorth(calls) \in W /\ \A c \in calls : WorstWorth(calls) <= Worth(c)
    BY <2>3, <2>4
  <2>6. QED BY <2>1, <2>5
<1>3. QED BY <1>1, <1>2

LEMMA ClassShareIsAShare ==
  ASSUME NEW calls
  PROVE  /\ ClassShare(calls) \in Shares /\ ClassShare(calls)[1] <= ClassShare(calls)[2]
         /\ ClassShare(calls)[1] = ClassShare(calls)[2] => \A c \in calls : c.name \in Manifest
<1>1. /\ WorstWorth(calls) \in 0 .. 10
      /\ \A c \in calls : WorstWorth(calls) <= Worth(c)
  BY WorstIsLeast
<1>2. /\ ClassShare(calls) \in Shares /\ ClassShare(calls)[1] = WorstWorth(calls)
      /\ ClassShare(calls)[2] = 10
  BY <1>1 DEF ClassShare, Shares
<1>3. ASSUME WorstWorth(calls) = 10, NEW c \in calls PROVE c.name \in Manifest
  <2>1. 10 <= Worth(c) BY <1>1, <1>3
  <2>2. QED BY <2>1, WorthOfACall
<1>4. QED BY <1>1, <1>2, <1>3

LEMMA ClassShareOnlyFalls ==
  ASSUME NEW more, NEW calls \in SUBSET more
  PROVE  AtMostShare(ClassShare(more), ClassShare(calls))
<1>1. WorstWorth(more) <= WorstWorth(calls)
  <2>1. CASE calls = {}
    <3>1. WorstWorth(calls) = 10 BY <2>1 DEF WorstWorth
    <3>2. WorstWorth(more) \in 0 .. 10 BY WorstIsLeast
    <3>3. QED BY <3>1, <3>2
  <2>2. CASE calls # {}
    <3>1. PICK c \in calls : WorstWorth(calls) = Worth(c) BY <2>2, WorstIsLeast
    <3>2. c \in more OBVIOUS
    <3>3. WorstWorth(more) <= Worth(c) BY <3>2, WorstIsLeast
    <3>4. QED BY <3>1, <3>3
  <2>3. QED BY <2>1, <2>2
<1>2. WorstWorth(more) \in 0 .. 10 /\ WorstWorth(calls) \in 0 .. 10 BY WorstIsLeast
<1>3. QED BY <1>1, <1>2 DEF AtMostShare, ClassShare

LEMMA KlassOfACall ==
  ASSUME ClassesAssumption, NEW c, c.name \in Names
  PROVE  Klass(c) \in Klasses
<1>1. CASE c.name \in Manifest BY <1>1 DEF Klass, DeclaredKlass, Klasses
<1>2. CASE c.name \notin Manifest
  <2>1. ByName[c.name] \in Klasses BY DEF ClassesAssumption
  <2>2. QED BY <1>2, <2>1 DEF Klass, Klasses
<1>3. QED BY <1>1, <1>2

-----------------------------------------------------------------------------
(* Ordering: any streams, clocks, positions and any number of references.  *)

OfStream(s) == {ref \in refs : ref.stream = s}

ClockedRefs == {ref \in refs : Clocked(ref)}

(* The earliest clock of some references: theirs, and of one of theirs.    *)
EarliestOf(some, mark) ==
  /\ \E ref \in some : mark = <<ref.ts, ref.stream>>
  /\ \A ref \in some : mark[1] <= ref.ts

(* What the reduction keeps of the references it was given.                *)
LeastKept ==
  \A s \in Streams :
    IF OfStream(s) = {} THEN minSeq[s] = None
    ELSE /\ \E ref \in OfStream(s) : minSeq[s] = ref.seq
         /\ \A ref \in OfStream(s) : minSeq[s] <= ref.seq

BestKept == IF ClockedRefs = {} THEN best = None ELSE EarliestOf(ClockedRefs, best)

Others == {ref \in ClockedRefs : ref.stream # best[2]}

NextKept == IF ClockedRefs = {} \/ Others = {} THEN next = None ELSE EarliestOf(Others, next)

UnclockedKept == unclocked > 0 <=> \E ref \in refs : ~Clocked(ref)

OrderingInv == OrderingTypeOK /\ LeastKept /\ BestKept /\ NextKept /\ UnclockedKept

OrderingHypothesis == MomentsAssumption /\ OrderingAssumption

(* A moment has an integer for a clock, if any, and for a position.        *)
LEMMA MomentFacts ==
  ASSUME OrderingHypothesis, NEW m \in Moments
  PROVE  /\ Clocked(m) => m.ts \in Clocks /\ m.ts \in Int
         /\ m.stream \in Streams \cup {None}
         /\ m.stream # None => m.stream \in Streams /\ m.seq \in Positions /\ m.seq \in Int
BY DEF OrderingHypothesis, MomentsAssumption, Moments, Clocked

(* A mark is not None, and has an integer for a clock.                     *)
LEMMA MarkFacts ==
  ASSUME OrderingHypothesis, NEW mark \in ClockMarks, mark # None
  PROVE  mark[1] \in Clocks /\ mark[1] \in Int /\ mark[2] \in Streams \cup {None}
BY DEF OrderingHypothesis, MomentsAssumption, ClockMarks

LEMMA ClockedMark ==
  ASSUME OrderingHypothesis, NEW m \in Moments, Clocked(m)
  PROVE  <<m.ts, m.stream>> \in ClockMarks /\ <<m.ts, m.stream>> # None
<1>1. m.ts \in Clocks /\ m.stream \in Streams \cup {None} BY MomentFacts
<1>2. QED BY <1>1 DEF OrderingHypothesis, OrderingAssumption, ClockMarks

LEMMA LeastStep ==
  ASSUME OrderingHypothesis, OrderingInv, NEW ref \in Moments, Note(ref)
  PROVE  LeastKept' /\ minSeq' \in [Streams -> Positions \cup {None}]
<1>1. refs' = refs \cup {ref} /\ minSeq' = MinSeqWith(ref) BY DEF Note
<1>2. minSeq \in [Streams -> Positions \cup {None}] BY DEF OrderingInv, OrderingTypeOK
<1>3. \A m \in refs \cup {ref} :
      m.stream # None => m.stream \in Streams /\ m.seq \in Positions /\ m.seq \in Int
  BY MomentFacts DEF OrderingInv, OrderingTypeOK
<1>4. None \notin Streams BY DEF OrderingHypothesis, MomentsAssumption
<1>5. Positions \subseteq Int /\ None \notin Positions
  BY DEF OrderingHypothesis, MomentsAssumption, OrderingAssumption
<1>6. minSeq' \in [Streams -> Positions \cup {None}]
  BY <1>1, <1>2, <1>3 DEF MinSeqWith
<1>7. ASSUME NEW s \in Streams
      PROVE  IF OfStream(s)' = {} THEN minSeq'[s] = None
             ELSE /\ \E m \in OfStream(s)' : minSeq'[s] = m.seq
                  /\ \A m \in OfStream(s)' : minSeq'[s] <= m.seq
  <2>1. CASE ref.stream # s
    <3>1. OfStream(s)' = OfStream(s) BY <1>1, <2>1 DEF OfStream
    <3>2. minSeq'[s] = minSeq[s] BY <1>1, <1>2, <2>1 DEF MinSeqWith
    <3>3. QED BY <3>1, <3>2 DEF OrderingInv, LeastKept
  <2>2. CASE ref.stream = s
    <3>1. OfStream(s)' = OfStream(s) \cup {ref} BY <1>1, <2>2 DEF OfStream
    <3>2. minSeq'[s] = IF minSeq[s] = None \/ ref.seq < minSeq[s] THEN ref.seq ELSE minSeq[s]
      BY <1>1, <1>2, <1>4, <2>2 DEF MinSeqWith
    <3>3. ref.seq \in Int /\ \A m \in OfStream(s) : m.seq \in Int BY <1>3, <1>4, <2>2 DEF OfStream
    <3>4. CASE OfStream(s) = {}
      <4>1. minSeq'[s] = ref.seq BY <3>2, <3>4 DEF OrderingInv, LeastKept
      <4>2. QED BY <3>1, <3>3, <3>4, <4>1
    <3>5. CASE OfStream(s) # {}
      <4>1. /\ \E m \in OfStream(s) : minSeq[s] = m.seq
            /\ \A m \in OfStream(s) : minSeq[s] <= m.seq
        BY <3>5 DEF OrderingInv, LeastKept
      <4>2. minSeq[s] \in Positions
        BY <1>3, <1>4, <4>1 DEF OfStream
      <4>3. minSeq[s] # None /\ minSeq[s] \in Int BY <4>2, <1>5
      <4>4. QED BY <3>1, <3>2, <3>3, <4>1, <4>3
    <3>6. QED BY <3>4, <3>5
  <2>3. QED BY <2>1, <2>2
<1>8. QED BY <1>6, <1>7 DEF LeastKept

LEMMA ClockStep ==
  ASSUME OrderingHypothesis, OrderingInv, NEW ref \in Moments, Note(ref), Clocked(ref)
  PROVE  BestKept' /\ NextKept' /\ best' \in ClockMarks /\ next' \in ClockMarks
<1> DEFINE mark == <<ref.ts, ref.stream>>
<1>1. refs' = refs \cup {ref} /\ best' = BestWith(ref.ts, ref.stream)
        /\ next' = NextWith(ref.ts, ref.stream)
  BY DEF Note
<1>2. ClockedRefs' = ClockedRefs \cup {ref} BY <1>1 DEF ClockedRefs, Clocked
<1>3. mark \in ClockMarks /\ mark # None BY ClockedMark
<1>4. best \in ClockMarks /\ next \in ClockMarks BY DEF OrderingInv, OrderingTypeOK
<1>5. ref.ts \in Int /\ \A m \in ClockedRefs : m.ts \in Int
  BY MomentFacts DEF ClockedRefs, OrderingInv, OrderingTypeOK
<1>6. best # None => best[1] \in Int BY <1>4, MarkFacts
<1>7. next # None => next[1] \in Int BY <1>4, MarkFacts
<1>8. best' \in ClockMarks /\ next' \in ClockMarks
  BY <1>1, <1>3, <1>4 DEF BestWith, NextWith
<1>9. mark[1] = ref.ts /\ mark[2] = ref.stream OBVIOUS
<1>10. \A m \in ClockedRefs : <<m.ts, m.stream>> # None
  BY ClockedMark DEF ClockedRefs, OrderingInv, OrderingTypeOK
<1> HIDE DEF mark
<1>11. CASE ClockedRefs = {}
  <2>1. best = None /\ next = None BY <1>11 DEF OrderingInv, BestKept, NextKept
  <2>2. best' = mark /\ next' = None
    BY <1>1, <2>1 DEF BestWith, NextWith, Before, mark
  <2>3. ClockedRefs' = {ref} BY <1>2, <1>11
  <2>4. Others' = {} BY <2>2, <2>3, <1>9 DEF Others
  <2>5. BestKept' BY <2>2, <2>3, <1>5, <1>9 DEF BestKept, EarliestOf, mark
  <2>6. QED BY <2>2, <2>4, <2>5, <1>8 DEF NextKept
<1>12. CASE ClockedRefs # {}
  <2>1. (\E m \in ClockedRefs : best = <<m.ts, m.stream>>)
        /\ (\A m \in ClockedRefs : best[1] <= m.ts)
    BY <1>12 DEF OrderingInv, BestKept, EarliestOf
  <2>2. best # None BY <2>1, <1>10
  <2>3. Others # {} => (\E m \in Others : next = <<m.ts, m.stream>>)
                    /\ (\A m \in Others : next[1] <= m.ts)
    BY <1>12 DEF OrderingInv, NextKept, EarliestOf
  <2>4. Others = {} <=> next = None
    BY <1>12, <2>3, <1>10 DEF OrderingInv, NextKept, Others
  <2>5. CASE ref.ts < best[1]
    <3>1. best' = mark /\ next' = IF best[2] # ref.stream THEN best ELSE next
      BY <1>1, <2>2, <2>5 DEF BestWith, NextWith, Before, mark
    <3>2. BestKept'
      <4>1. \A m \in ClockedRefs' : mark[1] <= m.ts BY <1>2, <2>1, <2>5, <1>5, <1>6, <1>9, <2>2
      <4>2. QED BY <4>1, <3>1, <1>2 DEF BestKept, EarliestOf, mark
    <3>3. Others' = {m \in ClockedRefs : m.stream # ref.stream} BY <1>2, <3>1, <1>9 DEF Others
    <3>4. CASE best[2] # ref.stream
      <4>1. PICK m \in ClockedRefs : best = <<m.ts, m.stream>> BY <2>1
      <4>2. m \in Others' BY <3>3, <3>4, <4>1
      <4>3. EarliestOf(Others', best) BY <4>1, <4>2, <2>1, <3>3 DEF EarliestOf
      <4>4. next' = best BY <3>1, <3>4
      <4>5. ClockedRefs' # {} /\ Others' # {} BY <4>2, <1>2
      <4>6. NextKept' BY <4>3, <4>4, <4>5 DEF NextKept, EarliestOf
      <4>7. QED BY <3>2, <4>6, <1>8
    <3>5. CASE best[2] = ref.stream
      <4>1. Others' = Others /\ next' = next BY <3>1, <3>3, <3>5 DEF Others
      <4>2. ClockedRefs' # {} BY <1>2
      <4>3. NextKept' BY <4>1, <4>2, <1>12 DEF NextKept, EarliestOf, OrderingInv
      <4>4. QED BY <3>2, <4>3, <1>8
    <3>6. QED BY <3>4, <3>5
  <2>6. CASE ~(ref.ts < best[1])
    <3>1. best' = best BY <1>1, <2>2, <2>6 DEF BestWith, Before
    <3>2. BestKept'
      <4>1. \A m \in ClockedRefs' : best[1] <= m.ts BY <1>2, <2>1, <2>6, <1>5, <1>6, <2>2
      <4>2. \E m \in ClockedRefs' : best = <<m.ts, m.stream>> BY <2>1, <1>2
      <4>3. ClockedRefs' # {} BY <1>2
      <4>4. QED BY <4>1, <4>2, <4>3, <3>1 DEF BestKept, EarliestOf
    <3>3. Others' = Others \cup (IF ref.stream # best[2] THEN {ref} ELSE {})
      BY <1>2, <3>1 DEF Others
    <3>4. CASE ref.stream # best[2] /\ Before(ref.ts, next)
      <4>1. next' = mark BY <1>1, <2>2, <2>6, <3>4 DEF NextWith, Before, mark
      <4>2. Others' = Others \cup {ref} BY <3>3, <3>4
      <4>3. \A m \in Others : ref.ts <= m.ts
        <5> TAKE m \in Others
        <5>1. next # None /\ next[1] <= m.ts BY <2>3, <2>4
        <5>2. m.ts \in Int BY <1>5 DEF Others
        <5>3. QED BY <5>1, <5>2, <3>4, <1>5, <1>7 DEF Before
      <4>4. EarliestOf(Others', mark) BY <4>2, <4>3, <1>5, <1>9 DEF EarliestOf, mark
      <4>5. Others' # {} /\ ClockedRefs' # {} BY <4>2, <1>2
      <4>6. NextKept' BY <4>1, <4>4, <4>5 DEF NextKept, EarliestOf
      <4>7. QED BY <3>2, <4>6, <1>8
    <3>5. CASE ~(ref.stream # best[2] /\ Before(ref.ts, next))
      <4>1. next' = next BY <1>1, <2>2, <2>6, <3>5 DEF NextWith, Before
      <4>2. CASE ref.stream = best[2]
        <5>1. Others' = Others /\ ClockedRefs' # {} BY <3>3, <4>2, <1>2
        <5>2. NextKept' BY <4>1, <5>1, <1>12 DEF NextKept, EarliestOf, OrderingInv
        <5>3. QED BY <5>2, <3>2, <1>8
      <4>3. CASE ref.stream # best[2]
        <5>1. next # None /\ ~(ref.ts < next[1]) BY <3>5, <4>3 DEF Before
        <5>2. Others # {} BY <5>1, <2>4
        <5>3. Others' = Others \cup {ref} BY <3>3, <4>3
        <5>4. EarliestOf(Others', next)
          BY <5>1, <5>2, <5>3, <2>3, <1>5, <1>7 DEF EarliestOf
        <5>5. Others' # {} /\ ClockedRefs' # {} BY <5>3, <1>2
        <5>6. NextKept' BY <5>4, <5>5, <4>1 DEF NextKept, EarliestOf
        <5>7. QED BY <5>6, <3>2, <1>8
      <4>4. QED BY <4>2, <4>3
    <3>6. QED BY <3>4, <3>5
  <2>7. QED BY <2>5, <2>6
<1>13. QED BY <1>11, <1>12

LEMMA NoteKeepsInv ==
  ASSUME OrderingHypothesis, OrderingInv, NEW ref \in Moments, Note(ref)
  PROVE  OrderingInv'
<1>1. refs' = refs \cup {ref} /\ refs' \subseteq Moments
  BY DEF Note, OrderingInv, OrderingTypeOK
<1>2. LeastKept' /\ minSeq' \in [Streams -> Positions \cup {None}] BY LeastStep
<1>3. CASE Clocked(ref)
  <2>1. BestKept' /\ NextKept' /\ best' \in ClockMarks /\ next' \in ClockMarks
    BY <1>3, ClockStep
  <2>2. unclocked' = unclocked BY <1>3 DEF Note
  <2>3. UnclockedKept' BY <1>1, <1>3, <2>2 DEF UnclockedKept, OrderingInv, Clocked
  <2>4. QED BY <1>1, <1>2, <2>1, <2>2, <2>3
         DEF OrderingInv, OrderingTypeOK
<1>4. CASE ~Clocked(ref)
  <2>1. unclocked' = unclocked + 1 /\ best' = best /\ next' = next BY <1>4 DEF Note
  <2>2. ClockedRefs' = ClockedRefs BY <1>1, <1>4 DEF ClockedRefs, Clocked
  <2>3. Others' = Others BY <2>1, <2>2 DEF Others
  <2>4. BestKept' BY <2>1, <2>2 DEF BestKept, EarliestOf, OrderingInv
  <2>5. NextKept' BY <2>1, <2>2, <2>3 DEF NextKept, EarliestOf, OrderingInv
  <2>6. unclocked' \in Nat /\ unclocked' > 0 BY <2>1 DEF OrderingInv, OrderingTypeOK
  <2>7. UnclockedKept' BY <1>1, <1>4, <2>6 DEF UnclockedKept, Clocked
  <2>8. QED BY <1>1, <1>2, <2>1, <2>4, <2>5, <2>6, <2>7
         DEF OrderingInv, OrderingTypeOK
<1>5. QED BY <1>3, <1>4

(* What the least position of the call's stream says of its references.    *)
LEMMA SequenceExact ==
  ASSUME OrderingHypothesis, OrderingInv, NEW call \in Moments
  PROVE  /\ SeqAfter(call) <=> \E ref \in refs : BySequence(call, ref) /\ call.seq > ref.seq
         /\ (call.stream # None /\ minSeq[call.stream] # None) <=>
              \E ref \in refs : BySequence(call, ref)
         /\ ~SeqAfter(call) =>
              ((call.stream # None /\ minSeq[call.stream] # None /\ call.seq = minSeq[call.stream])
                 <=> \E ref \in refs : BySequence(call, ref) /\ call.seq = ref.seq)
<1>1. CASE call.stream = None BY <1>1 DEF SeqAfter, BySequence
<1>2. CASE call.stream # None
  <2> DEFINE s == call.stream
  <2>1. s \in Streams /\ call.seq \in Int BY <1>2, MomentFacts
  <2>2. \A ref : ref \in OfStream(s) <=> ref \in refs /\ BySequence(call, ref)
    BY <1>2 DEF OfStream, BySequence
  <2>3. \A ref \in OfStream(s) : ref.seq \in Int /\ ref.seq \in Positions
    BY <1>2, MomentFacts DEF OfStream, OrderingInv, OrderingTypeOK
  <2>4. CASE OfStream(s) = {}
    <3>1. minSeq[s] = None BY <2>1, <2>4 DEF OrderingInv, LeastKept
    <3>2. QED BY <3>1, <2>2, <2>4 DEF SeqAfter
  <2>5. CASE OfStream(s) # {}
    <3>1. /\ \E ref \in OfStream(s) : minSeq[s] = ref.seq
          /\ \A ref \in OfStream(s) : minSeq[s] <= ref.seq
      BY <2>1, <2>5 DEF OrderingInv, LeastKept
    <3>2. minSeq[s] # None /\ minSeq[s] \in Int
      BY <3>1, <2>3 DEF OrderingHypothesis, OrderingAssumption
    <3>3. SeqAfter(call) <=> call.seq > minSeq[s] BY <1>2, <3>2 DEF SeqAfter
    <3>4. SeqAfter(call) <=> \E ref \in OfStream(s) : call.seq > ref.seq
      BY <3>1, <3>2, <3>3, <2>1, <2>3
    <3>5. ~SeqAfter(call) => (call.seq = minSeq[s] <=> \E ref \in OfStream(s) : call.seq = ref.seq)
      BY <3>1, <3>2, <3>3, <2>1, <2>3
    <3>6. QED BY <1>2, <2>2, <2>5, <3>2, <3>4, <3>5
  <2>6. QED BY <2>4, <2>5
<1>3. QED BY <1>1, <1>2

(* The references the clock decides for a call.                            *)
ByClock(call) == {ref \in ClockedRefs : ~BySequence(call, ref)}

(* The mark it is compared with is the earliest of them.                   *)
LEMMA ClockForExact ==
  ASSUME OrderingHypothesis, OrderingInv, NEW call \in Moments
  PROVE  IF ByClock(call) = {} THEN ClockFor(call.stream) = None
         ELSE EarliestOf(ByClock(call), ClockFor(call.stream))
<1> DEFINE s == call.stream
<1>1. CASE ClockedRefs = {}
  <2>1. best = None BY <1>1 DEF OrderingInv, BestKept
  <2>2. QED BY <1>1, <2>1 DEF ByClock, ClockFor
<1>2. CASE ClockedRefs # {}
  <2>1. EarliestOf(ClockedRefs, best) BY <1>2 DEF OrderingInv, BestKept
  <2>2. PICK b \in ClockedRefs : best = <<b.ts, b.stream>> BY <2>1 DEF EarliestOf
  <2>3. best # None /\ best[2] = b.stream
    BY <2>2, ClockedMark DEF ClockedRefs, OrderingInv, OrderingTypeOK
  <2>4. CASE s # None /\ best[2] = s
    <3>1. ClockFor(s) = next BY <2>3, <2>4 DEF ClockFor
    <3>2. ByClock(call) = Others BY <2>4 DEF ByClock, Others, BySequence
    <3>3. QED BY <1>2, <3>1, <3>2 DEF OrderingInv, NextKept
  <2>5. CASE ~(s # None /\ best[2] = s)
    <3>1. ClockFor(s) = best BY <2>5 DEF ClockFor
    <3>2. b \in ByClock(call) BY <2>2, <2>3, <2>5 DEF ByClock, BySequence
    <3>3. EarliestOf(ByClock(call), best)
      BY <2>1, <2>2, <3>2 DEF EarliestOf, ByClock
    <3>4. QED BY <3>1, <3>2, <3>3
  <2>6. QED BY <2>4, <2>5
<1>3. QED BY <1>1, <1>2

LEMMA ClockExact ==
  ASSUME OrderingHypothesis, OrderingInv, NEW call \in Moments
  PROVE  /\ ClockAfter(call) <=> Clocked(call) /\ \E ref \in ByClock(call) : call.ts > ref.ts
         /\ ~ClockAfter(call) =>
              ((ClockFor(call.stream) # None
                  /\ (~Clocked(call) \/ call.ts = ClockFor(call.stream)[1])) <=>
                 \E ref \in ByClock(call) : ~Clocked(call) \/ call.ts = ref.ts)
<1> DEFINE mark == ClockFor(call.stream)
<1>1. CASE ByClock(call) = {}
  <2>1. mark = None BY <1>1, ClockForExact
  <2>2. QED BY <1>1, <2>1 DEF ClockAfter
<1>2. CASE ByClock(call) # {}
  <2>1. EarliestOf(ByClock(call), mark) BY <1>2, ClockForExact
  <2> HIDE DEF mark
  <2>2. PICK b \in ByClock(call) : mark = <<b.ts, b.stream>> BY <2>1 DEF EarliestOf
  <2>3. \A ref \in ByClock(call) : ref.ts \in Int /\ mark[1] <= ref.ts
    BY <2>1, MomentFacts DEF EarliestOf, ByClock, ClockedRefs, OrderingInv, OrderingTypeOK
  <2>4. mark # None /\ mark[1] = b.ts /\ b.ts \in Int
    BY <2>2, <2>3, ClockedMark DEF ByClock, ClockedRefs, OrderingInv, OrderingTypeOK
  <2>5. Clocked(call) => call.ts \in Int BY MomentFacts
  <2>6. ClockAfter(call) <=> Clocked(call) /\ call.ts > mark[1]
    BY <2>4 DEF ClockAfter, mark
  <2>7. ClockAfter(call) <=> Clocked(call) /\ \E ref \in ByClock(call) : call.ts > ref.ts
    BY <2>3, <2>4, <2>5, <2>6
  <2>8. ~ClockAfter(call) =>
          ((~Clocked(call) \/ call.ts = mark[1]) <=>
             \E ref \in ByClock(call) : ~Clocked(call) \/ call.ts = ref.ts)
    BY <2>3, <2>4, <2>5, <2>6
  <2>9. QED BY <2>4, <2>7, <2>8 DEF mark
<1>3. QED BY <1>1, <1>2

(* What decides a pair.                                                    *)
LEMMA OrderCases ==
  ASSUME OrderingHypothesis, OrderingInv, NEW call \in Moments, NEW ref \in refs
  PROVE  /\ Order(call, ref) = "after" <=>
              \/ BySequence(call, ref) /\ call.seq > ref.seq
              \/ ref \in ByClock(call) /\ Clocked(call) /\ call.ts > ref.ts
         /\ Order(call, ref) = "indeterminate" <=>
              \/ BySequence(call, ref) /\ call.seq = ref.seq
              \/ ref \in ByClock(call) /\ (~Clocked(call) \/ call.ts = ref.ts)
              \/ ~BySequence(call, ref) /\ ~Clocked(ref)
<1>1. ref \in Moments BY DEF OrderingInv, OrderingTypeOK
<1>2. ref \in ByClock(call) <=> Clocked(ref) /\ ~BySequence(call, ref) BY DEF ByClock, ClockedRefs
<1>3. CASE BySequence(call, ref)
  <2>1. call.seq \in Int /\ ref.seq \in Int BY <1>1, <1>3, MomentFacts DEF BySequence
  <2>2. QED BY <1>2, <1>3, <2>1 DEF Order
<1>4. CASE ~BySequence(call, ref)
  <2>1. CASE Clocked(call) /\ Clocked(ref)
    <3>1. call.ts \in Int /\ ref.ts \in Int BY <1>1, <2>1, MomentFacts
    <3>2. QED BY <1>2, <1>4, <2>1, <3>1 DEF Order
  <2>2. CASE ~(Clocked(call) /\ Clocked(ref))
    <3>1. Order(call, ref) = "indeterminate" BY <1>4, <2>2 DEF Order
    <3>2. QED BY <1>2, <1>4, <2>2, <3>1
  <2>3. QED BY <2>1, <2>2
<1>5. QED BY <1>3, <1>4

LEMMA AfterIsExact ==
  ASSUME OrderingHypothesis, OrderingInv, NEW call \in Moments
  PROVE  (SeqAfter(call) \/ ClockAfter(call)) <=> \E ref \in refs : Order(call, ref) = "after"
<1>1. ByClock(call) \subseteq refs BY DEF ByClock, ClockedRefs
<1>2. QED BY <1>1, SequenceExact, ClockExact, OrderCases

LEMMA TiedIsExact ==
  ASSUME OrderingHypothesis, OrderingInv, NEW call \in Moments,
         ~SeqAfter(call), ~ClockAfter(call)
  PROVE  Tied(call) <=> \E ref \in refs : Unsettled(refs, call, ref)
<1> DEFINE sameSeq == \E ref \in refs : BySequence(call, ref) /\ call.seq = ref.seq
           sameClock == \E ref \in ByClock(call) : ~Clocked(call) \/ call.ts = ref.ts
           none == ~\E ref \in refs : BySequence(call, ref)
           bare == \E ref \in refs : ~Clocked(ref)
<1>1. Tied(call) <=> sameSeq \/ sameClock \/ (bare /\ none)
  BY SequenceExact, ClockExact DEF Tied, OrderingInv, UnclockedKept
<1>2. ByClock(call) \subseteq refs /\ \A ref \in ByClock(call) : Clocked(ref)
  BY DEF ByClock, ClockedRefs
<1>3. sameSeq => \E ref \in refs : Unsettled(refs, call, ref)
  BY OrderCases DEF Unsettled
<1>4. sameClock => \E ref \in refs : Unsettled(refs, call, ref)
  BY <1>2, OrderCases DEF Unsettled
<1>5. bare /\ none => \E ref \in refs : Unsettled(refs, call, ref)
  BY OrderCases DEF Unsettled
<1>6. ASSUME NEW ref \in refs, Unsettled(refs, call, ref)
      PROVE  sameSeq \/ sameClock \/ (bare /\ none)
  <2>1. Order(call, ref) = "indeterminate" BY <1>6 DEF Unsettled
  <2>2. CASE BySequence(call, ref) /\ call.seq = ref.seq BY <2>2
  <2>3. CASE ref \in ByClock(call) /\ (~Clocked(call) \/ call.ts = ref.ts) BY <2>3
  <2>4. CASE ~BySequence(call, ref) /\ ~Clocked(ref)
    <3>1. none BY <1>6, <2>4 DEF Unsettled
    <3>2. QED BY <2>4, <3>1
  <2>5. QED BY <2>1, <2>2, <2>3, <2>4, OrderCases
<1> HIDE DEF sameSeq, sameClock, none, bare
<1>7. QED BY <1>1, <1>3, <1>4, <1>5, <1>6

LEMMA VerdictIsExact ==
  ASSUME OrderingHypothesis, OrderingInv
  PROVE  ReductionIsTheOrder
<1>1. ASSUME NEW call \in Moments
      PROVE  /\ (ReferencesVerdict(call) = "after") <=> \E ref \in refs : Order(call, ref) = "after"
             /\ ReferencesVerdict(call) = Against(refs, call)
  BY AfterIsExact, TiedIsExact DEF ReferencesVerdict, Against
<1>2. AfterExactly /\ ReductionExact BY <1>1 DEF AfterExactly, ReductionExact
<1>3. TiesReported
  <2> SUFFICES ASSUME NEW call \in Moments, ReferencesVerdict(call) = "not_after",
                      NEW ref \in refs, Order(call, ref) = "indeterminate"
               PROVE  ~Clocked(ref) /\ \E other \in refs : BySequence(call, other)
    BY DEF TiesReported
  <2>1. ~\E r \in refs : Unsettled(refs, call, r) BY <1>1 DEF Against
  <2>2. QED BY <2>1 DEF Unsettled
<1>4. QED BY <1>2, <1>3 DEF ReductionIsTheOrder, OrderingInv

(* However references arrive, the two marks and the least positions the    *)
(* reduction keeps say of any call what the references say of it pair by   *)
(* pair: for any streams, clocks and positions, and any number of          *)
(* references (_References; COH-R11).                                      *)
THEOREM ReductionsAreExact ==
  MomentsAssumption /\ OrderingAssumption => (OrderingSpec => []ReductionIsTheOrder)
<1> SUFFICES ASSUME OrderingHypothesis PROVE OrderingSpec => []ReductionIsTheOrder
  BY DEF OrderingHypothesis
<1>1. OrderingInit => OrderingInv
  BY DEF OrderingInit, OrderingInv, OrderingTypeOK, LeastKept, BestKept, NextKept, UnclockedKept,
         OfStream, ClockedRefs, Others, ClockMarks
<1>2. OrderingInv /\ [OrderingNext]_orderingVars => OrderingInv'
  <2> SUFFICES ASSUME OrderingInv, [OrderingNext]_orderingVars PROVE OrderingInv' OBVIOUS
  <2>1. CASE OrderingNext BY <2>1, NoteKeepsInv DEF OrderingNext
  <2>2. CASE UNCHANGED orderingVars
    BY <2>2 DEF orderingVars, OrderingInv, OrderingTypeOK, LeastKept, BestKept, NextKept,
                UnclockedKept, OfStream, ClockedRefs, Others, EarliestOf
  <2>3. QED BY <2>1, <2>2
<1>3. OrderingInv => ReductionIsTheOrder BY VerdictIsExact
<1>4. QED BY <1>1, <1>2, <1>3, PTL DEF OrderingSpec

-----------------------------------------------------------------------------
(* Grammar: any tools, calls and baselines, and any number of calls.       *)

LEMMA BracketsOf ==
  ASSUME NEW names \in Seq(Names)
  PROVE  /\ Bracketed(names)[1] = Start /\ Bracketed(names)[Len(names) + 2] = End
         /\ \A i \in 1 .. Len(names) : Bracketed(names)[i + 1] = names[i]
         /\ \A i \in 1 .. Len(names) + 2 : Bracketed(names)[i] \in Names \cup {Start, End}
<1> DEFINE T == Names \cup {Start, End}
           a == <<Start>> \o names
<1>1. /\ <<Start>> \in Seq(T) /\ Len(<<Start>>) = 1 /\ names \in Seq(T) /\ <<End>> \in Seq(T)
      /\ Len(<<End>>) = 1 /\ Len(names) \in Nat
  OBVIOUS
<1>2. /\ a \in Seq(T) /\ Len(a) = Len(names) + 1 /\ a[1] = Start
      /\ \A i \in 1 .. Len(names) : a[i + 1] = names[i]
  BY <1>1
<1>3. Bracketed(names) = a \o <<End>> BY DEF Bracketed
<1> HIDE DEF a, T
<1>4. /\ Bracketed(names) \in Seq(T) /\ Len(Bracketed(names)) = Len(names) + 2
      /\ \A i \in 1 .. Len(names) + 1 : Bracketed(names)[i] = a[i]
      /\ Bracketed(names)[Len(names) + 2] = End
  BY <1>1, <1>2, <1>3
<1>5. /\ Bracketed(names)[1] = Start
      /\ \A i \in 1 .. Len(names) : Bracketed(names)[i + 1] = names[i]
  BY <1>1, <1>2, <1>4
<1>6. \A i \in 1 .. Len(names) + 2 : Bracketed(names)[i] \in T BY <1>4
<1>7. QED BY <1>4, <1>5, <1>6 DEF T

LEMMA TransitionsOf ==
  ASSUME NEW names \in Seq(Names)
  PROVE  /\ \A j \in 1 .. Len(names) + 1 :
              Transitions(names)[j] = <<Bracketed(names)[j], Bracketed(names)[j + 1]>>
         /\ \A j \in 1 .. Len(names) : Transitions(names)[j][2] = names[j]
<1>1. \A j \in 1 .. Len(names) + 1 :
        Transitions(names)[j] = <<Bracketed(names)[j], Bracketed(names)[j + 1]>>
  BY DEF Transitions
<1>2. \A j \in 1 .. Len(names) : Bracketed(names)[j + 1] = names[j] BY BracketsOf
<1>3. Len(names) \in Nat OBVIOUS
<1>4. QED BY <1>1, <1>2, <1>3

-----------------------------------------------------------------------------
(* Of the consequential calls of a tool: those that completed, and those   *)
(* that are no retry.                                                      *)
EffectsOf(tool) == {j \in DOMAIN steps : steps[j].name = tool /\ IsConsequential(steps[j])}
DoneBy(tool) == {j \in EffectsOf(tool) : steps[j].executed}
FirstOf(tool) == {j \in EffectsOf(tool) : ~IsRetry(j)}

(* A consequential call that failed is still to be followed by the retry   *)
(* that completes it.                                                      *)
OwedBy(call, tool) == call.name = tool /\ ~call.executed /\ IsConsequential(call)

Owed(tool) == IF Len(steps) > 0 /\ OwedBy(steps[Len(steps)], tool) THEN 1 ELSE 0

RetriesArePaid ==
  \A tool \in Names :
    Cardinality(DoneBy(tool)) + Owed(tool)
      <= Cardinality(FirstOf(tool)) + Cardinality(Reclassified(tool))

GrammarInv ==
  /\ GrammarTypeOK
  /\ \A b \in bigrams : b[2] \in unigrams
  /\ RetriesArePaid

LEMMA StepsAreNamed ==
  ASSUME GrammarAssumption, GrammarInv
  PROVE  /\ DOMAIN steps = 1 .. Len(steps) /\ Len(steps) \in Nat
         /\ \A j \in DOMAIN steps : steps[j] \in Steps /\ steps[j].name \in Names
                                    /\ steps[j].executed \in BOOLEAN
         /\ StepNames \in Seq(Names) /\ Len(StepNames) = Len(steps)
         /\ \A j \in DOMAIN steps : StepNames[j] = steps[j].name
<1>1. steps \in Seq(Steps) BY DEF GrammarInv, GrammarTypeOK
<1>2. DOMAIN steps = 1 .. Len(steps) /\ Len(steps) \in Nat BY <1>1
<1>3. \A j \in DOMAIN steps : steps[j] \in Steps BY <1>1
<1>4. \A j \in DOMAIN steps : steps[j].name \in Names /\ steps[j].executed \in BOOLEAN
  BY <1>3 DEF GrammarAssumption
<1>5. StepNames = [j \in 1 .. Len(steps) |-> steps[j].name] BY <1>2 DEF StepNames
<1>6. StepNames \in Seq(Names) /\ Len(StepNames) = Len(steps) BY <1>2, <1>4, <1>5
<1>7. \A j \in DOMAIN steps : StepNames[j] = steps[j].name BY <1>2, <1>5
<1>8. QED BY <1>2, <1>3, <1>4, <1>6, <1>7

LEMMA FitKeepsInv ==
  ASSUME GrammarAssumption, GrammarInv, NEW names \in Benign, Fit(names)
  PROVE  GrammarInv'
<1>1. names \in Seq(Names) /\ Len(names) \in Nat BY DEF GrammarAssumption
<1>2. /\ fitted' = fitted \cup {names} /\ steps' = steps
      /\ bigrams' = bigrams \cup {Transitions(names)[j] : j \in 1 .. Len(names) + 1}
      /\ unigrams' = unigrams \cup {Bracketed(names)[j] : j \in 1 .. Len(names) + 2}
  BY DEF Fit
<1>3. /\ bigrams = UNION {{Transitions(n)[j] : j \in 1 .. Len(n) + 1} : n \in fitted}
      /\ unigrams \subseteq Names \cup {Start, End}
      /\ fitted \subseteq Benign /\ steps \in Seq(Steps)
  BY DEF GrammarInv, GrammarTypeOK
<1>4. bigrams' = UNION {{Transitions(n)[j] : j \in 1 .. Len(n) + 1} : n \in fitted'}
  <2> DEFINE T(n) == {Transitions(n)[j] : j \in 1 .. Len(n) + 1}
  <2>1. bigrams = UNION {T(n) : n \in fitted} /\ bigrams' = bigrams \cup T(names)
    BY <1>2, <1>3
  <2> HIDE DEF T
  <2>2. UNION {T(n) : n \in fitted \cup {names}} = (UNION {T(n) : n \in fitted}) \cup T(names)
    OBVIOUS
  <2>3. bigrams' = UNION {T(n) : n \in fitted'} BY <1>2, <2>1, <2>2
  <2>4. QED BY <2>3 DEF T
<1>5. unigrams' \subseteq Names \cup {Start, End} BY <1>1, <1>2, <1>3, BracketsOf
<1>6. GrammarTypeOK' BY <1>2, <1>3, <1>4, <1>5 DEF GrammarTypeOK
<1>7. ASSUME NEW b \in bigrams' PROVE b[2] \in unigrams'
  <2>1. CASE b \in bigrams BY <1>2, <2>1 DEF GrammarInv
  <2>2. CASE b \notin bigrams
    <3>1. PICK j \in 1 .. Len(names) + 1 : b = Transitions(names)[j] BY <1>2, <2>2
    <3>2. b[2] = Bracketed(names)[j + 1] BY <1>1, <3>1, TransitionsOf
    <3>3. j + 1 \in 1 .. Len(names) + 2 BY <1>1
    <3>4. QED BY <1>2, <3>2, <3>3
  <2>3. QED BY <2>1, <2>2
<1>8. RetriesArePaid'
  BY <1>2 DEF GrammarInv, RetriesArePaid, EffectsOf, DoneBy, FirstOf, Reclassified, Owed, IsRetry
<1>9. QED BY <1>6, <1>7, <1>8 DEF GrammarInv

LEMMA StepKeepsPaid ==
  ASSUME GrammarAssumption, GrammarInv, NEW c \in Steps, Step(c), NEW tool \in Names
  PROVE  Cardinality(DoneBy(tool)') + Owed(tool)'
           <= Cardinality(FirstOf(tool)') + Cardinality(Reclassified(tool)')
<1> DEFINE done == DoneBy(tool)
           first == FirstOf(tool)
           moved == Reclassified(tool)
<1>0. PICK n : n = Len(steps) + 1 OBVIOUS
<1>1. /\ DOMAIN steps = 1 .. Len(steps) /\ Len(steps) \in Nat
      /\ \A j \in DOMAIN steps : steps[j].executed \in BOOLEAN
      /\ steps \in Seq(Steps)
  BY StepsAreNamed DEF GrammarInv, GrammarTypeOK
<1>2. steps' = Append(steps, c) BY DEF Step
<1>3. /\ Len(steps') = n /\ DOMAIN steps' = DOMAIN steps \cup {n} /\ steps'[n] = c
      /\ n \notin DOMAIN steps /\ n \in Nat /\ n > 0
      /\ \A j \in DOMAIN steps : steps'[j] = steps[j]
  BY <1>0, <1>1, <1>2
<1>4. c.executed \in BOOLEAN BY DEF GrammarAssumption
<1>5. \A j \in DOMAIN steps : IsRetry(j)' = IsRetry(j) /\ (j > 1 => steps'[j - 1] = steps[j - 1])
  <2> SUFFICES ASSUME NEW j \in DOMAIN steps
               PROVE  IsRetry(j)' = IsRetry(j) /\ (j > 1 => steps'[j - 1] = steps[j - 1])
    OBVIOUS
  <2>1. j \in 1 .. Len(steps) /\ steps'[j] = steps[j] BY <1>1, <1>3
  <2>2. CASE j = 1 BY <2>2 DEF IsRetry
  <2>3. CASE j > 1
    <3>1. j - 1 \in DOMAIN steps BY <1>1, <2>1, <2>3
    <3>2. steps'[j - 1] = steps[j - 1] BY <1>3, <3>1
    <3>3. QED BY <2>1, <3>2 DEF IsRetry
  <2>4. QED BY <1>1, <2>1, <2>2, <2>3
<1>6. IsRetry(n)' => /\ Len(steps) > 0 /\ c.name = steps[Len(steps)].name
                     /\ ~steps[Len(steps)].executed /\ steps'[n - 1] = steps[Len(steps)]
  <2> SUFFICES ASSUME IsRetry(n)'
               PROVE  /\ Len(steps) > 0 /\ c.name = steps[Len(steps)].name
                      /\ ~steps[Len(steps)].executed /\ steps'[n - 1] = steps[Len(steps)]
    OBVIOUS
  <2>1. n > 1 /\ steps'[n].name = steps'[n - 1].name /\ ~steps'[n - 1].executed BY DEF IsRetry
  <2>2. n - 1 \in DOMAIN steps /\ n - 1 = Len(steps) BY <1>0, <1>1, <2>1
  <2>3. QED BY <1>1, <1>3, <2>1, <2>2
<1>7. done' = done \cup (IF c.name = tool /\ IsConsequential(c) /\ c.executed THEN {n} ELSE {})
  BY <1>3 DEF DoneBy, EffectsOf
<1>8. first' = first \cup (IF c.name = tool /\ IsConsequential(c) /\ ~IsRetry(n)'
                           THEN {n} ELSE {})
  <2>1. \A j \in DOMAIN steps' :
          j \in first' <=> steps'[j].name = tool /\ IsConsequential(steps'[j]) /\ ~IsRetry(j)'
    BY DEF FirstOf, EffectsOf
  <2>2. \A j \in DOMAIN steps :
          j \in first <=> steps[j].name = tool /\ IsConsequential(steps[j]) /\ ~IsRetry(j)
    BY DEF FirstOf, EffectsOf
  <2>3. first \subseteq DOMAIN steps /\ first' \subseteq DOMAIN steps' BY DEF FirstOf, EffectsOf
  <2>4. \A j \in DOMAIN steps : j \in first' <=> j \in first BY <1>3, <1>5, <2>1, <2>2
  <2>5. n \in first' <=> c.name = tool /\ IsConsequential(c) /\ ~IsRetry(n)' BY <1>3, <2>1
  <2> HIDE DEF first
  <2>6. QED BY <1>3, <2>3, <2>4, <2>5
<1>9. moved' = moved \cup (IF /\ c.name = tool /\ IsRetry(n)' /\ IsConsequential(c)
                             /\ ~IsConsequential(steps'[n - 1]) THEN {n} ELSE {})
  <2>1. \A j \in DOMAIN steps' :
          j \in moved' <=> /\ steps'[j].name = tool /\ IsRetry(j)' /\ IsConsequential(steps'[j])
                          /\ ~IsConsequential(steps'[j - 1])
    BY DEF Reclassified
  <2>2. \A j \in DOMAIN steps :
          j \in moved <=> /\ steps[j].name = tool /\ IsRetry(j) /\ IsConsequential(steps[j])
                         /\ ~IsConsequential(steps[j - 1])
    BY DEF Reclassified
  <2>3. moved \subseteq DOMAIN steps /\ moved' \subseteq DOMAIN steps' BY DEF Reclassified
  <2>4. \A j \in DOMAIN steps : j \in moved' <=> j \in moved
    <3> SUFFICES ASSUME NEW j \in DOMAIN steps PROVE j \in moved' <=> j \in moved OBVIOUS
    <3>1. steps'[j] = steps[j] /\ IsRetry(j)' = IsRetry(j) /\ j \in DOMAIN steps' BY <1>3, <1>5
    <3>2. IsRetry(j) => steps'[j - 1] = steps[j - 1] BY <1>5 DEF IsRetry
    <3> HIDE DEF moved
    <3>3. QED BY <2>1, <2>2, <3>1, <3>2
  <2>5. n \in moved' <=> /\ c.name = tool /\ IsRetry(n)' /\ IsConsequential(c)
                        /\ ~IsConsequential(steps'[n - 1])
    BY <1>3, <2>1
  <2> HIDE DEF moved
  <2>6. QED BY <1>3, <2>3, <2>4, <2>5
<1>10. /\ IsFiniteSet(done) /\ IsFiniteSet(first) /\ IsFiniteSet(moved)
       /\ n \notin done /\ n \notin first /\ n \notin moved
  <2>1. IsFiniteSet(DOMAIN steps) BY <1>1, FS_Interval
  <2>2. /\ done \in SUBSET DOMAIN steps /\ first \in SUBSET DOMAIN steps
        /\ moved \in SUBSET DOMAIN steps
    BY DEF DoneBy, FirstOf, EffectsOf, Reclassified
  <2>3. IsFiniteSet(done) /\ IsFiniteSet(first) /\ IsFiniteSet(moved) BY <2>1, <2>2, FS_Subset
  <2>4. QED BY <1>3, <2>2, <2>3
<1> HIDE DEF done, first, moved
<1>11. /\ Cardinality(done) \in Nat /\ Cardinality(first) \in Nat /\ Cardinality(moved) \in Nat
       /\ Cardinality(done \cup {n}) = Cardinality(done) + 1
       /\ Cardinality(first \cup {n}) = Cardinality(first) + 1
       /\ Cardinality(moved \cup {n}) = Cardinality(moved) + 1
  BY <1>10, FS_CardinalityType, FS_AddElement
<1>12. Cardinality(done) + Owed(tool) <= Cardinality(first) + Cardinality(moved)
  BY DEF GrammarInv, RetriesArePaid, done, first, moved
<1>13. Owed(tool) \in {0, 1} BY DEF Owed
<1>14. Owed(tool)' = IF OwedBy(c, tool) THEN 1 ELSE 0 BY <1>3 DEF Owed
<1> DEFINE Goal == Cardinality(done') + Owed(tool)' <= Cardinality(first') + Cardinality(moved')
<1>15. CASE ~(c.name = tool /\ IsConsequential(c))
  <2>1. done' = done /\ first' = first /\ moved' = moved BY <1>7, <1>8, <1>9, <1>15
  <2>2. Owed(tool)' = 0 BY <1>14, <1>15 DEF OwedBy
  <2>3. Goal BY <1>11, <1>12, <1>13, <2>1, <2>2
  <2>4. QED BY <2>3 DEF done, first, moved
<1>16. ASSUME c.name = tool, IsConsequential(c)
       PROVE  \/ c.executed /\ done' = done \cup {n} /\ Owed(tool)' = 0
              \/ ~c.executed /\ done' = done /\ Owed(tool)' = 1
  BY <1>4, <1>7, <1>14, <1>16 DEF OwedBy
<1>17. ASSUME c.name = tool, IsConsequential(c)
       PROVE  Cardinality(done') + Owed(tool)' = Cardinality(done) + 1
  <2>1. CASE c.executed
    <3>1. done' = done \cup {n} /\ Owed(tool)' = 0 BY <1>16, <1>17, <2>1
    <3>2. Cardinality(done') = Cardinality(done) + 1 BY <1>11, <3>1
    <3>3. QED BY <1>11, <3>1, <3>2
  <2>2. CASE ~c.executed
    <3>1. done' = done /\ Owed(tool)' = 1 BY <1>16, <1>17, <2>2
    <3>2. QED BY <1>11, <3>1
  <2>3. QED BY <2>1, <2>2
<1>18. CASE c.name = tool /\ IsConsequential(c) /\ ~IsRetry(n)'
  <2>1. first' = first \cup {n} /\ moved' = moved BY <1>8, <1>9, <1>18
  <2>2. Cardinality(first') = Cardinality(first) + 1 /\ Cardinality(moved') = Cardinality(moved)
    BY <1>11, <2>1
  <2>3. Goal BY <1>11, <1>12, <1>13, <1>17, <1>18, <2>2
  <2>4. QED BY <2>3 DEF done, first, moved
<1>19. CASE c.name = tool /\ IsConsequential(c) /\ IsRetry(n)'
  <2>1. first' = first BY <1>8, <1>19
  <2>2. CASE IsConsequential(steps[Len(steps)])
    <3>1. Owed(tool) = 1 BY <1>6, <1>19, <2>2 DEF Owed, OwedBy
    <3>2. moved' = moved BY <1>6, <1>9, <1>19, <2>2
    <3>3. Goal BY <1>11, <1>12, <1>17, <1>19, <2>1, <3>1, <3>2
    <3>4. QED BY <3>3 DEF done, first, moved
  <2>3. CASE ~IsConsequential(steps[Len(steps)])
    <3>1. moved' = moved \cup {n} BY <1>6, <1>9, <1>19, <2>3
    <3>2. Cardinality(moved') = Cardinality(moved) + 1 BY <1>11, <3>1
    <3>3. Goal BY <1>11, <1>12, <1>13, <1>17, <1>19, <2>1, <3>2
    <3>4. QED BY <3>3 DEF done, first, moved
  <2>4. QED BY <2>2, <2>3
<1>20. QED BY <1>15, <1>18, <1>19

LEMMA StepKeepsInv ==
  ASSUME GrammarAssumption, GrammarInv, NEW c \in Steps, Step(c)
  PROVE  GrammarInv'
<1>1. steps' = Append(steps, c) /\ bigrams' = bigrams /\ unigrams' = unigrams /\ fitted' = fitted
  BY DEF Step
<1>2. GrammarTypeOK' BY <1>1 DEF GrammarInv, GrammarTypeOK
<1>3. \A b \in bigrams' : b[2] \in unigrams' BY <1>1 DEF GrammarInv
<1>4. RetriesArePaid' BY StepKeepsPaid DEF RetriesArePaid
<1>5. QED BY <1>2, <1>3, <1>4 DEF GrammarInv

LEMMA GrammarKeepsInv ==
  ASSUME GrammarAssumption, GrammarInv, [GrammarNext]_grammarVars
  PROVE  GrammarInv'
<1>1. CASE UNCHANGED grammarVars
  BY <1>1 DEF grammarVars, GrammarInv, GrammarTypeOK, RetriesArePaid, EffectsOf, DoneBy, FirstOf,
                   Reclassified, Owed, IsRetry
<1>2. QED BY <1>1, FitKeepsInv, StepKeepsInv DEF GrammarNext

-----------------------------------------------------------------------------
LEMMA FittedIsQuiet ==
  ASSUME GrammarAssumption, GrammarInv
  PROVE  BaselineIsQuiet
<1> SUFFICES ASSUME StepNames \in fitted PROVE ~Deviates BY DEF BaselineIsQuiet
<1>1. Len(StepNames) = Len(steps) /\ Len(steps) \in Nat BY StepsAreNamed
<1>2. \A j \in 1 .. Len(StepNames) + 1 : Transitions(StepNames)[j] \in bigrams
  BY DEF GrammarInv, GrammarTypeOK
<1>3. Unseen = {} BY <1>1, <1>2 DEF Unseen
<1>4. ~ByCount BY <1>3 DEF ByCount, UnseenIntoConsequential
<1>5. Cardinality(Unseen) = 0 BY <1>3, FS_EmptySet
<1>6. ~ByRate BY <1>1, <1>5 DEF ByRate
<1>7. QED BY <1>4, <1>6 DEF Deviates

(* Every call by a tool the baseline has never seen is a transition it has *)
(* never seen.                                                             *)
LEMMA UnknownIsUnseen ==
  ASSUME GrammarAssumption, GrammarInv, NEW tool, tool \notin unigrams,
         NEW j \in DOMAIN steps, steps[j].name = tool
  PROVE  j \in Unseen
<1>1. /\ DOMAIN steps = 1 .. Len(steps) /\ Len(steps) \in Nat
      /\ StepNames \in Seq(Names) /\ Len(StepNames) = Len(steps) /\ StepNames[j] = tool
  BY StepsAreNamed
<1>2. Transitions(StepNames)[j][2] = tool BY <1>1, TransitionsOf
<1>3. Transitions(StepNames)[j] \notin bigrams BY <1>2 DEF GrammarInv
<1>4. j \in 1 .. Len(steps) + 1 BY <1>1
<1>5. QED BY <1>3, <1>4 DEF Unseen

(* Only the producer's flag makes two calls of one tool differ in class.   *)
LEMMA OnlyTheFlagReclassifies ==
  ASSUME GrammarAssumption, GrammarInv, NEW tool, NEW j \in Reclassified(tool)
  PROVE  tool \notin Manifest /\ steps[j].reversible # steps[j - 1].reversible
<1>1. /\ steps[j].name = tool /\ steps[j - 1].name = tool
      /\ IsConsequential(steps[j]) /\ ~IsConsequential(steps[j - 1])
  BY DEF Reclassified, IsRetry
<1>2. Klass(steps[j]) # Klass(steps[j - 1]) BY <1>1 DEF IsConsequential
<1>3. QED BY <1>1, <1>2 DEF Klass

LEMMA EffectsCount ==
  ASSUME GrammarAssumption, GrammarInv
  PROVE  EffectsAreCounted
<1> SUFFICES ASSUME NEW tool \in Names \ unigrams
             PROVE  Cardinality(DoneBy(tool))
                      <= Cardinality({j \in UnseenIntoConsequential : steps[j].name = tool})
                         + Cardinality(Reclassified(tool))
  <2>1. ASSUME NEW tool \in Names
        PROVE  DoneBy(tool) = {j \in DOMAIN steps : /\ steps[j].name = tool /\ steps[j].executed
                                                    /\ IsConsequential(steps[j])}
    BY DEF DoneBy, EffectsOf
  <2>2. QED BY <2>1, OnlyTheFlagReclassifies, Zenon DEF EffectsAreCounted
<1>1. tool \in Names OBVIOUS
<1>2. DOMAIN steps = 1 .. Len(steps) /\ Len(steps) \in Nat BY StepsAreNamed
<1>3. {j \in UnseenIntoConsequential : steps[j].name = tool} = FirstOf(tool)
  <2>1. ASSUME NEW j \in DOMAIN steps, steps[j].name = tool, IsConsequential(steps[j]),
               ~IsRetry(j)
        PROVE  j \in UnseenIntoConsequential
    <3>1. j \in Unseen /\ j <= Len(steps) BY <1>2, <2>1, UnknownIsUnseen
    <3>2. QED BY <2>1, <3>1 DEF UnseenIntoConsequential
  <2>2. ASSUME NEW j \in UnseenIntoConsequential, steps[j].name = tool
        PROVE  j \in DOMAIN steps /\ IsConsequential(steps[j]) /\ ~IsRetry(j)
    BY <1>2 DEF UnseenIntoConsequential, Unseen
  <2>3. QED BY <2>1, <2>2 DEF FirstOf, EffectsOf
<1>4. Cardinality(DoneBy(tool)) + Owed(tool)
        <= Cardinality(FirstOf(tool)) + Cardinality(Reclassified(tool))
  BY <1>1 DEF GrammarInv, RetriesArePaid
<1>5. /\ Cardinality(DoneBy(tool)) \in Nat /\ Cardinality(FirstOf(tool)) \in Nat
      /\ Cardinality(Reclassified(tool)) \in Nat
  <2>1. IsFiniteSet(DOMAIN steps) BY <1>2, FS_Interval
  <2>2. /\ DoneBy(tool) \in SUBSET DOMAIN steps /\ FirstOf(tool) \in SUBSET DOMAIN steps
        /\ Reclassified(tool) \in SUBSET DOMAIN steps
    BY DEF DoneBy, FirstOf, EffectsOf, Reclassified
  <2>3. QED BY <2>1, <2>2, FS_Subset, FS_CardinalityType
<1>6. Owed(tool) \in {0, 1} BY DEF Owed
<1>7. Cardinality(DoneBy(tool)) <= Cardinality(FirstOf(tool)) + Cardinality(Reclassified(tool))
  BY <1>4, <1>5, <1>6
<1>8. QED BY <1>3, <1>7, Zenon

LEMMA PaddingKeeps ==
  ASSUME GrammarAssumption, GrammarInv, GrammarInv', [GrammarNext]_grammarVars
  PROVE  [PaddingKeepsTheCount]_grammarVars
<1> SUFFICES ASSUME GrammarNext, NEW n \in DOMAIN steps' \ DOMAIN steps,
                    steps'[n].name \in unigrams, Len(steps) >= 3, Deviates, ByCount
             PROVE  Deviates'
  BY DEF PaddingKeepsTheCount
<1>1. PICK c \in Steps : Step(c)
  <2>1. ASSUME NEW names \in Benign, Fit(names) PROVE FALSE BY <2>1 DEF Fit
  <2>2. QED BY <2>1 DEF GrammarNext
<1>2. steps' = Append(steps, c) /\ bigrams' = bigrams /\ unigrams' = unigrams /\ fitted' = fitted
  BY <1>1 DEF Step
<1>3. /\ DOMAIN steps = 1 .. Len(steps) /\ Len(steps) \in Nat /\ steps \in Seq(Steps)
      /\ StepNames \in Seq(Names) /\ Len(StepNames) = Len(steps)
      /\ \A j \in DOMAIN steps : StepNames[j] = steps[j].name
  BY StepsAreNamed DEF GrammarInv, GrammarTypeOK
<1>4. /\ Len(steps') = Len(steps) + 1 /\ n = Len(steps) + 1
      /\ DOMAIN steps' = DOMAIN steps \cup {n} /\ n \notin DOMAIN steps
      /\ \A j \in DOMAIN steps : steps'[j] = steps[j]
  BY <1>2, <1>3
<1>5. c \in Steps /\ c.name \in Names /\ steps'[n] = c
  BY <1>2, <1>3, <1>4 DEF GrammarAssumption
<1> DEFINE more == StepNames'
<1>6. /\ more \in Seq(Names) /\ Len(more) = Len(steps) + 1
      /\ \A j \in DOMAIN steps : more[j] = StepNames[j]
  <2>1. more = [j \in 1 .. Len(steps) + 1 |-> steps'[j].name]
    BY <1>3, <1>4 DEF StepNames
  <2>2. \A j \in 1 .. Len(steps) + 1 : steps'[j].name \in Names
    <3>1. \A j \in DOMAIN steps : steps[j].name \in Names BY StepsAreNamed
    <3>2. QED BY <1>3, <1>4, <1>5, <3>1
  <2> HIDE DEF more
  <2>3. QED BY <1>3, <1>4, <2>1, <2>2
<1>7. ~OutOfDistribution'
  <2>1. KnownSteps' = KnownSteps \cup {n}
    BY <1>2, <1>4 DEF KnownSteps
  <2>2. KnownSteps \in SUBSET DOMAIN steps BY DEF KnownSteps
  <2>3. IsFiniteSet(KnownSteps)
    <3>1. IsFiniteSet(DOMAIN steps) BY <1>3, FS_Interval
    <3>2. QED BY <2>2, <3>1, FS_Subset
  <2>4. /\ Cardinality(KnownSteps) \in Nat
        /\ Cardinality(KnownSteps \cup {n}) = Cardinality(KnownSteps) + 1
    BY <1>4, <2>2, <2>3, FS_CardinalityType, FS_AddElement
  <2>5. ~(2 * Cardinality(KnownSteps) < Len(steps)) BY DEF Deviates, OutOfDistribution
  <2>6. ~(2 * Cardinality(KnownSteps') < Len(steps')) BY <1>3, <1>4, <2>1, <2>4, <2>5
  <2>7. QED BY <2>6 DEF OutOfDistribution
<1>8. ByCount'
  <2>1. PICK j \in UnseenIntoConsequential : TRUE BY DEF ByCount
  <2>2. j \in Unseen /\ j <= Len(steps) /\ IsConsequential(steps[j]) /\ ~IsRetry(j)
    BY DEF UnseenIntoConsequential
  <2>3. j \in 1 .. Len(steps) BY <1>3, <2>2 DEF Unseen
  <2>4. steps'[j] = steps[j] BY <1>3, <1>4, <2>3
  <2>5. Transitions(more)[j] = Transitions(StepNames)[j]
    <3>1. Transitions(StepNames)[j] = <<Bracketed(StepNames)[j], Bracketed(StepNames)[j + 1]>>
      BY <1>3, <2>3, TransitionsOf
    <3>2. Transitions(more)[j] = <<Bracketed(more)[j], Bracketed(more)[j + 1]>>
      <4>1. j \in 1 .. Len(more) + 1 BY <1>3, <1>6, <2>3
      <4> HIDE DEF more
      <4>2. QED BY <1>6, <4>1, TransitionsOf
    <3>3. Bracketed(StepNames)[j + 1] = StepNames[j] BY <1>3, <2>3, BracketsOf
    <3>4. Bracketed(more)[j + 1] = more[j]
      <4>1. j \in 1 .. Len(more) BY <1>3, <1>6, <2>3
      <4> HIDE DEF more
      <4>2. QED BY <1>6, <4>1, BracketsOf
    <3>5. Bracketed(more)[j] = Bracketed(StepNames)[j]
      <4>1. CASE j = 1
        <5>1. Bracketed(StepNames)[1] = Start BY <1>3, BracketsOf
        <5>2. Bracketed(more)[1] = Start
          <6> HIDE DEF more
          <6>1. QED BY <1>6, BracketsOf
        <5>3. QED BY <4>1, <5>1, <5>2
      <4>2. CASE j # 1
        <5> DEFINE i == j - 1
        <5>1. i \in 1 .. Len(steps) /\ i + 1 = j BY <1>3, <2>3, <4>2
        <5>2. i \in 1 .. Len(StepNames) /\ i \in 1 .. Len(more) BY <1>3, <1>6, <5>1
        <5> HIDE DEF i
        <5>3. Bracketed(StepNames)[i + 1] = StepNames[i] BY <1>3, <5>2, BracketsOf
        <5>4. Bracketed(more)[i + 1] = more[i]
          <6> HIDE DEF more
          <6>1. QED BY <1>6, <5>2, BracketsOf
        <5>5. more[i] = StepNames[i] BY <1>3, <1>6, <5>1
        <5>6. QED BY <5>1, <5>3, <5>4, <5>5
      <4>3. QED BY <4>1, <4>2
    <3>6. more[j] = StepNames[j] BY <1>3, <1>6, <2>3
    <3>7. QED BY <3>1, <3>2, <3>3, <3>4, <3>5, <3>6
  <2>6. j \in Unseen'
    <3>1. Transitions(StepNames)[j] \notin bigrams BY <2>2 DEF Unseen
    <3>2. Transitions(more)[j] \notin bigrams' BY <1>2, <2>5, <3>1
    <3>3. j \in 1 .. Len(steps') + 1 BY <1>3, <1>4, <2>3
    <3>4. Transitions(StepNames)[j]' = Transitions(more)[j] BY DEF Transitions, Bracketed
    <3>5. Unseen' = {i \in 1 .. Len(steps') + 1 : Transitions(StepNames)[i]' \notin bigrams'}
      BY DEF Unseen
    <3>6. QED BY <3>2, <3>3, <3>4, <3>5
  <2>7. ~IsRetry(j)'
    <3>1. CASE j = 1 BY <3>1 DEF IsRetry
    <3>2. CASE j # 1
      <4>1. j - 1 \in DOMAIN steps BY <1>3, <2>3, <3>2
      <4>2. steps'[j - 1] = steps[j - 1] BY <1>4, <4>1
      <4>3. QED BY <2>2, <2>4, <4>2 DEF IsRetry
    <3>3. QED BY <3>1, <3>2
  <2>8. j <= Len(steps') BY <1>3, <1>4, <2>3
  <2>9. QED BY <2>2, <2>4, <2>6, <2>7, <2>8 DEF ByCount, UnseenIntoConsequential
<1>9. fitted' # {} BY <1>2 DEF Deviates
<1>10. QED BY <1>7, <1>8, <1>9 DEF Deviates

(* Of any tools, calls and baselines, and however many calls, each classed *)
(* on its own: CH01 is silent where it says it could not look and on what  *)
(* it was fitted on; the completed consequential calls of a novel tool are *)
(* counted, but for a retry the producer called consequential after        *)
(* denying it of the failed copy; and once a session is long enough to     *)
(* judge, padding with routine calls does not silence the count            *)
(* (ch01_sequence_order, _is_retry, ToolCall.klass, E02).                  *)
THEOREM NovelEffectsAreCounted ==
  GrammarAssumption => (GrammarSpec => NovelEffectsAreHeard)
<1> SUFFICES ASSUME GrammarAssumption PROVE GrammarSpec => NovelEffectsAreHeard OBVIOUS
<1>1. GrammarInit => GrammarInv
  <2> SUFFICES ASSUME GrammarInit PROVE GrammarInv OBVIOUS
  <2>1. bigrams = {} /\ unigrams = {} /\ fitted = {} /\ steps = <<>> BY DEF GrammarInit
  <2>2. GrammarTypeOK BY <2>1 DEF GrammarTypeOK
  <2>3. ASSUME NEW tool \in Names
        PROVE  Cardinality(DoneBy(tool)) + Owed(tool)
                 <= Cardinality(FirstOf(tool)) + Cardinality(Reclassified(tool))
    <3>1. DoneBy(tool) = {} /\ FirstOf(tool) = {} /\ Reclassified(tool) = {}
      BY <2>1 DEF DoneBy, FirstOf, EffectsOf, Reclassified
    <3>2. Owed(tool) = 0 BY <2>1 DEF Owed
    <3>3. QED BY <3>1, <3>2, FS_EmptySet
  <2>4. QED BY <2>1, <2>2, <2>3 DEF GrammarInv, RetriesArePaid
<1>2. GrammarInv /\ [GrammarNext]_grammarVars => GrammarInv' BY GrammarKeepsInv
<1>3. GrammarInv => GrammarTypeOK /\ BlindIsSilent /\ BaselineIsQuiet /\ EffectsAreCounted
  <2> SUFFICES ASSUME GrammarInv
               PROVE  GrammarTypeOK /\ BlindIsSilent /\ BaselineIsQuiet /\ EffectsAreCounted
    OBVIOUS
  <2>1. BlindIsSilent BY DEF BlindIsSilent, CannotJudge, Deviates
  <2>2. QED BY <2>1, FittedIsQuiet, EffectsCount DEF GrammarInv
<1>4. GrammarInv /\ GrammarInv' /\ [GrammarNext]_grammarVars => [PaddingKeepsTheCount]_grammarVars
  BY PaddingKeeps
<1>5. QED BY <1>1, <1>2, <1>3, <1>4, PTL DEF GrammarSpec, NovelEffectsAreHeard

-----------------------------------------------------------------------------
(* Disclosure: any names, words, cues, texts and calls.                    *)

(* The merged spans of the cues of a text up to n: apart from one another,  *)
(* in order, and together what the spans of those cues are.                 *)

Inside(out, pos) == \E k \in DOMAIN out : out[k][1] <= pos /\ pos < out[k][2]

CuesOf(text) == {i \in DOMAIN text : text[i] \in Cues}

MergedTo(out, text, n) ==
  /\ out \in Seq(Nat \X Nat)
  /\ \A k \in DOMAIN out : out[k][1] <= n /\ out[k][1] < out[k][2]
  /\ \A k, l \in DOMAIN out : k < l => out[k][2] < out[l][1]
  /\ \A pos \in Nat :
       Inside(out, pos) <=>
         \E cue \in CuesOf(text) : cue <= n /\ cue <= pos /\ pos < SpanEnd(text, cue)

IsMerged(f, spans, last) ==
  f = [n \in 0 .. last |->
         IF n = 0 THEN <<>>
         ELSE IF n \notin DOMAIN spans THEN f[n - 1]
         ELSE Extended(f[n - 1], spans[n])]

(* What a cue denies: the words after it, as far as the window and the     *)
(* sentence go.                                                            *)
LEMMA SpanOfACue ==
  ASSUME DisclosureAssumption, NEW text \in Seq(Words \cup {Stop}), NEW cue \in DOMAIN text
  PROVE  /\ SpanEnd(text, cue) \in Nat /\ cue < SpanEnd(text, cue)
         /\ \A pos \in DOMAIN text :
              cue <= pos => (pos < SpanEnd(text, cue) <=>
                /\ pos - cue <= Window
                /\ \A j \in cue + 1 .. pos : text[j] # Stop)
<1> DEFINE n == Len(text)
           limit == IF cue + 1 + Window < n + 1 THEN cue + 1 + Window ELSE n + 1
           stops == {j \in cue + 1 .. limit - 1 : text[j] = Stop}
           e == SpanEnd(text, cue)
<1>1. n \in Nat /\ DOMAIN text = 1 .. n /\ cue \in 1 .. n /\ Window \in Nat /\ Window >= 1
  BY DEF DisclosureAssumption
<1>2. limit \in Nat /\ cue < limit /\ limit <= n + 1 /\ limit <= cue + 1 + Window
      /\ \A pos \in 1 .. n : pos < limit <=> pos - cue <= Window
  BY <1>1
<1>3. e = IF stops = {} THEN limit ELSE CHOOSE j \in stops : \A k \in stops : j <= k
  BY DEF SpanEnd
<1> HIDE DEF limit, n, e
<1>4. CASE stops = {}
  <2>1. e = limit BY <1>3, <1>4
  <2>2. ASSUME NEW pos \in 1 .. n, cue <= pos, pos < limit, NEW j \in cue + 1 .. pos
        PROVE  text[j] # Stop
    <3>1. j \in cue + 1 .. limit - 1 BY <1>1, <1>2, <2>2
    <3>2. QED BY <3>1, <1>4
  <2>3. QED BY <1>1, <1>2, <2>1, <2>2 DEF e
<1>5. CASE stops # {}
  <2>1. stops \in SUBSET Nat
    <3>1. cue + 1 .. limit - 1 \subseteq Nat BY <1>1, <1>2
    <3>2. QED BY <3>1
  <2>2. \E j \in stops : \A k \in stops : j <= k
    <3> HIDE DEF stops
    <3>1. QED BY <1>5, <2>1, LeastNumber
  <2>3. e \in stops /\ \A k \in stops : e <= k BY <1>3, <1>5, <2>2
  <2>4. e \in cue + 1 .. limit - 1 /\ text[e] = Stop BY <2>3
  <2>5. e \in Nat /\ cue < e /\ e < limit BY <1>1, <1>2, <2>4
  <2>6. ASSUME NEW pos \in 1 .. n, cue <= pos, pos < e
        PROVE  pos - cue <= Window /\ \A j \in cue + 1 .. pos : text[j] # Stop
    <3>1. pos < limit BY <1>1, <1>2, <2>5, <2>6
    <3>2. ASSUME NEW j \in cue + 1 .. pos, text[j] = Stop PROVE FALSE
      <4>1. j \in cue + 1 .. limit - 1 BY <1>1, <1>2, <3>1
      <4>2. e <= j BY <4>1, <3>2, <2>3
      <4>3. QED BY <1>1, <2>5, <2>6, <4>2
    <3>3. QED BY <1>2, <3>1, <3>2
  <2>7. ASSUME NEW pos \in 1 .. n, cue <= pos, \A j \in cue + 1 .. pos : text[j] # Stop
        PROVE  pos < e
    <3>1. SUFFICES ASSUME e <= pos PROVE FALSE BY <1>1, <2>5
    <3>2. e \in cue + 1 .. pos BY <1>1, <2>5, <3>1
    <3>3. QED BY <3>2, <2>7, <2>4
  <2>8. QED BY <1>1, <2>5, <2>6, <2>7 DEF e
<1>6. QED BY <1>4, <1>5

LEMMA LastReplaced ==
  ASSUME NEW S, NEW out \in Seq(S), out # <<>>, NEW top \in S,
         NEW new, new = [out EXCEPT ![Len(out)] = top]
  PROVE  /\ new \in Seq(S) /\ DOMAIN new = 1 .. Len(out) /\ new[Len(out)] = top
         /\ \A k \in 1 .. Len(out) : k # Len(out) => new[k] = out[k]
OBVIOUS

LEMMA OneAppended ==
  ASSUME NEW S, NEW out \in Seq(S), NEW top \in S, NEW new, new = Append(out, top)
  PROVE  /\ new \in Seq(S) /\ DOMAIN new = 1 .. Len(out) + 1 /\ new[Len(out) + 1] = top
         /\ \A k \in 1 .. Len(out) : new[k] = out[k]
OBVIOUS

LEMMA ExtendedMerge ==
  ASSUME DisclosureAssumption, NEW text \in Seq(Words \cup {Stop}), NEW cue \in CuesOf(text),
         NEW out, MergedTo(out, text, cue - 1)
  PROVE  MergedTo(Extended(out, <<cue, SpanEnd(text, cue)>>), text, cue)
<1> DEFINE e == SpanEnd(text, cue)
           m == Len(out)
           new == Extended(out, <<cue, e>>)
<1>1. /\ cue \in Nat /\ cue >= 1 /\ e \in Nat /\ cue < e
  <2>1. cue \in DOMAIN text BY DEF CuesOf
  <2>2. cue \in 1 .. Len(text) /\ Len(text) \in Nat BY <2>1
  <2>3. QED BY <2>1, <2>2, SpanOfACue
<1>2. /\ out \in Seq(Nat \X Nat) /\ m \in Nat /\ DOMAIN out = 1 .. m
      /\ \A k \in 1 .. m : out[k] \in Nat \X Nat
      /\ \A k \in 1 .. m : out[k][1] <= cue - 1 /\ out[k][1] < out[k][2]
      /\ \A k, l \in 1 .. m : k < l => out[k][2] < out[l][1]
  <2>1. out \in Seq(Nat \X Nat) BY DEF MergedTo
  <2>2. m \in Nat /\ DOMAIN out = 1 .. m /\ \A k \in 1 .. m : out[k] \in Nat \X Nat BY <2>1
  <2>3. QED BY <2>1, <2>2 DEF MergedTo
<1> HIDE DEF m, new
<1>3. \A k \in 1 .. m : out[k][1] \in Nat /\ out[k][2] \in Nat BY <1>2
<1>4. CuesOf(text) \subseteq Nat
  <2>1. DOMAIN text = 1 .. Len(text) /\ Len(text) \in Nat OBVIOUS
  <2>2. QED BY <2>1 DEF CuesOf
(* It is enough that the new spans cover what the old ones and cue's do.   *)
<1>5. ASSUME \A pos \in Nat : Inside(new, pos) <=> (Inside(out, pos) \/ (cue <= pos /\ pos < e))
      PROVE  \A pos \in Nat :
               Inside(new, pos) <=>
                 \E c \in CuesOf(text) : c <= cue /\ c <= pos /\ pos < SpanEnd(text, c)
  <2> SUFFICES ASSUME NEW pos \in Nat
               PROVE  Inside(new, pos) <=>
                        \E c \in CuesOf(text) : c <= cue /\ c <= pos /\ pos < SpanEnd(text, c)
    OBVIOUS
  <2>1. Inside(out, pos) <=>
          \E c \in CuesOf(text) : c <= cue - 1 /\ c <= pos /\ pos < SpanEnd(text, c)
    BY DEF MergedTo
  <2>2. \A c \in CuesOf(text) : c <= cue <=> (c <= cue - 1 \/ c = cue) BY <1>1, <1>4
  <2>3. Inside(new, pos) <=> (Inside(out, pos) \/ (cue <= pos /\ pos < e)) BY <1>5
  <2>4. QED BY <2>1, <2>2, <2>3
<1>6. CASE out # <<>> /\ cue <= out[m][2]
  <2> DEFINE top == <<out[m][1], IF e > out[m][2] THEN e ELSE out[m][2]>>
  <2>1. new = [out EXCEPT ![m] = top] BY <1>6 DEF Extended, new, m
  <2>2. m \in 1 .. m BY <1>2, <1>6 DEF m
  <2>3. /\ top \in Nat \X Nat /\ top[1] = out[m][1] /\ top[2] \in Nat
        /\ top[1] <= cue - 1 /\ top[1] < top[2] /\ top[2] >= out[m][2] /\ top[2] >= e
        /\ top[2] = e \/ top[2] = out[m][2]
    BY <1>1, <1>2, <1>3, <2>2
  <2> HIDE DEF top
  <2>4. /\ new \in Seq(Nat \X Nat) /\ DOMAIN new = 1 .. m /\ new[m] = top
        /\ \A k \in 1 .. m : k # m => new[k] = out[k]
    <3>1. out \in Seq(Nat \X Nat) /\ out # <<>> /\ top \in Nat \X Nat BY <1>2, <1>6, <2>3
    <3>2. new = [out EXCEPT ![Len(out)] = top] BY <2>1 DEF m
    <3> HIDE DEF e
    <3>3. /\ new \in Seq(Nat \X Nat) /\ DOMAIN new = 1 .. Len(out) /\ new[Len(out)] = top
          /\ \A k \in 1 .. Len(out) : k # Len(out) => new[k] = out[k]
      BY <3>1, <3>2, LastReplaced
    <3>4. QED BY <3>3 DEF m
  <2>5. \A k \in 1 .. m : new[k][1] = out[k][1] BY <2>3, <2>4
  <2>6. \A k \in 1 .. m : new[k][1] <= cue /\ new[k][1] < new[k][2]
    <3> SUFFICES ASSUME NEW k \in 1 .. m PROVE new[k][1] <= cue /\ new[k][1] < new[k][2]
      OBVIOUS
    <3>1. new[k][1] <= cue BY <1>1, <1>2, <1>3, <2>5
    <3>2. CASE k = m BY <2>3, <2>4, <3>1, <3>2
    <3>3. CASE k # m BY <1>2, <2>4, <3>1, <3>3
    <3>4. QED BY <3>1, <3>2, <3>3
  <2>7. \A k, l \in 1 .. m : k < l => new[k][2] < new[l][1]
    <3> SUFFICES ASSUME NEW k \in 1 .. m, NEW l \in 1 .. m, k < l PROVE new[k][2] < new[l][1]
      OBVIOUS
    <3>1. k # m BY <1>2
    <3>2. QED BY <1>2, <2>4, <2>5, <3>1
  <2>8. ASSUME NEW pos \in Nat
        PROVE  Inside(new, pos) <=> (Inside(out, pos) \/ (cue <= pos /\ pos < e))
    <3>1. ASSUME NEW k \in 1 .. m, new[k][1] <= pos, pos < new[k][2]
          PROVE  Inside(out, pos) \/ (cue <= pos /\ pos < e)
      <4>1. CASE k # m BY <1>2, <2>4, <3>1, <4>1 DEF Inside
      <4>2. CASE k = m /\ pos < out[m][2] BY <1>2, <2>2, <2>5, <3>1, <4>2 DEF Inside
      <4>3. CASE k = m /\ ~(pos < out[m][2])
        <5>1. out[m][2] <= pos BY <1>3, <2>2, <4>3
        <5>2. cue <= pos BY <1>1, <1>3, <1>6, <2>2, <5>1
        <5>3. top[2] = e BY <2>3, <2>4, <3>1, <4>3
        <5>4. QED BY <2>4, <3>1, <4>3, <5>2, <5>3
      <4>4. QED BY <4>1, <4>2, <4>3
    <3>2. ASSUME NEW k \in 1 .. m, out[k][1] <= pos, pos < out[k][2] PROVE Inside(new, pos)
      <4>1. new[k][1] <= pos BY <2>5, <3>2
      <4>2. pos < new[k][2]
        <5>1. CASE k # m BY <2>4, <3>2, <5>1
        <5>2. CASE k = m BY <1>3, <2>2, <2>3, <2>4, <3>2, <5>2
        <5>3. QED BY <5>1, <5>2
      <4>3. QED BY <2>4, <4>1, <4>2 DEF Inside
    <3>3. ASSUME cue <= pos, pos < e PROVE Inside(new, pos)
      <4>1. new[m][1] <= pos BY <1>1, <1>2, <1>3, <2>2, <2>5, <3>3
      <4>2. pos < new[m][2] BY <1>1, <2>3, <2>4, <3>3
      <4>3. QED BY <2>2, <2>4, <4>1, <4>2 DEF Inside
    <3>4. Inside(new, pos) => \E k \in 1 .. m : new[k][1] <= pos /\ pos < new[k][2]
      BY <2>4 DEF Inside
    <3>5. Inside(out, pos) => \E k \in 1 .. m : out[k][1] <= pos /\ pos < out[k][2]
      BY <1>2 DEF Inside
    <3>6. QED BY <3>1, <3>2, <3>3, <3>4, <3>5
  <2>9. \A pos \in Nat :
          Inside(new, pos) <=>
            \E c \in CuesOf(text) : c <= cue /\ c <= pos /\ pos < SpanEnd(text, c)
    BY <1>5, <2>8 DEF new
  <2>10. MergedTo(new, text, cue) BY <2>4, <2>6, <2>7, <2>9 DEF MergedTo
  <2>11. QED BY <2>10 DEF new
<1>7. CASE ~(out # <<>> /\ cue <= out[m][2])
  <2>1. new = Append(out, <<cue, e>>) BY <1>7 DEF Extended, new, m
  <2>2. <<cue, e>> \in Nat \X Nat /\ <<cue, e>>[1] = cue /\ <<cue, e>>[2] = e BY <1>1
  <2>3. /\ new \in Seq(Nat \X Nat) /\ DOMAIN new = 1 .. m + 1 /\ new[m + 1] = <<cue, e>>
        /\ \A k \in 1 .. m : new[k] = out[k]
    BY <1>2, <2>1, <2>2, OneAppended DEF m
  <2>4. \A k \in 1 .. m + 1 : k \in 1 .. m \/ k = m + 1 BY <1>2
  <2>5. \A k \in 1 .. m : out[k][2] < cue
    <3> SUFFICES ASSUME NEW k \in 1 .. m PROVE out[k][2] < cue OBVIOUS
    <3>1. out # <<>> /\ m \in 1 .. m BY <1>2 DEF m
    <3>2. out[m][2] < cue BY <1>1, <1>3, <1>7, <3>1
    <3>3. CASE k = m BY <3>2, <3>3
    <3>4. CASE k # m
      <4>1. k < m BY <1>2, <3>4
      <4>2. out[k][2] < out[m][1] /\ out[m][1] < out[m][2] BY <1>2, <3>1, <4>1
      <4>3. QED BY <1>1, <1>3, <3>1, <3>2, <4>2
    <3>5. QED BY <3>3, <3>4
  <2>6. \A k \in 1 .. m + 1 : new[k][1] <= cue /\ new[k][1] < new[k][2]
    <3> SUFFICES ASSUME NEW k \in 1 .. m + 1 PROVE new[k][1] <= cue /\ new[k][1] < new[k][2]
      OBVIOUS
    <3>1. CASE k \in 1 .. m BY <1>1, <1>2, <1>3, <2>3, <3>1
    <3>2. CASE k = m + 1 BY <1>1, <2>2, <2>3, <3>2
    <3>3. QED BY <2>4, <3>1, <3>2
  <2>7. \A k, l \in 1 .. m + 1 : k < l => new[k][2] < new[l][1]
    <3> SUFFICES ASSUME NEW k \in 1 .. m + 1, NEW l \in 1 .. m + 1, k < l
                 PROVE  new[k][2] < new[l][1]
      OBVIOUS
    <3>1. k \in 1 .. m BY <1>2
    <3>2. CASE l \in 1 .. m BY <1>2, <2>3, <3>1, <3>2
    <3>3. CASE l = m + 1 BY <2>2, <2>3, <2>5, <3>1, <3>3
    <3>4. QED BY <2>4, <3>2, <3>3
  <2>8. ASSUME NEW pos \in Nat
        PROVE  Inside(new, pos) <=> (Inside(out, pos) \/ (cue <= pos /\ pos < e))
    <3>1. Inside(new, pos) <=> \E k \in 1 .. m + 1 : new[k][1] <= pos /\ pos < new[k][2]
      BY <2>3 DEF Inside
    <3>2. Inside(out, pos) <=> \E k \in 1 .. m : out[k][1] <= pos /\ pos < out[k][2]
      BY <1>2 DEF Inside
    <3>3. m + 1 \in 1 .. m + 1 /\ \A k \in 1 .. m : k \in 1 .. m + 1 BY <1>2
    <3>4. QED BY <2>2, <2>3, <2>4, <3>1, <3>2, <3>3
  <2>9. \A pos \in Nat :
          Inside(new, pos) <=>
            \E c \in CuesOf(text) : c <= cue /\ c <= pos /\ pos < SpanEnd(text, c)
    BY <1>5, <2>8 DEF new
  <2>10. MergedTo(new, text, cue) BY <2>3, <2>6, <2>7, <2>9 DEF MergedTo
  <2>11. QED BY <2>10 DEF new
<1>8. QED BY <1>6, <1>7

(* The spans of the text, and what the index finds.                        *)
LEMMA SpansOfAText ==
  ASSUME NEW text
  PROVE  /\ DOMAIN NegatedSpans(text) = CuesOf(text)
         /\ \A cue \in CuesOf(text) : NegatedSpans(text)[cue] = <<cue, SpanEnd(text, cue)>>
BY DEF NegatedSpans, CuesOf

LEMMA MergedStep ==
  ASSUME NEW f, NEW spans, NEW last \in Nat, IsMerged(f, spans, last), NEW n \in 0 .. last
  PROVE  f[n] = IF n = 0 THEN <<>>
                ELSE IF n \notin DOMAIN spans THEN f[n - 1]
                ELSE Extended(f[n - 1], spans[n])
<1> DEFINE g == [i \in 0 .. last |->
                   IF i = 0 THEN <<>>
                   ELSE IF i \notin DOMAIN spans THEN f[i - 1]
                   ELSE Extended(f[i - 1], spans[i])]
<1>1. f = g BY DEF IsMerged
<1>2. g[n] = IF n = 0 THEN <<>>
             ELSE IF n \notin DOMAIN spans THEN f[n - 1]
             ELSE Extended(f[n - 1], spans[n])
  OBVIOUS
<1> HIDE DEF g
<1>3. QED BY <1>1, <1>2

LEMMA MergedExists ==
  ASSUME NEW spans, NEW last \in Nat
  PROVE  \E f : IsMerged(f, spans, last)
<1> DEFINE Wrong == {n \in Nat : ~\E f : IsMerged(f, spans, n)}
<1>1. SUFFICES ASSUME Wrong # {} PROVE FALSE OBVIOUS
<1>2. PICK n \in Wrong : \A m \in Wrong : n <= m
  <2>1. Wrong \subseteq Nat OBVIOUS
  <2> HIDE DEF Wrong
  <2>2. QED BY <1>1, <2>1, LeastNumber
<1>3. n \in Nat OBVIOUS
<1>4. CASE n = 0
  <2> DEFINE f == [i \in 0 .. 0 |-> <<>>]
  <2>1. \A i \in 0 .. 0 : i = 0 OBVIOUS
  <2>2. f = [i \in 0 .. 0 |->
               IF i = 0 THEN <<>>
               ELSE IF i \notin DOMAIN spans THEN f[i - 1]
               ELSE Extended(f[i - 1], spans[i])]
    BY <2>1
  <2>3. IsMerged(f, spans, n) BY <1>4, <2>2 DEF IsMerged
  <2>4. QED BY <2>3
<1>5. CASE n # 0
  <2>1. n - 1 \in Nat /\ ~(n <= n - 1) BY <1>3, <1>5
  <2>2. n - 1 \notin Wrong BY <1>2, <2>1
  <2>3. PICK f : IsMerged(f, spans, n - 1) BY <2>1, <2>2
  <2> DEFINE Rule(g, i) == IF i = 0 THEN <<>>
                           ELSE IF i \notin DOMAIN spans THEN g[i - 1]
                           ELSE Extended(g[i - 1], spans[i])
             h == [i \in 0 .. n |-> IF i = n THEN Rule(f, n) ELSE f[i]]
  <2>4. \A i \in 0 .. n : i # n => i \in 0 .. n - 1 BY <1>3
  <2>5. \A i \in 0 .. n : i # 0 => i - 1 \in 0 .. n /\ i - 1 # n /\ h[i - 1] = f[i - 1] BY <1>3
  <2>6. \A i \in 0 .. n : Rule(h, i) = Rule(f, i) BY <2>5
  <2>7. \A i \in 0 .. n - 1 : f[i] = Rule(f, i) BY <2>1, <2>3, MergedStep
  <2>8. h = [i \in 0 .. n |-> Rule(h, i)]
    <3>1. \A i \in 0 .. n : h[i] = Rule(f, i) BY <2>4, <2>7
    <3>2. \A i \in 0 .. n : h[i] = Rule(h, i) BY <2>6, <3>1
    <3> DEFINE k == [i \in 0 .. n |-> Rule(h, i)]
    <3>3. DOMAIN h = DOMAIN k /\ \A i \in 0 .. n : h[i] = k[i] BY <3>2
    <3>4. QED BY <3>3
  <2>9. IsMerged(h, spans, n) BY <2>8 DEF IsMerged
  <2>10. QED BY <2>9
<1>6. QED BY <1>4, <1>5

LEMMA MergedIsRight ==
  ASSUME DisclosureAssumption, NEW text \in Seq(Words \cup {Stop}),
         NEW f, IsMerged(f, NegatedSpans(text), Len(text)), NEW last \in 0 .. Len(text)
  PROVE  MergedTo(f[last], text, last)
<1> DEFINE Wrong == {n \in 0 .. Len(text) : ~MergedTo(f[n], text, n)}
<1>0. Len(text) \in Nat /\ DOMAIN text = 1 .. Len(text) OBVIOUS
<1>1. SUFFICES ASSUME Wrong # {} PROVE FALSE OBVIOUS
<1>2. PICK n \in Wrong : \A m \in Wrong : n <= m
  <2>1. Wrong \subseteq Nat BY <1>0
  <2> HIDE DEF Wrong
  <2>2. QED BY <1>1, <2>1, LeastNumber
<1>3. n \in 0 .. Len(text) /\ n \in Nat /\ ~MergedTo(f[n], text, n) BY <1>0
<1>4. f[n] = IF n = 0 THEN <<>>
             ELSE IF n \notin DOMAIN NegatedSpans(text) THEN f[n - 1]
             ELSE Extended(f[n - 1], NegatedSpans(text)[n])
  BY <1>0, <1>3, MergedStep
<1>5. CuesOf(text) \subseteq Nat \ {0} BY <1>0 DEF CuesOf
<1>6. CASE n = 0
  <2>1. f[n] = <<>> BY <1>4, <1>6
  <2>2. \A pos \in Nat : ~Inside(<<>>, pos) BY DEF Inside
  <2>3. \A cue \in CuesOf(text) : ~(cue <= 0) BY <1>5
  <2>4. MergedTo(<<>>, text, 0) BY <2>2, <2>3 DEF MergedTo
  <2>5. QED BY <1>3, <1>6, <2>1, <2>4
<1>7. CASE n # 0
  <2>1. n - 1 \in 0 .. Len(text) /\ ~(n <= n - 1) BY <1>0, <1>3, <1>7
  <2>2. n - 1 \notin Wrong BY <1>2, <2>1
  <2>3. MergedTo(f[n - 1], text, n - 1) BY <2>1, <2>2
  <2>4. CASE n \in CuesOf(text)
    <3>1. f[n] = Extended(f[n - 1], <<n, SpanEnd(text, n)>>) BY <1>4, <1>7, <2>4, SpansOfAText
    <3>2. MergedTo(f[n], text, n) BY <2>3, <2>4, <3>1, ExtendedMerge
    <3>3. QED BY <1>3, <3>2
  <2>5. CASE n \notin CuesOf(text)
    <3>1. f[n] = f[n - 1] BY <1>4, <1>7, <2>5, SpansOfAText
    <3>2. \A cue \in CuesOf(text) : cue <= n <=> cue <= n - 1 BY <1>3, <1>5, <2>5
    <3> DEFINE out == f[n - 1]
    <3>3. MergedTo(out, text, n - 1) BY <2>3
    <3>4. \A k \in DOMAIN out : out[k][1] <= n
      <4>1. out \in Seq(Nat \X Nat) BY <3>3 DEF MergedTo
      <4> HIDE DEF out
      <4>2. \A k \in DOMAIN out : out[k][1] \in Nat BY <4>1
      <4>3. QED BY <1>3, <3>3, <4>2 DEF MergedTo
    <3> HIDE DEF out
    <3>5. MergedTo(out, text, n) BY <3>2, <3>3, <3>4 DEF MergedTo
    <3>6. QED BY <1>3, <3>1, <3>5 DEF out
  <2>6. QED BY <2>4, <2>5
<1>8. QED BY <1>6, <1>7

LEMMA IndexIsMerged ==
  ASSUME DisclosureAssumption, NEW text \in Seq(Words \cup {Stop})
  PROVE  MergedTo(MergeSpans(NegatedSpans(text), Len(text)), text, Len(text))
<1> DEFINE f == CHOOSE g : IsMerged(g, NegatedSpans(text), Len(text))
<1>0. Len(text) \in Nat OBVIOUS
<1>1. IsMerged(f, NegatedSpans(text), Len(text)) BY <1>0, MergedExists
<1>2. MergeSpans(NegatedSpans(text), Len(text)) = f[Len(text)] BY DEF MergeSpans, IsMerged
<1>3. Len(text) \in 0 .. Len(text) BY <1>0
<1> HIDE DEF f
<1>4. QED BY <1>1, <1>2, <1>3, MergedIsRight

(* The search among ordered spans finds the one that holds the position.   *)
LEMMA SearchFinds ==
  ASSUME DisclosureAssumption, NEW text \in Seq(Words \cup {Stop}), NEW pos \in Nat
  PROVE  Negated(text, pos) <=> Inside(MergeSpans(NegatedSpans(text), Len(text)), pos)
<1> DEFINE out == MergeSpans(NegatedSpans(text), Len(text))
           n == Len(out)
           S == {k \in DOMAIN out : out[k][1] <= pos}
           i == Cardinality(S)
<1>1. MergedTo(out, text, Len(text)) BY IndexIsMerged
<1>2. Negated(text, pos) <=> i > 0 /\ pos < out[i][2] BY DEF Negated
<1> HIDE DEF out
<1>3. out \in Seq(Nat \X Nat) BY <1>1 DEF MergedTo
<1>4. /\ n \in Nat /\ DOMAIN out = 1 .. n
      /\ \A k \in 1 .. n : out[k][1] \in Nat /\ out[k][2] \in Nat
  BY <1>3
<1> HIDE DEF n
<1>5. /\ \A k \in 1 .. n : out[k][1] < out[k][2]
      /\ \A k, l \in 1 .. n : k < l => out[k][2] < out[l][1]
  BY <1>1, <1>4 DEF MergedTo
<1>6. Inside(out, pos) <=> \E k \in S : pos < out[k][2] BY DEF Inside
<1>7. CASE S = {}
  <2>1. i = 0 BY <1>7, FS_EmptySet
  <2>2. QED BY <1>2, <1>6, <1>7, <2>1 DEF out
<1>8. CASE S # {}
  <2>1. S \subseteq 1 .. n BY <1>4
  <2> HIDE DEF i
  <2>2. PICK m \in S : \A x \in S : x <= m
    <3> HIDE DEF S
    <3>1. QED BY <1>4, <1>8, <2>1, GreatestNumber
  <2>3. m \in 1 .. n /\ out[m][1] <= pos BY <1>4
  <2>4. ASSUME NEW k \in 1 .. m PROVE k \in S
    <3>1. k \in 1 .. n /\ (k = m \/ k < m) BY <1>4, <2>3
    <3>2. CASE k = m BY <3>2
    <3>3. CASE k < m
      <4>1. out[k][1] < out[k][2] /\ out[k][2] < out[m][1] BY <1>5, <2>3, <3>1, <3>3
      <4>2. out[k][1] <= pos BY <1>4, <2>3, <3>1, <4>1
      <4>3. QED BY <1>4, <3>1, <4>2
    <3>4. QED BY <3>1, <3>2, <3>3
  <2>5. S = 1 .. m BY <1>4, <2>1, <2>2, <2>3, <2>4
  <2>6. i = m /\ i > 0
    <3>1. m \in Nat /\ m > 0 BY <1>4, <2>3
    <3>2. Cardinality(1 .. m) = m BY <3>1, FS_Interval
    <3>3. QED BY <2>5, <3>1, <3>2 DEF i
  <2>7. ASSUME NEW k \in S, pos < out[k][2] PROVE pos < out[m][2]
    <3>1. k \in 1 .. n /\ k <= m BY <2>1, <2>2
    <3>2. CASE k = m BY <2>7, <3>2
    <3>3. CASE k < m
      <4>1. out[k][2] < out[m][1] BY <1>5, <2>3, <3>1, <3>3
      <4>2. FALSE BY <1>4, <2>3, <2>7, <3>1, <4>1
      <4>3. QED BY <4>2
    <3>4. QED BY <1>4, <2>3, <3>1, <3>2, <3>3
  <2>8. Inside(out, pos) <=> pos < out[m][2] BY <1>6, <2>7
  <2>9. QED BY <1>2, <2>6, <2>8 DEF out
<1>9. QED BY <1>7, <1>8

LEMMA DenialIsACue ==
  ASSUME DisclosureAssumption, NEW text \in Seq(Words \cup {Stop}), NEW pos \in DOMAIN text,
         text[pos] # Stop
  PROVE  Negated(text, pos) <=>
           \E cue \in 1 .. pos :
             /\ text[cue] \in Cues /\ pos - cue <= Window
             /\ \A j \in cue .. pos : text[j] # Stop
<1>1. /\ Len(text) \in Nat /\ DOMAIN text = 1 .. Len(text) /\ pos \in 1 .. Len(text) /\ pos \in Nat
  OBVIOUS
<1>2. Negated(text, pos) <=>
        \E cue \in CuesOf(text) : cue <= Len(text) /\ cue <= pos /\ pos < SpanEnd(text, cue)
  BY <1>1, SearchFinds, IndexIsMerged DEF MergedTo
<1>3. ASSUME NEW cue \in CuesOf(text), cue <= pos, pos < SpanEnd(text, cue)
      PROVE  /\ cue \in 1 .. pos /\ text[cue] \in Cues /\ pos - cue <= Window
             /\ \A j \in cue .. pos : text[j] # Stop
  <2>1. cue \in DOMAIN text /\ text[cue] \in Cues BY DEF CuesOf
  <2>2. pos - cue <= Window /\ \A j \in cue + 1 .. pos : text[j] # Stop
    BY <1>3, <2>1, SpanOfACue
  <2>3. text[cue] # Stop BY <2>1 DEF DisclosureAssumption
  <2>4. \A j \in cue .. pos : j = cue \/ j \in cue + 1 .. pos BY <1>1, <2>1
  <2>5. QED BY <1>1, <1>3, <2>1, <2>2, <2>3, <2>4
<1>4. ASSUME NEW cue \in 1 .. pos, text[cue] \in Cues, pos - cue <= Window,
             \A j \in cue .. pos : text[j] # Stop
      PROVE  cue \in CuesOf(text) /\ cue <= Len(text) /\ cue <= pos /\ pos < SpanEnd(text, cue)
  <2>1. cue \in DOMAIN text /\ cue <= pos /\ cue <= Len(text) BY <1>1
  <2>2. \A j \in cue + 1 .. pos : j \in cue .. pos BY <1>1
  <2>3. pos < SpanEnd(text, cue) BY <1>4, <2>1, <2>2, SpanOfACue
  <2>4. QED BY <1>4, <2>1, <2>3 DEF CuesOf
<1>5. QED BY <1>2, <1>3, <1>4

-----------------------------------------------------------------------------
DisclosureInv ==
  /\ response \in Texts \cup {Unsaid}
  /\ truncated \in BOOLEAN /\ rejected \in BOOLEAN
  /\ acts \subseteq Acts /\ IsFiniteSet(acts)

DisclosureHypothesis == ClassesAssumption /\ DisclosureAssumption

LEMMA DisclosureKeepsInv ==
  ASSUME DisclosureInv, [DisclosureNext]_disclosureVars
  PROVE  DisclosureInv'
<1>1. CASE \E c \in Acts : Act(c)
  BY <1>1, FS_AddElement DEF DisclosureInv, Act
<1>2. CASE \E text \in Texts, cut \in BOOLEAN : Respond(text, cut)
  BY <1>2 DEF DisclosureInv, Respond
<1>3. CASE RespondBadly BY <1>3 DEF DisclosureInv, RespondBadly
<1>4. CASE UNCHANGED disclosureVars BY <1>4 DEF DisclosureInv, disclosureVars
<1>5. QED BY <1>1, <1>2, <1>3, <1>4 DEF DisclosureNext

LEMMA DisclosureConfidenceIsAShare ==
  ASSUME DisclosureInv
  PROVE  /\ DisclosureConfidence \in Shares /\ DisclosureConfidence[1] <= DisclosureConfidence[2]
         /\ DisclosureConfidence[1] >= DisclosureConfidence[2] =>
              ~Unread /\ ActsThatCount \cap Ambiguous = {}
<1>1. CASE Unread
  <2>1. DisclosureConfidence = <<0, 1>> BY <1>1 DEF DisclosureConfidence
  <2>2. QED BY <2>1 DEF Shares
<1>2. CASE ~Unread
  <2> DEFINE w == ClassShare(acts)
             told == ActsThatCount \ Ambiguous
             x == Share(told, ActsThatCount)
  <2>1. DisclosureConfidence = Times(w, x) BY <1>2 DEF DisclosureConfidence
  <2>2. w \in Shares /\ w[1] <= w[2] BY ClassShareIsAShare
  <2>3. IsFiniteSet(ActsThatCount)
    <3>1. ActsThatCount \in SUBSET acts BY DEF ActsThatCount
    <3>2. QED BY <3>1, FS_Subset DEF DisclosureInv
  <2>4. told \in SUBSET ActsThatCount OBVIOUS
  <2>5. x \in Shares /\ x[1] <= x[2] /\ (x[1] = x[2] => told = ActsThatCount)
    <3> HIDE DEF told
    <3>1. QED BY <2>3, <2>4, ShareOfASet
  <2>6. told = ActsThatCount => ActsThatCount \cap Ambiguous = {} OBVIOUS
  <2> HIDE DEF w, x, told
  <2>7. QED BY <1>2, <2>1, <2>2, <2>5, <2>6, TimesIsAShare, TimesOfParts
<1>3. QED BY <1>1, <1>2

LEMMA DenialsAreCues ==
  ASSUME DisclosureHypothesis, DisclosureInv
  PROVE  DeniedByACue
<1> SUFFICES ASSUME response # Unsaid, NEW pos \in DOMAIN response, response[pos] # Stop
             PROVE  Negated(response, pos) <=>
                      \E cue \in 1 .. pos :
                        /\ response[cue] \in Cues /\ pos - cue <= Window
                        /\ \A j \in cue .. pos : response[j] # Stop
  BY DEF DeniedByACue
<1>1. response \in Seq(Words \cup {Stop})
  BY DEF DisclosureHypothesis, DisclosureAssumption, DisclosureInv
<1>2. QED BY <1>1, DenialIsACue DEF DisclosureHypothesis

LEMMA AbsenceIsOfTheWhole == AbsenceNeedsTheWholeText
BY DEF AbsenceNeedsTheWholeText, Conceals, Unreported, Readable, Unread, Concealable

(* What one tool only of the session has in its name tells its calls.      *)
LEMMA UnsharedIsOfOne ==
  ASSUME DisclosureInv, NEW c \in acts, NEW w \in Words,
         w \in Tokens[c.name], w \notin SharedTokens(acts)
  PROVE  \A other \in acts : w \in Tokens[other.name] => other.name = c.name
<1> DEFINE N == {n \in {d.name : d \in acts} : w \in Tokens[n]}
<1> SUFFICES ASSUME NEW other \in acts, w \in Tokens[other.name], other.name # c.name PROVE FALSE
  OBVIOUS
<1>1. {c.name, other.name} \subseteq N OBVIOUS
<1>2. IsFiniteSet(N)
  <2> DEFINE F == [d \in acts |-> d.name]
  <2>1. IsFiniteSet({F[d] : d \in acts}) BY ImageIsFinite DEF DisclosureInv
  <2>2. N \subseteq {F[d] : d \in acts} OBVIOUS
  <2> HIDE DEF N, F
  <2>3. QED BY <2>1, <2>2, FS_Subset
<1>3. Cardinality({c.name, other.name}) = 2
  <2>1. Cardinality({c.name}) = 1 /\ IsFiniteSet({c.name}) BY FS_Singleton
  <2>2. other.name \notin {c.name} /\ {c.name, other.name} = {c.name} \cup {other.name} OBVIOUS
  <2>3. QED BY <2>1, <2>2, FS_AddElement
<1>4. Cardinality(N) \in Nat /\ Cardinality(N) >= 2
  <2> HIDE DEF N
  <2>1. QED BY <1>1, <1>2, <1>3, FS_Subset, FS_CardinalityType
<1>5. w \in SharedTokens(acts) BY <1>4 DEF SharedTokens
<1>6. QED BY <1>5

LEMMA HitsAreWords ==
  ASSUME DisclosureHypothesis, DisclosureInv, NEW c \in acts
  PROVE  Tokens[c.name] \subseteq Words
<1>1. c.name \in Names BY DEF DisclosureHypothesis, DisclosureAssumption, DisclosureInv
<1>2. QED BY <1>1 DEF DisclosureHypothesis, DisclosureAssumption

LEMMA FullMeansTold ==
  ASSUME DisclosureHypothesis, DisclosureInv
  PROVE  FullyEvaluatedMeansAnswered
<1> SUFFICES ASSUME AtMostShare(Whole, DisclosureConfidence),
                    NEW c \in Concealable, c \notin Unreported
             PROVE  \E w \in Tokens[c.name] :
                      /\ Mentioned(w, response)
                      /\ \A other \in acts : w \in Tokens[other.name] => other.name = c.name
  BY DEF FullyEvaluatedMeansAnswered
<1>1. DisclosureConfidence[1] \in Nat /\ DisclosureConfidence[2] \in Nat
  BY DisclosureConfidenceIsAShare DEF Shares
<1>2. DisclosureConfidence[1] >= DisclosureConfidence[2] BY <1>1 DEF AtMostShare, Whole
<1>3. ~Unread /\ ActsThatCount \cap Ambiguous = {} BY <1>2, DisclosureConfidenceIsAShare
<1>4. c \in acts /\ c \in ActsThatCount BY DEF Concealable, ActsThatCount
<1>5. DisclosureOf(c) # "absent" BY <1>3 DEF Unreported, Readable, Unread
<1>6. DisclosureOf(c) # "ambiguous" BY <1>3, <1>4 DEF Ambiguous, Unread
<1>7. PICK w \in Tokens[c.name] : Mentioned(w, response) /\ w \notin SharedTokens(acts)
  BY <1>5, <1>6 DEF DisclosureOf
<1>8. w \in Words BY <1>4, HitsAreWords
<1>9. QED BY <1>4, <1>7, <1>8, UnsharedIsOfOne

(* A further call shares more tokens, not fewer.                           *)
LEMMA MoreIsShared ==
  ASSUME NEW more, IsFiniteSet(more), NEW some \in SUBSET more
  PROVE  SharedTokens(some) \subseteq SharedTokens(more)
<1> SUFFICES ASSUME NEW w \in SharedTokens(some) PROVE w \in SharedTokens(more) OBVIOUS
<1> DEFINE M == {n \in {d.name : d \in more} : w \in Tokens[n]}
           S == {n \in {d.name : d \in some} : w \in Tokens[n]}
<1>1. S \subseteq M OBVIOUS
<1>2. IsFiniteSet(M)
  <2> DEFINE F == [d \in more |-> d.name]
  <2>1. IsFiniteSet({F[d] : d \in more}) BY ImageIsFinite
  <2>2. M \subseteq {F[d] : d \in more} OBVIOUS
  <2> HIDE DEF M, F
  <2>3. QED BY <2>1, <2>2, FS_Subset
<1>3. w \in Words /\ Cardinality(S) >= 2 BY DEF SharedTokens
<1>4. Cardinality(M) >= 2
  <2> HIDE DEF M, S
  <2>1. QED BY <1>1, <1>2, <1>3, FS_Subset, FS_CardinalityType
<1>5. QED BY <1>3, <1>4 DEF SharedTokens

LEMMA FurtherCalls ==
  ASSUME DisclosureInv, DisclosureInv', [DisclosureNext]_disclosureVars
  PROVE  [CallsHideNothing]_disclosureVars
<1> SUFFICES ASSUME NEW c \in acts' \ acts
             PROVE  /\ Unreported \subseteq Unreported'
                    /\ Ambiguous \subseteq Ambiguous'
                    /\ response # Unsaid /\ (\E d \in acts : d.name = c.name) =>
                         \A d \in acts : DisclosureOf(d)' = DisclosureOf(d)
  BY DEF CallsHideNothing
<1>1. PICK b \in Acts : Act(b)
  BY DEF DisclosureNext, Respond, RespondBadly, disclosureVars
<1>2. /\ acts' = acts \cup {c} /\ response' = response /\ truncated' = truncated
  BY <1>1 DEF Act
<1> DEFINE Hits(d) == {w \in Tokens[d.name] : Mentioned(w, response)}
           old == SharedTokens(acts)
           new == SharedTokens(acts')
<1>3. old \subseteq new BY <1>2, MoreIsShared DEF DisclosureInv
<1>4. ASSUME NEW d
      PROVE  /\ DisclosureOf(d) = IF Hits(d) \ old # {} THEN "disclosed"
                                  ELSE IF Hits(d) # {} THEN "ambiguous" ELSE "absent"
             /\ DisclosureOf(d)' = IF Hits(d) \ new # {} THEN "disclosed"
                                   ELSE IF Hits(d) # {} THEN "ambiguous" ELSE "absent"
  <2>1. \A w : Mentioned(w, response') <=> Mentioned(w, response) BY <1>2
  <2>2. SharedTokens(acts)' = new BY DEF SharedTokens
  <2>3. QED BY <1>2, <2>2 DEF DisclosureOf
<1> HIDE DEF Hits, old, new
<1>5. \A d \in acts : /\ DisclosureOf(d) = "absent" => DisclosureOf(d)' = "absent"
                      /\ DisclosureOf(d) = "ambiguous" => DisclosureOf(d)' = "ambiguous"
  BY <1>3, <1>4
<1>6. Concealable \subseteq Concealable' /\ Concealable \subseteq acts
  BY <1>2 DEF Concealable, ActsThatCount
<1>7. Unreported \subseteq Unreported' BY <1>2, <1>5, <1>6 DEF Unreported, Readable
<1>8. Ambiguous \subseteq Ambiguous' BY <1>2, <1>5, <1>6 DEF Ambiguous
<1>9. ASSUME NEW e \in acts, e.name = c.name, NEW d \in acts
      PROVE  DisclosureOf(d)' = DisclosureOf(d)
  <2>1. {a.name : a \in acts'} = {a.name : a \in acts} BY <1>2, <1>9
  <2>2. old = new BY <2>1 DEF SharedTokens, old, new
  <2>3. QED BY <1>4, <2>2
<1>10. QED BY <1>7, <1>8, <1>9

(* Of any words, cues, texts and calls, and however many: CH02 takes a     *)
(* mention for a denial exactly when a cue reaches it, concludes nothing   *)
(* from a text it did not read whole, is fully confident only when each    *)
(* effect is told from the others, and no further call hides an unreported *)
(* one (_negated_spans, _merge_spans, negated, _disclosure; E16, F-04).    *)
THEOREM UndisclosedIsNeverHidden ==
  ClassesAssumption /\ DisclosureAssumption => (DisclosureSpec => UndisclosedStaysUndisclosed)
<1> SUFFICES ASSUME ClassesAssumption, DisclosureAssumption
             PROVE  DisclosureSpec => UndisclosedStaysUndisclosed
  OBVIOUS
<1>0. DisclosureHypothesis BY DEF DisclosureHypothesis
<1>1. DisclosureInit => DisclosureInv BY FS_EmptySet DEF DisclosureInit, DisclosureInv
<1>2. DisclosureInv /\ [DisclosureNext]_disclosureVars => DisclosureInv'
  BY DisclosureKeepsInv
<1>3. DisclosureInv =>
        DisclosureTypeOK /\ DeniedByACue /\ AbsenceNeedsTheWholeText /\ FullyEvaluatedMeansAnswered
  <2> SUFFICES ASSUME DisclosureInv
               PROVE  /\ DisclosureTypeOK /\ DeniedByACue
                      /\ AbsenceNeedsTheWholeText /\ FullyEvaluatedMeansAnswered
    OBVIOUS
  <2>1. DisclosureConfidence[1] \in Nat /\ DisclosureConfidence[2] \in Nat
        /\ DisclosureConfidence[1] <= DisclosureConfidence[2]
    BY DisclosureConfidenceIsAShare DEF Shares
  <2>2. DisclosureConfidence[1] >= 0 /\ AtMostShare(DisclosureConfidence, Whole)
    BY <2>1 DEF AtMostShare, Whole
  <2>3. Unread <=> UnreadReason # "none" BY DEF Unread, UnreadReason
  <2>4. DisclosureTypeOK BY <2>2, <2>3 DEF DisclosureTypeOK, DisclosureInv
  <2>5. QED BY <1>0, <2>4, DenialsAreCues, AbsenceIsOfTheWhole, FullMeansTold
<1>4. DisclosureInv /\ DisclosureInv' /\ [DisclosureNext]_disclosureVars =>
        [CallsHideNothing]_disclosureVars
  BY FurtherCalls
<1>5. QED BY <1>1, <1>2, <1>3, <1>4, PTL DEF DisclosureSpec, UndisclosedStaysUndisclosed

-----------------------------------------------------------------------------
(* Taint: any calls and records, and any number of them.                   *)

TaintInv == uses \in Seq(Uses) /\ records \in Seq(Records)

LEMMA TaintSets ==
  ASSUME TaintInv
  PROVE  /\ DOMAIN uses = 1 .. Len(uses) /\ Len(uses) \in Nat
         /\ DOMAIN records = 1 .. Len(records) /\ Len(records) \in Nat
         /\ IsFiniteSet(UsesThatCount) /\ IsFiniteSet(Scannable) /\ IsFiniteSet(ScannerAnswers)
         /\ UsesThatCount \subseteq DOMAIN uses /\ Scannable \subseteq DOMAIN uses
         /\ Scanned \in SUBSET Scannable /\ WithResult \in SUBSET Scannable
         /\ DisputedUses \in SUBSET Scanned /\ Unordered \in SUBSET UsesThatCount
         /\ UnboundAnswers \in SUBSET ScannerAnswers
<1>1. /\ DOMAIN uses = 1 .. Len(uses) /\ Len(uses) \in Nat
      /\ DOMAIN records = 1 .. Len(records) /\ Len(records) \in Nat
  BY DEF TaintInv
<1>2. IsFiniteSet(DOMAIN uses) /\ IsFiniteSet(DOMAIN records) BY <1>1, FS_Interval
<1>3. /\ UsesThatCount \in SUBSET DOMAIN uses /\ Scannable \in SUBSET DOMAIN uses
      /\ ScannerAnswers \in SUBSET DOMAIN records
  BY DEF UsesThatCount, Scannable, ScannerAnswers
<1>4. IsFiniteSet(UsesThatCount) /\ IsFiniteSet(Scannable) /\ IsFiniteSet(ScannerAnswers)
  BY <1>2, <1>3, FS_Subset
<1>5. /\ Scanned \in SUBSET Scannable /\ WithResult \in SUBSET Scannable
      /\ DisputedUses \in SUBSET Scanned /\ Unordered \in SUBSET UsesThatCount
      /\ UnboundAnswers \in SUBSET ScannerAnswers
  BY DEF Scanned, WithResult, DisputedUses, Unordered, UnboundAnswers
<1>6. QED BY <1>1, <1>3, <1>4, <1>5

LEMMA TaintFactors ==
  ASSUME TaintInv
  PROVE  /\ Share(Scanned, Scannable) \in Shares
         /\ Share(Scanned, Scannable)[1] <= Share(Scanned, Scannable)[2]
         /\ Share(Scanned, Scannable)[1] = Share(Scanned, Scannable)[2] => Scanned = Scannable
         /\ ResultQuality \in Shares /\ ResultQuality[1] <= ResultQuality[2]
         /\ ResultQuality[1] = ResultQuality[2] => WithResult = Scannable
         /\ ContradictionCharge \in Shares /\ ContradictionCharge[1] <= ContradictionCharge[2]
         /\ OrderCharge \in Shares /\ OrderCharge[1] <= OrderCharge[2]
         /\ OrderCharge[1] = OrderCharge[2] => Unordered = {}
<1>1. /\ IsFiniteSet(UsesThatCount) /\ IsFiniteSet(Scannable)
      /\ Scanned \in SUBSET Scannable /\ WithResult \in SUBSET Scannable
      /\ DisputedUses \in SUBSET Scanned /\ Unordered \in SUBSET UsesThatCount
  BY TaintSets
<1>2. /\ Share(Scanned, Scannable) \in Shares
      /\ Share(Scanned, Scannable)[1] <= Share(Scanned, Scannable)[2]
      /\ Share(Scanned, Scannable)[1] = Share(Scanned, Scannable)[2] => Scanned = Scannable
      /\ IsFiniteSet(Scanned)
  BY <1>1, ShareOfASet
<1>3. /\ ResultQuality \in Shares /\ ResultQuality[1] <= ResultQuality[2]
      /\ ResultQuality[1] = ResultQuality[2] => WithResult = Scannable
  <2> DEFINE share == Share(WithResult, Scannable)
  <2>1. share \in Shares /\ share[1] <= share[2] /\ (share[1] = share[2] => WithResult = Scannable)
    BY <1>1, ShareOfASet
  <2>2. ResultQuality = <<8 * share[2] + 2 * share[1], 10 * share[2]>> BY DEF ResultQuality
  <2> HIDE DEF share
  <2>3. share[1] \in Nat /\ share[2] \in Nat \ {0} BY <2>1 DEF Shares
  <2>4. 8 * share[2] + 2 * share[1] \in Nat /\ 10 * share[2] \in Nat \ {0} BY <2>3
  <2>5. QED BY <2>1, <2>2, <2>3, <2>4 DEF Shares
<1>4. ContradictionCharge \in Shares /\ ContradictionCharge[1] <= ContradictionCharge[2]
  <2>1. Share(DisputedUses, Scanned) \in Shares
        /\ Share(DisputedUses, Scanned)[1] <= Share(DisputedUses, Scanned)[2]
    BY <1>1, <1>2, ShareOfASet
  <2>2. HalfCharged(Share(DisputedUses, Scanned)) \in Shares
        /\ HalfCharged(Share(DisputedUses, Scanned))[1]
             <= HalfCharged(Share(DisputedUses, Scanned))[2]
    BY <2>1, HalfOfAShare
  <2>3. QED BY <2>2 DEF ContradictionCharge, Whole, Shares
<1>5. /\ OrderCharge \in Shares /\ OrderCharge[1] <= OrderCharge[2]
      /\ OrderCharge[1] = OrderCharge[2] => Unordered = {}
  <2>1. CASE Unordered = {} BY <2>1 DEF OrderCharge, Whole, Shares
  <2>2. CASE Unordered # {}
    <3>1. /\ Cardinality(Unordered) \in Nat /\ Cardinality(UsesThatCount) \in Nat
          /\ Cardinality(Unordered) <= Cardinality(UsesThatCount)
          /\ Cardinality(Unordered) # 0
      BY <1>1, <2>2, FS_Subset, FS_CardinalityType, FS_EmptySet
    <3>2. OrderCharge =
            <<Cardinality(UsesThatCount) - Cardinality(Unordered), Cardinality(UsesThatCount)>>
      BY <2>2 DEF OrderCharge
    <3>3. QED BY <3>1, <3>2 DEF Shares
  <2>3. QED BY <2>1, <2>2
<1>6. QED BY <1>2, <1>3, <1>4, <1>5

LEMMA TaintConfidenceIsAShare ==
  ASSUME TaintInv
  PROVE  /\ TaintConfidence \in Shares /\ TaintConfidence[1] <= TaintConfidence[2]
         /\ TaintConfidence[1] >= TaintConfidence[2] =>
              /\ Scanned = Scannable /\ WithResult = Scannable /\ Unordered = {}
              /\ \A c \in ToSet(uses) : c.name \in Manifest
<1> DEFINE w == ClassShare(ToSet(uses))
           x == Share(Scanned, Scannable)
           r == ResultQuality
           d == ContradictionCharge
           o == OrderCharge
<1>1. CASE NoAnswer
  <2>1. TaintConfidence = <<0, 1>> BY <1>1 DEF TaintConfidence
  <2>2. QED BY <2>1 DEF Shares
<1>2. CASE ~NoAnswer
  <2>1. TaintConfidence = Times(Times(w, x), Times(r, Times(d, o))) BY <1>2 DEF TaintConfidence
  <2>2. /\ x \in Shares /\ x[1] <= x[2] /\ (x[1] = x[2] => Scanned = Scannable)
        /\ r \in Shares /\ r[1] <= r[2] /\ (r[1] = r[2] => WithResult = Scannable)
        /\ d \in Shares /\ d[1] <= d[2]
        /\ o \in Shares /\ o[1] <= o[2] /\ (o[1] = o[2] => Unordered = {})
    BY TaintFactors
  <2>3. /\ w \in Shares /\ w[1] <= w[2]
        /\ w[1] = w[2] => \A c \in ToSet(uses) : c.name \in Manifest
    BY ClassShareIsAShare
  <2> HIDE DEF w, x, r, d, o
  <2>4. /\ Times(w, x) \in Shares /\ Times(w, x)[1] <= Times(w, x)[2]
        /\ Times(w, x)[1] >= Times(w, x)[2] => w[1] = w[2] /\ x[1] = x[2]
    BY <2>2, <2>3, TimesIsAShare, TimesOfParts
  <2>5. /\ Times(d, o) \in Shares /\ Times(d, o)[1] <= Times(d, o)[2]
        /\ Times(d, o)[1] >= Times(d, o)[2] => o[1] = o[2]
    BY <2>2, TimesIsAShare, TimesOfParts
  <2> DEFINE do == Times(d, o)
             wx == Times(w, x)
  <2>6. /\ Times(r, do) \in Shares /\ Times(r, do)[1] <= Times(r, do)[2]
        /\ Times(r, do)[1] >= Times(r, do)[2] => r[1] = r[2] /\ do[1] = do[2]
    BY <2>2, <2>5, TimesIsAShare, TimesOfParts
  <2>7. /\ TaintConfidence \in Shares /\ TaintConfidence[1] <= TaintConfidence[2]
        /\ TaintConfidence[1] >= TaintConfidence[2] =>
             wx[1] = wx[2] /\ Times(r, do)[1] = Times(r, do)[2]
    BY <2>1, <2>4, <2>6, TimesIsAShare, TimesOfParts
  <2>8. wx[1] \in Nat /\ do[1] \in Nat /\ Times(r, do)[1] \in Nat
    BY <2>4, <2>5, <2>6 DEF Shares
  <2>9. QED BY <2>2, <2>3, <2>4, <2>5, <2>6, <2>7, <2>8
<1>3. QED BY <1>1, <1>2

-----------------------------------------------------------------------------
(* An answer is about a call only if it names the call's span or its tool. *)
LEMMA BoundByName ==
  ASSUME TaintInv, NEW r, NEW i \in DOMAIN uses, BoundTo(r) = i
  PROVE  r.span = uses[i].span \/ r.name = uses[i].name
<1>1. DOMAIN uses = 1 .. Len(uses) /\ Len(uses) \in Nat BY TaintSets
<1>2. WithSpan(r) \subseteq 1 .. Len(uses) /\ WithName(r) \subseteq 1 .. Len(uses)
  BY <1>1 DEF WithSpan, WithName
<1>3. CASE WithSpan(r) # {}
  <2>1. \E m \in WithSpan(r) : \A j \in WithSpan(r) : j <= m
    BY <1>1, <1>2, <1>3, GreatestNumber
  <2>2. BoundTo(r) \in WithSpan(r) BY <1>3, <2>1 DEF BoundTo
  <2>3. QED BY <2>2 DEF WithSpan
<1>4. CASE WithSpan(r) = {} /\ WithName(r) # {}
  <2>1. WithName(r) \subseteq Nat BY <1>2
  <2>2. \E m \in WithName(r) : \A j \in WithName(r) : m <= j BY <1>4, <2>1, LeastNumber
  <2>3. BoundTo(r) \in WithName(r) BY <1>4, <2>2 DEF BoundTo
  <2>4. QED BY <2>3 DEF WithName
<1>5. CASE WithSpan(r) = {} /\ WithName(r) = {}
  <2>1. BoundTo(r) = 0 BY <1>5 DEF BoundTo
  <2>2. QED BY <1>1, <2>1
<1>6. QED BY <1>3, <1>4, <1>5

LEMMA AnswersCoverOnce ==
  ASSUME TaintInv
  PROVE  AnAnswerCoversOneCall
<1> DEFINE about == ScannerAnswers \ UnboundAnswers
           bound == [a \in about |-> BoundTo(records[a])]
           calls == {bound[a] : a \in about}
<1>1. /\ IsFiniteSet(ScannerAnswers) /\ UnboundAnswers \in SUBSET ScannerAnswers
      /\ DOMAIN uses = 1 .. Len(uses) /\ Scannable \subseteq DOMAIN uses
  BY TaintSets
<1>2. /\ IsFiniteSet(about)
      /\ Cardinality(about)
             = Cardinality(ScannerAnswers) - Cardinality(ScannerAnswers \cap UnboundAnswers)
  BY <1>1, FS_Difference
<1>3. Cardinality(about) = Cardinality(ScannerAnswers) - Cardinality(UnboundAnswers)
  <2>1. ScannerAnswers \cap UnboundAnswers = UnboundAnswers BY <1>1
  <2> HIDE DEF about
  <2>2. QED BY <1>2, <2>1
<1>4. Scanned \subseteq calls
  <2> SUFFICES ASSUME NEW i \in Scanned PROVE i \in calls OBVIOUS
  <2>1. PICK a \in ScannerAnswers : BoundTo(records[a]) = i BY DEF Scanned
  <2>2. i # 0 BY <1>1 DEF Scanned
  <2>3. a \in about BY <2>1, <2>2 DEF UnboundAnswers
  <2>4. bound[a] = i BY <2>1, <2>3
  <2>5. QED BY <2>3, <2>4
<1>5. IsFiniteSet(calls) /\ Cardinality(calls) <= Cardinality(about)
  <2>1. DOMAIN bound = about OBVIOUS
  <2> HIDE DEF bound, about
  <2>2. QED BY <1>2, <2>1, ImageIsFinite
<1> HIDE DEF calls, about
<1>6. Cardinality(Scanned) <= Cardinality(calls) /\ IsFiniteSet(Scanned) BY <1>4, <1>5, FS_Subset
<1>7. IsFiniteSet(UnboundAnswers) BY <1>1, FS_Subset
<1>8. /\ Cardinality(Scanned) \in Nat /\ Cardinality(calls) \in Nat /\ Cardinality(about) \in Nat
      /\ Cardinality(UnboundAnswers) \in Nat /\ Cardinality(ScannerAnswers) \in Nat
  BY <1>1, <1>2, <1>5, <1>6, <1>7, FS_CardinalityType
<1>9. QED BY <1>3, <1>5, <1>6, <1>8 DEF AnAnswerCoversOneCall

LEMMA MarksAreAnswers ==
  ASSUME NEW i \in Markers
  PROVE  i \in ScannerAnswers /\ {records[i].claim, records[i].list} \cap {"true", "markers"} # {}
BY DEF Markers, Marked, ScannerAnswers, ScannerReported

LEMMA FindingsAreReadable == FoundOnAReadableClaim
<1> SUFFICES ASSUME Tainted
             PROVE  /\ ~NoAnswer
                    /\ \E i \in DOMAIN records :
                         {records[i].claim, records[i].list} \cap {"true", "markers"} # {}
  BY DEF FoundOnAReadableClaim
<1>1. PICK i \in UsesThatCount : Against(MarkedMoments, uses[i].at) = "after"
  BY DEF Tainted, Candidates, MarkStanding
<1>2. MarkedMoments # {} BY <1>1 DEF Against
<1>3. PICK k \in Markers : TRUE BY <1>2 DEF MarkedMoments
<1>4. k \in DOMAIN records BY DEF Markers
<1>5. QED BY <1>4, MarksAreAnswers DEF NoAnswer

LEMMA OnlyCleanIsContradicted == OnlyACleanAnswerIsContradicted
<1> SUFFICES ASSUME NEW i \in DisputedUses
             PROVE  /\ \E a \in ScannerAnswers : BoundTo(records[a]) = i
                    /\ \A a \in ScannerAnswers :
                         BoundTo(records[a]) = i =>
                           records[a].claim # "true" /\ records[a].list # "markers"
  BY DEF OnlyACleanAnswerIsContradicted
<1>1. i \in Scanned /\ i \in Scannable /\ i \notin SaidMarked BY DEF DisputedUses, Scanned
<1>2. \E a \in ScannerAnswers : BoundTo(records[a]) = i BY <1>1 DEF Scanned
<1>3. ASSUME NEW a \in ScannerAnswers, BoundTo(records[a]) = i, Marked(records[a]) PROVE FALSE
  <2>1. a \in Markers BY <1>3 DEF Markers, ScannerAnswers
  <2>2. QED BY <1>1, <1>3, <2>1 DEF SaidMarked
<1>4. QED BY <1>2, <1>3 DEF Marked

LEMMA StandingOfAUse ==
  ASSUME NEW i
  PROVE  MarkStanding(i) \in {"after", "indeterminate", "not_after"}
BY DEF MarkStanding, Against

LEMMA FullMeansWatched ==
  ASSUME TaintInv
  PROVE  FullyEvaluatedMeansWatched
<1> SUFFICES ASSUME ~NoAnswer, AtMostShare(Whole, TaintConfidence)
             PROVE  /\ \A i \in Scannable :
                         /\ uses[i].result
                         /\ \E k \in DOMAIN records :
                              /\ \/ records[k].claim \in {"true", "false"}
                                 \/ records[k].list \in {"empty", "markers"}
                              /\ \/ records[k].span = uses[i].span
                                 \/ records[k].name = uses[i].name
                    /\ \A i \in UsesThatCount :
                         i \in Candidates \/ \A m \in MarkedMoments : Order(uses[i].at, m) # "after"
                    /\ \A i \in DOMAIN uses : uses[i].name \in Manifest
  BY DEF FullyEvaluatedMeansWatched
<1>1. TaintConfidence[1] \in Nat /\ TaintConfidence[2] \in Nat
  BY TaintConfidenceIsAShare DEF Shares
<1>2. TaintConfidence[1] >= TaintConfidence[2] BY <1>1 DEF AtMostShare, Whole
<1>3. /\ Scanned = Scannable /\ WithResult = Scannable /\ Unordered = {}
      /\ \A c \in ToSet(uses) : c.name \in Manifest
  BY <1>2, TaintConfidenceIsAShare
<1>4. ASSUME NEW i \in Scannable
      PROVE  /\ uses[i].result
             /\ \E k \in DOMAIN records :
                  /\ \/ records[k].claim \in {"true", "false"}
                     \/ records[k].list \in {"empty", "markers"}
                  /\ records[k].span = uses[i].span \/ records[k].name = uses[i].name
  <2>1. i \in WithResult BY <1>3
  <2>2. uses[i].result BY <2>1 DEF WithResult
  <2>3. i \in Scanned BY <1>3
  <2>4. PICK a \in ScannerAnswers : BoundTo(records[a]) = i BY <2>3 DEF Scanned
  <2>5. i \in DOMAIN uses BY TaintSets
  <2>6. records[a].span = uses[i].span \/ records[a].name = uses[i].name
    BY <2>4, <2>5, BoundByName
  <2>7. a \in DOMAIN records /\ ScannerReported(records[a]) BY DEF ScannerAnswers
  <2>8. QED BY <2>2, <2>6, <2>7 DEF ScannerReported
<1>5. ASSUME NEW i \in UsesThatCount, i \notin Candidates,
             NEW m \in MarkedMoments, Order(uses[i].at, m) = "after"
      PROVE  FALSE
  <2>1. MarkStanding(i) = "after" BY <1>5 DEF MarkStanding, Against
  <2>2. QED BY <1>5, <2>1 DEF Candidates
<1>6. \A i \in DOMAIN uses : uses[i].name \in Manifest BY <1>3 DEF ToSet
<1>7. QED BY <1>4, <1>5, <1>6

-----------------------------------------------------------------------------
LEMMA ContentLowers ==
  ASSUME TaintInv, TaintInv', [TaintNext]_taintVars
  PROVE  [ContentOnlyLowers]_taintVars
<1> SUFFICES ASSUME TaintNext, NEW n \in DOMAIN records' \ DOMAIN records,
                    records'[n].claim \in {"none", "bad"}, records'[n].list \in {"none", "bad"}
             PROVE  /\ CompletedUses' = CompletedUses /\ AttemptedUses' = AttemptedUses
                    /\ NoAnswer' = NoAnswer
                    /\ AtMostShare(TaintConfidence', TaintConfidence)
  BY DEF ContentOnlyLowers
<1>1. PICK r \in Records : Report(r)
  <2>1. ASSUME NEW c \in Uses, Use(c) PROVE FALSE BY <2>1 DEF Use
  <2>2. QED BY <2>1 DEF TaintNext
<1>2. uses' = uses /\ records' = Append(records, r) BY <1>1 DEF Report
<1>3. /\ DOMAIN records' = DOMAIN records \cup {n}
      /\ \A k \in DOMAIN records : records'[k] = records[k]
  <2>1. records \in Seq(Records) BY DEF TaintInv
  <2>2. QED BY <1>2, <2>1
<1>4. ~Marked(records'[n]) /\ ~ScannerReported(records'[n]) BY DEF Marked, ScannerReported
<1>5. Markers' = Markers BY <1>3, <1>4 DEF Markers, Marked
<1>6. ScannerAnswers' = ScannerAnswers BY <1>3, <1>4 DEF ScannerAnswers, ScannerReported
<1>7. MarkedMoments' = MarkedMoments BY <1>3, <1>5 DEF MarkedMoments, Markers
<1>8. /\ UsesThatCount' = UsesThatCount
      /\ \A i : MarkStanding(i)' = MarkStanding(i)
  BY <1>2, <1>7 DEF UsesThatCount, IsConsequential, MarkStanding
<1>9. /\ Candidates' = Candidates /\ Unordered' = Unordered /\ Scannable' = Scannable
  BY <1>2, <1>8 DEF Candidates, Unordered, Scannable
<1>10. CompletedUses' = CompletedUses /\ AttemptedUses' = AttemptedUses
  <2>1. CompletedUses' = CompletedUses BY <1>2, <1>9 DEF CompletedUses
  <2>2. QED BY <1>9, <2>1 DEF AttemptedUses
<1>11. NoAnswer' = NoAnswer BY <1>6 DEF NoAnswer
<1>12. \A k \in DOMAIN records : BoundTo(records[k])' = BoundTo(records[k])
  <2> SUFFICES ASSUME NEW k \in DOMAIN records
               PROVE  BoundTo(records[k])' = BoundTo(records[k])
    OBVIOUS
  <2>1. records'[k] = records[k] BY <1>3
  <2>2. /\ WithSpan(records[k])' = WithSpan(records[k])
        /\ WithName(records[k])' = WithName(records[k])
    BY <1>2, <2>1 DEF WithSpan, WithName
  <2>3. QED BY <2>2 DEF BoundTo
<1>13. Scanned' = Scanned BY <1>6, <1>9, <1>12 DEF Scanned, ScannerAnswers
<1>14. WithResult' = WithResult BY <1>2, <1>9 DEF WithResult
<1>15. SaidMarked' = SaidMarked BY <1>5, <1>9, <1>12 DEF SaidMarked, Markers
<1>16. Hit \subseteq Hit'
  <2> SUFFICES ASSUME NEW i \in Hit PROVE i \in Hit' OBVIOUS
  <2>1. PICK k \in DOMAIN records : records[k].hits /\ BoundTo(records[k]) = i BY DEF Hit
  <2>2. k \in DOMAIN records' /\ records'[k].hits /\ BoundTo(records[k])' = i
    BY <1>3, <1>12, <2>1
  <2>3. i \in Scannable' BY <1>9 DEF Hit
  <2>4. QED BY <2>2, <2>3 DEF Hit
<1>17. DisputedUses \subseteq DisputedUses' BY <1>13, <1>15, <1>16 DEF DisputedUses
<1>18. /\ ContradictionCharge \in Shares /\ ContradictionCharge' \in Shares
       /\ AtMostShare(ContradictionCharge', ContradictionCharge)
  <2>1. ContradictionCharge \in Shares BY TaintFactors
  <2>3. CASE Scanned = {}
    <3>1. ContradictionCharge' = ContradictionCharge BY <1>13, <2>3 DEF ContradictionCharge
    <3>2. QED BY <2>1, <3>1, AtMostItself
  <2>4. CASE Scanned # {}
    <3> DEFINE S == Scanned
               D == DisputedUses
               E == DisputedUses'
    <3>1. IsFiniteSet(S) /\ D \subseteq E
      BY <1>17, TaintSets, FS_Subset
    <3>2. E \in SUBSET S
      <4>1. DisputedUses' \subseteq Scanned' BY DEF DisputedUses
      <4>2. QED BY <1>13, <4>1
    <3>3. /\ ContradictionCharge = HalfCharged(Share(D, S))
          /\ ContradictionCharge' = HalfCharged(Share(E, S))
      BY <1>13, <2>4 DEF ContradictionCharge
    <3>4. S # {} BY <2>4
    <3> HIDE DEF S, D, E
    <3>5. /\ Share(D, S) \in Shares /\ Share(D, S)[1] <= Share(D, S)[2]
          /\ Share(E, S) \in Shares /\ Share(E, S)[1] <= Share(E, S)[2]
          /\ IsFiniteSet(E)
      BY <3>1, <3>2, ShareOfASet
    <3>6. AtMostShare(Share(D, S), Share(E, S))
      <4>1. /\ Cardinality(D) <= Cardinality(E) /\ Cardinality(S) \in Nat
            /\ Cardinality(D) \in Nat /\ Cardinality(E) \in Nat
        BY <3>1, <3>5, FS_Subset, FS_CardinalityType
      <4>2. Cardinality(D) * Cardinality(S) <= Cardinality(E) * Cardinality(S)
        BY <4>1, ProductBound
      <4>3. QED BY <3>4, <4>2 DEF Share, AtMostShare
    <3>7. QED BY <2>1, <3>3, <3>5, <3>6, HalfOfAShare, HalfOfAShareLowers
  <2>5. QED BY <2>3, <2>4
<1>19. AtMostShare(TaintConfidence', TaintConfidence)
  <2>1. CASE NoAnswer
    <3>1. TaintConfidence' = TaintConfidence BY <1>11, <2>1 DEF TaintConfidence
    <3>2. QED BY <3>1, TaintConfidenceIsAShare, AtMostItself
  <2>2. CASE ~NoAnswer
    <3> DEFINE w == ClassShare(ToSet(uses))
               x == Share(Scanned, Scannable)
               r0 == ResultQuality
               d == ContradictionCharge
               e == ContradictionCharge'
               o == OrderCharge
    <3>1. TaintConfidence = Times(Times(w, x), Times(r0, Times(d, o))) BY <2>2 DEF TaintConfidence
    <3>2. /\ ClassShare(ToSet(uses))' = w /\ Share(Scanned, Scannable)' = x
          /\ ResultQuality' = r0 /\ OrderCharge' = o
      BY <1>2, <1>8, <1>9, <1>13, <1>14 DEF ResultQuality, OrderCharge
    <3>3. TaintConfidence' = Times(Times(w, x), Times(r0, Times(e, o)))
      BY <2>2, <1>11, <3>2 DEF TaintConfidence
    <3>4. /\ x \in Shares /\ r0 \in Shares /\ o \in Shares /\ w \in Shares
          /\ d \in Shares /\ e \in Shares /\ AtMostShare(e, d)
      BY <1>18, TaintFactors, ClassShareIsAShare
    <3> HIDE DEF w, x, r0, d, e, o
    <3>5. /\ Times(w, x) \in Shares /\ Times(d, o) \in Shares /\ Times(e, o) \in Shares
          /\ AtMostShare(Times(e, o), Times(d, o))
      BY <3>4, TimesIsAShare, AtMostItself, TimesIsMonotone
    <3>6. /\ Times(r0, Times(e, o)) \in Shares /\ Times(r0, Times(d, o)) \in Shares
          /\ AtMostShare(Times(r0, Times(e, o)), Times(r0, Times(d, o)))
      BY <3>4, <3>5, TimesIsAShare, AtMostItself, TimesIsMonotone
    <3>7. QED BY <3>1, <3>3, <3>5, <3>6, AtMostItself, TimesIsMonotone
  <2>3. QED BY <2>1, <2>2
<1>20. QED BY <1>10, <1>11, <1>19

(* Of any calls and records, and however many: one scanner answer is about *)
(* one call, a finding stands on a claim that could be read, full          *)
(* confidence means every call that could bring content in was answered    *)
(* for, and what Cohaera's own patterns see only lowers it                 *)
(* (ch03_untrusted_to_consequential, _scanner_coverage; COH-R03, COH-R09,  *)
(* E09).                                                                   *)
THEOREM AnswersAreOfOneCall == TaintSpec => OneAnswerOneCall
<1>1. TaintInit => TaintInv BY DEF TaintInit, TaintInv
<1>2. TaintInv /\ [TaintNext]_taintVars => TaintInv'
  BY DEF TaintInv, TaintNext, Use, Report, taintVars
<1>3. TaintInv => /\ TaintTypeOK /\ FoundOnAReadableClaim /\ AnAnswerCoversOneCall
                  /\ FullyEvaluatedMeansWatched /\ OnlyACleanAnswerIsContradicted
  <2> SUFFICES ASSUME TaintInv
               PROVE  /\ TaintTypeOK /\ FoundOnAReadableClaim /\ AnAnswerCoversOneCall
                      /\ FullyEvaluatedMeansWatched /\ OnlyACleanAnswerIsContradicted
    OBVIOUS
  <2>1. TaintConfidence[1] \in Nat /\ TaintConfidence[2] \in Nat
        /\ TaintConfidence[1] <= TaintConfidence[2]
    BY TaintConfidenceIsAShare DEF Shares
  <2>2. TaintTypeOK BY <2>1 DEF TaintTypeOK, TaintInv, AtMostShare, Whole
  <2>3. QED
    BY <2>2, FindingsAreReadable, AnswersCoverOnce, FullMeansWatched, OnlyCleanIsContradicted
<1>4. TaintInv /\ TaintInv' /\ [TaintNext]_taintVars => [ContentOnlyLowers]_taintVars
  BY ContentLowers
<1>5. QED BY <1>1, <1>2, <1>3, <1>4, PTL DEF TaintSpec, OneAnswerOneCall

-----------------------------------------------------------------------------
(* Guardrails: any policies, firings and calls, and any bounds on them.    *)

(* No firing without a clock is left uncounted, and of every type the      *)
(* first of the earliest is kept.                                          *)
GuardrailInv ==
  /\ GuardrailTypeOK
  /\ NamesTheEarliest
  /\ unusable = 0 => \A i \in DOMAIN fired : Clocked(fired[i].at)

GuardrailHypothesis == MomentsAssumption /\ GuardrailsAssumption

LEMMA FiringFacts ==
  ASSUME GuardrailHypothesis, NEW e \in Firings
  PROVE  /\ e.type \in Types /\ e.at \in Moments /\ e # None
         /\ e.enforcement \in {"advisory", "blocking", "undeclared"}
         /\ Clocked(e.at) => e.at.ts \in Int
BY DEF GuardrailHypothesis, GuardrailsAssumption, MomentsAssumption, Moments, Clocked

LEMMA FireKeepsInv ==
  ASSUME GuardrailHypothesis, GuardrailInv, NEW e \in Firings, Fire(e)
  PROVE  GuardrailInv'
<1> DEFINE n == Len(fired) + 1
<1>1. /\ fired \in Seq(Firings) /\ earliest \in [Types -> Firings \cup {None}] /\ unusable \in Nat
      /\ works \subseteq Works /\ dangling \in BOOLEAN
  BY DEF GuardrailInv, GuardrailTypeOK
<1>2. /\ fired' = Append(fired, e) /\ fired' \in Seq(Firings)
      /\ unusable' = IF Clocked(e.at) THEN unusable ELSE unusable + 1
      /\ earliest' =
           IF Clocked(e.at) /\ Earlier(e) THEN [earliest EXCEPT ![e.type] = e] ELSE earliest
      /\ works' = works /\ dangling' = dangling
  BY <1>1 DEF Fire
<1>3. /\ DOMAIN fired' = DOMAIN fired \cup {n} /\ DOMAIN fired = 1 .. Len(fired) /\ n \in Nat
      /\ fired'[n] = e /\ \A i \in DOMAIN fired : fired'[i] = fired[i] /\ i \in Nat /\ i < n
      /\ n \notin DOMAIN fired
  BY <1>1, <1>2
<1>4. e.type \in Types /\ e # None /\ (Clocked(e.at) => e.at.ts \in Int) BY FiringFacts
<1>5. \A i \in DOMAIN fired : fired[i] \in Firings BY <1>1
<1>6. \A i \in DOMAIN fired :
        fired[i] # None /\ (Clocked(fired[i].at) => fired[i].at.ts \in Int)
  BY <1>5, FiringFacts
<1>7. GuardrailTypeOK' BY <1>1, <1>2, <1>4 DEF GuardrailTypeOK
<1>8. unusable' = 0 => \A i \in DOMAIN fired' : Clocked(fired'[i].at)
  BY <1>1, <1>2, <1>3 DEF GuardrailInv, Clocked
<1> HIDE DEF n
<1> DEFINE Timed(t) == {i \in Of(t) : Clocked(fired[i].at)}
<1>9. ASSUME NEW t \in Types
      PROVE  IF Timed(t)' = {} THEN earliest'[t] = None
             ELSE \E i \in Timed(t)' :
                    /\ earliest'[t] = fired'[i]
                    /\ \A j \in Timed(t)' :
                         IF j < i THEN fired'[i].at.ts < fired'[j].at.ts
                         ELSE fired'[i].at.ts <= fired'[j].at.ts
  <2>1. IF Timed(t) = {} THEN earliest[t] = None
        ELSE \E i \in Timed(t) :
               /\ earliest[t] = fired[i]
               /\ \A j \in Timed(t) : IF j < i THEN fired[i].at.ts < fired[j].at.ts
                                      ELSE fired[i].at.ts <= fired[j].at.ts
    BY DEF GuardrailInv, NamesTheEarliest
  <2>2. Timed(t)' = Timed(t) \cup (IF e.type = t /\ Clocked(e.at) THEN {n} ELSE {})
    BY <1>3 DEF Of, Clocked
  <2>3. Timed(t) \subseteq DOMAIN fired BY DEF Of
  <2>4. \A i \in Timed(t) : fired'[i] = fired[i]
                      /\ i \in Nat /\ i < n /\ fired[i].at.ts \in Int /\ fired[i] # None
    BY <2>3, <1>3, <1>6
  <2> HIDE DEF Timed
  <2>5. CASE e.type = t /\ Clocked(e.at) /\ Earlier(e)
    <3>1. earliest'[t] = e BY <1>1, <1>2, <2>5
    <3>2. ASSUME NEW j \in Timed(t) PROVE e.at.ts < fired[j].at.ts
      <4>1. PICK i \in Timed(t) :
              /\ earliest[t] = fired[i]
              /\ \A k \in Timed(t) : IF k < i THEN fired[i].at.ts < fired[k].at.ts
                                     ELSE fired[i].at.ts <= fired[k].at.ts
        BY <2>1
      <4>2. e.at.ts < fired[i].at.ts BY <4>1, <2>4, <2>5 DEF Earlier
      <4>3. fired[i].at.ts <= fired[j].at.ts BY <4>1, <2>4
      <4>4. QED BY <4>2, <4>3, <2>4, <2>5, <1>4
    <3>3. Timed(t)' = Timed(t) \cup {n} BY <2>2, <2>5
    <3>4. \A j \in Timed(t)' : IF j < n THEN fired'[n].at.ts < fired'[j].at.ts
                               ELSE fired'[n].at.ts <= fired'[j].at.ts
      <4>1. ASSUME NEW j \in Timed(t)
            PROVE  j < n /\ fired'[n].at.ts < fired'[j].at.ts
        BY <3>2, <2>4, <1>3
      <4>2. ~(n < n) /\ fired'[n].at.ts <= fired'[n].at.ts BY <1>3, <1>4, <2>5
      <4>3. QED BY <3>3, <4>1, <4>2
    <3>5. QED BY <3>1, <3>3, <3>4, <1>3
  <2>6. CASE e.type = t /\ Clocked(e.at) /\ ~Earlier(e)
    <3>1. earliest'[t] = earliest[t] /\ earliest[t] # None BY <1>2, <2>6 DEF Earlier
    <3>2. PICK i \in Timed(t) :
            /\ earliest[t] = fired[i]
            /\ \A k \in Timed(t) : IF k < i THEN fired[i].at.ts < fired[k].at.ts
                                   ELSE fired[i].at.ts <= fired[k].at.ts
      BY <2>1, <3>1
    <3>3. fired[i].at.ts <= e.at.ts BY <3>2, <2>4, <2>6, <1>4 DEF Earlier
    <3>4. Timed(t)' = Timed(t) \cup {n} BY <2>2, <2>6
    <3>5. ~(n < i) BY <2>4, <1>3
    <3>6. \A j \in Timed(t)' : IF j < i THEN fired'[i].at.ts < fired'[j].at.ts
                               ELSE fired'[i].at.ts <= fired'[j].at.ts
      BY <3>2, <3>3, <3>4, <3>5, <2>4, <1>3
    <3>7. i \in Timed(t)' /\ earliest'[t] = fired'[i] BY <3>1, <3>2, <3>4, <2>4
    <3>8. QED BY <3>6, <3>7
  <2>7. CASE ~(e.type = t /\ Clocked(e.at))
    <3>1. Timed(t)' = Timed(t) BY <2>2, <2>7
    <3>2. earliest'[t] = earliest[t] BY <1>1, <1>2, <1>4, <2>7
    <3>3. QED BY <2>1, <2>4, <3>1, <3>2
  <2>8. QED BY <2>5, <2>6, <2>7
<1>10. NamesTheEarliest' BY <1>9 DEF NamesTheEarliest
<1>11. QED BY <1>7, <1>8, <1>10 DEF GuardrailInv

LEMMA GuardrailKeepsInv ==
  ASSUME GuardrailHypothesis, GuardrailInv, [GuardrailNext]_guardrailVars
  PROVE  GuardrailInv'
<1>1. CASE \E e \in Firings : Fire(e) BY <1>1, FireKeepsInv
<1>2. ASSUME fired' = fired, earliest' = earliest, unusable' = unusable
      PROVE  NamesTheEarliest' /\ (unusable' = 0 => \A i \in DOMAIN fired' : Clocked(fired'[i].at))
  BY <1>2 DEF GuardrailInv, NamesTheEarliest, Of, Clocked
<1>3. CASE \E c \in Works : Work(c)
  <2>1. GuardrailTypeOK' BY <1>3 DEF Work, GuardrailInv, GuardrailTypeOK
  <2>2. QED BY <1>2, <1>3, <2>1 DEF Work, GuardrailInv
<1>4. CASE Dangle
  <2>1. GuardrailTypeOK' BY <1>4 DEF Dangle, GuardrailInv, GuardrailTypeOK
  <2>2. QED BY <1>2, <1>4, <2>1 DEF Dangle, GuardrailInv
<1>5. CASE UNCHANGED guardrailVars
  <2>1. GuardrailTypeOK' BY <1>5 DEF guardrailVars, GuardrailInv, GuardrailTypeOK
  <2>2. QED BY <1>2, <1>5, <2>1 DEF guardrailVars, GuardrailInv
<1>6. QED BY <1>1, <1>3, <1>4, <1>5 DEF GuardrailNext

(* What a finding of a type names is one of its firings.                   *)
LEMMA NamedIsAFiring ==
  ASSUME GuardrailInv, NEW t \in FiredTypes
  PROVE  \E i \in Of(t) : Named(t) = fired[i]
<1>1. CASE earliest[t] # None
  BY <1>1 DEF GuardrailInv, NamesTheEarliest, FiredTypes, Named
<1>2. CASE earliest[t] = None /\ Least(t) # {}
  BY <1>2 DEF Named, Least, Sequenced
<1>3. CASE earliest[t] = None /\ Least(t) = {}
  <2>1. Of(t) \subseteq Nat /\ Of(t) # {}
    BY DEF Of, FiredTypes, GuardrailInv, GuardrailTypeOK
  <2>2. \E i \in Of(t) : \A j \in Of(t) : i <= j BY <2>1, LeastNumber
  <2>3. Named(t) = fired[CHOOSE i \in Of(t) : \A j \in Of(t) : i <= j] BY <1>3 DEF Named
  <2>4. QED BY <2>2, <2>3
<1>4. QED BY <1>1, <1>2, <1>3

LEMMA StandingOfACall ==
  ASSUME NEW t, NEW c
  PROVE  Standing(t, c) \in Orders
BY DEF Standing, Against, Orders

LEMMA RefusedIsNamed ==
  ASSUME GuardrailInv, NEW t, NEW c \in Denied(works), c.executed, Standing(t, c) = "after"
  PROVE  c \in Found(t).bypassed
<1>1. c \in Completed(t) /\ c.approval = "denied" BY DEF Denied, Completed, Cand
<1>2. c \in Overrun(t) /\ c \in Denied(Overrun(t)) BY <1>1 DEF Overrun, Denied
<1>3. IsBypass(t) BY <1>2 DEF IsBypass
<1>4. QED BY <1>2, <1>3 DEF Found

LEMMA TiesAreCharged ==
  ASSUME GuardrailInv
  PROVE  TiesCharged
<1> SUFFICES ASSUME unusable = 0, NEW t \in FiredTypes, NEW c \in works,
                    Standing(t, c) = "indeterminate"
             PROVE  c \in UnorderedAfterPolicy
  BY DEF TiesCharged
<1>1. PICK ref \in PolicyRef(t) : Order(c.at, ref) = "indeterminate"
  BY DEF Standing, Against, Unsettled
<1>2. PICK i \in DOMAIN fired : ref = fired[i].at BY <1>1 DEF PolicyRef, FiringsOf, Of
<1>3. Clocked(fired[i].at) BY DEF GuardrailInv
<1>4. QED BY <1>1, <1>2, <1>3 DEF UnorderedAfterPolicy

(* A call after a control is reported unless it is approved or the control *)
(* is advisory.                                                            *)
LEMMA HeardUnlessAdvisory ==
  ASSUME NEW t, NEW c \in Cand(t), c.executed \in BOOLEAN, c.approval # "approved"
  PROVE  \/ c \in Reported(t)
         \/ Advisory(t) /\ ~(c.executed /\ c.approval = "denied")
<1>1. CASE c.executed
  <2>1. c \in Completed(t) BY <1>1 DEF Completed
  <2>2. c \in Overrun(t) \/ (Advisory(t) /\ c.approval # "denied")
    BY <2>1 DEF Overrun, Denied
  <2>3. c \in Overrun(t) => c \in Reported(t) BY DEF Reported, Found
  <2>4. QED BY <2>2, <2>3
<1>2. CASE ~c.executed BY <1>2 DEF Attempted, Reported, Found
<1>3. QED BY <1>1, <1>2

LEMMA WorksAreBoolean ==
  ASSUME GuardrailHypothesis, GuardrailInv, NEW c \in works
  PROVE  c.executed \in BOOLEAN
BY DEF GuardrailHypothesis, GuardrailsAssumption, GuardrailInv, GuardrailTypeOK

LEMMA ContinuationsCount ==
  ASSUME GuardrailHypothesis, GuardrailInv
  PROVE  ContinuationAccounted
<1> SUFFICES ASSUME NEW t \in FiredTypes, NEW c \in Cand(t), c.approval # "approved",
                    c \notin Reported(t)
             PROVE  /\ Declaration(Named(t)) = "advisory" \/
                         (Declaration(Named(t)) = None /\ Named(t).enforcement = "advisory")
                    /\ ~(c.executed /\ c.approval = "denied")
  BY DEF ContinuationAccounted
<1>1. c \in works BY DEF Cand
<1>2. Advisory(t) /\ ~(c.executed /\ c.approval = "denied")
  BY <1>1, WorksAreBoolean, HeardUnlessAdvisory
<1>3. QED BY <1>2 DEF Advisory, Enforcement

LEMMA FullMeansHeard ==
  ASSUME GuardrailHypothesis, GuardrailInv
  PROVE  FullyEvaluatedMeansHeard
<1> SUFFICES ASSUME GuardrailStatus = "evaluated", NEW t \in FiredTypes, NEW c \in works,
                    c.approval = "none", Standing(t, c) # "not_after", c \notin Reported(t)
             PROVE  Declaration(Named(t)) = "advisory"
  BY DEF FullyEvaluatedMeansHeard
<1>1. PICK i \in Of(t) : Named(t) = fired[i] BY NamedIsAFiring
<1>2. i \in DOMAIN fired /\ fired \in Seq(Firings) /\ fired # <<>>
  BY DEF Of, GuardrailInv, GuardrailTypeOK
<1>3. Charges = {} BY <1>2 DEF GuardrailStatus
<1>4. Clockless = {} /\ Semantics = {} /\ Unplaced = {} BY <1>2, <1>3 DEF Charges
<1>5. unusable = 0 BY <1>4 DEF Clockless, GuardrailInv, GuardrailTypeOK
<1>6. UnorderedAfterPolicy = {} BY <1>4 DEF Unplaced
<1>7. Standing(t, c) = "after"
  BY <1>5, <1>6, TiesAreCharged, StandingOfACall DEF TiesCharged, Orders
<1>8. Advisory(t) BY <1>7, WorksAreBoolean, HeardUnlessAdvisory DEF Cand
<1>9. Source(fired[i]) \notin {"undeclared", "policy_event"}
  BY <1>2, <1>4 DEF Semantics, Sources
<1>10. Declaration(fired[i]) # None BY <1>9 DEF Source
<1>11. QED BY <1>1, <1>8, <1>10 DEF Advisory, Enforcement

LEMMA GuardrailSafety ==
  GuardrailHypothesis => (GuardrailSpec => [](RefusedWorkIsNamed /\ SilenceIsEarned))
<1> SUFFICES ASSUME GuardrailHypothesis
             PROVE  GuardrailSpec => [](RefusedWorkIsNamed /\ SilenceIsEarned)
  OBVIOUS
<1>1. GuardrailInit => GuardrailInv
  <2> SUFFICES ASSUME GuardrailInit PROVE GuardrailInv OBVIOUS
  <2>1. GuardrailTypeOK
    <3>1. fired \in Seq(Firings) /\ unusable \in Nat /\ works \subseteq Works
      BY SMT DEF GuardrailInit
    <3>2. earliest \in [Types -> Firings \cup {None}] BY DEF GuardrailInit
    <3>3. dangling \in BOOLEAN BY Zenon DEF GuardrailInit
    <3>4. QED BY <3>1, <3>2, <3>3 DEF GuardrailTypeOK
  <2>2. DOMAIN fired = {} BY DEF GuardrailInit
  <2>3. \A t \in Types : Of(t) = {} /\ earliest[t] = None BY <2>2 DEF Of, GuardrailInit
  <2>4. NamesTheEarliest BY <2>3 DEF NamesTheEarliest
  <2>5. QED BY <2>1, <2>2, <2>4 DEF GuardrailInv
<1>2. GuardrailInv /\ [GuardrailNext]_guardrailVars => GuardrailInv' BY GuardrailKeepsInv
<1>3. ASSUME GuardrailInv PROVE RefusedWorkIsNamed /\ SilenceIsEarned
  <2>1. RefusedIsBypass BY <1>3, RefusedIsNamed DEF RefusedIsBypass
  <2>2. TiesCharged BY <1>3, TiesAreCharged
  <2>3. ContinuationAccounted BY <1>3, ContinuationsCount
  <2>4. FullyEvaluatedMeansHeard BY <1>3, FullMeansHeard
  <2>5. QED BY <1>3, <2>1, <2>2, <2>3, <2>4 DEF GuardrailInv, RefusedWorkIsNamed, SilenceIsEarned
<1>4. QED BY <1>1, <1>2, <1>3, PTL DEF GuardrailSpec

(* Whatever fires, in whatever order it is listed, CH04 names the first of *)
(* the earliest firings of each type, reports a call that was refused by   *)
(* name as a bypass after every control, and charges what it could not     *)
(* order: for any policies, firings and calls (ch04_guardrail_overrun,     *)
(* unordered_after_policy).                                                *)
THEOREM RefusedWorkIsReported ==
  MomentsAssumption /\ GuardrailsAssumption => (GuardrailSpec => []RefusedWorkIsNamed)
BY GuardrailSafety, PTL DEF GuardrailHypothesis

(* No call after a control is lost, and where CH04 calls itself fully      *)
(* evaluated its silence stands on the operator's word alone: for any      *)
(* policies, firings and calls (coverage, E20, COH-R11).                   *)
THEOREM GuardrailSilenceIsEarned ==
  MomentsAssumption /\ GuardrailsAssumption => (GuardrailSpec => []SilenceIsEarned)
BY GuardrailSafety, PTL DEF GuardrailHypothesis

-----------------------------------------------------------------------------
(* Attestation: any sessions and streams, any bound on the streams and any *)
(* number of records.                                                      *)

AttestationCodes ==
  Inadmissible \cup {"NO_COLLECTOR_KEYS", "UNSIGNED", "STREAM_BUDGET", "STREAM_NOT_CLOSED",
                    "CLOSE_UNVERIFIED", "NO_STREAM_LEDGER", "FRESHNESS_UNVERIFIABLE"}

StreamTypes ==
  /\ DOMAIN streams \subseteq AttestedStreams
  /\ IsFiniteSet(DOMAIN streams) /\ Cardinality(DOMAIN streams) <= MaxStreams
  /\ \A s \in DOMAIN streams :
       /\ streams[s] \in [last : Nat, verifiedTo : {NoSeq} \cup Nat, closed : {NoSeq} \cup Nat,
                          final : BOOLEAN, seen : SUBSET AttestedSessions]
       /\ streams[s].verifiedTo # NoSeq =>
            run.keys /\ streams[s].verifiedTo <= streams[s].last
       /\ streams[s].closed # NoSeq => streams[s].closed <= streams[s].last

SessionTypes ==
  \A k \in AttestedSessions :
    /\ sessions[k] \in [with : Nat, without : Nat, verified : Nat, checked : Nat,
                        codes : SUBSET AttestationCodes,
                        ranges : SUBSET [stream : AttestedStreams, last : Nat,
                                         verifiedTo : {NoSeq} \cup Nat]]
    /\ sessions[k].verified > 0 => run.keys
    /\ sessions[k].checked > 0 => run.bound

(* A position a session had, on a stream that is tracked, is one the       *)
(* stream reached and remembers the session for; past a signed close it    *)
(* cost the session a code.  A stream that is not tracked came too late.   *)
FedFacts ==
  \A k \in AttestedSessions : \A p \in fed[k] :
    IF p[1] \in DOMAIN streams
    THEN /\ p[2] \in Nat /\ p[2] <= streams[p[1]].last
         /\ k \in streams[p[1]].seen
         /\ streams[p[1]].closed # NoSeq /\ p[2] > streams[p[1]].closed
              => "RECORDS_AFTER_CLOSE" \in sessions[k].codes
    ELSE Cardinality(DOMAIN streams) >= MaxStreams

(* The ranges of a session are there from the end on, and its codes hold   *)
(* what closing the run charged it.                                        *)
EndFacts ==
  \A k \in AttestedSessions :
    IF ended THEN /\ sessions[k].ranges = Ranges(k)
                  /\ ClosingCodes(k) \cup RunCodes(k) \subseteq sessions[k].codes
    ELSE sessions[k].ranges = {}

RunTypes ==
  /\ run \in [keys : BOOLEAN, bound : BOOLEAN, ledger : BOOLEAN, closed : BOOLEAN]
  /\ ended \in BOOLEAN
  /\ DOMAIN sessions = AttestedSessions /\ DOMAIN fed = AttestedSessions

AttestationInv == RunTypes /\ StreamTypes /\ SessionTypes /\ FedFacts /\ EndFacts

LEMMA AttestationStarts ==
  ASSUME AttestationAssumption, AttestationInit
  PROVE  AttestationInv
<1>1. RunTypes
  <2>1. ended \in BOOLEAN BY Zenon DEF AttestationInit
  <2>2. QED BY <2>1, SMT DEF AttestationInit, RunTypes
<1>2. DOMAIN streams = {} BY DEF AttestationInit
<1>3. StreamTypes BY <1>2, FS_EmptySet DEF StreamTypes, AttestationAssumption
<1>4. SessionTypes BY DEF SessionTypes, AttestationInit, NewSession
<1>5. FedFacts BY DEF FedFacts, AttestationInit
<1>6. EndFacts BY DEF EndFacts, AttestationInit, NewSession
<1>7. QED BY <1>1, <1>3, <1>4, <1>5, <1>6 DEF AttestationInv

-----------------------------------------------------------------------------
LEMMA UntrackedKeepsInv ==
  ASSUME AttestationAssumption, AttestationInv, ~ended,
         NEW k \in AttestedSessions, NEW s \in AttestedStreams, ObserveUntracked(k, s)
  PROVE  AttestationInv'
<1>1. /\ s \notin DOMAIN streams /\ Cardinality(DOMAIN streams) >= MaxStreams
      /\ run' = run /\ streams' = streams /\ ended' = ended
  BY DEF ObserveUntracked
<1>2. /\ DOMAIN sessions = AttestedSessions /\ DOMAIN fed = AttestedSessions
      /\ SessionTypes
  BY DEF AttestationInv, RunTypes
<1>3. /\ sessions' = [sessions EXCEPT ![k].with = @ + 1, ![k].codes = @ \cup {"STREAM_BUDGET"}]
      /\ fed' = [fed EXCEPT ![k] = @ \cup {<<s, Cardinality({p \in @ : p[1] = s})>>}]
  BY DEF ObserveUntracked
<1>4. RunTypes' BY <1>1, <1>2, <1>3 DEF AttestationInv, RunTypes
<1>5. StreamTypes' BY <1>1 DEF AttestationInv, StreamTypes
<1>6. SessionTypes'
  <2> SUFFICES ASSUME NEW j \in AttestedSessions
               PROVE  /\ sessions'[j] \in
                            [with : Nat, without : Nat, verified : Nat, checked : Nat,
                             codes : SUBSET AttestationCodes,
                             ranges : SUBSET [stream : AttestedStreams, last : Nat,
                                              verifiedTo : {NoSeq} \cup Nat]]
                      /\ sessions'[j].verified > 0 => run.keys
                      /\ sessions'[j].checked > 0 => run.bound
    BY <1>1 DEF SessionTypes
  <2> DEFINE old == sessions[j]
             codes == old.codes \cup {"STREAM_BUDGET"}
  <2>1. /\ old \in [with : Nat, without : Nat, verified : Nat, checked : Nat,
                    codes : SUBSET AttestationCodes,
                    ranges : SUBSET [stream : AttestedStreams, last : Nat,
                                     verifiedTo : {NoSeq} \cup Nat]]
        /\ old.verified > 0 => run.keys
        /\ old.checked > 0 => run.bound
    BY <1>2 DEF SessionTypes
  <2>2. sessions'[j] = IF j = k THEN [old EXCEPT !.with = @ + 1, !.codes = codes] ELSE old
    BY <1>2, <1>3
  <2>3. codes \in SUBSET AttestationCodes
    <3>1. old.codes \in SUBSET AttestationCodes BY <2>1
    <3>2. "STREAM_BUDGET" \in AttestationCodes BY DEF AttestationCodes
    <3>3. QED BY <3>1, <3>2
  <2> HIDE DEF old, codes
  <2>4. CASE j = k
    <3>1. sessions'[j] = [old EXCEPT !.with = @ + 1, !.codes = codes] BY <2>2, <2>4
    <3>2. /\ sessions'[j].verified = old.verified /\ sessions'[j].checked = old.checked
          /\ sessions'[j].with = old.with + 1 /\ sessions'[j].without = old.without
          /\ sessions'[j].codes = codes /\ sessions'[j].ranges = old.ranges
          /\ sessions'[j] = [with |-> old.with + 1, without |-> old.without,
                             verified |-> old.verified, checked |-> old.checked,
                             codes |-> codes, ranges |-> old.ranges]
      BY <2>1, <3>1
    <3>3. QED BY <2>1, <2>3, <3>2
  <2>5. CASE j # k BY <2>1, <2>2, <2>5
  <2>6. QED BY <2>4, <2>5
<1>7. \A j \in AttestedSessions : sessions[j].codes \subseteq sessions'[j].codes
      /\ sessions'[j].ranges = sessions[j].ranges
  BY <1>2, <1>3 DEF SessionTypes
<1>8. FedFacts'
  <2> SUFFICES ASSUME NEW j \in AttestedSessions, NEW p \in fed'[j]
               PROVE  IF p[1] \in DOMAIN streams
                      THEN /\ p[2] \in Nat /\ p[2] <= streams[p[1]].last
                           /\ j \in streams[p[1]].seen
                           /\ streams[p[1]].closed # NoSeq /\ p[2] > streams[p[1]].closed
                                => "RECORDS_AFTER_CLOSE" \in sessions'[j].codes
                      ELSE Cardinality(DOMAIN streams) >= MaxStreams
    BY <1>1 DEF FedFacts
  <2>1. p \in fed[j] \/ p[1] = s BY <1>2, <1>3
  <2>2. QED BY <2>1, <1>1, <1>7 DEF AttestationInv, FedFacts
<1>9. EndFacts' BY <1>1, <1>7 DEF AttestationInv, EndFacts
<1>10. QED BY <1>4, <1>5, <1>6, <1>8, <1>9 DEF AttestationInv

LEMMA BareKeepsInv ==
  ASSUME AttestationAssumption, AttestationInv, ~ended,
         NEW k \in AttestedSessions, ObserveBare(k)
  PROVE  AttestationInv'
<1>1. /\ run' = run /\ streams' = streams /\ ended' = ended /\ fed' = fed
      /\ sessions' = [sessions EXCEPT ![k].without = @ + 1]
  BY DEF ObserveBare
<1>2. DOMAIN sessions = AttestedSessions /\ SessionTypes BY DEF AttestationInv, RunTypes
<1>3. RunTypes' BY <1>1, <1>2 DEF AttestationInv, RunTypes
<1>4. StreamTypes' BY <1>1 DEF AttestationInv, StreamTypes
<1>5. SessionTypes' BY <1>1, <1>2 DEF SessionTypes
<1>6. \A j \in AttestedSessions :
        sessions'[j].codes = sessions[j].codes /\ sessions'[j].ranges = sessions[j].ranges
  BY <1>1, <1>2 DEF SessionTypes
<1>7. FedFacts' BY <1>1, <1>6 DEF AttestationInv, FedFacts
<1>8. EndFacts' BY <1>1, <1>6 DEF AttestationInv, EndFacts
<1>9. QED BY <1>3, <1>4, <1>5, <1>7, <1>8 DEF AttestationInv

LEMMA CodesAreNames ==
  ASSUME NEW mark, NEW after
  PROVE  CodesOf(mark, after) \in SUBSET AttestationCodes
BY DEF CodesOf, AttestationCodes, Inadmissible

(* What a record makes of its stream.                                      *)
Receives(st, k, mark, final) ==
  LET seq == st.last + 1
  IN Signed([st EXCEPT !.last = seq, !.final = @ \/ final, !.seen = @ \cup {k}],
            seq, mark, final)

LEMMA SignedStream ==
  ASSUME AttestationAssumption, AttestationInv, NEW k \in AttestedSessions,
         NEW st \in [last : Nat \cup {-1}, verifiedTo : {NoSeq} \cup Nat, closed : {NoSeq} \cup Nat,
                     final : BOOLEAN, seen : SUBSET AttestedSessions],
         st.verifiedTo # NoSeq => run.keys /\ st.verifiedTo <= st.last,
         st.closed # NoSeq => st.closed <= st.last,
         NEW mark, NEW final \in BOOLEAN, NEW new, new = Receives(st, k, mark, final)
  PROVE  /\ new \in [last : Nat, verifiedTo : {NoSeq} \cup Nat, closed : {NoSeq} \cup Nat,
                     final : BOOLEAN, seen : SUBSET AttestedSessions]
         /\ new.last = st.last + 1 /\ new.seen = st.seen \cup {k}
         /\ new.verifiedTo # NoSeq => run.keys /\ new.verifiedTo <= new.last
         /\ new.closed = st.closed \/ (st.closed = NoSeq /\ new.closed = new.last)
<1> DEFINE seq == st.last + 1
           mid == [st EXCEPT !.last = seq, !.final = @ \/ final, !.seen = @ \cup {k}]
<1>0. new = Signed(mid, seq, mark, final) BY DEF Receives
<1>1. NoSeq \notin Int /\ seq \in Nat BY DEF AttestationAssumption
<1>2. (st.final \/ final) \in BOOLEAN OBVIOUS
<1>3. /\ mid \in [last : Nat, verifiedTo : {NoSeq} \cup Nat, closed : {NoSeq} \cup Nat,
                  final : BOOLEAN, seen : SUBSET AttestedSessions]
      /\ mid.last = seq /\ mid.seen = st.seen \cup {k}
      /\ mid.verifiedTo = st.verifiedTo /\ mid.closed = st.closed
  BY <1>1, <1>2
<1> HIDE DEF mid
<1>4. /\ new \in [last : Nat, verifiedTo : {NoSeq} \cup Nat, closed : {NoSeq} \cup Nat,
                  final : BOOLEAN, seen : SUBSET AttestedSessions]
      /\ new.last = seq /\ new.seen = st.seen \cup {k}
      /\ new.verifiedTo # NoSeq => run.keys /\ new.verifiedTo <= new.last
      /\ new.closed = st.closed \/ (st.closed = NoSeq /\ new.closed = seq)
  <2>1. CASE run.keys /\ Verifies(mark)
    <3> DEFINE end == IF final /\ mid.closed = NoSeq THEN seq ELSE mid.closed
    <3>1. new = [mid EXCEPT !.verifiedTo = seq, !.closed = end] BY <1>0, <2>1 DEF Signed
    <3>2. end \in {NoSeq} \cup Nat /\ (end = st.closed \/ (st.closed = NoSeq /\ end = seq))
      BY <1>1, <1>3
    <3> HIDE DEF end
    <3>3. /\ new.last = mid.last /\ new.seen = mid.seen /\ new.verifiedTo = seq
          /\ new.closed = end
          /\ new \in [last : Nat, verifiedTo : {NoSeq} \cup Nat, closed : {NoSeq} \cup Nat,
                      final : BOOLEAN, seen : SUBSET AttestedSessions]
      BY <1>1, <1>3, <3>1, <3>2
    <3>4. QED BY <1>1, <1>3, <2>1, <3>2, <3>3
  <2>2. CASE ~(run.keys /\ Verifies(mark))
    <3>1. new = mid BY <1>0, <2>2 DEF Signed
    <3>2. mid.verifiedTo # NoSeq => mid.verifiedTo <= seq
      BY <1>1, <1>3
    <3>3. QED BY <3>1, <3>2, <1>1, <1>3
  <2>3. QED BY <2>1, <2>2
<1>5. QED BY <1>4

LEMMA ObserveKeepsInv ==
  ASSUME AttestationAssumption, AttestationInv, ~ended,
         NEW k \in AttestedSessions, NEW s \in AttestedStreams,
         NEW mark \in Marks, NEW final \in BOOLEAN, Observe(k, s, mark, final)
  PROVE  AttestationInv'
<1> DEFINE st  == IF s \in DOMAIN streams THEN streams[s] ELSE NewStream
           seq == st.last + 1
           new == Receives(st, k, mark, final)
           verified == run.keys /\ Verifies(mark)
<1>1. NoSeq \notin Int /\ MaxStreams \in Nat BY DEF AttestationAssumption
<1>2. /\ RunTypes /\ StreamTypes /\ SessionTypes
      /\ DOMAIN sessions = AttestedSessions /\ DOMAIN fed = AttestedSessions
  BY DEF AttestationInv, RunTypes
<1>3. /\ s \in DOMAIN streams \/ Cardinality(DOMAIN streams) < MaxStreams
      /\ streams' = [t \in DOMAIN streams \cup {s} |-> IF t = s THEN new ELSE streams[t]]
      /\ sessions' =
           [sessions EXCEPT
             ![k].with = @ + 1,
             ![k].verified = IF run.keys /\ mark # "unsigned" THEN @ + 1 ELSE @,
             ![k].checked = IF verified /\ run.bound /\ mark # "undated" THEN @ + 1 ELSE @,
             ![k].codes = @ \cup CodesOf(mark, st.closed # NoSeq)]
      /\ fed' = [fed EXCEPT ![k] = @ \cup {<<s, seq>>}]
      /\ run' = run /\ ended' = ended
  BY DEF Observe, Receives
<1>4. /\ st \in [last : Nat \cup {-1}, verifiedTo : {NoSeq} \cup Nat, closed : {NoSeq} \cup Nat,
                 final : BOOLEAN, seen : SUBSET AttestedSessions]
      /\ st.verifiedTo # NoSeq => run.keys /\ st.verifiedTo <= st.last
      /\ st.closed # NoSeq => st.closed <= st.last
  <2>1. CASE s \in DOMAIN streams
    <3>1. /\ st \in [last : Nat, verifiedTo : {NoSeq} \cup Nat, closed : {NoSeq} \cup Nat,
                 final : BOOLEAN, seen : SUBSET AttestedSessions]
          /\ st.verifiedTo # NoSeq => run.keys /\ st.verifiedTo <= st.last
          /\ st.closed # NoSeq => st.closed <= st.last
      BY <1>2, <2>1 DEF StreamTypes
    <3> HIDE DEF st
    <3>2. QED BY <3>1
  <2>2. CASE s \notin DOMAIN streams
    <3>1. st = NewStream BY <2>2
    <3> HIDE DEF st
    <3>2. QED BY <3>1 DEF NewStream
  <2>3. QED BY <2>1, <2>2
<1> HIDE DEF st
<1>5. /\ new \in [last : Nat, verifiedTo : {NoSeq} \cup Nat, closed : {NoSeq} \cup Nat,
                  final : BOOLEAN, seen : SUBSET AttestedSessions]
      /\ new.last = seq /\ new.seen = st.seen \cup {k}
      /\ new.verifiedTo # NoSeq => run.keys /\ new.verifiedTo <= new.last
      /\ new.closed = st.closed \/ (st.closed = NoSeq /\ new.closed = seq)
  <2>1. /\ new \in [last : Nat, verifiedTo : {NoSeq} \cup Nat, closed : {NoSeq} \cup Nat,
                    final : BOOLEAN, seen : SUBSET AttestedSessions]
        /\ new.last = st.last + 1 /\ new.seen = st.seen \cup {k}
        /\ new.verifiedTo # NoSeq => run.keys /\ new.verifiedTo <= new.last
        /\ new.closed = st.closed \/ (st.closed = NoSeq /\ new.closed = new.last)
    <3> HIDE DEF seq, verified
    <3>1. new = Receives(st, k, mark, final) OBVIOUS
    <3> HIDE DEF new
    <3>2. QED BY <1>4, <3>1, SignedStream
  <2> HIDE DEF new
  <2>2. QED BY <2>1
<1>6. seq \in Nat /\ st.last \in Int /\ st.last < seq BY <1>4
<1> HIDE DEF new
<1>7. /\ DOMAIN streams' = DOMAIN streams \cup {s} /\ streams'[s] = new
      /\ \A t \in DOMAIN streams : t # s => streams'[t] = streams[t]
  BY <1>3
<1>8. /\ IsFiniteSet(DOMAIN streams') /\ Cardinality(DOMAIN streams') <= MaxStreams
      /\ Cardinality(DOMAIN streams') >= Cardinality(DOMAIN streams)
      /\ s \in DOMAIN streams => DOMAIN streams' = DOMAIN streams
  <2>1. IsFiniteSet(DOMAIN streams) /\ Cardinality(DOMAIN streams) <= MaxStreams
    BY <1>2 DEF StreamTypes
  <2>2. Cardinality(DOMAIN streams) \in Nat BY <2>1, FS_CardinalityType
  <2>3. /\ IsFiniteSet(DOMAIN streams \cup {s})
        /\ Cardinality(DOMAIN streams \cup {s}) =
             IF s \in DOMAIN streams THEN Cardinality(DOMAIN streams)
             ELSE Cardinality(DOMAIN streams) + 1
    BY <2>1, FS_AddElement
  <2>4. s \in DOMAIN streams => DOMAIN streams \cup {s} = DOMAIN streams OBVIOUS
  <2>5. QED BY <1>1, <1>3, <1>7, <2>1, <2>2, <2>3, <2>4
<1>9. RunTypes' BY <1>2, <1>3 DEF RunTypes
<1>10. StreamTypes'
  <2>1. DOMAIN streams' \subseteq AttestedStreams BY <1>2, <1>7 DEF StreamTypes
  <2>2. ASSUME NEW t \in DOMAIN streams'
        PROVE  /\ streams'[t] \in [last : Nat, verifiedTo : {NoSeq} \cup Nat,
                                   closed : {NoSeq} \cup Nat, final : BOOLEAN,
                                   seen : SUBSET AttestedSessions]
               /\ streams'[t].verifiedTo # NoSeq =>
                    run.keys /\ streams'[t].verifiedTo <= streams'[t].last
               /\ streams'[t].closed # NoSeq => streams'[t].closed <= streams'[t].last
    <3>1. CASE t = s
      <4>1. new.closed # NoSeq => new.closed <= new.last BY <1>4, <1>5, <1>6
      <4>2. QED BY <1>5, <1>7, <3>1, <4>1
    <3>2. CASE t # s BY <1>2, <1>7, <3>2 DEF StreamTypes
    <3>3. QED BY <3>1, <3>2
  <2>3. QED BY <1>3, <1>8, <2>1, <2>2 DEF StreamTypes
<1>11. \A j \in AttestedSessions : j # k => sessions'[j] = sessions[j] BY <1>2, <1>3
<1>12. /\ sessions'[k].codes = sessions[k].codes \cup CodesOf(mark, st.closed # NoSeq)
       /\ sessions'[k].ranges = sessions[k].ranges
       /\ sessions'[k].with = sessions[k].with + 1
       /\ sessions'[k].without = sessions[k].without
       /\ sessions'[k].verified = IF run.keys /\ mark # "unsigned" THEN sessions[k].verified + 1
                                  ELSE sessions[k].verified
       /\ sessions'[k].checked = IF verified /\ run.bound /\ mark # "undated"
                                 THEN sessions[k].checked + 1 ELSE sessions[k].checked
       /\ sessions'[k] = [with |-> sessions'[k].with, without |-> sessions'[k].without,
                          verified |-> sessions'[k].verified, checked |-> sessions'[k].checked,
                          codes |-> sessions'[k].codes, ranges |-> sessions'[k].ranges]
  <2> DEFINE old == sessions[k]
  <2>1. old \in [with : Nat, without : Nat, verified : Nat, checked : Nat,
                    codes : SUBSET AttestationCodes,
                 ranges : SUBSET [stream : AttestedStreams, last : Nat,
                                  verifiedTo : {NoSeq} \cup Nat]]
    BY <1>2 DEF SessionTypes
  <2>2. sessions'[k] =
          [old EXCEPT !.with = @ + 1,
                      !.verified = IF run.keys /\ mark # "unsigned" THEN @ + 1 ELSE @,
                      !.checked = IF verified /\ run.bound /\ mark # "undated" THEN @ + 1 ELSE @,
                      !.codes = @ \cup CodesOf(mark, st.closed # NoSeq)]
    BY <1>2, <1>3
  <2> HIDE DEF verified
  <2>3. QED BY <2>1, <2>2
<1>13. SessionTypes'
  <2> SUFFICES ASSUME NEW j \in AttestedSessions
               PROVE  /\ sessions'[j] \in
                            [with : Nat, without : Nat, verified : Nat, checked : Nat,
                             codes : SUBSET AttestationCodes,
                             ranges : SUBSET [stream : AttestedStreams, last : Nat,
                                              verifiedTo : {NoSeq} \cup Nat]]
                      /\ sessions'[j].verified > 0 => run.keys
                      /\ sessions'[j].checked > 0 => run.bound
    BY <1>3 DEF SessionTypes
  <2>1. CASE j # k BY <1>2, <1>11, <2>1 DEF SessionTypes
  <2>2. CASE j = k
    <3>1. /\ sessions[k] \in [with : Nat, without : Nat, verified : Nat, checked : Nat,
                              codes : SUBSET AttestationCodes,
                              ranges : SUBSET [stream : AttestedStreams, last : Nat,
                                               verifiedTo : {NoSeq} \cup Nat]]
          /\ sessions[k].verified > 0 => run.keys
          /\ sessions[k].checked > 0 => run.bound
      BY <1>2 DEF SessionTypes
    <3>2. CodesOf(mark, st.closed # NoSeq) \in SUBSET AttestationCodes BY CodesAreNames
    <3>3. /\ sessions'[k].with \in Nat /\ sessions'[k].without \in Nat
          /\ sessions'[k].verified \in Nat /\ sessions'[k].checked \in Nat
          /\ sessions'[k].codes \in SUBSET AttestationCodes
          /\ sessions'[k].ranges \in SUBSET [stream : AttestedStreams, last : Nat,
                                             verifiedTo : {NoSeq} \cup Nat]
      BY <1>12, <3>1, <3>2
    <3>4. sessions'[k].verified > 0 => run.keys BY <1>12, <3>1
    <3>5. sessions'[k].checked > 0 => run.bound BY <1>12, <3>1
    <3>6. QED BY <2>2, <1>12, <3>3, <3>4, <3>5
  <2>3. QED BY <2>1, <2>2
<1>14. FedFacts'
  <2> SUFFICES ASSUME NEW j \in AttestedSessions, NEW p \in fed'[j]
               PROVE  IF p[1] \in DOMAIN streams'
                      THEN /\ p[2] \in Nat /\ p[2] <= streams'[p[1]].last
                           /\ j \in streams'[p[1]].seen
                           /\ streams'[p[1]].closed # NoSeq /\ p[2] > streams'[p[1]].closed
                                => "RECORDS_AFTER_CLOSE" \in sessions'[j].codes
                      ELSE Cardinality(DOMAIN streams') >= MaxStreams
    BY DEF FedFacts
  <2>1. sessions[j].codes \subseteq sessions'[j].codes BY <1>11, <1>12
  <2>2. CASE p \in fed[j]
    <3>1. IF p[1] \in DOMAIN streams
          THEN /\ p[2] \in Nat /\ p[2] <= streams[p[1]].last
               /\ j \in streams[p[1]].seen
               /\ streams[p[1]].closed # NoSeq /\ p[2] > streams[p[1]].closed
                    => "RECORDS_AFTER_CLOSE" \in sessions[j].codes
          ELSE Cardinality(DOMAIN streams) >= MaxStreams
      BY <2>2 DEF AttestationInv, FedFacts
    <3>2. CASE p[1] \in DOMAIN streams /\ p[1] # s
      BY <3>1, <3>2, <2>1, <1>7
    <3>3. CASE p[1] \in DOMAIN streams /\ p[1] = s
      <4>1. st = streams[s] BY <3>3 DEF st
      <4>2. /\ p[2] \in Nat /\ p[2] <= st.last /\ j \in st.seen
            /\ st.closed # NoSeq /\ p[2] > st.closed
                 => "RECORDS_AFTER_CLOSE" \in sessions[j].codes
        BY <3>1, <3>3, <4>1
      <4>3. p[1] \in DOMAIN streams' /\ streams'[p[1]] = new BY <3>3, <1>7
      <4>4. p[2] <= new.last /\ j \in new.seen BY <4>2, <1>5, <1>6
      <4>5. new.closed # NoSeq /\ p[2] > new.closed => "RECORDS_AFTER_CLOSE" \in sessions'[j].codes
        BY <4>2, <1>5, <1>6, <2>1
      <4>6. QED BY <4>2, <4>3, <4>4, <4>5
    <3>4. CASE p[1] \notin DOMAIN streams
      <4>1. Cardinality(DOMAIN streams) >= MaxStreams BY <3>1, <3>4
      <4>2. Cardinality(DOMAIN streams) \in Nat BY <1>2, FS_CardinalityType DEF StreamTypes
      <4>3. s \in DOMAIN streams BY <1>1, <1>3, <4>1, <4>2
      <4>4. QED BY <3>4, <4>1, <4>3, <1>8
    <3>5. QED BY <3>2, <3>3, <3>4
  <2>3. CASE p \notin fed[j]
    <3>1. j = k /\ p = <<s, seq>> BY <2>3, <1>2, <1>3
    <3>2. p[1] = s /\ p[2] = seq BY <3>1
    <3>3. st.closed # NoSeq => "RECORDS_AFTER_CLOSE" \in sessions'[k].codes
      BY <1>12 DEF CodesOf
    <3>4. new.closed # NoSeq /\ seq > new.closed => "RECORDS_AFTER_CLOSE" \in sessions'[k].codes
      BY <3>3, <1>5, <1>6
    <3>5. QED BY <3>1, <3>2, <3>4, <1>5, <1>6, <1>7
  <2>4. QED BY <2>2, <2>3
<1>15. EndFacts' BY <1>3, <1>11, <1>12 DEF AttestationInv, EndFacts
<1>16. QED BY <1>9, <1>10, <1>13, <1>14, <1>15 DEF AttestationInv

LEMMA FinaliseKeepsInv ==
  ASSUME AttestationAssumption, AttestationInv, Finalise
  PROVE  AttestationInv'
<1>1. /\ ~ended /\ ended' = TRUE /\ run' = run /\ streams' = streams /\ fed' = fed
      /\ sessions' = [k \in AttestedSessions |->
                       [sessions[k] EXCEPT !.codes = @ \cup ClosingCodes(k) \cup RunCodes(k),
                                           !.ranges = Ranges(k)]]
  BY DEF Finalise
<1>2. RunTypes /\ StreamTypes /\ SessionTypes BY DEF AttestationInv
<1>3. RunTypes' BY <1>1, <1>2 DEF RunTypes
<1>4. StreamTypes' BY <1>1, <1>2 DEF StreamTypes
<1>5. ASSUME NEW k \in AttestedSessions
      PROVE  /\ ClosingCodes(k) \in SUBSET AttestationCodes
             /\ RunCodes(k) \in SUBSET AttestationCodes
             /\ Ranges(k) \in SUBSET [stream : AttestedStreams, last : Nat,
                                      verifiedTo : {NoSeq} \cup Nat]
  <2>1. ClosingCodes(k) \in SUBSET AttestationCodes
    BY DEF ClosingCodes, AttestationCodes, Inadmissible
  <2>2. RunCodes(k) \in SUBSET AttestationCodes
    BY DEF RunCodes, AttestationCodes, Inadmissible
  <2>3. Ranges(k) \in SUBSET [stream : AttestedStreams, last : Nat, verifiedTo : {NoSeq} \cup Nat]
    <3> SUFFICES ASSUME NEW s \in DOMAIN streams
                 PROVE  [stream |-> s, last |-> streams[s].last,
                          verifiedTo |-> streams[s].verifiedTo]
                          \in [stream : AttestedStreams, last : Nat, verifiedTo : {NoSeq} \cup Nat]
      BY DEF Ranges
    <3>1. s \in AttestedStreams BY <1>2 DEF StreamTypes
    <3>2. streams[s].last \in Nat /\ streams[s].verifiedTo \in {NoSeq} \cup Nat
      BY <1>2 DEF StreamTypes
    <3>3. QED BY <3>1, <3>2
  <2>4. QED BY <2>1, <2>2, <2>3
<1>6. ASSUME NEW k \in AttestedSessions
      PROVE  /\ sessions'[k].ranges = Ranges(k)
             /\ sessions'[k].codes = sessions[k].codes \cup ClosingCodes(k) \cup RunCodes(k)
             /\ sessions'[k].with = sessions[k].with /\ sessions'[k].without = sessions[k].without
             /\ sessions'[k].verified = sessions[k].verified
             /\ sessions'[k].checked = sessions[k].checked
             /\ sessions'[k] = [with |-> sessions[k].with, without |-> sessions[k].without,
                                verified |-> sessions[k].verified, checked |-> sessions[k].checked,
                                codes |-> sessions[k].codes \cup ClosingCodes(k) \cup RunCodes(k),
                                ranges |-> Ranges(k)]
  <2>1. sessions'[k] = [sessions[k] EXCEPT !.codes = @ \cup ClosingCodes(k) \cup RunCodes(k),
                                           !.ranges = Ranges(k)]
    BY <1>1
  <2>2. sessions[k] \in [with : Nat, without : Nat, verified : Nat, checked : Nat,
                         codes : SUBSET AttestationCodes,
                         ranges : SUBSET [stream : AttestedStreams, last : Nat,
                                          verifiedTo : {NoSeq} \cup Nat]]
    BY <1>2 DEF SessionTypes
  <2>3. QED BY <2>1, <2>2
<1>7. SessionTypes'
  <2> SUFFICES ASSUME NEW k \in AttestedSessions
               PROVE  /\ sessions'[k] \in
                            [with : Nat, without : Nat, verified : Nat, checked : Nat,
                             codes : SUBSET AttestationCodes,
                             ranges : SUBSET [stream : AttestedStreams, last : Nat,
                                              verifiedTo : {NoSeq} \cup Nat]]
                      /\ sessions'[k].verified > 0 => run.keys
                      /\ sessions'[k].checked > 0 => run.bound
    BY <1>1 DEF SessionTypes
  <2>1. /\ sessions[k].with \in Nat /\ sessions[k].without \in Nat
        /\ sessions[k].verified \in Nat /\ sessions[k].checked \in Nat
        /\ sessions[k].codes \in SUBSET AttestationCodes
        /\ sessions[k].verified > 0 => run.keys
        /\ sessions[k].checked > 0 => run.bound
    BY <1>2 DEF SessionTypes
  <2>2. sessions[k].codes \cup ClosingCodes(k) \cup RunCodes(k) \in SUBSET AttestationCodes
    BY <1>5, <2>1
  <2> DEFINE codes == sessions[k].codes \cup ClosingCodes(k) \cup RunCodes(k)
  <2>3. /\ sessions'[k] = [with |-> sessions[k].with, without |-> sessions[k].without,
                           verified |-> sessions[k].verified, checked |-> sessions[k].checked,
                           codes |-> codes, ranges |-> Ranges(k)]
        /\ sessions'[k].verified = sessions[k].verified
        /\ sessions'[k].checked = sessions[k].checked
    BY <1>6
  <2>4. codes \in SUBSET AttestationCodes BY <2>2
  <2>5. Ranges(k) \in SUBSET [stream : AttestedStreams, last : Nat, verifiedTo : {NoSeq} \cup Nat]
    BY <1>5
  <2> HIDE DEF codes
  <2>6. QED BY <2>1, <2>3, <2>4, <2>5
<1>8. FedFacts' BY <1>1, <1>6 DEF AttestationInv, FedFacts
<1>9. EndFacts'
  <2> SUFFICES ASSUME NEW k \in AttestedSessions
               PROVE  /\ sessions'[k].ranges = Ranges(k)'
                      /\ (ClosingCodes(k) \cup RunCodes(k))' \subseteq sessions'[k].codes
    BY <1>1 DEF EndFacts
  <2>1. Ranges(k)' = Ranges(k) BY <1>1 DEF Ranges
  <2>2. ClosingCodes(k)' = ClosingCodes(k) BY <1>1 DEF ClosingCodes
  <2>3. RunCodes(k)' = RunCodes(k) BY <1>1, <1>6 DEF RunCodes
  <2>4. QED BY <1>6, <2>1, <2>2, <2>3
<1>10. QED BY <1>3, <1>4, <1>7, <1>8, <1>9 DEF AttestationInv

LEMMA AttestationKeepsInv ==
  ASSUME AttestationAssumption, AttestationInv, [AttestationNext]_attestationVars
  PROVE  AttestationInv'
<1>1. ASSUME NEW k \in AttestedSessions, ~ended,
             \/ \E s \in AttestedStreams :
                  \/ ObserveUntracked(k, s)
                  \/ \E mark \in Marks, final \in BOOLEAN : Observe(k, s, mark, final)
             \/ ObserveBare(k)
      PROVE  AttestationInv'
  BY <1>1, UntrackedKeepsInv, ObserveKeepsInv, BareKeepsInv
<1>2. CASE Finalise BY <1>2, FinaliseKeepsInv
<1>3. CASE UNCHANGED attestationVars
  BY <1>3 DEF attestationVars, AttestationInv, RunTypes, StreamTypes, SessionTypes,
         FedFacts, EndFacts,
              Ranges, ClosingCodes, RunCodes
<1>4. QED BY <1>1, <1>2, <1>3 DEF AttestationNext

-----------------------------------------------------------------------------
(* A session has one range of each stream that fed it.                     *)
LEMMA RangesAreTheStreams ==
  ASSUME AttestationAssumption, AttestationInv, NEW k \in AttestedSessions
  PROVE  /\ IsFiniteSet(sessions[k].ranges)
         /\ \A g \in sessions[k].ranges :
              /\ ended /\ g.stream \in DOMAIN streams /\ k \in streams[g.stream].seen
              /\ g.last = streams[g.stream].last /\ g.last \in Nat
              /\ g.verifiedTo = streams[g.stream].verifiedTo
              /\ g.verifiedTo \in {NoSeq} \cup Nat
              /\ g.verifiedTo # NoSeq => run.keys /\ g.verifiedTo <= g.last
<1>1. sessions[k].ranges = IF ended THEN Ranges(k) ELSE {}
  BY DEF AttestationInv, EndFacts, RunTypes
<1> DEFINE mine == {t \in DOMAIN streams : k \in streams[t].seen}
           range == [s \in mine |-> [stream |-> s, last |-> streams[s].last,
                                     verifiedTo |-> streams[s].verifiedTo]]
<1>2. IsFiniteSet(mine) BY FS_Subset DEF AttestationInv, StreamTypes
<1>3. Ranges(k) = {range[s] : s \in mine} BY DEF Ranges
<1>4. IsFiniteSet({range[s] : s \in mine})
  <2>1. DOMAIN range = mine OBVIOUS
  <2> HIDE DEF range, mine
  <2>2. QED BY <1>2, <2>1, ImageIsFinite
<1>5. IsFiniteSet(sessions[k].ranges) BY <1>1, <1>3, <1>4, FS_EmptySet
<1>6. ASSUME NEW g \in sessions[k].ranges
      PROVE  /\ ended /\ g.stream \in DOMAIN streams /\ k \in streams[g.stream].seen
             /\ g.last = streams[g.stream].last /\ g.last \in Nat
             /\ g.verifiedTo = streams[g.stream].verifiedTo
             /\ g.verifiedTo \in {NoSeq} \cup Nat
             /\ g.verifiedTo # NoSeq => run.keys /\ g.verifiedTo <= g.last
  <2>1. ended BY <1>1
  <2>2. PICK s \in mine : g = [stream |-> s, last |-> streams[s].last,
                               verifiedTo |-> streams[s].verifiedTo]
    BY <1>1, <2>1 DEF Ranges
  <2>3. streams[s] \in [last : Nat, verifiedTo : {NoSeq} \cup Nat, closed : {NoSeq} \cup Nat,
                        final : BOOLEAN, seen : SUBSET AttestedSessions]
        /\ (streams[s].verifiedTo # NoSeq => run.keys /\ streams[s].verifiedTo <= streams[s].last)
    BY DEF AttestationInv, StreamTypes
  <2>4. QED BY <2>1, <2>2, <2>3
<1>7. QED BY <1>5, <1>6

Span(s, n) == {<<s, i>> : i \in 0 .. n}

LEMMA SpanIsFinite ==
  ASSUME NEW s, NEW n \in Nat
  PROVE  IsFiniteSet(Span(s, n))
<1> DEFINE at == [i \in 0 .. n |-> <<s, i>>]
<1>1. IsFiniteSet(0 .. n) BY FS_Interval
<1>2. DOMAIN at = 0 .. n /\ Span(s, n) = {at[i] : i \in 0 .. n} BY DEF Span
<1> HIDE DEF at
<1>3. QED BY <1>1, <1>2, ImageIsFinite

Attested(k) == UNION {Span(g.stream, g.last) : g \in sessions[k].ranges}

Held(k) == UNION {IF g.verifiedTo = NoSeq THEN {} ELSE Span(g.stream, g.verifiedTo) :
                    g \in sessions[k].ranges}

LEMMA CoverageByCount ==
  ASSUME NEW k
  PROVE  SignatureCoverage(k) =
           <<Cardinality(Held(k)), IF Attested(k) = {} THEN 1 ELSE Cardinality(Attested(k))>>
BY DEF SignatureCoverage, Held, Attested, Span

(* What a signature reaches is a share of what there is, and all of it     *)
(* only where it reaches the end of every stream.                          *)
LEMMA CoverageIsAShare ==
  ASSUME AttestationAssumption, AttestationInv, NEW k \in AttestedSessions
  PROVE  /\ SignatureCoverage(k)[1] \in Nat /\ SignatureCoverage(k)[2] \in Nat \ {0}
         /\ SignatureCoverage(k)[1] <= SignatureCoverage(k)[2]
         /\ ~CoversFinal(k) => SignatureCoverage(k)[1] < SignatureCoverage(k)[2]
<1> DEFINE R == sessions[k].ranges
           all == Attested(k)
           held == Held(k)
<1>1. /\ IsFiniteSet(R)
      /\ \A g \in R :
           /\ g.stream \in DOMAIN streams
           /\ g.last = streams[g.stream].last /\ g.last \in Nat
           /\ g.verifiedTo = streams[g.stream].verifiedTo
           /\ g.verifiedTo \in {NoSeq} \cup Nat
           /\ g.verifiedTo # NoSeq => g.verifiedTo <= g.last
  BY RangesAreTheStreams
<1>2. IsFiniteSet(all)
  <2> DEFINE part == [g \in R |-> Span(g.stream, g.last)]
  <2>1. DOMAIN part = R /\ all = UNION {part[g] : g \in R} BY DEF Attested
  <2>2. \A g \in R : IsFiniteSet(part[g]) BY <1>1, SpanIsFinite
  <2> HIDE DEF part, R, all
  <2>3. IsFiniteSet({part[g] : g \in R}) BY <1>1, <2>1, ImageIsFinite
  <2>4. QED BY <2>1, <2>2, <2>3, FS_UNION
<1>3. held \subseteq all
  <2> SUFFICES ASSUME NEW x \in held PROVE x \in all OBVIOUS
  <2>1. PICK g \in R : g.verifiedTo # NoSeq /\ x \in Span(g.stream, g.verifiedTo) BY DEF Held
  <2>2. PICK i \in 0 .. g.verifiedTo : x = <<g.stream, i>> BY <2>1 DEF Span
  <2>3. i \in 0 .. g.last BY <1>1, <2>1
  <2>4. x \in Span(g.stream, g.last) BY <2>2, <2>3 DEF Span
  <2>5. QED BY <2>4 DEF Attested
<1>4. /\ IsFiniteSet(held) /\ Cardinality(held) \in Nat /\ Cardinality(all) \in Nat
      /\ Cardinality(held) <= Cardinality(all)
      /\ Cardinality(held) = Cardinality(all) => held = all
      /\ Cardinality(all) = 0 <=> all = {}
  <2> HIDE DEF held, all
  <2>1. QED BY <1>2, <1>3, FS_Subset, FS_CardinalityType, FS_EmptySet
<1>5. ASSUME ~CoversFinal(k), all # {} PROVE held # all
  <2>1. R # {} BY <1>5 DEF Attested
  <2>2. PICK g \in R : ~Reaches(g) BY <1>5, <2>1 DEF CoversFinal
  <2> DEFINE end == <<g.stream, g.last>>
  <2>3. g.last \in 0 .. g.last BY <1>1
  <2>4. end \in all BY <2>3 DEF Attested, Span
  <2>5. end \notin held
    <3> SUFFICES ASSUME end \in held PROVE FALSE OBVIOUS
    <3>1. PICK h \in R : h.verifiedTo # NoSeq /\ end \in Span(h.stream, h.verifiedTo) BY DEF Held
    <3>2. PICK i \in 0 .. h.verifiedTo : end = <<h.stream, i>> BY <3>1 DEF Span
    <3>3. h.stream = g.stream /\ i = g.last BY <3>2
    <3>4. h.verifiedTo = g.verifiedTo BY <1>1, <3>3
    <3>5. g.verifiedTo # NoSeq /\ g.verifiedTo >= g.last BY <1>1, <3>1, <3>2, <3>3, <3>4
    <3>6. QED BY <2>2, <3>5 DEF Reaches
  <2>6. QED BY <2>4, <2>5
<1>6. SignatureCoverage(k) = <<Cardinality(held), IF all = {} THEN 1 ELSE Cardinality(all)>>
  BY CoverageByCount
<1> HIDE DEF held, all
<1>7. QED BY <1>4, <1>5, <1>6

-----------------------------------------------------------------------------
LEMMA SequencesAreSigned ==
  ASSUME AttestationAssumption, AttestationInv
  PROVE  OrderingNeedsASignature
<1> SUFFICES ASSUME NEW k \in AttestedSessions, NEW p \in fed[k], SequenceVerified(k, p[1], p[2])
             PROVE  /\ run.keys /\ ~EvidenceFires(k)
                    /\ p[1] \in DOMAIN streams /\ streams[p[1]].verifiedTo >= p[2]
  BY DEF OrderingNeedsASignature
<1>1. PICK g \in sessions[k].ranges : /\ g.stream = p[1] /\ g.verifiedTo # NoSeq
                                     /\ p[2] <= g.verifiedTo
  BY DEF SequenceVerified
<1>2. /\ g.stream \in DOMAIN streams /\ g.verifiedTo = streams[g.stream].verifiedTo
      /\ g.verifiedTo \in {NoSeq} \cup Nat /\ run.keys
  BY <1>1, RangesAreTheStreams
<1>3. p[2] \in Nat BY <1>1, <1>2 DEF AttestationInv, FedFacts
<1>4. QED BY <1>1, <1>2, <1>3 DEF SequenceVerified, EvidenceFires

LEMMA CompleteCovers ==
  ASSUME AttestationAssumption, AttestationInv
  PROVE  CompleteIsCovered
<1> SUFFICES ASSUME NEW k \in AttestedSessions, ended, EvidenceStatus(k) = "verified_complete",
                    NEW p \in fed[k], p[1] \in DOMAIN streams
             PROVE  SequenceVerified(k, p[1], p[2])
  BY DEF CompleteIsCovered
<1>1. ~Failed(k) /\ CoversFinal(k) BY DEF EvidenceStatus
<1>2. p[2] \in Nat /\ p[2] <= streams[p[1]].last /\ k \in streams[p[1]].seen
  BY DEF AttestationInv, FedFacts
<1>3. sessions[k].ranges = Ranges(k) BY DEF AttestationInv, EndFacts
<1>4. PICK g \in sessions[k].ranges : g.stream = p[1] /\ g.last = streams[p[1]].last
  BY <1>2, <1>3 DEF Ranges
<1>5. g.verifiedTo # NoSeq /\ g.verifiedTo >= g.last BY <1>1 DEF CoversFinal, Reaches
<1>6. g.verifiedTo \in {NoSeq} \cup Nat /\ g.last \in Nat BY RangesAreTheStreams
<1>7. p[2] <= g.verifiedTo BY <1>2, <1>4, <1>5, <1>6
<1>8. QED BY <1>1, <1>4, <1>5, <1>7 DEF SequenceVerified

LEMMA StrippedIsCharged ==
  ASSUME AttestationAssumption, AttestationInv, ended, NEW k \in AttestedSessions,
         sessions[k].with > 0, sessions[k].without > 0
  PROVE  Failed(k)
<1>1. "PARTIAL_INTEGRITY" \in RunCodes(k) BY DEF RunCodes
<1>2. "PARTIAL_INTEGRITY" \in sessions[k].codes BY <1>1 DEF AttestationInv, EndFacts
<1>3. QED BY <1>2 DEF Failed, Inadmissible

LEMMA StrippingIsSeen ==
  ASSUME AttestationAssumption, AttestationInv
  PROVE  StrippingShows
<1> SUFFICES ASSUME NEW k \in AttestedSessions, ended, sessions[k].with > 0,
                    sessions[k].without > 0
             PROVE  /\ EvidenceFires(k) /\ EvidenceStatus(k) = "inadmissible"
                    /\ EvidenceConfidence(k)[1] = 0
  BY DEF StrippingShows
<1>1. Failed(k) BY StrippedIsCharged
<1>2. sessions[k].with # 0 BY DEF AttestationInv, SessionTypes
<1>3. EvidenceConfidence(k) = <<0, 1>> BY <1>1 DEF EvidenceConfidence
<1>4. QED BY <1>1, <1>2, <1>3 DEF EvidenceFires, EvidenceStatus

(* A product of three tenths and a share is whole only if each is.         *)
LEMMA WholeProduct ==
  ASSUME NEW n \in Nat, NEW d \in Nat \ {0}, n <= d,
         NEW a \in {8, 10}, NEW b \in {9, 10}, NEW c \in {9, 10},
         n * a * b * c >= d * 1000
  PROVE  n = d /\ a = 10 /\ b = 10 /\ c = 10
<1> DEFINE f == a * b * c
<1>1. f \in Nat /\ f <= 1000 /\ (f = 1000 => a = 10 /\ b = 10 /\ c = 10)
  <2>1. CASE a = 8 BY <2>1
  <2>2. CASE a = 10 BY <2>2
  <2>3. QED BY <2>1, <2>2
<1>2. n * a * b * c = n * f OBVIOUS
<1> HIDE DEF f
<1>3. CASE f = 1000 BY <1>1, <1>2, <1>3
<1>4. CASE f # 1000
  <2>1. f <= 999 BY <1>1, <1>4
  <2>2. n * f <= n * 999 BY <1>1, <2>1
  <2>3. QED BY <1>1, <1>2, <2>2
<1>5. QED BY <1>3, <1>4

LEMMA FullIsEarned ==
  ASSUME AttestationAssumption, AttestationInv
  PROVE  FullConfidenceIsEarned
<1> SUFFICES ASSUME NEW k \in AttestedSessions, ended,
                    EvidenceConfidence(k)[1] >= EvidenceConfidence(k)[2]
             PROVE  /\ EvidenceStatus(k) = "verified_complete"
                    /\ run.keys /\ run.bound /\ run.ledger
                    /\ sessions[k].without = 0
                    /\ \A p \in fed[k] : p[1] \in DOMAIN streams =>
                         streams[p[1]].closed # NoSeq /\ p[2] <= streams[p[1]].closed
  BY DEF FullConfidenceIsEarned
<1> DEFINE signature == IF sessions[k].verified = 0 THEN <<6, 10>>
                        ELSE IF CoversFinal(k) THEN <<1, 1>> ELSE SignatureCoverage(k)
           fresh  == Charge(sessions[k].checked = 0, 8)
           ledger == Charge("NO_STREAM_LEDGER" \in sessions[k].codes, 9)
           close  == Charge("STREAM_NOT_CLOSED" \in sessions[k].codes, 9)
<1>1. ~Unattested(k) /\ ~Failed(k) BY DEF EvidenceConfidence
<1>2. /\ sessions[k].with \in Nat /\ sessions[k].without \in Nat
      /\ sessions[k].verified \in Nat /\ sessions[k].checked \in Nat
      /\ sessions[k].verified > 0 => run.keys
      /\ sessions[k].checked > 0 => run.bound
  BY DEF AttestationInv, SessionTypes
<1>3. sessions[k].with > 0 BY <1>1, <1>2 DEF Unattested
<1>4. EvidenceConfidence(k) = <<signature[1] * fresh * ledger * close, signature[2] * 1000>>
  BY <1>1 DEF EvidenceConfidence
<1>5. /\ fresh \in {8, 10} /\ (fresh = 10 => sessions[k].checked # 0)
      /\ ledger \in {9, 10} /\ (ledger = 10 => "NO_STREAM_LEDGER" \notin sessions[k].codes)
      /\ close \in {9, 10} /\ (close = 10 => "STREAM_NOT_CLOSED" \notin sessions[k].codes)
  BY DEF Charge
<1>6. /\ signature[1] \in Nat /\ signature[2] \in Nat \ {0} /\ signature[1] <= signature[2]
      /\ signature[1] = signature[2] => sessions[k].verified # 0 /\ CoversFinal(k)
  <2>1. /\ SignatureCoverage(k)[1] \in Nat /\ SignatureCoverage(k)[2] \in Nat \ {0}
        /\ SignatureCoverage(k)[1] <= SignatureCoverage(k)[2]
        /\ ~CoversFinal(k) => SignatureCoverage(k)[1] < SignatureCoverage(k)[2]
    BY CoverageIsAShare
  <2>2. CASE sessions[k].verified = 0 BY <2>2
  <2>3. CASE sessions[k].verified # 0 /\ CoversFinal(k) BY <2>3
  <2>4. CASE sessions[k].verified # 0 /\ ~CoversFinal(k)
    <3>1. signature = SignatureCoverage(k) BY <2>4
    <3> HIDE DEF signature
    <3>2. QED BY <2>1, <2>4, <3>1
  <2>5. QED BY <2>2, <2>3, <2>4
<1> HIDE DEF signature, fresh, ledger, close
<1>7. signature[1] * fresh * ledger * close >= signature[2] * 1000 BY <1>4
<1>8. signature[1] = signature[2] /\ fresh = 10 /\ ledger = 10 /\ close = 10
  BY <1>5, <1>6, <1>7, WholeProduct
<1>9. /\ sessions[k].verified # 0 /\ CoversFinal(k) /\ sessions[k].checked # 0
      /\ "NO_STREAM_LEDGER" \notin sessions[k].codes
      /\ "STREAM_NOT_CLOSED" \notin sessions[k].codes
  BY <1>5, <1>6, <1>8
<1>10. EvidenceStatus(k) = "verified_complete" BY <1>1, <1>3, <1>9 DEF EvidenceStatus
<1>11. run.keys /\ run.bound BY <1>2, <1>9
<1>12. ClosingCodes(k) \cup RunCodes(k) \subseteq sessions[k].codes BY DEF AttestationInv, EndFacts
<1>13. run.ledger BY <1>3, <1>9, <1>12 DEF RunCodes
<1>14. sessions[k].without = 0 BY <1>1, <1>2, <1>3, StrippedIsCharged
<1>15. ASSUME NEW p \in fed[k], p[1] \in DOMAIN streams
       PROVE  streams[p[1]].closed # NoSeq /\ p[2] <= streams[p[1]].closed
  <2>1. /\ p[2] \in Nat /\ k \in streams[p[1]].seen
        /\ streams[p[1]].closed # NoSeq /\ p[2] > streams[p[1]].closed
             => "RECORDS_AFTER_CLOSE" \in sessions[k].codes
    BY <1>15 DEF AttestationInv, FedFacts
  <2>2. streams[p[1]].closed # NoSeq
    <3> SUFFICES ASSUME streams[p[1]].closed = NoSeq PROVE FALSE OBVIOUS
    <3>1. "STREAM_NOT_CLOSED" \in ClosingCodes(k) BY <1>15, <2>1 DEF ClosingCodes
    <3>2. QED BY <3>1, <1>9, <1>12
  <2>3. "RECORDS_AFTER_CLOSE" \notin sessions[k].codes BY <1>1 DEF Failed, Inadmissible
  <2>4. streams[p[1]].closed \in {NoSeq} \cup Nat BY <1>15 DEF AttestationInv, StreamTypes
  <2>5. QED BY <2>1, <2>2, <2>3, <2>4
<1>16. QED BY <1>10, <1>11, <1>13, <1>14, <1>15

LEMMA AttestationTypes ==
  ASSUME AttestationAssumption, AttestationInv
  PROVE  AttestationTypeOK
<1>1. ended \in BOOLEAN BY Zenon DEF AttestationInv, RunTypes
<1>2. /\ run \in [keys : BOOLEAN, bound : BOOLEAN, ledger : BOOLEAN, closed : BOOLEAN]
      /\ DOMAIN streams \subseteq AttestedStreams /\ Cardinality(DOMAIN streams) <= MaxStreams
  BY Zenon DEF AttestationInv, RunTypes, StreamTypes
<1>3. \A s \in DOMAIN streams :
        /\ streams[s].last \in Nat
        /\ streams[s].verifiedTo \in {NoSeq} \cup 0 .. streams[s].last
        /\ streams[s].closed \in {NoSeq} \cup 0 .. streams[s].last
        /\ streams[s].seen \subseteq AttestedSessions
  <2> SUFFICES ASSUME NEW s \in DOMAIN streams
               PROVE  /\ streams[s].last \in Nat
                      /\ streams[s].verifiedTo \in {NoSeq} \cup 0 .. streams[s].last
                      /\ streams[s].closed \in {NoSeq} \cup 0 .. streams[s].last
                      /\ streams[s].seen \subseteq AttestedSessions
    OBVIOUS
  <2>1. /\ streams[s] \in [last : Nat, verifiedTo : {NoSeq} \cup Nat, closed : {NoSeq} \cup Nat,
                           final : BOOLEAN, seen : SUBSET AttestedSessions]
        /\ streams[s].verifiedTo # NoSeq => streams[s].verifiedTo <= streams[s].last
        /\ streams[s].closed # NoSeq => streams[s].closed <= streams[s].last
    BY DEF AttestationInv, StreamTypes
  <2>2. QED BY <2>1
<1>4. \A k \in AttestedSessions :
        SignatureCoverage(k)[1] >= 0 /\ SignatureCoverage(k)[1] <= SignatureCoverage(k)[2]
  <2> SUFFICES ASSUME NEW k \in AttestedSessions
               PROVE  SignatureCoverage(k)[1] >= 0
                     /\ SignatureCoverage(k)[1] <= SignatureCoverage(k)[2]
    OBVIOUS
  <2>1. SignatureCoverage(k)[1] \in Nat /\ SignatureCoverage(k)[1] <= SignatureCoverage(k)[2]
    BY CoverageIsAShare
  <2>2. QED BY <2>1
<1>5. QED BY <1>1, <1>2, <1>3, <1>4 DEF AttestationTypeOK

(* Whatever the sessions, the streams and the budget, and however the      *)
(* records of the sessions mix: order by sequence needs a signature that   *)
(* verified, a session called complete is covered to its end, stripping    *)
(* sidecars shows, and full confidence is signed, dated, remembered and    *)
(* whole (evidence_status, finalise; F-03, R-05).                          *)
THEOREM AttestationIsSigned ==
  AttestationAssumption => (AttestationSpec => []AttestedIsSigned)
<1> SUFFICES ASSUME AttestationAssumption PROVE AttestationSpec => []AttestedIsSigned OBVIOUS
<1>1. AttestationInit => AttestationInv BY AttestationStarts
<1>2. AttestationInv /\ [AttestationNext]_attestationVars => AttestationInv' BY AttestationKeepsInv
<1>3. AttestationInv => AttestedIsSigned
  BY AttestationTypes, SequencesAreSigned, CompleteCovers, StrippingIsSeen, FullIsEarned
     DEF AttestedIsSigned
<1>4. QED BY <1>1, <1>2, <1>3, PTL DEF AttestationSpec

-----------------------------------------------------------------------------
(* Receipts: any calls and receipts, and any number of them.               *)

ReceiptInv == outcomes \subseteq Outcomes /\ IsFiniteSet(outcomes)

ReceiptHypothesis == ClassesAssumption /\ ReceiptsAssumption

(* The four factors of the confidence are shares of what they are of.      *)
LEMMA ReceiptFactors ==
  ASSUME ReceiptInv
  PROVE  /\ Share(Covered, Effectful) \in Shares
         /\ Share(Covered, Effectful)[1] <= Share(Covered, Effectful)[2]
         /\ Share(Covered, Effectful)[1] = Share(Covered, Effectful)[2] => Covered = Effectful
         /\ HalfCharged(Share(Loose, Covered)) \in Shares
         /\ HalfCharged(Share(Loose, Covered))[1] <= HalfCharged(Share(Loose, Covered))[2]
         /\ Covered # {} /\ HalfCharged(Share(Loose, Covered))[1]
               = HalfCharged(Share(Loose, Covered))[2]
              => Loose = {}
         /\ Disputed \in Shares /\ Disputed[1] <= Disputed[2]
<1>1. /\ Effectful \in SUBSET outcomes /\ Covered \in SUBSET Effectful /\ Loose \in SUBSET Covered
  BY DEF Effectful, Covered, Loose
<1>2. IsFiniteSet(Effectful) BY <1>1, FS_Subset DEF ReceiptInv
<1>3. IsFiniteSet(Covered) BY <1>1, <1>2, FS_Subset
<1>4. /\ Share(Covered, Effectful) \in Shares
      /\ Share(Covered, Effectful)[1] <= Share(Covered, Effectful)[2]
      /\ Share(Covered, Effectful)[1] = Share(Covered, Effectful)[2] => Covered = Effectful
  BY <1>1, <1>2, ShareOfASet
<1>5. /\ Share(Loose, Covered) \in Shares /\ Share(Loose, Covered)[1] <= Share(Loose, Covered)[2]
      /\ IsFiniteSet(Loose)
  BY <1>1, <1>3, ShareOfASet
<1>6. /\ HalfCharged(Share(Loose, Covered)) \in Shares
      /\ HalfCharged(Share(Loose, Covered))[1] <= HalfCharged(Share(Loose, Covered))[2]
      /\ HalfCharged(Share(Loose, Covered))[1] = HalfCharged(Share(Loose, Covered))[2]
           => Share(Loose, Covered)[1] = 0
  BY <1>5, HalfOfAShare
<1>7. Covered # {} /\ Share(Loose, Covered)[1] = 0 => Loose = {}
  BY <1>5, FS_EmptySet DEF Share
<1>8. Disputed \in Shares /\ Disputed[1] <= Disputed[2] BY DEF Disputed, Whole, Shares
<1>9. QED BY <1>4, <1>6, <1>7, <1>8

LEMMA ReceiptConfidenceIsAShare ==
  ASSUME ReceiptInv
  PROVE  /\ ReceiptConfidence \in Shares /\ ReceiptConfidence[1] <= ReceiptConfidence[2]
         /\ ReceiptConfidence[1] >= ReceiptConfidence[2] =>
              /\ Covered = Effectful /\ Loose = {}
              /\ \A c \in outcomes : c.name \in Manifest
<1> DEFINE x == Share(Covered, Effectful)
           w == ClassShare(outcomes)
           h == HalfCharged(Share(Loose, Covered))
           d == Disputed
<1>1. CASE NothingFalsifiable
  <2>1. ReceiptConfidence = <<0, 1>> BY <1>1 DEF ReceiptConfidence
  <2>2. QED BY <2>1 DEF Shares
<1>2. CASE ~NothingFalsifiable
  <2>1. ReceiptConfidence = Times(Times(x, w), Times(h, d)) BY <1>2 DEF ReceiptConfidence
  <2>2. /\ x \in Shares /\ x[1] <= x[2] /\ (x[1] = x[2] => Covered = Effectful)
        /\ h \in Shares /\ h[1] <= h[2] /\ (h[1] = h[2] => Loose = {})
        /\ d \in Shares /\ d[1] <= d[2]
    BY <1>2, ReceiptFactors DEF NothingFalsifiable
  <2>3. w \in Shares /\ w[1] <= w[2] /\ (w[1] = w[2] => \A c \in outcomes : c.name \in Manifest)
    BY ClassShareIsAShare
  <2> HIDE DEF x, w, h, d
  <2>4. /\ Times(x, w) \in Shares /\ Times(x, w)[1] <= Times(x, w)[2]
        /\ Times(x, w)[1] >= Times(x, w)[2] => x[1] = x[2] /\ w[1] = w[2]
    BY <2>2, <2>3, TimesIsAShare, TimesOfParts
  <2>5. /\ Times(h, d) \in Shares /\ Times(h, d)[1] <= Times(h, d)[2]
        /\ Times(h, d)[1] >= Times(h, d)[2] => h[1] = h[2] /\ d[1] = d[2]
    BY <2>2, TimesIsAShare, TimesOfParts
  <2>6. Times(x, w)[1] \in Nat /\ Times(h, d)[1] \in Nat BY <2>4, <2>5 DEF Shares
  <2>7. /\ ReceiptConfidence \in Shares /\ ReceiptConfidence[1] <= ReceiptConfidence[2]
        /\ ReceiptConfidence[1] >= ReceiptConfidence[2] =>
             Times(x, w)[1] = Times(x, w)[2] /\ Times(h, d)[1] = Times(h, d)[2]
    BY <2>1, <2>4, <2>5, TimesIsAShare, TimesOfParts
  <2>8. QED BY <2>2, <2>3, <2>4, <2>5, <2>6, <2>7
<1>3. QED BY <1>1, <1>2

LEMMA ReceiptsOfTheCall == CopiesDoNotAccuse
<1> SUFFICES ASSUME NEW c \in Contradicted
             PROVE  /\ NamesAll(c.receipt)
                    /\ c.receipt.span = c.span /\ c.receipt.tool = c.name
                    /\ \A digest \in {c.declared, c.captured} \ {Unsaid} : digest = c.receipt.args
  BY DEF CopiesDoNotAccuse
<1>1. Binding(c) = "exact" BY DEF Contradicted
<1>2. /\ ~Contradicts(c.receipt, c) /\ ~Disagrees(c) /\ NamesAll(c.receipt)
      /\ c.span # Unsaid /\ ArgsOf(c) # Unsaid
      /\ ~(c.receipt.args # Unsaid /\ ArgsOf(c) # Unsaid /\ c.receipt.args # ArgsOf(c))
  BY <1>1 DEF Binding
<1>3. QED BY <1>2 DEF Contradicts, Disagrees, NamesAll, ArgsOf

LEMMA FullMeansFalsifiable ==
  ASSUME ReceiptInv
  PROVE  FullyEvaluatedMeansFalsifiable
<1> SUFFICES ASSUME ~NothingFalsifiable, AtMostShare(Whole, ReceiptConfidence), NEW c \in Effectful
             PROVE  /\ c.receipt # Unsaid /\ (c \in Unbound \/ NamesAll(c.receipt))
                    /\ c.name \in Manifest
  BY DEF FullyEvaluatedMeansFalsifiable
<1>1. ReceiptConfidence[1] \in Nat /\ ReceiptConfidence[2] \in Nat
  BY ReceiptConfidenceIsAShare DEF Shares
<1>2. ReceiptConfidence[1] >= ReceiptConfidence[2] BY <1>1 DEF AtMostShare, Whole
<1>3. Covered = Effectful /\ Loose = {} /\ \A b \in outcomes : b.name \in Manifest
  BY <1>2, ReceiptConfidenceIsAShare
<1>4. c \in Receipted /\ c \in outcomes /\ c.receipt # Unsaid
  BY <1>3 DEF Covered, Effectful, Receipted
<1>5. Binding(c) # "span_only" BY <1>3 DEF Loose
<1>6. CASE Binding(c) = "exact" BY <1>3, <1>4, <1>6 DEF Binding
<1>7. CASE Binding(c) # "exact" BY <1>3, <1>4, <1>5, <1>7 DEF Unbound
<1>8. QED BY <1>6, <1>7

LEMMA BlindOfReads ==
  ASSUME ReceiptHypothesis, ReceiptInv
  PROVE  BlindOnlyOfReads
<1> SUFFICES ASSUME Covered = {}, NEW c \in ReceiptFindings PROVE Klass(c) = "read_only"
  BY DEF BlindOnlyOfReads, NothingFalsifiable
<1>1. c \in Receipted /\ c \in outcomes
  BY DEF ReceiptFindings, Contradicted, Partial, Unbound, Receipted
<1>2. c \notin Effectful BY <1>1 DEF Covered
<1>3. Klass(c) \in Klasses
  BY <1>1, KlassOfACall DEF ReceiptHypothesis, ReceiptsAssumption, ReceiptInv
<1>4. QED BY <1>1, <1>2, <1>3 DEF Effectful, IsConsequential, Klasses

-----------------------------------------------------------------------------
LEMMA TrustIsLeast ==
  ASSUME NEW some, some # {}
  PROVE  (\E c \in some : Trust(some) = TrustOf(c)) /\ \A c \in some : Trust(some) <= TrustOf(c)
<1> DEFINE T == {TrustOf(c) : c \in some}
<1>1. T \subseteq {0, 1} /\ T # {} BY DEF TrustOf
<1>2. \E t \in T : \A u \in T : t <= u
  <2> HIDE DEF T
  <2>1. CASE 0 \in T BY <2>1, <1>1
  <2>2. CASE 0 \notin T
    <3>1. T = {1} BY <1>1, <2>2
    <3>2. QED BY <3>1
  <2>3. QED BY <2>1, <2>2
<1>3. \E t \in T : \A c \in some : t <= TrustOf(c) BY <1>2
<1>4. Trust(some) = CHOOSE t \in T : \A c \in some : t <= TrustOf(c) BY DEF Trust
<1>5. Trust(some) \in T /\ \A c \in some : Trust(some) <= TrustOf(c) BY <1>3, <1>4
<1>6. QED BY <1>5

LEMMA ReadsBuyNothing ==
  ASSUME ReceiptInv, NEW c, outcomes' = outcomes \cup {c}, Klass(c) = "read_only", ReceiptInv'
  PROVE  AtMostShare(ReceiptConfidence', ReceiptConfidence)
<1> DEFINE x == Share(Covered, Effectful)
           w == ClassShare(outcomes)
           h == HalfCharged(Share(Loose, Covered))
           d == Disputed
<1>1. Effectful' = Effectful BY DEF Effectful, IsConsequential
<1>2. Covered' = Covered
  <2>1. c \notin Effectful BY DEF Effectful, IsConsequential
  <2>2. Receipted' \subseteq Receipted \cup {c} /\ Receipted \subseteq Receipted' BY DEF Receipted
  <2>3. QED BY <1>1, <2>1, <2>2 DEF Covered
<1>3. Loose' = Loose BY <1>2 DEF Loose
<1>4. CASE NothingFalsifiable
  <2>1. NothingFalsifiable' BY <1>2, <1>4 DEF NothingFalsifiable
  <2>2. ReceiptConfidence' = <<0, 1>> /\ ReceiptConfidence = <<0, 1>>
    BY <1>4, <2>1 DEF ReceiptConfidence
  <2>3. QED BY <2>2 DEF AtMostShare
<1>5. CASE ~NothingFalsifiable
  <2>1. ~NothingFalsifiable' BY <1>2, <1>5 DEF NothingFalsifiable
  <2>2. ReceiptConfidence = Times(Times(x, w), Times(h, d)) BY <1>5 DEF ReceiptConfidence
  <2>3. ReceiptConfidence' = Times(Times(x, w'), Times(h, d'))
    BY <1>1, <1>2, <1>3, <2>1 DEF ReceiptConfidence
  <2>4. x \in Shares /\ h \in Shares /\ d \in Shares BY ReceiptFactors
  <2>5. w \in Shares /\ w' \in Shares /\ AtMostShare(w', w)
    BY ClassShareIsAShare, ClassShareOnlyFalls
  <2>6. d' \in Shares /\ AtMostShare(d', d)
    <3>1. (\E b \in outcomes : Disagrees(b)) => \E b \in outcomes' : Disagrees(b) OBVIOUS
    <3>2. QED BY <3>1 DEF Disputed, Whole, Shares, AtMostShare
  <2> HIDE DEF x, w, h, d
  <2>7. AtMostShare(Times(x, w'), Times(x, w)) BY <2>4, <2>5, AtMostItself, TimesIsMonotone
  <2>8. AtMostShare(Times(h, d'), Times(h, d)) BY <2>4, <2>6, AtMostItself, TimesIsMonotone
  <2>9. QED BY <2>2, <2>3, <2>4, <2>5, <2>6, <2>7, <2>8, TimesIsAShare, TimesIsMonotone
<1>6. QED BY <1>4, <1>5

LEMMA CallsBuyNothing ==
  ASSUME ReceiptInv, ReceiptInv', [ReceiptNext]_receiptVars
  PROVE  [MoreCallsBuyNothing]_receiptVars
<1> SUFFICES ASSUME ReceiptNext PROVE MoreCallsBuyNothing BY DEF receiptVars
<1>1. PICK b \in Outcomes : outcomes' = outcomes \cup {b} BY DEF ReceiptNext, Return
<1>2. ASSUME NEW c \in outcomes' \ outcomes, Klass(c) = "read_only"
      PROVE  AtMostShare(ReceiptConfidence', ReceiptConfidence)
  <2>1. outcomes' = outcomes \cup {c} BY <1>1
  <2>2. QED BY <1>2, <2>1, ReadsBuyNothing
<1>3. ASSUME Contradicted # {} PROVE Trust(Contradicted)' <= Trust(Contradicted)
  <2>1. Contradicted \subseteq Contradicted' BY <1>1 DEF Contradicted, Receipted
  <2>2. Trust(Contradicted)' = Trust(Contradicted') BY DEF Trust
  <2>3. PICK c \in Contradicted : Trust(Contradicted) = TrustOf(c) BY <1>3, TrustIsLeast
  <2>4. Trust(Contradicted') <= TrustOf(c) BY <2>1, TrustIsLeast
  <2>5. QED BY <2>2, <2>3, <2>4
<1>4. QED BY <1>2, <1>3 DEF MoreCallsBuyNothing

(* Of any calls and receipts, and however many: a receipt copied from      *)
(* another call accuses none, full confidence means every effect could     *)
(* have been contradicted, and neither a read nor a weaker receipt raises  *)
(* what CH07 is worth (_receipt_binding, coverage; R-01, COH-R12, EH-05).  *)
THEOREM ReceiptsAccuseOnlyTheirCall ==
  ClassesAssumption /\ ReceiptsAssumption => (ReceiptSpec => ReceiptsAccuseTheirCall)
<1> SUFFICES ASSUME ClassesAssumption, ReceiptsAssumption
             PROVE  ReceiptSpec => ReceiptsAccuseTheirCall
  OBVIOUS
<1>1. ReceiptInit => ReceiptInv BY FS_EmptySet DEF ReceiptInit, ReceiptInv
<1>2. ReceiptInv /\ [ReceiptNext]_receiptVars => ReceiptInv'
  BY FS_AddElement DEF ReceiptInv, ReceiptNext, Return, receiptVars
<1>3. ReceiptInv =>
        ReceiptTypeOK /\ CopiesDoNotAccuse /\ FullyEvaluatedMeansFalsifiable /\ BlindOnlyOfReads
  <2> SUFFICES ASSUME ReceiptInv
               PROVE  /\ ReceiptTypeOK /\ CopiesDoNotAccuse
                      /\ FullyEvaluatedMeansFalsifiable /\ BlindOnlyOfReads
    OBVIOUS
  <2>1. ReceiptConfidence[1] \in Nat /\ ReceiptConfidence[2] \in Nat
        /\ ReceiptConfidence[1] <= ReceiptConfidence[2]
    BY ReceiptConfidenceIsAShare DEF Shares
  <2>2. ReceiptTypeOK BY <2>1 DEF ReceiptTypeOK, ReceiptInv, AtMostShare, Whole
  <2>3. QED BY <2>2, ReceiptsOfTheCall, FullMeansFalsifiable, BlindOfReads DEF ReceiptHypothesis
<1>4. ReceiptInv /\ ReceiptInv' /\ [ReceiptNext]_receiptVars => [MoreCallsBuyNothing]_receiptVars
  BY CallsBuyNothing
<1>5. QED BY <1>1, <1>2, <1>3, <1>4, PTL DEF ReceiptSpec, ReceiptsAccuseTheirCall
=============================================================================
