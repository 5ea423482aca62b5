--------------------------- MODULE SessionProofs ----------------------------
(***************************************************************************)
(* The sealed session, the pairing of its calls and the approvals of them, *)
(* for every set of events, contents, keys and every ledger:               *)
(* SealedSessionIsFixed of SealedSession, EveryCallPairedOnce of Pairing   *)
(* and the memo and the nonces of Approvals.                               *)
(***************************************************************************)
EXTENDS SealedSession, Pairing, Approvals,
        FiniteSetTheorems, SequenceTheorems, WellFoundedInduction, TLAPS

-----------------------------------------------------------------------------
(* The seal.                                                               *)

(* A remembered value whose token is the present one is the present value, *)
(* unless a change was not announced; and a sealed session announced all.  *)
SealingInv ==
  /\ SealingTypeOK
  /\ \A key \in DOMAIN caches :
       /\ caches[key].token \in Nat \X Nat
       /\ ~unsaid /\ caches[key].token = Token => caches[key].value = Build(key)
  /\ isSealed => ~unsaid
  /\ ~isSealed => revision <= MaxRevision

(* Nothing is remembered yet.                                              *)
LEMMA SealingBegins == ASSUME SealingAssumption, SealingInit PROVE SealingInv
<1>1. held = <<>> /\ DOMAIN caches = {} /\ manifest \in Manifests /\ revision = 0
      /\ isSealed = FALSE /\ unsaid = FALSE
  BY DEF SealingInit, NoCaches
<1>2. held \in Seq(Events) BY <1>1
<1>3. SealingTypeOK
  <2>1. 0 \in 0 .. MaxRevision + 1 BY DEF SealingAssumption
  <2>2. QED BY <1>1, <1>2, <2>1 DEF SealingTypeOK
<1>4. 0 <= MaxRevision BY DEF SealingAssumption
<1>5. QED BY <1>1, <1>3, <1>4 DEF SealingInv

(* Nothing is remembered after a change that is announced.                 *)
LEMMA Announced ==
  ASSUME SealingInv, SealingAssumption, caches' = NoCaches, unsaid' = FALSE,
         revision <= MaxRevision, revision' = revision + 1,
         isSealed' \/ revision < MaxRevision, held' \in Seq(Events),
         manifest' = manifest, isSealed' \in BOOLEAN
  PROVE  SealingInv'
<1>1. DOMAIN caches' = {} BY DEF NoCaches
<1>2. revision' \in 0 .. MaxRevision + 1
  BY DEF SealingInv, SealingTypeOK, SealingAssumption
<1>3. SealingTypeOK' BY <1>1, <1>2 DEF SealingInv, SealingTypeOK
<1>4. ~isSealed' => revision' <= MaxRevision
  BY DEF SealingInv, SealingTypeOK, SealingAssumption
<1>5. QED BY <1>1, <1>3, <1>4 DEF SealingInv

(* Every other operation leaves what is remembered true, or says it did.   *)
LEMMA SealingKeeps ==
  ASSUME SealingAssumption, SealingInv, [SealingNext]_sealingVars
  PROVE  SealingInv' /\ SealedNeverChanges
<1> USE DEF SealingInv
<1>1. ASSUME NEW key \in Cached, AskFor(key) PROVE SealingInv' /\ SealedNeverChanges
  <2>1. /\ caches' = [k \in DOMAIN caches \cup {key} |->
                  IF k = key THEN [token |-> Token, value |-> Served(key)] ELSE caches[k]]
        /\ UNCHANGED <<held, manifest, revision, isSealed, unsaid>>
    BY <1>1 DEF AskFor
  <2>2. Token' = Token /\ \A k : Build(k)' = Build(k) BY <2>1 DEF Token, Build
  <2>3. ~unsaid => Served(key) = Build(key) BY DEF Served, Hit
  <2>4. Token \in Nat \X Nat /\ Token[1] = revision /\ Token[2] = Len(held)
    BY DEF Token, SealingTypeOK
  <2>5. SealingTypeOK'
    <3>1. \A k \in DOMAIN caches' :
            caches'[k].token[1] <= revision /\ caches'[k].token[2] <= Len(held)
      BY <2>1, <2>4 DEF SealingTypeOK
    <3>2. QED BY <2>1, <3>1 DEF SealingTypeOK
  <2>6. SealingInv' BY <2>1, <2>2, <2>3, <2>4, <2>5
  <2>7. ASSUME isSealed, NEW k \in Cached PROVE Served(k)' = Served(k)
    <3>1. ~unsaid /\ Served(k) = Build(k) BY <2>7 DEF Served, Hit
    <3>2. Served(k)' = Build(k)' BY <3>1, <2>1, <2>2, <2>6 DEF Served, Hit
    <3>3. QED BY <3>1, <3>2, <2>2
  <2>8. QED BY <2>1, <2>6, <2>7 DEF SealedNeverChanges
<1>2. ASSUME NEW e \in Events, AddEvent(e) PROVE SealingInv' /\ SealedNeverChanges
  <2>1. held' \in Seq(Events) BY <1>2 DEF AddEvent, SealingTypeOK
  <2>2. revision <= MaxRevision
    BY <1>2 DEF AddEvent, SealingTypeOK, SealingAssumption
  <2>3. QED BY <1>2, <2>1, <2>2, Announced DEF AddEvent, SealedNeverChanges, SealingTypeOK
<1>3. ASSUME NEW e \in Events, AppendBare(e) PROVE SealingInv' /\ SealedNeverChanges
  <2>1. /\ ~isSealed /\ held' = Append(held, e)
        /\ UNCHANGED <<manifest, revision, caches, isSealed, unsaid>>
    BY <1>3 DEF AppendBare
  <2>2. held' \in Seq(Events) /\ Len(held') = Len(held) + 1 /\ Len(held) \in Nat
    BY <2>1 DEF SealingTypeOK
  <2>3. \A k \in DOMAIN caches : caches[k].token # Token'
    BY <2>1, <2>2 DEF Token, SealingTypeOK
  <2>4. SealingTypeOK' BY <2>1, <2>2 DEF SealingTypeOK
  <2>5. QED BY <2>1, <2>3, <2>4 DEF SealedNeverChanges
<1>4. ASSUME NEW i \in DOMAIN held, NEW e \in Events, Replace(i, e)
      PROVE  SealingInv' /\ SealedNeverChanges
  <2>1. /\ ~isSealed /\ held' = [held EXCEPT ![i] = e] /\ unsaid' = TRUE
        /\ UNCHANGED <<manifest, revision, caches, isSealed>>
    BY <1>4 DEF Replace
  <2>2. held' \in Seq(Events) /\ Len(held') = Len(held) BY <2>1 DEF SealingTypeOK
  <2>3. SealingTypeOK' BY <2>1, <2>2 DEF SealingTypeOK
  <2>4. QED BY <2>1, <2>3 DEF SealedNeverChanges
<1>5. ASSUME NEW m \in Manifests, Rebind(m) PROVE SealingInv' /\ SealedNeverChanges
  BY <1>5 DEF Rebind, SealingTypeOK, SealedNeverChanges
<1>6. ASSUME Invalidate PROVE SealingInv' /\ SealedNeverChanges
  <2>1. revision <= MaxRevision
    BY <1>6 DEF Invalidate, SealingTypeOK, SealingAssumption
  <2>2. SealingInv' BY <1>6, <2>1, Announced DEF Invalidate, SealingTypeOK
  <2>3. ASSUME isSealed, NEW k \in Cached PROVE Served(k)' = Served(k)
    <3>1. Served(k) = Build(k) BY <2>3 DEF Served, Hit
    <3>2. Served(k)' = Build(k)' BY <1>6 DEF Served, Hit, Invalidate, NoCaches
    <3>3. QED BY <3>1, <3>2, <1>6 DEF Build, Invalidate
  <2>4. QED BY <1>6, <2>2, <2>3 DEF SealedNeverChanges, Invalidate
<1>7. ASSUME SealSession PROVE SealingInv' /\ SealedNeverChanges
  <2>1. revision <= MaxRevision
    BY <1>7 DEF SealSession, SealingTypeOK, SealingAssumption
  <2>2. QED BY <1>7, <2>1, Announced DEF SealSession, SealedNeverChanges, SealingTypeOK
<1>8. ASSUME UNCHANGED sealingVars PROVE SealingInv' /\ SealedNeverChanges
  BY <1>8 DEF sealingVars, SealedNeverChanges, SealingTypeOK, Token, Build, Served, Hit
<1>9. QED BY <1>1, <1>2, <1>3, <1>4, <1>5, <1>6, <1>7, <1>8 DEF SealingNext

(* A session answers truly while it is built, unless a change in place was *)
(* not announced; once sealed it answers truly, and the same for ever.     *)
THEOREM SealedStaysFixed == ASSUME SealingAssumption PROVE SealingSpec => SealedSessionIsFixed
<1>1. SealingInit => SealingInv BY SealingBegins
<1>2. SealingInv /\ [SealingNext]_sealingVars => SealingInv' /\ SealedNeverChanges
  BY SealingKeeps
<1>3. SealingInv => SealingTypeOK /\ SealedAnswersTruly /\ StreamedAnswersTruly
  BY DEF SealingInv, SealedAnswersTruly, StreamedAnswersTruly, Served, Hit
<1>4. QED BY <1>1, <1>2, <1>3, PTL DEF SealingSpec, SealedSessionIsFixed

-----------------------------------------------------------------------------
(* Dedup and pairing.                                                      *)

(* A set of natural numbers has a least one.                               *)
LEMMA LeastOf ==
  ASSUME NEW S, S \subseteq Nat, S # {}
  PROVE  \E m \in S : \A n \in S : m =< n
<1> DEFINE below == {p \in Nat \X Nat : p[1] < p[2]}
<1>1. IsWellFoundedOn(below, Nat) BY NatLessThanWellFounded DEF OpToRel
<1> HIDE DEF below
<1>2. PICK m \in S : \A n \in S : ~(<<n, m>> \in below) BY <1>1, WFMin, Zenon
<1>3. m \in Nat OBVIOUS
<1>4. ASSUME NEW n \in S PROVE m =< n
  <2>1. n \in Nat /\ <<n, m>> \notin below BY <1>2
  <2>2. ~(n < m) BY <2>1, <1>3 DEF below
  <2>3. QED BY <2>1, <2>2, <1>3
<1>5. QED BY <1>4

(* A sequence that goes on with x where s ends is s with x at its end.     *)
LEMMA OneLonger ==
  ASSUME NEW S, NEW s \in Seq(S), NEW x \in S, NEW t \in Seq(S), Len(t) = Len(s) + 1,
         \A n \in 1 .. Len(s) : t[n] = s[n], t[Len(s) + 1] = x
  PROVE  t = Append(s, x)
<1> DEFINE u == Append(s, x)
<1>1. /\ u \in Seq(S) /\ Len(u) = Len(s) + 1 /\ Len(s) \in Nat
      /\ \A n \in 1 .. Len(s) : u[n] = s[n]
      /\ u[Len(s) + 1] = x
  BY AppendProperties
<1> HIDE DEF u
<1>2. \A n \in 1 .. Len(t) : t[n] = u[n] BY <1>1
<1>3. t = u BY <1>1, <1>2, SeqEqual
<1>4. QED BY <1>3 DEF u

CallRecords ==
  [from : Nat, span : {e.span : e \in Deliveries}, name : {e.name : e \in Deliveries},
   state : {"open", "complete", "orphan_end", "duplicate_end", "mismatched_end"}, to : Nat]

(* What the pairing of the events taken says of one call.                  *)
Good(k, taken) ==
  /\ k.state \in {"open", "complete"} =>
       /\ k.from \in DOMAIN taken /\ taken[k.from].type = "tool_start"
       /\ k.name = taken[k.from].name /\ k.span = taken[k.from].span
  /\ k.state \notin {"open", "complete"} => k.from = 0
  /\ k.state = "open" => k.to = 0
  /\ k.state # "open" => k.to \in DOMAIN taken /\ IsEnd(taken[k.to])
  /\ k.state = "complete" =>
       /\ k.from < k.to /\ k.name = taken[k.to].name
       /\ taken[k.to].span \in {NoId, k.span}

(* The calls are those of the events taken, each event in one of them.     *)
CallsOf(cs, taken) ==
  /\ cs \in Seq(CallRecords)
  /\ \A c \in DOMAIN cs : Good(cs[c], taken)
  /\ \A n \in DOMAIN taken :
       /\ taken[n].type = "tool_start" => \E c \in DOMAIN cs : cs[c].from = n
       /\ IsEnd(taken[n]) => \E c \in DOMAIN cs : cs[c].to = n
  /\ \A c, d \in DOMAIN cs :
       /\ cs[c].from = cs[d].from /\ cs[c].from > 0 => c = d
       /\ cs[c].to = cs[d].to /\ cs[c].to > 0 => c = d

LEMMA GoodStays ==
  ASSUME NEW taken \in Seq(Deliveries), NEW e, NEW k, Good(k, taken)
  PROVE  Good(k, Append(taken, e))
<1>1. \A n \in DOMAIN taken : n \in DOMAIN Append(taken, e) /\ Append(taken, e)[n] = taken[n]
  OBVIOUS
<1>2. QED BY <1>1 DEF Good

(* One more event, and the call it is put down as.                         *)
LEMMA OneMoreCall ==
  ASSUME NEW taken \in Seq(Deliveries), NEW e \in Deliveries, NEW cs, CallsOf(cs, taken),
         NEW k \in CallRecords, Good(k, Append(taken, e)),
         \/ k.from = Len(taken) + 1 /\ k.to = 0 /\ ~IsEnd(e)
         \/ k.to = Len(taken) + 1 /\ k.from = 0 /\ e.type # "tool_start"
  PROVE  CallsOf(Append(cs, k), Append(taken, e))
<1> DEFINE more == Append(taken, e)
           all  == Append(cs, k)
           N    == Len(taken)
           C    == Len(cs)
<1>1. /\ N \in Nat /\ DOMAIN taken = 1 .. N /\ DOMAIN more = 1 .. N + 1 /\ more[N + 1] = e
      /\ \A n \in 1 .. N : more[n] = taken[n]
  OBVIOUS
<1>2. cs \in Seq(CallRecords) BY DEF CallsOf
<1>3. /\ C \in Nat /\ DOMAIN cs = 1 .. C /\ DOMAIN all = 1 .. C + 1 /\ all[C + 1] = k
      /\ \A c \in 1 .. C : all[c] = cs[c] /\ cs[c] \in CallRecords
      /\ all \in Seq(CallRecords)
  BY <1>2
<1>4. \A c \in 1 .. C : cs[c].from \in 0 .. N /\ cs[c].to \in 0 .. N
  BY <1>1, <1>3 DEF CallsOf, Good, CallRecords
<1> HIDE DEF more, all, N, C
<1>5. \A c \in DOMAIN all : Good(all[c], more)
  BY <1>3, GoodStays DEF CallsOf, more
<1>6. ASSUME NEW n \in DOMAIN more
      PROVE  /\ more[n].type = "tool_start" => \E c \in DOMAIN all : all[c].from = n
             /\ IsEnd(more[n]) => \E c \in DOMAIN all : all[c].to = n
  <2>1. CASE n \in 1 .. N
    <3>1. /\ taken[n].type = "tool_start" => \E c \in DOMAIN cs : cs[c].from = n
          /\ IsEnd(taken[n]) => \E c \in DOMAIN cs : cs[c].to = n
      BY <1>1, <2>1 DEF CallsOf
    <3>2. QED BY <3>1, <1>1, <1>3, <2>1
  <2>2. CASE n = N + 1
    <3>1. more[n] = e /\ C + 1 \in DOMAIN all /\ all[C + 1] = k BY <2>2, <1>1, <1>3
    <3>2. QED BY <3>1, <2>2 DEF N, IsEnd
  <2>3. QED BY <2>1, <2>2, <1>1
<1>7. ASSUME NEW c \in DOMAIN all, NEW d \in DOMAIN all
      PROVE  /\ all[c].from = all[d].from /\ all[c].from > 0 => c = d
             /\ all[c].to = all[d].to /\ all[c].to > 0 => c = d
  <2>1. CASE c \in 1 .. C /\ d \in 1 .. C BY <2>1, <1>3 DEF CallsOf
  <2>2. k.from \in {0, N + 1} /\ k.to \in {0, N + 1} BY DEF N
  <2>3. CASE c \in 1 .. C /\ d = C + 1 BY <2>2, <2>3, <1>1, <1>3, <1>4
  <2>4. CASE c = C + 1 /\ d \in 1 .. C BY <2>2, <2>4, <1>1, <1>3, <1>4
  <2>5. QED BY <2>1, <2>3, <2>4, <1>3
<1>8. QED BY <1>3, <1>5, <1>6, <1>7 DEF CallsOf, more, all

(* An end that closes an open call.                                        *)
LEMMA OneMoreEnd ==
  ASSUME NEW taken \in Seq(Deliveries), NEW e \in Deliveries, NEW cs, CallsOf(cs, taken),
         IsEnd(e), NEW b \in DOMAIN cs, cs[b].state = "open", cs[b].name = e.name,
         e.span \in {NoId, cs[b].span}
  PROVE  CallsOf([cs EXCEPT ![b].state = "complete", ![b].to = Len(taken) + 1],
                 Append(taken, e))
<1> DEFINE more == Append(taken, e)
           all  == [cs EXCEPT ![b].state = "complete", ![b].to = Len(taken) + 1]
           N    == Len(taken)
           C    == Len(cs)
<1>1. /\ N \in Nat /\ DOMAIN taken = 1 .. N /\ DOMAIN more = 1 .. N + 1 /\ more[N + 1] = e
      /\ \A n \in 1 .. N : more[n] = taken[n]
  OBVIOUS
<1>2. cs \in Seq(CallRecords) BY DEF CallsOf
<1>3. /\ C \in Nat /\ DOMAIN cs = 1 .. C /\ DOMAIN all = 1 .. C /\ Len(all) = C
      /\ \A c \in 1 .. C : cs[c] \in CallRecords /\ (c # b => all[c] = cs[c])
  BY <1>2
<1>4. /\ all[b].from = cs[b].from /\ all[b].to = N + 1 /\ all[b].state = "complete"
      /\ all[b].name = cs[b].name /\ all[b].span = cs[b].span /\ all[b] \in CallRecords
  <2>1. cs[b] \in CallRecords BY <1>3
  <2>2. all[b] = [[cs[b] EXCEPT !.state = "complete"] EXCEPT !.to = N + 1] BY <1>3
  <2> HIDE DEF all, N, more
  <2>3. N + 1 \in Nat BY <1>1
  <2>4. all[b] = [from |-> cs[b].from, span |-> cs[b].span, name |-> cs[b].name,
                  state |-> "complete", to |-> N + 1]
    BY <2>1, <2>2 DEF CallRecords
  <2>5. QED BY <2>1, <2>3, <2>4 DEF CallRecords
<1>5. \A c \in 1 .. C : cs[c].from \in 0 .. N /\ cs[c].to \in 0 .. N
  BY <1>1, <1>3 DEF CallsOf, Good, CallRecords
<1>6. all \in Seq(CallRecords)
  <2>1. all = [c \in 1 .. C |-> all[c]] BY <1>3
  <2>2. \A c \in 1 .. C : all[c] \in CallRecords BY <1>3, <1>4
  <2> HIDE DEF all, C
  <2>3. all \in [1 .. C -> CallRecords] BY <2>1, <2>2
  <2>4. QED BY <2>3, <1>3
<1> HIDE DEF more, all, N, C
<1>7. ASSUME NEW c \in DOMAIN all PROVE Good(all[c], more)
  <2>1. CASE c # b BY <2>1, <1>3, GoodStays DEF CallsOf, more
  <2>2. CASE c = b
    <3>1. Good(cs[b], taken) BY DEF CallsOf
    <3>2. cs[b].from \in 1 .. N BY <3>1, <1>1 DEF Good
    <3>3. QED BY <2>2, <3>1, <3>2, <1>1, <1>4 DEF Good
  <2>3. QED BY <2>1, <2>2
<1>8. ASSUME NEW n \in DOMAIN more
      PROVE  /\ more[n].type = "tool_start" => \E c \in DOMAIN all : all[c].from = n
             /\ IsEnd(more[n]) => \E c \in DOMAIN all : all[c].to = n
  <2>1. CASE n \in 1 .. N
    <3>1. ASSUME taken[n].type = "tool_start" PROVE \E c \in DOMAIN all : all[c].from = n
      <4>1. PICK c \in DOMAIN cs : cs[c].from = n BY <3>1, <1>1, <2>1 DEF CallsOf
      <4>2. all[c].from = n BY <4>1, <1>3, <1>4
      <4>3. QED BY <4>2, <1>3
    <3>2. ASSUME IsEnd(taken[n]) PROVE \E c \in DOMAIN all : all[c].to = n
      <4>1. PICK c \in DOMAIN cs : cs[c].to = n BY <3>2, <1>1, <2>1 DEF CallsOf
      <4>2. cs[b].to = 0 BY DEF CallsOf, Good
      <4>3. all[c].to = n BY <4>1, <4>2, <2>1, <1>3
      <4>4. QED BY <4>3, <1>3, <4>1
    <3>3. QED BY <3>1, <3>2, <1>1, <2>1
  <2>2. CASE n = N + 1
    <3>1. more[n] = e /\ b \in DOMAIN all /\ all[b].to = n BY <2>2, <1>1, <1>3, <1>4
    <3>2. QED BY <3>1 DEF IsEnd
  <2>3. QED BY <2>1, <2>2, <1>1
<1>9. ASSUME NEW c \in DOMAIN all, NEW d \in DOMAIN all
      PROVE  /\ all[c].from = all[d].from /\ all[c].from > 0 => c = d
             /\ all[c].to = all[d].to /\ all[c].to > 0 => c = d
  <2>1. all[c].from = cs[c].from /\ all[d].from = cs[d].from BY <1>3, <1>4
  <2>2. /\ cs[c].from = cs[d].from /\ cs[c].from > 0 => c = d
        /\ cs[c].to = cs[d].to /\ cs[c].to > 0 => c = d
    BY <1>3 DEF CallsOf
  <2>3. all[c].to = all[d].to /\ all[c].to > 0 => c = d
    <3>1. CASE c # b /\ d # b BY <3>1, <2>2, <1>3
    <3>2. CASE c = b /\ d # b BY <3>2, <1>1, <1>3, <1>4, <1>5
    <3>3. CASE c # b /\ d = b BY <3>3, <1>1, <1>3, <1>4, <1>5
    <3>4. CASE c = b /\ d = b BY <3>4
    <3>5. QED BY <3>1, <3>2, <3>3, <3>4
  <2>4. QED BY <2>1, <2>2, <2>3
<1>10. QED BY <1>6, <1>7, <1>8, <1>9 DEF CallsOf, more, all, N

(* An event that pairing passes over.                                      *)
LEMMA OneMoreOther ==
  ASSUME NEW taken \in Seq(Deliveries), NEW e \in Deliveries, NEW cs, CallsOf(cs, taken),
         e.type # "tool_start", ~IsEnd(e)
  PROVE  CallsOf(cs, Append(taken, e))
<1> DEFINE more == Append(taken, e)
<1>1. /\ DOMAIN more = DOMAIN taken \cup {Len(taken) + 1} /\ more[Len(taken) + 1] = e
      /\ \A n \in DOMAIN taken : more[n] = taken[n]
  OBVIOUS
<1>2. \A c \in DOMAIN cs : Good(cs[c], more) BY GoodStays DEF CallsOf
<1> HIDE DEF more
<1>3. QED BY <1>1, <1>2 DEF CallsOf, more

-----------------------------------------------------------------------------
(* The events that pairing has taken.                                      *)
Took == [n \in 1 .. read |-> Ev(n)]

(* What dedup remembers is of kept events, and what it dropped it would    *)
(* drop again.                                                             *)
DedupInv ==
  /\ \A n \in DOMAIN kept : kept[n] \in 1 .. at
  /\ \A seen \in seenIds : \E m \in Range(kept) :
       events[m].id # NoId /\ seen = <<events[m].id, RestampKey(events[m])>>
  /\ \A n \in 1 .. at : n \in Range(kept) \/ Redelivered(events[n])

PairingInv ==
  /\ PairingTypeOK
  /\ DedupInv /\ FirstCopyKept
  /\ CallsOf(calls, Took)
  /\ IndicesAgree

(* Nothing is read yet.                                                    *)
LEMMA PairingBegins == ASSUME PairingAssumption, PairingInit PROVE PairingInv /\ MatchingBegins
<1>1. /\ events \in Seq(Deliveries) /\ at = 0 /\ seenIds = {} /\ kept = <<>> /\ conflicts = 0
      /\ read = 0 /\ calls = <<>> /\ openBySpan = {} /\ openByName = {}
  BY DEF PairingInit, PairingAssumption
<1>2. Len(events) \in Nat /\ kept \in Seq(1 .. Len(events)) /\ Len(kept) = 0
      /\ DOMAIN kept = {} /\ DOMAIN calls = {} /\ 1 .. read = {} /\ 1 .. at = {}
  BY <1>1
<1>3. PairingTypeOK BY <1>1, <1>2 DEF PairingTypeOK
<1>4. DedupInv /\ FirstCopyKept BY <1>1, <1>2 DEF DedupInv, FirstCopyKept
<1>5. Open = {} /\ Closed = {} BY <1>2 DEF Open, Closed
<1>6. IndicesAgree BY <1>1, <1>5 DEF IndicesAgree
<1>7. Took = <<>> BY <1>2 DEF Took
<1>8. CallsOf(calls, Took)
  <2>1. DOMAIN Took = {} /\ calls \in Seq(CallRecords) BY <1>1, <1>2, <1>7
  <2>2. QED BY <2>1, <1>2 DEF CallsOf
<1>9. MatchingBegins
  <2>1. [n \in 1 .. read |-> Seen(Ev(n))] = <<>> BY <1>2
  <2>2. QED BY <2>1, <1>5 DEF MatchingBegins, Abstract!Init
<1>10. QED BY <1>3, <1>4, <1>6, <1>8, <1>9 DEF PairingInv

(* A step of dedup: pairing has not begun to read what is still to come.   *)
LEMMA DedupKeeps ==
  ASSUME PairingInv, DedupStep
  PROVE  PairingInv' /\ UNCHANGED Abstract!vars /\ OldestFirst
<1> DEFINE e == events[at + 1]
           N == Len(events)
<1>1. /\ at < N /\ at' = at + 1
      /\ UNCHANGED <<events, read, calls, openBySpan, openByName, seenSpans>>
      /\ \/ Redelivered(e) /\ UNCHANGED <<seenIds, kept, conflicts>>
         \/ /\ ~Redelivered(e)
            /\ kept' = Append(kept, at + 1)
            /\ conflicts' = conflicts + (IF IdTaken(e) THEN 1 ELSE 0)
            /\ seenIds' = IF e.id = NoId \/ IdTaken(e) THEN seenIds
                          ELSE seenIds \cup {<<e.id, RestampKey(e)>>}
  BY DEF DedupStep, Drop, KeepEvent, Paired
<1>2. /\ events \in Seq(Deliveries) /\ N \in Nat /\ at \in 0 .. N
      /\ kept \in Seq(1 .. N) /\ conflicts \in Nat /\ read \in 0 .. Len(kept)
  BY DEF PairingInv, PairingTypeOK
<1> HIDE DEF N
<1>3. /\ kept' \in Seq(1 .. N) /\ Len(kept') \in Nat /\ Len(kept) =< Len(kept')
      /\ Range(kept) \subseteq Range(kept')
      /\ \A n \in 1 .. Len(kept) : kept'[n] = kept[n]
      /\ \A n \in DOMAIN kept' : kept'[n] \in 1 .. at'
  <2>1. \A n \in DOMAIN kept : kept[n] \in 1 .. at BY DEF PairingInv, DedupInv
  <2>2. CASE kept' = kept BY <2>1, <2>2, <1>1, <1>2
  <2>3. CASE kept' = Append(kept, at + 1)
    <3>1. /\ at + 1 \in 1 .. N /\ Len(kept') = Len(kept) + 1
          /\ DOMAIN kept = 1 .. Len(kept) /\ DOMAIN kept' = 1 .. Len(kept) + 1
          /\ \A n \in 1 .. Len(kept) : kept'[n] = kept[n]
          /\ kept'[Len(kept) + 1] = at + 1 /\ Len(kept) \in Nat
      BY <2>3, <1>1, <1>2
    <3>2. kept' \in Seq(1 .. N) BY <2>3, <3>1, <1>2
    <3>3. Range(kept) \subseteq Range(kept') BY <3>1 DEF Range
    <3>4. \A n \in DOMAIN kept' : kept'[n] \in 1 .. at' BY <2>1, <3>1, <1>1, <1>2
    <3>5. QED BY <3>1, <3>2, <3>3, <3>4
  <2>4. QED BY <2>2, <2>3, <1>1
<1>4. \/ Redelivered(e) /\ Range(kept') = Range(kept) /\ seenIds' = seenIds
      \/ /\ ~Redelivered(e) /\ Range(kept') = Range(kept) \cup {at + 1}
         /\ seenIds \subseteq seenIds'
         /\ \A seen \in seenIds' : seen \in seenIds \/ (e.id # NoId /\ seen = <<e.id, RestampKey(e)>>)
  <2>1. CASE kept' = Append(kept, at + 1)
    <3>1. /\ DOMAIN kept = 1 .. Len(kept) /\ DOMAIN kept' = 1 .. Len(kept) + 1
          /\ kept'[Len(kept) + 1] = at + 1 /\ Len(kept) \in Nat
      BY <2>1, <1>2
    <3>2. Range(kept') = Range(kept) \cup {at + 1} BY <3>1, <1>3 DEF Range
    <3>3. QED BY <3>2, <1>1
  <2>2. QED BY <2>1, <1>1
<1>5. ASSUME NEW d, Redelivered(d)
      PROVE  \/ \E n \in Range(kept') : events[n] = d
             \/ d.id # NoId /\ <<d.id, RestampKey(d)>> \in seenIds'
  BY <1>1, <1>3, <1>4, <1>5 DEF Redelivered
<1>6. DedupInv'
  <2>1. \A seen \in seenIds' : \E m \in Range(kept') :
          events[m].id # NoId /\ seen = <<events[m].id, RestampKey(events[m])>>
    <3> TAKE seen \in seenIds'
    <3>1. CASE seen \in seenIds BY <3>1, <1>3 DEF PairingInv, DedupInv
    <3>2. CASE seen \notin seenIds BY <3>2, <1>4
    <3>3. QED BY <3>1, <3>2
  <2>2. \A n \in 1 .. at' :
          \/ n \in Range(kept')
          \/ \E m \in Range(kept') : events[m] = events[n]
          \/ events[n].id # NoId /\ <<events[n].id, RestampKey(events[n])>> \in seenIds'
    <3> TAKE n \in 1 .. at'
    <3>1. CASE n \in 1 .. at BY <3>1, <1>3, <1>5 DEF PairingInv, DedupInv
    <3>2. CASE n = at + 1 BY <3>2, <1>4, <1>5
    <3>3. QED BY <3>1, <3>2, <1>1, <1>2
  <2>3. QED BY <2>1, <2>2, <1>1, <1>3 DEF DedupInv, Redelivered, RestampKey
<1>7. FirstCopyKept'
  <2>1. ASSUME NEW n \in 1 .. at'
        PROVE  \E m \in Range(kept') :
                 /\ m =< n
                 /\ \/ events[m] = events[n]
                    \/ events[n].id # NoId /\ RestampKey(events[m]) = RestampKey(events[n])
    <3>1. CASE n \in 1 .. at BY <3>1, <1>3 DEF PairingInv, FirstCopyKept
    <3>2. CASE n = at + 1 /\ Redelivered(e)
      <4>1. \A m \in Range(kept) : m =< n
        BY <3>2, <1>2 DEF PairingInv, DedupInv, Range
      <4>2. \E m \in Range(kept) : \/ events[m] = e
                                   \/ e.id # NoId /\ RestampKey(events[m]) = RestampKey(e)
        BY <3>2 DEF Redelivered, PairingInv, DedupInv
      <4>3. QED BY <4>1, <4>2, <3>2, <1>3
    <3>3. CASE n = at + 1 /\ ~Redelivered(e) BY <3>3, <1>2, <1>4
    <3>4. QED BY <3>1, <3>2, <3>3, <1>1, <1>2
  <2>2. ASSUME NEW n \in 1 .. at', NEW m \in 1 .. n - 1, events[m] = events[n]
        PROVE  n \notin Range(kept')
    <3>1. CASE n \in 1 .. at
      <4>1. n \notin Range(kept) BY <3>1, <2>2 DEF PairingInv, FirstCopyKept
      <4>2. QED BY <4>1, <3>1, <1>2, <1>4
    <3>2. CASE n = at + 1
      <4>1. m \in 1 .. at BY <3>2, <1>2
      <4>2. Redelivered(e)
        BY <4>1, <2>2, <3>2 DEF PairingInv, DedupInv, Redelivered
      <4>3. n \notin Range(kept) BY <3>2, <1>2 DEF PairingInv, DedupInv, Range
      <4>4. QED BY <4>2, <4>3, <1>4
    <3>3. QED BY <3>1, <3>2, <1>1, <1>2
  <2>3. QED BY <2>1, <2>2, <1>1 DEF FirstCopyKept, RestampKey
<1>8. \A n \in 1 .. read : Ev(n)' = Ev(n)
  <2>1. \A n \in 1 .. read : kept'[n] = kept[n] BY <1>2, <1>3
  <2>2. QED BY <2>1, <1>1 DEF Ev
<1>9. Took' = Took BY <1>1, <1>8 DEF Took
<1>10. CallsOf(calls, Took)' BY <1>1, <1>9 DEF PairingInv
<1>11. Open' = Open /\ Closed' = Closed BY <1>1 DEF Open, Closed
<1>12. IndicesAgree' BY <1>1, <1>11 DEF PairingInv, IndicesAgree
<1>13. PairingTypeOK'
  <2>1. conflicts' \in Nat BY <1>1, <1>2
  <2>2. at' \in 0 .. N /\ read' \in 0 .. Len(kept') BY <1>1, <1>2, <1>3
  <2>3. QED BY <1>1, <1>2, <1>3, <2>1, <2>2 DEF PairingInv, PairingTypeOK, N
<1>14. UNCHANGED Abstract!vars
  <2>1. [n \in 1 .. read |-> Seen(Ev(n))]' = [n \in 1 .. read |-> Seen(Ev(n))]
    BY <1>1, <1>8 DEF Seen
  <2>2. QED BY <2>1, <1>1, <1>11 DEF Abstract!vars
<1>15. OldestFirst BY <1>1 DEF OldestFirst, Open
<1>16. QED BY <1>6, <1>7, <1>10, <1>12, <1>13, <1>14, <1>15 DEF PairingInv

-----------------------------------------------------------------------------
(* What CallMatching sees of the events, the open calls and the completed. *)
Told    == [n \in 1 .. read |-> Seen(Ev(n))]
Opened  == {calls[c].from : c \in Open}
Matched == {<<calls[c].from, calls[c].to>> : c \in Closed}

(* Pairing reads one event, and dedup is done.                             *)
LEMMA OneRead ==
  ASSUME PairingInv, ReadKept
  PROVE  /\ read \in Nat /\ read' = read + 1 /\ E \in Deliveries
         /\ Took \in Seq(Deliveries) /\ Len(Took) = read /\ Took' = Append(Took, E)
         /\ Len(Told) = read /\ Told' = Append(Told, Seen(E))
         /\ \A n \in 1 .. read : Took[n] = Ev(n) /\ Told[n] = Seen(Took[n])
         /\ DedupInv' /\ FirstCopyKept'
<1>1. /\ read < Len(kept) /\ read' = read + 1
      /\ UNCHANGED <<events, at, seenIds, kept, conflicts>>
  BY DEF ReadKept
<1>2. /\ events \in Seq(Deliveries) /\ Len(events) \in Nat
      /\ kept \in Seq(1 .. Len(events)) /\ read \in 0 .. Len(kept) /\ Len(kept) \in Nat
  BY DEF PairingInv, PairingTypeOK
<1>3. \A n \in 1 .. read + 1 : Ev(n) \in Deliveries /\ Ev(n)' = Ev(n)
  <2> TAKE n \in 1 .. read + 1
  <2>1. kept[n] \in 1 .. Len(events) BY <1>1, <1>2
  <2>2. events[kept[n]] \in Deliveries BY <2>1, <1>2
  <2>3. QED BY <2>2, <1>1 DEF Ev
<1>4. read \in Nat /\ Ev(read + 1) = E /\ read + 1 \in 1 .. read + 1 BY <1>2 DEF Ev, E
<1>5. Took' = [n \in 1 .. read + 1 |-> Ev(n)] BY <1>1, <1>3 DEF Took
<1>6. Told' = [n \in 1 .. read + 1 |-> Seen(Ev(n))] BY <1>1, <1>3 DEF Told, Seen
<1>7. Took \in Seq(Deliveries) /\ Len(Took) = read
  BY <1>3, <1>4 DEF Took
<1>14. \A n \in 1 .. read : Took[n] = Ev(n) /\ Told[n] = Seen(Ev(n)) BY DEF Took, Told
<1>8. Told \in Seq({Seen(e) : e \in Deliveries}) /\ Len(Told) = read
  BY <1>3, <1>4 DEF Told
<1>9. Took' = Append(Took, E)
  <2>1. Took' \in Seq(Deliveries) /\ Len(Took') = read + 1 BY <1>3, <1>4, <1>5
  <2>2. (\A n \in 1 .. read : Took'[n] = Took[n]) /\ Took'[read + 1] = E
    BY <1>4, <1>5, <1>14
  <2>3. E \in Deliveries BY <1>3, <1>4
  <2>4. QED BY <2>1, <2>2, <2>3, <1>7, OneLonger
<1>10. Told' = Append(Told, Seen(E))
  <2> DEFINE all == {Seen(e) : e \in Deliveries}
  <2>1. Told' \in Seq(all) /\ Len(Told') = read + 1 BY <1>3, <1>4, <1>6
  <2>2. (\A n \in 1 .. read : Told'[n] = Told[n]) /\ Told'[read + 1] = Seen(E)
    BY <1>4, <1>6, <1>14
  <2>3. Seen(E) \in all BY <1>3, <1>4
  <2>4. Told \in Seq(all) /\ Len(Told) = read BY <1>8
  <2> HIDE DEF all
  <2>5. QED BY <2>1, <2>2, <2>3, <2>4, OneLonger
<1>11. DedupInv' BY <1>1 DEF PairingInv, DedupInv, Redelivered, RestampKey
<1>12. FirstCopyKept' BY <1>1 DEF PairingInv, FirstCopyKept, RestampKey
<1>13. QED BY <1>1, <1>3, <1>4, <1>7, <1>8, <1>9, <1>10, <1>11, <1>12 DEF Took, Told

(* The types after an event was taken, from those of its call.             *)
LEMMA PairedTypes ==
  ASSUME PairingInv, ReadKept, CallsOf(calls, Took)'
  PROVE  PairingTypeOK'
<1>1. /\ read < Len(kept) /\ read' = read + 1
      /\ UNCHANGED <<events, at, seenIds, kept, conflicts>>
  BY DEF ReadKept
<1>2. read' \in 0 .. Len(kept) BY <1>1 DEF PairingInv, PairingTypeOK
<1>3. DOMAIN Took' = 1 .. read' /\ read' \in Nat BY <1>2 DEF Took
<1>4. \A c \in DOMAIN calls' : calls'[c] \in CallRecords /\ Good(calls'[c], Took')
  BY DEF CallsOf
<1>5. \A c \in DOMAIN calls' :
        /\ calls'[c].from \in 0 .. read' /\ calls'[c].to \in 0 .. read'
        /\ calls'[c].state \in
             {"open", "complete", "orphan_end", "duplicate_end", "mismatched_end"}
  BY <1>3, <1>4 DEF CallRecords, Good
<1>6. QED BY <1>1, <1>2, <1>5 DEF PairingInv, PairingTypeOK

(* A call is added to the calls.                                           *)
LEMMA CallAdded ==
  ASSUME PairingInv, NEW k, calls' = Append(calls, k)
  PROVE  /\ Len(calls) \in Nat /\ DOMAIN calls = 1 .. Len(calls)
         /\ DOMAIN calls' = DOMAIN calls \cup {Len(calls) + 1}
         /\ Len(calls) + 1 \notin DOMAIN calls
         /\ calls'[Len(calls) + 1] = k
         /\ \A c \in DOMAIN calls : calls'[c] = calls[c]
BY DEF PairingInv, CallsOf

(* A start opens the call it stands for.                                   *)
LEMMA StartKeeps ==
  ASSUME PairingInv, StartCall
  PROVE  PairingInv' /\ ImplementsMatching /\ OldestFirst
<1> DEFINE k == [from |-> read + 1, span |-> E.span, name |-> E.name, state |-> "open", to |-> 0]
           n == Len(calls) + 1
<1>1. /\ ReadKept /\ E.type = "tool_start"
      /\ calls' = Append(calls, k)
      /\ openByName' = openByName \cup {<<E.name, n>>}
      /\ openBySpan' = IF E.span = NoId \/ OfSpan(E.span) # {} THEN openBySpan
                       ELSE openBySpan \cup {<<E.span, n>>}
  BY DEF StartCall
<1>2. /\ read \in Nat /\ read' = read + 1 /\ E \in Deliveries
      /\ Took \in Seq(Deliveries) /\ Len(Took) = read /\ Took' = Append(Took, E)
      /\ Len(Told) = read /\ Told' = Append(Told, Seen(E))
      /\ DedupInv' /\ FirstCopyKept'
  BY <1>1, OneRead
<1>3. k \in CallRecords /\ ~IsEnd(E) BY <1>1, <1>2 DEF CallRecords, IsEnd
<1>4. Good(k, Append(Took, E))
  <2>1. read + 1 \in DOMAIN Append(Took, E) /\ Append(Took, E)[read + 1] = E BY <1>2
  <2>2. QED BY <2>1, <1>1 DEF Good
<1>5. CallsOf(calls', Took')
  BY <1>1, <1>2, <1>3, <1>4, OneMoreCall DEF PairingInv
<1>6. PairingTypeOK' BY <1>1, <1>5, PairedTypes
<1>7. /\ DOMAIN calls' = DOMAIN calls \cup {n} /\ n \notin DOMAIN calls /\ calls'[n] = k
      /\ \A c \in DOMAIN calls : calls'[c] = calls[c]
  BY <1>1, CallAdded
<1> HIDE DEF n
<1>8. Open' = Open \cup {n} /\ Closed' = Closed BY <1>7 DEF Open, Closed
<1>9. IndicesAgree'
  <2>1. openByName = {<<calls[c].name, c>> : c \in Open} BY DEF PairingInv, IndicesAgree
  <2>2. openByName' = {<<calls'[c].name, c>> : c \in Open'}
    BY <2>1, <1>1, <1>7, <1>8 DEF Open
  <2>3. openBySpan' \subseteq {<<calls'[c].span, c>> : c \in Open'}
    <3>1. openBySpan \subseteq {<<calls'[c].span, c>> : c \in Open'}
      BY <1>7, <1>8 DEF PairingInv, IndicesAgree, Open
    <3>2. <<E.span, n>> \in {<<calls'[c].span, c>> : c \in Open'} BY <1>7, <1>8
    <3>3. QED BY <3>1, <3>2, <1>1
  <2>4. ASSUME NEW p \in openBySpan', NEW q \in openBySpan', p[1] = q[1] PROVE p = q
    <3>1. CASE p \in openBySpan /\ q \in openBySpan
      BY <2>4, <3>1 DEF PairingInv, IndicesAgree
    <3>2. CASE openBySpan' # openBySpan
      <4>1. OfSpan(E.span) = {} /\ openBySpan' = openBySpan \cup {<<E.span, n>>}
        BY <3>2, <1>1
      <4>2. \A r \in openBySpan : r[1] # E.span BY <4>1 DEF OfSpan
      <4>3. QED BY <4>1, <4>2, <2>4, <3>1
    <3>3. QED BY <3>1, <3>2
  <2>5. QED BY <2>2, <2>3, <2>4 DEF IndicesAgree
<1>10. ImplementsMatching
  <2>1. Opened' = Opened \cup {read + 1} BY <1>7, <1>8 DEF Opened, Open
  <2>2. Matched' = Matched BY <1>7, <1>8 DEF Matched, Closed
  <2>3. Seen(E).type = "tool_start" /\ Seen(E) \in {Seen(e) : e \in Deliveries}
    BY <1>1, <1>2 DEF Seen
  <2>4. Abstract!Next BY <2>1, <2>2, <2>3, <1>2 DEF Abstract!Next, Told, Opened, Matched
  <2>5. QED BY <2>4 DEF ImplementsMatching
<1>11. OldestFirst
  <2>1. \A c \in Open : calls'[c].state = "open" BY <1>7 DEF Open
  <2>2. \A c \in DOMAIN calls' \ DOMAIN calls : calls'[c].state = "open" BY <1>7
  <2>3. QED BY <2>1, <2>2 DEF OldestFirst
<1>12. QED BY <1>2, <1>5, <1>6, <1>9, <1>10, <1>11 DEF PairingInv

(* An end closes one open call that fits it, the oldest if it has no span. *)
LEMMA EndKeeps ==
  ASSUME PairingInv, NEW b \in DOMAIN calls, EndCall(b)
  PROVE  PairingInv' /\ ImplementsMatching /\ OldestFirst
<1>1. /\ ReadKept /\ IsEnd(E) /\ Closable(E, b)
      /\ calls' = [calls EXCEPT ![b].state = "complete", ![b].to = read + 1]
      /\ openBySpan' = {p \in openBySpan : p[2] # b}
      /\ openByName' = {p \in openByName : p[2] # b}
  BY DEF EndCall, Release
<1>2. /\ read \in Nat /\ read' = read + 1 /\ E \in Deliveries
      /\ Took \in Seq(Deliveries) /\ Len(Took) = read /\ Took' = Append(Took, E)
      /\ Len(Told) = read /\ Told' = Append(Told, Seen(E))
      /\ \A n \in 1 .. read : Told[n] = Seen(Took[n])
      /\ DedupInv' /\ FirstCopyKept'
  BY <1>1, OneRead
<1>3. /\ openByName = {<<calls[c].name, c>> : c \in Open}
      /\ openBySpan \subseteq {<<calls[c].span, c>> : c \in Open}
      /\ \A p, q \in openBySpan : p[1] = q[1] => p = q
  BY DEF PairingInv, IndicesAgree
<1>4. b \in Open /\ calls[b].name = E.name /\ E.span \in {NoId, calls[b].span}
  <2>1. CASE E.span # NoId
    <3>1. b \in OfSpan(E.span) /\ calls[b].name = E.name BY <2>1, <1>1 DEF Closable
    <3>2. <<E.span, b>> \in openBySpan BY <3>1, <1>3 DEF OfSpan
    <3>3. QED BY <3>1, <3>2, <1>3
  <2>2. CASE E.span = NoId
    <3>1. b \in OfName(E.name) BY <2>2, <1>1 DEF Closable
    <3>2. QED BY <3>1, <2>2, <1>3 DEF OfName
  <2>3. QED BY <2>1, <2>2
<1>5. CallsOf(calls', Took')
  BY <1>1, <1>2, <1>4, OneMoreEnd DEF PairingInv, Open
<1>6. PairingTypeOK' BY <1>1, <1>5, PairedTypes
<1>7. /\ DOMAIN calls' = DOMAIN calls /\ calls'[b].state = "complete"
      /\ calls'[b].from = calls[b].from /\ calls'[b].to = read + 1
      /\ \A c \in DOMAIN calls \ {b} : calls'[c] = calls[c]
  <2>1. calls[b] \in CallRecords BY DEF PairingInv, CallsOf
  <2>2. calls'[b] = [[calls[b] EXCEPT !.state = "complete"] EXCEPT !.to = read + 1] BY <1>1
  <2>3. QED BY <2>1, <2>2, <1>1 DEF CallRecords
<1>8. Open' = Open \ {b} /\ Closed' = Closed \cup {b}
  BY <1>4, <1>7 DEF Open, Closed
<1>9. IndicesAgree'
  <2>1. openByName' = {<<calls'[c].name, c>> : c \in Open'}
    BY <1>1, <1>3, <1>7, <1>8 DEF Open
  <2>2. openBySpan' \subseteq {<<calls'[c].span, c>> : c \in Open'}
    BY <1>1, <1>3, <1>7, <1>8 DEF Open
  <2>3. QED BY <2>1, <2>2, <1>1, <1>3 DEF IndicesAgree
<1>10. ImplementsMatching
  <2>1. /\ \A c, d \in DOMAIN calls :
             calls[c].from = calls[d].from /\ calls[c].from > 0 => c = d
        /\ calls[b].from \in 1 .. read /\ calls[b] \in CallRecords
        /\ calls[b].name = Took[calls[b].from].name /\ calls[b].span = Took[calls[b].from].span
    <3>1. Good(calls[b], Took) /\ calls[b] \in CallRecords /\ calls[b].state = "open"
      BY <1>4 DEF PairingInv, CallsOf, Open
    <3>2. QED BY <3>1, <1>2 DEF PairingInv, CallsOf, Good
  <2>2. Opened' = Opened \ {calls[b].from}
    <3>1. \A c \in Open \ {b} : calls[c].from # calls[b].from BY <2>1, <1>2 DEF Open
    <3>2. \A c \in Open \ {b} : calls'[c].from = calls[c].from BY <1>7 DEF Open
    <3>3. QED BY <3>1, <3>2, <1>8 DEF Opened
  <2>3. Matched' = Matched \cup {<<calls[b].from, read + 1>>}
    <3>1. \A c \in Closed : c # b /\ calls'[c] = calls[c] BY <1>4, <1>7 DEF Closed, Open
    <3>2. QED BY <3>1, <1>7, <1>8 DEF Matched
  <2>4. /\ Seen(E) \in {Seen(e) : e \in Deliveries} /\ Abstract!IsEnd(Seen(E))
        /\ Abstract!Compatible(Told[calls[b].from], Seen(E))
        /\ calls[b].from \in Opened
    <3>1. Told[calls[b].from] = Seen(Took[calls[b].from]) BY <2>1, <1>2
    <3>2. calls[b].from \in Opened BY <1>4 DEF Opened
    <3>3. QED BY <3>1, <3>2, <2>1, <1>1, <1>2, <1>4
              DEF Seen, IsEnd, Abstract!IsEnd, Abstract!Compatible
  <2>5. Abstract!Next BY <2>2, <2>3, <2>4, <1>2 DEF Abstract!Next, Told, Opened, Matched
  <2>6. QED BY <2>5 DEF ImplementsMatching
<1>11. OldestFirst
  <2>1. ASSUME NEW c \in Open, calls'[c].state = "complete", E.span = NoId,
               NEW d \in Open, calls[d].name = calls[c].name
        PROVE  c =< d
    <3>1. c = b BY <2>1, <1>7 DEF Open
    <3>2. \A x \in OfName(E.name) : b =< x BY <2>1, <1>1 DEF Closable
    <3>3. <<E.name, d>> \in openByName BY <2>1, <3>1, <1>3, <1>4
    <3>4. d \in OfName(E.name) BY <3>3 DEF OfName
    <3>5. QED BY <3>1, <3>2, <3>4
  <2>2. DOMAIN calls' \ DOMAIN calls = {} BY <1>7
  <2>3. QED BY <2>1, <2>2 DEF OldestFirst
<1>12. QED BY <1>2, <1>5, <1>6, <1>9, <1>10, <1>11 DEF PairingInv

(* An end that fits no open call opens nothing.                            *)
LEMMA OrphanKeeps ==
  ASSUME PairingInv, OrphanEnd
  PROVE  PairingInv' /\ ImplementsMatching /\ OldestFirst
<1> DEFINE k == [from |-> 0, span |-> E.span, name |-> E.name,
                 state |-> OrphanState(E), to |-> read + 1]
           n == Len(calls) + 1
<1>1. /\ ReadKept /\ IsEnd(E) /\ ~\E c \in DOMAIN calls : Closable(E, c)
      /\ calls' = Append(calls, k)
      /\ UNCHANGED <<openBySpan, openByName>>
  BY DEF OrphanEnd
<1>2. /\ read \in Nat /\ read' = read + 1 /\ E \in Deliveries
      /\ Took \in Seq(Deliveries) /\ Len(Took) = read /\ Took' = Append(Took, E)
      /\ Len(Told) = read /\ Told' = Append(Told, Seen(E))
      /\ DedupInv' /\ FirstCopyKept'
  BY <1>1, OneRead
<1>3. /\ OrphanState(E) \in {"orphan_end", "duplicate_end", "mismatched_end"}
      /\ OrphanState(E) = "orphan_end" => E.span = NoId
      /\ E.type # "tool_start"
  BY <1>1 DEF OrphanState, IsEnd
<1>4. k \in CallRecords BY <1>2, <1>3 DEF CallRecords
<1>5. Good(k, Append(Took, E))
  <2>1. read + 1 \in DOMAIN Append(Took, E) /\ Append(Took, E)[read + 1] = E BY <1>2
  <2>2. QED BY <2>1, <1>1, <1>3 DEF Good
<1>6. CallsOf(calls', Took')
  BY <1>1, <1>2, <1>3, <1>4, <1>5, OneMoreCall DEF PairingInv
<1>7. PairingTypeOK' BY <1>1, <1>6, PairedTypes
<1>8. /\ DOMAIN calls' = DOMAIN calls \cup {n} /\ n \notin DOMAIN calls /\ calls'[n] = k
      /\ \A c \in DOMAIN calls : calls'[c] = calls[c]
      /\ DOMAIN calls = 1 .. Len(calls)
  BY <1>1, CallAdded
<1> HIDE DEF n
<1>9. Open' = Open /\ Closed' = Closed BY <1>3, <1>8 DEF Open, Closed
<1>10. IndicesAgree' BY <1>1, <1>8, <1>9 DEF PairingInv, IndicesAgree, Open
<1>11. ImplementsMatching
  <2>1. Opened' = Opened /\ Matched' = Matched BY <1>8, <1>9 DEF Opened, Matched, Open, Closed
  <2>2. Seen(E).type # "tool_start" /\ Seen(E) \in {Seen(e) : e \in Deliveries}
    BY <1>2, <1>3 DEF Seen
  <2>3. Abstract!Next BY <2>1, <2>2, <1>2 DEF Abstract!Next, Told, Opened, Matched
  <2>4. QED BY <2>3 DEF ImplementsMatching
<1>12. OldestFirst
  <2>1. \A c \in Open : calls'[c].state = "open" BY <1>8 DEF Open
  <2>2. ASSUME E.span = NoId, NEW c \in Open, calls[c].name = E.name PROVE FALSE
    <3>1. openByName = {<<calls[d].name, d>> : d \in Open} BY DEF PairingInv, IndicesAgree
    <3>2. c \in OfName(E.name)
      <4>1. <<calls[c].name, c>> \in openByName BY <3>1
      <4>2. <<E.name, c>> \in openByName BY <4>1, <2>2
      <4>3. QED BY <4>2 DEF OfName
    <3>3. OfName(E.name) \subseteq DOMAIN calls BY <3>1 DEF OfName, Open
    <3>4. OfName(E.name) \subseteq Nat BY <3>3, <1>8
    <3>5. PICK d \in OfName(E.name) : \A x \in OfName(E.name) : d =< x
      BY <3>2, <3>4, LeastOf
    <3>6. Closable(E, d) BY <3>5, <2>2 DEF Closable
    <3>7. QED BY <3>3, <3>6, <1>1
  <2>3. ASSUME NEW x \in DOMAIN calls' \ DOMAIN calls, calls'[x].state = "orphan_end"
        PROVE  \A c \in Open : calls[c].name # calls'[x].name
    <3>1. x = n /\ calls'[x].name = E.name /\ E.span = NoId BY <2>3, <1>3, <1>8
    <3>2. QED BY <3>1, <2>2
  <2>4. QED BY <2>1, <2>3 DEF OldestFirst
<1>13. QED BY <1>2, <1>6, <1>7, <1>10, <1>11, <1>12 DEF PairingInv

(* An event that is neither start nor end is passed over.                  *)
LEMMA PassKeeps ==
  ASSUME PairingInv, PassOver
  PROVE  PairingInv' /\ ImplementsMatching /\ OldestFirst
<1>1. /\ ReadKept /\ E.type = "other" /\ UNCHANGED <<calls, openBySpan, openByName, seenSpans>>
  BY DEF PassOver
<1>2. /\ read \in Nat /\ read' = read + 1 /\ E \in Deliveries
      /\ Took \in Seq(Deliveries) /\ Len(Took) = read /\ Took' = Append(Took, E)
      /\ Len(Told) = read /\ Told' = Append(Told, Seen(E))
      /\ DedupInv' /\ FirstCopyKept'
  BY <1>1, OneRead
<1>3. CallsOf(calls', Took')
  BY <1>1, <1>2, OneMoreOther DEF PairingInv, IsEnd
<1>4. PairingTypeOK' BY <1>1, <1>3, PairedTypes
<1>5. Open' = Open /\ Closed' = Closed BY <1>1 DEF Open, Closed
<1>6. IndicesAgree' BY <1>1, <1>5 DEF PairingInv, IndicesAgree
<1>7. ImplementsMatching
  <2>1. Opened' = Opened /\ Matched' = Matched BY <1>1, <1>5 DEF Opened, Matched
  <2>2. Seen(E).type # "tool_start" /\ Seen(E) \in {Seen(e) : e \in Deliveries}
    BY <1>1, <1>2 DEF Seen
  <2>3. Abstract!Next BY <2>1, <2>2, <1>2 DEF Abstract!Next, Told, Opened, Matched
  <2>4. QED BY <2>3 DEF ImplementsMatching
<1>8. OldestFirst BY <1>1 DEF OldestFirst, Open
<1>9. QED BY <1>2, <1>3, <1>4, <1>6, <1>7, <1>8 DEF PairingInv

(* A finite set that is counted off by another.                            *)
LEMMA CountedOff ==
  ASSUME NEW S, NEW T, IsFiniteSet(S), NEW f \in [S -> T],
         \A x, y \in S : f[x] = f[y] => x = y,
         \A t \in T : \E x \in S : f[x] = t
  PROVE  Cardinality(T) = Cardinality(S)
<1>1. f \in Bijection(S, T) BY DEF Bijection, Injection, Surjection, IsInjective
<1>2. QED BY <1>1, FS_Bijection DEF ExistsBijection

(* Which of the events taken a call was made of.                           *)
LEMMA TakenByCalls == ASSUME PairingInv PROVE EveryEventOnce
<1>1. /\ DOMAIN Took = 1 .. read /\ read \in Nat
      /\ \A n \in 1 .. read : Took[n] = Ev(n)
  BY DEF Took, PairingInv, PairingTypeOK
<1>2. /\ \A c \in DOMAIN calls : Good(calls[c], Took)
      /\ \A n \in DOMAIN Took :
           /\ Took[n].type = "tool_start" => \E c \in DOMAIN calls : calls[c].from = n
           /\ IsEnd(Took[n]) => \E c \in DOMAIN calls : calls[c].to = n
      /\ \A c, d \in DOMAIN calls :
           /\ calls[c].from = calls[d].from /\ calls[c].from > 0 => c = d
           /\ calls[c].to = calls[d].to /\ calls[c].to > 0 => c = d
  BY DEF PairingInv, CallsOf
<1>3. ASSUME NEW n \in 1 .. read
      PROVE  /\ (Ev(n).type = "tool_start") <=> \E c \in DOMAIN calls : calls[c].from = n
             /\ IsEnd(Ev(n)) <=> \E c \in DOMAIN calls : calls[c].to = n
  <2>1. ASSUME NEW c \in DOMAIN calls, calls[c].from = n PROVE Ev(n).type = "tool_start"
    BY <2>1, <1>1, <1>2 DEF Good
  <2>2. ASSUME NEW c \in DOMAIN calls, calls[c].to = n PROVE IsEnd(Ev(n))
    BY <2>2, <1>1, <1>2 DEF Good
  <2>3. QED BY <2>1, <2>2, <1>1, <1>2
<1>4. ASSUME NEW c \in Closed
      PROVE  LET e == Ev(calls[c].to) IN
             /\ 0 < calls[c].from /\ calls[c].from < calls[c].to
             /\ calls[c].name = e.name
             /\ e.span \in {NoId, calls[c].span}
  BY <1>1, <1>2 DEF Closed, Good
<1>5. QED BY <1>2, <1>3, <1>4 DEF EveryEventOnce

(* With no call left open or orphaned, the calls of a name count off both  *)
(* its starts and its ends.                                                *)
LEMMA QuietIsBalanced == ASSUME PairingInv PROVE QuietMeansBalanced
<1> DEFINE Of(types, name) == {n \in 1 .. read : Ev(n).type \in types /\ Ev(n).name = name}
<1> SUFFICES ASSUME ~PairingFound, NEW name
             PROVE  Cardinality(Of({"tool_start"}, name)) =
                      Cardinality(Of({"tool_end", "tool_error"}, name))
  BY DEF QuietMeansBalanced
<1>1. /\ DOMAIN Took = 1 .. read /\ read \in Nat
      /\ \A n \in 1 .. read : Took[n] = Ev(n)
  BY DEF Took, PairingInv, PairingTypeOK
<1>2. /\ calls \in Seq(CallRecords)
      /\ \A c \in DOMAIN calls : Good(calls[c], Took)
      /\ \A n \in 1 .. read :
           /\ Ev(n).type = "tool_start" => \E c \in DOMAIN calls : calls[c].from = n
           /\ IsEnd(Ev(n)) => \E c \in DOMAIN calls : calls[c].to = n
      /\ \A c, d \in DOMAIN calls :
           /\ calls[c].from = calls[d].from /\ calls[c].from > 0 => c = d
           /\ calls[c].to = calls[d].to /\ calls[c].to > 0 => c = d
  BY <1>1 DEF PairingInv, CallsOf
<1>3. ASSUME NEW c \in DOMAIN calls
      PROVE  /\ calls[c].from \in 1 .. read /\ Ev(calls[c].from).type = "tool_start"
             /\ calls[c].to \in 1 .. read /\ IsEnd(Ev(calls[c].to))
             /\ Ev(calls[c].from).name = calls[c].name /\ Ev(calls[c].to).name = calls[c].name
  <2>1. calls[c] \in CallRecords BY <1>2
  <2>2. calls[c].state = "complete"
    BY <2>1 DEF PairingFound, Unpaired, CallRecords
  <2>3. QED BY <2>2, <1>1, <1>2 DEF Good
<1> DEFINE named == {c \in DOMAIN calls : calls[c].name = name}
<1>4. IsFiniteSet(named)
  <2>1. DOMAIN calls = 1 .. Len(calls) /\ Len(calls) \in Int /\ 1 \in Int BY <1>2
  <2>2. IsFiniteSet(1 .. Len(calls)) BY <2>1, FS_Interval
  <2>3. QED BY <2>1, <2>2, FS_Subset
<1>5. Cardinality(Of({"tool_start"}, name)) = Cardinality(named)
  <2> DEFINE T == Of({"tool_start"}, name)
             f == [c \in named |-> calls[c].from]
  <2>1. f \in [named -> T] BY <1>3
  <2>2. \A x, y \in named : f[x] = f[y] => x = y BY <1>2, <1>3
  <2>3. \A t \in T : \E x \in named : f[x] = t BY <1>2, <1>3
  <2> HIDE DEF named, T, f
  <2>4. QED BY <2>1, <2>2, <2>3, <1>4, CountedOff DEF T
<1>6. Cardinality(Of({"tool_end", "tool_error"}, name)) = Cardinality(named)
  <2> DEFINE T == Of({"tool_end", "tool_error"}, name)
             f == [c \in named |-> calls[c].to]
  <2>1. f \in [named -> T] BY <1>3 DEF IsEnd
  <2>2. \A x, y \in named : f[x] = f[y] => x = y BY <1>2, <1>3
  <2>3. \A t \in T : \E x \in named : f[x] = t BY <1>2, <1>3 DEF IsEnd
  <2> HIDE DEF named, T, f
  <2>4. QED BY <2>1, <2>2, <2>3, <1>4, CountedOff DEF T
<1>7. QED BY <1>5, <1>6

(* Dedup and pairing lose no event and answer for each one once.           *)
THEOREM PairedOnce == ASSUME PairingAssumption PROVE PairingSpec => EveryCallPairedOnce
<1>1. PairingInit => PairingInv /\ MatchingBegins BY PairingBegins
<1>2. ASSUME PairingInv, [PairingNext]_pairingVars
      PROVE  PairingInv' /\ [ImplementsMatching /\ OldestFirst]_pairingVars
  <2>1. CASE DedupStep BY <1>2, <2>1, DedupKeeps DEF ImplementsMatching
  <2>2. CASE StartCall BY <1>2, <2>2, StartKeeps
  <2>3. CASE \E c \in DOMAIN calls : EndCall(c) BY <1>2, <2>3, EndKeeps
  <2>4. CASE OrphanEnd BY <1>2, <2>4, OrphanKeeps
  <2>5. CASE PassOver BY <1>2, <2>5, PassKeeps
  <2>6. CASE UNCHANGED pairingVars
    <3>1. UNCHANGED <<events, at, seenIds, kept, conflicts, read, calls, openBySpan,
                      openByName, seenSpans>>
      BY <2>6 DEF pairingVars
    <3>2. Took' = Took /\ Open' = Open BY <3>1 DEF Took, Ev, Open
    <3>3. PairingInv'
      BY <1>2, <3>1, <3>2 DEF PairingInv, PairingTypeOK, DedupInv, FirstCopyKept, IndicesAgree,
                        Redelivered, RestampKey
    <3>4. QED BY <2>6, <3>3
  <2>7. QED BY <1>2, <2>1, <2>2, <2>3, <2>4, <2>5, <2>6 DEF PairingNext, PairStep
<1>3. PairingInv => /\ PairingTypeOK /\ IndicesAgree /\ EveryEventOnce
                    /\ QuietMeansBalanced /\ FirstCopyKept
  BY TakenByCalls, QuietIsBalanced DEF PairingInv
<1>4. QED BY <1>1, <1>2, <1>3, PTL DEF PairingSpec, EveryCallPairedOnce

-----------------------------------------------------------------------------
(* The approvals and the nonces they spend.                                *)

(* The types, the ledger of a run being finite.                            *)
ApprovalsTyped ==
  /\ ApprovalsTypeOK
  /\ IsFiniteSet(spent)
  /\ asking = None \/ asking \in [call : Calls, todo : SUBSET Presentable]

(* Nobody but the issuer signs.                                            *)
SignedByTheIssuer == \A r \in Presented : r.sig # None => r.sig.over \in issued

(* What the issuer signed has a window.                                    *)
IssuedWithAWindow == \A c \in issued : c.granted # None /\ c.expires # None

(* What the memo says of a record is so, for as long as it is remembered.  *)
Remembered ==
  \A r \in DOMAIN checked :
    /\ checked[r] # "unverified" => Verified(r)
    /\ checked[r] = "unspent" => <<session, r.content.nonce>> \in vouched
    /\ checked[r] = "no_answer" => ~LedgerOn \/ r.content.nonce = None \/ Full

(* A nonce that vouched is spent.                                          *)
VouchedIsSpent == \A v \in vouched : v[2] \in spent \ loaded

(* While the ledger has room, what covered a call had vouched for it.      *)
CoveredVouched ==
  RequireSigned /\ LedgerOn /\ ~Full =>
    \A c \in covered : c[2] # None => c \in vouched

(* What a question needs is remembered or still to be checked, once.       *)
Asked ==
  asking # None =>
    /\ Matching(asking.call) \subseteq DOMAIN checked \cup asking.todo
    /\ asking.todo \cap DOMAIN checked = {}

(* An answer given of a sealed session is the one it would give again.     *)
Standing ==
  \A a \in answers : a[3] =>
    /\ sealed
    /\ Matching(a[1]) \subseteq DOMAIN checked
    /\ State(a[1]) = a[2]

ApprovalsInv ==
  /\ ApprovalsTyped
  /\ IssuedWithAWindow /\ SignedByTheIssuer /\ Remembered
  /\ VouchedIsSpent /\ NonceVouchesOnce /\ SpentWasIssued
  /\ CoveredVouched
  /\ Asked /\ Standing
  /\ CoveredWasIssued

-----------------------------------------------------------------------------
(* A record that verifies carries what the issuer signed.                  *)
LEMMA VerifiedIsIssued ==
  ASSUME SignedByTheIssuer, NEW r \in Presented, Verified(r)
  PROVE  r.content \in issued
BY DEF SignedByTheIssuer, Verified

(* A ledger that is full stays full.                                       *)
LEMMA StaysFull ==
  ASSUME ApprovalsAssumption, IsFiniteSet(spent)', spent \subseteq spent', Full
  PROVE  Full'
<1>1. /\ IsFiniteSet(spent) /\ Cardinality(spent) \in Nat
      /\ Cardinality(spent') \in Nat /\ Cardinality(spent) =< Cardinality(spent')
  BY FS_Subset, FS_CardinalityType
<1>2. QED BY <1>1 DEF Full, ApprovalsAssumption

(* Where a record is put, those there were remain.                         *)
LEMMA InsertedAmong ==
  ASSUME approvals \in Seq(Presentable), NEW r \in Presentable, approvals' = Inserted(r)
  PROVE  approvals' \in Seq(Presentable) /\ Presented' \subseteq Presented \cup {r}
<1> DEFINE before == {i \in DOMAIN approvals : NotAfter(approvals[i], r)}
           n      == Len(approvals)
           place  == 1 + Cardinality(before)
<1>1. n \in Nat /\ DOMAIN approvals = 1 .. n /\ \A i \in 1 .. n : approvals[i] \in Presentable
  OBVIOUS
<1> HIDE DEF n
<1>2. before \subseteq 1 .. n BY <1>1
<1>3. IsFiniteSet(1 .. n) /\ Cardinality(1 .. n) = n BY <1>1, FS_Interval
<1>4. Cardinality(before) \in Nat /\ Cardinality(before) =< n
  BY <1>2, <1>3, FS_Subset, FS_CardinalityType
<1>5. place \in 1 .. n + 1 BY <1>1, <1>4
<1>6. approvals' = [i \in 1 .. n + 1 |->
                     IF i < place THEN approvals[i]
                     ELSE IF i = place THEN r ELSE approvals[i - 1]]
  BY DEF Inserted, n
<1> HIDE DEF place
<1>7. \A i \in 1 .. n + 1 :
        \/ approvals'[i] = r
        \/ \E j \in 1 .. n : approvals'[i] = approvals[j]
  <2> TAKE i \in 1 .. n + 1
  <2>1. CASE i < place
    <3>1. i \in 1 .. n /\ approvals'[i] = approvals[i] BY <2>1, <1>1, <1>5, <1>6
    <3>2. QED BY <3>1
  <2>2. CASE i = place
    BY <2>2, <1>6
  <2>3. CASE i > place
    <3>1. i - 1 \in 1 .. n /\ approvals'[i] = approvals[i - 1] BY <2>3, <1>1, <1>5, <1>6
    <3>2. QED BY <3>1
  <2>4. QED BY <2>1, <2>2, <2>3, <1>1, <1>5
<1>8. \A i \in 1 .. n + 1 : approvals'[i] \in Presentable BY <1>1, <1>7
<1>9. approvals' \in [1 .. n + 1 -> Presentable] BY <1>6, <1>8
<1>10. approvals' \in Seq(Presentable) BY <1>1, <1>9
<1>11. DOMAIN approvals' = 1 .. n + 1 BY <1>6
<1>12. QED BY <1>1, <1>7, <1>10, <1>11 DEF Presented

(* What a verdict means, and that a nonce is recorded with "unspent" only. *)
LEMMA VerdictMeans ==
  ASSUME NEW r
  PROVE  /\ Verdict(r) \in Verdicts
         /\ Verdict(r) # "unverified" => Verified(r)
         /\ Verdict(r) = "unspent" <=> Recorded(r)
         /\ Recorded(r) => r.content.nonce \notin spent \cup {None}
         /\ Verdict(r) = "no_answer" => ~LedgerOn \/ r.content.nonce = None \/ Full
<1>1. CASE ~Verified(r) BY <1>1 DEF Verdict, Verdicts, Recorded
<1>2. CASE Verified(r)
  BY <1>2 DEF Verdict, Verdicts, Recorded
<1>3. QED BY <1>1, <1>2

LEMMA MatchingPresented ==
  ASSUME NEW call PROVE Matching(call) \subseteq Presented
BY DEF Matching, Indexed, Presented

LEMMA StateIsOne ==
  ASSUME NEW call PROVE State(call) \in States
BY DEF State, States

(* An answer depends on the memo of the records that name the call.        *)
LEMMA SameState ==
  ASSUME NEW call, approvals' = approvals,
         \A r \in Matching(call) : checked'[r] = checked[r]
  PROVE  Matching(call)' = Matching(call) /\ State(call)' = State(call)
<1>1. Matching(call)' = Matching(call) BY DEF Matching, Indexed
<1>2. \A r \in Matching(call) : Assured(r)' <=> Assured(r) BY DEF Assured
<1>3. Covering(call)' = Covering(call) BY <1>1, <1>2 DEF Covering
<1>4. QED BY <1>1, <1>3 DEF State

(* What an answer of a sealed session rests on stands while nothing is     *)
(* added to the session and nothing remembered is changed.                 *)
LEMMA StillStanding ==
  ASSUME Standing, sealed' = sealed, approvals' = approvals, answers' = answers,
         DOMAIN checked \subseteq DOMAIN checked',
         \A r \in DOMAIN checked : checked'[r] = checked[r]
  PROVE  Standing'
<1> SUFFICES ASSUME NEW a \in answers, a[3]
             PROVE  /\ sealed
                    /\ Matching(a[1])' \subseteq DOMAIN checked'
                    /\ State(a[1])' = a[2]
  BY DEF Standing
<1>1. /\ sealed /\ Matching(a[1]) \subseteq DOMAIN checked
      /\ State(a[1]) = a[2]
  BY DEF Standing
<1>2. Matching(a[1])' = Matching(a[1]) /\ State(a[1])' = State(a[1])
  BY <1>1, SameState
<1>3. QED BY <1>1, <1>2

-----------------------------------------------------------------------------
LEMMA ApprovalsBegin == ApprovalsAssumption /\ ApprovalsInit => ApprovalsInv
<1> SUFFICES ASSUME ApprovalsAssumption, ApprovalsInit PROVE ApprovalsInv OBVIOUS
<1>1. /\ approvals = <<>> /\ Presented = {} /\ DOMAIN checked = {}
      /\ answers = {} /\ covered = {} /\ vouched = {} /\ asking = None
  BY DEF ApprovalsInit, Presented, NoMemo
<1>2. ApprovalsTyped
  <2>1. /\ loaded \subseteq spent /\ spent \subseteq Nonces /\ IsFiniteSet(spent)
        /\ session \in Nat /\ sealed \in BOOLEAN /\ issued \subseteq Contents
        /\ told = {}
    BY DEF ApprovalsInit
  <2>2. approvals \in Seq(Presentable) BY <1>1
  <2>3. QED BY <1>1, <2>1, <2>2 DEF ApprovalsTyped, ApprovalsTypeOK
<1>3. SpentWasIssued /\ issued = {} BY DEF ApprovalsInit, SpentWasIssued
<1>4. QED BY <1>1, <1>2, <1>3
  DEF ApprovalsInv, SignedByTheIssuer, Remembered, VouchedIsSpent, NonceVouchesOnce, CoveredVouched,
      Asked, Standing, CoveredWasIssued, IssuedWithAWindow

(* The issuer signs: what was issued stays issued.                         *)
LEMMA IssueKeeps ==
  ASSUME ApprovalsAssumption, ApprovalsInv, NEW c \in Contents, Issue(c)
  PROVE  ApprovalsInv'
<1>1. /\ issued \subseteq issued' /\ issued' \subseteq Contents
      /\ UNCHANGED <<session, approvals, sealed, checked, loaded, spent, asking, told,
                     answers, vouched, covered>>
  BY DEF Issue, ApprovalsInv, ApprovalsTyped, ApprovalsTypeOK
<1>2. Presented' = Presented BY <1>1 DEF Presented
<1>3. ApprovalsTyped' BY <1>1, <1>2 DEF ApprovalsInv, ApprovalsTyped, ApprovalsTypeOK
<1>4. SignedByTheIssuer' BY <1>1, <1>2 DEF ApprovalsInv, SignedByTheIssuer
<1>5. Remembered' BY <1>1 DEF ApprovalsInv, Remembered, Full
<1>6. VouchedIsSpent' /\ NonceVouchesOnce' /\ SpentWasIssued' /\ CoveredVouched'
  BY <1>1 DEF ApprovalsInv, VouchedIsSpent, NonceVouchesOnce, SpentWasIssued, CoveredVouched, Full
<1>7. Asked' BY <1>1 DEF ApprovalsInv, Asked, Matching, Indexed
<1>8. Standing' BY <1>1, StillStanding DEF ApprovalsInv
<1>9. CoveredWasIssued' BY <1>1 DEF ApprovalsInv, CoveredWasIssued
<1>10. IssuedWithAWindow' BY DEF ApprovalsInv, IssuedWithAWindow, Issue, Issuable
<1>11. QED BY <1>3, <1>4, <1>5, <1>6, <1>7, <1>8, <1>9, <1>10 DEF ApprovalsInv

(* The memo is forgotten, and no answer is of a sealed session.            *)
LEMMA ForgetKeeps ==
  ASSUME ApprovalsAssumption, ApprovalsInv, ApprovalsTyped', SignedByTheIssuer',
         ~sealed, asking = None, checked' = NoMemo,
         UNCHANGED <<issued, session, loaded, spent, asking, answers, vouched, covered>>
  PROVE  ApprovalsInv'
<1>1. DOMAIN checked' = {} BY DEF NoMemo
<1>2. \A a \in answers : ~a[3] BY DEF ApprovalsInv, Standing
<1>3. Remembered' /\ Standing' BY <1>1, <1>2 DEF Remembered, Standing
<1>4. VouchedIsSpent' /\ NonceVouchesOnce' /\ SpentWasIssued' /\ CoveredVouched'
  BY DEF ApprovalsInv, VouchedIsSpent, NonceVouchesOnce, SpentWasIssued, CoveredVouched, Full
<1>5. Asked' /\ CoveredWasIssued' /\ IssuedWithAWindow'
  BY DEF ApprovalsInv, Asked, CoveredWasIssued, IssuedWithAWindow
<1>6. QED BY <1>3, <1>4, <1>5 DEF ApprovalsInv

LEMMA PresentKeeps ==
  ASSUME ApprovalsAssumption, ApprovalsInv, NEW r \in Presentable, Present(r)
  PROVE  ApprovalsInv'
<1>1. /\ ~sealed /\ asking = None /\ checked' = NoMemo /\ approvals' = Inserted(r)
      /\ r.sig # None => r.sig.over \in issued
      /\ UNCHANGED <<issued, session, sealed, loaded, spent, asking, told, answers, vouched,
                     covered>>
  BY DEF Present
<1>2. approvals' \in Seq(Presentable) /\ Presented' \subseteq Presented \cup {r}
  BY <1>1, InsertedAmong DEF ApprovalsInv, ApprovalsTyped, ApprovalsTypeOK
<1>3. DOMAIN checked' = {} BY <1>1 DEF NoMemo
<1>4. ApprovalsTypeOK'
  <2>1. /\ DOMAIN checked' \subseteq Presented'
        /\ \A q \in DOMAIN checked' : checked'[q] \in Verdicts
    BY <1>3
  <2>2. asking' = None BY <1>1
  <2>3. /\ issued' \subseteq Contents /\ session' \in Nat /\ sealed' \in BOOLEAN
        /\ loaded' \subseteq spent' /\ spent' \subseteq Nonces
        /\ told' \subseteq Presentable \X Verdicts
        /\ answers' \subseteq Calls \X States \X BOOLEAN
        /\ vouched' \subseteq Nat \X Nonces
        /\ covered' \subseteq Nat \X (Nonces \cup {None})
    BY <1>1 DEF ApprovalsInv, ApprovalsTyped, ApprovalsTypeOK
  <2>4. QED BY <1>2, <2>1, <2>2, <2>3 DEF ApprovalsTypeOK
<1>5. ApprovalsTyped' BY <1>1, <1>4 DEF ApprovalsInv, ApprovalsTyped
<1>6. SignedByTheIssuer' BY <1>1, <1>2 DEF ApprovalsInv, SignedByTheIssuer
<1>7. QED BY <1>1, <1>5, <1>6, ForgetKeeps

LEMMA SealKeeps == ASSUME ApprovalsAssumption, ApprovalsInv, Seal PROVE ApprovalsInv'
<1>1. /\ ~sealed /\ asking = None /\ checked' = NoMemo /\ sealed' = TRUE
      /\ UNCHANGED <<issued, session, approvals, loaded, spent, asking, told, answers, vouched,
                     covered>>
  BY DEF Seal
<1>2. Presented' = Presented /\ DOMAIN checked' = {} BY <1>1 DEF Presented, NoMemo
<1>3. ApprovalsTyped'
  BY <1>1, <1>2 DEF ApprovalsInv, ApprovalsTyped, ApprovalsTypeOK
<1>4. SignedByTheIssuer' BY <1>1, <1>2 DEF ApprovalsInv, SignedByTheIssuer
<1>5. QED BY <1>1, <1>3, <1>4, ForgetKeeps

LEMMA NextSessionKeeps == ASSUME ApprovalsAssumption, ApprovalsInv, NextSession PROVE ApprovalsInv'
<1>1. /\ asking = None /\ session' = session + 1 /\ approvals' = <<>> /\ sealed' = FALSE
      /\ checked' = NoMemo /\ told' = {} /\ answers' = {}
      /\ UNCHANGED <<issued, loaded, spent, asking, vouched, covered>>
  BY DEF NextSession
<1>2. Presented' = {} /\ DOMAIN checked' = {} BY <1>1 DEF Presented, NoMemo
<1>3. approvals' \in Seq(Presentable) BY <1>1
<1>4. ApprovalsTyped'
  <2>1. session' \in Nat BY <1>1 DEF ApprovalsInv, ApprovalsTyped, ApprovalsTypeOK
  <2>2. /\ issued' \subseteq Contents /\ sealed' \in BOOLEAN
        /\ loaded' \subseteq spent' /\ spent' \subseteq Nonces /\ IsFiniteSet(spent')
        /\ vouched' \subseteq Nat \X Nonces
        /\ covered' \subseteq Nat \X (Nonces \cup {None})
    BY <1>1 DEF ApprovalsInv, ApprovalsTyped, ApprovalsTypeOK
  <2>3. told' = {} /\ answers' = {} /\ asking' = None BY <1>1
  <2>4. QED BY <1>2, <1>3, <2>1, <2>2, <2>3 DEF ApprovalsTyped, ApprovalsTypeOK
<1>5. VouchedIsSpent' /\ NonceVouchesOnce' /\ SpentWasIssued' /\ CoveredVouched'
  BY <1>1 DEF ApprovalsInv, VouchedIsSpent, NonceVouchesOnce, SpentWasIssued, CoveredVouched, Full
<1>6. /\ SignedByTheIssuer' /\ Remembered' /\ Asked' /\ Standing' /\ CoveredWasIssued'
      /\ IssuedWithAWindow'
  BY <1>1, <1>2 DEF ApprovalsInv, SignedByTheIssuer, Remembered, Asked, Standing, CoveredWasIssued,
                    IssuedWithAWindow
<1>7. QED BY <1>4, <1>5, <1>6 DEF ApprovalsInv

LEMMA AskKeeps ==
  ASSUME ApprovalsAssumption, ApprovalsInv, NEW call \in Calls, Ask(call)
  PROVE  ApprovalsInv'
<1>1. /\ asking = None /\ asking' = [call |-> call, todo |-> ToCheck(call)]
      /\ UNCHANGED <<issued, session, approvals, sealed, checked, loaded, spent, told, answers,
                     vouched, covered>>
  BY DEF Ask
<1>2. Presented' = Presented BY <1>1 DEF Presented
<1>3. ToCheck(call) \subseteq Presented BY MatchingPresented DEF ToCheck
<1>4. Presented \subseteq Presentable
  BY DEF ApprovalsInv, ApprovalsTyped, ApprovalsTypeOK, Presented
<1>5. ApprovalsTyped' BY <1>1, <1>2, <1>3, <1>4 DEF ApprovalsInv, ApprovalsTyped, ApprovalsTypeOK
<1>6. SignedByTheIssuer' BY <1>1, <1>2 DEF ApprovalsInv, SignedByTheIssuer
<1>7. Remembered' BY <1>1 DEF ApprovalsInv, Remembered, Full
<1>8. VouchedIsSpent' /\ NonceVouchesOnce' /\ SpentWasIssued' /\ CoveredVouched'
  BY <1>1 DEF ApprovalsInv, VouchedIsSpent, NonceVouchesOnce, SpentWasIssued, CoveredVouched, Full
<1>9. Matching(call)' = Matching(call) BY <1>1 DEF Matching, Indexed
<1>10. Asked' BY <1>1, <1>9 DEF Asked, ToCheck
<1>11. Standing' BY <1>1, StillStanding DEF ApprovalsInv
<1>12. CoveredWasIssued' /\ IssuedWithAWindow'
  BY <1>1 DEF ApprovalsInv, CoveredWasIssued, IssuedWithAWindow
<1>13. QED BY <1>5, <1>6, <1>7, <1>8, <1>10, <1>11, <1>12 DEF ApprovalsInv

(* A record is verified and its nonce spent.                               *)
LEMMA CheckKeeps ==
  ASSUME ApprovalsAssumption, ApprovalsInv, NEW r \in Presented, Check(r)
  PROVE  ApprovalsInv'
<1> DEFINE verdict == Verdict(r)
           nonce   == r.content.nonce
<1>1. /\ asking # None /\ r \in asking.todo
      /\ checked' = [q \in DOMAIN checked \cup {r} |-> IF q = r THEN verdict ELSE checked[q]]
      /\ spent' = IF Recorded(r) THEN spent \cup {nonce} ELSE spent
      /\ vouched' = IF verdict = "unspent" THEN vouched \cup {<<session, nonce>>} ELSE vouched
      /\ told' = told \cup {<<r, verdict>>}
      /\ asking' = [asking EXCEPT !.todo = @ \ {r}]
      /\ UNCHANGED <<issued, session, approvals, sealed, loaded, answers, covered>>
  BY DEF Check
<1>2. /\ verdict \in Verdicts
      /\ verdict # "unverified" => Verified(r)
      /\ verdict = "unspent" <=> Recorded(r)
      /\ Recorded(r) => nonce \notin spent \cup {None}
      /\ verdict = "no_answer" => ~LedgerOn \/ nonce = None \/ Full
  BY VerdictMeans
<1>3. Recorded(r) => r.content \in issued /\ nonce \in Nonces
  <2> SUFFICES ASSUME Recorded(r) PROVE r.content \in issued /\ nonce \in Nonces OBVIOUS
  <2>1. r.content \in issued BY <1>2, VerifiedIsIssued DEF ApprovalsInv, Recorded
  <2>2. r.content \in Contents BY <2>1 DEF ApprovalsInv, ApprovalsTyped, ApprovalsTypeOK
  <2>3. QED BY <2>1, <2>2, <1>2 DEF Nonces
<1> HIDE DEF verdict, nonce
<1>4. /\ asking \in [call : Calls, todo : SUBSET Presentable]
      /\ asking.todo \subseteq Presented /\ r \notin DOMAIN checked
  BY <1>1 DEF ApprovalsInv, ApprovalsTyped, ApprovalsTypeOK, Asked
<1>5. asking' = [call |-> asking.call, todo |-> asking.todo \ {r}] BY <1>1, <1>4
<1>6. /\ spent \subseteq spent' /\ spent' \subseteq Nonces /\ IsFiniteSet(spent')
      /\ loaded' = loaded /\ loaded \subseteq spent
  BY <1>1, <1>3, FS_AddElement DEF ApprovalsInv, ApprovalsTyped, ApprovalsTypeOK
<1>7. Full => Full' BY <1>6, StaysFull
<1>8. Presented' = Presented /\ Presented \subseteq Presentable
  BY <1>1 DEF Presented, ApprovalsInv, ApprovalsTyped, ApprovalsTypeOK
<1>9. ApprovalsTyped'
  <2>1. DOMAIN checked' = DOMAIN checked \cup {r} BY <1>1
  <2>2. \A q \in DOMAIN checked' : checked'[q] \in Verdicts
    BY <1>1, <1>2, <2>1 DEF ApprovalsInv, ApprovalsTyped, ApprovalsTypeOK
  <2>3. told' \subseteq Presentable \X Verdicts
    BY <1>1, <1>2, <1>8 DEF ApprovalsInv, ApprovalsTyped, ApprovalsTypeOK
  <2>4. vouched' \subseteq Nat \X Nonces
    BY <1>1, <1>2, <1>3 DEF ApprovalsInv, ApprovalsTyped, ApprovalsTypeOK
  <2>5. /\ asking' \in [call : Calls, todo : SUBSET Presentable]
        /\ asking'.call \in Calls /\ asking'.todo \subseteq Presented
    BY <1>4, <1>5
  <2>6. ApprovalsTypeOK'
    BY <1>1, <1>6, <1>8, <2>1, <2>2, <2>3, <2>4, <2>5
    DEF ApprovalsInv, ApprovalsTyped, ApprovalsTypeOK
  <2>7. QED BY <1>6, <2>5, <2>6 DEF ApprovalsTyped
<1>10. SignedByTheIssuer' BY <1>1, <1>8 DEF ApprovalsInv, SignedByTheIssuer
<1>11. Remembered'
  <2> SUFFICES ASSUME NEW q \in DOMAIN checked'
               PROVE  /\ checked'[q] # "unverified" => Verified(q)
                      /\ checked'[q] = "unspent" => <<session, q.content.nonce>> \in vouched'
                      /\ checked'[q] = "no_answer" =>
                           ~LedgerOn \/ q.content.nonce = None \/ Full'
    BY <1>1 DEF Remembered, Verified
  <2>1. CASE q = r BY <2>1, <1>1, <1>2, <1>7 DEF nonce
  <2>2. CASE q # r
    <3>1. q \in DOMAIN checked /\ checked'[q] = checked[q] BY <2>2, <1>1
    <3>2. vouched \subseteq vouched' BY <1>1
    <3>3. QED BY <3>1, <3>2, <1>7 DEF ApprovalsInv, Remembered
  <2>3. QED BY <2>1, <2>2
<1>12. VouchedIsSpent' /\ NonceVouchesOnce'
  <2>1. CASE verdict = "unspent"
    <3>1. /\ vouched' = vouched \cup {<<session, nonce>>} /\ spent' = spent \cup {nonce}
          /\ nonce \notin spent
      BY <2>1, <1>1, <1>2
    <3>2. \A v \in vouched : v[2] \in spent /\ v[2] \notin loaded
      BY DEF ApprovalsInv, VouchedIsSpent
    <3>3. nonce \notin loaded BY <3>1, <1>6
    <3>4. VouchedIsSpent' BY <3>1, <3>2, <3>3, <1>6 DEF VouchedIsSpent
    <3>5. NonceVouchesOnce'
      BY <3>1, <3>2, <3>3, <1>6 DEF ApprovalsInv, NonceVouchesOnce
    <3>6. QED BY <3>4, <3>5
  <2>2. CASE verdict # "unspent"
    BY <2>2, <1>1, <1>2, <1>6 DEF ApprovalsInv, VouchedIsSpent, NonceVouchesOnce
  <2>3. QED BY <2>1, <2>2
<1>13. SpentWasIssued'
  BY <1>1, <1>3 DEF ApprovalsInv, SpentWasIssued, nonce
<1>14. CoveredVouched'
  <2>1. ~Full' => ~Full BY <1>7
  <2>2. vouched \subseteq vouched' BY <1>1
  <2>3. QED BY <1>1, <2>1, <2>2 DEF ApprovalsInv, CoveredVouched
<1>15. Asked'
  <2>1. Indexed' = Indexed BY <1>1 DEF Indexed
  <2>2. {q \in Indexed : Names(q, asking.call)} \subseteq DOMAIN checked \cup asking.todo
    BY <1>1 DEF ApprovalsInv, Asked, Matching
  <2>3. {q \in Indexed : Names(q, asking'.call)} \subseteq DOMAIN checked' \cup asking'.todo
    BY <1>1, <1>5, <2>2
  <2>4. asking'.todo \cap DOMAIN checked' = {} BY <1>1, <1>5 DEF ApprovalsInv, Asked
  <2>5. QED BY <2>1, <2>3, <2>4 DEF Asked, Matching
<1>16. Standing' BY <1>1, <1>4, StillStanding DEF ApprovalsInv
<1>17. CoveredWasIssued' /\ IssuedWithAWindow'
  BY <1>1 DEF ApprovalsInv, CoveredWasIssued, IssuedWithAWindow
<1>18. QED BY <1>9, <1>10, <1>11, <1>12, <1>13, <1>14, <1>15, <1>16, <1>17 DEF ApprovalsInv

(* What covers a call was issued for it.                                   *)
LEMMA CoveringWasIssued ==
  ASSUME ApprovalsAssumption, MomentsAssumption, ApprovalsInv, RequireSigned, NEW call \in Calls,
         Matching(call) \subseteq DOMAIN checked, NEW r \in Covering(call)
  PROVE  /\ r.content \in issued
         /\ r.content.decision = "allow"
         /\ r.content.span = call.span /\ r.content.tool = call.name
         /\ r.content.args = call.args
         /\ Clocked(call.at) =>
              r.content.granted <= call.at.ts /\ call.at.ts <= r.content.expires
<1>1. /\ r \in Matching(call) /\ Fits(r, call) /\ Assured(r) BY DEF Covering
<1>2. r \in DOMAIN checked /\ r \in Presented /\ Names(r, call)
  BY <1>1, MatchingPresented DEF Matching
<1>3. Verified(r) BY <1>1, <1>2 DEF ApprovalsInv, Remembered, Assured
<1>4. r.content \in issued BY <1>2, <1>3, VerifiedIsIssued DEF ApprovalsInv
<1>5. /\ r.content.decision = "allow" /\ Binding(r, call) = "exact" /\ ~Expired(r, call)
  BY <1>1 DEF Fits
<1>6. Complete(r.content) /\ call.args # None /\ r.content.args = call.args
  BY <1>5 DEF Binding, Complete
<1>7. r.content.span = call.span /\ r.content.tool = call.name
  BY <1>2, <1>6 DEF Names, Complete
<1>8. ASSUME Clocked(call.at)
      PROVE  r.content.granted <= call.at.ts /\ call.at.ts <= r.content.expires
  <2>1. r.content.granted # None /\ r.content.expires # None
    BY <1>4 DEF ApprovalsInv, IssuedWithAWindow
  <2>2. r.content \in Contents BY <1>4 DEF ApprovalsInv, ApprovalsTyped, ApprovalsTypeOK
  <2>3. r.content.granted \in Int /\ r.content.expires \in Int
    BY <2>1, <2>2 DEF ApprovalsAssumption
  <2>4. call.at.ts \in Int
    BY <1>8 DEF ApprovalsAssumption, MomentsAssumption, Moments, Clocked
  <2>5. ~Outside(r.content.granted, r.content.expires, call.at.ts)
    BY <1>5, <1>8 DEF Expired
  <2>6. QED BY <2>1, <2>3, <2>4, <2>5 DEF Outside
<1>9. QED BY <1>4, <1>5, <1>6, <1>7, <1>8

(* The answer, once everything that names the call is remembered.          *)
LEMMA AnswerKeeps ==
  ASSUME ApprovalsAssumption, MomentsAssumption, ApprovalsInv, Answer
  PROVE  ApprovalsInv'
<1> DEFINE call  == asking.call
           given == <<call, State(call), sealed>>
           found == {<<session, r.content.nonce>> : r \in Covering(call)}
<1>1. /\ asking # None /\ asking.todo = {}
      /\ answers' = answers \cup {given}
      /\ covered' = IF State(call) = "approved" THEN covered \cup found ELSE covered
      /\ asking' = None
      /\ UNCHANGED <<issued, session, approvals, sealed, checked, loaded, spent, told, vouched>>
  BY DEF Answer
<1>2. call \in Calls BY <1>1 DEF ApprovalsInv, ApprovalsTyped, ApprovalsTypeOK
<1>3. Matching(call) \subseteq DOMAIN checked BY <1>1 DEF ApprovalsInv, Asked
<1>4. State(call) \in States BY StateIsOne
<1>5. Presented' = Presented BY <1>1 DEF Presented
<1>6. \A r \in Covering(call) :
        /\ r \in DOMAIN checked /\ r.content.nonce \in Nonces \cup {None}
        /\ RequireSigned => Assured(r)
  <2> TAKE r \in Covering(call)
  <2>1. r \in Matching(call) /\ (RequireSigned => Assured(r)) BY DEF Covering
  <2>2. r \in Presentable
    BY <2>1, MatchingPresented DEF ApprovalsInv, ApprovalsTyped, ApprovalsTypeOK, Presented
  <2>3. r.content \in Contents BY <2>2 DEF ApprovalsAssumption
  <2>4. QED BY <2>1, <2>3, <1>3 DEF Nonces
<1>7. State(call) = "approved" => Covering(call) # {} BY DEF State
<1>8. ApprovalsTyped'
  <2>1. found \subseteq Nat \X (Nonces \cup {None})
    BY <1>6 DEF ApprovalsInv, ApprovalsTyped, ApprovalsTypeOK
  <2>2. given \in Calls \X States \X BOOLEAN
    BY <1>2, <1>4 DEF ApprovalsInv, ApprovalsTyped, ApprovalsTypeOK
  <2>3. /\ answers' \subseteq Calls \X States \X BOOLEAN
        /\ covered' \subseteq Nat \X (Nonces \cup {None})
    BY <1>1, <2>1, <2>2 DEF ApprovalsInv, ApprovalsTyped, ApprovalsTypeOK
  <2>4. QED BY <1>1, <1>5, <2>3 DEF ApprovalsInv, ApprovalsTyped, ApprovalsTypeOK
<1>9. IssuedWithAWindow' /\ SignedByTheIssuer'
  BY <1>1, <1>5 DEF ApprovalsInv, IssuedWithAWindow, SignedByTheIssuer
<1>10. Remembered' BY <1>1 DEF ApprovalsInv, Remembered, Full, Verified
<1>11. VouchedIsSpent' /\ NonceVouchesOnce' /\ SpentWasIssued'
  BY <1>1 DEF ApprovalsInv, VouchedIsSpent, NonceVouchesOnce, SpentWasIssued
<1>12. CoveredVouched'
  <2> SUFFICES ASSUME RequireSigned, LedgerOn, ~Full, NEW c \in covered', c[2] # None
               PROVE  c \in vouched
    BY <1>1 DEF CoveredVouched, Full
  <2>1. CASE c \in covered BY <2>1 DEF ApprovalsInv, CoveredVouched
  <2>2. CASE c \in found
    <3>1. PICK r \in Covering(call) : c = <<session, r.content.nonce>> BY <2>2
    <3>2. r \in DOMAIN checked /\ Assured(r) BY <1>6
    <3>3. checked[r] \in Verdicts /\ checked[r] # "no_answer"
      BY <3>1, <3>2 DEF ApprovalsInv, ApprovalsTyped, ApprovalsTypeOK, Remembered
    <3>4. checked[r] = "unspent" BY <3>2, <3>3 DEF Assured, Verdicts
    <3>5. QED BY <3>1, <3>2, <3>4 DEF ApprovalsInv, Remembered
  <2>3. QED BY <2>1, <2>2, <1>1
<1>13. Asked' BY <1>1 DEF Asked
<1>14. Standing'
  <2> SUFFICES ASSUME NEW a \in answers', a[3]
               PROVE  /\ sealed
                      /\ Matching(a[1])' \subseteq DOMAIN checked
                      /\ State(a[1])' = a[2]
    BY <1>1 DEF Standing
  <2>1. Matching(a[1])' = Matching(a[1]) /\ State(a[1])' = State(a[1])
    BY <1>1, SameState
  <2>2. CASE a \in answers BY <2>1, <2>2 DEF ApprovalsInv, Standing
  <2>3. CASE a = given BY <2>1, <2>3, <1>3
  <2>4. QED BY <2>2, <2>3, <1>1
<1>15. CoveredWasIssued'
  <2> SUFFICES ASSUME RequireSigned, NEW a \in answers', a[2] = "approved"
               PROVE  \E c \in issued :
                        /\ c.decision = "allow"
                        /\ c.span = a[1].span /\ c.tool = a[1].name /\ c.args = a[1].args
                        /\ Clocked(a[1].at) =>
                             c.granted <= a[1].at.ts /\ a[1].at.ts <= c.expires
    BY <1>1 DEF CoveredWasIssued
  <2>1. CASE a \in answers BY <2>1 DEF ApprovalsInv, CoveredWasIssued
  <2>2. CASE a = given
    <3>1. PICK r \in Covering(call) : TRUE BY <2>2, <1>7
    <3>2. /\ r.content \in issued
          /\ r.content.decision = "allow"
          /\ r.content.span = call.span /\ r.content.tool = call.name
          /\ r.content.args = call.args
          /\ Clocked(call.at) =>
               r.content.granted <= call.at.ts /\ call.at.ts <= r.content.expires
      BY <1>2, <1>3, CoveringWasIssued
    <3>3. QED BY <2>2, <3>2
  <2>3. QED BY <2>1, <2>2, <1>1
<1>16. QED BY <1>8, <1>9, <1>10, <1>11, <1>12, <1>13, <1>14, <1>15 DEF ApprovalsInv

LEMMA StutterKeeps == ASSUME ApprovalsInv, UNCHANGED approvalsVars PROVE ApprovalsInv'
<1>1. UNCHANGED <<issued, session, approvals, sealed, checked, loaded, spent, asking, told,
                  answers, vouched, covered>>
  BY DEF approvalsVars
<1>2. Presented' = Presented BY <1>1 DEF Presented
<1>3. ApprovalsTyped' BY <1>1, <1>2 DEF ApprovalsInv, ApprovalsTyped, ApprovalsTypeOK
<1>4. IssuedWithAWindow' /\ SignedByTheIssuer'
  BY <1>1, <1>2 DEF ApprovalsInv, IssuedWithAWindow, SignedByTheIssuer
<1>5. Remembered' BY <1>1 DEF ApprovalsInv, Remembered, Full
<1>6. VouchedIsSpent' /\ NonceVouchesOnce' /\ SpentWasIssued' /\ CoveredVouched'
  BY <1>1 DEF ApprovalsInv, VouchedIsSpent, NonceVouchesOnce, SpentWasIssued, CoveredVouched, Full
<1>7. Asked' BY <1>1 DEF ApprovalsInv, Asked, Matching, Indexed
<1>8. Standing' BY <1>1, StillStanding DEF ApprovalsInv
<1>9. CoveredWasIssued' BY <1>1 DEF ApprovalsInv, CoveredWasIssued
<1>10. QED BY <1>3, <1>4, <1>5, <1>6, <1>7, <1>8, <1>9 DEF ApprovalsInv

-----------------------------------------------------------------------------
(* What is remembered of a record is what verifying it found, a nonce      *)
(* vouches once and is spent by it, and a sealed session's answers stand:  *)
(* at every step of issuing, presenting, sealing and asking.               *)
THEOREM MemoIsTrue ==
  ASSUME ApprovalsAssumption, MomentsAssumption
  PROVE  ApprovalsSpec => []ApprovalsInv
<1>1. ApprovalsInit => ApprovalsInv BY ApprovalsBegin
<1>2. ApprovalsInv /\ [ApprovalsNext]_approvalsVars => ApprovalsInv'
  <2> SUFFICES ASSUME ApprovalsInv, [ApprovalsNext]_approvalsVars PROVE ApprovalsInv' OBVIOUS
  <2>1. CASE \E c \in Contents : Issue(c) BY <2>1, IssueKeeps
  <2>2. CASE \E r \in Presentable : Present(r) BY <2>2, PresentKeeps
  <2>3. CASE Seal BY <2>3, SealKeeps
  <2>4. CASE NextSession BY <2>4, NextSessionKeeps
  <2>5. CASE \E call \in Calls : Ask(call) BY <2>5, AskKeeps
  <2>6. CASE \E r \in Presented : Check(r) BY <2>6, CheckKeeps
  <2>7. CASE Answer BY <2>7, AnswerKeeps
  <2>8. CASE UNCHANGED approvalsVars BY <2>8, StutterKeeps
  <2>9. QED BY <2>1, <2>2, <2>3, <2>4, <2>5, <2>6, <2>7, <2>8 DEF ApprovalsNext
<1>3. QED BY <1>1, <1>2, PTL DEF ApprovalsSpec

(* For any issuer, store, ledger and calls: where signed approvals are     *)
(* required what covers a call was issued for it; only a signature spends  *)
(* a nonce, and it vouches in one session; a sealed session's answers do   *)
(* not change; and no approval covers calls of two sessions while the      *)
(* ledger has room (covering_approval, _checked_approval, spend).          *)
THEOREM IssuerCoversOnce ==
  ASSUME ApprovalsAssumption, MomentsAssumption
  PROVE  ApprovalsSpec => []CoveredOnceByTheIssuer
<1>1. ApprovalsInv => CoveredOnceByTheIssuer
  <2> SUFFICES ASSUME ApprovalsInv PROVE CoveredOnceByTheIssuer OBVIOUS
  <2>1. AnswerKept
    <3> SUFFICES ASSUME NEW a \in answers, NEW b \in answers, a[1] = b[1], a[3], b[3]
                 PROVE  a = b
      BY DEF AnswerKept
    <3>1. a[2] = b[2] BY DEF ApprovalsInv, Standing
    <3>2. a \in Calls \X States \X BOOLEAN /\ b \in Calls \X States \X BOOLEAN
      BY DEF ApprovalsInv, ApprovalsTyped, ApprovalsTypeOK
    <3>3. QED BY <3>1, <3>2
  <2>2. ReplayNeedsAFullLedger
    BY DEF ApprovalsInv, CoveredVouched, NonceVouchesOnce, ReplayNeedsAFullLedger
  <2>3. QED BY <2>1, <2>2 DEF ApprovalsInv, ApprovalsTyped, CoveredOnceByTheIssuer
<1>2. QED BY <1>1, MemoIsTrue, PTL
=============================================================================
