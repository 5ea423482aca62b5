--------------------------- MODULE OperatorProofs ---------------------------
(***************************************************************************)
(* Proofs about what the operator maintains around the verifier: the files *)
(* of a run's policy (PolicyRun), key generation (KeyRuns), collectors     *)
(* that share a signer and its files (SharedSigner), the identity of runs  *)
(* (RunIdentity), the capability manifest (Manifest) and the trust store   *)
(* (TrustStore), each for any choice of its constants.                     *)
(***************************************************************************)
EXTENDS TrustStore, PolicyRun, KeyRuns, SharedSigner, RunIdentity, Manifest,
        SequenceTheorems, FiniteSetTheorems, WellFoundedInduction, TLAPS

(* SharedSigner: any number of threads, processes, records and restarts.   *)

SignedBodies == Workers \X Nat

(* A signer that has signed `next` records, by any thread of any start.    *)
States ==
  {s \in [next : Nat, head : Seq(SignedBodies), closed : BOOLEAN] : Len(s.head) = s.next}

Records ==
  [seq : Nat, prev : Seq(SignedBodies), chain : Seq(SignedBodies), final : BOOLEAN,
   life : Processes \X Nat]

SharingTypeOK ==
  /\ signer \in [Processes -> {<<>>} \cup {<<s>> : s \in States}]
  /\ at \in [Workers -> {"idle", "signed", "written", "taken"}]
  /\ held \in [Workers -> {<<>>} \cup {<<r>> : r \in Records} \cup {<<s>> : s \in States}]
  /\ output \in Seq(Records)
  /\ file \in {<<>>} \cup {<<s>> : s \in States}
  /\ signed \in [Workers -> Nat]
  /\ lives \in [Processes -> Nat]
  /\ apart \in BOOLEAN

(* What a thread has in hand while it is somewhere: a record it signed, or *)
(* a state its process has not left behind.                                *)
Carries(w) ==
  /\ at[w] # "idle" => Lives(Home[w])
  /\ at[w] = "signed" => held[w] \in {<<r>> : r \in Records}
  /\ at[w] = "taken" =>
       /\ held[w] \in {<<s>> : s \in States}
       /\ IsPrefix(held[w][1].head, signer[Home[w]][1].head)

InHand(w) == held[w][1]

Signing == {w \in Workers : at[w] = "signed"}

(* The records made and not lost, of any start.                            *)
Made == Range(output) \cup {InHand(w) : w \in Signing}

Life(p) == <<p, lives[p]>>

(* A record is of a start there has been, and the records of one that      *)
(* lives are behind its signer: below its position, the last of them the   *)
(* one its head commits to, and none of them a close unless it is closed.  *)
BehindTheSigner ==
  \A r \in Made :
    /\ r.life[2] <= lives[r.life[1]]
    /\ \A p \in Processes : Lives(p) /\ r.life = Life(p) =>
         /\ r.seq < signer[p][1].next
         /\ r.seq + 1 = signer[p][1].next => r.chain = signer[p][1].head
         /\ r.final => signer[p][1].closed

(* Each record is in one place.                                            *)
MadeOnce ==
  /\ \A i, j \in DOMAIN output : output[i] = output[j] => i = j
  /\ \A w \in Signing : InHand(w) \notin Range(output)
  /\ \A w, v \in Signing : InHand(w) = InHand(v) => w = v

OneLine ==
  \A r, s \in Made : r.life = s.life =>
    /\ r.seq = s.seq => r = s
    /\ s.seq = r.seq + 1 => s.prev = r.chain
    /\ r.final => s.seq <= r.seq

OneAtATime == apart => \A p, q \in Processes : Lives(p) /\ Lives(q) => p = q

(* What a restart will find is behind every collector that lives.          *)
FileBehind ==
  apart /\ file # <<>> =>
    \A p \in Processes : Lives(p) => IsPrefix(file[1].head, signer[p][1].head)

SharingInv ==
  /\ SharingTypeOK
  /\ \A w \in Workers : Carries(w)
  /\ BehindTheSigner
  /\ MadeOnce
  /\ OneLine
  /\ OneAtATime
  /\ FileBehind

-----------------------------------------------------------------------------
LEMMA PrefixOfItself ==
  ASSUME NEW S, NEW s \in Seq(S)
  PROVE  IsPrefix(s, s)
BY DEF IsPrefix

LEMMA PrefixGrows ==
  ASSUME NEW S, NEW s \in Seq(S), NEW t \in Seq(S), NEW e \in S, IsPrefix(s, t)
  PROVE  IsPrefix(s, Append(t, e))
BY DEF IsPrefix

LEMMA EmptyIsPrefix ==
  ASSUME NEW S, NEW t \in Seq(S)
  PROVE  IsPrefix(<<>>, t)
BY DEF IsPrefix

LEMMA FreshIsState == Fresh \in States
BY DEF Fresh, States

(* What a signer becomes that takes one more body.                         *)
LEMMA NextState ==
  ASSUME NEW s \in States, NEW b \in SignedBodies, NEW c \in BOOLEAN
  PROVE  [next |-> s.next + 1, head |-> Append(s.head, b), closed |-> c] \in States
BY DEF States

THEOREM Initially == SharingAssumption /\ SharingInit => SharingInv
<1> SUFFICES ASSUME SharingAssumption, SharingInit PROVE SharingInv OBVIOUS
<1>1. SharingTypeOK
  BY DEF SharingInit, SharingTypeOK, SharingAssumption
<1>2. output = <<>> /\ Signing = {} /\ Made = {}
  BY DEF SharingInit, Made, Signing, Range
<1>3. \A p \in Processes : ~Lives(p)
  BY DEF SharingInit, Lives
<1>4. \A w \in Workers : Carries(w)
  BY DEF SharingInit, Carries
<1> QED BY <1>1, <1>2, <1>3, <1>4
  DEF SharingInit, SharingInv, BehindTheSigner, MadeOnce, OneLine, OneAtATime, FileBehind

-----------------------------------------------------------------------------
(* Records change places and are lost, and none is made.                   *)
LEMMA NoneMade ==
  ASSUME SharingInv, SharingTypeOK', MadeOnce', Made' \subseteq Made,
         \A p \in Processes : Lives(p)' => Lives(p) /\ signer'[p] = signer[p],
         lives' = lives
  PROVE  BehindTheSigner' /\ OneLine'
<1>1. BehindTheSigner'
  <2> SUFFICES ASSUME NEW r \in Made'
               PROVE  /\ r.life[2] <= lives'[r.life[1]]
                      /\ \A p \in Processes : Lives(p)' /\ r.life = Life(p)' =>
                           /\ r.seq < signer'[p][1].next
                           /\ r.seq + 1 = signer'[p][1].next => r.chain = signer'[p][1].head
                           /\ r.final => signer'[p][1].closed
    BY DEF BehindTheSigner
  <2>1. r \in Made OBVIOUS
  <2> QED BY <2>1 DEF SharingInv, BehindTheSigner, Life
<1>2. OneLine'
  BY DEF SharingInv, OneLine
<1> QED BY <1>1, <1>2

LEMMA StartKeeps ==
  ASSUME SharingAssumption, SharingInv, NEW p \in Processes, Start(p)
  PROVE  SharingInv'
<1>1. PICK s : s = Resumed(file)
  OBVIOUS
<1>2. s \in States
  BY <1>1, FreshIsState DEF SharingInv, SharingTypeOK, Resumed
<1>3. /\ signer[p] = <<>> /\ signer' = [signer EXCEPT ![p] = <<s>>]
      /\ lives' = [lives EXCEPT ![p] = lives[p] + 1]
      /\ apart' = (apart /\ \A q \in Processes : ~Lives(q))
      /\ UNCHANGED <<at, held, output, file, signed>>
  BY <1>1 DEF Start, Lives
<1>4. SharingTypeOK'
  BY <1>2, <1>3 DEF SharingInv, SharingTypeOK
<1>5. /\ signer'[p] = <<s>>
      /\ \A q \in Processes \ {p} : signer'[q] = signer[q] /\ lives'[q] = lives[q]
      /\ lives'[p] = lives[p] + 1 /\ lives[p] \in Nat
  BY <1>3 DEF SharingInv, SharingTypeOK
<1>6. ASSUME NEW w \in Workers PROVE Carries(w)'
  <2>1. Home[w] \in Processes
    BY DEF SharingAssumption
  <2>2. CASE Home[w] = p
    BY <2>2, <1>3 DEF SharingInv, Carries, Lives
  <2>3. CASE Home[w] # p
    BY <2>1, <2>3, <1>3, <1>5 DEF SharingInv, Carries, Lives
  <2> QED BY <2>2, <2>3
<1>7. Made' = Made /\ Signing' = Signing
  BY <1>3 DEF Made, Signing, InHand
<1>8. MadeOnce' /\ OneLine'
  BY <1>3, <1>7 DEF SharingInv, MadeOnce, OneLine, InHand
<1>9. Made \subseteq Records
  BY DEF SharingInv, SharingTypeOK, Made, Carries, Signing, InHand, Range
<1>10. BehindTheSigner'
  <2> SUFFICES ASSUME NEW r \in Made
               PROVE  /\ r.life[2] <= lives'[r.life[1]]
                      /\ \A q \in Processes : Lives(q)' /\ r.life = Life(q)' =>
                           /\ r.seq < signer'[q][1].next
                           /\ r.seq + 1 = signer'[q][1].next => r.chain = signer'[q][1].head
                           /\ r.final => signer'[q][1].closed
    BY <1>7 DEF BehindTheSigner
  <2>1. r.life \in Processes \X Nat /\ r.life[1] \in Processes /\ r.life[2] \in Nat
    BY <1>9 DEF Records
  <2>2. r.life[2] <= lives[r.life[1]] /\ lives[r.life[1]] \in Nat
    BY <2>1 DEF SharingInv, BehindTheSigner, SharingTypeOK
  <2>3. r.life[2] <= lives'[r.life[1]]
    BY <2>1, <2>2, <1>5
  <2>4. r.life # Life(p)'
    BY <2>2, <1>5 DEF Life
  <2>5. ASSUME NEW q \in Processes \ {p}, Lives(q)', r.life = Life(q)'
        PROVE  /\ r.seq < signer'[q][1].next
               /\ r.seq + 1 = signer'[q][1].next => r.chain = signer'[q][1].head
               /\ r.final => signer'[q][1].closed
    <3>1. signer'[q] = signer[q] /\ lives'[q] = lives[q]
      BY <1>5
    <3>2. Lives(q) /\ r.life = Life(q)
      BY <2>5, <3>1 DEF Lives, Life
    <3> QED BY <3>1, <3>2 DEF SharingInv, BehindTheSigner
  <2> QED BY <2>3, <2>4, <2>5
<1>11. OneAtATime' /\ FileBehind'
  <2> SUFFICES ASSUME apart' PROVE OneAtATime' /\ FileBehind'
    BY DEF OneAtATime, FileBehind
  <2>1. \A q \in Processes : Lives(q)' => q = p
    BY <1>3, <1>5 DEF Lives
  <2>2. file # <<>> => IsPrefix(file[1].head, s.head)
    <3> SUFFICES ASSUME file # <<>> PROVE IsPrefix(file[1].head, s.head)
      OBVIOUS
    <3>1. s = file[1]
      BY <1>1 DEF Resumed
    <3>2. s.head \in Seq(SignedBodies)
      BY <1>2 DEF States
    <3> QED BY <3>1, <3>2, PrefixOfItself
  <2>3. signer'[p][1] = s
    BY <1>5
  <2> QED BY <2>1, <2>2, <2>3, <1>3 DEF OneAtATime, FileBehind
<1> QED BY <1>4, <1>6, <1>8, <1>10, <1>11 DEF SharingInv

(* Signing adds one record, ahead of all the others of its start.          *)
LEMMA SignKeeps ==
  ASSUME SharingAssumption, SharingInv, NEW w \in Workers, NEW final \in BOOLEAN, Sign(w, final)
  PROVE  SharingInv'
<1> DEFINE p == Home[w]
<1>1. p \in Processes
  BY DEF SharingAssumption
<1>2. PICK s : s = signer[p][1]
  OBVIOUS
<1>3. signer[p] = <<s>> /\ s \in States
  BY <1>1, <1>2 DEF Sign, Lives, SharingInv, SharingTypeOK
<1>4. PICK b : b = Body(w)
  OBVIOUS
<1>5. b \in SignedBodies
  BY <1>4 DEF Body, SignedBodies, SharingInv, SharingTypeOK
<1>6. PICK t : t = [next |-> s.next + 1, head |-> Append(s.head, b), closed |-> final]
  OBVIOUS
<1>7. t \in States /\ t.next = s.next + 1 /\ t.head = Append(s.head, b) /\ t.closed = final
  BY <1>3, <1>5, <1>6, NextState
<1>8. PICK r : r = NextRecord(w, s, final)
  OBVIOUS
<1>9. /\ r.seq = s.next /\ r.prev = s.head /\ r.chain = t.head /\ r.final = final
      /\ r.life = Life(p)
  BY <1>4, <1>7, <1>8 DEF NextRecord, Life
<1>10. r \in Records
  <2>1. s.next \in Nat /\ s.head \in Seq(SignedBodies) /\ Append(s.head, b) \in Seq(SignedBodies)
    BY <1>3, <1>5 DEF States
  <2>2. <<p, lives[p]>> \in Processes \X Nat
    BY <1>1 DEF SharingInv, SharingTypeOK
  <2> QED BY <1>4, <1>8, <2>1, <2>2 DEF NextRecord, Records
<1>11. /\ ~s.closed /\ at[w] = "idle"
       /\ held' = [held EXCEPT ![w] = <<r>>]
       /\ signer' = [signer EXCEPT ![p] = <<t>>]
       /\ at' = [at EXCEPT ![w] = "signed"]
       /\ signed' = [signed EXCEPT ![w] = signed[w] + 1]
       /\ UNCHANGED <<output, file, lives, apart>>
  BY <1>2, <1>4, <1>6, <1>8 DEF Sign, Seen, Mine, MaySign
<1>12. SharingTypeOK'
  BY <1>1, <1>7, <1>10, <1>11 DEF SharingInv, SharingTypeOK
<1>13. /\ signer'[p] = <<t>> /\ \A q \in Processes \ {p} : signer'[q] = signer[q]
       /\ held'[w] = <<r>> /\ at'[w] = "signed"
       /\ \A v \in Workers \ {w} : held'[v] = held[v] /\ at'[v] = at[v]
  BY <1>1, <1>11 DEF SharingInv, SharingTypeOK
<1>14. /\ Signing' = Signing \cup {w} /\ w \notin Signing
       /\ InHand(w)' = r /\ \A v \in Signing : InHand(v)' = InHand(v)
  BY <1>11, <1>13 DEF Signing, InHand
<1>15. Made' = Made \cup {r}
  BY <1>11, <1>14 DEF Made
<1>16. /\ Lives(p) /\ Lives(p)' /\ Life(p)' = Life(p)
       /\ \A q \in Processes : Lives(q)' => Lives(q)
       /\ \A q \in Processes : Life(q)' = Life(q)
  BY <1>3, <1>11, <1>13 DEF Lives, Life
<1>17. s.next \in Nat /\ s.head \in Seq(SignedBodies)
  BY <1>3 DEF States
<1>18. ASSUME NEW m \in Made, m.life = Life(p)
       PROVE  /\ m.seq \in Nat /\ m.seq < s.next /\ ~m.final
              /\ m.seq + 1 = s.next => m.chain = s.head
  <2>1. /\ m.seq < s.next
        /\ m.final => s.closed
        /\ m.seq + 1 = s.next => m.chain = s.head
    BY <1>1, <1>2, <1>16, <1>18 DEF SharingInv, BehindTheSigner
  <2>2. m \in Records
    BY DEF SharingInv, SharingTypeOK, Made, Carries, Signing, InHand, Range
  <2> QED BY <2>1, <2>2, <1>11 DEF Records
<1>19. r \notin Made
  BY <1>9, <1>17, <1>18
<1>20. ASSUME NEW v \in Workers PROVE Carries(v)'
  <2>1. CASE v = w
    BY <2>1, <1>10, <1>13, <1>16 DEF Carries
  <2>2. CASE v # w
    <3>1. held'[v] = held[v] /\ at'[v] = at[v] /\ Carries(v) /\ Home[v] \in Processes
      BY <2>2, <1>13 DEF SharingInv, SharingAssumption
    <3>2. CASE Home[v] = p
      <4>1. ASSUME at[v] = "taken" PROVE IsPrefix(held[v][1].head, t.head)
        <5>1. held[v] \in {<<x>> : x \in States} /\ IsPrefix(held[v][1].head, s.head)
          BY <3>1, <3>2, <4>1, <1>2 DEF Carries
        <5>2. held[v][1].head \in Seq(SignedBodies)
          BY <5>1 DEF States
        <5> QED BY <5>1, <5>2, <1>5, <1>7, <1>17, PrefixGrows
      <4> QED BY <3>1, <3>2, <4>1, <1>13, <1>16 DEF Carries
    <3>3. CASE Home[v] # p
      BY <3>1, <3>3, <1>13 DEF Carries, Lives
    <3> QED BY <3>2, <3>3
  <2> QED BY <2>1, <2>2
<1>21. MadeOnce'
  BY <1>11, <1>14, <1>19 DEF SharingInv, MadeOnce, Made
<1>22. BehindTheSigner'
  <2>1. /\ r.life[2] <= lives'[r.life[1]]
        /\ \A q \in Processes : r.life = Life(q)' => q = p
    BY <1>1, <1>9, <1>11 DEF Life, SharingInv, SharingTypeOK
  <2>2. /\ r.seq < t.next
        /\ r.seq + 1 = t.next => r.chain = t.head
        /\ r.final => t.closed
    BY <1>7, <1>9, <1>17
  <2>3. ASSUME NEW m \in Made
        PROVE  /\ m.life[2] <= lives'[m.life[1]]
               /\ \A q \in Processes : Lives(q)' /\ m.life = Life(q)' =>
                    /\ m.seq < signer'[q][1].next
                    /\ m.seq + 1 = signer'[q][1].next => m.chain = signer'[q][1].head
                    /\ m.final => signer'[q][1].closed
    <3>1. m.life[2] <= lives'[m.life[1]]
      BY <1>11 DEF SharingInv, BehindTheSigner
    <3>2. ASSUME m.life = Life(p)
          PROVE  /\ m.seq < t.next /\ m.seq + 1 # t.next /\ ~m.final
      BY <3>2, <1>7, <1>17, <1>18
    <3>3. ASSUME NEW q \in Processes \ {p}, Lives(q)', m.life = Life(q)'
          PROVE  /\ m.seq < signer'[q][1].next
                 /\ m.seq + 1 = signer'[q][1].next => m.chain = signer'[q][1].head
                 /\ m.final => signer'[q][1].closed
      BY <3>3, <1>13, <1>16 DEF SharingInv, BehindTheSigner
    <3> QED BY <3>1, <3>2, <3>3, <1>13, <1>16
  <2> QED BY <2>1, <2>2, <2>3, <1>13, <1>15 DEF BehindTheSigner
<1>23. OneLine'
  BY <1>9, <1>15, <1>17, <1>18 DEF SharingInv, OneLine
<1>24. OneAtATime'
  BY <1>11, <1>16 DEF SharingInv, OneAtATime
<1>25. FileBehind'
  <2> SUFFICES ASSUME apart, file # <<>>, NEW q \in Processes, Lives(q)'
               PROVE  IsPrefix(file[1].head, signer'[q][1].head)
    BY <1>11 DEF FileBehind
  <2>1. IsPrefix(file[1].head, signer[q][1].head) /\ file[1].head \in Seq(SignedBodies)
    BY <1>16 DEF SharingInv, FileBehind, SharingTypeOK, States
  <2>2. CASE q = p
    <3>1. IsPrefix(file[1].head, Append(s.head, b))
      BY <2>1, <2>2, <1>2, <1>5, <1>17, PrefixGrows
    <3>2. signer'[q][1] = t
      BY <2>2, <1>13
    <3> QED BY <3>1, <3>2, <1>7
  <2>3. CASE q # p
    BY <2>1, <2>3, <1>13
  <2> QED BY <2>2, <2>3
<1> QED BY <1>12, <1>20, <1>21, <1>22, <1>23, <1>24, <1>25 DEF SharingInv

(* A record goes from the hand of its thread to the end of the output.     *)
LEMMA WriteKeeps ==
  ASSUME SharingAssumption, SharingInv, NEW w \in Workers, Write(w)
  PROVE  SharingInv'
<1>1. PICK r : r = InHand(w)
  OBVIOUS
<1>2. r \in Records
  BY <1>1 DEF Write, SharingInv, Carries, InHand
<1>3. /\ at[w] = "signed" /\ at' = [at EXCEPT ![w] = "written"]
      /\ output' = Append(output, r)
      /\ UNCHANGED <<signer, held, file, signed, lives, apart>>
  BY <1>1 DEF Write, InHand
<1>4. SharingTypeOK'
  BY <1>2, <1>3 DEF SharingInv, SharingTypeOK
<1>5. Signing' = Signing \ {w} /\ w \in Signing
  BY <1>3 DEF Signing, SharingInv, SharingTypeOK
<1>6. \A v \in Workers : InHand(v)' = InHand(v)
  BY <1>3 DEF InHand
<1>7. output \in Seq(Records)
  BY DEF SharingInv, SharingTypeOK
<1>8. /\ DOMAIN output' = DOMAIN output \cup {Len(output) + 1}
      /\ \A i \in DOMAIN output : output'[i] = output[i] /\ i # Len(output) + 1
      /\ output'[Len(output) + 1] = r
  BY <1>2, <1>3, <1>7
<1>9. Range(output') = Range(output) \cup {r}
  BY <1>8 DEF Range
<1>10. Made' = Made
  <2>1. {InHand(v)' : v \in Signing'} = {InHand(v) : v \in Signing'}
    BY <1>6 DEF Signing
  <2>2. {InHand(v) : v \in Signing} = {InHand(v) : v \in Signing'} \cup {r}
    BY <1>1, <1>5
  <2> QED BY <2>1, <2>2, <1>9 DEF Made
<1>11. MadeOnce'
  <2>1. \A i, j \in DOMAIN output' : output'[i] = output'[j] => i = j
    <3>1. \A i \in DOMAIN output : output[i] # r
      BY <1>1, <1>5 DEF SharingInv, MadeOnce, Range
    <3>2. \A i, j \in DOMAIN output : output[i] = output[j] => i = j
      BY DEF SharingInv, MadeOnce
    <3> QED BY <1>8, <3>1, <3>2
  <2>2. \A v \in Signing' : InHand(v)' \notin Range(output')
    BY <1>1, <1>5, <1>6, <1>9 DEF SharingInv, MadeOnce, Signing
  <2>3. \A v, u \in Signing' : InHand(v)' = InHand(u)' => v = u
    BY <1>5, <1>6 DEF SharingInv, MadeOnce, Signing
  <2> QED BY <2>1, <2>2, <2>3 DEF MadeOnce
<1>12. BehindTheSigner' /\ OneLine'
  BY <1>3, <1>4, <1>10, <1>11, NoneMade DEF Lives
<1>13. \A v \in Workers : Carries(v)'
  BY <1>3 DEF SharingInv, SharingTypeOK, Carries, Lives
<1>14. OneAtATime' /\ FileBehind'
  BY <1>3 DEF SharingInv, OneAtATime, FileBehind, Lives
<1> QED BY <1>4, <1>11, <1>12, <1>13, <1>14 DEF SharingInv

(* What a thread takes is where its process is.                            *)
LEMMA TakeStateKeeps ==
  ASSUME SharingAssumption, SharingInv, NEW w \in Workers, TakeState(w)
  PROVE  SharingInv'
<1>1. Home[w] \in Processes
  BY DEF SharingAssumption
<1>2. PICK s : s = signer[Home[w]][1]
  OBVIOUS
<1>3. /\ at[w] = "written" /\ at' = [at EXCEPT ![w] = "taken"]
      /\ held' = [held EXCEPT ![w] = <<s>>]
      /\ UNCHANGED <<signer, output, file, signed, lives, apart>>
  BY <1>2 DEF TakeState, Taken, Mine
<1>4. Lives(Home[w]) /\ s \in States
  BY <1>1, <1>2, <1>3 DEF SharingInv, SharingTypeOK, Carries, Lives
<1>5. SharingTypeOK'
  BY <1>3, <1>4 DEF SharingInv, SharingTypeOK
<1>6. /\ held'[w] = <<s>> /\ at'[w] = "taken"
      /\ \A v \in Workers \ {w} : held'[v] = held[v] /\ at'[v] = at[v]
  BY <1>3 DEF SharingInv, SharingTypeOK
<1>7. Signing' = Signing /\ w \notin Signing /\ \A v \in Signing : InHand(v)' = InHand(v)
  BY <1>3, <1>6 DEF Signing, InHand
<1>8. Made' = Made
  BY <1>3, <1>7 DEF Made
<1>9. MadeOnce'
  BY <1>3, <1>7 DEF SharingInv, MadeOnce
<1>10. BehindTheSigner' /\ OneLine'
  BY <1>3, <1>5, <1>8, <1>9, NoneMade DEF Lives
<1>11. ASSUME NEW v \in Workers PROVE Carries(v)'
  <2>1. CASE v = w
    <3>1. IsPrefix(s.head, s.head)
      BY <1>4, PrefixOfItself DEF States
    <3>2. held'[w][1] = s /\ signer'[Home[w]][1] = s
      BY <1>2, <1>3, <1>6
    <3> QED BY <2>1, <3>1, <3>2, <1>3, <1>4, <1>6 DEF Carries, Lives
  <2>2. CASE v # w
    BY <2>2, <1>3, <1>6 DEF SharingInv, Carries, Lives
  <2> QED BY <2>1, <2>2
<1>12. OneAtATime' /\ FileBehind'
  BY <1>3 DEF SharingInv, OneAtATime, FileBehind, Lives
<1> QED BY <1>5, <1>9, <1>10, <1>11, <1>12 DEF SharingInv

(* A late state is still behind the one collector that lives.              *)
LEMMA WriteStateKeeps ==
  ASSUME SharingAssumption, SharingInv, NEW w \in Workers, WriteState(w)
  PROVE  SharingInv'
<1>1. /\ at[w] = "taken" /\ at' = [at EXCEPT ![w] = "idle"]
      /\ file' = held[w] /\ held' = [held EXCEPT ![w] = <<>>]
      /\ UNCHANGED <<signer, output, signed, lives, apart>>
  BY DEF WriteState
<1>2. /\ Lives(Home[w]) /\ held[w] \in {<<s>> : s \in States}
      /\ IsPrefix(held[w][1].head, signer[Home[w]][1].head)
  BY <1>1 DEF SharingInv, Carries
<1>3. SharingTypeOK'
  BY <1>1, <1>2 DEF SharingInv, SharingTypeOK
<1>4. /\ at'[w] = "idle"
      /\ \A v \in Workers \ {w} : held'[v] = held[v] /\ at'[v] = at[v]
  BY <1>1 DEF SharingInv, SharingTypeOK
<1>5. Signing' = Signing /\ w \notin Signing /\ \A v \in Signing : InHand(v)' = InHand(v)
  BY <1>1, <1>4 DEF Signing, InHand
<1>6. Made' = Made
  BY <1>1, <1>5 DEF Made
<1>7. MadeOnce'
  BY <1>1, <1>5 DEF SharingInv, MadeOnce
<1>8. BehindTheSigner' /\ OneLine'
  BY <1>1, <1>3, <1>6, <1>7, NoneMade DEF Lives
<1>9. \A v \in Workers : Carries(v)'
  BY <1>1, <1>4 DEF SharingInv, Carries, Lives
<1>10. OneAtATime'
  BY <1>1 DEF SharingInv, OneAtATime, Lives
<1>11. FileBehind'
  <2> SUFFICES ASSUME apart, NEW p \in Processes, Lives(p)
               PROVE  IsPrefix(file'[1].head, signer[p][1].head)
    BY <1>1 DEF FileBehind, Lives
  <2>1. p = Home[w]
    BY <1>2 DEF SharingInv, OneAtATime, SharingAssumption
  <2> QED BY <2>1, <1>1, <1>2
<1> QED BY <1>3, <1>7, <1>8, <1>9, <1>10, <1>11 DEF SharingInv

LEMMA KillKeeps ==
  ASSUME SharingAssumption, SharingInv, NEW p \in Processes, Kill(p)
  PROVE  SharingInv'
<1>1. /\ signer' = [signer EXCEPT ![p] = <<>>]
      /\ at'     = [w \in Workers |-> IF Home[w] = p THEN "idle" ELSE at[w]]
      /\ held'   = [w \in Workers |-> IF Home[w] = p THEN <<>> ELSE held[w]]
      /\ UNCHANGED <<output, file, signed, lives, apart>>
  BY DEF Kill
<1>2. SharingTypeOK'
  BY <1>1 DEF SharingInv, SharingTypeOK
<1>3. signer'[p] = <<>> /\ \A q \in Processes \ {p} : signer'[q] = signer[q]
  BY <1>1 DEF SharingInv, SharingTypeOK
<1>4. \A q \in Processes : Lives(q)' => Lives(q) /\ signer'[q] = signer[q]
  BY <1>3 DEF Lives
<1>5. Signing' \subseteq Signing /\ \A w \in Signing' : InHand(w)' = InHand(w)
  BY <1>1 DEF Signing, InHand
<1>6. Made' \subseteq Made
  BY <1>1, <1>5 DEF Made
<1>7. MadeOnce'
  BY <1>1, <1>5 DEF SharingInv, MadeOnce
<1>8. BehindTheSigner' /\ OneLine'
  BY <1>1, <1>2, <1>4, <1>6, <1>7, NoneMade
<1>9. ASSUME NEW w \in Workers PROVE Carries(w)'
  <2>1. Home[w] \in Processes
    BY DEF SharingAssumption
  <2>2. CASE Home[w] = p
    BY <2>2, <1>1 DEF Carries
  <2>3. CASE Home[w] # p
    BY <2>1, <2>3, <1>1, <1>3 DEF SharingInv, Carries, Lives
  <2> QED BY <2>2, <2>3
<1>10. OneAtATime' /\ FileBehind'
  BY <1>1, <1>4 DEF SharingInv, OneAtATime, FileBehind
<1> QED BY <1>2, <1>7, <1>8, <1>9, <1>10 DEF SharingInv

-----------------------------------------------------------------------------
LEMMA StutterKeeps ==
  ASSUME SharingInv, UNCHANGED sharingVars
  PROVE  SharingInv'
<1>1. Made' = Made /\ Signing' = Signing
  BY DEF sharingVars, Made, Signing, InHand
<1> QED BY <1>1 DEF sharingVars, SharingInv, SharingTypeOK, Carries, BehindTheSigner, MadeOnce, OneLine,
                  OneAtATime, FileBehind, Lives, Life, InHand

(* The invariant of the collectors: records of a start that lives are      *)
(* behind its signer, each in one place, and what threads and the file     *)
(* hold of a state is behind the one collector that lives.                 *)
THEOREM SignersAgree == SharingAssumption => (SharingSpec => []SharingInv)
<1> SUFFICES ASSUME SharingAssumption PROVE SharingSpec => []SharingInv OBVIOUS
<1>1. SharingInit => SharingInv
  BY Initially
<1>2. SharingInv /\ [SharingNext]_sharingVars => SharingInv'
  <2> SUFFICES ASSUME SharingInv, [SharingNext]_sharingVars PROVE SharingInv' OBVIOUS
  <2>1. CASE \E p \in Processes : Start(p)
    BY <2>1, StartKeeps
  <2>2. CASE \E w \in Workers, final \in BOOLEAN : Sign(w, final)
    BY <2>2, SignKeeps
  <2>3. CASE \E w \in Workers : Write(w)
    BY <2>3, WriteKeeps
  <2>4. CASE \E w \in Workers : TakeState(w)
    BY <2>4, TakeStateKeeps
  <2>5. CASE \E w \in Workers : WriteState(w)
    BY <2>5, WriteStateKeeps
  <2>6. CASE \E p \in Processes : Kill(p)
    BY <2>6, KillKeeps
  <2>7. CASE UNCHANGED sharingVars
    BY <2>7, StutterKeeps
  <2> QED BY <2>1, <2>2, <2>3, <2>4, <2>5, <2>6, <2>7 DEF SharingNext
<1> QED BY <1>1, <1>2, PTL DEF SharingSpec

(* However many threads share a signer and however often it is started:    *)
(* the records of a start are one line, its close is the last of them, and *)
(* the state file is a point of the line that can be resumed.              *)
THEOREM SharersSignOneLine == SharingAssumption => (SharingSpec => []OneLineWhoeverSigns)
<1> SUFFICES ASSUME SharingAssumption PROVE SharingSpec => []OneLineWhoeverSigns OBVIOUS
<1>1. SharingInv => OneLineWhoeverSigns
  <2> SUFFICES ASSUME SharingInv PROVE OneLineWhoeverSigns OBVIOUS
  <2>1. ASSUME NEW life PROVE MadeIn(life) = {r \in Made : r.life = life}
    BY DEF MadeIn, Made, Signing, InHand
  <2>2. OneLineOfRecords
    <3>1. \A i, j \in DOMAIN output : output[i] = output[j] => i = j
      BY DEF SharingInv, MadeOnce
    <3> QED BY <2>1, <3>1 DEF OneLineOfRecords, SharingInv, OneLine
  <2>3. CloseIsLast
    BY <2>1 DEF CloseIsLast, SharingInv, OneLine
  <2>4. StateIsAPointOfTheLine
    BY DEF StateIsAPointOfTheLine, SharingInv, SharingTypeOK, States, FileBehind
  <2> QED BY <2>2, <2>3, <2>4 DEF OneLineWhoeverSigns
<1> QED BY <1>1, SignersAgree, PTL

-----------------------------------------------------------------------------
(* KeyRuns: any number of runs and key files, whichever of them overwrite. *)

Done == {r \in Keygens : phase[r] = "done"}

(* Two runs took this file, one of them told to overwrite it.              *)
Contested(keyfile) ==
  \E w \in Overwriting : \E s \in Keygens \ {w} :
    /\ Out[w] = keyfile /\ Out[s] = keyfile
    /\ phase[w] # "start" /\ phase[s] # "start"

(* From the write of its seed on, a run's key is in its file.              *)
Kept(r) ==
  phase[r] \in {"kept", "publishing", "done"} => seed[Out[r]] = r \/ Contested(Out[r])

(* From the opening on, there is a file.                                   *)
Opened(r) == phase[r] \in {"opened", "kept", "publishing", "done"} => seed[Out[r]] # Absent

(* What a document names was published by a run that is done, its own key  *)
(* apart, and what it revokes was revoked and is in it.                    *)
Documented(d, own) == d.keys \subseteq Done \cup own /\ d.revoked \subseteq revokedOnce \cap d.keys

Published == IsDocument(store) => Documented(store, {})

Drafted(r) == r \in AtWork => Documented(document[r], {r})

(* Nothing is done before there is a store.                                *)
NothingBefore == store = Absent => Done = {} /\ revokedOnce = {}

(* Runs that do not overlap: the one at work forgets nothing it found.     *)
Apart ==
  ~overlapped =>
    /\ \A r, s \in AtWork : r = s
    /\ \A r \in AtWork : Done \subseteq document[r].keys /\ document[r].revoked = revokedOnce

KeygenInv ==
  /\ KeygenTypeOK
  /\ \A r \in Keygens : Kept(r) /\ Opened(r) /\ Drafted(r)
  /\ Published /\ NothingBefore
  /\ OneCreatorPerFile
  /\ Apart /\ ApartNothingIsForgotten

-----------------------------------------------------------------------------
(* A step of one run leaves every other where it is.                       *)
LEMMA GotoMoves ==
  ASSUME KeygenTypeOK, NEW r \in Keygens, NEW place, Goto(r, place)
  PROVE  phase'[r] = place /\ \A s \in Keygens \ {r} : phase'[s] = phase[s]
BY DEF KeygenTypeOK, Goto

(* No run returns to its start, so what is contested stays so.             *)
LEMMA StaysContested ==
  ASSUME KeyRunsAssumption, NEW keyfile, Contested(keyfile),
         \A r \in Keygens : phase[r] # "start" => phase'[r] # "start"
  PROVE  Contested(keyfile)'
BY DEF Contested, KeyRunsAssumption

LEMMA KeygenBegins == KeyRunsAssumption /\ KeygenInit => KeygenInv
<1> SUFFICES ASSUME KeyRunsAssumption, KeygenInit PROVE KeygenInv OBVIOUS
<1>1. Done = {} /\ AtWork = {} /\ ~IsDocument(store)
  BY DEF KeygenInit, Done, AtWork, IsDocument
<1>2. KeygenTypeOK
  BY <1>1 DEF KeygenInit, KeygenTypeOK, KeyRunsAssumption
<1>3. \A r \in Keygens : Kept(r) /\ Opened(r) /\ Drafted(r)
  BY <1>1 DEF KeygenInit, Kept, Opened, Drafted
<1> QED BY <1>1, <1>2, <1>3
  DEF KeygenInit, KeygenInv, Published, NothingBefore, OneCreatorPerFile, Apart, ApartNothingIsForgotten

(* A run stops, or is refused: nothing else changes.                       *)
LEMMA LeavesKeeps ==
  ASSUME KeyRunsAssumption, KeygenInv, NEW r \in Keygens, NEW place \in {"stopped", "refused"},
         phase[r] = "start" \/ r \in AtWork,
         Goto(r, place), UNCHANGED <<document, seed, store, revokedOnce, overlapped>>
  PROVE  KeygenInv'
<1>1. phase'[r] = place /\ \A s \in Keygens \ {r} : phase'[s] = phase[s]
  BY GotoMoves DEF KeygenInv
<1>2. Done' = Done /\ AtWork' = AtWork \ {r}
  BY <1>1 DEF Done, AtWork
<1>3. KeygenTypeOK'
  BY <1>1, <1>2 DEF KeygenInv, KeygenTypeOK, Goto, IsDocument
<1>4. ASSUME NEW s \in Keygens PROVE Kept(s)' /\ Opened(s)' /\ Drafted(s)'
  <2>1. Kept(s)'
    BY <1>1, StaysContested DEF KeygenInv, Kept
  <2>2. Opened(s)'
    BY <1>1 DEF KeygenInv, Opened
  <2>3. Drafted(s)'
    BY <1>2 DEF KeygenInv, Drafted, Documented
  <2> QED BY <2>1, <2>2, <2>3
<1>5. Published' /\ NothingBefore'
  BY <1>2 DEF KeygenInv, Published, NothingBefore, Documented, IsDocument
<1>6. OneCreatorPerFile'
  BY <1>1 DEF KeygenInv, OneCreatorPerFile
<1>7. Apart' /\ ApartNothingIsForgotten'
  <2>1. {s \in Keygens : phase'[s] = "done"} = {s \in Keygens : phase[s] = "done"}
    BY <1>2 DEF Done
  <2> QED BY <1>2, <2>1 DEF KeygenInv, Apart, ApartNothingIsForgotten, IsDocument
<1> QED BY <1>3, <1>4, <1>5, <1>6, <1>7 DEF KeygenInv

(* The document read is the store, with the run's own key.                 *)
LEMMA MergedDocument ==
  ASSUME KeyRunsAssumption, KeygenInv, NEW r \in Keygens, store # Torn
  PROVE  /\ Merged(r, store) \in Documents /\ Merged(r, store) # Absent
         /\ r \in Merged(r, store).keys
         /\ Documented(Merged(r, store), {r})
         /\ ~overlapped => /\ Done \subseteq Merged(r, store).keys
                           /\ Merged(r, store).revoked = revokedOnce
<1>1. CASE IsDocument(store)
  <2>1. store \in Documents
    BY <1>1 DEF KeygenInv, KeygenTypeOK, IsDocument
  <2>2. Merged(r, store) = [keys |-> store.keys \cup {r}, revoked |-> store.revoked]
    BY <1>1, <2>1 DEF Merged, Documents
  <2>3. store.keys \subseteq Keygens /\ store.revoked \subseteq Keygens
    BY <2>1 DEF Documents
  <2>4. Merged(r, store) \in Documents
    BY <2>2, <2>3 DEF Documents
  <2>5. Documented(Merged(r, store), {r})
    BY <1>1, <2>2 DEF KeygenInv, Published, Documented
  <2>6. ~overlapped => Done \subseteq store.keys /\ store.revoked = revokedOnce
    BY <1>1 DEF KeygenInv, ApartNothingIsForgotten, Done
  <2> QED BY <2>2, <2>4, <2>5, <2>6 DEF KeyRunsAssumption
<1>2. CASE store = Absent
  <2>1. Merged(r, store) = [keys |-> {r}, revoked |-> {}]
    BY <1>2 DEF Merged, IsDocument
  <2>2. Done = {} /\ revokedOnce = {}
    BY <1>2 DEF KeygenInv, NothingBefore
  <2>3. Merged(r, store) \in Documents
    BY <2>1 DEF Documents
  <2> QED BY <2>1, <2>2, <2>3 DEF Documented, KeyRunsAssumption
<1> QED BY <1>1, <1>2 DEF IsDocument

LEMMA ReadStoreKeeps ==
  ASSUME KeyRunsAssumption, KeygenInv, NEW r \in Keygens, ReadStore(r)
  PROVE  KeygenInv'
<1>1. CASE store = Torn
  BY <1>1, LeavesKeeps DEF ReadStore
<1>2. CASE store # Torn
  <2>1. PICK d : d = Merged(r, store)
    OBVIOUS
  <2>2. /\ phase[r] = "start" /\ Goto(r, "merged")
        /\ document' = [document EXCEPT ![r] = d]
        /\ overlapped' = (overlapped \/ AtWork # {})
        /\ UNCHANGED <<seed, store, revokedOnce>>
    BY <1>2, <2>1 DEF ReadStore
  <2>3. /\ d \in Documents /\ d # Absent /\ r \in d.keys /\ Documented(d, {r})
        /\ ~overlapped => Done \subseteq d.keys /\ d.revoked = revokedOnce
    BY <1>2, <2>1, MergedDocument
  <2>4. phase'[r] = "merged" /\ \A s \in Keygens \ {r} : phase'[s] = phase[s]
    BY <2>2, GotoMoves DEF KeygenInv
  <2>5. Done' = Done /\ AtWork' = AtWork \cup {r} /\ r \notin AtWork
    BY <2>2, <2>4 DEF Done, AtWork
  <2>6. document'[r] = d /\ \A s \in Keygens \ {r} : document'[s] = document[s]
    BY <2>2 DEF KeygenInv, KeygenTypeOK
  <2>7. KeygenTypeOK'
    <3>1. phase' \in [Keygens -> {"start", "merged", "opened", "kept", "publishing",
                            "done", "refused", "stopped"}]
      BY <2>2 DEF KeygenInv, KeygenTypeOK, Goto
    <3>2. document' \in [Keygens -> Documents \cup {Absent}]
      BY <2>2, <2>3 DEF KeygenInv, KeygenTypeOK
    <3>3. \A s \in AtWork' : document'[s] # Absent /\ s \in document'[s].keys
      BY <2>3, <2>5, <2>6 DEF KeygenInv, KeygenTypeOK, AtWork
    <3> QED BY <2>2, <3>1, <3>2, <3>3 DEF KeygenInv, KeygenTypeOK, IsDocument
  <2>8. ASSUME NEW s \in Keygens PROVE Kept(s)' /\ Opened(s)' /\ Drafted(s)'
    <3>1. Kept(s)'
      BY <2>2, <2>4, StaysContested DEF KeygenInv, Kept
    <3>2. Opened(s)'
      BY <2>2, <2>4 DEF KeygenInv, Opened
    <3>3. Drafted(s)'
      BY <2>2, <2>3, <2>5, <2>6 DEF KeygenInv, Drafted, Documented
    <3> QED BY <3>1, <3>2, <3>3
  <2>9. Published' /\ NothingBefore'
    BY <2>2, <2>5 DEF KeygenInv, Published, NothingBefore, Documented, IsDocument
  <2>10. OneCreatorPerFile'
    BY <2>2, <2>4 DEF KeygenInv, OneCreatorPerFile
  <2>11. Apart'
    BY <2>2, <2>3, <2>5, <2>6 DEF KeygenInv, Apart, AtWork
  <2>12. ApartNothingIsForgotten'
    BY <2>2, <2>5 DEF KeygenInv, ApartNothingIsForgotten, IsDocument, Done
  <2> QED BY <2>7, <2>8, <2>9, <2>10, <2>11, <2>12 DEF KeygenInv
<1> QED BY <1>1, <1>2

(* A step of a run at work that stays at work and leaves the store and the *)
(* documents alone.                                                        *)
LEMMA StaysAtWork ==
  ASSUME KeygenInv, NEW r \in AtWork, NEW place \in {"opened", "kept"},
         Goto(r, place), UNCHANGED <<document, store, revokedOnce, overlapped>>
  PROVE  /\ Done' = Done /\ AtWork' = AtWork
         /\ \A s \in Keygens : Drafted(s)'
         /\ Published' /\ NothingBefore' /\ Apart' /\ ApartNothingIsForgotten'
<1>1. r \in Keygens /\ phase'[r] = place /\ \A s \in Keygens \ {r} : phase'[s] = phase[s]
  BY GotoMoves DEF KeygenInv, AtWork
<1>2. Done' = Done /\ AtWork' = AtWork
  BY <1>1 DEF Done, AtWork
<1>3. \A s \in Keygens : Drafted(s)'
  BY <1>2 DEF KeygenInv, Drafted, Documented
<1>4. Published' /\ NothingBefore'
  BY <1>2 DEF KeygenInv, Published, NothingBefore, Documented, IsDocument
<1>5. Apart' /\ ApartNothingIsForgotten'
  BY <1>2 DEF KeygenInv, Apart, ApartNothingIsForgotten, IsDocument, Done
<1> QED BY <1>2, <1>3, <1>4, <1>5

(* A run that creates its file finds none; one that overwrites contests it.*)
LEMMA OpenSeedKeeps ==
  ASSUME KeyRunsAssumption, KeygenInv, NEW r \in Keygens, OpenSeed(r)
  PROVE  KeygenInv'
<1>1. r \in AtWork /\ phase[r] = "merged"
  BY DEF OpenSeed, AtWork
<1>2. CASE FileTaken(r)
  BY <1>1, <1>2, LeavesKeeps DEF OpenSeed
<1>3. CASE ~FileTaken(r)
  <2>1. /\ Goto(r, "opened") /\ seed' = [seed EXCEPT ![Out[r]] = Torn]
        /\ UNCHANGED <<document, store, revokedOnce, overlapped>>
    BY <1>3 DEF OpenSeed
  <2>2. phase'[r] = "opened" /\ \A s \in Keygens \ {r} : phase'[s] = phase[s]
    BY <2>1, GotoMoves DEF KeygenInv
  <2>3. /\ Out[r] \in Paths /\ seed'[Out[r]] = Torn
        /\ \A p \in Paths \ {Out[r]} : seed'[p] = seed[p]
    BY <2>1 DEF KeygenInv, KeygenTypeOK, KeyRunsAssumption
  <2>4. \A s \in Keygens : phase[s] # "start" => phase'[s] # "start"
    BY <2>2
  <2>5. /\ Done' = Done /\ AtWork' = AtWork
        /\ \A s \in Keygens : Drafted(s)'
        /\ Published' /\ NothingBefore' /\ Apart' /\ ApartNothingIsForgotten'
    BY <1>1, <2>1, StaysAtWork
  <2>6. KeygenTypeOK'
    BY <2>1, <2>5 DEF KeygenInv, KeygenTypeOK, Goto, IsDocument, KeyRunsAssumption
  <2>7. ASSUME NEW s \in Keygens, phase'[s] \in {"kept", "publishing", "done"}
        PROVE  seed'[Out[s]] = s \/ Contested(Out[s])'
    <3>1. s # r /\ phase[s] = phase'[s] /\ Out[s] \in Paths /\ seed[Out[s]] # Absent
      BY <2>2, <2>7 DEF KeygenInv, Opened, KeyRunsAssumption
    <3>2. CASE Contested(Out[s])
      BY <2>4, <3>2, StaysContested
    <3>3. CASE Out[s] # Out[r]
      BY <2>3, <2>4, <2>7, <3>1, <3>3, StaysContested DEF KeygenInv, Kept
    <3>4. CASE Out[s] = Out[r]
      <4>1. r \in Overwriting
        BY <1>3, <3>1, <3>4 DEF FileTaken
      <4> QED BY <2>2, <2>7, <3>1, <3>4, <4>1 DEF Contested
    <3> QED BY <3>2, <3>3, <3>4
  <2>8. ASSUME NEW s \in Keygens PROVE Opened(s)'
    <3>1. Out[s] \in Paths
      BY DEF KeyRunsAssumption
    <3>2. CASE Out[s] = Out[r]
      BY <2>3, <3>2 DEF Opened, KeyRunsAssumption
    <3>3. CASE Out[s] # Out[r]
      BY <2>2, <2>3, <3>1, <3>3 DEF KeygenInv, Opened
    <3> QED BY <3>2, <3>3
  <2>9. OneCreatorPerFile'
    <3>1. ASSUME NEW s \in Keygens \ {r}, Out[s] = Out[r], r \notin Overwriting
          PROVE  phase'[s] \notin {"opened", "kept", "publishing", "done"}
      <4>1. seed[Out[s]] = Absent
        BY <1>3, <3>1 DEF FileTaken
      <4> QED BY <2>2, <3>1, <4>1 DEF KeygenInv, Opened
    <3> QED BY <2>2, <3>1 DEF KeygenInv, OneCreatorPerFile
  <2> QED BY <2>5, <2>6, <2>7, <2>8, <2>9 DEF KeygenInv, Kept
<1> QED BY <1>2, <1>3

(* Another run whose key was in that file: one of the two overwrites.      *)
LEMMA WriteSeedKeeps ==
  ASSUME KeyRunsAssumption, KeygenInv, NEW r \in Keygens, WriteSeed(r)
  PROVE  KeygenInv'
<1>1. /\ r \in AtWork /\ phase[r] = "opened" /\ Goto(r, "kept")
      /\ seed' = [seed EXCEPT ![Out[r]] = r]
      /\ UNCHANGED <<document, store, revokedOnce, overlapped>>
  BY DEF WriteSeed, AtWork
<1>2. phase'[r] = "kept" /\ \A s \in Keygens \ {r} : phase'[s] = phase[s]
  BY <1>1, GotoMoves DEF KeygenInv
<1>3. /\ Out[r] \in Paths /\ seed'[Out[r]] = r
      /\ \A p \in Paths \ {Out[r]} : seed'[p] = seed[p]
  BY <1>1 DEF KeygenInv, KeygenTypeOK, KeyRunsAssumption
<1>4. \A s \in Keygens : phase[s] # "start" => phase'[s] # "start"
  BY <1>2
<1>5. /\ Done' = Done /\ AtWork' = AtWork
      /\ \A s \in Keygens : Drafted(s)'
      /\ Published' /\ NothingBefore' /\ Apart' /\ ApartNothingIsForgotten'
  BY <1>1, StaysAtWork
<1>6. KeygenTypeOK'
  BY <1>1, <1>5 DEF KeygenInv, KeygenTypeOK, Goto, IsDocument, KeyRunsAssumption
<1>7. ASSUME NEW s \in Keygens PROVE Kept(s)'
  <2> SUFFICES ASSUME s # r, phase[s] \in {"kept", "publishing", "done"}
               PROVE  seed'[Out[s]] = s \/ Contested(Out[s])'
    BY <1>2, <1>3 DEF Kept
  <2>1. Out[s] \in Paths /\ (seed[Out[s]] = s \/ Contested(Out[s]))
    BY DEF KeygenInv, Kept, KeyRunsAssumption
  <2>2. CASE Contested(Out[s])
    BY <1>4, <2>2, StaysContested
  <2>3. CASE Out[s] # Out[r]
    BY <1>3, <1>4, <2>1, <2>3, StaysContested
  <2>4. CASE Out[s] = Out[r]
    <3>1. r \in Overwriting \/ s \in Overwriting
      BY <1>1, <2>4 DEF KeygenInv, OneCreatorPerFile
    <3>2. phase'[r] # "start" /\ phase'[s] # "start"
      BY <1>2
    <3> QED BY <2>4, <3>1, <3>2 DEF Contested
  <2> QED BY <2>2, <2>3, <2>4
<1>8. ASSUME NEW s \in Keygens PROVE Opened(s)'
  <2>1. Out[s] \in Paths /\ r # Absent
    BY DEF KeyRunsAssumption
  <2> QED BY <1>1, <1>2, <1>3, <2>1 DEF KeygenInv, Opened
<1>9. OneCreatorPerFile'
  BY <1>1, <1>2 DEF KeygenInv, OneCreatorPerFile
<1> QED BY <1>5, <1>6, <1>7, <1>8, <1>9 DEF KeygenInv

LEMMA TruncateStoreKeeps ==
  ASSUME KeyRunsAssumption, KeygenInv, NEW r \in Keygens, TruncateStore(r)
  PROVE  KeygenInv'
<1>1. /\ r \in AtWork /\ phase[r] = "kept" /\ Goto(r, "publishing") /\ store' = Torn
      /\ UNCHANGED <<document, seed, revokedOnce, overlapped>>
  BY DEF TruncateStore, AtWork
<1>2. phase'[r] = "publishing" /\ \A s \in Keygens \ {r} : phase'[s] = phase[s]
  BY <1>1, GotoMoves DEF KeygenInv
<1>3. Done' = Done /\ AtWork' = AtWork
  BY <1>1, <1>2 DEF Done, AtWork
<1>4. ~IsDocument(store') /\ store' # Absent
  BY <1>1 DEF IsDocument, KeyRunsAssumption
<1>5. KeygenTypeOK'
  BY <1>1, <1>3, <1>4 DEF KeygenInv, KeygenTypeOK, Goto
<1>6. ASSUME NEW s \in Keygens PROVE Kept(s)' /\ Opened(s)' /\ Drafted(s)'
  <2>1. Kept(s)'
    BY <1>1, <1>2, StaysContested DEF KeygenInv, Kept
  <2>2. Opened(s)'
    BY <1>1, <1>2 DEF KeygenInv, Opened
  <2>3. Drafted(s)'
    BY <1>1, <1>3 DEF KeygenInv, Drafted, Documented
  <2> QED BY <2>1, <2>2, <2>3
<1>7. Published' /\ NothingBefore' /\ ApartNothingIsForgotten'
  BY <1>4 DEF Published, NothingBefore, ApartNothingIsForgotten
<1>8. OneCreatorPerFile'
  BY <1>1, <1>2 DEF KeygenInv, OneCreatorPerFile
<1>9. Apart'
  BY <1>1, <1>3 DEF KeygenInv, Apart
<1> QED BY <1>5, <1>6, <1>7, <1>8, <1>9 DEF KeygenInv

(* The run that writes is done, and the store is its document.             *)
LEMMA WriteStoreKeeps ==
  ASSUME KeyRunsAssumption, KeygenInv, NEW r \in Keygens, WriteStore(r)
  PROVE  KeygenInv'
<1>1. PICK d : d = document[r]
  OBVIOUS
<1>2. /\ r \in AtWork /\ phase[r] = "publishing" /\ Goto(r, "done") /\ store' = d
      /\ UNCHANGED <<document, seed, revokedOnce, overlapped>>
  BY <1>1 DEF WriteStore, AtWork
<1>3. phase'[r] = "done" /\ \A s \in Keygens \ {r} : phase'[s] = phase[s]
  BY <1>2, GotoMoves DEF KeygenInv
<1>4. Done' = Done \cup {r} /\ AtWork' = AtWork \ {r}
  BY <1>2, <1>3 DEF Done, AtWork
<1>5. /\ d \in Documents /\ d # Absent /\ r \in d.keys
      /\ d.keys \subseteq Done \cup {r} /\ d.revoked \subseteq revokedOnce \cap d.keys
  BY <1>1, <1>2 DEF KeygenInv, KeygenTypeOK, Drafted, Documented
<1>6. KeygenTypeOK'
  BY <1>2, <1>4, <1>5 DEF KeygenInv, KeygenTypeOK, Goto, IsDocument
<1>7. ASSUME NEW s \in Keygens PROVE Kept(s)' /\ Opened(s)' /\ Drafted(s)'
  <2>1. Kept(s)'
    BY <1>2, <1>3, StaysContested DEF KeygenInv, Kept
  <2>2. Opened(s)'
    BY <1>2, <1>3 DEF KeygenInv, Opened
  <2>3. Drafted(s)'
    BY <1>2, <1>4 DEF KeygenInv, Drafted, Documented
  <2> QED BY <2>1, <2>2, <2>3
<1>8. Published' /\ NothingBefore'
  BY <1>2, <1>4, <1>5 DEF Published, NothingBefore, Documented
<1>9. OneCreatorPerFile'
  BY <1>2, <1>3 DEF KeygenInv, OneCreatorPerFile
<1>10. Apart' /\ ApartNothingIsForgotten'
  <2> SUFFICES ASSUME ~overlapped PROVE Apart' /\ ApartNothingIsForgotten'
    BY <1>2 DEF Apart, ApartNothingIsForgotten
  <2>1. AtWork' = {} /\ Done \subseteq d.keys /\ d.revoked = revokedOnce
    BY <1>1, <1>2, <1>4 DEF KeygenInv, Apart
  <2> QED BY <1>2, <1>4, <1>5, <2>1 DEF Apart, ApartNothingIsForgotten, Done
<1> QED BY <1>6, <1>7, <1>8, <1>9, <1>10 DEF KeygenInv

LEMMA RevokeKeeps ==
  ASSUME KeyRunsAssumption, KeygenInv, NEW id \in Keygens, Revoke(id)
  PROVE  KeygenInv'
<1>1. /\ IsDocument(store) /\ id \in store.keys
      /\ store' = [store EXCEPT !.revoked = store.revoked \cup {id}]
      /\ revokedOnce' = revokedOnce \cup {id}
      /\ overlapped' = (overlapped \/ AtWork # {})
      /\ UNCHANGED <<phase, document, seed>>
  BY DEF Revoke
<1>2. Done' = Done /\ AtWork' = AtWork
  BY <1>1 DEF Done, AtWork
<1>3. store \in Documents
  BY <1>1 DEF KeygenInv, KeygenTypeOK, IsDocument
<1>4. /\ store' \in Documents /\ store'.keys = store.keys
      /\ store'.revoked = store.revoked \cup {id}
  BY <1>1, <1>3 DEF Documents
<1>5. IsDocument(store') /\ store' # Absent
  BY <1>4 DEF IsDocument, KeyRunsAssumption
<1>6. KeygenTypeOK'
  BY <1>1, <1>2, <1>4, <1>5 DEF KeygenInv, KeygenTypeOK
<1>7. ASSUME NEW s \in Keygens PROVE Kept(s)' /\ Opened(s)' /\ Drafted(s)'
  BY <1>1, <1>2 DEF KeygenInv, Kept, Opened, Drafted, Documented, Contested
<1>8. Published' /\ NothingBefore'
  BY <1>1, <1>2, <1>4, <1>5 DEF KeygenInv, Published, NothingBefore, Documented
<1>9. OneCreatorPerFile'
  BY <1>1 DEF KeygenInv, OneCreatorPerFile
<1>10. Apart' /\ ApartNothingIsForgotten'
  BY <1>1, <1>2, <1>4 DEF KeygenInv, Apart, ApartNothingIsForgotten, Done
<1> QED BY <1>6, <1>7, <1>8, <1>9, <1>10 DEF KeygenInv

-----------------------------------------------------------------------------
(* The invariant of the runs: a key is in its file from the write of its   *)
(* seed on, documents name keys of runs that are done, and a run that is   *)
(* alone at work forgets nothing it found.                                 *)
THEOREM KeygenInvariant == KeyRunsAssumption => (KeygenSpec => []KeygenInv)
<1> SUFFICES ASSUME KeyRunsAssumption PROVE KeygenSpec => []KeygenInv OBVIOUS
<1>1. KeygenInit => KeygenInv
  BY KeygenBegins
<1>2. KeygenInv /\ [KeygenNext]_keygenVars => KeygenInv'
  <2> SUFFICES ASSUME KeygenInv, [KeygenNext]_keygenVars PROVE KeygenInv' OBVIOUS
  <2>1. ASSUME NEW r \in Keygens, ReadStore(r) PROVE KeygenInv'
    BY <2>1, ReadStoreKeeps
  <2>2. ASSUME NEW r \in Keygens, OpenSeed(r) PROVE KeygenInv'
    BY <2>2, OpenSeedKeeps
  <2>3. ASSUME NEW r \in Keygens, WriteSeed(r) PROVE KeygenInv'
    BY <2>3, WriteSeedKeeps
  <2>4. ASSUME NEW r \in Keygens, TruncateStore(r) PROVE KeygenInv'
    BY <2>4, TruncateStoreKeeps
  <2>5. ASSUME NEW r \in Keygens, WriteStore(r) PROVE KeygenInv'
    BY <2>5, WriteStoreKeeps
  <2>6. ASSUME NEW r \in Keygens, Stop(r) PROVE KeygenInv'
    BY <2>6, LeavesKeeps DEF Stop
  <2>7. ASSUME NEW id \in Keygens, Revoke(id) PROVE KeygenInv'
    BY <2>7, RevokeKeeps
  <2>8. CASE UNCHANGED keygenVars
    BY <2>8 DEF keygenVars, KeygenInv, KeygenTypeOK, AtWork, IsDocument, Kept, Opened, Drafted, Documented,
                Contested, Done, Published, NothingBefore, OneCreatorPerFile, Apart,
                ApartNothingIsForgotten
  <2> QED BY <2>1, <2>2, <2>3, <2>4, <2>5, <2>6, <2>7, <2>8 DEF KeygenNext
<1> QED BY <1>1, <1>2, PTL DEF KeygenSpec

(* However many runs share key files and a store, interleave and are       *)
(* killed: a published key can sign unless its file was contested by a run *)
(* told to overwrite, a file has one creator, and runs that do not overlap *)
(* forget no key and no revocation.                                        *)
THEOREM PublishedKeysCanSign == KeyRunsAssumption => (KeygenSpec => []PublishedKeysWereKept)
<1> SUFFICES ASSUME KeyRunsAssumption PROVE KeygenSpec => []PublishedKeysWereKept OBVIOUS
<1>1. KeygenInv => PublishedKeysWereKept
  <2> SUFFICES ASSUME KeygenInv PROVE PublishedKeysWereKept OBVIOUS
  <2>1. ASSUME IsDocument(store), NEW r \in store.keys
        PROVE  seed[Out[r]] = r \/ Contested(Out[r])
    BY <2>1 DEF KeygenInv, Published, Documented, Done, Kept
  <2>2. PublishedWasKept
    BY <2>1 DEF PublishedWasKept, Contested
  <2> QED BY <2>2 DEF KeygenInv, PublishedKeysWereKept
<1> QED BY <1>1, KeygenInvariant, PTL

-----------------------------------------------------------------------------
(* PolicyRun: any command line, trust store, signatures and edits.         *)

(* How far the run has come without being refused.                         *)
ManifestHeld   == pc \in {"loaded", "opened", "hashed", "attested", "passed", "scored"}
BaselineHeld     == pc \in {"opened", "hashed", "attested", "passed", "scored"}
Hashed   == pc \in {"hashed", "attested", "passed", "scored"}
Attested == pc \in {"attested", "passed", "scored"}
Passed   == pc \in {"passed", "scored"}

Typed ==
  /\ PolicyTypeOK
  /\ content \in Seq(Contents)
  /\ path \in [Artifacts -> DOMAIN content]

(* The manifest in memory is the one given.                                *)
ManifestRead == ManifestHeld => ~Orphaned /\ (Given("manifest") => manifest # None)

(* One descriptor serves the digest and the fit.                           *)
BaselineOpen == BaselineHeld => (Given("baseline") => fd # None)

DigestTaken ==
  /\ pc \in {"start", "loaded", "opened"} => digest = None
  /\ Hashed =>
       /\ fd # None /\ SignatureGiven("baseline") => digest # None
       /\ digest # None /\ fd \notin rewritten => digest = content[fd]

(* What is attested is what was read.                                      *)
StatusGiven ==
  Attested => \A a \in Artifacts : status[a] = AttestPolicy(a)

Gated == Passed => \A a \in Artifacts : ~Unacceptable(a)

Fitted == pc = "scored" /\ fd # None /\ fd \notin rewritten => fitted = content[fd]

PolicyInv ==
  /\ Typed
  /\ ManifestRead /\ BaselineOpen /\ DigestTaken
  /\ StatusGiven /\ Gated /\ Fitted

-----------------------------------------------------------------------------
(* A verified signature is genuine, over that content and that kind of     *)
(* file, by a policy key that stands.                                      *)
LEMMA VerifiedMeans ==
  ASSUME NEW sig, NEW c, NEW artifact, NEW keys,
         Outcome(sig, c, artifact, keys) = "verified"
  PROVE  /\ sig.artifact = artifact /\ sig.content = c /\ sig.genuine
         /\ sig.key \in DOMAIN keys /\ "policy" \in keys[sig.key].roles
         /\ ~Revoked(keys[sig.key])
BY DEF Outcome

LEMMA PolicyBegins == PolicyRunAssumption /\ PolicyInit => PolicyInv
<1> SUFFICES ASSUME PolicyRunAssumption, PolicyInit PROVE PolicyInv OBVIOUS
<1>1. DOMAIN content = 1 .. 2 /\ content \in Seq(Contents)
  <2>1. content \in [1 .. 2 -> Contents] /\ 2 \in Nat
    BY DEF PolicyInit
  <2> QED BY <2>1, SeqDef
<1>2. Typed
  BY <1>1 DEF PolicyInit, Typed, PolicyTypeOK, Artifacts
<1>3. pc = "start" /\ digest = None
  BY DEF PolicyInit
<1> QED BY <1>2, <1>3
  DEF PolicyInv, ManifestRead, BaselineOpen, DigestTaken, StatusGiven, Gated, Fitted,
      ManifestHeld, BaselineHeld, Hashed, Attested, Passed

(* The run's own steps leave the files alone.                              *)
LEMMA OwnStepKeeps ==
  ASSUME PolicyRunAssumption, PolicyInv,
         \/ RefuseOrphan \/ LoadManifest \/ OpenBaseline \/ HashBaseline
         \/ Attest \/ Gate \/ FitBaseline
  PROVE  PolicyInv'
<1>1. ASSUME RefuseOrphan PROVE PolicyInv'
  <2>1. UNCHANGED <<args, manifest, fd, digest, status, fitted, files>> /\ pc' = "refused"
    BY <1>1 DEF RefuseOrphan
  <2>2. Typed'
    BY <2>1 DEF PolicyInv, Typed, PolicyTypeOK, files, SignatureGiven
  <2> QED BY <2>1, <2>2
    DEF PolicyInv, ManifestRead, BaselineOpen, DigestTaken, StatusGiven, Gated, Fitted,
        ManifestHeld, BaselineHeld, Hashed, Attested, Passed
<1>2. ASSUME LoadManifest PROVE PolicyInv'
  <2>1. /\ pc = "start" /\ ~Orphaned /\ pc' \in {"loaded", "refused"}
        /\ pc' = "loaded" => (Given("manifest") => manifest' = content[path["manifest"]])
        /\ manifest' \in {manifest, content[path["manifest"]]}
        /\ UNCHANGED <<args, fd, digest, status, fitted, files>>
    BY <1>2 DEF LoadManifest
  <2>2. content[path["manifest"]] \in Contents
    BY DEF PolicyInv, Typed, PolicyTypeOK, Artifacts
  <2>3. Typed'
    BY <2>1, <2>2 DEF PolicyInv, Typed, PolicyTypeOK, files, SignatureGiven
  <2>4. ManifestRead'
    BY <2>1, <2>2
    DEF ManifestRead, ManifestHeld, Orphaned, SignatureGiven, Given, PolicyRunAssumption
  <2> QED BY <2>1, <2>3, <2>4
    DEF PolicyInv, BaselineOpen, DigestTaken, StatusGiven, Gated, Fitted,
        BaselineHeld, Hashed, Attested, Passed
<1>3. ASSUME OpenBaseline PROVE PolicyInv'
  <2>1. /\ pc = "loaded" /\ pc' = "opened"
        /\ fd' = IF Given("baseline") THEN path["baseline"] ELSE None
        /\ UNCHANGED <<args, manifest, digest, status, fitted, files>>
    BY <1>3 DEF OpenBaseline
  <2>2. path["baseline"] \in DOMAIN content /\ path["baseline"] # None
    BY DEF PolicyInv, Typed, Artifacts, PolicyRunAssumption
  <2>3. digest = None
    BY <2>1 DEF PolicyInv, DigestTaken
  <2>4. Typed'
    BY <2>1, <2>2, <2>3 DEF PolicyInv, Typed, PolicyTypeOK, files, SignatureGiven
  <2> QED BY <2>1, <2>2, <2>3, <2>4
    DEF PolicyInv, ManifestRead, BaselineOpen, DigestTaken, StatusGiven, Gated, Fitted,
        ManifestHeld, Hashed, Attested, Passed, Orphaned, SignatureGiven, Given
<1>4. ASSUME HashBaseline PROVE PolicyInv'
  <2>1. /\ pc = "opened" /\ pc' = "hashed"
        /\ digest' = IF fd # None /\ SignatureGiven("baseline") THEN content[fd] ELSE None
        /\ UNCHANGED <<args, manifest, fd, status, fitted, files>>
    BY <1>4 DEF HashBaseline
  <2>2. fd # None => content[fd] \in Contents /\ content[fd] # None
    BY DEF PolicyInv, Typed, PolicyTypeOK, PolicyRunAssumption
  <2>3. Typed'
    BY <2>1, <2>2 DEF PolicyInv, Typed, PolicyTypeOK, files, SignatureGiven
  <2>4. DigestTaken'
    BY <2>1, <2>2 DEF DigestTaken, files, SignatureGiven
  <2> QED BY <2>1, <2>3, <2>4
    DEF PolicyInv, ManifestRead, BaselineOpen, StatusGiven, Gated, Fitted,
        ManifestHeld, BaselineHeld, Attested, Passed, Orphaned, SignatureGiven, Given
<1>5. ASSUME Attest PROVE PolicyInv'
  <2>1. /\ pc = "hashed" /\ pc' \in {"refused", "attested"}
        /\ pc' = "attested" => status' = [a \in Artifacts |-> AttestPolicy(a)]
        /\ UNCHANGED <<args, manifest, fd, digest, fitted, files>>
    BY <1>5 DEF Attest
  <2>2. Typed'
    BY <2>1 DEF PolicyInv, Typed, PolicyTypeOK, files, SignatureGiven
  <2>3. \A a : AttestPolicy(a)' = AttestPolicy(a)
    BY <2>1 DEF AttestPolicy, DigestOf, SignatureGiven
  <2>4. StatusGiven'
    BY <2>1, <2>3 DEF StatusGiven, Attested
  <2>5. DigestTaken'
    BY <2>1 DEF PolicyInv, DigestTaken, Hashed, files, SignatureGiven
  <2> QED BY <2>1, <2>2, <2>4, <2>5
    DEF PolicyInv, ManifestRead, BaselineOpen, Gated, Fitted,
        ManifestHeld, BaselineHeld, Passed, Orphaned, SignatureGiven, Given
<1>6. ASSUME Gate PROVE PolicyInv'
  <2>1. /\ pc = "attested" /\ pc' \in {"refused", "passed"}
        /\ pc' = "passed" => \A a \in Artifacts : ~Unacceptable(a)
        /\ UNCHANGED <<args, manifest, fd, digest, status, fitted, files>>
    BY <1>6 DEF Gate
  <2>2. Typed'
    BY <2>1 DEF PolicyInv, Typed, PolicyTypeOK, files, SignatureGiven
  <2>3. StatusGiven'
    BY <2>1 DEF PolicyInv, StatusGiven, Attested, AttestPolicy, DigestOf, SignatureGiven
  <2>4. Gated'
    BY <2>1 DEF Gated, Passed, Unacceptable, Given
  <2>5. DigestTaken'
    BY <2>1 DEF PolicyInv, DigestTaken, Hashed, files, SignatureGiven
  <2> QED BY <2>1, <2>2, <2>3, <2>4, <2>5
    DEF PolicyInv, ManifestRead, BaselineOpen, Fitted, ManifestHeld, BaselineHeld, Orphaned,
        SignatureGiven, Given
<1>7. ASSUME FitBaseline PROVE PolicyInv'
  <2>1. /\ pc = "passed" /\ pc' \in {"refused", "scored"}
        /\ pc' = "scored" /\ fd # None => fitted' = content[fd]
        /\ fitted' \in {fitted, content[fd]} /\ (fd = None => fitted' = fitted)
        /\ UNCHANGED <<args, manifest, fd, digest, status, files>>
    BY <1>7 DEF FitBaseline
  <2>2. Typed'
    BY <2>1 DEF PolicyInv, Typed, PolicyTypeOK, files, SignatureGiven
  <2>3. StatusGiven'
    BY <2>1 DEF PolicyInv, StatusGiven, Attested, AttestPolicy, DigestOf, SignatureGiven
  <2>4. Gated'
    BY <2>1 DEF PolicyInv, Gated, Passed, Unacceptable, Given
  <2>5. DigestTaken' /\ Fitted'
    BY <2>1 DEF PolicyInv, DigestTaken, Fitted, Hashed, files, SignatureGiven
  <2> QED BY <2>1, <2>2, <2>3, <2>4, <2>5
    DEF PolicyInv, ManifestRead, BaselineOpen, ManifestHeld, BaselineHeld, Orphaned,
        SignatureGiven, Given
<1> QED BY <1>1, <1>2, <1>3, <1>4, <1>5, <1>6, <1>7

(* Somebody else changes what a path names or what an inode holds: what    *)
(* the run holds stays, and an inode not rewritten holds what it held.     *)
LEMMA FilesChange ==
  ASSUME PolicyInv, Typed', UNCHANGED run, rewritten \subseteq rewritten',
         \A i \in DOMAIN content : i \notin rewritten' => content'[i] = content[i]
  PROVE  PolicyInv'
<1>1. DigestTaken' /\ Fitted'
  BY DEF PolicyInv, Typed, PolicyTypeOK, run, DigestTaken, Fitted, Hashed, SignatureGiven
<1>2. StatusGiven' /\ Gated'
  BY DEF PolicyInv, run, StatusGiven, Attested, AttestPolicy, DigestOf, SignatureGiven, Gated, Passed,
         Unacceptable, Given
<1>3. ManifestRead' /\ BaselineOpen'
  BY DEF PolicyInv, run, ManifestRead, BaselineOpen, ManifestHeld, BaselineHeld, Orphaned,
         SignatureGiven, Given
<1> QED BY <1>1, <1>2, <1>3 DEF PolicyInv

LEMMA RenameKeeps ==
  ASSUME PolicyRunAssumption, PolicyInv,
         NEW artifact \in Artifacts, NEW c \in Contents, Rename(artifact, c)
  PROVE  PolicyInv'
<1>1. /\ content' = Append(content, c)
      /\ path' = [path EXCEPT ![artifact] = Len(content) + 1]
      /\ UNCHANGED <<run, rewritten>>
  BY DEF Rename
<1>2. content \in Seq(Contents)
  BY DEF PolicyInv, Typed
<1>3. /\ content' \in Seq(Contents)
      /\ DOMAIN content' = DOMAIN content \cup {Len(content) + 1}
      /\ \A i \in DOMAIN content : content'[i] = content[i]
  BY <1>1, <1>2
<1>4. path' \in [Artifacts -> DOMAIN content']
  BY <1>1, <1>3 DEF PolicyInv, Typed
<1>5. Typed'
  BY <1>1, <1>3, <1>4 DEF PolicyInv, Typed, PolicyTypeOK, run, SignatureGiven
<1> QED BY <1>1, <1>3, <1>5, FilesChange

LEMMA RewriteKeeps ==
  ASSUME PolicyRunAssumption, PolicyInv,
         NEW inode \in DOMAIN content, NEW c \in Contents, RewriteInPlace(inode, c)
  PROVE  PolicyInv'
<1>1. /\ content' = [content EXCEPT ![inode] = c]
      /\ rewritten' = rewritten \cup {inode}
      /\ UNCHANGED <<run, path>>
  BY DEF RewriteInPlace
<1>2. content \in Seq(Contents)
  BY DEF PolicyInv, Typed
<1>3. /\ content' \in Seq(Contents) /\ DOMAIN content' = DOMAIN content
      /\ \A i \in DOMAIN content \ {inode} : content'[i] = content[i]
  BY <1>1, <1>2
<1>4. Typed'
  BY <1>1, <1>3 DEF PolicyInv, Typed, PolicyTypeOK, run, SignatureGiven
<1> QED BY <1>1, <1>3, <1>4, FilesChange

-----------------------------------------------------------------------------
(* The invariant of the run: the digest is of the descriptor that is       *)
(* fitted, and the status is of what was read.                             *)
THEOREM ReadOnce == PolicyRunAssumption => (PolicySpec => []PolicyInv)
<1> SUFFICES ASSUME PolicyRunAssumption PROVE PolicySpec => []PolicyInv OBVIOUS
<1>1. PolicyInit => PolicyInv
  BY PolicyBegins
<1>2. PolicyInv /\ [PolicyNext]_policyVars => PolicyInv'
  <2> SUFFICES ASSUME PolicyInv, [PolicyNext]_policyVars PROVE PolicyInv' OBVIOUS
  <2>1. CASE \/ RefuseOrphan \/ LoadManifest \/ OpenBaseline \/ HashBaseline
             \/ Attest \/ Gate \/ FitBaseline
    BY <2>1, OwnStepKeeps
  <2>2. CASE \E a \in Artifacts, c \in Contents : Rename(a, c)
    BY <2>2, RenameKeeps
  <2>3. CASE \E inode \in DOMAIN content, c \in Contents : RewriteInPlace(inode, c)
    BY <2>3, RewriteKeeps
  <2>4. CASE UNCHANGED policyVars
    <3>1. UNCHANGED run /\ UNCHANGED files
      BY <2>4 DEF policyVars
    <3>2. Typed'
      BY <3>1 DEF PolicyInv, Typed, PolicyTypeOK, run, files, SignatureGiven
    <3> QED BY <3>1, <3>2, FilesChange DEF files
  <2> QED BY <2>1, <2>2, <2>3, <2>4 DEF PolicyNext
<1> QED BY <1>1, <1>2, PTL DEF PolicySpec

(* Whatever is renamed or rewritten while a run reads: a policy file       *)
(* reported as verified is the one the run was scored with, unless it was  *)
(* rewritten in place; a signature given is verified or the run refused;   *)
(* and what is required to be signed is.                                   *)
THEOREM VerifiedIsWhatScored == PolicyRunAssumption => (PolicySpec => []ScoredUnderTheSignedPolicy)
<1> SUFFICES ASSUME PolicyRunAssumption PROVE PolicySpec => []ScoredUnderTheSignedPolicy OBVIOUS
<1>1. PolicyInv => ScoredUnderTheSignedPolicy
  <2> SUFFICES ASSUME PolicyInv PROVE ScoredAsSigned /\ NoSignatureIgnored /\ RequiredIsSigned
    BY DEF ScoredUnderTheSignedPolicy, PolicyInv, Typed
  <2> SUFFICES ASSUME pc = "scored", NEW a \in Artifacts
               PROVE  /\ status[a] = "verified" => Vouched(a)
                      /\ status[a] = "verified" /\ (a = "baseline" => fd \notin rewritten)
                           => UsedAs(a) = args.sigs[a].content
                      /\ SignatureGiven(a) => status[a] = "verified"
                      /\ args.require /\ Given(a) => status[a] = "verified"
    BY DEF ScoredAsSigned, NoSignatureIgnored, RequiredIsSigned
  <2>1. ManifestHeld /\ BaselineHeld /\ Hashed /\ Attested /\ Passed
    BY DEF ManifestHeld, BaselineHeld, Hashed, Attested, Passed
  <2>2. status[a] = AttestPolicy(a) /\ ~Unacceptable(a)
    BY <2>1 DEF PolicyInv, StatusGiven, Gated
  <2>3. ASSUME status[a] = "verified"
        PROVE  /\ DigestOf(a) # None /\ SignatureGiven(a)
               /\ Outcome(args.sigs[a], DigestOf(a), a, args.keys) = "verified"
    BY <2>2, <2>3 DEF AttestPolicy
  <2>4. status[a] = "verified" => Vouched(a) /\ args.sigs[a].content = DigestOf(a)
    BY <2>3, VerifiedMeans DEF Vouched
  <2>5. DigestOf(a) # None /\ (a = "baseline" => fd \notin rewritten) => UsedAs(a) = DigestOf(a)
    BY <2>1 DEF PolicyInv, Typed, PolicyTypeOK, DigestTaken, Fitted, DigestOf, UsedAs, Artifacts
  <2>6. SignatureGiven(a) => DigestOf(a) # None
    BY <2>1 DEF PolicyInv, ManifestRead, BaselineOpen, DigestTaken, DigestOf, Orphaned, Artifacts
  <2>7. SignatureGiven(a) => status[a] = "verified"
    <3> SUFFICES ASSUME SignatureGiven(a) PROVE status[a] = "verified" OBVIOUS
    <3>1. status[a] = Outcome(args.sigs[a], DigestOf(a), a, args.keys)
      BY <2>2, <2>6 DEF AttestPolicy
    <3>2. Outcome(args.sigs[a], DigestOf(a), a, args.keys) # "absent"
      BY DEF Outcome
    <3> QED BY <3>1, <3>2, <2>2 DEF Unacceptable
  <2>8. args.require /\ Given(a) => status[a] = "verified"
    BY <2>2 DEF Unacceptable
  <2> QED BY <2>3, <2>4, <2>5, <2>7, <2>8
<1> QED BY <1>1, ReadOnce, PTL

-----------------------------------------------------------------------------
(* RunIdentity: any inputs, hosts, instants and bounds.                    *)

LEMMA LeastOf ==
  ASSUME NEW S, S \subseteq Nat, S # {}
  PROVE  \E m \in S : \A n \in S : m =< n
<1> DEFINE below == {p \in Nat \X Nat : p[1] < p[2]}
<1>1. IsWellFoundedOn(below, Nat) BY NatLessThanWellFounded DEF OpToRel
<1> HIDE DEF below
<1>2. PICK m \in S : \A n \in S : ~(<<n, m>> \in below) BY <1>1, WFMin, Zenon
<1>3. m \in Nat OBVIOUS
<1>4. ASSUME NEW n \in S PROVE m =< n
  <2>1. n \in Nat /\ <<n, m>> \notin below BY <1>2
  <2>2. ~(n < m) BY <2>1, <1>3 DEF below
  <2>3. QED BY <2>1, <2>2, <1>3
<1>5. QED BY <1>4

(* The answers given so far, by the number of nonces presented.            *)
Replied(b, spent, f, m) ==
  f = [n \in 0 .. m |->
         IF n = 0 THEN <<>>
         ELSE Append(f[n - 1], Answer(b.nonces[n], SpentAfter(b, f[n - 1], n - 1, spent)))]

LEMMA RepliesExist ==
  ASSUME NEW b, NEW spent, NEW L \in Nat PROVE \E f : Replied(b, spent, f, L)
<1> DEFINE bad == {n \in Nat : ~\E f : Replied(b, spent, f, n)}
<1>1. SUFFICES ASSUME L \in bad PROVE FALSE OBVIOUS
<1>2. bad \subseteq Nat OBVIOUS
<1>3. PICK m \in bad : \A n \in bad : m =< n
  <2> HIDE DEF bad
  <2>1. bad # {} BY <1>1
  <2>2. QED BY <2>1, <1>2, LeastOf
<1>4. m \in Nat /\ ~\E f : Replied(b, spent, f, m) BY <1>3
<1>5. CASE m = 0
  <2>1. Replied(b, spent, [n \in 0 .. 0 |-> <<>>], 0) BY DEF Replied
  <2>2. QED BY <2>1, <1>4, <1>5
<1>6. CASE m # 0
  <2>1. m - 1 \in Nat /\ m - 1 \notin bad
    <3>1. m - 1 \in Nat /\ ~(m =< m - 1) BY <1>4, <1>6
    <3>2. QED BY <3>1, <1>3
  <2>2. PICK f : Replied(b, spent, f, m - 1) BY <2>1
  <2> DEFINE next == Append(f[m - 1], Answer(b.nonces[m], SpentAfter(b, f[m - 1], m - 1, spent)))
             g == [n \in 0 .. m |-> IF n = m THEN next ELSE f[n]]
  <2>3. \A n \in 0 .. m - 1 : g[n] = f[n] BY <1>4
  <2>4. ASSUME NEW n \in 0 .. m
        PROVE  g[n] = IF n = 0 THEN <<>>
                      ELSE Append(g[n - 1],
                                  Answer(b.nonces[n], SpentAfter(b, g[n - 1], n - 1, spent)))
    <3>1. CASE n = m
      <4>1. n # 0 /\ g[n - 1] = f[n - 1] BY <3>1, <1>4, <1>6, <2>3
      <4>2. QED BY <4>1, <3>1
    <3>2. CASE n # m /\ n = 0
      <4>1. g[n] = f[n] /\ n \in 0 .. m - 1 BY <3>2, <2>1, <1>4
      <4>2. QED BY <4>1, <3>2, <2>2 DEF Replied
    <3>3. CASE n # m /\ n # 0
      <4>1. n \in 0 .. m - 1 /\ n - 1 \in 0 .. m - 1 BY <3>3, <1>4
      <4>2. g[n] = f[n] /\ g[n - 1] = f[n - 1] BY <4>1, <2>3
      <4>3. f[n] = Append(f[n - 1], Answer(b.nonces[n], SpentAfter(b, f[n - 1], n - 1, spent)))
        BY <4>1, <3>3, <2>2 DEF Replied
      <4>4. QED BY <4>2, <4>3, <3>3
    <3>4. QED BY <3>1, <3>2, <3>3
  <2>5. g = [n \in 0 .. m |-> g[n]] OBVIOUS
  <2> HIDE DEF g
  <2>6. Replied(b, spent, g, m) BY <2>4, <2>5 DEF Replied
  <2>7. QED BY <2>6, <1>4
<1>7. QED BY <1>5, <1>6

LEMMA AnswersAreReplies ==
  ASSUME NEW b, NEW spent, Len(b.nonces) \in Nat
  PROVE  \E f : Replied(b, spent, f, Len(b.nonces)) /\ Answers(b, spent) = f[Len(b.nonces)]
<1> DEFINE L == Len(b.nonces)
           f == CHOOSE g : g = [n \in 0 .. L |->
             IF n = 0 THEN <<>>
             ELSE Append(g[n - 1], Answer(b.nonces[n], SpentAfter(b, g[n - 1], n - 1, spent)))]
<1>1. \E g : g = [n \in 0 .. L |->
             IF n = 0 THEN <<>>
             ELSE Append(g[n - 1], Answer(b.nonces[n], SpentAfter(b, g[n - 1], n - 1, spent)))]
  <2>1. \E g : Replied(b, spent, g, L) BY RepliesExist
  <2>2. QED BY <2>1 DEF Replied
<1>2. f = [n \in 0 .. L |->
             IF n = 0 THEN <<>>
             ELSE Append(f[n - 1], Answer(b.nonces[n], SpentAfter(b, f[n - 1], n - 1, spent)))]
  BY <1>1, Zenon
<1>3. Answers(b, spent) = f[L] BY DEF Answers
<1> HIDE DEF f
<1>4. QED BY <1>2, <1>3 DEF Replied

(* A nonce that is granted is one: a session without one is not answered.  *)
LEMMA GrantedAreNonces ==
  ASSUME NEW r \in Runs, NEW spent
  PROVE  Granted(Batch[r], Answers(Batch[r], spent), Len(Batch[r].nonces)) \subseteq Nonces
<1> DEFINE b == Batch[r]
           L == Len(b.nonces)
<1>1. b.nonces \in Seq(Nonces \cup {NoNonce}) BY ObservationAssumption DEF Batches
<1>2. L \in Nat /\ \A k \in 1 .. L : b.nonces[k] \in Nonces \cup {NoNonce} BY <1>1
<1>3. PICK f : Replied(b, spent, f, L) /\ Answers(b, spent) = f[L] BY <1>2, AnswersAreReplies
<1> DEFINE Honest(n) == /\ f[n] \in Seq({UNSPENT, SPENT, NO_ANSWER}) /\ Len(f[n]) = n
                        /\ \A k \in 1 .. n : f[n][k] = UNSPENT => b.nonces[k] \in Nonces
           bad == {n \in 0 .. L : ~Honest(n)}
<1> HIDE DEF b, L
<1>4. SUFFICES Honest(L) BY <1>3 DEF Granted, b, L
<1>5. SUFFICES ASSUME L \in bad PROVE FALSE BY <1>2
<1>6. PICK m \in bad : \A n \in bad : m =< n
  <2>1. bad # {} /\ bad \subseteq Nat BY <1>5
  <2> HIDE DEF bad
  <2>2. QED BY <2>1, LeastOf
<1>7. m \in 0 .. L /\ ~Honest(m) BY <1>6
<1>8. CASE m = 0
  <2>1. f[0] = <<>> BY <1>2, <1>3 DEF Replied
  <2>2. <<>> \in Seq({UNSPENT, SPENT, NO_ANSWER}) /\ Len(<<>>) = 0 /\ 1 .. 0 = {} OBVIOUS
  <2>3. Honest(0) BY <2>1, <2>2
  <2>4. QED BY <2>3, <1>7, <1>8
<1>9. CASE m # 0
  <2>1. m - 1 \in 0 .. L /\ m \in 1 .. L /\ Honest(m - 1)
    <3>1. m - 1 \in 0 .. L /\ m \in 1 .. L /\ ~(m =< m - 1) BY <1>2, <1>7, <1>9
    <3>2. QED BY <3>1, <1>6
  <2> DEFINE a == Answer(b.nonces[m], SpentAfter(b, f[m - 1], m - 1, spent))
  <2>2. f[m] = Append(f[m - 1], a) BY <1>3, <1>7, <1>9 DEF Replied
  <2>3. a \in {UNSPENT, SPENT, NO_ANSWER} BY DEF Answer
  <2>4. a = UNSPENT => b.nonces[m] \in Nonces
    <3>1. b.nonces[m] \in Nonces \cup {NoNonce} BY <1>2, <2>1
    <3>2. b.nonces[m] = NoNonce => a = NO_ANSWER BY DEF Answer
    <3> HIDE DEF a
    <3>3. QED BY <3>1, <3>2 DEF UNSPENT, NO_ANSWER
  <2> HIDE DEF a
  <2>5. /\ f[m] \in Seq({UNSPENT, SPENT, NO_ANSWER}) /\ Len(f[m]) = m
        /\ f[m][m] = a /\ \A k \in 1 .. m - 1 : f[m][k] = f[m - 1][k]
    <3>1. f[m - 1] \in Seq({UNSPENT, SPENT, NO_ANSWER}) /\ Len(f[m - 1]) = m - 1 BY <2>1
    <3> DEFINE h == f[m - 1]
    <3> HIDE DEF h
    <3>2. h \in Seq({UNSPENT, SPENT, NO_ANSWER}) /\ Len(h) = m - 1 /\ m \in Nat
      BY <3>1, <2>1 DEF h
    <3>3. f[m] = Append(h, a) BY <2>2 DEF h
    <3>4. /\ Append(h, a) \in Seq({UNSPENT, SPENT, NO_ANSWER}) /\ Len(Append(h, a)) = m
          /\ Append(h, a)[m] = a /\ \A k \in 1 .. m - 1 : Append(h, a)[k] = h[k]
      BY <3>2, <2>3
    <3>5. QED BY <3>3, <3>4 DEF h
  <2>6. \A k \in 1 .. m : f[m][k] = UNSPENT => b.nonces[k] \in Nonces
    <3> TAKE k \in 1 .. m
    <3>1. CASE k = m BY <3>1, <2>4, <2>5
    <3>2. CASE k # m
      <4>1. k \in 1 .. m - 1 BY <3>2, <2>1
      <4>2. f[m - 1][k] = UNSPENT => b.nonces[k] \in Nonces BY <4>1, <2>1
      <4>3. QED BY <4>1, <4>2, <2>5
    <3>3. QED BY <3>1, <3>2
  <2>7. QED BY <2>5, <2>6, <1>7
<1>10. QED BY <1>8, <1>9

-----------------------------------------------------------------------------
(* Recording a run in a ledger leaves a ledger.                            *)
LEMMA RecordIsLedger ==
  ASSUME NEW ledger, IsLedger(ledger), NEW s \in Streams, NEW verdict, NEW admit \in BOOLEAN,
         NEW view, view.first \in Nat, view.last \in Nat, view.head \in Heads,
         view.closed \in BOOLEAN
  PROVE  IsLedger(Record(ledger, s, verdict, view, admit))
<1> DEFINE previous == ledger.entries[s]
<1>1. SeenStream(view) \in SeenStreams BY DEF SeenStream, SeenStreams
<1>2. ASSUME Known(ledger, s) PROVE MergedStream(previous, view) \in SeenStreams
  <2>1. previous \in SeenStreams BY <1>2 DEF IsLedger, Known
  <2>2. view.closed \/ previous.closed \in BOOLEAN BY <2>1 DEF SeenStreams
  <2>3. QED BY <2>1, <2>2 DEF MergedStream, SeenStreams
<1>3. CASE ~Advances(verdict, admit) BY <1>3 DEF Record
<1>4. CASE Advances(verdict, admit) /\ Known(ledger, s)
  <2>1. Record(ledger, s, verdict, view, admit)
          = [ledger EXCEPT !.entries[s] = MergedStream(previous, view)]
    BY <1>4 DEF Record
  <2>2. QED BY <1>2, <1>4, <2>1 DEF IsLedger, Known
<1>5. CASE Advances(verdict, admit) /\ ~Known(ledger, s) /\ LedgerFull(ledger)
  BY <1>5 DEF Record, IsLedger
<1>6. CASE Advances(verdict, admit) /\ ~Known(ledger, s) /\ ~LedgerFull(ledger)
  <2>1. Record(ledger, s, verdict, view, admit)
          = [ledger EXCEPT !.entries =
               [t \in DOMAIN ledger.entries \cup {s} |->
                  IF t = s THEN SeenStream(view) ELSE ledger.entries[t]]]
    BY <1>6 DEF Record
  <2>2. QED BY <1>1, <1>6, <2>1 DEF IsLedger, Known
<1>7. QED BY <1>3, <1>4, <1>5, <1>6

LEMMA SavedIsLedger ==
  ASSUME NEW r \in Runs, NEW read, IsLedger(read.streams.content)
  PROVE  IsLedger(StreamsAfter(r, read))
<1> DEFINE b == Batch[r]
           ledger == read.streams.content
           view == View(b, ledger)
<1>1. b \in Batches BY ObservationAssumption
<1>2. /\ b.stream \in Streams /\ b.first \in Nat /\ b.admit \in BOOLEAN /\ b.closed \in BOOLEAN
      /\ b.heads \in Seq(Heads) /\ b.heads # <<>>
  BY <1>1 DEF Batches
<1>3. Len(b.heads) \in Nat /\ Len(b.heads) > 0 /\ b.heads[Len(b.heads)] \in Heads
  BY <1>2
<1>4. view.first = b.first /\ view.last = b.first + Len(b.heads) - 1
      /\ view.head = b.heads[Len(b.heads)] /\ view.closed = b.closed
  BY DEF View, LastOf
<1>5. /\ view.first \in Nat /\ view.last \in Nat /\ view.head \in Heads
      /\ view.closed \in BOOLEAN
  BY <1>2, <1>3, <1>4
<1> HIDE DEF view
<1>6. IsLedger(Record(ledger, b.stream, Judged(b, ledger), view, b.admit))
  BY <1>2, <1>5, RecordIsLedger
<1>7. StreamsAfter(r, read) =
        [Record(ledger, b.stream, Judged(b, ledger), view, b.admit) EXCEPT !.exhausted = FALSE]
  BY DEF StreamsAfter, Scored, AsDocument, view
<1>8. ASSUME NEW l, IsLedger(l) PROVE IsLedger([l EXCEPT !.exhausted = FALSE])
  <2>1. l = [entries |-> l.entries, exhausted |-> l.exhausted] BY <1>8 DEF IsLedger
  <2>2. PICK m : m = [l EXCEPT !.exhausted = FALSE] OBVIOUS
  <2>3. m = [entries |-> l.entries, exhausted |-> FALSE] BY <2>1, <2>2
  <2>4. m.entries = l.entries /\ m.exhausted = FALSE BY <2>3
  <2>5. IsLedger(m) BY <1>8, <2>3, <2>4 DEF IsLedger
  <2>6. QED BY <2>2, <2>5
<1>9. QED BY <1>6, <1>7, <1>8

-----------------------------------------------------------------------------
(* The runs of a host that saved its seen-stream ledger.                   *)
SavedOn(seq, host) ==
  {i \in DOMAIN seq : seq[i].host = host /\ seq[i].saved /\ Uses(seq[i].run, "streams")}

LEMMA OneMoreSaved ==
  ASSUME NEW S, NEW seq \in Seq(S), NEW e \in S, NEW host
  PROVE  /\ Cardinality(SavedOn(seq, host)) \in Nat
         /\ Cardinality(SavedOn(Append(seq, e), host)) =
              IF e.host = host /\ e.saved /\ Uses(e.run, "streams")
              THEN Cardinality(SavedOn(seq, host)) + 1 ELSE Cardinality(SavedOn(seq, host))
<1> DEFINE L == Len(seq)
           new == Append(seq, e)
<1>1. /\ L \in Nat /\ DOMAIN seq = 1 .. L /\ DOMAIN new = 1 .. L + 1
      /\ new[L + 1] = e /\ \A i \in 1 .. L : new[i] = seq[i]
  OBVIOUS
<1> HIDE DEF new
<1>2. IsFiniteSet(SavedOn(seq, host))
  <2>1. IsFiniteSet(1 .. L) BY <1>1, FS_Interval
  <2>2. SavedOn(seq, host) \in SUBSET (1 .. L) BY <1>1 DEF SavedOn
  <2>3. QED BY <2>1, <2>2, FS_Subset
<1>3. L + 1 \notin SavedOn(seq, host) BY <1>1 DEF SavedOn
<1>4. SavedOn(new, host) =
        IF e.host = host /\ e.saved /\ Uses(e.run, "streams")
        THEN SavedOn(seq, host) \cup {L + 1} ELSE SavedOn(seq, host)
  <2>1. 1 .. L + 1 = (1 .. L) \cup {L + 1} BY <1>1
  <2>2. QED BY <1>1, <2>1 DEF SavedOn
<1>5. Cardinality(SavedOn(seq, host)) \in Nat BY <1>2, FS_CardinalityType
<1>6. QED BY <1>2, <1>3, <1>4, <1>5, FS_AddElement DEF new

(* What a run that was recorded says of itself: its identity and verdict   *)
(* are of the ledgers it read and of an instant, the one it was given      *)
(* where it was given one.                                                 *)
Says(a) ==
  /\ a.run \in Runs /\ a.host \in Hosts
  /\ \E instant : /\ Pinned(a.run) => instant = AsOf[a.run]
                  /\ a.id = RunId(a.run, a.read, instant)
                  /\ a.verdict = VerdictId(a.run, a.read, instant)

(* A host's seen-stream ledger only gains generations, and each is one     *)
(* content.                                                                *)
Behind(a) ==
  /\ a.read.streams.generation \in Nat
  /\ a.read.streams.generation =< onHost[a.host].streams.generation
  /\ a.read.streams.generation = onHost[a.host].streams.generation =>
       a.read.streams = onHost[a.host].streams

IdentityInv ==
  /\ IdentityTypeOK
  /\ history \in Seq(Scores)
  /\ onHost = [host \in Hosts |-> onHost[host]]
  /\ \A a \in Scores : Says(a) /\ Behind(a)
  /\ \A a, b \in Scores :
       a.host = b.host /\ a.read.streams.generation = b.read.streams.generation =>
         a.read.streams = b.read.streams

LEMMA IdentityBegins == RunIdentityAssumption /\ IdentityInit => IdentityInv
<1> SUFFICES ASSUME RunIdentityAssumption, IdentityInit PROVE IdentityInv OBVIOUS
<1>1. now = 0 /\ history = <<>> /\ onHost = [h \in Hosts |-> NoFiles] BY DEF IdentityInit
<1>2. Scores = {} BY <1>1 DEF Scores
<1>3. now \in 0 .. MaxNow BY <1>1 DEF RunIdentityAssumption
<1>4. IsLedger(EmptyLedger) BY DEF IsLedger, EmptyLedger
<1>5. \A host \in Hosts : SavedOn(history, host) = {} BY <1>1 DEF SavedOn
<1>6. \A host \in Hosts : onHost[host].streams.generation = Cardinality(SavedOn(history, host))
  BY <1>1, <1>5, FS_EmptySet DEF NoFiles
<1>7. IdentityTypeOK
  BY <1>1, <1>3, <1>4, <1>6 DEF IdentityTypeOK, NoFiles, SavedOn
<1>8. QED BY <1>1, <1>2, <1>7 DEF IdentityInv

LEMMA ScoreKeeps ==
  ASSUME RunIdentityAssumption, IdentityInv, NEW r \in Runs, NEW host \in Hosts,
         NEW saved \in BOOLEAN, Score(r, host, saved)
  PROVE  IdentityInv'
<1> DEFINE g(h) == onHost[h].streams.generation
<1>0. PICK read, instant : read = onHost[host] /\ instant = Instant(r) OBVIOUS
<1>b. PICK e : e = [run |-> r, host |-> host, read |-> read, saved |-> saved,
                    id |-> RunId(r, read, instant), verdict |-> VerdictId(r, read, instant)]
  OBVIOUS
<1>1. history' = Append(history, e) /\ now' = now BY <1>0, <1>b DEF Score
<1>2. /\ e.run = r /\ e.host = host /\ e.read = read /\ e.saved = saved
      /\ e.id = RunId(r, read, instant) /\ e.verdict = VerdictId(r, read, instant)
  BY <1>b
<1>3. history \in Seq(Scores) BY DEF IdentityInv
<1>4. Scores' = Scores \cup {e}
  <2>1. /\ Len(history) \in Nat /\ DOMAIN history = 1 .. Len(history)
        /\ DOMAIN history' = 1 .. Len(history) + 1 /\ history'[Len(history) + 1] = e
        /\ \A i \in 1 .. Len(history) : history'[i] = history[i]
    BY <1>1, <1>3
  <2>2. 1 .. Len(history) + 1 = (1 .. Len(history)) \cup {Len(history) + 1} BY <2>1
  <2>3. QED BY <2>1, <2>2 DEF Scores
<1>5. history' \in Seq(Scores')
  <2>1. history \in Seq(Scores \cup {e}) BY <1>3
  <2>2. QED BY <2>1, <1>1, <1>4
<1>6. \A h \in Hosts : g(h) = Cardinality(SavedOn(history, h))
  BY DEF IdentityInv, IdentityTypeOK, SavedOn
<1>7. \A h \in Hosts : /\ Cardinality(SavedOn(history, h)) \in Nat
                       /\ Cardinality(SavedOn(history', h)) =
                            IF h = host /\ saved /\ Uses(r, "streams")
                            THEN Cardinality(SavedOn(history, h)) + 1
                            ELSE Cardinality(SavedOn(history, h))
  <2>1. history \in Seq(Scores \cup {e}) /\ e \in Scores \cup {e} BY <1>3
  <2>2. QED BY <2>1, <1>1, <1>2, OneMoreSaved
<1>8. /\ onHost' = [h \in Hosts |-> onHost'[h]]
      /\ \A h \in Hosts \ {host} : onHost'[h] = onHost[h]
      /\ onHost'[host] = IF saved THEN [streams |-> SavedStreams(r, read),
                                        approvals |-> SavedApprovals(r, read)]
                         ELSE read
  BY <1>0 DEF Score, IdentityInv
<1>9. /\ IsLedger(read.streams.content) /\ read.approvals.content \subseteq Nonces
      /\ g(host) \in Nat
  BY <1>0, <1>6, <1>7 DEF IdentityInv, IdentityTypeOK
<1>10. /\ IsLedger(SavedStreams(r, read).content)
       /\ SavedStreams(r, read).generation = IF Uses(r, "streams") THEN g(host) + 1 ELSE g(host)
       /\ ~Uses(r, "streams") => SavedStreams(r, read) = read.streams
  BY <1>0, <1>9, SavedIsLedger DEF SavedStreams
<1>11. SavedApprovals(r, read).content \subseteq Nonces
  BY <1>9, GrantedAreNonces DEF SavedApprovals, NoncesAfter, SpentAfter
<1>12. /\ IsLedger(onHost'[host].streams.content)
       /\ onHost'[host].approvals.content \subseteq Nonces
       /\ onHost'[host].streams.generation =
            IF saved /\ Uses(r, "streams") THEN g(host) + 1 ELSE g(host)
       /\ ~(saved /\ Uses(r, "streams")) => onHost'[host].streams = read.streams
  BY <1>0, <1>8, <1>9, <1>10, <1>11
<1>13. IdentityTypeOK'
  <2>1. ASSUME NEW h \in Hosts
        PROVE  /\ IsLedger(onHost'[h].streams.content)
               /\ onHost'[h].approvals.content \subseteq Nonces
               /\ onHost'[h].streams.generation = Cardinality(SavedOn(history', h))
    <3>1. CASE h = host BY <3>1, <1>6, <1>7, <1>12
    <3>2. CASE h # host BY <3>2, <1>6, <1>7, <1>8 DEF IdentityInv, IdentityTypeOK
    <3>3. QED BY <3>1, <3>2
  <2>2. now' \in 0 .. MaxNow BY <1>1 DEF IdentityInv, IdentityTypeOK
  <2>3. QED BY <2>1, <2>2 DEF IdentityTypeOK, SavedOn
<1>14. Says(e)
  BY <1>0, <1>2 DEF Says, Instant
<1>15. ASSUME NEW a \in Scores PROVE Behind(a)'
  <2>1. Behind(a) /\ a.host \in Hosts BY DEF IdentityInv, Says
  <2>2. CASE a.host = host BY <2>1, <2>2, <1>0, <1>9, <1>12 DEF Behind
  <2>3. CASE a.host # host BY <2>1, <2>3, <1>8 DEF Behind
  <2>4. QED BY <2>2, <2>3
<1>16. Behind(e)' BY <1>0, <1>2, <1>9, <1>12 DEF Behind
<1>17. ASSUME NEW a \in Scores, a.host = host,
              a.read.streams.generation = e.read.streams.generation
       PROVE  a.read.streams = e.read.streams
  BY <1>0, <1>2, <1>17 DEF IdentityInv, Behind
<1>18. \A a, b \in Scores' :
         a.host = b.host /\ a.read.streams.generation = b.read.streams.generation =>
           a.read.streams = b.read.streams
  BY <1>2, <1>4, <1>17 DEF IdentityInv
<1>19. \A a \in Scores' : Says(a)' /\ Behind(a)'
  <2>1. \A a \in Scores : Says(a)' BY DEF IdentityInv, Says, Pinned, RunId, VerdictId
  <2>2. Says(e)' BY <1>14 DEF Says
  <2>3. QED BY <2>1, <2>2, <1>4, <1>15, <1>16
<1>20. QED BY <1>5, <1>8, <1>13, <1>18, <1>19 DEF IdentityInv

(* The invariant of run identities.                                        *)
THEOREM RunsSayWhatTheyRead == RunIdentityAssumption => (IdentitySpec => []IdentityInv)
<1> SUFFICES ASSUME RunIdentityAssumption PROVE IdentitySpec => []IdentityInv OBVIOUS
<1>1. IdentityInv /\ [IdentityNext]_identityVars => IdentityInv'
  <2> SUFFICES ASSUME IdentityInv, [IdentityNext]_identityVars PROVE IdentityInv' OBVIOUS
  <2>1. ASSUME NEW r \in Runs, NEW host \in Hosts, NEW saved \in BOOLEAN, Score(r, host, saved)
        PROVE  IdentityInv'
    BY <2>1, ScoreKeeps
  <2>2. CASE Tick \/ UNCHANGED identityVars
    <3>1. history' = history /\ onHost' = onHost BY <2>2 DEF Tick, identityVars
    <3>2. now' \in 0 .. MaxNow
      BY <2>2 DEF Tick, identityVars, IdentityInv, IdentityTypeOK, RunIdentityAssumption
    <3>3. Scores' = Scores BY <3>1 DEF Scores
    <3>4. IdentityTypeOK' BY <3>1, <3>2 DEF IdentityInv, IdentityTypeOK
    <3>5. \A a \in Scores : Says(a)' /\ Behind(a)' BY <3>1 DEF IdentityInv, Says, Behind
    <3>6. QED BY <3>1, <3>3, <3>4, <3>5 DEF IdentityInv
  <2>3. QED BY <2>1, <2>2 DEF IdentityNext
<1>2. QED BY <1>1, IdentityBegins, PTL DEF IdentitySpec

(* For any inputs, hosts, instants, ledgers and bounds: a retry over the   *)
(* ledgers the first attempt had found has its identity, and its verdict   *)
(* id where the instant is pinned; without ledgers the identity of a run   *)
(* that is pinned fixes what it says; and on one host an identity stands   *)
(* for one seen-stream ledger (trust_config_digest, run_id, verdict_id).   *)
THEOREM IdentityIsOfTheRun ==
  RunIdentityAssumption => (IdentitySpec => []IdentityMeansTheSameRun)
<1> SUFFICES ASSUME RunIdentityAssumption PROVE IdentitySpec => []IdentityMeansTheSameRun OBVIOUS
<1>1. IdentityInv => IdentityMeansTheSameRun
  <2> SUFFICES ASSUME IdentityInv
               PROVE  RetryIsRecognised /\ IdentityIsEnough /\ OneHostOneLedger
    BY DEF IdentityInv, IdentityMeansTheSameRun
  <2>1. ASSUME NEW a \in Scores, NEW b \in Scores, a.run = b.run, a.read = b.read
        PROVE  a.id = b.id /\ (Pinned(a.run) => a.verdict = b.verdict)
    <3>1. PICK i : /\ Pinned(a.run) => i = AsOf[a.run]
                   /\ a.id = RunId(a.run, a.read, i) /\ a.verdict = VerdictId(a.run, a.read, i)
      BY DEF IdentityInv, Says
    <3>2. PICK j : /\ Pinned(b.run) => j = AsOf[b.run]
                   /\ b.id = RunId(b.run, b.read, j) /\ b.verdict = VerdictId(b.run, b.read, j)
      BY DEF IdentityInv, Says
    <3>3. FreshnessPart(a.run, i) = FreshnessPart(b.run, j)
      BY <2>1, <3>1, <3>2 DEF FreshnessPart
    <3>4. a.id = b.id BY <2>1, <3>1, <3>2, <3>3 DEF RunId
    <3>5. ASSUME Pinned(a.run) PROVE a.verdict = b.verdict
      <4>1. i = j BY <3>1, <3>2, <3>5, <2>1
      <4>2. QED BY <4>1, <3>1, <3>2, <2>1
    <3>6. QED BY <3>4, <3>5
  <2>2. ASSUME NEW a \in Scores, NEW b \in Scores, a.id = b.id, Pinned(a.run),
               Batch[a.run].uses = {}, Batch[b.run].uses = {}
        PROVE  a.verdict = b.verdict
    <3>1. PICK i : /\ Pinned(a.run) => i = AsOf[a.run]
                   /\ a.id = RunId(a.run, a.read, i) /\ a.verdict = VerdictId(a.run, a.read, i)
      BY DEF IdentityInv, Says
    <3>2. PICK j : /\ Pinned(b.run) => j = AsOf[b.run]
                   /\ b.id = RunId(b.run, b.read, j) /\ b.verdict = VerdictId(b.run, b.read, j)
      BY DEF IdentityInv, Says
    <3>3. FreshnessPart(a.run, i) = FreshnessPart(b.run, j)
      <4>1. \A q, read, k : RunId(q, read, k).freshness = FreshnessPart(q, k) BY DEF RunId
      <4>2. a.id.freshness = FreshnessPart(a.run, i) BY <3>1, <4>1
      <4>3. b.id.freshness = FreshnessPart(b.run, j) BY <3>2, <4>1
      <4>4. QED BY <2>2, <4>2, <4>3
    <3>4. Pinned(b.run) /\ i = j
      BY <2>2, <3>1, <3>2, <3>3 DEF FreshnessPart
    <3>5. /\ Verdict(a.run, a.read, i) =
               [stream |-> "unasked", answers |-> <<>>, stale |-> i > MaxAge]
          /\ Verdict(b.run, b.read, j) =
               [stream |-> "unasked", answers |-> <<>>, stale |-> j > MaxAge]
      BY <2>2 DEF Verdict, Uses
    <3>6. QED BY <2>2, <3>1, <3>2, <3>4, <3>5 DEF VerdictId
  <2>3. ASSUME NEW a \in Scores, NEW b \in Scores, a.id = b.id, a.host = b.host,
               Uses(a.run, "streams")
        PROVE  a.read.streams = b.read.streams
    <3>1. a.id.ledger = LedgerPart(a.run, a.read) /\ b.id.ledger = LedgerPart(b.run, b.read)
      <4>1. \A q, read, k : RunId(q, read, k).ledger = LedgerPart(q, read) BY DEF RunId
      <4>2. \A c \in Scores : \E k : c.id = RunId(c.run, c.read, k) BY DEF IdentityInv, Says
      <4>3. QED BY <4>1, <4>2
    <3>2. LedgerPart(a.run, a.read) =
            <<a.read.streams.generation, StreamsAfter(a.run, a.read).entries>>
      BY <2>3 DEF LedgerPart
    <3>3. Uses(b.run, "streams") BY <2>3, <3>1, <3>2 DEF LedgerPart
    <3>4. LedgerPart(b.run, b.read) =
            <<b.read.streams.generation, StreamsAfter(b.run, b.read).entries>>
      BY <3>3 DEF LedgerPart
    <3>5. a.read.streams.generation = b.read.streams.generation
      BY <2>3, <3>1, <3>2, <3>4
    <3>6. QED BY <2>3, <3>5 DEF IdentityInv
  <2>4. QED BY <2>1, <2>2, <2>3 DEF RetryIsRecognised, IdentityIsEnough, OneHostOneLedger
<1>2. QED BY <1>1, RunsSayWhatTheyRead, PTL

-----------------------------------------------------------------------------
(* Manifest: any files and any limits.                                     *)

(* The first n entries of a file's tools and of its policies.              *)
ToolsUpTo(f, n)    == {<<f.tools[i][1], Capability(f.tools[i][2])>> : i \in 1 .. n}
PoliciesUpTo(f, n) == {f.policies[i] : i \in 1 .. n}

(* What was read of a file whose every tool is good.                       *)
ReadWhole(f, caps, decls) ==
  /\ f \in Files
  /\ \A i \in DOMAIN f.tools : Usable(f.tools[i][2])
  /\ caps = ToolsUpTo(f, Len(f.tools)) /\ decls = PoliciesUpTo(f, Len(f.policies))

(* Nothing is in hand that the entries passed did not say.                 *)
ManifestInv ==
  /\ ManifestTypeOK
  /\ stage = "tools" =>
       /\ position \in 0 .. Len(source.tools) /\ policies = {}
       /\ \A i \in 1 .. position : Usable(source.tools[i][2])
       /\ tools = ToolsUpTo(source, position)
  /\ stage \in {"policies", "loaded"} =>
       /\ position \in 0 .. Len(source.policies)
       /\ \A i \in DOMAIN source.tools : Usable(source.tools[i][2])
       /\ tools = ToolsUpTo(source, Len(source.tools))
       /\ policies = PoliciesUpTo(source, position)
  /\ Loaded => position = Len(source.policies)
  /\ before # Unset => ReadWhole(before.file, before.tools, before.policies)

(* What a good entry becomes has its type and says what the entry says.    *)
LEMMA GoodEntry ==
  ASSUME ManifestAssumption, NEW f \in Files, NEW i \in DOMAIN f.tools, Usable(f.tools[i][2])
  PROVE  LET e == f.tools[i][2]
             c == Capability(e)
         IN /\ c.effects \subseteq Effects /\ c.approval \in BOOLEAN
            /\ c.effects = Range(e.effects)
            /\ e.approval # Unset => c.approval = e.approval
            /\ e.sensitive # Unset => c.sensitive = e.sensitive
<1> DEFINE e == f.tools[i][2]
<1>1. f.tools[i] \in Range(f.tools) BY DEF Range
<1>2. e.approval \in BOOLEAN \cup {Unset, Junk} BY <1>1 DEF ManifestAssumption
<1>3. e.approval # Junk /\ e.sensitive # Junk /\ Range(e.effects) \subseteq Effects
  BY DEF Usable
<1> HIDE DEF e
<1>4. QED BY <1>2, <1>3 DEF Capability, e

(* A file's entries are its sequence's, in any order.                      *)
LEMMA EntriesOf ==
  ASSUME ManifestAssumption, NEW f \in Files
  PROVE  /\ Len(f.tools) \in Nat /\ DOMAIN f.tools = 1 .. Len(f.tools)
         /\ Len(f.policies) \in Nat /\ DOMAIN f.policies = 1 .. Len(f.policies)
         /\ Range(f.policies) = PoliciesUpTo(f, Len(f.policies))
<1>1. f.tools \in Seq(Range(f.tools)) /\ f.policies \in Seq(Range(f.policies))
  BY DEF ManifestAssumption
<1>2. Len(f.tools) \in Nat /\ DOMAIN f.tools = 1 .. Len(f.tools) BY <1>1
<1>3. Len(f.policies) \in Nat /\ DOMAIN f.policies = 1 .. Len(f.policies) BY <1>1
<1>4. QED BY <1>2, <1>3 DEF Range, PoliciesUpTo

LEMMA OpenInv ==
  ASSUME ManifestAssumption, ManifestInv, NEW f \in Files, Open(f) PROVE ManifestInv'
<1>1. Len(f.tools) \in Nat BY EntriesOf
<1>2. source' = f /\ stage' \in {"tools", "refused"} /\ f # Unset
  BY DEF Open, ManifestAssumption
<1>3. tools' = {} /\ policies' = {} /\ position' = 0 BY DEF Open
<1>4. ManifestTypeOK' BY <1>1, <1>2, <1>3 DEF ManifestTypeOK
<1>5. ToolsUpTo(f, 0) = {} BY DEF ToolsUpTo
<1>6. before' # Unset => ReadWhole(before.file, before.tools, before.policies)'
  <2>1. CASE stage # "loaded"
    <3>1. before' = before BY <2>1 DEF Open
    <3>2. QED BY <3>1 DEF ManifestInv, ReadWhole
  <2>2. CASE stage = "loaded"
    <3>1. before' = [file |-> source, tools |-> tools, policies |-> policies]
      BY <2>2 DEF Open
    <3>2. source \in Files BY <2>2 DEF ManifestInv, ManifestTypeOK
    <3>3. ReadWhole(source, tools, policies) BY <2>2, <3>2 DEF ManifestInv, Loaded, ReadWhole
    <3>4. QED BY <3>1, <3>3
  <2>3. QED BY <2>1, <2>2
<1>7. QED BY <1>1, <1>2, <1>3, <1>4, <1>5, <1>6 DEF ManifestInv, Loaded

LEMMA ReadToolInv ==
  ASSUME ManifestAssumption, ManifestInv, ReadTool PROVE ManifestInv'
<1> DEFINE t == source.tools[position + 1]
<1>1. /\ stage = "tools" /\ position < Len(source.tools)
      /\ source' = source /\ policies' = policies /\ before' = before
  BY DEF ReadTool
<1>2. source \in Files /\ position \in Nat BY <1>1 DEF ManifestInv, ManifestTypeOK
<1>3. Len(source.tools) \in Nat /\ position + 1 \in DOMAIN source.tools
  BY <1>1, <1>2, EntriesOf
<1>4. CASE ~Usable(t[2])
  <2>1. stage' = "refused" /\ position' = position /\ tools' = tools BY <1>4 DEF ReadTool
  <2>2. QED BY <1>1, <1>2, <2>1 DEF ManifestInv, ManifestTypeOK, Loaded, ReadWhole
<1>5. CASE Usable(t[2])
  <2>1. /\ position' = position + 1 /\ stage' = stage
        /\ tools' = tools \cup {<<t[1], Capability(t[2])>>}
    BY <1>5 DEF ReadTool
  <2>2. Capability(t[2]).effects \subseteq Effects /\ Capability(t[2]).approval \in BOOLEAN
    BY <1>2, <1>3, <1>5, GoodEntry
  <2>3. \A x \in tools' : x[2].effects \subseteq Effects /\ x[2].approval \in BOOLEAN
    BY <2>1, <2>2 DEF ManifestInv, ManifestTypeOK
  <2>4. 1 .. position + 1 = (1 .. position) \cup {position + 1} BY <1>2
  <2>5. tools' = ToolsUpTo(source, position + 1)
    BY <1>1, <2>1, <2>4 DEF ManifestInv, ToolsUpTo
  <2>6. \A i \in 1 .. position' : Usable(source'.tools[i][2])
    BY <1>1, <1>5, <2>1, <2>4 DEF ManifestInv
  <2>7. position' \in 0 .. Len(source'.tools) BY <1>1, <1>2, <1>3, <2>1
  <2>8. ManifestTypeOK' BY <1>1, <2>1, <2>3, <2>7 DEF ManifestInv, ManifestTypeOK
  <2>9. QED
    BY <1>1, <2>1, <2>5, <2>6, <2>7, <2>8 DEF ManifestInv, Loaded, ReadWhole
<1>6. QED BY <1>4, <1>5

LEMMA TurnToPoliciesInv ==
  ASSUME ManifestAssumption, ManifestInv, TurnToPolicies PROVE ManifestInv'
<1>1. /\ stage = "tools" /\ position = Len(source.tools) /\ position' = 0
      /\ stage' \in {"policies", "refused"}
      /\ source' = source /\ tools' = tools /\ policies' = policies /\ before' = before
  BY DEF TurnToPolicies
<1>2. source \in Files BY <1>1 DEF ManifestInv, ManifestTypeOK
<1>3. /\ Len(source.policies) \in Nat /\ DOMAIN source.tools = 1 .. Len(source.tools)
  BY <1>2, EntriesOf
<1>4. PoliciesUpTo(source, 0) = {} BY DEF PoliciesUpTo
<1>5. ManifestTypeOK' BY <1>1 DEF ManifestInv, ManifestTypeOK
<1>6. CASE stage' = "refused" BY <1>1, <1>5, <1>6 DEF ManifestInv, Loaded, ReadWhole
<1>7. CASE stage' = "policies"
  <2>1. Loaded' = FALSE BY <1>7 DEF Loaded
  <2>2. position' \in 0 .. Len(source'.policies) BY <1>1, <1>3
  <2>3. \A i \in DOMAIN source'.tools : Usable(source'.tools[i][2])
    BY <1>1, <1>3 DEF ManifestInv
  <2>4. /\ tools' = ToolsUpTo(source', Len(source'.tools))
        /\ policies' = PoliciesUpTo(source', position')
    BY <1>1, <1>4 DEF ManifestInv
  <2>5. before' # Unset => ReadWhole(before.file, before.tools, before.policies)'
    BY <1>1 DEF ManifestInv
  <2>6. QED BY <1>5, <1>7, <2>1, <2>2, <2>3, <2>4, <2>5 DEF ManifestInv
<1>8. QED BY <1>1, <1>6, <1>7

LEMMA ReadPolicyInv ==
  ASSUME ManifestAssumption, ManifestInv, ReadPolicy PROVE ManifestInv'
<1> DEFINE p == source.policies[position + 1]
<1>1. /\ stage = "policies" /\ position < Len(source.policies)
      /\ source' = source /\ tools' = tools /\ before' = before
  BY DEF ReadPolicy
<1>2. source \in Files /\ position \in Nat BY <1>1 DEF ManifestInv, ManifestTypeOK
<1>3. Len(source.policies) \in Nat BY <1>2, EntriesOf
<1>4. CASE p[2] \notin {"blocking", "advisory"}
  <2>1. stage' = "refused" BY <1>4 DEF ReadPolicy
  <2>2. QED BY <1>1, <1>2, <2>1 DEF ManifestInv, ManifestTypeOK, Loaded, ReadWhole
<1>5. CASE p[2] \in {"blocking", "advisory"}
  <2>1. position' = position + 1 /\ stage' = stage /\ policies' = policies \cup {p}
    BY <1>5 DEF ReadPolicy
  <2>2. 1 .. position + 1 = (1 .. position) \cup {position + 1} BY <1>2
  <2>3. policies' = PoliciesUpTo(source, position + 1)
    BY <1>1, <2>1, <2>2 DEF ManifestInv, PoliciesUpTo
  <2>4. position' \in 0 .. Len(source'.policies) BY <1>1, <1>2, <1>3, <2>1
  <2>5. ManifestTypeOK' BY <1>1, <2>1 DEF ManifestInv, ManifestTypeOK
  <2>6. QED BY <1>1, <2>1, <2>3, <2>4, <2>5 DEF ManifestInv, Loaded, ReadWhole
<1>6. QED BY <1>4, <1>5

LEMMA FinishInv ==
  ASSUME ManifestAssumption, ManifestInv, Finish PROVE ManifestInv'
<1>1. /\ stage = "policies" /\ position = Len(source.policies)
      /\ stage' \in {"loaded", "refused"}
      /\ UNCHANGED <<source, tools, policies, position, before>>
  BY DEF Finish
<1>2. ManifestTypeOK' BY <1>1 DEF ManifestInv, ManifestTypeOK
<1>3. QED BY <1>1, <1>2 DEF ManifestInv, Loaded, ReadWhole

(* The invariant of the manifest's loader.                                 *)
THEOREM EntriesSayWhatIsHeld == ManifestAssumption => (ManifestSpec => []ManifestInv)
<1> SUFFICES ASSUME ManifestAssumption PROVE ManifestSpec => []ManifestInv OBVIOUS
<1>1. ManifestInit => ManifestInv
  BY DEF ManifestInit, ManifestInv, ManifestTypeOK, Loaded
<1>2. ManifestInv /\ [ManifestNext]_manifestVars => ManifestInv'
  <2> SUFFICES ASSUME ManifestInv, [ManifestNext]_manifestVars PROVE ManifestInv' OBVIOUS
  <2>1. CASE UNCHANGED manifestVars
    BY <2>1 DEF manifestVars, ManifestInv, ManifestTypeOK, Loaded, ReadWhole
  <2>2. QED
    BY <2>1, OpenInv, ReadToolInv, TurnToPoliciesInv, ReadPolicyInv, FinishInv DEF ManifestNext
<1>3. QED BY <1>1, <1>2, PTL DEF ManifestSpec

-----------------------------------------------------------------------------
(* The digests.                                                            *)

(* The meaning of a capability fixes its class.                            *)
LEMMA MeaningFixesKlass ==
  ASSUME NEW c, NEW d, Meaning(c) = Meaning(d) PROVE Klass(c) = Klass(d)
<1>1. Meaning(c).effects = c.effects /\ Meaning(d).effects = d.effects BY DEF Meaning
<1>2. c.effects = d.effects BY <1>1
<1>3. QED BY <1>2 DEF Klass

(* What the spelling of an entry leaves out of it.                         *)
SaidOf(e) ==
  [effects |-> Range(e.effects), reversible |-> e.reversible,
   destination |-> IF e.destination = Blank THEN Unset ELSE e.destination,
   approval |-> e.approval,
   sensitive |-> IF e.sensitive = Unset THEN {} ELSE Range(e.sensitive)]

LEMMA SaidFixesMeaning ==
  ASSUME NEW d, NEW e, Usable(d), Usable(e), SaidOf(d) = SaidOf(e)
  PROVE  Meaning(Capability(d)) = Meaning(Capability(e))
<1>1. ASSUME NEW x, Usable(x)
      PROVE  Meaning(Capability(x)) =
               [effects |-> SaidOf(x).effects, reversible |-> SaidOf(x).reversible,
                destination |-> SaidOf(x).destination,
                approval |-> IF SaidOf(x).approval = Unset THEN FALSE ELSE SaidOf(x).approval,
                sensitive |-> SaidOf(x).sensitive]
  <2>1. x.sensitive # Junk BY <1>1 DEF Usable
  <2>2. Range(<<>>) = {} BY DEF Range
  <2>3. Range(Capability(x).sensitive) = SaidOf(x).sensitive
    BY <2>1, <2>2 DEF Capability, SaidOf
  <2>4. QED BY <2>3 DEF Meaning, Capability, SaidOf
<1>2. QED BY <1>1

(* Tools that are spelt alike mean alike.                                  *)
LEMMA SpeltAlike ==
  ASSUME ManifestAssumption, NEW f, NEW g, NEW F, NEW G, NEW P, NEW Q,
         ReadWhole(f, F, P), ReadWhole(g, G, Q),
         {<<t[1], SaidOf(t[2])>> : t \in Range(f.tools)}
           \subseteq {<<t[1], SaidOf(t[2])>> : t \in Range(g.tools)}
  PROVE  {<<t[1], Meaning(t[2])>> : t \in F} \subseteq {<<t[1], Meaning(t[2])>> : t \in G}
<1> SUFFICES ASSUME NEW c \in F
             PROVE  \E d \in G : d[1] = c[1] /\ Meaning(d[2]) = Meaning(c[2])
  OBVIOUS
<1>1. /\ DOMAIN f.tools = 1 .. Len(f.tools) /\ DOMAIN g.tools = 1 .. Len(g.tools)
  BY EntriesOf DEF ReadWhole
<1>2. PICK i \in DOMAIN f.tools : c = <<f.tools[i][1], Capability(f.tools[i][2])>>
  BY <1>1 DEF ReadWhole, ToolsUpTo
<1>3. f.tools[i] \in Range(f.tools) BY DEF Range
<1>4. PICK u \in Range(g.tools) : u[1] = f.tools[i][1] /\ SaidOf(u[2]) = SaidOf(f.tools[i][2])
  <2> DEFINE pair == <<f.tools[i][1], SaidOf(f.tools[i][2])>>
  <2>1. pair \in {<<t[1], SaidOf(t[2])>> : t \in Range(f.tools)} BY <1>3
  <2>2. pair \in {<<t[1], SaidOf(t[2])>> : t \in Range(g.tools)} BY <2>1
  <2>3. PICK u \in Range(g.tools) : pair = <<u[1], SaidOf(u[2])>> BY <2>2
  <2>4. QED BY <2>3
<1>5. PICK j \in DOMAIN g.tools : u = g.tools[j] BY <1>4 DEF Range
<1>6. Usable(f.tools[i][2]) /\ Usable(g.tools[j][2]) BY DEF ReadWhole
<1>7. Meaning(Capability(g.tools[j][2])) = Meaning(Capability(f.tools[i][2]))
  BY <1>4, <1>5, <1>6, SaidFixesMeaning
<1>8. <<g.tools[j][1], Capability(g.tools[j][2])>> \in G BY <1>1 DEF ReadWhole, ToolsUpTo
<1>9. QED BY <1>2, <1>4, <1>5, <1>7, <1>8

(* The classes of tools that mean alike.                                   *)
LEMMA MeantAlike ==
  ASSUME NEW F, NEW G,
         {<<t[1], Meaning(t[2])>> : t \in F} \subseteq {<<t[1], Meaning(t[2])>> : t \in G}
  PROVE  {<<t[1], Klass(t[2])>> : t \in F} \subseteq {<<t[1], Klass(t[2])>> : t \in G}
<1> SUFFICES ASSUME NEW c \in F
             PROVE  \E d \in G : d[1] = c[1] /\ Klass(d[2]) = Klass(c[2])
  OBVIOUS
<1>1. PICK d \in G : d[1] = c[1] /\ Meaning(d[2]) = Meaning(c[2])
  <2>1. <<c[1], Meaning(c[2])>> \in {<<t[1], Meaning(t[2])>> : t \in F} OBVIOUS
  <2>2. <<c[1], Meaning(c[2])>> \in {<<t[1], Meaning(t[2])>> : t \in G} BY <2>1
  <2>3. PICK d \in G : <<c[1], Meaning(c[2])>> = <<d[1], Meaning(d[2])>> BY <2>2
  <2>4. QED BY <2>3
<1>2. QED BY <1>1, MeaningFixesKlass

(* For any manifest files and limits: a manifest is loaded whole or not at *)
(* all, one semantic digest means one class for each tool and one          *)
(* enforcement for each policy, and a respelling moves no semantic digest  *)
(* (CapabilityManifest.from_obj and semantic_digest).                      *)
THEOREM DigestsMeanOnePolicy ==
  ManifestAssumption => (ManifestSpec => []LoadedWholeUnderOneDigest)
<1> SUFFICES ASSUME ManifestAssumption PROVE ManifestSpec => []LoadedWholeUnderOneDigest OBVIOUS
<1>1. ManifestInv => LoadedWholeUnderOneDigest
  <2> SUFFICES ASSUME ManifestInv, Loaded
               PROVE  LoadedWhole /\ DigestFixesTheClasses /\ SpellingMovesNothing
    BY DEF LoadedWholeUnderOneDigest, ManifestInv, LoadedWhole, DigestFixesTheClasses,
           SpellingMovesNothing, Compared
  <2>1. source \in Files BY DEF ManifestInv, ManifestTypeOK, Loaded
  <2>2. ReadWhole(source, tools, policies) BY <2>1 DEF ManifestInv, Loaded, ReadWhole
  <2>3. DOMAIN source.tools = 1 .. Len(source.tools) BY <2>1, EntriesOf
  <2>4. LoadedWhole
    <3>1. policies = Range(source.policies) BY <2>1, <2>2, EntriesOf DEF ReadWhole
    <3>2. {t[1] : t \in tools} = {t[1] : t \in Range(source.tools)}
      <4>1. \A t \in tools : \E i \in DOMAIN source.tools :
              t = <<source.tools[i][1], Capability(source.tools[i][2])>>
        BY <2>2, <2>3 DEF ReadWhole, ToolsUpTo
      <4>2. \A i \in DOMAIN source.tools :
              <<source.tools[i][1], Capability(source.tools[i][2])>> \in tools
        BY <2>2, <2>3 DEF ReadWhole, ToolsUpTo
      <4>3. \A t \in tools : \E u \in Range(source.tools) : u[1] = t[1]
        BY <4>1 DEF Range
      <4>4. \A u \in Range(source.tools) : \E t \in tools : u[1] = t[1]
        <5> TAKE u \in Range(source.tools)
        <5>1. PICK i \in DOMAIN source.tools : u = source.tools[i] BY DEF Range
        <5>2. <<source.tools[i][1], Capability(source.tools[i][2])>> \in tools BY <4>2
        <5>3. QED BY <5>1, <5>2
      <4>5. QED BY <4>3, <4>4
    <3>3. ASSUME NEW t \in tools
          PROVE  \E e \in {x[2] : x \in {y \in Range(source.tools) : y[1] = t[1]}} :
                   /\ t[2].effects = Range(e.effects)
                   /\ e.approval # Unset => t[2].approval = e.approval
                   /\ e.sensitive # Unset => t[2].sensitive = e.sensitive
      <4>1. PICK i \in DOMAIN source.tools :
              t = <<source.tools[i][1], Capability(source.tools[i][2])>>
        BY <2>2, <2>3 DEF ReadWhole, ToolsUpTo
      <4>2. source.tools[i] \in {y \in Range(source.tools) : y[1] = t[1]} BY <4>1 DEF Range
      <4>3. Usable(source.tools[i][2]) BY <2>2 DEF ReadWhole
      <4>4. t[2] = Capability(source.tools[i][2]) BY <4>1
      <4> DEFINE E == {x[2] : x \in {y \in Range(source.tools) : y[1] = t[1]}}
      <4>5. source.tools[i][2] \in E BY <4>2
      <4>6. /\ t[2].effects = Range(source.tools[i][2].effects)
            /\ source.tools[i][2].approval # Unset => t[2].approval = source.tools[i][2].approval
            /\ source.tools[i][2].sensitive # Unset =>
                 t[2].sensitive = source.tools[i][2].sensitive
        BY <2>1, <4>3, <4>4, GoodEntry
      <4> HIDE DEF E
      <4>7. QED BY <4>5, <4>6 DEF E
    <3>4. QED BY <3>1, <3>2, <3>3 DEF LoadedWhole
  <2>5. ASSUME before # Unset PROVE ReadWhole(before.file, before.tools, before.policies)
    BY <2>5 DEF ManifestInv
  <2>6. DigestFixesTheClasses
    <3> SUFFICES ASSUME before # Unset, Same(before.tools, before.policies)
                 PROVE  /\ {<<t[1], Klass(t[2])>> : t \in tools} =
                             {<<t[1], Klass(t[2])>> : t \in before.tools}
                        /\ policies = before.policies
      BY DEF DigestFixesTheClasses, Compared
    <3>1. /\ {<<t[1], Meaning(t[2])>> : t \in tools} =
               {<<t[1], Meaning(t[2])>> : t \in before.tools}
          /\ policies = before.policies
      BY DEF Same, SemanticDigest
    <3>2. /\ {<<t[1], Klass(t[2])>> : t \in tools} \subseteq
               {<<t[1], Klass(t[2])>> : t \in before.tools}
          /\ {<<t[1], Klass(t[2])>> : t \in before.tools} \subseteq
               {<<t[1], Klass(t[2])>> : t \in tools}
      BY <3>1, MeantAlike
    <3>3. QED BY <3>1, <3>2
  <2>7. SpellingMovesNothing
    <3> SUFFICES ASSUME before # Unset, Respelled(source, before.file)
                 PROVE  Same(before.tools, before.policies)
      BY DEF SpellingMovesNothing, Compared
    <3>1. /\ {<<t[1], SaidOf(t[2])>> : t \in Range(source.tools)} =
               {<<t[1], SaidOf(t[2])>> : t \in Range(before.file.tools)}
          /\ Range(source.policies) = Range(before.file.policies)
      BY DEF Respelled, SaidOf
    <3>2. policies = before.policies
      BY <2>1, <2>2, <2>5, <3>1, EntriesOf DEF ReadWhole
    <3>3. /\ {<<t[1], Meaning(t[2])>> : t \in tools} \subseteq
               {<<t[1], Meaning(t[2])>> : t \in before.tools}
          /\ {<<t[1], Meaning(t[2])>> : t \in before.tools} \subseteq
               {<<t[1], Meaning(t[2])>> : t \in tools}
      BY <2>2, <2>5, <3>1, SpeltAlike
    <3>4. QED BY <3>2, <3>3 DEF Same, SemanticDigest
  <2>8. QED BY <2>4, <2>6, <2>7
<1>2. QED BY <1>1, EntriesSayWhatIsHeld, PTL

-----------------------------------------------------------------------------
(* TrustStore: any ids, times, entries and any bound on the keys.           *)

(* From cur one never leaves the store before a key of seen: some keys,     *)
(* cur among them, hold what each of them replaces, but those seen.         *)
Trapped(keys, seen, cur) ==
  \E some \in SUBSET DOMAIN keys :
    /\ cur \in some
    /\ \A id \in some \ seen : keys[id].replaces \in some

WalkFrom(walk, keys, seen, cur) ==
  IF cur \notin DOMAIN keys THEN FALSE
  ELSE IF cur \in seen THEN TRUE
  ELSE walk[seen \cup {cur}][keys[cur].replaces]

IsWalk(walk, keys) ==
  walk = [seen \in SUBSET DOMAIN keys |->
            [cur \in Ids \cup {None} |-> WalkFrom(walk, keys, seen, cur)]]

(* One step of the walk leads from where one is trapped to where one is.    *)
LEMMA TrappedSteps ==
  ASSUME NEW keys, NEW seen, NEW cur
  PROVE  Trapped(keys, seen, cur) <=>
           /\ cur \in DOMAIN keys
           /\ cur \in seen \/ Trapped(keys, seen \cup {cur}, keys[cur].replaces)
<1>1. ASSUME Trapped(keys, seen, cur), cur \notin seen
      PROVE  Trapped(keys, seen \cup {cur}, keys[cur].replaces)
  BY <1>1 DEF Trapped
<1>2. ASSUME cur \in DOMAIN keys, cur \in seen PROVE Trapped(keys, seen, cur)
  <2>1. {cur} \in SUBSET DOMAIN keys /\ cur \in {cur} /\ {cur} \ seen = {} BY <1>2
  <2>2. QED BY <2>1 DEF Trapped
<1>3. ASSUME cur \in DOMAIN keys, Trapped(keys, seen \cup {cur}, keys[cur].replaces)
      PROVE  Trapped(keys, seen, cur)
  <2>1. PICK some \in SUBSET DOMAIN keys :
          /\ keys[cur].replaces \in some
          /\ \A id \in some \ (seen \cup {cur}) : keys[id].replaces \in some
    BY <1>3 DEF Trapped
  <2>2. /\ some \cup {cur} \in SUBSET DOMAIN keys /\ cur \in some \cup {cur}
        /\ \A id \in (some \cup {cur}) \ seen : keys[id].replaces \in some \cup {cur}
    BY <1>3, <2>1
  <2>3. QED BY <2>2 DEF Trapped
<1>4. Trapped(keys, seen, cur) => cur \in DOMAIN keys BY DEF Trapped
<1>5. QED BY <1>1, <1>2, <1>3, <1>4

LEMMA WalkExists ==
  ASSUME NEW keys, DOMAIN keys \subseteq Ids,
         \A id \in DOMAIN keys : keys[id].replaces \in Ids \cup {None}
  PROVE  \E walk : IsWalk(walk, keys)
<1> DEFINE f == [seen \in SUBSET DOMAIN keys |->
                   [cur \in Ids \cup {None} |-> Trapped(keys, seen, cur)]]
<1>0. \A seen, cur : Trapped(keys, seen, cur) \in BOOLEAN BY DEF Trapped
<1>1. ASSUME NEW seen \in SUBSET DOMAIN keys, NEW cur \in Ids \cup {None}
      PROVE  Trapped(keys, seen, cur) = WalkFrom(f, keys, seen, cur)
  <2>1. CASE cur \notin DOMAIN keys
    <3>1. ~Trapped(keys, seen, cur) BY <2>1, TrappedSteps
    <3>2. QED BY <2>1, <3>1, <1>0 DEF WalkFrom
  <2>2. CASE cur \in DOMAIN keys /\ cur \in seen
    <3>1. Trapped(keys, seen, cur) BY <2>2, TrappedSteps
    <3>2. QED BY <2>2, <3>1, <1>0 DEF WalkFrom
  <2>3. CASE cur \in DOMAIN keys /\ cur \notin seen
    <3>1. seen \cup {cur} \in SUBSET DOMAIN keys /\ keys[cur].replaces \in Ids \cup {None}
      BY <2>3
    <3>2. f[seen \cup {cur}][keys[cur].replaces]
            = Trapped(keys, seen \cup {cur}, keys[cur].replaces)
      BY <3>1
    <3>3. Trapped(keys, seen, cur) <=> Trapped(keys, seen \cup {cur}, keys[cur].replaces)
      BY <2>3, TrappedSteps, Zenon
    <3> HIDE DEF f
    <3>4. QED BY <2>3, <3>2, <3>3, <1>0 DEF WalkFrom
  <2>4. QED BY <2>1, <2>2, <2>3
<1>2. f = [seen \in SUBSET DOMAIN keys |->
             [cur \in Ids \cup {None} |-> WalkFrom(f, keys, seen, cur)]]
  BY <1>1
<1>3. QED BY <1>2 DEF IsWalk

LEMMA WalkSteps ==
  ASSUME NEW keys, NEW walk, IsWalk(walk, keys),
         NEW seen \in SUBSET DOMAIN keys, NEW cur \in Ids \cup {None}
  PROVE  walk[seen][cur] = WalkFrom(walk, keys, seen, cur)
<1> DEFINE f == [s \in SUBSET DOMAIN keys |->
                   [c \in Ids \cup {None} |-> WalkFrom(walk, keys, s, c)]]
<1>1. walk = f BY DEF IsWalk
<1>2. f[seen][cur] = WalkFrom(walk, keys, seen, cur) OBVIOUS
<1> HIDE DEF f
<1>3. QED BY <1>1, <1>2

Left(keys, seen) == Cardinality(DOMAIN keys \ seen)

LEMMA WalksTrapped ==
  ASSUME NEW keys, DOMAIN keys \subseteq Ids, IsFiniteSet(DOMAIN keys),
         \A id \in DOMAIN keys : keys[id].replaces \in Ids \cup {None},
         NEW walk, IsWalk(walk, keys),
         NEW seen \in SUBSET DOMAIN keys, NEW cur \in Ids \cup {None}
  PROVE  walk[seen][cur] <=> Trapped(keys, seen, cur)
<1> DEFINE Wrong == {p \in (SUBSET DOMAIN keys) \X (Ids \cup {None}) :
                       ~(walk[p[1]][p[2]] <=> Trapped(keys, p[1], p[2]))}
           Sizes == {Left(keys, p[1]) : p \in Wrong}
<1>1. SUFFICES ASSUME Wrong # {} PROVE FALSE
  <2>1. ASSUME Wrong = {} PROVE walk[seen][cur] <=> Trapped(keys, seen, cur)
    <3>1. <<seen, cur>> \notin Wrong BY <2>1
    <3>2. <<seen, cur>> \in (SUBSET DOMAIN keys) \X (Ids \cup {None}) OBVIOUS
    <3>3. QED BY <3>1, <3>2
  <2>2. QED BY <2>1
<1>2. \A s \in SUBSET DOMAIN keys : Left(keys, s) \in Nat
  <2>1. \A s : IsFiniteSet(DOMAIN keys \ s) BY FS_Difference
  <2>2. QED BY <2>1, FS_CardinalityType DEF Left
<1>3. PICK n \in Sizes : \A m \in Sizes : n =< m
  <2>1. Sizes \in SUBSET Nat /\ Sizes # {} BY <1>1, <1>2
  <2>2. QED BY <2>1, LeastOf
<1>4. PICK s \in SUBSET DOMAIN keys, c \in Ids \cup {None} :
        <<s, c>> \in Wrong /\ n = Left(keys, s)
  BY <1>3
<1>5. s \in SUBSET DOMAIN keys /\ c \in Ids \cup {None} BY <1>4
<1>6. walk[s][c] = WalkFrom(walk, keys, s, c) BY <1>5, WalkSteps
<1>7. ~(walk[s][c] <=> Trapped(keys, s, c)) BY <1>4
<1>8. c \in DOMAIN keys /\ c \notin s
  <2>1. CASE c \notin DOMAIN keys BY <2>1, <1>6, <1>7, TrappedSteps DEF WalkFrom
  <2>2. CASE c \in DOMAIN keys /\ c \in s BY <2>2, <1>6, <1>7, TrappedSteps DEF WalkFrom
  <2>3. QED BY <2>1, <2>2
<1>9. s \cup {c} \in SUBSET DOMAIN keys /\ keys[c].replaces \in Ids \cup {None} BY <1>5, <1>8
<1>10. Left(keys, s \cup {c}) < Left(keys, s)
  <2>1. /\ DOMAIN keys \ (s \cup {c}) \subseteq DOMAIN keys \ s
        /\ DOMAIN keys \ (s \cup {c}) # DOMAIN keys \ s
    BY <1>8
  <2>2. IsFiniteSet(DOMAIN keys \ s) BY FS_Difference
  <2>3. /\ Left(keys, s \cup {c}) <= Left(keys, s)
        /\ Left(keys, s \cup {c}) = Left(keys, s) => DOMAIN keys \ (s \cup {c}) = DOMAIN keys \ s
    BY <2>1, <2>2, FS_Subset DEF Left
  <2>4. Left(keys, s \cup {c}) \in Nat /\ Left(keys, s) \in Nat BY <1>2, <1>5, <1>9
  <2>5. QED BY <2>1, <2>3, <2>4
<1>11. <<s \cup {c}, keys[c].replaces>> \notin Wrong
  <2>1. ASSUME <<s \cup {c}, keys[c].replaces>> \in Wrong PROVE FALSE
    <3> DEFINE q == <<s \cup {c}, keys[c].replaces>>
    <3>0. q \in Wrong /\ q[1] = s \cup {c} BY <2>1
    <3>1. Left(keys, s \cup {c}) \in Sizes BY ONLY <3>0
    <3>2. n <= Left(keys, s \cup {c}) BY <3>1, <1>3
    <3>3. Left(keys, s \cup {c}) \in Nat /\ Left(keys, s) \in Nat BY <1>2, <1>5, <1>9
    <3>4. QED BY ONLY <3>2, <3>3, <1>4, <1>10
  <2>2. QED BY <2>1
<1>12. walk[s \cup {c}][keys[c].replaces] <=> Trapped(keys, s \cup {c}, keys[c].replaces)
  BY <1>9, <1>11
<1>13. QED BY <1>6, <1>7, <1>8, <1>12, TrappedSteps DEF WalkFrom

LEMMA LoopsMeansTrapped ==
  ASSUME NEW keys, DOMAIN keys \subseteq Ids, IsFiniteSet(DOMAIN keys),
         \A id \in DOMAIN keys : keys[id].replaces \in Ids \cup {None},
         NEW start \in DOMAIN keys
  PROVE  Loops(keys, start) <=> Trapped(keys, {start}, keys[start].replaces)
<1> DEFINE walk == CHOOSE f : IsWalk(f, keys)
<1>1. IsWalk(walk, keys) BY WalkExists
<1>2. Loops(keys, start) = walk[{start}][keys[start].replaces]
  BY DEF Loops, IsWalk, WalkFrom
<1>3. {start} \in SUBSET DOMAIN keys /\ keys[start].replaces \in Ids \cup {None} OBVIOUS
<1> HIDE DEF walk
<1>4. QED BY <1>1, <1>2, <1>3, WalksTrapped

(* Trapped from a key onward, one is in a ring; and every key of a ring is  *)
(* where a walk finds it.                                                   *)
LEMMA RingsAreMet ==
  ASSUME NEW keys
  PROVE  (\E id \in DOMAIN keys : Trapped(keys, {id}, keys[id].replaces)) <=>
           \E ring \in (SUBSET DOMAIN keys) \ {{}} : \A id \in ring : keys[id].replaces \in ring
<1>1. ASSUME NEW id \in DOMAIN keys, Trapped(keys, {id}, keys[id].replaces)
      PROVE  \E ring \in (SUBSET DOMAIN keys) \ {{}} : \A k \in ring : keys[k].replaces \in ring
  <2>1. PICK some \in SUBSET DOMAIN keys :
          /\ keys[id].replaces \in some
          /\ \A k \in some \ {id} : keys[k].replaces \in some
    BY <1>1 DEF Trapped
  <2>2. \A k \in some : keys[k].replaces \in some BY <2>1
  <2>3. some \in (SUBSET DOMAIN keys) \ {{}} BY <2>1
  <2>4. QED BY <2>2, <2>3
<1>2. ASSUME NEW ring \in (SUBSET DOMAIN keys) \ {{}}, \A id \in ring : keys[id].replaces \in ring
      PROVE  \E id \in DOMAIN keys : Trapped(keys, {id}, keys[id].replaces)
  <2>1. PICK id \in ring : TRUE OBVIOUS
  <2>2. keys[id].replaces \in ring /\ \A k \in ring \ {id} : keys[k].replaces \in ring
    BY <1>2, <2>1
  <2>3. Trapped(keys, {id}, keys[id].replaces)
    <3>1. ring \in SUBSET DOMAIN keys OBVIOUS
    <3>2. QED BY <2>2, <3>1 DEF Trapped
  <2>4. QED BY <2>1, <2>3
<1>3. QED BY <1>1, <1>2

-----------------------------------------------------------------------------
StoreInv == StoreTypeOK /\ IsFiniteSet(DOMAIN storeKeys)

LEMMA WarningsOfARing ==
  ASSUME StoreInv
  PROVE  CycleReported
<1>1. \A id \in DOMAIN storeKeys : storeKeys[id].replaces \in Ids \cup {None}
  BY DEF StoreInv, StoreTypeOK, KeyEntries
<1>2. \A id \in DOMAIN storeKeys :
        Loops(storeKeys, id) <=> Trapped(storeKeys, {id}, storeKeys[id].replaces)
  BY <1>1, LoopsMeansTrapped DEF StoreInv, StoreTypeOK
<1>3. ("rotation_cycle" \in Warnings(storeKeys, storeLegacy)) <=>
        \E id \in DOMAIN storeKeys : Loops(storeKeys, id)
  BY DEF Warnings
<1>4. QED BY <1>2, <1>3, RingsAreMet DEF CycleReported

LEMMA RevokedIsMute ==
  ASSUME StoreInv
  PROVE  RevokedVouchesForNothing
<1> SUFFICES ASSUME NEW sig \in Signatures(Ids),
                    Outcome(sig, "c", "manifest", storeKeys) = "verified"
             PROVE  /\ ~Revoked(storeKeys[sig.key])
                    /\ "all_keys_revoked" \notin Warnings(storeKeys, storeLegacy)
  BY DEF RevokedVouchesForNothing
<1>1. sig.key \in DOMAIN storeKeys /\ ~Revoked(storeKeys[sig.key]) BY DEF Outcome
<1>2. "all_keys_revoked" \in Warnings(storeKeys, storeLegacy) =>
        \A id \in DOMAIN storeKeys : Revoked(storeKeys[id])
  BY DEF Warnings
<1>3. QED BY <1>1, <1>2

LEMMA StoreInitInv ==
  ASSUME StoreAssumption, StoreInit
  PROVE  StoreInv
<1>1. PICK id \in Ids, entry \in StoreEntries :
        /\ storeKeys = [k \in {id} |-> IF storeLegacy THEN LegacyKey ELSE entry]
        /\ Loads(storeKeys)
  BY DEF StoreInit
<1>2. DOMAIN storeKeys = {id} /\ storeKeys[id] \in KeyEntries BY <1>1 DEF StoreAssumption
<1>3. IsFiniteSet(DOMAIN storeKeys) BY <1>2, FS_Singleton
<1>4. QED BY <1>1, <1>2, <1>3 DEF StoreInv, StoreTypeOK, StoreInit

(* What each action does to the keys.                                      *)
LEMMA AddsOneKey ==
  ASSUME StoreAssumption, StoreInv, NEW id \in Ids, NEW entry \in StoreEntries,
         AddKey(id, entry)
  PROVE  StoreInv' /\ RevokedForGood /\ AddedVouchesForItself
<1>1. /\ DOMAIN storeKeys' = DOMAIN storeKeys \cup {id}
      /\ \A k \in DOMAIN storeKeys : storeKeys'[k] = storeKeys[k]
      /\ storeKeys'[id] \in KeyEntries
  BY DEF AddKey, WithKey, StoreAssumption
<1>2. StoreInv'
  <2>1. IsFiniteSet(DOMAIN storeKeys') BY <1>1, FS_AddElement DEF StoreInv
  <2>2. /\ DOMAIN storeKeys' \subseteq Ids
        /\ \A k \in DOMAIN storeKeys' : storeKeys'[k] \in KeyEntries
    BY <1>1 DEF StoreInv, StoreTypeOK
  <2>3. QED BY <2>1, <2>2 DEF StoreInv, StoreTypeOK, AddKey
<1>3. RevokedForGood BY <1>1 DEF RevokedForGood
<1>4. AddedVouchesForItself
  <2> SUFFICES ASSUME NEW sig \in Signatures(DOMAIN storeKeys),
                      Outcome(sig, "c", "manifest", storeKeys') = "verified"
               PROVE  Outcome(sig, "c", "manifest", storeKeys) = "verified"
    BY DEF AddedVouchesForItself
  <2>1. sig.key \in DOMAIN storeKeys BY DEF Signatures
  <2>2. storeKeys'[sig.key] = storeKeys[sig.key] BY <1>1, <2>1
  <2>3. "policy" \in storeKeys[sig.key].roles BY <2>2 DEF Outcome
  <2>4. HasRole(storeKeys, "policy") BY <2>1, <2>3 DEF HasRole
  <2>5. QED BY <2>1, <2>2, <2>3, <2>4 DEF Outcome
<1>5. QED BY <1>2, <1>3, <1>4

LEMMA RetiresOneKey ==
  ASSUME StoreInv, NEW id \in DOMAIN storeKeys, NEW when \in Times, RetireKey(id, when)
  PROVE  StoreInv' /\ RevokedForGood /\ AddedVouchesForItself
<1>1. /\ DOMAIN storeKeys' = DOMAIN storeKeys
      /\ \A k \in DOMAIN storeKeys : k # id => storeKeys'[k] = storeKeys[k]
      /\ storeKeys'[id] = [storeKeys[id] EXCEPT !.not_after = when]
  BY DEF RetireKey
<1>2. /\ storeKeys'[id] \in KeyEntries
      /\ storeKeys'[id].revoked_at = storeKeys[id].revoked_at
  <2>1. storeKeys[id] \in KeyEntries BY DEF StoreInv, StoreTypeOK
  <2>2. QED BY <1>1, <2>1 DEF KeyEntries
<1>3. StoreInv' BY <1>1, <1>2 DEF StoreInv, StoreTypeOK, RetireKey
<1>4. RevokedForGood BY <1>1, <1>2 DEF RevokedForGood, Revoked
<1>5. QED BY <1>1, <1>3, <1>4 DEF AddedVouchesForItself

LEMMA RevokesOneKey ==
  ASSUME TrustedKeysAssumption, StoreInv,
         NEW id \in DOMAIN storeKeys, NEW when \in Times, RevokeKey(id, when)
  PROVE  StoreInv' /\ RevokedForGood /\ AddedVouchesForItself
<1>1. /\ DOMAIN storeKeys' = DOMAIN storeKeys
      /\ \A k \in DOMAIN storeKeys : k # id => storeKeys'[k] = storeKeys[k]
      /\ storeKeys'[id] = [storeKeys[id] EXCEPT !.revoked_at = when]
  BY DEF RevokeKey
<1>2. /\ storeKeys'[id] \in KeyEntries
      /\ storeKeys'[id].revoked_at = when
      /\ WellFormed(id, storeKeys[id]) => WellFormed(id, storeKeys'[id])
  <2>1. storeKeys[id] \in KeyEntries BY DEF StoreInv, StoreTypeOK
  <2>2. QED BY <1>1, <2>1 DEF KeyEntries, WellFormed
<1>3. Loads(storeKeys') BY <1>1, <1>2 DEF StoreInv, StoreTypeOK, Loads
<1>4. StoreInv' BY <1>1, <1>2, <1>3 DEF StoreInv, StoreTypeOK, RevokeKey
<1>5. when # None BY DEF TrustedKeysAssumption
<1>6. RevokedForGood BY <1>1, <1>2, <1>5 DEF RevokedForGood, Revoked
<1>7. QED BY <1>1, <1>4, <1>6 DEF AddedVouchesForItself

LEMMA StoreKeepsInv ==
  ASSUME TrustedKeysAssumption, StoreAssumption, StoreInv, [StoreNext]_storeVars
  PROVE  StoreInv' /\ (StoreNext => RevokedForGood /\ AddedVouchesForItself)
<1>1. CASE StoreNext
  <2>1. CASE \E id \in Ids, entry \in StoreEntries : AddKey(id, entry)
    BY <2>1, AddsOneKey
  <2>2. CASE \E id \in DOMAIN storeKeys, when \in Times : RetireKey(id, when)
    BY <2>2, RetiresOneKey
  <2>3. CASE \E id \in DOMAIN storeKeys, when \in Times : RevokeKey(id, when)
    BY <2>3, RevokesOneKey
  <2>4. CASE Rewrite
    BY <2>4 DEF Rewrite, StoreInv, StoreTypeOK, RevokedForGood, AddedVouchesForItself
  <2>5. QED BY <1>1, <2>1, <2>2, <2>3, <2>4 DEF StoreNext
<1>2. CASE UNCHANGED storeVars
  <2>1. StoreInv' BY <1>2 DEF storeVars, StoreInv, StoreTypeOK
  <2>2. RevokedForGood /\ AddedVouchesForItself
    BY <1>2 DEF storeVars, RevokedForGood, AddedVouchesForItself
  <2>3. QED BY <2>1, <2>2
<1>3. QED BY <1>1, <1>2

(* However an operator adds, retires and revokes keys, the document loads, *)
(* its warnings find the rings of replacements and only them, a revoked    *)
(* key vouches for nothing, its revocation is never written over, and an   *)
(* added key changes nothing another signed: for any ids, times, entries   *)
(* and any bound on the keys (add_key, from_obj, _store_warnings,          *)
(* verify_policy_signature).                                               *)
THEOREM RevocationsAreKept ==
  TrustedKeysAssumption /\ StoreAssumption => (StoreSpec => RevocationsHold)
<1> SUFFICES ASSUME TrustedKeysAssumption, StoreAssumption PROVE StoreSpec => RevocationsHold
  OBVIOUS
<1>1. StoreInit => StoreInv BY StoreInitInv
<1>2. StoreInv /\ [StoreNext]_storeVars => StoreInv' BY StoreKeepsInv
<1>3. StoreInv => StoreTypeOK /\ CycleReported /\ RevokedVouchesForNothing
  BY WarningsOfARing, RevokedIsMute DEF StoreInv
<1>4. StoreInv /\ [StoreNext]_storeVars => [RevokedForGood /\ AddedVouchesForItself]_storeVars
  BY StoreKeepsInv
<1>5. QED BY <1>1, <1>2, <1>3, <1>4, PTL DEF StoreSpec, RevocationsHold
=============================================================================
