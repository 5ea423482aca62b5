--------------------------- MODULE SignRunsProofs ---------------------------
(***************************************************************************)
(* However its runs are refused, killed and started again, a collector     *)
(* carries on one log: SignRuns implements SignedLog, what its state file  *)
(* says was written to the output, and a saved run's positions are final.  *)
(*                                                                         *)
(* The invariant relates a run in progress to the state it resumed: its    *)
(* chain is the carried one followed by the lines it has signed, all of    *)
(* which may be signed, and it is closed only by its last line (Batch).    *)
(* On it rest what the output says of the signer (Described) and what its  *)
(* records say of one another (Numbered).                                  *)
(***************************************************************************)
EXTENDS SignRuns, SequenceTheorems, TLAPS

Link  == (Streams \X AnyKey) \cup Bodies \cup {BadLine}
Chain == Seq(Link)

SignerState ==
  {s \in [next : Nat, head : Chain, closed : BOOLEAN] : Len(s.head) = s.next + 1}

Sigs ==
  {NoSig} \cup {Signature(Key, SigningInput(Stream, n, h, f)) :
                  n \in Nat, h \in Chain, f \in BOOLEAN}

Line == [seq : Nat, body : Link, prev : Chain, chain : Chain, final : BOOLEAN,
         try : Calls \X Nat, sig : Sigs]

Shape ==
  /\ call \in Calls \cup {NoCall}
  /\ pc \in {"sign", "save"}
  /\ signer \in SignerState
  /\ read \in Nat
  /\ state \in {<<>>} \cup {<<s>> : s \in SignerState}
  /\ torn \in BOOLEAN
  /\ tries \in [Calls -> Nat]
  /\ written \in Seq(Line)
  /\ glued \subseteq Nat
  /\ saved \subseteq Calls \X Nat

(* The lines the run has signed: all it has read but the one held back.    *)
Done == IF pc = "save" \/ read = 0 THEN read ELSE read - 1

Batch ==
  call # NoCall =>
    /\ read <= Len(Lines(call))
    /\ pc = "save" => read = Len(Lines(call))
    /\ \A i \in 1 .. read : Lines(call)[i] # BadLine
    /\ \A i \in 1 .. Done : Lines(call)[i] \notin Unsignable
    /\ signer.next = Carried.next + Done
    /\ signer.head = Carried.head \o SubSeq(Lines(call), 1, Done)
    /\ Done > 0 => ~Carried.closed
    /\ signer.closed = IF pc = "save" /\ read > 0 THEN Input[call].close
                                                  ELSE Carried.closed

-----------------------------------------------------------------------------
(* Facts about the data.                                                   *)

LEMMA LinesTyped ==
  ASSUME NEW c \in Calls
  PROVE  /\ Lines(c) \in Seq(Bodies \cup {BadLine}) /\ Lines(c) \in Chain
         /\ Len(Lines(c)) \in Nat /\ DOMAIN Lines(c) = 1 .. Len(Lines(c))
         /\ \A i \in 1 .. Len(Lines(c)) : Lines(c)[i] \in Link
         /\ Input[c].close \in BOOLEAN
<1>1. Input[c] \in Inputs
  BY SignAssumption
<1>2. Lines(c) \in Seq(Bodies \cup {BadLine}) /\ Input[c].close \in BOOLEAN
  BY <1>1 DEF Inputs, Lines
<1>3. Lines(c) \in Seq(Link)
  <2>1. Bodies \cup {BadLine} \subseteq Link
    BY DEF Link
  <2> QED BY <1>2, <2>1, SeqMonotonic
<1> QED BY <1>2, <1>3, ElementOfSeq, LenProperties DEF Chain

LEMMA FreshTyped == Fresh \in SignerState
<1>1. <<Stream, Key>> \in Link
  BY SignAssumption DEF Link, AnyKey
<1>2. ChainSeed(Stream, Key) \in Chain /\ Len(ChainSeed(Stream, Key)) = 1
  BY <1>1 DEF ChainSeed, Chain
<1> DEFINE s == [next |-> 0, head |-> ChainSeed(Stream, Key), closed |-> FALSE]
<1>3. s \in SignerState
  <2>1. s.next = 0 /\ s.head = ChainSeed(Stream, Key)
    OBVIOUS
  <2>2. s \in [next : Nat, head : Chain, closed : BOOLEAN]
    BY <1>2
  <2>3. Len(s.head) = s.next + 1
    BY <1>2, <2>1
  <2> HIDE DEF s
  <2> QED BY <2>2, <2>3 DEF SignerState
<1> QED BY <1>3 DEF Fresh

LEMMA CarriedTyped ==
  ASSUME Shape
  PROVE  Carried \in SignerState
<1>1. CASE state = <<>>
  BY <1>1, FreshTyped DEF Carried, Resumed
<1>2. CASE state # <<>>
  <2>1. PICK s \in SignerState : state = <<s>>
    BY <1>2 DEF Shape
  <2> QED BY <1>2, <2>1 DEF Carried, Resumed
<1> QED BY <1>1, <1>2

LEMMA CarriedKept ==
  ASSUME UNCHANGED state
  PROVE  Carried' = Carried
BY DEF Carried, Resumed

LEMMA CarriedSaved ==
  ASSUME state' = <<signer>>
  PROVE  Carried' = signer
BY DEF Carried, Resumed

(* One more line of the batch on the chain.                                *)
LEMMA ChainGrows ==
  ASSUME NEW base \in Chain, NEW lines \in Chain, NEW n \in 1 .. Len(lines)
  PROVE  Append(base \o SubSeq(lines, 1, n - 1), lines[n])
           = base \o SubSeq(lines, 1, n)
<1> USE DEF Chain
<1>1. SubSeq(lines, 1, n) = SubSeq(lines, 1, n - 1) \o <<lines[n]>>
  BY SubSeqRecursiveSecond, LenProperties
<1>2. lines[n] \in Link /\ SubSeq(lines, 1, n - 1) \in Seq(Link)
  <2>1. \A i \in 1 .. Len(lines) : lines[i] \in Link
    BY ElementOfSeq
  <2>2. \A i \in 1 .. n - 1 : lines[i] \in Link
    BY <2>1, LenProperties
  <2> QED BY <2>1, <2>2, SubSeqProperties, LenProperties
<1>3. base \o SubSeq(lines, 1, n - 1) \in Seq(Link)
  BY <1>2, ConcatProperties
<1>4. Append(base \o SubSeq(lines, 1, n - 1), lines[n])
        = (base \o SubSeq(lines, 1, n - 1)) \o <<lines[n]>>
  BY <1>2, <1>3, AppendIsConcat
<1>5. <<lines[n]>> \in Seq(Link)
  BY <1>2
<1> DEFINE before == SubSeq(lines, 1, n - 1)
<1>6. (base \o before) \o <<lines[n]>> = base \o (before \o <<lines[n]>>)
  <2> HIDE DEF before
  <2> QED BY <1>2, <1>5, ConcatAssociative
<1> QED BY <1>1, <1>4, <1>6

-----------------------------------------------------------------------------
(* What signing one line does.                                             *)

LEMMA SidecarTyped ==
  ASSUME Shape, NEW c \in Calls, call = c, NEW body \in Link,
         NEW attest \in BOOLEAN, NEW final \in BOOLEAN
  PROVE  /\ Sidecar(body, attest, final) \in Line
         /\ Append(signer.head, body) \in Chain
         /\ Advanced(body, final) \in SignerState
<1>1. /\ signer.head \in Chain /\ signer.next \in Nat
      /\ Len(signer.head) = signer.next + 1
  BY DEF Shape, SignerState
<1>2. /\ Append(signer.head, body) \in Chain
      /\ Len(Append(signer.head, body)) = signer.next + 2
  BY <1>1, AppendProperties DEF Chain
<1>3. Advanced(body, final) \in SignerState
  BY <1>1, <1>2 DEF Advanced, ChainStep, SignerState
<1>4. Try \in Calls \X Nat
  BY DEF Try, Shape
<1>5. Signature(Key, SigningInput(Stream, signer.next, Append(signer.head, body), final))
        \in Sigs
  BY <1>1, <1>2 DEF Sigs
<1>6. NoSig \in Sigs
  BY DEF Sigs
<1> QED BY <1>1, <1>2, <1>3, <1>4, <1>5, <1>6 DEF Sidecar, ChainStep, Line

LEMMA Signs ==
  ASSUME Shape, NEW c \in Calls, call = c, read \in 1 .. Len(Lines(call)),
         NEW attest \in BOOLEAN, NEW final \in BOOLEAN, SignPending(attest, final)
  PROVE  /\ ~signer.closed /\ Lines(call)[read] \notin Unsignable
         /\ signer' \in SignerState
         /\ signer'.next = signer.next + 1
         /\ signer'.head = Append(signer.head, Lines(call)[read])
         /\ signer'.closed = final
         /\ torn' \in BOOLEAN /\ written' \in Seq(Line) /\ glued' \subseteq Nat
<1> DEFINE line == Sidecar(Pending, attest, final)
<1>1. Pending \in Link /\ Pending = Lines(call)[read]
  BY LinesTyped DEF Pending
<1>2. line \in Line /\ line.seq = signer.next
  BY <1>1, SidecarTyped DEF Sidecar
<1>3. signer' = Advanced(Pending, final) /\ MaySign /\ Write(line)
  BY DEF SignPending
<1>4. signer' \in SignerState
  BY <1>1, <1>3, SidecarTyped
<1>5. torn' \in BOOLEAN /\ written' \in Seq(Line) /\ glued' \subseteq Nat
  <2>1. signer.next \in Nat
    BY DEF Shape, SignerState
  <2>2. Append(written, line) \in Seq(Line)
    BY <1>2, AppendProperties DEF Shape
  <2> HIDE DEF line
  <2> QED BY <1>2, <1>3, <2>1, <2>2 DEF Write, Shape
<1> QED BY <1>1, <1>3, <1>4, <1>5 DEF Advanced, ChainStep, MaySign

(* ... and what it does to the batch.                                      *)
LEMMA BatchGrows ==
  ASSUME Shape, Batch, call # NoCall, pc = "sign", read > 0,
         NEW attest \in BOOLEAN, NEW final \in BOOLEAN, SignPending(attest, final)
  PROVE  /\ signer' \in SignerState
         /\ signer'.next = Carried.next + read
         /\ signer'.head = Carried.head \o SubSeq(Lines(call), 1, read)
         /\ signer'.closed = final
         /\ ~Carried.closed
         /\ \A i \in 1 .. read : Lines(call)[i] \notin Unsignable
         /\ torn' \in BOOLEAN /\ written' \in Seq(Line) /\ glued' \subseteq Nat
<1>1. /\ call \in Calls /\ read \in Nat /\ Len(Lines(call)) \in Nat
      /\ read \in 1 .. Len(Lines(call)) /\ Done = read - 1
  BY LinesTyped DEF Shape, Batch, Done
<1>2. /\ ~signer.closed /\ Lines(call)[read] \notin Unsignable
      /\ signer' \in SignerState
      /\ signer'.next = signer.next + 1
      /\ signer'.head = Append(signer.head, Lines(call)[read])
      /\ signer'.closed = final
      /\ torn' \in BOOLEAN /\ written' \in Seq(Line) /\ glued' \subseteq Nat
  BY <1>1, Signs
<1>3. signer'.next = Carried.next + read
  <2>1. signer.next = Carried.next + (read - 1) /\ Carried.next \in Nat
    BY <1>1, CarriedTyped DEF Batch, SignerState
  <2> QED BY <1>1, <1>2, <2>1
<1>4. signer'.head = Carried.head \o SubSeq(Lines(call), 1, read)
  <2>1. signer.head = Carried.head \o SubSeq(Lines(call), 1, read - 1)
    BY <1>1 DEF Batch
  <2>2. Carried.head \in Chain /\ Lines(call) \in Chain
    BY <1>1, CarriedTyped, LinesTyped DEF SignerState
  <2> QED BY <1>1, <1>2, <2>1, <2>2, ChainGrows
<1>5. \A i \in 1 .. read : Lines(call)[i] \notin Unsignable
  BY <1>1, <1>2 DEF Batch
<1> QED BY <1>1, <1>2, <1>3, <1>4, <1>5 DEF Batch

(* A batch of which nothing is signed yet.                                 *)
LEMMA NothingSigned ==
  ASSUME Shape, NEW c \in Calls
  PROVE  Carried.head = Carried.head \o SubSeq(Lines(c), 1, 0)
<1>1. Carried.head \in Chain
  BY CarriedTyped DEF SignerState
<1>2. SubSeq(Lines(c), 1, 0) = <<>>
  BY SubSeqEmpty
<1> QED BY <1>1, <1>2, ConcatEmptySeq DEF Chain

-----------------------------------------------------------------------------
(* The steps.                                                              *)

IInv == Shape /\ Batch

LEMMA StartStep ==
  ASSUME IInv, NEW c \in Calls, Start(c)
  PROVE  IInv'
<1> USE DEF IInv
<1>1. /\ call' = c /\ pc' = "sign" /\ signer' = Carried /\ read' = 0
      /\ Carried' = Carried /\ call' # NoCall
  BY SignAssumption, CarriedKept DEF Start, Carried
<1>2. Shape'
  <2>1. torn' \in BOOLEAN /\ tries' \in [Calls -> Nat]
    BY LinesTyped DEF Start, Shape
  <2> QED BY <1>1, <2>1, CarriedTyped DEF Start, Shape
<1>3. Done' = 0
  BY <1>1 DEF Done
<1>4. signer'.next = Carried.next + 0 /\ Len(Lines(c)) \in Nat
  BY <1>1, CarriedTyped, LinesTyped DEF SignerState
<1>5. signer'.head = Carried.head \o SubSeq(Lines(c), 1, 0)
  BY <1>1, NothingSigned
<1>6. Batch'
  BY <1>1, <1>3, <1>4, <1>5 DEF Batch, Lines
<1> QED BY <1>2, <1>6

LEMMA ReadLineStep ==
  ASSUME IInv, ReadLine
  PROVE  IInv'
<1> USE DEF IInv
<1>1. /\ call' = call /\ pc = "sign" /\ pc' = "sign" /\ read' = read + 1
      /\ call \in Calls /\ call # NoCall /\ Carried' = Carried
      /\ read \in Nat /\ Len(Lines(call)) \in Nat /\ read' <= Len(Lines(call))
      /\ Lines(call)[read'] # BadLine
  BY LinesTyped, CarriedKept DEF ReadLine, Signing, AtEnd, Readable, Shape, Batch
<1>2. Done' = read
  BY <1>1 DEF Done
<1>3. \A i \in 1 .. read' : Lines(call)[i] # BadLine
  BY <1>1 DEF Batch
<1>4. CASE read = 0
  <2>1. UNCHANGED <<signer, torn, written, glued>> /\ Done = 0
    BY <1>4 DEF ReadLine, Done
  <2>2. Shape'
    BY <1>1, <2>1 DEF Shape, ReadLine
  <2>3. Batch'
    BY <1>1, <1>2, <1>3, <1>4, <2>1 DEF Batch, Lines
  <2> QED BY <2>2, <2>3
<1>5. CASE read > 0
  <2>1. SignPending(FALSE, FALSE)
    <3>1. read # 0
      BY <1>5, <1>1
    <3> QED BY <3>1, Zenon DEF ReadLine
  <2>2. /\ signer' \in SignerState
        /\ signer'.next = Carried.next + read
        /\ signer'.head = Carried.head \o SubSeq(Lines(call), 1, read)
        /\ signer'.closed = FALSE
        /\ ~Carried.closed
        /\ \A i \in 1 .. read : Lines(call)[i] \notin Unsignable
        /\ torn' \in BOOLEAN /\ written' \in Seq(Line) /\ glued' \subseteq Nat
    BY <1>1, <1>5, <2>1, BatchGrows
  <2>3. Shape'
    BY <1>1, <2>2 DEF Shape, ReadLine
  <2>4. Batch'
    <3>1. Carried.closed = FALSE
      BY <2>2, CarriedTyped DEF SignerState
    <3> QED BY <1>1, <1>2, <1>3, <2>2, <3>1 DEF Batch, Lines
  <2> QED BY <2>3, <2>4
<1> QED BY <1>1, <1>4, <1>5

LEMMA LastLineStep ==
  ASSUME IInv, LastLine
  PROVE  IInv'
<1> USE DEF IInv
<1>1. /\ call' = call /\ pc = "sign" /\ pc' = "save" /\ read' = read
      /\ call \in Calls /\ call # NoCall /\ Carried' = Carried
      /\ read \in Nat /\ read = Len(Lines(call))
  BY CarriedKept DEF LastLine, Signing, AtEnd, Shape
<1>2. Done' = read
  BY <1>1 DEF Done
<1>3. \A i \in 1 .. read : Lines(call)[i] # BadLine
  BY <1>1 DEF Batch
<1>4. CASE read = 0
  <2>1. UNCHANGED <<signer, torn, written, glued>> /\ Done = 0
    BY <1>4 DEF LastLine, Done
  <2>2. Shape'
    BY <1>1, <2>1 DEF Shape, LastLine
  <2>3. Batch'
    BY <1>1, <1>2, <1>3, <1>4, <2>1 DEF Batch, Lines
  <2> QED BY <2>2, <2>3
<1>5. CASE read > 0
  <2>1. SignPending(TRUE, Input[call].close) /\ Input[call].close \in BOOLEAN
    <3>1. read # 0
      BY <1>5, <1>1
    <3> QED BY <1>1, <3>1, LinesTyped, Zenon DEF LastLine
  <2>2. /\ signer' \in SignerState
        /\ signer'.next = Carried.next + read
        /\ signer'.head = Carried.head \o SubSeq(Lines(call), 1, read)
        /\ signer'.closed = Input[call].close
        /\ ~Carried.closed
        /\ \A i \in 1 .. read : Lines(call)[i] \notin Unsignable
        /\ torn' \in BOOLEAN /\ written' \in Seq(Line) /\ glued' \subseteq Nat
    BY <1>1, <1>5, <2>1, BatchGrows
  <2>3. Shape'
    BY <1>1, <2>2 DEF Shape, LastLine
  <2>4. Batch'
    BY <1>1, <1>2, <1>3, <1>5, <2>2 DEF Batch, Lines
  <2> QED BY <2>3, <2>4
<1> QED BY <1>1, <1>4, <1>5

LEMMA SaveStep ==
  ASSUME IInv, Save
  PROVE  IInv'
<1> USE DEF IInv
<1>1. call' = NoCall /\ state' = <<signer>> /\ saved' = saved \cup {Try}
  BY DEF Save, Kept
<1>2. Try \in Calls \X Nat
  BY DEF Save, Try, Shape
<1>3. Shape'
  BY <1>1, <1>2 DEF Save, Shape
<1>4. Batch'
  BY <1>1 DEF Batch
<1> QED BY <1>3, <1>4

(* A run that ends without saving leaves the state as it was.              *)
LEMMA AbandonStep ==
  ASSUME IInv, Refuse \/ Stop \/ Tear
  PROVE  IInv' /\ UNCHANGED state
<1> USE DEF IInv
<1>1. call' = NoCall /\ UNCHANGED state
  BY DEF Refuse, Stop, Tear, Abandon
<1>2. Shape'
  BY <1>1 DEF Refuse, Stop, Tear, Shape
<1>3. Batch'
  BY <1>1 DEF Batch
<1> QED BY <1>1, <1>2, <1>3

LEMMA Initially ==
  ASSUME Init
  PROVE  IInv
<1>1. Shape
  <2>1. written \in Seq(Line)
    BY EmptySeq DEF Init
  <2> QED BY <2>1, FreshTyped DEF Init, Shape
<1> QED BY <1>1 DEF Init, IInv, Batch

(* In every reachable state a run in progress stands at a prefix of its    *)
(* batch on the carried chain (cmd_sign, StreamSigner.sign).               *)
THEOREM RunsStandOnTheState == Spec => []IInv
<1>1. Init => IInv
  BY Initially
<1>2. IInv /\ [Next]_vars => IInv'
  <2> SUFFICES ASSUME IInv, [Next]_vars
               PROVE  IInv'
    OBVIOUS
  <2>1. ASSUME NEW c \in Calls, Start(c)
        PROVE  IInv'
    BY <2>1, StartStep
  <2>2. CASE ReadLine
    BY <2>2, ReadLineStep
  <2>3. CASE LastLine
    BY <2>3, LastLineStep
  <2>4. CASE Save
    BY <2>4, SaveStep
  <2>5. CASE Refuse \/ Stop \/ Tear
    BY <2>5, AbandonStep
  <2>6. CASE UNCHANGED vars
    BY <2>6 DEF vars, IInv, Shape, Batch, Done, Carried
  <2> QED BY <2>1, <2>2, <2>3, <2>4, <2>5, <2>6 DEF Next
<1> QED BY <1>1, <1>2, PTL DEF Spec

-----------------------------------------------------------------------------
(* The refinement of SignedLog: saving the state commits the batch, and    *)
(* nothing else moves the log.                                             *)

LEMMA SaveCommits ==
  ASSUME IInv, Save
  PROVE  (\E c \in Calls : Log!Commit(c)) \/ UNCHANGED <<Carried.head, Carried.closed>>
<1> USE DEF IInv
<1>1. /\ call \in Calls /\ call # NoCall /\ pc = "save" /\ Carried' = signer
      /\ read = Len(Lines(call)) /\ Done = read
  BY CarriedSaved DEF Save, Kept, Shape, Batch, Done
<1>2. Lines(call) \in Chain /\ Len(Lines(call)) \in Nat
  BY <1>1, LinesTyped
<1>3. SubSeq(Lines(call), 1, read) = Lines(call)
  BY <1>1, <1>2, SubSeqFull DEF Chain
<1>4. /\ signer.head = Carried.head \o Lines(call)
      /\ signer.closed = IF read > 0 THEN Input[call].close ELSE Carried.closed
  BY <1>1, <1>3 DEF Batch
<1>5. CASE read = 0
  <2>1. Lines(call) = <<>>
    BY <1>1, <1>2, <1>5, EmptySeq DEF Chain
  <2>2. Carried.head \o <<>> = Carried.head
    BY CarriedTyped, ConcatEmptySeq DEF SignerState, Chain
  <2> QED BY <1>1, <1>4, <1>5, <2>1, <2>2
<1>6. CASE read # 0
  <2>1. read > 0 /\ Lines(call) # <<>>
    BY <1>1, <1>2, <1>6, EmptySeq DEF Shape
  <2>2. ~Carried.closed
    BY <1>1, <2>1 DEF Batch
  <2>3. \A i \in DOMAIN Lines(call) : Lines(call)[i] \notin {BadLine} \cup Unsignable
    BY <1>1, LinesTyped DEF Batch
  <2>4. /\ (Carried.head)' = Carried.head \o Lines(call)
        /\ (Carried.closed)' = (Input[call].close /\ Lines(call) # <<>>)
    BY <1>1, <1>4, <2>1, LinesTyped
  <2>5. Log!Commit(call)
    BY <2>2, <2>3, <2>4 DEF Log!Commit, Log!Lines, Lines
  <2> QED BY <1>1, <2>5
<1> QED BY <1>5, <1>6

LEMMA StepsMap ==
  ASSUME IInv, [Next]_vars
  PROVE  (\E c \in Calls : Log!Commit(c)) \/ UNCHANGED <<Carried.head, Carried.closed>>
<1>1. CASE Save
  BY <1>1, SaveCommits
<1>2. CASE UNCHANGED state
  BY <1>2, CarriedKept
<1>3. Save \/ UNCHANGED state
  BY DEF Next, Start, ReadLine, LastLine, Refuse, Stop, Tear, Abandon, vars
<1> QED BY <1>1, <1>2, <1>3

(* Through refusals, failures, kills and restarts, the chain carried on    *)
(* grows by whole batches of signable lines and stops at a close           *)
(* (StreamSigner.resume, write_state, _records).                           *)
THEOREM CarriedIsOneLog == Spec => GrowsByBatches
<1>1. Init => Log!AInit
  BY DEF Init, Log!AInit, Carried, Resumed, Fresh, Log!ChainSeed, ChainSeed
<1>2. IInv /\ [Next]_vars
        => [\E c \in Calls : Log!Commit(c)]_<<Carried.head, Carried.closed>>
  BY StepsMap
<1> QED BY <1>1, <1>2, RunsStandOnTheState, PTL DEF Spec, GrowsByBatches, Log!ASpec

-----------------------------------------------------------------------------
(* What the records written to the output say of the state, and of one     *)
(* another.                                                                *)

Describes(s, lines, lost) ==
  \A n \in 0 .. s.next - 1 :
    \/ n \in lost
    \/ \E i \in DOMAIN lines :
         lines[i].seq = n /\ lines[i].chain = SubSeq(s.head, 1, n + 2)

Attests(s, lines, lost) ==
  s.next > 0 =>
    \/ s.next - 1 \in lost
    \/ \E i \in DOMAIN lines :
         lines[i].sig = Signature(Key, SigningInput(Stream, s.next - 1, s.head,
                                                    lines[i].final))

Described ==
  /\ Describes(Carried, written, glued)
  /\ Attests(Carried, written, glued)
  /\ call # NoCall => Describes(signer, written, glued)
  /\ call # NoCall /\ pc = "save" => Attests(signer, written, glued)

Own(i) == written[i].try = Try

Numbered ==
  /\ \A t \in saved : t[2] <= tries[t[1]]
  /\ \A i \in DOMAIN written : written[i].try[2] <= tries[written[i].try[1]]
  /\ \A i \in DOMAIN written : written[i].try \in saved =>
       written[i].seq < Carried.next /\ (written[i].final => Carried.closed)
  /\ PositionsNotReissued /\ ClosedForGood
  /\ call # NoCall =>
       /\ Try \notin saved
       /\ \A i \in DOMAIN written : Own(i) =>
            written[i].seq < signer.next /\ (written[i].final => signer.closed)
       /\ \A i, j \in DOMAIN written : i < j /\ Own(i) =>
            written[i].seq # written[j].seq /\ ~written[i].final

LEMMA AppendedLine ==
  ASSUME NEW lines \in Seq(Line), NEW line \in Line
  PROVE  /\ Append(lines, line) \in Seq(Line) /\ Len(lines) \in Nat
         /\ DOMAIN lines = 1 .. Len(lines)
         /\ DOMAIN Append(lines, line) = 1 .. Len(lines) + 1
         /\ \A i \in DOMAIN lines : Append(lines, line)[i] = lines[i]
         /\ Append(lines, line)[Len(lines) + 1] = line
BY AppendProperties, LenProperties

(* What a description covers, more output does not take away.              *)
LEMMA DescribedStill ==
  ASSUME NEW lines \in Seq(Line), NEW line \in Line, NEW lost, NEW n, NEW s,
         Describes(s, lines, lost), Attests(s, lines, lost)
  PROVE  /\ Describes(s, Append(lines, line), lost)
         /\ Attests(s, Append(lines, line), lost)
         /\ Describes(s, lines, lost \cup {n}) /\ Attests(s, lines, lost \cup {n})
<1> DEFINE more == Append(lines, line)
<1>1. \A i \in DOMAIN lines : i \in DOMAIN more /\ more[i] = lines[i]
  BY AppendedLine
<1> HIDE DEF more
<1>2. Describes(s, more, lost)
  BY <1>1 DEF Describes
<1>3. Attests(s, more, lost)
  BY <1>1 DEF Attests
<1>4. Describes(s, lines, lost \cup {n}) /\ Attests(s, lines, lost \cup {n})
  BY DEF Describes, Attests
<1> QED BY <1>2, <1>3, <1>4 DEF more

(* A signer one line further is described by that line.                    *)
LEMMA DescribedFurther ==
  ASSUME NEW s \in SignerState, NEW t \in SignerState, NEW body \in Link,
         NEW lines \in Seq(Line), NEW line \in Line, NEW lost,
         t.next = s.next + 1, t.head = Append(s.head, body),
         line.seq = s.next, line.chain = t.head,
         Describes(s, lines, lost)
  PROVE  /\ Describes(t, Append(lines, line), lost)
         /\ Describes(t, lines, lost \cup {s.next})
<1>1. /\ s.next \in Nat /\ s.head \in Seq(Link) /\ t.head \in Seq(Link)
      /\ Len(s.head) = s.next + 1 /\ Len(t.head) = s.next + 2
  BY DEF SignerState, Chain
<1>2. \A n \in 0 .. s.next - 1 : SubSeq(t.head, 1, n + 2) = SubSeq(s.head, 1, n + 2)
  <2>1. t.head = s.head \o <<body>> /\ <<body>> \in Seq(Link)
    BY <1>1, AppendIsConcat
  <2>2. ASSUME NEW n \in 0 .. s.next - 1
        PROVE  SubSeq(s.head \o <<body>>, 1, n + 2) = SubSeq(s.head, 1, n + 2)
    <3>1. 1 \in 1 .. Len(s.head) /\ n + 2 \in 1 .. Len(s.head)
      BY <1>1
    <3> QED BY <1>1, <2>1, <3>1, SubSeqOfConcat1
  <2> QED BY <2>1, <2>2
<1>3. SubSeq(t.head, 1, s.next + 2) = t.head
  BY <1>1, SubSeqFull
<1> DEFINE more == Append(lines, line)
<1>4. /\ \A i \in DOMAIN lines : i \in DOMAIN more /\ more[i] = lines[i]
      /\ Len(lines) + 1 \in DOMAIN more /\ more[Len(lines) + 1] = line
  BY AppendedLine
<1> HIDE DEF more
<1>5. Describes(t, more, lost)
  <2> SUFFICES ASSUME NEW n \in 0 .. t.next - 1, n \notin lost
               PROVE  \E i \in DOMAIN more :
                        more[i].seq = n /\ more[i].chain = SubSeq(t.head, 1, n + 2)
    BY DEF Describes
  <2>1. CASE n = s.next
    BY <1>3, <1>4, <2>1
  <2>2. CASE n # s.next
    <3>1. n \in 0 .. s.next - 1
      BY <1>1, <2>2
    <3>2. PICK i \in DOMAIN lines :
            lines[i].seq = n /\ lines[i].chain = SubSeq(s.head, 1, n + 2)
      BY <3>1 DEF Describes
    <3> QED BY <1>2, <1>4, <3>1, <3>2
  <2> QED BY <2>1, <2>2
<1>6. Describes(t, lines, lost \cup {s.next})
  <2> SUFFICES ASSUME NEW n \in 0 .. t.next - 1, n \notin lost, n # s.next
               PROVE  \E i \in DOMAIN lines :
                        lines[i].seq = n /\ lines[i].chain = SubSeq(t.head, 1, n + 2)
    BY DEF Describes
  <2>1. n \in 0 .. s.next - 1
    BY <1>1
  <2> QED BY <1>2, <2>1 DEF Describes
<1> QED BY <1>5, <1>6 DEF more

(* One line is signed: where it goes and what it carries.                  *)
LEMMA OneLine ==
  ASSUME Shape, Batch, call # NoCall, pc = "sign", read > 0,
         NEW attest \in BOOLEAN, NEW final \in BOOLEAN, SignPending(attest, final)
  PROVE  \E line \in Line :
           /\ line.seq = signer.next /\ line.try = Try
           /\ line.final = final /\ line.chain = signer'.head
           /\ attest => line.sig = Signature(Key, SigningInput(Stream, signer.next,
                                                    signer'.head, line.final))
           /\ \/ written' = Append(written, line) /\ glued' = glued
              \/ written' = written /\ glued' = glued \cup {signer.next}
<1> DEFINE line == Sidecar(Pending, attest, final)
<1>1. call \in Calls /\ Pending \in Link
  BY LinesTyped DEF Shape, Batch, Pending
<1>2. line \in Line
  BY <1>1, SidecarTyped
<1>3. signer' = Advanced(Pending, final) /\ Write(line)
  BY DEF SignPending
<1>4. /\ line.seq = signer.next /\ line.try = Try
      /\ line.final = final /\ line.chain = signer'.head
  BY <1>3 DEF Sidecar, Advanced
<1>5. attest => line.sig = Signature(Key, SigningInput(Stream, signer.next,
                                              signer'.head, line.final))
  BY <1>3 DEF Sidecar, Advanced, Attested
<1>6. \/ written' = Append(written, line) /\ glued' = glued
      \/ written' = written /\ glued' = glued \cup {signer.next}
  <2> HIDE DEF line
  <2> QED BY <1>3, <1>4 DEF Write
<1> QED BY <1>2, <1>4, <1>5, <1>6

(* After a line is signed the output still describes the state, and now    *)
(* describes the signer.                                                   *)
LEMMA SignedIsDescribed ==
  ASSUME IInv, Described, call # NoCall, pc = "sign", read > 0,
         NEW attest \in BOOLEAN, NEW final \in BOOLEAN, SignPending(attest, final)
  PROVE  /\ Describes(Carried, written', glued') /\ Attests(Carried, written', glued')
         /\ Describes(signer', written', glued')
         /\ attest => Attests(signer', written', glued')
<1> USE DEF IInv
<1>1. PICK line \in Line :
        /\ line.seq = signer.next /\ line.chain = signer'.head
        /\ attest => line.sig = Signature(Key, SigningInput(Stream, signer.next,
                                                 signer'.head, line.final))
        /\ \/ written' = Append(written, line) /\ glued' = glued
           \/ written' = written /\ glued' = glued \cup {signer.next}
  BY OneLine
<1>2. /\ signer \in SignerState /\ signer' \in SignerState
      /\ written \in Seq(Line)
      /\ Lines(call)[read] \in Link
      /\ signer'.next = signer.next + 1
      /\ signer'.head = Append(signer.head, Lines(call)[read])
  <2>1. call \in Calls /\ read \in 1 .. Len(Lines(call))
    BY LinesTyped DEF Shape, Batch
  <2> QED BY <2>1, Signs, LinesTyped DEF Shape
<1>3. Describes(Carried, written', glued') /\ Attests(Carried, written', glued')
  <2>1. Describes(Carried, written, glued) /\ Attests(Carried, written, glued)
    BY DEF Described
  <2>2. /\ Describes(Carried, Append(written, line), glued)
        /\ Attests(Carried, Append(written, line), glued)
        /\ Describes(Carried, written, glued \cup {signer.next})
        /\ Attests(Carried, written, glued \cup {signer.next})
    BY <1>2, <2>1, DescribedStill
  <2> QED BY <1>1, <2>2
<1>4. Describes(signer', written', glued')
  <2>1. /\ Describes(signer', Append(written, line), glued)
        /\ Describes(signer', written, glued \cup {signer.next})
    BY <1>1, <1>2, DescribedFurther DEF Described
  <2> QED BY <1>1, <2>1
<1>5. attest => Attests(signer', written', glued')
  <2> SUFFICES ASSUME attest
               PROVE  Attests(signer', written', glued')
    OBVIOUS
  <2>1. signer.next \in Nat /\ signer'.next - 1 = signer.next
    BY <1>2 DEF SignerState
  <2>2. CASE written' = Append(written, line)
    <3>1. Len(written) + 1 \in DOMAIN written' /\ written'[Len(written) + 1] = line
      BY <1>2, <2>2, AppendedLine
    <3> QED BY <1>1, <2>1, <3>1 DEF Attests
  <2>3. CASE glued' = glued \cup {signer.next}
    BY <2>1, <2>3 DEF Attests
  <2> QED BY <1>1, <2>2, <2>3
<1> QED BY <1>3, <1>4, <1>5

LEMMA DescribedStep ==
  ASSUME IInv, Described, [Next]_vars
  PROVE  Described'
<1> USE DEF IInv
<1>1. ASSUME NEW c \in Calls, Start(c)
      PROVE  Described'
  <2>1. /\ signer' = Carried /\ Carried' = Carried /\ pc' = "sign"
        /\ UNCHANGED <<written, glued>>
    BY <1>1, CarriedKept DEF Start, Carried
  <2> QED BY <2>1 DEF Described
<1>2. CASE ReadLine
  <2>1. call' = call /\ pc = "sign" /\ pc' = "sign" /\ call # NoCall /\ Carried' = Carried
    BY <1>2, CarriedKept DEF ReadLine, Signing
  <2>2. CASE read = 0
    BY <1>2, <2>1, <2>2 DEF ReadLine, Described
  <2>3. CASE read # 0
    <3>1. SignPending(FALSE, FALSE) /\ read > 0
      <4>1. SignPending(FALSE, FALSE)
        BY <1>2, <2>3, Zenon DEF ReadLine
      <4>2. read > 0
        BY <2>3 DEF Shape
      <4> QED BY <4>1, <4>2, Zenon
    <3>2. /\ Describes(Carried, written', glued') /\ Attests(Carried, written', glued')
          /\ Describes(signer', written', glued')
      BY <2>1, <3>1, SignedIsDescribed
    <3> QED BY <2>1, <3>2 DEF Described
  <2> QED BY <2>2, <2>3
<1>3. CASE LastLine
  <2>1. call' = call /\ pc = "sign" /\ call \in Calls /\ call # NoCall /\ Carried' = Carried
    BY <1>3, CarriedKept DEF LastLine, Signing, Shape
  <2>2. CASE read = 0
    <3>1. UNCHANGED <<signer, written, glued>>
      BY <1>3, <2>2 DEF LastLine
    <3>2. Attests(signer, written, glued)
      <4>1. signer.next = Carried.next /\ signer.head = Carried.head
        <5>1. Done = 0
          BY <2>1, <2>2 DEF Done
        <5>2. signer.next = Carried.next + 0 /\ Carried.next \in Nat
          BY <2>1, <5>1, CarriedTyped DEF Batch, SignerState
        <5>3. signer.head = Carried.head
          BY <2>1, <5>1, NothingSigned DEF Batch
        <5> QED BY <5>2, <5>3
      <4> QED BY <4>1 DEF Described, Attests
    <3> QED BY <2>1, <3>1, <3>2 DEF Described
  <2>3. CASE read # 0
    <3>1. SignPending(TRUE, Input[call].close) /\ read > 0 /\ Input[call].close \in BOOLEAN
      <4>1. SignPending(TRUE, Input[call].close)
        BY <1>3, <2>3, Zenon DEF LastLine
      <4>2. read > 0 /\ Input[call].close \in BOOLEAN
        BY <2>1, <2>3, LinesTyped DEF Shape
      <4> QED BY <4>1, <4>2, Zenon
    <3>2. /\ Describes(Carried, written', glued') /\ Attests(Carried, written', glued')
          /\ Describes(signer', written', glued') /\ Attests(signer', written', glued')
      BY <2>1, <3>1, SignedIsDescribed
    <3> QED BY <2>1, <3>2 DEF Described
  <2> QED BY <2>2, <2>3
<1>4. CASE Save
  <2>1. Carried' = signer /\ call' = NoCall /\ UNCHANGED <<written, glued>>
        /\ call # NoCall /\ pc = "save"
    BY <1>4, CarriedSaved DEF Save, Kept
  <2> QED BY <2>1 DEF Described
<1>5. CASE Refuse \/ Stop \/ Tear
  <2>1. Carried' = Carried /\ call' = NoCall /\ UNCHANGED <<written, glued>>
    BY <1>5, CarriedKept DEF Refuse, Stop, Tear, Abandon
  <2> QED BY <2>1 DEF Described
<1>6. CASE UNCHANGED vars
  BY <1>6, CarriedKept DEF vars, Described
<1> QED BY <1>1, <1>2, <1>3, <1>4, <1>5, <1>6 DEF Next

LEMMA NothingToDescribe ==
  ASSUME Init
  PROVE  Described
BY DEF Init, Described, Describes, Attests, Carried, Resumed, Fresh

(* The saved state describes records that were written to the output, but  *)
(* for what was written onto a torn line (JsonlWriter, cmd_sign).          *)
THEOREM StateIsInOutput == Spec => []StateDescribesOutput
<1>1. Init => Described
  BY NothingToDescribe
<1>2. IInv /\ Described /\ [Next]_vars => Described'
  BY DescribedStep
<1>3. Described => StateDescribesOutput
  BY DEF Described, Describes, StateDescribesOutput
<1> QED BY <1>1, <1>2, <1>3, RunsStandOnTheState, PTL DEF Spec

(* Every saved stretch is signed at its end, at any sampling rate          *)
(* (cmd_sign's look-ahead, R-05).                                          *)
THEOREM SavedEndsAttested == Spec => []SavedIsAttested
<1>1. Init => Described
  BY NothingToDescribe
<1>2. IInv /\ Described /\ [Next]_vars => Described'
  BY DescribedStep
<1>3. Described => SavedIsAttested
  BY DEF Described, Attests, SavedIsAttested
<1> QED BY <1>1, <1>2, <1>3, RunsStandOnTheState, PTL DEF Spec

-----------------------------------------------------------------------------
(* The positions of the output.                                            *)

LEMMA LinesWritten ==
  ASSUME Shape
  PROVE  \A i \in DOMAIN written :
           /\ i \in Nat /\ written[i].seq \in Nat /\ written[i].final \in BOOLEAN
           /\ written[i].try[1] \in Calls /\ written[i].try[2] \in Nat
<1> SUFFICES ASSUME NEW i \in DOMAIN written
             PROVE  i \in Nat /\ written[i] \in Line
  BY DEF Line
<1> QED BY ElementOfSeq, LenProperties DEF Shape

(* A run neither restarts below the state nor outlives its own close.      *)
LEMMA AheadOfTheState ==
  ASSUME IInv, call # NoCall
  PROVE  /\ Carried.next \in Nat /\ signer.next \in Nat
         /\ Carried.next <= signer.next
         /\ Carried.closed => signer.closed
<1> USE DEF IInv
<1>1. call \in Calls /\ Carried.next \in Nat /\ signer.next \in Nat /\ Done \in Nat
      /\ Carried.closed \in BOOLEAN
  BY CarriedTyped DEF Shape, SignerState, Done
<1>2. Carried.next <= signer.next
  BY <1>1 DEF Batch
<1>3. Carried.closed => signer.closed
  <2> SUFFICES ASSUME Carried.closed
               PROVE  signer.closed
    OBVIOUS
  <2>1. ~(Done > 0) /\ read \in Nat
    BY DEF Batch, Shape
  <2>2. ~(pc = "save" /\ read > 0)
    BY <2>1 DEF Done
  <2> QED BY <2>2 DEF Batch
<1> QED BY <1>1, <1>2, <1>3

(* A line that is signed takes a position nothing before it has taken.     *)
LEMMA SignedIsNumbered ==
  ASSUME IInv, Numbered, call # NoCall, pc = "sign", read > 0,
         NEW attest \in BOOLEAN, NEW final \in BOOLEAN, SignPending(attest, final),
         call' = call, UNCHANGED <<state, tries, saved>>
  PROVE  Numbered'
<1> USE DEF IInv
<1>1. PICK line \in Line :
        /\ line.seq = signer.next /\ line.try = Try /\ line.final = final
        /\ \/ written' = Append(written, line)
           \/ written' = written
  BY OneLine
<1>2. /\ signer'.next = signer.next + 1 /\ signer'.closed = final
      /\ signer.closed = FALSE /\ Carried.closed = FALSE
  <2>1. call \in Calls /\ read \in 1 .. Len(Lines(call))
    BY LinesTyped DEF Shape, Batch
  <2>2. ~signer.closed /\ signer'.next = signer.next + 1 /\ signer'.closed = final
    BY <2>1, Signs
  <2>3. ~Carried.closed
    BY BatchGrows
  <2> QED BY <2>2, <2>3, CarriedTyped DEF Shape, SignerState
<1>3. Carried.next <= signer.next /\ Carried.next \in Nat /\ signer.next \in Nat
  BY AheadOfTheState
<1>4. Try' = Try /\ Carried' = Carried /\ Try[2] = tries[Try[1]] /\ tries[Try[1]] \in Nat
  BY CarriedKept DEF Try, Shape
<1>5. CASE written' = written
  <2>1. \A i \in DOMAIN written : Own(i) =>
          written[i].seq < signer'.next /\ (written[i].final => signer'.closed)
    BY <1>2, <1>3, LinesWritten DEF Numbered
  <2> QED BY <1>4, <1>5, <2>1
       DEF Numbered, Own, PositionsNotReissued, ClosedForGood
<1>6. CASE written' = Append(written, line)
  <2> DEFINE new == Len(written) + 1
  <2>1. /\ Len(written) \in Nat /\ DOMAIN written = 1 .. Len(written)
        /\ DOMAIN written' = 1 .. new
        /\ \A i \in DOMAIN written : written'[i] = written[i]
        /\ written'[new] = line
    BY <1>6, AppendedLine DEF Shape
  <2>2. \A i \in DOMAIN written' : i # new => i \in DOMAIN written
    BY <2>1
  <2>3. \A i, j \in DOMAIN written' : i < j => i \in DOMAIN written
    BY <2>1
  <2> HIDE DEF new
  <2>4. \A i \in DOMAIN written :
          /\ written[i].try \in saved => written[i].seq < line.seq /\ ~written[i].final
          /\ Own(i) => written[i].seq < line.seq /\ ~written[i].final
    BY <1>1, <1>2, <1>3, LinesWritten DEF Numbered
  <2>5. Try \notin saved
    BY DEF Numbered
  <2>6. \A i \in DOMAIN written' : written'[i].try[2] <= tries[written'[i].try[1]]
    BY <1>1, <1>4, <2>1, <2>2 DEF Numbered
  <2>7. \A i \in DOMAIN written' : written'[i].try \in saved =>
          written'[i].seq < Carried.next /\ (written'[i].final => Carried.closed)
    BY <1>1, <2>1, <2>2, <2>5 DEF Numbered
  <2>8. \A i, j \in DOMAIN written' :
          i < j /\ written'[i].seq = written'[j].seq => written'[i].try \notin saved
    <3> SUFFICES ASSUME NEW i \in DOMAIN written', NEW j \in DOMAIN written', i < j,
                        written'[i].seq = written'[j].seq, written'[i].try \in saved
                 PROVE  FALSE
      OBVIOUS
    <3>1. i \in DOMAIN written /\ written'[i] = written[i] /\ written[i].seq \in Nat
      BY <2>1, <2>3, LinesWritten
    <3>2. CASE j = new
      BY <1>1, <1>3, <2>1, <2>4, <3>1, <3>2
    <3>3. CASE j # new
      BY <2>1, <2>2, <3>1, <3>3 DEF Numbered, PositionsNotReissued
    <3> QED BY <3>2, <3>3
  <2>9. \A i, j \in DOMAIN written' :
          i < j /\ written'[i].final => written'[i].try \notin saved
    BY <2>1, <2>3, <2>4
  <2>10. \A i \in DOMAIN written' : written'[i].try = Try =>
           written'[i].seq < signer'.next /\ (written'[i].final => signer'.closed)
    <3> SUFFICES ASSUME NEW i \in DOMAIN written', written'[i].try = Try
                 PROVE  /\ written'[i].seq < signer'.next
                        /\ written'[i].final => signer'.closed
      OBVIOUS
    <3>1. CASE i = new
      BY <1>1, <1>2, <1>3, <2>1, <3>1
    <3>2. CASE i # new
      BY <1>1, <1>2, <1>3, <2>1, <2>2, <2>4, <3>2, LinesWritten DEF Own
    <3> QED BY <3>1, <3>2
  <2>11. \A i, j \in DOMAIN written' : i < j /\ written'[i].try = Try =>
           written'[i].seq # written'[j].seq /\ ~written'[i].final
    <3> SUFFICES ASSUME NEW i \in DOMAIN written', NEW j \in DOMAIN written', i < j,
                        written'[i].try = Try
                 PROVE  written'[i].seq # written'[j].seq /\ ~written'[i].final
      OBVIOUS
    <3>1. /\ i \in DOMAIN written /\ written'[i] = written[i] /\ Own(i)
          /\ written[i].seq \in Nat /\ written[i].seq < line.seq /\ ~written[i].final
      BY <2>1, <2>3, <2>4, LinesWritten DEF Own
    <3>2. CASE j = new
      BY <1>1, <1>3, <2>1, <3>1, <3>2
    <3>3. CASE j # new
      BY <2>1, <2>2, <3>1, <3>3 DEF Numbered
    <3> QED BY <3>2, <3>3
  <2>12. PositionsNotReissued' /\ ClosedForGood'
    BY <2>8, <2>9 DEF PositionsNotReissued, ClosedForGood
  <2>13. \A t \in saved : t[2] <= tries[t[1]]
    BY DEF Numbered
  <2> QED BY <1>4, <2>5, <2>6, <2>7, <2>10, <2>11, <2>12, <2>13 DEF Numbered, Own
<1> QED BY <1>1, <1>5, <1>6

LEMMA NumberedStep ==
  ASSUME IInv, Numbered, [Next]_vars
  PROVE  Numbered'
<1> USE DEF IInv
<1>1. ASSUME NEW c \in Calls, Start(c)
      PROVE  Numbered'
  <2>1. /\ call' = c /\ Carried' = Carried /\ tries' = [tries EXCEPT ![c] = @ + 1]
        /\ UNCHANGED <<written, saved>>
    BY <1>1, CarriedKept DEF Start
  <2>2. /\ Try' = <<c, tries[c] + 1>>
        /\ \A d \in Calls : tries[d] \in Nat /\ tries'[d] \in Nat /\ tries[d] <= tries'[d]
    BY <2>1 DEF Try, Shape
  <2>3. \A t \in saved : t[1] \in Calls /\ t[2] \in Nat
    BY DEF Shape
  <2>4. Try' \notin saved /\ \A t \in saved : t[2] <= tries'[t[1]]
    BY <2>2, <2>3 DEF Numbered
  <2>5. \A i \in DOMAIN written :
          written[i].try # Try' /\ written[i].try[2] <= tries'[written[i].try[1]]
    BY <2>2, LinesWritten DEF Numbered
  <2> QED BY <2>1, <2>4, <2>5 DEF Numbered, Own, PositionsNotReissued, ClosedForGood
<1>2. CASE ReadLine
  <2>1. /\ call' = call /\ pc = "sign" /\ call # NoCall
        /\ UNCHANGED <<state, tries, saved>>
    BY <1>2 DEF ReadLine, Signing
  <2>2. CASE read = 0
    <3>1. UNCHANGED <<signer, written>> /\ Carried' = Carried /\ Try' = Try
      BY <1>2, <2>1, <2>2, CarriedKept DEF ReadLine, Try
    <3> QED BY <2>1, <3>1 DEF Numbered, Own, PositionsNotReissued, ClosedForGood
  <2>3. CASE read # 0
    <3>1. SignPending(FALSE, FALSE)
      BY <1>2, <2>3, Zenon DEF ReadLine
    <3>2. read > 0
      BY <2>3 DEF Shape
    <3> QED BY <2>1, <3>1, <3>2, SignedIsNumbered
  <2> QED BY <2>2, <2>3
<1>3. CASE LastLine
  <2>1. /\ call' = call /\ pc = "sign" /\ call # NoCall /\ call \in Calls
        /\ UNCHANGED <<state, tries, saved>>
    BY <1>3 DEF LastLine, Signing, Shape
  <2>2. CASE read = 0
    <3>1. UNCHANGED <<signer, written>> /\ Carried' = Carried /\ Try' = Try
      BY <1>3, <2>1, <2>2, CarriedKept DEF LastLine, Try
    <3> QED BY <2>1, <3>1 DEF Numbered, Own, PositionsNotReissued, ClosedForGood
  <2>3. CASE read # 0
    <3>1. SignPending(TRUE, Input[call].close)
      BY <1>3, <2>3, Zenon DEF LastLine
    <3>2. read > 0 /\ Input[call].close \in BOOLEAN
      BY <2>1, <2>3, LinesTyped DEF Shape
    <3> QED BY <2>1, <3>1, <3>2, SignedIsNumbered
  <2> QED BY <2>2, <2>3
<1>4. CASE Save
  <2>1. /\ Carried' = signer /\ call' = NoCall /\ call # NoCall /\ call \in Calls
        /\ saved' = saved \cup {Try} /\ UNCHANGED <<written, tries>>
    BY <1>4, CarriedSaved DEF Save, Kept, Shape
  <2>2. /\ Carried.next \in Nat /\ signer.next \in Nat /\ Carried.next <= signer.next
        /\ Carried.closed => signer.closed
    BY <2>1, AheadOfTheState
  <2>3. \A t \in saved' : t[2] <= tries[t[1]]
    BY <2>1 DEF Numbered, Try, Shape
  <2>4. \A i \in DOMAIN written : written[i].try \in saved' =>
          written[i].seq < signer.next /\ (written[i].final => signer.closed)
    BY <2>1, <2>2, LinesWritten DEF Numbered, Own
  <2>5. PositionsNotReissued' /\ ClosedForGood'
    BY <2>1 DEF Numbered, Own, PositionsNotReissued, ClosedForGood
  <2> QED BY <2>1, <2>3, <2>4, <2>5 DEF Numbered
<1>5. CASE Refuse \/ Stop \/ Tear
  <2>1. Carried' = Carried /\ call' = NoCall /\ UNCHANGED <<written, tries, saved>>
    BY <1>5, CarriedKept DEF Refuse, Stop, Tear, Abandon
  <2> QED BY <2>1 DEF Numbered, PositionsNotReissued, ClosedForGood
<1>6. CASE UNCHANGED vars
  <2>1. Carried' = Carried /\ Try' = Try /\ UNCHANGED <<call, signer, written, tries, saved>>
    BY <1>6, CarriedKept DEF vars, Try
  <2> QED BY <2>1 DEF Numbered, Own, PositionsNotReissued, ClosedForGood
<1> QED BY <1>1, <1>2, <1>3, <1>4, <1>5, <1>6 DEF Next

(* Once a run has saved its state, no later run signs one of its positions *)
(* again (StreamSigner.resume).                                            *)
THEOREM SavedPositionsAreFinal == Spec => []PositionsNotReissued
<1>1. Init => Numbered
  BY DEF Init, Numbered, PositionsNotReissued, ClosedForGood
<1>2. IInv /\ Numbered /\ [Next]_vars => Numbered'
  BY NumberedStep
<1>3. Numbered => PositionsNotReissued
  BY DEF Numbered
<1> QED BY <1>1, <1>2, <1>3, RunsStandOnTheState, PTL DEF Spec

(* Nothing is written after a record that closed the stream, once the run  *)
(* that wrote it has saved its state (StreamSigner.sign, E30).             *)
THEOREM ClosedStaysClosed == Spec => []ClosedForGood
<1>1. Init => Numbered
  BY DEF Init, Numbered, PositionsNotReissued, ClosedForGood
<1>2. IInv /\ Numbered /\ [Next]_vars => Numbered'
  BY NumberedStep
<1>3. Numbered => ClosedForGood
  BY DEF Numbered
<1> QED BY <1>1, <1>2, <1>3, RunsStandOnTheState, PTL DEF Spec

(* A saved state stands on attested lines of the output, through refusals, *)
(* kills and torn lines (cmd_sign, write_state).                           *)
THEOREM StateStands == Spec => []StateStandsOnOutput
  BY StateIsInOutput, SavedEndsAttested, PTL DEF StateStandsOnOutput

(* What a run that saved has written stays as it is                        *)
(* (StreamSigner.resume, sign).                                            *)
THEOREM SavedStays == Spec => []SavedIsFinal
  BY SavedPositionsAreFinal, ClosedStaysClosed, PTL DEF SavedIsFinal
=============================================================================
