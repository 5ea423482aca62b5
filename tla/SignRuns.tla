------------------------------ MODULE SignRuns ------------------------------
(***************************************************************************)
(* The collector: runs of `cohaera sign`, one after another, that sign one *)
(* stream into one file and carry the chain on in a state file             *)
(* (cmd_sign of src/cohaera/emit/command.py, StreamSigner and write_state  *)
(* of emit/stream.py, JsonlWriter of emit/writer.py).                      *)
(*                                                                         *)
(* A run may be refused, fail or be killed at any point, in the middle of  *)
(* a line included, and started again.  sign() is one step: it runs under  *)
(* the signer's lock.                                                      *)
(***************************************************************************)
EXTENDS Sidecar

CONSTANTS
  Stream,      \* --stream-id
  Key,         \* the key id of --key
  SignEvery,   \* --sign-every
  Calls,       \* the invocations of `cohaera sign`
  NoCall,      \* none is running
  Input,       \* [Calls -> Inputs]: the lines of --in, --close and --append
  BadLine,     \* a line that is not a JSON object
  Unsignable,  \* records that sign() refuses: already signed, not strict JSON
  MaxTries     \* bound of the model: how often each call is started

Inputs == [lines : Seq(Bodies \cup {BadLine}), close : BOOLEAN, append : BOOLEAN]

ASSUME SignAssumption ==
  /\ Stream \in Streams
  /\ Key \in Keys
  /\ SignEvery \in Nat \ {0}
  /\ NoCall \notin Calls
  /\ Input \in [Calls -> Inputs]
  /\ BadLine \notin Bodies
  /\ Unsignable \subseteq Bodies
  /\ MaxTries \in [Calls -> Nat]

VARIABLES
  call,      \* the run in progress
  pc,        \* "sign" or "save"
  signer,    \* its StreamSigner: [next, head, closed]
  read,      \* lines it has read; the last of them is held back (`pending`)
  state,     \* the state file: <<>> or <<signer>>
  torn,      \* the output ends in a line without its end
  tries,     \* how often each call was started
  written,   \* history: the lines written whole, in order, with their try
  glued,     \* history: the positions written onto a torn line
  saved      \* history: the tries whose state was saved

vars == <<call, pc, signer, read, state, torn, tries, written, glued, saved>>

Lines(c) == Input[c].lines

Try == <<call, tries[call]>>

-----------------------------------------------------------------------------
(* StreamSigner.                                                           *)

Fresh == [next |-> 0, head |-> ChainSeed(Stream, Key), closed |-> FALSE]

(* Mutant of Resumed: a restarted collector begins again at zero.          *)
RestartedAtZero(file) == Fresh

Resumed(file) == IF file = <<>> THEN Fresh ELSE file[1]

(* Mutant of Attested: the sampling rate alone decides.                    *)
AttestedAtRate(seq, attest, final) == seq % SignEvery = 0

Attested(seq, attest, final) == final \/ attest \/ seq % SignEvery = 0

(* The sidecar sign() attaches to a body.                                  *)
Sidecar(body, attest, final) ==
  LET chain == ChainStep(signer.head, body) IN
  [seq |-> signer.next, body |-> body, prev |-> signer.head, chain |-> chain,
   final |-> final, try |-> Try,
   sig |-> IF Attested(signer.next, attest, final)
             THEN Signature(Key, SigningInput(Stream, signer.next, chain, final))
             ELSE NoSig]

Advanced(body, final) ==
  [next |-> signer.next + 1, head |-> ChainStep(signer.head, body), closed |-> final]

Pending == Lines(call)[read]

MaySign == ~signer.closed /\ Pending \notin Unsignable

-----------------------------------------------------------------------------
(* JsonlWriter.write, flushed.  A line appended to a torn one is not a     *)
(* line a reader can parse.                                                *)
Write(record) ==
  /\ torn' = FALSE
  /\ IF torn
       THEN glued' = glued \cup {record.seq} /\ UNCHANGED written
       ELSE written' = Append(written, record) /\ UNCHANGED glued

SignPending(attest, final) ==
  /\ MaySign
  /\ signer' = Advanced(Pending, final)
  /\ Write(Sidecar(Pending, attest, final))

-----------------------------------------------------------------------------
(* cmd_sign.                                                               *)

(* The signer is resumed, and the output opened to append or emptied.      *)
Start(c) ==
  /\ call = NoCall
  /\ tries[c] < MaxTries[c]
  /\ call'   = c
  /\ pc'     = "sign"
  /\ signer' = Resumed(state)
  /\ read'   = 0
  /\ torn'   = (torn /\ Input[c].append)
  /\ tries'  = [tries EXCEPT ![c] = @ + 1]
  /\ UNCHANGED <<state, written, glued, saved>>

Signing == call # NoCall /\ pc = "sign"
AtEnd   == read = Len(Lines(call))

(* Mutant of Readable: a bad line is passed over as if it were a record.   *)
ReadableOrNot(line) == TRUE

Readable(line) == line # BadLine

(* The line held back is signed: there is no next line, or it parses.      *)
PendingIsDue == read > 0 /\ (~AtEnd => Readable(Lines(call)[read + 1]))

(* The next line is read, and the one held back is signed and written.     *)
ReadLine ==
  /\ Signing /\ ~AtEnd
  /\ Readable(Lines(call)[read + 1])
  /\ IF read = 0 THEN UNCHANGED <<signer, torn, written, glued>>
                 ELSE SignPending(FALSE, FALSE)
  /\ read' = read + 1
  /\ UNCHANGED <<call, pc, state, tries, saved>>

(* There is no next line: the one held back is the last.                   *)
LastLine ==
  /\ Signing /\ AtEnd
  /\ IF read = 0 THEN UNCHANGED <<signer, torn, written, glued>>
                 ELSE SignPending(TRUE, Input[call].close)
  /\ pc' = "save"
  /\ UNCHANGED <<call, read, state, tries, saved>>

(* Mutant of Abandon: the state is saved whatever happened.                *)
SaveAnyway(reached) == call' = NoCall /\ state' = <<reached>>

Abandon(reached) == call' = NoCall /\ UNCHANGED state

(* A bad line, or a record that cannot be signed, ends the run.            *)
Refuse ==
  /\ Signing
  /\ \/ ~AtEnd /\ ~Readable(Lines(call)[read + 1])
     \/ PendingIsDue /\ ~MaySign
  /\ Abandon(signer)
  /\ UNCHANGED <<pc, signer, read, torn, tries, written, glued, saved>>

(* Mutant of Kept: that the stream was closed is not in the state.         *)
KeptOpen(reached) == [reached EXCEPT !.closed = FALSE]

Kept(reached) == reached

Save ==
  /\ call # NoCall /\ pc = "save"
  /\ state' = <<Kept(signer)>>
  /\ saved' = saved \cup {Try}
  /\ call'  = NoCall
  /\ UNCHANGED <<pc, signer, read, torn, tries, written, glued>>

-----------------------------------------------------------------------------
(* Environment.  The run is killed, or fails between two lines.            *)
Stop ==
  /\ call # NoCall
  /\ Abandon(signer)
  /\ UNCHANGED <<pc, signer, read, torn, tries, written, glued, saved>>

(* It is killed, or the disk fills up, in the middle of a line.            *)
Tear ==
  /\ Signing /\ PendingIsDue /\ MaySign
  /\ torn' = TRUE
  /\ Abandon(Advanced(Pending, AtEnd /\ Input[call].close))
  /\ UNCHANGED <<pc, signer, read, tries, written, glued, saved>>

-----------------------------------------------------------------------------
Init ==
  /\ call    = NoCall
  /\ pc      = "sign"
  /\ signer  = Fresh
  /\ read    = 0
  /\ state   = <<>>
  /\ torn    = FALSE
  /\ tries   = [c \in Calls |-> 0]
  /\ written = <<>>
  /\ glued   = {}
  /\ saved   = {}

Next ==
  \/ \E c \in Calls : Start(c)
  \/ ReadLine
  \/ LastLine
  \/ Refuse
  \/ Save
  \/ Stop
  \/ Tear

Spec == Init /\ [][Next]_vars

-----------------------------------------------------------------------------
(* Properties.                                                             *)

(* What the state file says of the stream.                                 *)
Carried == Resumed(state)

(* Through every refusal, failure and restart, the chain that is carried   *)
(* on grows by whole batches and stops at a close (resume, write_state,    *)
(* and _records "refusing rather than skipping").                          *)
Log == INSTANCE SignedLog WITH head <- Carried.head, closed <- Carried.closed

GrowsByBatches == Log!ASpec

(* The state "describes records that reached the kernel" (JsonlWriter):    *)
(* each position it counts was written, with the body its head commits to, *)
(* unless it was written onto a torn line.                                 *)
StateDescribesOutput ==
  \A n \in 0 .. Carried.next - 1 :
    \/ n \in glued
    \/ \E i \in DOMAIN written :
         /\ written[i].seq = n
         /\ written[i].chain = SubSeq(Carried.head, 1, n + 2)

(* No two records are written at one position unless the run that wrote    *)
(* the earlier one never saved its state: a resumed signer does not fork   *)
(* or replay its own stream (StreamSigner.resume).                         *)
PositionsNotReissued ==
  \A i, j \in DOMAIN written :
    i < j /\ written[i].seq = written[j].seq => written[i].try \notin saved

(* Nothing is written after a record that closed the stream, once the      *)
(* state of the run that wrote it was saved (StreamSigner.sign, E30).      *)
ClosedForGood ==
  \A i, j \in DOMAIN written :
    i < j /\ written[i].final => written[i].try \notin saved

(* Every saved stretch is attested to its end, at any sampling rate: the   *)
(* last record the state counts carries a signature over the saved head    *)
(* (R-05: "verified_complete is unreachable otherwise").                   *)
SavedIsAttested ==
  Carried.next > 0 =>
    \/ Carried.next - 1 \in glued
    \/ \E i \in DOMAIN written :
         written[i].sig = Signature(Key, SigningInput(Stream, Carried.next - 1,
                                      Carried.head, written[i].final))

(* Whatever run failed and wherever it was killed, the state file stands   *)
(* on lines that were written to the output, the last of them attested.    *)
StateStandsOnOutput == StateDescribesOutput /\ SavedIsAttested

(* What a run that saved has written is final: no later run numbers those  *)
(* positions again, and none writes past a close among them.               *)
SavedIsFinal == PositionsNotReissued /\ ClosedForGood
=============================================================================
