---------------------------- MODULE SharedSigner ----------------------------
(***************************************************************************)
(* Collectors as a program that embeds cohaera.emit builds them: processes *)
(* whose threads share one StreamSigner (src/cohaera/emit/stream.py), one  *)
(* output (JsonlWriter of emit/writer.py) and one state file (write_state).*)
(* sign() and state() run under the signer's lock; what a thread does      *)
(* between them - the write, the replace of the state file - does not.     *)
(* Processes share the files alone, and nothing locks those.               *)
(*                                                                         *)
(* SignRuns has the one-threaded command, its batches and its torn lines.  *)
(***************************************************************************)
EXTENDS Naturals, Sequences, FiniteSets, SequencesExt

CONSTANTS
  Workers,    \* threads
  Processes,  \* collectors of one stream under one key
  Home,       \* [Workers -> Processes]
  MaxRecords, \* bound of the model, by thread: how many records it signs
  MaxLives    \* bound of the model, by process: how often it is started

SharingAssumption ==
  /\ Home \in [Workers -> Processes]
  /\ MaxRecords \in [Workers -> Nat]
  /\ MaxLives \in [Processes -> Nat]

VARIABLES
  signer,   \* by process: <<>>, or its <<[next, head, closed]>>
  at,       \* by thread: "idle", "signed", "written" or "taken"
  held,     \* by thread: <<>>, or what it has in hand: <<record>>, <<state>>
  output,   \* the records in the file, in order
  file,     \* the state file: <<>> or <<signer>>
  signed,   \* by thread: how many records it has signed
  lives,    \* by process: how often it was started
  apart     \* history: no two processes have lived at once

sharingVars == <<signer, at, held, output, file, signed, lives, apart>>

Lives(p) == signer[p] # <<>>
Mine(w)  == signer[Home[w]][1]

-----------------------------------------------------------------------------
(* StreamSigner.  A head is the sequence of the bodies it commits to.      *)

Fresh == [next |-> 0, head |-> <<>>, closed |-> FALSE]

Resumed(state) == IF state = <<>> THEN Fresh ELSE state[1]

Body(w) == <<w, signed[w]>>

NextRecord(w, s, final) ==
  [seq |-> s.next, prev |-> s.head, chain |-> Append(s.head, Body(w)),
   final |-> final, life |-> <<Home[w], lives[Home[w]]>>]

MaySign(s) == ~s.closed

(* Mutant of Seen: the position is read outside the lock, and another      *)
(* thread may have signed there since.                                     *)
SeenUnlocked(w) ==
  {Mine(w)} \cup
  {[next |-> held[v][1].seq, head |-> held[v][1].prev, closed |-> FALSE] :
     v \in {u \in Workers : Home[u] = Home[w] /\ at[u] = "signed"}}

(* What a thread may find in the signer: under the lock, the signer.       *)
Seen(w) == {Mine(w)}

(* state(), under the lock.                                                *)
Taken(w) == Mine(w)

-----------------------------------------------------------------------------
(* A collector is started: resume(read_state()), or a new signer.          *)
Start(p) ==
  /\ ~Lives(p) /\ lives[p] < MaxLives[p]
  /\ signer' = [signer EXCEPT ![p] = <<Resumed(file)>>]
  /\ lives'  = [lives EXCEPT ![p] = @ + 1]
  /\ apart'  = (apart /\ \A q \in Processes : ~Lives(q))
  /\ UNCHANGED <<at, held, output, file, signed>>

(* sign().  A closed signer raises, which changes nothing.                 *)
Sign(w, final) ==
  /\ Lives(Home[w]) /\ at[w] = "idle" /\ signed[w] < MaxRecords[w]
  /\ \E s \in Seen(w) :
       /\ MaySign(s)
       /\ held'   = [held EXCEPT ![w] = <<NextRecord(w, s, final)>>]
       /\ signer' = [signer EXCEPT ![Home[w]] =
                       <<[next |-> s.next + 1, head |-> Append(s.head, Body(w)),
                          closed |-> final]>>]
  /\ at'     = [at EXCEPT ![w] = "signed"]
  /\ signed' = [signed EXCEPT ![w] = @ + 1]
  /\ UNCHANGED <<output, file, lives, apart>>

(* JsonlWriter.write, flushed.                                             *)
Write(w) ==
  /\ at[w] = "signed"
  /\ output' = Append(output, held[w][1])
  /\ at'     = [at EXCEPT ![w] = "written"]
  /\ UNCHANGED <<signer, held, file, signed, lives, apart>>

(* The thread has written, and asks for the state to persist.              *)
TakeState(w) ==
  /\ at[w] = "written"
  /\ held' = [held EXCEPT ![w] = <<Taken(w)>>]
  /\ at'   = [at EXCEPT ![w] = "taken"]
  /\ UNCHANGED <<signer, output, file, signed, lives, apart>>

(* write_state: os.replace.                                                *)
WriteState(w) ==
  /\ at[w] = "taken"
  /\ file' = held[w]
  /\ held' = [held EXCEPT ![w] = <<>>]
  /\ at'   = [at EXCEPT ![w] = "idle"]
  /\ UNCHANGED <<signer, output, signed, lives, apart>>

(* Environment: the process is killed, whatever its threads are doing.     *)
Kill(p) ==
  /\ Lives(p)
  /\ signer' = [signer EXCEPT ![p] = <<>>]
  /\ at'     = [w \in Workers |-> IF Home[w] = p THEN "idle" ELSE at[w]]
  /\ held'   = [w \in Workers |-> IF Home[w] = p THEN <<>> ELSE held[w]]
  /\ UNCHANGED <<output, file, signed, lives, apart>>

-----------------------------------------------------------------------------
SharingInit ==
  /\ signer = [p \in Processes |-> <<>>]
  /\ at     = [w \in Workers |-> "idle"]
  /\ held   = [w \in Workers |-> <<>>]
  /\ output = <<>>
  /\ file   = <<>>
  /\ signed = [w \in Workers |-> 0]
  /\ lives  = [p \in Processes |-> 0]
  /\ apart  = TRUE

SharingNext ==
  \/ \E p \in Processes : Start(p)
  \/ \E w \in Workers, final \in BOOLEAN : Sign(w, final)
  \/ \E w \in Workers : Write(w)
  \/ \E w \in Workers : TakeState(w)
  \/ \E w \in Workers : WriteState(w)
  \/ \E p \in Processes : Kill(p)

SharingSpec == SharingInit /\ [][SharingNext]_sharingVars

-----------------------------------------------------------------------------
(* Properties.                                                             *)

(* The records one start of a collector has made, written or in hand.      *)
MadeIn(life) ==
  {r \in Range(output) \cup
         {held[w][1] : w \in {v \in Workers : at[v] = "signed"}} : r.life = life}

AllLives == UNION {{<<p, n>> : n \in 1 .. lives[p]} : p \in Processes}

(* "Two threads racing for a sequence number would produce two records at  *)
(* one position" (StreamSigner): they do not, and each record is chained   *)
(* onto the one before it, whichever thread signed it, whatever order they *)
(* are written in and whatever other collectors do to the shared files.    *)
OneLineOfRecords ==
  \A life \in AllLives :
    LET made == MadeIn(life) IN
    /\ \A r, s \in made : r.seq = s.seq => r = s
    /\ \A r, s \in made : s.seq = r.seq + 1 => s.prev = r.chain
    /\ \A i, j \in DOMAIN output :
         output[i].life = life /\ output[i] = output[j] => i = j

(* "This signer refuses to sign anything further" (sign, E30): of the      *)
(* records of one start, the closing one has the last position, though     *)
(* another thread may write its own after it.                              *)
CloseIsLast ==
  \A life \in AllLives : \A r, s \in MadeIn(life) : r.final => s.seq <= r.seq

(* However late a thread persists the state it took, what a restart finds  *)
(* is a point of the line the collector is on, with the position and the   *)
(* head of one moment, so that it can be resumed (StreamSigner.resume);    *)
(* two collectors at once is what it takes to break that.                  *)
StateIsAPointOfTheLine ==
  file # <<>> =>
    /\ Len(file[1].head) = file[1].next
    /\ apart => \A p \in Processes :
                  Lives(p) => IsPrefix(file[1].head, signer[p][1].head)

(* The three together.                                                     *)
OneLineWhoeverSigns == OneLineOfRecords /\ CloseIsLast /\ StateIsAPointOfTheLine

-----------------------------------------------------------------------------
(* Statements of the repository that the model refutes (README, section 6).*)

(* "The signer state persisted after `write` returned describes records    *)
(* that reached the kernel" (src/cohaera/emit/writer.py:18).               *)
StateDescribesWritten ==
  apart /\ file # <<>> =>
    \A n \in 0 .. file[1].next - 1 : \E i \in DOMAIN output : output[i].seq = n

(* "A restarted collector must continue: same stream id, next sequence,    *)
(* the chain head it left off at" (src/cohaera/emit/stream.py:22): a       *)
(* collector whose every thread has persisted the state after its write,   *)
(* as the module asks, is resumed where it is.                             *)
PersistedIsCurrent ==
  \A p \in Processes :
    /\ apart /\ Lives(p) /\ file # <<>>
    /\ \A w \in Workers : at[w] = "idle"
    => file = signer[p]
=============================================================================
