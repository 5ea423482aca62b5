------------------------------ MODULE ScoreRuns ------------------------------
(***************************************************************************)
(* Runs of `cohaera score` that share a seen-stream ledger and an approval *)
(* ledger (src/cohaera/cli.py, and the locking, loading and saving of      *)
(* StreamLedger and ApprovalLedger in src/cohaera/evidence.py).            *)
(*                                                                         *)
(* Each run is a process: it locks and loads the ledgers it was given, in  *)
(* the order of the code, verifies and judges its input in memory, prints  *)
(* its sessions one by one, saves the ledgers, and exits.  It may stop at  *)
(* any point, by a crash or by an error, or hang.  Both ledgers are locked *)
(* and saved by the same code, so one action serves both.  A run's input   *)
(* is one stream as verification leaves it, judged by StreamLedger.        *)
(***************************************************************************)
EXTENDS Observation

CONSTANTS
  NoRun,            \* no run
  HaveFileLocking,  \* HAVE_FILE_LOCKING
  Buffered,         \* standard output is a file or a pipe, not a terminal
  MaxTries          \* bound of the model: how often each input is scored

ASSUME RunsAssumption ==
  /\ NoRun \notin Runs
  /\ HaveFileLocking \in BOOLEAN
  /\ Buffered \in BOOLEAN
  /\ MaxTries \in [Runs -> Nat]

VARIABLES
  file,     \* the ledgers on disk: name -> [generation, content]
  lock,     \* who holds each ledger's lock
  pc,       \* where each run is: <<step, ledger>>
  loaded,   \* per run: the ledgers in memory, name -> [generation, content]
  dirty,    \* per run: a nonce was spent in memory
  verdict,  \* per run: how its stream compared with the loaded ledger
  answers,  \* per run: what each session printed so far was told of its nonce
  shown,    \* per run: how many of its sessions have reached the output
  tries,    \* per run: how often it was started
  told,     \* history: the observations whose save has returned, in order
  printed,  \* history: the answers printed, by every attempt of every run
  raced     \* history: the ledgers two runs were saving at once

vars ==
  <<file, lock, pc, loaded, dirty, verdict, answers, shown, tries, told,
    printed, raced>>
disk   == <<file, told, raced>>
memory == <<loaded, dirty, verdict>>
output == <<answers, printed, shown>>

At(step)       == <<step, "">>
On(step, name) == <<step, name>>

(* A ledger whose file does not exist yet.                                 *)
Missing ==
  [name \in LedgerNames |->
     [generation |-> 0, content |-> IF name = "streams" THEN EmptyLedger ELSE {}]]

(* The step after the streams ledger, and then after the approval ledger.  *)
After(r, step, otherwise) ==
  IF Uses(r, "approvals") THEN On(step, "approvals") ELSE At(otherwise)

FirstOf(r, step, otherwise) ==
  IF Uses(r, "streams") THEN On(step, "streams") ELSE After(r, step, otherwise)

NextOf(r, step, name, otherwise) ==
  IF name = "streams" THEN After(r, step, otherwise) ELSE At(otherwise)

Ended == {At("done"), At("failed")}

Printed(r) == Len(answers[r])

Goto(r, there) == pc' = [pc EXCEPT ![r] = there]

(* The first n sessions have reached the output.                           *)
Flush(r, n) == shown' = [shown EXCEPT ![r] = IF n > @ THEN n ELSE @]

Released(r) ==
  [name \in LedgerNames |-> IF lock[name] = r THEN NoRun ELSE lock[name]]

(* A run that refuses to go on leaves its locks and writes nothing more.   *)
Leave(r, how) ==
  /\ Goto(r, At(how))
  /\ lock' = Released(r)

-----------------------------------------------------------------------------
(* Locking and loading.                                                    *)

Start(r) ==
  /\ pc[r] = At("idle") \/ pc[r] \in Ended
  /\ tries[r] < MaxTries[r]
  /\ Goto(r, FirstOf(r, "lock", "score"))
  /\ tries'   = [tries EXCEPT ![r] = @ + 1]
  /\ loaded'  = [loaded EXCEPT ![r] = Missing]
  /\ dirty'   = [dirty EXCEPT ![r] = FALSE]
  /\ verdict' = [verdict EXCEPT ![r] = "none"]
  /\ answers' = [answers EXCEPT ![r] = <<>>]
  /\ UNCHANGED <<disk, lock, printed, shown>>

(* Mutant of LockFree: the lock is not honoured.                           *)
LockIgnored(name) == TRUE

LockFree(name) == lock[name] = NoRun

(* _acquire_ledger_lock: one LOCK_NB attempt that succeeds.                *)
Lock(r, name) ==
  /\ pc[r] = On("lock", name)
  /\ HaveFileLocking => LockFree(name)
  /\ lock' = IF HaveFileLocking THEN [lock EXCEPT ![name] = r] ELSE lock
  /\ Goto(r, On("load", name))
  /\ UNCHANGED <<disk, memory, output, tries>>

(* Mutant of LockTimeout: a blocking flock.                                *)
WaitForever(r, name) == FALSE /\ UNCHANGED vars

(* The deadline passes while another run holds the lock.                   *)
LockTimeout(r, name) ==
  /\ pc[r] = On("lock", name)
  /\ HaveFileLocking /\ ~LockFree(name)
  /\ Leave(r, "failed")
  /\ UNCHANGED <<disk, memory, output, tries>>

(* A save replaces the file whole, so a load reads one save or another.    *)
Load(r, name) ==
  /\ pc[r] = On("load", name)
  /\ loaded' = [loaded EXCEPT ![r][name] = file[name]]
  /\ Goto(r, NextOf(r, "lock", name, "score"))
  /\ UNCHANGED <<disk, lock, dirty, verdict, output, tries>>

-----------------------------------------------------------------------------
(* Scoring in memory, and printing.                                        *)

Score(r) ==
  /\ pc[r] = At("score")
  /\ IF Uses(r, "streams")
       THEN LET ledger == loaded[r]["streams"].content IN
            /\ verdict' = [verdict EXCEPT ![r] = Judged(Batch[r], ledger).status]
            /\ loaded'  = [loaded EXCEPT ![r]["streams"].content =
                                            Scored(Batch[r], ledger)]
       ELSE UNCHANGED <<verdict, loaded>>
  /\ Goto(r, At("emit"))
  /\ UNCHANGED <<disk, lock, dirty, output, tries>>

(* ApprovalLedger.spend, of the nonces in memory.                          *)
Spend(r, nonce) ==
  IF Uses(r, "approvals") THEN Answer(nonce, loaded[r]["approvals"].content)
  ELSE NO_ANSWER

(* run_all and print of the next session: a check asks for the session's   *)
(* approval, which verifies it and spends its nonce.  Nothing flushes what *)
(* is printed: on a terminal each line goes out, otherwise only when the   *)
(* buffer is full.                                                         *)
Emit(r) ==
  /\ pc[r] = At("emit")
  /\ Printed(r) < Len(Batch[r].nonces)
  /\ LET n      == Printed(r) + 1
         nonce  == Batch[r].nonces[n]
         answer == Spend(r, nonce)
     IN /\ answers' = [answers EXCEPT ![r] = Append(@, answer)]
        /\ printed' = printed \cup {[run |-> r, try |-> tries[r], session |-> n,
                                     nonce |-> nonce, answer |-> answer]}
        /\ IF answer = UNSPENT
             THEN /\ loaded' = [loaded EXCEPT ![r]["approvals"].content = @ \cup {nonce}]
                  /\ dirty'  = [dirty EXCEPT ![r] = TRUE]
             ELSE UNCHANGED <<loaded, dirty>>
  /\ Flush(r, Printed(r) + 1) \/ (Buffered /\ UNCHANGED shown)
  /\ UNCHANGED <<disk, lock, pc, verdict, tries>>

(* Mutant of AllEmitted: the ledgers are saved before the last verdict.    *)
SomeEmitted(r) == Printed(r) > 0

AllEmitted(r) == Printed(r) = Len(Batch[r].nonces)

EmitEnd(r) ==
  /\ pc[r] = At("emit")
  /\ AllEmitted(r)
  /\ Goto(r, FirstOf(r, "check", "exit"))
  /\ UNCHANGED <<disk, lock, memory, output, tries>>

-----------------------------------------------------------------------------
(* Saving.  The approval ledger is written only if a nonce was spent.      *)

(* Mutant of NothingToSave: a spend does not mark the ledger as changed.   *)
NeverDirty(r, name) == name = "approvals"

NothingToSave(r, name) == name = "approvals" /\ ~dirty[r]

(* What the analyst was told by the run whose save of a ledger returns.    *)
Observed(r, name) ==
  [run |-> r, ledger |-> name,
   outcome |-> IF name = "streams" THEN verdict[r] ELSE answers[r]]

SaveNothing(r, name) ==
  /\ pc[r] = On("check", name)
  /\ NothingToSave(r, name)
  /\ told' = Append(told, Observed(r, name))
  /\ Goto(r, NextOf(r, "check", name, "exit"))
  /\ UNCHANGED <<file, raced, lock, memory, output, tries>>

(* Mutant of SameGeneration: the ledger is replaced unseen.                *)
AnyGeneration(r, name) == TRUE

SameGeneration(r, name) == file[name].generation = loaded[r][name].generation

SaveCheck(r, name) ==
  /\ pc[r] = On("check", name)
  /\ ~NothingToSave(r, name)
  /\ SameGeneration(r, name)
  /\ Goto(r, On("replace", name))
  /\ UNCHANGED <<disk, lock, memory, output, tries>>

SaveRefused(r, name) ==
  /\ pc[r] = On("check", name)
  /\ ~NothingToSave(r, name)
  /\ ~SameGeneration(r, name)
  /\ Leave(r, "failed")
  /\ Flush(r, Printed(r))
  /\ UNCHANGED <<disk, memory, answers, printed, tries>>

OnDisk(r, name) ==
  IF name = "streams" THEN AsDocument(loaded[r][name].content)
  ELSE loaded[r][name].content

(* The temporary file is whole and synced; os.replace puts it in place.    *)
SaveReplace(r, name) ==
  /\ pc[r] = On("replace", name)
  /\ file'   = [file EXCEPT ![name] =
                 [generation |-> loaded[r][name].generation + 1,
                  content    |-> OnDisk(r, name)]]
  /\ loaded' = [loaded EXCEPT ![r][name].generation = @ + 1]
  /\ dirty'  = IF name = "approvals" THEN [dirty EXCEPT ![r] = FALSE] ELSE dirty
  /\ told'   = Append(told, Observed(r, name))
  /\ raced'  = IF \E q \in Runs \ {r} : pc[q] = On("replace", name)
                 THEN raced \cup {name} ELSE raced
  /\ Goto(r, NextOf(r, "check", name, "exit"))
  /\ UNCHANGED <<lock, verdict, output, tries>>

(* The exit stack releases both locks, and the interpreter flushes.        *)
Exit(r) ==
  /\ pc[r] = At("exit")
  /\ Leave(r, "done")
  /\ Flush(r, Printed(r))
  /\ UNCHANGED <<disk, memory, answers, printed, tries>>

-----------------------------------------------------------------------------
(* Environment.  A crash, or an error anywhere in the run (an unreadable   *)
(* input, a full disk): the locks go with the process, and what a crash    *)
(* leaves in the buffer is lost.                                           *)
Alive(r) == pc[r] \notin Ended \cup {At("idle"), At("hung")}

Stop(r) ==
  /\ Alive(r)
  /\ Leave(r, "failed")
  /\ Flush(r, Printed(r)) \/ UNCHANGED shown
  /\ UNCHANGED <<disk, memory, answers, printed, tries>>

(* A run that never comes back, still holding its locks.                   *)
Hang(r) ==
  /\ Alive(r)
  /\ Goto(r, At("hung"))
  /\ UNCHANGED <<disk, lock, memory, output, tries>>

-----------------------------------------------------------------------------
Init ==
  /\ file    = Missing
  /\ lock    = [name \in LedgerNames |-> NoRun]
  /\ pc      = [r \in Runs |-> At("idle")]
  /\ loaded  = [r \in Runs |-> Missing]
  /\ dirty   = [r \in Runs |-> FALSE]
  /\ verdict = [r \in Runs |-> "none"]
  /\ answers = [r \in Runs |-> <<>>]
  /\ shown   = [r \in Runs |-> 0]
  /\ tries   = [r \in Runs |-> 0]
  /\ told    = <<>>
  /\ printed = {}
  /\ raced   = {}

Proceed(r) ==
  \/ \E name \in LedgerNames :
       \/ Lock(r, name)
       \/ LockTimeout(r, name)
       \/ Load(r, name)
       \/ SaveNothing(r, name)
       \/ SaveCheck(r, name)
       \/ SaveRefused(r, name)
       \/ SaveReplace(r, name)
  \/ Score(r)
  \/ Emit(r)
  \/ EmitEnd(r)
  \/ Exit(r)

Next == \E r \in Runs : Start(r) \/ Proceed(r) \/ Stop(r) \/ Hang(r)

Spec == Init /\ [][Next]_vars

(* A live process is scheduled: it takes its next step.                    *)
FairSpec == Spec /\ \A r \in Runs : WF_vars(Proceed(r))

-----------------------------------------------------------------------------
(* Properties.                                                             *)

Fresh == {SEEN_NEW, SEEN_ADVANCED, SEEN_DISCONTINUOUS}

ToldOf(name) == {i \in DOMAIN told : told[i].ledger = name}

BatchOf(i) == Batch[told[i].run]

(* Whatever the interleaving of the runs, the order their saves return in  *)
(* is an order they could have run in one at a time: each was judged       *)
(* against everything recorded before it, and nothing recorded is lost     *)
(* (StreamLedger.locked and ApprovalLedger.locked, held for the whole run).*)
Ledgers == INSTANCE ObservationLedger
             WITH streams   <- file["streams"].content,
                  approvals <- file["approvals"].content

Serialised == Ledgers!ASpec

(* No two observations that reached the ledger both call the same          *)
(* positions of a stream fresh: one of them sees the replay or the fork.   *)
(* A refused first one, or one past max_ledger_streams, leaves no trace to *)
(* see.  Without locks the generation guard of save() still sees to it,    *)
(* unless two runs were between its check and its replace at once.         *)
FreshOnce ==
  "streams" \notin raced =>
  \A i, j \in ToldOf("streams") :
    (/\ i < j
     /\ BatchOf(i).stream = BatchOf(j).stream
     /\ BatchOf(i).admit
     /\ Known(file["streams"].content, BatchOf(i).stream)
     /\ {told[i].outcome, told[j].outcome} \subseteq Fresh)
      => Positions(BatchOf(i)) \cap Positions(BatchOf(j)) = {}

(* No nonce is told unspent twice, by one run or by two, once the answers  *)
(* have reached the ledger; without locks, unless two saves overlapped.    *)
NonceOnce ==
  "approvals" \notin raced =>
  \A i, j \in ToldOf("approvals") :
    \A m \in DOMAIN told[i].outcome, n \in DOMAIN told[j].outcome :
      (/\ told[i].outcome[m] = UNSPENT
       /\ told[j].outcome[n] = UNSPENT
       /\ BatchOf(i).nonces[m] = BatchOf(j).nonces[n])
        => i = j /\ m = n

(* The guard of save() alone keeps both ledgers' answers single: no record *)
(* is called fresh twice and no nonce unspent twice, short of two saves    *)
(* that overlapped.                                                        *)
FreshAndNonceOnce == FreshOnce /\ NonceOnce

(* Nothing is recorded that no analyst saw first: the position a ledger    *)
(* stands at was shown in full by a run that scored it, and a spent nonce  *)
(* by a session that was told so (_score saves after emission).            *)
ReportedBeforeRecorded ==
  /\ \A s \in DOMAIN file["streams"].content.entries :
       \E r \in Runs :
         /\ Batch[r].stream = s
         /\ LastOf(Batch[r]) = file["streams"].content.entries[s].last
         /\ shown[r] = Len(Batch[r].nonces)
  /\ \A nonce \in file["approvals"].content :
       \E p \in printed :
         p.nonce = nonce /\ p.answer = UNSPENT /\ p.session <= shown[p.run]

(* A run comes to an end of its own accord, whatever the others do: a peer *)
(* that hangs with the lock delays it until the deadline and no longer.    *)
EveryRunEnds == \A r \in Runs : Alive(r) ~> ~Alive(r)

-----------------------------------------------------------------------------
(* Statements of the repository that the model refutes (README, section 6).*)

(* "a run that crashes after checking cannot hand the same nonce back on   *)
(* the next run" (ApprovalLedger.spend): no two answers printed by any     *)
(* attempts of any runs call one nonce unspent.                            *)
NeverHandedBack ==
  \A p, q \in printed :
    (p.nonce = q.nonce /\ p.answer = UNSPENT /\ q.answer = UNSPENT) => p = q

(* A replay "occupies sequence positions already scored" (SEEN_REPLAYED):  *)
(* an earlier observation recorded a stretch that overlaps it.             *)
ReplayMeansScored ==
  \A j \in ToldOf("streams") :
    told[j].outcome = SEEN_REPLAYED =>
      \E i \in ToldOf("streams") :
        /\ i < j
        /\ BatchOf(i).stream = BatchOf(j).stream
        /\ told[i].outcome \in Fresh
        /\ Positions(BatchOf(i)) \cap Positions(BatchOf(j)) # {}
=============================================================================
