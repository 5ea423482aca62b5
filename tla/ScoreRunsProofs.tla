-------------------------- MODULE ScoreRunsProofs --------------------------
(***************************************************************************)
(* What runs that share ledgers do to each other, for any number of runs   *)
(* and any interleaving of them.                                           *)
(*                                                                         *)
(* The invariant says, per run and by where it is, that a ledger in memory *)
(* whose generation is still the file's is the file, but for what this run *)
(* itself has folded in, and that its answers so far were given in turn.   *)
(* The generation guard of save() alone then keeps every answer single;    *)
(* where file locking is honoured, a loaded generation is always the       *)
(* file's, and the runs implement ObservationLedger: their saves take      *)
(* effect one whole run at a time.  Last, what is on record was shown.     *)
(***************************************************************************)
EXTENDS ScoreRuns, SequenceTheorems, TLAPS

Step(r)   == pc[r][1]
Ledger(r) == pc[r][2]

Locking == {"lock", "load"}
Saving  == {"check", "replace"}
Working == Locking \cup Saving \cup {"score", "emit", "exit"}
Resting == {"idle", "done", "failed", "hung"}

Shape ==
  /\ file = [name \in LedgerNames |-> file[name]]
  /\ \A name \in LedgerNames :
       /\ file[name] = [generation |-> file[name].generation,
                        content    |-> file[name].content]
       /\ file[name].generation \in Nat
  /\ lock \in [LedgerNames -> Runs \cup {NoRun}]
  /\ pc \in [Runs -> (Working \cup Resting) \X (LedgerNames \cup {""})]
  /\ loaded = [r \in Runs |-> loaded[r]]
  /\ \A r \in Runs : loaded[r] = [name \in LedgerNames |-> loaded[r][name]]
  /\ \A r \in Runs : \A name \in LedgerNames :
       /\ loaded[r][name] = [generation |-> loaded[r][name].generation,
                             content    |-> loaded[r][name].content]
       /\ loaded[r][name].generation \in Nat
  /\ dirty \in [Runs -> BOOLEAN]
  /\ verdict = [r \in Runs |-> verdict[r]]
  /\ answers \in [Runs -> Seq({UNSPENT, SPENT, NO_ANSWER})]

(* A step about a ledger is taken only by a run that uses it.              *)
InUse(r) == Ledger(r) \in LedgerNames => Uses(r, Ledger(r))

HasLocked(r, name) ==
  /\ Uses(r, name)
  /\ Step(r) \in Working
  /\ ~(Step(r) = "lock" /\ Ledger(r) = "streams")
  /\ name = "approvals" =>
       ~(Step(r) = "lock" \/ (Step(r) = "load" /\ Ledger(r) = "streams"))

HasLoaded(r, name) ==
  HasLocked(r, name) /\ ~(Step(r) = "load" /\ Ledger(r) = name)

(* Short of two overlapping saves, the file only moves on, and a run that  *)
(* has checked its generation still has the file's.                        *)
Generations(r) ==
  \A name \in LedgerNames \ raced :
    /\ loaded[r][name].generation <= file[name].generation
    /\ Step(r) = "replace" /\ Ledger(r) = name =>
         loaded[r][name].generation = file[name].generation

(* What the run has loaded is what the file still is.                      *)
UpToDate(r, name) ==
  /\ HasLoaded(r, name) /\ name \notin raced
  /\ loaded[r][name].generation = file[name].generation

StreamsAsRead(r) ==
  UpToDate(r, "streams") =>
    /\ Step(r) \in Locking \cup {"score"} =>
         loaded[r]["streams"].content = file["streams"].content
    /\ (Step(r) = "emit" \/ (Step(r) \in Saving /\ Ledger(r) = "streams")) =>
         /\ loaded[r]["streams"].content = Scored(Batch[r], file["streams"].content)
         /\ verdict[r] = Judged(Batch[r], file["streams"].content).status

Unasked(r) ==
  Step(r) \in Locking \cup {"score"} => answers[r] = <<>> /\ dirty[r] = FALSE

Spending(r, spent) ==
  /\ loaded[r]["approvals"].content =
       SpentAfter(Batch[r], answers[r], Len(answers[r]), spent)
  /\ \A n \in DOMAIN answers[r] :
       answers[r][n] = Answer(Batch[r].nonces[n],
                              SpentAfter(Batch[r], answers[r], n - 1, spent))

ApprovalsAsRead(r) ==
  (UpToDate(r, "approvals") /\ Step(r) # "exit") =>
    Spending(r, file["approvals"].content)

(* A run that has granted a nonce knows that it has.                       *)
Marked(r) ==
  (Step(r) \in Working \ {"exit"} /\ dirty[r] = FALSE) =>
    \A n \in DOMAIN answers[r] : answers[r][n] # UNSPENT

Complete(r) == Step(r) \in Saving => Len(answers[r]) = Len(Batch[r].nonces)

RunInv(r) ==
  /\ InUse(r)
  /\ Generations(r)
  /\ StreamsAsRead(r)
  /\ Unasked(r)
  /\ ApprovalsAsRead(r)
  /\ Marked(r)
  /\ Complete(r)

Inv == Shape /\ \A r \in Runs : RunInv(r)

-----------------------------------------------------------------------------
(* A run keeps its part of the invariant while others leave alone what it  *)
(* has, and leave the file alone, move it on or have raced for it.         *)
MovedOn(name) ==
  /\ file'[name].generation > file[name].generation
  /\ \A q \in Runs : Step(q)' = "replace" => Ledger(q)' # name

FileKept(name) == file'[name] = file[name] \/ name \in raced' \/ MovedOn(name)

(* What a step of a run may do to the locks and to what they protect,      *)
(* where they are honoured.                                                *)
Guarded(r) ==
  /\ \A q \in Runs \ {r} : pc'[q] = pc[q] /\ loaded'[q] = loaded[q]
  /\ \A n \in LedgerNames :
       /\ lock'[n] = lock[n] \/ lock[n] \in {r, NoRun}
       /\ HasLocked(r, n)' =>
            lock'[n] = r \/ (HasLocked(r, n) /\ lock'[n] = lock[n])
       /\ HasLoaded(r, n)' =>
            \/ loaded'[r][n].generation = file'[n].generation
            \/ /\ HasLoaded(r, n) /\ file'[n] = file[n]
               /\ loaded'[r][n].generation = loaded[r][n].generation
       /\ file'[n] = file[n] \/ HasLocked(r, n)
  /\ raced' = raced \/ \E n \in LedgerNames : \E q \in Runs \ {r} :
                         HasLocked(r, n) /\ HasLocked(q, n)

LEMMA Frame ==
  ASSUME NEW q \in Runs, Shape, Shape', RunInv(q),
         pc'[q] = pc[q], loaded'[q] = loaded[q], dirty'[q] = dirty[q],
         verdict'[q] = verdict[q], answers'[q] = answers[q],
         raced \subseteq raced', \A name \in LedgerNames : FileKept(name)
  PROVE  RunInv(q)'
<1>1. InUse(q)' BY DEF RunInv, InUse, Ledger
<1>2. Step(q)' = Step(q) /\ Ledger(q)' = Ledger(q) BY DEF Step, Ledger
<1>3. \A name \in LedgerNames : HasLoaded(q, name)' <=> HasLoaded(q, name)
  BY <1>2 DEF HasLocked, HasLoaded
<1>4. \A name \in LedgerNames :
        /\ loaded[q][name].generation \in Nat /\ file[name].generation \in Nat
        /\ file'[name].generation \in Nat
  BY DEF Shape
<1>5. Generations(q)'
  <2>1. SUFFICES ASSUME NEW name \in LedgerNames, name \notin raced'
                 PROVE  /\ loaded'[q][name].generation <= file'[name].generation
                        /\ Step(q)' = "replace" /\ Ledger(q)' = name =>
                             loaded'[q][name].generation = file'[name].generation
    BY DEF Generations
  <2>2. /\ loaded[q][name].generation <= file[name].generation
        /\ Step(q) = "replace" /\ Ledger(q) = name =>
             loaded[q][name].generation = file[name].generation
    BY <2>1 DEF RunInv, Generations
  <2>3. CASE file'[name] = file[name] BY <1>2, <2>2, <2>3
  <2>4. CASE MovedOn(name) BY <1>2, <1>4, <2>2, <2>4 DEF MovedOn
  <2>5. QED BY <2>1, <2>3, <2>4 DEF FileKept
<1>6. \A name \in LedgerNames :
        UpToDate(q, name)' => UpToDate(q, name) /\ file'[name] = file[name]
  <2>1. TAKE name \in LedgerNames
  <2>2. HAVE UpToDate(q, name)'
  <2>3. /\ HasLoaded(q, name) /\ name \notin raced'
        /\ loaded[q][name].generation = file'[name].generation
    BY <1>3, <2>2 DEF UpToDate
  <2>4. loaded[q][name].generation <= file[name].generation
    BY <2>3 DEF RunInv, Generations
  <2>5. ~MovedOn(name) BY <1>4, <2>3, <2>4 DEF MovedOn
  <2>6. file'[name] = file[name] BY <2>3, <2>5 DEF FileKept
  <2>7. QED BY <2>3, <2>6 DEF UpToDate
<1>7. StreamsAsRead(q)'
  BY <1>2, <1>6 DEF RunInv, StreamsAsRead, LedgerNames
<1>8. Unasked(q)' BY <1>2 DEF RunInv, Unasked
<1>9. ApprovalsAsRead(q)'
  BY <1>2, <1>6 DEF RunInv, ApprovalsAsRead, Spending, LedgerNames
<1>10. Marked(q)' BY <1>2 DEF RunInv, Marked
<1>11. Complete(q)' BY <1>2 DEF RunInv, Complete
<1>12. QED BY <1>1, <1>5, <1>7, <1>8, <1>9, <1>10, <1>11 DEF RunInv

LEMMA InitInv == Init => Inv
<1>. SUFFICES ASSUME Init PROVE Inv OBVIOUS
<1>. USE DEF Init, At
<1>1. Shape
  <2>1. file = [name \in LedgerNames |-> file[name]] BY DEF Missing
  <2>2. \A name \in LedgerNames :
          /\ Missing[name] = [generation |-> Missing[name].generation,
                              content    |-> Missing[name].content]
          /\ Missing[name].generation \in Nat
    BY DEF Missing
  <2>3. lock \in [LedgerNames -> Runs \cup {NoRun}] OBVIOUS
  <2>4. pc \in [Runs -> (Working \cup Resting) \X (LedgerNames \cup {""})]
    BY DEF Resting
  <2>5. /\ loaded = [r \in Runs |-> loaded[r]]
        /\ \A r \in Runs : loaded[r] = [name \in LedgerNames |-> loaded[r][name]]
    BY DEF Missing
  <2>6. answers \in [Runs -> Seq({UNSPENT, SPENT, NO_ANSWER})]
    <3>1. <<>> \in Seq({UNSPENT, SPENT, NO_ANSWER}) BY EmptySeq
    <3>2. QED BY <3>1
  <2>7. QED BY <2>1, <2>2, <2>3, <2>4, <2>5, <2>6 DEF Shape
<1>2. ASSUME NEW r \in Runs PROVE RunInv(r)
  <2>1. Step(r) = "idle" /\ Ledger(r) = "" BY DEF Step, Ledger
  <2>2. \A name : ~HasLocked(r, name) /\ ~HasLoaded(r, name)
    BY <2>1 DEF HasLocked, HasLoaded, Working, Locking, Saving
  <2>3. InUse(r) /\ Unasked(r) /\ Complete(r)
    BY <2>1 DEF InUse, Unasked, Complete, Locking, Saving, LedgerNames
  <2>4. Generations(r)
    <3>1. \A name \in LedgerNames :
            loaded[r][name].generation = 0 /\ file[name].generation = 0
      BY DEF Missing
    <3>2. Step(r) # "replace" BY <2>1
    <3>. HIDE DEF Init
    <3>3. QED BY <3>1, <3>2 DEF Generations
  <2>5. Marked(r) BY <2>1 DEF Marked, Working, Locking, Saving
  <2>6. QED BY <2>2, <2>3, <2>4, <2>5 DEF RunInv, UpToDate, StreamsAsRead, ApprovalsAsRead
<1>3. QED BY <1>1, <1>2 DEF Inv

-----------------------------------------------------------------------------
(* The steps.  In each, the run that steps is shown to keep its part, and  *)
(* Frame keeps the others'.                                                *)

LEMMA OthersKeep ==
  ASSUME NEW r \in Runs, Inv, Shape',
         pc' = [pc EXCEPT ![r] = pc'[r]],
         \A q \in Runs \ {r} :
           /\ loaded'[q] = loaded[q] /\ dirty'[q] = dirty[q]
           /\ verdict'[q] = verdict[q] /\ answers'[q] = answers[q],
         raced \subseteq raced', \A name \in LedgerNames : FileKept(name)
  PROVE  \A q \in Runs \ {r} : RunInv(q)'
<1>1. TAKE q \in Runs \ {r}
<1>2. RunInv(q) /\ Shape BY DEF Inv
<1>3. pc'[q] = pc[q] BY DEF Inv, Shape
<1>4. QED BY <1>2, <1>3, Frame

(* Where the next step may be.                                             *)
LEMMA FirstStep ==
  ASSUME NEW r \in Runs, NEW step, NEW otherwise
  PROVE  \/ FirstOf(r, step, otherwise) = On(step, "streams") /\ Uses(r, "streams")
         \/ /\ FirstOf(r, step, otherwise) = On(step, "approvals")
            /\ Uses(r, "approvals") /\ ~Uses(r, "streams")
         \/ /\ FirstOf(r, step, otherwise) = At(otherwise)
            /\ ~Uses(r, "approvals") /\ ~Uses(r, "streams")
BY DEF FirstOf, After

LEMMA NextStep ==
  ASSUME NEW r \in Runs, NEW step, NEW name \in LedgerNames, NEW otherwise
  PROVE  \/ /\ NextOf(r, step, name, otherwise) = On(step, "approvals")
            /\ Uses(r, "approvals") /\ name = "streams"
         \/ /\ NextOf(r, step, name, otherwise) = At(otherwise)
            /\ name = "streams" => ~Uses(r, "approvals")
BY DEF NextOf, After, LedgerNames

LEMMA PlaceType ==
  /\ \A step \in {"lock", "load", "check", "replace"}, name \in LedgerNames :
       On(step, name) \in (Working \cup Resting) \X (LedgerNames \cup {""})
  /\ \A step \in {"score", "emit", "exit", "idle", "done", "failed", "hung"} :
       At(step) \in (Working \cup Resting) \X (LedgerNames \cup {""})
BY DEF On, At, Working, Locking, Saving, Resting

LEMMA PlaceParts ==
  /\ \A step, name : On(step, name)[1] = step /\ On(step, name)[2] = name
  /\ \A step : At(step)[1] = step /\ At(step)[2] = ""
BY DEF On, At

LEMMA Where ==
  ASSUME NEW r \in Runs
  PROVE  /\ \A step, name : pc[r] = On(step, name) => Step(r) = step /\ Ledger(r) = name
         /\ \A step : pc[r] = At(step) => Step(r) = step /\ Ledger(r) = ""
<1>1. ASSUME NEW step, NEW name, pc[r] = On(step, name)
      PROVE  Step(r) = step /\ Ledger(r) = name
  <2>1. On(step, name)[1] = step /\ On(step, name)[2] = name BY PlaceParts
  <2>2. QED BY <1>1, <2>1 DEF Step, Ledger
<1>2. ASSUME NEW step, pc[r] = At(step)
      PROVE  Step(r) = step /\ Ledger(r) = ""
  <2>1. At(step)[1] = step /\ At(step)[2] = "" BY PlaceParts
  <2>2. QED BY <1>2, <2>1 DEF Step, Ledger
<1>3. QED BY <1>1, <1>2

LEMMA WhereNext ==
  ASSUME NEW r \in Runs
  PROVE  /\ \A step, name : pc'[r] = On(step, name) => Step(r)' = step /\ Ledger(r)' = name
         /\ \A step : pc'[r] = At(step) => Step(r)' = step /\ Ledger(r)' = ""
<1>1. ASSUME NEW step, NEW name, pc'[r] = On(step, name)
      PROVE  Step(r)' = step /\ Ledger(r)' = name
  <2>1. On(step, name)[1] = step /\ On(step, name)[2] = name BY PlaceParts
  <2>2. QED BY <1>1, <2>1 DEF Step, Ledger
<1>2. ASSUME NEW step, pc'[r] = At(step)
      PROVE  Step(r)' = step /\ Ledger(r)' = ""
  <2>1. At(step)[1] = step /\ At(step)[2] = "" BY PlaceParts
  <2>2. QED BY <1>2, <2>1 DEF Step, Ledger
<1>3. QED BY <1>1, <1>2

(* A run that rests.                                                       *)
LEMMA AtRest ==
  ASSUME NEW r \in Runs, Step(r)' \in Resting
  PROVE  \A name : ~HasLocked(r, name)' /\ ~HasLoaded(r, name)'
BY DEF HasLocked, HasLoaded, Working, Resting, Locking, Saving

LEMMA Idle ==
  ASSUME NEW r \in Runs, RunInv(r), Step(r)' \in Resting, Ledger(r)' \notin LedgerNames,
         loaded'[r] = loaded[r], file' = file, raced' = raced
  PROVE  RunInv(r)'
<1>1. \A name : ~HasLocked(r, name)' /\ ~HasLoaded(r, name)' BY AtRest
<1>2. InUse(r)' /\ Unasked(r)' /\ Complete(r)' /\ Marked(r)'
  BY DEF InUse, Unasked, Complete, Marked, Resting, Locking, Saving, Working
<1>3. Generations(r)'
  <2>1. Step(r)' # "replace" BY DEF Resting
  <2>2. QED BY <2>1 DEF RunInv, Generations
<1>4. StreamsAsRead(r)' /\ ApprovalsAsRead(r)'
  BY <1>1 DEF UpToDate, StreamsAsRead, ApprovalsAsRead
<1>5. QED BY <1>2, <1>3, <1>4 DEF RunInv

LEMMA StartInv ==
  ASSUME NEW r \in Runs, Inv, Start(r) PROVE Inv' /\ Guarded(r)
<1>. USE DEF Start, Goto, disk
<1>1. \/ /\ pc'[r] = On("lock", "streams") /\ Step(r)' = "lock" /\ Ledger(r)' = "streams"
         /\ Uses(r, "streams")
      \/ /\ pc'[r] = On("lock", "approvals") /\ Step(r)' = "lock" /\ Ledger(r)' = "approvals"
         /\ Uses(r, "approvals") /\ ~Uses(r, "streams")
      \/ /\ pc'[r] = At("score") /\ Step(r)' = "score" /\ Ledger(r)' = ""
         /\ ~Uses(r, "approvals") /\ ~Uses(r, "streams")
  <2>1. pc'[r] = FirstOf(r, "lock", "score") BY DEF Inv, Shape
  <2>2. QED BY <2>1, FirstStep, WhereNext
<1>2. Shape'
  <2>1. pc'[r] \in (Working \cup Resting) \X (LedgerNames \cup {""})
    BY <1>1, PlaceType DEF LedgerNames
  <2>2. pc' \in [Runs -> (Working \cup Resting) \X (LedgerNames \cup {""})]
    BY <2>1 DEF Inv, Shape
  <2>3. /\ loaded' = [q \in Runs |-> loaded'[q]]
        /\ \A q \in Runs : loaded'[q] = [name \in LedgerNames |-> loaded'[q][name]]
    BY DEF Inv, Shape, Missing
  <2>4. \A q \in Runs : \A name \in LedgerNames :
          /\ loaded'[q][name] = [generation |-> loaded'[q][name].generation,
                                 content    |-> loaded'[q][name].content]
          /\ loaded'[q][name].generation \in Nat
    BY DEF Inv, Shape, Missing
  <2>5. answers' \in [Runs -> Seq({UNSPENT, SPENT, NO_ANSWER})]
    BY EmptySeq DEF Inv, Shape
  <2>6. dirty' \in [Runs -> BOOLEAN] /\ verdict' = [q \in Runs |-> verdict'[q]]
    BY DEF Inv, Shape
  <2>7. QED BY <2>2, <2>3, <2>4, <2>5, <2>6 DEF Inv, Shape
<1>0. \A name \in LedgerNames : ~HasLocked(r, name)' /\ ~HasLoaded(r, name)'
  <2>1. ~HasLocked(r, "streams")' BY <1>1 DEF HasLocked
  <2>2. ~HasLocked(r, "approvals")' BY <1>1 DEF HasLocked
  <2>3. QED BY <2>1, <2>2 DEF HasLoaded, LedgerNames
<1>3. RunInv(r)'
  <2>2. InUse(r)' BY <1>1 DEF InUse, LedgerNames, Uses
  <2>3. answers'[r] = <<>> /\ dirty'[r] = FALSE BY DEF Inv, Shape
  <2>4. Unasked(r)' BY <2>3 DEF Unasked
  <2>5. Complete(r)' BY <1>1 DEF Complete, Saving
  <2>6. Marked(r)' BY <2>3 DEF Marked
  <2>7. Generations(r)'
    <3>1. \A name \in LedgerNames : loaded'[r][name].generation = 0
      BY DEF Inv, Shape, Missing
    <3>2. \A name \in LedgerNames : file'[name].generation \in Nat BY <1>2 DEF Shape
    <3>3. Step(r)' # "replace" BY <1>1
    <3>4. QED BY <3>1, <3>2, <3>3 DEF Generations
  <2>8. StreamsAsRead(r)' /\ ApprovalsAsRead(r)'
    BY <1>0 DEF UpToDate, StreamsAsRead, ApprovalsAsRead, LedgerNames
  <2>9. QED BY <2>2, <2>4, <2>5, <2>6, <2>7, <2>8 DEF RunInv
<1>4. \A q \in Runs \ {r} : RunInv(q)'
  BY <1>2, OthersKeep DEF Inv, Shape, FileKept
<1>5. Guarded(r) BY <1>0 DEF Guarded, Inv, Shape
<1>6. QED BY <1>2, <1>3, <1>4, <1>5 DEF Inv

(* Leaving, whether done, failed or refused.                               *)
LEMMA LeaveInv ==
  ASSUME NEW r \in Runs, Inv, NEW how \in {"done", "failed"}, Leave(r, how),
         UNCHANGED <<file, raced, loaded, dirty, verdict, answers>>
  PROVE  Inv' /\ Guarded(r)
<1>. USE DEF Leave, Goto, Released
<1>1. pc'[r] = At(how) /\ pc' = [pc EXCEPT ![r] = At(how)] BY DEF Inv, Shape
<1>2. Shape'
  <2>1. pc' \in [Runs -> (Working \cup Resting) \X (LedgerNames \cup {""})]
    BY <1>1, PlaceType DEF Inv, Shape
  <2>2. lock' \in [LedgerNames -> Runs \cup {NoRun}] BY DEF Inv, Shape
  <2>3. QED BY <2>1, <2>2 DEF Inv, Shape
<1>3. RunInv(r)'
  <2>1. Step(r)' \in Resting /\ Ledger(r)' \notin LedgerNames
    BY <1>1, WhereNext DEF Resting, LedgerNames
  <2>2. QED BY <2>1, Idle DEF Inv
<1>4. \A q \in Runs \ {r} : RunInv(q)'
  BY <1>1, <1>2, OthersKeep DEF Inv, FileKept
<1>5. Guarded(r)
  <2>1. \A n \in LedgerNames : ~HasLocked(r, n)' /\ ~HasLoaded(r, n)'
    BY <1>1, WhereNext, AtRest DEF Resting
  <2>2. \A n \in LedgerNames : lock'[n] = lock[n] \/ lock[n] = r OBVIOUS
  <2>3. \A q \in Runs \ {r} : pc'[q] = pc[q] BY <1>1 DEF Inv, Shape
  <2>4. QED BY <2>1, <2>2, <2>3 DEF Guarded
<1>6. QED BY <1>2, <1>3, <1>4, <1>5 DEF Inv

LEMMA PlaceShape ==
  ASSUME NEW r \in Runs, Shape,
         NEW p \in (Working \cup Resting) \X (LedgerNames \cup {""}), Goto(r, p),
         lock' \in [LedgerNames -> Runs \cup {NoRun}],
         UNCHANGED <<file, loaded, dirty, verdict, answers>>
  PROVE  Shape' /\ pc'[r] = p /\ pc' = [pc EXCEPT ![r] = p]
BY DEF Shape, Goto

LEMMA LockInv ==
  ASSUME NEW r \in Runs, NEW name \in LedgerNames, Inv, Lock(r, name)
  PROVE  Inv' /\ (HaveFileLocking => Guarded(r))
<1>1. /\ Goto(r, On("load", name)) /\ On("load", name) \in (Working \cup Resting) \X (LedgerNames \cup {""})
      /\ lock' = lock \/ lock' = [lock EXCEPT ![name] = r]
      /\ UNCHANGED <<file, raced, loaded, dirty, verdict, answers>>
  BY PlaceType DEF Lock, disk, memory, output
<1>2. Shape' /\ pc'[r] = On("load", name) /\ pc' = [pc EXCEPT ![r] = pc'[r]]
  <2>1. lock' \in [LedgerNames -> Runs \cup {NoRun}] BY <1>1 DEF Inv, Shape
  <2>2. QED BY <1>1, <2>1, PlaceShape DEF Inv
<1>3. /\ Step(r) = "lock" /\ Ledger(r) = name
      /\ Step(r)' = "load" /\ Ledger(r)' = name
  <2>1. Step(r) = "lock" /\ Ledger(r) = name BY Where DEF Lock
  <2>2. Step(r)' = "load" /\ Ledger(r)' = name BY <1>2, WhereNext
  <2>3. QED BY <2>1, <2>2
<1>4. RunInv(r) BY DEF Inv
<1>5. \A n \in LedgerNames :
        HasLocked(r, n)' => n = name \/ HasLocked(r, n)
  BY <1>3 DEF HasLocked, LedgerNames, Working, Locking
<1>6. \A n \in LedgerNames : HasLoaded(r, n)' => HasLoaded(r, n)
  BY <1>3, <1>5 DEF HasLoaded
<1>7. RunInv(r)'
  <2>1. InUse(r)' BY <1>3, <1>4 DEF RunInv, InUse
  <2>2. Generations(r)' BY <1>1, <1>3, <1>4 DEF RunInv, Generations
  <2>3. \A n \in LedgerNames : UpToDate(r, n)' => UpToDate(r, n)
    BY <1>1, <1>6 DEF UpToDate
  <2>4. StreamsAsRead(r)'
    BY <1>1, <1>3, <1>4, <2>3 DEF RunInv, StreamsAsRead, Locking, Saving, LedgerNames
  <2>5. Unasked(r)' BY <1>1, <1>3, <1>4 DEF RunInv, Unasked, Locking
  <2>6. ApprovalsAsRead(r)'
    BY <1>1, <1>3, <1>4, <2>3 DEF RunInv, ApprovalsAsRead, Spending, LedgerNames
  <2>7. Complete(r)' /\ Marked(r)'
    BY <1>1, <1>3, <1>4 DEF RunInv, Complete, Marked, Saving, Working, Locking
  <2>8. QED BY <2>1, <2>2, <2>4, <2>5, <2>6, <2>7 DEF RunInv
<1>8. \A q \in Runs \ {r} : RunInv(q)'
  BY <1>1, <1>2, OthersKeep DEF Inv, FileKept
<1>9. ASSUME HaveFileLocking PROVE Guarded(r)
  <2>1. /\ lock'[name] = r /\ lock[name] = NoRun
        /\ \A n \in LedgerNames \ {name} : lock'[n] = lock[n]
    BY <1>9 DEF Lock, LockFree, Inv, Shape
  <2>2. \A q \in Runs \ {r} : pc'[q] = pc[q] BY <1>2 DEF Inv, Shape
  <2>3. QED BY <1>1, <1>5, <1>6, <2>1, <2>2 DEF Guarded
<1>10. QED BY <1>2, <1>7, <1>8, <1>9 DEF Inv

LEMMA LoadInv ==
  ASSUME NEW r \in Runs, NEW name \in LedgerNames, Inv, Load(r, name)
  PROVE  Inv' /\ Guarded(r)
<1>1. /\ pc' = [pc EXCEPT ![r] = NextOf(r, "lock", name, "score")]
      /\ loaded' = [loaded EXCEPT ![r][name] = file[name]]
      /\ UNCHANGED <<file, raced, lock, dirty, verdict, answers>>
  BY DEF Load, Goto, disk, output
<1>2. \/ pc'[r] = On("lock", "approvals") /\ Uses(r, "approvals") /\ name = "streams"
      \/ pc'[r] = At("score") /\ (name = "streams" => ~Uses(r, "approvals"))
  <2>1. pc'[r] = NextOf(r, "lock", name, "score") BY <1>1 DEF Inv, Shape
  <2>2. QED BY <2>1, NextStep
<1>3. Step(r) = "load" /\ Ledger(r) = name BY Where DEF Load
<1>4. \/ /\ Step(r)' = "lock" /\ Ledger(r)' = "approvals"
         /\ Uses(r, "approvals") /\ name = "streams"
      \/ /\ Step(r)' = "score" /\ Ledger(r)' = ""
         /\ (name = "streams" => ~Uses(r, "approvals"))
  BY <1>2, WhereNext
<1>5. RunInv(r) BY DEF Inv
<1>6. /\ loaded'[r][name] = file[name]
      /\ \A n \in LedgerNames : n # name => loaded'[r][n] = loaded[r][n]
      /\ \A q \in Runs : q # r => loaded'[q] = loaded[q]
      /\ loaded' = [q \in Runs |-> loaded'[q]]
      /\ loaded'[r] = [n \in LedgerNames |-> loaded'[r][n]]
  BY <1>1 DEF Inv, Shape
<1>7. Shape'
  <2>1. pc'[r] \in (Working \cup Resting) \X (LedgerNames \cup {""})
    BY <1>2, PlaceType DEF LedgerNames
  <2>2. pc' \in [Runs -> (Working \cup Resting) \X (LedgerNames \cup {""})]
    BY <1>1, <2>1 DEF Inv, Shape
  <2>3. \A q \in Runs : loaded'[q] = [n \in LedgerNames |-> loaded'[q][n]]
    BY <1>6 DEF Inv, Shape
  <2>4. \A q \in Runs : \A n \in LedgerNames :
          /\ loaded'[q][n] = [generation |-> loaded'[q][n].generation,
                              content    |-> loaded'[q][n].content]
          /\ loaded'[q][n].generation \in Nat
    <3>1. TAKE q \in Runs
    <3>2. TAKE n \in LedgerNames
    <3>3. loaded'[q][n] = loaded[q][n] \/ loaded'[q][n] = file[n] BY <1>6
    <3>4. /\ loaded[q][n] = [generation |-> loaded[q][n].generation,
                              content    |-> loaded[q][n].content]
          /\ file[n] = [generation |-> file[n].generation, content |-> file[n].content]
          /\ loaded[q][n].generation \in Nat /\ file[n].generation \in Nat
      BY DEF Inv, Shape
    <3>5. CASE loaded'[q][n] = loaded[q][n] BY <3>4, <3>5
    <3>6. CASE loaded'[q][n] = file[n] BY <3>4, <3>6
    <3>7. QED BY <3>3, <3>5, <3>6
  <2>5. /\ (file = [n \in LedgerNames |-> file[n]])'
        /\ \A n \in LedgerNames :
             /\ file'[n] = [generation |-> file'[n].generation, content |-> file'[n].content]
             /\ file'[n].generation \in Nat
        /\ lock' \in [LedgerNames -> Runs \cup {NoRun}]
        /\ dirty' \in [Runs -> BOOLEAN]
        /\ (verdict = [q \in Runs |-> verdict[q]])'
        /\ answers' \in [Runs -> Seq({UNSPENT, SPENT, NO_ANSWER})]
    BY <1>1 DEF Inv, Shape
  <2>6. QED BY <1>6, <2>2, <2>3, <2>4, <2>5 DEF Shape
<1>8. Uses(r, name) /\ answers'[r] = <<>> /\ dirty'[r] = FALSE
  BY <1>1, <1>3, <1>5 DEF RunInv, InUse, Unasked, Locking
<1>9. \A n \in LedgerNames :
        /\ HasLocked(r, n)' => HasLocked(r, n)
        /\ HasLoaded(r, n)' => n = name \/ HasLoaded(r, n)
  BY <1>3, <1>4, <1>8 DEF HasLocked, HasLoaded, LedgerNames, Working, Locking
<1>10. RunInv(r)'
  <2>1. InUse(r)' BY <1>4 DEF InUse, LedgerNames
  <2>2. Generations(r)'
    <3>1. SUFFICES ASSUME NEW n \in LedgerNames, n \notin raced'
                   PROVE  /\ loaded'[r][n].generation <= file'[n].generation
                          /\ Step(r)' # "replace"
      BY DEF Generations
    <3>2. Step(r)' # "replace" BY <1>4
    <3>3. n = name => loaded'[r][n].generation <= file'[n].generation
      <4>1. file[name].generation \in Nat BY DEF Inv, Shape
      <4>2. QED BY <1>1, <1>6, <4>1
    <3>4. n # name => loaded'[r][n].generation <= file'[n].generation
      BY <1>1, <1>5, <1>6, <3>1 DEF RunInv, Generations
    <3>5. QED BY <3>2, <3>3, <3>4
  <2>3. \A n \in LedgerNames : n # name => (UpToDate(r, n)' => UpToDate(r, n))
    BY <1>1, <1>6, <1>9 DEF UpToDate
  <2>4. StreamsAsRead(r)'
    <3>1. CASE name = "streams"
      BY <1>1, <1>4, <1>6, <3>1 DEF StreamsAsRead, Locking, Saving
    <3>2. CASE name # "streams"
      BY <1>1, <1>3, <1>4, <1>5, <1>6, <2>3, <3>2
      DEF RunInv, StreamsAsRead, Locking, Saving, LedgerNames
    <3>3. QED BY <3>1, <3>2
  <2>5. Unasked(r)' BY <1>8 DEF Unasked
  <2>6. ApprovalsAsRead(r)'
    <3>1. CASE name = "streams"
      <4>1. ~HasLoaded(r, "approvals")'
        BY <1>4, <3>1 DEF HasLoaded, HasLocked
      <4>2. QED BY <4>1 DEF UpToDate, ApprovalsAsRead
    <3>2. CASE name # "streams"
      <4>1. name = "approvals" BY <3>2 DEF LedgerNames
      <4>2. Len(answers'[r]) = 0 /\ DOMAIN answers'[r] = {} BY <1>8
      <4>3. Granted(Batch[r], answers'[r], 0) = {} BY DEF Granted
      <4>4. Spending(r, file["approvals"].content)'
        BY <1>1, <1>6, <4>1, <4>2, <4>3 DEF Spending, SpentAfter
      <4>5. QED BY <1>1, <4>4 DEF ApprovalsAsRead
    <3>3. QED BY <3>1, <3>2
  <2>7. Complete(r)' BY <1>4 DEF Complete, Saving
  <2>8. Marked(r)' BY <1>8 DEF Marked
  <2>9. QED BY <2>1, <2>2, <2>4, <2>5, <2>6, <2>7, <2>8 DEF RunInv
<1>11. \A q \in Runs \ {r} : RunInv(q)'
  <2>1. pc' = [pc EXCEPT ![r] = pc'[r]] BY <1>1 DEF Inv, Shape
  <2>2. QED BY <1>1, <1>6, <1>7, <2>1, OthersKeep DEF FileKept
<1>12. Guarded(r)
  <2>1. \A q \in Runs \ {r} : pc'[q] = pc[q] BY <1>1 DEF Inv, Shape
  <2>2. QED BY <1>1, <1>6, <1>9, <2>1 DEF Guarded
<1>13. QED BY <1>7, <1>10, <1>11, <1>12 DEF Inv

LEMMA NewContent ==
  ASSUME NEW f, NEW c, f = [generation |-> f.generation, content |-> f.content]
  PROVE  [f EXCEPT !.content = c] = [generation |-> f.generation, content |-> c]
OBVIOUS

(* Folding a new content into a loaded ledger keeps its shape.             *)
LEMMA ContentShape ==
  ASSUME NEW r \in Runs, NEW name \in LedgerNames, NEW c, Shape,
         loaded' = [loaded EXCEPT ![r][name].content = c]
  PROVE  /\ loaded' = [q \in Runs |-> loaded'[q]]
         /\ \A q \in Runs : loaded'[q] = [n \in LedgerNames |-> loaded'[q][n]]
         /\ \A q \in Runs : \A n \in LedgerNames :
              /\ loaded'[q][n] = [generation |-> loaded'[q][n].generation,
                                  content    |-> loaded'[q][n].content]
              /\ loaded'[q][n].generation \in Nat
         /\ \A q \in Runs \ {r} : loaded'[q] = loaded[q]
         /\ \A n \in LedgerNames \ {name} : loaded'[r][n] = loaded[r][n]
         /\ loaded'[r][name].content = c
         /\ loaded'[r][name].generation = loaded[r][name].generation
<1>1. /\ loaded = [q \in Runs |-> loaded[q]]
      /\ \A q \in Runs : loaded[q] = [n \in LedgerNames |-> loaded[q][n]]
      /\ \A q \in Runs : \A n \in LedgerNames :
           /\ loaded[q][n] = [generation |-> loaded[q][n].generation,
                              content    |-> loaded[q][n].content]
           /\ loaded[q][n].generation \in Nat
  BY DEF Shape
<1>2. /\ loaded' = [q \in Runs |-> loaded'[q]]
      /\ \A q \in Runs \ {r} : loaded'[q] = loaded[q]
      /\ loaded'[r] = [loaded[r] EXCEPT ![name] = [@ EXCEPT !.content = c]]
  BY <1>1
<1>3. /\ loaded'[r] = [n \in LedgerNames |-> loaded'[r][n]]
      /\ \A n \in LedgerNames \ {name} : loaded'[r][n] = loaded[r][n]
      /\ loaded'[r][name] = [loaded[r][name] EXCEPT !.content = c]
  BY <1>1, <1>2
<1>4. /\ loaded'[r][name] = [generation |-> loaded[r][name].generation, content |-> c]
      /\ loaded'[r][name].content = c
      /\ loaded'[r][name].generation = loaded[r][name].generation
  <2>1. [loaded[r][name] EXCEPT !.content = c] =
          [generation |-> loaded[r][name].generation, content |-> c]
    BY <1>1, NewContent
  <2>2. loaded'[r][name] = [generation |-> loaded[r][name].generation, content |-> c]
    BY <1>3, <2>1
  <2>3. QED BY <2>2
<1>5. ASSUME NEW q \in Runs, NEW n \in LedgerNames
      PROVE  /\ loaded'[q][n] = [generation |-> loaded'[q][n].generation,
                                 content    |-> loaded'[q][n].content]
             /\ loaded'[q][n].generation \in Nat
  <2>1. CASE q = r /\ n = name BY <1>1, <1>4, <2>1
  <2>2. CASE q # r \/ n # name
    <3>1. loaded'[q][n] = loaded[q][n] BY <1>2, <1>3, <2>2
    <3>2. /\ loaded[q][n] = [generation |-> loaded[q][n].generation,
                             content    |-> loaded[q][n].content]
          /\ loaded[q][n].generation \in Nat
      BY <1>1
    <3>3. QED BY <3>1, <3>2
  <2>3. QED BY <2>1, <2>2
<1>6. ASSUME NEW q \in Runs
      PROVE  loaded'[q] = [n \in LedgerNames |-> loaded'[q][n]]
  <2>1. CASE q = r BY <1>3, <2>1
  <2>2. CASE q # r
    <3>1. loaded'[q] = loaded[q] BY <1>2, <2>2
    <3>2. loaded[q] = [n \in LedgerNames |-> loaded[q][n]] BY <1>1
    <3>3. QED BY <3>1, <3>2
  <2>3. QED BY <2>1, <2>2
<1>7. QED BY <1>2, <1>3, <1>4, <1>5, <1>6

LEMMA ScoreInv ==
  ASSUME NEW r \in Runs, Inv, Score(r) PROVE Inv' /\ Guarded(r)
<1>. DEFINE ledger == loaded[r]["streams"].content
<1>1. /\ pc' = [pc EXCEPT ![r] = At("emit")]
      /\ UNCHANGED <<file, raced, lock, dirty, answers>>
  BY DEF Score, Goto, disk, output
<1>2. pc'[r] = At("emit") BY <1>1 DEF Inv, Shape
<1>3. /\ Step(r) = "score" /\ Ledger(r) = ""
      /\ Step(r)' = "emit" /\ Ledger(r)' = ""
  <2>1. Step(r) = "score" /\ Ledger(r) = "" BY Where DEF Score
  <2>2. Step(r)' = "emit" /\ Ledger(r)' = "" BY <1>2, WhereNext
  <2>3. QED BY <2>1, <2>2
<1>4. RunInv(r) BY DEF Inv
<1>5. /\ loaded' = [q \in Runs |-> loaded'[q]]
      /\ \A q \in Runs : loaded'[q] = [n \in LedgerNames |-> loaded'[q][n]]
      /\ \A q \in Runs : \A n \in LedgerNames :
           /\ loaded'[q][n] = [generation |-> loaded'[q][n].generation,
                               content    |-> loaded'[q][n].content]
           /\ loaded'[q][n].generation \in Nat
      /\ \A q \in Runs \ {r} : loaded'[q] = loaded[q]
      /\ loaded'[r]["approvals"] = loaded[r]["approvals"]
      /\ loaded'[r]["streams"].generation = loaded[r]["streams"].generation
      /\ Uses(r, "streams") =>
           loaded'[r]["streams"].content = Scored(Batch[r], ledger)
  <2>1. CASE Uses(r, "streams")
    <3>1. loaded' = [loaded EXCEPT ![r]["streams"].content = Scored(Batch[r], ledger)]
      BY <2>1 DEF Score
    <3>2. Shape /\ "streams" \in LedgerNames /\ "approvals" \in LedgerNames \ {"streams"}
      BY DEF Inv, LedgerNames
    <3>3. /\ loaded' = [q \in Runs |-> loaded'[q]]
          /\ \A q \in Runs : loaded'[q] = [n \in LedgerNames |-> loaded'[q][n]]
          /\ \A q \in Runs : \A n \in LedgerNames :
               /\ loaded'[q][n] = [generation |-> loaded'[q][n].generation,
                                   content    |-> loaded'[q][n].content]
               /\ loaded'[q][n].generation \in Nat
          /\ \A q \in Runs \ {r} : loaded'[q] = loaded[q]
          /\ \A n \in LedgerNames \ {"streams"} : loaded'[r][n] = loaded[r][n]
          /\ loaded'[r]["streams"].content = Scored(Batch[r], ledger)
          /\ loaded'[r]["streams"].generation = loaded[r]["streams"].generation
      <4>. HIDE DEF ledger
      <4>. QED BY <3>1, <3>2, ContentShape
    <3>4. QED BY <3>2, <3>3
  <2>2. CASE ~Uses(r, "streams")
    <3>1. loaded' = loaded BY <2>2 DEF Score
    <3>2. QED BY <2>2, <3>1 DEF Inv, Shape
  <2>3. QED BY <2>1, <2>2
<1>6. /\ verdict' = [q \in Runs |-> verdict'[q]]
      /\ \A q \in Runs \ {r} : verdict'[q] = verdict[q]
      /\ Uses(r, "streams") => verdict'[r] = Judged(Batch[r], ledger).status
  BY DEF Score, Inv, Shape
<1>7. Shape'
  <2>1. pc' \in [Runs -> (Working \cup Resting) \X (LedgerNames \cup {""})]
    BY <1>1, PlaceType DEF Inv, Shape
  <2>2. QED BY <1>1, <1>5, <1>6, <2>1 DEF Inv, Shape
<1>8. \A n \in LedgerNames :
        (HasLocked(r, n)' => HasLocked(r, n)) /\ (HasLoaded(r, n)' => HasLoaded(r, n))
  BY <1>3 DEF HasLocked, HasLoaded, Working, Locking, LedgerNames
<1>9. RunInv(r)'
  <2>1. InUse(r)' BY <1>3 DEF InUse, LedgerNames
  <2>2. Generations(r)'
    BY <1>1, <1>3, <1>4, <1>5 DEF RunInv, Generations, LedgerNames
  <2>3. \A n \in LedgerNames : UpToDate(r, n)' => UpToDate(r, n)
    BY <1>1, <1>5, <1>8 DEF UpToDate, LedgerNames
  <2>4. StreamsAsRead(r)'
    <3>1. SUFFICES ASSUME UpToDate(r, "streams")' PROVE StreamsAsRead(r)'
      BY DEF StreamsAsRead
    <3>2. UpToDate(r, "streams") /\ Uses(r, "streams")
      BY <2>3, <3>1 DEF LedgerNames, UpToDate, HasLoaded, HasLocked
    <3>3. ledger = file["streams"].content
      BY <1>3, <1>4, <3>2 DEF RunInv, StreamsAsRead
    <3>4. QED BY <1>1, <1>3, <1>5, <1>6, <3>2, <3>3 DEF StreamsAsRead, Locking
  <2>5. Unasked(r)' BY <1>3 DEF Unasked, Locking
  <2>6. ApprovalsAsRead(r)'
    BY <1>1, <1>3, <1>4, <1>5, <2>3
    DEF RunInv, ApprovalsAsRead, Spending, LedgerNames
  <2>7. Complete(r)' /\ Marked(r)'
    BY <1>1, <1>3, <1>4 DEF RunInv, Complete, Marked, Unasked, Saving, Working, Locking
  <2>8. QED BY <2>1, <2>2, <2>4, <2>5, <2>6, <2>7 DEF RunInv
<1>10. \A q \in Runs \ {r} : RunInv(q)'
  BY <1>1, <1>2, <1>5, <1>6, <1>7, OthersKeep DEF FileKept
<1>11. Guarded(r)
  <2>1. \A q \in Runs \ {r} : pc'[q] = pc[q] BY <1>1 DEF Inv, Shape
  <2>2. QED BY <1>1, <1>5, <1>8, <2>1 DEF Guarded, LedgerNames
<1>12. QED BY <1>7, <1>9, <1>10, <1>11 DEF Inv

-----------------------------------------------------------------------------
(* One more answer.                                                        *)
Replies == {UNSPENT, SPENT, NO_ANSWER}

LEMMA GrantedAppend ==
  ASSUME NEW b, NEW a \in Seq(Replies), NEW answer \in Replies
  PROVE  /\ \A k \in 0 .. Len(a) : Granted(b, Append(a, answer), k) = Granted(b, a, k)
         /\ Granted(b, Append(a, answer), Len(a) + 1) =
              IF answer = UNSPENT THEN Granted(b, a, Len(a)) \cup {b.nonces[Len(a) + 1]}
              ELSE Granted(b, a, Len(a))
<1>1. /\ \A k \in 1 .. Len(a) : Append(a, answer)[k] = a[k]
      /\ Append(a, answer)[Len(a) + 1] = answer
  OBVIOUS
<1>2. \A k \in 0 .. Len(a) :
        {i \in 1 .. k : Append(a, answer)[i] = UNSPENT} = {i \in 1 .. k : a[i] = UNSPENT}
  BY <1>1
<1>3. {i \in 1 .. Len(a) + 1 : Append(a, answer)[i] = UNSPENT} =
        IF answer = UNSPENT THEN {i \in 1 .. Len(a) : a[i] = UNSPENT} \cup {Len(a) + 1}
        ELSE {i \in 1 .. Len(a) : a[i] = UNSPENT}
  BY <1>1
<1>4. QED BY <1>2, <1>3 DEF Granted

LEMMA EmitInv ==
  ASSUME NEW r \in Runs, Inv, Emit(r) PROVE Inv' /\ Guarded(r)
<1>. DEFINE n      == Len(answers[r]) + 1
            nonce  == Batch[r].nonces[n]
            answer == Spend(r, nonce)
<1>1. /\ answers' = [answers EXCEPT ![r] = Append(@, answer)]
      /\ IF answer = UNSPENT
           THEN /\ loaded' = [loaded EXCEPT ![r]["approvals"].content =
                                loaded[r]["approvals"].content \cup {nonce}]
                /\ dirty'  = [dirty EXCEPT ![r] = TRUE]
           ELSE loaded' = loaded /\ dirty' = dirty
      /\ UNCHANGED <<file, raced, lock, pc, verdict>>
  <2>1. loaded' = [loaded EXCEPT ![r]["approvals"].content = @ \cup {nonce}] =>
          loaded' = [loaded EXCEPT ![r]["approvals"].content =
                       loaded[r]["approvals"].content \cup {nonce}]
    OBVIOUS
  <2>2. QED BY <2>1 DEF Emit, Printed, disk
<1>2. Step(r) = "emit" /\ Step(r)' = "emit" /\ Ledger(r) = "" /\ Ledger(r)' = ""
  <2>1. Step(r) = "emit" /\ Ledger(r) = "" BY Where DEF Emit
  <2>2. QED BY <1>1, <2>1 DEF Step, Ledger
<1>3. RunInv(r) BY DEF Inv
<1>4. answer \in Replies BY DEF Replies, Spend, Answer
<1>5. /\ answers[r] \in Seq(Replies) /\ answers'[r] = Append(answers[r], answer)
      /\ \A q \in Runs \ {r} : answers'[q] = answers[q]
      /\ answers' \in [Runs -> Seq(Replies)]
  <2>1. answers \in [Runs -> Seq(Replies)] BY DEF Inv, Shape, Replies
  <2>. HIDE DEF answer
  <2>2. Append(answers[r], answer) \in Seq(Replies) BY <1>4, <2>1
  <2>3. QED BY <1>1, <2>1, <2>2
<1>6. answer = UNSPENT => Uses(r, "approvals")
  BY DEF Spend, UNSPENT, NO_ANSWER
<1>7. /\ loaded' = [q \in Runs |-> loaded'[q]]
      /\ \A q \in Runs : loaded'[q] = [m \in LedgerNames |-> loaded'[q][m]]
      /\ \A q \in Runs : \A m \in LedgerNames :
           /\ loaded'[q][m] = [generation |-> loaded'[q][m].generation,
                               content    |-> loaded'[q][m].content]
           /\ loaded'[q][m].generation \in Nat
      /\ \A q \in Runs \ {r} : loaded'[q] = loaded[q]
      /\ \A m \in LedgerNames \ {"approvals"} : loaded'[r][m] = loaded[r][m]
      /\ loaded'[r]["approvals"].generation = loaded[r]["approvals"].generation
      /\ loaded'[r]["approvals"].content =
           IF answer = UNSPENT THEN loaded[r]["approvals"].content \cup {nonce}
           ELSE loaded[r]["approvals"].content
  <2>. DEFINE c == loaded[r]["approvals"].content \cup {nonce}
  <2>0. Shape /\ "approvals" \in LedgerNames BY DEF Inv, LedgerNames
  <2>1. CASE answer = UNSPENT
    <3>1. loaded' = [loaded EXCEPT ![r]["approvals"].content = c] BY <1>1, <2>1
    <3>. HIDE DEF c, answer
    <3>2. /\ loaded' = [q \in Runs |-> loaded'[q]]
          /\ \A q \in Runs : loaded'[q] = [m \in LedgerNames |-> loaded'[q][m]]
          /\ \A q \in Runs : \A m \in LedgerNames :
               /\ loaded'[q][m] = [generation |-> loaded'[q][m].generation,
                                   content    |-> loaded'[q][m].content]
               /\ loaded'[q][m].generation \in Nat
          /\ \A q \in Runs \ {r} : loaded'[q] = loaded[q]
          /\ \A m \in LedgerNames \ {"approvals"} : loaded'[r][m] = loaded[r][m]
          /\ loaded'[r]["approvals"].content = c
          /\ loaded'[r]["approvals"].generation = loaded[r]["approvals"].generation
      BY <2>0, <3>1, ContentShape
    <3>3. QED BY <2>1, <3>2 DEF c
  <2>2. CASE answer # UNSPENT
    <3>1. loaded' = loaded BY <1>1, <2>2
    <3>. HIDE DEF c, answer
    <3>2. QED BY <2>0, <2>2, <3>1 DEF Shape
  <2>3. QED BY <2>1, <2>2
<1>8. Shape'
  <2>1. dirty' \in [Runs -> BOOLEAN] BY <1>1 DEF Inv, Shape
  <2>2. /\ pc' = pc /\ file' = file /\ raced' = raced /\ lock' = lock /\ verdict' = verdict BY <1>1
  <2>. HIDE DEF answer
  <2>3. QED BY <1>5, <1>7, <2>1, <2>2 DEF Inv, Shape, Replies
<1>9. \A m \in LedgerNames :
        /\ HasLocked(r, m)' <=> HasLocked(r, m)
        /\ HasLoaded(r, m)' <=> HasLoaded(r, m)
  BY <1>2 DEF HasLocked, HasLoaded
<1>10. RunInv(r)'
  <2>. HIDE DEF answer
  <2>1. InUse(r)' BY <1>2 DEF InUse, LedgerNames
  <2>2. Generations(r)'
    BY <1>1, <1>2, <1>3, <1>7 DEF RunInv, Generations, LedgerNames
  <2>3. \A m \in LedgerNames : UpToDate(r, m)' => UpToDate(r, m)
    BY <1>1, <1>7, <1>9 DEF UpToDate, LedgerNames
  <2>4. StreamsAsRead(r)'
    BY <1>1, <1>2, <1>3, <1>7, <2>3
    DEF RunInv, StreamsAsRead, LedgerNames, Locking, Saving
  <2>5. Unasked(r)' BY <1>2 DEF Unasked, Locking
  <2>6. ApprovalsAsRead(r)'
    <3>1. SUFFICES ASSUME UpToDate(r, "approvals")'
                   PROVE  Spending(r, file["approvals"].content)'
      BY DEF ApprovalsAsRead
    <3>. DEFINE spent == file["approvals"].content
    <3>2. UpToDate(r, "approvals") /\ Uses(r, "approvals")
      BY <2>3, <3>1 DEF LedgerNames, UpToDate, HasLoaded, HasLocked
    <3>3. Spending(r, spent) BY <1>2, <1>3, <3>2 DEF RunInv, ApprovalsAsRead
    <3>4. /\ loaded[r]["approvals"].content = SpentAfter(Batch[r], answers[r], n - 1, spent)
          /\ answer = Answer(nonce, SpentAfter(Batch[r], answers[r], n - 1, spent))
      BY <1>5, <3>2, <3>3 DEF Spending, Spend, answer
    <3>5. /\ \A k \in 0 .. n - 1 :
               Granted(Batch[r], answers'[r], k) = Granted(Batch[r], answers[r], k)
          /\ Granted(Batch[r], answers'[r], n) =
               IF answer = UNSPENT THEN Granted(Batch[r], answers[r], n - 1) \cup {nonce}
               ELSE Granted(Batch[r], answers[r], n - 1)
      <4>. DEFINE a == answers[r]
      <4>1. a \in Seq(Replies) /\ answers'[r] = Append(a, answer) /\ n = Len(a) + 1
        BY <1>5
      <4>2. Len(a) \in Nat /\ n - 1 = Len(a) BY <4>1
      <4>. HIDE DEF a, n
      <4>3. /\ \A k \in 0 .. Len(a) :
                 Granted(Batch[r], Append(a, answer), k) = Granted(Batch[r], a, k)
            /\ Granted(Batch[r], Append(a, answer), Len(a) + 1) =
                 IF answer = UNSPENT
                   THEN Granted(Batch[r], a, Len(a)) \cup {Batch[r].nonces[Len(a) + 1]}
                   ELSE Granted(Batch[r], a, Len(a))
        BY <1>4, <4>1, GrantedAppend
      <4>4. /\ \A k \in 0 .. n - 1 :
                 Granted(Batch[r], answers'[r], k) = Granted(Batch[r], a, k)
            /\ Granted(Batch[r], answers'[r], n) =
                 IF answer = UNSPENT THEN Granted(Batch[r], a, n - 1) \cup {nonce}
                 ELSE Granted(Batch[r], a, n - 1)
        <5>1. n - 1 = Len(a) /\ n = Len(a) + 1 BY <4>1, <4>2
        <5>2. \A k \in 0 .. n - 1 :
                Granted(Batch[r], answers'[r], k) = Granted(Batch[r], a, k)
          BY <4>1, <4>3, <5>1
        <5>3. Granted(Batch[r], answers'[r], n) =
                Granted(Batch[r], Append(a, answer), Len(a) + 1)
          BY <4>1, <5>1
        <5>4. QED BY <4>3, <5>1, <5>2, <5>3
      <4>5. QED BY <4>4 DEF a
    <3>6. /\ Len(answers'[r]) = n /\ n \in Nat \ {0}
          /\ DOMAIN answers'[r] = 1 .. n /\ DOMAIN answers[r] = 1 .. n - 1
          /\ \A k \in 1 .. n - 1 : answers'[r][k] = answers[r][k]
          /\ answers'[r][n] = answer
      BY <1>4, <1>5
    <3>7. loaded'[r]["approvals"].content = SpentAfter(Batch[r], answers'[r], n, spent)
      BY <1>7, <3>4, <3>5 DEF SpentAfter
    <3>8. ASSUME NEW k \in 1 .. n
          PROVE  answers'[r][k] = Answer(Batch[r].nonces[k],
                                         SpentAfter(Batch[r], answers'[r], k - 1, spent))
      <4>1. SpentAfter(Batch[r], answers'[r], k - 1, spent) =
              SpentAfter(Batch[r], answers[r], k - 1, spent)
        BY <3>5, <3>6 DEF SpentAfter
      <4>2. CASE k = n BY <3>4, <3>6, <4>1, <4>2
      <4>3. CASE k # n
        <5>1. k \in 1 .. n - 1 BY <3>6, <4>3
        <5>2. QED BY <3>3, <3>6, <4>1, <5>1 DEF Spending
      <4>4. QED BY <4>2, <4>3
    <3>9. QED BY <1>1, <3>6, <3>7, <3>8 DEF Spending
  <2>7. Complete(r)' BY <1>2 DEF Complete, Saving
  <2>8. Marked(r)'
    <3>1. SUFFICES ASSUME dirty'[r] = FALSE, NEW k \in DOMAIN answers'[r]
                   PROVE  answers'[r][k] # UNSPENT
      BY DEF Marked
    <3>2. answer # UNSPENT /\ dirty[r] = FALSE BY <1>1, <3>1 DEF Inv, Shape
    <3>3. \A j \in DOMAIN answers[r] : answers[r][j] # UNSPENT
      BY <1>2, <1>3, <3>2 DEF RunInv, Marked, Working, Locking, Saving
    <3>4. k \in DOMAIN answers[r] \/ answers'[r][k] = answer
      BY <1>4, <1>5, <3>1
    <3>5. k \in DOMAIN answers[r] => answers'[r][k] = answers[r][k] BY <1>4, <1>5
    <3>6. QED BY <3>2, <3>3, <3>4, <3>5
  <2>9. QED BY <2>1, <2>2, <2>4, <2>5, <2>6, <2>7, <2>8 DEF RunInv
<1>11. /\ pc' = [pc EXCEPT ![r] = pc'[r]]
       /\ \A q \in Runs \ {r} : dirty'[q] = dirty[q] /\ verdict'[q] = verdict[q]
  BY <1>1 DEF Inv, Shape
<1>12. \A q \in Runs \ {r} : RunInv(q)'
  BY <1>1, <1>5, <1>7, <1>8, <1>11, OthersKeep DEF FileKept
<1>13. Guarded(r)
  <2>. HIDE DEF answer
  <2>1. QED BY <1>1, <1>7, <1>9 DEF Guarded, LedgerNames
<1>14. QED BY <1>8, <1>10, <1>12, <1>13 DEF Inv

-----------------------------------------------------------------------------
(* Steps in which a run only moves on.                                     *)
LEMMA MoveInv ==
  ASSUME NEW r \in Runs, Inv,
         NEW p \in (Working \cup Resting) \X (LedgerNames \cup {""}),
         pc' = [pc EXCEPT ![r] = p],
         UNCHANGED <<file, raced, lock, loaded, dirty, verdict, answers>>,
         RunInv(r)',
         \A n \in LedgerNames :
           /\ HasLocked(r, n)' => HasLocked(r, n)
           /\ HasLoaded(r, n)' => HasLoaded(r, n)
  PROVE  Inv' /\ Guarded(r)
<1>1. Shape' BY DEF Inv, Shape
<1>2. pc' = [pc EXCEPT ![r] = pc'[r]] BY DEF Inv, Shape
<1>3. \A q \in Runs \ {r} : RunInv(q)' BY <1>1, <1>2, OthersKeep DEF FileKept
<1>4. Guarded(r)
  <2>1. \A q \in Runs \ {r} : pc'[q] = pc[q] BY DEF Inv, Shape
  <2>2. QED BY <2>1 DEF Guarded
<1>5. QED BY <1>1, <1>3, <1>4 DEF Inv

LEMMA EmitEndInv ==
  ASSUME NEW r \in Runs, Inv, EmitEnd(r) PROVE Inv' /\ Guarded(r)
<1>. DEFINE p == FirstOf(r, "check", "exit")
<1>1. /\ pc' = [pc EXCEPT ![r] = p]
      /\ UNCHANGED <<file, raced, lock, loaded, dirty, verdict, answers>>
      /\ Len(answers[r]) = Len(Batch[r].nonces)
  BY DEF EmitEnd, Goto, AllEmitted, Printed, disk, memory, output
<1>2. pc'[r] = p BY <1>1 DEF Inv, Shape
<1>3. \/ p = On("check", "streams") /\ Uses(r, "streams")
      \/ p = On("check", "approvals") /\ Uses(r, "approvals") /\ ~Uses(r, "streams")
      \/ p = At("exit") /\ ~Uses(r, "approvals") /\ ~Uses(r, "streams")
  BY FirstStep
<1>4. p \in (Working \cup Resting) \X (LedgerNames \cup {""})
  BY <1>3, PlaceType DEF LedgerNames
<1>5. \/ Step(r)' = "check" /\ Ledger(r)' = "streams" /\ Uses(r, "streams")
      \/ /\ Step(r)' = "check" /\ Ledger(r)' = "approvals"
         /\ Uses(r, "approvals") /\ ~Uses(r, "streams")
      \/ /\ Step(r)' = "exit" /\ Ledger(r)' = ""
         /\ ~Uses(r, "approvals") /\ ~Uses(r, "streams")
  BY <1>2, <1>3, WhereNext
<1>6. Step(r) = "emit" /\ Ledger(r) = "" BY Where DEF EmitEnd
<1>7. RunInv(r) BY DEF Inv
<1>8. \A n \in LedgerNames :
        /\ HasLocked(r, n)' => HasLocked(r, n) 
        /\ HasLoaded(r, n)' => HasLoaded(r, n)
  BY <1>6 DEF HasLocked, HasLoaded, LedgerNames, Working
<1>9. RunInv(r)'
  <2>1. InUse(r)' BY <1>5 DEF InUse, LedgerNames
  <2>2. Generations(r)' BY <1>1, <1>5, <1>7 DEF RunInv, Generations
  <2>3. \A n \in LedgerNames : UpToDate(r, n)' => UpToDate(r, n)
    BY <1>1, <1>8 DEF UpToDate
  <2>4. StreamsAsRead(r)'
    BY <1>1, <1>5, <1>6, <1>7, <2>3
    DEF RunInv, StreamsAsRead, LedgerNames, Locking, Saving
  <2>5. Unasked(r)' BY <1>5 DEF Unasked, Locking
  <2>6. ApprovalsAsRead(r)'
    BY <1>1, <1>6, <1>7, <2>3 DEF RunInv, ApprovalsAsRead, Spending, LedgerNames
  <2>7. Complete(r)' /\ Marked(r)'
    BY <1>1, <1>6, <1>7 DEF RunInv, Complete, Marked, Saving, Working
  <2>8. QED BY <2>1, <2>2, <2>4, <2>5, <2>6, <2>7 DEF RunInv
<1>10. QED BY <1>1, <1>4, <1>8, <1>9, MoveInv

LEMMA SaveCheckInv ==
  ASSUME NEW r \in Runs, NEW name \in LedgerNames, Inv, SaveCheck(r, name)
  PROVE  Inv' /\ Guarded(r)
<1>1. /\ pc' = [pc EXCEPT ![r] = On("replace", name)]
      /\ UNCHANGED <<file, raced, lock, loaded, dirty, verdict, answers>>
  BY DEF SaveCheck, Goto, disk, memory, output
<1>2. pc'[r] = On("replace", name) BY <1>1 DEF Inv, Shape
<1>3. On("replace", name) \in (Working \cup Resting) \X (LedgerNames \cup {""})
  BY PlaceType
<1>4. Step(r) = "check" /\ Ledger(r) = name BY Where DEF SaveCheck
<1>5. Step(r)' = "replace" /\ Ledger(r)' = name BY <1>2, WhereNext
<1>6. RunInv(r) BY DEF Inv
<1>7. \A n \in LedgerNames :
        /\ HasLocked(r, n)' => HasLocked(r, n)
        /\ HasLoaded(r, n)' => HasLoaded(r, n)
  BY <1>4, <1>5 DEF HasLocked, HasLoaded, LedgerNames, Working, Saving
<1>8. RunInv(r)'
  <2>1. InUse(r)' BY <1>4, <1>5, <1>6 DEF RunInv, InUse
  <2>2. Generations(r)'
    <3>1. loaded[r][name].generation = file[name].generation
      BY DEF SaveCheck, SameGeneration
    <3>2. QED BY <1>1, <1>5, <1>6, <3>1 DEF RunInv, Generations
  <2>3. \A n \in LedgerNames : UpToDate(r, n)' => UpToDate(r, n)
    BY <1>1, <1>7 DEF UpToDate
  <2>4. StreamsAsRead(r)'
    BY <1>1, <1>4, <1>5, <1>6, <2>3
    DEF RunInv, StreamsAsRead, LedgerNames, Locking, Saving
  <2>5. Unasked(r)' BY <1>5 DEF Unasked, Locking
  <2>6. ApprovalsAsRead(r)'
    BY <1>1, <1>4, <1>6, <2>3 DEF RunInv, ApprovalsAsRead, Spending, LedgerNames
  <2>7. Complete(r)' /\ Marked(r)'
    BY <1>1, <1>4, <1>6 DEF RunInv, Complete, Marked, Saving, Working
  <2>8. QED BY <2>1, <2>2, <2>4, <2>5, <2>6, <2>7 DEF RunInv
<1>9. QED BY <1>1, <1>3, <1>7, <1>8, MoveInv

LEMMA SaveNothingInv ==
  ASSUME NEW r \in Runs, NEW name \in LedgerNames, Inv, SaveNothing(r, name)
  PROVE  Inv' /\ Guarded(r)
<1>1. name = "approvals" BY DEF SaveNothing, NothingToSave
<1>2. /\ pc' = [pc EXCEPT ![r] = At("exit")]
      /\ UNCHANGED <<file, raced, lock, loaded, dirty, verdict, answers>>
  BY <1>1 DEF SaveNothing, Goto, NextOf, memory, output
<1>3. pc'[r] = At("exit") BY <1>2 DEF Inv, Shape
<1>4. At("exit") \in (Working \cup Resting) \X (LedgerNames \cup {""})
  BY PlaceType
<1>5. Step(r) = "check" /\ Ledger(r) = name BY Where DEF SaveNothing
<1>6. Step(r)' = "exit" /\ Ledger(r)' = "" BY <1>3, WhereNext
<1>7. RunInv(r) BY DEF Inv
<1>8. RunInv(r)'
  <2>1. InUse(r)' BY <1>6 DEF InUse, LedgerNames
  <2>2. Generations(r)' BY <1>2, <1>6, <1>7 DEF RunInv, Generations
  <2>3. StreamsAsRead(r)' BY <1>6 DEF StreamsAsRead, Locking, Saving
  <2>4. Unasked(r)' BY <1>6 DEF Unasked, Locking
  <2>5. ApprovalsAsRead(r)' BY <1>6 DEF ApprovalsAsRead
  <2>6. Complete(r)' /\ Marked(r)' BY <1>6 DEF Complete, Marked, Saving
  <2>7. QED BY <2>1, <2>2, <2>3, <2>4, <2>5, <2>6 DEF RunInv
<1>9. \A n \in LedgerNames :
        /\ HasLocked(r, n)' => HasLocked(r, n)
        /\ HasLoaded(r, n)' => HasLoaded(r, n)
  BY <1>5 DEF HasLocked, HasLoaded, LedgerNames, Working, Saving
<1>10. QED BY <1>2, <1>4, <1>8, <1>9, MoveInv

LEMMA HangInv ==
  ASSUME NEW r \in Runs, Inv, Hang(r) PROVE Inv' /\ Guarded(r)
<1>1. /\ pc' = [pc EXCEPT ![r] = At("hung")]
      /\ UNCHANGED <<file, raced, lock, loaded, dirty, verdict, answers>>
  BY DEF Hang, Goto, disk, memory, output
<1>2. pc'[r] = At("hung") BY <1>1 DEF Inv, Shape
<1>3. At("hung") \in (Working \cup Resting) \X (LedgerNames \cup {""})
  BY PlaceType
<1>4. RunInv(r)'
  <2>1. Step(r)' = "hung" /\ Ledger(r)' = "" BY <1>2, WhereNext
  <2>2. QED BY <1>1, <2>1, Idle DEF Inv, Resting, LedgerNames
<1>5. \A n \in LedgerNames : ~HasLocked(r, n)' /\ ~HasLoaded(r, n)'
  BY <1>2, WhereNext, AtRest DEF Resting
<1>6. QED BY <1>1, <1>3, <1>4, <1>5, MoveInv

-----------------------------------------------------------------------------
(* The save.                                                               *)
LEMMA NewGeneration ==
  ASSUME NEW f, NEW g, f = [generation |-> f.generation, content |-> f.content]
  PROVE  [f EXCEPT !.generation = g] = [generation |-> g, content |-> f.content]
OBVIOUS

LEMMA PairParts ==
  ASSUME NEW A, NEW B, NEW p \in A \X B PROVE p = <<p[1], p[2]>>
OBVIOUS

LEMMA SaveReplaceFacts ==
  ASSUME NEW r \in Runs, NEW name \in LedgerNames, Inv, SaveReplace(r, name)
  PROVE  /\ pc' = [pc EXCEPT ![r] = NextOf(r, "check", name, "exit")]
         /\ Step(r) = "replace" /\ Ledger(r) = name
         /\ HasLoaded(r, name) /\ HasLocked(r, name)
         /\ file'[name].generation = loaded[r][name].generation + 1
         /\ file'[name].generation \in Nat
         /\ raced \subseteq raced'
         /\ raced' = raced \/ \E q \in Runs \ {r} : HasLocked(q, name)
         /\ name \notin raced' => \A q \in Runs \ {r} : pc[q] # On("replace", name)
         /\ file'[name].content = OnDisk(r, name)
         /\ file'[name] = [generation |-> file'[name].generation,
                           content    |-> file'[name].content]
         /\ \A n \in LedgerNames \ {name} : file'[n] = file[n]
         /\ file' = [n \in LedgerNames |-> file'[n]]
         /\ UNCHANGED <<lock, verdict, answers>>
         /\ told' = Append(told, Observed(r, name))
<1>1. Step(r) = "replace" /\ Ledger(r) = name BY Where DEF SaveReplace
<1>2. Uses(r, name) BY <1>1 DEF Inv, RunInv, InUse
<1>3. HasLocked(r, name) /\ HasLoaded(r, name)
  BY <1>1, <1>2 DEF HasLocked, HasLoaded, Working, Saving
<1>4. /\ file'[name] = [generation |-> loaded[r][name].generation + 1,
                        content    |-> OnDisk(r, name)]
      /\ \A n \in LedgerNames \ {name} : file'[n] = file[n]
      /\ file' = [n \in LedgerNames |-> file'[n]]
  BY DEF SaveReplace, Inv, Shape
<1>5. file'[name].generation \in Nat
  <2>1. loaded[r][name].generation \in Nat BY DEF Inv, Shape
  <2>2. QED BY <1>4, <2>1
<1>6. /\ raced \subseteq raced'
      /\ name \notin raced' => \A q \in Runs \ {r} : pc[q] # On("replace", name)
  BY DEF SaveReplace
<1>7. raced' = raced \/ \E q \in Runs \ {r} : HasLocked(q, name)
  <2>1. ASSUME NEW q \in Runs \ {r}, pc[q] = On("replace", name) PROVE HasLocked(q, name)
    <3>1. Step(q) = "replace" /\ Ledger(q) = name BY <2>1, Where
    <3>2. Uses(q, name) BY <3>1 DEF Inv, RunInv, InUse
    <3>3. QED BY <3>1, <3>2 DEF HasLocked, Working, Saving
  <2>2. QED BY <2>1 DEF SaveReplace
<1>8. QED BY <1>1, <1>3, <1>4, <1>5, <1>6, <1>7 DEF SaveReplace, Goto, output

LEMMA SaveReplaceMemory ==
  ASSUME NEW r \in Runs, NEW name \in LedgerNames, Shape, SaveReplace(r, name)
  PROVE  /\ loaded' = [q \in Runs |-> loaded'[q]]
         /\ \A q \in Runs : loaded'[q] = [n \in LedgerNames |-> loaded'[q][n]]
         /\ \A q \in Runs : \A n \in LedgerNames :
              /\ loaded'[q][n] = [generation |-> loaded'[q][n].generation,
                                  content    |-> loaded'[q][n].content]
              /\ loaded'[q][n].generation \in Nat
         /\ \A q \in Runs \ {r} : loaded'[q] = loaded[q]
         /\ \A n \in LedgerNames \ {name} : loaded'[r][n] = loaded[r][n]
         /\ loaded'[r][name].content = loaded[r][name].content
         /\ loaded'[r][name].generation = loaded[r][name].generation + 1
<1>. DEFINE g == loaded[r][name].generation + 1
<1>1. /\ loaded = [q \in Runs |-> loaded[q]]
      /\ \A q \in Runs : loaded[q] = [n \in LedgerNames |-> loaded[q][n]]
      /\ \A q \in Runs : \A n \in LedgerNames :
           /\ loaded[q][n] = [generation |-> loaded[q][n].generation,
                              content    |-> loaded[q][n].content]
           /\ loaded[q][n].generation \in Nat
  BY DEF Shape
<1>0. loaded' = [loaded EXCEPT ![r][name].generation = g] /\ g \in Nat
  <2>1. loaded' = [loaded EXCEPT ![r][name].generation = g] BY DEF SaveReplace
  <2>2. g \in Nat
    <3>1. loaded[r][name].generation \in Nat BY <1>1
    <3>2. QED BY <3>1
  <2>3. QED BY <2>1, <2>2
<1>. HIDE DEF g
<1>2. /\ loaded' = [q \in Runs |-> loaded'[q]]
      /\ \A q \in Runs \ {r} : loaded'[q] = loaded[q]
      /\ loaded'[r] = [loaded[r] EXCEPT ![name] = [@ EXCEPT !.generation = g]]
  BY <1>0, <1>1
<1>3. /\ loaded'[r] = [n \in LedgerNames |-> loaded'[r][n]]
      /\ \A n \in LedgerNames \ {name} : loaded'[r][n] = loaded[r][n]
      /\ loaded'[r][name] = [loaded[r][name] EXCEPT !.generation = g]
  BY <1>1, <1>2
<1>4. /\ loaded'[r][name] = [generation |-> g, content |-> loaded[r][name].content]
      /\ loaded'[r][name].content = loaded[r][name].content
      /\ loaded'[r][name].generation = g
  <2>1. [loaded[r][name] EXCEPT !.generation = g] =
          [generation |-> g, content |-> loaded[r][name].content]
    BY <1>1, NewGeneration
  <2>2. loaded'[r][name] = [generation |-> g, content |-> loaded[r][name].content]
    BY <1>3, <2>1
  <2>3. QED BY <2>2
<1>5. ASSUME NEW q \in Runs, NEW n \in LedgerNames
      PROVE  /\ loaded'[q][n] = [generation |-> loaded'[q][n].generation,
                                 content    |-> loaded'[q][n].content]
             /\ loaded'[q][n].generation \in Nat
  <2>1. CASE q = r /\ n = name BY <1>0, <1>4, <2>1
  <2>2. CASE q # r \/ n # name
    <3>1. loaded'[q][n] = loaded[q][n] BY <1>2, <1>3, <2>2
    <3>2. /\ loaded[q][n] = [generation |-> loaded[q][n].generation,
                             content    |-> loaded[q][n].content]
          /\ loaded[q][n].generation \in Nat
      BY <1>1
    <3>3. QED BY <3>1, <3>2
  <2>3. QED BY <2>1, <2>2
<1>6. ASSUME NEW q \in Runs
      PROVE  loaded'[q] = [n \in LedgerNames |-> loaded'[q][n]]
  <2>1. CASE q = r BY <1>3, <2>1
  <2>2. CASE q # r
    <3>1. loaded'[q] = loaded[q] BY <1>2, <2>2
    <3>2. loaded[q] = [n \in LedgerNames |-> loaded[q][n]] BY <1>1
    <3>3. QED BY <3>1, <3>2
  <2>3. QED BY <2>1, <2>2
<1>7. QED BY <1>2, <1>3, <1>4, <1>5, <1>6 DEF g

LEMMA SaveReplaceInv ==
  ASSUME NEW r \in Runs, NEW name \in LedgerNames, Inv, SaveReplace(r, name)
  PROVE  Inv' /\ Guarded(r)
<1>1. RunInv(r) /\ Shape BY DEF Inv
<1>2. /\ pc' = [pc EXCEPT ![r] = NextOf(r, "check", name, "exit")]
      /\ Step(r) = "replace" /\ Ledger(r) = name
      /\ HasLoaded(r, name) /\ HasLocked(r, name)
      /\ file'[name].generation = loaded[r][name].generation + 1
      /\ file'[name].generation \in Nat
      /\ raced \subseteq raced'
      /\ raced' = raced \/ \E q \in Runs \ {r} : HasLocked(q, name)
      /\ name \notin raced' => \A q \in Runs \ {r} : pc[q] # On("replace", name)
      /\ file'[name] = [generation |-> file'[name].generation,
                        content    |-> file'[name].content]
      /\ \A n \in LedgerNames \ {name} : file'[n] = file[n]
      /\ file' = [n \in LedgerNames |-> file'[n]]
      /\ UNCHANGED <<lock, verdict, answers>>
  BY SaveReplaceFacts
<1>3. /\ loaded' = [q \in Runs |-> loaded'[q]]
      /\ \A q \in Runs : loaded'[q] = [n \in LedgerNames |-> loaded'[q][n]]
      /\ \A q \in Runs : \A n \in LedgerNames :
           /\ loaded'[q][n] = [generation |-> loaded'[q][n].generation,
                               content    |-> loaded'[q][n].content]
           /\ loaded'[q][n].generation \in Nat
      /\ \A q \in Runs \ {r} : loaded'[q] = loaded[q]
      /\ \A n \in LedgerNames \ {name} : loaded'[r][n] = loaded[r][n]
      /\ loaded'[r][name].generation = loaded[r][name].generation + 1
  BY <1>1, SaveReplaceMemory
<1>4. /\ dirty' \in [Runs -> BOOLEAN]
      /\ \A q \in Runs \ {r} : dirty'[q] = dirty[q]
      /\ name = "streams" => dirty' = dirty
  BY <1>1 DEF SaveReplace, Shape
<1>5. \/ pc'[r] = On("check", "approvals") /\ Uses(r, "approvals") /\ name = "streams"
      \/ pc'[r] = At("exit")
  <2>1. pc'[r] = NextOf(r, "check", name, "exit") BY <1>1, <1>2 DEF Shape
  <2>2. QED BY <2>1, NextStep
<1>6. \/ /\ Step(r)' = "check" /\ Ledger(r)' = "approvals"
         /\ Uses(r, "approvals") /\ name = "streams"
      \/ Step(r)' = "exit" /\ Ledger(r)' = ""
  BY <1>5, WhereNext
<1>7. Shape'
  <2>1. pc'[r] \in (Working \cup Resting) \X (LedgerNames \cup {""})
    BY <1>5, PlaceType DEF LedgerNames
  <2>2. pc' \in [Runs -> (Working \cup Resting) \X (LedgerNames \cup {""})]
    BY <1>1, <1>2, <2>1 DEF Shape
  <2>3. ASSUME NEW n \in LedgerNames
        PROVE  /\ file'[n] = [generation |-> file'[n].generation,
                              content    |-> file'[n].content]
               /\ file'[n].generation \in Nat
    <3>1. CASE n = name BY <1>2, <3>1
    <3>2. CASE n # name
      <4>1. file'[n] = file[n] BY <1>2, <3>2
      <4>2. /\ file[n] = [generation |-> file[n].generation, content |-> file[n].content]
            /\ file[n].generation \in Nat
        BY <1>1 DEF Shape
      <4>3. QED BY <4>1, <4>2
    <3>3. QED BY <3>1, <3>2
  <2>4. /\ lock' \in [LedgerNames -> Runs \cup {NoRun}]
        /\ (verdict = [q \in Runs |-> verdict[q]])'
        /\ answers' \in [Runs -> Seq({UNSPENT, SPENT, NO_ANSWER})]
    BY <1>1, <1>2 DEF Shape
  <2>5. QED BY <1>2, <1>3, <1>4, <2>2, <2>3, <2>4 DEF Shape
<1>8. \A n \in LedgerNames :
        /\ HasLocked(r, n)' => HasLocked(r, n)
        /\ HasLoaded(r, n)' => HasLoaded(r, n)
  BY <1>2, <1>6 DEF HasLocked, HasLoaded, LedgerNames, Working, Saving
<1>9. RunInv(r)'
  <2>1. InUse(r)' BY <1>6 DEF InUse, LedgerNames
  <2>2. Generations(r)'
    <3>1. SUFFICES ASSUME NEW n \in LedgerNames, n \notin raced'
                   PROVE  /\ loaded'[r][n].generation <= file'[n].generation
                          /\ Step(r)' # "replace"
      BY DEF Generations
    <3>2. Step(r)' # "replace" BY <1>6
    <3>3. CASE n = name BY <1>2, <1>3, <3>2, <3>3
    <3>4. CASE n # name
      <4>1. loaded'[r][n] = loaded[r][n] /\ file'[n] = file[n] /\ n \notin raced
        BY <1>2, <1>3, <3>1, <3>4
      <4>2. QED BY <1>1, <3>2, <4>1 DEF RunInv, Generations
    <3>5. QED BY <3>3, <3>4
  <2>3. \A n \in LedgerNames \ {name} : UpToDate(r, n)' => UpToDate(r, n)
    BY <1>2, <1>3, <1>8 DEF UpToDate
  <2>4. StreamsAsRead(r)' BY <1>6 DEF StreamsAsRead, Locking, Saving
  <2>5. Unasked(r)' BY <1>6 DEF Unasked, Locking
  <2>6. ApprovalsAsRead(r)'
    BY <1>1, <1>2, <1>3, <1>4, <1>6, <2>3
    DEF RunInv, ApprovalsAsRead, Spending, LedgerNames
  <2>7. Complete(r)' /\ Marked(r)'
    BY <1>1, <1>2, <1>4, <1>6 DEF RunInv, Complete, Marked, Saving, Working
  <2>8. QED BY <2>1, <2>2, <2>4, <2>5, <2>6, <2>7 DEF RunInv
<1>10. \A n \in LedgerNames : FileKept(n)
  <2>1. ASSUME name \notin raced' PROVE MovedOn(name)
    <3>1. file'[name].generation > file[name].generation
      <4>1. loaded[r][name].generation = file[name].generation
        BY <1>1, <1>2, <2>1 DEF RunInv, Generations
      <4>2. file[name].generation \in Nat BY <1>1 DEF Shape
      <4>3. QED BY <1>2, <4>1, <4>2
    <3>2. ASSUME NEW q \in Runs, Step(q)' = "replace", Ledger(q)' = name PROVE FALSE
      <4>1. q # r
        <5>1. SUFFICES ASSUME q = r PROVE FALSE OBVIOUS
        <5>2. pc'[q][1] = "replace" BY <3>2 DEF Step
        <5>3. pc'[r][1] # "replace" BY <1>6 DEF Step
        <5>4. QED BY <5>1, <5>2, <5>3
      <4>2. pc'[q] = pc[q] BY <1>1, <1>2, <4>1 DEF Shape
      <4>3. pc[q] = <<Step(q), Ledger(q)>>
        <5>1. pc[q] \in (Working \cup Resting) \X (LedgerNames \cup {""})
          BY <1>1 DEF Shape
        <5>2. QED BY <5>1, PairParts DEF Step, Ledger
      <4>4. Step(q) = "replace" /\ Ledger(q) = name BY <3>2, <4>2 DEF Step, Ledger
      <4>5. pc[q] = On("replace", name) BY <4>3, <4>4 DEF On
      <4>6. QED BY <1>2, <2>1, <4>1, <4>5
    <3>3. QED BY <3>1, <3>2 DEF MovedOn
  <2>2. QED BY <1>2, <2>1 DEF FileKept
<1>11. pc' = [pc EXCEPT ![r] = pc'[r]] BY <1>1, <1>2 DEF Shape
<1>12. \A q \in Runs \ {r} : RunInv(q)'
  BY <1>2, <1>3, <1>4, <1>7, <1>10, <1>11, OthersKeep
<1>13. Guarded(r)
  <2>1. \A q \in Runs \ {r} : pc'[q] = pc[q] BY <1>1, <1>11 DEF Shape
  <2>2. \A n \in LedgerNames :
          /\ HasLoaded(r, n)' =>
               \/ loaded'[r][n].generation = file'[n].generation
               \/ /\ HasLoaded(r, n) /\ file'[n] = file[n]
                  /\ loaded'[r][n].generation = loaded[r][n].generation
          /\ file'[n] = file[n] \/ HasLocked(r, n)
    BY <1>2, <1>3, <1>8
  <2>3. QED BY <1>2, <1>3, <1>8, <2>1, <2>2 DEF Guarded
<1>14. QED BY <1>7, <1>9, <1>12, <1>13 DEF Inv

-----------------------------------------------------------------------------
(* Where locks are honoured, the ledgers a run works on are its own.       *)
Holds(r) ==
  \A name \in LedgerNames : HasLocked(r, name) => lock[name] = r

Current(r) ==
  \A name \in LedgerNames :
    HasLoaded(r, name) => loaded[r][name].generation = file[name].generation

Locked ==
  /\ \A r \in Runs : Holds(r) /\ Current(r)
  /\ raced = {}

LEMMA InitLocked == Init => Locked
<1>. SUFFICES ASSUME Init PROVE Locked OBVIOUS
<1>1. ASSUME NEW r \in Runs, NEW name PROVE ~HasLocked(r, name)
  <2>1. Step(r) = "idle" BY DEF Init, At, Step
  <2>2. QED BY <2>1 DEF HasLocked, Working, Locking, Saving
<1>2. QED BY <1>1 DEF Locked, Holds, Current, HasLoaded, Init

LEMMA GuardedLocked ==
  ASSUME NEW r \in Runs, Locked, Guarded(r) PROVE Locked'
<1>1. ASSUME NEW n \in LedgerNames, HasLocked(r, n) PROVE lock[n] = r
  BY <1>1 DEF Locked, Holds
<1>2. raced' = {}
  <2>1. ASSUME NEW n \in LedgerNames, NEW q \in Runs \ {r},
               HasLocked(r, n), HasLocked(q, n)
        PROVE  FALSE
    BY <2>1 DEF Locked, Holds
  <2>2. QED BY <2>1 DEF Locked, Guarded
<1>3. Holds(r)' /\ Current(r)'
  BY <1>1 DEF Locked, Guarded, Holds, Current
<1>4. ASSUME NEW q \in Runs \ {r} PROVE Holds(q)' /\ Current(q)'
  <2>1. pc'[q] = pc[q] /\ loaded'[q] = loaded[q] BY DEF Guarded
  <2>2. \A n \in LedgerNames :
          /\ HasLocked(q, n)' <=> HasLocked(q, n)
          /\ HasLoaded(q, n)' <=> HasLoaded(q, n)
    BY <2>1 DEF HasLocked, HasLoaded, Step, Ledger
  <2>3. ASSUME NEW n \in LedgerNames, HasLocked(q, n)
        PROVE  lock'[n] = q /\ file'[n] = file[n]
    <3>1. lock[n] = q BY <2>3 DEF Locked, Holds
    <3>2. lock'[n] = lock[n] BY <3>1, RunsAssumption DEF Guarded
    <3>3. ~HasLocked(r, n) BY <1>1, <3>1
    <3>4. QED BY <3>1, <3>2, <3>3 DEF Guarded
  <2>4. Holds(q)' BY <2>2, <2>3 DEF Holds
  <2>5. Current(q)'
    BY <2>1, <2>2, <2>3 DEF Locked, Current, HasLoaded
  <2>6. QED BY <2>4, <2>5
<1>5. QED BY <1>2, <1>3, <1>4 DEF Locked

(* The invariant is inductive, locks or no locks; so is Locked with them.  *)
LEMMA NextInv ==
  ASSUME Inv, [Next]_vars
  PROVE  Inv' /\ (HaveFileLocking /\ Locked => Locked')
<1>. DEFINE Kept == Inv' /\ (HaveFileLocking /\ Locked => Locked')
<1>0. ASSUME NEW r \in Runs, Inv' /\ (HaveFileLocking => Guarded(r)) PROVE Kept
  BY <1>0, GuardedLocked
<1>. HIDE DEF Kept
<1>1. ASSUME NEW r \in Runs, Start(r) PROVE Kept
  BY <1>0, <1>1, StartInv
<1>2. ASSUME NEW r \in Runs, NEW name \in LedgerNames, Lock(r, name) PROVE Kept
  BY <1>0, <1>2, LockInv
<1>3. ASSUME NEW r \in Runs, NEW name \in LedgerNames,
             LockTimeout(r, name) \/ SaveRefused(r, name)
      PROVE  Kept
  <2>1. /\ Leave(r, "failed")
        /\ UNCHANGED <<file, raced, loaded, dirty, verdict, answers>>
    BY <1>3 DEF LockTimeout, SaveRefused, disk, memory, output
  <2>2. QED BY <1>0, <2>1, LeaveInv
<1>4. ASSUME NEW r \in Runs, NEW name \in LedgerNames, Load(r, name) PROVE Kept
  BY <1>0, <1>4, LoadInv
<1>5. ASSUME NEW r \in Runs, NEW name \in LedgerNames, SaveNothing(r, name) PROVE Kept
  BY <1>0, <1>5, SaveNothingInv
<1>6. ASSUME NEW r \in Runs, NEW name \in LedgerNames, SaveCheck(r, name) PROVE Kept
  BY <1>0, <1>6, SaveCheckInv
<1>7. ASSUME NEW r \in Runs, NEW name \in LedgerNames, SaveReplace(r, name) PROVE Kept
  BY <1>0, <1>7, SaveReplaceInv
<1>8. ASSUME NEW r \in Runs, Score(r) PROVE Kept
  BY <1>0, <1>8, ScoreInv
<1>9. ASSUME NEW r \in Runs, Emit(r) PROVE Kept
  BY <1>0, <1>9, EmitInv
<1>10. ASSUME NEW r \in Runs, EmitEnd(r) PROVE Kept
  BY <1>0, <1>10, EmitEndInv
<1>11. ASSUME NEW r \in Runs, Exit(r) PROVE Kept
  <2>1. Leave(r, "done") /\ UNCHANGED <<file, raced, loaded, dirty, verdict, answers>>
    BY <1>11 DEF Exit, disk, memory, output
  <2>2. QED BY <1>0, <2>1, LeaveInv
<1>12. ASSUME NEW r \in Runs, Stop(r) PROVE Kept
  <2>1. Leave(r, "failed") /\ UNCHANGED <<file, raced, loaded, dirty, verdict, answers>>
    BY <1>12 DEF Stop, disk, memory, output
  <2>2. QED BY <1>0, <2>1, LeaveInv
<1>13. ASSUME NEW r \in Runs, Hang(r) PROVE Kept
  BY <1>0, <1>13, HangInv
<1>14. ASSUME UNCHANGED vars PROVE Kept
  <2>1. Shape' BY <1>14 DEF Inv, Shape, vars
  <2>2. \A r \in Runs : RunInv(r)' BY <1>14, <2>1, Frame DEF Inv, vars, FileKept
  <2>3. Locked => Locked'
    BY <1>14 DEF vars, Locked, Holds, Current, HasLoaded, HasLocked, Step, Ledger
  <2>4. QED BY <2>1, <2>2, <2>3 DEF Kept, Inv
<1>15. QED
  BY <1>1, <1>2, <1>3, <1>4, <1>5, <1>6, <1>7, <1>8, <1>9, <1>10, <1>11, <1>12,
     <1>13, <1>14
  DEF Next, Proceed, Kept

(* Whatever the interleaving, and without locks, a ledger in memory whose  *)
(* generation is still the file's is that file and this run's observations *)
(* (StreamLedger.save, ApprovalLedger.save), short of overlapping saves.   *)
THEOREM GenerationTells == Spec => []Inv
<1>1. Init => Inv BY InitInv
<1>2. Inv /\ [Next]_vars => Inv' BY NextInv
<1>3. QED BY <1>1, <1>2, PTL DEF Spec

(* Where locks are honoured, a run that holds a loaded ledger holds its    *)
(* lock, and what it holds is the file plus its own observations, at every *)
(* moment between its load and its save (StreamLedger.locked, cmd_score).  *)
THEOREM LoadedIsCurrent == HaveFileLocking => (Spec => [](Inv /\ Locked))
<1>. SUFFICES ASSUME HaveFileLocking PROVE Spec => [](Inv /\ Locked) OBVIOUS
<1>1. Init => Inv /\ Locked BY InitInv, InitLocked
<1>2. Inv /\ Locked /\ [Next]_vars => (Inv /\ Locked)' BY NextInv
<1>3. QED BY <1>1, <1>2, PTL DEF Spec

-----------------------------------------------------------------------------
(* The abstract ledgers' operators are those of Observation.               *)
LEMMA SameJudgement ==
  ASSUME NEW b, NEW ledger
  PROVE  Ledgers!Judged(b, ledger) = Judged(b, ledger)
<1>1. Ledgers!View(b, ledger) = View(b, ledger)
  BY DEF Ledgers!View, View, Ledgers!Known, Known, Ledgers!LastOf, LastOf,
         Ledgers!Positions, Positions, Ledgers!NoHead, NoHead
<1>2. \A s, view : Ledgers!Compare(ledger, s, view) = Compare(ledger, s, view)
  BY DEF Ledgers!Compare, Compare, Ledgers!Known, Known,
         Ledgers!CompareContinuation, CompareContinuation,
         Ledgers!CompareOverlap, CompareOverlap, Ledgers!SeenVerdict, SeenVerdict,
         Ledgers!SEEN_NEW, SEEN_NEW, Ledgers!SEEN_ADVANCED, SEEN_ADVANCED,
         Ledgers!SEEN_DISCONTINUOUS, SEEN_DISCONTINUOUS,
         Ledgers!SEEN_REPLAYED, SEEN_REPLAYED, Ledgers!SEEN_FORKED, SEEN_FORKED,
         Ledgers!SEEN_AFTER_CLOSE, SEEN_AFTER_CLOSE,
         Ledgers!BOUNDARY_MATCH, BOUNDARY_MATCH,
         Ledgers!BOUNDARY_DIFFERS, BOUNDARY_DIFFERS,
         Ledgers!BOUNDARY_UNSTATED, BOUNDARY_UNSTATED,
         Ledgers!BOUNDARY_GAP, BOUNDARY_GAP,
         Ledgers!BOUNDARY_NOT_COMPARED, BOUNDARY_NOT_COMPARED,
         Ledgers!NoHead, NoHead
<1>3. QED BY <1>1, <1>2 DEF Ledgers!Judged, Judged

LEMMA SameRecord ==
  ASSUME NEW b, NEW ledger
  PROVE  Ledgers!AsDocument(Ledgers!Scored(b, ledger)) = AsDocument(Scored(b, ledger))
<1>1. Ledgers!View(b, ledger) = View(b, ledger)
  BY DEF Ledgers!View, View, Ledgers!Known, Known, Ledgers!LastOf, LastOf,
         Ledgers!Positions, Positions, Ledgers!NoHead, NoHead
<1>2. ASSUME NEW s, NEW outcome, NEW view, NEW admit
      PROVE  Ledgers!Record(ledger, s, outcome, view, admit) =
               Record(ledger, s, outcome, view, admit)
  BY DEF Ledgers!Record, Record, Ledgers!Known, Known, Ledgers!Advances, Advances,
         Ledgers!LedgerFull, LedgerFull, Ledgers!SeenStream, SeenStream,
         Ledgers!MergedStream, MergedStream, Ledgers!SEEN_REPLAYED, SEEN_REPLAYED,
         Ledgers!SEEN_FORKED, SEEN_FORKED, Ledgers!SEEN_AFTER_CLOSE, SEEN_AFTER_CLOSE,
         Ledgers!Cardinality, Cardinality
<1>3. QED BY <1>1, <1>2, SameJudgement
          DEF Ledgers!Scored, Scored, Ledgers!AsDocument, AsDocument

LEMMA SameApprovals ==
  ASSUME NEW b, NEW replies, NEW spent
  PROVE  /\ \A nonce : Ledgers!Answer(nonce, spent) = Answer(nonce, spent)
         /\ \A n : Ledgers!SpentAfter(b, replies, n, spent) = SpentAfter(b, replies, n, spent)
<1>1. ASSUME NEW nonce PROVE Ledgers!Answer(nonce, spent) = Answer(nonce, spent)
  BY DEF Ledgers!Answer, Answer, Ledgers!Cardinality, Cardinality,
    Ledgers!UNSPENT, UNSPENT, Ledgers!SPENT, SPENT, Ledgers!NO_ANSWER, NO_ANSWER
<1>2. ASSUME NEW n
      PROVE  Ledgers!SpentAfter(b, replies, n, spent) = SpentAfter(b, replies, n, spent)
  BY DEF Ledgers!SpentAfter, SpentAfter, Ledgers!Granted, Granted,
    Ledgers!UNSPENT, UNSPENT
<1>3. QED BY <1>1, <1>2

-----------------------------------------------------------------------------
(* Each step is a step of the abstract ledgers or leaves them alone.       *)
LEMMA ObservesStream ==
  ASSUME NEW r \in Runs, Inv, Locked, SaveReplace(r, "streams")
  PROVE  Ledgers!ObserveStream(r)
<1>. DEFINE old == file["streams"].content
            b   == Batch[r]
<1>1. "streams" \in LedgerNames /\ "approvals" \in LedgerNames \ {"streams"}
  BY DEF LedgerNames
<1>2. /\ Step(r) = "replace" /\ Ledger(r) = "streams" /\ HasLoaded(r, "streams")
      /\ file'["streams"].content = OnDisk(r, "streams")
      /\ file'["approvals"] = file["approvals"]
      /\ told' = Append(told, Observed(r, "streams"))
  BY <1>1, SaveReplaceFacts
<1>3. /\ loaded[r]["streams"].content = Scored(b, old)
      /\ verdict[r] = Judged(b, old).status
  <2>1. UpToDate(r, "streams")
    BY <1>1, <1>2 DEF Locked, Current, UpToDate
  <2>2. QED BY <1>2, <2>1 DEF Inv, RunInv, StreamsAsRead, Saving
<1>4. file'["streams"].content = AsDocument(Scored(b, old))
  BY <1>2, <1>3 DEF OnDisk
<1>5. told' = Append(told, [run |-> r, ledger |-> "streams", outcome |-> Judged(b, old).status])
  BY <1>2, <1>3 DEF Observed
<1>6. /\ Ledgers!AsDocument(Ledgers!Scored(b, old)) = AsDocument(Scored(b, old))
      /\ Ledgers!Judged(b, old) = Judged(b, old)
  BY SameJudgement, SameRecord
<1>7. QED BY <1>2, <1>4, <1>5, <1>6 DEF Ledgers!ObserveStream

(* What the run was told fits the abstract ledger's answers.               *)
LEMMA AnswersFit ==
  ASSUME NEW r \in Runs, Inv, Locked, Step(r) \in Saving, HasLoaded(r, "approvals")
  PROVE  /\ answers[r] \in [DOMAIN Batch[r].nonces -> {UNSPENT, SPENT, NO_ANSWER}]
         /\ Ledgers!InTurn(Batch[r], answers[r], file["approvals"].content)
         /\ loaded[r]["approvals"].content =
              SpentAfter(Batch[r], answers[r], Len(Batch[r].nonces),
                         file["approvals"].content)
         /\ dirty[r] = FALSE =>
              loaded[r]["approvals"].content = file["approvals"].content
<1>. DEFINE b     == Batch[r]
            spent == file["approvals"].content
<1>1. Len(answers[r]) = Len(b.nonces) BY DEF Inv, RunInv, Complete
<1>2. Spending(r, spent)
  <2>1. Step(r) # "exit" BY DEF Saving
  <2>2. UpToDate(r, "approvals") BY DEF Locked, Current, UpToDate, LedgerNames
  <2>3. QED BY <2>1, <2>2 DEF Inv, RunInv, ApprovalsAsRead
<1>3. /\ answers[r] \in Seq({UNSPENT, SPENT, NO_ANSWER})
      /\ b.nonces \in Seq(Nonces \cup {NoNonce})
  BY ObservationAssumption DEF Batches, Inv, Shape
<1>4. /\ DOMAIN answers[r] = 1 .. Len(answers[r])
      /\ DOMAIN b.nonces = 1 .. Len(b.nonces)
      /\ answers[r] \in [1 .. Len(answers[r]) -> {UNSPENT, SPENT, NO_ANSWER}]
  BY <1>3
<1>5. answers[r] \in [DOMAIN b.nonces -> {UNSPENT, SPENT, NO_ANSWER}]
  BY <1>1, <1>4
<1>6. Ledgers!InTurn(b, answers[r], spent)
  <2>1. ASSUME NEW n \in DOMAIN answers[r]
        PROVE  answers[r][n] =
                 Ledgers!Answer(b.nonces[n], Ledgers!SpentAfter(b, answers[r], n - 1, spent))
    <3>1. answers[r][n] = Answer(b.nonces[n], SpentAfter(b, answers[r], n - 1, spent))
      BY <1>2 DEF Spending
    <3>2. Ledgers!SpentAfter(b, answers[r], n - 1, spent) = SpentAfter(b, answers[r], n - 1, spent)
      BY SameApprovals
    <3>3. QED BY <3>1, <3>2, SameApprovals
  <2>2. QED BY <2>1 DEF Ledgers!InTurn
<1>7. loaded[r]["approvals"].content = SpentAfter(b, answers[r], Len(b.nonces), spent)
  BY <1>1, <1>2 DEF Spending
<1>8. dirty[r] = FALSE => loaded[r]["approvals"].content = spent
  <2>1. SUFFICES ASSUME dirty[r] = FALSE PROVE Granted(b, answers[r], Len(answers[r])) = {}
    BY <1>2 DEF Spending, SpentAfter
  <2>2. \A n \in 1 .. Len(answers[r]) : answers[r][n] # UNSPENT
    BY <1>4, <2>1 DEF Inv, RunInv, Marked, Working, Saving
  <2>3. QED BY <2>2 DEF Granted
<1>9. QED BY <1>5, <1>6, <1>7, <1>8

LEMMA ObservesApprovals ==
  ASSUME NEW r \in Runs, Inv, Locked,
         SaveReplace(r, "approvals") \/ SaveNothing(r, "approvals")
  PROVE  Ledgers!ObserveApprovals(r)
<1>. DEFINE b     == Batch[r]
            spent == file["approvals"].content
<1>1. "approvals" \in LedgerNames /\ "streams" \in LedgerNames \ {"approvals"}
  BY DEF LedgerNames
<1>2. Step(r) \in Saving /\ HasLoaded(r, "approvals")
  <2>1. Step(r) \in Saving /\ Ledger(r) = "approvals"
    BY Where DEF SaveReplace, SaveNothing, Saving
  <2>2. Uses(r, "approvals") BY <1>1, <2>1 DEF Inv, RunInv, InUse
  <2>3. QED BY <2>1, <2>2 DEF HasLoaded, HasLocked, Working, Saving
<1>3. /\ answers[r] \in [DOMAIN b.nonces -> {UNSPENT, SPENT, NO_ANSWER}]
      /\ Ledgers!InTurn(b, answers[r], spent)
      /\ loaded[r]["approvals"].content = SpentAfter(b, answers[r], Len(b.nonces), spent)
      /\ dirty[r] = FALSE => loaded[r]["approvals"].content = spent
  BY <1>2, AnswersFit
<1>4. /\ file'["approvals"].content = loaded[r]["approvals"].content
      /\ file'["streams"] = file["streams"]
      /\ told' = Append(told, Observed(r, "approvals"))
  <2>1. CASE SaveReplace(r, "approvals")
    <3>1. /\ file'["approvals"].content = OnDisk(r, "approvals")
          /\ file'["streams"] = file["streams"]
          /\ told' = Append(told, Observed(r, "approvals"))
      BY <1>1, <2>1, SaveReplaceFacts
    <3>2. QED BY <3>1 DEF OnDisk
  <2>2. CASE SaveNothing(r, "approvals")
    <3>1. dirty[r] = FALSE
      BY <2>2 DEF SaveNothing, NothingToSave, Inv, Shape
    <3>2. QED BY <1>3, <2>2, <3>1 DEF SaveNothing
  <2>3. QED BY <2>1, <2>2
<1>5. told' = Append(told, [run |-> r, ledger |-> "approvals", outcome |-> answers[r]])
  BY <1>4 DEF Observed
<1>6. file'["approvals"].content =
        Ledgers!SpentAfter(b, answers[r], Len(b.nonces), spent)
  <2>1. Ledgers!SpentAfter(b, answers[r], Len(b.nonces), spent) =
          SpentAfter(b, answers[r], Len(b.nonces), spent)
    BY SameApprovals
  <2>2. QED BY <1>3, <1>4, <2>1
<1>7. answers[r] \in [DOMAIN b.nonces ->
                        {Ledgers!UNSPENT, Ledgers!SPENT, Ledgers!NO_ANSWER}]
  BY <1>3 DEF Ledgers!UNSPENT, UNSPENT, Ledgers!SPENT, SPENT, Ledgers!NO_ANSWER, NO_ANSWER
<1>8. QED BY <1>3, <1>4, <1>5, <1>6, <1>7 DEF Ledgers!ObserveApprovals

LEMMA InitMaps == Init => Ledgers!AInit
<1>. SUFFICES ASSUME Init PROVE Ledgers!AInit OBVIOUS
<1>1. Ledgers!EmptyLedger = EmptyLedger BY DEF Ledgers!EmptyLedger, EmptyLedger
<1>2. Missing["streams"].content = EmptyLedger /\ Missing["approvals"].content = {}
  BY DEF Missing, LedgerNames
<1>3. QED BY <1>1, <1>2 DEF Init, Ledgers!AInit

LEMMA StepMaps ==
  ASSUME Inv, Locked, [Next]_vars
  PROVE  [Ledgers!ANext]_Ledgers!avars
<1>1. ASSUME UNCHANGED <<file, told>> PROVE UNCHANGED Ledgers!avars
  BY <1>1 DEF Ledgers!avars
<1>2. ASSUME NEW r \in Runs, NEW name \in LedgerNames, SaveReplace(r, name)
      PROVE  Ledgers!ANext
  <2>1. CASE name = "streams" BY <1>2, <2>1, ObservesStream DEF Ledgers!ANext
  <2>2. CASE name = "approvals" BY <1>2, <2>2, ObservesApprovals DEF Ledgers!ANext
  <2>3. QED BY <2>1, <2>2 DEF LedgerNames
<1>3. ASSUME NEW r \in Runs, NEW name \in LedgerNames, SaveNothing(r, name)
      PROVE  Ledgers!ANext
  <2>1. name = "approvals" BY <1>3 DEF SaveNothing, NothingToSave
  <2>2. QED BY <1>3, <2>1, ObservesApprovals DEF Ledgers!ANext
<1>4. ASSUME NEW r \in Runs, NEW name \in LedgerNames,
             \/ Lock(r, name) \/ LockTimeout(r, name) \/ Load(r, name)
             \/ SaveCheck(r, name) \/ SaveRefused(r, name)
      PROVE  UNCHANGED <<file, told>>
  BY <1>4 DEF Lock, LockTimeout, Load, SaveCheck, SaveRefused, disk
<1>5. ASSUME NEW r \in Runs,
             \/ Start(r) \/ Score(r) \/ Emit(r) \/ EmitEnd(r) \/ Exit(r)
             \/ Stop(r) \/ Hang(r)
      PROVE  UNCHANGED <<file, told>>
  BY <1>5 DEF Start, Score, Emit, EmitEnd, Exit, Stop, Hang, disk
<1>6. UNCHANGED vars => UNCHANGED <<file, told>> BY DEF vars
<1>7. QED BY <1>1, <1>2, <1>3, <1>4, <1>5, <1>6 DEF Next, Proceed

(* Where locks are honoured, any number of runs, started, stopped, hung    *)
(* and interleaved in any way, leave the ledgers as if their saves had     *)
(* been whole runs one after the other, each judged against all before it  *)
(* (StreamLedger.locked, ApprovalLedger.locked, cmd_score).                *)
THEOREM RunsAreSerial == HaveFileLocking => (Spec => Serialised)
<1>. SUFFICES ASSUME HaveFileLocking PROVE Spec => Serialised OBVIOUS
<1>1. Init => Ledgers!AInit BY InitMaps
<1>2. Inv /\ Locked /\ [Next]_vars => [Ledgers!ANext]_Ledgers!avars BY StepMaps
<1>3. Spec => [](Inv /\ Locked) BY LoadedIsCurrent
<1>4. QED BY <1>1, <1>2, <1>3, PTL DEF Spec, Serialised, Ledgers!ASpec

-----------------------------------------------------------------------------
(* What was told, in order.                                                *)
ToldInRuns ==
  /\ \E S : told \in Seq(S)
  /\ \A i \in DOMAIN told : told[i].run \in Runs

LEMMA ToldGrows ==
  ASSUME ToldInRuns, NEW e, e.run \in Runs, told' = Append(told, e)
  PROVE  /\ ToldInRuns'
         /\ Len(told) \in Nat /\ DOMAIN told = 1 .. Len(told)
         /\ DOMAIN told' = 1 .. Len(told) + 1
         /\ \A i \in DOMAIN told : told'[i] = told[i]
         /\ told'[Len(told) + 1] = e
<1>1. PICK S : told \in Seq(S) BY DEF ToldInRuns
<1>2. told \in Seq(S \cup {e})
  <2>1. told \in [1 .. Len(told) -> S] /\ Len(told) \in Nat BY <1>1
  <2>2. told \in [1 .. Len(told) -> S \cup {e}] BY <2>1
  <2>3. QED BY <2>1, <2>2, SeqDef
<1>3. told' \in Seq(S \cup {e}) BY <1>2
<1>4. /\ Len(told) \in Nat /\ DOMAIN told = 1 .. Len(told)
      /\ DOMAIN told' = 1 .. Len(told) + 1
      /\ \A i \in DOMAIN told : told'[i] = told[i]
      /\ told'[Len(told) + 1] = e
  BY <1>2
<1>5. \A i \in DOMAIN told' : told'[i].run \in Runs
  <2>1. \A i \in DOMAIN told' : i \in DOMAIN told \/ i = Len(told) + 1 BY <1>4
  <2>2. QED BY <1>4, <2>1 DEF ToldInRuns
<1>6. QED BY <1>3, <1>4, <1>5 DEF ToldInRuns

(* An observation of one ledger says nothing of the other's.               *)
LEMMA ToldElsewhere ==
  ASSUME ToldInRuns, NEW e, e.run \in Runs, told' = Append(told, e),
         NEW name, e.ledger # name
  PROVE  /\ ToldOf(name)' = ToldOf(name)
         /\ \A i \in ToldOf(name) : told'[i] = told[i]
<1>1. /\ DOMAIN told = 1 .. Len(told) /\ Len(told) \in Nat
      /\ DOMAIN told' = 1 .. Len(told) + 1
      /\ \A i \in DOMAIN told : told'[i] = told[i]
      /\ told'[Len(told) + 1] = e
  BY ToldGrows
<1>2. \A i : i \in DOMAIN told' <=> i \in DOMAIN told \/ i = Len(told) + 1 BY <1>1
<1>3. QED BY <1>1, <1>2 DEF ToldOf

LEMMA ToldHere ==
  ASSUME ToldInRuns, NEW e, e.run \in Runs, told' = Append(told, e)
  PROVE  /\ ToldOf(e.ledger)' = ToldOf(e.ledger) \cup {Len(told) + 1}
         /\ \A i \in ToldOf(e.ledger) :
              i < Len(told) + 1 /\ i \in Nat /\ told'[i] = told[i]
         /\ told'[Len(told) + 1] = e
         /\ Len(told) \in Nat
<1>1. /\ DOMAIN told = 1 .. Len(told) /\ Len(told) \in Nat
      /\ DOMAIN told' = 1 .. Len(told) + 1
      /\ \A i \in DOMAIN told : told'[i] = told[i]
      /\ told'[Len(told) + 1] = e
  BY ToldGrows
<1>2. \A i : i \in DOMAIN told' <=> i \in DOMAIN told \/ i = Len(told) + 1 BY <1>1
<1>3. \A i \in DOMAIN told : i < Len(told) + 1 /\ i \in Nat BY <1>1
<1>4. QED BY <1>1, <1>2, <1>3 DEF ToldOf

-----------------------------------------------------------------------------
(* What one observation does to a ledger of streams.                       *)
Positioned(ledger) ==
  /\ ledger = [entries |-> ledger.entries, exhausted |-> ledger.exhausted]
  /\ ledger.entries = [s \in DOMAIN ledger.entries |-> ledger.entries[s]]
  /\ \A s \in DOMAIN ledger.entries : ledger.entries[s].last \in Nat

Placed(b) == b.first \in Nat /\ LastOf(b) \in Nat

LEMMA BatchesArePlaced ==
  ASSUME NEW r \in Runs PROVE Placed(Batch[r])
<1>1. Batch[r] \in Batches BY ObservationAssumption
<1>2. Batch[r].first \in Nat /\ Batch[r].heads \in Seq(Heads) \ {<<>>} BY <1>1 DEF Batches
<1>3. Len(Batch[r].heads) \in Nat \ {0} BY <1>2
<1>4. QED BY <1>2, <1>3 DEF Placed, LastOf

LEMMA MergedLast ==
  ASSUME NEW previous, NEW view, previous.last \in Nat, view.last \in Nat
  PROVE  /\ MergedStream(previous, view).last \in Nat
         /\ MergedStream(previous, view).last >= previous.last
         /\ MergedStream(previous, view).last >= view.last
BY DEF MergedStream

(* The entries after an observation, written out.                          *)
Entries(ledger, s, ruling, view, admit) ==
  IF ~Advances(ruling, admit) THEN ledger.entries
  ELSE IF Known(ledger, s)
    THEN [ledger.entries EXCEPT ![s] = MergedStream(ledger.entries[s], view)]
  ELSE IF LedgerFull(ledger) THEN ledger.entries
  ELSE [t \in DOMAIN ledger.entries \cup {s} |->
          IF t = s THEN SeenStream(view) ELSE ledger.entries[t]]

LEMMA NewParts ==
  ASSUME NEW l, NEW e, NEW x, NEW c, l = [entries |-> e, exhausted |-> x]
  PROVE  /\ [l EXCEPT !.exhausted = c] = [entries |-> e, exhausted |-> c]
         /\ [l EXCEPT !.entries = c] = [entries |-> c, exhausted |-> x]
OBVIOUS

LEMMA DocumentParts ==
  ASSUME NEW l, NEW e, NEW x, l = [entries |-> e, exhausted |-> x]
  PROVE  \E c : AsDocument(l) = [entries |-> e, exhausted |-> c]
<1>. DEFINE no == FALSE
<1>1. AsDocument(l) = [l EXCEPT !.exhausted = no] BY DEF AsDocument
<1>. HIDE DEF no
<1>2. QED BY <1>1, NewParts

LEMMA RecordParts ==
  ASSUME NEW ledger, Positioned(ledger), NEW s, NEW ruling, NEW view, NEW admit
  PROVE  \E c : Record(ledger, s, ruling, view, admit) =
                  [entries |-> Entries(ledger, s, ruling, view, admit), exhausted |-> c]
<1>. DEFINE e   == ledger.entries
            x   == ledger.exhausted
            new == Entries(ledger, s, ruling, view, admit)
            yes == TRUE
<1>1. ledger = [entries |-> e, exhausted |-> x] BY DEF Positioned
<1>2. CASE ~Advances(ruling, admit)
  BY <1>1, <1>2 DEF Record, Entries
<1>3. CASE Advances(ruling, admit) /\ Known(ledger, s)
  <2>1. Record(ledger, s, ruling, view, admit) = [ledger EXCEPT !.entries = new]
    BY <1>3 DEF Record, Entries
  <2>. HIDE DEF e, x, new
  <2>2. QED BY <1>1, <2>1, NewParts DEF new
<1>4. CASE Advances(ruling, admit) /\ ~Known(ledger, s) /\ LedgerFull(ledger)
  <2>1. /\ Record(ledger, s, ruling, view, admit) = [ledger EXCEPT !.exhausted = yes]
        /\ new = e
    BY <1>4 DEF Record, Entries
  <2>. HIDE DEF e, x, new, yes
  <2>2. QED BY <1>1, <2>1, NewParts DEF new
<1>5. CASE Advances(ruling, admit) /\ ~Known(ledger, s) /\ ~LedgerFull(ledger)
  <2>1. Record(ledger, s, ruling, view, admit) = [ledger EXCEPT !.entries = new]
    BY <1>5 DEF Record, Entries
  <2>. HIDE DEF e, x, new
  <2>2. QED BY <1>1, <2>1, NewParts DEF new
<1>6. QED BY <1>2, <1>3, <1>4, <1>5

LEMMA RecordedEntries ==
  ASSUME NEW ledger, Positioned(ledger), NEW s, NEW ruling, NEW view, NEW admit
  PROVE  \E c : AsDocument(Record(ledger, s, ruling, view, admit)) =
                  [entries |-> Entries(ledger, s, ruling, view, admit), exhausted |-> c]
<1>. DEFINE new   == Entries(ledger, s, ruling, view, admit)
            after == Record(ledger, s, ruling, view, admit)
<1>1. PICK c : after = [entries |-> new, exhausted |-> c] BY RecordParts
<1>. HIDE DEF new, after
<1>2. \E d : AsDocument(after) = [entries |-> new, exhausted |-> d]
  BY <1>1, DocumentParts
<1>3. QED BY <1>2 DEF after, new

LEMMA EntriesGrow ==
  ASSUME NEW ledger, Positioned(ledger), NEW s, NEW ruling, NEW view, NEW admit,
         view.last \in Nat, NEW c
  PROVE  LET new == Entries(ledger, s, ruling, view, admit) IN
         /\ Positioned([entries |-> new, exhausted |-> c])
         /\ \A t \in DOMAIN ledger.entries :
              t \in DOMAIN new /\ new[t].last >= ledger.entries[t].last
         /\ LedgerFull(ledger) => DOMAIN new = DOMAIN ledger.entries
         /\ Advances(ruling, admit) =>
              IF s \in DOMAIN new THEN new[s].last >= view.last ELSE LedgerFull(ledger)
<1>. DEFINE e   == ledger.entries
            new == Entries(ledger, s, ruling, view, admit)
<1>1. /\ e = [t \in DOMAIN e |-> e[t]]
      /\ \A t \in DOMAIN e : e[t].last \in Nat
  BY DEF Positioned
<1>2. \A f : f = [t \in DOMAIN f |-> f[t]] /\ (\A t \in DOMAIN f : f[t].last \in Nat) =>
        Positioned([entries |-> f, exhausted |-> c])
  BY DEF Positioned
<1>3. CASE new = e /\ ~(Advances(ruling, admit) /\ (Known(ledger, s) \/ ~LedgerFull(ledger)))
  BY <1>1, <1>2, <1>3 DEF Known
<1>4. CASE Advances(ruling, admit) /\ Known(ledger, s)
  <2>. DEFINE merged == MergedStream(e[s], view)
  <2>1. merged.last \in Nat /\ merged.last >= e[s].last /\ merged.last >= view.last
    BY <1>1, <1>4, MergedLast DEF Known
  <2>2. new = [e EXCEPT ![s] = merged] /\ s \in DOMAIN e BY <1>4 DEF Entries, Known
  <2>. HIDE DEF e, new, merged
  <2>3. /\ DOMAIN new = DOMAIN e /\ new = [t \in DOMAIN new |-> new[t]]
        /\ new[s] = merged /\ \A t \in DOMAIN e \ {s} : new[t] = e[t]
    BY <1>1, <2>2
  <2>4. \A t \in DOMAIN e : new[t].last \in Nat /\ new[t].last >= e[t].last
    BY <1>1, <2>1, <2>3
  <2>5. Positioned([entries |-> new, exhausted |-> c]) BY <1>2, <2>3, <2>4
  <2>6. QED BY <2>1, <2>2, <2>3, <2>4, <2>5 DEF e, new
<1>5. CASE Advances(ruling, admit) /\ ~Known(ledger, s) /\ ~LedgerFull(ledger)
  <2>1. /\ new = [t \in DOMAIN e \cup {s} |-> IF t = s THEN SeenStream(view) ELSE e[t]]
        /\ s \notin DOMAIN e
    BY <1>5 DEF Entries, Known
  <2>2. SeenStream(view).last = view.last BY DEF SeenStream
  <2>. HIDE DEF e, new
  <2>3. /\ DOMAIN new = DOMAIN e \cup {s} /\ new = [t \in DOMAIN new |-> new[t]]
        /\ new[s] = SeenStream(view) /\ \A t \in DOMAIN e : new[t] = e[t]
    BY <2>1
  <2>4. \A t \in DOMAIN new : new[t].last \in Nat BY <1>1, <2>2, <2>3
  <2>5. Positioned([entries |-> new, exhausted |-> c]) BY <1>2, <2>3, <2>4
  <2>6. \A t \in DOMAIN e : t \in DOMAIN new /\ new[t].last >= e[t].last
    BY <1>1, <2>3
  <2>7. s \in DOMAIN new /\ new[s].last >= view.last BY <2>2, <2>3
  <2>8. QED BY <1>5, <2>5, <2>6, <2>7 DEF e, new
<1>6. QED BY <1>3, <1>4, <1>5 DEF Entries

(* One observation of one stream.                                          *)
LEMMA ScoredGrows ==
  ASSUME NEW b, Placed(b), NEW old, Positioned(old),
         NEW new, new = AsDocument(Scored(b, old))
  PROVE  /\ Positioned(new)
         /\ \A t \in DOMAIN old.entries :
              t \in DOMAIN new.entries /\ new.entries[t].last >= old.entries[t].last
         /\ LedgerFull(old) => DOMAIN new.entries = DOMAIN old.entries
         /\ Judged(b, old).status \in Fresh /\ b.admit =>
              IF Known(new, b.stream) THEN new.entries[b.stream].last >= LastOf(b)
              ELSE LedgerFull(old)
         /\ Judged(b, old).status \in Fresh /\ Known(old, b.stream) =>
              b.first > old.entries[b.stream].last
<1>. DEFINE view    == View(b, old)
            ruling == Judged(b, old)
            entries == Entries(old, b.stream, ruling, view, b.admit)
<1>1. view.last = LastOf(b) /\ view.last \in Nat /\ view.first = b.first
  BY DEF View, Placed
<1>2. PICK c : new = [entries |-> entries, exhausted |-> c]
  BY RecordedEntries DEF Scored
<1>3. ruling.status \in Fresh /\ b.admit => Advances(ruling, b.admit)
  BY DEF Advances, Fresh, SEEN_NEW, SEEN_ADVANCED, SEEN_DISCONTINUOUS, SEEN_REPLAYED,
         SEEN_FORKED, SEEN_AFTER_CLOSE
<1>4. ruling.status \in Fresh /\ Known(old, b.stream) => b.first > old.entries[b.stream].last
  <2>1. SUFFICES ASSUME Known(old, b.stream), ~(b.first > old.entries[b.stream].last)
                 PROVE  ruling.status \notin Fresh
    OBVIOUS
  <2>2. ruling = CompareOverlap(old.entries[b.stream], view)
    BY <1>1, <2>1 DEF Judged, Compare
  <2>3. ruling.status \in {SEEN_FORKED, SEEN_REPLAYED}
    BY <2>2 DEF CompareOverlap, SeenVerdict
  <2>4. QED BY <2>3 DEF Fresh, SEEN_NEW, SEEN_ADVANCED, SEEN_DISCONTINUOUS,
                        SEEN_REPLAYED, SEEN_FORKED
<1>. HIDE DEF view, ruling
<1>5. /\ Positioned(new)
      /\ \A t \in DOMAIN old.entries :
           t \in DOMAIN entries /\ entries[t].last >= old.entries[t].last
      /\ LedgerFull(old) => DOMAIN entries = DOMAIN old.entries
      /\ Advances(ruling, b.admit) =>
           IF b.stream \in DOMAIN entries THEN entries[b.stream].last >= view.last
           ELSE LedgerFull(old)
  BY <1>1, <1>2, EntriesGrow
<1>6. new.entries = entries BY <1>2
<1>. HIDE DEF entries
<1>7. QED BY <1>1, <1>3, <1>4, <1>5, <1>6 DEF Known, ruling

-----------------------------------------------------------------------------
(* Every answer stays on record: an admitted fresh stretch, in the entry   *)
(* of its stream or in a ledger too full to open one; an unspent nonce.    *)
StaysRecorded(i) ==
  LET ledger == file["streams"].content
      b      == BatchOf(i)
  IN IF Known(ledger, b.stream) THEN ledger.entries[b.stream].last >= LastOf(b)
     ELSE LedgerFull(ledger)

FreshRecorded ==
  "streams" \notin raced =>
    /\ Positioned(file["streams"].content)
    /\ \A i \in ToldOf("streams") :
         told[i].outcome \in Fresh /\ BatchOf(i).admit => StaysRecorded(i)

NonceRecorded ==
  "approvals" \notin raced =>
    \A i \in ToldOf("approvals") : \A m \in DOMAIN told[i].outcome :
      told[i].outcome[m] = UNSPENT =>
        BatchOf(i).nonces[m] \in file["approvals"].content

(* A step that tells nothing of a ledger, and leaves it alone.             *)
LEMMA FreshKept ==
  ASSUME FreshRecorded, FreshOnce, file'["streams"] = file["streams"],
         raced \subseteq raced', ToldOf("streams")' = ToldOf("streams"),
         \A i \in ToldOf("streams") : told'[i] = told[i]
  PROVE  FreshRecorded' /\ FreshOnce'
<1>1. ASSUME "streams" \notin raced' PROVE "streams" \notin raced BY <1>1
<1>2. FreshRecorded' BY <1>1 DEF FreshRecorded, StaysRecorded, BatchOf
<1>3. FreshOnce' BY <1>1 DEF FreshOnce, BatchOf
<1>4. QED BY <1>2, <1>3

LEMMA NonceKept ==
  ASSUME NonceRecorded, NonceOnce, file'["approvals"] = file["approvals"],
         raced \subseteq raced', ToldOf("approvals")' = ToldOf("approvals"),
         \A i \in ToldOf("approvals") : told'[i] = told[i]
  PROVE  NonceRecorded' /\ NonceOnce'
<1>1. ASSUME "approvals" \notin raced' PROVE "approvals" \notin raced BY <1>1
<1>2. NonceRecorded' BY <1>1 DEF NonceRecorded, BatchOf
<1>3. NonceOnce' BY <1>1 DEF NonceOnce, BatchOf
<1>4. QED BY <1>2, <1>3

(* A stream is told of, and recorded.                                      *)
LEMMA FreshStep ==
  ASSUME NEW r \in Runs, Inv, ToldInRuns, FreshRecorded, FreshOnce,
         SaveReplace(r, "streams")
  PROVE  FreshRecorded' /\ FreshOnce'
<1>. DEFINE b   == Batch[r]
            s   == b.stream
            old == file["streams"].content
            new == file'["streams"].content
<1>e. PICK e : e = Observed(r, "streams") OBVIOUS
<1>k. PICK k : k = Len(told) + 1 OBVIOUS
<1>1. "streams" \in LedgerNames BY DEF LedgerNames
<1>2. /\ Step(r) = "replace" /\ Ledger(r) = "streams" /\ HasLoaded(r, "streams")
      /\ new = OnDisk(r, "streams") /\ raced \subseteq raced'
      /\ told' = Append(told, e)
  BY <1>e, <1>1, SaveReplaceFacts
<1>. SUFFICES ASSUME "streams" \notin raced' PROVE FreshRecorded' /\ FreshOnce'
  BY DEF FreshRecorded, FreshOnce
<1>3. "streams" \notin raced BY <1>2
<1>4. loaded[r]["streams"].content = Scored(b, old) /\ verdict[r] = Judged(b, old).status
  <2>1. UpToDate(r, "streams")
    BY <1>1, <1>2, <1>3 DEF Inv, RunInv, Generations, UpToDate
  <2>2. QED BY <1>2, <2>1 DEF Inv, RunInv, StreamsAsRead, Saving
<1>5. new = AsDocument(Scored(b, old)) BY <1>2, <1>4 DEF OnDisk
<1>6. /\ e.run = r /\ e.ledger = "streams" /\ e.outcome = Judged(b, old).status
  BY <1>e, <1>4 DEF Observed
<1>7. /\ ToldOf("streams")' = ToldOf("streams") \cup {k}
      /\ \A i \in ToldOf("streams") : i < k /\ i \in Nat /\ told'[i] = told[i]
      /\ told'[k] = e /\ k \in Nat
  <2>1. e.run \in Runs /\ told' = Append(told, e) BY <1>2, <1>6
  <2>2. /\ ToldOf(e.ledger)' = ToldOf(e.ledger) \cup {Len(told) + 1}
        /\ \A i \in ToldOf(e.ledger) :
             i < Len(told) + 1 /\ i \in Nat /\ told'[i] = told[i]
        /\ told'[Len(told) + 1] = e
        /\ Len(told) \in Nat
    BY <2>1, ToldHere
  <2>3. QED BY <1>k, <1>6, <2>2
<1>8. Positioned(old) BY <1>3 DEF FreshRecorded
<1>9. /\ Positioned(new)
      /\ \A t \in DOMAIN old.entries :
           t \in DOMAIN new.entries /\ new.entries[t].last >= old.entries[t].last
      /\ LedgerFull(old) => DOMAIN new.entries = DOMAIN old.entries
      /\ Judged(b, old).status \in Fresh /\ b.admit =>
           IF Known(new, s) THEN new.entries[s].last >= LastOf(b) ELSE LedgerFull(old)
      /\ Judged(b, old).status \in Fresh /\ Known(old, s) => b.first > old.entries[s].last
  <2>. HIDE DEF old, new
  <2>1. QED BY <1>5, <1>8, BatchesArePlaced, ScoredGrows
<1>10. LedgerFull(old) => LedgerFull(new) BY <1>9 DEF LedgerFull
<1>11. \A t : Known(old, t) => Known(new, t) BY <1>9 DEF Known
<1>12. \A t : LedgerFull(old) /\ Known(new, t) => Known(old, t) BY <1>9 DEF Known
<1>13. \A t \in DOMAIN new.entries : new.entries[t].last \in Nat BY <1>9 DEF Positioned
<1>14. \A t \in DOMAIN old.entries : old.entries[t].last \in Nat BY <1>8 DEF Positioned
(* What the earlier observations left on record.                           *)
<1>15. ASSUME NEW i \in ToldOf("streams"), told[i].outcome \in Fresh, BatchOf(i).admit
       PROVE  /\ Placed(BatchOf(i)) /\ BatchOf(i)' = BatchOf(i)
              /\ StaysRecorded(i) /\ StaysRecorded(i)'
  <2>1. told[i].run \in Runs BY DEF ToldOf, ToldInRuns
  <2>2. Placed(BatchOf(i)) BY <2>1, BatchesArePlaced DEF BatchOf
  <2>3. BatchOf(i)' = BatchOf(i) BY <1>7 DEF BatchOf
  <2>4. StaysRecorded(i) BY <1>3, <1>15 DEF FreshRecorded
  <2>. DEFINE t == BatchOf(i).stream
  <2>5. CASE Known(old, t)
    <3>1. old.entries[t].last >= LastOf(BatchOf(i)) BY <2>4, <2>5 DEF StaysRecorded
    <3>2. Known(new, t) /\ new.entries[t].last >= old.entries[t].last
      BY <1>9, <2>5 DEF Known
    <3>3. LastOf(BatchOf(i)) \in Nat /\ new.entries[t].last \in Nat /\ old.entries[t].last \in Nat
      BY <1>13, <1>14, <2>2, <2>5, <3>2 DEF Known, Placed
    <3>4. new.entries[t].last >= LastOf(BatchOf(i)) BY <3>1, <3>2, <3>3
    <3>5. QED BY <2>2, <2>3, <2>4, <3>2, <3>4 DEF StaysRecorded
  <2>6. CASE ~Known(old, t)
    <3>1. LedgerFull(old) BY <2>4, <2>6 DEF StaysRecorded
    <3>2. ~Known(new, t) /\ LedgerFull(new) BY <1>10, <1>12, <2>6, <3>1
    <3>3. QED BY <2>2, <2>3, <2>4, <3>2 DEF StaysRecorded
  <2>7. QED BY <2>5, <2>6
<1>16. BatchOf(k)' = b BY <1>6, <1>7 DEF BatchOf
<1>17. FreshRecorded'
  <2>1. ASSUME NEW i \in ToldOf("streams"), told'[i].outcome \in Fresh, BatchOf(i)'.admit
        PROVE  StaysRecorded(i)'
    <3>1. told[i].outcome \in Fresh /\ BatchOf(i).admit BY <1>7, <2>1 DEF BatchOf
    <3>2. QED BY <1>15, <3>1
  <2>2. ASSUME told'[k].outcome \in Fresh, b.admit PROVE StaysRecorded(k)'
    <3>1. Judged(b, old).status \in Fresh BY <1>6, <1>7, <2>2
    <3>2. IF Known(new, s) THEN new.entries[s].last >= LastOf(b) ELSE LedgerFull(new)
      BY <1>9, <1>10, <2>2, <3>1
    <3>3. QED BY <1>16, <3>2 DEF StaysRecorded
  <2>3. QED BY <1>7, <1>9, <1>16, <2>1, <2>2 DEF FreshRecorded
<1>18. FreshOnce'
  <2>1. SUFFICES ASSUME NEW i \in ToldOf("streams")', NEW j \in ToldOf("streams")', i < j,
                        BatchOf(i)'.stream = BatchOf(j)'.stream, BatchOf(i)'.admit,
                        Known(new, BatchOf(i)'.stream),
                        told'[i].outcome \in Fresh, told'[j].outcome \in Fresh
                 PROVE  Positions(BatchOf(i)') \cap Positions(BatchOf(j)') = {}
    BY DEF FreshOnce
  <2>2. i \in ToldOf("streams") BY <1>7, <2>1
  <2>3. /\ told'[i] = told[i] /\ BatchOf(i)' = BatchOf(i)
        /\ told[i].outcome \in Fresh /\ BatchOf(i).admit
    BY <1>7, <2>1, <2>2 DEF BatchOf
  <2>4. Known(old, BatchOf(i).stream)
    BY <1>12, <1>15, <2>1, <2>2, <2>3 DEF StaysRecorded
  <2>5. CASE j \in ToldOf("streams")
    <3>1. told'[j] = told[j] /\ BatchOf(j)' = BatchOf(j) BY <1>7, <2>5 DEF BatchOf
    <3>2. QED BY <1>3, <2>1, <2>2, <2>3, <2>4, <2>5, <3>1 DEF FreshOnce
  <2>6. CASE j = k
    <3>1. BatchOf(j)' = b /\ Judged(b, old).status \in Fresh /\ BatchOf(i).stream = s
      BY <1>6, <1>7, <1>16, <2>1, <2>3, <2>6
    <3>2. b.first > old.entries[s].last BY <1>9, <2>4, <3>1
    <3>3. old.entries[s].last >= LastOf(BatchOf(i))
      BY <1>15, <2>2, <2>3, <2>4, <3>1 DEF StaysRecorded
    <3>4. /\ LastOf(BatchOf(i)) \in Nat /\ BatchOf(i).first \in Nat
          /\ old.entries[s].last \in Nat /\ b.first \in Nat /\ LastOf(b) \in Nat
      BY <1>14, <1>15, <2>2, <2>3, <2>4, <3>1, BatchesArePlaced DEF Placed, Known
    <3>5. Positions(BatchOf(i)) \cap Positions(b) = {} BY <3>2, <3>3, <3>4 DEF Positions
    <3>6. QED BY <2>3, <3>1, <3>5
  <2>7. QED BY <1>7, <2>1, <2>5, <2>6
<1>19. QED BY <1>17, <1>18

(* Approvals are told of: what was granted was not on record, and is now.  *)
LEMMA GrantedNow ==
  ASSUME NEW r \in Runs, Inv, "approvals" \notin raced',
         SaveReplace(r, "approvals") \/ SaveNothing(r, "approvals")
  PROVE  /\ told' = Append(told, Observed(r, "approvals"))
         /\ answers[r] \in Seq(Replies)
         /\ file["approvals"].content \subseteq file'["approvals"].content
         /\ \A n \in DOMAIN answers[r] : answers[r][n] = UNSPENT =>
              /\ Batch[r].nonces[n] \notin file["approvals"].content
              /\ Batch[r].nonces[n] \in file'["approvals"].content
              /\ \A m \in DOMAIN answers[r] :
                   m < n /\ answers[r][m] = UNSPENT =>
                     Batch[r].nonces[m] # Batch[r].nonces[n]
<1>. DEFINE b     == Batch[r]
            spent == file["approvals"].content
<1>1. "approvals" \in LedgerNames BY DEF LedgerNames
<1>2. answers[r] \in Seq(Replies) BY DEF Inv, Shape, Replies
<1>3. /\ DOMAIN answers[r] = 1 .. Len(answers[r]) /\ Len(answers[r]) \in Nat
  BY <1>2
<1>4. CASE SaveNothing(r, "approvals")
  <2>1. /\ told' = Append(told, Observed(r, "approvals")) /\ file' = file
        /\ dirty[r] = FALSE
    BY <1>4 DEF SaveNothing, NothingToSave, Inv, Shape
  <2>2. Step(r) = "check" BY <1>4, Where DEF SaveNothing
  <2>3. \A n \in DOMAIN answers[r] : answers[r][n] # UNSPENT
    BY <2>1, <2>2 DEF Inv, RunInv, Marked, Working, Saving
  <2>4. QED BY <1>2, <2>1, <2>3
<1>5. CASE SaveReplace(r, "approvals")
  <2>1. /\ Step(r) = "replace" /\ Ledger(r) = "approvals" /\ HasLoaded(r, "approvals")
        /\ file'["approvals"].content = OnDisk(r, "approvals") /\ raced \subseteq raced'
        /\ told' = Append(told, Observed(r, "approvals"))
    BY <1>1, <1>5, SaveReplaceFacts
  <2>2. UpToDate(r, "approvals")
    BY <1>1, <2>1 DEF Inv, RunInv, Generations, UpToDate
  <2>3. Spending(r, spent) BY <2>1, <2>2 DEF Inv, RunInv, ApprovalsAsRead
  <2>4. file'["approvals"].content = SpentAfter(b, answers[r], Len(answers[r]), spent)
    BY <2>1, <2>3 DEF Spending, OnDisk
  <2>5. ASSUME NEW n \in DOMAIN answers[r], answers[r][n] = UNSPENT
        PROVE  /\ b.nonces[n] \notin SpentAfter(b, answers[r], n - 1, spent)
               /\ b.nonces[n] \in Granted(b, answers[r], Len(answers[r]))
    <3>1. UNSPENT = Answer(b.nonces[n], SpentAfter(b, answers[r], n - 1, spent))
      BY <2>3, <2>5 DEF Spending
    <3>2. b.nonces[n] \notin SpentAfter(b, answers[r], n - 1, spent)
      BY <3>1 DEF Answer, UNSPENT, SPENT, NO_ANSWER
    <3>3. b.nonces[n] \in Granted(b, answers[r], Len(answers[r]))
      BY <1>3, <2>5 DEF Granted
    <3>4. QED BY <3>2, <3>3
  <2>6. ASSUME NEW n \in DOMAIN answers[r], NEW m \in DOMAIN answers[r], m < n,
               answers[r][m] = UNSPENT
        PROVE  b.nonces[m] \in SpentAfter(b, answers[r], n - 1, spent)
    <3>1. m \in 1 .. n - 1 BY <1>3, <2>6
    <3>2. QED BY <2>6, <3>1 DEF SpentAfter, Granted
  <2>7. QED BY <1>2, <2>1, <2>4, <2>5, <2>6 DEF SpentAfter
<1>6. QED BY <1>4, <1>5

LEMMA NonceStep ==
  ASSUME NEW r \in Runs, Inv, ToldInRuns, NonceRecorded, NonceOnce,
         SaveReplace(r, "approvals") \/ SaveNothing(r, "approvals")
  PROVE  NonceRecorded' /\ NonceOnce'
<1>. DEFINE b   == Batch[r]
            old == file["approvals"].content
            new == file'["approvals"].content
<1>1. PICK e : e = Observed(r, "approvals") OBVIOUS
<1>2. PICK k : k = Len(told) + 1 OBVIOUS
<1>3. raced \subseteq raced' BY DEF SaveReplace, SaveNothing
<1>. SUFFICES ASSUME "approvals" \notin raced' PROVE NonceRecorded' /\ NonceOnce'
  BY DEF NonceRecorded, NonceOnce
<1>4. "approvals" \notin raced BY <1>3
<1>5. /\ told' = Append(told, e)
      /\ answers[r] \in Seq(Replies)
      /\ old \subseteq new
      /\ \A n \in DOMAIN answers[r] : answers[r][n] = UNSPENT =>
           /\ b.nonces[n] \notin old /\ b.nonces[n] \in new
           /\ \A m \in DOMAIN answers[r] :
                m < n /\ answers[r][m] = UNSPENT => b.nonces[m] # b.nonces[n]
  BY <1>1, GrantedNow
<1>6. e.run = r /\ e.ledger = "approvals" /\ e.outcome = answers[r]
  BY <1>1 DEF Observed
<1>7. /\ ToldOf("approvals")' = ToldOf("approvals") \cup {k}
      /\ \A i \in ToldOf("approvals") : i < k /\ i \in Nat /\ told'[i] = told[i]
      /\ told'[k] = e /\ k \in Nat
  <2>1. e.run \in Runs /\ told' = Append(told, e) BY <1>5, <1>6
  <2>2. /\ ToldOf(e.ledger)' = ToldOf(e.ledger) \cup {Len(told) + 1}
        /\ \A i \in ToldOf(e.ledger) :
             i < Len(told) + 1 /\ i \in Nat /\ told'[i] = told[i]
        /\ told'[Len(told) + 1] = e
        /\ Len(told) \in Nat
    BY <2>1, ToldHere
  <2>3. QED BY <1>2, <1>6, <2>2
<1>8. BatchOf(k)' = b BY <1>6, <1>7 DEF BatchOf
<1>9. \A i \in ToldOf("approvals") : BatchOf(i)' = BatchOf(i) BY <1>7 DEF BatchOf
<1>10. ASSUME NEW i \in ToldOf("approvals"), NEW m \in DOMAIN told[i].outcome,
              told[i].outcome[m] = UNSPENT
       PROVE  BatchOf(i).nonces[m] \in old
  BY <1>4, <1>10 DEF NonceRecorded
<1>11. NonceRecorded'
  <2>1. SUFFICES ASSUME NEW i \in ToldOf("approvals")', NEW m \in DOMAIN told'[i].outcome,
                        told'[i].outcome[m] = UNSPENT
                 PROVE  BatchOf(i)'.nonces[m] \in new
    BY DEF NonceRecorded
  <2>2. CASE i = k BY <1>5, <1>6, <1>7, <1>8, <2>1, <2>2
  <2>3. CASE i \in ToldOf("approvals")
    <3>1. told'[i] = told[i] /\ BatchOf(i)' = BatchOf(i) BY <1>7, <1>9, <2>3
    <3>2. QED BY <1>5, <1>10, <2>1, <2>3, <3>1
  <2>4. QED BY <1>7, <2>2, <2>3
<1>12. NonceOnce'
  <2>1. SUFFICES ASSUME NEW i \in ToldOf("approvals")', NEW j \in ToldOf("approvals")',
                        NEW m \in DOMAIN told'[i].outcome, NEW n \in DOMAIN told'[j].outcome,
                        told'[i].outcome[m] = UNSPENT, told'[j].outcome[n] = UNSPENT,
                        BatchOf(i)'.nonces[m] = BatchOf(j)'.nonces[n]
                 PROVE  i = j /\ m = n
    BY DEF NonceOnce
  <2>2. ASSUME NEW h \in ToldOf("approvals")
        PROVE  h # k /\ told'[h] = told[h] /\ BatchOf(h)' = BatchOf(h)
    BY <1>7, <1>9
  <2>3. CASE i \in ToldOf("approvals") /\ j \in ToldOf("approvals")
    BY <1>4, <2>1, <2>2, <2>3 DEF NonceOnce
  <2>4. CASE i \in ToldOf("approvals") /\ j = k
    <3>1. BatchOf(i).nonces[m] \in old BY <1>10, <2>1, <2>2, <2>4
    <3>2. b.nonces[n] \notin old BY <1>5, <1>6, <1>7, <2>1, <2>4
    <3>3. QED BY <1>8, <2>1, <2>2, <2>4, <3>1, <3>2
  <2>5. CASE i = k /\ j \in ToldOf("approvals")
    <3>1. BatchOf(j).nonces[n] \in old BY <1>10, <2>1, <2>2, <2>5
    <3>2. b.nonces[m] \notin old BY <1>5, <1>6, <1>7, <2>1, <2>5
    <3>3. QED BY <1>8, <2>1, <2>2, <2>5, <3>1, <3>2
  <2>6. CASE i = k /\ j = k
    <3>1. /\ m \in DOMAIN answers[r] /\ n \in DOMAIN answers[r]
          /\ answers[r][m] = UNSPENT /\ answers[r][n] = UNSPENT
          /\ b.nonces[m] = b.nonces[n]
      BY <1>6, <1>7, <1>8, <2>1, <2>6
    <3>2. ~(m < n) /\ ~(n < m) BY <1>5, <3>1
    <3>3. m \in Nat /\ n \in Nat BY <1>5, <3>1
    <3>4. QED BY <2>6, <3>2, <3>3
  <2>7. QED BY <1>7, <2>3, <2>4, <2>5, <2>6
<1>13. QED BY <1>11, <1>12

-----------------------------------------------------------------------------
OnceInv ==
  ToldInRuns /\ FreshRecorded /\ FreshOnce /\ NonceRecorded /\ NonceOnce

LEMMA InitOnce == Init => OnceInv
<1>. SUFFICES ASSUME Init PROVE OnceInv OBVIOUS
<1>1. told = <<>> BY DEF Init
<1>2. ToldInRuns
  <2>1. told \in Seq({}) BY <1>1, EmptySeq
  <2>2. DOMAIN told = {} BY <1>1
  <2>3. QED BY <2>1, <2>2 DEF ToldInRuns
<1>3. \A name : ToldOf(name) = {} BY <1>1 DEF ToldOf
<1>4. Positioned(file["streams"].content)
  <2>1. file["streams"].content = EmptyLedger BY DEF Init, Missing, LedgerNames
  <2>2. EmptyLedger.entries = [s \in {} |-> 0] BY DEF EmptyLedger
  <2>3. DOMAIN EmptyLedger.entries = {} BY <2>2
  <2>4. EmptyLedger.entries = [s \in DOMAIN EmptyLedger.entries |-> EmptyLedger.entries[s]]
    BY <2>2
  <2>5. EmptyLedger = [entries |-> EmptyLedger.entries, exhausted |-> EmptyLedger.exhausted]
    BY DEF EmptyLedger
  <2>6. QED BY <2>1, <2>3, <2>4, <2>5 DEF Positioned
<1>5. QED BY <1>2, <1>3, <1>4 DEF OnceInv, FreshRecorded, FreshOnce, NonceRecorded, NonceOnce

LEMMA NextOnce ==
  ASSUME Inv, OnceInv, [Next]_vars
  PROVE  OnceInv'
<1>1. ASSUME UNCHANGED <<file, told, raced>> PROVE OnceInv'
  <2>1. ToldInRuns' BY <1>1 DEF OnceInv, ToldInRuns
  <2>2. \A name : ToldOf(name)' = ToldOf(name) BY <1>1 DEF ToldOf
  <2>3. FreshRecorded' /\ FreshOnce' BY <1>1, <2>2, FreshKept DEF OnceInv
  <2>4. NonceRecorded' /\ NonceOnce' BY <1>1, <2>2, NonceKept DEF OnceInv
  <2>5. QED BY <2>1, <2>3, <2>4 DEF OnceInv
<1>2. ASSUME NEW r \in Runs, NEW name \in LedgerNames,
             told' = Append(told, Observed(r, name))
      PROVE  /\ ToldInRuns'
             /\ \A other : other # name =>
                  /\ ToldOf(other)' = ToldOf(other)
                  /\ \A i \in ToldOf(other) : told'[i] = told[i]
  <2>1. PICK e : e = Observed(r, name) OBVIOUS
  <2>2. e.run \in Runs /\ e.ledger = name BY <2>1 DEF Observed
  <2>3. told' = Append(told, e) BY <1>2, <2>1
  <2>4. QED BY <2>2, <2>3, ToldGrows, ToldElsewhere DEF OnceInv
<1>3. ASSUME NEW r \in Runs, SaveReplace(r, "streams") PROVE OnceInv'
  <2>1. "streams" \in LedgerNames /\ "approvals" \in LedgerNames \ {"streams"}
    BY DEF LedgerNames
  <2>2. /\ told' = Append(told, Observed(r, "streams")) /\ raced \subseteq raced'
        /\ file'["approvals"] = file["approvals"]
    BY <1>3, <2>1, SaveReplaceFacts
  <2>3. FreshRecorded' /\ FreshOnce' BY <1>3, FreshStep DEF OnceInv
  <2>4. NonceRecorded' /\ NonceOnce' BY <1>2, <2>1, <2>2, NonceKept DEF OnceInv
  <2>5. QED BY <1>2, <2>1, <2>2, <2>3, <2>4 DEF OnceInv
<1>4. ASSUME NEW r \in Runs, SaveReplace(r, "approvals") \/ SaveNothing(r, "approvals")
      PROVE  OnceInv'
  <2>1. "approvals" \in LedgerNames /\ "streams" \in LedgerNames \ {"approvals"}
    BY DEF LedgerNames
  <2>2. /\ told' = Append(told, Observed(r, "approvals")) /\ raced \subseteq raced'
        /\ file'["streams"] = file["streams"]
    <3>1. CASE SaveReplace(r, "approvals") BY <2>1, <3>1, SaveReplaceFacts
    <3>2. CASE SaveNothing(r, "approvals") BY <3>2 DEF SaveNothing
    <3>3. QED BY <1>4, <3>1, <3>2
  <2>3. NonceRecorded' /\ NonceOnce' BY <1>4, NonceStep DEF OnceInv
  <2>4. FreshRecorded' /\ FreshOnce' BY <1>2, <2>1, <2>2, FreshKept DEF OnceInv
  <2>5. QED BY <1>2, <2>1, <2>2, <2>3, <2>4 DEF OnceInv
<1>5. ASSUME NEW r \in Runs, NEW name \in LedgerNames,
             \/ Lock(r, name) \/ LockTimeout(r, name) \/ Load(r, name)
             \/ SaveCheck(r, name) \/ SaveRefused(r, name)
      PROVE  UNCHANGED <<file, told, raced>>
  BY <1>5 DEF Lock, LockTimeout, Load, SaveCheck, SaveRefused, disk
<1>6. ASSUME NEW r \in Runs,
             \/ Start(r) \/ Score(r) \/ Emit(r) \/ EmitEnd(r) \/ Exit(r)
             \/ Stop(r) \/ Hang(r)
      PROVE  UNCHANGED <<file, told, raced>>
  BY <1>6 DEF Start, Score, Emit, EmitEnd, Exit, Stop, Hang, disk
<1>7. UNCHANGED vars => UNCHANGED <<file, told, raced>> BY DEF vars
<1>8. ASSUME NEW r \in Runs, NEW name \in LedgerNames,
             SaveReplace(r, name) \/ SaveNothing(r, name)
      PROVE  OnceInv'
  <2>1. CASE name = "streams"
    <3>1. ~SaveNothing(r, name) BY <2>1 DEF SaveNothing, NothingToSave
    <3>2. QED BY <1>3, <1>8, <2>1, <3>1
  <2>2. CASE name = "approvals" BY <1>4, <1>8, <2>2
  <2>3. QED BY <2>1, <2>2 DEF LedgerNames
<1>9. QED BY <1>1, <1>5, <1>6, <1>7, <1>8 DEF Next, Proceed

(* With or without locks, for any number of runs interleaved, stopped or   *)
(* hung in any way: no stretch of a stream is told fresh twice and no      *)
(* nonce unspent twice, short of two saves that overlapped.  The           *)
(* generation guard of save() is what the proof rests on (ApprovalLedger,  *)
(* StreamLedger: save).                                                    *)
THEOREM AnswersAreGivenOnce == Spec => []FreshAndNonceOnce
<1>1. Init => Inv /\ OnceInv BY InitInv, InitOnce
<1>2. Inv /\ OnceInv /\ [Next]_vars => (Inv /\ OnceInv)' BY NextInv, NextOnce
<1>3. OnceInv => FreshAndNonceOnce BY DEF OnceInv, FreshAndNonceOnce
<1>4. QED BY <1>1, <1>2, <1>3, PTL DEF Spec

-----------------------------------------------------------------------------
(* Output: where each line goes out, what was answered was shown.          *)
Output(r) ==
  /\ shown[r] \in Nat
  /\ Len(answers[r]) <= shown[r]
  /\ shown[r] <= Len(Batch[r].nonces)

OutputInv ==
  /\ shown = [r \in Runs |-> shown[r]]
  /\ \A r \in Runs : Output(r)
  /\ \A p \in printed : p.run \in Runs /\ p.session \in Nat

LEMMA OutputStep ==
  ASSUME ~Buffered, Inv, OutputInv, [Next]_vars
  PROVE  OutputInv' /\ printed \subseteq printed' /\ \A q \in Runs : shown[q] <= shown'[q]
<1>. DEFINE Kept == /\ OutputInv' /\ printed \subseteq printed'
                    /\ \A q \in Runs : shown[q] <= shown'[q]
<1>1. \A q \in Runs : answers[q] \in Seq(Replies) /\ Len(answers[q]) \in Nat
  <2>1. answers \in [Runs -> Seq(Replies)] BY DEF Inv, Shape, Replies
  <2>2. ASSUME NEW q \in Runs PROVE answers[q] \in Seq(Replies) /\ Len(answers[q]) \in Nat
    <3>1. answers[q] \in Seq(Replies) BY <2>1
    <3>2. QED BY <3>1
  <2>3. QED BY <2>2
<1>2. ASSUME UNCHANGED <<answers, shown, printed>> PROVE Kept
  BY <1>2 DEF OutputInv, Output
<1>3. ASSUME NEW r \in Runs, Flush(r, Printed(r)), UNCHANGED <<answers, printed>>
      PROVE  Kept
  <2>1. shown' = shown BY <1>1, <1>3 DEF Flush, Printed, OutputInv, Output
  <2>2. QED BY <1>2, <1>3, <2>1
<1>4. ASSUME NEW r \in Runs, Start(r) PROVE Kept
  <2>1. /\ answers' = [answers EXCEPT ![r] = <<>>] /\ UNCHANGED <<shown, printed>>
    BY <1>4 DEF Start
  <2>2. /\ answers'[r] = <<>> /\ \A q \in Runs \ {r} : answers'[q] = answers[q]
    BY <2>1 DEF Inv, Shape
  <2>3. Len(answers'[r]) = 0 BY <2>2
  <2>4. QED BY <2>1, <2>2, <2>3 DEF OutputInv, Output
<1>5. ASSUME NEW r \in Runs, Emit(r) PROVE Kept
  <2>. DEFINE n == Len(answers[r]) + 1
  <2>1. PICK answer : answers' = [answers EXCEPT ![r] = Append(@, answer)]
    BY <1>5 DEF Emit
  <2>2. /\ answers'[r] = Append(answers[r], answer)
        /\ \A q \in Runs \ {r} : answers'[q] = answers[q]
    BY <2>1 DEF Inv, Shape
  <2>3. Len(answers'[r]) = n
    <3>1. answers[r] \in Seq(Replies \cup {answer})
      <4>1. answers[r] \in [1 .. Len(answers[r]) -> Replies \cup {answer}] BY <1>1
      <4>2. QED BY <1>1, <4>1, SeqDef
    <3>2. QED BY <2>2, <3>1
  <2>4. /\ n \in Nat /\ n <= Len(Batch[r].nonces)
    <3>1. Batch[r].nonces \in Seq(Nonces \cup {NoNonce})
      BY ObservationAssumption DEF Batches
    <3>2. Len(Batch[r].nonces) \in Nat BY <3>1
    <3>3. QED BY <1>1, <1>5, <3>2 DEF Emit, Printed
  <2>5. /\ shown' = [shown EXCEPT ![r] = IF n > @ THEN n ELSE @]
    BY <1>5 DEF Emit, Flush, Printed
  <2>6. /\ shown' = [q \in Runs |-> shown'[q]]
        /\ shown'[r] = IF n > shown[r] THEN n ELSE shown[r]
        /\ \A q \in Runs \ {r} : shown'[q] = shown[q]
    BY <2>5 DEF OutputInv
  <2>7. \E nonce : printed' = printed \cup {[run |-> r, try |-> tries[r], session |-> n,
                                  nonce |-> nonce, answer |-> Spend(r, nonce)]}
    BY <1>5 DEF Emit, Printed
  <2>8. \A p \in printed' : p.run \in Runs /\ p.session \in Nat
    BY <2>4, <2>7 DEF OutputInv
  <2>9. printed \subseteq printed' BY <2>7
  <2>. HIDE DEF n
  <2>10. Output(r)' BY <2>3, <2>4, <2>6 DEF OutputInv, Output
  <2>11. \A q \in Runs \ {r} : Output(q)' BY <2>2, <2>6 DEF OutputInv, Output
  <2>12. \A q \in Runs : shown[q] <= shown'[q] BY <2>4, <2>6 DEF OutputInv, Output
  <2>13. QED BY <2>6, <2>8, <2>9, <2>10, <2>11, <2>12 DEF OutputInv
<1>6. ASSUME NEW r \in Runs, NEW name \in LedgerNames,
             \/ Lock(r, name) \/ LockTimeout(r, name) \/ Load(r, name)
             \/ SaveNothing(r, name) \/ SaveCheck(r, name) \/ SaveReplace(r, name)
      PROVE  Kept
  <2>1. UNCHANGED <<answers, shown, printed>>
    BY <1>6 DEF Lock, LockTimeout, Load, SaveNothing, SaveCheck, SaveReplace, output
  <2>2. QED BY <1>2, <2>1
<1>7. ASSUME NEW r \in Runs, Score(r) \/ EmitEnd(r) \/ Hang(r) PROVE Kept
  <2>1. UNCHANGED <<answers, shown, printed>>
    BY <1>7 DEF Score, EmitEnd, Hang, output
  <2>2. QED BY <1>2, <2>1
<1>8. ASSUME NEW r \in Runs, NEW name \in LedgerNames, SaveRefused(r, name) PROVE Kept
  BY <1>3, <1>8 DEF SaveRefused
<1>9. ASSUME NEW r \in Runs, Exit(r) PROVE Kept
  BY <1>3, <1>9 DEF Exit
<1>10. ASSUME NEW r \in Runs, Stop(r) PROVE Kept
  <2>1. UNCHANGED <<answers, printed>> /\ (Flush(r, Printed(r)) \/ shown' = shown)
    BY <1>10 DEF Stop
  <2>2. QED BY <1>2, <1>3, <2>1
<1>11. ASSUME UNCHANGED vars PROVE Kept
  BY <1>2, <1>11 DEF vars
<1>. HIDE DEF Kept
<1>12. Kept
  BY <1>4, <1>5, <1>6, <1>7, <1>8, <1>9, <1>10, <1>11 DEF Next, Proceed
<1>13. QED BY <1>12 DEF Kept

-----------------------------------------------------------------------------
(* What is on record was shown: each entry stands where a stream of some   *)
(* run ended, all of whose sessions were shown, or of the run that is at   *)
(* work on it; each nonce is in a printed answer that was shown.           *)
Reported(entries, r, seen) ==
  \A s \in DOMAIN entries : \E q \in Runs :
    /\ Batch[q].stream = s /\ LastOf(Batch[q]) = entries[s].last
    /\ q = r \/ seen[q] = Len(Batch[q].nonces)

Announced(nonces, answered, seen) ==
  \A nonce \in nonces : \E p \in answered :
    p.nonce = nonce /\ p.answer = UNSPENT /\ p.session <= seen[p.run]

ReportedFile ==
  /\ Positioned(file["streams"].content)
  /\ Reported(file["streams"].content.entries, NoRun, shown)
  /\ Announced(file["approvals"].content, printed, shown)

ReportedRun(r) ==
  /\ Positioned(loaded[r]["streams"].content)
  /\ Reported(loaded[r]["streams"].content.entries, r, shown)
  /\ Announced(loaded[r]["approvals"].content, printed, shown)

ReportInv == OutputInv /\ ReportedFile /\ \A r \in Runs : ReportedRun(r)

(* What was shown and printed stays so.                                    *)
LEMMA ReportedStays ==
  ASSUME OutputInv, OutputInv', \A q \in Runs : shown[q] <= shown'[q],
         printed \subseteq printed'
  PROVE  /\ \A e, r : Reported(e, r, shown) => Reported(e, r, shown')
         /\ \A spent : Announced(spent, printed, shown) => Announced(spent, printed', shown')
<1>1. \A q \in Runs : shown[q] = Len(Batch[q].nonces) => shown'[q] = Len(Batch[q].nonces)
  BY DEF OutputInv, Output
<1>2. ASSUME NEW e, NEW r, Reported(e, r, shown) PROVE Reported(e, r, shown')
  BY <1>1, <1>2 DEF Reported
<1>3. ASSUME NEW p \in printed, p.session <= shown[p.run]
      PROVE  p \in printed' /\ p.session <= shown'[p.run]
  <2>1. p.run \in Runs /\ p.session \in Nat BY DEF OutputInv
  <2>2. shown[p.run] \in Nat /\ shown'[p.run] \in Nat /\ shown[p.run] <= shown'[p.run]
    BY <2>1 DEF OutputInv, Output
  <2>3. QED BY <1>3, <2>1, <2>2
<1>4. ASSUME NEW spent, Announced(spent, printed, shown)
      PROVE  Announced(spent, printed', shown')
  BY <1>3, <1>4 DEF Announced
<1>5. QED BY <1>2, <1>4

LEMMA EntriesFrom ==
  ASSUME NEW ledger, Positioned(ledger), NEW s, NEW ruling, NEW view, NEW admit
  PROVE  LET new == Entries(ledger, s, ruling, view, admit) IN
         \A t \in DOMAIN new :
           \/ t \in DOMAIN ledger.entries /\ new[t].last = ledger.entries[t].last
           \/ t = s /\ new[t].last = view.last
<1>. DEFINE e   == ledger.entries
            new == Entries(ledger, s, ruling, view, admit)
<1>1. e = [t \in DOMAIN e |-> e[t]] BY DEF Positioned
<1>2. CASE new = e BY <1>2
<1>3. CASE Advances(ruling, admit) /\ Known(ledger, s)
  <2>1. new = [e EXCEPT ![s] = MergedStream(e[s], view)] BY <1>3 DEF Entries
  <2>2. MergedStream(e[s], view).last \in {view.last, e[s].last} BY DEF MergedStream
  <2>. HIDE DEF e, new
  <2>3. /\ DOMAIN new = DOMAIN e /\ \A t \in DOMAIN e \ {s} : new[t] = e[t]
        /\ s \in DOMAIN e => new[s] = MergedStream(e[s], view)
    BY <1>1, <2>1
  <2>4. QED BY <2>2, <2>3 DEF e, new
<1>4. CASE Advances(ruling, admit) /\ ~Known(ledger, s) /\ ~LedgerFull(ledger)
  <2>1. new = [t \in DOMAIN e \cup {s} |-> IF t = s THEN SeenStream(view) ELSE e[t]]
    BY <1>4 DEF Entries
  <2>2. SeenStream(view).last = view.last BY DEF SeenStream
  <2>. HIDE DEF e, new
  <2>3. QED BY <2>1, <2>2 DEF e, new
<1>5. QED BY <1>2, <1>3, <1>4 DEF Entries

LEMMA ScoredReported ==
  ASSUME NEW r \in Runs, NEW old, Positioned(old), NEW seen, Reported(old.entries, r, seen)
  PROVE  /\ Positioned(Scored(Batch[r], old))
         /\ Reported(Scored(Batch[r], old).entries, r, seen)
<1>. DEFINE b       == Batch[r]
            view    == View(b, old)
            ruling == Judged(b, old)
            entries == Entries(old, b.stream, ruling, view, b.admit)
            new     == Scored(b, old)
<1>1. view.last = LastOf(b) BY DEF View
<1>2. view.last \in Nat BY <1>1, BatchesArePlaced DEF Placed
<1>3. new = Record(old, b.stream, ruling, view, b.admit) BY DEF Scored
<1>. HIDE DEF view, ruling, new
<1>4. PICK c : new = [entries |-> entries, exhausted |-> c] BY <1>3, RecordParts
<1>5. Positioned(new) BY <1>2, <1>4, EntriesGrow
<1>6. \A t \in DOMAIN entries :
        \/ t \in DOMAIN old.entries /\ entries[t].last = old.entries[t].last
        \/ t = b.stream /\ entries[t].last = view.last
  BY EntriesFrom
<1>7. new.entries = entries BY <1>4
<1>. HIDE DEF entries
<1>8. Reported(entries, r, seen) BY <1>1, <1>6 DEF Reported
<1>9. QED BY <1>5, <1>7, <1>8 DEF new

LEMMA DocumentReported ==
  ASSUME NEW old, Positioned(old)
  PROVE  Positioned(AsDocument(old)) /\ AsDocument(old).entries = old.entries
<1>1. old = [entries |-> old.entries, exhausted |-> old.exhausted] BY DEF Positioned
<1>2. PICK c : AsDocument(old) = [entries |-> old.entries, exhausted |-> c]
  BY <1>1, DocumentParts
<1>3. QED BY <1>2 DEF Positioned

LEMMA MissingReported ==
  /\ Positioned(Missing["streams"].content)
  /\ \A r, seen : Reported(Missing["streams"].content.entries, r, seen)
  /\ \A answered, seen : Announced(Missing["approvals"].content, answered, seen)
<1>1. Missing["streams"].content = EmptyLedger /\ Missing["approvals"].content = {}
  BY DEF Missing, LedgerNames
<1>2. EmptyLedger.entries = [s \in {} |-> 0] BY DEF EmptyLedger
<1>3. DOMAIN EmptyLedger.entries = {} BY <1>2
<1>4. EmptyLedger.entries = [s \in DOMAIN EmptyLedger.entries |-> EmptyLedger.entries[s]]
  BY <1>2
<1>5. EmptyLedger = [entries |-> EmptyLedger.entries, exhausted |-> EmptyLedger.exhausted]
  BY DEF EmptyLedger
<1>6. Positioned(EmptyLedger) BY <1>3, <1>4, <1>5 DEF Positioned
<1>7. QED BY <1>1, <1>3, <1>6 DEF Reported, Announced

LEMMA InitReport == Init => ReportInv
<1>. SUFFICES ASSUME Init PROVE ReportInv OBVIOUS
<1>1. /\ file = Missing /\ \A r \in Runs : loaded[r] = Missing
      /\ shown = [r \in Runs |-> 0] /\ answers = [r \in Runs |-> <<>>] /\ printed = {}
  BY DEF Init
<1>2. OutputInv
  <2>1. ASSUME NEW r \in Runs PROVE Output(r)
    <3>1. Batch[r].nonces \in Seq(Nonces \cup {NoNonce})
      BY ObservationAssumption DEF Batches
    <3>2. Len(Batch[r].nonces) \in Nat BY <3>1
    <3>3. shown[r] = 0 /\ answers[r] = <<>> BY <1>1
    <3>4. QED BY <3>2, <3>3 DEF Output
  <2>2. QED BY <1>1, <2>1 DEF OutputInv
<1>. HIDE DEF Init
<1>3. QED BY <1>1, <1>2, MissingReported DEF ReportInv, ReportedFile, ReportedRun

LEMMA ReportStep ==
  ASSUME ~Buffered, Inv, ReportInv, [Next]_vars
  PROVE  ReportInv'
<1>1. OutputInv' /\ printed \subseteq printed' /\ \A q \in Runs : shown[q] <= shown'[q]
  BY OutputStep DEF ReportInv
<1>2. /\ \A e, r : Reported(e, r, shown) => Reported(e, r, shown')
      /\ \A spent : Announced(spent, printed, shown) => Announced(spent, printed', shown')
  BY <1>1, ReportedStays DEF ReportInv
<1>3. ASSUME NEW q \in Runs, loaded'[q]["streams"].content = loaded[q]["streams"].content,
             loaded'[q]["approvals"].content = loaded[q]["approvals"].content
      PROVE  ReportedRun(q)'
  BY <1>2, <1>3 DEF ReportInv, ReportedRun
<1>4. file' = file => ReportedFile' BY <1>2 DEF ReportInv, ReportedFile
<1>5. ASSUME UNCHANGED <<file, loaded>> PROVE ReportInv'
  BY <1>1, <1>3, <1>4, <1>5 DEF ReportInv
<1>6. ASSUME NEW r \in Runs, file' = file, ReportedRun(r)',
             \A q \in Runs \ {r} : loaded'[q] = loaded[q]
      PROVE  ReportInv'
  BY <1>1, <1>3, <1>4, <1>6 DEF ReportInv
<1>7. ASSUME NEW r \in Runs, Start(r) PROVE ReportInv'
  <2>1. file' = file /\ loaded'[r] = Missing /\ \A q \in Runs \ {r} : loaded'[q] = loaded[q]
    BY <1>7 DEF Start, disk, Inv, Shape
  <2>2. ReportedRun(r)' BY <2>1, MissingReported DEF ReportedRun
  <2>3. QED BY <1>6, <2>1, <2>2
<1>8. ASSUME NEW r \in Runs, NEW name \in LedgerNames, Load(r, name) PROVE ReportInv'
  <2>1. /\ file' = file /\ \A q \in Runs \ {r} : loaded'[q] = loaded[q]
        /\ loaded'[r][name] = file[name]
        /\ \A n \in LedgerNames \ {name} : loaded'[r][n] = loaded[r][n]
    BY <1>8 DEF Load, disk, Inv, Shape
  <2>2. ReportedRun(r) /\ ReportedFile BY DEF ReportInv
  <2>3. Reported(file["streams"].content.entries, r, shown)
    <3>1. Reported(file["streams"].content.entries, NoRun, shown) BY <2>2 DEF ReportedFile
    <3>2. QED BY <3>1, RunsAssumption DEF Reported
  <2>4. ReportedRun(r)'
    <3>1. CASE name = "streams"
      <4>1. /\ loaded'[r]["streams"].content = file["streams"].content
            /\ loaded'[r]["approvals"].content = loaded[r]["approvals"].content
        BY <2>1, <3>1 DEF LedgerNames
      <4>2. QED BY <1>2, <2>2, <2>3, <4>1 DEF ReportedRun, ReportedFile
    <3>2. CASE name = "approvals"
      <4>1. /\ loaded'[r]["streams"].content = loaded[r]["streams"].content
            /\ loaded'[r]["approvals"].content = file["approvals"].content
        BY <2>1, <3>2 DEF LedgerNames
      <4>2. QED BY <1>2, <2>2, <4>1 DEF ReportedRun, ReportedFile
    <3>3. QED BY <3>1, <3>2 DEF LedgerNames
  <2>5. QED BY <1>6, <2>1, <2>4
<1>9. ASSUME NEW r \in Runs, Score(r) PROVE ReportInv'
  <2>1. file' = file BY <1>9 DEF Score, disk
  <2>2. CASE ~Uses(r, "streams")
    <3>1. loaded' = loaded BY <1>9, <2>2 DEF Score
    <3>2. QED BY <1>5, <2>1, <3>1
  <2>3. CASE Uses(r, "streams")
    <3>. DEFINE c == Scored(Batch[r], loaded[r]["streams"].content)
    <3>1. loaded' = [loaded EXCEPT ![r]["streams"].content = c]
      BY <1>9, <2>3 DEF Score
    <3>2. Shape /\ "streams" \in LedgerNames /\ "approvals" \in LedgerNames \ {"streams"}
      BY DEF Inv, LedgerNames
    <3>3. /\ Positioned(c) /\ Reported(c.entries, r, shown)
      BY ScoredReported DEF ReportInv, ReportedRun
    <3>. HIDE DEF c
    <3>4. /\ loaded' = [q \in Runs |-> loaded'[q]]
          /\ \A q \in Runs : loaded'[q] = [m \in LedgerNames |-> loaded'[q][m]]
          /\ \A q \in Runs : \A m \in LedgerNames :
               /\ loaded'[q][m] = [generation |-> loaded'[q][m].generation,
                                   content    |-> loaded'[q][m].content]
               /\ loaded'[q][m].generation \in Nat
          /\ \A q \in Runs \ {r} : loaded'[q] = loaded[q]
          /\ \A m \in LedgerNames \ {"streams"} : loaded'[r][m] = loaded[r][m]
          /\ loaded'[r]["streams"].content = c
          /\ loaded'[r]["streams"].generation = loaded[r]["streams"].generation
      BY <3>1, <3>2, ContentShape
    <3>5. loaded'[r]["approvals"].content = loaded[r]["approvals"].content BY <3>2, <3>4
    <3>6. ReportedRun(r)' BY <1>2, <3>3, <3>4, <3>5 DEF ReportInv, ReportedRun
    <3>7. QED BY <1>6, <2>1, <3>4, <3>6
  <2>4. QED BY <2>2, <2>3
<1>10. ASSUME NEW r \in Runs, Emit(r) PROVE ReportInv'
  <2>. DEFINE n     == Len(answers[r]) + 1
              nonce == Batch[r].nonces[n]
              reply == Spend(r, nonce)
              c     == loaded[r]["approvals"].content \cup {nonce}
  <2>1. file' = file BY <1>10 DEF Emit, disk
  <2>2. CASE reply # UNSPENT
    <3>1. loaded' = loaded BY <1>10, <2>2 DEF Emit, Printed
    <3>2. QED BY <1>5, <2>1, <3>1
  <2>3. CASE reply = UNSPENT
    <3>1. loaded' = [loaded EXCEPT ![r]["approvals"].content = @ \cup {nonce}]
      BY <1>10, <2>3 DEF Emit, Printed
    <3>2. loaded' = [loaded EXCEPT ![r]["approvals"].content = c] BY <3>1
    <3>3. /\ printed' = printed \cup {[run |-> r, try |-> tries[r], session |-> n,
                                       nonce |-> nonce, answer |-> reply]}
      BY <1>10 DEF Emit, Printed
    <3>4. n <= shown'[r]
      <4>1. Output(r) /\ shown = [q \in Runs |-> shown[q]] BY DEF ReportInv, OutputInv
      <4>2. shown' = [shown EXCEPT ![r] = IF n > @ THEN n ELSE @]
        BY <1>10 DEF Emit, Flush, Printed
      <4>3. shown'[r] = IF n > shown[r] THEN n ELSE shown[r] BY <4>1, <4>2
      <4>4. n \in Nat
        <5>1. answers[r] \in Seq({UNSPENT, SPENT, NO_ANSWER}) BY DEF Inv, Shape
        <5>2. QED BY <5>1
      <4>. HIDE DEF n
      <4>5. QED BY <4>1, <4>3, <4>4 DEF Output
    <3>5. \E p \in printed' : p.nonce = nonce /\ p.answer = UNSPENT /\ p.session <= shown'[p.run]
      <4>. DEFINE p == [run |-> r, try |-> tries[r], session |-> n,
                        nonce |-> nonce, answer |-> reply]
      <4>1. p \in printed' BY <3>3
      <4>2. p.nonce = nonce /\ p.answer = UNSPENT /\ p.session = n /\ p.run = r BY <2>3
      <4>. HIDE DEF p
      <4>3. QED BY <3>4, <4>1, <4>2
    <3>6. Announced(loaded[r]["approvals"].content, printed', shown')
      BY <1>2 DEF ReportInv, ReportedRun
    <3>. HIDE DEF nonce
    <3>7. Announced(c, printed', shown') BY <3>5, <3>6 DEF Announced
    <3>. HIDE DEF c
    <3>8. Shape /\ "approvals" \in LedgerNames /\ "streams" \in LedgerNames \ {"approvals"}
      BY DEF Inv, LedgerNames
    <3>9. /\ loaded' = [q \in Runs |-> loaded'[q]]
          /\ \A q \in Runs : loaded'[q] = [m \in LedgerNames |-> loaded'[q][m]]
          /\ \A q \in Runs : \A m \in LedgerNames :
               /\ loaded'[q][m] = [generation |-> loaded'[q][m].generation,
                                   content    |-> loaded'[q][m].content]
               /\ loaded'[q][m].generation \in Nat
          /\ \A q \in Runs \ {r} : loaded'[q] = loaded[q]
          /\ \A m \in LedgerNames \ {"approvals"} : loaded'[r][m] = loaded[r][m]
          /\ loaded'[r]["approvals"].content = c
          /\ loaded'[r]["approvals"].generation = loaded[r]["approvals"].generation
      BY <3>2, <3>8, ContentShape
    <3>10. loaded'[r]["streams"].content = loaded[r]["streams"].content BY <3>8, <3>9
    <3>11. ReportedRun(r)' BY <1>2, <3>7, <3>9, <3>10 DEF ReportInv, ReportedRun
    <3>12. QED BY <1>6, <2>1, <3>9, <3>11
  <2>4. QED BY <2>2, <2>3
<1>11. ASSUME NEW r \in Runs, NEW name \in LedgerNames, SaveReplace(r, name)
       PROVE  ReportInv'
  <2>1. /\ Step(r) = "replace"
        /\ file'[name].content = OnDisk(r, name)
        /\ \A n \in LedgerNames \ {name} : file'[n] = file[n]
    BY <1>11, SaveReplaceFacts
  <2>2. Shape /\ RunInv(r) /\ ReportedRun(r) /\ ReportedFile BY DEF Inv, ReportInv
  <2>3. /\ \A q \in Runs \ {r} : loaded'[q] = loaded[q]
        /\ \A n \in LedgerNames \ {name} : loaded'[r][n] = loaded[r][n]
        /\ loaded'[r][name].content = loaded[r][name].content
    BY <1>11, <2>2, SaveReplaceMemory
  <2>4. ASSUME NEW q \in Runs PROVE ReportedRun(q)'
    <3>1. \A n \in LedgerNames : loaded'[q][n].content = loaded[q][n].content
      BY <2>3
    <3>2. QED BY <1>3, <3>1 DEF LedgerNames
  <2>5. shown[r] = Len(Batch[r].nonces)
    <3>1. Len(answers[r]) = Len(Batch[r].nonces) BY <2>1, <2>2 DEF RunInv, Complete, Saving
    <3>2. Output(r) BY DEF ReportInv, OutputInv
    <3>3. QED BY <3>1, <3>2 DEF Output
  <2>6. ReportedFile'
    <3>1. CASE name = "streams"
      <4>. DEFINE old == loaded[r]["streams"].content
      <4>1. /\ file'["streams"].content = AsDocument(old)
            /\ file'["approvals"].content = file["approvals"].content
        BY <2>1, <3>1 DEF OnDisk, LedgerNames
      <4>2. Positioned(old) /\ Reported(old.entries, r, shown)
        BY <2>2 DEF ReportedRun
      <4>. HIDE DEF old
      <4>3. Positioned(AsDocument(old)) /\ AsDocument(old).entries = old.entries
        BY <4>2, DocumentReported
      <4>4. Reported(old.entries, NoRun, shown) BY <2>5, <4>2 DEF Reported
      <4>5. QED BY <1>2, <2>2, <4>1, <4>3, <4>4 DEF ReportedFile
    <3>2. CASE name = "approvals"
      <4>1. /\ file'["approvals"].content = loaded[r]["approvals"].content
            /\ file'["streams"].content = file["streams"].content
        BY <2>1, <3>2 DEF OnDisk, LedgerNames
      <4>2. QED BY <1>2, <2>2, <4>1 DEF ReportedFile, ReportedRun
    <3>3. QED BY <3>1, <3>2 DEF LedgerNames
  <2>7. QED BY <1>1, <2>4, <2>6 DEF ReportInv
<1>12. ASSUME NEW r \in Runs, NEW name \in LedgerNames,
              \/ Lock(r, name) \/ LockTimeout(r, name) \/ SaveNothing(r, name)
              \/ SaveCheck(r, name) \/ SaveRefused(r, name)
       PROVE  UNCHANGED <<file, loaded>>
  BY <1>12 DEF Lock, LockTimeout, SaveNothing, SaveCheck, SaveRefused, disk, memory
<1>13. ASSUME NEW r \in Runs, EmitEnd(r) \/ Exit(r) \/ Stop(r) \/ Hang(r)
       PROVE  UNCHANGED <<file, loaded>>
  BY <1>13 DEF EmitEnd, Exit, Stop, Hang, disk, memory
<1>14. UNCHANGED vars => UNCHANGED <<file, loaded>> BY DEF vars
<1>15. QED
  BY <1>5, <1>7, <1>8, <1>9, <1>10, <1>11, <1>12, <1>13, <1>14 DEF Next, Proceed

(* Where each line goes out as it is printed, whatever the interleaving    *)
(* and wherever runs stop, with or without locks: no position and no nonce *)
(* is on record that an analyst was not shown first (_score saves after    *)
(* emission).  On a buffered output the statement fails (README,           *)
(* section 6).                                                             *)
THEOREM RecordsFollowReports == ~Buffered => (Spec => []ReportedBeforeRecorded)
<1>. SUFFICES ASSUME ~Buffered PROVE Spec => []ReportedBeforeRecorded OBVIOUS
<1>1. Init => Inv /\ ReportInv BY InitInv, InitReport
<1>2. Inv /\ ReportInv /\ [Next]_vars => (Inv /\ ReportInv)' BY NextInv, ReportStep
<1>3. ReportInv => ReportedBeforeRecorded
  BY RunsAssumption
  DEF ReportInv, ReportedFile, Reported, Announced, ReportedBeforeRecorded
<1>4. QED BY <1>1, <1>2, <1>3, PTL DEF Spec
=============================================================================
