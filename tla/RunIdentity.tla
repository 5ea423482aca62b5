---------------------------- MODULE RunIdentity -----------------------------
(***************************************************************************)
(* The identity of a score run: analysis_run_id and verdict_id, by which a *)
(* SIEM is told to recognise a retry (trust_config_digest, run_id and      *)
(* verdict_id of src/cohaera/identity.py, as cli.py and model.py call      *)
(* them), over runs that read and write the ledgers of several hosts.      *)
(*                                                                         *)
(* A run is one step: it holds its ledgers' locks throughout (ScoreRuns).  *)
(* A digest is told from another by what it is over, so an identity is its *)
(* payload.  Of that, the parts kept are those that vary from run to run   *)
(* here: the input, the freshness bound and the two ledgers.               *)
(***************************************************************************)
EXTENDS Observation

CONSTANTS
  Hosts,        \* each with a seen-stream ledger and an approval ledger
  MaxNow,       \* bound of the model: the last instant
  MaxHistory,   \* bound of the model: runs
  MaxAge,       \* --evidence-max-age; the inputs are written at instant 0
  NotPinned,
  AsOf          \* run -> --evidence-as-of, or NotPinned

RunIdentityAssumption ==
  /\ MaxNow \in Nat /\ MaxHistory \in Nat /\ MaxAge \in Nat
  /\ AsOf \in [Runs -> Nat \cup {NotPinned}] /\ NotPinned \notin Nat

VARIABLES
  now,       \* the wall clock
  onHost,    \* host -> [streams, approvals], each [generation, content]
  history    \* the runs so far, in order

identityVars == <<now, onHost, history>>

NoFiles ==
  [streams   |-> [generation |-> 0, content |-> EmptyLedger],
   approvals |-> [generation |-> 0, content |-> {}]]

Pinned(r) == AsOf[r] # NotPinned

(* Freshness.as_of, of a run that starts now.                              *)
Instant(r) == IF Pinned(r) THEN AsOf[r] ELSE now

-----------------------------------------------------------------------------
(* What a run says, having read these ledgers at this instant.             *)

(* The answers of the approval ledger, presented in order.                 *)
Answers(b, spent) ==
  LET Asked[n \in 0 .. Len(b.nonces)] ==
        IF n = 0 THEN <<>>
        ELSE Append(Asked[n - 1], Answer(b.nonces[n], SpentAfter(b, Asked[n - 1], n - 1, spent)))
  IN Asked[Len(b.nonces)]

Verdict(r, read, instant) ==
  [stream  |-> IF Uses(r, "streams") THEN Judged(Batch[r], read.streams.content).status ELSE "unasked",
   answers |-> IF Uses(r, "approvals") THEN Answers(Batch[r], read.approvals.content) ELSE <<>>,
   stale   |-> instant > MaxAge]

(* The ledgers in the run's memory when it has read all of its input.      *)
StreamsAfter(r, read) == AsDocument(Scored(Batch[r], read.streams.content))

NoncesAfter(r, read) ==
  LET b == Batch[r]
  IN SpentAfter(b, Answers(b, read.approvals.content), Len(b.nonces), read.approvals.content)

-----------------------------------------------------------------------------
(* The identity.                                                           *)

(* Mutant of FreshnessPart: the instant is folded in, pinned or not.       *)
FreshnessPartAlways(r, instant) == [pinned |-> Pinned(r), as_of |-> instant]

(* The bound, and the instant only where it was pinned.                    *)
FreshnessPart(r, instant) ==
  [pinned |-> Pinned(r), as_of |-> IF Pinned(r) THEN instant ELSE NotPinned]

(* The generation read, and state_digest, which is asked for only once the *)
(* input has been read and its streams recorded (cli.py).                  *)
LedgerPart(r, read) ==
  IF Uses(r, "streams")
  THEN <<read.streams.generation, StreamsAfter(r, read).entries>>
  ELSE <<FALSE>>

(* nonces_known, when read.                                                *)
ApprovalsPart(r, read) ==
  IF Uses(r, "approvals") THEN <<Cardinality(read.approvals.content)>> ELSE <<>>

(* run_id over trust_config_digest.                                        *)
RunId(r, read, instant) ==
  [input |-> [Batch[r] EXCEPT !.uses = {}], freshness |-> FreshnessPart(r, instant),
   ledger |-> LedgerPart(r, read), approvals |-> ApprovalsPart(r, read)]

(* to_cim_event: the run, and what was found and covered.                  *)
VerdictId(r, read, instant) ==
  [run |-> RunId(r, read, instant), verdict |-> Verdict(r, read, instant)]

-----------------------------------------------------------------------------
(* What the run leaves on disk.                                            *)

(* StreamLedger.save.                                                      *)
SavedStreams(r, read) ==
  IF Uses(r, "streams")
  THEN [generation |-> read.streams.generation + 1, content |-> StreamsAfter(r, read)]
  ELSE read.streams

(* ApprovalLedger.save: only if a nonce was spent.                         *)
SavedApprovals(r, read) ==
  IF Uses(r, "approvals") /\ NoncesAfter(r, read) # read.approvals.content
  THEN [generation |-> read.approvals.generation + 1, content |-> NoncesAfter(r, read)]
  ELSE read.approvals

(* A run on a host; one that dies before its saves leaves the ledgers.     *)
Score(r, host, saved) ==
  LET read == onHost[host] IN
  /\ Len(history) < MaxHistory
  /\ history' = Append(history,
       [run |-> r, host |-> host, read |-> read, saved |-> saved,
        id |-> RunId(r, read, Instant(r)), verdict |-> VerdictId(r, read, Instant(r))])
  /\ onHost' = IF ~saved THEN onHost
               ELSE [onHost EXCEPT ![host] = [streams   |-> SavedStreams(r, read),
                                              approvals |-> SavedApprovals(r, read)]]
  /\ UNCHANGED now

Tick ==
  /\ now < MaxNow /\ now' = now + 1
  /\ UNCHANGED <<onHost, history>>

IdentityInit ==
  /\ now = 0 /\ onHost = [h \in Hosts |-> NoFiles] /\ history = <<>>

IdentityNext ==
  \/ \E r \in Runs, host \in Hosts, saved \in BOOLEAN : Score(r, host, saved)
  \/ Tick

IdentitySpec == IdentityInit /\ [][IdentityNext]_identityVars

-----------------------------------------------------------------------------
Scores == {history[i] : i \in DOMAIN history}

(* Types; a seen-stream ledger's generation counts the runs that saved it, *)
(* whether or not they had anything to record.                             *)
IdentityTypeOK ==
  /\ now \in 0 .. MaxNow
  /\ \A host \in Hosts :
       /\ IsLedger(onHost[host].streams.content) /\ onHost[host].approvals.content \subseteq Nonces
       /\ onHost[host].streams.generation =
            Cardinality({i \in DOMAIN history : /\ history[i].host = host /\ history[i].saved
                                                /\ Uses(history[i].run, "streams")})

(* A retry is recognised: a run that died before its saves and is started  *)
(* again later, over the ledgers it had found, is the same run; and where  *)
(* it pinned its instant it says the same, under the same verdict id.      *)
RetryIsRecognised ==
  \A a, b \in Scores :
    a.run = b.run /\ a.read = b.read =>
      /\ a.id = b.id
      /\ Pinned(a.run) => a.verdict = b.verdict

(* Without ledgers, and with its instant pinned, what a run says follows   *)
(* from its identity.                                                      *)
IdentityIsEnough ==
  \A a, b \in Scores :
    /\ a.id = b.id /\ Pinned(a.run)
    /\ Batch[a.run].uses = {} /\ Batch[b.run].uses = {}
    => a.verdict = b.verdict

(* Of one host, two runs of one identity have read the same seen-stream    *)
(* ledger: a run that was saved is never taken for a retry of itself, even *)
(* where what it recorded was there before.                                *)
OneHostOneLedger ==
  \A a, b \in Scores :
    a.id = b.id /\ a.host = b.host /\ Uses(a.run, "streams") => a.read.streams = b.read.streams

(* A retry has the identity of the run it repeats, what a run without      *)
(* ledgers says follows from its identity, and on one host an identity     *)
(* stands for one ledger (trust_config_digest, run_id, verdict_id).        *)
IdentityMeansTheSameRun ==
  IdentityTypeOK /\ RetryIsRecognised /\ IdentityIsEnough /\ OneHostOneLedger

-----------------------------------------------------------------------------
(* Statements of the repository that the model refutes (README, section 6).*)

(* "two runs that read different ledgers are not the same run even when    *)
(* the telemetry is byte-identical" (evidence.py, state_digest).           *)
LedgersTellRunsApart ==
  \A a, b \in Scores :
    a.id = b.id /\ Uses(a.run, "streams") =>
      a.read.streams.content.entries = b.read.streams.content.entries

(* "What was READ, as with the stream ledger" (identity.py), of the spent  *)
(* nonces a run was judged against.                                        *)
NoncesTellRunsApart ==
  \A a, b \in Scores :
    a.id = b.id /\ Uses(a.run, "approvals") => a.read.approvals.content = b.read.approvals.content

(* "folding those in would make the identity of a run depend on how many   *)
(* times an unrelated stream had been scored before -- which changes no    *)
(* verdict and would break the deduplication the ID exists for"            *)
(* (evidence.py, state_digest).                                            *)
CountersChangeNoIdentity ==
  \A a, b \in Scores :
    /\ a.run = b.run /\ Batch[a.run].uses = {"streams"}
    /\ a.read.streams.content = b.read.streams.content
    => a.id = b.id
=============================================================================
