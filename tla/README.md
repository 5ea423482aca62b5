# Cohaera in TLA+

Cohaera reads exported agent telemetry, verifies the evidence it carries, groups it into sessions, runs deterministic
checks over each session and prints one verdict per session. It is passive and mostly sequential, so what is hard about
it is not a scheduler: it is what a verdict may still claim when records arrive late, twice, altered or not at all, when
a bound is reached, when a run stops half way, and when several runs share the files that carry memory from one run to
the next. This directory models those parts, checks them with TLC on small instances and proves the central results
with TLAPS for every value of the constants.

Line numbers below and in `PROJECT.json` refer to `src/cohaera/` of the repository.

1. [The system](#1-the-system)
2. [The modules and how they correspond to the code](#2-the-modules-and-how-they-correspond-to-the-code)
3. [The runs](#3-the-runs)
4. [Fairness](#4-fairness)
5. [The proofs](#5-the-proofs)
6. [Where the code and its documents disagree](#6-where-the-code-and-its-documents-disagree)
7. [Idealisations and what is left out](#7-idealisations-and-what-is-left-out)
8. [The order of the work, and what is left](#8-the-order-of-the-work-and-what-is-left)

## 1. The system

```
 collector (cohaera sign)             cohaera score
 ------------------------             -----------------------------------------------------------------
 lines -> StreamSigner -> output      lines -> read_events -> assemble -> StreamVerifier -> run_all -> print
             |    ^                             (budgets)    (Correlator)   |       ^        (checks)    |
             v    |                                                         v       |           |        v
          state file                                             StreamLedger file (locked)     |   save ledgers
                                                                 ApprovalLedger file (locked) <-+   in this order
```

The components, the state each keeps, what it does, and what would make it wrong:

**Stream verifier** (`evidence.py`, class `StreamVerifier`; called from `ingest.assemble`). State: per stream the
expected position, the chain head, a reorder buffer, the pinned key, how far signatures reached, the lowest verified
close; per session its reason codes and coverage; one counter of held records over all streams; two signature budgets.
Operations: `observe` per record in arrival order, `finalise` at the end of input. Hard: a record may be held, released,
forced, or found behind its stream, and `_consume` is reached from four places; a gap is charged to two sessions of a
stream that multiplexes many; budgets decide conclusions. Correct when: positions are consumed once and in order; a gap
is charged to its neighbours and means a loss, unless a bound forced it and says so; genuine records never read as an
altered chain; an altered record never counts as genuine below a verified signature; every record is accounted for; the
run ends.

**Seen-stream ledger** (`StreamLedger`). State: per stream the first and last position scored, the head there, whether
it was closed; a generation. Operations: `compare`, `record`, `load`, `save`, `locked`. Correct when: an entry only
moves forward along one history, and only what was scored is recorded.

**Approval ledger** (`ApprovalLedger`, spent from `Session._checked_approval`). State: spent nonces, a generation, a
dirty flag. Correct when: no nonce is told unspent twice.

**Score run** (`cli._score`). State: which lock it holds, the ledgers in memory, what it has printed and what has left
its buffer. Several runs share the two ledger files. Hard: lock order and deadline, a crash anywhere, two saves one
after the other, buffered output, hosts without `flock`. Correct when: runs behave as if executed one at a time, and
nothing is recorded that was not shown.

**Collector** (`emit/stream.py`, `emit/writer.py`, `cohaera sign` in `emit/command.py`). State: next position, head,
closed; one line of look-ahead; the output file; the state file. Hard: the state is saved only after the whole batch, a
run may be refused or killed anywhere, a line may be torn. Correct when: what is carried from run to run is one log
that grows by whole batches, the state describes what was written to the output, and a saved position is never signed
again.

**Ingest** (`ingest.py`, `limits.py`, `validate.py`). State: counts of records, bytes, events, retained bytes,
containers and keys, rejects; a flag that the read was cut short. Six budgets tested in a fixed order before each record,
one more inside the reader. Correct when: no budget is passed by more than the record or chunk in hand, each line is
counted once, and an aborted read is never reported as a whole one.

**Correlation and assembly** (`identity.Correlator`, `ingest.assemble`). State: the start of the current window of each
anonymous scope, an ordinal, the buckets. Session id, else trace id, else a scoped window, else isolation; then bounds on
sessions and events, whose dropped records the verifier still sees. Correct when: records with nothing in common are
never merged, the windows depend on the clocks and not on the order of arrival, and nothing accepted vanishes unsaid.

**Session model** (`model.py`). State: the events, two indices over the open calls, the memo of verified approvals, the
caches and the seal. Hard: pairing by span, else by name and order, with retries, duplicates, restamped copies, reused
spans and missing ends; a cache is valid for a revision and a length. Correct when: a call has one start and at most one
end, an end closes the call it names, a redelivered record is one record, and a sealed session answers from what it has.

**Approvals and effect receipts** (`evidence.py`, `emit/approvals.py`, `emit/receipts.py`). Correct when: what covers a
call was issued for it, a nonce vouches once, and a receipt accuses only the call it binds.

**Checks** (`checks.py`). Pure functions of a sealed session: CH01 to CH07, each a finding and a contract that says how
far it could look (`evaluated`, `degraded`, `not_evaluated`, a confidence). Hard: order is decided from clocks that tie,
are missing or disagree with attested positions; one firing speaks for a type; names share tokens; the producer writes
most of what is judged. Correct when: missing evidence never becomes a clean result.

**Trust store, policy, manifest** (`evidence.py`, `emit/keys.py`, `capabilities.py`, `cli.py`). State: files, edited by
hand and by `keygen`, and the descriptors and digests of one run. Hard: nothing locks the store; policy files may be
replaced between two reads. Correct when: what was verified is what was used, a revocation is for good, and a manifest
is loaded whole or not at all.

**Run identity** (`identity.py`). A digest by which a SIEM drops retries. Correct when: a retry has the identity of the
run it repeats and no run that says something else does.

**Ed25519** (`ed25519.py`) and **evaluation and labs** (`eval/`, `lab/`, `tools/`): arithmetic, and offline harnesses.

They interact by plain calls inside one process, in the order of the picture; between processes they share the two
ledger files (under `flock` where the host has it), the collector's state file and the trust store (under no lock) and
the telemetry itself. There are no threads in the command line tools; a program that embeds `cohaera.emit` may share one
`StreamSigner` among threads. `PROJECT.json` lists which component is modelled and, under `hazards`,
each line at which it can go wrong in a way a test would hardly reach.

## 2. The modules and how they correspond to the code

| module | models | form |
|---|---|---|
| `Sidecar` | the parsed `integrity` object, chain, signing input, trust store, key windows and succession, freshness, reason codes | constants and operators |
| `StreamLedger` | `StreamLedger.compare` and `record`, `SeenVerdict` | operators |
| `StreamVerifier` | one run of `StreamVerifier`, from the first `observe` to the end of `finalise` | state machine |
| `StreamVerifierProps` | what such a run promises, against what the collector really wrote | properties |
| `Observation` | a run's input as verification leaves it, its judgement and its nonces | operators |
| `ObservationLedger` | the two ledgers as a reader would want them: observations one after the other | abstract specification |
| `ScoreRuns` | any number of `cohaera score` processes that share both ledgers | state machine, refines `ObservationLedger` |
| `SignedLog` | a collector's stream as one log that grows by whole batches | abstract specification |
| `SignRuns` | runs of `cohaera sign`, one after another, over one stream | state machine, refines `SignedLog` |
| `SharedSigner` | threads that share a `StreamSigner`, and collectors that share its files | state machine |
| `Ingest` | `read_events`, its reader and its budgets | state machine |
| `Assembly` | `assemble` and `Correlator.key_for` | state machine |
| `CallMatching` | what pairing promises | abstract specification |
| `Pairing` | `_build_dedup`, `_build_calls` and CH05 | state machine, refines `CallMatching` |
| `SealedSession` | the caches and the seal of a `Session` | state machine |
| `Approvals` | `covering_approval`, `_checked_approval`, `verify_approval`, `spend`, over the sessions of one run | state machine |
| `Moments`, `Ordering` | which of two records came first; `_References`, its constant-space form for many | operators; state machine |
| `Classes` | what a call is taken to do, and how far that is known | operators |
| `Grammar`, `Disclosure`, `Taint`, `Guardrails`, `Attestation`, `Receipts` | CH01, CH02, CH03, CH04, CH06, CH07 with their contracts | a session that grows, and operators over it |
| `TrustedKeys`, `TrustStore` | `TrustedKey`, `from_obj`, `_store_warnings`, `verify_policy_signature`; the store as it is edited | operators; state machine |
| `PolicyRun` | the manifest and the baseline of one run: opened, hashed, verified, used | state machine |
| `KeyRuns` | runs of `cohaera keygen` over shared files | state machine |
| `RunIdentity` | `trust_config_digest` and `run_id` over runs on several hosts | state machine, over `Observation` |
| `Manifest` | `from_obj` and `semantic_digest` | state machine |
| `StreamVerifierProofs`, `StreamHistoryProofs`, `ScoreRunsProofs`, `SignRunsProofs` | | proofs about the module each is named after |
| `IngestProofs`, `SessionProofs` | | proofs about `Ingest` and `Assembly`; `SealedSession`, `Pairing` and `Approvals` |
| `ChecksProofs` | | proofs about `Ordering`, `Grammar`, `Disclosure`, `Taint`, `Guardrails`, `Attestation` and `Receipts` |
| `OperatorProofs` | | proofs about `TrustStore`, `SharedSigner`, `KeyRuns`, `PolicyRun`, `RunIdentity` and `Manifest` |
| `MCStreams`, `MCTamper`, `MCScores`, `MCSigning` | | instances for TLC |
| `MCSessions`, `MCChecks`, `MCOperator` | | suites of instances for TLC (section 3) |

**Sidecar.** A chain head is the sequence of what it commits to: the seed `<<stream, key>>` and then the bodies. Two
heads are equal exactly when SHA-256 would be expected to agree. A signature is the pair of a key and the signing input,
so a signature verifies exactly when that key signed those bytes. `NoHead` and `NoSig` stand for absent or unusable
fields.

**StreamVerifier.** A record is anything in `Records`: the environment picks the next arrival freely, so every order,
loss, repetition and alteration of the instance's records occurs. Each branch of `observe` is an action
(`ObserveBare`, `ObserveOverStreamBudget`, `ObserveInOrder`, `ObserveTaken`, `ObserveEarly`, `ObserveEarlyForced`). The
loop of `_drain` is one `DrainNext` per record released; `_hold` after a force goes on with `PlaceInOrder` or
`PlaceHeld`; `finalise` is one `FinaliseForce` per turn of its loop, then `FinaliseClose`, `JudgeAgainstLedger` per
stream and `Report`. `draining` and `inHand` are the program counter inside a handler, and nothing arrives until both
are empty, so handlers are atomic with respect to arrivals as they are in the code. `_consume` with the signature,
freshness and key checks it calls is the operator `Consumed` for the stream and `ConsumedSessions` for the sessions.
`log`, `seen` and `repeated` are history: no action reads them.

**ScoreRuns.** `pc[r]` says where run `r` is; the two ledgers go through the same steps, so one action with a `name`
serves both: `Lock`, `LockTimeout`, `Load`, then `Score` (verification and judgement in memory), `Emit` per session
(which also spends the session's nonce), `EmitEnd`, and per ledger `SaveNothing`, `SaveCheck`, `SaveRefused`,
`SaveReplace`, then `Exit`. Between `SaveCheck` (the generation guard) and `SaveReplace` (`os.replace`) another run may
step, which matters only without locks. `shown` is how much of what was printed has left the process: on a terminal all
of it, otherwise any amount up to it. `Stop` is a crash or an error at any point and `Hang` a run that never returns.
`told` is the history of observations whose save has returned; `ObservationLedger` is stated over it.

**SignRuns.** `ReadLine` reads a line and signs and writes the one held back; `LastLine` signs the last with `attest`
and, under `--close`, `final`; `Refuse` is a bad line, a record that cannot be signed or a closed stream; `Save` is
`write_state`. `Stop` is a kill between lines, `Tear` one inside a line. `written`, `glued` and `saved` are history. A
record appended to a torn line is not in `written`: no reader can parse that line, and `glued` keeps its position.

**SharedSigner.** A thread signs (`Sign`, under the signer's lock), writes (`Write`), takes the state (`TakeState`,
under the lock) and replaces the state file (`WriteState`); what lies between is interleaved with the other threads of its
process and with another process that was started beside it (`Start`, `Kill`). `Seen` is what `sign` may find in the
signer: with the lock, the signer itself.

**Ingest.** A line is its length, what parsing makes of it and what the parse builds, chosen when it is read from those
that still fit. `Skip`, `Refuse` and `Accept` are the turns of the loop; `StopAtBudget` is `_budget_hit` before a line,
`StopAtOverBudget` the reader's own bound, `EndOfFile` the reader's end. **Assembly.** `Place`, `DropSession` and
`DropEvent` are the three ends of a turn of `assemble`; the next record is any that the clock order allows (`left`).

**Pairing.** `DedupStep` and `PairStep` are the turns of the two loops. `openBySpan` and `openByName` are the two
indices, sets of pairs, with the calls of a name in call order. **SealedSession.** `AskFor` reads through `_cached`; an
edit is `AddEvent`, or one that bypasses it (`AppendBare`, `Replace`, `Rebind`), after which `unsaid` remembers that
nobody called `invalidate`. **Approvals.** `Ask` begins a question of `_approval_state`, `Check` verifies and spends for
one record, `Answer` ends it: other questions of the run come in between, and so do further records, for the calls in
`Early` may be asked about before `Seal`.

**The checks.** Each module lets a session grow by any call, record, firing or response of its instance and states the
finding and the contract as operators over the session, so each property is checked in every session of the bounds and,
where it compares a session with the one before, on every step (padding, one more call, one more content match).
`Attestation` repeats of the verifier only what the status of a session is made of: its streams are whole and in order.
The confidence of a contract is a product of shares, kept as a pair of naturals.

**TrustStore, PolicyRun, KeyRuns, RunIdentity, Manifest.** The operator's edits (`RetireKey`, `RevokeKey`, `Rename`,
`RewriteInPlace`, the wall clock) are actions of the environment between any two steps of the code. A path names an
inode, so a file renamed over it and a file rewritten in place differ, as they do to an open descriptor. A document of
`KeyRuns` written in place is `Torn` between truncation and write. An identity is its payload: digests do not collide.

The operator named beside a "Mutant of" comment is a plausible error in the definition it names, against which the
properties are tried (`mutants` in `PROJECT.json`); it is used nowhere else.

## 3. The runs

| run | what is asked | states |
|---|---|---|
| Delivery | reordering, loss, repetition, the reorder and stream budgets, the end of input | 142,656 |
| Tamper | altered, unsigned, unlinked and re-chained records; what the ledger learns | 403,284 |
| Keys | rotation, roll-back, revocation, windows, freshness, closes, signature budget | 28,649 |
| Scores | runs that share both ledgers under locks: serial, reported before recorded, always ending | 81,093 |
| Unlocked | what the generation guard alone still gives | 1,778,670 |
| Signing | batches, refusals, kills and restarts of a collector | 285,153 |
| Sessions | reading, grouping, pairing, sealing, approvals | 1,901,421 |
| Checks | order, CH01 to CH04, CH06 and CH07 with their contracts | 666,136 |
| Operator | trust store, policy files, keygen, shared signers, run identity, manifest | 2,303,878 |
| FinaliseHangs, FindingsLost, SharedSequence | one disagreement each (section 6) | |

**Delivery** (`MCStreams`). Stream 0 has five records of two sessions and one that assembly dropped, stream 1 three of
one session, stream 2 one; all genuine. `MaxArrivals = 6` leaves room for a stream that is joined late, has two separate
gaps and a repeat; `MaxReorder = 2` is the least at which the buffer holds records of two streams and at which a force
frees one of two; `MaxStreams = 2` with three streams reaches the stream budget. It shows that positions are consumed
once and in order and the global counter of held records is right (`InOrderAndCounted`), that a gap is charged to exactly
the two sessions next to it and, unless it was forced, means a record that never came (`GapsAreJust`), that genuine
records never read as a broken chain (`NoFalseBreak`), that each record is scored, held or excused
(`EveryRecordAccounted`), that a record falls behind only by forcing (`StrandedOnlyByForcing`) and that, unless the budget
forced, the run ends (`FinaliseEnds`).

**Tamper** (`MCTamper`). Four positions, one session each, so that a code names its position; each arrives in any of
seven variants, against five ledgers (none, an open entry at 0, a closed one, one at 2, one of another stream that fills
the ledger). Four arrivals let a whole altered stream through; three positions would not separate the record altered,
its neighbours and a bystander. It shows the type invariant, that admitted evidence is genuine up to the last verified
signature (`AdmittedIsGenuine`), that a break stays local (`BreaksAreLocal`), and that the ledger never forgets and
records only what was scored (`LedgerFollowsTheScored`).

**Keys** (`MCStreams`). A whole chain of three signed by a line of three keys, an unrelated key, a policy key, a revoked
and an unknown one, at clocks on each side of each window and freshness bound, with closes that verify, do not verify,
or are claimed without a signature; two verifications allowed, and the time budget may run out anywhere. It shows
`OneLineOfKeys`, `RangesAreVouched` and `NothingFollowsAClose`.

**Scores** and **Unlocked** (`MCScores`). Scores: three runs, one of which starts twice, over a stream that is begun,
continued and forked, with nonces presented again; every interleaving of their steps and every place to stop or hang.
`Serialised` is the refinement of `ObservationLedger`. Output goes to a terminal there; to a file or a pipe
`ReportedBeforeRecorded` fails (FindingsLost). Unlocked: two runs, twice each, overlapping by one position, without
locks and with buffered output: no stream is judged fresh and no nonce unspent twice (`FreshAndNonceOnce`), with the
exception of saves that overlapped in the window the code's docstring declares.

**Signing** (`MCSigning`). Four batches in any order, the first and the third run at most twice: one plain, one with a
bad line after two good ones, one that closes the stream, one whose last record cannot be signed; a signature due every
third record, so that batches end between two of them. `GrowsByBatches` is the refinement of `SignedLog`;
`StateStandsOnOutput` says that what the state file counts was written with the chain it carries and ends in a signature,
`SavedIsFinal` that a saved position is not signed again and a saved close not reopened.

**The suites.** Sessions, Checks and Operator each hold several small machines that share no state, and a constant
variable `part` says which of them a behaviour runs; the state space is the sum of those of the machines, and one run
checks them all. `MCSessions` extends `Ingest`, `Assembly`, `SealedSession`, `Pairing` and `Approvals`; `MCChecks` extends
`Ordering` and the modules of the six checks; `MCOperator` extends `TrustStore`, `PolicyRun`, `KeyRuns`, `SharedSigner`,
`RunIdentity` and `Manifest`. A machine that is not the part stands at an initial state, and the properties are the
modules' own, those the theorems of section 5 state.

**Sessions** (`MCSessions`). *Reading*: files of up to thirteen bytes in lines of up to six, read in chunks of four;
lines blank, overlong, malformed, too deep, undecodable, rich or fine; each of the budgets is the one that ends the read
in some behaviour. `ReadIsBounded` and `ReadIsAccounted` say how far a budget may be overrun, that each line is counted
once, and that a read which ends early says so. *Grouping*: seven records with shared and missing session ids, trace ids,
scopes and clocks under bounds on sessions and events, and six anonymous ones of two scopes whose clocks span several
windows, each in every order. `GroupedByWhatTheySay`: which share a session depends on what they say and not on how they
came. *Pairing*: every sequence of up to five starts and ends over two names, with one span on the starts and that or
another on the ends, which is the least that has a call closed by span while another of its name is open; and every
sequence of up to four copies that share ids, bodies and stamps. `EveryCallPairedOnce` holds the refinement of
`CallMatching` and the agreement of the two indices. *Sealing*: two events, two manifests, every order of asking, editing
and sealing up to four revisions (`SealedSessionIsFixed`). *Approvals*: an issuer, two nonces, a third of an approval that
has expired, which fills the ledger, and a producer that replays, rewrites, delays, strips and re-signs, over two sessions
of which one call may be asked about while its session still grows (`CoveredOnceByTheIssuer`). Two records, calls and
sessions are the least in which one nonce meets another call, another session and a ledger that is full.

**Checks** (`MCChecks`). *Order*: every set of up to three references on two streams with three clocks, three positions
and neither, against every call; with three, the reduction has already forgotten one (`ReductionIsTheOrder`). *CH01*:
baselines of up to four sessions and sessions of up to four calls, long enough to be padded past the least length of the
out-of-distribution test, by a routine tool, a declared one, and one whose calls the producer alone classes, so that a
failed call and its retry may differ in class (`NovelEffectsAreHeard`). *CH02*: texts of up to four words with cues,
sentence ends and names that share tokens, over up to three calls (`UndisclosedStaysUndisclosed`). *CH03*: up to three calls and two records by
span or by name (`OneAnswerOneCall`). *CH04*: up to three firings of two types and two calls (`RefusedWorkIsNamed`,
`SilenceIsEarned`). *CH06*: two sessions on three streams of which two are tracked, four records,
in runs with and without keys, bound, ledger and closed streams (`AttestedIsSigned`). *CH07*: up to three calls (`ReceiptsAccuseTheirCall`). Thresholds that decide a finding are the
code's own (three calls, half of a vocabulary, a rate of a quarter), and these sessions fall on both sides of each.

**Operator** (`MCOperator`). *Trust store*: three keys, so that a ring of replacements need not be a pair
(`RevocationsHold`). *Policy*: every pair of files and signatures, three stores, two edits by others at any point of the
run (`ScoredUnderTheSignedPolicy`). *Keygen*: four runs, two for one key file, one overwriting it, one apart, each
killed anywhere, with revocations between (`PublishedKeysWereKept`). *Sharing*: three threads in two collectors, one of
which restarts (`OneLineWhoeverSigns`). *Identity*: histories of three runs on two hosts (`IdentityMeansTheSameRun`).
*Manifest*: every way one field of an entry can be wrong, and respellings (`LoadedWholeUnderOneDigest`).

Deadlock is checked in the verifier's runs, whose end is the stuttering action `Terminated`. The others turn it off:
their machines may all have ended, or have used up the bounded number of starts, records or arrivals. `MaxArrivals`,
`MaxTries`, `MaxHistory`, `MaxNow`, `MaxRefs`, `MaxSteps`, `MaxActs`, `MaxUses`, `MaxFirings`, `MaxWorks`,
`MaxObserved`, `MaxOutcomes`, `MaxRevision`, `MaxLength`, `MaxPresented`, `MaxIssued`, `LastSession`, `MaxEdits`,
`MaxLives`, the set `Histories` of event lists, and `MaxRecords` of `SharedSigner` and of `Taint`, are bounds of the
models; other limits are the program's own, among them `MaxRecords` of `Ingest` and the `MaxSessions` and
`MaxEventsPerSession` of `Assembly`. Symmetry is taken only over identities that no clause names: the sessions and
streams of CH06 and the key ids of the store. Neither of those suites has a liveness property.

The histories `seen` and `repeated` are left out of the states that Tamper and Keys compare (`VIEW`); nothing in the
properties of those runs reads them.

## 4. Fairness

`StreamVerifier!FairSpec` has weak fairness of `Handler` (a function call runs on), `EndOfInput` (the input is a file
or a pipe that ends) and `Finalise`. Arrivals are not fair: nothing says that a record comes. `ScoreRuns!FairSpec` has
weak fairness of `Proceed(r)` for each run: a live process is scheduled. A lock that is held is waited for only until
the deadline, so `LockTimeout` is enabled whenever `Lock` is not, and the fairness of a run does not assume that its
peer lets go. `Hang` and `Stop` are never fair. No other module states liveness: the rest of the code is loops over a
finite input, whose ends are their last action, and nothing in it waits.

## 5. The proofs

`tlapm` checks all of them. Each proof module extends the module it is about, and nothing is assumed beyond the
assumptions of the specifications, which TLC evaluates on every instance:

* the constants are well typed (`StreamsAssumption`, `TrustStoreAssumption`, `RecordsAssumption`, `SignAssumption`, ...),
  and a trust store has finitely many keys, being one JSON object; those of the machines of a suite are hypotheses of
  their theorems, evaluated by `PartsAssumption` of `MCSessions`, `MCChecks` and `MCOperator` (`Ingest` has its own);
* `SignaturesAreGenuine`: a signature the verifier would accept was made by the collector over what it wrote; this is
  the whole of what Ed25519 and SHA-256 contribute;
* `LedgersAreGenuine`: the heads in a loaded ledger are the collector's.

Three theorems have a hypothesis of their own: `OnlyAltered` (`BreaksStayLocal`), `HaveFileLocking` (`RunsAreSerial`) and
unbuffered output (`RecordsFollowReports`).

**The verifier** (`StreamVerifierProofs`). The theorems `TypeCorrect`, `InOrderAndWellCounted`,
`AdmittedEvidenceIsGenuine` and `LedgerIsFaithful`, and their parts `PendingIsCounted`, `OnceInOrder`,
`LedgerOnlyContinues` and `LedgerIsScored`, rest on one inductive invariant `IInv`: `TypeOK`; for every stream
`StreamInv`, made of `Shape` (a stream is open exactly when it has consumed a record, and only its own records wait for
it), `Extent` (`first`, `last` and `lastSession` are those of the log, and the attested point is behind `expected`),
`InOrder`, `AllScored` (unless the stream is marked, each logged record was in a scored session) and `Faithful`; then
`InHandOK` (the record a handler has in hand is not also held) and `Counted`. `AdmittedIsGenuine` is far from inductive
by itself: while records are consumed no signature has yet confirmed them. `Faithful` carries what a stream without a
gap or a break needs in between: its log is contiguous, its head ends with the logged bodies, and up to the attested
point those bodies are as written. A signature that then verifies over a genuine head forces every body folded into it
to be genuine, which moves the attested point forward.

**What a run says of its history** (`StreamHistoryProofs`). Ten more theorems rest on `IInv` and on one lemma,
`StepOfStream`: whatever action is taken, to any one stream it only adds codes that do not speak of its chain
(`Annotates`), holds one record back (`HoldsBack`), forces a gap (`ForcesOn`) or consumes one record (`ConsumesOne`),
which may be the first. Most of what follows is split into these four cases.

* `ClosesAreFinal` (`NothingFollowsAClose`): a close stands inside the log, and a record logged past it brought its code.
* `RangesVouchedFor` (`RangesAreVouched`): a stream's attested point is the last position with an accepted signature
  (`VouchedInv`). The ranges copy it when the report writes them (`RangesInv`), and by then nothing is consumed any more
  (`DrainedInv`).
* `RecordsAreAccounted` (`EveryRecordAccounted`): a log and the codes of a session only grow, a held record is let go
  only into the log, and a record that arrives is logged, held, kept in hand or marked on its own session.
* `GenuineNeverBreaks` (`NoFalseBreak`): while every record is the collector's own, the head an open stream stands on is
  the collector's head at the expected position, also after a force has taken it from the next held record (`NeverBroken`;
  `KnownInv`: whatever is held or in hand was observed).
* `OnlyForcingStrands` (`StrandedOnlyByForcing`): unless the reorder budget forced it, a stream holds nothing behind the
  position it expects, and a record at that position only while it is being drained (`Ahead`); a record is in hand past a
  force only in a stream so marked (`HandInv`).
* `GapsNameTheirNeighbours` and `GapsMeanALostRecord`, together `GapsAreJustlyCharged` (`GapsAreJust`). A force charges
  the session of the last record consumed and that of the record it jumps to, which is then consumed, not held: so each
  charge is of two neighbours in the log with a hole between them (`GapInv`; between the force and that consumption the
  hole is at the end of the log, `JumpInv`). In a stream the reorder budget did not force, every record observed is
  behind the expected position or held (`CoveredInv`), so a gap is declared only at the end of the input and over a
  position at which nothing arrived (`LostInv`).
* `BreaksStayLocal` (`BreaksAreLocal`): a record found broken and the one before it in the log disagree about one head.
  If both were as the collector wrote them they would agree, whatever was forced between them; the sessions charged are
  those of these two. The hypothesis `OnlyAltered` leaves out one kind of record: a body the collector wrote at that
  position under links it did not, of which the property, which speaks of bodies, would say nothing. Tamper evaluates it.
* `StreamsHaveOneKeyLine` (`OneLineOfKeys`): unless the stream is marked, the key pinned to it is that of each accepted
  signature or a successor of it. That succession is transitive is proved of the walk `Succeeds` makes
  along `replaces`, which a bound on its length keeps finite where keys replace one another in a ring.

**Score runs** (`ScoreRunsProofs`). The invariant `Inv` needs no lock (`GenerationTells`): by position of the program
counter it says what a run has in memory, and that a ledger in memory whose generation is still the file's is that file
but for what the run itself folded in, unless two saves overlapped (`raced`).

* `RunsAreSerial`: where `HaveFileLocking` holds, `Spec => Serialised`, for any number of runs, batches, nonces and
  restarts. `LoadedIsCurrent` adds to `Inv` that a run holds the lock of what it has loaded; two runs cannot hold one
  lock, so a replace cannot overwrite anything but the generation its run read.
* `AnswersAreGivenOnce` (`FreshAndNonceOnce`), with or without locks: what was told fresh or unspent is in the file of
  its ledger from then on (`FreshRecorded`, `NonceRecorded`), and the guard of `save` lets only a run pass that knew
  that file. This is why the statement excepts saves that overlapped: between the guard and the replace nothing else
  keeps two runs apart.
* `RecordsFollowReports` (`ReportedBeforeRecorded`): where each line leaves the process as it is printed, a run that has
  come to its saves has shown all its sessions (`OutputInv`), and a file holds what was shown by then. Buffered output is
  the disagreement FindingsLost of section 6.

**Sign runs** (`SignRunsProofs`). `CarriedIsOneLog` is `Spec => GrowsByBatches`; `StateStands` and `SavedStays` are
the other two properties of the run Signing, each from theorems about its parts, for any batches, sampling rate and
pattern of failures. The invariant (`RunsStandOnTheState`) says that a run in progress stands at a prefix of its batch,
all of it readable and signable, on the chain its state file carried, and is closed only by its last line. `Described`
adds that the output shows every position up to the signer's, and `Numbered` that a run's own records are numbered
upwards from the state it resumed.

**Shared signers** (`OperatorProofs`). `SharersSignOneLine` is `OneLineWhoeverSigns` for any number of threads,
processes, records and restarts. The invariant (`SignersAgree`) says of each start that lives that all its records are
behind its signer (`BehindTheSigner`: below its position, the last of them the one its head ends with, none a close
unless it is closed); a record signed under the lock is then ahead of them all, and two of one position cannot be. A
state taken by a thread is behind the signer of its process for as long as that lives (`Carries`), which makes a late
`WriteState` harmless while one collector lives (`OneAtATime`, `FileBehind`).

**Keygen** (`OperatorProofs`). `PublishedKeysCanSign` is `PublishedKeysWereKept` for any number of runs and key files.
`PublishedWasKept` speaks of what the store names, but a document read earlier may be written later: the invariant
(`KeygenInvariant`) therefore says it of every run that has written its seed (`Kept`), and that documents, on disk or in
memory, name only runs that are done (`Documented`). That runs apart forget nothing needs the same of the one document
in memory (`Apart`).

**Policy files** (`OperatorProofs`). `VerifiedIsWhatScored` is `ScoredUnderTheSignedPolicy` for any command line, store,
signatures and edits. The invariant (`ReadOnce`) follows the run: the descriptor opened once serves the digest and the
fit, so that a rename between them moves neither, and a rewrite in place is remembered.

**Reading** (`IngestProofs`). `ReadsAreBounded` and `ReadsAreAccounted` are the two properties of a read, for any file,
lines and bounds. Each budget is tested before the line that may pass it, so a sum is below its bound before a line and
gains at most that line. What has to be added (`Charged`) is that the lines counted are no more than the bytes passed,
from which the reader's own bound follows, and that the estimate of memory is that of what was retained.

**Grouping** (`IngestProofs`). `GroupedJustly` is `GroupedByWhatTheySay` for any file, order of arrival, window and
bounds. Each record has a label, by which its grouping is decided (`LabelIn`): the name the producer gave, or its scope
with the window its clock falls in, or itself. The windows of a scope are given by a recursive function of its clocks,
of which it is shown that it exists and that a clock is in one window only, by a least counterexample and not by
induction. The invariant (`AssemblyInv`) says that the windows in memory are those of the records placed so far
(`WindowsKept`), that a bucket holds the first of the placed records of one label, as many as it has room for, and
nothing else (`BucketOK`), that buckets stand in the order of their first records (`BucketsInOrder`), that a record
without a bucket found no room for one more and came after each bucket's first (`OnlyLaterLeftOut`), and that the two
counts of dropped records together are the number of records left out. That the sessions are those the reference makes
of the same records then follows by counting the groups that began before a record's own.

**Pairing and sealing** (`SessionProofs`). `PairedOnce` is `EveryCallPairedOnce`, the refinement of `CallMatching`
included, for any sequence of events. `DedupInv` says of every event read that it was kept, or is a redelivery of one
that was. `PairingInv` says of the calls built so far that each is made of at most one start and one end of one name,
that each start and end read is in exactly one of them (`CallsOf`), and that the two indices hold exactly the open
calls, those of a name in the order they began. That a name has as many starts as ends once all its calls are complete
is shown by the two maps from calls to events being one to one. `SealedStaysFixed` is `SealedSessionIsFixed`
(`SealingInv`: unless an edit bypassed `invalidate`, what is cached is what would be computed).

**Approvals** (`SessionProofs`). `IssuerCoversOnce` is `CoveredOnceByTheIssuer` for any contents, records, calls, keys
and capacity of the ledger. The invariant (`MemoIsTrue`) says that what is remembered of a record is what verifying it
found (`Remembered`), that a nonce that vouched was not spent before and is now (`VouchedIsSpent`), that it vouched in
one session (`NonceVouchesOnce`) and was issued (`SpentWasIssued`), that a question in progress has each record that
could match either remembered or still to check (`Asked`), and that what a sealed session has answered it would answer
again (`Standing`): no record is added any more, so neither the candidates nor what is remembered of them can change the
answer.

**Run identity** (`OperatorProofs`). `IdentityIsOfTheRun` is `IdentityMeansTheSameRun` for any inputs, hosts, instants
and histories. The invariant (`RunsSayWhatTheyRead`) says of each run that its identity and that of its verdict are
digests over what it read at one instant (`Says`), and that what it read is behind the ledger its host has now: a ledger
only gains generations, and on one host a generation is one content (`Behind`). The recursive functions that give the
answers of a ledger are shown to exist as for the windows above.

**Manifest** (`OperatorProofs`). `DigestsMeanOnePolicy` is `LoadedWholeUnderOneDigest` for any file and limits. The
invariant (`EntriesSayWhatIsHeld`) says that what is held is what the entries passed so far say. Each reading then
determines the next coarser one: what an entry says fixes what it means, and what it means fixes the class that the checks
act on, so that one semantic digest is one set of classes.

**Trust store** (`OperatorProofs`). `RevocationsAreKept` is `RevocationsHold` for any ids, times, entries and bound on the
keys. The invariant (`StoreInv`) is that the document loads. The work is `CycleReported`: that the walk of
`_store_warnings` along `replaces` comes back to a key it has seen exactly when some keys replace one another in a ring.
The walk is a recursive function over sets of keys. To be trapped among keys that replace one another (`Trapped`) solves
its recursion, so it exists; that it answers exactly that is shown by a counterexample with the fewest keys still unseen,
not by induction over the store.

**The checks** (`ChecksProofs`). Each theorem is the property of section 3, for any session of any length, any names,
clocks, positions, policies, texts and baselines. What they need from arithmetic they share: a share is at most one, and
a product of shares is one only if each of them is.

* `ReductionsAreExact` (`ReductionIsTheOrder`): the invariant (`OrderingInv`) says of the constant-space reduction that
  it holds the least attested position on each stream (`LeastKept`), the earliest mark (`BestKept`), the earliest of
  another stream than that one's (`NextKept`), and whether a reference has no clock (`UnclockedKept`). What is forgotten
  is on the stream of one of the marks kept and no earlier than it, so no call is told differently for it.
* `NovelEffectsAreCounted` (`NovelEffectsAreHeard`, CH01): a call is classed on its own, by the producer's flag where no
  manifest declares its tool. A retry follows a failed call of its own tool: either that call was consequential too, and
  not completed, or the retry has been reclassified. So the completed consequential calls of a tool, and one more if the
  session ends in a failed one, are no more than its consequential calls that are no retry together with those
  reclassified (`RetriesArePaid`), and each of the former is counted where the baseline has never seen the tool. The
  reclassified are the exception the code makes: a copy that failed and was not consequential is not counted, nor is the
  retry (`CopyIsCounted`, section 6); two calls of one tool differ in class only where the producer's flag differs and
  the manifest is silent (`OnlyTheFlagReclassifies`).
* `UndisclosedIsNeverHidden` (`UndisclosedStaysUndisclosed`, CH02): the merged spans of the negation cues are in order,
  apart, and cover the words the cues' own cover (`MergedTo`), so that the search by position finds a span exactly when
  some cue reaches that position. The tokens that a session's tools share only grow with it, so a further call takes
  words away from what may disclose another and adds none.
* `AnswersAreOfOneCall` (`OneAnswerOneCall`, CH03): an answer is bound to one call at most (`BoundTo`), so that the
  calls scanned map one to one into the answers; a record that carries content alone moves one share, that of the calls
  in dispute.
* `RefusedWorkIsReported` and `GuardrailSilenceIsEarned` (CH04): the record named for a type is the first listed among the
  earliest of its firings, and while no firing is counted as unusable all have clocks (`GuardrailInv`).
* `AttestationIsSigned` (`AttestedIsSigned`, CH06): the invariant (`AttestationInv`) relates the two books the verifier
  keeps, by stream and by session: a position a session had is one its stream reached and remembers the session for, and
  past a signed close it cost the session a code (`FedFacts`); what a verified signature reached is behind the stream's
  end (`StreamTypes`, `SessionTypes`); the codes and ranges of a session at the end are those of its streams
  (`EndFacts`).
* `ReceiptsAccuseOnlyTheirCall` (`ReceiptsAccuseTheirCall`, CH07): what binds a receipt to a call is compared field by
  field; a further read changes none of the calls that may have had an effect, and lowers the shares of declared classes
  and of undisputed outcomes or leaves them.

Every safety property of every passing run is thus also a theorem. Only model-checked are `FinaliseEnds` and
`EveryRunEnds`: they are liveness, which is out of the prover's reach. The statements of section 6 are refuted, not
proved.

## 6. Where the code and its documents disagree

Each statement below is one a document, comment, docstring or test of the repository makes, written as a definition, and
TLC refutes it on an instance here. Three are runs (`findings` in `PROJECT.json` quotes their lines):

* **FinaliseHangs** (`FinaliseAlwaysEnds`). `finalise` loops for ever on a held record that has fallen behind its stream.
  `_hold` stores the record in hand after a force even if the drain has moved past it (sequences 0, 5, 3 with a window of
  one).
* **FindingsLost** (`ReportedBeforeRecorded`, to a pipe). The last verdicts are in the process's buffer while the ledgers
  are replaced. Killed then, the run has recorded streams whose findings nobody will see, which the order "print, then
  save" is there to prevent. Nothing flushes before the save.
* **SharedSequence** (`EveryFiringNamed`). Two firings of one type without a clock and with one sequence number end CH04
  with a `TypeError`: `min` compares the events themselves.

The others are definitions of the same names, under the heading "Statements of the repository that the model refutes" of
their modules. No run checks them; naming one as an INVARIANT (those marked * as a PROPERTY) of the configuration of its
run shows the counterexample.

| statement | run | what the code does (line) | what the repository says |
|---|---|---|---|
| `ReplayMeansRepeated` | Delivery | a stream whose first two records arrive swapped is charged with a replay (`evidence.py` 3342) | "a duplicate delivery or a replay of a record whose position in the chain is taken" (3343) |
| `LedgerStopsAtAttested` | Tamper | one verified signature admits a stream with all of its unsigned tail (`evidence.py` 3441) | "Once keys ARE loaded, an unsigned record is not evidence" (3431) |
| `NeverHandedBack` | Scores | a nonce is spent in memory; a run that stops before its save hands it back (`evidence.py` 2843) | "cannot hand the same nonce back on the next run" (2829) |
| `ReplayMeansScored` | Scores | an entry is one interval, so records skipped and never scored come out as a replay (`evidence.py` 2362) | "occupies sequence positions already scored" (2050) |
| `AbortedLeavesRecords` | Sessions | a file whose last record fills a budget is aborted with nothing left to read (`ingest.py` 319) | "remaining records not read" (325) |
| `RatioOverASample` | Sessions | the floor of the reject ratio counts blank lines, the ratio does not (`ingest.py` 297) | "The ratio is meaningless on a tiny sample" (`limits.py` 385) |
| `KindOfEveryRecord` | Sessions | a session id and a trace id of one value share a bucket, which keeps the first one's kind (`ingest.py` 507) | "Every session carries the correlation kind and confidence it was built from" (472) |
| `OneOfEachDelivery` | Sessions | only the first record of an id is remembered, so restamped copies of a second one are both kept (`model.py` 849) | "are one record delivered twice" (502) |
| `SpannedEndFindsItsCall`* | Sessions | of two open calls of one span, the second is closed by no end that gives the span (`model.py` 1115) | "the second falls back to name matching" (1102) |
| `SpentOncePerSession` | Sessions | a session that grows after it was asked forgets what it verified, spends again and finds its own nonce spent (`model.py` 820) | "Verify an approval ONCE per session, and spend its nonce once." (1465) |
| `NoReplayCovers` | Sessions | a full ledger answers None, which is taken as no ledger: the approval covers again and again (`evidence.py` 2839) | "None must never collapse into either" (2744) |
| `NoneMeansNonePresented` | Sessions | a fitting approval observed after the call began is passed over as none (`checks.py` 1290) | "no approval was presented for it" (1322) |
| `Strongest` | Checks | a call its own stream places before one reference is said to precede a set with an unclocked one of another stream (`checks.py` 748) | "AFTER beats INDETERMINATE beats NOT_AFTER" (741) |
| `SilenceIsReported` | Checks | a firing without a clock leaves a call unplaced, which nothing names (`checks.py` 1688) | "That silence is now a reported blind spot rather than a clean session." (1681) |
| `PlacedIsNotCharged` | Checks | a call after one firing of a type and on another's tick is a finding and is charged as unplaced (`checks.py` 1692) | "the share it could not place now costs it confidence" (3063) |
| `BlockingFiringHeard` | Checks | the earliest firing speaks for its type: a later blocking one is not read (`checks.py` 1500) | "the control was DECLARED blocking, work completed after it" (1162) |
| `BypassFollowsBlocking` | Checks | the enforcement is the named firing's, the calls those after any: earlier work is a bypass (`checks.py` 1523) | the same line |
| `PaddingNeverSilences`* | Checks | one routine call more brings a short session over the least length, and CH01 declines (`checks.py` 318) | "Padding with routine calls cannot reduce this" (382) |
| `CopyIsCounted` | Checks | a failed call that is not consequential is not counted, and its retry, called irreversible, passes for a retry (`checks.py` 263) | "the failed copy is itself a consequential call at the end of the same novel transition, so it is counted and CH01 still fires" (163) |
| `FindingMeansEvaluated` | Checks | a failing read-only call with the only receipt is a finding beside a contract that says not evaluated (`checks.py` 3255) | "contradicts the finding in the same verdict" (`tests/test_hostile.py` 2605) |
| `NothingCheckedIsNoConfidence` | Checks | failed calls keep CH02's confidence up where the only executed one could not be attributed (`checks.py` 2752) | "is one CH02 has NOT checked, and the previous version scored it as clean" (2748) |
| `AnsweredReadsAreScanned` | Checks | answers without a span all bind to the first call of their name (`checks.py` 2445) | "carry no scanner answer" (2883) |
| `FlaggedWhenItSays` | Checks | markers without a clock are said to have been flagged at t=0 (`checks.py` 694) | "Injection markers were flagged at t=" (1080) |
| `CompleteOnEveryStream` | Checks | a session fed by a stream over the budget is complete on the others (`evidence.py` 3307) | "reaches the last record of every stream feeding the session" (`docs/EVIDENCE-TRUST.md` 184) |
| `CoveredIsNotUnsigned` | Checks | a session whose records lie below another's verified signature is called unsigned (`checks.py` 1796) | "attests every record up to that point" (1775) |
| `CoverageIsOfTheSession` | Checks | a session's coverage weighs whole streams, whoever's records they hold (`evidence.py` 3104) | "Share of this session's attested records" (3105) |
| `NoBoundMeansNone` | Checks | with a bound in force, a session without a usable clock is told none was (`checks.py` 3165) | "No freshness bound was in force" (3171) |
| `SupersededIsBounded` | Operator | a superseded key with a beginning and no end is not warned of (`evidence.py` 1132) | "That is invisible unless something looks for it." (1417) |
| `HashedIsParsed` | Operator | a baseline rewritten in place between hash and fit is attested as one content and fitted as another (`evidence.py` 1656) | "hashed and parsed from the same bytes" (`cli.py` 293) |
| `KeysStandBeside` | Operator | of two keygen runs that overlap on one store, one key is lost (`emit/command.py` 113) | "the new key goes in beside the old one" (97) |
| `RevocationsStand` | Operator | a revocation made while keygen runs is written over (`emit/command.py` 113) | "Nothing here edits the old entry" (98) |
| `StateDescribesWritten` | Operator | a state taken by one thread counts what another has signed and not yet written (`emit/stream.py` 226) | "describes records that reached the kernel" (`emit/writer.py` 18) |
| `PersistedIsCurrent` | Operator | of two threads' states the older may be written last, and a restart signs positions again (`emit/stream.py` 280) | "So a restarted collector must continue" (22) |
| `LedgersTellRunsApart` | Operator, `MaxHistory` 4 | the ledger is digested after `load` has recorded this run in it (`cli.py` 567) | "two runs that read different ledgers are not the same run" (`evidence.py` 2450) |
| `NoncesTellRunsApart` | Operator, `MaxHistory` 4 | of the approval ledger only a count enters the identity (`identity.py` 336) | "What was READ, as with the stream ledger." (335) |
| `CountersChangeNoIdentity` | Operator | the ledger's generation, raised by every save, enters the identity (`identity.py` 318) | "which changes no verdict and would break the deduplication the ID exists for" (`evidence.py` 2458) |
| `ActedOnAlikeIsDigestedAlike` | Operator | fields that nothing reads enter the semantic digest (`capabilities.py` 165) | "must reduce to the same structure here" (156) |

Met while modelling, and needing no search:

* `_hold` frees room only in the record's own stream, so each further stream can hold one record beyond
  `max_reorder_window` (`evidence.py` 3846), though the budget is said to be global.
* A collector killed between the record that closes a stream and `write_state` reopens the stream when it is started
  again; EMITTING.md section 6a says that a restarted collector cannot. `SavedIsFinal` holds for runs whose state was
  saved.
* After a torn line the next appended record is lost with it, so a collector killed inside a line loses one more record
  than `JsonlWriter`'s docstring says. `StateStandsOnOutput` exempts that record (`glued`).
* Two overlapping `cohaera sign` runs fork the stream: the state file has no lock, and no document says one is needed.
  `OneLineWhoeverSigns` speaks of collectors that have not overlapped (`apart`).

## 7. Idealisations and what is left out

* SHA-256 has no collisions and Ed25519 no forgeries. The arithmetic of `ed25519.py` is out of TLC's reach.
* A key's window has both ends or none; clocks are natural numbers.
* Parsing, field validation, formatting, the capped evidence lists and counters that only reach the report.
* In `ScoreRuns` a run's input is one stream as verification leaves it; the verifier that produced it is `StreamVerifier`.
  The quarantine log, the exit code, and a power loss between `os.replace` and the directory's sync are not modelled. The
  release of the two locks and the final flush are one step.
* `budget_exhausted` of a ledger is not saved by the code, and `AsDocument` drops it accordingly.
* `SignRuns` has one signer for one stream; threads and collectors beside one another are in `SharedSigner`, which has
  one record per call of `sign` and no torn lines.
* In the suites one machine is not fed by another: a session of `Pairing` is any sequence of events, not only what
  `Assembly` lets through, and a firing of `Guardrails` carries any answer `Approvals` can give. This is more than the
  program can do, so what holds there holds in it.
* A text is a sequence of words, a scanner claim is readable or not, Cohaera's own content patterns match or do not.
* `RunIdentity` takes a run in one step, as the locks of `ScoreRuns` make it. Digests are told apart by what they are
  over.
* A record without a session or trace id gets a keyed digest of its scope and window: `Assembly` takes it that no
  producer's id equals one and that no scope is called `isolated`. Its keys are those of a run with a correlation secret;
  a run without one uses a plain digest and says so in the version of the key.
* Approval and receipt signatures verify exactly when they were made over what they are attached to.

**Not modelled.** `ed25519.py`: arithmetic over 256-bit integers, where a model would restate the code. JSON parsing,
field validation and sanitising (`validate.py`): functions of one value, without state. The evaluation
harness, labs, demos, tools and content packs (`eval/`, `lab/`, `tools/`): sequential programs around this one, whose
results are files. The commands `approve` and `receipt` beyond what they sign: they read one object and print one.

## 8. The order of the work, and what is left

In the order of what matters most, all of it done: the verifier, its properties and proofs; score runs over shared
ledgers; the collector; reading and assembly, with the proofs of the budgets; the session model; the checks; the trust
store, policy files, keygen and run identity.

What would come next:

1. Composition of `SignRuns` with `StreamVerifier`: the collector as the writer of what is verified, with delivery between
   them, so that a collector's crashes and a run's conclusions meet in one model. Today `SignaturesAreGenuine` and the
   collector's properties stand for it.
2. The scanner's content patterns and the tokenisation of `Disclosure`, if a property about them is ever worth stating.
