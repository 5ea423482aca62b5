------------------------------- MODULE Sidecar -------------------------------
(***************************************************************************)
(* The cohaera.integrity:1 sidecar as data: what a parsed sidecar carries, *)
(* how a collector chains and signs records, what the operator's trust     *)
(* store says of a key, and the reason codes the verifier concludes with   *)
(* (src/cohaera/evidence.py).                                              *)
(*                                                                         *)
(* SHA-256 is modelled as collision free: a chain head IS the sequence of  *)
(* what was folded into it, the seed first.  The empty sequence is the     *)
(* absent head (None or "" in the code).  An Ed25519 signature is modelled *)
(* as unforgeable: it is the tuple that was signed, and it verifies when   *)
(* that tuple is the signing input the verifier rebuilds.                  *)
(***************************************************************************)
EXTENDS Integers, Sequences, FiniteSets

CONSTANTS
  Streams,        \* stream ids, as naturals: the code visits them in sorted order
  Sessions,       \* session keys an event can be assembled into
  NoSession,      \* the "" key: assembly dropped the event on a budget
  Bodies,         \* record contents, told apart only by equality
  Keys,           \* key ids a sidecar can name
  NoKey,          \* the absent key id
  TrustStore,     \* what the loaded trust store says: key -> entry
  Freshness       \* the freshness bound of the run

ASSUME StreamsAssumption == Streams \subseteq Nat
ASSUME NamesAssumption   == NoSession \notin Sessions /\ NoKey \notin Keys

(* A trust store entry.  `window` is <<>> for a key without one, else      *)
(* <<not_before, not_after>>; `replaces` is NoKey or the predecessor.      *)
TrustedKey == [collector : BOOLEAN, revoked : BOOLEAN,
               window : {<<>>} \cup (Nat \X Nat), replaces : Keys \cup {NoKey}]

ASSUME TrustStoreAssumption ==
  /\ IsFiniteSet(DOMAIN TrustStore)
  /\ DOMAIN TrustStore \subseteq Keys
  /\ \A k \in DOMAIN TrustStore : TrustStore[k] \in TrustedKey

ASSUME FreshnessAssumption ==
  Freshness \in [enabled : BOOLEAN, asOf : Nat, maxAge : Nat, maxSkew : Nat]

KeysLoaded == DOMAIN TrustStore # {}
AnySession == Sessions \cup {NoSession}
AnyKey     == Keys \cup {NoKey}

-----------------------------------------------------------------------------
(* Chain heads and signatures.                                             *)

NoHead  == <<>>
NoSig   == <<>>
NoClock == -1

Heads == Seq((Streams \X AnyKey) \cup Bodies)

ChainSeed(stream, key) == << <<stream, key>> >>
ChainStep(head, body)  == Append(head, body)

SigningInput(stream, seq, chain, final) == <<stream, seq, chain, final>>
Signature(key, input) == <<key, input>>

Signed(r) == r.sig # NoSig /\ r.key # NoKey

SigVerifies(r) ==
  r.sig = Signature(r.key, SigningInput(r.stream, r.seq, r.chain, r.final))

-----------------------------------------------------------------------------
(* The trust store and the two clocks a verified record is judged by.      *)

Trusted(key)  == key \in DOMAIN TrustStore
Windowed(key) == TrustStore[key].window # <<>>

InsideWindow(key, clock) ==
  /\ TrustStore[key].window[1] <= clock
  /\ clock <= TrustStore[key].window[2]

(* Does key replace predecessor, directly or through trusted intermediates? *)
(* Following `replaces` for as many steps as the store has keys reaches     *)
(* whatever it can reach, loops included.                                   *)
ReplacedBy(keys) ==
  {TrustStore[k].replaces : k \in keys \cap DOMAIN TrustStore} \ {NoKey}

Succeeds(key, predecessor) ==
  LET line[n \in 0 .. Cardinality(DOMAIN TrustStore)] ==
        IF n = 0 THEN {} ELSE line[n - 1] \cup ReplacedBy({key} \cup line[n - 1])
  IN predecessor \in line[Cardinality(DOMAIN TrustStore)]

Stale(clock)      == clock # NoClock /\ Freshness.asOf - clock > Freshness.maxAge
FromFuture(clock) == clock # NoClock /\ clock - Freshness.asOf > Freshness.maxSkew

-----------------------------------------------------------------------------
(* Reason codes, and the ones that make evidence inadmissible.             *)

R_SEQUENCE_GAP        == "INTEGRITY_SEQUENCE_GAP"
R_CHAIN_BROKEN        == "INTEGRITY_CHAIN_BROKEN"
R_CHAIN_UNANCHORED    == "INTEGRITY_CHAIN_UNANCHORED"
R_SIGNATURE_INVALID   == "INTEGRITY_SIGNATURE_INVALID"
R_KEY_UNKNOWN         == "INTEGRITY_KEY_UNKNOWN"
R_SEQUENCE_REPLAY     == "INTEGRITY_SEQUENCE_REPLAY"
R_PARTIAL_INTEGRITY   == "INTEGRITY_EVIDENCE_PARTIAL"
R_KEY_REVOKED         == "INTEGRITY_KEY_REVOKED"
R_KEY_EXPIRED         == "INTEGRITY_KEY_EXPIRED"
R_KEY_NOT_YET_VALID   == "INTEGRITY_KEY_NOT_YET_VALID"
R_KEY_WRONG_ROLE      == "INTEGRITY_KEY_ROLE_NOT_AUTHORISED"
R_STALE               == "INTEGRITY_EVIDENCE_STALE"
R_FROM_FUTURE         == "INTEGRITY_EVIDENCE_FROM_FUTURE"
R_STREAM_REPLAYED     == "INTEGRITY_STREAM_REPLAYED"
R_STREAM_FORKED       == "INTEGRITY_STREAM_FORKED"
R_STREAM_KEY_CHANGED  == "INTEGRITY_STREAM_KEY_CHANGED"
R_STREAM_END_MISSING  == "INTEGRITY_STREAM_END_MISSING"
R_RECORDS_AFTER_CLOSE == "INTEGRITY_RECORDS_AFTER_CLOSE"

INADMISSIBLE ==
  { R_SEQUENCE_GAP, R_CHAIN_BROKEN, R_CHAIN_UNANCHORED, R_SIGNATURE_INVALID,
    R_KEY_UNKNOWN, R_SEQUENCE_REPLAY, R_PARTIAL_INTEGRITY, R_KEY_REVOKED,
    R_KEY_EXPIRED, R_KEY_NOT_YET_VALID, R_KEY_WRONG_ROLE, R_STALE,
    R_FROM_FUTURE, R_STREAM_REPLAYED, R_STREAM_FORKED, R_STREAM_KEY_CHANGED,
    R_STREAM_END_MISSING, R_RECORDS_AFTER_CLOSE }

(* Codes that qualify a verdict without making its evidence inadmissible.  *)
R_UNSIGNED                  == "INTEGRITY_UNSIGNED"
R_NO_COLLECTOR_KEYS         == "NO_COLLECTOR_KEYS"
R_REORDERED                 == "INTEGRITY_RECORDS_REORDERED"
R_JOINED_MIDSTREAM          == "INTEGRITY_STREAM_JOINED_MIDSTREAM"
R_REORDER_BUDGET            == "INTEGRITY_REORDER_BUDGET_EXHAUSTED"
R_STREAM_BUDGET             == "INTEGRITY_STREAM_BUDGET_EXHAUSTED"
R_SIGNATURE_BUDGET          == "INTEGRITY_SIGNATURE_BUDGET_EXHAUSTED"
R_KEY_WINDOW_UNCHECKED      == "INTEGRITY_KEY_WINDOW_UNCHECKED"
R_FRESHNESS_UNVERIFIABLE    == "INTEGRITY_FRESHNESS_UNVERIFIABLE"
R_STREAM_SKIPPED_RECORDS    == "INTEGRITY_STREAM_RECORDS_NEVER_SCORED"
R_STREAM_BOUNDARY_UNVERIFIED == "INTEGRITY_STREAM_BOUNDARY_UNVERIFIED"
R_STREAM_NOT_CLOSED         == "INTEGRITY_STREAM_NOT_CLOSED"
R_CLOSE_UNVERIFIED          == "INTEGRITY_STREAM_CLOSE_UNVERIFIED"
R_NO_STREAM_LEDGER          == "NO_STREAM_LEDGER"
R_LEDGER_NOT_ADVANCED       == "STREAM_LEDGER_NOT_ADVANCED"
R_LEDGER_BUDGET             == "STREAM_LEDGER_BUDGET_EXHAUSTED"

Codes ==
  INADMISSIBLE \cup
  { R_UNSIGNED, R_NO_COLLECTOR_KEYS, R_REORDERED, R_JOINED_MIDSTREAM,
    R_REORDER_BUDGET, R_STREAM_BUDGET, R_SIGNATURE_BUDGET, R_KEY_WINDOW_UNCHECKED,
    R_FRESHNESS_UNVERIFIABLE, R_STREAM_SKIPPED_RECORDS, R_STREAM_BOUNDARY_UNVERIFIED,
    R_STREAM_NOT_CLOSED, R_CLOSE_UNVERIFIED, R_NO_STREAM_LEDGER,
    R_LEDGER_NOT_ADVANCED, R_LEDGER_BUDGET }
=============================================================================
