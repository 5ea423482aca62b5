----------------------------- MODULE SignedLog -----------------------------
(***************************************************************************)
(* What a collector's stream is, however often its signer is stopped and   *)
(* started: one log, which grows by whole batches of lines that can be     *)
(* signed, and which does not grow once it is closed.                      *)
(***************************************************************************)
EXTENDS Sidecar

CONSTANTS
  Stream,      \* the stream that is signed
  Key,         \* the collector's key
  Calls,       \* the invocations of `cohaera sign`
  Input,       \* [Calls -> [lines, close, append]]
  BadLine,     \* a line that is not a JSON object
  Unsignable   \* records that sign() refuses: already signed, not strict JSON

Lines(c) == Input[c].lines

VARIABLES head, closed

AInit ==
  /\ head   = ChainSeed(Stream, Key)
  /\ closed = FALSE

Commit(c) ==
  /\ ~closed
  /\ \A i \in DOMAIN Lines(c) : Lines(c)[i] \notin {BadLine} \cup Unsignable
  /\ head'   = head \o Lines(c)
  /\ closed' = (Input[c].close /\ Lines(c) # <<>>)

ASpec == AInit /\ [][\E c \in Calls : Commit(c)]_<<head, closed>>
=============================================================================
