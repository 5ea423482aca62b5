------------------------------ MODULE Moments -------------------------------
(***************************************************************************)
(* Where a record of a session stands, and which of two came first:        *)
(* _ordering of src/cohaera/checks.py.                                     *)
(*                                                                         *)
(* A moment is a clock, NoClock when it cannot be read, and a stream and   *)
(* position where a verified signature reaches them                        *)
(* (SessionIntegrity.sequence_verified); elsewhere the stream is None and  *)
(* the position 0.                                                         *)
(***************************************************************************)
EXTENDS Integers

CONSTANTS
  Streams,     \* collector streams
  None,        \* no stream
  NoClock,     \* NaN
  Clocks,      \* the clocks of a run
  Positions    \* the positions in a stream of a run

MomentsAssumption ==
  /\ None \notin Streams
  /\ NoClock \notin Int
  /\ Clocks \subseteq Int
  /\ Positions \subseteq Int

Moments == [ts : Clocks \cup {NoClock}, stream : Streams, seq : Positions] \cup
           [ts : Clocks \cup {NoClock}, stream : {None}, seq : {0}]

Clocked(m) == m.ts # NoClock

(* _ordering: the sequence within a stream, else the clock if it decides.  *)

Orders == {"after", "indeterminate", "not_after"}

BySequence(call, ref) == ref.stream # None /\ call.stream = ref.stream

Order(call, ref) ==
  IF BySequence(call, ref)
    THEN IF call.seq = ref.seq THEN "indeterminate"
         ELSE IF call.seq > ref.seq THEN "after" ELSE "not_after"
  ELSE IF ~Clocked(call) \/ ~Clocked(ref) \/ call.ts = ref.ts THEN "indeterminate"
  ELSE IF call.ts > ref.ts THEN "after" ELSE "not_after"

(* What the order against each of a set of references says of the set: a   *)
(* reference without a clock counts unless the call's own stream has one.  *)
Unsettled(refs, call, ref) ==
  /\ Order(call, ref) = "indeterminate"
  /\ Clocked(ref) \/ BySequence(call, ref) \/ ~\E other \in refs : BySequence(call, other)

Against(refs, call) ==
  IF \E ref \in refs : Order(call, ref) = "after" THEN "after"
  ELSE IF \E ref \in refs : Unsettled(refs, call, ref) THEN "indeterminate"
  ELSE "not_after"
=============================================================================
