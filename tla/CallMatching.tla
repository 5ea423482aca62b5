---------------------------- MODULE CallMatching ----------------------------
(***************************************************************************)
(* What pairing promises.  The events of a session are taken one by one; a *)
(* start opens a call; an end closes at most one open call, one of its own *)
(* name and, if it gives a span, of that span; nothing else is closed.     *)
(***************************************************************************)
EXTENDS Integers, Sequences

CONSTANTS
  Events,   \* [type, span, name]
  NoId      \* no span

VARIABLES
  taken,     \* the events taken so far
  open,      \* the positions in taken of the starts whose call is open
  matched    \* the pairs <<start, end>> of positions

vars == <<taken, open, matched>>

IsEnd(e) == e.type \in {"tool_end", "tool_error"}

(* The end may close the call the start opened.                            *)
Compatible(s, e) == s.name = e.name /\ e.span \in {NoId, s.span}

Init == taken = <<>> /\ open = {} /\ matched = {}

Next ==
  \E e \in Events :
    /\ taken' = Append(taken, e)
    /\ \/ /\ e.type = "tool_start"
          /\ open' = open \cup {Len(taken) + 1}
          /\ UNCHANGED matched
       \/ \E s \in open :
            /\ IsEnd(e) /\ Compatible(taken[s], e)
            /\ open'    = open \ {s}
            /\ matched' = matched \cup {<<s, Len(taken) + 1>>}
       \/ /\ e.type # "tool_start"
          /\ UNCHANGED <<open, matched>>

Spec == Init /\ [][Next]_vars
=============================================================================
