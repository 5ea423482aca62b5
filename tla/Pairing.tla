------------------------------ MODULE Pairing -------------------------------
(***************************************************************************)
(* From the events of a sealed session to its tool calls:                  *)
(* Session._build_dedup and Session._build_calls of src/cohaera/model.py.  *)
(*                                                                         *)
(* The events are in the order assemble left them in, so the stable sort   *)
(* of ordered_events changes nothing.  An event is what dedup and pairing  *)
(* read of it: `body` stands for every other field, `stamp` for the        *)
(* timestamp and the integrity sidecar, which a collector rewrites.        *)
(***************************************************************************)
EXTENDS Integers, Sequences, FiniteSets, SequencesExt

CONSTANTS
  Deliveries,   \* the events a session may hold
  Histories,    \* the sequences of them it may be sealed with
  NoId          \* no span, no event id

Types == {"tool_start", "tool_end", "tool_error", "other"}

PairingAssumption ==
  /\ Histories \subseteq Seq(Deliveries)
  /\ \A e \in Deliveries :
       /\ DOMAIN e = {"type", "span", "name", "id", "body", "stamp"}
       /\ e.type \in Types

VARIABLES
  events,      \* Session.events
  at,          \* events that dedup has read
  seenIds,     \* seen_ids: {<<event id, restamp key>>}
  kept,        \* unique_events, as positions of events
  conflicts,   \* event_id_conflicts
  read,        \* kept events that pairing has read
  calls,       \* the tool calls: [from, span, name, state, to]
  openBySpan,  \* open_by_span: {<<span, call>>}
  openByName,  \* open_by_name: {<<name, call>>}; a bucket is in call order
  seenSpans    \* seen_spans

pairingVars == <<events, at, seenIds, kept, conflicts, read, calls, openBySpan, openByName, seenSpans>>

Dedup == <<at, seenIds, kept, conflicts>>
Paired == <<read, calls, openBySpan, openByName, seenSpans>>

-----------------------------------------------------------------------------
(* _build_dedup.                                                           *)

RestampKey(e) == <<e.type, e.span, e.name, e.id, e.body>>

(* The content was seen, or the first record with this id is this one.     *)
Redelivered(e) ==
  \/ \E n \in Range(kept) : events[n] = e
  \/ e.id # NoId /\ <<e.id, RestampKey(e)>> \in seenIds

IdTaken(e) == e.id # NoId /\ \E seen \in seenIds : seen[1] = e.id

Drop ==
  /\ at < Len(events)
  /\ Redelivered(events[at + 1])
  /\ at' = at + 1
  /\ UNCHANGED <<seenIds, kept, conflicts>>

KeepEvent ==
  LET e == events[at + 1] IN
  /\ at < Len(events)
  /\ ~Redelivered(e)
  /\ at' = at + 1
  /\ kept' = Append(kept, at + 1)
  /\ conflicts' = conflicts + (IF IdTaken(e) THEN 1 ELSE 0)
  /\ seenIds' = IF e.id = NoId \/ IdTaken(e) THEN seenIds
                                             ELSE seenIds \cup {<<e.id, RestampKey(e)>>}

-----------------------------------------------------------------------------
(* _build_calls.                                                           *)

E == events[kept[read + 1]]

(* _release: out of both indices.                                          *)
Release(c) ==
  /\ openBySpan' = {p \in openBySpan : p[2] # c}
  /\ openByName' = {p \in openByName : p[2] # c}

OfSpan(s) == {p[2] : p \in {q \in openBySpan : q[1] = s}}
OfName(n) == {p[2] : p \in {q \in openByName : q[1] = n}}

(* Mutant of Closable: an unknown span falls back to the name.             *)
ClosableByName(e, c) ==
  IF e.span # NoId /\ OfSpan(e.span) # {}
    THEN c \in OfSpan(e.span) /\ calls[c].name = e.name
    ELSE c \in OfName(e.name) /\ \A d \in OfName(e.name) : c =< d

(* The open call an end may close: with a span the call that holds it, if  *)
(* the names agree; without one the oldest open call of the name.          *)
Closable(e, c) ==
  IF e.span # NoId
    THEN c \in OfSpan(e.span) /\ calls[c].name = e.name
    ELSE c \in OfName(e.name) /\ \A d \in OfName(e.name) : c =< d

OrphanState(e) ==
  IF e.span = NoId THEN "orphan_end"
  ELSE IF e.span \in seenSpans THEN "duplicate_end" ELSE "mismatched_end"

ReadKept ==
  /\ at = Len(events)
  /\ read < Len(kept)
  /\ read' = read + 1
  /\ UNCHANGED <<events, at, seenIds, kept, conflicts>>

(* A span that an open call holds is not taken over.                       *)
StartCall ==
  /\ ReadKept
  /\ E.type = "tool_start"
  /\ calls' = Append(calls, [from |-> read + 1, span |-> E.span, name |-> E.name,
                             state |-> "open", to |-> 0])
  /\ openByName' = openByName \cup {<<E.name, Len(calls) + 1>>}
  /\ openBySpan' = IF E.span = NoId \/ OfSpan(E.span) # {} THEN openBySpan
                   ELSE openBySpan \cup {<<E.span, Len(calls) + 1>>}
  /\ UNCHANGED seenSpans

IsEnd(e) == e.type \in {"tool_end", "tool_error"}

EndCall(c) ==
  /\ ReadKept
  /\ IsEnd(E) /\ Closable(E, c)
  /\ calls' = [calls EXCEPT ![c].state = "complete", ![c].to = read + 1]
  /\ seenSpans' = IF calls[c].span = NoId THEN seenSpans
                                          ELSE seenSpans \cup {calls[c].span}
  /\ Release(c)

(* An end with no call to close is recorded as one, and opens nothing.     *)
OrphanEnd ==
  /\ ReadKept
  /\ IsEnd(E) /\ ~\E c \in DOMAIN calls : Closable(E, c)
  /\ calls' = Append(calls, [from |-> 0, span |-> E.span, name |-> E.name,
                             state |-> OrphanState(E), to |-> read + 1])
  /\ UNCHANGED <<openBySpan, openByName, seenSpans>>

PassOver ==
  /\ ReadKept
  /\ E.type = "other"
  /\ UNCHANGED <<calls, openBySpan, openByName, seenSpans>>

PairingInit ==
  /\ events \in Histories
  /\ at = 0 /\ seenIds = {} /\ kept = <<>> /\ conflicts = 0
  /\ read = 0 /\ calls = <<>>
  /\ openBySpan = {} /\ openByName = {} /\ seenSpans = {}

DedupStep == (Drop \/ KeepEvent) /\ UNCHANGED <<events, Paired>>

PairStep ==
  \/ StartCall
  \/ \E c \in DOMAIN calls : EndCall(c)
  \/ OrphanEnd
  \/ PassOver

PairingNext == DedupStep \/ PairStep

PairingSpec == PairingInit /\ [][PairingNext]_pairingVars

-----------------------------------------------------------------------------
(* CH05 over the calls: ch05_unpaired_calls of src/cohaera/checks.py.      *)

Unpaired ==
  {c \in DOMAIN calls :
     calls[c].state \in {"open", "orphan_end", "mismatched_end", "duplicate_end"}}

PairingFound == Unpaired # {}

-----------------------------------------------------------------------------
Ev(n)   == events[kept[n]]
Open    == {c \in DOMAIN calls : calls[c].state = "open"}
Closed  == {c \in DOMAIN calls : calls[c].state = "complete"}
Orphans == DOMAIN calls \ (Open \cup Closed)

(* Every variable has its type.                                            *)
PairingTypeOK ==
  /\ events \in Seq(Deliveries)
  /\ at \in 0 .. Len(events)
  /\ kept \in Seq(1 .. Len(events)) /\ conflicts \in Nat
  /\ read \in 0 .. Len(kept)
  /\ \A c \in DOMAIN calls :
       /\ calls[c].from \in 0 .. read /\ calls[c].to \in 0 .. read
       /\ calls[c].state \in {"open", "complete", "orphan_end", "duplicate_end", "mismatched_end"}

(* Both indices hold exactly the open calls, so that no end can find a     *)
(* call that was closed (_release; C-02); a span is held by one open call. *)
IndicesAgree ==
  /\ openByName = {<<calls[c].name, c>> : c \in Open}
  /\ openBySpan \subseteq {<<calls[c].span, c>> : c \in Open}
  /\ \A p, q \in openBySpan : p[1] = q[1] => p = q

(* Every start is one call and every end closes one or is one of its own;  *)
(* a completed call is closed by a later end of its name that gives its    *)
(* span or none (R2-01).                                                   *)
EveryEventOnce ==
  /\ \A n \in 1 .. read :
       /\ (Ev(n).type = "tool_start") <=> \E c \in DOMAIN calls : calls[c].from = n
       /\ IsEnd(Ev(n)) <=> \E c \in DOMAIN calls : calls[c].to = n
  /\ \A c, d \in DOMAIN calls :
       /\ calls[c].from = calls[d].from /\ calls[c].from > 0 => c = d
       /\ calls[c].to = calls[d].to /\ calls[c].to > 0 => c = d
  /\ \A c \in Closed : LET e == Ev(calls[c].to) IN
       /\ 0 < calls[c].from /\ calls[c].from < calls[c].to
       /\ calls[c].name = e.name
       /\ e.span \in {NoId, calls[c].span}

(* CH05 is quiet only when the ends read balance the starts read, of every *)
(* name: no action appears from nowhere unseen (ch05_unpaired_calls).      *)
QuietMeansBalanced ==
  ~PairingFound =>
    LET Of(types, name) ==
          {n \in 1 .. read : Ev(n).type \in types /\ Ev(n).name = name}
    IN \A name \in {Ev(n).name : n \in 1 .. read} :
         Cardinality(Of({"tool_start"}, name)) =
           Cardinality(Of({"tool_end", "tool_error"}, name))

(* A retry changes nothing: the copies of a record leave one event, the    *)
(* first, and records that share no more than an id are all kept           *)
(* (_build_dedup).                                                         *)
FirstCopyKept ==
  \A n \in 1 .. at :
    /\ \E m \in Range(kept) :
         /\ m =< n
         /\ \/ events[m] = events[n]
            \/ events[n].id # NoId /\ RestampKey(events[m]) = RestampKey(events[n])
    /\ \A m \in 1 .. n - 1 : events[m] = events[n] => n \notin Range(kept)

(* What pairing reads of an event, and the pairing of the kept events.     *)
Seen(e) == [type |-> e.type, span |-> e.span, name |-> e.name]

Abstract == INSTANCE CallMatching WITH
  Events  <- {Seen(e) : e \in Deliveries},
  taken   <- [n \in 1 .. read |-> Seen(Ev(n))],
  open    <- {calls[c].from : c \in Open},
  matched <- {<<calls[c].from, calls[c].to>> : c \in Closed}

(* Pairing begins with nothing taken, open or matched.                     *)
MatchingBegins == Abstract!Init

(* A step of _build_calls opens a call for a start, or closes one open     *)
(* call that fits the end, or closes nothing; a step of _build_dedup is no *)
(* step of it (CallMatching).                                              *)
ImplementsMatching == UNCHANGED Abstract!vars \/ Abstract!Next

(* A spanless end is an orphan only when no call of its name is open, and  *)
(* it closes the oldest of them: calls of one name end first in, first out *)
(* (_next_open_by_name).                                                   *)
OldestFirst ==
  /\ \A c \in Open : calls'[c].state = "complete" /\ E.span = NoId =>
       \A d \in Open : calls[d].name = calls[c].name => c =< d
  /\ \A n \in DOMAIN calls' \ DOMAIN calls :
       calls'[n].state = "orphan_end" => \A c \in Open : calls[c].name # calls'[n].name

(* Pairing implements CallMatching, accounts for each event once, closes   *)
(* the oldest open call of a name, keeps its two indices in step, and      *)
(* leaves CH05 quiet only over balanced calls; a redelivered event is kept *)
(* once (_build_dedup, _build_calls, ch05_unpaired_calls).                 *)
EveryCallPairedOnce ==
  /\ MatchingBegins
  /\ [](PairingTypeOK /\ IndicesAgree /\ EveryEventOnce /\ QuietMeansBalanced /\ FirstCopyKept)
  /\ [][ImplementsMatching /\ OldestFirst]_pairingVars

-----------------------------------------------------------------------------
(* Statements of the repository that the model refutes (README, section 6).*)

(* "Two records sharing an event_id and this key are one record delivered  *)
(* twice" (model.py, Event.restamp_key): one of them is kept.              *)
OneOfEachDelivery ==
  \A m, n \in Range(kept) :
    events[m].id # NoId /\ RestampKey(events[m]) = RestampKey(events[n]) => m = n

(* "The first keeps the index; the second falls back to name matching"     *)
(* (model.py, _build_calls): an end is not left an orphan while a call of  *)
(* its span and its name is open.                                          *)
SpannedEndFindsItsCall ==
  [][\A n \in DOMAIN calls' \ DOMAIN calls :
       calls'[n].state \in {"duplicate_end", "mismatched_end"} =>
         \A c \in Open : <<calls[c].span, calls[c].name>> # <<E.span, E.name>>]_pairingVars
=============================================================================
