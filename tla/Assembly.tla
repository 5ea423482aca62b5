------------------------------ MODULE Assembly ------------------------------
(***************************************************************************)
(* Grouping the accepted events into sessions: assemble of                 *)
(* src/cohaera/ingest.py with the Correlator of identity.py.               *)
(*                                                                         *)
(* Events are placed in clock order, those without a usable clock last and *)
(* equal clocks in arrival order; the stream verifier is shown them in     *)
(* arrival order.  Keyed digests are ideal: the key of an anonymous bucket *)
(* is its scope and its window, the key of an isolated record its ordinal, *)
(* and no producer sends an identifier that is one of them.                *)
(***************************************************************************)
EXTENDS Integers, Sequences, FiniteSets, SequencesExt

CONSTANTS
  Files,                 \* the accepted events of a file, as correlation reads them
  Ids,                   \* session and trace identifiers, one name space
  Scopes,                \* (host, user, agent, framework) with a field present
  Absent,                \* no identifier, no scope
  NoTime,                \* NaN
  Window,                \* ANON_WINDOW_S
  MaxSessions,           \* max_sessions
  MaxEventsPerSession    \* max_events_per_session

Views == [session : Ids \cup {Absent}, trace : Ids \cup {Absent},
          scope : Scopes \cup {Absent}, ts : (Nat \ {0}) \cup {NoTime}]

(* The keys of anonymous buckets are keyed digests: no producer's          *)
(* identifier is one (a run with a secret; without one KEY_VERSION_DIGEST  *)
(* says of them that they can be guessed).                                 *)
AssemblyAssumption ==
  /\ Files \subseteq Seq(Views)
  /\ Absent \notin Ids \cup Scopes
  /\ "isolated" \notin Scopes
  /\ \A id \in Ids \cup {Absent} : id \notin (Scopes \cup {"isolated"}) \X Nat
  /\ NoTime \notin Nat
  /\ Window \in Nat \ {0}
  /\ MaxSessions \in Nat \ {0}
  /\ MaxEventsPerSession \in Nat \ {0}

VARIABLES
  incoming,     \* the accepted events, in arrival order
  left,         \* the positions of incoming that are not placed yet
  windowStart,  \* Correlator._window_start
  ordinal,      \* Correlator._ordinal
  buckets,      \* the sessions in order of creation: [key, kind, events]
  dropped,      \* [sessions, events]: the counts of what no session took
  observed,     \* what the verifier was shown: <<event, session or Absent>>
  aborted,      \* the abort reason of the report, or ""
  stage         \* "place", "done"

assemblyVars == <<incoming, left, windowStart, ordinal, buckets, dropped, observed, aborted, stage>>

Rv(i)       == incoming[i]
HasClock(i) == Rv(i).ts # NoTime

(* Event.sort_key, with the stability of the sort.                         *)
Before(i, j) ==
  \/ HasClock(i) /\ ~HasClock(j)
  \/ HasClock(i) /\ HasClock(j) /\ Rv(i).ts < Rv(j).ts
  \/ HasClock(i) = HasClock(j) /\ (HasClock(i) => Rv(i).ts = Rv(j).ts) /\ i < j

(* Mutant of Earliest: the events are placed as they arrived.              *)
FirstArrived(i) == i \in left /\ \A j \in left : i =< j

Earliest(i) == i \in left /\ \A j \in left \ {i} : Before(i, j)

-----------------------------------------------------------------------------
(* Correlator.key_for.                                                     *)

NewWindow(rv) ==
  \/ windowStart[rv.scope] = NoTime
  \/ rv.ts - windowStart[rv.scope] > Window

StartFor(rv) == IF NewWindow(rv) THEN rv.ts ELSE windowStart[rv.scope]

Keyed(value, kind) == [value |-> value, kind |-> kind]

Isolated(rv) == rv.scope = Absent \/ rv.ts = NoTime

KeyFor(rv) ==
  IF rv.session # Absent    THEN Keyed(rv.session, "session_id")
  ELSE IF rv.trace # Absent THEN Keyed(rv.trace, "trace_id")
  ELSE IF Isolated(rv)    THEN Keyed(<<"isolated", ordinal + 1>>, "isolated_anonymous")
  ELSE Keyed(<<rv.scope, StartFor(rv) \div Window>>, "scoped_anonymous")

(* What the Correlator remembers of having keyed a record.                 *)
Anonymous(rv) == rv.session = Absent /\ rv.trace = Absent

Remember(rv) ==
  /\ ordinal' = IF Anonymous(rv) /\ Isolated(rv) THEN ordinal + 1 ELSE ordinal
  /\ windowStart' = IF Anonymous(rv) /\ ~Isolated(rv)
                      THEN [windowStart EXCEPT ![rv.scope] = StartFor(rv)]
                      ELSE windowStart

-----------------------------------------------------------------------------
(* assemble.                                                               *)

Bucket(value) == {b \in DOMAIN buckets : buckets[b].key = value}

SessionsWith(i, key) ==
  IF Bucket(key.value) # {}
    THEN LET b == CHOOSE c \in Bucket(key.value) : TRUE IN
         [buckets EXCEPT ![b].events = Append(@, i)]
    ELSE Append(buckets, [key |-> key.value, kind |-> key.kind, events |-> <<i>>])

NoRoomForSession(key) == Bucket(key.value) = {} /\ Len(buckets) >= MaxSessions

NoRoomForEvent(key) ==
  \E b \in Bucket(key.value) : Len(buckets[b].events) >= MaxEventsPerSession

AssemblyInit ==
  /\ incoming \in Files
  /\ left        = DOMAIN incoming
  /\ windowStart = [s \in Scopes |-> NoTime]
  /\ ordinal     = 0
  /\ buckets     = <<>>
  /\ dropped     = [sessions |-> 0, events |-> 0]
  /\ observed    = <<>>
  /\ aborted     = ""
  /\ stage       = "place"

(* The next event in clock order is keyed; that may open a window even for *)
(* an event no session has room for.                                       *)
Key(i) ==
  /\ stage = "place"
  /\ Earliest(i)
  /\ left' = left \ {i}
  /\ Remember(Rv(i))
  /\ UNCHANGED <<incoming, observed, aborted, stage>>

Place(i) ==
  /\ Key(i)
  /\ ~NoRoomForSession(KeyFor(Rv(i))) /\ ~NoRoomForEvent(KeyFor(Rv(i)))
  /\ buckets' = SessionsWith(i, KeyFor(Rv(i)))
  /\ UNCHANGED dropped

DropSession(i) ==
  /\ Key(i)
  /\ NoRoomForSession(KeyFor(Rv(i)))
  /\ dropped' = [dropped EXCEPT !.sessions = @ + 1]
  /\ UNCHANGED buckets

DropEvent(i) ==
  /\ Key(i)
  /\ NoRoomForEvent(KeyFor(Rv(i)))
  /\ dropped' = [dropped EXCEPT !.events = @ + 1]
  /\ UNCHANGED buckets

(* session_of, and Absent for an event that was dropped.                   *)
SessionOf(i) ==
  LET holding == {b \in DOMAIN buckets : \E n \in DOMAIN buckets[b].events :
                                            buckets[b].events[n] = i} IN
  IF holding = {} THEN Absent ELSE buckets[CHOOSE b \in holding : TRUE].key

Observe == [i \in DOMAIN incoming |-> <<i, SessionOf(i)>>]

(* The verifier is run, and a budget that dropped events is reported; the  *)
(* sessions are sealed in SealedSession.                                    *)
Finish ==
  /\ stage = "place" /\ left = {}
  /\ stage' = "done"
  /\ observed' = Observe
  /\ aborted'  = IF dropped.sessions > 0 THEN "SESSION_BUDGET_EXHAUSTED"
                 ELSE IF dropped.events > 0 THEN "EVENT_BUDGET_EXHAUSTED"
                 ELSE aborted
  /\ UNCHANGED <<incoming, left, windowStart, ordinal, buckets, dropped>>

AssemblyNext ==
  \/ \E i \in left : Place(i) \/ DropSession(i) \/ DropEvent(i)
  \/ Finish

AssemblySpec == AssemblyInit /\ [][AssemblyNext]_assemblyVars

-----------------------------------------------------------------------------
(* The grouping by what the records say, whatever order they arrived in.   *)

Arrivals == DOMAIN incoming

ProducerKey(i) == IF Rv(i).session # Absent THEN Rv(i).session ELSE Rv(i).trace

InScope(i, s) == Anonymous(Rv(i)) /\ HasClock(i) /\ Rv(i).scope = s

(* The clocks of a scope, and of them the ones a window starts at: each is *)
(* the first more than a window after the one before.                      *)
ScopeClocks(s) == {Rv(i).ts : i \in {j \in Arrivals : InScope(j, s)}}

IsStarts(starts, s) ==
  /\ starts \subseteq ScopeClocks(s)
  /\ \A t \in ScopeClocks(s) : \E u \in starts : u =< t /\ t - u =< Window
  /\ \A t, u \in starts : t # u => t - u > Window \/ u - t > Window

Starts == [s \in Scopes |-> CHOOSE S \in SUBSET ScopeClocks(s) : IsStarts(S, s)]

(* The sets of events that belong together: one for each producer's        *)
(* identifier, each window of a scope and each isolated event.             *)
Groups ==
  LET starts == Starts
      named == {{i \in Arrivals : ~Anonymous(Rv(i)) /\ ProducerKey(i) = k} : k \in Ids}
      windowed == UNION {{{i \in Arrivals : InScope(i, s) /\ Rv(i).ts - u \in 0 .. Window} :
                            u \in starts[s]} : s \in Scopes}
      isolated == {{i} : i \in {j \in Arrivals : Anonymous(Rv(j)) /\ Isolated(Rv(j))}}
  IN (named \cup windowed \cup isolated) \ {{}}

FirstOf(group) == CHOOSE i \in group : \A j \in group \ {i} : Before(i, j)

(* The groups the budgets leave: the first MaxSessions of them, and of     *)
(* each its first MaxEventsPerSession events.                              *)
Sessions ==
  LET groups  == Groups
      Earlier(group) == {h \in groups : Before(FirstOf(h), FirstOf(group))}
      Kept(group) ==
        {i \in group : Cardinality({j \in group : Before(j, i)}) < MaxEventsPerSession}
  IN {Kept(group) : group \in {g \in groups : Cardinality(Earlier(g)) < MaxSessions}}

-----------------------------------------------------------------------------
(* Every variable has its type, and no session is over its budget.         *)
AssemblyTypeOK ==
  /\ incoming \in Seq(Views)
  /\ left \subseteq Arrivals
  /\ windowStart \in [Scopes -> Nat \cup {NoTime}]
  /\ ordinal \in 0 .. Len(incoming)
  /\ Len(buckets) =< MaxSessions
  /\ \A b \in DOMAIN buckets : /\ buckets[b].events \in Seq(Arrivals)
                              /\ Len(buckets[b].events) =< MaxEventsPerSession
  /\ dropped \in [sessions : Nat, events : Nat]
  /\ stage \in {"place", "done"}

(* Records share a session for a reason: one producer's identifier, or one *)
(* anonymous scope with clocks at most a window apart (key_for; BUG-06,    *)
(* C4-03).                                                                 *)
MergedForAReason ==
  \A b \in DOMAIN buckets : LET es == Range(buckets[b].events) IN
    \A i, j \in es : i # j =>
      \/ ProducerKey(i) # Absent /\ ProducerKey(i) = ProducerKey(j)
      \/ /\ Anonymous(Rv(i)) /\ Anonymous(Rv(j))
         /\ Rv(i).scope # Absent /\ Rv(i).scope = Rv(j).scope
         /\ HasClock(i) /\ HasClock(j)
         /\ Rv(i).ts - Rv(j).ts =< Window

(* The sessions are a function of the records: the order of arrival, which *)
(* the producer controls, changes neither what is grouped nor, between     *)
(* events with different clocks, what the budgets drop (assemble).         *)
SessionsAsGrouped ==
  stage = "done" => {Range(buckets[b].events) : b \in DOMAIN buckets} = Sessions

(* No accepted event disappears: each is in one session, or dropped,       *)
(* counted and the run reported as aborted; and every one is shown to the  *)
(* verifier in the order it arrived, so that no budget makes a gap in a    *)
(* collector's stream (assemble).                                          *)
EveryEventAccounted ==
  stage = "done" =>
    /\ \A i \in Arrivals :
         Cardinality({b \in DOMAIN buckets : i \in Range(buckets[b].events)}) =< 1
    /\ Cardinality({i \in Arrivals : SessionOf(i) = Absent})
         = dropped.sessions + dropped.events
    /\ (aborted # "") <=> \E i \in Arrivals : SessionOf(i) = Absent
    /\ [n \in DOMAIN observed |-> observed[n][1]] = [i \in Arrivals |-> i]

(* Grouping is just (assemble, Correlator.key_for): records share a        *)
(* session for a reason, the sessions are those the records themselves     *)
(* say, whatever order they arrived in, and each accepted event is in one  *)
(* of them or dropped, counted and reported.                               *)
GroupedByWhatTheySay ==
  AssemblyTypeOK /\ MergedForAReason /\ SessionsAsGrouped /\ EveryEventAccounted

-----------------------------------------------------------------------------
(* Statements of the repository that the model refutes (README, section 6).*)

(* "Every session carries the correlation kind and confidence it was built *)
(* from" (ingest.py): the kind a session states is that of each of its     *)
(* records.                                                                *)
KindOfEveryRecord ==
  \A b \in DOMAIN buckets : \A i \in Range(buckets[b].events) :
    buckets[b].kind = "session_id" => Rv(i).session # Absent
=============================================================================
