--------------------------- MODULE SealedSession ----------------------------
(***************************************************************************)
(* The session object: its events, what the operator supplied with them, *)
(* the values derived from both and cached, and the seal.  Session of      *)
(* src/cohaera/model.py: __setattr__, __delattr__, _cached, invalidate,    *)
(* seal, add_event.                                                        *)
(***************************************************************************)
EXTENDS Integers, Sequences

CONSTANTS
  Events,      \* events
  Manifests,   \* manifests, standing for every field of the operator's
  MaxLength,   \* bounds of the model
  MaxRevision

SealingAssumption == MaxLength \in Nat /\ MaxRevision \in Nat

(* tool_calls reads the events and the manifest, content_digest the events. *)
Cached == {"tool_calls", "content_digest"}

VARIABLES
  held,       \* Session.events
  manifest,
  revision,   \* _revision
  caches,     \* _caches: key -> [token, value]
  isSealed,   \* _sealed
  unsaid      \* history: a field was changed and invalidate not called

sealingVars == <<held, manifest, revision, caches, isSealed, unsaid>>

-----------------------------------------------------------------------------
Build(key) == IF key = "tool_calls" THEN <<held, manifest>> ELSE <<held>>

Token == <<revision, Len(held)>>

Hit(key) == key \in DOMAIN caches /\ caches[key].token = Token

(* _cached.                                                                *)
Served(key) == IF Hit(key) THEN caches[key].value ELSE Build(key)

AskFor(key) ==
  /\ caches' = [k \in DOMAIN caches \cup {key} |->
                  IF k = key THEN [token |-> Token, value |-> Served(key)] ELSE caches[k]]
  /\ UNCHANGED <<held, manifest, revision, isSealed, unsaid>>

NoCaches == [key \in {} |-> <<>>]

(* invalidate.  The caches are the only fields a sealed session lets go.   *)
Invalidate ==
  /\ revision < MaxRevision
  /\ revision' = revision + 1 /\ caches' = NoCaches /\ unsaid' = FALSE
  /\ UNCHANGED <<held, manifest, isSealed>>

(* add_event: refused when sealed.                                         *)
AddEvent(e) ==
  /\ ~isSealed /\ Len(held) < MaxLength /\ revision < MaxRevision
  /\ held' = Append(held, e)
  /\ revision' = revision + 1 /\ caches' = NoCaches /\ unsaid' = FALSE
  /\ UNCHANGED <<manifest, isSealed>>

(* events.append, on the list of a session that is not sealed.             *)
AppendBare(e) ==
  /\ ~isSealed /\ Len(held) < MaxLength
  /\ held' = Append(held, e)
  /\ UNCHANGED <<manifest, revision, caches, isSealed, unsaid>>

(* events[i] = e: a tuple, once sealed, has no such assignment (C4-08).    *)
Replace(i, e) ==
  /\ ~isSealed
  /\ held' = [held EXCEPT ![i] = e]
  /\ unsaid' = TRUE
  /\ UNCHANGED <<manifest, revision, caches, isSealed>>

(* __setattr__ of any field that is not a cache.                           *)
Rebind(m) ==
  /\ ~isSealed /\ m # manifest
  /\ manifest' = m /\ unsaid' = TRUE
  /\ UNCHANGED <<held, revision, caches, isSealed>>

(* Mutant of SealSession: what was cached of the session being built is    *)
(* kept.                                                                   *)
SealKeeping ==
  /\ ~isSealed
  /\ isSealed' = TRUE /\ unsaid' = FALSE
  /\ UNCHANGED <<held, manifest, revision, caches>>

(* seal: idempotent.                                                       *)
SealSession ==
  /\ ~isSealed
  /\ isSealed' = TRUE
  /\ revision' = revision + 1 /\ caches' = NoCaches /\ unsaid' = FALSE
  /\ UNCHANGED <<held, manifest>>

-----------------------------------------------------------------------------
SealingInit ==
  /\ held = <<>> /\ manifest \in Manifests
  /\ revision = 0 /\ caches = NoCaches
  /\ isSealed = FALSE /\ unsaid = FALSE

SealingNext ==
  \/ \E key \in Cached : AskFor(key)
  \/ \E e \in Events : AddEvent(e) \/ AppendBare(e)
  \/ \E i \in DOMAIN held, e \in Events : Replace(i, e)
  \/ \E m \in Manifests : Rebind(m)
  \/ Invalidate
  \/ SealSession

SealingSpec == SealingInit /\ [][SealingNext]_sealingVars

-----------------------------------------------------------------------------
(* Every variable has its type.                                            *)
SealingTypeOK ==
  /\ held \in Seq(Events)
  /\ manifest \in Manifests
  /\ revision \in 0 .. MaxRevision + 1
  /\ DOMAIN caches \subseteq Cached
  /\ \A key \in DOMAIN caches :
       caches[key].token[1] <= revision /\ caches[key].token[2] <= Len(held)
  /\ isSealed \in BOOLEAN /\ unsaid \in BOOLEAN

(* Whatever was asked while the session was being built, a sealed session  *)
(* answers from the events and the manifest it has (C4-08, COH-R13).       *)
SealedAnswersTruly == isSealed => \A key \in Cached : Served(key) = Build(key)

(* A session that is streamed into, by add_event or by a bare append,      *)
(* serves nothing of the events before (BUG-05); only a change in place    *)
(* that nobody announced is served late.                                   *)
StreamedAnswersTruly == ~unsaid => \A key \in Cached : Served(key) = Build(key)

(* Two readers of a sealed session are told the same, whatever happens     *)
(* between them: the seal is never undone (COH-R13).                       *)
SealedNeverChanges ==
  isSealed => isSealed' /\ \A key \in Cached : Served(key)' = Served(key)

(* The three together, well typed.                                         *)
SealedSessionIsFixed ==
  /\ [](SealingTypeOK /\ SealedAnswersTruly /\ StreamedAnswersTruly)
  /\ [][SealedNeverChanges]_sealingVars
=============================================================================
