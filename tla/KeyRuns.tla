------------------------------ MODULE KeyRuns -------------------------------
(***************************************************************************)
(* Runs of `cohaera keygen` (src/cohaera/emit/command.py, cmd_keygen, and  *)
(* emit/keys.py): each generates a key, reads the trust store, writes the  *)
(* seed to its key file and the store back.  Runs share files and no lock, *)
(* may be killed anywhere, and an operator revokes keys by hand meanwhile. *)
(*                                                                         *)
(* A run's key is known by the run; a document is the set of its keys and  *)
(* the set of those revoked.  A file written in place is Torn between its  *)
(* truncation and the end of the write.  File modes are left out.          *)
(***************************************************************************)
EXTENDS FiniteSets

CONSTANTS
  Keygens,
  Paths,          \* key files
  Out,            \* run -> the key file it is told to write
  Overwriting,    \* runs given --overwrite
  Absent, Torn

Documents == [keys : SUBSET Keygens, revoked : SUBSET Keygens]

KeyRunsAssumption ==
  /\ Out \in [Keygens -> Paths] /\ Overwriting \subseteq Keygens
  /\ Absent # Torn /\ {Absent, Torn} \cap (Keygens \cup Documents) = {}

VARIABLES
  phase,
  document,     \* run -> what it will write to the store, or Absent
  seed,         \* path -> run whose seed it holds, Absent or Torn
  store,        \* a document, Absent or Torn
  revokedOnce,  \* keys an operator has revoked (history)
  overlapped    \* the store changed hands while a run worked on it (history)

keygenVars == <<phase, document, seed, store, revokedOnce, overlapped>>

Goto(r, place) == phase' = [phase EXCEPT ![r] = place]

IsDocument(file) == file \notin {Absent, Torn}

(* Runs that have read the store and may yet write it.                     *)
AtWork == {r \in Keygens : phase[r] \in {"merged", "opened", "kept", "publishing"}}

-----------------------------------------------------------------------------
(* The document of a run that found this file.                             *)
Merged(r, file) ==
  IF IsDocument(file) THEN [file EXCEPT !.keys = @ \cup {r}]
  ELSE [keys |-> {r}, revoked |-> {}]

(* The store is read and the new entry goes in beside the old ones         *)
(* (add_key, trust_store_document).  A file that does not parse refuses.   *)
ReadStore(r) ==
  /\ phase[r] = "start"
  /\ IF store = Torn THEN Goto(r, "refused") /\ UNCHANGED <<document, overlapped>>
     ELSE /\ Goto(r, "merged")
          /\ document' = [document EXCEPT ![r] = Merged(r, store)]
          /\ overlapped' = (overlapped \/ AtWork # {})
  /\ UNCHANGED <<seed, store, revokedOnce>>

(* O_EXCL, unless told to overwrite.                                       *)
FileTaken(r) == seed[Out[r]] # Absent /\ r \notin Overwriting

(* write_private_key: created or truncated, then written.                  *)
OpenSeed(r) ==
  /\ phase[r] = "merged"
  /\ IF FileTaken(r) THEN Goto(r, "refused") /\ UNCHANGED seed
     ELSE Goto(r, "opened") /\ seed' = [seed EXCEPT ![Out[r]] = Torn]
  /\ UNCHANGED <<document, store, revokedOnce, overlapped>>

WriteSeed(r) ==
  /\ phase[r] = "opened" /\ Goto(r, "kept")
  /\ seed' = [seed EXCEPT ![Out[r]] = r]
  /\ UNCHANGED <<document, store, revokedOnce, overlapped>>

(* Mutant of TruncateStore: published before its seed is on disk.          *)
TruncateStoreEarly(r) ==
  /\ phase[r] \in {"opened", "kept"} /\ Goto(r, "publishing")
  /\ store' = Torn
  /\ UNCHANGED <<document, seed, revokedOnce, overlapped>>

(* write_text on the store: truncated, then written.                       *)
TruncateStore(r) ==
  /\ phase[r] = "kept" /\ Goto(r, "publishing")
  /\ store' = Torn
  /\ UNCHANGED <<document, seed, revokedOnce, overlapped>>

WriteStore(r) ==
  /\ phase[r] = "publishing" /\ Goto(r, "done")
  /\ store' = document[r]
  /\ UNCHANGED <<document, seed, revokedOnce, overlapped>>

-----------------------------------------------------------------------------
(* A run killed: what it had written stays.                                *)
Stop(r) ==
  /\ phase[r] \in {"start"} \/ r \in AtWork
  /\ Goto(r, "stopped")
  /\ UNCHANGED <<document, seed, store, revokedOnce, overlapped>>

(* By hand.                                                                *)
Revoke(id) ==
  /\ IsDocument(store) /\ id \in store.keys \ store.revoked
  /\ store' = [store EXCEPT !.revoked = @ \cup {id}]
  /\ revokedOnce' = revokedOnce \cup {id}
  /\ overlapped' = (overlapped \/ AtWork # {})
  /\ UNCHANGED <<phase, document, seed>>

-----------------------------------------------------------------------------
KeygenInit ==
  /\ phase = [r \in Keygens |-> "start"]
  /\ document = [r \in Keygens |-> Absent]
  /\ seed = [p \in Paths |-> Absent] /\ store = Absent
  /\ revokedOnce = {} /\ overlapped = FALSE

KeygenNext ==
  \/ \E r \in Keygens : \/ ReadStore(r) \/ OpenSeed(r) \/ WriteSeed(r)
                     \/ TruncateStore(r) \/ WriteStore(r) \/ Stop(r)
  \/ \E id \in Keygens : Revoke(id)

KeygenSpec == KeygenInit /\ [][KeygenNext]_keygenVars

-----------------------------------------------------------------------------
(* Types; a run that writes the store has a document with its key in it.   *)
KeygenTypeOK ==
  /\ phase \in [Keygens -> {"start", "merged", "opened", "kept", "publishing",
                      "done", "refused", "stopped"}]
  /\ document \in [Keygens -> Documents \cup {Absent}]
  /\ \A r \in AtWork : document[r] # Absent /\ r \in document[r].keys
  /\ seed \in [Paths -> Keygens \cup {Absent, Torn}]
  /\ store \in Documents \cup {Absent, Torn}
  /\ IsDocument(store) => store.revoked \subseteq revokedOnce \cap store.keys
  /\ overlapped \in BOOLEAN

(* A key is published only once its seed is on disk, whole: what the store *)
(* names can sign, unless two runs took its file, one of them told to      *)
(* overwrite (the order of cmd_keygen's writes).                           *)
PublishedWasKept ==
  IsDocument(store) =>
    \A r \in store.keys :
      \/ seed[Out[r]] = r
      \/ \E w \in Overwriting : \E s \in Keygens \ {w} :
           /\ Out[w] = Out[r] /\ Out[s] = Out[r]
           /\ phase[w] # "start" /\ phase[s] # "start"

(* A key in the file of a run that was not told to overwrite is that run's *)
(* own doing: of two runs told to create one file at most one goes past    *)
(* the opening, however they interleave (write_private_key).               *)
OneCreatorPerFile ==
  LET Creators ==
        {r \in Keygens \ Overwriting : phase[r] \in {"opened", "kept", "publishing", "done"}}
  IN \A r, s \in Creators : Out[r] = Out[s] => r = s

(* Runs that do not overlap, with each other or with an edit by hand, lose *)
(* no entry and no revocation, whichever of them is killed and where: what *)
(* a killed run left torn is refused, never begun again.                   *)
ApartNothingIsForgotten ==
  ~overlapped /\ IsDocument(store) =>
    /\ {r \in Keygens : phase[r] = "done"} \subseteq store.keys
    /\ revokedOnce = store.revoked

(* The three together, well typed.                                         *)
PublishedKeysWereKept ==
  KeygenTypeOK /\ PublishedWasKept /\ OneCreatorPerFile /\ ApartNothingIsForgotten

-----------------------------------------------------------------------------
(* Statements of the repository that the model refutes (README, section 6).*)

(* "the new key goes in beside the old one" (command.py, cmd_keygen).      *)
KeysStandBeside == IsDocument(store) => {r \in Keygens : phase[r] = "done"} \subseteq store.keys

(* "Nothing here edits the old entry" (command.py, cmd_keygen).            *)
RevocationsStand == IsDocument(store) => revokedOnce \cap store.keys \subseteq store.revoked
=============================================================================
