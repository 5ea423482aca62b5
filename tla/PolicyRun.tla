----------------------------- MODULE PolicyRun ------------------------------
(***************************************************************************)
(* The policy of one score run: the files that decide how records are read *)
(* (the capability manifest and the baseline), their detached signatures   *)
(* and what the run refuses: _score of src/cohaera/cli.py up to the fit.   *)
(* Meanwhile anybody may rename a file over a path or rewrite it in place. *)
(*                                                                         *)
(* A path names an inode and an inode holds a content; reading a whole     *)
(* file is one step.  Content in Flawed is no manifest, and as a baseline  *)
(* has records to quarantine.  What the run reads once (the trust store,   *)
(* the signature files) is fixed in its arguments.                         *)
(***************************************************************************)
EXTENDS TrustedKeys, Sequences

CONSTANTS
  Contents, Flawed,   \* what a file can hold
  Arguments,          \* command lines, below
  MaxEdits            \* bound: changes to the files while the run reads them

Artifacts == {"manifest", "baseline"}

(* What a signature file reads as that is none.                            *)
NotASignature == [artifact |-> "none"]

(* A command line: the files given, a signature file for each or None, the *)
(* trust store, --require-signed-policy and --allow-partial-baseline.      *)
ArgumentsOk(args) ==
  /\ args.files \subseteq Artifacts
  /\ DOMAIN args.sigs = Artifacts
  /\ args.require \in BOOLEAN /\ args.partial \in BOOLEAN

PolicyRunAssumption ==
  /\ Flawed \subseteq Contents /\ None \notin Contents \cup Nat
  /\ \A args \in Arguments : ArgumentsOk(args)

VARIABLES
  args, pc,
  path,        \* artifact -> its inode
  content,     \* inode, in order of creation -> content
  rewritten,   \* inodes rewritten in place since the run began (history)
  manifest,    \* content of the manifest as parsed, or None
  fd,          \* inode the baseline was opened on, or None
  digest,      \* content the baseline was hashed over, or None
  status,      \* artifact -> outcome of its attestation
  fitted       \* content CH01 was fitted on, or None

run        == <<args, pc, manifest, fd, digest, status, fitted>>
files      == <<path, content, rewritten>>
policyVars == <<run, files>>

Given(artifact)  == artifact \in args.files
SignatureGiven(artifact) == args.sigs[artifact] # None

-----------------------------------------------------------------------------
(* A signature was given and the file it signs was not.                    *)
Orphaned == \E a \in Artifacts : SignatureGiven(a) /\ ~Given(a)

RefuseOrphan ==
  /\ pc = "start" /\ Orphaned
  /\ pc' = "refused"
  /\ UNCHANGED <<args, manifest, fd, digest, status, fitted, files>>

(* _load_manifest: one read, and the digest is of the bytes parsed.        *)
LoadManifest ==
  LET read == content[path["manifest"]]
  IN /\ pc = "start" /\ ~Orphaned
     /\ IF ~Given("manifest") THEN pc' = "loaded" /\ UNCHANGED manifest
        ELSE IF read \in Flawed THEN pc' = "refused" /\ UNCHANGED manifest
        ELSE pc' = "loaded" /\ manifest' = read
     /\ UNCHANGED <<args, fd, digest, status, fitted, files>>

(* The baseline is opened once.                                            *)
OpenBaseline ==
  /\ pc = "loaded" /\ pc' = "opened"
  /\ fd' = IF Given("baseline") THEN path["baseline"] ELSE None
  /\ UNCHANGED <<args, manifest, digest, status, fitted, files>>

(* Mutant of HashBaseline: the file of that name is hashed (file_sha256).  *)
HashBaselineByPath ==
  /\ pc = "opened" /\ pc' = "hashed"
  /\ digest' = IF Given("baseline") /\ SignatureGiven("baseline")
               THEN content[path["baseline"]] ELSE None
  /\ UNCHANGED <<args, manifest, fd, status, fitted, files>>

(* stream_sha256, of the open descriptor and only for a signature.         *)
HashBaseline ==
  /\ pc = "opened" /\ pc' = "hashed"
  /\ digest' = IF fd # None /\ SignatureGiven("baseline") THEN content[fd] ELSE None
  /\ UNCHANGED <<args, manifest, fd, status, fitted, files>>

DigestOf(artifact) == IF artifact = "manifest" THEN manifest ELSE digest

(* _attest_policy.                                                         *)
AttestPolicy(artifact) ==
  IF DigestOf(artifact) = None \/ ~SignatureGiven(artifact) THEN "absent"
  ELSE Outcome(args.sigs[artifact], DigestOf(artifact), artifact, args.keys)

(* A file given as a signature that is none refuses the run                *)
(* (PolicySignature.from_file).                                            *)
Attest ==
  /\ pc = "hashed"
  /\ IF \E a \in Artifacts : DigestOf(a) # None /\ args.sigs[a] = NotASignature
     THEN pc' = "refused" /\ UNCHANGED status
     ELSE pc' = "attested" /\ status' = [a \in Artifacts |-> AttestPolicy(a)]
  /\ UNCHANGED <<args, manifest, fd, digest, fitted, files>>

(* A signature that was checked and did not hold, or one that is required  *)
(* of a file that was given.                                               *)
Unacceptable(artifact) ==
  \/ status[artifact] \notin {"absent", "verified"}
  \/ args.require /\ Given(artifact) /\ status[artifact] # "verified"

Gate ==
  /\ pc = "attested"
  /\ pc' = IF \E a \in Artifacts : Unacceptable(a) THEN "refused" ELSE "passed"
  /\ UNCHANGED <<args, manifest, fd, digest, status, fitted, files>>

(* load and fit the baseline, from the descriptor; a partial one only by   *)
(* permission.                                                             *)
FitBaseline ==
  /\ pc = "passed"
  /\ IF fd = None THEN pc' = "scored" /\ UNCHANGED fitted
     ELSE IF content[fd] \in Flawed /\ ~args.partial THEN pc' = "refused" /\ UNCHANGED fitted
     ELSE pc' = "scored" /\ fitted' = content[fd]
  /\ UNCHANGED <<args, manifest, fd, digest, status, files>>

-----------------------------------------------------------------------------
(* Somebody else, while the run is at it: os.replace over a path, or a     *)
(* write into a file.                                                      *)
MayEdit ==
  /\ pc \notin {"scored", "refused"}
  /\ Len(content) + Cardinality(rewritten) < MaxEdits + 2

Rename(artifact, c) ==
  /\ MayEdit
  /\ content' = Append(content, c)
  /\ path' = [path EXCEPT ![artifact] = Len(content) + 1]
  /\ UNCHANGED <<run, rewritten>>

RewriteInPlace(inode, c) ==
  /\ MayEdit
  /\ content' = [content EXCEPT ![inode] = c]
  /\ rewritten' = rewritten \cup {inode}
  /\ UNCHANGED <<run, path>>

-----------------------------------------------------------------------------
PolicyInit ==
  /\ args \in Arguments /\ pc = "start"
  /\ path = [a \in Artifacts |-> IF a = "manifest" THEN 1 ELSE 2]
  /\ content \in [1..2 -> Contents] /\ rewritten = {}
  /\ manifest = None /\ fd = None /\ digest = None
  /\ status = [a \in Artifacts |-> "unread"] /\ fitted = None

PolicyNext ==
  \/ RefuseOrphan \/ LoadManifest \/ OpenBaseline \/ HashBaseline
  \/ Attest \/ Gate \/ FitBaseline
  \/ \E a \in Artifacts, c \in Contents : Rename(a, c)
  \/ \E inode \in DOMAIN content, c \in Contents : RewriteInPlace(inode, c)

PolicySpec == PolicyInit /\ [][PolicyNext]_policyVars

-----------------------------------------------------------------------------
(* Types; only a signature makes the run hash the baseline, so that an     *)
(* oversize one is refused by attestation or truncated, never both.        *)
PolicyTypeOK ==
  /\ args \in Arguments
  /\ pc \in {"start", "loaded", "opened", "hashed", "attested", "passed", "scored", "refused"}
  /\ \A a \in Artifacts : path[a] \in DOMAIN content
  /\ rewritten \subseteq DOMAIN content
  /\ {manifest, digest, fitted} \subseteq Contents \cup {None}
  /\ fd \in DOMAIN content \cup {None}
  /\ digest # None => fd # None /\ SignatureGiven("baseline")

(* What a file given was used as.                                          *)
UsedAs(artifact) == IF artifact = "manifest" THEN manifest ELSE fitted

Vouched(artifact) ==
  LET sig == args.sigs[artifact]
  IN /\ sig.genuine /\ sig.artifact = artifact
     /\ sig.key \in DOMAIN args.keys /\ "policy" \in args.keys[sig.key].roles
     /\ ~Revoked(args.keys[sig.key])

(* The file a run reports as verified is the one it was scored with,       *)
(* whatever was renamed over its path while the run read it (R-07); a      *)
(* baseline rewritten in place is the case left open below.                *)
ScoredAsSigned ==
  pc = "scored" =>
    \A a \in Artifacts :
      /\ status[a] = "verified"
      /\ a = "baseline" => fd \notin rewritten
      => UsedAs(a) = args.sigs[a].content /\ Vouched(a)

(* No signature given is without its effect: a run that scores verified    *)
(* each of them (the refusals of cli.py's _score).                         *)
NoSignatureIgnored ==
  pc = "scored" => \A a \in Artifacts : SignatureGiven(a) => status[a] = "verified"

(* Under --require-signed-policy every file that shaped a verdict carries  *)
(* a signature by a standing policy key over that kind of file.            *)
RequiredIsSigned ==
  pc = "scored" /\ args.require =>
    \A a \in Artifacts : Given(a) => status[a] = "verified" /\ Vouched(a)

(* The three together, well typed.                                         *)
ScoredUnderTheSignedPolicy == PolicyTypeOK /\ ScoredAsSigned /\ NoSignatureIgnored /\ RequiredIsSigned

-----------------------------------------------------------------------------
(* Statements of the repository that the model refutes (README, section 6).*)

(* "An artefact whose signature Cohaera checks has to be hashed and parsed *)
(* from the same bytes" (cli.py, cmd_score).                               *)
HashedIsParsed ==
  pc = "scored" /\ status["baseline"] = "verified" => fitted = digest
=============================================================================
