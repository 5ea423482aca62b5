------------------------------- MODULE Ingest -------------------------------
(***************************************************************************)
(* Reading one telemetry file under its budgets: read_events and           *)
(* _bounded_lines of src/cohaera/ingest.py, with the IngestReport of       *)
(* validate.py and the bounds of limits.py.                                *)
(*                                                                         *)
(* The file is known by its size; each line is chosen when it is read,     *)
(* from those that fit.  A line is its length in bytes, what parsing makes *)
(* of it and what the parse builds.  The file's text is not in the model,  *)
(* so neither is the digest of what was read (IngestReport.note_bytes),    *)
(* nor the counters of defects and of codes.                               *)
(***************************************************************************)
EXTENDS Integers, Sequences, FiniteSets

CONSTANTS
  Sizes,                \* the sizes a file may have, in bytes
  Lines,                \* the lines a file may hold
  Chunk,                \* _CHUNK: how much one read asks for
  MaxLine,              \* max_line_bytes
  MaxInput,             \* max_input_bytes
  MaxRecords,           \* max_records_total
  MaxEvents,            \* max_events_total
  MaxResident,          \* max_resident_bytes
  PerByte,              \* RESIDENT_BYTES_PER_INPUT_BYTE
  PerContainer,         \* RESIDENT_BYTES_PER_CONTAINER
  PerKey,               \* RESIDENT_BYTES_PER_KEY
  MaxContainers,        \* max_containers_per_record
  MaxKeys,              \* max_keys_per_record
  MaxRejects,           \* max_rejects, NoLimit for None
  MaxRatio,             \* max_reject_ratio in hundredths, NoLimit for None
  RatioFloor,           \* max_reject_ratio_floor
  Keep,                 \* REJECT_LEDGER_KEEP
  NoLimit

(* What a line's text is, as far as the reader gets with it.  A line of    *)
(* JSON is well formed ("object") or is refused on the way.                *)
Forms == {"blank", "undecodable", "too_deep", "malformed", "not_an_object",
          "too_many_keys", "unreadable", "object"}

LineRecords == [nbytes : Nat, text : Nat, form : Forms, containers : Nat, keys : Nat]

(* ALL_REJECT_CODES, without those of the assembly.                        *)
BudgetCodes ==
  {"RECORD_BUDGET_EXHAUSTED", "INPUT_BYTE_BUDGET_EXHAUSTED", "EVENT_BUDGET_EXHAUSTED",
   "RESIDENT_MEMORY_BUDGET_EXHAUSTED", "REJECT_BUDGET_EXHAUSTED", "REJECT_RATIO_EXCEEDED"}

RejectCodes == BudgetCodes \cup
  {"LINE_EXCEEDS_MAX_BYTES", "LINE_NOT_VALID_UTF8", "NESTING_EXCEEDS_MAX_DEPTH",
   "MALFORMED_JSON", "NOT_A_JSON_OBJECT", "RECORD_EXCEEDS_MAX_KEYS", "RECORD_NOT_READABLE"}

Reasons == BudgetCodes \cup {""}

Optional(S) == S \cup {NoLimit}

ASSUME IngestAssumption ==
  /\ Sizes \subseteq Nat
  /\ Lines \subseteq LineRecords
  /\ \A line \in Lines : line.text =< line.nbytes
  /\ NoLimit \notin Nat
  /\ {Chunk, MaxLine, MaxInput, MaxRecords, MaxEvents, MaxResident,
      MaxContainers, MaxKeys, RatioFloor, Keep} \subseteq Nat \ {0}
  /\ {PerByte, PerContainer, PerKey} \subseteq Nat
  /\ MaxRejects \in Optional(Nat)
  /\ MaxRatio \in Optional(0 .. 100)

VARIABLES
  size,      \* of the file
  offset,    \* where the next line starts
  records,   \* records_read
  bytes,     \* bytes_read: of the lines read, without their line ends
  retained,  \* [bytes, containers, keys] of the accepted records
  report,    \* the IngestReport
  blanks,    \* history: blank lines
  pc         \* "reading", or "done" when the reader has returned

vars == <<size, offset, records, bytes, retained, report, blanks, pc>>

Reports ==
  [accepted : Nat, rejected : Nat, rejects : Seq(RejectCodes),
   reason : Reasons, resident : Nat]

(* `aborted` and `abort_reason` are set together.                          *)
IsAborted(rep) == rep.reason # ""

NoReport == [accepted |-> 0, rejected |-> 0, rejects |-> <<>>,
             reason |-> "", resident |-> 0]

-----------------------------------------------------------------------------
(* IngestReport.                                                           *)

AddReject(rep, code) ==
  [rep EXCEPT !.rejected = @ + 1,
              !.rejects  = IF Len(@) < Keep THEN Append(@, code) ELSE @]

Omitted(rep) == rep.rejected - Len(rep.rejects)
Total(rep)   == rep.accepted + rep.rejected

(* The exact comparison rejected / total > MaxRatio / 100.                 *)
RatioExceeded(rep) == rep.rejected * 100 > MaxRatio * Total(rep)

Aborted(rep, code) == [AddReject(rep, code) EXCEPT !.reason = code]

-----------------------------------------------------------------------------
(* _bounded_lines: where the chunked reader stops, and what it yields.     *)

AtLeast(a, b) == IF a >= b THEN a ELSE b
AtMost(a, b)  == IF a =< b THEN a ELSE b

(* The end of the first chunk that brings what was consumed to the total.  *)
ChunkEnd == ((MaxInput + Chunk - 1) \div Chunk) * Chunk

Stops    == size >= MaxInput
Consumed == IF Stops THEN AtMost(ChunkEnd, size) ELSE size

(* Mutant of OverTotal: the budget before this line was read is asked.     *)
OverTotalBefore(line) == bytes >= MaxInput

OverTotal(line) == bytes + line.nbytes > MaxInput

(* A line whose end is in what was consumed.                               *)
Ends(line) == offset + line.nbytes < Consumed

(* What is left is a last line with no line end.                           *)
LastLine(line) == ~Stops /\ line.nbytes > 0 /\ offset + line.nbytes = size

-----------------------------------------------------------------------------
(* The budgets of read_events.                                             *)

Resident(r) ==
  AtLeast(r.bytes * PerByte, r.containers * PerContainer + r.keys * PerKey)

TooManyRejects ==
  MaxRejects # NoLimit /\ report.rejected > MaxRejects

RatioHit ==
  /\ MaxRatio # NoLimit
  /\ records >= RatioFloor
  /\ Total(report) > 0
  /\ RatioExceeded(report)

(* _budget_hit: the first budget that is exhausted, or "".                 *)
BudgetHit ==
  IF records >= MaxRecords                  THEN "RECORD_BUDGET_EXHAUSTED"
  ELSE IF bytes >= MaxInput                 THEN "INPUT_BYTE_BUDGET_EXHAUSTED"
  ELSE IF report.accepted >= MaxEvents      THEN "EVENT_BUDGET_EXHAUSTED"
  ELSE IF Resident(retained) >= MaxResident THEN "RESIDENT_MEMORY_BUDGET_EXHAUSTED"
  ELSE IF TooManyRejects                    THEN "REJECT_BUDGET_EXHAUSTED"
  ELSE IF RatioHit                          THEN "REJECT_RATIO_EXCEEDED"
  ELSE ""

-----------------------------------------------------------------------------
(* Not strict JSON, or it builds more than one record may.                 *)
Malformed(line) ==
  line.form = "malformed" \/ line.containers > MaxContainers \/ line.keys > MaxKeys

(* Why a line is not a record; "" when it is one.                          *)
Refusal(line) ==
  IF line.nbytes > MaxLine                THEN "LINE_EXCEEDS_MAX_BYTES"
  ELSE IF line.form = "undecodable"       THEN "LINE_NOT_VALID_UTF8"
  ELSE IF line.form = "too_deep"          THEN "NESTING_EXCEEDS_MAX_DEPTH"
  ELSE IF Malformed(line)                 THEN "MALFORMED_JSON"
  ELSE IF line.form = "not_an_object"     THEN "NOT_A_JSON_OBJECT"
  ELSE IF line.form = "too_many_keys"     THEN "RECORD_EXCEEDS_MAX_KEYS"
  ELSE IF line.form = "unreadable"        THEN "RECORD_NOT_READABLE"
  ELSE ""

Blank(line) == line.nbytes =< MaxLine /\ line.form = "blank"

RetainedWith(line) ==
  [bytes      |-> retained.bytes + line.text,
   containers |-> retained.containers + line.containers,
   keys       |-> retained.keys + line.keys]

-----------------------------------------------------------------------------
Init ==
  /\ size \in Sizes
  /\ offset   = 0
  /\ records  = 0
  /\ bytes    = 0
  /\ retained = [bytes |-> 0, containers |-> 0, keys |-> 0]
  /\ report   = NoReport
  /\ blanks   = 0
  /\ pc       = "reading"

(* The read goes on: no budget was exhausted when the line was asked for.  *)
Reading == pc = "reading" /\ BudgetHit = ""

(* Mutant of StopAtBudget: the read ends as if the file did.               *)
StopQuietly ==
  /\ pc = "reading"
  /\ BudgetHit # ""
  /\ report' = AddReject(report, BudgetHit)
  /\ pc'     = "done"
  /\ UNCHANGED <<size, offset, records, bytes, retained, blanks>>

(* A budget ends the read before the next line is asked for.               *)
StopAtBudget ==
  /\ pc = "reading"
  /\ BudgetHit # ""
  /\ report' = Aborted(report, BudgetHit)
  /\ pc'     = "done"
  /\ UNCHANGED <<size, offset, records, bytes, retained, blanks>>

(* The reader gave up in the middle of the file.                           *)
StopAtOverBudget ==
  /\ Reading
  /\ \/ Stops      \* what is left of the chunk is a partial line, or nothing
     \/ \E line \in Lines : Ends(line) /\ OverTotal(line)
  /\ report' = Aborted(report, "INPUT_BYTE_BUDGET_EXHAUSTED")
  /\ pc'     = "done"
  /\ UNCHANGED <<size, offset, records, bytes, retained, blanks>>

(* The end of the file.                                                    *)
EndOfFile ==
  /\ Reading
  /\ ~Stops
  /\ offset = size
  /\ pc' = "done"
  /\ UNCHANGED <<size, offset, records, bytes, retained, report, blanks>>

(* One complete line, the last one with or without its line end.           *)
Take(line) ==
  /\ Reading
  /\ \/ /\ Ends(line) /\ ~OverTotal(line)
        /\ offset' = offset + line.nbytes + 1
     \/ LastLine(line) /\ offset' = size
  /\ records' = records + 1
  /\ bytes'   = bytes + line.nbytes
  /\ UNCHANGED <<size, pc>>

Skip(line) ==
  /\ Blank(line)
  /\ Take(line)
  /\ blanks' = blanks + 1
  /\ UNCHANGED <<retained, report>>

Refuse(line) ==
  /\ ~Blank(line)
  /\ Refusal(line) # ""
  /\ Take(line)
  /\ report' = AddReject(report, Refusal(line))
  /\ UNCHANGED <<retained, blanks>>

Accept(line) ==
  /\ ~Blank(line)
  /\ Refusal(line) = ""
  /\ Take(line)
  /\ retained' = RetainedWith(line)
  /\ report'   = [report EXCEPT !.accepted = @ + 1,
                                !.resident = Resident(RetainedWith(line))]
  /\ UNCHANGED blanks

Next ==
  \/ StopAtBudget
  \/ StopAtOverBudget
  \/ EndOfFile
  \/ \E line \in Lines : Skip(line) \/ Refuse(line) \/ Accept(line)

Spec == Init /\ [][Next]_vars

-----------------------------------------------------------------------------
(* Every variable has its type.                                            *)
TypeOK ==
  /\ size \in Nat
  /\ offset \in 0 .. size
  /\ records \in Nat /\ bytes \in Nat /\ blanks \in Nat
  /\ retained \in [bytes : Nat, containers : Nat, keys : Nat]
  /\ report \in Reports
  /\ pc \in {"reading", "done"}

(* No budget on what is read or accepted is ever passed: not by a line     *)
(* that is too long, the last line, or a line that ends in the chunk that  *)
(* crosses the total (read_events, _bounded_lines).                        *)
WithinBudgets ==
  /\ bytes =< MaxInput
  /\ records =< MaxRecords
  /\ report.accepted =< MaxEvents
  /\ MaxRejects # NoLimit =>
       report.rejected =< MaxRejects + (IF IsAborted(report) THEN 2 ELSE 1)

(* The estimate of what the accepted records take in memory passes         *)
(* max_resident_bytes by less than one record's share of it, whatever the  *)
(* records are made of: bytes, containers or keys.                         *)
WithinMemory ==
  \/ report.resident < MaxResident
  \/ \E line \in Lines : report.resident < MaxResident +
       Resident([bytes |-> line.text, containers |-> line.containers, keys |-> line.keys])

(* Every line that was read is an accepted record, a rejected one or       *)
(* blank; the row that says why the read was aborted is the one reject     *)
(* that stands for no line; and the rows that are missing from the reject  *)
(* ledger are counted (IngestReport.add_reject, rejects_omitted).          *)
EveryLineAccounted ==
  /\ records = report.accepted + blanks + report.rejected
                - (IF IsAborted(report) THEN 1 ELSE 0)
  /\ Len(report.rejects) = AtMost(report.rejected, Keep)
  /\ Omitted(report) >= 0

(* A read that returned without an abort has read the whole file: no       *)
(* budget ends it quietly (read_events, _bounded_lines).                   *)
WholeFileOrAborted ==
  /\ pc = "done" => IsAborted(report) \/ offset = size
  /\ IsAborted(report) => pc = "done"

(* What is read, accepted and kept in memory is bounded whatever the file  *)
(* holds: no budget is passed by more than the one record that reaches it  *)
(* (read_events, _bounded_lines, limits.py).                               *)
ReadIsBounded == WithinBudgets /\ WithinMemory

(* Nothing that is read is lost and nothing that is not read is passed off *)
(* as read: each line is accepted, rejected or blank, and a read that is   *)
(* not reported as aborted has reached the end of the file (read_events).  *)
ReadIsAccounted == EveryLineAccounted /\ WholeFileOrAborted

-----------------------------------------------------------------------------
(* Statements of the repository that the model refutes (README, section 6).*)

(* "remaining records not read" (ingest.py): when a read is aborted, part  *)
(* of the file was not read.                                               *)
AbortedLeavesRecords == IsAborted(report) => offset < size

(* "The ratio is meaningless on a tiny sample" (limits.py): the reject     *)
(* ratio ends a read only over a sample of max_reject_ratio_floor.         *)
RatioOverASample ==
  report.reason = "REJECT_RATIO_EXCEEDED" => Total(report) - 1 >= RatioFloor
=============================================================================
