---------------------------- MODULE IngestProofs ----------------------------
(***************************************************************************)
(* Reading a file and grouping its events, for files of every size, lines  *)
(* and records of every kind and every choice of the bounds:               *)
(* ReadIsBounded and ReadIsAccounted of Ingest, GroupedByWhatTheySay of    *)
(* Assembly.                                                               *)
(***************************************************************************)
EXTENDS Ingest, Assembly, FiniteSetTheorems, SequenceTheorems, WellFoundedInduction, TLAPS

(* The shape of a record as a retained amount.                             *)
Share(line) == [bytes |-> line.text, containers |-> line.containers, keys |-> line.keys]

Amounts == [bytes : Nat, containers : Nat, keys : Nat]

(* What the invariants rest on: the lines read lie before the offset, the  *)
(* estimate in the report is of what was retained, and only the row of an  *)
(* aborted read goes past the first reject over max_rejects.               *)
Charged ==
  /\ bytes =< offset
  /\ report.resident = Resident(retained)

IInv ==
  /\ TypeOK
  /\ Charged
  /\ WithinBudgets
  /\ WithinMemory
  /\ EveryLineAccounted
  /\ WholeFileOrAborted

-----------------------------------------------------------------------------
(* Arithmetic of the estimate.                                             *)

LEMMA ProductType ==
  ASSUME NEW a \in Nat, NEW b \in Nat
  PROVE  a * b \in Nat
  OBVIOUS

LEMMA ResidentType ==
  ASSUME NEW r \in Amounts
  PROVE  Resident(r) \in Nat
<1>1. PerByte \in Nat /\ PerContainer \in Nat /\ PerKey \in Nat
  BY IngestAssumption
<1>2. r.bytes \in Nat /\ r.containers \in Nat /\ r.keys \in Nat
  BY DEF Amounts
<1>3. /\ r.bytes * PerByte \in Nat
      /\ r.containers * PerContainer \in Nat
      /\ r.keys * PerKey \in Nat
  BY <1>1, <1>2, ProductType
<1> QED BY <1>3 DEF Resident, AtLeast

(* The estimate of two amounts together is at most the sum of theirs.      *)
LEMMA ResidentAdds ==
  ASSUME NEW r \in Amounts, NEW s \in Amounts
  PROVE  Resident([bytes |-> r.bytes + s.bytes,
                   containers |-> r.containers + s.containers,
                   keys |-> r.keys + s.keys]) =< Resident(r) + Resident(s)
<1> DEFINE t == [bytes |-> r.bytes + s.bytes, containers |-> r.containers + s.containers,
                 keys |-> r.keys + s.keys]
<1>1. PerByte \in Nat /\ PerContainer \in Nat /\ PerKey \in Nat
  BY IngestAssumption
<1>2. /\ r.bytes \in Nat /\ r.containers \in Nat /\ r.keys \in Nat
      /\ s.bytes \in Nat /\ s.containers \in Nat /\ s.keys \in Nat
  BY DEF Amounts
<1>3. ASSUME NEW a \in Nat, NEW b \in Nat, NEW c \in Nat
      PROVE  (a + b) * c = a * c + b * c
  BY <1>3
<1>4. /\ t.bytes * PerByte = r.bytes * PerByte + s.bytes * PerByte
      /\ t.containers * PerContainer = r.containers * PerContainer + s.containers * PerContainer
      /\ t.keys * PerKey = r.keys * PerKey + s.keys * PerKey
  BY <1>1, <1>2, <1>3
<1>5. /\ r.bytes * PerByte \in Nat /\ s.bytes * PerByte \in Nat
      /\ r.containers * PerContainer \in Nat /\ s.containers * PerContainer \in Nat
      /\ r.keys * PerKey \in Nat /\ s.keys * PerKey \in Nat
  BY <1>1, <1>2, ProductType
<1> HIDE DEF t
<1>6. Resident(t) =< Resident(r) + Resident(s)
  BY <1>4, <1>5 DEF Resident, AtLeast
<1> QED BY <1>6 DEF t

-----------------------------------------------------------------------------
(* No budget was hit: each of them has room.                               *)
LEMMA RoomInEveryBudget ==
  ASSUME BudgetHit = ""
  PROVE  /\ ~(records >= MaxRecords)
         /\ ~(bytes >= MaxInput)
         /\ ~(report.accepted >= MaxEvents)
         /\ ~(Resident(retained) >= MaxResident)
         /\ ~TooManyRejects
  BY DEF BudgetHit

LEMMA BudgetHitType == BudgetHit \in BudgetCodes \cup {""}
  BY DEF BudgetHit, BudgetCodes

LEMMA RefusalType ==
  ASSUME NEW line
  PROVE  Refusal(line) \in RejectCodes \cup {""}
  BY DEF Refusal, RejectCodes

(* A reject is counted once, and has a row while there is room for one.    *)
LEMMA AddRejectCounts ==
  ASSUME TypeOK, EveryLineAccounted, NEW code \in RejectCodes
  PROVE  LET rep == AddReject(report, code) IN
         /\ rep \in Reports
         /\ rep.accepted = report.accepted
         /\ rep.rejected = report.rejected + 1
         /\ rep.reason = report.reason
         /\ rep.resident = report.resident
         /\ Len(rep.rejects) = AtMost(rep.rejected, Keep)
         /\ Omitted(rep) >= 0
<1> DEFINE rep == AddReject(report, code)
           rows == IF Len(report.rejects) < Keep THEN Append(report.rejects, code)
                                                  ELSE report.rejects
<1>1. Keep \in Nat
  BY IngestAssumption
<1>2. /\ report.accepted \in Nat /\ report.rejected \in Nat
      /\ report.rejects \in Seq(RejectCodes)
      /\ report.reason \in Reasons /\ report.resident \in Nat
  BY DEF TypeOK, Reports
<1>3. rep = [report EXCEPT !.rejected = report.rejected + 1, !.rejects = rows]
  BY DEF AddReject
<1>4. /\ rep.accepted = report.accepted /\ rep.rejected = report.rejected + 1
      /\ rep.rejects = rows
      /\ rep.reason = report.reason /\ rep.resident = report.resident
  BY <1>3 DEF TypeOK, Reports
<1>5. rows \in Seq(RejectCodes)
  BY <1>2
<1>6. Len(rows) = AtMost(report.rejected + 1, Keep)
  <2>1. Len(report.rejects) = AtMost(report.rejected, Keep)
    BY DEF EveryLineAccounted
  <2>2. Len(report.rejects) \in Nat /\ Len(Append(report.rejects, code)) = Len(report.rejects) + 1
    BY <1>2
  <2> QED BY <1>1, <1>2, <2>1, <2>2 DEF AtMost
<1>7. rep \in Reports
  <2> HIDE DEF rows
  <2>1. report \in Reports /\ report.rejected + 1 \in Nat
    BY <1>2 DEF TypeOK
  <2> QED BY <1>3, <1>5, <2>1 DEF Reports
<1>8. Len(rep.rejects) = AtMost(rep.rejected, Keep) /\ Omitted(rep) >= 0
  BY <1>1, <1>2, <1>4, <1>6 DEF Omitted, AtMost
<1> QED BY <1>4, <1>7, <1>8

-----------------------------------------------------------------------------
LEMMA ChunkEndType == ChunkEnd \in Int
<1>1. MaxInput \in Nat /\ Chunk \in Nat \ {0}
  BY IngestAssumption
<1>2. (MaxInput + Chunk - 1) \div Chunk \in Int
  BY <1>1
<1>3. ASSUME NEW a \in Int, NEW b \in Int PROVE a * b \in Int
  BY <1>3
<1> QED BY <1>1, <1>2, <1>3 DEF ChunkEnd

(* What taking a line does, whatever becomes of it.                        *)
LEMMA TakeKeepsBudgets ==
  ASSUME IInv, NEW line \in Lines, Take(line)
  PROVE  /\ size' = size /\ size \in Nat
         /\ offset' \in 0 .. size
         /\ records' = records + 1 /\ records' \in Nat /\ records' =< MaxRecords
         /\ bytes' \in Nat /\ bytes' =< MaxInput /\ bytes' =< offset'
<1>1. /\ line.nbytes \in Nat /\ line.text \in Nat
      /\ line.containers \in Nat /\ line.keys \in Nat
      /\ MaxInput \in Nat /\ MaxRecords \in Nat /\ Chunk \in Nat
  BY IngestAssumption DEF LineRecords
<1>2. /\ size \in Nat /\ offset \in 0 .. size /\ records \in Nat /\ bytes \in Nat
      /\ bytes =< offset
  BY DEF IInv, TypeOK, Charged
<1>3. pc = "reading" /\ BudgetHit = ""
  BY DEF Take, Reading
<1>4. ~(records >= MaxRecords) /\ ~(bytes >= MaxInput)
  BY <1>3, RoomInEveryBudget
<1>6. size' = size /\ records' = records + 1 /\ bytes' = bytes + line.nbytes
  BY DEF Take
<1>7. CASE Ends(line) /\ ~OverTotal(line) /\ offset' = offset + line.nbytes + 1
  <2>1. offset + line.nbytes < Consumed /\ bytes + line.nbytes =< MaxInput
    BY <1>1, <1>2, <1>7 DEF Ends, OverTotal
  <2>2. Consumed =< size /\ Consumed \in Int
    BY <1>1, <1>2, ChunkEndType DEF Consumed, AtMost
  <2> QED BY <1>1, <1>2, <1>4, <1>6, <1>7, <2>1, <2>2
<1>8. CASE LastLine(line) /\ offset' = size
  <2>1. offset + line.nbytes = size /\ size < MaxInput
    BY <1>1, <1>2, <1>8 DEF LastLine, Stops
  <2> QED BY <1>1, <1>2, <1>4, <1>6, <1>8, <2>1
<1> QED BY <1>7, <1>8 DEF Take

LEMMA TakeGoesOn ==
  ASSUME IInv, NEW line \in Lines, Take(line)
  PROVE  pc = "reading" /\ pc' = "reading" /\ ~IsAborted(report)
<1>1. pc = "reading" /\ pc' = pc
  BY DEF Take, Reading
<1> QED BY <1>1 DEF IInv, WholeFileOrAborted

LEMMA InitIInv == Init => IInv
<1> SUFFICES ASSUME Init PROVE IInv
  OBVIOUS
<1>1. /\ Sizes \subseteq Nat /\ MaxInput \in Nat \ {0} /\ MaxRecords \in Nat \ {0}
      /\ MaxEvents \in Nat \ {0} /\ MaxResident \in Nat \ {0} /\ Keep \in Nat \ {0}
      /\ MaxRejects \in Nat \cup {NoLimit}
      /\ PerByte \in Nat /\ PerContainer \in Nat /\ PerKey \in Nat
  BY IngestAssumption DEF Optional
<1>2. /\ size \in Nat /\ offset = 0 /\ records = 0 /\ bytes = 0 /\ blanks = 0
      /\ retained = [bytes |-> 0, containers |-> 0, keys |-> 0]
  BY <1>1 DEF Init
<1>3. pc = "reading" /\ report = NoReport
  BY DEF Init
<1>4. report.accepted = 0 /\ report.rejected = 0 /\ report.resident = 0
  BY <1>3 DEF NoReport
<1>5. ~IsAborted(report) /\ Len(report.rejects) = 0
  BY <1>3 DEF NoReport, IsAborted
<1>6. report \in Reports
  <2>1. "" \in Reasons
    BY DEF Reasons
  <2>2. <<>> \in Seq(RejectCodes)
    OBVIOUS
  <2> QED BY <1>3, <2>1, <2>2 DEF NoReport, Reports
<1>7. TypeOK
  BY <1>2, <1>3, <1>6 DEF TypeOK
<1>8. Resident(retained) = 0
  BY <1>1, <1>2 DEF Resident, AtLeast
<1>9. Charged /\ WithinMemory
  BY <1>1, <1>2, <1>4, <1>8 DEF Charged, WithinMemory
<1>10. WithinBudgets
  <2>1. MaxRejects # NoLimit => report.rejected =< MaxRejects + 1
    BY <1>1, <1>4
  <2> QED BY <1>1, <1>2, <1>4, <1>5, <2>1 DEF WithinBudgets
<1>11. EveryLineAccounted
  <2>1. ~IsAborted(report)
    BY <1>5
  <2>2. Len(report.rejects) = 0
    BY <1>5
  <2>3. Len(report.rejects) = AtMost(report.rejected, Keep) /\ Omitted(report) >= 0
    BY <1>1, <1>4, <2>2 DEF AtMost, Omitted
  <2>4. records = report.accepted + blanks + report.rejected
    BY <1>2, <1>4
  <2>5. report.accepted \in Nat /\ blanks \in Nat /\ report.rejected \in Nat
    BY <1>2, <1>4
  <2> QED BY <2>1, <2>3, <2>4, <2>5 DEF EveryLineAccounted
<1>12. WholeFileOrAborted
  BY <1>3, <1>5 DEF WholeFileOrAborted
<1> QED BY <1>7, <1>9, <1>10, <1>11, <1>12 DEF IInv

-----------------------------------------------------------------------------
(* One lemma per action.                                                   *)

(* A line that was refused.                                                *)
LEMMA RefuseKeepsIInv ==
  ASSUME IInv, NEW line \in Lines, Refuse(line)
  PROVE  IInv'
<1>1. Take(line) /\ report' = AddReject(report, Refusal(line)) /\ Refusal(line) # ""
      /\ retained' = retained /\ blanks' = blanks
  BY DEF Refuse
<1>2. Refusal(line) \in RejectCodes
  BY <1>1, RefusalType
<1>3. /\ report' \in Reports
      /\ report'.accepted = report.accepted
      /\ report'.rejected = report.rejected + 1
      /\ report'.reason = report.reason
      /\ report'.resident = report.resident
      /\ Len(report'.rejects) = AtMost(report'.rejected, Keep)
      /\ Omitted(report') >= 0
  BY <1>1, <1>2, AddRejectCounts DEF IInv
<1>4. ~IsAborted(report) /\ ~IsAborted(report') /\ pc' = "reading"
  BY <1>1, <1>3, TakeGoesOn DEF IsAborted
<1>5. TypeOK'
  BY <1>1, <1>3, <1>4, TakeKeepsBudgets DEF IInv, TypeOK
<1>6. Charged'
  BY <1>1, <1>3, TakeKeepsBudgets DEF IInv, Charged, Resident
<1>7. WithinBudgets'
  <2>1. MaxRejects # NoLimit => report'.rejected =< MaxRejects + 1
    <3>1. BudgetHit = ""
      BY <1>1 DEF Take, Reading
    <3>2. MaxRejects # NoLimit => ~(report.rejected > MaxRejects)
      BY <3>1, RoomInEveryBudget DEF TooManyRejects
    <3>3. MaxRejects \in Nat \cup {NoLimit} /\ report.rejected \in Nat
      BY IngestAssumption DEF Optional, IInv, TypeOK, Reports
    <3> QED BY <1>3, <3>2, <3>3
  <2>2. report'.accepted =< MaxEvents
    BY <1>3 DEF IInv, WithinBudgets
  <2> QED BY <1>1, <1>4, <2>1, <2>2, TakeKeepsBudgets DEF WithinBudgets
<1>8. WithinMemory'
  BY <1>3 DEF IInv, WithinMemory
<1>9. EveryLineAccounted'
  <2>1. records' = report'.accepted + blanks' + report'.rejected
    <3>1. records = report.accepted + blanks + report.rejected
      BY <1>4 DEF IInv, EveryLineAccounted, TypeOK, Reports
    <3>2. report.accepted \in Nat /\ blanks \in Nat /\ report.rejected \in Nat
      BY DEF IInv, TypeOK, Reports
    <3>3. records' = records + 1
      BY <1>1, TakeKeepsBudgets
    <3>4. report'.accepted = report.accepted /\ report'.rejected = report.rejected + 1
      BY <1>3
    <3>5. blanks' = blanks
      BY <1>1
    <3> QED BY <3>1, <3>2, <3>3, <3>4, <3>5
  <2>2. report'.accepted \in Nat /\ blanks' \in Nat /\ report'.rejected \in Nat
    BY <1>5 DEF TypeOK, Reports
  <2> QED BY <1>3, <1>4, <2>1, <2>2 DEF EveryLineAccounted
<1>10. WholeFileOrAborted'
  BY <1>4 DEF WholeFileOrAborted
<1> QED BY <1>5, <1>6, <1>7, <1>8, <1>9, <1>10 DEF IInv

(* A blank line.                                                           *)
LEMMA SkipKeepsIInv ==
  ASSUME IInv, NEW line \in Lines, Skip(line)
  PROVE  IInv'
<1>1. Take(line) /\ report' = report /\ retained' = retained /\ blanks' = blanks + 1
  BY DEF Skip
<1>2. ~IsAborted(report) /\ pc' = "reading"
  BY <1>1, TakeGoesOn
<1>3. blanks \in Nat /\ report.accepted \in Nat /\ report.rejected \in Nat
  BY DEF IInv, TypeOK, Reports
<1>4. TypeOK'
  BY <1>1, <1>2, <1>3, TakeKeepsBudgets DEF IInv, TypeOK
<1>5. Charged'
  BY <1>1, TakeKeepsBudgets DEF IInv, Charged, Resident
<1>6. WithinBudgets'
  BY <1>1, TakeKeepsBudgets DEF IInv, WithinBudgets, IsAborted
<1>7. WithinMemory'
  BY <1>1 DEF IInv, WithinMemory
<1>8. EveryLineAccounted'
  <2>1. records = report.accepted + blanks + report.rejected
    BY <1>2, <1>3 DEF IInv, EveryLineAccounted
  <2>2. records' = report.accepted + (blanks + 1) + report.rejected
    BY <1>1, <1>3, <2>1, TakeKeepsBudgets
  <2>3. ~IsAborted(report')
    BY <1>1, <1>2 DEF IsAborted
  <2>4. Len(report'.rejects) = AtMost(report'.rejected, Keep) /\ Omitted(report') >= 0
    BY <1>1 DEF IInv, EveryLineAccounted, Omitted
  <2> QED BY <1>1, <1>3, <2>2, <2>3, <2>4 DEF EveryLineAccounted
<1>9. WholeFileOrAborted'
  BY <1>1, <1>2 DEF WholeFileOrAborted, IsAborted
<1> QED BY <1>4, <1>5, <1>6, <1>7, <1>8, <1>9 DEF IInv

(* An accepted record.                                                     *)
LEMMA AcceptKeepsIInv ==
  ASSUME IInv, NEW line \in Lines, Accept(line)
  PROVE  IInv'
<1>1. Take(line) /\ retained' = RetainedWith(line) /\ blanks' = blanks
  BY DEF Accept
<1>2. report' = [report EXCEPT !.accepted = report.accepted + 1,
                               !.resident = Resident(RetainedWith(line))]
  BY DEF Accept
<1>3. /\ report.accepted \in Nat /\ report.rejected \in Nat /\ report.resident \in Nat
      /\ blanks \in Nat
  BY DEF IInv, TypeOK, Reports
<1>4. line.text \in Nat /\ line.containers \in Nat /\ line.keys \in Nat
  BY IngestAssumption DEF LineRecords
<1>5. retained \in Amounts /\ Share(line) \in Amounts
  BY <1>4 DEF IInv, TypeOK, Amounts, Share
<1>6. RetainedWith(line) \in Amounts
  BY <1>4, <1>5 DEF RetainedWith, Amounts
<1>7. Resident(RetainedWith(line)) \in Nat
  BY <1>6, ResidentType
<1>8. report' \in Reports
  <2> DEFINE estimate == Resident(RetainedWith(line))
  <2>1. estimate \in Nat /\ report.accepted + 1 \in Nat /\ report \in Reports
    BY <1>3, <1>7 DEF IInv, TypeOK
  <2>2. report' = [report EXCEPT !.accepted = report.accepted + 1, !.resident = estimate]
    BY <1>2
  <2> HIDE DEF estimate
  <2> QED BY <2>1, <2>2 DEF Reports
<1>9. report'.accepted = report.accepted + 1
  BY <1>2 DEF IInv, TypeOK, Reports
<1>10. report'.rejected = report.rejected /\ report'.rejects = report.rejects
  BY <1>2 DEF IInv, TypeOK, Reports
<1>11. report'.resident = Resident(RetainedWith(line)) /\ report'.reason = report.reason
  BY <1>2 DEF IInv, TypeOK, Reports
<1>12. pc' = "reading" /\ ~IsAborted(report)
  BY <1>1, TakeGoesOn
<1>13. ~IsAborted(report')
  BY <1>11, <1>12 DEF IsAborted
<1>14. BudgetHit = ""
  BY <1>1 DEF Take, Reading
<1>15. TypeOK'
  BY <1>1, <1>3, <1>6, <1>8, <1>12, TakeKeepsBudgets DEF TypeOK, Amounts
<1>16. Charged'
  BY <1>1, <1>11, TakeKeepsBudgets DEF Charged, Resident
<1>17. WithinBudgets'
  <2>1. report'.accepted =< MaxEvents
    <3>1. ~(report.accepted >= MaxEvents)
      BY <1>14, RoomInEveryBudget
    <3>2. MaxEvents \in Nat
      BY IngestAssumption
    <3> QED BY <1>3, <1>9, <3>1, <3>2
  <2>2. MaxRejects # NoLimit => report'.rejected =< MaxRejects + 1
    BY <1>10, <1>12 DEF IInv, WithinBudgets
  <2> QED BY <1>1, <1>13, <2>1, <2>2, TakeKeepsBudgets DEF WithinBudgets
<1>18. WithinMemory'
  <2>1. Resident(retained) \in Nat /\ Resident(Share(line)) \in Nat
    BY <1>5, ResidentType
  <2>2. MaxResident \in Nat
    BY IngestAssumption
  <2>3. Resident(retained) < MaxResident
    <3>1. ~(Resident(retained) >= MaxResident)
      BY <1>14, RoomInEveryBudget
    <3> QED BY <2>1, <2>2, <3>1
  <2>4. Resident(RetainedWith(line)) =< Resident(retained) + Resident(Share(line))
    BY <1>5, ResidentAdds DEF RetainedWith, Share
  <2>5. report'.resident < MaxResident + Resident(Share(line))
    BY <1>7, <1>11, <2>1, <2>2, <2>3, <2>4
  <2> QED BY <2>5 DEF WithinMemory, Share
<1>19. EveryLineAccounted'
  <2>1. records = report.accepted + blanks + report.rejected
    BY <1>3, <1>12 DEF IInv, EveryLineAccounted
  <2>2. records' = report'.accepted + blanks' + report'.rejected
    <3>1. records' = records + 1
      BY <1>1, TakeKeepsBudgets
    <3>2. blanks' = blanks
      BY <1>1
    <3>3. report'.rejected = report.rejected
      BY <1>10
    <3> QED BY <1>3, <1>9, <2>1, <3>1, <3>2, <3>3
  <2>3. report'.accepted \in Nat /\ blanks' \in Nat /\ report'.rejected \in Nat
    BY <1>15 DEF TypeOK, Reports
  <2>4. Len(report'.rejects) = AtMost(report'.rejected, Keep) /\ Omitted(report') >= 0
    BY <1>10 DEF IInv, EveryLineAccounted, Omitted
  <2> QED BY <1>13, <2>2, <2>3, <2>4 DEF EveryLineAccounted
<1>20. WholeFileOrAborted'
  BY <1>12, <1>13 DEF WholeFileOrAborted
<1> QED BY <1>15, <1>16, <1>17, <1>18, <1>19, <1>20 DEF IInv

(* A read that is aborted.                                                 *)
LEMMA AbortKeepsIInv ==
  ASSUME IInv, NEW code \in BudgetCodes, pc = "reading", pc' = "done",
         report' = Aborted(report, code),
         UNCHANGED <<size, offset, records, bytes, retained, blanks>>
  PROVE  IInv'
<1> DEFINE rep == AddReject(report, code)
<1>1. code \in RejectCodes /\ code \in Reasons
  BY DEF RejectCodes, Reasons
<1>2. /\ rep \in Reports
      /\ rep.accepted = report.accepted
      /\ rep.rejected = report.rejected + 1
      /\ rep.resident = report.resident
      /\ Len(rep.rejects) = AtMost(rep.rejected, Keep)
      /\ Omitted(rep) >= 0
  BY <1>1, AddRejectCounts DEF IInv
<1>3. report' = [rep EXCEPT !.reason = code]
  BY DEF Aborted
<1> HIDE DEF rep
<1>4. report' \in Reports /\ report'.reason = code
  BY <1>1, <1>2, <1>3 DEF Reports
<1>5. report'.accepted = report.accepted /\ report'.resident = report.resident
  BY <1>2, <1>3 DEF Reports
<1>6. report'.rejected = report.rejected + 1
  BY <1>2, <1>3 DEF Reports
<1>7. report'.rejects = rep.rejects /\ report'.rejected = rep.rejected
  BY <1>2, <1>3 DEF Reports
<1>8. IsAborted(report')
  BY <1>4 DEF IsAborted, BudgetCodes
<1>9. ~IsAborted(report)
  BY DEF IInv, WholeFileOrAborted
<1>10. /\ report.accepted \in Nat /\ report.rejected \in Nat /\ records \in Nat
       /\ blanks \in Nat
  BY DEF IInv, TypeOK, Reports
<1>11. TypeOK'
  BY <1>4 DEF IInv, TypeOK
<1>12. Charged'
  BY <1>5 DEF IInv, Charged, Resident
<1>13. WithinBudgets'
  <2>1. MaxRejects # NoLimit => report.rejected =< MaxRejects + 1
    BY <1>9 DEF IInv, WithinBudgets
  <2>2. MaxRejects \in Nat \cup {NoLimit}
    BY IngestAssumption DEF Optional
  <2>3. MaxRejects # NoLimit => report'.rejected =< MaxRejects + 2
    BY <1>6, <1>10, <2>1, <2>2
  <2> QED BY <1>5, <1>8, <2>3 DEF IInv, WithinBudgets
<1>14. WithinMemory'
  BY <1>5 DEF IInv, WithinMemory
<1>15. EveryLineAccounted'
  <2>1. records = report.accepted + blanks + report.rejected
    BY <1>9, <1>10 DEF IInv, EveryLineAccounted
  <2>2. records' = report'.accepted + blanks' + report'.rejected - 1
    BY <1>5, <1>6, <1>10, <2>1
  <2>3. Len(report'.rejects) = AtMost(report'.rejected, Keep) /\ Omitted(report') >= 0
    BY <1>2, <1>7 DEF Omitted
  <2> QED BY <1>8, <2>2, <2>3 DEF EveryLineAccounted
<1>16. WholeFileOrAborted'
  BY <1>8 DEF WholeFileOrAborted
<1> QED BY <1>11, <1>12, <1>13, <1>14, <1>15, <1>16 DEF IInv

(* The end of the file.                                                    *)
LEMMA EndKeepsIInv ==
  ASSUME IInv, EndOfFile
  PROVE  IInv'
<1>1. /\ pc' = "done" /\ offset' = size' /\ size' = size /\ offset' = offset
      /\ records' = records /\ bytes' = bytes /\ blanks' = blanks
  BY DEF EndOfFile
<1>2. report' = report /\ retained' = retained
  BY DEF EndOfFile
<1>3. TypeOK' /\ Charged' /\ WithinBudgets' /\ WithinMemory'
  BY <1>1, <1>2 DEF IInv, TypeOK, Charged, Resident, WithinBudgets, IsAborted, WithinMemory
<1>4. EveryLineAccounted'
  BY <1>1, <1>2 DEF IInv, EveryLineAccounted, IsAborted, Omitted
<1>5. WholeFileOrAborted'
  BY <1>1 DEF WholeFileOrAborted
<1> QED BY <1>3, <1>4, <1>5 DEF IInv

LEMMA NextIInv == IInv /\ [Next]_vars => IInv'
<1> SUFFICES ASSUME IInv, [Next]_vars PROVE IInv'
  OBVIOUS
<1>1. CASE StopAtBudget
  <2>1. BudgetHit \in BudgetCodes
    BY <1>1, BudgetHitType DEF StopAtBudget
  <2> QED BY <1>1, <2>1, AbortKeepsIInv DEF StopAtBudget
<1>2. CASE StopAtOverBudget
  <2>1. "INPUT_BYTE_BUDGET_EXHAUSTED" \in BudgetCodes
    BY DEF BudgetCodes
  <2> QED BY <1>2, <2>1, AbortKeepsIInv DEF StopAtOverBudget, Reading
<1>3. CASE EndOfFile
  BY <1>3, EndKeepsIInv
<1>4. ASSUME NEW line \in Lines, Skip(line) \/ Refuse(line) \/ Accept(line)
      PROVE  IInv'
  BY <1>4, SkipKeepsIInv, RefuseKeepsIInv, AcceptKeepsIInv
<1>5. CASE UNCHANGED vars
  BY <1>5 DEF vars, IInv, TypeOK, Charged, Resident, WithinBudgets, IsAborted, WithinMemory,
     EveryLineAccounted, Omitted, WholeFileOrAborted
<1> QED BY <1>1, <1>2, <1>3, <1>4, <1>5 DEF Next

-----------------------------------------------------------------------------
LEMMA InductiveInvariant == Spec => []IInv
  BY InitIInv, NextIInv, PTL DEF Spec

(* Reading has the types stated, whatever the file (read_events).          *)
THEOREM Typed == Spec => []TypeOK
  BY InductiveInvariant, PTL DEF IInv

(* No read passes a budget on bytes, records, events or rejects, whatever  *)
(* the file and the bounds (_bounded_lines, _budget_hit).                  *)
THEOREM BudgetsHold == Spec => []WithinBudgets
  BY InductiveInvariant, PTL DEF IInv

(* The estimate of the memory taken passes its bound by less than one      *)
(* record (_budget_hit, resident).                                         *)
THEOREM MemoryHolds == Spec => []WithinMemory
  BY InductiveInvariant, PTL DEF IInv

(* Every line read is accounted for, with or without a row                 *)
(* (IngestReport.add_reject).                                              *)
THEOREM LinesAccounted == Spec => []EveryLineAccounted
  BY InductiveInvariant, PTL DEF IInv

(* A read that is not aborted has read the whole file (read_events).       *)
THEOREM WholeFileRead == Spec => []WholeFileOrAborted
  BY InductiveInvariant, PTL DEF IInv

(* No budget is passed by more than the one record in hand                 *)
(* (_bounded_lines, _budget_hit).                                          *)
THEOREM ReadsAreBounded == Spec => []ReadIsBounded
  BY BudgetsHold, MemoryHolds, PTL DEF ReadIsBounded

(* A read answers for every line of the file or says that it stopped       *)
(* (read_events, IngestReport.add_reject).                                 *)
THEOREM ReadsAreAccounted == Spec => []ReadIsAccounted
  BY LinesAccounted, WholeFileRead, PTL DEF ReadIsAccounted

-----------------------------------------------------------------------------
(* Grouping (Assembly).                                                    *)

(* A set of natural numbers has a least one.                               *)
LEMMA LeastOf ==
  ASSUME NEW S, S \subseteq Nat, S # {}
  PROVE  \E m \in S : \A n \in S : m =< n
<1> DEFINE below == {p \in Nat \X Nat : p[1] < p[2]}
<1>1. IsWellFoundedOn(below, Nat) BY NatLessThanWellFounded DEF OpToRel
<1> HIDE DEF below
<1>2. PICK m \in S : \A n \in S : ~(<<n, m>> \in below) BY <1>1, WFMin, Zenon
<1>3. m \in Nat OBVIOUS
<1>4. ASSUME NEW n \in S PROVE m =< n
  <2>1. n \in Nat /\ <<n, m>> \notin below BY <1>2
  <2>2. ~(n < m) BY <2>1, <1>3 DEF below
  <2>3. QED BY <2>1, <2>2, <1>3
<1>5. QED BY <1>4

-----------------------------------------------------------------------------
(* What the records say, of a file f.                                      *)

BeforeIn(f, i, j) ==
  \/ f[i].ts # NoTime /\ f[j].ts = NoTime
  \/ f[i].ts # NoTime /\ f[j].ts # NoTime /\ f[i].ts < f[j].ts
  \/ f[i].ts = f[j].ts /\ i < j

Nameless(f, i) == f[i].session = Absent /\ f[i].trace = Absent

Scoped(f, i, s) == Nameless(f, i) /\ f[i].ts # NoTime /\ f[i].scope = s

ClocksIn(f, s) == {f[i].ts : i \in {j \in DOMAIN f : Scoped(f, j, s)}}

StartsWindows(f, S, s) ==
  /\ S \subseteq ClocksIn(f, s)
  /\ \A t \in ClocksIn(f, s) : \E u \in S : u =< t /\ t - u =< Window
  /\ \A t, u \in S : t # u => t - u > Window \/ u - t > Window

StartsIn(f) == [s \in Scopes |-> CHOOSE S \in SUBSET ClocksIn(f, s) : StartsWindows(f, S, s)]

StartIn(f, i) == CHOOSE u \in StartsIn(f)[f[i].scope] : f[i].ts - u \in 0 .. Window

NameIn(f, i) == IF f[i].session # Absent THEN f[i].session ELSE f[i].trace

(* What a record is grouped by.                                            *)
LabelIn(f, i) ==
  IF ~Nameless(f, i) THEN <<"named", NameIn(f, i), 0>>
  ELSE IF f[i].scope = Absent \/ f[i].ts = NoTime THEN <<"isolated", i, 0>>
  ELSE <<"window", f[i].scope, StartIn(f, i)>>

GroupIn(f, i) == {j \in DOMAIN f : LabelIn(f, j) = LabelIn(f, i)}

AheadIn(f, i) == {j \in GroupIn(f, i) : BeforeIn(f, j, i)}

(* What the fields of a record of a file can be.                            *)
LEMMA InFile ==
  ASSUME AssemblyAssumption, NEW f \in Seq(Views), NEW i \in DOMAIN f
  PROVE  /\ Len(f) \in Nat /\ DOMAIN f = 1 .. Len(f) /\ i \in Nat
         /\ f[i].session \in Ids \cup {Absent} /\ f[i].trace \in Ids \cup {Absent}
         /\ f[i].scope \in Scopes \cup {Absent}
         /\ f[i].ts \in Nat \ {0} \/ f[i].ts = NoTime
         /\ f[i].ts # NoTime => f[i].ts \in Nat
         /\ ~Nameless(f, i) => NameIn(f, i) \in Ids
<1>1. f[i] \in Views OBVIOUS
<1>2. QED BY <1>1 DEF Views, Nameless, NameIn

(* The clock order is a strict total order of the events.                  *)
LEMMA ClockOrder ==
  ASSUME AssemblyAssumption, NEW f \in Seq(Views)
  PROVE  \A i, j, k \in DOMAIN f :
           /\ ~BeforeIn(f, i, i)
           /\ ~(BeforeIn(f, i, j) /\ BeforeIn(f, j, i))
           /\ BeforeIn(f, i, j) /\ BeforeIn(f, j, k) => BeforeIn(f, i, k)
           /\ i # j => BeforeIn(f, i, j) \/ BeforeIn(f, j, i)
<1> TAKE i, j, k \in DOMAIN f
<1>1. i \in Nat /\ j \in Nat /\ k \in Nat BY InFile
<1>2. /\ f[i].ts # NoTime => f[i].ts \in Nat
      /\ f[j].ts # NoTime => f[j].ts \in Nat
      /\ f[k].ts # NoTime => f[k].ts \in Nat
  BY InFile
<1>3. QED BY <1>1, <1>2 DEF BeforeIn

(* A set of events that is not empty has one before all others.             *)
LEMMA FirstExists ==
  ASSUME AssemblyAssumption, NEW f \in Seq(Views), NEW T, T \subseteq DOMAIN f, T # {}
  PROVE  \E i \in T : \A j \in T \ {i} : BeforeIn(f, i, j)
<1> DEFINE HasFirst(S) == \E i \in S : \A j \in S \ {i} : BeforeIn(f, i, j)
           bad == {n \in Nat : \E S \in SUBSET T : S # {} /\ S \subseteq 1 .. n /\ ~HasFirst(S)}
<1>1. Len(f) \in Nat /\ DOMAIN f = 1 .. Len(f) OBVIOUS
<1>2. SUFFICES ASSUME ~HasFirst(T) PROVE FALSE OBVIOUS
<1>3. Len(f) \in bad BY <1>1, <1>2
<1> HIDE DEF HasFirst
<1>4. PICK m \in bad : \A n \in bad : m =< n
  <2>1. bad \subseteq Nat OBVIOUS
  <2> HIDE DEF bad
  <2>2. QED BY <2>1, <1>3, LeastOf
<1>5. PICK S \in SUBSET T : S # {} /\ S \subseteq 1 .. m /\ ~HasFirst(S) BY <1>4
<1>6. m \in S /\ m - 1 \in Nat
  <2>1. m \in Nat BY <1>4
  <2>2. m # 0 BY <1>5
  <2>3. m - 1 \in Nat /\ m - 1 \notin bad BY <2>1, <2>2, <1>4
  <2>4. ~(S \subseteq 1 .. m - 1) BY <2>3, <1>5
  <2>5. QED BY <2>1, <2>3, <2>4, <1>5
<1>7. S \ {m} # {} BY <1>5, <1>6 DEF HasFirst
<1>8. m - 1 \notin bad
  <2>1. m \in Nat /\ \A n \in bad : m =< n BY <1>4
  <2>2. QED BY <2>1, <1>6
<1>9. S \ {m} \subseteq 1 .. m - 1 BY <1>4, <1>5
<1>10. HasFirst(S \ {m}) BY <1>6, <1>7, <1>8, <1>9
<1>11. PICK i \in S \ {m} : \A j \in (S \ {m}) \ {i} : BeforeIn(f, i, j) BY <1>10 DEF HasFirst
<1>12. i \in DOMAIN f /\ m \in DOMAIN f /\ S \subseteq DOMAIN f BY <1>6
<1>13. CASE BeforeIn(f, i, m) BY <1>5, <1>11, <1>13 DEF HasFirst
<1>14. CASE BeforeIn(f, m, i)
  <2>1. \A j \in S \ {m} : BeforeIn(f, m, j)
    <3> TAKE j \in S \ {m}
    <3>1. CASE j = i BY <3>1, <1>14
    <3>2. CASE j # i BY <3>2, <1>11, <1>12, <1>14, ClockOrder
    <3>3. QED BY <3>1, <3>2
  <2>2. QED BY <2>1, <1>5, <1>6 DEF HasFirst
<1>15. QED BY <1>11, <1>12, <1>13, <1>14, ClockOrder

(* Clocks that are bounded have window starts: each the first that is more *)

(* than a window after the one before.                                     *)
LEMMA Greedy ==
  ASSUME NEW C, C \subseteq Nat, NEW W \in Nat, NEW B \in Nat, \A t \in C : t =< B
  PROVE  \E S \in SUBSET C :
           /\ \A t \in C : \E u \in S : u =< t /\ t - u =< W
           /\ \A t, u \in S : t # u => t - u > W \/ u - t > W
<1> DEFINE Upto(n) == {t \in C : t =< n}
           Fits(S, n) == /\ \A t \in Upto(n) : \E u \in S : u =< t /\ t - u =< W
                         /\ \A t, u \in S : t # u => t - u > W \/ u - t > W
           bad == {n \in Nat : ~\E S \in SUBSET Upto(n) : Fits(S, n)}
<1>5. \A t \in C : t \in Nat OBVIOUS
<1>1. bad = {}
  <2>1. SUFFICES ASSUME bad # {} PROVE FALSE OBVIOUS
  <2>2. bad \subseteq Nat OBVIOUS
  <2>3. PICK m \in bad : \A n \in bad : m =< n
    <3> HIDE DEF bad
    <3>1. QED BY <2>1, <2>2, LeastOf
  <2>4. m \in Nat BY <2>3
  <2>5. CASE m = 0
    <3>1. Upto(0) \in SUBSET Upto(0) /\ \A t \in Upto(0) : t = 0 BY <1>5
    <3>2. Fits(Upto(0), 0) BY <3>1
    <3>3. QED BY <3>1, <3>2, <2>3, <2>5
  <2>6. CASE m # 0
    <3>1. m - 1 \in Nat /\ m - 1 \notin bad BY <2>3, <2>4, <2>6
    <3>2. PICK S \in SUBSET Upto(m - 1) : Fits(S, m - 1) BY <3>1
    <3>3. /\ \A t \in Upto(m) : t \in Upto(m - 1) \/ t = m
          /\ Upto(m - 1) \subseteq Upto(m)
      <4>1. \A t \in C : (t =< m) <=> (t =< m - 1 \/ t = m) BY <1>5, <2>4
      <4>2. QED BY <4>1
    <3>4. S \subseteq Nat /\ \A u \in S : u =< m - 1 BY <1>5
    <3>5. CASE m \notin C \/ \E u \in S : m - u =< W
      <4>1. Fits(S, m) BY <3>2, <3>3, <3>4, <3>5, <2>4
      <4>2. QED BY <4>1, <3>3, <2>3
    <3>6. CASE m \in C /\ \A u \in S : m - u > W
      <4>1. S \cup {m} \in SUBSET Upto(m) BY <3>3, <3>6, <2>4
      <4>2. Fits(S \cup {m}, m)
        <5>1. \A t \in Upto(m) : \E u \in S \cup {m} : u =< t /\ t - u =< W
          BY <3>2, <3>3, <2>4
        <5>2. \A t, u \in S \cup {m} : t # u => t - u > W \/ u - t > W
          BY <3>2, <3>6
        <5>3. QED BY <5>1, <5>2
      <4>3. QED BY <4>1, <4>2, <2>3
    <3>7. QED BY <3>5, <3>6, <3>4, <2>4
  <2>7. QED BY <2>5, <2>6
<1>2. B \notin bad BY <1>1
<1>3. PICK S \in SUBSET Upto(B) : Fits(S, B) BY <1>2
<1>4. Upto(B) = C OBVIOUS
<1>6. QED BY <1>3, <1>4

(* Finitely many clocks are bounded.                                       *)
LEMMA Bounded ==
  ASSUME NEW N \in Nat, NEW g, \A i \in 1 .. N : g[i] \in Nat
  PROVE  \E B \in Nat : \A i \in 1 .. N : g[i] =< B
<1> DEFINE Bound(n) == \E B \in Nat : \A i \in 1 .. n : g[i] =< B
           bad == {n \in 0 .. N : ~Bound(n)}
<1>1. SUFFICES ASSUME N \in bad PROVE FALSE OBVIOUS
<1>2. bad \subseteq Nat OBVIOUS
<1>3. PICK m \in bad : \A n \in bad : m =< n
  <2> HIDE DEF bad
  <2>1. bad # {} BY <1>1
  <2>2. QED BY <2>1, <1>2, LeastOf
<1>4. m \in 0 .. N /\ ~Bound(m) BY <1>3
<1>5. Bound(0) OBVIOUS
<1>6. m - 1 \in 0 .. N /\ m - 1 \notin bad
  <2>1. m # 0 BY <1>4, <1>5
  <2>2. m - 1 \in 0 .. N /\ ~(m =< m - 1) BY <2>1, <1>4
  <2>3. QED BY <2>2, <1>3
<1>7. PICK B \in Nat : \A i \in 1 .. m - 1 : g[i] =< B BY <1>6
<1>8. g[m] \in Nat /\ \A i \in 1 .. m : i \in 1 .. m - 1 \/ i = m BY <1>4, <1>6
<1>9. \A i \in 1 .. m : g[i] =< B + g[m]
  <2> TAKE i \in 1 .. m
  <2>1. CASE i = m BY <2>1, <1>7, <1>8
  <2>2. CASE i \in 1 .. m - 1
    <3>1. g[i] \in Nat /\ g[i] =< B BY <2>2, <1>4, <1>7
    <3>2. QED BY <3>1, <1>7, <1>8
  <2>3. QED BY <2>1, <2>2, <1>8
<1>10. B + g[m] \in Nat BY <1>7, <1>8
<1>11. QED BY <1>4, <1>9, <1>10

(* The starts chosen for a scope are starts of windows: there are some.     *)
LEMMA StartsFit ==
  ASSUME AssemblyAssumption, NEW f \in Seq(Views), NEW s \in Scopes
  PROVE  StartsWindows(f, StartsIn(f)[s], s)
<1> DEFINE C == ClocksIn(f, s)
           g == [i \in DOMAIN f |-> IF f[i].ts = NoTime THEN 0 ELSE f[i].ts]
<1>1. \A i \in DOMAIN f : g[i] \in Nat BY InFile
<1>2. Len(f) \in Nat /\ DOMAIN f = 1 .. Len(f) OBVIOUS
<1>3. PICK B \in Nat : \A i \in DOMAIN f : g[i] =< B
  <2> HIDE DEF g
  <2>1. QED BY <1>1, <1>2, Bounded
<1>4. \A t \in C : t \in Nat /\ t =< B
  <2> TAKE t \in C
  <2>1. PICK i \in DOMAIN f : Scoped(f, i, s) /\ t = f[i].ts BY DEF ClocksIn
  <2>2. t = g[i] BY <2>1 DEF Scoped
  <2>3. QED BY <2>2, <1>1, <1>3
<1>5. Window \in Nat BY DEF AssemblyAssumption
<1> HIDE DEF C, g
<1>6. PICK S \in SUBSET C :
        /\ \A t \in C : \E u \in S : u =< t /\ t - u =< Window
        /\ \A t, u \in S : t # u => t - u > Window \/ u - t > Window
  <2>1. C \subseteq Nat BY <1>4
  <2>2. QED BY <2>1, <1>3, <1>4, <1>5, Greedy
<1>7. StartsWindows(f, S, s) /\ S \in SUBSET ClocksIn(f, s) BY <1>6 DEF StartsWindows, C
<1>8. StartsIn(f)[s] = CHOOSE T \in SUBSET ClocksIn(f, s) : StartsWindows(f, T, s)
  BY DEF StartsIn
<1>9. QED BY <1>7, <1>8

(* The start of a record's window is the only one its clock is in.         *)
LEMMA StartFits ==
  ASSUME AssemblyAssumption, NEW f \in Seq(Views), NEW i \in DOMAIN f, NEW s \in Scopes,
         Scoped(f, i, s)
  PROVE  /\ StartIn(f, i) \in StartsIn(f)[s] /\ StartIn(f, i) \in Nat
         /\ f[i].ts - StartIn(f, i) \in 0 .. Window
         /\ \A v \in StartsIn(f)[s] : f[i].ts - v \in 0 .. Window => v = StartIn(f, i)
<1> DEFINE S == StartsIn(f)[s]
           u == StartIn(f, i)
<1>1. StartsWindows(f, S, s) BY StartsFit
<1>2. Window \in Nat BY DEF AssemblyAssumption
<1>3. \A t \in ClocksIn(f, s) : t \in Nat BY InFile DEF ClocksIn, Scoped
<1>4. S \subseteq ClocksIn(f, s) BY <1>1 DEF StartsWindows
<1>5. f[i].ts \in ClocksIn(f, s) BY DEF ClocksIn
<1> HIDE DEF S
<1>6. PICK v \in S : v =< f[i].ts /\ f[i].ts - v =< Window BY <1>1, <1>5 DEF StartsWindows
<1>7. f[i].ts - v \in 0 .. Window BY <1>2, <1>3, <1>4, <1>5, <1>6
<1>8. u \in S /\ f[i].ts - u \in 0 .. Window
  <2>1. f[i].scope = s BY DEF Scoped
  <2>2. u = CHOOSE w \in S : f[i].ts - w \in 0 .. Window BY <2>1 DEF StartIn, S
  <2>3. QED BY <2>2, <1>7
<1>9. u \in Nat BY <1>3, <1>4, <1>8
<1>10. ASSUME NEW w \in S, f[i].ts - w \in 0 .. Window PROVE w = u
  <2>1. w \in Nat /\ u \in Nat /\ f[i].ts \in Nat BY <1>3, <1>4, <1>5, <1>9
  <2>2. ~(w - u > Window) /\ ~(u - w > Window) BY <2>1, <1>2, <1>8, <1>10
  <2>3. QED BY <2>2, <1>1, <1>8 DEF StartsWindows
<1>11. QED BY <1>8, <1>9, <1>10 DEF S

(* What a record is grouped by is one of three things.                      *)
LEMMA Labelled ==
  ASSUME AssemblyAssumption, NEW f \in Seq(Views), NEW i \in DOMAIN f
  PROVE  \/ ~Nameless(f, i) /\ LabelIn(f, i) = <<"named", NameIn(f, i), 0>>
         \/ /\ Nameless(f, i) /\ (f[i].scope = Absent \/ f[i].ts = NoTime)
            /\ LabelIn(f, i) = <<"isolated", i, 0>>
         \/ /\ f[i].scope \in Scopes /\ Scoped(f, i, f[i].scope)
            /\ f[i].scope # Absent
            /\ LabelIn(f, i) = <<"window", f[i].scope, StartIn(f, i)>>
BY InFile DEF LabelIn, Scoped

(* Who is grouped with a record.                                           *)
LEMMA SameLabel ==
  ASSUME AssemblyAssumption, NEW f \in Seq(Views), NEW i \in DOMAIN f, NEW j \in DOMAIN f
  PROVE  /\ ~Nameless(f, i) =>
              ((LabelIn(f, j) = LabelIn(f, i)) <=> (~Nameless(f, j) /\ NameIn(f, j) = NameIn(f, i)))
         /\ Nameless(f, i) /\ (f[i].scope = Absent \/ f[i].ts = NoTime) =>
              ((LabelIn(f, j) = LabelIn(f, i)) <=> (j = i))
         /\ \A s \in Scopes : Scoped(f, i, s) =>
              ((LabelIn(f, j) = LabelIn(f, i)) <=>
                 (Scoped(f, j, s) /\ f[j].ts - StartIn(f, i) \in 0 .. Window))
<1>1. "named" # "isolated" /\ "named" # "window" /\ "isolated" # "window" OBVIOUS
<1>2. CASE ~Nameless(f, i)
  <2>1. LabelIn(f, i) = <<"named", NameIn(f, i), 0>> BY <1>2 DEF LabelIn
  <2>2. QED BY <1>1, <1>2, <2>1, Labelled DEF Scoped
<1>3. CASE Nameless(f, i) /\ (f[i].scope = Absent \/ f[i].ts = NoTime)
  <2>1. LabelIn(f, i) = <<"isolated", i, 0>> BY <1>3 DEF LabelIn
  <2>2. \A s \in Scopes : ~Scoped(f, i, s) BY <1>3 DEF Scoped, AssemblyAssumption
  <2>3. (LabelIn(f, j) = LabelIn(f, i)) <=> (j = i) BY <1>1, <2>1, Labelled
  <2>4. QED BY <1>3, <2>2, <2>3
<1>4. ASSUME NEW s \in Scopes, Scoped(f, i, s)
      PROVE  (LabelIn(f, j) = LabelIn(f, i)) <=>
               (Scoped(f, j, s) /\ f[j].ts - StartIn(f, i) \in 0 .. Window)
  <2>1. Nameless(f, i) /\ f[i].scope = s /\ f[i].ts # NoTime /\ s # Absent
    BY <1>4 DEF Scoped, AssemblyAssumption
  <2>2. LabelIn(f, i) = <<"window", s, StartIn(f, i)>> BY <2>1 DEF LabelIn
  <2>3. ASSUME LabelIn(f, j) = LabelIn(f, i)
        PROVE  Scoped(f, j, s) /\ f[j].ts - StartIn(f, i) \in 0 .. Window
    <3>1. Scoped(f, j, s) /\ StartIn(f, j) = StartIn(f, i) BY <1>1, <2>2, <2>3, Labelled
    <3>2. QED BY <3>1, StartFits
  <2>4. ASSUME Scoped(f, j, s), f[j].ts - StartIn(f, i) \in 0 .. Window
        PROVE  LabelIn(f, j) = LabelIn(f, i)
    <3>1. StartIn(f, i) \in StartsIn(f)[s] BY <1>4, StartFits
    <3>2. StartIn(f, i) = StartIn(f, j) BY <2>4, <3>1, StartFits
    <3>3. Nameless(f, j) /\ f[j].scope = s /\ f[j].ts # NoTime BY <2>4 DEF Scoped
    <3>4. QED BY <2>1, <2>2, <3>2, <3>3 DEF LabelIn
  <2>5. QED BY <2>3, <2>4
<1>5. QED
  <2>1. CASE \E s \in Scopes : Scoped(f, i, s)
    <3>1. Nameless(f, i) /\ f[i].scope # Absent /\ f[i].ts # NoTime
      BY <2>1 DEF Scoped, AssemblyAssumption
    <3>2. QED BY <3>1, <1>4
  <2>2. CASE ~\E s \in Scopes : Scoped(f, i, s) BY <2>2, <1>2, <1>3, InFile DEF Scoped
  <2>3. QED BY <2>1, <2>2
-----------------------------------------------------------------------------
(* The same of the events at hand.                                         *)

Lab(i)  == LabelIn(incoming, i)
Placed  == Arrivals \ left
Lead(b) == buckets[b].events[1]

(* What the module says of the events at hand is what is said here of a     *)

(* file.                                                                    *)
LEMMA AsSaid ==
  ASSUME AssemblyAssumption, incoming \in Seq(Views)
  PROVE  /\ Starts = StartsIn(incoming)
         /\ \A i, j \in Arrivals : Before(i, j) <=> BeforeIn(incoming, i, j)
         /\ \A i \in Arrivals : /\ Anonymous(Rv(i)) <=> Nameless(incoming, i)
                                /\ ProducerKey(i) = NameIn(incoming, i)
                                /\ \A s : InScope(i, s) <=> Scoped(incoming, i, s)
<1>1. Starts = StartsIn(incoming)
  BY DEF Starts, StartsIn, ScopeClocks, ClocksIn, IsStarts, StartsWindows, InScope, Scoped,
         Anonymous, Nameless, HasClock, Rv, Arrivals
<1>2. \A i, j \in Arrivals : Before(i, j) <=> BeforeIn(incoming, i, j)
  BY DEF Before, BeforeIn, HasClock, Rv
<1>3. \A i \in Arrivals : /\ Anonymous(Rv(i)) <=> Nameless(incoming, i)
                          /\ ProducerKey(i) = NameIn(incoming, i)
                          /\ \A s : InScope(i, s) <=> Scoped(incoming, i, s)
  BY DEF Anonymous, Nameless, ProducerKey, NameIn, InScope, Scoped, HasClock, Rv
<1>4. QED BY <1>1, <1>2, <1>3

(* The groups are those of the labels.                                     *)
LEMMA GroupsAre ==
  ASSUME AssemblyAssumption, incoming \in Seq(Views)
  PROVE  Groups = {GroupIn(incoming, i) : i \in Arrivals}
<1> DEFINE starts == Starts
           f == incoming
           G(i) == GroupIn(f, i)
           named == {{i \in Arrivals : ~Anonymous(Rv(i)) /\ ProducerKey(i) = k} : k \in Ids}
           windowed == UNION {{{i \in Arrivals : InScope(i, s) /\ Rv(i).ts - u \in 0 .. Window} :
                                 u \in starts[s]} : s \in Scopes}
           isolated == {{i} : i \in {j \in Arrivals : Anonymous(Rv(j)) /\ Isolated(Rv(j))}}
<1>1. Groups = (named \cup windowed \cup isolated) \ {{}} BY DEF Groups
<1>2. \A i \in Arrivals : i \in G(i) BY DEF GroupIn, Arrivals
<1>3. ASSUME NEW i \in Arrivals, ~Nameless(f, i)
      PROVE  G(i) = {j \in Arrivals : ~Anonymous(Rv(j)) /\ ProducerKey(j) = NameIn(f, i)}
  BY <1>3, SameLabel, AsSaid DEF GroupIn, Arrivals
<1>4. ASSUME NEW i \in Arrivals, NEW s \in Scopes, Scoped(f, i, s)
      PROVE  G(i) = {j \in Arrivals : InScope(j, s) /\ Rv(j).ts - StartIn(f, i) \in 0 .. Window}
  BY <1>4, SameLabel, AsSaid DEF GroupIn, Arrivals, Rv
<1>5. ASSUME NEW i \in Arrivals, Nameless(f, i), f[i].scope = Absent \/ f[i].ts = NoTime
      PROVE  G(i) = {i}
  BY <1>5, SameLabel DEF GroupIn, Arrivals
<1>6. ASSUME NEW i \in Arrivals PROVE G(i) \in Groups
  <2>1. CASE ~Nameless(f, i)
    <3>1. NameIn(f, i) \in Ids BY <2>1, InFile DEF Arrivals
    <3>2. G(i) \in named BY <2>1, <3>1, <1>3
    <3>3. QED BY <3>2, <1>1, <1>2
  <2>2. CASE f[i].scope \in Scopes /\ Scoped(f, i, f[i].scope)
    <3>1. StartIn(f, i) \in starts[f[i].scope] BY <2>2, StartFits, AsSaid DEF Arrivals
    <3>2. G(i) \in windowed BY <2>2, <3>1, <1>4
    <3>3. QED BY <3>2, <1>1, <1>2
  <2>3. CASE Nameless(f, i) /\ (f[i].scope = Absent \/ f[i].ts = NoTime)
    <3>1. Anonymous(Rv(i)) /\ Isolated(Rv(i)) BY <2>3, AsSaid DEF Isolated, Rv
    <3>2. G(i) \in isolated BY <2>3, <3>1, <1>5
    <3>3. QED BY <3>2, <1>1, <1>2
  <2>4. QED BY <2>1, <2>2, <2>3, Labelled DEF Arrivals
<1>7. ASSUME NEW g \in Groups PROVE \E i \in Arrivals : g = G(i)
  <2>1. g # {} /\ (g \in named \/ g \in windowed \/ g \in isolated) BY <1>1
  <2>2. CASE g \in named
    <3>1. PICK k \in Ids : g = {i \in Arrivals : ~Anonymous(Rv(i)) /\ ProducerKey(i) = k}
      BY <2>2
    <3>2. PICK i \in g : i \in Arrivals /\ ~Anonymous(Rv(i)) /\ ProducerKey(i) = k
      BY <2>1, <3>1
    <3>3. ~Nameless(f, i) /\ NameIn(f, i) = k BY <3>2, AsSaid
    <3>4. g = G(i) BY <3>1, <3>2, <3>3, <1>3
    <3>5. QED BY <3>2, <3>4
  <2>3. CASE g \in windowed
    <3>1. PICK s \in Scopes : \E u \in starts[s] :
            g = {i \in Arrivals : InScope(i, s) /\ Rv(i).ts - u \in 0 .. Window}
      BY <2>3
    <3>2. PICK u \in starts[s] :
            g = {i \in Arrivals : InScope(i, s) /\ Rv(i).ts - u \in 0 .. Window}
      BY <3>1
    <3>3. PICK i \in g : i \in Arrivals /\ InScope(i, s) /\ Rv(i).ts - u \in 0 .. Window
      BY <2>1, <3>2
    <3>4. Scoped(f, i, s) /\ u \in StartsIn(f)[s] /\ f[i].ts - u \in 0 .. Window
      BY <3>3, AsSaid DEF Rv
    <3>5. u = StartIn(f, i) BY <3>3, <3>4, StartFits DEF Arrivals
    <3>6. g = G(i) BY <3>2, <3>3, <3>4, <3>5, <1>4
    <3>7. QED BY <3>3, <3>6
  <2>4. CASE g \in isolated
    <3>1. PICK i \in Arrivals : Anonymous(Rv(i)) /\ Isolated(Rv(i)) /\ g = {i} BY <2>4
    <3>2. Nameless(f, i) /\ (f[i].scope = Absent \/ f[i].ts = NoTime)
      BY <3>1, AsSaid DEF Isolated, Rv
    <3>3. QED BY <3>1, <3>2, <1>5
  <2>5. QED BY <2>1, <2>2, <2>3, <2>4
<1>8. QED BY <1>6, <1>7

(* The first of a group, if there is one before all others of it.          *)
LEMMA FirstIs ==
  ASSUME AssemblyAssumption, incoming \in Seq(Views), NEW g, g \subseteq Arrivals, NEW i \in g,
         \A j \in g \ {i} : BeforeIn(incoming, i, j)
  PROVE  FirstOf(g) = i
<1>1. \A j \in g \ {i} : Before(i, j) BY AsSaid
<1>2. FirstOf(g) \in g /\ \A j \in g \ {FirstOf(g)} : Before(FirstOf(g), j)
  BY <1>1 DEF FirstOf
<1>3. FirstOf(g) # i => Before(FirstOf(g), i) /\ Before(i, FirstOf(g)) BY <1>1, <1>2
<1>4. i \in Arrivals /\ FirstOf(g) \in Arrivals BY <1>2
<1>5. QED BY <1>3, <1>4, AsSaid, ClockOrder DEF Arrivals

-----------------------------------------------------------------------------
(* The invariant.                                                          *)

KeyValues == Ids \cup ((Scopes \cup {"isolated"}) \X Nat)

KeyKinds == {"session_id", "trace_id", "isolated_anonymous", "scoped_anonymous"}

BucketRecords == [key : KeyValues, kind : KeyKinds, events : Seq(Arrivals)]

(* The key that a bucket led by an event has, n ordinals given out.        *)
KeyIn(f, n, i, key) ==
  /\ ~Nameless(f, i) => key = NameIn(f, i)
  /\ Nameless(f, i) /\ (f[i].scope = Absent \/ f[i].ts = NoTime) =>
       \E m \in 1 .. n : key = <<"isolated", m>>
  /\ \A s \in Scopes : Scoped(f, i, s) => key = <<s, StartIn(f, i) \div Window>>

InScopePlaced(s) == {i \in Placed : Scoped(incoming, i, s)}

(* A window began at the last start there has been.                        *)
WindowsKept ==
  \A s \in Scopes : LET w == windowStart[s] IN
    /\ (w = NoTime) <=> (InScopePlaced(s) = {})
    /\ w # NoTime =>
         /\ w \in StartsIn(incoming)[s]
         /\ \E i \in InScopePlaced(s) : incoming[i].ts = w
         /\ \A i \in InScopePlaced(s) :
              incoming[i].ts \in StartsIn(incoming)[s] => incoming[i].ts =< w

(* Of the events placed, es are the first of the group of their first one, *)
(* as many as a session has room for.                                      *)
HoldsIn(f, placed, n, es, key) ==
  /\ Len(es) \in 1 .. MaxEventsPerSession
  /\ \A m \in DOMAIN es : es[m] \in placed
  /\ \A m, k \in DOMAIN es : es[m] = es[k] => m = k
  /\ \A i \in Range(es) : /\ LabelIn(f, i) = LabelIn(f, es[1])
                          /\ Cardinality(AheadIn(f, i)) < MaxEventsPerSession
  /\ \A i \in placed : LabelIn(f, i) = LabelIn(f, es[1]) =>
       /\ i # es[1] => BeforeIn(f, es[1], i)
       /\ i \notin Range(es) => /\ Len(es) >= MaxEventsPerSession
                                /\ Cardinality(AheadIn(f, i)) >= MaxEventsPerSession
  /\ KeyIn(f, n, es[1], key)

BucketOK(b) == HoldsIn(incoming, Placed, ordinal, buckets[b].events, buckets[b].key)

BucketsInOrder ==
  \A b, c \in DOMAIN buckets : b < c =>
    Lab(Lead(b)) # Lab(Lead(c)) /\ BeforeIn(incoming, Lead(b), Lead(c))

(* An event without a bucket came after every bucket there was room for.   *)
OnlyLaterLeftOut ==
  \A i \in Placed :
    \/ \E b \in DOMAIN buckets : Lab(Lead(b)) = Lab(i)
    \/ /\ Len(buckets) >= MaxSessions
       /\ \A b \in DOMAIN buckets : BeforeIn(incoming, Lead(b), i)

LeftOut == {i \in Placed : \A b \in DOMAIN buckets : i \notin Range(buckets[b].events)}

Ended ==
  /\ stage = "place" => aborted = ""
  /\ stage = "done" =>
       /\ left = {} /\ observed = Observe
       /\ (aborted # "") <=> (dropped.sessions + dropped.events > 0)

AssemblyInv ==
  /\ AssemblyTypeOK
  /\ buckets \in Seq(BucketRecords)
  /\ \A i \in Placed, j \in left : BeforeIn(incoming, i, j)
  /\ WindowsKept
  /\ ordinal =< Cardinality(Placed)
  /\ \A b \in DOMAIN buckets : BucketOK(b)
  /\ BucketsInOrder /\ OnlyLaterLeftOut
  /\ dropped.sessions + dropped.events = Cardinality(LeftOut)
  /\ Ended
-----------------------------------------------------------------------------
(* Placing one event: the next one in clock order, i.                      *)

(* What every step keeps, and what it is to be the next event.             *)
LEMMA NextEvent ==
  ASSUME AssemblyAssumption, AssemblyInv, NEW i \in left, Key(i)
  PROVE  /\ incoming \in Seq(Views) /\ incoming' = incoming /\ i \in Arrivals /\ i \notin Placed
         /\ left' = left \ {i} /\ Placed' = Placed \cup {i} /\ left' \subseteq Arrivals
         /\ stage = "place" /\ UNCHANGED <<observed, aborted, stage>>
         /\ \A j \in Placed : BeforeIn(incoming, j, i)
         /\ \A j \in left \ {i} : BeforeIn(incoming, i, j)
         /\ \A j \in Placed', k \in left' : BeforeIn(incoming, j, k)
         /\ \A j \in Arrivals : BeforeIn(incoming, j, i) => j \in Placed
         /\ AheadIn(incoming, i) = {j \in Placed : Lab(j) = Lab(i)}
         /\ IsFiniteSet(Placed) /\ Cardinality(Placed') = Cardinality(Placed) + 1
         /\ Cardinality(Placed) \in Nat
<1>1. incoming \in Seq(Views) /\ left \subseteq Arrivals BY DEF AssemblyInv, AssemblyTypeOK
<1>2. /\ stage = "place" /\ Earliest(i) /\ left' = left \ {i}
      /\ UNCHANGED <<incoming, observed, aborted, stage>>
  BY DEF Key
<1>3. i \in Arrivals /\ i \notin Placed /\ left' \subseteq Arrivals
  BY <1>1, <1>2 DEF Placed
<1>4. Placed' = Placed \cup {i} BY <1>1, <1>2, <1>3 DEF Placed, Arrivals
<1>5. \A j \in Placed : BeforeIn(incoming, j, i) BY DEF AssemblyInv
<1>6. \A j \in left \ {i} : BeforeIn(incoming, i, j)
  BY <1>1, <1>2, AsSaid DEF Earliest
<1>7. \A j \in Placed', k \in left' : BeforeIn(incoming, j, k)
  BY <1>2, <1>4, <1>6 DEF AssemblyInv
<1>8. ASSUME NEW j \in Arrivals, BeforeIn(incoming, j, i) PROVE j \in Placed
  <2>1. j # i /\ ~BeforeIn(incoming, i, j) BY <1>1, <1>3, <1>8, ClockOrder DEF Arrivals
  <2>2. QED BY <2>1, <1>6 DEF Placed
<1>9. AheadIn(incoming, i) = {j \in Placed : Lab(j) = Lab(i)}
  BY <1>5, <1>8 DEF AheadIn, GroupIn, Lab, Placed, Arrivals
<1>10. IsFiniteSet(Placed)
  <2>1. Arrivals = 1 .. Len(incoming) /\ Len(incoming) \in Int /\ 1 \in Int
    BY <1>1 DEF Arrivals
  <2>2. IsFiniteSet(Arrivals) BY <2>1, FS_Interval
  <2>3. Placed \in SUBSET Arrivals BY DEF Placed
  <2>4. QED BY <2>2, <2>3, FS_Subset
<1>11. Cardinality(Placed') = Cardinality(Placed) + 1
  BY <1>3, <1>4, <1>10, FS_AddElement
<1>12. Cardinality(Placed) \in Nat BY <1>10, FS_CardinalityType
<1>13. QED BY <1>1, <1>2, <1>3, <1>4, <1>5, <1>6, <1>7, <1>8, <1>9, <1>10, <1>11, <1>12

(* The window of the next event is the one its clock is in.                *)
LEMMA NextWindow ==
  ASSUME AssemblyAssumption, AssemblyInv, NEW i \in left, Key(i), NEW s \in Scopes,
         Scoped(incoming, i, s)
  PROVE  /\ StartFor(Rv(i)) = StartIn(incoming, i)
         /\ StartIn(incoming, i) \in StartsIn(incoming)[s]
         /\ \E k \in InScopePlaced(s) \cup {i} : incoming[k].ts = StartIn(incoming, i)
         /\ \A k \in InScopePlaced(s) \cup {i} :
              incoming[k].ts \in StartsIn(incoming)[s] =>
                incoming[k].ts =< StartIn(incoming, i)
<1> DEFINE f == incoming
           t == f[i].ts
           u == StartIn(f, i)
           w == windowStart[s]
           C == InScopePlaced(s)
           S == StartsIn(f)[s]
<1>1. /\ f \in Seq(Views) /\ i \in Arrivals
      /\ \A j \in Placed : BeforeIn(f, j, i)
      /\ \A j \in Arrivals : BeforeIn(f, j, i) => j \in Placed
  BY NextEvent
<1>2. t \in Nat /\ t # NoTime /\ f[i].scope = s /\ Window \in Nat
  BY <1>1, InFile DEF Scoped, Arrivals, AssemblyAssumption
<1>3. u \in S /\ u \in Nat /\ t - u \in 0 .. Window
      /\ \A v \in S : t - v \in 0 .. Window => v = u
  BY <1>1, StartFits DEF Arrivals
<1>4. \A k \in C : k \in Arrivals /\ Scoped(f, k, s) /\ f[k].ts \in Nat /\ f[k].ts =< t
  <2> TAKE k \in C
  <2>1. k \in Placed /\ k \in Arrivals /\ Scoped(f, k, s) BY DEF InScopePlaced, Placed
  <2>2. f[k].ts # NoTime /\ f[k].ts \in Nat BY <2>1, <1>1, InFile DEF Scoped, Arrivals
  <2>3. BeforeIn(f, k, i) BY <2>1, <1>1
  <2>4. QED BY <2>1, <2>2, <2>3, <1>2 DEF BeforeIn
<1>5. /\ (w = NoTime) <=> (C = {})
      /\ w # NoTime => /\ w \in S /\ \E k \in C : f[k].ts = w
                       /\ \A k \in C : f[k].ts \in S => f[k].ts =< w
  BY DEF AssemblyInv, WindowsKept
<1>6. u < t => \E k \in C : f[k].ts = u
  <2> SUFFICES ASSUME u < t PROVE \E k \in C : f[k].ts = u OBVIOUS
  <2>1. u \in ClocksIn(f, s) BY <1>1, <1>3, StartsFit DEF StartsWindows
  <2>2. PICK k \in Arrivals : Scoped(f, k, s) /\ f[k].ts = u BY <2>1 DEF ClocksIn, Arrivals
  <2>3. BeforeIn(f, k, i) BY <2>2, <1>2 DEF BeforeIn, Scoped
  <2>4. k \in C BY <2>2, <2>3, <1>1 DEF InScopePlaced
  <2>5. QED BY <2>2, <2>4
<1>7. NewWindow(Rv(i)) <=> (w = NoTime \/ t - w > Window)
  BY <1>2 DEF NewWindow, Rv
<1>8. StartFor(Rv(i)) = IF NewWindow(Rv(i)) THEN t ELSE w BY <1>2 DEF StartFor, Rv
<1> HIDE DEF t, u, w, C, S, f
<1>9. CASE NewWindow(Rv(i))
  <2>1. u = t
    <3>1. SUFFICES ASSUME u < t PROVE FALSE BY <1>2, <1>3
    <3>2. PICK k \in C : f[k].ts = u BY <3>1, <1>6
    <3>3. w # NoTime /\ w \in Nat BY <3>2, <1>4, <1>5
    <3>4. u =< w BY <3>2, <3>3, <1>3, <1>5
    <3>5. QED BY <3>3, <3>4, <1>2, <1>3, <1>7, <1>9
  <2>2. QED BY <2>1, <1>2, <1>3, <1>4, <1>8, <1>9 DEF t, u, C, S, f
<1>10. CASE ~NewWindow(Rv(i))
  <2>1. w # NoTime /\ w \in S /\ ~(t - w > Window) BY <1>5, <1>7, <1>10
  <2>2. PICK k \in C : f[k].ts = w BY <2>1, <1>5
  <2>3. w \in Nat /\ w =< t BY <2>2, <1>4
  <2>4. w = u BY <2>1, <2>3, <1>2, <1>3
  <2>5. t \in S => t = u BY <1>2, <1>3
  <2>6. QED BY <2>1, <2>2, <2>4, <2>5, <1>2, <1>3, <1>5, <1>8, <1>10 DEF t, u, w, C, S, f
<1>11. QED BY <1>9, <1>10

(* What the correlator remembers stays true.                               *)
LEMMA CorrelatorKeeps ==
  ASSUME AssemblyAssumption, AssemblyInv, NEW i \in left, Key(i)
  PROVE  /\ WindowsKept' /\ windowStart' \in [Scopes -> Nat \cup {NoTime}]
         /\ ordinal' \in Nat /\ ordinal =< ordinal' /\ ordinal' =< Cardinality(Placed')
<1> DEFINE rv == Rv(i)
<1>1. /\ incoming \in Seq(Views) /\ incoming' = incoming /\ i \in Arrivals
      /\ Placed' = Placed \cup {i}
      /\ Cardinality(Placed') = Cardinality(Placed) + 1 /\ Cardinality(Placed) \in Nat
  BY NextEvent
<1>2. /\ ordinal' = IF Anonymous(rv) /\ Isolated(rv) THEN ordinal + 1 ELSE ordinal
      /\ windowStart' = IF Anonymous(rv) /\ ~Isolated(rv)
                          THEN [windowStart EXCEPT ![rv.scope] = StartFor(rv)] ELSE windowStart
  BY DEF Key, Remember
<1>3. /\ ordinal \in Nat /\ ordinal =< Cardinality(Placed)
      /\ windowStart \in [Scopes -> Nat \cup {NoTime}]
  BY DEF AssemblyInv, AssemblyTypeOK
<1>4. ordinal' \in Nat /\ ordinal =< ordinal' /\ ordinal' =< Cardinality(Placed')
  BY <1>1, <1>2, <1>3
<1>5. ASSUME NEW s \in Scopes, Scoped(incoming, i, s)
      PROVE  /\ Anonymous(rv) /\ ~Isolated(rv) /\ rv.scope = s
             /\ windowStart' = [windowStart EXCEPT ![s] = StartIn(incoming, i)]
             /\ StartIn(incoming, i) \in Nat
  <2>1. Anonymous(rv) /\ rv.scope = s /\ rv.ts # NoTime /\ s # Absent
    BY <1>1, <1>5, AsSaid DEF Scoped, Rv, AssemblyAssumption
  <2>2. ~Isolated(rv) BY <2>1 DEF Isolated
  <2>3. StartFor(rv) = StartIn(incoming, i) BY <1>5, NextWindow
  <2>4. StartIn(incoming, i) \in Nat BY <1>1, <1>5, StartFits DEF Arrivals
  <2>5. QED BY <2>1, <2>2, <2>3, <2>4, <1>2
<1>6. ASSUME NEW s \in Scopes, ~Scoped(incoming, i, s) PROVE windowStart'[s] = windowStart[s]
  <2>1. CASE Anonymous(rv) /\ ~Isolated(rv)
    <3>1. rv.scope # s BY <2>1, <1>1, <1>6, AsSaid DEF Isolated, Scoped, Rv
    <3>2. QED BY <3>1, <2>1, <1>2, <1>3
  <2>2. QED BY <2>1, <1>2
<1>7. windowStart' \in [Scopes -> Nat \cup {NoTime}]
  <2>1. CASE \E s \in Scopes : Scoped(incoming, i, s) BY <2>1, <1>3, <1>5
  <2>2. CASE ~\E s \in Scopes : Scoped(incoming, i, s)
    <3>1. ~(Anonymous(rv) /\ ~Isolated(rv))
      BY <2>2, <1>1, InFile, AsSaid DEF Isolated, Scoped, Rv, Arrivals
    <3>2. QED BY <3>1, <1>2, <1>3
  <2>3. QED BY <2>1, <2>2
<1>8. WindowsKept'
  <2>1. SUFFICES ASSUME NEW s \in Scopes
        PROVE  LET w == windowStart'[s]
                   C == {k \in Placed \cup {i} : Scoped(incoming, k, s)} IN
               /\ (w = NoTime) <=> (C = {})
               /\ w # NoTime =>
                    /\ w \in StartsIn(incoming)[s]
                    /\ \E k \in C : incoming[k].ts = w
                    /\ \A k \in C : incoming[k].ts \in StartsIn(incoming)[s] => incoming[k].ts =< w
    BY <1>1 DEF WindowsKept, InScopePlaced
  <2> DEFINE C == {k \in Placed \cup {i} : Scoped(incoming, k, s)}
  <2>2. CASE Scoped(incoming, i, s)
    <3>1. C = InScopePlaced(s) \cup {i} BY <2>2 DEF InScopePlaced
    <3>2. windowStart'[s] = StartIn(incoming, i) /\ StartIn(incoming, i) \in Nat
      BY <2>2, <1>3, <1>5
    <3>3. StartIn(incoming, i) # NoTime /\ C # {} BY <3>1, <3>2 DEF AssemblyAssumption
    <3>4. QED BY <2>2, <3>1, <3>2, <3>3, NextWindow
  <2>3. CASE ~Scoped(incoming, i, s)
    <3>1. C = InScopePlaced(s) BY <2>3 DEF InScopePlaced
    <3>2. windowStart'[s] = windowStart[s] BY <2>3, <1>6
    <3>3. QED BY <3>1, <3>2 DEF AssemblyInv, WindowsKept
  <2>4. QED BY <2>2, <2>3
<1>9. QED BY <1>4, <1>7, <1>8

(* Window starts of one bucket number are not more than a window apart.     *)
LEMMA WindowsDiffer ==
  ASSUME NEW W \in Nat, W # 0, NEW t \in Nat, NEW u \in Nat, t \div W = u \div W
  PROVE  ~(t - u > W) /\ ~(u - t > W)
<1>1. W \in Nat \ {0} OBVIOUS
<1>2. /\ t \div W \in Nat /\ t % W \in 0 .. W - 1 /\ t = W * (t \div W) + (t % W)
      /\ u \div W \in Nat /\ u % W \in 0 .. W - 1 /\ u = W * (u \div W) + (u % W)
  BY <1>1
<1>3. PICK q \in Nat : t \div W = q /\ u \div W = q BY <1>2
<1>4. PICK p : p = W * q OBVIOUS
<1>5. p \in Nat /\ t = p + (t % W) /\ u = p + (u % W) BY <1>2, <1>3, <1>4
<1>6. QED BY <1>2, <1>5

(* The bucket an event's key finds is the one of its group.                *)
LEMMA FoundByKey ==
  ASSUME AssemblyAssumption, AssemblyInv, NEW i \in left, Key(i)
  PROVE  /\ Bucket(KeyFor(Rv(i)).value) = {b \in DOMAIN buckets : Lab(Lead(b)) = Lab(i)}
         /\ KeyFor(Rv(i)).value \in KeyValues
         /\ KeyFor(Rv(i)).kind \in KeyKinds
         /\ ~Nameless(incoming, i) => KeyFor(Rv(i)).value = NameIn(incoming, i)
         /\ Nameless(incoming, i) /\ (incoming[i].scope = Absent \/ incoming[i].ts = NoTime) =>
              \E n \in 1 .. ordinal' : KeyFor(Rv(i)).value = <<"isolated", n>>
         /\ \A s \in Scopes : Scoped(incoming, i, s) =>
              KeyFor(Rv(i)).value = <<s, StartIn(incoming, i) \div Window>>
<1> DEFINE f == incoming
           v == KeyFor(Rv(i)).value
<1>1. /\ f \in Seq(Views) /\ i \in Arrivals /\ i \notin Placed
  BY NextEvent
<1>2. ordinal \in Nat BY DEF AssemblyInv, AssemblyTypeOK
<1>3. Window \in Nat /\ Window # 0 /\ "isolated" \notin Scopes
      /\ \A id \in Ids : id \notin (Scopes \cup {"isolated"}) \X Nat
  BY DEF AssemblyAssumption
<1>4. ASSUME NEW b \in DOMAIN buckets
      PROVE  /\ Lead(b) \in Arrivals /\ Lead(b) \in Placed
             /\ KeyIn(incoming, ordinal, Lead(b), buckets[b].key)
  <2>1. BucketOK(b) /\ 1 \in DOMAIN buckets[b].events
    <3>1. BucketOK(b) /\ buckets[b].events \in Seq(Arrivals)
      BY DEF AssemblyInv, AssemblyTypeOK
    <3>2. Len(buckets[b].events) \in 1 .. MaxEventsPerSession BY <3>1 DEF BucketOK, HoldsIn, Lab
    <3>3. QED BY <3>1, <3>2 DEF AssemblyAssumption
  <2>2. QED BY <2>1 DEF BucketOK, HoldsIn, Lab, Lead, Placed
<1>5. CASE ~Nameless(f, i)
  <2>1. v = NameIn(f, i) /\ NameIn(f, i) \in Ids
        /\ KeyFor(Rv(i)).kind \in {"session_id", "trace_id"}
    BY <1>1, <1>5, InFile DEF KeyKinds, KeyFor, Keyed, Rv, NameIn, Nameless, Arrivals
  <2>2. ASSUME NEW b \in DOMAIN buckets
        PROVE  (buckets[b].key = v) <=> (Lab(Lead(b)) = Lab(i))
    <3>1. (Lab(Lead(b)) = Lab(i)) <=> (~Nameless(f, Lead(b)) /\ NameIn(f, Lead(b)) = NameIn(f, i))
      BY <1>1, <1>4, <1>5, SameLabel DEF Lab, Arrivals
    <3>2. CASE ~Nameless(f, Lead(b)) BY <3>1, <3>2, <2>1, <1>4 DEF KeyIn
    <3>3. CASE Nameless(f, Lead(b))
      <4>1. buckets[b].key \in (Scopes \cup {"isolated"}) \X Nat
        <5>1. CASE f[Lead(b)].scope = Absent \/ f[Lead(b)].ts = NoTime
          <6>1. PICK n \in 1 .. ordinal : buckets[b].key = <<"isolated", n>>
            BY <3>3, <5>1, <1>4 DEF KeyIn
          <6>2. n \in Nat BY <1>2
          <6>3. QED BY <6>1, <6>2
        <5>2. CASE f[Lead(b)].scope \in Scopes /\ Scoped(f, Lead(b), f[Lead(b)].scope)
          <6>1. StartIn(f, Lead(b)) \in Nat BY <5>2, <1>1, <1>4, StartFits DEF Arrivals
          <6>2. StartIn(f, Lead(b)) \div Window \in Nat BY <6>1, <1>3
          <6>3. buckets[b].key = <<f[Lead(b)].scope, StartIn(f, Lead(b)) \div Window>>
            BY <5>2, <1>4 DEF KeyIn
          <6>4. QED BY <6>2, <6>3, <5>2
        <5>3. QED BY <3>3, <5>1, <5>2, <1>1, <1>4, Labelled DEF Arrivals
      <4>2. QED BY <4>1, <3>1, <3>3, <2>1, <1>3
    <3>4. QED BY <3>2, <3>3
  <2>3. QED BY <2>1, <2>2, <1>5 DEF Bucket, KeyValues, KeyKinds, Scoped
<1>6. CASE Nameless(f, i) /\ (f[i].scope = Absent \/ f[i].ts = NoTime)
  <2>1. v = <<"isolated", ordinal + 1>> /\ KeyFor(Rv(i)).kind = "isolated_anonymous"
    BY <1>6 DEF KeyKinds, KeyFor, Keyed, Rv, Nameless, Isolated
  <2>2. ordinal' = ordinal + 1
    BY <1>6 DEF Key, Remember, Anonymous, Isolated, Rv, Nameless
  <2>3. ASSUME NEW b \in DOMAIN buckets
        PROVE  buckets[b].key # v /\ Lab(Lead(b)) # Lab(i)
    <3>1. Lab(Lead(b)) # Lab(i) BY <1>1, <1>4, <1>6, SameLabel DEF Lab, Arrivals
    <3>2. CASE ~Nameless(f, Lead(b))
      <4>1. buckets[b].key \in Ids BY <3>2, <1>1, <1>4, InFile DEF KeyIn, Arrivals
      <4>2. v \in (Scopes \cup {"isolated"}) \X Nat BY <2>1, <1>2
      <4>3. QED BY <3>1, <4>1, <4>2, <1>3
    <3>3. CASE Nameless(f, Lead(b)) /\ (f[Lead(b)].scope = Absent \/ f[Lead(b)].ts = NoTime)
      <4>1. PICK n \in 1 .. ordinal : buckets[b].key = <<"isolated", n>>
        BY <3>3, <1>4 DEF KeyIn
      <4>2. QED BY <3>1, <4>1, <2>1, <1>2
    <3>4. CASE f[Lead(b)].scope \in Scopes /\ Scoped(f, Lead(b), f[Lead(b)].scope)
      BY <3>1, <3>4, <2>1, <1>3, <1>4 DEF KeyIn
    <3>5. QED BY <3>2, <3>3, <3>4, <1>1, <1>4, Labelled DEF Arrivals
  <2>4. \A s \in Scopes : ~Scoped(f, i, s) BY <1>6 DEF Scoped, AssemblyAssumption
  <2>5. QED BY <2>1, <2>2, <2>3, <2>4, <1>2, <1>6 DEF Bucket, KeyValues, KeyKinds
<1>7. ASSUME NEW s \in Scopes, Scoped(f, i, s)
      PROVE  /\ Bucket(v) = {b \in DOMAIN buckets : Lab(Lead(b)) = Lab(i)}
             /\ v \in KeyValues /\ KeyFor(Rv(i)).kind = "scoped_anonymous"
             /\ v = <<s, StartIn(f, i) \div Window>>
             /\ Nameless(f, i) /\ f[i].scope = s /\ s # Absent /\ f[i].ts # NoTime
  <2>1. Nameless(f, i) /\ f[i].scope = s /\ s # Absent /\ f[i].ts # NoTime
    BY <1>7 DEF Scoped, AssemblyAssumption
  <2>2. StartFor(Rv(i)) = StartIn(f, i) BY <1>7, NextWindow
  <2>3. v = <<s, StartIn(f, i) \div Window>> /\ KeyFor(Rv(i)).kind = "scoped_anonymous"
    BY <2>1, <2>2 DEF KeyKinds, KeyFor, Keyed, Rv, Nameless, Isolated
  <2>4. StartIn(f, i) \in Nat /\ StartIn(f, i) \in StartsIn(f)[s]
    BY <1>1, <1>7, StartFits DEF Arrivals
  <2>5. StartIn(f, i) \div Window \in Nat BY <2>4, <1>3
  <2>6. ASSUME NEW b \in DOMAIN buckets
        PROVE  (buckets[b].key = v) <=> (Lab(Lead(b)) = Lab(i))
    <3>1. (Lab(Lead(b)) = Lab(i)) <=>
            (Scoped(f, Lead(b), s) /\ f[Lead(b)].ts - StartIn(f, i) \in 0 .. Window)
      BY <1>1, <1>4, <1>7, SameLabel DEF Lab, Arrivals
    <3>2. CASE ~Nameless(f, Lead(b))
      <4>1. buckets[b].key \in Ids BY <3>2, <1>1, <1>4, InFile DEF KeyIn, Arrivals
      <4>2. v \in (Scopes \cup {"isolated"}) \X Nat BY <2>3, <2>5
      <4>3. QED BY <3>1, <3>2, <4>1, <4>2, <1>3 DEF Scoped
    <3>3. CASE Nameless(f, Lead(b)) /\ (f[Lead(b)].scope = Absent \/ f[Lead(b)].ts = NoTime)
      <4>1. PICK n \in 1 .. ordinal : buckets[b].key = <<"isolated", n>>
        BY <3>3, <1>4 DEF KeyIn
      <4>2. ~Scoped(f, Lead(b), s) BY <3>3, <2>1 DEF Scoped
      <4>3. QED BY <3>1, <4>1, <4>2, <2>3, <1>3
    <3>4. ASSUME NEW r \in Scopes, Scoped(f, Lead(b), r)
          PROVE  (buckets[b].key = v) <=> (Lab(Lead(b)) = Lab(i))
      <4>1. buckets[b].key = <<r, StartIn(f, Lead(b)) \div Window>> BY <3>4, <1>4 DEF KeyIn
      <4>2. CASE r # s BY <4>1, <4>2, <3>1, <3>4, <2>3 DEF Scoped
      <4>3. CASE r = s
        <5>1. /\ StartIn(f, Lead(b)) \in Nat /\ StartIn(f, Lead(b)) \in StartsIn(f)[s]
              /\ f[Lead(b)].ts - StartIn(f, Lead(b)) \in 0 .. Window
              /\ \A u \in StartsIn(f)[s] : f[Lead(b)].ts - u \in 0 .. Window =>
                   u = StartIn(f, Lead(b))
          BY <4>3, <3>4, <1>1, <1>4, StartFits DEF Arrivals
        <5>2. ASSUME StartIn(f, Lead(b)) \div Window = StartIn(f, i) \div Window
              PROVE  StartIn(f, Lead(b)) = StartIn(f, i)
          <6>1. /\ ~(StartIn(f, Lead(b)) - StartIn(f, i) > Window)
                /\ ~(StartIn(f, i) - StartIn(f, Lead(b)) > Window)
            BY <5>1, <5>2, <2>4, <1>3, WindowsDiffer
          <6>2. QED BY <6>1, <5>1, <2>4, <1>1, StartsFit DEF StartsWindows
        <5>3. (buckets[b].key = v) <=> (StartIn(f, Lead(b)) = StartIn(f, i))
          BY <4>1, <4>3, <5>2, <2>3
        <5>4. QED BY <5>1, <5>3, <4>3, <3>1, <3>4, <2>4
      <4>4. QED BY <4>2, <4>3
    <3>5. QED BY <3>2, <3>3, <3>4, <1>1, <1>4, Labelled DEF Arrivals
  <2>7. QED BY <2>1, <2>3, <2>5, <2>6 DEF Bucket, KeyValues
<1>8. QED
  <2>1. CASE \E s \in Scopes : Scoped(f, i, s)
    <3>1. PICK s \in Scopes : Scoped(f, i, s) BY <2>1
    <3>2. \A r \in Scopes : Scoped(f, i, r) => r = s BY <3>1 DEF Scoped
    <3>3. QED BY <3>1, <3>2, <1>7 DEF KeyKinds
  <2>2. CASE ~\E s \in Scopes : Scoped(f, i, s)
    BY <2>2, <1>1, <1>5, <1>6, Labelled DEF Arrivals
  <2>3. QED BY <2>1, <2>2

(* A sequence without repetition has as many elements as it is long.       *)
LEMMA AsManyAsLong ==
  ASSUME NEW S, NEW es \in Seq(S), \A m, n \in DOMAIN es : es[m] = es[n] => m = n
  PROVE  IsFiniteSet(Range(es)) /\ Cardinality(Range(es)) = Len(es)
<1>1. /\ DOMAIN es = 1 .. Len(es) /\ Len(es) \in Nat /\ 1 \in Int /\ Len(es) \in Int
      /\ es \in [1 .. Len(es) -> Range(es)]
  BY DEF Range
<1>2. IsFiniteSet(1 .. Len(es)) /\ Cardinality(1 .. Len(es)) = Len(es)
  BY <1>1, FS_Interval
<1>3. es \in Bijection(1 .. Len(es), Range(es))
  BY <1>1 DEF Bijection, Injection, Surjection, IsInjective, Range
<1>4. QED BY <1>2, <1>3, FS_Bijection DEF ExistsBijection

(* A bucket and the events of its group that came.                         *)
LEMMA BucketFacts ==
  ASSUME AssemblyAssumption, AssemblyInv, NEW b \in DOMAIN buckets
  PROVE  /\ BucketOK(b) /\ buckets[b] \in BucketRecords /\ buckets[b].events \in Seq(Arrivals)
         /\ Len(buckets[b].events) \in 1 .. MaxEventsPerSession
         /\ DOMAIN buckets[b].events = 1 .. Len(buckets[b].events)
         /\ Lead(b) \in Range(buckets[b].events) /\ Lead(b) \in Placed
         /\ Range(buckets[b].events) \subseteq {j \in Placed : Lab(j) = Lab(Lead(b))}
         /\ IsFiniteSet(Range(buckets[b].events))
         /\ Cardinality(Range(buckets[b].events)) = Len(buckets[b].events)
<1> DEFINE es == buckets[b].events
<1>1. BucketOK(b) /\ buckets[b] \in BucketRecords /\ es \in Seq(Arrivals)
  <2>1. buckets \in Seq(BucketRecords) /\ BucketOK(b) BY DEF AssemblyInv
  <2>2. buckets[b] \in BucketRecords BY <2>1
  <2>3. QED BY <2>1, <2>2 DEF BucketRecords
<1>2. Len(es) \in 1 .. MaxEventsPerSession /\ DOMAIN es = 1 .. Len(es)
  BY <1>1 DEF BucketOK, HoldsIn
<1>3. 1 \in DOMAIN es BY <1>2 DEF AssemblyAssumption
<1>4. Lead(b) \in Range(es) BY <1>3 DEF Lead, Range
<1>5. Range(es) \subseteq {j \in Placed : Lab(j) = Lab(Lead(b))}
  BY <1>1 DEF BucketOK, HoldsIn, Lab, Range, Lead
<1>6. \A m, n \in DOMAIN es : es[m] = es[n] => m = n BY <1>1 DEF BucketOK, HoldsIn, Lab
<1> HIDE DEF es
<1>7. IsFiniteSet(Range(es)) /\ Cardinality(Range(es)) = Len(es)
  BY <1>1, <1>6, AsManyAsLong
<1>8. QED BY <1>1, <1>2, <1>4, <1>5, <1>7 DEF es

(* What an event is grouped by, and who is before it, no step changes.      *)
LEMMA LeadsStay ==
  ASSUME AssemblyAssumption, AssemblyInv, NEW i \in left, Key(i), NEW j
  PROVE  Lab(j)' = Lab(j) /\ AheadIn(incoming, j)' = AheadIn(incoming, j)
BY NextEvent DEF Lab

(* The group of the next event is full in a bucket that is: those before   *)

(* it are as many as the bucket holds.                                     *)
LEMMA FullAhead ==
  ASSUME AssemblyAssumption, AssemblyInv, NEW i \in left, Key(i), NEW b \in DOMAIN buckets,
         Lab(Lead(b)) = Lab(i), Len(buckets[b].events) >= MaxEventsPerSession
  PROVE  Cardinality(AheadIn(incoming, i)) >= MaxEventsPerSession
<1>1. AheadIn(incoming, i) = {j \in Placed : Lab(j) = Lab(i)} /\ IsFiniteSet(Placed)
  BY NextEvent
<1>2. IsFiniteSet(AheadIn(incoming, i)) BY <1>1, FS_Subset
<1>3. Range(buckets[b].events) \in SUBSET AheadIn(incoming, i) BY <1>1, BucketFacts
<1>4. Cardinality(Range(buckets[b].events)) =< Cardinality(AheadIn(incoming, i))
  BY <1>2, <1>3, FS_Subset
<1>5. /\ Cardinality(Range(buckets[b].events)) = Len(buckets[b].events)
      /\ Len(buckets[b].events) \in Nat
  BY BucketFacts
<1>6. Cardinality(AheadIn(incoming, i)) \in Nat /\ MaxEventsPerSession \in Nat
  BY <1>2, FS_CardinalityType DEF AssemblyAssumption
<1>7. QED BY <1>4, <1>5, <1>6

(* A key that an event has, it has after the next step.                    *)
LEMMA KeyStays ==
  ASSUME AssemblyAssumption, AssemblyInv, NEW i \in left, Key(i), NEW j, NEW key,
         KeyIn(incoming, ordinal, j, key)
  PROVE  KeyIn(incoming, ordinal', j, key)
<1>1. ordinal \in Nat /\ ordinal' \in Nat /\ ordinal =< ordinal'
  BY CorrelatorKeeps DEF AssemblyInv, AssemblyTypeOK
<1>2. \A n \in 1 .. ordinal : n \in 1 .. ordinal' BY <1>1
<1>3. QED BY <1>2 DEF KeyIn

(* A bucket the event is not added to, because it is another group's or    *)

(* full.                                                                   *)
LEMMA UntouchedKeeps ==
  ASSUME AssemblyAssumption, AssemblyInv, NEW i \in left, Key(i), NEW b \in DOMAIN buckets,
         buckets'[b] = buckets[b],
         Lab(Lead(b)) = Lab(i) => Len(buckets[b].events) >= MaxEventsPerSession
  PROVE  BucketOK(b)'
<1> DEFINE es == buckets[b].events
<1>1. /\ incoming' = incoming /\ Placed' = Placed \cup {i} /\ i \notin Placed
      /\ \A j \in Placed : BeforeIn(incoming, j, i)
  BY NextEvent
<1>2. /\ BucketOK(b) /\ Lead(b) = es[1] /\ es[1] \in Placed /\ Range(es) \subseteq Placed
  BY BucketFacts DEF Lead
<1>3. \A j : Lab(j)' = Lab(j) BY LeadsStay
<1>4. ASSUME NEW j \in Placed', Lab(j) = Lab(es[1])
      PROVE  /\ j # es[1] => BeforeIn(incoming, es[1], j)
             /\ j \notin Range(es) => /\ Len(es) >= MaxEventsPerSession
                                      /\ Cardinality(AheadIn(incoming, j)) >= MaxEventsPerSession
  <2>1. CASE j \in Placed BY <2>1, <1>2, <1>4 DEF BucketOK, HoldsIn, Lab
  <2>2. CASE j = i BY <2>2, <1>1, <1>2, <1>4, FullAhead
  <2>3. QED BY <2>1, <2>2, <1>1
<1>5. KeyIn(incoming, ordinal', es[1], buckets[b].key)
  BY <1>2, KeyStays DEF BucketOK, HoldsIn
<1>6. HoldsIn(incoming, Placed', ordinal', es, buckets[b].key)
  BY <1>1, <1>2, <1>4, <1>5 DEF BucketOK, HoldsIn, Lab
<1>7. QED BY <1>1, <1>6 DEF BucketOK

(* No two buckets are of one group.                                        *)
LEMMA OneBucket ==
  ASSUME AssemblyAssumption, AssemblyInv, NEW b \in DOMAIN buckets, NEW c \in DOMAIN buckets,
         Lab(Lead(b)) = Lab(Lead(c))
  PROVE  b = c
<1>1. buckets \in Seq(BucketRecords) BY DEF AssemblyInv
<1>2. b \in Nat /\ c \in Nat BY <1>1
<1>3. ~(b < c) /\ ~(c < b) BY DEF AssemblyInv, BucketsInOrder
<1>4. QED BY <1>2, <1>3

(* What keying the next event keeps, wherever it goes.                     *)
LEMMA KeyKeeps ==
  ASSUME AssemblyAssumption, AssemblyInv, NEW i \in left, Key(i)
  PROVE  /\ (incoming \in Seq(Views))' /\ (left \subseteq Arrivals)' /\ Arrivals' = Arrivals
         /\ (windowStart \in [Scopes -> Nat \cup {NoTime}])' /\ (ordinal \in 0 .. Len(incoming))'
         /\ (stage \in {"place", "done"})'
         /\ (\A j \in Placed, k \in left : BeforeIn(incoming, j, k))'
         /\ WindowsKept' /\ (ordinal =< Cardinality(Placed))' /\ Ended'
<1>1. /\ incoming \in Seq(Views) /\ incoming' = incoming /\ left' \subseteq Arrivals
      /\ stage = "place" /\ UNCHANGED <<observed, aborted, stage>>
      /\ Placed' = Placed \cup {i} /\ i \in Arrivals
      /\ \A j \in Placed', k \in left' : BeforeIn(incoming, j, k)
      /\ Cardinality(Placed') = Cardinality(Placed) + 1 /\ Cardinality(Placed) \in Nat
  BY NextEvent
<1>2. Arrivals' = Arrivals BY <1>1 DEF Arrivals
<1>3. /\ WindowsKept' /\ windowStart' \in [Scopes -> Nat \cup {NoTime}]
      /\ ordinal' \in Nat /\ ordinal' =< Cardinality(Placed')
  BY CorrelatorKeeps
<1>4. ordinal' \in 0 .. Len(incoming')
  <2>1. Arrivals = 1 .. Len(incoming) /\ Len(incoming) \in Nat /\ Len(incoming) \in Int /\ 1 \in Int
    BY <1>1 DEF Arrivals
  <2>2. IsFiniteSet(Arrivals) /\ Cardinality(Arrivals) = Len(incoming)
    <3>1. \A n \in Nat : IsFiniteSet(1 .. n) /\ Cardinality(1 .. n) = n BY FS_Interval
    <3>2. QED BY <2>1, <3>1
  <2>3. Placed' \in SUBSET Arrivals BY <1>1 DEF Placed
  <2>4. Cardinality(Placed') =< Len(incoming) BY <2>2, <2>3, FS_Subset
  <2>5. QED BY <2>1, <2>4, <1>1, <1>3
<1>5. stage' = "place" /\ aborted' = aborted /\ aborted = ""
  BY <1>1 DEF AssemblyInv, Ended
<1>6. Ended' BY <1>5 DEF Ended
<1>7. QED BY <1>1, <1>2, <1>3, <1>4, <1>5, <1>6

(* The events no bucket took, and one more that none takes.                *)
LEMMA OneMoreLeftOut ==
  ASSUME AssemblyAssumption, AssemblyInv, NEW i \in left, Key(i), buckets' = buckets
  PROVE  Cardinality(LeftOut') = Cardinality(LeftOut) + 1 /\ Cardinality(LeftOut) \in Nat
<1>1. Placed' = Placed \cup {i} /\ i \notin Placed /\ IsFiniteSet(Placed) BY NextEvent
<1>2. \A b \in DOMAIN buckets : Range(buckets[b].events) \subseteq Placed BY BucketFacts
<1>3. LeftOut' = LeftOut \cup {i} /\ i \notin LeftOut BY <1>1, <1>2 DEF LeftOut
<1>4. LeftOut \in SUBSET Placed BY DEF LeftOut
<1>5. IsFiniteSet(LeftOut) BY <1>1, <1>4, FS_Subset
<1>6. QED BY <1>3, <1>5, FS_AddElement, FS_CardinalityType

(* An event that is dropped, for want of a session or in a full one.       *)
LEMMA DropKeeps ==
  ASSUME AssemblyAssumption, AssemblyInv, NEW i \in left, DropSession(i) \/ DropEvent(i)
  PROVE  AssemblyInv'
<1> DEFINE v == KeyFor(Rv(i)).value
<1>1. /\ Key(i) /\ buckets' = buckets
      /\ \/ /\ NoRoomForSession(KeyFor(Rv(i)))
            /\ dropped' = [dropped EXCEPT !.sessions = @ + 1]
         \/ /\ NoRoomForEvent(KeyFor(Rv(i)))
            /\ dropped' = [dropped EXCEPT !.events = @ + 1]
  BY DEF DropSession, DropEvent
<1>2. /\ Placed' = Placed \cup {i} /\ incoming' = incoming
      /\ \A j \in Placed : BeforeIn(incoming, j, i)
  BY <1>1, NextEvent
<1>3. Bucket(v) = {b \in DOMAIN buckets : Lab(Lead(b)) = Lab(i)} BY <1>1, FoundByKey
<1>4. \/ Bucket(v) = {} /\ Len(buckets) >= MaxSessions
      \/ \E b \in Bucket(v) : Len(buckets[b].events) >= MaxEventsPerSession
  BY <1>1 DEF NoRoomForSession, NoRoomForEvent
<1>5. \A j : Lab(j)' = Lab(j) BY <1>1, LeadsStay
<1>6. \A b \in DOMAIN buckets : Lead(b)' = Lead(b) /\ Lead(b) \in Placed
  BY <1>1, BucketFacts DEF Lead
<1>7. ASSUME NEW b \in DOMAIN buckets PROVE BucketOK(b)'
  <2>1. Lab(Lead(b)) = Lab(i) => Len(buckets[b].events) >= MaxEventsPerSession
    BY <1>3, <1>4, OneBucket
  <2>2. QED BY <2>1, <1>1, UntouchedKeeps
<1>8. BucketsInOrder' BY <1>1, <1>2, <1>5, <1>6 DEF AssemblyInv, BucketsInOrder
<1>9. OnlyLaterLeftOut'
  <2>1. ASSUME NEW j \in Placed'
        PROVE  \/ \E b \in DOMAIN buckets : Lab(Lead(b)) = Lab(j)
               \/ /\ Len(buckets) >= MaxSessions
                  /\ \A b \in DOMAIN buckets : BeforeIn(incoming, Lead(b), j)
    <3>1. CASE j \in Placed BY <3>1 DEF AssemblyInv, OnlyLaterLeftOut
    <3>2. CASE j = i BY <3>2, <1>2, <1>3, <1>4, <1>6
    <3>3. QED BY <3>1, <3>2, <1>2
  <2>2. QED BY <2>1, <1>1, <1>2, <1>5, <1>6 DEF OnlyLaterLeftOut
<1>10. /\ dropped' \in [sessions : Nat, events : Nat]
       /\ dropped'.sessions + dropped'.events = Cardinality(LeftOut')
  <2>1. dropped \in [sessions : Nat, events : Nat]
        /\ dropped.sessions + dropped.events = Cardinality(LeftOut)
    BY DEF AssemblyInv, AssemblyTypeOK
  <2>2. Cardinality(LeftOut') = Cardinality(LeftOut) + 1 BY <1>1, OneMoreLeftOut
  <2>3. QED BY <2>1, <2>2, <1>1
<1>11. /\ (buckets \in Seq(BucketRecords))' /\ (Len(buckets) =< MaxSessions)'
       /\ (\A b \in DOMAIN buckets : /\ buckets[b].events \in Seq(Arrivals)
                                     /\ Len(buckets[b].events) =< MaxEventsPerSession)'
  BY <1>1, KeyKeeps DEF AssemblyInv, AssemblyTypeOK, BucketRecords
<1>12. AssemblyTypeOK' BY <1>1, <1>10, <1>11, KeyKeeps DEF AssemblyTypeOK
<1>13. QED BY <1>1, <1>7, <1>8, <1>9, <1>10, <1>11, <1>12, KeyKeeps DEF AssemblyInv

(* A sequence and one element more.                                         *)
LEMMA Appended ==
  ASSUME NEW S, NEW es \in Seq(S), NEW x \in S
  PROVE  /\ Append(es, x) \in Seq(S) /\ Len(Append(es, x)) = Len(es) + 1
         /\ DOMAIN Append(es, x) = DOMAIN es \cup {Len(es) + 1}
         /\ \A n \in DOMAIN es : Append(es, x)[n] = es[n] /\ n # Len(es) + 1
         /\ Append(es, x)[Len(es) + 1] = x
         /\ Range(Append(es, x)) = Range(es) \cup {x}
<1>1. /\ Len(es) \in Nat /\ DOMAIN es = 1 .. Len(es)
      /\ Append(es, x) \in Seq(S) /\ Len(Append(es, x)) = Len(es) + 1
      /\ DOMAIN Append(es, x) = 1 .. Len(es) + 1
      /\ \A n \in 1 .. Len(es) : Append(es, x)[n] = es[n]
      /\ Append(es, x)[Len(es) + 1] = x
  OBVIOUS
<1>2. DOMAIN Append(es, x) = DOMAIN es \cup {Len(es) + 1} BY <1>1
<1>3. \A n \in DOMAIN es : Append(es, x)[n] = es[n] /\ n # Len(es) + 1 BY <1>1
<1>4. Range(Append(es, x)) = Range(es) \cup {x} BY <1>1, <1>2, <1>3 DEF Range
<1>5. QED BY <1>1, <1>2, <1>3, <1>4

(* An event added to the bucket of its group, which is not full.           *)
LEMMA OldBucket ==
  ASSUME AssemblyAssumption, AssemblyInv, NEW i \in left, Key(i), NEW b \in DOMAIN buckets,
         Lab(Lead(b)) = Lab(i), Len(buckets[b].events) < MaxEventsPerSession,
         buckets' = [buckets EXCEPT ![b].events = Append(@, i)]
  PROVE  BucketOK(b)'
<1> DEFINE es == buckets[b].events
           fs == Append(es, i)
<1>1. /\ incoming' = incoming /\ Placed' = Placed \cup {i} /\ i \notin Placed /\ i \in Arrivals
      /\ \A j \in Placed : BeforeIn(incoming, j, i)
      /\ AheadIn(incoming, i) = {j \in Placed : Lab(j) = Lab(i)}
  BY NextEvent
<1>2. /\ BucketOK(b) /\ Lead(b) = es[1] /\ es[1] \in Placed /\ Range(es) \subseteq Placed
      /\ es \in Seq(Arrivals) /\ Len(es) \in 1 .. MaxEventsPerSession /\ 1 \in DOMAIN es
      /\ Range(es) \subseteq {j \in Placed : Lab(j) = Lab(i)}
      /\ Cardinality(Range(es)) = Len(es)
  BY BucketFacts DEF Lead
<1>3. \A j : Lab(j)' = Lab(j) BY LeadsStay
<1>4. /\ buckets'[b].events = fs /\ buckets'[b].key = buckets[b].key
  <2>1. buckets \in Seq(BucketRecords) /\ buckets[b] \in BucketRecords
    BY BucketFacts DEF AssemblyInv
  <2>2. buckets'[b] = [buckets[b] EXCEPT !.events = fs] BY <2>1
  <2>3. QED BY <2>1, <2>2 DEF BucketRecords
<1>5. /\ Len(fs) = Len(es) + 1 /\ DOMAIN fs = DOMAIN es \cup {Len(es) + 1}
      /\ \A n \in DOMAIN es : fs[n] = es[n] /\ n # Len(es) + 1
      /\ fs[Len(es) + 1] = i /\ Range(fs) = Range(es) \cup {i} /\ fs[1] = es[1]
  BY <1>1, <1>2, Appended
<1> HIDE DEF fs, es
<1>6. Len(fs) \in 1 .. MaxEventsPerSession
  BY <1>2, <1>5 DEF AssemblyAssumption, es
<1>7. \A n \in DOMAIN fs : fs[n] \in Placed'
  <2>1. \A n \in DOMAIN es : es[n] \in Range(es) BY DEF Range
  <2>2. QED BY <2>1, <1>1, <1>2, <1>5
<1>8. \A m, n \in DOMAIN fs : fs[m] = fs[n] => m = n
  <2>1. \A n \in DOMAIN es : es[n] \in Placed BY <1>2 DEF Range
  <2>2. \A m, n \in DOMAIN es : es[m] = es[n] => m = n BY <1>2 DEF BucketOK, HoldsIn, Lab, es
  <2>3. QED BY <2>1, <2>2, <1>1, <1>5
<1>9. \A j \in Placed : Lab(j) = Lab(i) => j \in Range(es)
  BY <1>2 DEF BucketOK, HoldsIn, Lab, es, Lead, AssemblyAssumption
<1>10. Cardinality(AheadIn(incoming, i)) < MaxEventsPerSession
  <2>1. AheadIn(incoming, i) = Range(es) BY <1>1, <1>2, <1>9
  <2>2. QED BY <2>1, <1>2 DEF es
<1>11. \A j \in Range(fs) :
         Lab(j) = Lab(es[1]) /\ Cardinality(AheadIn(incoming, j)) < MaxEventsPerSession
  BY <1>2, <1>5, <1>10 DEF BucketOK, HoldsIn, Lab, es
<1>12. \A j \in Placed' : Lab(j) = Lab(es[1]) =>
         (j # es[1] => BeforeIn(incoming, es[1], j)) /\ j \in Range(fs)
  <2>1. \A j \in Placed : Lab(j) = Lab(es[1]) => (j # es[1] => BeforeIn(incoming, es[1], j))
    BY <1>2 DEF BucketOK, HoldsIn, Lab, es
  <2>2. Lab(es[1]) = Lab(i) BY <1>2
  <2>3. QED BY <2>1, <2>2, <1>1, <1>2, <1>5, <1>9
<1>13. KeyIn(incoming, ordinal, es[1], buckets[b].key) BY <1>2 DEF BucketOK, HoldsIn, es
<1>14. KeyIn(incoming, ordinal', es[1], buckets[b].key) BY <1>13, KeyStays
<1>15. HoldsIn(incoming, Placed', ordinal', fs, buckets[b].key)
  BY <1>5, <1>6, <1>7, <1>8, <1>11, <1>12, <1>14 DEF HoldsIn, Lab
<1>16. QED BY <1>1, <1>4, <1>15 DEF BucketOK

(* An event placed in a bucket there is.                                   *)
LEMMA OldKeeps ==
  ASSUME AssemblyAssumption, AssemblyInv, NEW i \in left, Key(i), NEW b \in DOMAIN buckets,
         Lab(Lead(b)) = Lab(i), Len(buckets[b].events) < MaxEventsPerSession,
         buckets' = [buckets EXCEPT ![b].events = Append(@, i)]
  PROVE  /\ (buckets \in Seq(BucketRecords))' /\ (Len(buckets) =< MaxSessions)'
         /\ (\A c \in DOMAIN buckets : BucketOK(c))'
         /\ BucketsInOrder' /\ OnlyLaterLeftOut' /\ LeftOut' = LeftOut
<1>1. /\ incoming' = incoming /\ Placed' = Placed \cup {i} /\ i \notin Placed /\ i \in Arrivals
      /\ Arrivals' = Arrivals
  BY NextEvent, KeyKeeps
<1>2. /\ buckets \in Seq(BucketRecords) /\ Len(buckets) =< MaxSessions /\ Len(buckets) \in Nat
      /\ DOMAIN buckets = 1 .. Len(buckets)
      /\ buckets[b].events \in Seq(Arrivals) /\ 1 \in DOMAIN buckets[b].events
      /\ buckets[b] \in BucketRecords
  BY BucketFacts DEF AssemblyInv, AssemblyTypeOK
<1>3. /\ Append(buckets[b].events, i) \in Seq(Arrivals)
      /\ Append(buckets[b].events, i)[1] = buckets[b].events[1]
      /\ Range(Append(buckets[b].events, i)) = Range(buckets[b].events) \cup {i}
  BY <1>1, <1>2, Appended
<1>4. /\ buckets'[b] \in BucketRecords /\ buckets'[b].events = Append(buckets[b].events, i)
      /\ buckets'[b] = [buckets[b] EXCEPT !.events = Append(@, i)]
  <2>1. buckets'[b] = [buckets[b] EXCEPT !.events = Append(@, i)] BY <1>2
  <2>2. QED BY <2>1, <1>2, <1>3 DEF BucketRecords
<1>5. /\ DOMAIN buckets' = DOMAIN buckets /\ Len(buckets') = Len(buckets)
      /\ \A c \in DOMAIN buckets : c # b => buckets'[c] = buckets[c]
      /\ buckets' \in Seq(BucketRecords)
  <2>1. buckets' = [buckets EXCEPT ![b] = [buckets[b] EXCEPT !.events = Append(@, i)]] OBVIOUS
  <2>2. \A c \in DOMAIN buckets : c # b => buckets'[c] = buckets[c] BY <2>1
  <2>3. buckets' = [buckets EXCEPT ![b] = buckets'[b]] BY <2>1, <1>4
  <2>4. QED BY <2>2, <2>3, <1>2, <1>4
<1>6. BucketRecords' = BucketRecords BY <1>1 DEF BucketRecords
<1>7. \A c \in DOMAIN buckets : BucketOK(c)'
  <2> TAKE c \in DOMAIN buckets
  <2>1. CASE c = b BY <2>1, OldBucket
  <2>2. CASE c # b
    <3>1. Lab(Lead(c)) # Lab(i) BY <2>2, OneBucket
    <3>2. QED BY <3>1, <2>2, <1>5, UntouchedKeeps
  <2>3. QED BY <2>1, <2>2
<1>8. \A c \in DOMAIN buckets : Lead(c)' = Lead(c) BY <1>3, <1>4, <1>5 DEF Lead
<1>9. \A j : Lab(j)' = Lab(j) BY LeadsStay
<1>10. BucketsInOrder'
  BY <1>1, <1>5, <1>8 DEF AssemblyInv, BucketsInOrder, Lab
<1>11. OnlyLaterLeftOut'
  <2>1. ASSUME NEW j \in Placed'
        PROVE  \/ \E c \in DOMAIN buckets : Lab(Lead(c)) = Lab(j)
               \/ /\ Len(buckets) >= MaxSessions
                  /\ \A c \in DOMAIN buckets : BeforeIn(incoming, Lead(c), j)
    BY <2>1, <1>1 DEF AssemblyInv, OnlyLaterLeftOut
  <2>2. QED BY <2>1, <1>1, <1>5, <1>8 DEF OnlyLaterLeftOut, Lab
<1>12. LeftOut' = LeftOut
  <2>1. \A j \in Placed : \A c \in DOMAIN buckets :
          (j \in Range(buckets'[c].events)) <=> (j \in Range(buckets[c].events))
    BY <1>1, <1>3, <1>4, <1>5
  <2>2. i \in Range(buckets'[b].events) BY <1>3, <1>4
  <2>3. QED BY <2>1, <2>2, <1>1, <1>5 DEF LeftOut
<1>13. QED BY <1>2, <1>5, <1>6, <1>7, <1>10, <1>11, <1>12

(* An event that begins a bucket.                                          *)
LEMMA NewKeeps ==
  ASSUME AssemblyAssumption, AssemblyInv, NEW i \in left, Key(i), NEW key, NEW kind,
         \A b \in DOMAIN buckets : Lab(Lead(b)) # Lab(i), Len(buckets) < MaxSessions,
         [key |-> key, kind |-> kind, events |-> <<i>>] \in BucketRecords,
         KeyIn(incoming, ordinal', i, key),
         buckets' = Append(buckets, [key |-> key, kind |-> kind, events |-> <<i>>])
  PROVE  /\ (buckets \in Seq(BucketRecords))' /\ (Len(buckets) =< MaxSessions)'
         /\ (\A c \in DOMAIN buckets : BucketOK(c))'
         /\ BucketsInOrder' /\ OnlyLaterLeftOut' /\ LeftOut' = LeftOut
<1> DEFINE r == [key |-> key, kind |-> kind, events |-> <<i>>]
<1>1. /\ incoming' = incoming /\ Placed' = Placed \cup {i} /\ i \notin Placed /\ i \in Arrivals
      /\ Arrivals' = Arrivals /\ \A j \in Placed : BeforeIn(incoming, j, i)
      /\ AheadIn(incoming, i) = {j \in Placed : Lab(j) = Lab(i)}
  BY NextEvent, KeyKeeps
<1>2. buckets \in Seq(BucketRecords) /\ Len(buckets) \in Nat /\ DOMAIN buckets = 1 .. Len(buckets)
  BY DEF AssemblyInv
<1> PICK n \in Nat : n = Len(buckets) + 1 BY <1>2
<1>3. MaxSessions \in Nat /\ MaxEventsPerSession \in Nat \ {0} BY DEF AssemblyAssumption
<1>4. /\ buckets' \in Seq(BucketRecords) /\ Len(buckets') = n
      /\ DOMAIN buckets' = DOMAIN buckets \cup {n} /\ n \notin DOMAIN buckets
      /\ \A c \in DOMAIN buckets : buckets'[c] = buckets[c]
      /\ buckets'[n] = r
  <2> HIDE DEF r
  <2>1. r \in BucketRecords BY DEF r
  <2>2. buckets' = Append(buckets, r) BY DEF r
  <2>3. QED BY <2>1, <2>2, <1>2
<1>5. buckets'[n].events = <<i>> /\ buckets'[n].key = key BY <1>4
<1>6. \A c \in DOMAIN buckets : Lead(c)' = Lead(c) /\ Lead(c) \in Placed
  BY <1>4, BucketFacts DEF Lead
<1>7. buckets'[n].events[1] = i /\ Range(buckets'[n].events) = {i} BY <1>5 DEF Range
<1> HIDE DEF r
<1>8. \A c \in DOMAIN buckets : BucketOK(c)' BY <1>4, UntouchedKeeps
<1>9. \A j \in Placed :
        /\ \E b \in DOMAIN buckets : Lab(Lead(b)) = Lab(j)
        /\ Lab(j) # Lab(i)
  BY <1>2, <1>3 DEF AssemblyInv, OnlyLaterLeftOut
<1>10. BucketOK(n)'
  <2>1. AheadIn(incoming, i) = {} BY <1>1, <1>9
  <2>2. Cardinality(AheadIn(incoming, i)) < MaxEventsPerSession
    BY <2>1, <1>3, FS_EmptySet
  <2>3. HoldsIn(incoming, Placed', ordinal', <<i>>, key)
    <3>1. Len(<<i>>) = 1 /\ DOMAIN <<i>> = {1} /\ <<i>>[1] = i /\ Range(<<i>>) = {i}
      BY DEF Range
    <3>2. \A j \in Placed' : LabelIn(incoming, j) = LabelIn(incoming, i) => j = i
      BY <1>1, <1>9 DEF Lab
    <3>3. 1 \in 1 .. MaxEventsPerSession BY <1>3
    <3>4. QED BY <3>1, <3>2, <3>3, <2>2, <1>1 DEF HoldsIn
  <2>4. QED BY <2>3, <1>1, <1>5 DEF BucketOK
<1>11. (\A c \in DOMAIN buckets : BucketOK(c))' BY <1>4, <1>8, <1>10
<1>12. Lead(n)' = i BY <1>7 DEF Lead
<1>13. BucketsInOrder'
  <2>1. ASSUME NEW b \in DOMAIN buckets', NEW c \in DOMAIN buckets', b < c
        PROVE  /\ LabelIn(incoming, Lead(b)') # LabelIn(incoming, Lead(c)')
               /\ BeforeIn(incoming, Lead(b)', Lead(c)')
    <3>1. CASE c \in DOMAIN buckets
      <4>1. b \in DOMAIN buckets BY <3>1, <2>1, <1>2, <1>4
      <4>2. QED BY <3>1, <4>1, <2>1, <1>1, <1>6 DEF AssemblyInv, BucketsInOrder, Lab
    <3>2. CASE c = n
      <4>1. b \in DOMAIN buckets BY <3>2, <2>1, <1>2, <1>4
      <4>2. QED BY <3>2, <4>1, <1>1, <1>6, <1>12 DEF Lab
    <3>3. QED BY <3>1, <3>2, <1>4
  <2>2. QED BY <2>1, <1>1 DEF BucketsInOrder, Lab
<1>14. OnlyLaterLeftOut'
  <2>1. ASSUME NEW j \in Placed' PROVE \E b \in DOMAIN buckets' : Lab(Lead(b)') = Lab(j)
    <3>1. CASE j \in Placed BY <3>1, <1>4, <1>6, <1>9
    <3>2. CASE j = i BY <3>2, <1>4, <1>12
    <3>3. QED BY <3>1, <3>2, <1>1
  <2>2. QED BY <2>1, <1>1 DEF OnlyLaterLeftOut, Lab
<1>15. LeftOut' = LeftOut BY <1>1, <1>4, <1>7 DEF LeftOut
<1>16. BucketRecords' = BucketRecords BY <1>1 DEF BucketRecords
<1>17. Len(buckets') =< MaxSessions BY <1>2, <1>3, <1>4
<1>18. QED BY <1>4, <1>11, <1>13, <1>14, <1>15, <1>16, <1>17

(* An event that is placed.                                                 *)
LEMMA PlaceKeeps ==
  ASSUME AssemblyAssumption, AssemblyInv, NEW i \in left, Place(i)
  PROVE  AssemblyInv'
<1> DEFINE key == KeyFor(Rv(i))
<1>1. /\ Key(i) /\ ~NoRoomForSession(key) /\ ~NoRoomForEvent(key)
      /\ buckets' = SessionsWith(i, key) /\ dropped' = dropped
  BY DEF Place
<1>2. Bucket(key.value) = {b \in DOMAIN buckets : Lab(Lead(b)) = Lab(i)} BY <1>1, FoundByKey
<1>3. /\ (buckets \in Seq(BucketRecords))' /\ (Len(buckets) =< MaxSessions)'
      /\ (\A c \in DOMAIN buckets : BucketOK(c))'
      /\ BucketsInOrder' /\ OnlyLaterLeftOut' /\ LeftOut' = LeftOut
  <2>1. CASE Bucket(key.value) # {}
    <3>1. PICK b \in Bucket(key.value) :
            buckets' = [buckets EXCEPT ![b].events = Append(@, i)]
      BY <2>1, <1>1 DEF SessionsWith
    <3>2. b \in DOMAIN buckets /\ Lab(Lead(b)) = Lab(i) BY <1>2, <3>1
    <3>3. ~(Len(buckets[b].events) >= MaxEventsPerSession)
      BY <1>1, <3>1 DEF NoRoomForEvent
    <3>4. Len(buckets[b].events) < MaxEventsPerSession
      BY <3>2, <3>3, BucketFacts DEF AssemblyAssumption
    <3>5. QED BY <1>1, <3>1, <3>2, <3>4, OldKeeps
  <2>2. CASE Bucket(key.value) = {}
    <3> DEFINE r == [key |-> key.value, kind |-> key.kind, events |-> <<i>>]
    <3>1. buckets' = Append(buckets, r) BY <2>2, <1>1 DEF SessionsWith
    <3>2. ~(Len(buckets) >= MaxSessions) BY <2>2, <1>1 DEF NoRoomForSession
    <3>3. Len(buckets) < MaxSessions
      BY <3>2 DEF AssemblyInv, AssemblyAssumption
    <3>4. i \in Arrivals /\ incoming' = incoming BY <1>1, NextEvent
    <3>5. /\ key.value \in KeyValues
          /\ key.kind \in KeyKinds
          /\ KeyIn(incoming, ordinal', i, key.value)
      BY <1>1, FoundByKey DEF KeyIn
    <3>6. r \in BucketRecords
      <4>1. <<i>> \in Seq(Arrivals) BY <3>4
      <4>2. QED BY <4>1, <3>5 DEF BucketRecords
    <3>7. \A b \in DOMAIN buckets : Lab(Lead(b)) # Lab(i) BY <2>2, <1>2
    <3> HIDE DEF key
    <3>8. QED BY <1>1, <3>1, <3>3, <3>5, <3>6, <3>7, NewKeeps
  <2>3. QED BY <2>1, <2>2
<1>4. \A b \in DOMAIN buckets' : /\ buckets'[b].events \in Seq(Arrivals)'
                                 /\ Len(buckets'[b].events) =< MaxEventsPerSession
  <2> TAKE b \in DOMAIN buckets'
  <2>1. buckets'[b] \in BucketRecords' BY <1>3
  <2>2. buckets'[b].events \in Seq(Arrivals)' BY <2>1 DEF BucketRecords
  <2>3. Len(buckets'[b].events) \in 1 .. MaxEventsPerSession
    BY <1>3 DEF BucketOK, HoldsIn
  <2>4. QED BY <2>2, <2>3 DEF AssemblyAssumption
<1>5. /\ dropped' \in [sessions : Nat, events : Nat]
      /\ dropped'.sessions + dropped'.events = Cardinality(LeftOut')
  BY <1>1, <1>3 DEF AssemblyInv, AssemblyTypeOK
<1>6. AssemblyTypeOK' BY <1>1, <1>3, <1>4, <1>5, KeyKeeps DEF AssemblyTypeOK
<1>7. QED BY <1>1, <1>3, <1>5, <1>6, KeyKeeps DEF AssemblyInv

(* The end, when no event is left.                                          *)
LEMMA FinishKeeps ==
  ASSUME AssemblyAssumption, AssemblyInv, Finish
  PROVE  AssemblyInv'
<1>1. /\ UNCHANGED <<incoming, left, windowStart, ordinal, buckets, dropped>>
      /\ stage = "place" /\ left = {} /\ stage' = "done" /\ observed' = Observe
      /\ aborted' = IF dropped.sessions > 0 THEN "SESSION_BUDGET_EXHAUSTED"
                    ELSE IF dropped.events > 0 THEN "EVENT_BUDGET_EXHAUSTED" ELSE aborted
  BY DEF Finish
<1>2. aborted = "" /\ dropped \in [sessions : Nat, events : Nat]
  BY <1>1 DEF AssemblyInv, Ended, AssemblyTypeOK
<1>3. (aborted' # "") <=> (dropped.sessions + dropped.events > 0)
  <2>1. dropped.sessions \in Nat /\ dropped.events \in Nat BY <1>2
  <2>2. (dropped.sessions + dropped.events > 0) <=> (dropped.sessions > 0 \/ dropped.events > 0)
    BY <2>1
  <2>3. "SESSION_BUDGET_EXHAUSTED" # "" /\ "EVENT_BUDGET_EXHAUSTED" # "" OBVIOUS
  <2>4. QED BY <2>2, <2>3, <1>1, <1>2
<1>4. Observe' = Observe BY <1>1 DEF Observe, SessionOf
<1>5. Ended' BY <1>1, <1>3, <1>4 DEF Ended
<1>6. Placed' = Placed /\ Arrivals' = Arrivals BY <1>1 DEF Placed, Arrivals
<1>7. AssemblyTypeOK' BY <1>1, <1>6 DEF AssemblyInv, AssemblyTypeOK
<1>8. WindowsKept' /\ LeftOut' = LeftOut
  BY <1>1, <1>6 DEF AssemblyInv, WindowsKept, InScopePlaced, LeftOut
<1>9. \A b \in DOMAIN buckets : Lead(b)' = Lead(b) BY <1>1 DEF Lead
<1>10. (\A b \in DOMAIN buckets : BucketOK(b))' /\ BucketsInOrder' /\ OnlyLaterLeftOut'
  BY <1>1, <1>6, <1>9 DEF AssemblyInv, BucketOK, BucketsInOrder, OnlyLaterLeftOut, Lab
<1>11. QED BY <1>1, <1>5, <1>6, <1>7, <1>8, <1>10 DEF AssemblyInv, BucketRecords

(* A step in which nothing changes.                                         *)
LEMMA AssemblyStutters ==
  ASSUME AssemblyInv, UNCHANGED assemblyVars
  PROVE  AssemblyInv'
<1>1. UNCHANGED <<incoming, left, windowStart, ordinal, buckets, dropped, observed, aborted, stage>>
  BY DEF assemblyVars
<1>2. Placed' = Placed /\ Arrivals' = Arrivals /\ BucketRecords' = BucketRecords
  BY <1>1 DEF Placed, Arrivals, BucketRecords
<1>3. AssemblyTypeOK' BY <1>1, <1>2 DEF AssemblyInv, AssemblyTypeOK
<1>4. WindowsKept' /\ LeftOut' = LeftOut
  BY <1>1, <1>2 DEF AssemblyInv, WindowsKept, InScopePlaced, LeftOut
<1>5. \A b \in DOMAIN buckets : Lead(b)' = Lead(b) BY <1>1 DEF Lead
<1>6. (\A b \in DOMAIN buckets : BucketOK(b))' /\ BucketsInOrder' /\ OnlyLaterLeftOut'
  BY <1>1, <1>2, <1>5 DEF AssemblyInv, BucketOK, BucketsInOrder, OnlyLaterLeftOut, Lab
<1>7. Observe' = Observe BY <1>1 DEF Observe, SessionOf
<1>8. Ended' BY <1>1, <1>7 DEF AssemblyInv, Ended
<1>9. QED BY <1>1, <1>2, <1>3, <1>4, <1>6, <1>8 DEF AssemblyInv

(* Nothing is placed yet.                                                   *)
LEMMA AssemblyBegins ==
  ASSUME AssemblyAssumption, AssemblyInit
  PROVE  AssemblyInv
<1>1. /\ incoming \in Seq(Views) /\ left = Arrivals
      /\ windowStart = [s \in Scopes |-> NoTime] /\ ordinal = 0
  BY DEF AssemblyInit, AssemblyAssumption, Arrivals
<1>2. buckets = <<>> BY DEF AssemblyInit
<1>3. dropped = [sessions |-> 0, events |-> 0] BY DEF AssemblyInit
<1>4. aborted = "" /\ stage = "place" BY DEF AssemblyInit
<1>5. Placed = {} /\ LeftOut = {} BY <1>1 DEF Placed, LeftOut
<1>6. DOMAIN buckets = {} /\ Len(buckets) = 0 /\ buckets \in Seq(BucketRecords) BY <1>2
<1>7. Cardinality(Placed) = 0 /\ Cardinality(LeftOut) = 0 BY <1>5, FS_EmptySet
<1>8. dropped.sessions + dropped.events = 0 /\ dropped \in [sessions : Nat, events : Nat]
  BY <1>3
<1>9. AssemblyTypeOK
  <2>1. Len(incoming) \in Nat BY <1>1
  <2>2. ordinal \in 0 .. Len(incoming) BY <2>1, <1>1
  <2>3. Len(buckets) =< MaxSessions BY <1>6 DEF AssemblyAssumption
  <2>4. windowStart \in [Scopes -> Nat \cup {NoTime}] BY <1>1
  <2>5. QED BY <2>2, <2>3, <2>4, <1>1, <1>4, <1>6, <1>8 DEF AssemblyTypeOK
<1>10. WindowsKept BY <1>1, <1>5 DEF WindowsKept, InScopePlaced
<1>11. Ended BY <1>4 DEF Ended
<1>12. BucketsInOrder /\ OnlyLaterLeftOut /\ \A b \in DOMAIN buckets : BucketOK(b)
  BY <1>5, <1>6 DEF BucketsInOrder, OnlyLaterLeftOut
<1>13. ordinal =< Cardinality(Placed) BY <1>1, <1>7
<1>14. QED BY <1>5, <1>6, <1>7, <1>8, <1>9, <1>10, <1>11, <1>12, <1>13 DEF AssemblyInv

(* The invariant holds throughout.                                          *)
THEOREM AssemblyInvariant ==
  ASSUME AssemblyAssumption PROVE AssemblySpec => []AssemblyInv
<1>1. AssemblyInit => AssemblyInv BY AssemblyBegins
<1>2. AssemblyInv /\ [AssemblyNext]_assemblyVars => AssemblyInv'
  <2> SUFFICES ASSUME AssemblyInv, [AssemblyNext]_assemblyVars PROVE AssemblyInv' OBVIOUS
  <2>1. ASSUME NEW i \in left, Place(i) PROVE AssemblyInv' BY <2>1, PlaceKeeps
  <2>2. ASSUME NEW i \in left, DropSession(i) \/ DropEvent(i) PROVE AssemblyInv'
    BY <2>2, DropKeeps
  <2>3. CASE Finish BY <2>3, FinishKeeps
  <2>4. CASE UNCHANGED assemblyVars BY <2>4, AssemblyStutters
  <2>5. QED BY <2>1, <2>2, <2>3, <2>4 DEF AssemblyNext
<1>3. QED BY <1>1, <1>2, PTL DEF AssemblySpec
-----------------------------------------------------------------------------
(* What follows from the invariant.                                        *)

(* Two events of a bucket are of one group, so one thing merged them.       *)
LEMMA MergedJustly ==
  ASSUME AssemblyAssumption, AssemblyInv
  PROVE  MergedForAReason
<1> DEFINE f == incoming
<1>1. f \in Seq(Views) BY DEF AssemblyInv, AssemblyTypeOK
<1>2. SUFFICES ASSUME NEW b \in DOMAIN buckets, NEW i \in Range(buckets[b].events),
                      NEW j \in Range(buckets[b].events), i # j
      PROVE  \/ ProducerKey(i) # Absent /\ ProducerKey(i) = ProducerKey(j)
             \/ /\ Anonymous(Rv(i)) /\ Anonymous(Rv(j))
                /\ Rv(i).scope # Absent /\ Rv(i).scope = Rv(j).scope
                /\ HasClock(i) /\ HasClock(j)
                /\ Rv(i).ts - Rv(j).ts =< Window
  BY DEF MergedForAReason
<1>3. i \in Arrivals /\ j \in Arrivals /\ LabelIn(f, j) = LabelIn(f, i)
  BY BucketFacts DEF Placed, Lab
<1>4. CASE ~Nameless(f, i)
  <2>1. NameIn(f, j) = NameIn(f, i) /\ NameIn(f, i) \in Ids
    BY <1>1, <1>3, <1>4, SameLabel, InFile DEF Arrivals
  <2>2. QED BY <2>1, <1>1, <1>3, AsSaid DEF AssemblyAssumption
<1>5. CASE Nameless(f, i) /\ (f[i].scope = Absent \/ f[i].ts = NoTime)
  BY <1>1, <1>2, <1>3, <1>5, SameLabel DEF Arrivals
<1>6. ASSUME NEW s \in Scopes, Scoped(f, i, s)
      PROVE  /\ Anonymous(Rv(i)) /\ Anonymous(Rv(j))
             /\ Rv(i).scope # Absent /\ Rv(i).scope = Rv(j).scope
             /\ HasClock(i) /\ HasClock(j)
             /\ Rv(i).ts - Rv(j).ts =< Window
  <2>1. Scoped(f, j, s) /\ f[j].ts - StartIn(f, i) \in 0 .. Window
    BY <1>1, <1>3, <1>6, SameLabel DEF Arrivals
  <2>2. f[i].ts - StartIn(f, i) \in 0 .. Window /\ StartIn(f, i) \in Nat
    BY <1>1, <1>3, <1>6, StartFits DEF Arrivals
  <2>3. /\ f[i].ts # NoTime /\ f[j].ts # NoTime /\ f[i].ts \in Nat /\ f[j].ts \in Nat
        /\ Window \in Nat /\ f[i].scope = s /\ f[j].scope = s /\ s # Absent
    BY <2>1, <1>1, <1>3, <1>6, InFile DEF Scoped, Arrivals, AssemblyAssumption
  <2>4. f[i].ts - f[j].ts =< Window BY <2>1, <2>2, <2>3
  <2>5. Anonymous(Rv(i)) /\ Anonymous(Rv(j)) BY <2>1, <1>1, <1>3, <1>6, AsSaid DEF Scoped
  <2>6. QED BY <2>3, <2>4, <2>5 DEF HasClock, Rv
<1>7. QED BY <1>1, <1>3, <1>4, <1>5, <1>6, Labelled DEF Arrivals

(* The group of a bucket, when every event was placed.                     *)
LEMMA BucketsGroup ==
  ASSUME AssemblyAssumption, AssemblyInv, left = {}, NEW b \in DOMAIN buckets
  PROVE  LET g == GroupIn(incoming, Lead(b)) IN
         /\ g \in Groups /\ FirstOf(g) = Lead(b) /\ Lead(b) \in g
         /\ Range(buckets[b].events) =
              {i \in g : Cardinality({j \in g : Before(j, i)}) < MaxEventsPerSession}
<1> DEFINE f == incoming
           g == GroupIn(f, Lead(b))
           es == buckets[b].events
<1>1. f \in Seq(Views) /\ Placed = Arrivals BY DEF AssemblyInv, AssemblyTypeOK, Placed
<1>2. /\ Lead(b) \in Arrivals /\ Range(es) \subseteq {j \in Arrivals : Lab(j) = Lab(Lead(b))}
      /\ HoldsIn(f, Arrivals, ordinal, es, buckets[b].key) /\ Lead(b) = es[1]
  BY <1>1, BucketFacts DEF BucketOK, Lead
<1>3. g = {j \in Arrivals : Lab(j) = Lab(Lead(b))} BY DEF GroupIn, Lab, Arrivals
<1>4. g \in Groups /\ Lead(b) \in g /\ g \subseteq Arrivals BY <1>1, <1>2, <1>3, GroupsAre
<1>5. \A j \in g \ {Lead(b)} : BeforeIn(f, Lead(b), j) BY <1>2, <1>3 DEF HoldsIn, Lab
<1>6. FirstOf(g) = Lead(b) BY <1>1, <1>4, <1>5, FirstIs
<1>7. ASSUME NEW i \in g PROVE {j \in g : Before(j, i)} = AheadIn(f, i)
  <2>1. GroupIn(f, i) = g BY <1>3 DEF GroupIn, Lab, Arrivals
  <2>2. \A j \in g : Before(j, i) <=> BeforeIn(f, j, i) BY <1>1, <1>4, AsSaid
  <2>3. QED BY <2>1, <2>2 DEF AheadIn
<1>8. \A i \in g : i \in Range(es) => Cardinality(AheadIn(f, i)) < MaxEventsPerSession
  BY <1>2 DEF HoldsIn
<1>9. ASSUME NEW i \in g, Cardinality(AheadIn(f, i)) < MaxEventsPerSession PROVE i \in Range(es)
  <2>1. SUFFICES ASSUME i \notin Range(es) PROVE FALSE OBVIOUS
  <2>2. Cardinality(AheadIn(f, i)) >= MaxEventsPerSession BY <2>1, <1>2, <1>3 DEF HoldsIn, Lab
  <2>3. IsFiniteSet(AheadIn(f, i))
    <3>1. IsFiniteSet(Arrivals)
      <4>1. \A n \in Nat : IsFiniteSet(1 .. n) BY FS_Interval
      <4>2. QED BY <4>1, <1>1 DEF Arrivals
    <3>2. AheadIn(f, i) \in SUBSET Arrivals BY DEF AheadIn, GroupIn, Arrivals
    <3>3. QED BY <3>1, <3>2, FS_Subset
  <2>4. Cardinality(AheadIn(f, i)) \in Nat BY <2>3, FS_CardinalityType
  <2>5. QED BY <2>2, <2>4, <1>9 DEF AssemblyAssumption
<1>10. Range(es) = {i \in g : Cardinality(AheadIn(f, i)) < MaxEventsPerSession}
  BY <1>2, <1>3, <1>8, <1>9
<1>11. QED BY <1>4, <1>6, <1>7, <1>10

(* The image of a finite set under a function.                             *)
LEMMA ImageFinite ==
  ASSUME NEW S, IsFiniteSet(S), NEW F, F \in [S -> Range(F)]
  PROVE  IsFiniteSet(Range(F)) /\ Cardinality(Range(F)) =< Cardinality(S)
<1>1. F \in Surjection(S, Range(F)) BY DEF Surjection, Range
<1>2. QED BY <1>1, FS_Surjection

(* The groups before a group are as many as have a bucket before its own,  *)

(* and a group without a bucket has all the buckets' groups before it.     *)
LEMMA GroupsBefore ==
  ASSUME AssemblyAssumption, AssemblyInv, left = {}
  PROVE  /\ \A b \in DOMAIN buckets :
              Cardinality({h \in Groups :
                Before(FirstOf(h), FirstOf(GroupIn(incoming, Lead(b))))}) < MaxSessions
         /\ \A g \in Groups :
              \/ \E b \in DOMAIN buckets : g = GroupIn(incoming, Lead(b))
              \/ ~(Cardinality({h \in Groups : Before(FirstOf(h), FirstOf(g))}) < MaxSessions)
<1> DEFINE f == incoming
           G(b) == GroupIn(f, Lead(b))
           Earlier(g) == {h \in Groups : Before(FirstOf(h), FirstOf(g))}
<1>1. /\ f \in Seq(Views) /\ Placed = Arrivals /\ buckets \in Seq(BucketRecords)
      /\ Len(buckets) =< MaxSessions
  BY DEF AssemblyInv, AssemblyTypeOK, Placed
<1>2. /\ DOMAIN buckets = 1 .. Len(buckets) /\ Len(buckets) \in Nat /\ MaxSessions \in Nat
  BY <1>1 DEF AssemblyAssumption
<1>3. \A b \in DOMAIN buckets :
        G(b) \in Groups /\ FirstOf(G(b)) = Lead(b) /\ Lead(b) \in G(b) /\ Lead(b) \in Arrivals
  BY <1>1, BucketsGroup, BucketFacts
<1>4. \A n \in Nat : IsFiniteSet(1 .. n) /\ Cardinality(1 .. n) = n BY FS_Interval
<1>5. IsFiniteSet(Groups)
  <2> DEFINE F == [i \in Arrivals |-> GroupIn(f, i)]
  <2>1. Groups = Range(F) BY <1>1, GroupsAre DEF Range
  <2>2. IsFiniteSet(Arrivals) BY <1>1, <1>4 DEF Arrivals
  <2>3. F \in [Arrivals -> Range(F)] BY DEF Range
  <2> HIDE DEF F
  <2>4. QED BY <2>1, <2>2, <2>3, ImageFinite
<1>6. ASSUME NEW g \in Groups
      PROVE  /\ FirstOf(g) \in Arrivals
             /\ \/ \E b \in DOMAIN buckets : g = G(b)
                \/ /\ Len(buckets) >= MaxSessions
                   /\ \A c \in DOMAIN buckets : BeforeIn(f, Lead(c), FirstOf(g))
  <2>1. PICK k \in Arrivals : g = GroupIn(f, k) BY <1>1, GroupsAre
  <2>2. k \in g /\ g \subseteq Arrivals BY <2>1 DEF GroupIn, Arrivals
  <2>3. PICK m \in g : \A j \in g \ {m} : BeforeIn(f, m, j)
    BY <2>2, <1>1, FirstExists DEF Arrivals
  <2>4. FirstOf(g) = m /\ m \in Arrivals BY <2>2, <2>3, <1>1, FirstIs
  <2>5. Lab(m) = Lab(k) BY <2>1, <2>3 DEF GroupIn, Lab
  <2>6. \A b \in DOMAIN buckets : Lab(Lead(b)) = Lab(k) => g = G(b)
    BY <2>1 DEF GroupIn, Lab
  <2>7. QED BY <2>4, <2>5, <2>6, <1>1 DEF AssemblyInv, OnlyLaterLeftOut
<1>7. ASSUME NEW b \in DOMAIN buckets PROVE Cardinality(Earlier(G(b))) < MaxSessions
  <2>1. b \in Nat /\ b - 1 \in Nat /\ b - 1 < MaxSessions /\ b =< Len(buckets) BY <1>1, <1>2
  <2> DEFINE S == 1 .. b - 1
             F == [c \in S |-> G(c)]
  <2>2. ASSUME NEW h \in Earlier(G(b)) PROVE \E c \in S : h = G(c)
    <3>1. h \in Groups /\ FirstOf(h) \in Arrivals /\ BeforeIn(f, FirstOf(h), Lead(b))
      BY <1>1, <1>3, <1>6, AsSaid
    <3>2. PICK c \in DOMAIN buckets : h = G(c)
      BY <3>1, <1>1, <1>3, <1>6, ClockOrder DEF Arrivals
    <3>3. BeforeIn(f, Lead(c), Lead(b)) BY <3>1, <3>2, <1>3
    <3>4. c # b BY <3>3, <1>1, <1>3, ClockOrder DEF Arrivals
    <3>5. ~(b < c) BY <3>3, <1>1, <1>3, ClockOrder DEF Arrivals, AssemblyInv, BucketsInOrder
    <3>6. c \in S BY <3>4, <3>5, <2>1, <1>2
    <3>7. QED BY <3>2, <3>6
  <2>3. F \in [S -> Range(F)] /\ \A c \in S : G(c) \in Range(F) BY DEF Range
  <2>4. IsFiniteSet(S) /\ Cardinality(S) = b - 1 BY <1>4, <2>1
  <2> HIDE DEF S, F
  <2>5. IsFiniteSet(Range(F)) /\ Cardinality(Range(F)) =< b - 1 BY <2>3, <2>4, ImageFinite
  <2>6. Earlier(G(b)) \in SUBSET Range(F) BY <2>2, <2>3
  <2> HIDE DEF Earlier, G
  <2>7. /\ Cardinality(Earlier(G(b))) =< Cardinality(Range(F))
        /\ IsFiniteSet(Earlier(G(b)))
    BY <2>5, <2>6, FS_Subset
  <2>8. Cardinality(Earlier(G(b))) \in Nat /\ Cardinality(Range(F)) \in Nat
    BY <2>5, <2>7, FS_CardinalityType
  <2>9. QED BY <2>1, <2>5, <2>7, <2>8, <1>2
<1>8. ASSUME NEW g \in Groups, \A b \in DOMAIN buckets : g # G(b)
      PROVE  ~(Cardinality(Earlier(g)) < MaxSessions)
  <2> DEFINE F == [c \in DOMAIN buckets |-> G(c)]
  <2>1. /\ Len(buckets) >= MaxSessions /\ FirstOf(g) \in Arrivals
        /\ \A c \in DOMAIN buckets : BeforeIn(f, Lead(c), FirstOf(g))
    BY <1>6, <1>8
  <2>2. \A c \in DOMAIN buckets : G(c) \in Earlier(g) BY <2>1, <1>1, <1>3, AsSaid
  <2>3. IsFiniteSet(Earlier(g))
    <3>1. Earlier(g) \in SUBSET Groups OBVIOUS
    <3>2. QED BY <3>1, <1>5, FS_Subset
  <2>4. \A b, c \in DOMAIN buckets : G(b) = G(c) => b = c
    <3> TAKE b, c \in DOMAIN buckets
    <3>1. G(b) = G(c) => Lab(Lead(b)) = Lab(Lead(c)) BY <1>3 DEF GroupIn, Lab
    <3>2. QED BY <3>1, OneBucket
  <2> HIDE DEF Earlier, G
  <2>5. F \in Injection(DOMAIN buckets, Earlier(g)) BY <2>2, <2>4 DEF Injection, IsInjective
  <2>6. Cardinality(DOMAIN buckets) =< Cardinality(Earlier(g)) BY <2>3, <2>5, FS_Injection
  <2>7. Cardinality(DOMAIN buckets) = Len(buckets) BY <1>2, <1>4
  <2>8. Cardinality(Earlier(g)) \in Nat BY <2>3, FS_CardinalityType
  <2>9. QED BY <2>1, <2>6, <2>7, <2>8, <1>2
<1>9. QED BY <1>7, <1>8

(* The buckets are the groups the budgets leave.                            *)
LEMMA GroupedAsSaid ==
  ASSUME AssemblyAssumption, AssemblyInv
  PROVE  SessionsAsGrouped
<1>1. SUFFICES ASSUME left = {}
      PROVE  {Range(buckets[b].events) : b \in DOMAIN buckets} = Sessions
  BY DEF SessionsAsGrouped, AssemblyInv, Ended
<1> DEFINE G(b) == GroupIn(incoming, Lead(b))
           Earlier(g) == {h \in Groups : Before(FirstOf(h), FirstOf(g))}
           Kept(g) == {i \in g : Cardinality({j \in g : Before(j, i)}) < MaxEventsPerSession}
<1>2. Sessions = {Kept(g) : g \in {h \in Groups : Cardinality(Earlier(h)) < MaxSessions}}
  BY DEF Sessions
<1>3. \A b \in DOMAIN buckets :
        /\ G(b) \in Groups /\ Range(buckets[b].events) = Kept(G(b))
        /\ Cardinality(Earlier(G(b))) < MaxSessions
  BY <1>1, BucketsGroup, GroupsBefore
<1>4. \A g \in Groups :
        Cardinality(Earlier(g)) < MaxSessions => \E b \in DOMAIN buckets : g = G(b)
  BY <1>1, GroupsBefore
<1> HIDE DEF G, Earlier, Kept
<1>5. QED BY <1>2, <1>3, <1>4

(* An event is in a bucket or left out, and those left out were counted.    *)
LEMMA Accounted ==
  ASSUME AssemblyAssumption, AssemblyInv
  PROVE  EveryEventAccounted
<1>1. SUFFICES ASSUME stage = "done"
      PROVE  /\ \A i \in Arrivals :
                  Cardinality({b \in DOMAIN buckets : i \in Range(buckets[b].events)}) =< 1
             /\ Cardinality({i \in Arrivals : SessionOf(i) = Absent})
                  = dropped.sessions + dropped.events
             /\ (aborted # "") <=> \E i \in Arrivals : SessionOf(i) = Absent
             /\ [n \in DOMAIN observed |-> observed[n][1]] = [i \in Arrivals |-> i]
  BY DEF EveryEventAccounted
<1>2. /\ left = {} /\ observed = Observe
      /\ (aborted # "") <=> (dropped.sessions + dropped.events > 0)
      /\ dropped.sessions + dropped.events = Cardinality(LeftOut)
  BY <1>1 DEF AssemblyInv, Ended
<1>3. incoming \in Seq(Views) /\ buckets \in Seq(BucketRecords) /\ Placed = Arrivals
  BY <1>2 DEF AssemblyInv, AssemblyTypeOK, Placed
<1>4. ASSUME NEW i \in Arrivals
      PROVE  Cardinality({b \in DOMAIN buckets : i \in Range(buckets[b].events)}) =< 1
  <2> DEFINE H == {b \in DOMAIN buckets : i \in Range(buckets[b].events)}
  <2>1. \A b, c \in H : b = c
    <3> TAKE b, c \in H
    <3>1. Lab(i) = Lab(Lead(b)) /\ Lab(i) = Lab(Lead(c)) BY BucketFacts
    <3>2. QED BY <3>1, OneBucket
  <2>2. H = {} \/ \E b \in H : H = {b} BY <2>1
  <2> HIDE DEF H
  <2>3. Cardinality(H) = 0 \/ Cardinality(H) = 1 BY <2>2, FS_EmptySet, FS_Singleton
  <2>4. QED BY <2>3 DEF H
<1>5. ASSUME NEW i \in Arrivals PROVE (SessionOf(i) = Absent) <=> (i \in LeftOut)
  <2> DEFINE H == {b \in DOMAIN buckets :
                     \E n \in DOMAIN buckets[b].events : buckets[b].events[n] = i}
  <2>1. SessionOf(i) = IF H = {} THEN Absent ELSE buckets[CHOOSE b \in H : TRUE].key
    BY DEF SessionOf
  <2>2. (i \in LeftOut) <=> (H = {}) BY <1>3 DEF LeftOut, Range
  <2>3. \A b \in H : b \in DOMAIN buckets OBVIOUS
  <2> HIDE DEF H
  <2>4. ASSUME NEW b \in H PROVE buckets[b].key # Absent
    <3>1. buckets[b] \in BucketRecords BY <2>3, <1>3
    <3>2. buckets[b].key \in KeyValues BY <3>1 DEF BucketRecords
    <3>3. Absent \notin KeyValues BY DEF KeyValues, AssemblyAssumption
    <3>4. QED BY <3>2, <3>3
  <2>5. H # {} => (CHOOSE b \in H : TRUE) \in H OBVIOUS
  <2>6. QED BY <2>1, <2>2, <2>4, <2>5
<1>6. {i \in Arrivals : SessionOf(i) = Absent} = LeftOut BY <1>3, <1>5 DEF LeftOut
<1>7. IsFiniteSet(LeftOut)
  <2>1. \A n \in Nat : IsFiniteSet(1 .. n) BY FS_Interval
  <2>2. IsFiniteSet(Arrivals) BY <2>1, <1>3 DEF Arrivals
  <2>3. LeftOut \in SUBSET Arrivals BY <1>3 DEF LeftOut
  <2>4. QED BY <2>2, <2>3, FS_Subset
<1>8. (Cardinality(LeftOut) > 0) <=> (LeftOut # {})
  <2>1. Cardinality(LeftOut) \in Nat /\ (Cardinality(LeftOut) = 0 <=> LeftOut = {})
    BY <1>7, FS_CardinalityType, FS_EmptySet
  <2>2. QED BY <2>1
<1>9. (aborted # "") <=> \E i \in Arrivals : SessionOf(i) = Absent BY <1>2, <1>6, <1>8
<1>10. [n \in DOMAIN observed |-> observed[n][1]] = [i \in Arrivals |-> i]
  BY <1>2 DEF Observe, Arrivals
<1>11. QED BY <1>2, <1>4, <1>6, <1>9, <1>10

(* The sessions are those the records themselves say, whatever order they  *)
(* arrived in; records share one for a reason, and each accepted event is  *)
(* in one or dropped, counted and reported (assemble, Correlator.key_for). *)
THEOREM GroupedJustly ==
  ASSUME AssemblyAssumption PROVE AssemblySpec => []GroupedByWhatTheySay
<1>1. AssemblyInv => GroupedByWhatTheySay
  <2> SUFFICES ASSUME AssemblyInv PROVE GroupedByWhatTheySay OBVIOUS
  <2>1. AssemblyTypeOK BY DEF AssemblyInv
  <2>2. QED BY <2>1, MergedJustly, GroupedAsSaid, Accounted DEF GroupedByWhatTheySay
<1>2. AssemblySpec => []AssemblyInv BY AssemblyInvariant
<1>3. QED BY <1>1, <1>2, PTL
=============================================================================
