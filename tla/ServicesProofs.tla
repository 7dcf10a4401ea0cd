--------------------------- MODULE ServicesProofs ---------------------------
(***************************************************************************)
(* Theorems about the two services of every test.                          *)
(*                                                                         *)
(* The report, for all applications, pages, kinds of fault logs and lengths*)
(* of a segment: each input and each fault log is counted exactly once; no *)
(* coverage is above 100%; the focus report has a line for each of its     *)
(* inputs; wherever the program is killed, a recent report is left;        *)
(* between two inputs the two reports say the same.                        *)
(*                                                                         *)
(* The logger, for any threads, any number of messages and any size of the *)
(* queue: the buffers stay bounded, no accepted message is lost on its way *)
(* to the file, and what was accepted before Stop is in the file when Stop *)
(* returns.                                                                *)
(***************************************************************************)
EXTENDS Report, WuKongLogger, SumTheorems, SequenceTheorems, TLAPS

-----------------------------------------------------------------------------
(* The report.                                                             *)

(* The part of the state the two threads share, and the counts made of it. *)
SharedTypeOK ==
  /\ dataVector = [event |-> dataVector.event,
                   componment |-> dataVector.componment,
                   exception |-> dataVector.exception]
  /\ dataVector.exception \in Seq(Exception)
  /\ exceptionCount \in [Exception -> Nat]
  /\ faults \in [Exception -> Nat]

(* The main thread holds crashMtx_ while it counts and clears.             *)
HoldsLock == crashMtx = "main" <=> pc \in {"count", "clear"}

IInv == SharedTypeOK /\ HoldsLock /\ EveryExceptionCounted

-----------------------------------------------------------------------------

Occurrences(s, e) == Cardinality({i \in DOMAIN s : s[i] = e})

(* How often a value occurs in a sequence is a number.                     *)
LEMMA OccurrencesType ==
  ASSUME NEW S, NEW s \in Seq(S), NEW e
  PROVE  Occurrences(s, e) \in Nat
<1>1. /\ Len(s) \in Nat
      /\ DOMAIN s = 1 .. Len(s)
  OBVIOUS
<1>2. IsFiniteSet(DOMAIN s)
  BY <1>1, FS_Interval
<1>3. IsFiniteSet({i \in DOMAIN s : s[i] = e})
  BY <1>2, FS_Subset
<1>4. QED
  BY <1>3, FS_CardinalityType DEF Occurrences

(* A value occurs once more when it is appended, and no other does.        *)
LEMMA OccurrencesAppend ==
  ASSUME NEW S, NEW s \in Seq(S), NEW x \in S, NEW e
  PROVE  Occurrences(Append(s, x), e) =
           Occurrences(s, e) + IF x = e THEN 1 ELSE 0
<1> DEFINE n == Len(s)
           at(q) == {i \in DOMAIN q : q[i] = e}
<1>1. /\ n \in Nat
      /\ DOMAIN s = 1 .. n
      /\ DOMAIN Append(s, x) = 1 .. n + 1
      /\ \A i \in 1 .. n : Append(s, x)[i] = s[i]
      /\ Append(s, x)[n + 1] = x
  OBVIOUS
<1>2. IsFiniteSet(at(s)) /\ n + 1 \notin at(s)
  <2>1. IsFiniteSet(DOMAIN s)
    BY <1>1, FS_Interval
  <2>2. IsFiniteSet(at(s))
    BY <2>1, FS_Subset
  <2>3. n + 1 \notin at(s)
    BY <1>1
  <2>4. QED
    BY <2>2, <2>3
<1>3. Cardinality(at(s)) \in Nat
  BY <1>2, FS_CardinalityType
<1>4. CASE x = e
  <2>1. at(Append(s, x)) = at(s) \cup {n + 1}
    BY <1>1, <1>4
  <2>2. Cardinality(at(Append(s, x))) = Cardinality(at(s)) + 1
    BY <1>2, <2>1, FS_AddElement
  <2>3. QED
    BY <1>4, <2>2 DEF Occurrences
<1>5. CASE x # e
  <2>1. at(Append(s, x)) = at(s)
    BY <1>1, <1>5
  <2>2. Occurrences(Append(s, x), e) = Occurrences(s, e)
    BY <2>1, Zenon DEF Occurrences
  <2>3. Occurrences(s, e) \in Nat
    BY OccurrencesType
  <2>4. QED
    BY <1>5, <2>2, <2>3
<1>6. QED
  BY <1>4, <1>5

(* Nothing occurs in the empty sequence.                                   *)
LEMMA OccurrencesEmpty == \A e : Occurrences(<<>>, e) = 0
<1>1. \A e : {i \in DOMAIN <<>> : <<>>[i] = e} = {}
  OBVIOUS
<1>2. QED
  BY <1>1, FS_EmptySet DEF Occurrences

(* What is pending, by the records of exceptions.                          *)
LEMMA PendingOccurs ==
  ASSUME NEW e
  PROVE  Pending(e) = Occurrences(dataVector.exception, e)
BY DEF Pending, Occurrences

-----------------------------------------------------------------------------

(* The exceptions are counted in the initial state.                        *)
LEMMA InitInductive == Init => IInv
<1> SUFFICES ASSUME Init PROVE IInv
  OBVIOUS
<1>1. SharedTypeOK
  BY DEF Init, SharedTypeOK
<1>2. HoldsLock
  BY DEF Init, HoldsLock
<1>3. EveryExceptionCounted
  BY OccurrencesEmpty, PendingOccurs DEF Init, EveryExceptionCounted
<1>4. QED
  BY <1>1, <1>2, <1>3 DEF IInv

(* A step that leaves the exceptions alone keeps the invariant.            *)
LEMMA ElsewhereInductive ==
  ASSUME IInv,
         UNCHANGED <<exceptionCount, faults, crashMtx>>,
         dataVector'.exception = dataVector.exception,
         dataVector' = [event |-> dataVector'.event,
                        componment |-> dataVector'.componment,
                        exception |-> dataVector'.exception],
         pc \notin {"count", "clear"}, pc' \notin {"count", "clear"}
  PROVE  IInv'
<1>1. SharedTypeOK'
  BY DEF IInv, SharedTypeOK
<1>2. HoldsLock'
  BY DEF IInv, HoldsLock
<1>3. \A e : Pending(e)' = Pending(e)
  BY DEF Pending
<1>4. EveryExceptionCounted'
  BY <1>3 DEF IInv, EveryExceptionCounted
<1>5. QED
  BY <1>1, <1>2, <1>4 DEF IInv

(* Every step keeps the invariant.                                         *)
LEMMA NextInductive == IInv /\ [Next]_vars => IInv'
<1> SUFFICES ASSUME IInv, [Next]_vars PROVE IInv'
  OBVIOUS
<1> USE DEF countVars, inputVars, files
<1>1. CASE FirstAppSwitch
  BY <1>1, ElsewhereInductive DEF FirstAppSwitch, IInv, SharedTypeOK
<1>2. ASSUME NEW b \in Bundle, NEW e \in Event, SyncEvent(b, e)
      PROVE  IInv'
  BY <1>2, ElsewhereInductive DEF SyncEvent, Counted, IInv, SharedTypeOK
<1>3. ASSUME NEW b \in Bundle, NEW t \in Type, NEW page \in Page,
             NEW contents \in Contents[page],
             SyncComponment(b, t, page, contents)
      PROVE  IInv'
  BY <1>3, ElsewhereInductive DEF SyncComponment, Counted, IInv, SharedTypeOK
<1>4. CASE Finish
  BY <1>4, ElsewhereInductive DEF Finish, IInv, SharedTypeOK
<1>5. CASE StatisticsData
  BY <1>5, ElsewhereInductive DEF StatisticsData, Cleared, IInv, SharedTypeOK
<1>6. CASE LockCrash
  <2>1. SharedTypeOK'
    BY <1>6 DEF LockCrash, IInv, SharedTypeOK
  <2>2. HoldsLock'
    BY <1>6 DEF LockCrash, HoldsLock
  <2>3. \A e : Pending(e)' = Pending(e)
    BY <1>6 DEF LockCrash, Pending
  <2>4. EveryExceptionCounted'
    BY <1>6, <2>3 DEF LockCrash, IInv, EveryExceptionCounted
  <2>5. QED
    BY <2>1, <2>2, <2>4 DEF IInv
<1>7. CASE CountExceptions
  <2>1. \A e \in Exception : Pending(e) \in Nat
    BY PendingOccurs, OccurrencesType DEF IInv, SharedTypeOK
  <2>2. SharedTypeOK'
    BY <1>7, <2>1 DEF CountExceptions, IInv, SharedTypeOK
  <2>3. HoldsLock'
    BY <1>7 DEF CountExceptions, IInv, HoldsLock
  <2>4. \A e \in Exception : faults[e] = exceptionCount[e] + Pending(e)
    BY <1>7 DEF CountExceptions, IInv, EveryExceptionCounted
  <2>5. EveryExceptionCounted'
    BY <1>7, <2>2, <2>4
    DEF CountExceptions, EveryExceptionCounted, SharedTypeOK
  <2>6. QED
    BY <2>2, <2>3, <2>5 DEF IInv
<1>8. CASE ClearExceptions
  <2>1. SharedTypeOK'
    BY <1>8 DEF ClearExceptions, IInv, SharedTypeOK
  <2>2. HoldsLock'
    BY <1>8 DEF ClearExceptions, HoldsLock
  <2>3. \A e : Pending(e)' = 0
    <3>1. dataVector'.exception = <<>>
      BY <1>8 DEF ClearExceptions, IInv, SharedTypeOK
    <3>2. QED
      BY <3>1, OccurrencesEmpty DEF Pending, Occurrences
  <2>4. EveryExceptionCounted'
    BY <1>8, <2>3 DEF ClearExceptions, IInv, EveryExceptionCounted
  <2>5. QED
    BY <2>1, <2>2, <2>4 DEF IInv
<1>9. CASE TruncateCsv \/ WriteCsv \/ TruncateJson \/ WriteJson
  BY <1>9, ElsewhereInductive
  DEF TruncateCsv, WriteCsv, TruncateJson, WriteJson, IInv, SharedTypeOK
<1>10. CASE SegmentedWriteForFocusInput
  BY <1>10, ElsewhereInductive
  DEF SegmentedWriteForFocusInput, IInv, SharedTypeOK
<1>11. ASSUME NEW kind \in Kind, ExceptionRecord(kind)
       PROVE  IInv'
  <2>1. HoldsLock' /\ pc \notin {"count", "clear"}
    BY <1>11 DEF ExceptionRecord, IInv, HoldsLock
  <2>2. CASE kind = ""
    <3>1. dataVector' = [dataVector EXCEPT !.exception = @]
      BY <1>11, <2>2 DEF ExceptionRecord, FilterDetail
    <3>2. QED
      BY <1>11, <2>1, <2>2, <3>1, ElsewhereInductive
      DEF ExceptionRecord, IInv, SharedTypeOK
  <2>3. CASE kind # ""
    <3>1. kind \in Exception
      BY <2>3 DEF Kind
    <3>2. dataVector'.exception = Append(dataVector.exception, kind)
      BY <1>11, <2>3 DEF ExceptionRecord, FilterDetail, IInv, SharedTypeOK
    <3>3. faults' = [faults EXCEPT ![kind] = @ + 1]
      BY <1>11, <2>3 DEF ExceptionRecord
    <3>4. SharedTypeOK'
      <4>1. dataVector'.exception \in Seq(Exception)
        BY <3>1, <3>2 DEF IInv, SharedTypeOK
      <4>2. /\ exceptionCount' \in [Exception -> Nat]
            /\ faults' \in [Exception -> Nat]
        <5>1. UNCHANGED exceptionCount
          BY <1>11 DEF ExceptionRecord
        <5>2. QED
          BY <3>1, <3>3, <5>1 DEF IInv, SharedTypeOK
      <4>3. dataVector' = [event |-> dataVector'.event,
                           componment |-> dataVector'.componment,
                           exception |-> dataVector'.exception]
        BY <1>11 DEF ExceptionRecord, IInv, SharedTypeOK
      <4>4. QED
        BY <4>1, <4>2, <4>3 DEF SharedTypeOK
    <3>5. ASSUME NEW e \in Exception
          PROVE  Pending(e)' = Pending(e) + IF kind = e THEN 1 ELSE 0
      <4>1. dataVector.exception \in Seq(Exception)
        BY DEF IInv, SharedTypeOK
      <4>2. Pending(e)' = Occurrences(Append(dataVector.exception, kind), e)
        BY <3>2 DEF Pending, Occurrences
      <4>3. Occurrences(Append(dataVector.exception, kind), e) =
              Occurrences(dataVector.exception, e) + IF kind = e THEN 1 ELSE 0
        BY <3>1, <4>1, OccurrencesAppend
      <4>4. QED
        BY <4>2, <4>3, PendingOccurs
    <3>6. \A e \in Exception : Pending(e) \in Nat
      <4>1. dataVector.exception \in Seq(Exception)
        BY DEF IInv, SharedTypeOK
      <4>2. \A e : Occurrences(dataVector.exception, e) \in Nat
        BY <4>1, OccurrencesType
      <4>3. QED
        BY <4>2, PendingOccurs
    <3>7. EveryExceptionCounted'
      <4>1. UNCHANGED <<exceptionCount, pc>>
        BY <1>11 DEF ExceptionRecord
      <4>2. pc # "clear"
        BY <2>1
      <4>3. SUFFICES ASSUME NEW e \in Exception
                     PROVE  faults'[e] = exceptionCount[e] + Pending(e)'
        BY <4>1, <4>2 DEF EveryExceptionCounted
      <4>4. /\ faults[e] = exceptionCount[e] + Pending(e)
            /\ faults[e] \in Nat
            /\ exceptionCount[e] \in Nat
        BY <4>2 DEF IInv, SharedTypeOK, EveryExceptionCounted
      <4>5. faults'[e] = faults[e] + IF kind = e THEN 1 ELSE 0
        BY <3>1, <3>3 DEF IInv, SharedTypeOK
      <4>6. QED
        BY <3>5, <3>6, <4>4, <4>5
    <3>8. QED
      BY <2>1, <3>4, <3>7 DEF IInv
  <2>4. QED
    BY <2>2, <2>3
<1>12. CASE Terminated \/ UNCHANGED vars
  <2>1. UNCHANGED vars
    BY <1>12 DEF Terminated
  <2>2. \A e : Pending(e)' = Pending(e)
    BY <2>1 DEF vars, Pending
  <2>3. QED
    BY <2>1, <2>2
    DEF vars, IInv, SharedTypeOK, HoldsLock, EveryExceptionCounted
<1>13. QED
  BY <1>1, <1>2, <1>3, <1>4, <1>5, <1>6, <1>7, <1>8, <1>9, <1>10, <1>11,
     <1>12
  DEF Next, Main, SyncInputInfo, ListenCrashDir

(* A fault log is counted exactly once, whenever the thread that watches   *)
(* their directory records it (ExceptionRecord and SegmentedWriteCSV).     *)
THEOREM ExceptionsCounted == Spec => []EveryExceptionCounted
<1>1. IInv => EveryExceptionCounted
  BY DEF IInv
<1>2. QED
  BY InitInductive, NextInductive, <1>1, PTL DEF Spec

-----------------------------------------------------------------------------
(* What a killed program leaves, and what two reports of one state say.    *)

Stage == {"statistics", "lock", "count", "clear", "csv", "csv content", "json",
          "json content", "focus", "done", "run"}

(* A file misses at most a segment of the inputs.                          *)
Recent(f) == f.whole /\ taskCount - f.task <= Segment

(* A file misses none.                                                     *)
Full(f) == f.whole /\ f.task = taskCount

(* The number of an input in its segment.                                  *)
InSegment(n) == n % Segment

(* Both files go as far as the last full segment.                          *)
LastFull == taskCount - InSegment(taskCount)

UpToSegment ==
  csv.whole /\ csv.task = LastFull /\ json.whole /\ json.task = LastFull

TaskInv == taskCount \in Nat /\ pc \in Stage

(* A segment is full when it is written, but for the last one.             *)
SegmentInv == pc # "run" /\ ~finishing => SegmentFull(taskCount)

RunInv == pc = "run" /\ taskCount >= Segment => UpToSegment

(* Before they are opened the files are those of the segment before.       *)
KeptInv ==
  taskCount > Segment =>
    /\ pc \in {"statistics", "lock", "count", "clear", "csv"} => Recent(csv)
    /\ pc \in {"statistics", "lock", "count", "clear", "csv", "csv content",
               "json"} => Recent(json)

WrittenInv ==
  /\ pc \in {"json", "json content", "focus", "done"} => Full(csv)
  /\ pc \in {"focus", "done"} => Full(json)

(* Which of the files can be relied on, stage by stage.                    *)
FilesInv == TaskInv /\ SegmentInv /\ RunInv /\ KeptInv /\ WrittenInv

(* What is left of a number is what was added to a multiple.               *)
LEMMA Remainder ==
  ASSUME NEW q \in Nat, NEW r \in 0 .. Segment - 1
  PROVE  (Segment * q + r) % Segment = r
  BY SegmentAssumption

(* The number in its segment goes up by one until the segment is full.     *)
LEMMA SegmentNext ==
  ASSUME NEW n \in Nat
  PROVE  /\ InSegment(n) \in 0 .. Segment - 1
         /\ SegmentFull(n) <=> InSegment(n) = 0
         /\ ~SegmentFull(n + 1) => InSegment(n + 1) = InSegment(n) + 1
         /\ SegmentFull(n + 1) => InSegment(n) = Segment - 1
<1> DEFINE q == n \div Segment
           r == n % Segment
           next == (n + 1) % Segment
<1>1. q \in Nat /\ r \in 0 .. Segment - 1
  BY SegmentAssumption
<1>2. r = n - Segment * q
  BY SegmentAssumption
<1> HIDE DEF q, r
<1>3. ASSUME r + 1 < Segment PROVE next = r + 1
  <2>1. n + 1 = Segment * q + (r + 1)
    BY <1>1, <1>2, SegmentAssumption
  <2> QED
    BY <1>1, <1>3, <2>1, Remainder, SegmentAssumption
<1>4. ASSUME r + 1 = Segment PROVE next = 0
  <2>1. n + 1 = Segment * (q + 1) + 0
    BY <1>1, <1>2, <1>4, SegmentAssumption
  <2> QED
    BY <1>1, <2>1, Remainder, SegmentAssumption
<1> HIDE DEF next
<1>5. /\ next # 0 => next = r + 1
      /\ next = 0 => r = Segment - 1
  BY <1>1, <1>3, <1>4, SegmentAssumption
<1> QED
  BY <1>1, <1>5, Zenon DEF InSegment, SegmentFull, r, next

(* The first segment is full when it has all its inputs.                   *)
LEMMA SegmentIsFull == SegmentFull(Segment)
<1>1. Segment * 1 + 0 = Segment
  BY SegmentAssumption
<1>2. (Segment * 1 + 0) % Segment = 0
  BY Remainder, SegmentAssumption
<1> QED
  BY <1>1, <1>2 DEF SegmentFull

(* An input, which may fill the segment.                                   *)
LEMMA CountedFiles ==
  ASSUME FilesInv, NEW b, Counted(b), pc = "run"
  PROVE  FilesInv'
<1>1. /\ taskCount \in Nat /\ taskCount' = taskCount + 1
      /\ pc' = IF SegmentFull(taskCount + 1) THEN "statistics" ELSE "run"
      /\ UNCHANGED <<csv, json, finishing>>
  BY DEF Counted, files, FilesInv, TaskInv
<1>2. taskCount >= Segment => UpToSegment
  BY DEF FilesInv, RunInv
<1>3. TaskInv'
  BY <1>1 DEF TaskInv, Stage
<1>4. WrittenInv'
  BY <1>1 DEF WrittenInv
<1>5. CASE SegmentFull(taskCount + 1)
  <2>1. InSegment(taskCount) = Segment - 1 /\ pc' = "statistics"
    BY <1>1, <1>5, SegmentNext
  <2>2. KeptInv'
    <3>1. CASE taskCount' > Segment
      <4>1. taskCount >= Segment
        BY <1>1, <3>1, SegmentAssumption
      <4>2. LastFull = taskCount - (Segment - 1)
        BY <1>1, <2>1, SegmentAssumption DEF LastFull
      <4>3. Recent(csv)' /\ Recent(json)'
        BY <1>1, <1>2, <4>1, <4>2, SegmentAssumption DEF UpToSegment, Recent
      <4> QED
        BY <4>3 DEF KeptInv
    <3> QED
      BY <3>1 DEF KeptInv
  <2>3. SegmentInv' /\ RunInv'
    BY <1>1, <1>5, <2>1 DEF SegmentInv, RunInv
  <2> QED
    BY <1>3, <1>4, <2>2, <2>3 DEF FilesInv
<1>6. CASE ~SegmentFull(taskCount + 1)
  <2>1. /\ InSegment(taskCount + 1) = InSegment(taskCount) + 1
        /\ InSegment(taskCount) \in 0 .. Segment - 1 /\ pc' = "run"
    BY <1>1, <1>6, SegmentNext
  <2>2. taskCount + 1 # Segment
    BY <1>1, <2>1, SegmentIsFull, <1>6
  <2>3. LastFull' = LastFull
    BY <1>1, <2>1, SegmentAssumption DEF LastFull
  <2>4. taskCount' >= Segment => taskCount >= Segment
    BY <1>1, <2>2, SegmentAssumption
  <2>5. RunInv'
    BY <1>1, <1>2, <2>3, <2>4 DEF RunInv, UpToSegment
  <2>6. SegmentInv' /\ KeptInv'
    BY <2>1 DEF SegmentInv, KeptInv
  <2> QED
    BY <1>3, <1>4, <2>5, <2>6 DEF FilesInv
<1> QED
  BY <1>5, <1>6

(* The files are left alone, and so are the inputs; who writes goes on.    *)
LEMMA FilesKept ==
  ASSUME FilesInv, UNCHANGED <<taskCount, csv, json, finishing>>,
         pc' \in Stage,
         \/ pc' = pc
         \/ /\ pc \in {"statistics", "lock", "count", "clear"}
            /\ pc' \in {"lock", "count", "clear", "csv"}
  PROVE  FilesInv'
<1>1. TaskInv' /\ SegmentInv'
  BY DEF FilesInv, TaskInv, SegmentInv
<1>2. RunInv'
  BY DEF FilesInv, RunInv, UpToSegment, LastFull
<1>3. KeptInv'
  BY DEF FilesInv, KeptInv, Recent
<1>4. WrittenInv'
  BY DEF FilesInv, WrittenInv, Full
<1> QED
  BY <1>1, <1>2, <1>3, <1>4 DEF FilesInv

(* The end of the test, in the middle of a segment or not.                 *)
LEMMA FinishFiles ==
  ASSUME FilesInv, Finish
  PROVE  FilesInv'
<1>1. /\ pc = "run" /\ pc' = "statistics" /\ finishing' = TRUE
      /\ UNCHANGED <<taskCount, csv, json>> /\ taskCount \in Nat
  BY DEF Finish, inputVars, files, FilesInv, TaskInv
<1>2. KeptInv'
  <2>1. CASE taskCount > Segment
    <3>1. UpToSegment
      BY <1>1, <2>1, SegmentAssumption DEF FilesInv, RunInv
    <3>2. InSegment(taskCount) \in 0 .. Segment - 1
      BY <1>1, SegmentNext
    <3>3. Recent(csv)' /\ Recent(json)'
      BY <1>1, <3>1, <3>2, SegmentAssumption DEF UpToSegment, LastFull, Recent
    <3> QED
      BY <3>3 DEF KeptInv
  <2> QED
    BY <1>1, <2>1 DEF KeptInv
<1>3. TaskInv' /\ SegmentInv' /\ RunInv' /\ WrittenInv'
  BY <1>1 DEF TaskInv, Stage, SegmentInv, RunInv, WrittenInv
<1> QED
  BY <1>2, <1>3 DEF FilesInv

(* The files are written one after the other.                              *)
LEMMA WriteFiles ==
  ASSUME FilesInv, TruncateCsv \/ WriteCsv \/ TruncateJson \/ WriteJson
  PROVE  FilesInv'
<1> DEFINE writing == {"csv", "csv content", "json", "json content"}
<1>1. /\ UNCHANGED <<taskCount, finishing>> /\ pc \in writing
      /\ pc' \in Stage /\ pc' # "run"
  BY DEF TruncateCsv, WriteCsv, TruncateJson, WriteJson, inputVars, Stage
<1>2. TaskInv' /\ SegmentInv' /\ RunInv'
  BY <1>1 DEF FilesInv, TaskInv, SegmentInv, RunInv
<1>3. KeptInv' /\ WrittenInv'
  <2>1. CASE TruncateCsv
    <3>1. pc = "csv" /\ pc' = "csv content" /\ UNCHANGED json
      BY <2>1 DEF TruncateCsv
    <3> QED
      BY <1>1, <3>1 DEF FilesInv, KeptInv, WrittenInv, Recent
  <2>2. CASE WriteCsv
    <3>1. pc = "csv content" /\ pc' = "json" /\ UNCHANGED json
          /\ csv'.whole /\ csv'.task = taskCount
      BY <2>2 DEF WriteCsv
    <3> QED
      BY <1>1, <3>1 DEF FilesInv, KeptInv, WrittenInv, Recent, Full
  <2>3. CASE TruncateJson
    <3>1. pc = "json" /\ pc' = "json content" /\ UNCHANGED csv
      BY <2>3 DEF TruncateJson
    <3> QED
      BY <1>1, <3>1 DEF FilesInv, KeptInv, WrittenInv, Full
  <2>4. CASE WriteJson
    <3>1. pc = "json content" /\ pc' = "focus" /\ UNCHANGED csv
          /\ json'.whole /\ json'.task = taskCount
      BY <2>4 DEF WriteJson
    <3> QED
      BY <1>1, <3>1 DEF FilesInv, KeptInv, WrittenInv, Full
  <2> QED
    BY <2>1, <2>2, <2>3, <2>4
<1> QED
  BY <1>2, <1>3 DEF FilesInv

(* Back to the test: both files go as far as the segment that was filled.  *)
LEMMA BackToRun ==
  ASSUME FilesInv, SegmentedWriteForFocusInput
  PROVE  FilesInv'
<1>1. /\ pc = "focus" /\ UNCHANGED <<taskCount, csv, json, finishing>>
      /\ pc' = IF finishing THEN "done" ELSE "run"
      /\ taskCount \in Nat
  BY DEF SegmentedWriteForFocusInput, FilesInv, TaskInv
<1>2. Full(csv) /\ Full(json)
  BY <1>1 DEF FilesInv, WrittenInv
<1>3. TaskInv' /\ KeptInv' /\ WrittenInv'
  BY <1>1, <1>2 DEF TaskInv, Stage, KeptInv, WrittenInv, Full
<1>4. SegmentInv'
  BY <1>1 DEF FilesInv, SegmentInv
<1>5. RunInv'
  <2>1. CASE finishing
    BY <1>1, <2>1 DEF RunInv
  <2>2. CASE ~finishing
    <3>1. InSegment(taskCount) = 0
      BY <1>1, <2>2, SegmentNext DEF FilesInv, SegmentInv
    <3>2. LastFull = taskCount
      BY <1>1, <3>1 DEF LastFull
    <3>3. LastFull' = LastFull
      BY <1>1 DEF LastFull
    <3> QED
      BY <1>1, <1>2, <3>2, <3>3 DEF RunInv, UpToSegment, Full
  <2> QED
    BY <2>1, <2>2
<1> QED
  BY <1>3, <1>4, <1>5 DEF FilesInv

(* Every step.                                                             *)
LEMMA FilesStep == FilesInv /\ [Next]_vars => FilesInv'
<1> SUFFICES ASSUME FilesInv, [Next]_vars PROVE FilesInv'
  OBVIOUS
<1> USE DEF inputVars, files
<1>1. CASE FirstAppSwitch
  BY <1>1, FilesKept DEF FirstAppSwitch, FilesInv, TaskInv
<1>2. ASSUME NEW b \in Bundle, NEW e \in Event, SyncEvent(b, e)
      PROVE  FilesInv'
  BY <1>2, CountedFiles DEF SyncEvent
<1>3. ASSUME NEW b \in Bundle, NEW t \in Type, NEW page \in Page,
             NEW contents \in Contents[page],
             SyncComponment(b, t, page, contents)
      PROVE  FilesInv'
  BY <1>3, CountedFiles DEF SyncComponment
<1>4. CASE Finish
  BY <1>4, FinishFiles
<1>5. CASE StatisticsData \/ LockCrash \/ CountExceptions \/ ClearExceptions
  BY <1>5, FilesKept
  DEF StatisticsData, LockCrash, CountExceptions, ClearExceptions, Stage
<1>6. CASE TruncateCsv \/ WriteCsv \/ TruncateJson \/ WriteJson
  BY <1>6, WriteFiles
<1>7. CASE SegmentedWriteForFocusInput
  BY <1>7, BackToRun
<1>8. ASSUME NEW kind \in Kind, ExceptionRecord(kind) PROVE FilesInv'
  BY <1>8, FilesKept DEF ExceptionRecord, FilesInv, TaskInv
<1>9. CASE Terminated \/ UNCHANGED vars
  BY <1>9, FilesKept DEF Terminated, vars, FilesInv, TaskInv
<1> QED
  BY <1>1, <1>2, <1>3, <1>4, <1>5, <1>6, <1>7, <1>8, <1>9
  DEF Next, Main, SyncInputInfo, ListenCrashDir

(* The files are as they are before the test.                              *)
LEMMA InitFiles == Init => FilesInv
  BY SegmentAssumption
  DEF Init, FilesInv, TaskInv, SegmentInv, RunInv, KeptInv, WrittenInv, Stage

(* Wherever the program is killed after the first segment, one of the two  *)
(* reports is whole and misses no more than a segment of inputs, for every *)
(* length of a segment and of a test (SegmentedWriteCSV,                   *)
(* SegmentedWriteJson).                                                    *)
THEOREM ReportIsLeft == Spec => []ReportSurvives
<1>1. FilesInv => ReportSurvives
  <2> SUFFICES ASSUME FilesInv, taskCount > Segment
               PROVE  Recent(csv) \/ Recent(json)
    BY DEF ReportSurvives, Recent
  <2>1. taskCount \in Nat /\ pc \in Stage
    BY DEF FilesInv, TaskInv
  <2>2. CASE pc = "run"
    <3>1. csv.whole /\ csv.task = taskCount - InSegment(taskCount)
      BY <2>1, <2>2, SegmentAssumption
      DEF FilesInv, RunInv, UpToSegment, LastFull
    <3>2. InSegment(taskCount) \in 0 .. Segment - 1
      BY <2>1, SegmentNext
    <3> QED
      BY <2>1, <3>1, <3>2, SegmentAssumption DEF Recent
  <2>3. CASE pc \in {"json content", "focus", "done"}
    <3>1. Full(csv)
      BY <2>3 DEF FilesInv, WrittenInv
    <3> QED
      BY <2>1, <3>1, SegmentAssumption DEF Full, Recent
  <2>4. CASE pc \notin {"run", "json content", "focus", "done"}
    BY <2>1, <2>4 DEF FilesInv, KeptInv, Stage
  <2> QED
    BY <2>2, <2>3, <2>4
<1> QED
  BY <1>1, InitFiles, FilesStep, PTL DEF Spec

-----------------------------------------------------------------------------

(* Between two segments both files are there, or none, with the same inputs.*)
SameTask ==
  pc = "run" => csv.whole = json.whole /\ csv.task = json.task

(* A report that was written shows the tables as they are until there are  *)
(* new ones.                                                               *)
CsvShows ==
  pc \in {"json", "json content", "focus", "run", "done"} /\ csv.whole =>
    csv.tables = tables

JsonShows ==
  pc \in {"focus", "run", "done"} /\ json.whole =>
    /\ json.exception = tables.exception
    /\ \A i \in DOMAIN json.places :
         json.own[i] = tables[json.places[i].set][json.places[i].name]

LinesInv ==
  /\ ~isFocus => focusVec = <<>>
  /\ pc = "done" => focusVec = <<>>

AgreeInv == SameTask /\ CsvShows /\ JsonShows /\ LinesInv

(* What is left alone agrees.                                              *)
LEMMA AgreeKept ==
  ASSUME AgreeInv, UNCHANGED <<csv, json, tables, isFocus>>,
         isFocus \/ focusVec' = focusVec, pc # "done",
         pc' \in {pc, "statistics", "lock", "count", "clear", "csv"}
  PROVE  AgreeInv'
<1>1. SameTask'
  BY DEF AgreeInv, SameTask
<1>2. CsvShows'
  BY DEF AgreeInv, CsvShows
<1>3. JsonShows'
  BY DEF AgreeInv, JsonShows
<1>4. LinesInv'
  BY DEF AgreeInv, LinesInv
<1> QED
  BY <1>1, <1>2, <1>3, <1>4 DEF AgreeInv

(* Each report is written from the tables of this moment.                  *)
LEMMA WriteAgrees ==
  ASSUME AgreeInv, TruncateCsv \/ WriteCsv \/ TruncateJson \/ WriteJson
  PROVE  AgreeInv'
<1>1. /\ UNCHANGED <<tables, isFocus, focusVec>>
      /\ pc' \in {"csv content", "json", "json content", "focus"}
  BY DEF TruncateCsv, WriteCsv, TruncateJson, WriteJson, countVars, inputVars
<1>2. SameTask' /\ LinesInv'
  BY <1>1 DEF AgreeInv, SameTask, LinesInv
<1>3. CASE TruncateCsv
  BY <1>2, <1>3 DEF TruncateCsv, AgreeInv, CsvShows, JsonShows
<1>4. CASE WriteCsv
  <2>1. csv'.tables = tables /\ pc' = "json"
    BY <1>4 DEF WriteCsv
  <2> QED
    BY <1>1, <1>2, <2>1 DEF AgreeInv, CsvShows, JsonShows
<1>5. CASE TruncateJson
  <2>1. pc = "json" /\ pc' = "json content" /\ UNCHANGED csv
    BY <1>5 DEF TruncateJson
  <2> QED
    BY <1>1, <1>2, <2>1 DEF AgreeInv, CsvShows, JsonShows
<1>6. CASE WriteJson
  <2>1. pc = "json content" /\ pc' = "focus" /\ UNCHANGED csv
    BY <1>6 DEF WriteJson
  <2>2. /\ json'.exception = tables.exception
        /\ json'.places = Places
        /\ json'.own = [i \in DOMAIN Places |-> TableAt(Places[i])]
    BY <1>6 DEF WriteJson, ExceptionTable
  <2>3. \A i \in DOMAIN Places :
          json'.own[i] = tables[Places[i].set][Places[i].name]
    BY <2>2 DEF TableAt
  <2> HIDE DEF Places
  <2> QED
    BY <1>1, <1>2, <2>1, <2>2, <2>3 DEF AgreeInv, CsvShows, JsonShows
<1> QED
  BY <1>3, <1>4, <1>5, <1>6

(* The lines of a focus test are in its report before the test goes on.    *)
LEMMA BackAgrees ==
  ASSUME FilesInv, AgreeInv, SegmentedWriteForFocusInput
  PROVE  AgreeInv'
<1>1. /\ pc = "focus" /\ pc' \in {"run", "done"}
      /\ UNCHANGED <<isFocus, csv, json, tables>>
      /\ focusVec' = IF isFocus THEN <<>> ELSE focusVec
  BY DEF SegmentedWriteForFocusInput, FocusLinesMoved, countVars
<1>2. SameTask'
  BY <1>1 DEF FilesInv, WrittenInv, Full, SameTask
<1>3. CsvShows' /\ JsonShows'
  BY <1>1 DEF AgreeInv, CsvShows, JsonShows
<1>4. LinesInv'
  BY <1>1 DEF AgreeInv, LinesInv
<1> QED
  BY <1>2, <1>3, <1>4 DEF AgreeInv

(* Every step.                                                             *)
LEMMA AgreeStep == FilesInv /\ AgreeInv /\ [Next]_vars => AgreeInv'
<1> SUFFICES ASSUME FilesInv, AgreeInv, [Next]_vars PROVE AgreeInv'
  OBVIOUS
<1> USE DEF inputVars, files, countVars
<1>1. CASE FirstAppSwitch
  BY <1>1, AgreeKept DEF FirstAppSwitch
<1>2. ASSUME NEW b \in Bundle, NEW e \in Event, SyncEvent(b, e)
      PROVE  AgreeInv'
  BY <1>2, AgreeKept DEF SyncEvent, Counted
<1>3. ASSUME NEW b \in Bundle, NEW t \in Type, NEW page \in Page,
             NEW contents \in Contents[page],
             SyncComponment(b, t, page, contents)
      PROVE  AgreeInv'
  BY <1>3, AgreeKept DEF SyncComponment, Counted
<1>4. CASE Finish
  BY <1>4, AgreeKept DEF Finish
<1>5. CASE StatisticsData \/ CountExceptions
  <2>1. /\ pc' \in {"lock", "clear"} /\ UNCHANGED <<isFocus, focusVec>>
    BY <1>5 DEF StatisticsData, CountExceptions
  <2> QED
    BY <2>1 DEF AgreeInv, SameTask, CsvShows, JsonShows, LinesInv
<1>6. CASE LockCrash \/ ClearExceptions
  BY <1>6, AgreeKept DEF LockCrash, ClearExceptions
<1>7. CASE TruncateCsv \/ WriteCsv \/ TruncateJson \/ WriteJson
  BY <1>7, WriteAgrees
<1>8. CASE SegmentedWriteForFocusInput
  BY <1>8, BackAgrees
<1>9. ASSUME NEW kind \in Kind, ExceptionRecord(kind) PROVE AgreeInv'
  BY <1>9, AgreeKept DEF ExceptionRecord
<1>10. CASE Terminated \/ UNCHANGED vars
  BY <1>10
  DEF Terminated, vars, AgreeInv, SameTask, CsvShows, JsonShows, LinesInv
<1> QED
  BY <1>1, <1>2, <1>3, <1>4, <1>5, <1>6, <1>7, <1>8, <1>9, <1>10
  DEF Next, Main, SyncInputInfo, ListenCrashDir

(* Between two inputs the two reports of a test say the same, whatever     *)
(* fault logs came in between, and at the end they say all of it           *)
(* (SegmentedWriteCSV, SegmentedWriteJson, Finish).                        *)
THEOREM ReportsSayTheSame == Spec => []ReportsAgree
<1>1. Init => FilesInv /\ AgreeInv
  BY InitFiles
  DEF Init, AgreeInv, SameTask, CsvShows, JsonShows, LinesInv, Absent
<1>2. FilesInv /\ AgreeInv => ReportsAgree
  BY DEF FilesInv, WrittenInv, Full, AgreeInv, SameTask, CsvShows, JsonShows,
         LinesInv, ReportsAgree
<1> QED
  BY <1>1, <1>2, FilesStep, AgreeStep, PTL DEF Spec

-----------------------------------------------------------------------------
(* What the statistics make of one more record.                            *)

(* Counts of keys by application, and what they add up to.                 *)
IsCount(c, keys) ==
  /\ {"times", "total", "exec"} \subseteq DOMAIN c
  /\ c = [x \in DOMAIN c |-> c[x]]
  /\ c.times \in [Bundle -> [keys -> Nat]]
  /\ c.total \in [Bundle -> Nat]
  /\ c.exec \in Nat

Agrees(c, keys) ==
  /\ \A b \in Bundle : RowSum(c.times[b]) = c.total[b]
  /\ RowSum(Summed(c.times, keys)) = c.exec

(* Records of the keys.                                                    *)
Records(data, keys) ==
  /\ Len(data) \in Nat /\ DOMAIN data = 1 .. Len(data)
  /\ \A i \in DOMAIN data : data[i].bundle \in Bundle /\ data[i].key \in keys

OfBundle(data, b) == {i \in DOMAIN data : data[i].bundle = b}

(* One more element that is counted, or one that is not.                   *)
LEMMA OneMoreIndex ==
  ASSUME NEW n \in Nat, NEW A, A \subseteq 1 .. n
  PROVE  /\ Cardinality(A) \in Nat
         /\ Cardinality(A \cup {n + 1}) = Cardinality(A) + 1
<1>1. IsFiniteSet(A)
  <2>1. IsFiniteSet(1 .. n)
    BY FS_Interval
  <2> QED
    BY <2>1, FS_Subset
<1>2. n + 1 \notin A
  OBVIOUS
<1> QED
  BY <1>1, <1>2, FS_CardinalityType, FS_AddElement

(* How many records match, with one more of them.                          *)
LEMMA AppendedRecord ==
  ASSUME NEW keys, NEW data, Records(data, keys), NEW more,
         Len(more) = Len(data) + 1, DOMAIN more = 1 .. Len(data) + 1,
         \A i \in DOMAIN data : more[i] = data[i],
         NEW b \in Bundle, NEW k \in keys,
         more[Len(data) + 1].bundle = b, more[Len(data) + 1].key = k
  PROVE  /\ Records(more, keys)
         /\ \A c \in Bundle :
              /\ Cardinality(OfBundle(data, c)) \in Nat
              /\ Cardinality(OfBundle(more, c)) =
                   Cardinality(OfBundle(data, c)) + IF c = b THEN 1 ELSE 0
         /\ \A c \in Bundle, l \in keys :
              /\ Cardinality(Matching(data, c, l)) \in Nat
              /\ Cardinality(Matching(more, c, l)) =
                   Cardinality(Matching(data, c, l))
                     + IF c = b /\ l = k THEN 1 ELSE 0
<1> DEFINE n == Len(data)
<1>1. n \in Nat /\ DOMAIN data = 1 .. n
  BY DEF Records
<1> HIDE DEF n
<1>2. Records(more, keys)
  BY <1>1 DEF Records, n
<1>3. ASSUME NEW c \in Bundle
      PROVE  /\ Cardinality(OfBundle(data, c)) \in Nat
             /\ Cardinality(OfBundle(more, c)) =
                  Cardinality(OfBundle(data, c)) + IF c = b THEN 1 ELSE 0
  <2>1. OfBundle(data, c) \subseteq 1 .. n
    BY <1>1 DEF OfBundle
  <2>2. OfBundle(more, c) =
          OfBundle(data, c) \cup IF c = b THEN {n + 1} ELSE {}
    BY <1>1 DEF OfBundle, n
  <2>3. /\ Cardinality(OfBundle(data, c)) \in Nat
        /\ Cardinality(OfBundle(data, c) \cup {n + 1})
             = Cardinality(OfBundle(data, c)) + 1
    BY <1>1, <2>1, OneMoreIndex
  <2>4. CASE c = b
    BY <2>2, <2>3, <2>4
  <2>5. CASE c # b
    <3>1. OfBundle(more, c) = OfBundle(data, c)
      BY <2>2, <2>5
    <3> QED
      BY <2>3, <2>5, <3>1
  <2> QED
    BY <2>4, <2>5
<1>4. ASSUME NEW c \in Bundle, NEW l \in keys
      PROVE  /\ Cardinality(Matching(data, c, l)) \in Nat
             /\ Cardinality(Matching(more, c, l)) =
                  Cardinality(Matching(data, c, l))
                    + IF c = b /\ l = k THEN 1 ELSE 0
  <2>1. Matching(data, c, l) \subseteq 1 .. n
    BY <1>1 DEF Matching
  <2>2. Matching(more, c, l) =
          Matching(data, c, l) \cup IF c = b /\ l = k THEN {n + 1} ELSE {}
    BY <1>1 DEF Matching, n
  <2>3. /\ Cardinality(Matching(data, c, l)) \in Nat
        /\ Cardinality(Matching(data, c, l) \cup {n + 1})
             = Cardinality(Matching(data, c, l)) + 1
    BY <1>1, <2>1, OneMoreIndex
  <2>4. CASE c = b /\ l = k
    BY <2>2, <2>3, <2>4
  <2>5. CASE ~(c = b /\ l = k)
    <3>1. Matching(more, c, l) = Matching(data, c, l)
      BY <2>2, <2>5
    <3> QED
      BY <2>3, <2>5, <3>1
  <2> QED
    BY <2>4, <2>5
<1> QED
  BY <1>2, <1>3, <1>4

(* Nothing matches in no records.                                          *)
LEMMA NoRecords ==
  ASSUME NEW keys
  PROVE  /\ Records(<<>>, keys)
         /\ \A b, k : Matching(<<>>, b, k) = {}
         /\ \A b, k : Cardinality(Matching(<<>>, b, k)) = 0
         /\ \A b : Cardinality(OfBundle(<<>>, b)) = 0
<1>1. Records(<<>>, keys)
  BY DEF Records
<1>2. /\ \A b, k : Matching(<<>>, b, k) = {}
      /\ \A b : OfBundle(<<>>, b) = {}
  BY DEF Matching, OfBundle
<1> QED
  BY <1>1, <1>2, FS_EmptySet

(* The records that match are finitely many.                               *)
LEMMA RecordsFinite ==
  ASSUME NEW keys, NEW data, Records(data, keys), NEW b, NEW k
  PROVE  /\ IsFiniteSet(Matching(data, b, k))
         /\ Cardinality(Matching(data, b, k)) \in Nat
         /\ IsFiniteSet(OfBundle(data, b))
         /\ Cardinality(OfBundle(data, b)) \in Nat
<1>1. IsFiniteSet(DOMAIN data)
  BY FS_Interval DEF Records
<1>2. /\ IsFiniteSet(Matching(data, b, k))
      /\ IsFiniteSet(OfBundle(data, b))
  BY <1>1, FS_Subset DEF Matching, OfBundle
<1> QED
  BY <1>2, FS_CardinalityType

(* The fields of what SrcDatasPretreatment makes.                          *)
LEMMA PretreatedIs ==
  ASSUME NEW keys, NEW old, IsCount(old, keys),
         NEW data, Records(data, keys)
  PROVE  LET c == Pretreated(old, data)
         IN  /\ IsCount(c, keys) /\ DOMAIN c = DOMAIN old
             /\ \A b \in Bundle, k \in keys :
                  c.times[b][k] =
                    old.times[b][k] + Cardinality(Matching(data, b, k))
             /\ \A b \in Bundle :
                  c.total[b] =
                    old.total[b] + Cardinality(OfBundle(data, b))
             /\ c.exec = old.exec + Len(data)
             /\ \A x \in DOMAIN old \ {"times", "total", "exec"} :
                  c[x] = old[x]
<1> DEFINE c == Pretreated(old, data)
           times == [b \in Bundle |-> [k \in keys |->
                       old.times[b][k] + Cardinality(Matching(data, b, k))]]
           total == [b \in Bundle |->
                       old.total[b] + Cardinality(OfBundle(data, b))]
           exec == old.exec + Len(data)
<1>1. /\ {"times", "total", "exec"} \subseteq DOMAIN old
      /\ old = [x \in DOMAIN old |-> old[x]]
      /\ old.times \in [Bundle -> [keys -> Nat]]
      /\ old.total \in [Bundle -> Nat]
      /\ old.exec \in Nat
  BY DEF IsCount
<1>2. Len(data) \in Nat
  BY DEF Records
<1>3. /\ \A b \in Bundle, k \in keys : times[b][k] \in Nat
      /\ \A b \in Bundle : total[b] \in Nat
      /\ exec \in Nat
  <2>1. /\ \A b, k : Cardinality(Matching(data, b, k)) \in Nat
        /\ \A b : Cardinality(OfBundle(data, b)) \in Nat
    BY RecordsFinite
  <2>2. /\ \A b \in Bundle, k \in keys : old.times[b][k] \in Nat
        /\ \A b \in Bundle : old.total[b] \in Nat
    BY <1>1
  <2> QED
    BY <1>1, <1>2, <2>1, <2>2
<1>4. c = [old EXCEPT !.times = times, !.total = total, !.exec = exec]
  <2>1. \A b \in Bundle : DOMAIN old.times[b] = keys
    BY <1>1
  <2>2. times = [b \in Bundle |-> [k \in DOMAIN old.times[b] |->
                   old.times[b][k] + Cardinality(Matching(data, b, k))]]
    BY <2>1
  <2>3. total = [b \in Bundle |->
                   old.total[b]
                     + Cardinality({i \in DOMAIN data : data[i].bundle = b})]
    BY DEF OfBundle
  <2> HIDE DEF times, total, exec
  <2> QED
    BY <2>2, <2>3 DEF Pretreated, exec
<1>5. /\ times \in [Bundle -> [keys -> Nat]] /\ total \in [Bundle -> Nat]
      /\ \A b \in Bundle, k \in keys :
           times[b][k] =
             old.times[b][k] + Cardinality(Matching(data, b, k))
      /\ \A b \in Bundle :
           total[b] = old.total[b] + Cardinality(OfBundle(data, b))
  <2>1. \A b \in Bundle : times[b] \in [keys -> Nat]
    BY <1>3
  <2> QED
    BY <1>3, <2>1
<1> HIDE DEF c, times, total, exec
<1>6. /\ DOMAIN c = DOMAIN old
      /\ c = [x \in DOMAIN c |-> c[x]]
      /\ c.times = times /\ c.total = total /\ c.exec = exec
      /\ \A x \in DOMAIN old \ {"times", "total", "exec"} : c[x] = old[x]
  BY <1>1, <1>4
<1>7. IsCount(c, keys)
  BY <1>1, <1>3, <1>5, <1>6 DEF IsCount
<1> QED
  BY <1>5, <1>6, <1>7 DEF c, exec

(* A sum over a row.                                                       *)
LEMMA RowSumIs ==
  ASSUME NEW S, NEW f \in [S -> Int]
  PROVE  RowSum(f) = SumOver(f, S)
  BY DEF RowSum, SumOver

(* One more input of one key of one application.                           *)
LEMMA OneMoreAgrees ==
  ASSUME NEW keys, IsFiniteSet(keys),
         NEW old, IsCount(old, keys), Agrees(old, keys),
         NEW new, IsCount(new, keys),
         NEW b \in Bundle, NEW k \in keys,
         \A c \in Bundle, l \in keys :
           new.times[c][l] = old.times[c][l]
                               + IF c = b /\ l = k THEN 1 ELSE 0,
         \A c \in Bundle :
           new.total[c] = old.total[c] + IF c = b THEN 1 ELSE 0,
         new.exec = old.exec + 1
  PROVE  Agrees(new, keys)
<1>0. IsFiniteSet(Bundle)
  BY FiniteAssumption
<1>1. /\ old.times \in [Bundle -> [keys -> Nat]]
      /\ new.times \in [Bundle -> [keys -> Nat]]
      /\ old.total \in [Bundle -> Nat] /\ new.total \in [Bundle -> Nat]
      /\ old.exec \in Nat /\ new.exec \in Nat
  BY DEF IsCount
<1>2. ASSUME NEW c \in Bundle
      PROVE  RowSum(new.times[c]) = new.total[c]
  <2> DEFINE f == old.times[c]
             e == new.times[c]
  <2>1. f \in [keys -> Nat] /\ e \in [keys -> Nat]
    BY <1>1
  <2>2. RowSum(f) = old.total[c]
    BY DEF Agrees
  <2>3. \A l \in keys : e[l] = f[l] + IF c = b /\ l = k THEN 1 ELSE 0
    OBVIOUS
  <2> HIDE DEF f, e
  <2>4. /\ RowSum(f) = SumOver(f, keys) /\ RowSum(e) = SumOver(e, keys)
        /\ SumOver(f, keys) \in Int
    <3>1. f \in [keys -> Int] /\ e \in [keys -> Int]
      BY <2>1
    <3> QED
      BY <3>1, RowSumIs, SumType
  <2>5. CASE c = b
    <3>1. /\ \A l \in keys : f[l] \in Int
          /\ e[k] \in Int /\ \A l \in keys \ {k} : e[l] = f[l]
          /\ e[k] - f[k] = 1
      BY <2>1, <2>3, <2>5
    <3>2. SumOver(e, keys) = SumOver(f, keys) + (e[k] - f[k])
      BY <3>1, SumChange
    <3> QED
      BY <2>2, <2>4, <2>5, <3>1, <3>2 DEF e
  <2>6. CASE c # b
    <3>1. /\ \A l \in keys : f[l] \in Int
          /\ \A l \in keys : e[l] = f[l]
      BY <2>1, <2>3, <2>6
    <3>2. SumOver(e, keys) = SumOver(f, keys)
      BY <3>1, SumSame
    <3>3. new.total[c] = old.total[c]
      BY <1>1, <2>6
    <3> QED
      BY <2>2, <2>4, <3>2, <3>3 DEF e
  <2> QED
    BY <2>5, <2>6
<1>3. RowSum(Summed(new.times, keys)) = new.exec
  <2> DEFINE F == Summed(old.times, keys)
             E == Summed(new.times, keys)
  <2>1. ASSUME NEW l \in keys
        PROVE  /\ F[l] \in Int
               /\ E[l] = F[l] + IF l = k THEN 1 ELSE 0
    <3> DEFINE f == [c \in Bundle |-> old.times[c][l]]
               e == [c \in Bundle |-> new.times[c][l]]
    <3>1. /\ f \in [Bundle -> Int] /\ e \in [Bundle -> Int]
          /\ \A c \in Bundle : f[c] \in Int /\ e[c] \in Int
          /\ \A c \in Bundle : e[c] = f[c] + IF c = b /\ l = k THEN 1 ELSE 0
      BY <1>1
    <3>2. F[l] = RowSum(f) /\ E[l] = RowSum(e)
      BY DEF Summed
    <3> HIDE DEF f, e
    <3>3. /\ RowSum(f) = SumOver(f, Bundle) /\ RowSum(e) = SumOver(e, Bundle)
          /\ SumOver(f, Bundle) \in Int
      BY <1>0, <3>1, RowSumIs, SumType
    <3>4. CASE l = k
      <4>1. e[b] \in Int /\ \A c \in Bundle \ {b} : e[c] = f[c]
        BY <3>1, <3>4
      <4>2. e[b] - f[b] = 1
        BY <3>1, <3>4
      <4>3. SumOver(e, Bundle) = SumOver(f, Bundle) + (e[b] - f[b])
        BY <1>0, <3>1, <4>1, SumChange
      <4> QED
        BY <3>2, <3>3, <3>4, <4>2, <4>3
    <3>5. CASE l # k
      <4>1. \A c \in Bundle : e[c] = f[c]
        BY <3>1, <3>5
      <4>2. SumOver(e, Bundle) = SumOver(f, Bundle)
        BY <1>0, <3>1, <4>1, SumSame
      <4> QED
        BY <3>2, <3>3, <3>5, <4>2
    <3> QED
      BY <3>4, <3>5
  <2>2. F \in [keys -> Int] /\ E \in [keys -> Int]
    <3>1. DOMAIN F = keys /\ DOMAIN E = keys
          /\ F = [l \in keys |-> F[l]] /\ E = [l \in keys |-> E[l]]
      BY DEF Summed
    <3> HIDE DEF F, E
    <3>2. \A l \in keys : E[l] \in Int
      BY <2>1
    <3> QED
      BY <2>1, <3>1, <3>2
  <2>3. RowSum(F) = old.exec
    BY DEF Agrees
  <2> HIDE DEF F, E
  <2>4. SumOver(E, keys) = SumOver(F, keys) + (E[k] - F[k])
    <3>1. /\ \A l \in keys : F[l] \in Int
          /\ E[k] \in Int /\ \A l \in keys \ {k} : E[l] = F[l]
      BY <2>1, <2>2
    <3> QED
      BY <3>1, SumChange
  <2>5. E[k] - F[k] = 1
    BY <2>1, <2>2
  <2>6. RowSum(F) = SumOver(F, keys) /\ RowSum(E) = SumOver(E, keys)
    BY <2>2, RowSumIs
  <2> QED
    BY <1>1, <2>3, <2>4, <2>5, <2>6 DEF E
<1> QED
  BY <1>2, <1>3 DEF Agrees

(* The counts, with one more record.                                       *)
LEMMA OneMoreRecord ==
  ASSUME NEW keys, IsFiniteSet(keys), NEW old, IsCount(old, keys),
         NEW data, Records(data, keys), NEW more, Records(more, keys),
         Len(more) = Len(data) + 1, DOMAIN more = 1 .. Len(data) + 1,
         \A i \in DOMAIN data : more[i] = data[i],
         NEW b \in Bundle, NEW k \in keys,
         more[Len(data) + 1].bundle = b, more[Len(data) + 1].key = k,
         Agrees(Pretreated(old, data), keys)
  PROVE  /\ Agrees(Pretreated(old, more), keys)
         /\ \A c \in Bundle, l \in keys :
              Pretreated(old, more).times[c][l] =
                Pretreated(old, data).times[c][l]
                  + IF c = b /\ l = k THEN 1 ELSE 0
         /\ Pretreated(old, more).exec = Pretreated(old, data).exec + 1
<1> DEFINE p == Pretreated(old, data)
           q == Pretreated(old, more)
<1>1. /\ IsCount(p, keys)
      /\ \A c \in Bundle, l \in keys :
           p.times[c][l] =
             old.times[c][l] + Cardinality(Matching(data, c, l))
      /\ \A c \in Bundle :
           p.total[c] = old.total[c] + Cardinality(OfBundle(data, c))
      /\ p.exec = old.exec + Len(data)
  BY PretreatedIs
<1>2. /\ IsCount(q, keys)
      /\ \A c \in Bundle, l \in keys :
           q.times[c][l] =
             old.times[c][l] + Cardinality(Matching(more, c, l))
      /\ \A c \in Bundle :
           q.total[c] = old.total[c] + Cardinality(OfBundle(more, c))
      /\ q.exec = old.exec + Len(more)
  BY PretreatedIs
<1>3. Agrees(p, keys)
  OBVIOUS
<1> HIDE DEF p, q
<1>4. /\ \A c \in Bundle :
           /\ Cardinality(OfBundle(data, c)) \in Nat
           /\ Cardinality(OfBundle(more, c)) =
                Cardinality(OfBundle(data, c)) + IF c = b THEN 1 ELSE 0
      /\ \A c \in Bundle, l \in keys :
           /\ Cardinality(Matching(data, c, l)) \in Nat
           /\ Cardinality(Matching(more, c, l)) =
                Cardinality(Matching(data, c, l))
                  + IF c = b /\ l = k THEN 1 ELSE 0
  BY AppendedRecord
<1>5. /\ old.times \in [Bundle -> [keys -> Nat]]
      /\ old.total \in [Bundle -> Nat] /\ old.exec \in Nat
      /\ Len(data) \in Nat
  BY DEF IsCount, Records
<1>6. \A c \in Bundle, l \in keys :
        q.times[c][l] = p.times[c][l] + IF c = b /\ l = k THEN 1 ELSE 0
  <2> SUFFICES ASSUME NEW c \in Bundle, NEW l \in keys
               PROVE  q.times[c][l] =
                        p.times[c][l] + IF c = b /\ l = k THEN 1 ELSE 0
    OBVIOUS
  <2> DEFINE was == Cardinality(Matching(data, c, l))
             is == Cardinality(Matching(more, c, l))
             before == old.times[c][l]
  <2>1. before \in Nat /\ was \in Nat
    BY <1>4, <1>5
  <2>2. /\ p.times[c][l] = before + was
        /\ q.times[c][l] = before + is
        /\ is = was + IF c = b /\ l = k THEN 1 ELSE 0
    BY <1>1, <1>2, <1>4
  <2> HIDE DEF was, is, before
  <2> QED
    BY ONLY <2>1, <2>2
<1>7. \A c \in Bundle :
        q.total[c] = p.total[c] + IF c = b THEN 1 ELSE 0
  <2> SUFFICES ASSUME NEW c \in Bundle
               PROVE  q.total[c] = p.total[c] + IF c = b THEN 1 ELSE 0
    OBVIOUS
  <2> DEFINE was == Cardinality(OfBundle(data, c))
             is == Cardinality(OfBundle(more, c))
             before == old.total[c]
  <2>1. before \in Nat /\ was \in Nat
    BY <1>4, <1>5
  <2>2. /\ p.total[c] = before + was
        /\ q.total[c] = before + is
        /\ is = was + IF c = b THEN 1 ELSE 0
    BY <1>1, <1>2, <1>4
  <2> HIDE DEF was, is, before
  <2> QED
    BY ONLY <2>1, <2>2
<1>8. q.exec = p.exec + 1
  <2> DEFINE n == Len(data)
             m == Len(more)
             before == old.exec
  <2>1. /\ p.exec = before + n /\ q.exec = before + m
        /\ before \in Nat /\ n \in Nat
    BY <1>1, <1>2, <1>5
  <2>2. m = n + 1
    OBVIOUS
  <2> HIDE DEF n, m, before
  <2> QED
    BY ONLY <2>1, <2>2
<1>9. Agrees(q, keys)
  BY <1>1, <1>2, <1>3, <1>6, <1>7, <1>8, OneMoreAgrees
<1> QED
  BY <1>6, <1>8, <1>9 DEF p, q

(* Statistics without records change no count.                             *)
LEMMA NothingToCount ==
  ASSUME NEW keys, NEW c, IsCount(c, keys)
  PROVE  LET d == Pretreated(c, <<>>)
         IN  /\ d.times = c.times /\ d.total = c.total /\ d.exec = c.exec
             /\ IsCount(d, keys)
<1> DEFINE d == Pretreated(c, <<>>)
<1>1. Records(<<>>, keys) /\ Len(<<>>) = 0
  BY NoRecords
<1>2. /\ IsCount(d, keys)
      /\ \A b \in Bundle, k \in keys : d.times[b][k] = c.times[b][k] + 0
      /\ \A b \in Bundle : d.total[b] = c.total[b] + 0
      /\ d.exec = c.exec + 0
  BY <1>1, PretreatedIs, NoRecords
<1> HIDE DEF d
<1>3. /\ c.times \in [Bundle -> [keys -> Nat]] /\ c.exec \in Nat
      /\ d.times \in [Bundle -> [keys -> Nat]] /\ d.exec \in Nat
      /\ c.total \in [Bundle -> Nat] /\ d.total \in [Bundle -> Nat]
  BY <1>2 DEF IsCount
<1>4. d.times = c.times
  <2> DEFINE f == d.times
             e == c.times
  <2>1. \A b \in Bundle, k \in keys : f[b][k] = e[b][k]
    BY <1>2, <1>3
  <2>2. f \in [Bundle -> [keys -> Nat]] /\ e \in [Bundle -> [keys -> Nat]]
    BY <1>3
  <2> HIDE DEF f, e
  <2>3. \A b \in Bundle : f[b] = e[b]
    BY <2>1, <2>2
  <2>4. f = e
    BY <2>2, <2>3
  <2> QED
    BY <2>4 DEF f, e
<1>5. d.total = c.total
  <2> DEFINE f == d.total
             e == c.total
  <2>1. \A b \in Bundle : f[b] = e[b]
    BY <1>2, <1>3
  <2>2. f \in [Bundle -> Nat] /\ e \in [Bundle -> Nat]
    BY <1>3
  <2> HIDE DEF f, e
  <2>4. f = e
    BY <2>1, <2>2
  <2> QED
    BY <2>4 DEF f, e
<1>6. d.exec = c.exec
  BY <1>2, <1>3
<1> QED
  BY <1>2, <1>4, <1>5, <1>6 DEF d

-----------------------------------------------------------------------------
(* Every input is counted once.                                            *)

Datum ==
  [event |-> [bundle : Bundle, key : Event],
   componment |-> [bundle : Bundle, key : Type, inputed : Nat, expect : Nat]]

Input == [kind : DOMAIN Datum, bundle : Bundle, key : Event \cup Type]

(* What the counts would be if the statistics were made now.               *)
Due(set) == Pretreated(stats[set], dataVector[set])

CountTypes ==
  /\ stats = [event |-> stats.event, componment |-> stats.componment]
  /\ tables = [event |-> tables.event, componment |-> tables.componment,
               exception |-> tables.exception]
  /\ \A set \in DOMAIN Datum :
       /\ IsCount(stats[set], Key[set])
       /\ dataVector[set] \in Seq(Datum[set])

HistoryInv ==
  /\ inputs \in Seq(Input) /\ Len(inputs) = taskCount
  /\ bundles \in Seq(Bundle)
  /\ \A i \in DOMAIN inputs :
       \E j \in DOMAIN bundles : bundles[j] = inputs[i].bundle

(* What is due is what was made, and adds up.                              *)
DueInv ==
  /\ \A set \in DOMAIN Datum :
       /\ Agrees(Due(set), Key[set])
       /\ \A b \in Bundle, k \in Key[set] :
            Due(set).times[b][k] =
              Cardinality(Made(inputs, set, b, k, taskCount))
  /\ Due("event").exec + Due("componment").exec = taskCount

(* From the statistics to the end of the report, the tables show them and  *)
(* no record is left.                                                      *)
TablesInv ==
  pc \notin {"run", "statistics"} =>
    /\ dataVector.event = <<>> /\ dataVector.componment = <<>>
    /\ tables.event = StatisticsDetail(stats.event, Event)
    /\ tables.componment = StatisticsComponmentDetail(stats.componment)

CsvInv ==
  csv.whole => csv.task \in 0 .. taskCount

CountInv ==
  CountTypes /\ HistoryInv /\ DueInv /\ TablesInv /\ CsvInv
  /\ EveryInputCounted

(* The two data sets of inputs.                                            *)
LEMMA TwoSets ==
  /\ DOMAIN Datum = {"event", "componment"}
  /\ Key["event"] = Event /\ Key["componment"] = Type
  /\ \A set \in DOMAIN Datum :
       /\ IsFiniteSet(Key[set]) /\ Key[set] \subseteq Event \cup Type
       /\ \A x \in Datum[set] : x.bundle \in Bundle /\ x.key \in Key[set]
<1>1. /\ DOMAIN Datum = {"event", "componment"}
      /\ Key["event"] = Event /\ Key["componment"] = Type
  BY DEF Datum, Key
<1>2. /\ \A x \in Datum["event"] : x.bundle \in Bundle /\ x.key \in Event
      /\ \A x \in Datum["componment"] : x.bundle \in Bundle /\ x.key \in Type
  BY DEF Datum
<1>3. IsFiniteSet(Event) /\ IsFiniteSet(Type)
  BY FiniteAssumption
<1> QED
  BY <1>1, <1>2, <1>3

(* The records of a data set are records of its keys.                      *)
LEMMA AreRecords ==
  ASSUME NEW set \in DOMAIN Datum, NEW data \in Seq(Datum[set])
  PROVE  Records(data, Key[set])
  BY TwoSets DEF Records

(* What was made does not change with more inputs.                         *)
LEMMA MadeBefore ==
  ASSUME NEW s \in Seq(Input), NEW x \in Input,
         NEW n \in 0 .. Len(s), NEW set, NEW b, NEW k
  PROVE  Made(Append(s, x), set, b, k, n) = Made(s, set, b, k, n)
<1>1. \A i \in 1 .. n : Append(s, x)[i] = s[i]
  OBVIOUS
<1> QED
  BY <1>1 DEF Made

(* One more input is one more made.                                        *)
LEMMA OneMoreMade ==
  ASSUME NEW s \in Seq(Input), NEW set, NEW b, NEW k, NEW x \in Input
  PROVE  LET n == Len(s)
             is == x = [kind |-> set, bundle |-> b, key |-> k]
         IN  Cardinality(Made(Append(s, x), set, b, k, n + 1)) =
               Cardinality(Made(s, set, b, k, n)) + IF is THEN 1 ELSE 0
<1> DEFINE n == Len(s)
           y == [kind |-> set, bundle |-> b, key |-> k]
           old == Made(s, set, b, k, n)
           new == Made(Append(s, x), set, b, k, n + 1)
<1>1. /\ n \in Nat /\ Append(s, x)[n + 1] = x
      /\ \A i \in 1 .. n : Append(s, x)[i] = s[i]
  OBVIOUS
<1>2. old = {i \in 1 .. n : s[i] = y}
      /\ new = {i \in 1 .. n + 1 : Append(s, x)[i] = y}
  BY DEF Made
<1> HIDE DEF y, old, new, n
<1>3. /\ old \subseteq 1 .. n
      /\ \A i \in 1 .. n : i \in new <=> i \in old
      /\ \A i \in new : i \in 1 .. n \/ i = n + 1
      /\ n + 1 \in new <=> x = y
      /\ n + 1 \in 1 .. n + 1
  <2>1. \A i \in 1 .. n + 1 : i \in 1 .. n \/ i = n + 1
    BY <1>1
  <2>2. \A i \in 1 .. n : i \in 1 .. n + 1
    BY <1>1
  <2>3. n + 1 \in 1 .. n + 1
    BY <1>1
  <2>4. \A i \in 1 .. n : Append(s, x)[i] = s[i]
    BY <1>1
  <2>5. Append(s, x)[n + 1] = x
    BY <1>1
  <2> QED
    BY <1>2, <2>1, <2>2, <2>3, <2>4, <2>5, Zenon
<1>4. /\ Cardinality(old) \in Nat
      /\ Cardinality(old \cup {n + 1}) = Cardinality(old) + 1
  BY <1>1, <1>3, OneMoreIndex
<1>5. CASE x = y
  <2>1. new = old \cup {n + 1}
    BY <1>3, <1>5, Zenon
  <2> QED
    BY <1>4, <1>5, <2>1 DEF y, old, new, n
<1>6. CASE x # y
  <2>1. new = old
    BY <1>3, <1>6, Zenon
  <2> QED
    BY <1>4, <1>6, <2>1 DEF y, old, new, n
<1> QED
  BY <1>5, <1>6

(* One more record for one more input.                                     *)
LEMMA RecordingStep ==
  ASSUME CountTypes, HistoryInv, DueInv, TaskInv,
         NEW set \in DOMAIN Datum, NEW b \in Bundle, NEW k \in Key[set],
         NEW x \in Datum[set], x.bundle = b, x.key = k,
         UNCHANGED <<stats, tables>>, taskCount' = taskCount + 1,
         dataVector'[set] = Append(dataVector[set], x),
         \A other \in DOMAIN Datum \ {set} :
           dataVector'[other] = dataVector[other],
         inputs' = Append(inputs, [kind |-> set, bundle |-> b, key |-> k]),
         bundles' = IF \E i \in DOMAIN bundles : bundles[i] = b
                    THEN bundles ELSE Append(bundles, b)
  PROVE  /\ CountTypes' /\ HistoryInv' /\ DueInv'
         /\ \A c \in Bundle, l \in Key[set] :
              Due(set)'.times[c][l] = Due(set).times[c][l]
                                        + IF c = b /\ l = k THEN 1 ELSE 0
         /\ \A other \in DOMAIN Datum \ {set} : Due(other)' = Due(other)
<1> DEFINE input == [kind |-> set, bundle |-> b, key |-> k]
<1>1. input \in Input
  BY TwoSets DEF Input
<1>2. /\ inputs \in Seq(Input) /\ Len(inputs) = taskCount
      /\ taskCount \in Nat
  BY DEF HistoryInv, TaskInv
<1>3. \A other \in DOMAIN Datum :
        /\ dataVector[other] \in Seq(Datum[other])
        /\ dataVector'[other] \in Seq(Datum[other])
        /\ IsCount(stats[other], Key[other])
  <2> SUFFICES ASSUME NEW other \in DOMAIN Datum
               PROVE  /\ dataVector[other] \in Seq(Datum[other])
                      /\ dataVector'[other] \in Seq(Datum[other])
                      /\ IsCount(stats[other], Key[other])
    OBVIOUS
  <2>1. /\ dataVector[other] \in Seq(Datum[other])
        /\ IsCount(stats[other], Key[other])
    BY DEF CountTypes
  <2>2. CASE other = set
    <3>1. Append(dataVector[set], x) \in Seq(Datum[set])
      BY <2>1, <2>2
    <3> QED
      BY <2>1, <2>2, <3>1
  <2>3. CASE other # set
    BY <2>1, <2>3
  <2> QED
    BY <2>2, <2>3
<1>4. CountTypes'
  BY <1>3 DEF CountTypes, IsCount
<1>5. HistoryInv'
  <2>1. bundles \in Seq(Bundle)
    BY DEF HistoryInv
  <2>2. /\ bundles' \in Seq(Bundle)
        /\ \E j \in DOMAIN bundles' : bundles'[j] = b
        /\ \A j \in DOMAIN bundles :
             j \in DOMAIN bundles' /\ bundles'[j] = bundles[j]
    <3>1. CASE \E i \in DOMAIN bundles : bundles[i] = b
      BY <2>1, <3>1
    <3>2. CASE ~\E i \in DOMAIN bundles : bundles[i] = b
      <4>1. bundles' = Append(bundles, b)
        BY <3>2
      <4>2. /\ DOMAIN bundles' = 1 .. Len(bundles) + 1
            /\ DOMAIN bundles = 1 .. Len(bundles) /\ Len(bundles) \in Nat
            /\ bundles'[Len(bundles) + 1] = b
            /\ \A j \in 1 .. Len(bundles) : bundles'[j] = bundles[j]
        BY <2>1, <4>1
      <4>3. bundles' \in Seq(Bundle)
        BY <2>1, <4>1
      <4> QED
        BY <4>2, <4>3
    <3> QED
      BY <3>1, <3>2
  <2>3. /\ inputs' \in Seq(Input) /\ Len(inputs') = taskCount'
        /\ DOMAIN inputs' = 1 .. taskCount + 1
        /\ DOMAIN inputs = 1 .. taskCount
        /\ inputs'[taskCount + 1].bundle = b
        /\ \A i \in 1 .. taskCount : inputs'[i] = inputs[i]
    BY <1>1, <1>2
  <2>4. \A i \in DOMAIN inputs :
          \E j \in DOMAIN bundles : bundles[j] = inputs[i].bundle
    BY DEF HistoryInv
  <2>5. ASSUME NEW i \in DOMAIN inputs'
        PROVE  \E j \in DOMAIN bundles' : bundles'[j] = inputs'[i].bundle
    <3>1. CASE i = taskCount + 1
      BY <2>2, <2>3, <3>1
    <3>2. CASE i # taskCount + 1
      <4>1. i \in 1 .. taskCount
        BY <1>2, <2>3, <3>2
      <4> QED
        BY <2>2, <2>3, <2>4, <4>1
    <3> QED
      BY <3>1, <3>2
  <2> QED
    BY <2>2, <2>3, <2>5 DEF HistoryInv
<1>6. /\ Agrees(Due(set)', Key[set])
      /\ \A c \in Bundle, l \in Key[set] :
           Due(set)'.times[c][l] = Due(set).times[c][l]
                                     + IF c = b /\ l = k THEN 1 ELSE 0
      /\ Due(set)'.exec = Due(set).exec + 1
  <2> DEFINE data == dataVector[set]
             more == Append(data, x)
             old == stats[set]
             keys == Key[set]
  <2>1. data \in Seq(Datum[set]) /\ more \in Seq(Datum[set])
    BY <1>3
  <2>2. Records(data, keys) /\ Records(more, keys)
    BY <2>1, AreRecords
  <2>3. /\ Len(more) = Len(data) + 1 /\ DOMAIN more = 1 .. Len(data) + 1
        /\ \A i \in DOMAIN data : more[i] = data[i]
        /\ more[Len(data) + 1] = x
    BY <2>1
  <2>4. IsCount(old, keys) /\ IsFiniteSet(keys)
    BY <1>3, TwoSets
  <2>5. Agrees(Pretreated(old, data), keys)
    BY DEF DueInv, Due
  <2>6. Due(set) = Pretreated(old, data) /\ Due(set)' = Pretreated(old, more)
    BY DEF Due
  <2> HIDE DEF data, more, old
  <2>7. /\ Agrees(Pretreated(old, more), keys)
        /\ \A c \in Bundle, l \in keys :
             Pretreated(old, more).times[c][l] =
               Pretreated(old, data).times[c][l]
                 + IF c = b /\ l = k THEN 1 ELSE 0
        /\ Pretreated(old, more).exec = Pretreated(old, data).exec + 1
    <3>1. /\ more[Len(data) + 1].bundle = b
          /\ more[Len(data) + 1].key = k
      BY <2>3
    <3> QED
      BY <2>2, <2>3, <2>4, <2>5, <3>1, OneMoreRecord
  <2> QED
    BY <2>6, <2>7
<1>7. ASSUME NEW other \in DOMAIN Datum \ {set}
      PROVE  Due(other)' = Due(other)
  BY <1>7 DEF Due
<1>8. ASSUME NEW other \in DOMAIN Datum
      PROVE  /\ Agrees(Due(other)', Key[other])
             /\ \A c \in Bundle, l \in Key[other] :
                  Due(other)'.times[c][l] =
                    Cardinality(Made(inputs', other, c, l, taskCount'))
  <2>1. /\ Agrees(Due(other), Key[other])
        /\ \A c \in Bundle, l \in Key[other] :
             Due(other).times[c][l] =
               Cardinality(Made(inputs, other, c, l, taskCount))
    BY DEF DueInv
  <2>2. \A c \in Bundle, l \in Key[other] :
          Cardinality(Made(inputs', other, c, l, taskCount')) =
            Cardinality(Made(inputs, other, c, l, taskCount))
              + IF other = set /\ c = b /\ l = k THEN 1 ELSE 0
    <3> SUFFICES ASSUME NEW c \in Bundle, NEW l \in Key[other]
                 PROVE  Cardinality(Made(inputs', other, c, l, taskCount')) =
                          Cardinality(Made(inputs, other, c, l, taskCount))
                            + IF other = set /\ c = b /\ l = k THEN 1 ELSE 0
      OBVIOUS
    <3> DEFINE is == input = [kind |-> other, bundle |-> c, key |-> l]
    <3>1. Cardinality(Made(Append(inputs, input), other, c, l,
                           Len(inputs) + 1)) =
            Cardinality(Made(inputs, other, c, l, Len(inputs)))
              + IF is THEN 1 ELSE 0
      <4> HIDE DEF input
      <4> QED
        BY <1>1, <1>2, OneMoreMade
    <3>2. is <=> other = set /\ c = b /\ l = k
      OBVIOUS
    <3> HIDE DEF is
    <3> QED
      BY <1>2, <3>1, <3>2
  <2>3. CASE other = set
    BY <1>6, <2>1, <2>2, <2>3
  <2>4. CASE other # set
    <3>1. Due(other)' = Due(other)
      BY <1>7, <2>4
    <3>2. Agrees(Due(other)', Key[other])
      BY <2>1, <3>1
    <3>3. \A c \in Bundle, l \in Key[other] :
            /\ Cardinality(Made(inputs', other, c, l, taskCount')) =
                 Cardinality(Made(inputs, other, c, l, taskCount)) + 0
            /\ Due(other).times[c][l] \in Nat
      <4>1. Records(dataVector[other], Key[other])
        BY <1>3, AreRecords
      <4>2. IsCount(Due(other), Key[other])
        BY <1>3, <4>1, PretreatedIs DEF Due
      <4> QED
        BY <2>2, <2>4, <4>2 DEF IsCount
    <3> QED
      BY <2>1, <3>1, <3>2, <3>3
  <2> QED
    BY <2>3, <2>4
<1>9. Due("event")'.exec + Due("componment")'.exec = taskCount'
  <2>1. \A other \in DOMAIN Datum : Due(other).exec \in Nat
    <3> SUFFICES ASSUME NEW other \in DOMAIN Datum
                 PROVE  Due(other).exec \in Nat
      OBVIOUS
    <3>1. Records(dataVector[other], Key[other])
      BY <1>3, AreRecords
    <3>2. IsCount(Due(other), Key[other])
      BY <1>3, <3>1, PretreatedIs DEF Due
    <3> QED
      BY <3>2 DEF IsCount
  <2>2. Due("event").exec + Due("componment").exec = taskCount
    BY DEF DueInv
  <2>3. CASE set = "event"
    <3>1. "componment" \in DOMAIN Datum \ {set}
      BY <2>3, TwoSets
    <3>2. Due("componment")' = Due("componment")
      BY <1>7, <3>1
    <3> QED
      BY <1>2, <1>6, <2>1, <2>2, <2>3, <3>2, TwoSets
  <2>4. CASE set = "componment"
    <3>1. "event" \in DOMAIN Datum \ {set}
      BY <2>4, TwoSets
    <3>2. Due("event")' = Due("event")
      BY <1>7, <3>1
    <3> QED
      BY <1>2, <1>6, <2>1, <2>2, <2>4, <3>2, TwoSets
  <2> QED
    BY <2>3, <2>4, TwoSets
<1>10. DueInv'
  <2>1. (DOMAIN Datum)' = DOMAIN Datum
    BY DEF Datum
  <2> QED
    BY <1>8, <1>9, <2>1 DEF DueInv, Key, Made
<1> QED
  BY <1>4, <1>5, <1>6, <1>7, <1>10

(* Steps that make no input and no statistics.                             *)
LEMMA CountsKept ==
  ASSUME CountTypes, HistoryInv, DueInv, TablesInv,
         UNCHANGED <<stats, inputs, bundles, taskCount>>,
         \A set \in DOMAIN Datum : dataVector'[set] = dataVector[set],
         tables' = [event |-> tables'.event,
                    componment |-> tables'.componment,
                    exception |-> tables'.exception],
         tables'.event = tables.event,
         tables'.componment = tables.componment,
         pc' \in {"run", "statistics"} \/ pc \notin {"run", "statistics"}
  PROVE  CountTypes' /\ HistoryInv' /\ DueInv' /\ TablesInv'
<1>1. \A set \in DOMAIN Datum : Due(set)' = Due(set)
  BY DEF Due
<1>2. CountTypes'
  <2>1. \A set \in DOMAIN Datum :
          /\ IsCount(stats'[set], Key[set])
          /\ dataVector'[set] \in Seq(Datum[set])
    BY DEF CountTypes
  <2> QED
    BY <2>1 DEF CountTypes
<1>3. HistoryInv'
  BY DEF HistoryInv
<1>4. DueInv'
  <2>1. ASSUME NEW set \in DOMAIN Datum
        PROVE  /\ Agrees(Due(set)', Key[set])
               /\ \A b \in Bundle, k \in Key[set] :
                    Due(set)'.times[b][k] =
                      Cardinality(Made(inputs', set, b, k, taskCount'))
    BY <1>1 DEF DueInv
  <2>2. Due("event")'.exec + Due("componment")'.exec = taskCount'
    BY <1>1, TwoSets DEF DueInv
  <2> QED
    BY <2>1, <2>2 DEF DueInv
<1>5. TablesInv'
  BY TwoSets DEF TablesInv
<1> QED
  BY <1>2, <1>3, <1>4, <1>5

(* The statistics: what is due becomes what is counted.                    *)
LEMMA StatisticsStep ==
  ASSUME CountTypes, HistoryInv, DueInv, SharedTypeOK, StatisticsData
  PROVE  CountTypes' /\ HistoryInv' /\ DueInv' /\ TablesInv'
<1>1. /\ stats' = [event |-> Due("event"),
                   componment |-> [Due("componment") EXCEPT
                     !.inputed = Latest(@, dataVector.componment, "inputed"),
                     !.expect = Latest(@, dataVector.componment, "expect")]]
      /\ UNCHANGED <<inputs, bundles, taskCount>>
  BY DEF StatisticsData, PretreatedComponments, Due, inputVars
<1>2. dataVector'.event = <<>> /\ dataVector'.componment = <<>>
  BY DEF StatisticsData, Cleared, SharedTypeOK
<1>3. \A set \in DOMAIN Datum : dataVector'[set] = <<>>
  BY <1>2, TwoSets
<1>4. ASSUME NEW set \in DOMAIN Datum
      PROVE  /\ IsCount(Due(set), Key[set])
             /\ Agrees(Due(set), Key[set])
  <2>1. IsCount(stats[set], Key[set]) /\ Records(dataVector[set], Key[set])
    BY AreRecords DEF CountTypes
  <2> QED
    BY <2>1, PretreatedIs DEF Due, DueInv
<1>5. ASSUME NEW set \in DOMAIN Datum
      PROVE  /\ stats'[set].times = Due(set).times
             /\ stats'[set].total = Due(set).total
             /\ stats'[set].exec = Due(set).exec
             /\ IsCount(stats'[set], Key[set])
  <2>1. IsCount(Due(set), Key[set])
    BY <1>4
  <2>2. CASE set = "event"
    BY <1>1, <2>1, <2>2
  <2>3. CASE set = "componment"
    <3> DEFINE c == Due("componment")
               d == stats'.componment
               i == Latest(c.inputed, dataVector.componment, "inputed")
               e == Latest(c.expect, dataVector.componment, "expect")
    <3>1. d = [c EXCEPT !.inputed = i, !.expect = e]
      BY <1>1
    <3>2. IsCount(c, Key[set])
      BY <2>1, <2>3
    <3> HIDE DEF c, d, i, e
    <3>3. /\ d.times = c.times /\ d.total = c.total /\ d.exec = c.exec
          /\ DOMAIN d = DOMAIN c /\ d = [x \in DOMAIN d |-> d[x]]
      BY <3>1, <3>2 DEF IsCount
    <3>4. IsCount(d, Key[set])
      BY <3>2, <3>3 DEF IsCount
    <3> QED
      BY <2>3, <3>3, <3>4 DEF c, d
  <2> QED
    BY <2>2, <2>3, TwoSets
<1>6. ASSUME NEW set \in DOMAIN Datum
      PROVE  /\ Due(set)'.times = Due(set).times
             /\ Due(set)'.total = Due(set).total
             /\ Due(set)'.exec = Due(set).exec
  <2> DEFINE c == stats'[set]
             d == Pretreated(c, <<>>)
  <2>1. Due(set)' = d
    BY <1>3 DEF Due
  <2>2. IsCount(c, Key[set])
    BY <1>5
  <2> HIDE DEF c
  <2>3. d.times = c.times /\ d.total = c.total /\ d.exec = c.exec
    BY <2>2, NothingToCount
  <2> HIDE DEF d
  <2> QED
    BY <1>5, <2>1, <2>3 DEF c
<1>7. CountTypes'
  <2>1. \A set \in DOMAIN Datum : dataVector'[set] \in Seq(Datum[set])
    <3>1. \A S : <<>> \in Seq(S)
      OBVIOUS
    <3> QED
      BY <1>3, <3>1
  <2>2. stats' = [event |-> stats'.event, componment |-> stats'.componment]
    BY <1>1
  <2>3. tables' = [event |-> tables'.event,
                   componment |-> tables'.componment,
                   exception |-> tables'.exception]
    BY DEF StatisticsData, CountTypes
  <2> QED
    BY <1>5, <2>1, <2>2, <2>3 DEF CountTypes
<1>8. HistoryInv'
  BY <1>1 DEF HistoryInv
<1>9. DueInv'
  <2>1. ASSUME NEW set \in DOMAIN Datum
        PROVE  /\ Agrees(Due(set)', Key[set])
               /\ \A b \in Bundle, k \in Key[set] :
                    Due(set)'.times[b][k] =
                      Cardinality(Made(inputs', set, b, k, taskCount'))
    <3>1. Agrees(Due(set)', Key[set])
      BY <1>4, <1>6 DEF Agrees
    <3>2. \A b \in Bundle, k \in Key[set] :
            Due(set).times[b][k] =
              Cardinality(Made(inputs, set, b, k, taskCount))
      BY DEF DueInv
    <3> QED
      BY <1>1, <1>6, <3>1, <3>2
  <2>2. Due("event")'.exec + Due("componment")'.exec = taskCount'
    BY <1>1, <1>6, TwoSets DEF DueInv
  <2> QED
    BY <2>1, <2>2 DEF DueInv
<1>10. TablesInv'
  <2>1. /\ tables' = [tables EXCEPT
             !.event = StatisticsDetail(stats'.event, Event),
             !.componment = StatisticsComponmentDetail(stats'.componment)]
        /\ {"event", "componment"} \subseteq DOMAIN tables
    BY DEF StatisticsData, CountTypes
  <2> QED
    BY <1>2, <2>1 DEF TablesInv
<1> QED
  BY <1>7, <1>8, <1>9, <1>10

(* The tables of counts that add up.                                       *)
LEMMA DetailIs ==
  ASSUME NEW keys, NEW s, IsCount(s, keys), Agrees(s, keys),
         IsFiniteSet(keys)
  PROVE  LET d == StatisticsDetail(s, keys)
         IN  /\ d[All] = GlobalTable(s, keys)
             /\ \A n \in Bundle : d[n] = IF s.total[n] = 0 THEN NoTable
                                         ELSE Table(s.times[n], s.total[n])
             /\ d[All].total = s.exec
             /\ \A n \in Bundle \cup {All} : d[n].total = d[n].of
             /\ \A b \in Bundle, k \in keys :
                  s.times[b][k] # 0 => d[b] # NoTable
                                       /\ d[b].rows[k] = s.times[b][k]
<1> DEFINE d == StatisticsDetail(s, keys)
<1>1. All \notin Bundle
  BY NamesAssumption
<1>2. /\ d[All] = GlobalTable(s, keys)
      /\ \A n \in Bundle : d[n] = IF s.total[n] = 0 THEN NoTable
                                  ELSE Table(s.times[n], s.total[n])
  BY <1>1 DEF StatisticsDetail
<1> HIDE DEF d
<1>3. /\ d[All].total = s.exec /\ d[All].of = s.exec
  BY <1>2 DEF GlobalTable, Table, Agrees
<1>4. \A n \in Bundle : d[n].total = d[n].of
  <2> SUFFICES ASSUME NEW n \in Bundle
               PROVE  d[n].total = d[n].of
    OBVIOUS
  <2>1. CASE s.total[n] = 0
    BY <1>2, <2>1 DEF NoTable
  <2>2. CASE s.total[n] # 0
    <3>1. d[n] = Table(s.times[n], s.total[n])
      BY <1>2, <2>2
    <3> QED
      BY <3>1 DEF Table, Agrees
  <2> QED
    BY <2>1, <2>2
<1>5. ASSUME NEW b \in Bundle, NEW k \in keys, s.times[b][k] # 0
      PROVE  d[b] # NoTable /\ d[b].rows[k] = s.times[b][k]
  <2> DEFINE f == s.times[b]
  <2>1. f \in [keys -> Nat] /\ RowSum(f) = s.total[b] /\ f[k] # 0
    BY <1>5 DEF IsCount, Agrees
  <2> HIDE DEF f
  <2>2. RowSum(f) = SumOver(f, keys)
    BY <2>1, RowSumIs
  <2>3. SumOver(f, keys) \in Nat /\ f[k] <= SumOver(f, keys)
    BY <2>1, SumNat
  <2>4. s.total[b] # 0
    BY <2>1, <2>2, <2>3
  <2>5. d[b].rows = f /\ d[b].of # 0
    <3>1. d[b] = Table(f, s.total[b])
      BY <1>2, <2>4 DEF f
    <3> QED
      BY <2>4, <3>1 DEF Table
  <2> QED
    BY <2>5 DEF NoTable, f
<1> QED
  BY <1>2, <1>3, <1>4, <1>5 DEF d

(* The tables when a report is written.                                    *)
LEMMA TablesShow ==
  ASSUME CountTypes, DueInv, TablesInv, pc \notin {"run", "statistics"}
  PROVE  /\ \A set \in DOMAIN Datum :
              /\ IsCount(stats[set], Key[set])
              /\ Agrees(stats[set], Key[set])
              /\ \A b \in Bundle, k \in Key[set] :
                   stats[set].times[b][k] =
                     Cardinality(Made(inputs, set, b, k, taskCount))
              /\ \A n \in Bundle \cup {All} :
                   tables[set][n].total = tables[set][n].of
              /\ tables[set][All].total = stats[set].exec
              /\ \A b \in Bundle, k \in Key[set] :
                   stats[set].times[b][k] # 0 =>
                     tables[set][b].rows[k] = stats[set].times[b][k]
         /\ stats["event"].exec + stats["componment"].exec = taskCount
<1>1. /\ dataVector.event = <<>> /\ dataVector.componment = <<>>
      /\ tables.event = StatisticsDetail(stats.event, Event)
      /\ tables.componment = StatisticsComponmentDetail(stats.componment)
  BY DEF TablesInv
<1>2. ASSUME NEW set \in DOMAIN Datum
      PROVE  /\ IsCount(stats[set], Key[set])
             /\ Due(set).times = stats[set].times
             /\ Due(set).total = stats[set].total
             /\ Due(set).exec = stats[set].exec
  <2>1. Due(set) = Pretreated(stats[set], <<>>)
    BY <1>1, TwoSets DEF Due
  <2>2. IsCount(stats[set], Key[set])
    BY DEF CountTypes
  <2> QED
    BY <2>1, <2>2, NothingToCount
<1>3. ASSUME NEW set \in DOMAIN Datum
      PROVE  Agrees(stats[set], Key[set])
  BY <1>2 DEF DueInv, Agrees
<1>4. ASSUME NEW set \in DOMAIN Datum
      PROVE  \A b \in Bundle, k \in Key[set] :
               stats[set].times[b][k] =
                 Cardinality(Made(inputs, set, b, k, taskCount))
  BY <1>2 DEF DueInv
<1>5. stats["event"].exec + stats["componment"].exec = taskCount
  BY <1>2, TwoSets DEF DueInv
<1>6. ASSUME NEW set \in DOMAIN Datum
      PROVE  /\ \A n \in Bundle \cup {All} :
                  tables[set][n].total = tables[set][n].of
             /\ tables[set][All].total = stats[set].exec
             /\ \A b \in Bundle, k \in Key[set] :
                  stats[set].times[b][k] # 0 =>
                    tables[set][b].rows[k] = stats[set].times[b][k]
  <2> DEFINE s == stats[set]
             keys == Key[set]
             d == StatisticsDetail(s, keys)
  <2>1. IsCount(s, keys) /\ Agrees(s, keys) /\ IsFiniteSet(keys)
    BY <1>2, <1>3, TwoSets
  <2> HIDE DEF s, keys
  <2>2. /\ d[All].total = s.exec
        /\ \A n \in Bundle \cup {All} : d[n].total = d[n].of
        /\ \A b \in Bundle, k \in keys :
             s.times[b][k] # 0 => d[b] # NoTable
                                  /\ d[b].rows[k] = s.times[b][k]
    BY <2>1, DetailIs
  <2>3. CASE set = "event"
    <3>1. tables[set] = d
      BY <1>1, <2>3, TwoSets DEF s, keys
    <3> HIDE DEF d
    <3> QED
      BY <2>2, <3>1 DEF s, keys
  <2>4. CASE set = "componment"
    <3>1. \A n \in Bundle \cup {All} :
            /\ tables[set][n].total = d[n].total
            /\ tables[set][n].of = d[n].of
            /\ d[n] # NoTable => tables[set][n].rows = d[n].rows
      <4>1. /\ tables[set] = StatisticsComponmentDetail(s)
            /\ d = StatisticsDetail(s, Type)
        BY <1>1, <2>4, TwoSets DEF s, keys
      <4> HIDE DEF d
      <4> QED
        BY <4>1 DEF StatisticsComponmentDetail, WithCoverage
    <3> HIDE DEF d
    <3> QED
      BY <2>2, <3>1 DEF s, keys
  <2> QED
    BY <2>3, <2>4, TwoSets
<1> QED
  BY <1>2, <1>3, <1>4, <1>5, <1>6

(* A CSV report counts each input once.                                    *)
LEMMA WriteCounts ==
  ASSUME CountTypes, HistoryInv, DueInv, TablesInv, TaskInv, WriteCsv
  PROVE  CsvInv' /\ EveryInputCounted'
<1>1. /\ pc \notin {"run", "statistics"}
      /\ csv' = [whole |-> TRUE, task |-> taskCount, bundles |-> bundles,
                 tables |-> tables]
      /\ UNCHANGED <<inputs, taskCount>>
  BY DEF WriteCsv, inputVars
<1>2. CsvInv'
  BY <1>1 DEF CsvInv, TaskInv
<1>3. /\ \A set \in DOMAIN Datum :
           /\ \A b \in Bundle, k \in Key[set] :
                stats[set].times[b][k] =
                  Cardinality(Made(inputs, set, b, k, taskCount))
           /\ \A n \in Bundle \cup {All} :
                tables[set][n].total = tables[set][n].of
           /\ tables[set][All].total = stats[set].exec
           /\ \A b \in Bundle, k \in Key[set] :
                stats[set].times[b][k] # 0 =>
                  tables[set][b].rows[k] = stats[set].times[b][k]
      /\ stats["event"].exec + stats["componment"].exec = taskCount
  BY <1>1, TablesShow
<1>4. ASSUME NEW set \in DOMAIN Datum, NEW b \in Bundle, NEW k \in Key[set],
             Made(inputs, set, b, k, taskCount) # {}
      PROVE  /\ tables[set][b].rows[k] =
                  Cardinality(Made(inputs, set, b, k, taskCount))
             /\ \E i \in DOMAIN bundles : bundles[i] = b
  <2> DEFINE made == Made(inputs, set, b, k, taskCount)
  <2>1. taskCount \in Nat /\ inputs \in Seq(Input) /\ Len(inputs) = taskCount
    BY DEF TaskInv, HistoryInv
  <2>2. Cardinality(made) # 0
    <3>1. made \subseteq 1 .. taskCount
      BY DEF Made
    <3>2. IsFiniteSet(1 .. taskCount)
      BY <2>1, FS_Interval
    <3>3. IsFiniteSet(made) /\ made # {}
      BY <1>4, <3>1, <3>2, FS_Subset
    <3> HIDE DEF made
    <3> QED
      BY <3>3, FS_EmptySet
  <2>3. PICK i \in made : TRUE
    BY <1>4
  <2>4. i \in DOMAIN inputs /\ inputs[i].bundle = b
    BY <2>1, <2>3 DEF Made
  <2> HIDE DEF made
  <2>5. \E j \in DOMAIN bundles : bundles[j] = b
    BY <2>4 DEF HistoryInv
  <2> QED
    BY <1>3, <2>2, <2>5 DEF made
<1>5. EveryInputCounted'
  <2>1. csv'.tables = tables /\ csv'.task = taskCount /\ csv'.bundles = bundles
    BY <1>1
  <2>2. tables.event[All].total + tables.componment[All].total = taskCount
    BY <1>3, TwoSets
  <2>3. \A set \in {"event", "componment"} :
          \A n \in Bundle \cup {All} :
            tables[set][n].total = tables[set][n].of
    BY <1>3, TwoSets
  <2>4. \A set \in {"event", "componment"} :
          \A b \in Bundle, k \in Key[set] :
            Made(inputs, set, b, k, taskCount) # {} =>
              /\ tables[set][b].rows[k] =
                   Cardinality(Made(inputs, set, b, k, taskCount))
              /\ \E i \in DOMAIN bundles : bundles[i] = b
    BY <1>4, TwoSets
  <2>5. ASSUME NEW set \in {"event", "componment"},
               NEW b \in Bundle, NEW k \in Key[set]
        PROVE  LET made == Made(inputs', set, b, k, csv'.task)
               IN  /\ made # {} =>
                        csv'.tables[set][b].rows[k] = Cardinality(made)
                   /\ made # {} => \E i \in DOMAIN csv'.bundles :
                                     csv'.bundles[i] = b
    <3> QED
      BY <1>1, <2>1, <2>4
  <2>6. /\ csv'.tables.event[All].total + csv'.tables.componment[All].total
             = csv'.task
        /\ \A set \in {"event", "componment"} :
             \A n \in Bundle \cup {All} :
               csv'.tables[set][n].total = csv'.tables[set][n].of
    BY <2>1, <2>2, <2>3
  <2> QED
    BY <2>5, <2>6 DEF EveryInputCounted
<1> QED
  BY <1>2, <1>5

(* A report keeps counting the inputs it counted.                          *)
LEMMA CsvCounts ==
  ASSUME HistoryInv, CsvInv, EveryInputCounted, TaskInv,
         csv' = csv \/ ~csv'.whole,
         taskCount' \in {taskCount, taskCount + 1},
         inputs' = inputs \/ \E x \in Input : inputs' = Append(inputs, x)
  PROVE  CsvInv' /\ EveryInputCounted'
<1>1. CASE ~csv'.whole
  BY <1>1 DEF CsvInv, EveryInputCounted
<1>2. CASE csv' = csv /\ csv.whole
  <2>1. csv.task \in 0 .. taskCount /\ taskCount \in Nat
    BY <1>2 DEF CsvInv, TaskInv
  <2>2. CsvInv'
    BY <1>2, <2>1 DEF CsvInv
  <2>3. \A set, b, k : Made(inputs', set, b, k, csv.task) =
                         Made(inputs, set, b, k, csv.task)
    <3>1. inputs \in Seq(Input) /\ csv.task \in 0 .. Len(inputs)
      BY <2>1 DEF HistoryInv
    <3>2. CASE inputs' = inputs
      BY <3>2
    <3>3. ASSUME NEW x \in Input, inputs' = Append(inputs, x)
          PROVE  \A set, b, k : Made(inputs', set, b, k, csv.task) =
                                   Made(inputs, set, b, k, csv.task)
      BY <3>1, <3>3, MadeBefore
    <3> QED
      BY <3>2, <3>3
  <2>4. EveryInputCounted'
    <3>1. ASSUME NEW set \in {"event", "componment"},
                 NEW b \in Bundle, NEW k \in Key[set]
          PROVE  LET made == Made(inputs', set, b, k, csv'.task)
                 IN  /\ made # {} =>
                          csv'.tables[set][b].rows[k] = Cardinality(made)
                     /\ made # {} => \E i \in DOMAIN csv'.bundles :
                                       csv'.bundles[i] = b
      BY <1>2, <2>3 DEF EveryInputCounted
    <3>2. /\ csv'.tables.event[All].total + csv'.tables.componment[All].total
               = csv'.task
          /\ \A set \in {"event", "componment"} :
               \A n \in Bundle \cup {All} :
                 csv'.tables[set][n].total = csv'.tables[set][n].of
      BY <1>2 DEF EveryInputCounted
    <3> QED
      BY <3>1, <3>2 DEF EveryInputCounted
  <2> QED
    BY <2>2, <2>4
<1>3. CASE csv' = csv /\ ~csv.whole
  BY <1>3 DEF CsvInv, EveryInputCounted
<1> QED
  BY <1>1, <1>2, <1>3

-----------------------------------------------------------------------------
(* No coverage is above 100%.                                              *)

(* The inputs to a type of component that are counted or due.              *)
DueTimes == Due("componment").times

(* The components of the pages that were seen, and the inputs to them.     *)
RecordInv ==
  /\ record = [b \in Bundle |-> record[b]]
  /\ \A b \in Bundle :
       /\ record[b].count \in [Type -> Nat]
       /\ DOMAIN record[b].pages \subseteq Page
       /\ \A p \in DOMAIN record[b].pages :
            record[b].pages[p] \in [Type -> Nat]
       /\ \A t \in Type : record[b].count[t] <= DueTimes[b][t]

(* What is counted for a coverage, and what will be.                       *)
CoverInv ==
  /\ stats.componment =
       [times |-> stats.componment.times, total |-> stats.componment.total,
        exec |-> stats.componment.exec, inputed |-> stats.componment.inputed,
        expect |-> stats.componment.expect]
  /\ stats.componment.inputed \in [Bundle -> [Type -> Nat]]
  /\ stats.componment.expect \in [Bundle -> [Type -> Nat]]
  /\ \A b \in Bundle, t \in Type :
       /\ stats.componment.inputed[b][t] <= stats.componment.expect[b][t]
       /\ stats.componment.inputed[b][t] <= DueTimes[b][t]
  /\ \A i \in DOMAIN dataVector.componment :
       LET x == dataVector.componment[i]
       IN  x.inputed <= x.expect /\ x.inputed <= DueTimes[x.bundle][x.key]

(* The components on the pages are a number.                               *)
LEMMA TotalIs ==
  ASSUME NEW pages, DOMAIN pages \subseteq Page, NEW t \in Type,
         \A p \in DOMAIN pages : pages[p] \in [Type -> Nat]
  PROVE  Total(pages, t) \in Nat
<1> DEFINE f == [p \in DOMAIN pages |-> pages[p][t]]
<1>1. IsFiniteSet(DOMAIN pages)
  BY FiniteAssumption, FS_Subset
<1>2. \A p \in DOMAIN pages : f[p] \in Nat
  OBVIOUS
<1>3. f \in [DOMAIN pages -> Int]
  OBVIOUS
<1> HIDE DEF f
<1>4. RowSum(f) = SumOver(f, DOMAIN pages)
  BY <1>3, RowSumIs
<1> QED
  BY <1>1, <1>2, <1>4, SumNat DEF Total, f

(* What is due are numbers.                                                *)
LEMMA DueTimesType ==
  ASSUME CountTypes, NEW b \in Bundle, NEW t \in Type
  PROVE  DueTimes[b][t] \in Nat
<1>1. /\ IsCount(stats["componment"], Type)
      /\ Records(dataVector["componment"], Type)
  BY TwoSets, AreRecords DEF CountTypes
<1>2. IsCount(Due("componment"), Type)
  BY <1>1, PretreatedIs DEF Due
<1> QED
  BY <1>2 DEF IsCount, DueTimes

(* Steps without an input to a component.                                  *)
LEMMA CoverKept ==
  ASSUME RecordInv, CoverInv,
         UNCHANGED record, stats'.componment = stats.componment,
         dataVector'.componment = dataVector.componment
  PROVE  RecordInv' /\ CoverInv'
<1>1. Due("componment")' = Due("componment")
  BY DEF Due
<1>2. \A b, t : DueTimes'[b][t] = DueTimes[b][t]
  BY <1>1 DEF DueTimes
<1>3. RecordInv'
  BY <1>2 DEF RecordInv
<1>4. CoverInv'
  BY <1>2 DEF CoverInv
<1> QED
  BY <1>3, <1>4

(* An input to a component.                                                *)
LEMMA ComponmentArranged ==
  ASSUME RecordInv, CountTypes, NEW b \in Bundle, NEW t \in Type,
         NEW page \in Page, NEW contents \in [Type -> Nat]
  PROVE  LET r == ComponmentInfoArrange(b, t, page, contents)
         IN  /\ r.count \in [Type -> Nat]
             /\ DOMAIN r.pages \subseteq Page
             /\ \A p \in DOMAIN r.pages : r.pages[p] \in [Type -> Nat]
             /\ \A u \in Type \ {t} : r.count[u] = record[b].count[u]
             /\ r.count[t] <= record[b].count[t] + 1
             /\ r.count[t] <= Total(r.pages, t)
             /\ Total(r.pages, t) \in Nat
<1> DEFINE old == record[b].pages
           count == record[b].count
           pages == [p \in DOMAIN old \cup {page} |->
                       IF p = page THEN contents ELSE old[p]]
           n == AtMost(count[t] + 1, Total(pages, t))
           r == ComponmentInfoArrange(b, t, page, contents)
<1>1. /\ count \in [Type -> Nat] /\ DOMAIN old \subseteq Page
      /\ \A p \in DOMAIN old : old[p] \in [Type -> Nat]
  BY DEF RecordInv
<1>2. /\ DOMAIN pages \subseteq Page
      /\ \A p \in DOMAIN pages : pages[p] \in [Type -> Nat]
  BY <1>1
<1>3. r = [count |-> [count EXCEPT ![t] = n], pages |-> pages]
  BY DEF ComponmentInfoArrange
<1> HIDE DEF old, count, pages, r
<1>4. Total(pages, t) \in Nat
  BY <1>2, TotalIs
<1>5. n \in Nat /\ n <= count[t] + 1 /\ n <= Total(pages, t)
  BY <1>1, <1>4 DEF AtMost
<1> HIDE DEF n
<1>6. r.pages = pages /\ r.count = [count EXCEPT ![t] = n]
  BY <1>3
<1> QED
  BY <1>1, <1>2, <1>4, <1>5, <1>6 DEF r, count

(* The inputs to a type of component stay within what is there and what    *)
(* was made: the record and what is made of it for the statistics.         *)
LEMMA ComponmentStep ==
  ASSUME CountTypes, RecordInv, CoverInv,
         NEW b \in Bundle, NEW t \in Type, NEW page \in Page,
         NEW contents \in [Type -> Nat],
         record' = [record EXCEPT
                      ![b] = ComponmentInfoArrange(b, t, page, contents)],
         dataVector'["componment"] =
           Append(dataVector["componment"],
                  [bundle |-> b, key |-> t, inputed |-> record'[b].count[t],
                   expect |-> Total(record'[b].pages, t)]),
         stats' = stats,
         \A c \in Bundle, u \in Type :
           DueTimes'[c][u] = DueTimes[c][u]
                               + IF c = b /\ u = t THEN 1 ELSE 0
  PROVE  RecordInv' /\ CoverInv'
<1> DEFINE r == ComponmentInfoArrange(b, t, page, contents)
           x == [bundle |-> b, key |-> t, inputed |-> record'[b].count[t],
                 expect |-> Total(record'[b].pages, t)]
<1>1. /\ r.count \in [Type -> Nat]
      /\ DOMAIN r.pages \subseteq Page
      /\ \A p \in DOMAIN r.pages : r.pages[p] \in [Type -> Nat]
      /\ \A u \in Type \ {t} : r.count[u] = record[b].count[u]
      /\ r.count[t] <= record[b].count[t] + 1
      /\ r.count[t] <= Total(r.pages, t)
      /\ Total(r.pages, t) \in Nat
  BY ComponmentArranged
<1>2. /\ record = [c \in Bundle |-> record[c]]
      /\ \A c \in Bundle :
           /\ record[c].count \in [Type -> Nat]
           /\ DOMAIN record[c].pages \subseteq Page
           /\ \A p \in DOMAIN record[c].pages :
                record[c].pages[p] \in [Type -> Nat]
           /\ \A u \in Type : record[c].count[u] <= DueTimes[c][u]
  BY DEF RecordInv
<1> HIDE DEF r
<1>3. /\ record'[b] = r
      /\ \A c \in Bundle \ {b} : record'[c] = record[c]
      /\ record' = [c \in Bundle |-> record'[c]]
  BY <1>2 DEF r
<1>4. \A c \in Bundle, u \in Type :
        /\ DueTimes[c][u] \in Nat /\ DueTimes'[c][u] \in Nat
        /\ DueTimes[c][u] <= DueTimes'[c][u]
  <2> SUFFICES ASSUME NEW c \in Bundle, NEW u \in Type
               PROVE  /\ DueTimes[c][u] \in Nat /\ DueTimes'[c][u] \in Nat
                      /\ DueTimes[c][u] <= DueTimes'[c][u]
    OBVIOUS
  <2>1. DueTimes[c][u] \in Nat
    BY DueTimesType
  <2> QED
    BY <2>1
<1>5. \A c \in Bundle, u \in Type : record'[c].count[u] <= DueTimes'[c][u]
  <2> SUFFICES ASSUME NEW c \in Bundle, NEW u \in Type
               PROVE  record'[c].count[u] <= DueTimes'[c][u]
    OBVIOUS
  <2>1. record[c].count[u] \in Nat /\ record[c].count[u] <= DueTimes[c][u]
    BY <1>2
  <2>2. CASE c = b /\ u = t
    <3>1. DueTimes'[c][u] = DueTimes[c][u] + 1
      BY <2>2
    <3>2. r.count[t] \in Nat /\ record'[c].count[u] = r.count[t]
      BY <1>1, <1>3, <2>2
    <3> QED
      BY <1>1, <1>4, <2>1, <2>2, <3>1, <3>2
  <2>3. CASE ~(c = b /\ u = t)
    <3>1. record'[c].count[u] = record[c].count[u]
      BY <1>1, <1>3, <2>3
    <3> QED
      BY <1>4, <2>1, <3>1
  <2> QED
    BY <2>2, <2>3
<1>6. RecordInv'
  <2>1. \A c \in Bundle :
          /\ record'[c].count \in [Type -> Nat]
          /\ DOMAIN record'[c].pages \subseteq Page
          /\ \A p \in DOMAIN record'[c].pages :
               record'[c].pages[p] \in [Type -> Nat]
    <3> SUFFICES ASSUME NEW c \in Bundle
                 PROVE  /\ record'[c].count \in [Type -> Nat]
                        /\ DOMAIN record'[c].pages \subseteq Page
                        /\ \A p \in DOMAIN record'[c].pages :
                             record'[c].pages[p] \in [Type -> Nat]
      OBVIOUS
    <3>1. CASE c = b
      BY <1>1, <1>3, <3>1
    <3>2. CASE c # b
      BY <1>2, <1>3, <3>2
    <3> QED
      BY <3>1, <3>2
  <2> QED
    BY <1>3, <1>5, <2>1 DEF RecordInv
<1>7. ASSUME NEW i \in DOMAIN dataVector'.componment
      PROVE  LET y == dataVector'.componment[i]
             IN  y.inputed <= y.expect
                 /\ y.inputed <= DueTimes'[y.bundle][y.key]
  <2> DEFINE data == dataVector.componment
             more == dataVector'.componment
             one == [bundle : Bundle, key : Type, inputed : Nat, expect : Nat]
  <2>1. data \in Seq(one) /\ more = Append(data, x)
    <3>1. Datum["componment"] = one
      BY DEF Datum
    <3>2. data \in Seq(Datum["componment"])
      BY TwoSets DEF CountTypes
    <3> HIDE DEF one, x
    <3> QED
      BY <3>1, <3>2 DEF x
  <2>2. \A j \in DOMAIN data :
          /\ data[j].inputed <= data[j].expect
          /\ data[j].inputed <= DueTimes[data[j].bundle][data[j].key]
    BY DEF CoverInv
  <2>3. i \in DOMAIN more
    OBVIOUS
  <2>4. CASE i \in DOMAIN data
    <3> DEFINE y == data[i]
    <3>1. y \in one /\ more[i] = y
      <4> HIDE DEF data, more, x, one
      <4> QED
        BY <2>1, <2>4
    <3>2. y.inputed <= y.expect /\ y.inputed <= DueTimes[y.bundle][y.key]
      BY <2>2, <2>4
    <3> HIDE DEF y
    <3>3. y.bundle \in Bundle /\ y.key \in Type /\ y.inputed \in Nat
      BY <3>1
    <3> DEFINE was == DueTimes[y.bundle][y.key]
               is == DueTimes'[y.bundle][y.key]
               got == y.inputed
    <3>4. was \in Nat /\ is \in Nat /\ was <= is
      BY <1>4, <3>3
    <3>5. got \in Nat /\ got <= was
      BY <3>2, <3>3
    <3> HIDE DEF was, is, got
    <3>6. got <= is
      BY ONLY <3>4, <3>5
    <3>7. y.inputed <= DueTimes'[y.bundle][y.key]
      BY <3>6 DEF got, is
    <3> QED
      BY <3>1, <3>2, <3>7
  <2>5. CASE i \notin DOMAIN data
    <3>1. more[i] = x
      <4> HIDE DEF data, more, x, one
      <4> QED
        BY <2>1, <2>3, <2>5
    <3>2. x.inputed = r.count[t] /\ x.expect = Total(r.pages, t)
          /\ x.bundle = b /\ x.key = t
      BY <1>3
    <3>3. r.count[t] <= DueTimes'[b][t]
      BY <1>3, <1>5
    <3> HIDE DEF x
    <3>4. x.inputed <= x.expect /\ x.inputed <= DueTimes'[x.bundle][x.key]
      BY <1>1, <3>2, <3>3
    <3> QED
      BY <3>1, <3>4
  <2> QED
    BY <2>4, <2>5
<1>8. CoverInv'
  <2> DEFINE e == stats.componment
  <2>1. /\ e = [times |-> e.times, total |-> e.total, exec |-> e.exec,
               inputed |-> e.inputed, expect |-> e.expect]
        /\ e.inputed \in [Bundle -> [Type -> Nat]]
        /\ e.expect \in [Bundle -> [Type -> Nat]]
        /\ \A c \in Bundle, u \in Type :
             /\ e.inputed[c][u] <= e.expect[c][u]
             /\ e.inputed[c][u] <= DueTimes[c][u]
    BY DEF CoverInv
  <2>2. stats'.componment = e
    OBVIOUS
  <2> HIDE DEF e
  <2>3. \A c \in Bundle, u \in Type : e.inputed[c][u] <= DueTimes'[c][u]
    <3> SUFFICES ASSUME NEW c \in Bundle, NEW u \in Type
                 PROVE  e.inputed[c][u] <= DueTimes'[c][u]
      OBVIOUS
    <3> DEFINE got == e.inputed[c][u]
               was == DueTimes[c][u]
               is == DueTimes'[c][u]
    <3>1. got \in Nat /\ got <= was
      BY <2>1
    <3>2. was \in Nat /\ is \in Nat /\ was <= is
      BY <1>4
    <3> HIDE DEF got, was, is
    <3>3. got <= is
      BY ONLY <3>1, <3>2
    <3> QED
      BY <3>3 DEF got, is
  <2>4. \A c \in Bundle, u \in Type :
          /\ e.inputed[c][u] <= e.expect[c][u]
          /\ e.inputed[c][u] <= DueTimes'[c][u]
    BY <2>1, <2>3
  <2> QED
    BY <1>7, <2>1, <2>2, <2>4, Zenon DEF CoverInv
<1> QED
  BY <1>6, <1>8

(* The last of the records that match, or what there was.                  *)
LEMMA LatestIs ==
  ASSUME NEW data, Records(data, Type), NEW old, NEW field,
         NEW b \in Bundle, NEW t \in Type
  PROVE  \/ /\ Matching(data, b, t) = {}
            /\ Latest(old, data, field)[b][t] = old[b][t]
         \/ /\ Max(Matching(data, b, t)) \in Matching(data, b, t)
            /\ Latest(old, data, field)[b][t]
                 = data[Max(Matching(data, b, t))][field]
<1>1. IsFiniteSet(Matching(data, b, t))
  BY RecordsFinite
<1>2. Matching(data, b, t) \subseteq Int
  BY DEF Matching, Records
<1>3. Matching(data, b, t) # {} =>
        Max(Matching(data, b, t)) \in Matching(data, b, t)
  BY <1>1, <1>2, MaxExists
<1> QED
  BY <1>3 DEF Latest

(* The statistics keep the bounds of each record.                          *)
LEMMA CoverCounted ==
  ASSUME CountTypes, DueInv, RecordInv, CoverInv, SharedTypeOK,
         StatisticsData
  PROVE  /\ RecordInv' /\ CoverInv'
         /\ IsCount(stats'.componment, Type)
         /\ \A b, t : stats'.componment.times[b][t] = DueTimes[b][t]
         /\ \A b, t : DueTimes'[b][t] = DueTimes[b][t]
<1> DEFINE data == dataVector.componment
           s == stats.componment
           d == Due("componment")
           e == stats'.componment
           inputed == Latest(s.inputed, data, "inputed")
           expect == Latest(s.expect, data, "expect")
<1>1. /\ IsCount(s, Type) /\ data \in Seq(Datum["componment"])
      /\ Records(data, Type)
  BY TwoSets, AreRecords DEF CountTypes
<1>2. /\ s = [times |-> s.times, total |-> s.total, exec |-> s.exec,
              inputed |-> s.inputed, expect |-> s.expect]
      /\ s.inputed \in [Bundle -> [Type -> Nat]]
      /\ s.expect \in [Bundle -> [Type -> Nat]]
      /\ \A b \in Bundle, t \in Type :
           s.inputed[b][t] <= s.expect[b][t]
           /\ s.inputed[b][t] <= DueTimes[b][t]
      /\ \A i \in DOMAIN data :
           /\ data[i].inputed <= data[i].expect
           /\ data[i].inputed <= DueTimes[data[i].bundle][data[i].key]
  BY DEF CoverInv
<1>3. /\ e = [d EXCEPT !.inputed = Latest(@, data, "inputed"),
                       !.expect = Latest(@, data, "expect")]
      /\ dataVector'.componment = <<>> /\ UNCHANGED record
  BY DEF StatisticsData, PretreatedComponments, Due, Cleared, SharedTypeOK,
         inputVars
<1>4. /\ IsCount(d, Type) /\ DOMAIN d = DOMAIN s
      /\ d.inputed = s.inputed /\ d.expect = s.expect
  <2> DEFINE c == Pretreated(s, data)
  <2>1. /\ IsCount(c, Type) /\ DOMAIN c = DOMAIN s
        /\ \A x \in DOMAIN s \ {"times", "total", "exec"} : c[x] = s[x]
    BY <1>1, PretreatedIs
  <2>2. {"inputed", "expect"} \subseteq DOMAIN s \ {"times", "total", "exec"}
    BY <1>2
  <2>3. d = c
    BY DEF Due
  <2> HIDE DEF c, d, s
  <2> QED
    BY <2>1, <2>2, <2>3
<1>5. DOMAIN s = {"times", "total", "exec", "inputed", "expect"}
  BY <1>2
<1> HIDE DEF data, s, d, e
<1>6. /\ e.inputed = inputed /\ e.expect = expect
      /\ e.times = d.times /\ e.total = d.total /\ e.exec = d.exec
      /\ DOMAIN e = DOMAIN d /\ e = [x \in DOMAIN e |-> e[x]]
  <2>1. d = [x \in DOMAIN d |-> d[x]]
    BY <1>4 DEF IsCount
  <2> HIDE DEF inputed, expect
  <2>2. e = [d EXCEPT !.inputed = inputed, !.expect = expect]
    BY <1>3, <1>4 DEF inputed, expect
  <2> QED
    BY <1>4, <1>5, <2>1, <2>2
<1>7. IsCount(e, Type)
  BY <1>4, <1>6 DEF IsCount
<1>8. ASSUME NEW b \in Bundle, NEW t \in Type
      PROVE  /\ inputed[b][t] \in Nat /\ expect[b][t] \in Nat
             /\ inputed[b][t] <= expect[b][t]
             /\ inputed[b][t] <= DueTimes[b][t]
  <2> DEFINE at == Matching(data, b, t)
             last == Max(at)
  <2>1. \/ /\ at = {}
           /\ inputed[b][t] = s.inputed[b][t]
        \/ last \in at /\ inputed[b][t] = data[last]["inputed"]
    BY <1>1, LatestIs
  <2>2. \/ /\ at = {}
           /\ expect[b][t] = s.expect[b][t]
        \/ last \in at /\ expect[b][t] = data[last]["expect"]
    BY <1>1, LatestIs
  <2> HIDE DEF inputed, expect, last
  <2>3. CASE at = {}
    <3>1. /\ inputed[b][t] = s.inputed[b][t]
          /\ expect[b][t] = s.expect[b][t]
      <4> HIDE DEF at
      <4> QED
        BY <2>1, <2>2, <2>3
    <3> QED
      BY <1>2, <3>1
  <2>4. CASE at # {}
    <3>1. /\ last \in at /\ inputed[b][t] = data[last].inputed
          /\ expect[b][t] = data[last].expect
      <4> HIDE DEF at
      <4> QED
        BY <2>1, <2>2, <2>4
    <3>2. /\ last \in DOMAIN data /\ data[last].bundle = b
          /\ data[last].key = t
      BY <3>1 DEF Matching
    <3>3. data[last].inputed \in Nat /\ data[last].expect \in Nat
      <4>1. data[last] \in Datum["componment"]
        BY <1>1, <3>2
      <4> QED
        BY <4>1 DEF Datum
    <3> QED
      BY <1>2, <3>1, <3>2, <3>3
  <2> QED
    BY <2>3, <2>4
<1>9. inputed \in [Bundle -> [Type -> Nat]]
      /\ expect \in [Bundle -> [Type -> Nat]]
  <2>1. /\ inputed = [b \in Bundle |-> [t \in Type |-> inputed[b][t]]]
        /\ expect = [b \in Bundle |-> [t \in Type |-> expect[b][t]]]
    BY DEF Latest
  <2> HIDE DEF inputed, expect
  <2>2. /\ \A b \in Bundle : [t \in Type |-> inputed[b][t]] \in [Type -> Nat]
        /\ \A b \in Bundle : [t \in Type |-> expect[b][t]] \in [Type -> Nat]
    BY <1>8
  <2> QED
    BY <2>1, <2>2
<1> HIDE DEF inputed, expect
<1>10. Due("componment")'.times = d.times
  <2> DEFINE f == Pretreated(e, <<>>)
  <2>1. Due("componment")' = f
    BY <1>3 DEF Due, e
  <2>2. f.times = e.times
    BY <1>7, NothingToCount
  <2> HIDE DEF f
  <2> QED
    BY <1>6, <2>1, <2>2
<1>11. \A b, t : DueTimes'[b][t] = DueTimes[b][t]
  BY <1>10 DEF DueTimes, d
<1>12. RecordInv'
  BY <1>3, <1>11 DEF RecordInv
<1>13. CoverInv'
  <2>1. e = [times |-> e.times, total |-> e.total, exec |-> e.exec,
             inputed |-> e.inputed, expect |-> e.expect]
    BY <1>4, <1>5, <1>6
  <2>2. \A b \in Bundle, t \in Type :
          e.inputed[b][t] <= e.expect[b][t]
          /\ e.inputed[b][t] <= DueTimes'[b][t]
    BY <1>6, <1>8, <1>11
  <2>3. DOMAIN dataVector'.componment = {}
    BY <1>3
  <2> QED
    BY <1>6, <1>9, <2>1, <2>2, <2>3 DEF CoverInv, e
<1>14. \A b, t : e.times[b][t] = DueTimes[b][t]
  BY <1>6 DEF DueTimes, d
<1> QED
  BY <1>7, <1>11, <1>12, <1>13, <1>14 DEF e

(* What is below, row by row, is below in the table of all.                *)
LEMMA SummedBounded ==
  ASSUME NEW f \in [Bundle -> [Type -> Nat]],
         NEW g \in [Bundle -> [Type -> Nat]],
         NEW t \in Type, \A b \in Bundle : f[b][t] <= g[b][t]
  PROVE  Summed(f, Type)[t] <= Summed(g, Type)[t]
<1> DEFINE p == [b \in Bundle |-> f[b][t]]
           q == [b \in Bundle |-> g[b][t]]
<1>1. /\ Summed(f, Type)[t] = RowSum(p)
      /\ Summed(g, Type)[t] = RowSum(q)
  BY DEF Summed
<1>2. /\ p \in [Bundle -> Int] /\ q \in [Bundle -> Int]
      /\ \A b \in Bundle : p[b] \in Int /\ q[b] \in Int /\ p[b] <= q[b]
  OBVIOUS
<1> HIDE DEF p, q
<1>3. SumOver(p, Bundle) <= SumOver(q, Bundle)
  BY <1>2, FiniteAssumption, SumMonotone
<1> QED
  BY <1>1, <1>2, <1>3, RowSumIs

(* The tables of components.                                               *)
LEMMA TablesCover ==
  ASSUME CountTypes, DueInv, RecordInv, CoverInv, SharedTypeOK,
         StatisticsData
  PROVE  CoverageWithinBounds'
<1> DEFINE s == stats'.componment
           d == StatisticsDetail(s, Type)
           T == tables'.componment
<1>1. /\ s.inputed \in [Bundle -> [Type -> Nat]]
      /\ s.expect \in [Bundle -> [Type -> Nat]]
      /\ \A b \in Bundle, t \in Type :
           s.inputed[b][t] <= s.expect[b][t]
           /\ s.inputed[b][t] <= s.times[b][t]
  <2>1. /\ CoverInv'
        /\ \A b, t : s.times[b][t] = DueTimes[b][t]
    BY CoverCounted
  <2>2. \A b \in Bundle, t \in Type : s.inputed[b][t] <= DueTimes'[b][t]
    BY <2>1 DEF CoverInv
  <2>3. \A b \in Bundle, t \in Type : DueTimes'[b][t] = DueTimes[b][t]
    BY CoverCounted
  <2> QED
    BY <2>1, <2>2, <2>3 DEF CoverInv
<1>2. s.times \in [Bundle -> [Type -> Nat]]
  BY CoverCounted DEF IsCount, s
<1>3. T = StatisticsComponmentDetail(s)
  BY DEF StatisticsData, CountTypes
<1> HIDE DEF s, T
<1>4. All \notin Bundle
  BY NamesAssumption
<1>5. ASSUME NEW b \in Bundle, NEW t \in Type, T[b] # NoTable
      PROVE  /\ T[b].inputed[t] <= T[b].expect[t]
             /\ T[b].inputed[t] <= T[b].rows[t]
  <2>1. d[b] # NoTable /\ T[b] = WithCoverage(d[b], s.inputed[b], s.expect[b])
    <3>1. d[b] # NoTable
      BY <1>3, <1>4, <1>5 DEF StatisticsComponmentDetail
    <3> QED
      BY <1>3, <1>4, <3>1 DEF StatisticsComponmentDetail
  <2>2. d[b] = Table(s.times[b], s.total[b])
    BY <1>4, <2>1 DEF StatisticsDetail
  <2> HIDE DEF d
  <2>3. /\ T[b].inputed = s.inputed[b] /\ T[b].expect = s.expect[b]
        /\ T[b].rows = s.times[b]
    BY <2>1, <2>2 DEF WithCoverage, Table
  <2> QED
    BY <1>1, <2>3
<1>6. ASSUME NEW t \in Type
      PROVE  /\ T[All].inputed[t] <= T[All].expect[t]
             /\ T[All].inputed[t] <= T[All].rows[t]
  <2>1. T[All] = WithCoverage(d[All], Summed(s.inputed, Type),
                              Summed(s.expect, Type))
    BY <1>3 DEF StatisticsComponmentDetail
  <2>2. d[All] = GlobalTable(s, Type)
    BY DEF StatisticsDetail
  <2> HIDE DEF d
  <2>3. /\ T[All].inputed = Summed(s.inputed, Type)
        /\ T[All].expect = Summed(s.expect, Type)
        /\ T[All].rows = Summed(s.times, Type)
    BY <2>1, <2>2 DEF WithCoverage, GlobalTable, Table
  <2>4. /\ Summed(s.inputed, Type)[t] <= Summed(s.expect, Type)[t]
        /\ Summed(s.inputed, Type)[t] <= Summed(s.times, Type)[t]
    BY <1>1, <1>2, SummedBounded
  <2> QED
    BY <2>3, <2>4
<1> QED
  BY <1>5, <1>6 DEF CoverageWithinBounds, T

-----------------------------------------------------------------------------
(* The two invariants of the counts, together.                             *)
TotalInv == CountInv /\ RecordInv /\ CoverInv /\ CoverageWithinBounds

(* A row of zeros adds up to zero.                                         *)
LEMMA ZeroSum ==
  ASSUME NEW S, IsFiniteSet(S), NEW f, DOMAIN f = S, \A x \in S : f[x] = 0
  PROVE  RowSum(f) = 0
<1>1. SumOver(f, S) = 0
  BY SumZero
<1> QED
  BY <1>1 DEF RowSum, SumOver

(* Nothing is counted yet.                                                 *)
LEMMA NothingDue ==
  ASSUME NEW keys, IsFiniteSet(keys), NEW s,
         {"times", "total", "exec"} \subseteq DOMAIN s,
         s = [x \in DOMAIN s |-> s[x]],
         s.times = NoTimes(keys), s.total = NoTotals, s.exec = 0
  PROVE  LET d == Pretreated(s, <<>>)
         IN  /\ IsCount(s, keys) /\ Agrees(d, keys) /\ d.exec = 0
             /\ \A b \in Bundle, k \in keys : d.times[b][k] = 0
<1> DEFINE d == Pretreated(s, <<>>)
           times == NoTimes(keys)
<1>1. IsCount(s, keys)
  BY DEF IsCount, NoTimes, NoTotals
<1>2. d.times = times /\ d.total = NoTotals /\ d.exec = 0
  BY <1>1, NothingToCount
<1>3. /\ times = [b \in Bundle |-> times[b]]
      /\ \A b \in Bundle : times[b] = [k \in keys |-> 0]
  BY DEF NoTimes
<1> HIDE DEF d, times
<1>4. \A b \in Bundle : RowSum(times[b]) = NoTotals[b]
  <2> SUFFICES ASSUME NEW b \in Bundle
               PROVE  RowSum(times[b]) = NoTotals[b]
    OBVIOUS
  <2> DEFINE f == times[b]
  <2>1. DOMAIN f = keys /\ \A k \in keys : f[k] = 0
    BY <1>3
  <2> HIDE DEF f
  <2>2. RowSum(f) = 0
    BY <2>1, ZeroSum
  <2> QED
    BY <2>2 DEF NoTotals, f
<1>5. RowSum(Summed(times, keys)) = 0
  <2> DEFINE f == Summed(times, keys)
  <2>1. DOMAIN f = keys
    BY DEF Summed
  <2>2. ASSUME NEW k \in keys PROVE f[k] = 0
    <3> DEFINE g == [b \in Bundle |-> times[b][k]]
    <3>1. f[k] = RowSum(g)
      BY DEF Summed
    <3>2. DOMAIN g = Bundle /\ \A b \in Bundle : g[b] = 0
      BY <1>3
    <3>3. IsFiniteSet(Bundle)
      BY FiniteAssumption
    <3> HIDE DEF f, g
    <3> QED
      BY <3>1, <3>2, <3>3, ZeroSum
  <2> HIDE DEF f
  <2> QED
    BY <2>1, <2>2, ZeroSum DEF f
<1>6. Agrees(d, keys)
  BY <1>2, <1>4, <1>5 DEF Agrees
<1> QED
  BY <1>1, <1>2, <1>3, <1>6 DEF d

(* No input is counted in the initial state.                               *)
LEMMA InitTotal == Init => TotalInv
<1> SUFFICES ASSUME Init PROVE TotalInv
  OBVIOUS
<1> DEFINE ev == [times |-> NoTimes(Event), total |-> NoTotals, exec |-> 0]
           co == [times |-> NoTimes(Type), total |-> NoTotals, exec |-> 0,
                  inputed |-> NoTimes(Type), expect |-> NoTimes(Type)]
<1>1. /\ stats = [event |-> ev, componment |-> co]
      /\ dataVector.event = <<>> /\ dataVector.componment = <<>>
      /\ inputs = <<>> /\ bundles = <<>> /\ taskCount = 0 /\ pc = "run"
      /\ csv = Absent
  BY DEF Init
<1>2. /\ stats.event = ev /\ stats.componment = co
      /\ stats["event"] = ev /\ stats["componment"] = co
      /\ dataVector["event"] = <<>> /\ dataVector["componment"] = <<>>
  BY <1>1
<1>3. /\ {"times", "total", "exec"} \subseteq DOMAIN ev
      /\ ev = [x \in DOMAIN ev |-> ev[x]]
      /\ ev.times = NoTimes(Event) /\ ev.total = NoTotals /\ ev.exec = 0
  OBVIOUS
<1>4. /\ {"times", "total", "exec"} \subseteq DOMAIN co
      /\ co = [x \in DOMAIN co |-> co[x]]
      /\ co.times = NoTimes(Type) /\ co.total = NoTotals /\ co.exec = 0
  OBVIOUS
<1>5. /\ co = [times |-> co.times, total |-> co.total, exec |-> co.exec,
               inputed |-> co.inputed, expect |-> co.expect]
      /\ co.inputed = NoTimes(Type) /\ co.expect = NoTimes(Type)
  OBVIOUS
<1> HIDE DEF ev, co
<1>6. /\ IsCount(ev, Event) /\ Agrees(Due("event"), Event)
      /\ Due("event").exec = 0
      /\ \A b \in Bundle, k \in Event : Due("event").times[b][k] = 0
  <2>1. Due("event") = Pretreated(ev, <<>>)
    BY <1>2 DEF Due
  <2> QED
    BY <1>3, <2>1, FiniteAssumption, NothingDue
<1>7. /\ IsCount(co, Type) /\ Agrees(Due("componment"), Type)
      /\ Due("componment").exec = 0
      /\ \A b \in Bundle, k \in Type : Due("componment").times[b][k] = 0
  <2>1. Due("componment") = Pretreated(co, <<>>)
    BY <1>2 DEF Due
  <2> QED
    BY <1>4, <2>1, FiniteAssumption, NothingDue
<1>8. CountTypes
  <2>1. stats = [event |-> stats.event, componment |-> stats.componment]
    BY <1>1
  <2>2. tables = [event |-> tables.event, componment |-> tables.componment,
                  exception |-> tables.exception]
    BY DEF Init
  <2>3. \A set \in {"event", "componment"} :
          /\ IsCount(stats[set], Key[set])
          /\ dataVector[set] \in Seq(Datum[set])
    <3>1. \A S : <<>> \in Seq(S)
      OBVIOUS
    <3> QED
      BY <1>2, <1>6, <1>7, <3>1, TwoSets
  <2> QED
    BY <2>1, <2>2, <2>3, TwoSets DEF CountTypes
<1>9. HistoryInv
  BY <1>1 DEF HistoryInv
<1>10. DueInv
  <2>1. \A set, b, k : Cardinality(Made(inputs, set, b, k, taskCount)) = 0
    <3>1. \A set, b, k : Made(inputs, set, b, k, taskCount) = {}
      BY <1>1 DEF Made
    <3> QED
      BY <3>1, FS_EmptySet
  <2>2. \A set \in {"event", "componment"} :
          /\ Agrees(Due(set), Key[set])
          /\ \A b \in Bundle, k \in Key[set] : Due(set).times[b][k] = 0
    BY <1>6, <1>7, TwoSets
  <2>3. Due("event").exec + Due("componment").exec = taskCount
    BY <1>1, <1>6, <1>7
  <2> QED
    BY <2>1, <2>2, <2>3, TwoSets DEF DueInv
<1>11. TablesInv /\ CsvInv /\ EveryInputCounted
  BY <1>1 DEF TablesInv, CsvInv, EveryInputCounted, Absent
<1>12. RecordInv
  <2>1. \A b \in Bundle, t \in Type : DueTimes[b][t] = 0
    BY <1>7 DEF DueTimes
  <2>2. record = [b \in Bundle |->
                    [count |-> [t \in Type |-> 0], pages |-> <<>>]]
    BY DEF Init
  <2>3. DOMAIN <<>> = {}
    OBVIOUS
  <2> QED
    BY <2>1, <2>2, <2>3 DEF RecordInv
<1>13. CoverInv
  <2>1. \A b \in Bundle, t \in Type : DueTimes[b][t] = 0
    BY <1>7 DEF DueTimes
  <2>2. /\ NoTimes(Type) \in [Bundle -> [Type -> Nat]]
        /\ \A b \in Bundle, t \in Type : NoTimes(Type)[b][t] = 0
    BY DEF NoTimes
  <2>3. DOMAIN dataVector.componment = {}
    BY <1>1
  <2> QED
    BY <1>2, <1>5, <2>1, <2>2, <2>3 DEF CoverInv
<1>14. CoverageWithinBounds
  <2>1. \A b \in Bundle \cup {All} : tables.componment[b] = NoTable
    BY DEF Init
  <2> QED
    BY <2>1 DEF CoverageWithinBounds
<1> QED
  BY <1>8, <1>9, <1>10, <1>11, <1>12, <1>13, <1>14 DEF TotalInv, CountInv

(* Steps of the report that count nothing.                                 *)
LEMMA TotalKept ==
  ASSUME TaskInv, TotalInv,
         UNCHANGED <<stats, inputs, bundles, taskCount, record>>,
         dataVector'.event = dataVector.event,
         dataVector'.componment = dataVector.componment,
         tables' = [event |-> tables'.event,
                    componment |-> tables'.componment,
                    exception |-> tables'.exception],
         tables'.event = tables.event,
         tables'.componment = tables.componment,
         csv' = csv \/ ~csv'.whole,
         pc' \in {"run", "statistics"} \/ pc \notin {"run", "statistics"}
  PROVE  TotalInv'
<1>1. CountTypes /\ HistoryInv /\ DueInv /\ TablesInv /\ CsvInv
      /\ EveryInputCounted
  BY DEF TotalInv, CountInv
<1>2. \A set \in DOMAIN Datum : dataVector'[set] = dataVector[set]
  BY TwoSets
<1>3. CountTypes' /\ HistoryInv' /\ DueInv' /\ TablesInv'
  BY <1>1, <1>2, CountsKept
<1>4. CsvInv' /\ EveryInputCounted'
  BY <1>1, CsvCounts
<1>5. RecordInv' /\ CoverInv'
  BY CoverKept DEF TotalInv
<1>6. CoverageWithinBounds'
  BY DEF TotalInv, CoverageWithinBounds
<1> QED
  BY <1>3, <1>4, <1>5, <1>6 DEF TotalInv, CountInv

(* An input that is not to a component.                                    *)
LEMMA EventTotal ==
  ASSUME SharedTypeOK, TaskInv, TotalInv,
         NEW b \in Bundle, NEW e \in Event, SyncEvent(b, e)
  PROVE  TotalInv'
<1> DEFINE x == [bundle |-> b, key |-> e]
           input == [kind |-> "event", bundle |-> b, key |-> e]
<1>1. CountTypes /\ HistoryInv /\ DueInv /\ TablesInv /\ CsvInv
      /\ EveryInputCounted
  BY DEF TotalInv, CountInv
<1>2. FilterDetail(dataVector.event, e, x) = Append(dataVector.event, x)
  BY NamesAssumption, Zenon DEF FilterDetail
<1>3. /\ dataVector' = [dataVector EXCEPT
           !.event = FilterDetail(@, e, x)]
      /\ inputs' = Append(inputs, input)
      /\ UNCHANGED <<stats, tables, record, csv>> /\ taskCount' = taskCount + 1
      /\ bundles' = IF \E i \in DOMAIN bundles : bundles[i] = b
                    THEN bundles ELSE Append(bundles, b)
  BY DEF SyncEvent, Counted, countVars, files
<1>4. pc' \in {"run", "statistics"}
  BY DEF SyncEvent, Counted
<1>5. /\ dataVector'["event"] = Append(dataVector["event"], x)
      /\ dataVector'.componment = dataVector.componment
      /\ dataVector'["componment"] = dataVector["componment"]
  BY <1>2, <1>3 DEF SharedTypeOK
<1>6. /\ "event" \in DOMAIN Datum /\ e \in Key["event"]
      /\ x \in Datum["event"] /\ x.bundle = b /\ x.key = e
      /\ \A other \in DOMAIN Datum \ {"event"} :
           dataVector'[other] = dataVector[other]
  <2>1. Datum["event"] = [bundle : Bundle, key : Event]
    BY DEF Datum
  <2> QED
    BY <1>5, <2>1, TwoSets
<1>7. input \in Input
  BY TwoSets DEF Input
<1> HIDE DEF x, input
<1>8. inputs' = Append(inputs, [kind |-> "event", bundle |-> b, key |-> e])
  BY <1>3 DEF input
<1>9. CountTypes' /\ HistoryInv' /\ DueInv'
  BY <1>1, <1>3, <1>5, <1>6, <1>8, RecordingStep
<1>10. TablesInv'
  BY <1>4 DEF TablesInv
<1>11. CsvInv' /\ EveryInputCounted'
  BY <1>1, <1>3, <1>7, CsvCounts
<1>12. RecordInv' /\ CoverInv'
  BY <1>3, <1>5, CoverKept DEF TotalInv
<1>13. CoverageWithinBounds'
  BY <1>3 DEF TotalInv, CoverageWithinBounds
<1> QED
  BY <1>9, <1>10, <1>11, <1>12, <1>13 DEF TotalInv, CountInv

(* An input to a component.                                                *)
LEMMA ComponmentTotal ==
  ASSUME SharedTypeOK, TaskInv, TotalInv,
         NEW b \in Bundle, NEW t \in Type, NEW page \in Page,
         NEW contents \in Contents[page],
         SyncComponment(b, t, page, contents)
  PROVE  TotalInv'
<1> DEFINE x == [bundle |-> b, key |-> t, inputed |-> record'[b].count[t],
                 expect |-> Total(record'[b].pages, t)]
           input == [kind |-> "componment", bundle |-> b, key |-> t]
           r == ComponmentInfoArrange(b, t, page, contents)
<1>1. CountTypes /\ HistoryInv /\ DueInv /\ TablesInv /\ CsvInv
      /\ EveryInputCounted /\ RecordInv /\ CoverInv /\ CoverageWithinBounds
  BY DEF TotalInv, CountInv
<1>2. FilterDetail(dataVector.componment, t, x)
        = Append(dataVector.componment, x)
  BY NamesAssumption, Zenon DEF FilterDetail
<1>3. /\ dataVector' = [dataVector EXCEPT
           !.componment = FilterDetail(@, t, x)]
      /\ record' = [record EXCEPT ![b] = r]
      /\ inputs' = Append(inputs, input)
      /\ UNCHANGED <<stats, tables, csv>> /\ taskCount' = taskCount + 1
      /\ bundles' = IF \E i \in DOMAIN bundles : bundles[i] = b
                    THEN bundles ELSE Append(bundles, b)
  BY DEF SyncComponment, Counted, countVars, files
<1>4. pc' \in {"run", "statistics"}
  BY DEF SyncComponment, Counted
<1>5. contents \in [Type -> Nat]
  BY ContentsAssumption
<1>6. /\ r.count \in [Type -> Nat] /\ Total(r.pages, t) \in Nat
      /\ record'[b] = r
  <2>1. record = [c \in Bundle |-> record[c]]
    BY <1>1 DEF RecordInv
  <2>2. r.count \in [Type -> Nat] /\ Total(r.pages, t) \in Nat
    BY <1>1, <1>5, ComponmentArranged
  <2> HIDE DEF r
  <2> QED
    BY <1>3, <2>1, <2>2
<1> HIDE DEF r
<1>7. /\ "componment" \in DOMAIN Datum /\ t \in Key["componment"]
      /\ x \in Datum["componment"] /\ x.bundle = b /\ x.key = t
  <2>1. Datum["componment"] =
          [bundle : Bundle, key : Type, inputed : Nat, expect : Nat]
    BY DEF Datum
  <2>2. record'[b].count[t] \in Nat /\ Total(record'[b].pages, t) \in Nat
    BY <1>6
  <2> QED
    BY <2>1, <2>2, TwoSets
<1>8. input \in Input
  BY TwoSets DEF Input
<1>9. /\ dataVector'["componment"] = Append(dataVector["componment"], x)
      /\ dataVector'["event"] = dataVector["event"]
  <2> HIDE DEF x
  <2> QED
    BY <1>2, <1>3 DEF SharedTypeOK
<1>10. \A other \in DOMAIN Datum \ {"componment"} :
         dataVector'[other] = dataVector[other]
  BY <1>9, TwoSets
<1>11. inputs' = Append(inputs, [kind |-> "componment", bundle |-> b,
                                 key |-> t])
  BY <1>3
<1>12. /\ CountTypes' /\ HistoryInv' /\ DueInv'
       /\ \A c \in Bundle, l \in Key["componment"] :
            Due("componment")'.times[c][l] =
              Due("componment").times[c][l] + IF c = b /\ l = t THEN 1 ELSE 0
  <2> HIDE DEF x, input
  <2>1. CountTypes /\ HistoryInv /\ DueInv
    BY <1>1
  <2>2. /\ UNCHANGED <<stats, tables>> /\ taskCount' = taskCount + 1
        /\ bundles' = IF \E i \in DOMAIN bundles : bundles[i] = b
                      THEN bundles ELSE Append(bundles, b)
    BY <1>3
  <2>3. PICK y : y = x
    OBVIOUS
  <2>4. /\ dataVector'["componment"] = Append(dataVector["componment"], y)
        /\ y \in Datum["componment"] /\ y.bundle = b /\ y.key = t
    BY <1>7, <1>9, <2>3
  <2>5. PICK set : set = "componment"
    OBVIOUS
  <2>6. /\ set \in DOMAIN Datum /\ t \in Key[set]
        /\ y \in Datum[set] /\ y.bundle = b /\ y.key = t
        /\ dataVector'[set] = Append(dataVector[set], y)
        /\ \A other \in DOMAIN Datum \ {set} :
             dataVector'[other] = dataVector[other]
        /\ inputs' = Append(inputs, [kind |-> set, bundle |-> b, key |-> t])
    BY <1>7, <1>10, <1>11, <2>4, <2>5
  <2>7. /\ CountTypes' /\ HistoryInv' /\ DueInv'
        /\ \A c \in Bundle, l \in Key[set] :
             Due(set)'.times[c][l] =
               Due(set).times[c][l] + IF c = b /\ l = t THEN 1 ELSE 0
    BY <2>1, <2>2, <2>6, RecordingStep, SMTT(30)
  <2> QED
    BY <2>5, <2>7
<1>13. TablesInv'
  BY <1>4 DEF TablesInv
<1>14. CsvInv' /\ EveryInputCounted'
  <2> HIDE DEF x, input
  <2> QED
    BY <1>1, <1>3, <1>8, CsvCounts
<1>15. \A c \in Bundle, u \in Type :
         DueTimes'[c][u] = DueTimes[c][u] + IF c = b /\ u = t THEN 1 ELSE 0
  BY <1>12, TwoSets DEF DueTimes
<1>16. RecordInv' /\ CoverInv'
  <2>1. record' = [record EXCEPT
                     ![b] = ComponmentInfoArrange(b, t, page, contents)]
    BY <1>3 DEF r
  <2>2. dataVector'["componment"] =
          Append(dataVector["componment"],
                 [bundle |-> b, key |-> t, inputed |-> record'[b].count[t],
                  expect |-> Total(record'[b].pages, t)])
    BY <1>9
  <2> QED
    BY <1>1, <1>3, <1>5, <1>15, <2>1, <2>2, ComponmentStep
<1>17. CoverageWithinBounds'
  BY <1>1, <1>3 DEF CoverageWithinBounds
<1> QED
  BY <1>12, <1>13, <1>14, <1>16, <1>17 DEF TotalInv, CountInv

(* The statistics.                                                         *)
LEMMA StatisticsTotal ==
  ASSUME SharedTypeOK, TaskInv, TotalInv, StatisticsData
  PROVE  TotalInv'
<1>1. CountTypes /\ HistoryInv /\ DueInv /\ CsvInv /\ EveryInputCounted
      /\ RecordInv /\ CoverInv
  BY DEF TotalInv, CountInv
<1>2. CountTypes' /\ HistoryInv' /\ DueInv' /\ TablesInv'
  BY <1>1, StatisticsStep
<1>3. CsvInv' /\ EveryInputCounted'
  <2>1. csv' = csv /\ taskCount' = taskCount /\ inputs' = inputs
    BY DEF StatisticsData, files, inputVars
  <2> QED
    BY <1>1, <2>1, CsvCounts
<1>4. RecordInv' /\ CoverInv'
  BY <1>1, CoverCounted
<1>5. CoverageWithinBounds'
  BY <1>1, TablesCover
<1> QED
  BY <1>2, <1>3, <1>4, <1>5 DEF TotalInv, CountInv

(* The CSV report.                                                         *)
LEMMA CsvTotal ==
  ASSUME SharedTypeOK, TaskInv, TotalInv, WriteCsv
  PROVE  TotalInv'
<1>1. CountTypes /\ HistoryInv /\ DueInv /\ TablesInv
      /\ RecordInv /\ CoverInv /\ CoverageWithinBounds
  BY DEF TotalInv, CountInv
<1>2. /\ UNCHANGED <<stats, inputs, bundles, taskCount, record, dataVector,
                     tables>>
      /\ pc \notin {"run", "statistics"}
  BY DEF WriteCsv, inputVars, countVars
<1>3. CountTypes' /\ HistoryInv' /\ DueInv' /\ TablesInv'
  <2>1. tables' = [event |-> tables'.event, componment |-> tables'.componment,
                   exception |-> tables'.exception]
    BY <1>1, <1>2 DEF CountTypes
  <2> QED
    BY <1>1, <1>2, <2>1, CountsKept
<1>4. CsvInv' /\ EveryInputCounted'
  BY <1>1, WriteCounts
<1>5. RecordInv' /\ CoverInv'
  BY <1>1, <1>2, CoverKept
<1>6. CoverageWithinBounds'
  BY <1>1, <1>2 DEF CoverageWithinBounds
<1> QED
  BY <1>3, <1>4, <1>5, <1>6 DEF TotalInv, CountInv

(* Every step.                                                             *)
LEMMA TotalStep == IInv /\ FilesInv /\ TotalInv /\ [Next]_vars => TotalInv'
<1> SUFFICES ASSUME IInv, FilesInv, TotalInv, [Next]_vars PROVE TotalInv'
  OBVIOUS
<1>1. SharedTypeOK /\ TaskInv
  BY DEF IInv, FilesInv
<1>2. tables = [event |-> tables.event, componment |-> tables.componment,
                exception |-> tables.exception]
  BY DEF TotalInv, CountInv, CountTypes
<1>3. ASSUME NEW b \in Bundle, NEW e \in Event, SyncEvent(b, e)
      PROVE  TotalInv'
  BY <1>1, <1>3, EventTotal
<1>4. ASSUME NEW b \in Bundle, NEW t \in Type, NEW page \in Page,
             NEW contents \in Contents[page],
             SyncComponment(b, t, page, contents)
      PROVE  TotalInv'
  BY <1>1, <1>4, ComponmentTotal
<1>5. CASE StatisticsData
  BY <1>1, <1>5, StatisticsTotal
<1>6. CASE WriteCsv
  BY <1>1, <1>6, CsvTotal
<1> USE DEF inputVars, files, countVars
<1>7. CASE FirstAppSwitch \/ Finish
  <2>1. /\ UNCHANGED <<stats, inputs, bundles, taskCount, record, dataVector,
                       tables, csv>>
        /\ pc' \in {"run", "statistics"}
    BY <1>7 DEF FirstAppSwitch, Finish
  <2> QED
    BY <1>1, <1>2, <2>1, TotalKept
<1>8. CASE LockCrash \/ TruncateJson \/ WriteJson
           \/ SegmentedWriteForFocusInput
  <2>1. /\ UNCHANGED <<stats, inputs, bundles, taskCount, record, dataVector,
                       tables, csv>>
        /\ pc \notin {"run", "statistics"}
    BY <1>8 DEF LockCrash, TruncateJson, WriteJson,
                SegmentedWriteForFocusInput
  <2> QED
    BY <1>1, <1>2, <2>1, TotalKept
<1>9. CASE TruncateCsv
  <2>1. /\ UNCHANGED <<stats, inputs, bundles, taskCount, record, dataVector,
                       tables>>
        /\ ~csv'.whole /\ pc \notin {"run", "statistics"}
    BY <1>9 DEF TruncateCsv, Truncated
  <2> QED
    BY <1>1, <1>2, <2>1, TotalKept
<1>10. CASE CountExceptions
  <2>1. /\ UNCHANGED <<stats, inputs, bundles, taskCount, record, dataVector,
                       csv>>
        /\ tables' = [tables EXCEPT !.exception = exceptionCount']
        /\ pc \notin {"run", "statistics"}
    BY <1>10 DEF CountExceptions
  <2>2. /\ tables' = [event |-> tables'.event,
                      componment |-> tables'.componment,
                      exception |-> tables'.exception]
        /\ tables'.event = tables.event
        /\ tables'.componment = tables.componment
    BY <1>2, <2>1
  <2> QED
    BY <1>1, <2>1, <2>2, TotalKept
<1>11. CASE ClearExceptions
  <2>1. /\ UNCHANGED <<stats, inputs, bundles, taskCount, record, tables, csv>>
        /\ dataVector'.event = dataVector.event
        /\ dataVector'.componment = dataVector.componment
        /\ pc \notin {"run", "statistics"}
    BY <1>1, <1>11 DEF ClearExceptions, SharedTypeOK
  <2> QED
    BY <1>1, <1>2, <2>1, TotalKept
<1>12. ASSUME NEW kind \in Kind, ExceptionRecord(kind) PROVE TotalInv'
  <2>1. /\ UNCHANGED <<stats, inputs, bundles, taskCount, record, tables, csv,
                       pc>>
        /\ \E d : dataVector' = [dataVector EXCEPT !.exception = d]
    BY <1>12, Zenon DEF ExceptionRecord
  <2>2. /\ dataVector'.event = dataVector.event
        /\ dataVector'.componment = dataVector.componment
    BY <1>1, <2>1 DEF SharedTypeOK
  <2> QED
    BY <1>1, <1>2, <2>1, <2>2, TotalKept
<1>13. CASE Terminated \/ UNCHANGED vars
  <2>1. /\ UNCHANGED <<stats, inputs, bundles, taskCount, record, dataVector,
                       tables, csv, pc>>
    BY <1>13 DEF Terminated, vars
  <2> QED
    BY <1>1, <1>2, <2>1, TotalKept
<1> QED
  BY <1>3, <1>4, <1>5, <1>6, <1>7, <1>8, <1>9, <1>10, <1>11, <1>12, <1>13
  DEF Next, Main, SyncInputInfo, ListenCrashDir

(* A CSV report that is whole counts each input that was made until then   *)
(* exactly once, under its application and type and in the table of all,   *)
(* for any applications, types of inputs and lengths of a segment          *)
(* (SyncInputInfo, SrcDatasPretreatment, GlobalElementTypesStatistics).    *)
THEOREM InputsCounted == Spec => []EveryInputCounted
<1>1. Init => IInv /\ FilesInv /\ TotalInv
  BY InitInductive, InitFiles, InitTotal
<1>2. IInv /\ FilesInv /\ TotalInv /\ [Next]_vars
        => IInv' /\ FilesInv' /\ TotalInv'
  BY NextInductive, FilesStep, TotalStep
<1>3. TotalInv => EveryInputCounted
  BY DEF TotalInv, CountInv
<1> QED
  BY <1>1, <1>2, <1>3, PTL DEF Spec

(* No coverage is above 100%, of an application and of all, whatever the   *)
(* pages hold whenever they are seen (ComponmentInfoArrange,               *)
(* StatisticsComponment).                                                  *)
THEOREM CoverageBounded == Spec => []CoverageWithinBounds
<1>1. Init => IInv /\ FilesInv /\ TotalInv
  BY InitInductive, InitFiles, InitTotal
<1>2. IInv /\ FilesInv /\ TotalInv /\ [Next]_vars
        => IInv' /\ FilesInv' /\ TotalInv'
  BY NextInductive, FilesStep, TotalStep
<1>3. TotalInv => CoverageWithinBounds
  BY DEF TotalInv
<1> QED
  BY <1>1, <1>2, <1>3, PTL DEF Spec

-----------------------------------------------------------------------------
(* The focus report: what is in the file and what will go there.           *)

Lines == focusFile \o focusVec

LinesType == focusFile \in Seq(Nat) /\ focusVec \in Seq(Nat)

LinesKept == LinesType /\ FocusLinesOnce

(* No line and no input to a component of a focus test.                    *)
LEMMA LinesSame ==
  ASSUME HistoryInv, TaskInv, LinesKept, LinesType', Lines' = Lines,
         isFocus' = isFocus,
         \/ inputs' = inputs
         \/ \E x \in Input : /\ inputs' = Append(inputs, x)
                             /\ ~isFocus \/ x.kind # "componment"
  PROVE  LinesKept'
<1> DEFINE at == {n \in DOMAIN inputs :
                    isFocus /\ inputs[n].kind = "componment"}
<1>1. /\ \A i, j \in DOMAIN Lines : i < j => Lines[i] < Lines[j]
      /\ {Lines[i] : i \in DOMAIN Lines} = at
  BY DEF LinesKept, FocusLinesOnce, Lines
<1>2. at' = at
  <2>1. CASE inputs' = inputs
    BY <2>1
  <2>2. ASSUME NEW x \in Input, inputs' = Append(inputs, x),
               ~isFocus \/ x.kind # "componment"
        PROVE  at' = at
    <3>1. /\ inputs \in Seq(Input) /\ Len(inputs) \in Nat
          /\ DOMAIN inputs = 1 .. Len(inputs)
          /\ DOMAIN inputs' = 1 .. Len(inputs) + 1
          /\ inputs'[Len(inputs) + 1] = x
          /\ \A n \in 1 .. Len(inputs) : inputs'[n] = inputs[n]
      BY <2>2 DEF HistoryInv
    <3>2. \A n \in DOMAIN inputs' :
            n \in DOMAIN inputs \/ inputs'[n] = x
      BY <3>1
    <3>3. \A n \in DOMAIN inputs :
            n \in DOMAIN inputs' /\ inputs'[n] = inputs[n]
      BY <3>1
    <3> QED
      BY <2>2, <3>2, <3>3, Zenon
  <2> QED
    BY <2>1, <2>2
<1> HIDE DEF at
<1>3. /\ \A i, j \in DOMAIN Lines' : i < j => Lines'[i] < Lines'[j]
      /\ {Lines'[i] : i \in DOMAIN Lines'} = at'
  BY <1>1, <1>2
<1> QED
  BY <1>3 DEF LinesKept, FocusLinesOnce, Lines, at

(* A line for an input to a component.                                     *)
LEMMA LineAdded ==
  ASSUME HistoryInv, TaskInv, LinesKept, isFocus, isFocus' = isFocus,
         NEW x \in Input, x.kind = "componment", inputs' = Append(inputs, x),
         focusFile' = focusFile, focusVec' = Append(focusVec, taskCount + 1)
  PROVE  LinesKept'
<1> DEFINE at == {n \in DOMAIN inputs : inputs[n].kind = "componment"}
           s == Lines
           m == Len(Lines)
           n == taskCount
<1>1. /\ n \in Nat /\ DOMAIN inputs = 1 .. n /\ DOMAIN inputs' = 1 .. n + 1
      /\ inputs'[n + 1] = x /\ \A i \in 1 .. n : inputs'[i] = inputs[i]
  BY DEF HistoryInv, TaskInv
<1>2. focusFile \in Seq(Nat) /\ focusVec \in Seq(Nat)
  BY DEF LinesKept, LinesType
<1>3. LinesType'
  BY <1>1, <1>2 DEF LinesType
<1>4. /\ s \in Seq(Nat) /\ m \in Nat /\ DOMAIN s = 1 .. m
      /\ DOMAIN Lines' = 1 .. m + 1 /\ Lines'[m + 1] = n + 1
      /\ \A i \in 1 .. m : Lines'[i] = s[i]
  BY <1>1, <1>2 DEF Lines
<1>5. /\ \A i, j \in DOMAIN s : i < j => s[i] < s[j]
      /\ {s[i] : i \in DOMAIN s} = at
  BY DEF LinesKept, FocusLinesOnce, Lines
<1>6. \A i \in 1 .. m : s[i] \in 1 .. n
  <2> SUFFICES ASSUME NEW i \in 1 .. m PROVE s[i] \in 1 .. n
    OBVIOUS
  <2>1. s[i] \in at
    BY <1>4, <1>5
  <2>2. at \subseteq DOMAIN inputs
    OBVIOUS
  <2> HIDE DEF at
  <2> QED
    BY <1>1, <2>1, <2>2
<1>7. at' = at \cup {n + 1}
  <2>1. \A i \in 1 .. n + 1 : i \in 1 .. n \/ i = n + 1
    BY <1>1
  <2>2. \A i \in 1 .. n : i \in 1 .. n + 1
    BY <1>1
  <2>3. n + 1 \in 1 .. n + 1
    BY <1>1
  <2> QED
    BY <1>1, <2>1, <2>2, <2>3, Zenon
<1> DEFINE t == Lines'
<1>8. /\ DOMAIN t = 1 .. m + 1 /\ t[m + 1] = n + 1
      /\ \A i \in 1 .. m : t[i] = s[i]
  BY <1>4
<1>9. at' = {k \in DOMAIN inputs' :
               isFocus' /\ inputs'[k].kind = "componment"}
  OBVIOUS
<1> HIDE DEF at, s, m, n, t
<1>10. \A i, j \in DOMAIN t : i < j => t[i] < t[j]
  <2> SUFFICES ASSUME NEW i \in DOMAIN t, NEW j \in DOMAIN t, i < j
               PROVE  t[i] < t[j]
    OBVIOUS
  <2>1. i \in 1 .. m
    BY <1>4, <1>8
  <2>2. t[i] = s[i] /\ s[i] \in 1 .. n
    BY <1>6, <1>8, <2>1
  <2>3. CASE j = m + 1
    BY <1>1, <1>8, <2>2, <2>3
  <2>4. CASE j # m + 1
    <3>1. j \in 1 .. m
      BY <1>4, <1>8, <2>4
    <3> QED
      BY <1>4, <1>5, <1>8, <2>1, <2>2, <3>1
  <2> QED
    BY <2>3, <2>4
<1>11. {t[i] : i \in DOMAIN t} = at'
  <2>1. \A i \in DOMAIN t : i \in 1 .. m \/ i = m + 1
    BY <1>4, <1>8
  <2>2. m + 1 \in DOMAIN t /\ \A i \in 1 .. m : i \in DOMAIN t
    BY <1>4, <1>8
  <2>3. {t[i] : i \in DOMAIN t} = {s[i] : i \in DOMAIN s} \cup {n + 1}
    BY <1>4, <1>8, <2>1, <2>2, Zenon
  <2> QED
    BY <1>5, <1>7, <2>3
<1>12. FocusLinesOnce'
  BY <1>9, <1>10, <1>11 DEF FocusLinesOnce, Lines, t
<1> QED
  BY <1>3, <1>12 DEF LinesKept

(* Every step.                                                             *)
LEMMA LinesStep ==
  FilesInv /\ HistoryInv /\ LinesKept /\ [Next]_vars => LinesKept'
<1> SUFFICES ASSUME FilesInv, HistoryInv, LinesKept, [Next]_vars
             PROVE  LinesKept'
  OBVIOUS
<1>1. TaskInv
  BY DEF FilesInv
<1>2. LinesType
  BY DEF LinesKept
<1> USE DEF inputVars, files
<1>3. ASSUME UNCHANGED <<isFocus, focusFile, focusVec, inputs>>
      PROVE  LinesKept'
  <2>1. LinesType' /\ Lines' = Lines
    BY <1>2, <1>3 DEF LinesType, Lines
  <2> QED
    BY <1>1, <1>3, <2>1, LinesSame
<1>4. ASSUME NEW b \in Bundle, NEW e \in Event, SyncEvent(b, e)
      PROVE  LinesKept'
  <2> DEFINE x == [kind |-> "event", bundle |-> b, key |-> e]
  <2>1. x \in Input /\ x.kind # "componment"
    BY TwoSets DEF Input
  <2>2. /\ inputs' = Append(inputs, x)
        /\ UNCHANGED <<isFocus, focusFile, focusVec>>
    BY <1>4 DEF SyncEvent, Counted
  <2>3. LinesType' /\ Lines' = Lines
    BY <1>2, <2>2 DEF LinesType, Lines
  <2> HIDE DEF x
  <2> QED
    BY <1>1, <2>1, <2>2, <2>3, LinesSame
<1>5. ASSUME NEW b \in Bundle, NEW t \in Type, NEW page \in Page,
             NEW contents \in Contents[page],
             SyncComponment(b, t, page, contents)
      PROVE  LinesKept'
  <2> DEFINE x == [kind |-> "componment", bundle |-> b, key |-> t]
  <2>1. x \in Input /\ x.kind = "componment"
    BY TwoSets DEF Input
  <2>2. /\ inputs' = Append(inputs, x)
        /\ UNCHANGED <<isFocus, focusFile>>
        /\ focusVec' = IF isFocus THEN Append(focusVec, taskCount + 1)
                       ELSE focusVec
    BY <1>5 DEF SyncComponment, Counted
  <2> HIDE DEF x
  <2>3. CASE isFocus
    BY <1>1, <2>1, <2>2, <2>3, LineAdded
  <2>4. CASE ~isFocus
    <3>1. LinesType' /\ Lines' = Lines
      BY <1>2, <2>2, <2>4 DEF LinesType, Lines
    <3> QED
      BY <1>1, <2>1, <2>2, <2>4, <3>1, LinesSame
  <2> QED
    BY <2>3, <2>4
<1>6. CASE SegmentedWriteForFocusInput
  <2>1. /\ UNCHANGED <<isFocus, inputs>>
        /\ focusFile' = IF isFocus THEN focusFile \o focusVec ELSE focusFile
        /\ focusVec' = IF isFocus THEN <<>> ELSE focusVec
    BY <1>6 DEF SegmentedWriteForFocusInput, FocusLinesMoved
  <2>2. LinesType'
    <3>1. <<>> \in Seq(Nat) /\ focusFile \o focusVec \in Seq(Nat)
      BY <1>2 DEF LinesType
    <3> QED
      BY <1>2, <2>1, <3>1 DEF LinesType
  <2>3. Lines' = Lines
    <3>1. (focusFile \o focusVec) \o <<>> = focusFile \o focusVec
      BY <1>2, ConcatEmptySeq DEF LinesType
    <3> QED
      BY <2>1, <3>1 DEF Lines
  <2> QED
    BY <1>1, <2>1, <2>2, <2>3, LinesSame
<1>7. CASE FirstAppSwitch \/ Finish \/ StatisticsData \/ LockCrash
           \/ CountExceptions \/ ClearExceptions \/ TruncateCsv \/ WriteCsv
           \/ TruncateJson \/ WriteJson
  BY <1>3, <1>7
  DEF FirstAppSwitch, Finish, StatisticsData, LockCrash, CountExceptions,
      ClearExceptions, TruncateCsv, WriteCsv, TruncateJson, WriteJson
<1>8. ASSUME NEW kind \in Kind, ExceptionRecord(kind) PROVE LinesKept'
  BY <1>3, <1>8, Zenon DEF ExceptionRecord
<1>9. CASE Terminated \/ UNCHANGED vars
  BY <1>3, <1>9 DEF Terminated, vars
<1> QED
  BY <1>4, <1>5, <1>6, <1>7, <1>8, <1>9
  DEF Next, Main, SyncInputInfo, ListenCrashDir

(* The focus report has one line for each input to a component of a focus  *)
(* test, in order, however they are spread over the segments               *)
(* (SyncInputInfo, SegmentedWriteForFocusInput).                           *)
THEOREM FocusLinesWritten == Spec => []FocusLinesOnce
<1> DEFINE Inv == IInv /\ FilesInv /\ TotalInv /\ LinesKept
<1>1. Init => Inv
  <2> SUFFICES ASSUME Init PROVE LinesKept
    BY InitInductive, InitFiles, InitTotal
  <2>1. focusFile = <<>> /\ focusVec = <<>> /\ inputs = <<>>
    BY DEF Init
  <2>2. focusFile \o focusVec = <<>> /\ <<>> \in Seq(Nat)
    BY <2>1
  <2> QED
    BY <2>1, <2>2 DEF LinesKept, LinesType, FocusLinesOnce
<1>2. Inv /\ [Next]_vars => Inv'
  BY NextInductive, FilesStep, TotalStep, LinesStep DEF TotalInv, CountInv
<1>3. Inv => FocusLinesOnce
  BY DEF LinesKept
<1> QED
  BY <1>1, <1>2, <1>3, PTL DEF Spec

-----------------------------------------------------------------------------
(* The logger.                                                             *)

(* The types of everything but the sequences.                              *)
PlainTypes ==
  /\ mainPc \in {"idle", "lock", "waiting", "woken", "running", "notify",
                 "join", "done"}
  /\ printerPc \in {"none", "begin", "lock", "open", "loop", "wait",
                    "waiting", "woken", "take", "write", "exited"}
  /\ printerRunning \in BOOLEAN
  /\ mtxThreadWait \in {"none", "printer"}
  /\ opened \in BOOLEAN
  /\ printing \subseteq Thread
  /\ stopMark \in Nat

(* A thread that is about to push has a message to push.                   *)
MessageTypes ==
  /\ logged \in [Thread -> 0 .. MaxMessages]
  /\ \A t \in printing : logged[t] >= 1

(* The printer's own buffer is empty whenever it takes from the queue, so  *)
(* that it takes the whole queue, which its limit allows.                  *)
BufferInv ==
  /\ queue \in Seq(Message) /\ Len(queue) <= LogMax
  /\ tmpBuffer \in Seq(Message) /\ Len(tmpBuffer) <= LogMax
  /\ file \in Seq(Message)
  /\ accepted \in Seq(Message)
  /\ printerPc # "write" => tmpBuffer = <<>>

(* Stop clears the flag, no one else; a printer that has opened its file   *)
(* returns only with the flag cleared and all that was accepted written.   *)
DrainInv ==
  /\ mainPc = "idle" => printerPc = "none"
  /\ mainPc \in {"lock", "waiting", "woken", "running"} => printerRunning
  /\ mainPc = "done" => printerPc = "exited"
  /\ printerPc \in {"none", "begin", "lock", "open"} => ~opened
  /\ printerPc = "exited" /\ opened =>
       ~printerRunning /\ Len(file) >= stopMark
  /\ stopMark <= Len(accepted)

LogInv == PlainTypes /\ MessageTypes /\ BufferInv /\ NothingLost /\ DrainInv

-----------------------------------------------------------------------------
(* What the operations of a queue make of the messages.                    *)

(* What comes in at the end of the queue comes in at the end of all.       *)
LEMMA AppendAtEnd ==
  ASSUME NEW S, NEW f \in Seq(S), NEW b \in Seq(S), NEW q \in Seq(S),
         NEW m \in S
  PROVE  f \o b \o Append(q, m) = Append(f \o b \o q, m)
<1>1. f \o b \in Seq(S) /\ f \o b \o q \in Seq(S) /\ <<m>> \in Seq(S)
  BY ConcatProperties
<1>2. Append(q, m) = q \o <<m>>
  BY AppendIsConcat
<1>3. Append(f \o b \o q, m) = (f \o b \o q) \o <<m>>
  BY <1>1, AppendIsConcat
<1>4. (f \o b) \o (q \o <<m>>) = ((f \o b) \o q) \o <<m>>
  BY <1>1, ConcatAssociative
<1> QED
  BY <1>2, <1>3, <1>4

(* A sequence is its head followed by its tail.                            *)
LEMMA HeadThenTail ==
  ASSUME NEW S, NEW b \in Seq(S), b # <<>>
  PROVE  b = <<Head(b)>> \o Tail(b)
<1>1. Len(b) \in Nat \ {0}
  BY EmptySeq
<1>2. SubSeq(b, 1, Len(b)) = <<b[1]>> \o SubSeq(b, 2, Len(b))
  BY <1>1, SubSeqRecursiveFirst
<1>3. SubSeq(b, 1, Len(b)) = b /\ Tail(b) = SubSeq(b, 2, Len(b))
  BY SubSeqFull, TailIsSubSeq
<1>4. Head(b) = b[1]
  BY <1>1, <1>3, HeadTailOfSubSeq
<1> QED
  BY <1>2, <1>3, <1>4

(* Writing the first message of the buffer moves it, and nothing else.     *)
LEMMA HeadMoves ==
  ASSUME NEW S, NEW f \in Seq(S), NEW b \in Seq(S), NEW q \in Seq(S),
         b # <<>>
  PROVE  Append(f, Head(b)) \o Tail(b) \o q = f \o b \o q
<1>1. Head(b) \in S /\ Tail(b) \in Seq(S) /\ <<Head(b)>> \in Seq(S)
  BY HeadTailProperties
<1>2. Append(f, Head(b)) = f \o <<Head(b)>>
  BY <1>1, AppendIsConcat
<1>3. (f \o <<Head(b)>>) \o Tail(b) = f \o (<<Head(b)>> \o Tail(b))
  BY <1>1, ConcatAssociative
<1>4. f \o (<<Head(b)>> \o Tail(b)) = f \o b
  BY HeadThenTail
<1> QED
  BY <1>2, <1>3, <1>4

(* The printer takes the whole queue.                                      *)
LEMMA WholeQueue ==
  ASSUME BufferInv, tmpBuffer = <<>>, TakeQueue
  PROVE  tmpBuffer' = queue /\ queue' = <<>>
<1>1. Len(queue) \in Nat /\ ~(Len(queue) > LogMax + 1)
  BY LenProperties, LogMaxAssumption DEF BufferInv
<1>2. /\ tmpBuffer' = <<>> \o SubSeq(queue, 1, Len(queue))
      /\ queue' = SubSeq(queue, Len(queue) + 1, Len(queue))
  BY <1>1 DEF TakeQueue
<1>3. SubSeq(queue, 1, Len(queue)) = queue
  BY SubSeqFull DEF BufferInv
<1>4. <<>> \o queue = queue
  BY ConcatEmptySeq DEF BufferInv
<1>5. queue' = <<>>
  BY <1>1, <1>2, SubSeqEmpty
<1> QED
  BY <1>2, <1>3, <1>4, <1>5

-----------------------------------------------------------------------------

(* The logger starts empty.                                                *)
LEMMA InitLogInv == LoggerInit => LogInv
<1> SUFFICES ASSUME LoggerInit
             PROVE  LogInv
  OBVIOUS
<1> USE DEF LoggerInit
<1>1. PlainTypes
  BY DEF PlainTypes
<1>2. MessageTypes
  BY MaxMessagesAssumption DEF MessageTypes
<1>3. BufferInv
  BY EmptySeq, LogMaxAssumption DEF BufferInv
<1>4. NothingLost
  BY EmptySeq, ConcatEmptySeq DEF NothingLost
<1>5. DrainInv
  BY EmptySeq DEF DrainInv
<1> QED
  BY <1>1, <1>2, <1>3, <1>4, <1>5 DEF LogInv

(* What does not touch a message.                                          *)
LEMMA MessagesLeft ==
  ASSUME LogInv, UNCHANGED messages, tmpBuffer = <<>> \/ printerPc' = "write"
  PROVE  MessageTypes' /\ BufferInv' /\ NothingLost'
<1> USE DEF LogInv, messages
<1>1. MessageTypes'
  BY DEF MessageTypes
<1>2. BufferInv'
  BY DEF BufferInv
<1>3. NothingLost'
  BY DEF NothingLost
<1> QED
  BY <1>1, <1>2, <1>3

(* Stop marks what was accepted until then.                                *)
LEMMA StopPrinterInv ==
  ASSUME PlainTypes, DrainInv, Len(accepted) \in Nat, StopPrinter
  PROVE  PlainTypes' /\ DrainInv'
<1>1. /\ printerPc' = printerPc /\ mtxThreadWait' = mtxThreadWait
      /\ opened' = opened /\ printing' = printing
      /\ accepted' = accepted /\ stopMark' = Len(accepted)
  BY DEF StopPrinter, messages
<1>2. mainPc = "running" /\ printerRunning = TRUE
  BY DEF StopPrinter, DrainInv, PlainTypes
<1>3. \/ /\ printerPc # "exited"
         /\ printerRunning' = FALSE /\ mainPc' = "notify"
      \/ /\ printerPc = "exited"
         /\ printerRunning' = printerRunning /\ mainPc' = "done"
  BY <1>2 DEF StopPrinter
<1>4. PlainTypes'
  BY <1>1, <1>2, <1>3 DEF PlainTypes
<1>5. stopMark' <= Len(accepted')
  <2>1. stopMark' = Len(accepted')
    BY <1>1
  <2>2. Len(accepted') \in Nat
    BY <1>1
  <2> QED
    BY <2>1, <2>2
<1>6. printerPc' = "exited" /\ opened' => FALSE
  BY <1>1, <1>2 DEF DrainInv
<1>7. DrainInv'
  BY <1>1, <1>3, <1>5, <1>6 DEF DrainInv
<1> QED
  BY <1>4, <1>7

(* main, and a wakeup that nobody asked for.                               *)
LEMMA MainStepInv ==
  ASSUME LogInv, MainStep \/ SpuriousWakeup
  PROVE  LogInv'
<1> USE DEF NotifyMain, NotifyPrinter
<1>1. UNCHANGED messages
  BY DEF MainStep, SpuriousWakeup, StartPrinter, StartWait, StartReturn,
         StopPrinter, StopNotify, StopJoin
<1>2. tmpBuffer = <<>> \/ printerPc' = "write"
  BY DEF LogInv, BufferInv, DrainInv, MainStep, SpuriousWakeup, StartPrinter,
         StartWait, StartReturn, StopPrinter, StopNotify, StopJoin
<1>3. MessageTypes' /\ BufferInv' /\ NothingLost'
  BY <1>1, <1>2, MessagesLeft
<1>4. Len(accepted) \in Nat
  BY LenProperties DEF LogInv, BufferInv
<1>5. PlainTypes' /\ DrainInv'
  <2> USE <1>1, <1>4 DEF LogInv, PlainTypes, DrainInv, messages
  <2>1. CASE StartPrinter
    BY <2>1 DEF StartPrinter
  <2>2. CASE StartWait
    BY <2>2 DEF StartWait
  <2>3. CASE StartReturn
    BY <2>3 DEF StartReturn
  <2>4. CASE StopPrinter
    BY <2>4, <1>4, StopPrinterInv
  <2>5. CASE StopNotify
    BY <2>5 DEF StopNotify
  <2>6. CASE StopJoin
    BY <2>6 DEF StopJoin
  <2>7. CASE SpuriousWakeup
    BY <2>7 DEF SpuriousWakeup
  <2> QED
    BY <2>1, <2>2, <2>3, <2>4, <2>5, <2>6, <2>7 DEF MainStep
<1> QED
  BY <1>3, <1>5 DEF LogInv

(* The threads that log.                                                   *)
LEMMA TestRunningInv ==
  ASSUME LogInv, NEW t \in Thread, TestRunning(t)
  PROVE  LogInv'
<1> USE DEF LogInv, TestRunning
<1>1. PlainTypes'
  BY DEF PlainTypes
<1>2. MessageTypes'
  BY MaxMessagesAssumption DEF MessageTypes
<1>3. BufferInv'
  BY DEF BufferInv
<1>4. NothingLost'
  BY DEF NothingLost
<1>5. DrainInv'
  BY DEF DrainInv
<1> QED
  BY <1>1, <1>2, <1>3, <1>4, <1>5

(* A thread pushes its message.                                            *)
LEMMA PushInv ==
  ASSUME LogInv, NEW t \in Thread, Push(t)
  PROVE  LogInv'
<1> DEFINE m == <<t, logged[t]>>
<1> USE DEF LogInv, Push
<1>1. m \in Message
  BY MaxMessagesAssumption DEF MessageTypes, Message
<1>2. \/ queue' = Append(queue, m) /\ accepted' = Append(accepted, m)
         /\ Len(queue) < LogMax
      \/ UNCHANGED <<queue, accepted>>
  BY DEF Enqueue
<1>3. UNCHANGED <<mainPc, printerRunning, mtxThreadWait, tmpBuffer, opened,
                  file, logged, stopMark>>
  OBVIOUS
<1>4. /\ printerPc' = IF printerPc = "waiting" THEN "woken" ELSE printerPc
      /\ printing' = printing \ {t}
  BY DEF NotifyPrinter
<1> HIDE DEF Push, m
<1>5. PlainTypes'
  BY <1>3, <1>4 DEF PlainTypes
<1>6. MessageTypes'
  BY <1>3, <1>4 DEF MessageTypes
<1>7. /\ queue' \in Seq(Message) /\ Len(queue') <= LogMax
      /\ accepted' \in Seq(Message) /\ Len(accepted') >= Len(accepted)
  <2>1. /\ queue \in Seq(Message) /\ accepted \in Seq(Message)
        /\ Len(queue) \in Nat /\ Len(accepted) \in Nat
        /\ Len(queue) <= LogMax
    BY LenProperties DEF BufferInv
  <2>2. CASE queue' = Append(queue, m) /\ accepted' = Append(accepted, m)
             /\ Len(queue) < LogMax
    BY <1>1, <2>1, <2>2, AppendProperties, LogMaxAssumption
  <2>3. CASE UNCHANGED <<queue, accepted>>
    BY <2>1, <2>3
  <2> QED
    BY <1>2, <2>2, <2>3
<1>8. BufferInv'
  BY <1>3, <1>4, <1>7 DEF BufferInv
<1>9. NothingLost'
  <2>1. CASE queue' = Append(queue, m) /\ accepted' = Append(accepted, m)
    <3>1. file \o tmpBuffer \o Append(queue, m)
            = Append(file \o tmpBuffer \o queue, m)
      BY <1>1, AppendAtEnd DEF BufferInv
    <3>2. file' = file /\ tmpBuffer' = tmpBuffer
      BY <1>3
    <3> QED
      BY <2>1, <3>1, <3>2 DEF NothingLost
  <2>2. CASE UNCHANGED <<queue, accepted>>
    BY <1>3, <2>2 DEF NothingLost
  <2> QED
    BY <1>2, <2>1, <2>2
<1>10. DrainInv'
  <2>1. Len(accepted) \in Nat /\ Len(accepted') \in Nat /\ stopMark \in Nat
    BY <1>7, LenProperties DEF BufferInv, PlainTypes
  <2> QED
    BY <1>3, <1>4, <1>7, <2>1 DEF DrainInv
<1> QED
  BY <1>5, <1>6, <1>8, <1>9, <1>10

(* The printer, where it does not touch a message.                         *)
LEMMA PrinterWaitsInv ==
  ASSUME LogInv,
         \/ PrinterBegin \/ PrinterLock \/ PrinterOpen \/ PrinterTest
         \/ PrinterWait \/ PrinterTimeout \/ PrinterRelock
  PROVE  LogInv'
<1> USE DEF NotifyMain
<1>1. UNCHANGED <<queue, tmpBuffer, file, printing, logged, accepted>>
  BY DEF PrinterBegin, PrinterLock, PrinterOpen, PrinterTest, PrinterWait,
         PrinterTimeout, PrinterRelock, messages
<1>2. printerPc # "write"
  BY DEF PrinterBegin, PrinterLock, PrinterOpen, PrinterTest, PrinterWait,
         PrinterTimeout, PrinterRelock
<1>3. MessageTypes'
  BY <1>1 DEF LogInv, MessageTypes
<1>4. BufferInv'
  BY <1>1, <1>2 DEF LogInv, BufferInv
<1>5. NothingLost'
  BY <1>1 DEF LogInv, NothingLost
<1>6. PlainTypes' /\ DrainInv'
  <2> USE <1>1 DEF LogInv, PlainTypes, DrainInv, messages
  <2>1. CASE PrinterBegin
    BY <2>1 DEF PrinterBegin
  <2>2. CASE PrinterLock
    BY <2>2 DEF PrinterLock
  <2>3. CASE PrinterOpen
    <3>1. /\ printerPc = "open" /\ ~opened
          /\ UNCHANGED <<mainPc, printerRunning, stopMark>>
      BY <2>3 DEF PrinterOpen
    <3>2. CASE /\ printerPc' = "loop" /\ opened' = TRUE
               /\ UNCHANGED mtxThreadWait
      BY <3>1, <3>2
    <3>3. CASE /\ printerPc' = "exited" /\ mtxThreadWait' = "none"
               /\ UNCHANGED opened
      BY <3>1, <3>3
    <3> QED
      BY <2>3, <3>2, <3>3 DEF PrinterOpen
  <2>4. CASE PrinterTest
    BY <2>4 DEF PrinterTest
  <2>5. CASE PrinterWait
    BY <2>5 DEF PrinterWait
  <2>6. CASE PrinterTimeout
    BY <2>6 DEF PrinterTimeout
  <2>7. CASE PrinterRelock
    BY <2>7 DEF PrinterRelock
  <2> QED
    BY <2>1, <2>2, <2>3, <2>4, <2>5, <2>6, <2>7
<1> QED
  BY <1>3, <1>4, <1>5, <1>6 DEF LogInv

(* The printer empties the queue, or returns when there is nothing left:   *)
(* the file then holds all that was accepted.                              *)
LEMMA PrinterTakeInv ==
  ASSUME LogInv, PrinterTake
  PROVE  LogInv'
<1> USE DEF LogInv
<1>1. /\ printerPc = "take"
      /\ UNCHANGED <<mainPc, printerRunning, opened, file, printing, logged,
                     accepted, stopMark>>
      /\ mtxThreadWait' \in {mtxThreadWait, "none"}
  BY DEF PrinterTake
<1>2. tmpBuffer = <<>>
  BY <1>1 DEF BufferInv
<1>3. MessageTypes'
  BY <1>1 DEF MessageTypes
<1>4. CASE LoopEnds
  <2>1. /\ printerPc' = "exited" /\ UNCHANGED <<queue, tmpBuffer>>
        /\ queue = <<>> /\ ~printerRunning
    BY <1>4 DEF PrinterTake, LoopEnds
  <2>2. PlainTypes'
    BY <1>1, <2>1 DEF PlainTypes
  <2>3. BufferInv'
    BY <1>1, <1>2, <2>1 DEF BufferInv
  <2>4. NothingLost'
    BY <1>1, <2>1 DEF NothingLost
  <2>5. Len(file) = Len(accepted)
    <3>1. file \o <<>> \o <<>> = file
      BY ConcatEmptySeq DEF BufferInv
    <3> QED
      BY <1>2, <2>1, <3>1 DEF NothingLost
  <2>6. DrainInv'
    BY <1>1, <2>1, <2>5 DEF DrainInv, PlainTypes
  <2> QED
    BY <1>3, <2>2, <2>3, <2>4, <2>6
<1>5. CASE ~LoopEnds
  <2>1. printerPc' = "write" /\ TakeQueue
    BY <1>5 DEF PrinterTake
  <2>2. tmpBuffer' = queue /\ queue' = <<>>
    BY <1>2, <2>1, WholeQueue
  <2>3. PlainTypes'
    BY <1>1, <2>1 DEF PlainTypes
  <2>4. BufferInv'
    BY <1>1, <2>1, <2>2, EmptySeq, LogMaxAssumption DEF BufferInv
  <2>5. NothingLost'
    <3>1. file \o <<>> = file /\ file \o queue \in Seq(Message)
      BY ConcatEmptySeq, ConcatProperties DEF BufferInv
    <3>2. (file \o queue) \o <<>> = file \o queue
      BY <3>1, ConcatEmptySeq
    <3> QED
      BY <1>1, <1>2, <2>2, <3>1, <3>2 DEF NothingLost
  <2>6. DrainInv'
    BY <1>1, <2>1 DEF DrainInv
  <2> QED
    BY <1>3, <2>3, <2>4, <2>5, <2>6
<1> QED
  BY <1>4, <1>5

(* The printer writes a message.                                           *)
LEMMA PrinterWriteInv ==
  ASSUME LogInv, PrinterWrite
  PROVE  LogInv'
<1> USE DEF LogInv
<1>1. /\ printerPc = "write" /\ printerPc' \in {"write", "loop"}
      /\ UNCHANGED <<mainPc, printerRunning, mtxThreadWait, queue, opened,
                     printing, logged, accepted, stopMark>>
  BY DEF PrinterWrite
<1>2. PlainTypes'
  BY <1>1 DEF PlainTypes
<1>3. MessageTypes'
  BY <1>1 DEF MessageTypes
<1>4. DrainInv'
  BY <1>1 DEF DrainInv
<1>5. CASE tmpBuffer = <<>>
  <2>1. UNCHANGED <<tmpBuffer, file>>
    BY <1>5 DEF PrinterWrite
  <2>2. BufferInv' /\ NothingLost'
    BY <1>1, <1>5, <2>1 DEF BufferInv, NothingLost
  <2> QED
    BY <1>2, <1>3, <1>4, <2>2
<1>6. CASE tmpBuffer # <<>>
  <2>1. /\ file' = Append(file, Head(tmpBuffer))
        /\ tmpBuffer' = Tail(tmpBuffer)
        /\ printerPc' = "write"
    BY <1>1, <1>6 DEF PrinterWrite
  <2>2. /\ Head(tmpBuffer) \in Message /\ Tail(tmpBuffer) \in Seq(Message)
        /\ Len(Tail(tmpBuffer)) = Len(tmpBuffer) - 1
        /\ Len(tmpBuffer) \in Nat
    BY <1>6, HeadTailProperties, LenProperties DEF BufferInv
  <2>3. Append(file, Head(tmpBuffer)) \in Seq(Message)
    BY <2>2, AppendProperties DEF BufferInv
  <2>4. BufferInv'
    BY <1>1, <2>1, <2>2, <2>3, LogMaxAssumption DEF BufferInv
  <2>5. NothingLost'
    <3>1. Append(file, Head(tmpBuffer)) \o Tail(tmpBuffer) \o queue
            = file \o tmpBuffer \o queue
      BY <1>6, HeadMoves DEF BufferInv
    <3>2. queue' = queue /\ accepted' = accepted
      BY <1>1
    <3> QED
      BY <2>1, <3>1, <3>2 DEF NothingLost
  <2> QED
    BY <1>2, <1>3, <1>4, <2>4, <2>5
<1> QED
  BY <1>5, <1>6

(* Every step keeps the invariant.                                         *)
LEMMA StepLogInv == LogInv /\ [LoggerNext]_loggerVars => LogInv'
<1> SUFFICES ASSUME LogInv, [LoggerNext]_loggerVars
             PROVE  LogInv'
  OBVIOUS
<1>1. CASE MainStep \/ SpuriousWakeup
  BY <1>1, MainStepInv
<1>2. CASE PrinterStep
  BY <1>2, PrinterWaitsInv, PrinterTakeInv, PrinterWriteInv DEF PrinterStep
<1>3. CASE \E t \in Thread : TestRunning(t) \/ Push(t)
  BY <1>3, TestRunningInv, PushInv
<1>4. CASE UNCHANGED loggerVars
  BY <1>4 DEF loggerVars, LogInv, PlainTypes, MessageTypes, BufferInv,
              NothingLost, DrainInv
<1> QED
  BY <1>1, <1>2, <1>3, <1>4 DEF LoggerNext

(* Every state of the logger satisfies it.                                 *)
LEMMA LogInvHolds == LoggerSpec => []LogInv
  BY InitLogInv, StepLogInv, PTL DEF LoggerSpec

-----------------------------------------------------------------------------

(* Everything keeps its type, and neither buffer outgrows the limit of the *)
(* queue, however fast the threads log.                                    *)
THEOREM TypeCorrect == LoggerSpec => []LoggerTypeOK
<1>1. LogInv => LoggerTypeOK
  BY DEF LogInv, PlainTypes, MessageTypes, BufferInv, LoggerTypeOK
<1> QED
  BY <1>1, LogInvHolds, PTL

(* What was accepted is in the file, in the printer's hands or in the      *)
(* queue, once and in order, at every moment.                              *)
THEOREM NothingIsLost == LoggerSpec => []NothingLost
<1>1. LogInv => NothingLost
  BY DEF LogInv
<1> QED
  BY <1>1, LogInvHolds, PTL

(* When Stop has returned, a printer that opened its file has written all  *)
(* that was accepted before Stop was called.                               *)
THEOREM StopDrains == LoggerSpec => []DrainedAtStop
<1>1. LogInv => DrainedAtStop
  BY DEF LogInv, DrainInv, DrainedAtStop
<1> QED
  BY <1>1, LogInvHolds, PTL

=============================================================================
