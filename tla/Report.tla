------------------------------- MODULE Report -------------------------------
(***************************************************************************)
(* The report: every input is recorded in the data sets of its kind; after *)
(* each Segment inputs, and at the end of the test, the records are        *)
(* counted into tables and the CSV, the JSON and the focus report are      *)
(* written.  A second thread watches the directory of fault logs and       *)
(* records an exception for each new one; crashMtx_ is between the two.    *)
(*                                                                         *)
(* A process may be killed in any state: what it leaves are csv, json and  *)
(* focusFile as they are in that state.                                    *)
(***************************************************************************)
EXTENDS Integers, Sequences, FiniteSets, FiniteSetsExt

CONSTANTS
  Bundle,         \* the applications
  Event,          \* the types of multimode inputs, with "appswitch"
  Type,           \* the types of components
  Page,           \* page ids
  Contents,       \* what each page may hold: sets of functions from Type to Nat
  Exception,      \* the kinds of fault logs
  Segment,        \* SEGMENT_STATISTICS_LENGTH (10 in the code)
  MaxInputs,      \* bound of the model: inputs of a test
  MaxExceptions   \* bound of the model: fault logs during a test

ASSUME ContentsAssumption == Contents \in [Page -> SUBSET [Type -> Nat]]
ASSUME FiniteAssumption ==
  /\ IsFiniteSet(Bundle) /\ IsFiniteSet(Event)
  /\ IsFiniteSet(Type) /\ IsFiniteSet(Page)
ASSUME SegmentAssumption == Segment \in Nat \ {0}
ASSUME BoundsAssumption == MaxInputs \in Nat /\ MaxExceptions \in Nat

All == "all"  \* names the table of all applications

(* Every kind of input has a name, and no application that of all.         *)
ASSUME NamesAssumption == All \notin Bundle /\ "" \notin Event \cup Type

VARIABLES
  isFocus,           \* is_focus_
  isFirstAppSwitch,  \* isFirstAppSwitch_: it has been seen
  taskCount,         \* taskCount_
  bundles,           \* bundles_: the applications, in order of appearance
  record,            \* bundleComponmentRecord_
  focusVec,          \* focus_input_vec_: the task numbers of its lines
  dataVector,        \* dataVector_ of the three data sets
  stats,             \* what StatisticsEvent and StatisticsComponment hold
  exceptionCount,    \* exceptionTypeCount_ of StatisticsException
  tables,            \* tables_ of the three data sets
  pc,                \* where the main thread is
  finishing,         \* it is in Finish
  crashMtx,          \* the holder of crashMtx_: "none" or "main"
  csv, json,         \* the files; Absent, Truncated or what was written
  focusFile,
  inputs,            \* history: the inputs that count, in order
  faults             \* history: the fault logs of each kind

inputVars == <<isFirstAppSwitch, taskCount, bundles, record, focusVec, inputs>>
files == <<csv, json, focusFile>>
countVars == <<stats, exceptionCount, tables>>
lockVars == <<exceptionCount, dataVector, crashMtx, faults>>
vars == <<isFocus, inputVars, dataVector, countVars, pc, finishing, crashMtx,
          files, faults>>

Absent == [whole |-> FALSE, task |-> -1]
Truncated == [whole |-> FALSE, task |-> -2]
NoTable == [rows |-> <<>>, total |-> 0, of |-> 0]

(* The keys of the rows of the two data sets that inputs go to.            *)
Key == [event |-> Event, componment |-> Type]

RowSum(f) == MapThenSumSet(LAMBDA x : f[x], DOMAIN f)

NoTimes(keys) == [b \in Bundle |-> [k \in keys |-> 0]]
NoTotals == [b \in Bundle |-> 0]

Init ==
  /\ isFocus \in BOOLEAN
  /\ isFirstAppSwitch = FALSE
  /\ taskCount = 0
  /\ bundles = <<>>
  /\ record = [b \in Bundle |->
                 [count |-> [t \in Type |-> 0], pages |-> <<>>]]
  /\ focusVec = <<>>
  /\ dataVector = [event |-> <<>>, componment |-> <<>>, exception |-> <<>>]
  /\ stats = [event |-> [times |-> NoTimes(Event), total |-> NoTotals,
                         exec |-> 0],
              componment |-> [times |-> NoTimes(Type), total |-> NoTotals,
                              exec |-> 0, inputed |-> NoTimes(Type),
                              expect |-> NoTimes(Type)]]
  /\ exceptionCount = [e \in Exception |-> 0]
  /\ tables = [event |-> [b \in Bundle \cup {All} |-> NoTable],
               componment |-> [b \in Bundle \cup {All} |-> NoTable],
               exception |-> [e \in Exception |-> 0]]
  /\ pc = "run"
  /\ finishing = FALSE
  /\ crashMtx = "none"
  /\ csv = Absent /\ json = Absent
  /\ focusFile = <<>>
  /\ inputs = <<>>
  /\ faults = [e \in Exception |-> 0]

-----------------------------------------------------------------------------

(* FilterCategory: a datum without a value for the category is dropped.    *)
FilterDetail(data, category, item) ==
  IF category # "" THEN Append(data, item) ELSE data

(* Faulty: a report is written only for every other segment.              *)
SegmentSkipped(n) == n % (2 * Segment) = 0

(* Statistics and storage every Segment data.                              *)
SegmentFull(n) == n % Segment = 0

(* What SyncInputInfo does after the data are recorded.  b is the          *)
(* application in front when the input has been made.                      *)
Counted(b) ==
  /\ bundles' = IF \E i \in DOMAIN bundles : bundles[i] = b
                THEN bundles ELSE Append(bundles, b)
  /\ taskCount' = taskCount + 1
  /\ pc' = IF SegmentFull(taskCount') THEN "statistics" ELSE "run"
  /\ UNCHANGED <<isFocus, countVars, finishing, crashMtx, files, faults>>

(* The launch that starts the test is not an input of it.                  *)
FirstAppSwitch ==
  /\ pc = "run"
  /\ ~isFirstAppSwitch
  /\ isFirstAppSwitch' = TRUE
  /\ UNCHANGED <<isFocus, taskCount, bundles, record, focusVec, inputs,
                 dataVector, countVars, pc, finishing, crashMtx, files, faults>>

(* SyncInputInfo of a multimode input of type e.                           *)
SyncEvent(b, e) ==
  /\ pc = "run"
  /\ taskCount < MaxInputs
  /\ e = "appswitch" => isFirstAppSwitch
  /\ dataVector' = [dataVector EXCEPT
       !.event = FilterDetail(@, e, [bundle |-> b, key |-> e])]
  /\ inputs' = Append(inputs, [kind |-> "event", bundle |-> b, key |-> e])
  /\ UNCHANGED <<isFirstAppSwitch, record, focusVec>>
  /\ Counted(b)

(* The number of components of type t on all pages of an application.      *)
Total(pages, t) == RowSum([p \in DOMAIN pages |-> pages[p][t]])

(* Faulty: inputs of one component are counted again and again.            *)
Unlimited(n, limit) == n

AtMost(n, limit) == IF n > limit THEN limit ELSE n

(* ComponmentInfoArrange: what the page holds now replaces what it held,   *)
(* and the inputs of a type are no more than the components of the type.   *)
ComponmentInfoArrange(b, t, page, contents) ==
  LET old == record[b].pages
      pages == [p \in DOMAIN old \cup {page} |->
                  IF p = page THEN contents ELSE old[p]]
  IN  [count |-> [record[b].count EXCEPT ![t] = AtMost(@ + 1, Total(pages, t))],
       pages |-> pages]

(* SyncInputInfo of an input to a component of type t on a page.           *)
SyncComponment(b, t, page, contents) ==
  /\ pc = "run"
  /\ taskCount < MaxInputs
  /\ contents[t] > 0
  /\ record' = [record EXCEPT ![b] = ComponmentInfoArrange(b, t, page, contents)]
  /\ dataVector' = [dataVector EXCEPT !.componment = FilterDetail(@, t,
       [bundle |-> b, key |-> t, inputed |-> record'[b].count[t],
        expect |-> Total(record'[b].pages, t)])]
  /\ focusVec' = IF isFocus THEN Append(focusVec, taskCount + 1) ELSE focusVec
  /\ inputs' = Append(inputs, [kind |-> "componment", bundle |-> b, key |-> t])
  /\ UNCHANGED isFirstAppSwitch
  /\ Counted(b)

(* Finish: everything is written once more.                                *)
Finish ==
  /\ pc = "run"
  /\ pc' = "statistics"
  /\ finishing' = TRUE
  /\ UNCHANGED <<isFocus, inputVars, dataVector, countVars, crashMtx, files,
                 faults>>

-----------------------------------------------------------------------------

Matching(data, b, k) ==
  {i \in DOMAIN data : data[i].bundle = b /\ data[i].key = k}

(* SrcDatasPretreatment, the part events and components have in common.    *)
Pretreated(old, data) ==
  [old EXCEPT
     !.times = [b \in Bundle |-> [k \in DOMAIN @[b] |->
                  @[b][k] + Cardinality(Matching(data, b, k))]],
     !.total = [b \in Bundle |->
                  @[b] + Cardinality({i \in DOMAIN data : data[i].bundle = b})],
     !.exec = @ + Len(data)]

(* Of the values of a component type, the last ones stay.                  *)
Latest(old, data, field) ==
  [b \in Bundle |-> [t \in Type |->
     IF Matching(data, b, t) = {} THEN old[b][t]
     ELSE data[Max(Matching(data, b, t))][field]]]

(* StatisticsComponment's SrcDatasPretreatment.                            *)
PretreatedComponments(old, data) ==
  [Pretreated(old, data) EXCEPT
     !.inputed = Latest(@, data, "inputed"),
     !.expect = Latest(@, data, "expect")]

Table(rows, of) == [rows |-> rows, total |-> RowSum(rows), of |-> of]

Summed(counts, keys) ==
  [k \in keys |-> RowSum([b \in Bundle |-> counts[b][k]])]

(* GlobalElementTypesStatistics: one table for all applications.           *)
GlobalTable(s, keys) == Table(Summed(s.times, keys), s.exec)

(* StatisticsDetail: a table for each application that had a record, and   *)
(* the global one.                                                         *)
StatisticsDetail(s, keys) ==
  [n \in Bundle \cup {All} |->
     IF n = All THEN GlobalTable(s, keys)
     ELSE IF s.total[n] = 0 THEN NoTable
     ELSE Table(s.times[n], s.total[n])]

(* The tables of components also have the inputs and the components of     *)
(* each type, which the coverage is made of.                               *)
WithCoverage(table, inputed, expect) ==
  [rows |-> table.rows, total |-> table.total, of |-> table.of,
   inputed |-> inputed, expect |-> expect]

StatisticsComponmentDetail(s) ==
  LET detail == StatisticsDetail(s, Type)
  IN  [n \in Bundle \cup {All} |->
         IF n = All
         THEN WithCoverage(detail[n], Summed(s.inputed, Type),
                           Summed(s.expect, Type))
         ELSE IF detail[n] = NoTable THEN NoTable
         ELSE WithCoverage(detail[n], s.inputed[n], s.expect[n])]

(* Faulty: the records stay and are counted again.                         *)
NotCleared == [dataVector EXCEPT !.event = <<>>]

(* DataSet::StatisticsData clears what it has counted.                     *)
Cleared == [dataVector EXCEPT !.event = <<>>, !.componment = <<>>]

StatisticsData ==
  /\ pc = "statistics"
  /\ stats' =
       [event |-> Pretreated(stats.event, dataVector.event),
        componment |->
          PretreatedComponments(stats.componment, dataVector.componment)]
  /\ tables' = [tables EXCEPT
       !.event = StatisticsDetail(stats'.event, Event),
       !.componment = StatisticsComponmentDetail(stats'.componment)]
  /\ dataVector' = Cleared
  /\ pc' = "lock"
  /\ UNCHANGED <<isFocus, inputVars, exceptionCount, finishing, crashMtx, files,
                 faults>>

(* SegmentedWriteCSV takes crashMtx_ for the statistics of the exceptions. *)
LockCrash ==
  /\ pc = "lock"
  /\ crashMtx = "none"
  /\ crashMtx' = "main"
  /\ pc' = "count"
  /\ UNCHANGED <<isFocus, inputVars, dataVector, countVars, finishing, files,
                 faults>>

(* The exceptions of kind e that are not counted yet.                         *)
Pending(e) == Cardinality({i \in DOMAIN dataVector.exception :
                             dataVector.exception[i] = e})

(* StatisticsException counts a copy of the records, ...                   *)
CountExceptions ==
  /\ pc = "count"
  /\ exceptionCount' = [e \in Exception |-> exceptionCount[e] + Pending(e)]
  /\ tables' = [tables EXCEPT !.exception = exceptionCount']
  /\ pc' = "clear"
  /\ UNCHANGED <<isFocus, inputVars, dataVector, stats, finishing, crashMtx,
                 files, faults>>

(* ... and the records are cleared before the lock is released.            *)
ClearExceptions ==
  /\ pc = "clear"
  /\ dataVector' = [dataVector EXCEPT !.exception = <<>>]
  /\ crashMtx' = "none"
  /\ pc' = "csv"
  /\ UNCHANGED <<isFocus, inputVars, countVars, finishing, files, faults>>

(* Opening a report truncates it; it is written when it is closed.         *)
TruncateCsv ==
  /\ pc = "csv"
  /\ csv' = Truncated
  /\ pc' = "csv content"
  /\ UNCHANGED <<isFocus, inputVars, dataVector, countVars, finishing, crashMtx,
                 json, focusFile, faults>>

WriteCsv ==
  /\ pc = "csv content"
  /\ csv' = [whole |-> TRUE, task |-> taskCount, bundles |-> bundles,
             tables |-> tables]
  /\ pc' = "json"
  /\ UNCHANGED <<isFocus, inputVars, dataVector, countVars, finishing, crashMtx,
                 json, focusFile, faults>>

TruncateJson ==
  /\ pc = "json"
  /\ json' = Truncated
  /\ pc' = "json content"
  /\ UNCHANGED <<isFocus, inputVars, dataVector, countVars, finishing, crashMtx,
                 csv, focusFile, faults>>

(* The places of the JSON report for tables of inputs, in order.           *)
Names == [i \in 1 .. 1 + Len(bundles) |-> IF i = 1 THEN All ELSE bundles[i - 1]]
Places ==
  [i \in 1 .. 2 * Len(Names) |->
     [set |-> IF i % 2 = 1 THEN "event" ELSE "componment",
      name |-> Names[(i + 1) \div 2]]]

TableAt(place) == tables[place.set][place.name]

(* FormatData leaves moduleInput as it is when there is no table of the    *)
(* name, and moduleInput is what is printed: the table before is printed   *)
(* again.                                                                  *)
Shown(i) == TableAt(Places[Max({j \in 1 .. i : TableAt(Places[j]) # NoTable})])

(* Faulty: the exceptions recorded since are counted too.                  *)
ExceptionsSince ==
  [e \in Exception |-> tables.exception[e] + Len(dataVector.exception)]

ExceptionTable == tables.exception

WriteJson ==
  /\ pc = "json content"
  /\ json' = [whole |-> TRUE, task |-> taskCount, places |-> Places,
              shown |-> [i \in DOMAIN Places |-> Shown(i)],
              own |-> [i \in DOMAIN Places |-> TableAt(Places[i])],
              exception |-> ExceptionTable]
  /\ pc' = "focus"
  /\ UNCHANGED <<isFocus, inputVars, dataVector, countVars, finishing, crashMtx,
                 csv, focusFile, faults>>

(* Faulty: the lines are kept and written again.                           *)
FocusLinesKept ==
  /\ focusFile' = IF isFocus THEN focusFile \o focusVec ELSE focusFile
  /\ UNCHANGED focusVec

(* The lines go to the end of the focus report.                            *)
FocusLinesMoved ==
  /\ focusFile' = IF isFocus THEN focusFile \o focusVec ELSE focusFile
  /\ focusVec' = IF isFocus THEN <<>> ELSE focusVec

SegmentedWriteForFocusInput ==
  /\ pc = "focus"
  /\ FocusLinesMoved
  /\ pc' = IF finishing THEN "done" ELSE "run"
  /\ UNCHANGED <<isFocus, isFirstAppSwitch, taskCount, bundles, record, inputs,
                 dataVector, countVars, finishing, crashMtx, csv, json, faults>>

-----------------------------------------------------------------------------

(* The kind of a fault log is read off its name; "" if it has none.        *)
Kind == Exception \cup {""}

(* Faulty: without the lock.                                               *)
ExceptionRecordUnlocked(kind) ==
  /\ pc # "done"
  /\ RowSum(faults) < MaxExceptions
  /\ dataVector' = [dataVector EXCEPT !.exception = FilterDetail(@, kind, kind)]
  /\ faults' = IF kind = "" THEN faults ELSE [faults EXCEPT ![kind] = @ + 1]
  /\ UNCHANGED <<isFocus, inputVars, countVars, pc, finishing, crashMtx, files>>

(* ExceptionRecord, by the thread that watches the directory.              *)
ExceptionRecord(kind) ==
  /\ pc # "done"
  /\ crashMtx = "none"
  /\ RowSum(faults) < MaxExceptions
  /\ dataVector' = [dataVector EXCEPT !.exception = FilterDetail(@, kind, kind)]
  /\ faults' = IF kind = "" THEN faults ELSE [faults EXCEPT ![kind] = @ + 1]
  /\ UNCHANGED <<isFocus, inputVars, countVars, pc, finishing, crashMtx, files>>

(* The thread of the directory: any number of logs, at any time.           *)
ListenCrashDir == \E kind \in Kind : ExceptionRecord(kind)

Terminated == pc = "done" /\ UNCHANGED vars

SyncInputInfo ==
  \/ FirstAppSwitch
  \/ \E b \in Bundle, e \in Event : SyncEvent(b, e)
  \/ \E b \in Bundle, t \in Type, page \in Page :
       \E contents \in Contents[page] :
         SyncComponment(b, t, page, contents)

Main ==
  \/ SyncInputInfo \/ Finish \/ StatisticsData
  \/ LockCrash \/ CountExceptions \/ ClearExceptions
  \/ TruncateCsv \/ WriteCsv \/ TruncateJson \/ WriteJson
  \/ SegmentedWriteForFocusInput

Next == Main \/ ListenCrashDir \/ Terminated

Spec == Init /\ [][Next]_vars

-----------------------------------------------------------------------------

IsTable(t, keys) ==
  t = NoTable \/ (DOMAIN t.rows = keys /\ t.total \in Nat /\ t.of \in Nat)

TypeOK ==
  /\ isFocus \in BOOLEAN
  /\ isFirstAppSwitch \in BOOLEAN
  /\ taskCount \in 0 .. MaxInputs
  /\ bundles \in Seq(Bundle) /\ Len(bundles) <= Cardinality(Bundle)
  /\ \A b \in Bundle :
       /\ record[b].count \in [Type -> Nat]
       /\ DOMAIN record[b].pages \subseteq Page
       /\ \A p \in DOMAIN record[b].pages : record[b].pages[p] \in Contents[p]
  /\ focusVec \in Seq(1 .. MaxInputs)
  /\ focusFile \in Seq(1 .. MaxInputs)
  /\ \A i \in DOMAIN dataVector.event : dataVector.event[i].key \in Event
  /\ \A i \in DOMAIN dataVector.componment :
       dataVector.componment[i].key \in Type
  /\ dataVector.exception \in Seq(Exception)
  /\ \A set \in {"event", "componment"}, b \in Bundle :
       /\ stats[set].times[b] \in [Key[set] -> Nat]
       /\ IsTable(tables[set][b], Key[set])
  /\ exceptionCount \in [Exception -> Nat]
  /\ faults \in [Exception -> 0 .. MaxExceptions]
  /\ pc \in {"run", "statistics", "lock", "count", "clear", "csv",
             "csv content", "json", "json content", "focus", "done"}
  /\ finishing \in BOOLEAN
  /\ crashMtx \in {"none", "main"}

(* The inputs among the first n of one kind, application and key.          *)
Made(all, set, b, k, n) ==
  {i \in 1 .. n : all[i] = [kind |-> set, bundle |-> b, key |-> k]}

(* A CSV report that is whole counts each input up to its task count once: *)
(* its tables hold the inputs of each application and type, the table of   *)
(* all applications is their sum, and what the shares of a table are taken *)
(* of is its total (SrcDatasPretreatment, GlobalElementTypesStatistics).   *)
EveryInputCounted ==
  csv.whole =>
    /\ csv.tables.event[All].total + csv.tables.componment[All].total = csv.task
    /\ \A set \in {"event", "componment"} :
         /\ \A n \in Bundle \cup {All} :
              csv.tables[set][n].total = csv.tables[set][n].of
         /\ \A b \in Bundle, k \in Key[set] :
              LET made == Made(inputs, set, b, k, csv.task)
              IN  /\ made # {} => csv.tables[set][b].rows[k] = Cardinality(made)
                  /\ made # {} => \E i \in DOMAIN csv.bundles : csv.bundles[i] = b

(* Each fault log is counted once, whenever the thread of the directory    *)
(* records it while the tables are made: crashMtx_.                        *)
EveryExceptionCounted ==
  \A e \in Exception :
    faults[e] = exceptionCount[e] + IF pc = "clear" THEN 0 ELSE Pending(e)

(* Wherever the program is killed after the first segment, one of the two  *)
(* reports is whole and misses no more than a segment of inputs: what      *)
(* "statistics and storage every 10 data" is for.                          *)
ReportSurvives ==
  taskCount > Segment =>
    \E f \in {csv, json} : f.whole /\ taskCount - f.task <= Segment

(* Between two inputs, and at the end, the JSON and the CSV report say the *)
(* same: they are made from one set of tables, exceptions recorded in      *)
(* between are in neither.  At the end they say all, and so does the focus *)
(* report.                                                                 *)
ReportsAgree ==
  /\ pc \in {"run", "done"} /\ (csv.whole \/ json.whole) =>
       /\ csv.whole /\ json.whole
       /\ csv.task = json.task
       /\ csv.tables.exception = json.exception
       /\ \A i \in DOMAIN json.places :
            json.own[i] = csv.tables[json.places[i].set][json.places[i].name]
  /\ pc = "done" => csv.task = taskCount /\ json.whole /\ focusVec = <<>>

(* In a focus test the focus report gets one line for each input to a      *)
(* component, in order, with the number the input has in the other reports.*)
FocusLinesOnce ==
  LET lines == focusFile \o focusVec
  IN  /\ \A i, j \in DOMAIN lines : i < j => lines[i] < lines[j]
      /\ {lines[i] : i \in DOMAIN lines} =
           {n \in DOMAIN inputs : isFocus /\ inputs[n].kind = "componment"}

(* No coverage is above 100%, of an application and of all: the inputs     *)
(* given for a type of component are neither more than the components of   *)
(* the type that were seen nor more than the inputs that were made, though *)
(* pages change what they hold between two reports.                        *)
CoverageWithinBounds ==
  \A b \in Bundle \cup {All}, t \in Type :
    LET table == tables.componment[b]
    IN  table # NoTable => /\ table.inputed[t] <= table.expect[t]
                           /\ table.inputed[t] <= table.rows[t]

(* "loop app show name-type statistics content" (report.cpp:328): each     *)
(* place of the JSON report shows the table of its own application and     *)
(* kind, or nothing.                                                       *)
JsonShowsOwnTables ==
  json.whole => \A i \in DOMAIN json.places : json.shown[i] = json.own[i]

=============================================================================
