# A verification project for wukong

`wukong` is the stability test tool of OpenHarmony. One command starts one
test run: `exec` injects random events, `focus` repeats them on one kind of
component, `special` injects one kind of input in order (touches, swipes,
power key, the components of an application, a recording). This directory holds
TLA+ modules of the program in `src/`, TLC configurations that check them on
small instances, and proofs checked by TLAPS.

`PROJECT.json` maps every definition that models code to the lines it models,
names each run with its properties, and for every property a faulty variant of
one operation (the operators marked *Faulty* in the modules) that breaks it.

## The system

| Component | State | Operations | Interacts with |
|---|---|---|---|
| Program (`shell_command/`) | the process, the command word | `main`, `IsRunning`, `RunTestCommand` | other wukong processes through `pidof`; creates one flow |
| Test flow (`test_flow/src/test_flow.cpp`) | `isFinished_`, `isPermissionBundle_`, `countEnable_`, `totalCount_` | `Run`, `OnPermissionScreenShown`, `CheckVaildityCmd` | calls the `RunStep` of one of three flows; timer thread and accessibility thread set its flags |
| Random, focus, special flow | options, event list, `g_isAppStarted`, timer | `RunStep`, `InputScene`, `SetBlockPage`, `CheckBlockAbility`, `ProtectRightAbility`, option handlers, `EnvInit` | inputs, WuKongUtil |
| WuKongUtil | lists of applications, block rectangle, screen size | `SetAllowList`, `SetBlockList`, `GetAllAppInfo`, `CalcBlockAvoidPoint`, `GetScreenSize` | read by inputs and flows |
| Inputs (`input_factory/`) | mostly none; `SwapInput` a static direction; `ComponentInput` the progress of each application | `RandomInput`, `OrderInput` | MultimodeManager, AppManager, TreeManager |
| `RecordInput` | the CSV file, the time of the last event, a monitor of the input service | `OrderInput`, `OnInputEvent` on a thread of the service | the user, MultimodeManager, later programs through the file |
| Trees (`component_event/`) | abilities, pages, components, their counts | `UpdateComponentInfo`, `ChooseScene`, `AddPage`, `UpdatePage`, `SetInputcomponentIndex` | accessibility service, ComponentInput |
| Accessibility connection | `connected_`, listeners | `Connect`, `Disconnect`, callbacks on a thread of the service | test flow, trees |
| Logger | queue, `printerRunning_`, printer thread | `Start`, `Print`, `Stop` | every thread |
| Report, exception listeners | records and tables of four data sets, task count, three files | `SyncInputInfo`, `Finish`, `ExceptionRecord` on a thread of its own | every input, the flows; fault logs of the system |

What is hard here: the timer and the accessibility thread change flags in the
middle of the loop; the single-program check races with starting and exiting
processes; the logger's condition variable has no predicate; the component test
and `focus` decide from counts, kept across pages that come, change in place,
are left and found again, and across lost connections; options may come in any
order and share lists; percentages are single-precision products; the block
rectangle may lie anywhere; the swipe's direction outlives its call; a recording
outlives the program that was killed while it wrote it. `hazards`
in `PROJECT.json` lists each at its line.

## The modules

| Module | Models |
|---|---|
| `BoundedRun` | abstract: what a run with `-c n` or `-T` promises about its steps and its report; the steps after the timer are counted by `late`, and no action begins a second one |
| `TestFlow` | `TestFlow::Run` and the count at the head of every `RunStep`, with timer, permission dialogs, connect and report |
| `RandomTestFlow`, `FocusTestFlow`, `SpecialTestFlow` | the three `RunStep`s on top of `TestFlow` (EXTENDS); the special one runs `SwapInput` event by event (INSTANCE) |
| `TestFlows` | any of the three flows, as `TestFlowFactory` chooses (INSTANCE) |
| `SwapInput` | the swipes of `-S`, segment by segment (`IntervalSwap`) |
| `InstanceGuard` | `main` and `IsRunning` of any number of processes, with `pidof` looking at one process at a time |
| `Device` | constants: display, block rectangles, where a user touches |
| `RecordInput` | `special -r` and `-R`: the CSV file line by line, the callback of the monitor, the clock, Enter, a kill at any point; then the replay, touch by touch (EXTENDS `Device`) |
| `Programs` | the programs of one device one after another (EXTENDS `InstanceGuard`): the one that may execute draws touches (INSTANCE `TouchInput`), records or replays (INSTANCE `RecordInput`), and is killed at any point; the display and the file outlive it |
| `WuKongLogger` | `Start`, `Print`, `Stop` and the printer thread, lock by lock |
| `BlockRect` | pure: `CalcBlockAvoidPoint` and its helpers on integers |
| `TouchInput` | one touch (size, point, down, up) with the display turning between its calls (EXTENDS `Device`) |
| `CommandLine` | `CheckVaildityCmd`: options one by one, then `EnvInit`, then the applications |
| `RandomTestOptions`, `FocusTestOptions`, `SpecialTestOptions` | the options of each test and what its `EnvInit` makes of them: the event list of `exec` and `focus`, the parameters of `special` (EXTENDS) |
| `ShareMaps` | pure: the shares of `-f` and `-D`, negative ones too, and the vector of 100 that is drawn from |
| `GestureInputs` | the fingers and directions that the knuckles and random swipes of `exec` draw from those vectors (EXTENDS `RandomTestOptions`) |
| `BundleLists` | the lists behind `-b`, `-p`, `-e`, `-E`, `-C`, read again by every option that needs them; the applications that a switch asks for, by name or by URI, and that the controller lets start |
| `CommandLines` | the options (EXTENDS) and the lists (INSTANCE) together, and the gestures and switches that follow |
| `TreeManager` | abilities, pages and components, and how their counts are kept |
| `SceneDelegate` | which page of the tree the page on the screen is (EXTENDS `TreeManager`) |
| `ComponentTest` | `special -C`: `ComponentInput::OrderInput` in its loop, with the ordered choice of a component and the connection (EXTENDS `SceneDelegate`) |
| `ElementInputs` | the inputs to components of `exec` and `focus`: `RandomInput`, `FocusInput`, the lists they choose from and `FindInputComponentIndex` (EXTENDS `SceneDelegate`) |
| `Report` | `SyncInputInfo`, the statistics, the CSV, JSON and focus reports, and the thread that records fault logs, lock by lock and file by file |
| `MC*` | constants of the runs |
| `*Proofs` | theorems; `ServicesProofs` those of `Report` and `WuKongLogger` |
| `SumTheorems` | lemmas about sums over finite sets, used by the proofs of `CommandLines` and `Report` |

How state and actions correspond: variables have the names of the members they
stand for; `pc` is the place of the main thread (its labels are the calls
between which another thread can act); variables commented *history* do not
exist in the program and are read by properties only (the label `Goto` and
history variables aside, an action is one handler or one stretch of a handler
between two calls). `PROJECT.json`'s `map` gives the lines.

Abstractions worth knowing:

* A page is its node id and stands for its list of components; `ChooseScene`
  compares ids and shares of common components as the code does. That two
  different pages may have one node id is not modelled.
* In `ComponentTest` the device answers anything: any ability may be on top and
  any page of it may be read at any question. Which component a press leads
  from is thereby not assumed. An answer about the page may also be late by one
  ability (a page listed for two abilities).
* A page object nothing refers to any more disappears (`HeldPages`): after the
  first page of a new ability could not be read, the code makes pages that no
  list holds, and their children lose their parent (weak pointer). `missed`
  counts the pages read since, and bounds them.
* `ElementInputs` looks at the inputs to components only: the other events of
  `exec` and `focus` change what the device shows, which may be anything anyway.
  The list and the answer about going back are forgotten at the end of a step,
  as the next one makes both anew before it reads them. `rand()` draws an index
  up to the size of the largest page (`Draws`); the inputs of a component are
  counted up to `InputCap`, one more than the limits that are compared with.
  The lost connection and reconnecting are in `ComponentTest` only.
* Integer widths are kept where they matter: the counts of an ability are
  `uint32_t` (`Modulus`), percentages are whole hundredths converted as
  `float * 100` to `int` (`BelowExact`).
* In `RecordInput` a line is a position: the interval written with it is the
  value of the clock's difference (`age`) at that moment. Every line is flushed
  (`endl`), so it is in the file as a whole or not at all. Times count in halves
  of `OPERATIONINTERVAL`; the clock may be set at any moment, to anything.
* In `Programs` the memory of the one program that executes a command is kept
  once; that there is only one is `OneProgramRuns`, proved beside it. Where a
  killed program leaves its finger is the service's, and is forgotten.
* In `SpecialTestFlow` the first `ProtectRightAbility` of a program finds the
  static name of the bundle empty and succeeds (`bundleKnown`).
* In `Report` an input names the application in front when it is reported, which
  may be another than the one it went to, as in the code. A record is its
  application and type; percentages are the pair they are made of; the reports
  hold the tables, not their layout. A process killed in any state leaves the
  files of that state, so what must survive is an invariant.
* In `BundleLists` an option may be given any number of times. The default block
  list is a constant of three values in the code, any set in the model. What a
  step *asks for* is not what is *started*: the ability manager asks the
  controller (`AllowAbilityStart`), which refuses what is prohibited, and the step
  is spent. Abilities are not told apart from their application: the lists of
  `-e` and `-E`, and which ability of an application starts, are not modelled.
  Where the code reads the first element of an empty list or divides by its
  length (`LaunchOfFirst`: `-b` or `-e` named nothing), the program may end
  (`pc` is "rejected") or go on.
* In `ShareMaps` the sum of the shares is exact; in the code it is one of floats,
  compared with 1 up to a millionth. With a negative share the others may exceed
  the vector: what is written behind it ends the program, or not (`Survived`).
* In the other modules a launch, a gesture and a report are calls that succeed
  or fail.

## The runs

| Run | Question | Bounds and why they are enough |
|---|---|---|
| `test_flows` | for `exec`, `focus` and `special`: is the count exact, is at most one step late after the timer, are prohibited pages and abilities left alone, does the run end while no recording waits for its user, is it a `BoundedRun`? Where is the finger and which way goes a swipe of `special`? Does a finished special test, a recording among them, end? | counts -1 .. 3: both sides of the boundary and a loop that goes round; `-c`, `-T` and neither; three segments of a swipe: first, middle, last; threads interleave freely |
| `random_flow_ability` (violation) | is a prohibited page respected with `-E`? Its answer is overwritten | as above, `exec` alone |
| `programs` | does at most one program run, is a lonely one let through? Whatever programs ran, were refused or killed before: does no touch land in the block, is a round skipped only if the block covers the screen, does a touch lie beyond the display only after it was turned, does a replay make the touches that were recorded, with the pauses that really passed? | two processes, the pair that matters (any number in the theorems); a display 3x2, turned too; seven rectangles: inside, across an edge, swapped, beyond, empty, leaving one column, covering all until it is turned; two positions, up to three events: one accepted, one dropped, one accepted again; pauses 0 .. 3 around an interval of 2 |
| `logger` | is every accepted message written once and in order, are the buffers bounded, is everything accepted before `Stop` written, does `Stop` return? | main, one other thread, a queue of two: full, empty and in between; three messages each |
| `logger_start` (violation) | does `Start` return? The notification may come before the wait | as above |
| `command_lines` | is an accepted command line of each test consistent, has the list 100 events with the percentages given, do the parameters of `special` fit its input, has a knuckle the fingers that `-f` gave, which applications are asked for and started? | three options, repeated or not: every pair and an order of a third, so `-p` after `-p`, `-b` or `-e` and before it. Options with lists and options with percentages are not taken together (`MCApart`): neither kind reads what the other leaves. Seven `-f` (full, losing a hundredth, one key twice, more than two fingers, refused, a negative share in a vector that holds the others and in one that does not) and one `-D`; an element behind a vector as 0, 3 or 5 (blank, a number of fingers, none); positions of one part, two and more; numbers read behind the table of `focus` as 0 and 49 (without effect, and enough to fill the list); percentages that survive the conversion (30, 100) and one that does not (53). Every set of names for `-b`, `-p` and `-C`, the empty one too; two installed applications, one without launcher ability, one unknown name; a default block list of one that is installed and one that is not |
| `swipe_fingers` (violation) | has a swipe a number of fingers that `-f` gave? It is drawn from 1 to 100, of a vector that ends at 99 | one `-f`, of shares that fill the vector |
| `component_test` | do the counts agree with the pages, is the current page one of the current ability, are applications tested in order, is one finished only for a reason the code may have (`FinishedExplained`), does the test end once nothing disturbs it? | two applications, two abilities in one, a page shared by both, a page excluded by `-y`, a page that grows and shrinks in place; counts of BACK and launches 1 for 3 and 5 (each limit is reached and reset); counts mod 4, so that a wrong decrement wraps; inputs counted to 3, the largest sum of components |
| `element_inputs` | does `exec`, when it has not drawn it, and does `focus` go back only from a page that had its inputs, however the page was changed, left and found again? Does `focus` leave a page that stays in front? | two applications of two pages each: a page that grows and shrinks in place, under two paths; two pages one below the other, left and found again, one with a dialog, one with a blocked component, that share the path of the first; types with and without focus; `-n 2` and `MAXINPUTNUM` 1 for 3: with and without focus differ and the index is kept, counted and drawn again; inputs counted to 2, the larger limit; draws 0 and 1, the indices of the largest page; abilities that cannot be read are looked at in `component_test` (`MissedReads` 0 here) |
| `report` | is every input and every fault log counted once, do the reports agree, does a killed program leave a recent one, is no coverage above 100%? | segments of two and four inputs: an empty, a partial and two full segments; two applications; a page that changes what it holds and another one; one fault log at any time (the theorem has any number); focus tests and others |
| `report_json` (violation) | does the JSON report show in each place the table of its application and kind? A missing table is replaced by the one printed before | as above |
| `component_traversal` (violation) | does every component get its input before the application is finished? Presses repeated on the way back are counted as if they were new ones | one ability, two pages of two components |

Every module states its types as `TypeOK` (`LoggerTypeOK` for `WuKongLogger`,
whose theorems share a module with those of `Report`). That they hold is a theorem for the
three tests (`TestFlows`), `Programs`, `TouchInput`, `RecordInput`, `WuKongLogger`
(where they bound the buffers, and are also checked by `logger`), `ComponentTest`
and `ElementInputs`; of the others they hold in the states of the runs above.

Deadlock is checked in `component_test`, `element_inputs`, `report` and the
violation runs of these modules; the other systems stop when the program exits.

### Fairness

The main thread and the timer thread are scheduled by the system: weak fairness
of `Main`, but for `UserAwaited`, and of `Timer` (an armed timer fires). A
recording (`special -r`) waits inside its first step until the user presses
Enter (`getc`, `record_input.cpp:213`); nothing obliges the user to, and neither
`-T` nor `-c` is looked at before. So `RunEnds` speaks only of the runs in which no
recording waits for ever. Nothing obliges the system to show permission dialogs, to disconnect
the service, to turn the display or to start or kill processes: no fairness.
In the logger every program thread is
scheduled and a timed wait ends; wakeups may be spurious and notifications are
lost when nobody waits. `RunEnds` assumes of a counted run that the dialogs end,
since each takes a turn of the loop without a step, and nothing of a timed one.
In `ElementInputs`, `rand()` gives every index again and again to a draw that
comes again and again (strong fairness of `DrawnInput`); without it `focus` may
draw the one component of two for ever. `FinishedTestEnds` assumes that
`ProtectRightAbility` fails only finitely often, and `EndsOnceQuiet` and
`FocusPageIsLeft` that the disturbances of `Restless` end: failing calls, lost
connections, changes of the application in front, pages that change in place,
for `focus` any change of the page and dialogs. Each of them can in fact keep
the code busy for ever.

## What is proved

TLAPS proves, for every value of the constants:

* `TestFlowsProofs`, for `exec`, `focus` and `special`: types, `CountExact`,
  `LateStepsBounded` and that each of the three implements `BoundedRun`: the
  `late` of the flow is that of `BoundedRun`, which only `LateStep` changes, once.
  `CountExact` alone is not inductive: `FlowInv` adds that the remaining count
  mirrors the steps (`CountInv`), who may finish a run (`TimeInv`), that the one
  late step is beyond the loop's test (`LateInv`) and that the report is saved once,
  at the end (`SavesInv`). It is kept by the steps every test has and by any
  `RunStep` that leaves the shared flags alone; that the three do is one lemma each.
  Of the steps themselves: no event on a prohibited page or ability
  (`BlockedPageRespected`, `NoEventOnBlockedAbility`), no finger left on the screen
  by a swipe (`FingerLiftedAtEnd`: `FingerInv` says where in a swipe the finger may be
  down), and swipes that go and come back by turns (`GoesAndComesBack`, by `TurnInv`).
  Assumptions: the counts are integers (`LimitsAssumption`), a swipe has a segment
  (`SegmentAssumption`).
* `ProgramsProofs`: types, mutual exclusion and that a lonely program is not
  refused, for any finite set of processes. The invariant: of two processes that
  have both looked for one another, the one that looked later saw the earlier one
  (`LaterSeesEarlier`). Then, of the composition, that its steps are steps of
  `InstanceGuard`, of `TouchInput` and of `RecordInput` (`ProgramsAreGuarded`,
  `ProgramsTouch`, `ProgramsRecord`), so that the program that executes is alone
  (`OneProgramOnDevice`), and what is true of one program's touches, or of one
  recorder, is true of them all:
  * `CalcBlockAvoidPoint` may answer exactly the points of the screen outside the
    block, for every screen and block (`AvoidPointsAreFreePoints`, by cutting the
    screen into the pieces of `DecomposeAvailableArea`); from it `TouchAvoidsBlock`,
    `SkipsOnlyWhenCovered` and that every free point can be drawn
    (`NoPointLeftOut`, which no run asks);
  * `TouchBeyondExplained`: a touch lies on the screen that was read
    (`TouchOnScreen`), and that screen is the display, turned or not as `turned`
    says, as long as the program lives (`TurnedInv`). This needs that a program
    begins alone (`BeginsAlone`): with two of them, `turned` of the one could speak
    of the screen of the other;
  * `ReplayIsRecorded` and `PausesAreReal`, for any positions, interval and number
    of events, with a kill at any point. `RecordInv` adds what each place of the
    program says of the file (it is empty, or its head and the accepted positions)
    and that the clock agrees with the time that has gone while nobody set it.
* `CommandLinesProofs`: `AcceptedIsConsistent`, `ParametersMatch`,
  `ProhibitedLaunchExplained` and `OnlyAllowedLaunched`, for any options and
  applications, any default block list and any length of a command line, with any
  option any number of times. What an option looked for stays true after it
  (`OptionsInv`), as no option takes back a flag. Of the lists: every valid
  application was let through by a block list that was in force at some reading
  (history variable `inForce`), and where there is no valid one each of those lists
  named every installed application; what is found of the allow list was added
  when it was set. Assumption: an unknown name is none of an installed application
  (`UnknownAssumption`).
  Then what the inputs are drawn from: `EventListFull` and `GivenPercentKept`, for
  any percentages. `PercentInv` says in every state what was asked for and which
  types may have been, `EventsInv` what the list holds once it is made; that the
  defaults fill what is left needs that the cut shares of a whole are no more than
  the whole. `SharesKept`, for `-f` and `-D` with shares of any sign that the vector
  holds: each key's part of it lies between two sums of cut shares; that shares fit
  when none is negative is a theorem of its own (`SharesFitVector`). Of it and of
  what the gestures draw (`DrawnInv`), `KnucklesAsGiven`, for any shares.
  Assumptions: percentages from 0 to 100 (`PercentsAssumption`; the options refuse
  others), shares in whole hundredths of any sign (`SharesAssumption`), and the
  number of events that a number behind the table of `focus` gives is a natural one
  (`StraysAssumption`).
* `ComponentTestProofs`: `InOrder` for any number of applications and any
  pages. The invariant adds that the application of a step under way is launched
  (`StepOnLaunched`). Then of the tree of pages, for any abilities, pages and
  components and whatever is answered when: types, `OldScreenIsCurrent`,
  `CountsAgree` and `FinishedExplained`. The argument: only the current page may
  be one that nothing holds, and then it is the last (`HeldInv`); while every new
  ability could be read all pages are held, those above a page belong to its
  ability, and every known ability has a page tree of its own, but the one whose
  first page is read next (`OwnerInv`, with `PlaceInv` for where in the step that
  is); every page belongs to a known ability (`CountInv`). Without `missed = 0`
  none of it holds: an ability that could not be read has no tree, and its pages
  go below no page or one of another ability. Assumptions: at least one
  application, finite lists of components (`ComponentsAssumption`), and for the
  last two that the components on the pages of an ability are fewer than a
  `uint32_t` can count, in every state (`CountsFit`).
* `SceneDelegateProofs`: lemmas about the tree of abilities and pages that the
  next two share (what one page found, changed, moved or dropped does to it); it
  states no theorem of its own.
* `ElementInputsProofs`: types and `BackMeansDone`, for any applications, pages,
  components and limits. The invariant is about all pages, not only the one that
  is left: what a page has counted for a component is at most what the component
  had (`CountedInv`), and stays so when the page changes, moves or is found again.
  Assumption: `MaxInputNumAssumption`, the limit is a natural number.
* `ServicesProofs`, of `Report`: `EveryExceptionCounted`, for any kinds and numbers
  of fault logs. The invariant adds who holds `crashMtx_` (`HoldsLock`); two lemmas
  about how often a value occurs in a sequence carry it (`OccurrencesAppend`).
  `ReportSurvives`, for any length of a segment: `FilesInv` says, stage by stage,
  which file is of the segment before and which of this one; that a segment is
  full exactly when it is written needs `SegmentNext`, a lemma about remainders.
  `ReportsAgree`: what was written shows the tables until there are new ones
  (`AgreeInv`).
  * `EveryInputCounted`, for any applications, types, pages and lengths of a
    segment. The tables are made once in a segment, so the invariant is not about
    them but about what they would be if they were made now (`Due`): that is what
    was made (`DueInv`), its rows add up to its totals and those to the number of
    inputs, and it does not change when the statistics are made
    (`StatisticsStep`), since the records are cleared with it (`TablesInv`).
  * `CoverageWithinBounds`: the inputs counted for a type of component are at most
    those that were made, in the record of each application, in every record that
    waits and in the statistics (`RecordInv`, `CoverInv`); that they are at most the
    components is so record by record, the later one with both its numbers.
  * `FocusLinesOnce`: the lines in the file and those that wait are one sequence,
    and every number in it is one of an input (`LinesKept`).

  Assumptions: applications, types and pages are finitely many
  (`FiniteAssumption`), no input has the empty name and no application that of the
  table of all (`NamesAssumption`).
* `ServicesProofs`, of `WuKongLogger`: types, `NothingLost` and `DrainedAtStop`, for
  any threads, messages and limit of the queue. `LogInv` says who may hold which
  buffer (`BufferInv`), that the messages accepted are those written, those in the
  printer's hands and those queued, in this order (`NothingLost`, which is a
  conjunct of its own invariant), and what the printer has seen of the messages
  before `Stop` (`DrainInv`).
* `SumTheorems`: a sum over a finite set, as the community modules compute it, has
  the value of any order of its elements (`AddsAny`); it is monotone, changes by
  what one element changes, and adds up over parts. Induction is by a least
  subset that would be a counterexample (`LeastSubset`).

Only model-checked: everything about liveness (fairness and ENABLED are out of
the prover's reach), and the type invariants named above.

## Where the code and its documents disagree

Shown by a run: the five *violation* runs above (`findings` quotes the lines).

Met while modelling, without a run of their own:

* `README.md:102` and `:117` give `-c` and `-T` defaults (10 times, 10 minutes);
  `RunStep` counts only when `-c` was given and the timer is armed only by `-T`, so
  a run with neither never ends of itself (`RunEnds` promises nothing of it; the
  history variable `ownEnd` says whether a special test may).
* `README.md:106` says of `-p` that by default no applications are prohibited;
  `blockList_` starts with three names (`wukong_util.h:524`, `Defaults`), which are
  left out of the valid applications and refused by the controller. `-p` replaces
  them.
* `README.md:81` says of `-T` of `special` that it sets the total test time; a
  recording goes on until Enter (`record_input.cpp:213`).
* Without `-b` the swipes of `-S` run from the `-e` coordinates to the `-s` ones: the
  static `isBack` is true from the start (`swap_input.cpp:40`, `OrderInput`).
* The report's `inputedAbilityCount` is 1 for every application: the name of the
  application is stored in the place of the ability's (`statistics_ability.cpp:70`).
* `wukong focus` takes `-E` and never asks for it.
* The defaults of `focus` are a table of eight entries read for all seventeen
  types (`focus_test_flow.cpp:169`): what lies behind it may put events that
  `focus` does not offer into the list, and make it longer than 100.
* `focus -n` is "the number of inputs to focus on some component one time"
  (`focus_test_flow.cpp:50`); the code gives one input more
  (`tree_manager.cpp:553`), and `-n -1` divides by zero.
* `focus` presses components of `-y` and `-Y` (`focus_test_flow.cpp:54`): they stay
  in the list, as the index is one of the whole list (`normal_scene.cpp:140`), and
  only count as done.
* With a dialog `focus` presses the components of the dialog only, but waits for
  those behind it before it goes back (`component_input.cpp:376`); a dialog of
  which no component is in the list divides by zero (`component_input.cpp:386`).
* `special -S -t`: the parameters are those of a swipe, the input is a touch
  (`special_test_flow.cpp:101`), which casts them.
* A position off the screen is reported, and accepted (`special_test_flow.cpp:345`).
* Two programs started together may both give up (`wukong_main.cpp:115`).
* The screen size is read once; after a rotation touches may lie beyond the
  turned display (`wukong_util.cpp:638`); `TouchBeyondExplained` says that
  nothing else brings them there.
* A recorded line holds the pause before its touch, and the replay sleeps that
  long after it (`record_input.cpp:134`). A press of more than 400 ms gives two
  touches, as going down and coming up are both events; a clock put forward, or
  back by more than an `int`, gives any pause, also a negative one, and a pause
  of more than 35 minutes overflows `interval * INTERVALTIME`.
* The monitor of a recording is never removed: what is touched between Enter
  and the end of the process is recorded as well (`record_input.cpp:213`).
* A touch that cannot be lifted is replayed as if it had been, unless it is the
  last (`record_input.cpp:132`); a program killed between the two never sends
  the lifting.
* `-D` without `-f` is taken and ignored; with `-f` a swipe of two fingers is made
  with one, and so without its direction, and one of three or four not at all
  on a phone (`swap_input.cpp:74`, `:104`). A key given twice in `-f` or `-D`
  leaves a part of the vector blank (`wukong_util.h:404`).
* A swipe with `-f` calls `srand(time(0))`, so that one seed no longer gives one
  sequence of events (`swap_input.cpp:80`; `README.md:132`).
* The refusal of `-b`/`-p`/`-e`/`-E` by the checks of their names is dropped
  (`random_test_flow.cpp:333`, `wukong_util.cpp:323`), and a `-p` that names all
  applications leaves them all as candidates (`appswitch_input.cpp:138`). An
  option that reads the applications before a `-p` (`-E`, or another `-p`) leaves in
  the valid list what that `-p` prohibits: steps are spent on launches that the
  controller refuses (`ProhibitedLaunchExplained` names the cases).
* `-U` with `-x` starts whatever the system finds for the URI and its type, also
  with `-b` (`app_manager.cpp:109`); only the block list is asked. With `-b` and
  `-e`, only the first application of `-b` is launched again, with abilities that
  may be of another one (`app_manager.cpp:134`, `random_test_flow.cpp:558`).
* A negative share in `-f` or `-D` is taken when the sum is 1; the others may then
  exceed the vector, and `ParseMapToVector` writes behind it (`wukong_util.h:473`).
* A percentage may lose one hundredth in the conversion, and one given as 0
  counts as not given (`random_test_flow.cpp:246`).
* After a first page that could not be read, an ability has 0 components and
  0 inputs and counts as finished; its pages then go unheld and may be made
  again and again.
* Back on a page above, `isBack_` and, if that page has not had an input, the
  selected component are those of the page below (`scene_delegate.cpp:296`).

## Not modelled

* Of the report: the table of abilities, the copies of hilog files, the paths of
  screenshots, and the file of system events (`ExceptionManager`), whose listener
  belongs to a service outside this repository.
* Of record and replay: how a line is parsed, and files that were not written by
  a recording.
* The abilities named by `-e` and `-E`, and which ability of an application starts.
* The other inputs and gestures: straight sequences of events without state.
* Screenshots, directories, shell commands, help and version: input and output.
* What the service does with the callback of a `Connect` that timed out: the
  latch it refers to is gone, so the behaviour is undefined.

## Hazards without a property

`hazards` lists these with an empty list of properties; the models contain them,
as behaviour that the properties except, because no document says what should
happen instead:

* a permission dialog reported while another one is handled is forgotten;
* after a first page that could not be read (`missed`) the pages go below no
  ability or another one, and an ability with no component counts as finished;
* two applications that open one another are tested for ever (`Restless`), and
  `focus` does not leave a page with components behind its dialog;
* a failing pointer event leaves the finger on the screen (`failed`);
* a recording waits for its user, whatever `-T` and `-c` say (`UserAwaited`), and
  its pauses are anything after the clock was set;
* undefined behaviour: shares that exceed the vector; and, not in any model, the
  callback of a `Connect` that has timed out.

## Plan

1. `ElementInputs` as the steps of `RandomTestFlow` and `FocusTestFlow`: how many
   inputs a counted run gives to components.
