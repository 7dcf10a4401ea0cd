------------------------------ MODULE Programs ------------------------------
(***************************************************************************)
(* The wukong programs that are started on one device: which of them may   *)
(* execute its command (EXTENDS InstanceGuard), and what it then does to   *)
(* what the programs have in common, the display and the file of a         *)
(* recording: the random touches of "exec" (Touch), a recording or a       *)
(* replay of "special" (Record).                                           *)
(*                                                                         *)
(* At most one program executes a command (OneProgramRuns): the memory of  *)
(* one is enough.  It is new in each program, whatever the program before  *)
(* did and wherever it was killed.                                         *)
(***************************************************************************)
EXTENDS InstanceGuard, Device

CONSTANTS OperationInterval, MaxEvents  \* of RecordInput

VARIABLES
  command,  \* of the program that executes one: "exec", "record" or
            \* "replay", and "none" while there is no such program
  touchPc, display, screen, screenRead, blockRect, touch,
  finger,   \* of TouchInput
  turned,   \* history: the display was turned since its size was read
  recordPc, file, line, event, started, age, replayFinger, quiet, clockSet,
  accepted, pressed  \* of RecordInput

guardVars == <<pc, examined, seen>>
touchVars == <<touchPc, screen, screenRead, blockRect, touch, finger, turned>>
recordVars == <<recordPc, file, line, event, started, age, replayFinger,
                quiet, clockSet, accepted, pressed>>
programsVars == <<guardVars, command, display, touchVars, recordVars>>

Touch == INSTANCE TouchInput WITH pc <- touchPc
Record == INSTANCE RecordInput
            WITH pc <- recordPc, finger <- replayFinger,
                 recordStatus <- (command = "record")

Executing == \E p \in Process : pc[p] = "executing"

-----------------------------------------------------------------------------

ProgramsInit ==
  /\ Init
  /\ command = "none"
  /\ Touch!Init /\ blockRect = <<>> /\ turned = FALSE
  /\ Record!Init

(* A program starts, looks for others, is refused, or leaves without       *)
(* having executed anything.                                               *)
Guard(p) ==
  /\ \/ Start(p)
     \/ Popen(p)
     \/ \E q \in Process : Examine(p, q)
     \/ Decide(p) /\ pc'[p] # "executing"
     \/ pc[p] # "executing" /\ Exit(p)
  /\ UNCHANGED <<command, display, touchVars, recordVars>>

(* RunTestCommand, with -X or without.                                     *)
Begin(p) ==
  /\ Decide(p) /\ pc'[p] = "executing"
  /\ \/ command' = "exec"
     \/ command' \in {"record", "replay"} /\ blockRect' = <<>>
  /\ Touch!Restart /\ UNCHANGED turned
  /\ Record!Restart

(* The program ends, or is killed at any point of what it does, and leaves *)
(* nothing in memory.                                                      *)
End(p) ==
  /\ pc[p] = "executing" /\ Exit(p)
  /\ command' = "none"
  /\ Touch!Restart /\ blockRect' = <<>> /\ turned' = FALSE
  /\ Record!Restart

(* One of the events of "exec", or a turn of the display by hand.          *)
Rotate ==
  /\ Touch!Rotate
  /\ turned' = (screenRead /\ ~turned)
  /\ UNCHANGED <<guardVars, command, recordVars>>

RandomTouch ==
  /\ command = "exec"
  /\ \/ Touch!GetScreenSize
     \/ Touch!ChoosePoint
     \/ Touch!PointerDown
     \/ Touch!PointerUp
  /\ UNCHANGED <<guardVars, command, turned, recordVars>>

RecordOrReplay ==
  /\ command \in {"record", "replay"}
  /\ UNCHANGED <<guardVars, command, display, touchVars>>
  /\ Record!Next

ProgramsNext ==
  \/ \E p \in Process : Guard(p) \/ Begin(p) \/ End(p)
  \/ Rotate
  \/ RandomTouch
  \/ RecordOrReplay

ProgramsSpec == ProgramsInit /\ [][ProgramsNext]_programsVars

-----------------------------------------------------------------------------

(* With -X no touch ever lands in the block, whatever its corners, however *)
(* the display was turned and whatever programs ran before: TouchInput and *)
(* CalcBlockAvoidPoint.                                                    *)
TouchAvoidsBlock == Touch!TouchAvoidsBlock

(* A round of touches is skipped only when the block covers the whole      *)
(* screen whose size was read: TouchInput.                                 *)
SkipsOnlyWhenCovered == Touch!SkipsOnlyWhenCovered

(* A random touch lies beyond the display only when the display was turned *)
(* since the program, not one before it, asked for its size: GetScreenSize *)
(* asks once, and keeps the answer.                                        *)
TouchBeyondExplained ==
  finger # <<>> /\ ~turned =>
    finger[1] < display.w /\ finger[2] < display.h

(* A replay makes the touches of the last recording, in order and without  *)
(* a gap, whatever other programs ran, were refused or killed in between:  *)
(* RecordInput and its file.                                               *)
ReplayIsRecorded == Record!ReplayIsRecorded

(* An event is recorded, with the time that has gone, or dropped, by the   *)
(* time that has really gone, unless the clock is set: OnInputEvent.       *)
PausesAreReal == Record!PausesAreReal

=============================================================================
