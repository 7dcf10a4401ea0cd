---------------------------- MODULE RecordInput -----------------------------
(***************************************************************************)
(* "wukong special -r name" writes the touches of the user to a CSV file,  *)
(* until Enter is pressed; "wukong special -R name" makes them again, once *)
(* in every step of the test: RecordInput's OrderInput, and the callback   *)
(* that a thread of the input service gives the events to.                 *)
(*                                                                         *)
(* The file outlives the program, which may be killed at any point; the    *)
(* rest of the state is the program's and is gone with it (Restart).       *)
(* Every line is written with endl: it reaches the file as a whole or not  *)
(* at all.                                                                 *)
(*                                                                         *)
(* A line of the file is a position; the interval written with it is age,  *)
(* and only sets how long the replay sleeps after the touch.  Times are in *)
(* units of half of OPERATIONINTERVAL, up to MaxPause.                     *)
(***************************************************************************)
EXTENDS Device, Sequences

CONSTANTS
  OperationInterval,  \* OPERATIONINTERVAL (400 ms)
  MaxEvents           \* bound: the events recorded in one file

VARIABLES
  recordStatus,  \* recordStatus_: the program records (-r), or replays (-R)
  pc,        \* the place in OrderInput; "idle" before it
  file,      \* the lines of the CSV file; <<>> when missing or empty
  line,      \* the lines that getline has read in this pass of a replay
  event,     \* the position the callback has in its hands, <<>> if none
  started,   \* g_timeTemp is not -1
  age,       \* the clock of now less g_timeTemp, as an int
  finger,    \* where the finger of the replay is down, <<>> when it is up
  quiet,     \* history: the time really gone since the last recorded event
  clockSet,  \* history: the system clock was set in that time
  accepted,  \* history: the positions recorded since the file was emptied
  pressed    \* history: the positions touched in this pass

csv == <<file, accepted>>
clock == <<started, age, quiet, clockSet>>
touched == <<finger, pressed>>
vars == <<recordStatus, pc, csv, line, event, clock, touched>>

EventHead == <<>>  \* x,y,interval

(* What a program has that has just started.                               *)
Fresh ==
  /\ pc = "idle"
  /\ line = 0
  /\ event = <<>>
  /\ started = FALSE /\ age = 0 /\ quiet = 0 /\ clockSet = FALSE
  /\ finger = <<>> /\ pressed = <<>>

Init ==
  /\ recordStatus \in BOOLEAN
  /\ file = <<>> /\ accepted = <<>>
  /\ Fresh

(* The program has ended, or was killed, and another one starts.           *)
Restart ==
  /\ recordStatus' \in BOOLEAN
  /\ pc' = "idle"
  /\ line' = 0
  /\ event' = <<>>
  /\ started' = FALSE /\ age' = 0 /\ quiet' = 0 /\ clockSet' = FALSE
  /\ finger' = <<>> /\ pressed' = <<>>
  /\ UNCHANGED csv

-----------------------------------------------------------------------------
(* Recording: the main thread.                                             *)

(* InitEventRecordFile; without its folder, or when it cannot be opened,   *)
(* the file stays what it was, and the recording is over.                  *)
OpenFile ==
  /\ recordStatus
  /\ pc = "idle"
  /\ \/ file' = <<>> /\ accepted' = <<>> /\ pc' = "head"
     \/ UNCHANGED csv /\ pc' = "over"
  /\ UNCHANGED <<recordStatus, line, event, clock, touched>>

WriteEventHead ==
  /\ pc = "head"
  /\ file' = Append(file, EventHead)
  /\ pc' = "monitor"
  /\ UNCHANGED <<recordStatus, line, event, clock, touched, accepted>>

(* The callback may come as soon as the service has it.                    *)
AddMonitor ==
  /\ pc = "monitor"
  /\ pc' \in {"getc", "over"}
  /\ UNCHANGED <<recordStatus, csv, line, event, clock, touched>>

(* Enter.  The monitor is never removed: what is touched until the process *)
(* has ended is recorded too.                                              *)
Getc ==
  /\ pc = "getc"
  /\ pc' = "finished"
  /\ UNCHANGED <<recordStatus, csv, line, event, clock, touched>>

-----------------------------------------------------------------------------
(* Recording: the events, the time and the clock.                          *)

Monitored == pc \in {"getc", "finished"}

EventArrives ==
  /\ Monitored
  /\ event = <<>>
  /\ Len(accepted) < MaxEvents
  /\ event' \in Positions
  /\ UNCHANGED <<recordStatus, pc, csv, line, clock, touched>>

(* WriteEventData.                                                         *)
WriteEventData ==
  /\ file' = Append(file, event)
  /\ accepted' = Append(accepted, event)

(* Faulty: the time of an event that is dropped is kept as well.           *)
OnInputEventKeepsTime ==
  /\ event # <<>>
  /\ IF started /\ age < OperationInterval
     THEN UNCHANGED <<csv, quiet, clockSet>>
     ELSE WriteEventData /\ quiet' = 0 /\ clockSet' = FALSE
  /\ started' = TRUE
  /\ age' = 0
  /\ event' = <<>>
  /\ UNCHANGED <<recordStatus, pc, line, touched>>

(* An event that follows too soon, by the clock, leaves nothing behind.    *)
OnInputEvent ==
  /\ event # <<>>
  /\ IF started /\ age < OperationInterval
     THEN UNCHANGED <<csv, clock>>
     ELSE /\ WriteEventData
          /\ started' = TRUE
          /\ age' = 0 /\ quiet' = 0 /\ clockSet' = FALSE
  /\ event' = <<>>
  /\ UNCHANGED <<recordStatus, pc, line, touched>>

TimePasses ==
  /\ started
  /\ quiet < MaxPause
  /\ quiet' = quiet + 1
  /\ age' = age + 1
  /\ UNCHANGED <<recordStatus, pc, csv, line, event, started, clockSet,
                 touched>>

(* GetMillisTime reads the system clock, which may be set.  The difference *)
(* is cut to 32 bits: it may then be anything, whichever way it was set.   *)
SetClock ==
  /\ started
  /\ age' \in -MaxPause .. MaxPause
  /\ clockSet' = TRUE
  /\ UNCHANGED <<recordStatus, pc, csv, line, event, started, quiet, touched>>

-----------------------------------------------------------------------------
(* Replay.                                                                 *)

OpenReplay ==
  /\ ~recordStatus
  /\ pc \in {"idle", "passed", "failed"}
  /\ pc' = "read"
  /\ line' = 0
  /\ pressed' = <<>>
  /\ UNCHANGED <<recordStatus, csv, event, clock, finger>>

(* getline; the first line is the head (jumpFlag).  Without a file, or a   *)
(* line in it, nothing is touched, with ERR_OK.                            *)
ReadEventLine ==
  /\ pc = "read"
  /\ IF line < Len(file)
     THEN line' = line + 1 /\ pc' = IF line = 0 THEN "read" ELSE "down"
     ELSE UNCHANGED line /\ pc' = "passed"
  /\ UNCHANGED <<recordStatus, csv, event, clock, touched>>

(* Faulty: a touch that fails is left out.                                 *)
PointerDownGoesOn ==
  /\ pc = "down"
  /\ \/ finger' = file[line] /\ pressed' = Append(pressed, file[line])
        /\ pc' = "up"
     \/ UNCHANGED touched /\ pc' = "read"
  /\ UNCHANGED <<recordStatus, csv, line, event, clock>>

(* When the touch fails, the pass is over.                                 *)
PointerDown ==
  /\ pc = "down"
  /\ \/ /\ finger' = file[line]
        /\ pressed' = Append(pressed, file[line])
        /\ pc' = "up"
     \/ UNCHANGED touched /\ pc' = "failed"
  /\ UNCHANGED <<recordStatus, csv, line, event, clock>>

(* What lifting the finger answers is lost, unless this is the last line.  *)
PointerUp ==
  /\ pc = "up"
  /\ finger' \in {<<>>, finger}
  /\ pc' = "read"
  /\ UNCHANGED <<recordStatus, csv, line, event, clock, pressed>>

-----------------------------------------------------------------------------

Next ==
  \/ OpenFile
  \/ WriteEventHead
  \/ AddMonitor
  \/ Getc
  \/ EventArrives
  \/ OnInputEvent
  \/ TimePasses
  \/ SetClock
  \/ OpenReplay
  \/ ReadEventLine
  \/ PointerDown
  \/ PointerUp

Spec == Init /\ [][Next \/ Restart]_vars

-----------------------------------------------------------------------------

TypeOK ==
  /\ recordStatus \in BOOLEAN
  /\ pc \in {"idle", "head", "monitor", "getc", "finished", "over",
            "read", "down", "up", "passed", "failed"}
  /\ file \in Seq(Positions \cup {EventHead})
  /\ line \in Nat
  /\ event \in Positions \cup {<<>>}
  /\ started \in BOOLEAN
  /\ age \in Int
  /\ finger \in Positions \cup {<<>>}
  /\ quiet \in Nat
  /\ clockSet \in BOOLEAN
  /\ accepted \in Seq(Positions)
  /\ pressed \in Seq(Positions)

(* A pass of a replay makes the touches of the last recording, all of them *)
(* or, when one fails or the program is killed, the first ones, without a  *)
(* gap and in their order, even when the recording was cut off by a kill.  *)
ReplayIsRecorded ==
  /\ Len(pressed) <= Len(accepted)
  /\ \A k \in 1 .. Len(pressed) : pressed[k] = accepted[k]
  /\ pc = "passed" => pressed = accepted

(* An event is dropped exactly when less than OPERATIONINTERVAL has really *)
(* gone since the last one recorded, and is recorded with the time that    *)
(* really has, as long as the system clock is not set: g_timeTemp.         *)
PausesAreReal ==
  [][/\ event # <<>> /\ event' = <<>> /\ pc' = pc
     /\ started /\ ~clockSet
     => IF quiet < OperationInterval
        THEN accepted' = accepted
        ELSE accepted' = Append(accepted, event) /\ age = quiet]_vars

=============================================================================
