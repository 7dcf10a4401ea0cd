---------------------------- MODULE WuKongLogger ----------------------------
(***************************************************************************)
(* The asynchronous logger: any thread may Print, one printer thread       *)
(* writes the file.  main starts the printer and waits for it on a         *)
(* condition variable, works, and at the end stops it and joins it.        *)
(*                                                                         *)
(* cvWaitPrint_ has no predicate and printerRunning_ is a plain bool read  *)
(* and written without a lock: the tests and the waits are separate steps. *)
(***************************************************************************)
EXTENDS Integers, Sequences

CONSTANTS
  MainThread,   \* the thread that runs main
  Others,       \* the threads that also log (crash directory, system events)
  LogMax,       \* LOG_MAX_NUM
  MaxMessages   \* bound of the model: the messages of one thread

ASSUME ThreadsAssumption == MainThread \notin Others
ASSUME LogMaxAssumption == LogMax \in Nat \ {0}
ASSUME MaxMessagesAssumption == MaxMessages \in Nat

Thread == {MainThread} \cup Others
Message == Thread \X (1 .. MaxMessages)

VARIABLES
  mainPc,          \* where main is in Start and Stop
  printerPc,       \* where the printer thread is in Run
  printerRunning,  \* printerRunning_
  mtxThreadWait,   \* the thread that holds mtxThreadWait_: "none", "printer"
  queue,           \* bufferQueue_ (mtxQueue_ is held within single steps)
  tmpBuffer,       \* the printer's tmpBuffer
  opened,          \* the printer has opened wukong.log
  file,            \* the messages in it
  printing,        \* the threads past the first test of Print
  logged,          \* history: the messages each thread has tried to log
  accepted,        \* history: the messages pushed on the queue, in order
  stopMark         \* history: how many were accepted when Stop was called

loggerVars ==
  <<mainPc, printerPc, printerRunning, mtxThreadWait, queue, tmpBuffer, opened,
    file, printing, logged, accepted, stopMark>>

messages == <<queue, tmpBuffer, opened, file, printing, logged, accepted>>

LoggerInit ==
  /\ mainPc = "idle"
  /\ printerPc = "none"
  /\ printerRunning = FALSE
  /\ mtxThreadWait = "none"
  /\ queue = <<>> /\ tmpBuffer = <<>> /\ file = <<>>
  /\ opened = FALSE
  /\ printing = {}
  /\ logged = [t \in Thread |-> 0]
  /\ accepted = <<>>
  /\ stopMark = 0

(* notify_all on cvWaitPrint_: who waits has to take the mutex again.      *)
NotifyMain == mainPc' = IF mainPc = "waiting" THEN "woken" ELSE mainPc
NotifyPrinter ==
  printerPc' = IF printerPc = "waiting" THEN "woken" ELSE printerPc

-----------------------------------------------------------------------------
(* Start.                                                                  *)

StartPrinter ==
  /\ mainPc = "idle"
  /\ printerRunning' = TRUE
  /\ printerPc' = "begin"
  /\ mainPc' = "lock"
  /\ UNCHANGED <<mtxThreadWait, messages, stopMark>>

(* The mutex is taken, and given back by the wait.                         *)
StartWait ==
  /\ mainPc = "lock"
  /\ mtxThreadWait = "none"
  /\ mainPc' = "waiting"
  /\ UNCHANGED <<printerPc, printerRunning, mtxThreadWait, messages, stopMark>>

StartReturn ==
  /\ mainPc = "woken"
  /\ mtxThreadWait = "none"
  /\ mainPc' = "running"
  /\ UNCHANGED <<printerPc, printerRunning, mtxThreadWait, messages, stopMark>>

(* A wait may also end without a notification.                             *)
SpuriousWakeup ==
  /\ mainPc = "waiting"
  /\ mainPc' = "woken"
  /\ UNCHANGED <<printerPc, printerRunning, mtxThreadWait, messages, stopMark>>

-----------------------------------------------------------------------------
(* Print, called by main while it works and by the others at any time from *)
(* then on.                                                                *)

TestRunning(t) ==
  /\ t = MainThread => mainPc = "running"
  /\ mainPc \notin {"idle", "lock", "waiting", "woken"}
  /\ t \notin printing
  /\ logged[t] < MaxMessages
  /\ logged' = [logged EXCEPT ![t] = @ + 1]
  /\ printing' = IF printerRunning THEN printing \cup {t} ELSE printing
  /\ UNCHANGED <<mainPc, printerPc, printerRunning, mtxThreadWait, queue,
                 tmpBuffer, opened, file, accepted, stopMark>>

(* Faulty: the limit of the queue is off by one.                           *)
EnqueueOneMore(m) ==
  IF Len(queue) <= LogMax
  THEN /\ queue' = Append(queue, m)
       /\ accepted' = Append(accepted, m)
  ELSE UNCHANGED <<queue, accepted>>

(* The message is dropped when the queue is full.                          *)
Enqueue(m) ==
  IF Len(queue) < LogMax
  THEN /\ queue' = Append(queue, m)
       /\ accepted' = Append(accepted, m)
  ELSE UNCHANGED <<queue, accepted>>

(* The printer is notified, whether or not the message was dropped.        *)
Push(t) ==
  /\ t \in printing
  /\ printing' = printing \ {t}
  /\ Enqueue(<<t, logged[t]>>)
  /\ NotifyPrinter
  /\ UNCHANGED <<mainPc, printerRunning, mtxThreadWait, tmpBuffer, opened,
                 file, logged, stopMark>>

-----------------------------------------------------------------------------
(* Stop.  A printer that has returned already is not joined.               *)

StopPrinter ==
  /\ mainPc = "running"
  /\ MainThread \notin printing
  /\ IF printerRunning /\ printerPc # "exited"
     THEN printerRunning' = FALSE /\ mainPc' = "notify"
     ELSE UNCHANGED printerRunning /\ mainPc' = "done"
  /\ stopMark' = Len(accepted)
  /\ UNCHANGED <<printerPc, mtxThreadWait, messages>>

StopNotify ==
  /\ mainPc = "notify"
  /\ NotifyPrinter
  /\ mainPc' = "join"
  /\ UNCHANGED <<printerRunning, mtxThreadWait, messages, stopMark>>

StopJoin ==
  /\ mainPc = "join"
  /\ printerPc = "exited"
  /\ mainPc' = "done"
  /\ UNCHANGED <<printerPc, printerRunning, mtxThreadWait, messages, stopMark>>

-----------------------------------------------------------------------------
(* PrinterThread::Run.                                                     *)

PrinterBegin ==
  /\ printerPc = "begin"
  /\ printerPc' = IF printerRunning THEN "lock" ELSE "exited"
  /\ IF printerRunning THEN NotifyMain ELSE UNCHANGED mainPc
  /\ UNCHANGED <<printerRunning, mtxThreadWait, messages, stopMark>>

PrinterLock ==
  /\ printerPc = "lock"
  /\ mtxThreadWait = "none"
  /\ mtxThreadWait' = "printer"
  /\ printerPc' = "open"
  /\ UNCHANGED <<mainPc, printerRunning, messages, stopMark>>

(* The file may not open; then Run returns, which releases the mutex.      *)
PrinterOpen ==
  /\ printerPc = "open"
  /\ \/ printerPc' = "loop" /\ opened' = TRUE /\ UNCHANGED mtxThreadWait
     \/ printerPc' = "exited" /\ mtxThreadWait' = "none" /\ UNCHANGED opened
  /\ UNCHANGED <<mainPc, printerRunning, queue, tmpBuffer, file, printing,
                 logged, accepted, stopMark>>

PrinterTest ==
  /\ printerPc = "loop"
  /\ printerPc' = IF printerRunning THEN "wait" ELSE "take"
  /\ UNCHANGED <<mainPc, printerRunning, mtxThreadWait, messages, stopMark>>

PrinterWait ==
  /\ printerPc = "wait"
  /\ printerPc' = "waiting"
  /\ mtxThreadWait' = "none"
  /\ UNCHANGED <<mainPc, printerRunning, messages, stopMark>>

(* Faulty: a wait without a timeout.                                       *)
PrinterWaitsForever == FALSE

(* wait_for returns after LOG_PRINTER_TIMEOUT at the latest.               *)
PrinterTimeout ==
  /\ printerPc = "waiting"
  /\ printerPc' = "woken"
  /\ UNCHANGED <<mainPc, printerRunning, mtxThreadWait, messages, stopMark>>

PrinterRelock ==
  /\ printerPc = "woken"
  /\ mtxThreadWait = "none"
  /\ mtxThreadWait' = "printer"
  /\ printerPc' = "take"
  /\ UNCHANGED <<mainPc, printerRunning, messages, stopMark>>

(* Faulty: the loop ends as soon as Stop was called.                       *)
LoopEndsAtOnce == ~printerRunning

(* The loop ends only with an empty queue.                                 *)
LoopEnds == queue = <<>> /\ ~printerRunning

(* Faulty: the rest of the queue is cleared with what was taken.           *)
TakeAndClear ==
  LET n == IF Len(queue) > LogMax - 1 THEN LogMax - 1 ELSE Len(queue)
  IN  /\ tmpBuffer' = tmpBuffer \o SubSeq(queue, 1, n)
      /\ queue' = <<>>

(* The whole queue is taken, but at most LogMax + 1 messages.              *)
TakeQueue ==
  LET n == IF Len(queue) > LogMax + 1 THEN LogMax + 1 ELSE Len(queue)
  IN  /\ tmpBuffer' = tmpBuffer \o SubSeq(queue, 1, n)
      /\ queue' = SubSeq(queue, n + 1, Len(queue))

(* Under mtxQueue_.                                                        *)
PrinterTake ==
  /\ printerPc = "take"
  /\ IF LoopEnds
     THEN /\ printerPc' = "exited"
          /\ mtxThreadWait' = "none"
          /\ UNCHANGED <<queue, tmpBuffer>>
     ELSE /\ TakeQueue
          /\ printerPc' = "write"
          /\ UNCHANGED mtxThreadWait
  /\ UNCHANGED <<mainPc, printerRunning, opened, file, printing, logged,
                 accepted, stopMark>>

PrinterWrite ==
  /\ printerPc = "write"
  /\ IF tmpBuffer = <<>>
     THEN printerPc' = "loop" /\ UNCHANGED <<tmpBuffer, file>>
     ELSE /\ file' = Append(file, Head(tmpBuffer))
          /\ tmpBuffer' = Tail(tmpBuffer)
          /\ UNCHANGED printerPc
  /\ UNCHANGED <<mainPc, printerRunning, mtxThreadWait, queue, opened,
                 printing, logged, accepted, stopMark>>

-----------------------------------------------------------------------------

MainStep ==
  \/ StartPrinter
  \/ StartWait
  \/ StartReturn
  \/ StopPrinter
  \/ StopNotify
  \/ StopJoin

PrinterStep ==
  \/ PrinterBegin
  \/ PrinterLock
  \/ PrinterOpen
  \/ PrinterTest
  \/ PrinterWait
  \/ PrinterTimeout
  \/ PrinterRelock
  \/ PrinterTake
  \/ PrinterWrite

LoggerNext ==
  \/ MainStep
  \/ PrinterStep
  \/ SpuriousWakeup
  \/ \E t \in Thread : TestRunning(t) \/ Push(t)

LoggerSpec == LoggerInit /\ [][LoggerNext]_loggerVars

(* Every thread is scheduled, the timeout of the printer's wait comes, and *)
(* main is not kept from a mutex that is free again and again.  A wait     *)
(* without a timeout need not end of itself.                               *)
LoggerFairSpec ==
  /\ LoggerSpec
  /\ WF_loggerVars(MainStep)
  /\ SF_loggerVars(StartWait)
  /\ SF_loggerVars(StartReturn)
  /\ WF_loggerVars(PrinterStep)
  /\ \A t \in Thread : WF_loggerVars(Push(t))

-----------------------------------------------------------------------------

(* Neither buffer outgrows LOG_MAX_NUM, so the printer's own limit (the    *)
(* break at tmpBuffer.size() > LOG_MAX_NUM) is never met.                  *)
LoggerTypeOK ==
  /\ mainPc \in {"idle", "lock", "waiting", "woken", "running", "notify",
                 "join", "done"}
  /\ printerPc \in {"none", "begin", "lock", "open", "loop", "wait",
                    "waiting", "woken", "take", "write", "exited"}
  /\ printerRunning \in BOOLEAN
  /\ mtxThreadWait \in {"none", "printer"}
  /\ queue \in Seq(Message) /\ Len(queue) <= LogMax
  /\ tmpBuffer \in Seq(Message) /\ Len(tmpBuffer) <= LogMax
  /\ file \in Seq(Message)
  /\ opened \in BOOLEAN
  /\ printing \subseteq Thread
  /\ logged \in [Thread -> 0 .. MaxMessages]
  /\ accepted \in Seq(Message)
  /\ stopMark \in Nat

(* Nothing that was accepted is lost, doubled or reordered on its way      *)
(* through the two buffers: Print and PrinterThread::Run.                  *)
NothingLost == file \o tmpBuffer \o queue = accepted

(* When Stop has joined a printer that opened its file, every message      *)
(* accepted before Stop was called is in it: the drain of Run's loop.      *)
DrainedAtStop == mainPc = "done" /\ opened => Len(file) >= stopMark

(* Stop returns, although its notification may come before the printer     *)
(* waits: the wait has a timeout.                                          *)
StopReturns == (mainPc \in {"notify", "join"}) ~> (mainPc = "done")

(* "wait print thread started": Start returns once the printer runs.       *)
StartReturns == (mainPc = "lock") ~> (mainPc = "running")

=============================================================================
