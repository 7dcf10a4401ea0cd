--------------------------- MODULE InstanceGuard ----------------------------
(***************************************************************************)
(* main() of wukong: only one wukong may execute a command at a time.      *)
(* The named semaphore that should guard it is a stub (WukongSemaphore:    *)
(* every call succeeds, GetValue answers 0), so the guard is what          *)
(* IsRunning reads from "pidof wukong": a process goes on only when pidof  *)
(* prints exactly one pid, its own.                                        *)
(*                                                                         *)
(* pidof looks at the processes of /proc one after the other, while others *)
(* start and exit: the scan is modelled one process at a time.             *)
(***************************************************************************)
EXTENDS Naturals, FiniteSets

CONSTANT Process  \* the wukong processes that are ever started

ASSUME ProcessAssumption == IsFiniteSet(Process)

VARIABLES
  pc,        \* where main of each process is
  examined,  \* the processes its pidof has looked for
  seen       \* those it found running

vars == <<pc, examined, seen>>

Running == {"started", "scanning", "executing", "refused", "popenFailed"}

alive == {p \in Process : pc[p] \in Running}

Init ==
  /\ pc = [p \in Process |-> "idle"]
  /\ examined = [p \in Process |-> {}]
  /\ seen = [p \in Process |-> {}]

-----------------------------------------------------------------------------

(* exec, up to the call of IsRunning.                                      *)
Start(p) ==
  /\ pc[p] = "idle"
  /\ pc' = [pc EXCEPT ![p] = "started"]
  /\ UNCHANGED <<examined, seen>>

(* popen("pidof wukong"); when it fails IsRunning answers true, and the     *)
(* program is refused without having looked.                               *)
Popen(p) ==
  /\ pc[p] = "started"
  /\ \/ pc' = [pc EXCEPT ![p] = "scanning"]
     \/ pc' = [pc EXCEPT ![p] = "popenFailed"]
  /\ UNCHANGED <<examined, seen>>

(* pidof looks at the /proc entry of q, if there is one now.               *)
Examine(p, q) ==
  /\ pc[p] = "scanning"
  /\ q \notin examined[p]
  /\ examined' = [examined EXCEPT ![p] = @ \cup {q}]
  /\ seen' = [seen EXCEPT ![p] = IF q \in alive THEN @ \cup {q} ELSE @]
  /\ UNCHANGED pc

(* Faulty: one more pid than its own is let through.                       *)
DecideAllowsTwo(p) ==
  /\ pc[p] = "scanning"
  /\ examined[p] = Process
  /\ pc' = [pc EXCEPT ![p] = IF Cardinality(seen[p]) <= 2
                             THEN "executing" ELSE "refused"]
  /\ UNCHANGED <<examined, seen>>

(* Faulty: its own pid is taken for another program's.                     *)
DecideCountsItself(p) ==
  /\ pc[p] = "scanning"
  /\ examined[p] = Process
  /\ pc' = [pc EXCEPT ![p] = IF seen[p] = {} THEN "executing" ELSE "refused"]
  /\ UNCHANGED <<examined, seen>>

(* fgets and the number of pids in the line; with two or more, or without  *)
(* a line, the program says "wukong has running" and leaves.               *)
Decide(p) ==
  /\ pc[p] = "scanning"
  /\ examined[p] = Process
  /\ pc' = [pc EXCEPT ![p] = IF Cardinality(seen[p]) = 1
                             THEN "executing" ELSE "refused"]
  /\ UNCHANGED <<examined, seen>>

(* ExecCommand has returned, or the process was refused, or was killed.    *)
Exit(p) ==
  /\ pc[p] \in Running
  /\ pc' = [pc EXCEPT ![p] = "exited"]
  /\ UNCHANGED <<examined, seen>>

Next ==
  \E p \in Process :
    \/ Start(p)
    \/ Popen(p)
    \/ \E q \in Process : Examine(p, q)
    \/ Decide(p)
    \/ Exit(p)

Spec == Init /\ [][Next]_vars

-----------------------------------------------------------------------------

TypeOK ==
  /\ pc \in [Process -> Running \cup {"idle", "exited"}]
  /\ examined \in [Process -> SUBSET Process]
  /\ seen \in [Process -> SUBSET Process]

(* At most one wukong executes a command ("allow one program run"): the    *)
(* answer of IsRunning, whatever starts or exits during the scans.         *)
OneProgramRuns ==
  \A p, q \in Process :
    pc[p] = "executing" /\ pc[q] = "executing" => p = q

(* A wukong that runs alone is not refused: pidof finds its own pid, and   *)
(* no other one.                                                           *)
AloneIsNotRefused ==
  [][\A p \in Process :
       pc[p] # pc'[p] /\ pc'[p] = "refused" =>
         \E q \in Process \ {p} : pc[q] # "idle"]_vars

=============================================================================
