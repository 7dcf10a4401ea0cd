----------------------------- MODULE BoundedRun -----------------------------
(***************************************************************************)
(* What one test run promises, whatever its command (exec, focus or        *)
(* special): a run started with -c n makes n steps, a run started with -T  *)
(* makes at most one step after its timer has fired, and the report is     *)
(* saved exactly once, after the last step.  The three flows of test_flow/ *)
(* are shown to implement it.                                              *)
(***************************************************************************)
EXTENDS Integers

VARIABLES
  counted,  \* was the run started with -c ?
  timed,    \* was the run started with -T ?
  limit,    \* the argument of -c
  ownEnd,   \* may the test end of itself ?
  steps,    \* the steps of a counted run
  late,     \* the steps begun after the timer had fired
  phase,    \* where the run is
  saves     \* how many times the report was saved

vars == <<counted, timed, limit, ownEnd, steps, late, phase, saves>>

options == <<counted, timed, limit, ownEnd>>

(* running: steps may start.  expired: the timer has fired, the step that  *)
(* was already let through may still start.  closing: no step may start;   *)
(* one that did after the timer would change late, which no action allows. *)
(* The steps of a run that nobody counts are not told apart before that.   *)
Init ==
  /\ counted \in BOOLEAN
  /\ timed \in BOOLEAN
  /\ ~(counted /\ timed)
  /\ limit \in Int
  /\ ownEnd \in BOOLEAN
  /\ steps = 0
  /\ late = 0
  /\ phase = "running"
  /\ saves = 0

-----------------------------------------------------------------------------

Step ==
  /\ phase = "running"
  /\ counted
  /\ steps < limit
  /\ steps' = steps + 1
  /\ UNCHANGED <<options, late, phase, saves>>

(* The budget of -c is used up, or a special test met its own end.         *)
Complete ==
  /\ phase = "running"
  /\ (counted /\ steps >= limit) \/ ownEnd
  /\ phase' = "closing"
  /\ UNCHANGED <<options, steps, late, saves>>

Expire ==
  /\ phase = "running"
  /\ timed
  /\ phase' = "expired"
  /\ UNCHANGED <<options, steps, late, saves>>

LateStep ==
  /\ phase = "expired"
  /\ late' = late + 1
  /\ phase' = "closing"
  /\ UNCHANGED <<options, steps, saves>>

Save ==
  /\ phase \in {"expired", "closing"}
  /\ saves' = saves + 1
  /\ phase' = "over"
  /\ UNCHANGED <<options, steps, late>>

(* The accessibility service cannot be reached: no step, but a report.     *)
Abort ==
  /\ phase \in {"running", "expired"}
  /\ steps = 0
  /\ saves' = saves + 1
  /\ phase' = "over"
  /\ UNCHANGED <<options, steps, late>>

-----------------------------------------------------------------------------

Next ==
  \/ Step
  \/ Complete
  \/ Expire
  \/ LateStep
  \/ Save
  \/ Abort

Spec == Init /\ [][Next]_vars

=============================================================================
