------------------------- MODULE SpecialTestOptions -------------------------
(***************************************************************************)
(* The options of "wukong special" and the parameters that EnvInit makes   *)
(* of them for the steps.  Of a position, only the number of its parts     *)
(* counts: that it lies on the screen is checked, and the answer dropped.  *)
(***************************************************************************)
EXTENDS CommandLine

VARIABLES
  touchParam,        \* the parts of the position of -t (0: not given)
  swapStartPoint,    \* the parts of the position of -s
  swapEndPoint,      \* the parts of the position of -e
  specialTestObject  \* the class of the parameters, "none" at first

pointVars == <<touchParam, swapStartPoint, swapEndPoint>>
specialVars == <<pointVars, specialTestObject>>

SpecialInit ==
  /\ touchParam = 0 /\ swapStartPoint = 0 /\ swapEndPoint = 0
  /\ specialTestObject = "none"

Parts == 1 .. 3

-----------------------------------------------------------------------------

SpecialSetCount == SetFlag("count", "time" \notin flags)

SpecialSetTime == SetFlag("time", "count" \notin flags)

SpecialRefusedOption == RefusedOption

(* -S, -k, -b, -p, -r, -R and -u.                                          *)
SetRunningIndicator ==
  \E f \in {"swap", "power", "goBack", "screenshot", "record", "replay",
            "uitest"} : SetFlag(f, TRUE)

(* A position of one part is read as if it had two: the program may end    *)
(* there.                                                                  *)
CheckPosition(parts) == IF parts = 1 THEN BOOLEAN ELSE {TRUE}

SetTouchParam(parts) ==
  /\ \E survived \in CheckPosition(parts) : SetFlag("touch", survived)
  /\ touchParam' = parts
  /\ UNCHANGED <<swapStartPoint, swapEndPoint>>

SetSwapPoint(parts) ==
  /\ \E survived \in CheckPosition(parts) : Option(survived)
  /\ UNCHANGED <<flags, touchParam>>
  /\ \/ swapStartPoint' = parts /\ UNCHANGED swapEndPoint
     \/ swapEndPoint' = parts /\ UNCHANGED swapStartPoint

SpecialPlainOption ==
  /\ \/ /\ \/ SpecialSetCount
           \/ SpecialSetTime
           \/ SetRunningIndicator
           \/ SpecialRefusedOption
        /\ UNCHANGED pointVars
     \/ \E parts \in Parts : SetTouchParam(parts) \/ SetSwapPoint(parts)
  /\ UNCHANGED specialTestObject

(* -C; that a name is unknown is logged.                                   *)
SetComponent == SetFlag("component", TRUE) /\ UNCHANGED specialVars

-----------------------------------------------------------------------------

FirstGiven(order) ==
  LET chosen == {i \in DOMAIN order : order[i] \in flags}
  IN  IF chosen = {} THEN "none"
      ELSE order[CHOOSE i \in chosen : \A j \in chosen : i <= j]

(* Faulty: a recording comes before the components.                        *)
RecordFirst == FirstGiven(<<"swap", "touch", "record", "component", "replay">>)

(* The parameters EnvInit makes.                                           *)
ParamClass == FirstGiven(<<"swap", "touch", "component", "record", "replay">>)

(* The input a step makes.                                                 *)
DistrbuteInputType ==
  FirstGiven(<<"touch", "swap", "power", "component", "record", "replay">>)

SpecialEnvInit ==
  LET accepted ==
        /\ ParamClass = "swap" => swapStartPoint = 2 /\ swapEndPoint = 2
        /\ ParamClass = "touch" => touchParam = 2
  IN  /\ EnvReady(accepted)
      /\ specialTestObject' = IF accepted THEN ParamClass
                                          ELSE specialTestObject
      /\ UNCHANGED pointVars

-----------------------------------------------------------------------------

(* "wukong special" swipes only between two points of two parts, and       *)
(* touches only at one: EnvInit.                                           *)
SpecialOptionsConsistent ==
  /\ "swap" \in flags => swapStartPoint = 2 /\ swapEndPoint = 2
  /\ flags \cap {"touch", "swap"} = {"touch"} => touchParam = 2

(* OrderInput casts the parameters to the class it expects.  They are of   *)
(* that class whatever input options are given together, except for -S     *)
(* with -t: EnvInit and DistrbuteInputType look at the options in orders   *)
(* of their own.                                                           *)
ParametersMatch ==
  command = "special" /\ pc = "ready" /\ ~({"swap", "touch"} \subseteq flags) =>
    DistrbuteInputType \in {"none", "power", specialTestObject}

=============================================================================
