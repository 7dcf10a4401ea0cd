------------------------- MODULE RandomTestOptions --------------------------
(***************************************************************************)
(* The options of "wukong exec" and what RandomTestFlow::EnvInit makes of  *)
(* the percentages: the list of events a step draws from.                  *)
(*                                                                         *)
(* The list is modelled by how often each event is in it (RandomShuffle    *)
(* only permutes it).  Percentages are whole hundredths.                   *)
(***************************************************************************)
EXTENDS CommandLine, ShareMaps

CONSTANTS
  PercentOptions,  \* the event types whose percentage may be given
  Percents,        \* the percentages that may be given
  FingerArguments, \* the arguments of -f, as in ShareMaps
  DirectionArguments,  \* those of -D, for directions as below
  Wearable         \* is the device a watch ?

ASSUME PercentsAssumption == Percents \subseteq 0 .. 100
ASSUME SharesAssumption ==
  FingerArguments \cup DirectionArguments \subseteq Seq(Int \X Int)

DefaultInputPercent ==
  [touch |-> 10, swap |-> 3, mouse |-> 1, keyboard |-> 2, element |-> 70,
   appswitch |-> 10, hardkey |-> 2, rotate |-> 2, knuckle |-> 0, pinch |-> 0,
   crown |-> 0, gestures |-> 0, idle |-> 0, keypress |-> 0, float |-> 0,
   collapse |-> 0, browser |-> 0]

InputType == DOMAIN DefaultInputPercent

(* d, l, r and u, in the order of their characters.                        *)
Directions == 1 .. 4

OnlyWatchSupport == {"crown", "gestures", "idle", "keypress"}

VARIABLES
  inputPercent,  \* inputPercent_
  eventCount,    \* eventList_, as a bag
  requested,     \* history: the percentage given last for a type, -1 if none
  fingers,       \* fingerArgMap_ of -f, with fingerVector_
  directions     \* directionMap_ of -D, with directionVector_

shareVars == <<fingers, directions>>
percentVars == <<inputPercent, eventCount, requested, shareVars>>

PercentInit ==
  /\ inputPercent = [t \in InputType |-> 0]
  /\ eventCount = [t \in InputType |-> 0]
  /\ requested = [t \in InputType |-> -1]
  /\ fingers = NoShares /\ directions = NoShares

-----------------------------------------------------------------------------
(* Options.                                                                *)

(* The percentage of a type is cut like a share.                           *)
SetPercent(t, p) ==
  /\ inputPercent' = [inputPercent EXCEPT ![t] = ToPercent(p)]
  /\ requested' = [requested EXCEPT ![t] = p]
  /\ UNCHANGED <<eventCount, shareVars>>

(* -r 1 is taken for a run whose application is already started.           *)
SetInputPercent(t, p) ==
  IF t \in OnlyWatchSupport /\ ~Wearable
  THEN RefusedOption /\ UNCHANGED percentVars
  ELSE /\ Option(TRUE)
       /\ SetPercent(t, p)
       /\ flags' = flags
                     \cup {f \in {"knuckle", "swap"} : f = t}
                     \cup {f \in {"isAppStarted"} : t = "rotate" /\ p = 100}

SetCount == SetFlag("count", "time" \notin flags)

(* Faulty: -T does not look for -c.                                        *)
SetTimeAnyway == SetFlag("time", TRUE)

SetTime == SetFlag("time", "count" \notin flags)

(* -f; the last one counts.  One that its vector does not hold may end the *)
(* program.                                                                *)
SetFinger(argument) ==
  LET map == ConvertStringToMap(argument)
      valid == flags \cap {"knuckle", "swap"} # {} /\ map # NoShares
  IN  \E survived \in Survived(map) :
        /\ Option(valid /\ survived)
        /\ fingers' = IF valid /\ survived THEN map ELSE fingers
        /\ UNCHANGED <<flags, inputPercent, eventCount, requested, directions>>

SetDirection(argument) ==
  LET map == ConvertStringToMap(argument)
      valid == "swap" \in flags /\ map # NoShares
  IN  \E survived \in Survived(map) :
        /\ Option(valid /\ survived)
        /\ directions' = IF valid /\ survived THEN map ELSE directions
        /\ UNCHANGED <<flags, inputPercent, eventCount, requested, fingers>>

SetPause == SetFlag("pause", "swap" \in flags)

(* -U and -x: that they are empty is logged.                               *)
SetUri == SetFlag("uri", TRUE)
SetUriType == SetFlag("uriType", TRUE)

SetAllowBundle == SetFlag("allowBundle", TRUE)

(* The code has no flag for -p: history.                                   *)
SetProhibit == SetFlag("prohibit", TRUE)

(* What SetAllowAbilityList and CheckArgumentOptionOfe answer is dropped   *)
(* by SetBlackWhiteSheet; the flag is not set when the list was refused.   *)
SetAllowAbility == SetFlag("allowAbility", TRUE) \/ IgnoredOption

SetBlockAbility == SetFlag("blockAbility", TRUE) \/ IgnoredOption

SetBlockRect == SetFlag("blockRect", TRUE)

(* The options that leave the lists of applications alone; nothing else    *)
(* depends on -i, -s, -d, -Y, -y and -I.                                   *)
PlainOption ==
  \/ \E t \in PercentOptions, p \in Percents : SetInputPercent(t, p)
  \/ \E argument \in FingerArguments : SetFinger(argument)
  \/ \E argument \in DirectionArguments : SetDirection(argument)
  \/ /\ \/ SetCount
        \/ SetTime
        \/ SetPause
        \/ SetBlockRect
        \/ SetUri
        \/ SetUriType
        \/ IgnoredOption
        \/ RefusedOption
     /\ UNCHANGED percentVars

-----------------------------------------------------------------------------
(* EnvInit.                                                                *)

(* Left * d / s in single precision, cut to an integer.  Where the exact   *)
(* quotient is an integer, the product is below it in these cases.         *)
BelowExact ==
  {<<95, 3, 19>>, <<69, 10, 23>>, <<81, 10, 27>>, <<74, 3, 74>>,
   <<79, 3, 79>>, <<41, 2, 82>>, <<82, 2, 82>>, <<83, 1, 83>>, <<83, 2, 83>>,
   <<47, 2, 94>>, <<94, 1, 94>>, <<94, 2, 94>>, <<97, 1, 97>>, <<97, 2, 97>>}

Share(left, d, s) ==
  ((left * d) \div s) - (IF <<left, d, s>> \in BelowExact THEN 1 ELSE 0)

(* Faulty: every default goes on counting.                                 *)
AllDefaults(percent) == DefaultInputPercent

(* The default of a type that was given a percentage no longer counts.     *)
LastDefault(percent) ==
  [t \in InputType |-> IF percent[t] > 0 THEN 0 ELSE DefaultInputPercent[t]]

(* Faulty: the list stays shorter than what is drawn from it.              *)
LeaveRest(count) == count

(* What the divisions leave over is touches.                               *)
FillWithTouches(count) ==
  [count EXCEPT !["touch"] = @ + Max({0, 100 - Total(count)})]

(* The rest of the 100 events is divided by the defaults that count.       *)
EventCounts(percent) ==
  LET lastDefault == LastDefault(percent)
      sumLastDefault == Total(lastDefault)
      lastPercent == 100 - Total(percent)
      count == [t \in InputType |->
                  percent[t] + IF lastDefault[t] > 0
                               THEN Share(lastPercent, lastDefault[t],
                                          sumLastDefault)
                               ELSE 0]
  IN  FillWithTouches(count)

(* -X needs -t, whichever comes first; the percentages may not exceed 1.   *)
EnvInit ==
  LET accepted == /\ "blockRect" \in flags => inputPercent["touch"] > 0
                  /\ Total(inputPercent) <= 100
  IN  /\ EnvReady(accepted)
      /\ eventCount' = IF accepted THEN EventCounts(inputPercent)
                                   ELSE eventCount
      /\ UNCHANGED <<inputPercent, requested, shareVars>>

-----------------------------------------------------------------------------

(* A percentage that was given (0 counts as not given) is kept, or becomes *)
(* one less in the conversion; the touches may only be more than that:     *)
(* SetInputPercent and InitEventPercent.  So are the shares of the numbers *)
(* of fingers and of the directions that the vector has room for:          *)
(* ParseMapToVector.                                                       *)
GivenPercentKept ==
  pc = "ready" =>
    /\ \A t \in InputType :
         requested[t] > 0 =>
           /\ eventCount[t] >= requested[t] - 1
           /\ t # "touch" => eventCount[t] <= requested[t]
    /\ SharesKept(fingers) /\ SharesKept(directions)

(* "wukong exec" takes fingers only with knuckles or swipes, directions    *)
(* and pauses only with swipes, and a block rectangle only with touches,   *)
(* whatever the order of the options.                                      *)
ExecOptionsConsistent ==
  /\ fingers # NoShares => flags \cap {"knuckle", "swap"} # {}
  /\ directions # NoShares \/ "pause" \in flags => "swap" \in flags
  /\ "blockRect" \in flags => inputPercent["touch"] > 0

=============================================================================
