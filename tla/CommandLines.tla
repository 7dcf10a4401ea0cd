---------------------------- MODULE CommandLines ----------------------------
(***************************************************************************)
(* The command lines of the three tests, and of "wukong exec" and "wukong  *)
(* focus" also the applications they switch to afterwards, and of the first*)
(* one the knuckles and swipes: the options of each, and the lists of      *)
(* BundleLists that some of them fill, taken together, option by option.   *)
(***************************************************************************)
EXTENDS FocusTestOptions, SpecialTestOptions, GestureInputs

CONSTANTS Installed, Unlaunched, Unknown, Defaults  \* of BundleLists

ASSUME UnknownAssumption == Unknown \cap (Installed \cup Unlaunched) = {}

VARIABLES allowList, blockList, bundleList, validBundleList, inForce, asked,
          started

listVars == <<allowList, blockList, bundleList, validBundleList, inForce,
              asked, started>>
vars == <<lineVars, percentVars, specialVars, listVars, gestureVars>>

Lists == INSTANCE BundleLists

Init == LineInit /\ PercentInit /\ SpecialInit /\ Lists!Init /\ GestureInit

-----------------------------------------------------------------------------

(* The options that name applications or abilities.  What the checks of    *)
(* the names answer is dropped by SetBlackWhiteSheet.                      *)
ListOption ==
  /\ \/ \E names \in SUBSET Lists!Bundle :
          \/ SetAllowBundle /\ Lists!SetAllowList(names)
          \/ SetProhibit /\ Lists!SetBlockList(names)
     \/ SetAllowAbility /\ Lists!SetAbilityList
     \/ SetBlockAbility /\ Lists!SetAbilityList
  /\ UNCHANGED percentVars

ExecOption ==
  /\ command = "exec"
  /\ (PlainOption /\ UNCHANGED listVars) \/ ListOption
  /\ UNCHANGED specialVars

FocusOption ==
  /\ command = "focus"
  /\ (FocusPlainOption /\ UNCHANGED listVars) \/ ListOption
  /\ UNCHANGED specialVars

SpecialOption ==
  /\ command = "special"
  /\ \/ SpecialPlainOption /\ UNCHANGED listVars
     \/ \E names \in SUBSET Lists!Bundle :
          SetComponent /\ Lists!SetComponentList(names)
  /\ UNCHANGED percentVars

EnvironmentInit ==
  /\ \/ command = "exec" /\ EnvInit /\ UNCHANGED specialVars
     \/ command = "focus" /\ FocusEnvInit /\ UNCHANGED specialVars
     \/ command = "special" /\ SpecialEnvInit /\ UNCHANGED percentVars
  /\ UNCHANGED listVars

(* The end of CheckVaildityCmd reads the applications once more.           *)
ReadApplications ==
  /\ GetAllAppInfo
  /\ IF pc' = "ready" THEN Lists!EndOfOptions ELSE UNCHANGED listVars
  /\ UNCHANGED <<percentVars, specialVars>>

(* One of the first application of -b; where -b or -e names nothing, the   *)
(* element read is not there, or the division by zero.                     *)
LaunchOfFirst ==
  \/ Lists!StartAbilityOfFirst /\ UNCHANGED pc
  \/ pc' = "rejected" /\ UNCHANGED listVars

(* How -U, with -x or else -e, changes the launches of "wukong exec".      *)
InputScene ==
  IF command = "exec" /\ "uri" \in flags
  THEN \/ /\ "uriType" \in flags
          /\ Lists!StartAbilityByUriAndType /\ UNCHANGED pc
       \/ "uriType" \notin flags /\ "allowAbility" \in flags /\ LaunchOfFirst
  ELSE Lists!RandomInput /\ UNCHANGED pc

(* With -b and -e, "wukong exec" goes back to the abilities of -e.         *)
ProtectRightAbility ==
  /\ command = "exec"
  /\ allowList # {} /\ "allowAbility" \in flags /\ "uri" \notin flags
  /\ LaunchOfFirst

SwitchApplication ==
  /\ pc = "ready"
  /\ command # "special"
  /\ InputScene \/ ProtectRightAbility
  /\ UNCHANGED <<command, given, flags, percentVars, specialVars>>

Next ==
  \/ /\ \/ ExecOption
        \/ FocusOption
        \/ SpecialOption
        \/ EndOfOptions /\ UNCHANGED <<percentVars, specialVars, listVars>>
        \/ EnvironmentInit
        \/ ReadApplications
        \/ SwitchApplication
     /\ UNCHANGED gestureVars
  \/ GestureInput /\ UNCHANGED <<specialVars, listVars>>

Spec == Init /\ [][Next]_vars

-----------------------------------------------------------------------------

(* RunStep draws eventList_.at(rand() % 100): an accepted command line     *)
(* leaves at least 100 events, whatever was given and however it was       *)
(* rounded, and "wukong exec" exactly 100.  With "wukong focus" there may  *)
(* be more, from what is read behind its table of defaults.                *)
EventListFull ==
  pc = "ready" /\ command # "special" =>
    /\ Total(eventCount) >= 100
    /\ command = "exec" => Total(eventCount) = 100

(* An accepted command line has only one of -c and -T, and what its        *)
(* options need, whatever their order.                                     *)
AcceptedIsConsistent ==
  pc = "ready" =>
    /\ ~({"count", "time"} \subseteq flags)
    /\ command = "exec" => ExecOptionsConsistent
    /\ command = "special" => SpecialOptionsConsistent

(* A step is spent on asking for a prohibited application, which the       *)
(* controller refuses, only for one of these reasons: -b names it too, the *)
(* applications have been read while it was not prohibited, or have always *)
(* been read while all of them were: GetAllAppInfo and GetAbilityIndex.    *)
ProhibitedLaunchExplained == Lists!ProhibitedLaunchExplained

(* With -b, each of its applications is found unless its name is unknown,  *)
(* and nothing else is asked for, whatever lists the options before and    *)
(* after it have filled; nor is anything else started, but for a URI and   *)
(* its type, which the system may resolve to any: SetAllowList,            *)
(* GetAbilityIndex and InputScene.                                         *)
OnlyAllowedLaunched ==
  pc = "ready" /\ allowList # {} =>
    /\ Lists!AllowedAreFound /\ Lists!OnlyAllowedAsked
    /\ \/ started \subseteq allowList
       \/ command = "exec" /\ {"uri", "uriType"} \subseteq flags

=============================================================================
