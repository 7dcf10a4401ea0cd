------------------------- MODULE CommandLinesProofs -------------------------
(***************************************************************************)
(* For any options, percentages and applications, and a command line of    *)
(* any length: what an accepted one is sure to hold, which parameters a    *)
(* special test works on, which applications a run may launch, and what    *)
(* lists the inputs and the fingers of a test are drawn from.              *)
(***************************************************************************)
EXTENDS CommandLines, SumTheorems, TLAPS

(* What the options look for when they are taken stays true, whatever is   *)
(* given after them.                                                       *)
OptionsInv ==
  /\ ~({"count", "time"} \subseteq flags)
  /\ fingers # NoShares => flags \cap {"knuckle", "swap"} # {}
  /\ directions # NoShares \/ "pause" \in flags => "swap" \in flags

(* What EnvInit looks for, or makes of the options.                        *)
CheckedInv ==
  pc \in {"appInfo", "ready"} =>
    /\ command = "exec" =>
         ("blockRect" \in flags => inputPercent["touch"] > 0)
    /\ command = "special" =>
         SpecialOptionsConsistent /\ specialTestObject = ParamClass

(* What an option appends to the lists.                                    *)
AllowedInv ==
  /\ allowList \subseteq Lists!Bundle
  /\ bundleList \subseteq Installed \cup Unlaunched
  /\ allowList # {} =>
       Installed \cup (allowList \cap Unlaunched) \subseteq bundleList

(* A valid application is one that some reading found not prohibited; the  *)
(* last reading goes by the last block list.                               *)
BlockedInv ==
  /\ validBundleList =
       {x \in Installed : \E blocked \in inForce : x \notin blocked}
  /\ pc = "ready" => blockList \in inForce

(* Only what GetAbilityIndex chooses from is asked for, one at a time, and *)
(* only when the command line has been accepted.                           *)
LaunchedInv ==
  /\ pc \in {"parse", "envInit", "appInfo"} => asked = {} /\ started = {}
  /\ asked \subseteq Lists!Candidates
  /\ \A a, b \in asked : a = b
  /\ allowList # {} =>
       \/ started \subseteq allowList
       \/ command = "exec" /\ {"uri", "uriType"} \subseteq flags

ListInv == AllowedInv /\ BlockedInv /\ LaunchedInv

-----------------------------------------------------------------------------
(* The options of a special test.                                          *)

(* The first option of the order that is there is the one found.           *)
LEMMA FirstIsFound ==
  ASSUME NEW n \in Nat, NEW order, DOMAIN order = 1 .. n,
         NEW i \in 1 .. n, order[i] \in flags,
         \A j \in 1 .. n : j < i => order[j] \notin flags
  PROVE  FirstGiven(order) = order[i]
<1> DEFINE chosen == {j \in DOMAIN order : order[j] \in flags}
           k == CHOOSE j \in chosen : \A l \in chosen : j <= l
<1>1. i \in chosen /\ \A l \in chosen : i <= l
  OBVIOUS
<1>2. k \in chosen /\ \A l \in chosen : k <= l
  <2> HIDE DEF chosen
  <2> QED
    BY <1>1
<1>3. k = i
  <2>1. k \in 1 .. n
    BY <1>2
  <2> HIDE DEF k
  <2> QED
    BY <1>1, <1>2, <2>1
<1> QED
  BY <1>1, <1>3 DEF FirstGiven

(* When none of them is there, none is found.                              *)
LEMMA NoneIsFound ==
  ASSUME NEW order, \A j \in DOMAIN order : order[j] \notin flags
  PROVE  FirstGiven(order) = "none"
  BY DEF FirstGiven

(* The class of the parameters, option by option.                          *)
LEMMA ParamClassIs ==
  ParamClass = IF "swap" \in flags THEN "swap"
               ELSE IF "touch" \in flags THEN "touch"
               ELSE IF "component" \in flags THEN "component"
               ELSE IF "record" \in flags THEN "record"
               ELSE IF "replay" \in flags THEN "replay"
               ELSE "none"
<1> DEFINE order == <<"swap", "touch", "component", "record", "replay">>
<1>1. /\ DOMAIN order = 1 .. 5
      /\ order[1] = "swap" /\ order[2] = "touch"
      /\ order[3] = "component" /\ order[4] = "record"
      /\ order[5] = "replay"
  OBVIOUS
<1>2. ParamClass = FirstGiven(order)
  BY DEF ParamClass
<1> HIDE DEF order
<1>3. CASE \E i \in 1 .. 5 : order[i] \in flags
  <2>1. PICK i \in 1 .. 5 :
          /\ order[i] \in flags
          /\ \A j \in 1 .. 5 : j < i => order[j] \notin flags
    BY <1>3
  <2>2. FirstGiven(order) = order[i]
    <3>1. DOMAIN order = 1 .. 5 /\ 5 \in Nat
      BY <1>1
    <3> QED
      BY <2>1, <3>1, FirstIsFound, Zenon
  <2> QED
    BY <1>1, <1>2, <2>1, <2>2
<1>4. CASE \A i \in 1 .. 5 : order[i] \notin flags
  <2>1. FirstGiven(order) = "none"
    BY <1>1, <1>4, NoneIsFound
  <2> QED
    BY <1>1, <1>2, <1>4, <2>1
<1> QED
  BY <1>3, <1>4

(* The input of a step, option by option.                                  *)
LEMMA InputTypeIs ==
  DistrbuteInputType = IF "touch" \in flags THEN "touch"
                       ELSE IF "swap" \in flags THEN "swap"
                       ELSE IF "power" \in flags THEN "power"
                       ELSE IF "component" \in flags THEN "component"
                       ELSE IF "record" \in flags THEN "record"
                       ELSE IF "replay" \in flags THEN "replay"
                       ELSE "none"
<1> DEFINE order ==
             <<"touch", "swap", "power", "component", "record", "replay">>
<1>1. /\ DOMAIN order = 1 .. 6
      /\ order[1] = "touch" /\ order[2] = "swap"
      /\ order[3] = "power" /\ order[4] = "component"
      /\ order[5] = "record" /\ order[6] = "replay"
  OBVIOUS
<1>2. DistrbuteInputType = FirstGiven(order)
  BY DEF DistrbuteInputType
<1> HIDE DEF order
<1>3. CASE \E i \in 1 .. 6 : order[i] \in flags
  <2>1. PICK i \in 1 .. 6 :
          /\ order[i] \in flags
          /\ \A j \in 1 .. 6 : j < i => order[j] \notin flags
    BY <1>3
  <2>2. FirstGiven(order) = order[i]
    <3>1. DOMAIN order = 1 .. 6 /\ 6 \in Nat
      BY <1>1
    <3> QED
      BY <2>1, <3>1, FirstIsFound, Zenon
  <2> QED
    BY <1>1, <1>2, <2>1, <2>2
<1>4. CASE \A i \in 1 .. 6 : order[i] \notin flags
  <2>1. FirstGiven(order) = "none"
    BY <1>1, <1>4, NoneIsFound
  <2> QED
    BY <1>1, <1>2, <1>4, <2>1
<1> QED
  BY <1>3, <1>4

(* EnvInit and the steps agree, unless -S and -t are given together: this  *)
(* rests on no invariant, only on the two orders.                          *)
LEMMA OrdersAgree ==
  ASSUME ~({"swap", "touch"} \subseteq flags)
  PROVE  DistrbuteInputType \in {"none", "power", ParamClass}
  BY ParamClassIs, InputTypeIs

-----------------------------------------------------------------------------
(* One option.                                                             *)

OneOption == ExecOption \/ FocusOption \/ SpecialOption

(* An option leaves the command line in the parser or has it refused.      *)
LEMMA OptionParses ==
  ASSUME OneOption
  PROVE  /\ pc = "parse" /\ pc' \in {"parse", "rejected"}
         /\ command' = command
<1>1. ASSUME NEW accepted, Option(accepted)
      PROVE  /\ pc = "parse" /\ pc' \in {"parse", "rejected"}
             /\ command' = command
  BY <1>1 DEF Option
<1> QED
  BY <1>1
  DEF OneOption, ExecOption, FocusOption, SpecialOption, PlainOption,
      FocusPlainOption, SpecialPlainOption, ListOption, SetInputPercent,
      FocusSetInputPercent, SetFinger, SetDirection, SetCount, SetTime,
      FocusSetCount, FocusSetTime, SpecialSetCount, SpecialSetTime, SetPause,
      SetBlockRect, SetUri, SetUriType, SetAllowBundle, SetProhibit,
      SetAllowAbility, SetBlockAbility, IgnoredOption, RefusedOption, FocusIgnoredOption, FocusRefusedOption,
      SpecialRefusedOption, SetFlag, SetRunningIndicator, SetTouchParam,
      SetSwapPoint, SetComponent

(* An option that only sets a flag other than those OptionsInv looks for.  *)
LEMMA FlagKeepsOptions ==
  ASSUME OptionsInv, NEW f, NEW accepted, SetFlag(f, accepted),
         f = "count" => ~accepted \/ "time" \notin flags,
         f = "time" => ~accepted \/ "count" \notin flags,
         f = "pause" => ~accepted \/ "swap" \in flags,
         UNCHANGED <<fingers, directions>>
  PROVE  OptionsInv'
<1>1. CASE accepted
  BY <1>1 DEF SetFlag, OptionsInv, NoShares
<1>2. CASE ~accepted
  BY <1>2 DEF SetFlag, OptionsInv, NoShares
<1> QED
  BY <1>1, <1>2

(* An option of "wukong exec" that names no application.                   *)
LEMMA PlainKeepsOptions ==
  ASSUME OptionsInv, PlainOption
  PROVE  OptionsInv'
<1>1. ASSUME NEW t \in PercentOptions, NEW p \in Percents,
             SetInputPercent(t, p)
      PROVE  OptionsInv'
  <2>1. /\ UNCHANGED <<fingers, directions>>
        /\ \/ flags' = flags
           \/ flags' = flags
                 \cup {f \in {"knuckle", "swap"} : f = t}
                 \cup {f \in {"isAppStarted"} : t = "rotate" /\ p = 100}
    BY <1>1 DEF SetInputPercent, RefusedOption, SetPercent, percentVars,
                shareVars
  <2> QED
    BY <2>1 DEF OptionsInv, NoShares
<1>2. ASSUME NEW argument, SetFinger(argument)
      PROVE  OptionsInv'
  <2>1. /\ flags' = flags /\ directions' = directions
        /\ \/ fingers' = fingers
           \/ flags \cap {"knuckle", "swap"} # {}
    BY <1>2 DEF SetFinger
  <2> QED
    BY <2>1 DEF OptionsInv, NoShares
<1>3. ASSUME NEW argument, SetDirection(argument)
      PROVE  OptionsInv'
  <2>1. /\ flags' = flags /\ fingers' = fingers
        /\ directions' = directions \/ "swap" \in flags
    BY <1>3 DEF SetDirection
  <2> QED
    BY <2>1 DEF OptionsInv, NoShares
<1>4. CASE /\ \/ SetCount \/ SetTime \/ SetPause \/ SetBlockRect
              \/ SetUri \/ SetUriType
           /\ UNCHANGED percentVars
  BY <1>4, FlagKeepsOptions
  DEF SetCount, SetTime, SetPause, SetBlockRect, SetUri, SetUriType,
      percentVars, shareVars
<1>5. CASE /\ IgnoredOption \/ RefusedOption
           /\ UNCHANGED percentVars
  BY <1>5
  DEF IgnoredOption, RefusedOption, percentVars, shareVars, OptionsInv,
      NoShares
<1> QED
  BY <1>1, <1>2, <1>3, <1>4, <1>5 DEF PlainOption

(* One of "wukong focus".                                                  *)
LEMMA FocusKeepsOptions ==
  ASSUME OptionsInv, FocusPlainOption
  PROVE  OptionsInv'
<1>1. ASSUME NEW t, NEW p, FocusSetInputPercent(t, p)
      PROVE  OptionsInv'
  <2>1. /\ UNCHANGED <<fingers, directions>>
        /\ flags' = flags \cup {f \in {"isAppStarted"} :
                               t = "rotate" /\ p = 100}
    BY <1>1 DEF FocusSetInputPercent, SetPercent, shareVars
  <2> QED
    BY <2>1 DEF OptionsInv, NoShares
<1>2. CASE /\ FocusSetCount \/ FocusSetTime
           /\ UNCHANGED percentVars
  BY <1>2, FlagKeepsOptions
  DEF FocusSetCount, FocusSetTime, SetCount, SetTime, percentVars, shareVars
<1>3. CASE /\ FocusIgnoredOption \/ FocusRefusedOption
           /\ UNCHANGED percentVars
  BY <1>3
  DEF FocusIgnoredOption, FocusRefusedOption, IgnoredOption, RefusedOption,
      percentVars, shareVars, OptionsInv, NoShares
<1> QED
  BY <1>1, <1>2, <1>3 DEF FocusPlainOption

(* One of "wukong special".                                                *)
LEMMA SpecialKeepsOptions ==
  ASSUME OptionsInv, UNCHANGED <<fingers, directions>>,
         SpecialPlainOption \/ SetComponent
  PROVE  OptionsInv'
<1>1. CASE \/ SpecialSetCount \/ SpecialSetTime \/ SetRunningIndicator
           \/ SetComponent
  BY <1>1, FlagKeepsOptions
  DEF SpecialSetCount, SpecialSetTime, SetRunningIndicator, SetComponent
<1>2. CASE SpecialRefusedOption
  BY <1>2 DEF SpecialRefusedOption, RefusedOption, OptionsInv, NoShares
<1>3. ASSUME NEW parts, SetTouchParam(parts)
      PROVE  OptionsInv'
  BY <1>3, FlagKeepsOptions DEF SetTouchParam
<1>4. ASSUME NEW parts, SetSwapPoint(parts)
      PROVE  OptionsInv'
  BY <1>4 DEF SetSwapPoint, OptionsInv, NoShares
<1> QED
  BY <1>1, <1>2, <1>3, <1>4 DEF SpecialPlainOption

(* And one that names applications or abilities.                           *)
LEMMA ListKeepsOptions ==
  ASSUME OptionsInv, ListOption
  PROVE  OptionsInv'
<1>1. UNCHANGED <<fingers, directions>>
  BY DEF ListOption, percentVars, shareVars
<1>2. CASE \/ SetAllowBundle \/ SetProhibit
           \/ SetAllowAbility \/ SetBlockAbility
  <2>1. CASE IgnoredOption
    BY <1>1, <2>1 DEF IgnoredOption, OptionsInv, NoShares
  <2> QED
    BY <1>1, <1>2, <2>1, FlagKeepsOptions
    DEF SetAllowBundle, SetProhibit, SetAllowAbility, SetBlockAbility
<1> QED
  BY <1>2 DEF ListOption

(* What every option does to the flags it may look for.                    *)
LEMMA OptionKeepsOptions ==
  ASSUME OptionsInv, OneOption
  PROVE  OptionsInv'
<1>1. CASE ExecOption
  BY <1>1, PlainKeepsOptions, ListKeepsOptions DEF ExecOption
<1>2. CASE FocusOption
  BY <1>2, FocusKeepsOptions, ListKeepsOptions DEF FocusOption
<1>3. CASE SpecialOption
  <2>1. UNCHANGED <<fingers, directions>>
    BY <1>3 DEF SpecialOption, percentVars, shareVars
  <2> QED
    BY <1>3, <2>1, SpecialKeepsOptions DEF SpecialOption
<1> QED
  BY <1>1, <1>2, <1>3 DEF OneOption

-----------------------------------------------------------------------------
(* The end of the command line.                                            *)

(* What EnvInit accepts is as CheckedInv says.                             *)
LEMMA EnvironmentChecks ==
  ASSUME EnvironmentInit
  PROVE  /\ pc = "envInit" /\ pc' \in {"appInfo", "rejected"}
         /\ UNCHANGED <<command, flags, fingers, directions>>
         /\ CheckedInv'
<1>1. CASE command = "exec" /\ EnvInit
  <2>1. /\ UNCHANGED <<command, flags, fingers, directions, inputPercent>>
        /\ pc = "envInit" /\ pc' \in {"appInfo", "rejected"}
        /\ pc' = "appInfo" =>
             ("blockRect" \in flags => inputPercent["touch"] > 0)
    BY <1>1 DEF EnvInit, EnvReady, shareVars
  <2> QED
    BY <1>1, <2>1 DEF CheckedInv
<1>2. CASE command = "focus" /\ FocusEnvInit
  BY <1>2 DEF FocusEnvInit, EnvReady, shareVars, CheckedInv
<1>3. CASE /\ command = "special" /\ SpecialEnvInit
           /\ UNCHANGED percentVars
  <2>1. /\ UNCHANGED <<command, flags, fingers, directions>>
        /\ UNCHANGED <<touchParam, swapStartPoint, swapEndPoint>>
        /\ pc = "envInit" /\ pc' \in {"appInfo", "rejected"}
    BY <1>3 DEF SpecialEnvInit, EnvReady, pointVars, percentVars, shareVars
  <2>2. CASE pc' = "appInfo"
    <3>1. /\ ParamClass = "swap" => swapStartPoint = 2 /\ swapEndPoint = 2
          /\ ParamClass = "touch" => touchParam = 2
          /\ specialTestObject' = ParamClass
      BY <1>3, <2>2 DEF SpecialEnvInit, EnvReady
    <3>2. SpecialOptionsConsistent
      BY <3>1, ParamClassIs DEF SpecialOptionsConsistent
    <3>3. ParamClass' = ParamClass
      BY <2>1 DEF ParamClass, FirstGiven
    <3> QED
      BY <1>3, <2>1, <3>1, <3>2, <3>3
      DEF CheckedInv, SpecialOptionsConsistent
  <2> QED
    BY <2>1, <2>2 DEF CheckedInv
<1> QED
  BY <1>1, <1>2, <1>3 DEF EnvironmentInit

(* Later, the options stay as they are.                                    *)
LEMMA OptionsSettled ==
  ASSUME OptionsInv, CheckedInv,
         pc' = "appInfo" => pc = "appInfo",
         pc' = "ready" => pc \in {"appInfo", "ready"},
         UNCHANGED <<command, flags, fingers, directions, inputPercent>>,
         UNCHANGED <<touchParam, swapStartPoint, swapEndPoint,
                     specialTestObject>>
  PROVE  OptionsInv' /\ CheckedInv'
<1>1. OptionsInv'
  BY DEF OptionsInv, NoShares
<1>2. ParamClass' = ParamClass
  BY DEF ParamClass, FirstGiven
<1>3. SpecialOptionsConsistent' <=> SpecialOptionsConsistent
  BY DEF SpecialOptionsConsistent
<1>4. pc' \in {"appInfo", "ready"} => pc \in {"appInfo", "ready"}
  OBVIOUS
<1> QED
  BY <1>1, <1>2, <1>3, <1>4 DEF CheckedInv

(* A launch may end the program, and leaves the rest as it is.             *)
LEMMA SwitchEnds ==
  ASSUME SwitchApplication
  PROVE  pc = "ready" /\ pc' \in {"ready", "rejected"}
  BY DEF SwitchApplication, InputScene, ProtectRightAbility, LaunchOfFirst

(* Every step keeps what is true of the options.                           *)
LEMMA OptionsStep ==
  ASSUME OptionsInv, CheckedInv, [Next]_vars
  PROVE  OptionsInv' /\ CheckedInv'
<1>1. CASE OneOption
  <2>1. pc' \notin {"appInfo", "ready"}
    BY <1>1, OptionParses
  <2> QED
    BY <1>1, <2>1, OptionKeepsOptions DEF CheckedInv
<1>2. CASE EndOfOptions /\ UNCHANGED <<percentVars, specialVars, listVars>>
  BY <1>2, OptionsSettled
  DEF EndOfOptions, percentVars, shareVars, specialVars, pointVars
<1>3. CASE EnvironmentInit
  BY <1>3, EnvironmentChecks DEF OptionsInv, NoShares
<1>4. CASE ReadApplications
  BY <1>4, OptionsSettled
  DEF ReadApplications, GetAllAppInfo, percentVars, shareVars, specialVars,
      pointVars
<1>5. CASE SwitchApplication
  BY <1>5, SwitchEnds, OptionsSettled
  DEF SwitchApplication, percentVars, shareVars, specialVars, pointVars
<1>6. CASE GestureInput /\ UNCHANGED <<specialVars, listVars>>
  BY <1>6, OptionsSettled
  DEF GestureInput, lineVars, percentVars, shareVars, specialVars, pointVars
<1>7. CASE UNCHANGED vars
  BY <1>7, OptionsSettled
  DEF vars, lineVars, percentVars, shareVars, specialVars, pointVars
<1> QED
  BY <1>1, <1>2, <1>3, <1>4, <1>5, <1>6, <1>7 DEF Next, OneOption

-----------------------------------------------------------------------------
(* The lists of applications.                                              *)

(* An option appends the installed applications, without those of the      *)
(* block list to the valid ones, and others that are installed.            *)
LEMMA AppendingStep ==
  ASSUME ListInv, pc = "parse", pc' # "ready",
         NEW blocked, NEW added \in SUBSET Unlaunched,
         Lists!GetAllAppInfo(blocked, added),
         \/ allowList' = allowList
         \/ /\ allowList' \subseteq Lists!Bundle
            /\ added = allowList' \cap Unlaunched,
         UNCHANGED <<asked, started>>
  PROVE  ListInv'
<1>1. /\ bundleList' = bundleList \cup Installed \cup added
      /\ validBundleList' = validBundleList \cup (Installed \ blocked)
      /\ inForce' = inForce \cup {blocked}
  BY DEF Lists!GetAllAppInfo
<1>2. AllowedInv'
  BY <1>1 DEF ListInv, AllowedInv, Lists!Bundle
<1>3. BlockedInv'
  BY <1>1 DEF ListInv, BlockedInv
<1>4. LaunchedInv'
  <2>1. asked' = {} /\ started' = {}
    BY DEF ListInv, LaunchedInv
  <2> QED
    BY <2>1 DEF LaunchedInv
<1> QED
  BY <1>2, <1>3, <1>4 DEF ListInv

(* Every option with an effect on the lists is one of these.               *)
LEMMA ListOptionStep ==
  ASSUME ListInv, OneOption
  PROVE  ListInv'
<1>1. pc = "parse" /\ pc' # "ready"
  BY OptionParses
<1>2. ASSUME NEW names \in SUBSET Lists!Bundle, Lists!SetAllowList(names)
      PROVE  ListInv'
  <2>1. /\ Lists!GetAllAppInfo(blockList, names \cap Unlaunched)
        /\ allowList' = names /\ UNCHANGED <<asked, started>>
    BY <1>2 DEF Lists!SetAllowList
  <2> QED
    BY <1>1, <2>1, AppendingStep
<1>3. ASSUME NEW names, Lists!SetBlockList(names)
      PROVE  ListInv'
  <2>1. /\ Lists!GetAllAppInfo(names, {})
        /\ UNCHANGED <<allowList, asked, started>>
    BY <1>3 DEF Lists!SetBlockList
  <2>2. {} \in SUBSET Unlaunched
    OBVIOUS
  <2> QED
    BY <1>1, <2>1, <2>2, AppendingStep
<1>4. CASE Lists!SetAbilityList
  <2>1. /\ Lists!GetAllAppInfo(blockList, {})
        /\ UNCHANGED <<allowList, asked, started>>
    BY <1>4 DEF Lists!SetAbilityList, Lists!ReadAgain
  <2>2. {} \in SUBSET Unlaunched
    OBVIOUS
  <2> QED
    BY <1>1, <2>1, <2>2, AppendingStep
<1>5. ASSUME NEW names, Lists!SetComponentList(names)
      PROVE  ListInv'
  <2>1. /\ Lists!GetAllAppInfo(blockList, names \cap Unlaunched)
        /\ UNCHANGED <<allowList, asked, started>>
    BY <1>5 DEF Lists!SetComponentList
  <2>2. names \cap Unlaunched \in SUBSET Unlaunched
    OBVIOUS
  <2> QED
    BY <1>1, <2>1, <2>2, AppendingStep
<1>6. CASE UNCHANGED listVars
  <2>1. UNCHANGED <<allowList, blockList, bundleList, validBundleList,
                    inForce, asked, started>>
    BY <1>6 DEF listVars
  <2>2. asked = {} /\ started = {}
    BY <1>1 DEF ListInv, LaunchedInv
  <2> QED
    BY <1>1, <2>1, <2>2
    DEF ListInv, AllowedInv, BlockedInv, LaunchedInv, Lists!Bundle
<1> QED
  BY <1>2, <1>3, <1>4, <1>5, <1>6
  DEF OneOption, ExecOption, FocusOption, SpecialOption, ListOption

(* The end of CheckVaildityCmd.                                            *)
LEMMA ReadingStep ==
  ASSUME ListInv, ReadApplications
  PROVE  ListInv'
<1>1. /\ pc = "appInfo" /\ pc' \in {"ready", "rejected"}
      /\ asked = {} /\ started = {}
  BY DEF ReadApplications, GetAllAppInfo, ListInv, LaunchedInv
<1>2. CASE pc' = "ready"
  <2>1. /\ bundleList' = bundleList \cup Installed
        /\ validBundleList' = validBundleList \cup (Installed \ blockList)
        /\ inForce' = inForce \cup {blockList}
        /\ UNCHANGED <<allowList, blockList, asked, started>>
    BY <1>2
    DEF ReadApplications, Lists!EndOfOptions, Lists!ReadAgain,
        Lists!GetAllAppInfo
  <2>2. AllowedInv'
    BY <2>1 DEF ListInv, AllowedInv, Lists!Bundle
  <2>3. BlockedInv'
    BY <2>1 DEF ListInv, BlockedInv
  <2>4. LaunchedInv'
    BY <1>1, <2>1 DEF LaunchedInv
  <2> QED
    BY <2>2, <2>3, <2>4 DEF ListInv
<1>3. CASE pc' = "rejected"
  <2>1. UNCHANGED <<allowList, blockList, bundleList, validBundleList,
                    inForce, asked, started>>
    BY <1>3 DEF ReadApplications, listVars
  <2> QED
    BY <1>1, <1>3, <2>1
    DEF ListInv, AllowedInv, BlockedInv, LaunchedInv, Lists!Bundle
<1> QED
  BY <1>1, <1>2, <1>3

(* What is started is what was asked for by name.                          *)
LEMMA NamedLaunch ==
  ASSUME ListInv, pc = "ready", pc' \in {"ready", "rejected"},
         UNCHANGED <<command, flags, Lists!lists>>,
         \/ UNCHANGED <<asked, started>>
         \/ \E b \in Lists!Candidates :
              asked' = {b} /\ Lists!StartAbility({b})
  PROVE  ListInv'
<1>1. UNCHANGED <<allowList, blockList, bundleList, validBundleList, inForce>>
  BY DEF Lists!lists
<1>2. AllowedInv' /\ BlockedInv'
  BY <1>1 DEF ListInv, AllowedInv, BlockedInv, Lists!Bundle
<1>3. Lists!Candidates' = Lists!Candidates
  BY <1>1 DEF Lists!Candidates
<1>4. ASSUME UNCHANGED <<asked, started>>
      PROVE  LaunchedInv'
  <2>1. /\ asked' \subseteq Lists!Candidates'
        /\ \A a, b \in asked' : a = b
    BY <1>3, <1>4 DEF ListInv, LaunchedInv
  <2>2. allowList' # {} =>
          \/ started' \subseteq allowList'
          \/ command' = "exec" /\ {"uri", "uriType"} \subseteq flags'
    BY <1>1, <1>4 DEF ListInv, LaunchedInv
  <2> QED
    BY <2>1, <2>2 DEF LaunchedInv
<1>5. ASSUME NEW b \in Lists!Candidates,
             asked' = {b}, Lists!StartAbility({b})
      PROVE  LaunchedInv'
  <2>1. started' = started \/ started' = {b}
    BY <1>5 DEF Lists!StartAbility
  <2>2. allowList # {} => b \in allowList
    BY DEF Lists!Candidates
  <2> QED
    BY <1>1, <1>3, <1>5, <2>1, <2>2 DEF ListInv, LaunchedInv
<1> QED
  BY <1>2, <1>4, <1>5 DEF ListInv

(* Nothing but a candidate is asked for; but for a URI and its type,       *)
(* nothing else is started.                                                *)
LEMMA LaunchingStep ==
  ASSUME ListInv, SwitchApplication
  PROVE  ListInv'
<1>1. pc = "ready" /\ UNCHANGED <<command, flags>>
  BY DEF SwitchApplication
<1>2. CASE LaunchOfFirst
  <2>1. CASE Lists!StartAbilityOfFirst /\ UNCHANGED pc
    <3>1. PICK b \in allowList : asked' = {b} /\ Lists!StartAbility({b})
      BY <2>1 DEF Lists!StartAbilityOfFirst
    <3>2. b \in Lists!Candidates
      BY <3>1 DEF Lists!Candidates
    <3> QED
      BY <1>1, <2>1, <3>1, <3>2, NamedLaunch DEF Lists!StartAbilityOfFirst
  <2>2. CASE pc' = "rejected" /\ UNCHANGED listVars
    <3>1. UNCHANGED <<Lists!lists, asked, started>>
      BY <2>2 DEF listVars, Lists!lists
    <3> QED
      BY <1>1, <2>2, <3>1, NamedLaunch
  <2> QED
    BY <1>2, <2>1, <2>2 DEF LaunchOfFirst
<1>3. CASE Lists!RandomInput /\ UNCHANGED pc
  <2>1. /\ \E b \in Lists!Candidates : asked' = {b} /\ Lists!StartAbility({b})
        /\ UNCHANGED Lists!lists
    BY <1>3 DEF Lists!RandomInput
  <2> QED
    BY <1>1, <1>3, <2>1, NamedLaunch
<1>4. CASE /\ command = "exec" /\ {"uri", "uriType"} \subseteq flags
           /\ Lists!StartAbilityByUriAndType /\ UNCHANGED pc
  <2>1. UNCHANGED <<allowList, blockList, bundleList, validBundleList,
                    inForce, asked>>
    BY <1>4 DEF Lists!StartAbilityByUriAndType, Lists!lists
  <2>2. Lists!Candidates' = Lists!Candidates
    BY <2>1 DEF Lists!Candidates
  <2> QED
    BY <1>1, <1>4, <2>1, <2>2
    DEF ListInv, AllowedInv, BlockedInv, LaunchedInv, Lists!Bundle
<1> QED
  BY <1>2, <1>3, <1>4 DEF SwitchApplication, InputScene, ProtectRightAbility

(* The first state has no lists but the block list.                        *)
LEMMA InitLists ==
  ASSUME Init
  PROVE  ListInv
<1>1. /\ allowList = {} /\ bundleList = {} /\ validBundleList = {}
      /\ inForce = {} /\ asked = {} /\ started = {}
  BY Zenon DEF Init, Lists!Init
<1>2. pc = "parse"
  BY Zenon DEF Init, LineInit
<1> QED
  BY <1>1, <1>2 DEF ListInv, AllowedInv, BlockedInv, LaunchedInv

(* Every step keeps the lists as they should be.                           *)
LEMMA ListStep ==
  ASSUME ListInv, [Next]_vars
  PROVE  ListInv'
<1>1. CASE OneOption
  BY <1>1, ListOptionStep
<1>2. CASE /\ \/ EndOfOptions
              \/ EnvironmentInit
              \/ GestureInput
              \/ UNCHANGED vars
           /\ UNCHANGED listVars
  <2>1. UNCHANGED <<allowList, blockList, bundleList, validBundleList,
                    inForce, asked, started>>
    BY <1>2 DEF listVars
  <2>2. /\ \/ pc' = pc
           \/ /\ pc \in {"parse", "envInit"}
              /\ pc' \in {"envInit", "appInfo", "rejected"}
        /\ UNCHANGED <<command, flags>>
    BY <1>2, EnvironmentChecks
    DEF EndOfOptions, GestureInput, lineVars, vars
  <2> QED
    BY <2>1, <2>2
    DEF ListInv, AllowedInv, BlockedInv, LaunchedInv, Lists!Bundle,
        Lists!Candidates
<1>3. CASE ReadApplications
  BY <1>3, ReadingStep
<1>4. CASE SwitchApplication
  BY <1>4, LaunchingStep
<1>5. EnvironmentInit \/ UNCHANGED vars => UNCHANGED listVars
  BY DEF EnvironmentInit, vars
<1> QED
  BY <1>1, <1>2, <1>3, <1>4, <1>5 DEF Next, OneOption

-----------------------------------------------------------------------------

(* What is true of the options in every state.                             *)
LEMMA OptionsHold == Spec => [](OptionsInv /\ CheckedInv)
<1>1. Init => OptionsInv /\ CheckedInv
  <2> SUFFICES ASSUME Init PROVE OptionsInv /\ CheckedInv
    OBVIOUS
  <2>1. /\ pc = "parse" /\ flags = {}
        /\ fingers = NoShares /\ directions = NoShares
    BY Zenon DEF Init, LineInit, PercentInit
  <2> QED
    BY <2>1 DEF OptionsInv, CheckedInv
<1>2. OptionsInv /\ CheckedInv /\ [Next]_vars =>
        (OptionsInv /\ CheckedInv)'
  BY OptionsStep
<1> QED
  BY <1>1, <1>2, PTL DEF Spec

(* And of the lists.                                                       *)
LEMMA ListsHold == Spec => []ListInv
<1>1. Init => ListInv
  BY InitLists
<1>2. ListInv /\ [Next]_vars => ListInv'
  BY ListStep
<1> QED
  BY <1>1, <1>2, PTL DEF Spec

(* A command line that is accepted has only one of -c and -T, and what     *)
(* every option of it needs, whatever their number and order.              *)
THEOREM AcceptedCorrect == Spec => []AcceptedIsConsistent
<1>1. OptionsInv /\ CheckedInv => AcceptedIsConsistent
  BY DEF OptionsInv, CheckedInv, AcceptedIsConsistent,
         ExecOptionsConsistent, NoShares
<1> QED
  BY <1>1, OptionsHold, PTL

(* OrderInput finds parameters of the class it expects, whatever inputs    *)
(* are asked for, unless -S and -t are.                                    *)
THEOREM ParametersCorrect == Spec => []ParametersMatch
<1>1. CheckedInv => ParametersMatch
  BY OrdersAgree DEF CheckedInv, ParametersMatch
<1> QED
  BY <1>1, OptionsHold, PTL

(* A prohibited application is asked for only when -b names it too, when   *)
(* it was not prohibited at some reading of the applications, or when all  *)
(* were at every one: for any applications and any command line, with any  *)
(* option any number of times.                                             *)
THEOREM ProhibitedCorrect == Spec => []ProhibitedLaunchExplained
<1>1. ListInv => ProhibitedLaunchExplained
  <2> SUFFICES ASSUME ListInv, NEW x \in asked,
                      ~(asked \subseteq allowList)
               PROVE  \/ \E blocked \in inForce : asked \cap blocked = {}
                      \/ \A blocked \in inForce : Installed \subseteq blocked
    BY DEF ProhibitedLaunchExplained, Lists!ProhibitedLaunchExplained
  <2>1. asked = {x}
    BY DEF ListInv, LaunchedInv
  <2>2. CASE validBundleList # {}
    <3>1. x \in validBundleList
      BY <2>2 DEF ListInv, LaunchedInv, Lists!Candidates
    <3>2. PICK blocked \in inForce : x \notin blocked
      BY <3>1 DEF ListInv, BlockedInv
    <3> QED
      BY <2>1, <3>2
  <2>3. CASE validBundleList = {}
    BY <2>3 DEF ListInv, BlockedInv
  <2> QED
    BY <2>2, <2>3
<1> QED
  BY <1>1, ListsHold, PTL

(* With -b, each of its applications is found unless its name is unknown,  *)
(* and nothing else is asked for, or started but for a URI and its type.   *)
THEOREM AllowedCorrect == Spec => []OnlyAllowedLaunched
<1>1. ListInv => OnlyAllowedLaunched
  <2> SUFFICES ASSUME ListInv, allowList # {}
               PROVE  /\ allowList \cap bundleList = allowList \ Unknown
                      /\ asked \subseteq allowList
                      /\ \/ started \subseteq allowList
                         \/ /\ command = "exec"
                            /\ {"uri", "uriType"} \subseteq flags
    BY DEF OnlyAllowedLaunched, Lists!OnlyAllowedAsked, Lists!AllowedAreFound
  <2>1. \A x : x \in allowList \cap bundleList <=>
                x \in allowList \ Unknown
    BY UnknownAssumption DEF ListInv, AllowedInv, Lists!Bundle
  <2>2. asked \subseteq allowList
    BY DEF ListInv, LaunchedInv, Lists!Candidates
  <2> QED
    BY <2>1, <2>2 DEF ListInv, LaunchedInv
<1> QED
  BY <1>1, ListsHold, PTL

-----------------------------------------------------------------------------

(* What -f and -D make of their arguments: any share for any key.          *)
ShareMap(map) ==
  /\ IsFiniteSet(DOMAIN map) /\ DOMAIN map \subseteq Int
  /\ \A k \in DOMAIN map : map[k] \in Int

(* No shares are shares.                                                   *)
LEMMA NoSharesIsShareMap == ShareMap(NoShares)
<1>1. DOMAIN NoShares = {}
  BY DEF NoShares
<1> QED
  BY <1>1, FS_EmptySet DEF ShareMap

(* Every key has a place where it was given last.                          *)
LEMMA LastIsGiven ==
  ASSUME NEW pairs \in Seq(Int \X Int)
  PROVE  /\ IsFiniteSet(DOMAIN pairs)
         /\ IsFiniteSet(KeysOf(pairs)) /\ KeysOf(pairs) \subseteq Int
         /\ \A i \in DOMAIN pairs : pairs[i] \in Int \X Int
         /\ \A k \in KeysOf(pairs) : /\ LastOf(pairs, k) \in DOMAIN pairs
                                     /\ pairs[LastOf(pairs, k)][1] = k
<1> DEFINE D == DOMAIN pairs
           K == KeysOf(pairs)
<1>1. /\ IsFiniteSet(D) /\ D \subseteq Nat
      /\ \A i \in D : pairs[i] \in Int \X Int
  <2>1. D = 1 .. Len(pairs) /\ Len(pairs) \in Nat
    OBVIOUS
  <2>2. IsFiniteSet(D) /\ D \subseteq Nat
    BY <2>1, FS_Interval
  <2>3. \A i \in D : pairs[i] \in Int \X Int
    OBVIOUS
  <2> QED
    BY <2>2, <2>3
<1>2. IsFiniteSet(K) /\ K \subseteq Int
  <2>1. [i \in D |-> pairs[i][1]] \in Surjection(D, K)
    BY DEF Surjection, KeysOf
  <2> QED
    BY <1>1, <2>1, FS_Surjection DEF KeysOf
<1>3. ASSUME NEW k \in K
      PROVE  LastOf(pairs, k) \in D /\ pairs[LastOf(pairs, k)][1] = k
  <2> DEFINE at == {i \in D : pairs[i][1] = k}
  <2>1. at # {} /\ at \subseteq Int /\ IsFiniteSet(at)
    BY <1>1, FS_Subset DEF KeysOf
  <2>2. Max(at) \in at
    <3> HIDE DEF at
    <3> QED
      BY <2>1, MaxExists
  <2> QED
    BY <2>2 DEF LastOf
<1> QED
  BY <1>1, <1>2, <1>3

(* The map of an argument is one, accepted or not.                         *)
LEMMA ConvertedIsShareMap ==
  ASSUME NEW pairs \in Seq(Int \X Int)
  PROVE  ShareMap(ConvertStringToMap(pairs))
<1> DEFINE map == [k \in KeysOf(pairs) |-> pairs[LastOf(pairs, k)][2]]
<1>1. ShareMap(map)
  <2>1. DOMAIN map = KeysOf(pairs) /\ \A k \in DOMAIN map : map[k] \in Int
    BY LastIsGiven
  <2> HIDE DEF map
  <2> QED
    BY <2>1, LastIsGiven DEF ShareMap
<1>2. ConvertStringToMap(pairs) \in {map, NoShares}
  BY DEF ConvertStringToMap
<1> QED
  BY <1>1, <1>2, NoSharesIsShareMap

(* The conversion takes a hundredth at most.                               *)
LEMMA PercentLost ==
  ASSUME NEW p \in Nat
  PROVE  ToPercent(p) \in Nat /\ ToPercent(p) \in {p - 1, p}
  BY DEF ToPercent

(* What a share map puts into the vector.                                  *)
LEMMA PortionsAre ==
  ASSUME NEW map, ShareMap(map)
  PROVE  /\ DOMAIN Portions(map) = DOMAIN map
         /\ \A k \in DOMAIN map :
              /\ Portions(map)[k] \in Nat
              /\ map[k] > 0 => Portions(map)[k] \in {map[k] - 1, map[k]}
              /\ ~(map[k] > 0) => Portions(map)[k] = 0
         /\ Total(Portions(map)) \in Nat
         /\ Total(Portions(map)) = SumOver(Portions(map), DOMAIN map)
<1> DEFINE D == DOMAIN map
           P == Portions(map)
<1>1. DOMAIN P = D
  BY DEF Portions
<1>2. \A k \in D : /\ P[k] \in Nat
                   /\ map[k] > 0 => P[k] \in {map[k] - 1, map[k]}
                   /\ ~(map[k] > 0) => P[k] = 0
  <2> SUFFICES ASSUME NEW k \in D
               PROVE  /\ P[k] \in Nat
                      /\ map[k] > 0 => P[k] \in {map[k] - 1, map[k]}
                      /\ ~(map[k] > 0) => P[k] = 0
    OBVIOUS
  <2>1. /\ map[k] \in Int
        /\ P[k] = IF map[k] > 0 THEN ToPercent(map[k]) ELSE 0
    BY DEF ShareMap, Portions
  <2> HIDE DEF P
  <2>2. CASE map[k] > 0
    <3>1. map[k] \in Nat
      BY <2>1, <2>2
    <3> QED
      BY <2>1, <2>2, <3>1, PercentLost
  <2>3. CASE ~(map[k] > 0)
    BY <2>1, <2>3
  <2> QED
    BY <2>2, <2>3
<1>3. Total(P) = SumOver(P, D)
  BY <1>1 DEF Total, SumOver
<1>4. SumOver(P, D) \in Nat
  <2>1. IsFiniteSet(D) /\ \A k \in D : P[k] \in Nat
    <3> HIDE DEF P
    <3> QED
      BY <1>2, Zenon DEF ShareMap
  <2> HIDE DEF P, D
  <2> QED
    BY <2>1, SumNat
<1> QED
  BY <1>1, <1>2, <1>3, <1>4, Zenon

(* Where no share is negative, the vector has room for all of them: a share*)
(* given twice counts twice for the test, and once for the map, and the    *)
(* conversion adds nothing.                                                *)
THEOREM SharesFitVector ==
  ASSUME NEW pairs \in Seq(Int \X Nat)
  PROVE  Fits(ConvertStringToMap(pairs))
<1> DEFINE D == DOMAIN pairs
           K == KeysOf(pairs)
           map == [k \in K |-> pairs[LastOf(pairs, k)][2]]
           last == [k \in K |-> LastOf(pairs, k)]
           share == [i \in D |-> pairs[i][2]]
<1>0. pairs \in Seq(Int \X Int)
  OBVIOUS
<1>1. /\ IsFiniteSet(D) /\ IsFiniteSet(K)
      /\ \A k \in K : last[k] \in D /\ pairs[last[k]][1] = k
  BY <1>0, LastIsGiven
<1>2. \A i \in D : share[i] \in Nat
  OBVIOUS
<1>3. CASE Total(share) = 100
  <2>1. SumOver(share, D) = 100
    BY <1>3 DEF Total, SumOver
  <2>2. ConvertStringToMap(pairs) = map
    BY <1>3 DEF ConvertStringToMap
  <2>3. SumOver(map, K) <= SumOver(share, D)
    <3>1. \A k \in K : last[k] \in D /\ map[k] = share[last[k]]
      BY <1>1
    <3>2. \A k, l \in K : last[k] = last[l] => k = l
      BY <1>1
    <3> HIDE DEF K, D, map, last, share
    <3> QED
      BY ONLY <1>1, <1>2, <3>1, <3>2, SumImage
  <2>4. ShareMap(map) /\ DOMAIN map = K
    BY <1>0, <2>2, ConvertedIsShareMap
  <2>5. \A k \in K : map[k] \in Nat
    BY <1>1, <1>2
  <2> DEFINE P == Portions(map)
  <2> HIDE DEF K, D, map, share, last
  <2>6. /\ \A k \in K : P[k] \in Nat /\ P[k] <= map[k]
        /\ Total(P) \in Nat /\ Total(P) = SumOver(P, K)
    <3>1. /\ \A k \in K : /\ P[k] \in Nat
                          /\ map[k] > 0 => P[k] \in {map[k] - 1, map[k]}
                          /\ ~(map[k] > 0) => P[k] = 0
          /\ Total(P) \in Nat /\ Total(P) = SumOver(P, K)
      BY <2>4, PortionsAre, Zenon
    <3> HIDE DEF P
    <3>2. ASSUME NEW k \in K
          PROVE  P[k] \in Nat /\ P[k] <= map[k]
      <4>1. CASE map[k] > 0
        BY <2>5, <3>1, <4>1
      <4>2. CASE ~(map[k] > 0)
        BY <2>5, <3>1, <4>2
      <4> QED
        BY <4>1, <4>2
    <3> QED
      BY <3>1, <3>2
  <2> HIDE DEF P
  <2>7. SumOver(P, K) <= SumOver(map, K) /\ SumOver(map, K) \in Nat
    BY <1>1, <2>5, <2>6, SumMonotone, SumNat
  <2>8. Total(P) <= 100
    BY <2>1, <2>3, <2>6, <2>7
  <2> QED
    BY <2>2, <2>8 DEF Fits, P
<1>4. CASE Total(share) # 100
  <2>1. ConvertStringToMap(pairs) = NoShares
    BY <1>4 DEF ConvertStringToMap
  <2>2. /\ DOMAIN NoShares = {}
        /\ Total(Portions(NoShares))
             = SumOver(Portions(NoShares), DOMAIN NoShares)
    BY NoSharesIsShareMap, PortionsAre DEF NoShares
  <2> QED
    BY <2>1, <2>2, SumEmpty DEF Fits
<1> QED
  BY <1>3, <1>4

(* The part of a key ends at PortionsUpTo, and begins where that of the    *)
(* key before it ends.                                                     *)
LEMMA PartsInOrder ==
  ASSUME NEW map, ShareMap(map), NEW k \in DOMAIN map
  PROVE  /\ PortionsUpTo(map, k) \in Nat
         /\ PortionsUpTo(map, k) <= Total(Portions(map))
         /\ \A l \in DOMAIN map : l < k =>
              PortionsUpTo(map, l)
                <= PortionsUpTo(map, k) - Portions(map)[k]
         /\ \/ PortionsUpTo(map, k) = Portions(map)[k]
            \/ \E l \in DOMAIN map : /\ l < k
                                     /\ PortionsUpTo(map, l)
                                          = PortionsUpTo(map, k)
                                              - Portions(map)[k]
<1> DEFINE D == DOMAIN map
           P == Portions(map)
           U(l) == PortionsUpTo(map, l)
           S(l) == {m \in D : m <= l}
<1>1. /\ IsFiniteSet(D) /\ D \subseteq Int
      /\ \A l \in D : P[l] \in Nat
      /\ Total(P) = SumOver(P, D)
  BY PortionsAre DEF ShareMap
<1>2. \A l : U(l) = SumOver(P, S(l))
  BY DEF PortionsUpTo, SumOver
<1>3. \A l : IsFiniteSet(S(l)) /\ S(l) \subseteq D
  BY <1>1, FS_Subset
<1>4. \A l : \A m \in S(l) : P[m] \in Nat
  BY <1>1
<1> DEFINE R == S(k) \ {k}
<1>5. IsFiniteSet(R) /\ R \subseteq S(k) /\ \A m \in R : P[m] \in Nat
  BY <1>1, <1>3, FS_Subset
<1>6. k \in S(k) /\ k \in Int /\ P[k] \in Nat
  BY <1>1
<1>7. SumOver(P, S(k)) = P[k] + SumOver(P, R)
  <2> DEFINE T == S(k)
  <2>1. IsFiniteSet(T) /\ k \in T /\ \A m \in T : P[m] \in Int
    BY <1>3, <1>4, <1>6
  <2>2. R = T \ {k}
    OBVIOUS
  <2> HIDE DEF T, R, P
  <2>3. SumOver(P, T) = P[k] + SumOver(P, T \ {k})
    BY <2>1, SumRemove
  <2> QED
    BY <2>2, <2>3 DEF T
<1>8. SumOver(P, R) \in Nat
  <2> HIDE DEF P, R
  <2> QED
    BY <1>5, SumNat
<1>9. U(k) = P[k] + SumOver(P, R)
  BY <1>2, <1>7
<1>10. U(k) \in Nat /\ U(k) <= Total(P)
  <2> DEFINE T == S(k)
  <2>1. T \subseteq D
    BY <1>3
  <2> HIDE DEF T, P, D
  <2>2. SumOver(P, T) <= SumOver(P, D)
    BY <1>1, <2>1, SumSubset
  <2>3. U(k) = SumOver(P, T)
    BY <1>2 DEF T
  <2>4. U(k) \in Nat
    BY <1>6, <1>8, <1>9
  <2> QED
    BY <1>1, <2>2, <2>3, <2>4
<1>11. ASSUME NEW l \in D, l < k
       PROVE  U(l) <= SumOver(P, R)
  <2> DEFINE T == S(l)
  <2>1. T \subseteq R
    BY <1>1, <1>6, <1>11
  <2>2. U(l) = SumOver(P, T)
    BY <1>2
  <2> HIDE DEF T, P, R
  <2> QED
    BY <1>5, <2>1, <2>2, SumSubset
<1>12. CASE R = {}
  <2>1. SumOver(P, R) = 0
    BY <1>12, SumEmpty
  <2>2. U(k) = P[k]
    BY <1>6, <1>9, <2>1
  <2> QED
    BY <1>6, <1>8, <1>9, <1>10, <1>11, <2>2
<1>13. CASE R # {}
  <2> DEFINE l == Max(R)
  <2>1. R \subseteq Int
    BY <1>1
  <2>2. l \in R /\ \A m \in R : m <= l
    <3> HIDE DEF R
    <3> QED
      BY <1>5, <1>13, <2>1, MaxExists
  <2> HIDE DEF l
  <2>3. l \in D /\ l \in Int /\ l < k
    BY <1>1, <1>6, <2>2
  <2>4. S(l) = R
    BY <1>1, <1>6, <2>2, <2>3
  <2>5. U(l) = SumOver(P, R)
    BY <1>2, <2>4
  <2> HIDE DEF P, R, S, U
  <2>6. U(l) = U(k) - P[k]
    BY <1>6, <1>8, <1>9, <2>5
  <2>7. \A m \in D : m < k => U(m) <= U(k) - P[k]
    BY <1>6, <1>8, <1>9, <1>11
  <2> QED
    BY <1>10, <2>3, <2>6, <2>7 DEF U, P
<1> QED
  BY <1>12, <1>13

(* What an element of the vector is.                                       *)
LEMMA ElementIs ==
  ASSUME NEW map, ShareMap(map), NEW index \in 0 .. 99,
         NEW v, v = ParseMapToVector(map)[index]
  PROVE  /\ \/ v = Blank /\ Total(Portions(map)) <= index
            \/ v \in DOMAIN map /\ Portions(map)[v] > 0
         /\ \A k \in DOMAIN map \ {Blank} :
              v = k <=> /\ PortionsUpTo(map, k) - Portions(map)[k] <= index
                        /\ index < PortionsUpTo(map, k)
<1> DEFINE D == DOMAIN map
           P == Portions(map)
           U(k) == PortionsUpTo(map, k)
           keys == {k \in D : index < U(k)}
<1>1. /\ IsFiniteSet(D) /\ D \subseteq Int /\ index \in Nat
      /\ \A k \in D : P[k] \in Nat
      /\ Total(P) = SumOver(P, D)
  <2>1. /\ \A k \in D : P[k] \in Nat
        /\ Total(P) = SumOver(P, D)
    BY PortionsAre, Zenon
  <2> QED
    BY <2>1 DEF ShareMap
<1>2. v = IF keys = {} THEN Blank ELSE Min(keys)
  BY DEF ParseMapToVector
<1>3. CASE keys = {}
  <2>1. Total(P) <= index
    <3>1. CASE D = {}
      <4>1. SumOver(P, D) = 0
        BY <3>1, SumEmpty
      <4> QED
        BY <1>1, <4>1
    <3>2. CASE D # {}
      <4> DEFINE k == Max(D)
      <4>1. k \in D /\ \A l \in D : l <= k
        <5> HIDE DEF D
        <5> QED
          BY <1>1, <3>2, MaxExists
      <4> HIDE DEF k
      <4>2. {l \in D : l <= k} = D
        BY <4>1
      <4>3. U(k) = SumOver(P, D)
        BY <4>2 DEF PortionsUpTo, SumOver
      <4>4. U(k) \in Nat /\ ~(index < U(k))
        BY <1>3, <4>1, PartsInOrder
      <4> HIDE DEF U, P, D
      <4> QED
        BY <1>1, <4>3, <4>4
    <3> QED
      BY <3>1, <3>2
  <2>2. \A k \in D \ {Blank} : v # k /\ ~(index < U(k))
    BY <1>2, <1>3
  <2> QED
    BY <1>2, <1>3, <2>1, <2>2
<1>4. CASE keys # {}
  <2>1. IsFiniteSet(keys) /\ keys \subseteq Int
    BY <1>1, FS_Subset
  <2>2. v \in keys /\ \A k \in keys : v <= k
    <3> HIDE DEF keys
    <3> QED
      BY <1>2, <1>4, <2>1, MinExists
  <2>3. ASSUME NEW k \in D
        PROVE  v = k <=> U(k) - P[k] <= index /\ index < U(k)
    <3>0. k \in Int /\ v \in Int /\ v \in D /\ P[k] \in Nat
      BY <1>1, <2>2
    <3>1. /\ U(k) \in Nat
          /\ \A l \in D : l < k => U(l) <= U(k) - P[k]
          /\ \/ U(k) = P[k]
             \/ \E l \in D : l < k /\ U(l) = U(k) - P[k]
      BY PartsInOrder
    <3>2. \A l \in D : U(l) \in Nat
      BY PartsInOrder
    <3> HIDE DEF U, P
    <3>3. ASSUME v = k
          PROVE  U(k) - P[k] <= index /\ index < U(k)
      <4>1. index < U(k)
        BY <2>2, <3>3
      <4>2. ASSUME NEW l \in D, l < k
            PROVE  U(l) <= index
        <5>1. l \notin keys
          BY <1>1, <2>2, <3>0, <3>3, <4>2
        <5> QED
          BY <1>1, <3>2, <5>1
      <4>3. CASE U(k) = P[k]
        BY <1>1, <3>0, <4>1, <4>3
      <4>4. CASE \E l \in D : l < k /\ U(l) = U(k) - P[k]
        BY <4>1, <4>2, <4>4
      <4> QED
        BY <3>1, <4>3, <4>4
    <3>4. ASSUME U(k) - P[k] <= index, index < U(k)
          PROVE  v = k
      <4>1. k \in keys
        BY <3>4
      <4>2. v <= k
        BY <2>2, <4>1
      <4>3. ~(v < k)
        <5> SUFFICES ASSUME v < k
                     PROVE  FALSE
          OBVIOUS
        <5>1. U(v) <= U(k) - P[k]
          BY <3>0, <3>1
        <5>2. index < U(v)
          BY <2>2
        <5> QED
          BY <1>1, <3>0, <3>1, <3>2, <3>4, <5>1, <5>2
      <4> QED
        BY <3>0, <4>2, <4>3
    <3> QED
      BY <3>3, <3>4
  <2>4. v \in D /\ P[v] > 0
    <3>1. v \in D /\ P[v] \in Nat /\ U(v) \in Nat
      BY <1>1, <2>2, PartsInOrder
    <3>2. U(v) - P[v] <= index /\ index < U(v)
      BY <2>3, <3>1
    <3> HIDE DEF U, P
    <3> QED
      BY <1>1, <3>1, <3>2
  <2> QED
    BY <2>3, <2>4
<1> QED
  BY <1>3, <1>4

(* Every key has the part of the vector that its share asks for.           *)
LEMMA SharesAreKept ==
  ASSUME NEW map, ShareMap(map)
  PROVE  SharesKept(map)
<1> SUFFICES ASSUME Fits(map), NEW k \in DOMAIN map \ {Blank}
             PROVE  Cardinality({index \in 0 .. 99 :
                                   ParseMapToVector(map)[index] = k})
                      \in IF map[k] > 0 THEN {map[k] - 1, map[k]} ELSE {0}
  BY DEF SharesKept
<1> DEFINE u == PortionsUpTo(map, k)
           p == Portions(map)[k]
           part == {index \in 0 .. 99 : ParseMapToVector(map)[index] = k}
<1>1. p \in IF map[k] > 0 THEN {map[k] - 1, map[k]} ELSE {0}
  BY PortionsAre
<1>2. p \in Nat /\ u \in Nat /\ u <= 100 /\ p <= u
  <2>1. /\ p \in Nat /\ u \in Nat /\ u <= Total(Portions(map))
        /\ Total(Portions(map)) \in Nat /\ Total(Portions(map)) <= 100
    BY PortionsAre, PartsInOrder DEF Fits
  <2>2. \/ u = p
        \/ \E l \in DOMAIN map : PortionsUpTo(map, l) = u - p
    BY PartsInOrder
  <2>3. \A l \in DOMAIN map : PortionsUpTo(map, l) \in Nat
    BY PartsInOrder
  <2> HIDE DEF u, p
  <2> QED
    BY <2>1, <2>2, <2>3
<1>3. \A index \in 0 .. 99 :
        ParseMapToVector(map)[index] = k <=> u - p <= index /\ index < u
  BY ElementIs
<1> HIDE DEF u, p
<1>4. part = (u - p) .. (u - 1)
  <2>1. \A i : i \in part <=> i \in 0 .. 99 /\ u - p <= i /\ i < u
    BY <1>3
  <2>2. \A i \in Int : u - p <= i /\ i < u => i \in 0 .. 99
    BY <1>2
  <2>3. \A i : i \in (u - p) .. (u - 1) <=> i \in Int /\ u - p <= i /\ i < u
    BY <1>2
  <2>4. \A i : i \in 0 .. 99 => i \in Int
    OBVIOUS
  <2> HIDE DEF part
  <2>5. \A i : i \in part <=> i \in (u - p) .. (u - 1)
    BY <2>1, <2>2, <2>3, <2>4, Zenon
  <2> QED
    BY <2>5, Zenon
<1>5. Cardinality((u - p) .. (u - 1)) = p
  <2>1. u - p \in Int /\ u - 1 \in Int
    BY <1>2
  <2>2. Cardinality((u - p) .. (u - 1)) =
          IF u - p > u - 1 THEN 0 ELSE (u - 1) - (u - p) + 1
    BY <2>1, FS_Interval
  <2> QED
    BY <1>2, <2>2
<1> QED
  BY <1>1, <1>4, <1>5

-----------------------------------------------------------------------------
(* The list of events.                                                     *)

(* Three values are finitely many.                                         *)
LEMMA ThreeAreFinite == \A a, b, c : IsFiniteSet({a, b, c})
<1> SUFFICES ASSUME NEW a, NEW b, NEW c
             PROVE  IsFiniteSet({a, b, c})
  OBVIOUS
<1>1. IsFiniteSet({a} \cup {b}) /\ IsFiniteSet({c})
  BY FS_Singleton, FS_Union
<1>2. IsFiniteSet(({a} \cup {b}) \cup {c})
  BY <1>1, FS_Union
<1>3. ({a} \cup {b}) \cup {c} = {a, b, c}
  OBVIOUS
<1> QED
  BY <1>2, <1>3

(* The types of inputs are finitely many.                                  *)
LEMMA InputTypesFinite ==
  IsFiniteSet(InputType) /\ FocusInputType \subseteq InputType
  /\ "touch" \in FocusInputType
<1> DEFINE A == {"touch", "swap", "mouse"}
           B == {"keyboard", "element", "appswitch"}
           C == {"hardkey", "rotate", "knuckle"}
           D == {"pinch", "crown", "gestures"}
           E == {"idle", "keypress", "float"}
           F == {"collapse", "browser", "browser"}
<1>1. InputType = (((((A \cup B) \cup C) \cup D) \cup E) \cup F)
  BY DEF InputType, DefaultInputPercent
<1>2. /\ IsFiniteSet(A) /\ IsFiniteSet(B) /\ IsFiniteSet(C)
      /\ IsFiniteSet(D) /\ IsFiniteSet(E) /\ IsFiniteSet(F)
  BY ThreeAreFinite
<1>3. IsFiniteSet(((((A \cup B) \cup C) \cup D) \cup E) \cup F)
  <2> HIDE DEF A, B, C, D, E, F
  <2>1. IsFiniteSet((A \cup B) \cup C)
    BY <1>2, FS_Union
  <2>2. IsFiniteSet(((A \cup B) \cup C) \cup D)
    BY <1>2, <2>1, FS_Union
  <2>3. IsFiniteSet((((A \cup B) \cup C) \cup D) \cup E)
    BY <1>2, <2>2, FS_Union
  <2> QED
    BY <1>2, <2>3, FS_Union
<1>4. FocusInputType \subseteq InputType /\ "touch" \in FocusInputType
  BY DEF FocusInputType, FocusInputPercent, InputType, DefaultInputPercent
<1> QED
  BY <1>1, <1>3, <1>4

(* A quotient that is cut is no more than the quotient.                    *)
LEMMA ShareBounded ==
  ASSUME NEW left \in Nat, NEW d \in Nat, NEW s \in Nat \ {0}
  PROVE  Share(left, d, s) \in Int /\ s * Share(left, d, s) <= left * d
<1> DEFINE x == left * d
           q == x \div s
           r == x % s
<1>1. x \in Nat
  OBVIOUS
<1> HIDE DEF x
<1>2. q \in Int /\ r \in Nat /\ x = s * q + r
  BY <1>1
<1>3. Share(left, d, s) \in {q, q - 1}
  BY <1>1 DEF Share, x
<1> HIDE DEF q, r
<1>4. s * (q - 1) = s * q - s
  BY <1>2
<1>5. s * q \in Int
  BY <1>2
<1>6. s * q <= x
  BY <1>1, <1>2, <1>5
<1>7. CASE Share(left, d, s) = q
  BY <1>2, <1>6, <1>7 DEF x
<1>8. CASE Share(left, d, s) = q - 1
  <2>1. s * (q - 1) <= x
    BY <1>1, <1>4, <1>5, <1>6
  <2> QED
    BY <1>2, <1>8, <2>1 DEF x
<1> QED
  BY <1>3, <1>7, <1>8

(* The shares of what is left do not exceed it.                            *)
LEMMA SharesFit ==
  ASSUME NEW S, IsFiniteSet(S), NEW left \in Nat,
         NEW d, \A x \in S : d[x] \in Nat,
         NEW h, \A x \in S : h[x] = IF d[x] > 0
                                    THEN Share(left, d[x], SumOver(d, S))
                                    ELSE 0
  PROVE  /\ \A x \in S : h[x] \in Int
         /\ SumOver(h, S) \in Int /\ SumOver(h, S) <= left
<1> DEFINE s == SumOver(d, S)
<1>1. s \in Nat /\ \A x \in S : d[x] <= s
  BY SumNat
<1> HIDE DEF s
<1>2. CASE s = 0
  <2>1. \A x \in S : h[x] = 0
    BY <1>1, <1>2
  <2> QED
    BY <2>1, SumZero
<1>3. CASE s # 0
  <2> DEFINE a == [x \in S |-> s * h[x]]
             b == [x \in S |-> left * d[x]]
  <2>1. ASSUME NEW x \in S
        PROVE  h[x] \in Int /\ s * h[x] <= left * d[x]
    <3>1. CASE d[x] > 0
      <4>1. h[x] = Share(left, d[x], s)
        BY <3>1 DEF s
      <4>2. d[x] \in Nat
        OBVIOUS
      <4> QED
        BY <1>1, <1>3, <4>1, <4>2, ShareBounded
    <3>2. CASE ~(d[x] > 0)
      <4>1. h[x] = 0 /\ d[x] = 0
        BY <3>2
      <4> QED
        BY <1>1, <4>1
    <3> QED
      BY <3>1, <3>2
  <2>2. SumOver(h, S) \in Int
    BY <2>1, SumType
  <2>3. SumOver(a, S) = s * SumOver(h, S)
    <3>1. (\A x \in S : a[x] = s * h[x]) /\ s \in Int
      BY <1>1
    <3> HIDE DEF a
    <3> QED
      BY <2>1, <3>1, SumTimes
  <2>4. SumOver(b, S) = left * SumOver(d, S)
    <3>1. (\A x \in S : b[x] = left * d[x] /\ d[x] \in Int) /\ left \in Int
      OBVIOUS
    <3> HIDE DEF b
    <3> QED
      BY <3>1, SumTimes
  <2>5. SumOver(a, S) <= SumOver(b, S)
    <3>1. \A x \in S : a[x] \in Int /\ b[x] \in Int /\ a[x] <= b[x]
      BY <1>1, <2>1
    <3> HIDE DEF a, b
    <3> QED
      BY <3>1, SumMonotone
  <2> DEFINE H == SumOver(h, S)
  <2>6. H \in Int /\ s * H <= left * s
    BY <2>2, <2>3, <2>4, <2>5 DEF s
  <2> HIDE DEF H
  <2>7. H <= left
    <3> SUFFICES ASSUME H > left
                 PROVE  FALSE
      BY <2>6
    <3>1. H - left \in Nat \ {0}
      BY <2>6
    <3>2. s * H = s * left + s * (H - left)
      BY <1>1, <2>6
    <3>3. s * (H - left) > 0
      BY <1>1, <1>3, <3>1
    <3> QED
      BY <1>1, <2>6, <3>2, <3>3
  <2> QED
    BY <2>1, <2>2, <2>7 DEF H
<1> QED
  BY <1>2, <1>3

(* What is missing to 100 is touches.                                      *)
LEMMA TouchesFill ==
  ASSUME NEW count \in [InputType -> Int]
  PROVE  LET full == FillWithTouches(count)
         IN  /\ full \in [InputType -> Int]
             /\ \A t \in InputType : full[t] >= count[t]
             /\ \A t \in InputType \ {"touch"} : full[t] = count[t]
             /\ Total(full) \in Int /\ Total(full) >= 100
             /\ Total(count) <= 100 => Total(full) = 100
<1> DEFINE full == FillWithTouches(count)
           n == 100 - Total(count)
           m == Max({0, n})
<1>1. IsFiniteSet(InputType) /\ "touch" \in InputType
  BY InputTypesFinite
<1>2. Total(count) = SumOver(count, InputType) /\ Total(count) \in Int
  <2>1. Total(count) = SumOver(count, InputType)
    BY DEF Total, SumOver
  <2> QED
    BY <1>1, <2>1, SumType
<1>3. n \in Int
  BY <1>2
<1>4. m \in {0, n} /\ m >= 0 /\ m >= n
  <2> HIDE DEF n
  <2>0. {0, n, n} = {0, n}
    OBVIOUS
  <2>1. IsFiniteSet({0, n}) /\ {0, n} \subseteq Int /\ {0, n} # {}
    <3>1. IsFiniteSet({0, n, n})
      BY ThreeAreFinite
    <3> QED
      BY <1>3, <2>0, <3>1
  <2>2. m \in {0, n} /\ \A y \in {0, n} : y <= m
    BY <2>1, MaxExists
  <2> QED
    BY <1>3, <2>2
<1>5. full = [count EXCEPT !["touch"] = @ + m]
  BY DEF FillWithTouches
<1> HIDE DEF full, m
<1>6. m \in Int
  BY <1>3, <1>4
<1>7. /\ full \in [InputType -> Int]
      /\ full["touch"] = count["touch"] + m
      /\ \A t \in InputType \ {"touch"} : full[t] = count[t]
  BY <1>1, <1>5, <1>6
<1>8. SumOver(full, InputType) = SumOver(count, InputType) + m
  <2>1. SumOver(full, InputType) =
          SumOver(count, InputType) + (full["touch"] - count["touch"])
    BY <1>1, <1>7, SumChange
  <2> QED
    BY <1>1, <1>2, <1>6, <1>7, <2>1
<1>9. Total(full) = Total(count) + m
  <2>1. Total(full) = SumOver(full, InputType)
    BY <1>7 DEF Total, SumOver
  <2> QED
    BY <1>2, <1>8, <2>1
<1>10. \A t \in InputType : full[t] >= count[t]
  BY <1>1, <1>4, <1>6, <1>7
<1> QED
  BY <1>2, <1>4, <1>6, <1>7, <1>9, <1>10 DEF full

(* The percentages that EnvInit accepts.                                   *)
Accepted(percent) ==
  percent \in [InputType -> Nat] /\ Total(percent) <= 100

(* As SumOver, and a number.                                               *)
LEMMA TotalOfTypes ==
  ASSUME NEW f \in [InputType -> Int]
  PROVE  Total(f) = SumOver(f, InputType) /\ Total(f) \in Int
<1>1. Total(f) = SumOver(f, InputType)
  BY DEF Total, SumOver
<1> QED
  BY <1>1, InputTypesFinite, SumType

(* What EnvInit adds to percentages, in shares that fit, and touches.      *)
LEMMA ListOfShares ==
  ASSUME NEW percent, Accepted(percent),
         NEW h, \A t \in InputType : h[t] \in Int,
         SumOver(h, InputType) <= 100 - Total(percent),
         NEW count, count = [t \in InputType |-> percent[t] + h[t]]
  PROVE  /\ count \in [InputType -> Int]
         /\ Total(count) \in Int /\ Total(count) <= 100
<1>1. percent \in [InputType -> Int]
  BY DEF Accepted
<1>2. count \in [InputType -> Int]
  BY <1>1
<1>3. SumOver(count, InputType)
        = SumOver(percent, InputType) + SumOver(h, InputType)
  <2>1. \A t \in InputType : count[t] = percent[t] + h[t]
    OBVIOUS
  <2>2. \A t \in InputType : percent[t] \in Int
    BY <1>1
  <2> QED
    BY <2>1, <2>2, InputTypesFinite, SumPlus
<1>4. /\ Total(count) = SumOver(count, InputType)
      /\ Total(count) \in Int
      /\ Total(percent) = SumOver(percent, InputType)
      /\ Total(percent) \in Int
  BY <1>1, <1>2, TotalOfTypes
<1>5. SumOver(h, InputType) \in Int
  BY InputTypesFinite, SumType
<1> QED
  BY <1>2, <1>3, <1>4, <1>5

(* The list of "wukong exec": 100 events, and those that were given as     *)
(* often as their percentages say.                                         *)
LEMMA ListOfExec ==
  ASSUME NEW percent, Accepted(percent)
  PROVE  LET list == EventCounts(percent)
         IN  /\ list \in [InputType -> Int]
             /\ Total(list) = 100
             /\ \A t \in InputType :
                  percent[t] > 0 => /\ list[t] >= percent[t]
                                    /\ t # "touch" => list[t] = percent[t]
<1> DEFINE d == LastDefault(percent)
           left == 100 - Total(percent)
           h == [t \in InputType |->
                   IF d[t] > 0 THEN Share(left, d[t], Total(d)) ELSE 0]
           count == [t \in InputType |-> percent[t] + h[t]]
           same == [t \in InputType |->
                      percent[t] + IF d[t] > 0
                                   THEN Share(left, d[t], Total(d))
                                   ELSE 0]
<1>1. \A t \in InputType : DefaultInputPercent[t] \in Nat
  BY DEF InputType, DefaultInputPercent
<1>2. /\ d \in [InputType -> Nat]
      /\ \A t \in InputType : percent[t] > 0 => d[t] = 0
  BY <1>1 DEF LastDefault
<1>3. left \in Nat
  <2>1. Total(percent) \in Int /\ Total(percent) <= 100
    BY TotalOfTypes DEF Accepted
  <2> QED
    BY <2>1
<1>4. Total(d) = SumOver(d, InputType)
  BY <1>2, TotalOfTypes
<1> HIDE DEF d, left
<1>5. /\ \A t \in InputType : h[t] \in Int
      /\ SumOver(h, InputType) <= left
  <2>1. \A t \in InputType :
          h[t] = IF d[t] > 0 THEN Share(left, d[t], SumOver(d, InputType))
                 ELSE 0
    BY <1>4
  <2>2. \A t \in InputType : d[t] \in Nat
    BY <1>2
  <2> HIDE DEF h
  <2> QED
    BY <1>3, <2>1, <2>2, InputTypesFinite, SharesFit
<1>6. EventCounts(percent) = FillWithTouches(count)
  <2>1. EventCounts(percent) = FillWithTouches(same)
    BY DEF EventCounts, d, left
  <2>2. same = count
    OBVIOUS
  <2> QED
    BY <2>1, <2>2
<1>7. /\ count \in [InputType -> Int]
      /\ Total(count) \in Int /\ Total(count) <= 100
  <2> HIDE DEF h
  <2> QED
    BY <1>5, ListOfShares DEF left
<1>8. \A t \in InputType : percent[t] > 0 => count[t] = percent[t]
  <2> SUFFICES ASSUME NEW t \in InputType, percent[t] > 0
               PROVE  count[t] = percent[t]
    OBVIOUS
  <2>1. d[t] = 0 /\ percent[t] \in Nat
    BY <1>2 DEF Accepted
  <2>2. h[t] = 0
    BY <2>1
  <2> HIDE DEF h
  <2> QED
    BY <2>1, <2>2
<1> HIDE DEF count
<1>9. LET full == FillWithTouches(count)
      IN  /\ full \in [InputType -> Int]
          /\ \A t \in InputType : full[t] >= count[t]
          /\ \A t \in InputType \ {"touch"} : full[t] = count[t]
          /\ Total(full) = 100
  BY <1>7, TouchesFill
<1> QED
  BY <1>6, <1>8, <1>9

(* The list of "wukong focus": at least 100 events, and those that were    *)
(* given as often as their percentages say, whatever is read behind the    *)
(* table of its defaults.                                                  *)
LEMMA ListOfFocus ==
  ASSUME NEW percent, Accepted(percent),
         NEW list \in FocusEventCounts(percent),
         \A t \in InputType \ FocusInputType : percent[t] = 0
  PROVE  /\ list \in [InputType -> Int]
         /\ Total(list) >= 100
         /\ \A t \in InputType :
              percent[t] > 0 => /\ list[t] >= percent[t]
                                /\ t # "touch" => list[t] = percent[t]
<1> DEFINE counting == {t \in FocusInputType : percent[t] = 0}
           part == [t \in counting |-> FocusInputPercent[t]]
           left == 100 - Total(percent)
           divided == FocusDivide(percent)
<1>1. /\ \A t \in InputType : percent[t] \in Nat
      /\ Total(percent) \in Int
  BY TotalOfTypes DEF Accepted
<1>2. left \in Nat
  <2>1. Total(percent) <= 100
    BY DEF Accepted
  <2> QED
    BY <1>1, <2>1
<1>3. /\ \A t \in counting : part[t] \in Nat /\ part[t] # 0
      /\ IsFiniteSet(counting) /\ DOMAIN part = counting
  <2>1. \A t \in FocusInputType :
          FocusInputPercent[t] \in Nat /\ FocusInputPercent[t] # 0
    BY DEF FocusInputType, FocusInputPercent
  <2>2. counting \subseteq InputType
    BY InputTypesFinite
  <2> QED
    BY <2>1, <2>2, InputTypesFinite, FS_Subset
<1>4. Total(part) = SumOver(part, counting)
  BY DEF Total, SumOver
<1>5. \A t \in counting : Share(left, part[t], Total(part)) \in Int
  <2> SUFFICES ASSUME NEW t \in counting
               PROVE  Share(left, part[t], Total(part)) \in Int
    OBVIOUS
  <2> HIDE DEF part, counting, left
  <2>1. Total(part) \in Nat /\ part[t] <= Total(part)
    BY <1>3, <1>4, SumNat
  <2>2. part[t] \in Nat /\ part[t] # 0 /\ Total(part) \in Nat \ {0}
    BY <1>3, <2>1
  <2> QED
    BY <1>2, <2>2, ShareBounded
<1>6. /\ divided \in [InputType -> Int]
      /\ \A t \in InputType : percent[t] > 0 => divided[t] = percent[t]
  <2>1. divided = [t \in InputType |->
                     percent[t] + IF t \in counting
                                  THEN Share(left, FocusInputPercent[t],
                                             Total(part))
                                  ELSE 0]
    BY DEF FocusDivide
  <2>2. \A t \in counting :
          /\ percent[t] = 0
          /\ Share(left, FocusInputPercent[t], Total(part)) \in Int
    BY <1>5
  <2> HIDE DEF divided, counting, part, left
  <2> QED
    BY <1>1, <2>1, <2>2
<1>7. PICK t \in InputType \ FocusInputType, n \in Nat :
        list = FillWithTouches([divided EXCEPT ![t] = n])
  <2> DEFINE rest == /\ Total(percent) < 100
                     /\ \E u \in FocusInputType : percent[u] = 0
             numbers == IF rest THEN Strays ELSE {0}
  <2>0. FocusEventCounts(percent) =
          {FillWithTouches([divided EXCEPT ![u] = v]) :
             u \in InputType \ FocusInputType, v \in numbers}
    BY DEF FocusEventCounts
  <2> HIDE DEF divided, rest
  <2>3. numbers \subseteq Nat
    BY StraysAssumption
  <2> HIDE DEF numbers
  <2>1. PICK t \in InputType \ FocusInputType, n \in numbers :
          list = FillWithTouches([divided EXCEPT ![t] = n])
    BY <2>0
  <2>2. n \in Nat
    BY <2>3
  <2> QED
    BY <2>1, <2>2
<1> DEFINE count == [divided EXCEPT ![t] = n]
<1> HIDE DEF divided
<1>8. /\ count \in [InputType -> Int]
      /\ \A u \in InputType : percent[u] > 0 => count[u] = percent[u]
  BY <1>1, <1>6, <1>7
<1> HIDE DEF count
<1>9. /\ list \in [InputType -> Int]
      /\ \A u \in InputType : list[u] >= count[u]
      /\ \A u \in InputType \ {"touch"} : list[u] = count[u]
      /\ Total(list) >= 100
  <2>1. list = FillWithTouches(count)
    BY <1>7 DEF count
  <2> QED
    BY <1>8, <2>1, TouchesFill
<1> QED
  BY <1>8, <1>9

(* The percentages and the shares, in every state.  Only "wukong exec"     *)
(* takes shares, "wukong special" no percentages, and "wukong focus" only  *)
(* those of its table.                                                     *)
PercentInv ==
  /\ inputPercent \in [InputType -> Nat]
  /\ requested \in [InputType -> Int]
  /\ \A t \in InputType :
       requested[t] > 0 => inputPercent[t] = ToPercent(requested[t])
  /\ ShareMap(fingers)
  /\ ShareMap(directions)
  /\ command = "special" => \A t \in InputType : ~(requested[t] > 0)
  /\ command = "focus" =>
       \A t \in InputType \ FocusInputType : inputPercent[t] = 0

(* The list EnvInit has made: long enough, and with the events asked for.  *)
EventsMade ==
  /\ Total(eventCount) >= 100
  /\ command = "exec" => Total(eventCount) = 100
  /\ \A t \in InputType :
       inputPercent[t] > 0 =>
         /\ eventCount[t] \in Int
         /\ eventCount[t] >= inputPercent[t]
         /\ t # "touch" => eventCount[t] = inputPercent[t]

EventsInv == pc \in {"appInfo", "ready"} /\ command # "special" => EventsMade

(* Nothing is drawn before the options are settled.                        *)
DrawnInv ==
  KnucklesAsGiven /\ (drawn.input # "none" => pc \in {"ready", "rejected"})

-----------------------------------------------------------------------------

(* A percentage that is given.                                             *)
LEMMA PercentGiven ==
  ASSUME PercentInv, command # "special",
         NEW t, NEW p \in Percents, SetPercent(t, p),
         command' = command,
         command = "focus" => t \in FocusInputType
  PROVE  PercentInv'
<1>1. p \in Nat /\ ToPercent(p) \in Nat
  <2>1. p \in Nat
    BY PercentsAssumption
  <2> QED
    BY <2>1, PercentLost
<1>2. /\ inputPercent' = [inputPercent EXCEPT ![t] = ToPercent(p)]
      /\ requested' = [requested EXCEPT ![t] = p]
      /\ fingers' = fingers /\ directions' = directions
  BY DEF SetPercent, shareVars
<1>3. /\ inputPercent \in [InputType -> Nat]
      /\ requested \in [InputType -> Int]
      /\ \A u \in InputType :
           requested[u] > 0 => inputPercent[u] = ToPercent(requested[u])
      /\ command = "focus" =>
           \A u \in InputType \ FocusInputType : inputPercent[u] = 0
  BY DEF PercentInv
<1>4. ShareMap(fingers)' /\ ShareMap(directions)'
  <2>1. ShareMap(fingers) /\ ShareMap(directions)
    BY DEF PercentInv
  <2> QED
    BY <1>2, <2>1
<1>5. /\ inputPercent' \in [InputType -> Nat]
      /\ requested' \in [InputType -> Int]
  <2> DEFINE q == ToPercent(p)
  <2>1. q \in Nat /\ p \in Int
    BY <1>1
  <2>2. inputPercent' = [inputPercent EXCEPT ![t] = q]
    BY <1>2
  <2> HIDE DEF q
  <2>3. inputPercent' \in [InputType -> Nat]
    BY <1>3, <2>1, <2>2
  <2>4. requested' \in [InputType -> Int]
    BY <1>2, <1>3, <2>1
  <2> QED
    BY <2>3, <2>4
<1>6. \A u \in InputType :
        requested'[u] > 0 => inputPercent'[u] = ToPercent(requested'[u])
  BY <1>2, <1>3
<1>7. command' = "focus" =>
        \A u \in InputType \ FocusInputType : inputPercent'[u] = 0
  BY <1>2, <1>3
<1> QED
  BY <1>4, <1>5, <1>6, <1>7 DEF PercentInv

(* Nothing of what PercentInv is about changes.                            *)
LEMMA PercentSettled ==
  ASSUME PercentInv, command' = command,
         UNCHANGED <<inputPercent, requested, fingers, directions>>
  PROVE  PercentInv'
<1>1. ShareMap(fingers)' /\ ShareMap(directions)'
  BY DEF PercentInv
<1> QED
  BY <1>1 DEF PercentInv

(* An argument of -f or -D that is accepted.                               *)
LEMMA SharesGiven ==
  ASSUME PercentInv, command' = command,
         UNCHANGED <<inputPercent, requested>>,
         NEW argument \in FingerArguments \cup DirectionArguments,
         \/ fingers' = fingers
         \/ fingers' = ConvertStringToMap(argument),
         \/ directions' = directions
         \/ directions' = ConvertStringToMap(argument)
  PROVE  PercentInv'
<1>1. ShareMap(ConvertStringToMap(argument))
  <2>1. argument \in Seq(Int \X Int)
    BY SharesAssumption
  <2> QED
    BY <2>1, ConvertedIsShareMap
<1>2. ShareMap(fingers') /\ ShareMap(directions')
  BY <1>1 DEF PercentInv
<1> QED
  BY <1>2 DEF PercentInv

(* What an option does to the percentages and the shares.                  *)
LEMMA OptionKeepsPercents ==
  ASSUME PercentInv, OneOption
  PROVE  PercentInv'
<1>0. command' = command
  BY OptionParses
<1>1. CASE UNCHANGED percentVars
  BY <1>0, <1>1, PercentSettled DEF percentVars, shareVars
<1>2. ASSUME command = "exec", NEW t, NEW p \in Percents,
             SetInputPercent(t, p)
      PROVE  PercentInv'
  <2>1. CASE UNCHANGED percentVars
    BY <1>1, <2>1
  <2>2. CASE SetPercent(t, p)
    BY <1>0, <1>2, <2>2, PercentGiven
  <2> QED
    BY <1>2, <2>1, <2>2 DEF SetInputPercent
<1>3. ASSUME NEW argument \in FingerArguments, SetFinger(argument)
      PROVE  PercentInv'
  <2>1. /\ UNCHANGED <<inputPercent, requested, directions>>
        /\ \/ fingers' = fingers
           \/ fingers' = ConvertStringToMap(argument)
    BY <1>3 DEF SetFinger
  <2> QED
    BY <1>0, <2>1, SharesGiven
<1>4. ASSUME NEW argument \in DirectionArguments, SetDirection(argument)
      PROVE  PercentInv'
  <2>1. /\ UNCHANGED <<inputPercent, requested, fingers>>
        /\ \/ directions' = directions
           \/ directions' = ConvertStringToMap(argument)
    BY <1>4 DEF SetDirection
  <2> QED
    BY <1>0, <2>1, SharesGiven
<1>5. ASSUME command = "focus",
             NEW t \in FocusInputType, NEW p \in Percents,
             FocusSetInputPercent(t, p)
      PROVE  PercentInv'
  BY <1>0, <1>5, PercentGiven DEF FocusSetInputPercent
<1>6. CASE command = "exec" /\ PlainOption
  BY <1>1, <1>2, <1>3, <1>4, <1>6 DEF PlainOption
<1>7. CASE command = "focus" /\ FocusPlainOption
  BY <1>1, <1>5, <1>7 DEF FocusPlainOption
<1>8. CASE ListOption
  BY <1>1, <1>8 DEF ListOption
<1> QED
  BY <1>1, <1>6, <1>7, <1>8
  DEF OneOption, ExecOption, FocusOption, SpecialOption

(* EnvInit leaves the percentages as they are.                             *)
LEMMA EnvironmentKeepsPercents ==
  ASSUME EnvironmentInit
  PROVE  UNCHANGED <<command, flags, inputPercent, requested, shareVars,
                     fingers, directions>>
<1>1. CASE EnvInit
  BY <1>1 DEF EnvInit, EnvReady, shareVars
<1>2. CASE FocusEnvInit
  BY <1>2 DEF FocusEnvInit, EnvReady, shareVars
<1>3. CASE SpecialEnvInit /\ UNCHANGED percentVars
  BY <1>3 DEF SpecialEnvInit, EnvReady, percentVars, shareVars
<1> QED
  BY <1>1, <1>2, <1>3 DEF EnvironmentInit

(* So does what comes after the options.                                   *)
LEMMA LaterKeepsPercents ==
  ASSUME \/ EndOfOptions /\ UNCHANGED percentVars
         \/ ReadApplications
         \/ SwitchApplication
         \/ GestureInput
         \/ UNCHANGED vars
  PROVE  UNCHANGED <<command, flags, percentVars, inputPercent, eventCount,
                     requested, fingers, directions>>
  BY DEF EndOfOptions, ReadApplications, GetAllAppInfo, SwitchApplication,
         GestureInput, vars, lineVars, percentVars, shareVars

(* Every step keeps them as they should be.                                *)
LEMMA PercentStep ==
  ASSUME PercentInv, [Next]_vars
  PROVE  PercentInv'
<1>1. CASE OneOption
  BY <1>1, OptionKeepsPercents
<1>2. CASE EnvironmentInit
  BY <1>2, EnvironmentKeepsPercents, PercentSettled
<1>3. CASE \/ EndOfOptions /\ UNCHANGED percentVars
           \/ ReadApplications
           \/ SwitchApplication
           \/ GestureInput
           \/ UNCHANGED vars
  BY <1>3, LaterKeepsPercents, PercentSettled
<1> QED
  BY <1>1, <1>2, <1>3 DEF Next, OneOption

-----------------------------------------------------------------------------

(* The list that EnvInit makes.                                            *)
LEMMA EnvironmentMakes ==
  ASSUME PercentInv, EnvironmentInit
  PROVE  EventsInv'
<1>1. SUFFICES ASSUME pc' \in {"appInfo", "ready"}, command' # "special"
               PROVE  EventsMade'
  BY DEF EventsInv
<1>2. UNCHANGED <<command, inputPercent>>
  BY EnvironmentKeepsPercents
<1>3. CASE command = "exec" /\ EnvInit
  <2>1. Total(inputPercent) <= 100 /\ eventCount' = EventCounts(inputPercent)
    BY <1>1, <1>3 DEF EnvInit, EnvReady
  <2>2. Accepted(inputPercent)
    BY <2>1 DEF PercentInv, Accepted
  <2>3. /\ Total(eventCount') = 100
        /\ eventCount' \in [InputType -> Int]
        /\ \A t \in InputType :
             inputPercent[t] > 0 =>
               /\ eventCount'[t] >= inputPercent[t]
               /\ t # "touch" => eventCount'[t] = inputPercent[t]
    BY <2>1, <2>2, ListOfExec
  <2> QED
    BY <1>2, <1>3, <2>3 DEF EventsMade
<1>4. CASE command = "focus" /\ FocusEnvInit
  <2>1. /\ Total(inputPercent) <= 100
        /\ eventCount' \in FocusEventCounts(inputPercent)
    BY <1>1, <1>4 DEF FocusEnvInit, EnvReady
  <2>2. /\ Accepted(inputPercent)
        /\ \A t \in InputType \ FocusInputType : inputPercent[t] = 0
    BY <1>4, <2>1 DEF PercentInv, Accepted
  <2>3. /\ Total(eventCount') >= 100
        /\ eventCount' \in [InputType -> Int]
        /\ \A t \in InputType :
             inputPercent[t] > 0 =>
               /\ eventCount'[t] >= inputPercent[t]
               /\ t # "touch" => eventCount'[t] = inputPercent[t]
    BY <2>1, <2>2, ListOfFocus
  <2> QED
    BY <1>2, <1>4, <2>3 DEF EventsMade
<1> QED
  BY <1>1, <1>2, <1>3, <1>4 DEF EnvironmentInit

(* Every step keeps the list as it should be.                              *)
LEMMA EventsStep ==
  ASSUME PercentInv, EventsInv, [Next]_vars
  PROVE  EventsInv'
<1>1. CASE OneOption
  BY <1>1, OptionParses DEF EventsInv
<1>2. CASE EnvironmentInit
  BY <1>2, EnvironmentMakes
<1>3. CASE \/ EndOfOptions /\ UNCHANGED percentVars
           \/ ReadApplications
           \/ SwitchApplication
           \/ GestureInput
           \/ UNCHANGED vars
  <2>1. pc' \in {"appInfo", "ready"} => pc \in {"appInfo", "ready"}
    BY <1>3
    DEF EndOfOptions, ReadApplications, GetAllAppInfo, SwitchApplication,
        GestureInput, lineVars, vars
  <2>2. UNCHANGED <<command, inputPercent, eventCount>>
    BY <1>3, LaterKeepsPercents
  <2>3. EventsMade' <=> EventsMade
    BY <2>2 DEF EventsMade
  <2> QED
    BY <2>1, <2>2, <2>3 DEF EventsInv
<1> QED
  BY <1>1, <1>2, <1>3 DEF Next, OneOption

(* A knuckle with -f.                                                      *)
LEMMA KnuckleAsGiven ==
  ASSUME PercentInv, GestureInput
  PROVE  KnucklesAsGiven'
<1>1. UNCHANGED fingers
  BY LaterKeepsPercents
<1>2. CASE KnuckleRandomInput /\ fingers # NoShares
  <2>1. PICK index \in 0 .. 99 :
          KnuckleAction(ParseMapToVector(fingers)[index])
    BY <1>2 DEF KnuckleRandomInput
  <2> DEFINE finger == ParseMapToVector(fingers)[index]
  <2>2. drawn'.touching = IF finger \in 1 .. 2 THEN finger ELSE 0
    BY <2>1 DEF KnuckleAction
  <2>3. /\ ShareMap(fingers)
        /\ \/ finger = Blank /\ Total(Portions(fingers)) <= index
           \/ finger \in DOMAIN fingers /\ Portions(fingers)[finger] > 0
    <3>1. ShareMap(fingers)
      BY DEF PercentInv
    <3> QED
      BY <3>1, ElementIs
  <2> DEFINE shared == {k \in DOMAIN fingers : fingers[k] > 0}
  <2>4. /\ Total(Portions(fingers)) \in Nat
        /\ \A k \in DOMAIN fingers : Portions(fingers)[k] > 0 => k \in shared
    <3>1. /\ Total(Portions(fingers)) \in Nat
          /\ \A k \in DOMAIN fingers :
               ~(fingers[k] > 0) => Portions(fingers)[k] = 0
      BY <2>3, PortionsAre, Zenon
    <3> QED
      BY <3>1
  <2> HIDE DEF finger
  <2>5. \/ finger = Blank /\ Total(Portions(fingers)) < 100
        \/ finger \in shared
    BY <2>3, <2>4
  <2>6. shared' = shared /\ fingers' = fingers
    BY <1>1
  <2> HIDE DEF shared
  <2>7. CASE finger \in 1 .. 2
    <3>1. finger \in shared
      BY <2>5, <2>7 DEF Blank
    <3> QED
      BY <2>2, <2>6, <2>7, <3>1 DEF KnucklesAsGiven, shared
  <2>8. CASE finger \notin 1 .. 2
    <3>1. ~(shared \subseteq 1 .. 2) \/ Total(Portions(fingers)) < 100
      BY <2>5, <2>8
    <3> QED
      BY <2>2, <2>6, <2>8, <3>1 DEF KnucklesAsGiven, shared
  <2> QED
    BY <2>7, <2>8
<1>3. CASE KnuckleRandomInput /\ fingers = NoShares
  BY <1>1, <1>3 DEF KnucklesAsGiven, NoShares
<1>4. CASE SwapRandomInput
  <2>1. PICK finger, touching :
          drawn' = [input |-> "swap", finger |-> finger,
                    touching |-> touching]
    BY <1>4, Zenon DEF SwapRandomInput
  <2> QED
    BY <2>1 DEF KnucklesAsGiven
<1> QED
  BY <1>2, <1>3, <1>4 DEF GestureInput

(* The fingers do not change after the first knuckle.                      *)
LEMMA DrawnStep ==
  ASSUME PercentInv, DrawnInv, [Next]_vars
  PROVE  DrawnInv'
<1>1. CASE GestureInput
  <2>1. pc' = "ready"
    BY <1>1 DEF GestureInput, lineVars
  <2> QED
    BY <1>1, <2>1, KnuckleAsGiven DEF DrawnInv
<1>2. CASE OneOption /\ UNCHANGED gestureVars
  <2>1. drawn'.input = "none"
    BY <1>2, OptionParses DEF DrawnInv, gestureVars
  <2> QED
    BY <2>1 DEF DrawnInv, KnucklesAsGiven
<1>3. CASE /\ \/ EnvironmentInit
              \/ EndOfOptions /\ UNCHANGED percentVars
              \/ ReadApplications
              \/ SwitchApplication
              \/ UNCHANGED vars
           /\ UNCHANGED gestureVars
  <2>1. UNCHANGED <<fingers, drawn>>
    BY <1>3, EnvironmentKeepsPercents, LaterKeepsPercents DEF gestureVars
  <2>2. pc \in {"ready", "rejected"} => pc' \in {"ready", "rejected"}
    BY <1>3, EnvironmentChecks, SwitchEnds
    DEF EndOfOptions, ReadApplications, GetAllAppInfo, lineVars, vars
  <2>3. KnucklesAsGiven'
    BY <2>1 DEF DrawnInv, KnucklesAsGiven
  <2> QED
    BY <2>1, <2>2, <2>3 DEF DrawnInv
<1> QED
  BY <1>1, <1>2, <1>3 DEF Next, OneOption, vars

(* The first state.                                                        *)
LEMMA InitPercents ==
  ASSUME Init
  PROVE  PercentInv /\ EventsInv /\ DrawnInv
<1>1. /\ inputPercent = [t \in InputType |-> 0]
      /\ requested = [t \in InputType |-> -1]
      /\ fingers = NoShares /\ directions = NoShares
  BY Zenon DEF Init, PercentInit
<1>2. pc = "parse"
  BY Zenon DEF Init, LineInit
<1>3. drawn.input = "none"
  BY DEF Init, GestureInit
<1>4. PercentInv
  <2>1. ShareMap(fingers) /\ ShareMap(directions)
    BY <1>1, NoSharesIsShareMap
  <2> QED
    BY <1>1, <2>1, InputTypesFinite DEF PercentInv
<1> QED
  BY <1>2, <1>3, <1>4 DEF EventsInv, DrawnInv, KnucklesAsGiven

(* What is true of the percentages and the inputs in every state.          *)
LEMMA PercentsHold == Spec => [](PercentInv /\ EventsInv /\ DrawnInv)
<1>1. Init => PercentInv /\ EventsInv /\ DrawnInv
  BY InitPercents
<1>2. PercentInv /\ EventsInv /\ DrawnInv /\ [Next]_vars =>
        (PercentInv /\ EventsInv /\ DrawnInv)'
  BY PercentStep, EventsStep, DrawnStep
<1> QED
  BY <1>1, <1>2, PTL DEF Spec

(* A step that draws from the list always finds an event, whatever the     *)
(* percentages and the rounding of the shares.                             *)
THEOREM EventListCorrect == Spec => []EventListFull
<1>1. EventsInv => EventListFull
  BY DEF EventsInv, EventsMade, EventListFull
<1> QED
  BY <1>1, PercentsHold, PTL

(* The percentages that were given, and the shares where the vector has    *)
(* room for them (SharesFitVector), are in what is drawn from.             *)
THEOREM PercentsCorrect == Spec => []GivenPercentKept
<1>1. PercentInv /\ EventsInv => GivenPercentKept
  <2> SUFFICES ASSUME PercentInv, EventsInv, pc = "ready"
               PROVE  /\ \A t \in InputType :
                           requested[t] > 0 =>
                             /\ eventCount[t] >= requested[t] - 1
                             /\ t # "touch" => eventCount[t] <= requested[t]
                      /\ SharesKept(fingers) /\ SharesKept(directions)
    BY DEF GivenPercentKept
  <2>1. ASSUME NEW t \in InputType, requested[t] > 0
        PROVE  /\ eventCount[t] >= requested[t] - 1
               /\ t # "touch" => eventCount[t] <= requested[t]
    <3>1. /\ requested[t] \in Nat /\ command # "special"
          /\ inputPercent[t] = ToPercent(requested[t])
      BY <2>1 DEF PercentInv
    <3>2. /\ inputPercent[t] \in {requested[t] - 1, requested[t]}
          /\ inputPercent[t] > 0
      BY <2>1, <3>1 DEF ToPercent
    <3>3. /\ eventCount[t] \in Int
          /\ eventCount[t] >= inputPercent[t]
          /\ t # "touch" => eventCount[t] = inputPercent[t]
      BY <3>1, <3>2 DEF EventsInv, EventsMade
    <3> QED
      BY <3>1, <3>2, <3>3
  <2>2. SharesKept(fingers) /\ SharesKept(directions)
    BY SharesAreKept DEF PercentInv
  <2> QED
    BY <2>1, <2>2
<1> QED
  BY <1>1, PercentsHold, PTL

(* A knuckle is made with a number of fingers that has a share, or is left *)
(* out for the reasons KnucklesAsGiven names, for shares of any sign.      *)
THEOREM KnucklesCorrect == Spec => []KnucklesAsGiven
<1>1. DrawnInv => KnucklesAsGiven
  BY DEF DrawnInv
<1> QED
  BY <1>1, PercentsHold, PTL

=============================================================================
