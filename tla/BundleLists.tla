---------------------------- MODULE BundleLists -----------------------------
(***************************************************************************)
(* Which applications a run may launch: the lists of WuKongUtil that -b    *)
(* and -p fill while the command line is read, the lists of installed      *)
(* applications that are read again by every option that needs them, and   *)
(* the applications that AppswitchInput and AppManager then ask for.       *)
(* When these operations are called is left to CommandLines.               *)
(*                                                                         *)
(* The lists are sets here: what is picked does not depend on their order, *)
(* nor on how often GetAllAppInfo has appended the same application.  The  *)
(* launcher service answers the same list whenever it is asked.  Abilities *)
(* are not told apart: an application is asked for by any of its own.      *)
(***************************************************************************)
EXTENDS FiniteSets

CONSTANTS
  Installed,    \* the applications with a launcher ability
  Unlaunched,   \* the applications installed without one
  Unknown,      \* names of no application
  Defaults      \* the applications that blockList_ holds without -p,
                \* installed or not

Bundle == Installed \cup Unlaunched \cup Unknown

VARIABLES
  allowList,        \* allowList_
  blockList,        \* blockList_
  bundleList,       \* bundleList_
  validBundleList,  \* validBundleList_
  inForce,          \* history: the block lists that a reading went by
  asked,            \* history: the application last asked for by name
  started           \* history: the application last started, if any

lists == <<allowList, blockList, bundleList, validBundleList, inForce>>
vars == <<lists, asked, started>>

Init ==
  /\ allowList = {} /\ blockList = Defaults
  /\ bundleList = {} /\ validBundleList = {}
  /\ inForce = {}
  /\ asked = {} /\ started = {}

-----------------------------------------------------------------------------
(* The options; each may be given any number of times.                     *)

(* Faulty: the block list is not consulted.                                *)
GetAllAppInfoUnblocked(blocked, added) ==
  /\ bundleList' = bundleList \cup Installed \cup added
  /\ validBundleList' = validBundleList \cup Installed
  /\ inForce' = inForce \cup {blocked}

(* What is appended to the lists: the block list of this moment counts, and*)
(* nothing that an earlier one let through is taken out again.             *)
GetAllAppInfo(blocked, added) ==
  /\ bundleList' = bundleList \cup Installed \cup added
  /\ validBundleList' = validBundleList \cup (Installed \ blocked)
  /\ inForce' = inForce \cup {blocked}

(* -b; an application without a launcher ability is added to those that    *)
(* can be started.  That a name is unknown, or also prohibited, is logged, *)
(* and the answer dropped by SetBlackWhiteSheet.                           *)
SetAllowList(names) ==
  /\ allowList' = names
  /\ GetAllAppInfo(blockList, names \cap Unlaunched)
  /\ UNCHANGED <<blockList, asked, started>>

SetBlockList(names) ==
  /\ blockList' = names
  /\ GetAllAppInfo(names, {})
  /\ UNCHANGED <<allowList, asked, started>>

(* -e and -E check their abilities against those of all applications; so   *)
(* does the end of CheckVaildityCmd read them.                             *)
ReadAgain ==
  /\ GetAllAppInfo(blockList, {})
  /\ UNCHANGED <<allowList, blockList, asked, started>>

SetAbilityList == ReadAgain

(* -C of a special test: its bundles are looked up in the same way.        *)
SetComponentList(names) ==
  /\ GetAllAppInfo(blockList, names \cap Unlaunched)
  /\ UNCHANGED <<allowList, blockList, asked, started>>

EndOfOptions == ReadAgain

-----------------------------------------------------------------------------
(* The launches.                                                           *)

(* The controller of the program is asked by the ability manager before an *)
(* application starts.                                                     *)
AllowAbilityStart(b) == b \notin blockList

(* The ability manager starts one of them, or refuses or fails.            *)
StartAbility(bundles) ==
  \/ UNCHANGED started
  \/ \E b \in bundles \cap (Installed \cup Unlaunched) :
       AllowAbilityStart(b) /\ started' = {b}

(* Faulty: the allow list comes second.                                    *)
CandidatesValidFirst ==
  IF validBundleList # {} THEN validBundleList
  ELSE IF allowList # {} THEN allowList
  ELSE bundleList

(* GetAbilityIndex.                                                        *)
Candidates ==
  IF allowList # {} THEN allowList
  ELSE IF validBundleList # {} THEN validBundleList
  ELSE bundleList

(* A candidate that is not in the list of bundles is "not found".          *)
RandomInput ==
  /\ \E b \in Candidates \cap bundleList : asked' = {b} /\ StartAbility({b})
  /\ UNCHANGED lists

(* The ability manager finds an application for a URI and its type: no list*)
(* of the program's own is looked at but by the controller.                *)
StartAbilityByUriAndType ==
  /\ StartAbility(Installed \cup Unlaunched)
  /\ UNCHANGED <<lists, asked>>

(* An ability of -e, of the first application of -b, whatever it is.       *)
StartAbilityOfFirst ==
  /\ \E b \in allowList : asked' = {b} /\ StartAbility({b})
  /\ UNCHANGED lists

-----------------------------------------------------------------------------

TypeOK ==
  /\ allowList \subseteq Bundle
  /\ blockList \subseteq Bundle
  /\ bundleList \subseteq Installed \cup Unlaunched
  /\ validBundleList \subseteq Installed
  /\ inForce \subseteq SUBSET Bundle
  /\ asked \subseteq Bundle
  /\ started \subseteq Installed \cup Unlaunched

(* A step is spent on asking for a prohibited application, which the       *)
(* controller refuses, only for one of these reasons: -b names it too, the *)
(* applications have been read while it was not prohibited, or have always *)
(* been read while all of them were.                                       *)
ProhibitedLaunchExplained ==
  asked \cap blockList # {} =>
    \/ asked \subseteq allowList
    \/ \E blocked \in inForce : asked \cap blocked = {}
    \/ \A blocked \in inForce : Installed \subseteq blocked

(* With -b, nothing else is asked for, whatever lists the other options    *)
(* have filled.                                                            *)
OnlyAllowedAsked == allowList # {} => asked \subseteq allowList

(* Every application of the allow list is found, unless its name is        *)
(* unknown.                                                                *)
AllowedAreFound ==
  allowList # {} => allowList \cap bundleList = allowList \ Unknown

=============================================================================
