-------------------------- MODULE FocusTestOptions --------------------------
(***************************************************************************)
(* The options of "wukong focus" and the list of events its EnvInit makes. *)
(* FocusTestFlow has its own copy of the code of RandomTestFlow, where the *)
(* table of defaults has entries for eight types only, and the loops still *)
(* run over all of them: for the others, the numbers of events are those   *)
(* found in the memory behind the table.                                   *)
(***************************************************************************)
EXTENDS RandomTestOptions

CONSTANT Strays  \* bound of the model: how many events such a number may give

ASSUME StraysAssumption == Strays \subseteq Nat

FocusInputPercent ==
  [touch |-> 10, swap |-> 3, mouse |-> 1, keyboard |-> 2, element |-> 70,
   appswitch |-> 10, hardkey |-> 2, rotate |-> 2]

FocusInputType == DOMAIN FocusInputPercent

FocusSetInputPercent(t, p) ==
  /\ Option(TRUE)
  /\ SetPercent(t, p)
  /\ flags' = flags \cup {f \in {"isAppStarted"} : t = "rotate" /\ p = 100}

FocusSetCount == SetCount

FocusSetTime == SetTime

(* -i, -s, -n, -f, -d, -Y, -y and -I: nothing else depends on them.        *)
FocusIgnoredOption == IgnoredOption

FocusRefusedOption == RefusedOption

FocusPlainOption ==
  \/ \E t \in PercentOptions \cap FocusInputType, p \in Percents :
       FocusSetInputPercent(t, p)
  \/ /\ \/ FocusSetCount
        \/ FocusSetTime
        \/ FocusIgnoredOption
        \/ FocusRefusedOption
     /\ UNCHANGED percentVars

-----------------------------------------------------------------------------

(* The rest, divided by the defaults that count.                           *)
FocusDivide(percent) ==
  LET counting == {t \in FocusInputType : percent[t] = 0}
      sum == Total([t \in counting |-> FocusInputPercent[t]])
  IN  [t \in InputType |->
         percent[t] + IF t \in counting
                      THEN Share(100 - Total(percent), FocusInputPercent[t], sum)
                      ELSE 0]

(* Where there is a rest to divide, and a default that counts, the types   *)
(* without an entry get any share of it (that of one of them is enough).   *)
FocusEventCounts(percent) ==
  LET divided == FocusDivide(percent)
      rest == /\ Total(percent) < 100
              /\ \E t \in FocusInputType : percent[t] = 0
  IN  {FillWithTouches([divided EXCEPT ![t] = n]) :
         t \in InputType \ FocusInputType, n \in IF rest THEN Strays ELSE {0}}

FocusEnvInit ==
  LET accepted == Total(inputPercent) <= 100
  IN  /\ EnvReady(accepted)
      /\ eventCount' \in IF accepted THEN FocusEventCounts(inputPercent)
                                     ELSE {eventCount}
      /\ UNCHANGED <<inputPercent, requested, shareVars>>

=============================================================================
