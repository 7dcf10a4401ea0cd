--------------------------- MODULE MCCommandLines ---------------------------
EXTENDS CommandLines

CONSTANTS app1, app2, service, unknown

(* Percentages for a type with a large, a small and no default and for a   *)
(* watch-only type, that do and do not survive the conversion.             *)

MCPercentOptions == {"touch", "element", "rotate", "swap", "crown",
                     "knuckle"}
MCPercents == {0, 30, 53, 100}

(* Shares that fill the vector, that lose a hundredth, and of one key      *)
(* twice, for two fingers and for more; one that is refused; with negative *)
(* ones, shares that the vector holds and shares that it does not.         *)
MCFingerArguments ==
  {<<<<1, 50>>, <<2, 50>>>>, <<<<1, 53>>, <<2, 47>>>>,
   <<<<1, 50>>, <<1, 50>>>>, <<<<1, 30>>, <<4, 70>>>>, <<<<1, 50>>>>,
   <<<<1, 60>>, <<2, 60>>, <<1, -20>>>>, <<<<1, 150>>, <<2, -50>>>>}
MCDirectionArguments == {<<<<1, 59>>, <<4, 41>>>>}
MCTwoFingers == {<<<<1, 50>>, <<2, 50>>>>}
MCBehind == {0, 3, 5}

MCInstalled == {app1, app2}
MCUnlaunched == {service}
MCStrays == {0, 49}
MCUnknown == {unknown}
MCDefaults == {app2, unknown}

(* Bound of the model: options with lists and options with percentages are *)
(* not taken together, as none of either kind reads what the others leave. *)
MCApart ==
  \/ requested = [t \in InputType |-> -1]
  \/ flags \cap {"allowBundle", "prohibit", "allowAbility", "blockAbility"} = {}

=============================================================================
