----------------------------- MODULE ShareMaps ------------------------------
(***************************************************************************)
(* The arguments of -f and -D of "wukong exec", such as 1,0.5,2,0.5: keys  *)
(* (numbers of fingers, directions) with their shares, and the vector of   *)
(* 100 keys that the steps draw from.  Shares are whole hundredths, of any *)
(* sign; their sum is exact here, in the code it is that of floats.        *)
(***************************************************************************)
EXTENDS Integers, Sequences, FiniteSetsExt

Total(map) == MapThenSumSet(LAMBDA k : map[k], DOMAIN map)

(* 100 times a share in single precision, cut to an integer: two hundredths*)
(* come out one too low (so do some shares above 1, that no vector holds). *)
ToPercent(p) == IF p \in {53, 59} THEN p - 1 ELSE p

(* The map of a string that is refused.                                    *)
NoShares == <<>>

KeysOf(pairs) == {pairs[i][1] : i \in DOMAIN pairs}
LastOf(pairs, k) == Max({i \in DOMAIN pairs : pairs[i][1] = k})

(* The shares must add up to 1.  Of a key that is given twice, both shares *)
(* are added and the last one is kept.                                     *)
ConvertStringToMap(pairs) ==
  IF Total([i \in DOMAIN pairs |-> pairs[i][2]]) = 100
  THEN [k \in KeysOf(pairs) |-> pairs[LastOf(pairs, k)][2]]
  ELSE NoShares

(* What an element of the vector is that no key was written to.            *)
Blank == 0

(* The elements a key is written to; a negative share has none.            *)
Portions(map) ==
  [k \in DOMAIN map |-> IF map[k] > 0 THEN ToPercent(map[k]) ELSE 0]

PortionsUpTo(map, k) ==
  MapThenSumSet(LAMBDA l : Portions(map)[l], {l \in DOMAIN map : l <= k})

(* The vector has room for all of them.  With a negative share the others  *)
(* may add up to more than 1.                                              *)
Fits(map) == Total(Portions(map)) <= 100

(* What is written behind the vector may end the program, or not.          *)
Survived(map) == IF Fits(map) THEN {TRUE} ELSE BOOLEAN

(* ParseMapToVector: the keys in their order, each as often as its share   *)
(* says; what the conversions leave over stays blank.                      *)
ParseMapToVector(map) ==
  [index \in 0 .. 99 |->
     LET keys == {k \in DOMAIN map : index < PortionsUpTo(map, k)}
     IN  IF keys = {} THEN Blank ELSE Min(keys)]

(* Every key has the part of the vector that its share asks for, or one    *)
(* less, and none for a negative share, where the vector holds them all:   *)
(* ParseMapToVector.  Nothing tells 0 fingers from a blank.                *)
SharesKept(map) ==
  Fits(map) =>
    \A k \in DOMAIN map \ {Blank} :
      Cardinality({index \in 0 .. 99 : ParseMapToVector(map)[index] = k})
        \in IF map[k] > 0 THEN {map[k] - 1, map[k]} ELSE {0}

=============================================================================
