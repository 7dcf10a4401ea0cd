---------------------------- MODULE CommandLine -----------------------------
(***************************************************************************)
(* What TestFlow::CheckVaildityCmd does with the command line of every     *)
(* test: it takes the options one at a time, in the order given, and stops *)
(* at the first that fails; then the flow's EnvInit looks at all of them,  *)
(* and the installed applications are read.  The options themselves are in *)
(* RandomTestOptions, FocusTestOptions and SpecialTestOptions.             *)
(***************************************************************************)
EXTENDS Integers

CONSTANT MaxOptions  \* bound of the model: the options of a command line

VARIABLES
  command,  \* the test that was asked for: "exec", "focus" or "special"
  pc,       \* "parse", "envInit", "appInfo", "ready" or "rejected" (or ended
            \* by undefined behaviour)
  given,    \* the number of options taken
  flags     \* the g_command flags that are true, what -X sets, and whether
            \* -p was given

lineVars == <<command, pc, given, flags>>

LineInit ==
  /\ command \in {"exec", "focus", "special"}
  /\ pc = "parse"
  /\ given = 0
  /\ flags = {}

-----------------------------------------------------------------------------

(* One more option: accepted, or the end of the command.                   *)
Option(accepted) ==
  /\ pc = "parse"
  /\ given < MaxOptions
  /\ given' = given + 1
  /\ pc' = IF accepted THEN "parse" ELSE "rejected"
  /\ UNCHANGED command

(* An option that sets a flag when what it needs is there.                 *)
SetFlag(f, accepted) ==
  /\ Option(accepted)
  /\ flags' = IF accepted THEN flags \cup {f} ELSE flags

(* An option that no later check looks at.                                 *)
IgnoredOption == Option(TRUE) /\ UNCHANGED flags

(* An unknown option, an argument that does not parse, or -h.              *)
RefusedOption == Option(FALSE) /\ UNCHANGED flags

(* No more options; there must have been one.                              *)
EndOfOptions ==
  /\ pc = "parse"
  /\ pc' = IF given = 0 THEN "rejected" ELSE "envInit"
  /\ UNCHANGED <<command, given, flags>>

(* The end of EnvInit.                                                     *)
EnvReady(accepted) ==
  /\ pc = "envInit"
  /\ pc' = IF accepted THEN "appInfo" ELSE "rejected"
  /\ UNCHANGED <<command, given, flags>>

(* There may be no application to test.                                    *)
GetAllAppInfo ==
  /\ pc = "appInfo"
  /\ pc' \in {"ready", "rejected"}
  /\ UNCHANGED <<command, given, flags>>

=============================================================================
