--------------------------- MODULE MCWuKongLogger ---------------------------
(* A queue of two messages, so that it is full at times.                   *)
EXTENDS WuKongLogger

CONSTANTS main, crashDir

MCOthers == {crashDir}

=============================================================================
