-------------------------- MODULE MCRandomTestFlow --------------------------
EXTENDS RandomTestFlow

MCLimits == -1 .. 3
MCBothModes == {"count", "time"}

=============================================================================
