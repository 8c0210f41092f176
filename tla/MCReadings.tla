----------------------------- MODULE MCReadings -----------------------------
EXTENDS Readings, TLC

CONSTANTS p1, p2

\* p1 carries a device time, p2 does not.
MCTimed      == {p1}
MCDeviceTime == p1 :> 1
=============================================================================
