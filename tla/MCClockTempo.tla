---------------------------- MODULE MCClockTempo ----------------------------
(* Tempos 1 .. 4, the intervals of 4 .. 1 units; a profile's default is 1, *)
(* a hand sets 3, which no interval has.                                   *)
EXTENDS ClockTempo

MCConfigs == BOOLEAN
MCDefaults == {1}
MCHandTempos == {3}
=============================================================================
