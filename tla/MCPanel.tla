------------------------------ MODULE MCPanel ------------------------------
(* Readings of no button, Track 1, Track 4 and the combo of both on one     *)
(* ladder, of no button and FWD on the other.                               *)
EXTENDS Panel

MCTrackCodes == {0, 213, 1220, 1335}
MCVolCodes == {0, 1220}
=============================================================================
