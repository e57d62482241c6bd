------------------------------ MODULE MCFaders ------------------------------
(* A fader at a step between two CCs, and just inside the upper rail band, *)
(* where a heavy load leaves a reading one CC short; two layers; a profile *)
(* where it sends a CC and one where it sets the tempo.                    *)
EXTENDS Faders

MCRole(s) == IF s = "tempo" THEN "bpm" ELSE "cc"
MCPositions == {1855, 3653}
MCNoise == {-3, 3}
MCVolCodes == {0, 1220, 1820}
=============================================================================
