------------------------------ MODULE Buttons ------------------------------
(***************************************************************************)
(* The button scan (buttons.c) as operators: two readings of the resistor  *)
(* ladders, a debouncer for each ladder and a counter for the Track 1 + 4  *)
(* combo that enters the bootloader.  A reading is a code of the ADC,      *)
(* 0 .. 4095; one that fails counts as 0.                                  *)
(***************************************************************************)
EXTENDS Integers, Sequences

CONSTANT DfuScans  \* DFU_HOLD_SCANS

ASSUME DfuAssumption == DfuScans \in Nat \ {0}

\* What the ADC reads.
CodeMax == 4095
Code == 0 .. CodeMax

\* The buttons by their number, and none.
Play == 0
Track1 == 1
Track4 == 4
VolUp == 5
VolDown == 6
Fwd == 7
Rwd == 8
NoButton == -1
ButtonIds == 0 .. 8

DecodeTracks(v) ==
    CASE v < 110  -> NoButton
      [] v >= 110 /\ v < 300  -> Track1
      [] v >= 300 /\ v < 560  -> 2
      [] v >= 560 /\ v < 950  -> 3
      [] v >= 950 /\ v < 1500 -> Track4
      [] OTHER    -> Play

DecodeVol(v) ==
    CASE v < 200  -> NoButton
      [] v >= 200 /\ v < 560  -> Rwd
      [] v >= 560 /\ v < 950  -> VolDown
      [] v >= 950 /\ v < 1500 -> Fwd
      [] OTHER    -> VolUp

\* Track 1 and Track 4 together, between the plateaus of Track 4 and PLAY.
InDfuBand(v) == v >= 1280 /\ v <= 1390

\* How hard a pressed button pulls the rail that feeds ladders and faders.
RailClass(trk, vol) ==
    IF trk >= 1500 \/ vol >= 1500 THEN 2
    ELSE IF trk >= 110 \/ vol >= 200 THEN 1 ELSE 0

-----------------------------------------------------------------------------
(* The sticky debounce of a ladder.                                        *)

Settled == [committed |-> NoButton, cand |-> NoButton, cnt |-> 0]

MaybeButton == ButtonIds \cup {NoButton}

Debouncer == [committed : MaybeButton, cand : MaybeButton, cnt : 0 .. 2]

\* Mutant: the second reading commits.
DebouncedEarly(d, raw) ==
    IF raw = d.committed THEN [d EXCEPT !.cnt = 0]
    ELSE IF raw = d.cand THEN [d EXCEPT !.committed = raw, !.cnt = 0]
    ELSE [d EXCEPT !.cand = raw, !.cnt = 1]

\* buttons_debounce_step: three readings in a row commit a value.
Debounced(d, raw) ==
    IF raw = d.committed THEN [d EXCEPT !.cnt = 0]
    ELSE IF raw = d.cand
         THEN IF d.cnt = 2 THEN [d EXCEPT !.committed = raw, !.cnt = 0]
                           ELSE [d EXCEPT !.cnt = @ + 1]
    ELSE [d EXCEPT !.cand = raw, !.cnt = 1]

\* The edges of a committed change: the old button's release, the new one's press.
LadderEdges(old, new) ==
    IF old = new THEN <<>>
    ELSE (IF old = NoButton THEN <<>> ELSE <<[idx |-> old, pressed |-> FALSE]>>)
         \o (IF new = NoButton THEN <<>> ELSE <<[idx |-> new, pressed |-> TRUE]>>)

-----------------------------------------------------------------------------
(* The state of a scan, and one scan.                                      *)

Released == [trk |-> Settled, vol |-> Settled, scans |-> 0, dfu |-> FALSE]

ScanState == [trk : Debouncer, vol : Debouncer, scans : 0 .. DfuScans, dfu : BOOLEAN]

\* Mutant: the combo's band is decoded like any other reading.
ScannedBand(s, trk, vol) ==
    LET scans == IF InDfuBand(trk) THEN (IF s.scans < DfuScans THEN s.scans + 1 ELSE DfuScans)
                 ELSE 0
    IN  [trk   |-> Debounced(s.trk, DecodeTracks(trk)),
         vol   |-> Debounced(s.vol, DecodeVol(vol)),
         scans |-> scans,
         dfu   |-> s.dfu \/ scans = DfuScans]

\* buttons_scan_pure: in the band the ladder reads as nothing held.
Scanned(s, trk, vol) ==
    LET band  == InDfuBand(trk)
        scans == IF band THEN (IF s.scans < DfuScans THEN s.scans + 1 ELSE DfuScans) ELSE 0
    IN  [trk   |-> Debounced(s.trk, IF band THEN NoButton ELSE DecodeTracks(trk)),
         vol   |-> Debounced(s.vol, DecodeVol(vol)),
         scans |-> scans,
         dfu   |-> s.dfu \/ scans = DfuScans]

ScanEdges(s, t) ==
    LadderEdges(s.trk.committed, t.trk.committed) \o LadderEdges(s.vol.committed, t.vol.committed)
=============================================================================
