------------------------------ MODULE MCNotes ------------------------------
EXTENDS Notes

\* One MIDI slot, two layers: PLAY is a plain note on layer 0 and a chord on
\* layer 1, T2 a chord on layer 0; Fn + FWD changes the layer.
LayersLadders == <<{"PLAY", "T2"}, {"FWD"}>>
LayersCombo == [PLAY |-> "none", T2 |-> "other", FWD |-> "layer"]
LayersButtons == {0} \X {0, 1} \X {"PLAY", "T2", "FWD"}
LayersChord == [p \in LayersButtons |->
    CASE p = <<0, 0, "PLAY">> -> <<1>>
      [] p = <<0, 1, "PLAY">> -> <<2, 3, 4>>
      [] p = <<0, 0, "T2">>   -> <<5, 6>>
      [] p = <<0, 0, "FWD">>  -> <<6, 7, 8>>
      [] p = <<0, 1, "FWD">>  -> <<1, 4>>
      [] OTHER                -> <<>>]
LayersKind == [p \in LayersButtons |->
    IF LayersChord[p] = <<>> THEN "none" ELSE IF p = <<0, 0, "PLAY">> THEN "note" ELSE "chord"]
LayersPad == [s \in {0} |-> NoButton]

\* Slots 0 and 1 are MIDI, 2 and 3 Keyboard.  PLAY is a chord, in slot 1 a
\* profile switch and in slot 3 the tap pad; VOL is a chord in slot 0, elsewhere a
\* toggle, and with Fn the next profile; T4 is a note in slot 0, in slot 1 the tap
\* pad, and with Fn the mode flip.
ModesLadders == <<{"PLAY", "T4"}, {"VOL"}>>
ModesCombo == [PLAY |-> "none", T4 |-> "mode", VOL |-> "next"]
ModesButtons == (0 .. 3) \X {0} \X {"PLAY", "T4", "VOL"}
ModesKind == [p \in ModesButtons |->
    CASE p[3] = "VOL" -> IF p[1] = 0 THEN "chord" ELSE "toggle"
      [] p = <<1, 0, "PLAY">> -> "switch"
      [] p = <<0, 0, "T4">> -> "note"
      [] OTHER -> "chord"]
ModesChord == [p \in ModesButtons |->
    CASE p = <<0, 0, "PLAY">> -> <<1>>
      [] p = <<0, 0, "T4">> -> <<2>>
      [] p = <<0, 0, "VOL">> -> <<2, 3>>
      [] OTHER -> <<>>]
ModesPad == [s \in 0 .. 3 |-> CASE s = 1 -> "T4" [] s = 3 -> "PLAY" [] OTHER -> NoButton]
=============================================================================
