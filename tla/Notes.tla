------------------------------- MODULE Notes -------------------------------
(***************************************************************************)
(* The button path of the control loop (main.c): one tick drains the chord *)
(* ring, serves the host, sees a profile change, scans the two ladders and *)
(* routes the edges of the scan one by one - to a Fn combo, to the HID     *)
(* keyboard, or to MIDI.  Everything runs in the main thread; what makes   *)
(* it hard is the order of the host's, the hands' and the ring's events    *)
(* over several ticks.                                                     *)
(*                                                                         *)
(* A profile may make one button the tap pad of its clock: its edges set   *)
(* the tempo (ClockTempo has that) and go nowhere else.                    *)
(*                                                                         *)
(* Left out: live edits of the active profile, the panic combo (TrsOut has *)
(* it), transport buttons and controllers, which keep no note or key.      *)
(***************************************************************************)
EXTENDS ChordRing

CONSTANTS
    Ladders,   \* the two resistor ladders: for each the buttons it reads
    NoButton,  \* a ladder at rest
    Debounce,  \* consecutive reads that commit a ladder's new value
    Slots,     \* global profile slots; a mode flip lands on one of the other mode
    Keyboard,  \* the slots of the Keyboard bank
    Layers,    \* 0 .. NUM_LAYERS - 1
    Combo,     \* what a button means under Fn: "none" (PLAY), "mode", "next", "layer"
               \* or, of no effect here, "other" (brightness, battery)
    Kind,      \* the type of a button: Kind[slot, layer, button]
    Chord,     \* the note or notes it plays, low to high: Chord[slot, layer, button]
    Pad,       \* the tap pad of a profile's clock, or NoButton
    HostMay    \* what the host does over the config protocol: a subset of
               \* {"select", "flip"}, a profile of the bank or the other mode

Buttons == Ladders[1] \cup Ladders[2]

Played == Slots \X Layers \X Buttons

Notes == UNION {Range(Chord[p]) : p \in Played}

ASSUME NotesAssumption ==
    /\ DOMAIN Ladders = 1 .. 2 /\ Ladders[1] \cap Ladders[2] = {} /\ NoButton \notin Buttons
    /\ Debounce \in Nat \ {0} /\ 0 \in Layers /\ Keyboard \subseteq Slots
    /\ \A b \in Buttons : Combo[b] \in {"next", "layer"} => b \in Ladders[2]
    /\ \A s \in Slots : Pad[s] \in Buttons \cup {NoButton}
    /\ \A p \in Played : /\ Chord[p] \in Seq(Range(Chord[p]))
                         /\ Kind[p] = "note" => Chord[p] # <<>>

VARIABLES
    slot,       \* the active profile, librarian_active()
    seen,       \* last_active, the change detector's
    layer,      \* gesture_layer
    layer_now,  \* its value when the tick's routing began
    held,       \* the committed button of each ladder
    settled,    \* scans since a ladder's last edge, up to Debounce
    fn_down,    \* the Fn modifier's level in this tick
    combo,      \* buttons whose press a combo consumed
    pressed,    \* g_btn_press_layer: the layer of a button's last press
    pad,        \* clock_router_tap_button while the clock is on
    chord,      \* g_chord_notes: the latched notes of each button
    ring,       \* g_chord_tx
    toggles,    \* g_btn_toggle: the latches that are on
    keys,       \* g_kbd: buttons held down for the HID host
    wire,       \* notes sounding at the MIDI receiver
    purged,     \* notes that sound on because a flush purged their Off
    astray,     \* auxiliary: notes whose profile changed under the finger
    lost,       \* auxiliary: keys down when the host flipped the mode, or when
                \* another button became the tap pad
    unnoticed,  \* auxiliary: a profile came and went between two looks of the
                \* detector, while a chord was latched
    evt,        \* the edges of this scan still to be routed
    pc          \* the tick's progress: top, poll, detect, scan, route

vars == <<slot, seen, layer, layer_now, held, settled, fn_down, combo, pressed,
          pad, chord, ring, toggles, keys, wire, purged, astray, lost, unnoticed, evt, pc>>

hand == <<held, settled, fn_down, evt>>

Mode(s) == IF s \in Keyboard THEN "keyboard" ELSE "midi"

Silent == [b \in Buttons |-> <<>>]

Latched(c) == UNION {Range(c[b]) : b \in Buttons}

Init ==
    /\ slot \in Slots \ Keyboard /\ seen = slot
    /\ layer = 0 /\ layer_now = 0
    /\ held = [l \in 1 .. 2 |-> NoButton]
    /\ settled = [l \in 1 .. 2 |-> Debounce]
    /\ fn_down = FALSE /\ combo = {} /\ pressed = [b \in Buttons |-> 0]
    /\ pad = Pad[slot]
    /\ chord = Silent /\ ring = <<>> /\ toggles = {} /\ keys = {}
    /\ wire = {} /\ purged = {} /\ astray = {} /\ lost = {} /\ unnoticed = FALSE
    /\ evt = <<>> /\ pc = "top"

-----------------------------------------------------------------------------
(* The wire: midi_out_send of Ons and Offs, in their order.                *)

\* What sounds after the messages ms: the last one of a note decides.
Heard(w, ms) ==
    {n \in w \cup {m.note : m \in Range(ms)} :
        \A i \in DOMAIN ms :
           ms[i].note = n /\ (\A j \in i + 1 .. Len(ms) : ms[j].note # n) => ~ms[i].off}

\* Mutant: a flush that forgets to clear the latches.
FlushLatched ==
    /\ ring' = <<>>
    /\ wire' = wire \ Latched(chord)
    /\ purged' = purged
    /\ UNCHANGED chord

\* chord_flush_all: purge the ring, then send an Off for every latched note.
Flush ==
    /\ ring' = <<>>
    /\ chord' = Silent
    /\ wire' = wire \ Latched(chord)
    /\ purged' = wire' \cap (purged \cup {m.note : m \in {x \in Range(ring) : x.off}})

NoFlush == UNCHANGED <<ring, chord, wire, purged>>

\* The buttons whose press was routed and whose release was not, neither one
\* being a combo's or the tap pad's.
Down ==
    ((Range(held) \ {e.button : e \in {x \in Range(evt) : x.down}})
       \cup {e.button : e \in {x \in Range(evt) : ~x.down}}) \ (combo \cup {pad, NoButton})

\* Those that the active profile takes for a kind, on the layer of their press.
DownAs(kind) ==
    {b \in Down : Mode(slot) = "midi" /\ Kind[<<slot, pressed[b], b>>] = kind}

Fingered == {Chord[<<slot, pressed[b], b>>][1] : b \in DownAs("note")}

\* The auxiliary variables: "orphaned" says that the held keys are on their own.
Aftermath(orphaned) ==
    /\ astray' = wire' \cap (IF slot' # slot \/ pad' # pad THEN astray \cup Fingered ELSE astray)
    /\ lost' = keys' \cap (IF orphaned THEN lost \cup keys ELSE lost)
    /\ unnoticed' = (chord' # Silent /\ (unnoticed \/ (slot # seen /\ slot' = seen)))

\* The drain at the top of the tick.
Drain ==
    /\ pc = "top"
    /\ ring' = Drained(ring).q
    /\ wire' = Heard(wire, Drained(ring).out)
    /\ purged' = purged \cap wire'
    /\ pc' = "poll"
    /\ UNCHANGED <<slot, seen, layer, layer_now, hand, combo, pressed, pad, chord,
                   toggles, keys>>
    /\ Aftermath(FALSE)

\* config_cdc_poll: the host may select another profile, or flip the mode.
Poll ==
    /\ pc = "poll"
    /\ slot' \in {s \in Slots :
                   \/ s = slot
                   \/ "select" \in HostMay /\ Mode(s) = Mode(slot)
                   \/ "flip" \in HostMay /\ Mode(s) # Mode(slot)}
    /\ pc' = "detect"
    /\ UNCHANGED <<seen, layer, layer_now, hand, combo, pressed, pad, chord, ring,
                   toggles, keys, wire, purged>>
    /\ Aftermath(Mode(slot') # Mode(slot))

\* Mutant: a profile change that goes unseen.
DetectGone ==
    /\ pc = "detect"
    /\ \E gone \in BOOLEAN : IF gone THEN Flush ELSE NoFlush
    /\ pad' = Pad[slot] /\ seen' = slot
    /\ pc' = "scan"
    /\ UNCHANGED <<slot, layer, layer_now, hand, combo, pressed, toggles, keys>>
    /\ Aftermath(pad' # pad)

\* The two flushes between the poll and the scan: on a host that went away,
\* and on a profile that changed since the last look.
Detect ==
    /\ pc = "detect"
    /\ \E gone \in BOOLEAN : IF gone \/ slot # seen THEN Flush ELSE NoFlush
    /\ pad' = Pad[slot] /\ seen' = slot
    /\ pc' = "scan"
    /\ UNCHANGED <<slot, layer, layer_now, hand, combo, pressed, toggles, keys>>
    /\ Aftermath(pad' # pad)

\* buttons_scan: a ladder whose last edge is Debounce scans old may commit a
\* new value; its edges are a release of the old and a press of the new.
Edges(old, new) ==
    IF new = old THEN <<>>
    ELSE (IF old = NoButton THEN <<>> ELSE <<[button |-> old, down |-> FALSE]>>)
         \o (IF new = NoButton THEN <<>> ELSE <<[button |-> new, down |-> TRUE]>>)

Readings == {r \in [1 .. 2 -> Buttons \cup {NoButton}] :
               \A l \in 1 .. 2 : r[l] \in Ladders[l] \cup {NoButton}}

\* Mutant: one scan less of debounce.
ScanEarly ==
    /\ pc = "scan"
    /\ \E r \in Readings :
         /\ \A l \in 1 .. 2 : r[l] # held[l] => settled[l] >= Debounce - 2
         /\ held' = r
         /\ settled' = [l \in 1 .. 2 |->
                          IF r[l] # held[l] THEN 0
                          ELSE IF settled[l] < Debounce THEN settled[l] + 1 ELSE Debounce]
         /\ evt' = Edges(held[1], r[1]) \o Edges(held[2], r[2])
    /\ fn_down' \in BOOLEAN
    /\ layer_now' = layer
    /\ pc' = "route"
    /\ UNCHANGED <<slot, seen, layer, combo, pressed, pad, chord, ring, toggles, keys,
                   wire, purged>>
    /\ Aftermath(FALSE)

Scan ==
    /\ pc = "scan"
    /\ \E r \in Readings :
         /\ \A l \in 1 .. 2 : r[l] # held[l] => settled[l] >= Debounce - 1
         /\ held' = r
         /\ settled' = [l \in 1 .. 2 |->
                          IF r[l] # held[l] THEN 0
                          ELSE IF settled[l] < Debounce THEN settled[l] + 1 ELSE Debounce]
         /\ evt' = Edges(held[1], r[1]) \o Edges(held[2], r[2])
    /\ fn_down' \in BOOLEAN
    /\ layer_now' = layer
    /\ pc' = "route"
    /\ UNCHANGED <<slot, seen, layer, combo, pressed, pad, chord, ring, toggles, keys,
                   wire, purged>>
    /\ Aftermath(FALSE)

EndTick ==
    /\ pc = "route" /\ evt = <<>>
    /\ pc' = "top"
    /\ UNCHANGED <<slot, seen, layer, layer_now, hand, combo, pressed, pad, chord, ring,
                   toggles, keys, wire, purged>>
    /\ Aftermath(FALSE)

-----------------------------------------------------------------------------
(* Routing one edge.  combo_dispatch has the first word: a press while Fn  *)
(* is down is consumed, and so is the release of a consumed press.         *)

Routing(b, down) ==
    /\ pc = "route" /\ evt # <<>>
    /\ Head(evt) = [button |-> b, down |-> down]
    /\ evt' = Tail(evt)
    /\ UNCHANGED <<layer_now, held, settled, fn_down, pc>>

Consumed(b) == fn_down /\ Combo[b] # "none"

ComboPress(b) ==
    /\ Routing(b, TRUE) /\ Consumed(b)
    /\ combo' = combo \cup {b}
    /\ UNCHANGED <<pressed, toggles>>

\* Mutant: a mode flip that leaves the Keyboard session open.
ComboModeOpen(b) ==
    /\ ComboPress(b) /\ Combo[b] = "mode"
    /\ slot' \in {s \in Slots : Mode(s) # Mode(slot)}
    /\ seen' = slot' /\ pad' = Pad[slot']
    /\ Flush
    /\ UNCHANGED <<layer, keys>>
    /\ Aftermath(pad' # pad)

\* Fn + T4: flip the mode, end the Keyboard session, flush.
ComboMode(b) ==
    /\ ComboPress(b) /\ Combo[b] = "mode"
    /\ slot' \in {s \in Slots : Mode(s) # Mode(slot)}
    /\ seen' = slot' /\ pad' = Pad[slot']
    /\ keys' = {}
    /\ Flush
    /\ UNCHANGED layer
    /\ Aftermath(pad' # pad)

\* Fn + Vol: another profile of the bank; the flush is the next tick's.
ComboProfile(b) ==
    /\ ComboPress(b) /\ Combo[b] = "next"
    /\ slot' \in {s \in Slots : Mode(s) = Mode(slot)}
    /\ NoFlush
    /\ UNCHANGED <<pad, seen, keys, layer>>
    /\ Aftermath(FALSE)

\* Fn + FWD or RWD: another layer, and flush.
ComboLayer(b) ==
    /\ ComboPress(b) /\ Combo[b] = "layer"
    /\ layer' \in Layers \ {layer}
    /\ Flush
    /\ UNCHANGED <<pad, slot, seen, keys>>
    /\ Aftermath(FALSE)

ComboOther(b) ==
    /\ ComboPress(b) /\ Combo[b] = "other"
    /\ NoFlush
    /\ UNCHANGED <<pad, slot, seen, keys, layer>>
    /\ Aftermath(FALSE)

ComboRelease(b) ==
    /\ Routing(b, FALSE) /\ b \in combo
    /\ combo' = combo \ {b}
    /\ NoFlush
    /\ UNCHANGED <<pad, slot, seen, layer, pressed, toggles, keys>>
    /\ Aftermath(FALSE)

\* An edge no combo takes.
Passed(b, down) ==
    /\ Routing(b, down)
    /\ IF down THEN ~Consumed(b) ELSE b \notin combo
    /\ UNCHANGED <<layer, combo, pad>>

\* The tap pad of the moment takes presses and releases, whoever had the press.
TapPad(b, down) ==
    /\ Passed(b, down) /\ b = pad
    /\ NoFlush
    /\ UNCHANGED <<slot, seen, pressed, toggles, keys>>
    /\ Aftermath(FALSE)

\* Any other button.  The layer of a press is kept for its release.
Plain(b, down) ==
    /\ Passed(b, down) /\ b # pad
    /\ pressed' = IF down THEN [pressed EXCEPT ![b] = layer_now] ELSE pressed

\* Keyboard mode: the HID report holds the key from press to release.
Key(b, down) ==
    /\ Plain(b, down) /\ Mode(slot) = "keyboard"
    /\ keys' = IF down THEN keys \cup {b} ELSE keys \ {b}
    /\ NoFlush
    /\ UNCHANGED <<slot, seen, toggles>>
    /\ Aftermath(FALSE)

\* Mutant: a release on the layer of the moment.
EmitLayerNow(b, down) == layer_now

\* MIDI: the type is that of the active profile, on the layer of the press.
EmitLayer(b, down) == IF down THEN layer_now ELSE pressed[b]

Midi(b, down, kind) ==
    /\ Plain(b, down) /\ Mode(slot) = "midi"
    /\ Kind[<<slot, EmitLayer(b, down), b>>] = kind
    /\ UNCHANGED <<seen, keys>>

Mute(b, down) ==
    /\ Midi(b, down, "none")
    /\ NoFlush
    /\ UNCHANGED <<slot, toggles>>
    /\ Aftermath(FALSE)

Note(b, down) ==
    /\ Midi(b, down, "note")
    /\ LET n == Chord[<<slot, EmitLayer(b, down), b>>][1]
       IN  wire' = Heard(wire, <<IF down THEN On(n) ELSE Off(n)>>)
    /\ purged' = purged \cap wire'
    /\ UNCHANGED <<slot, ring, chord, toggles>>
    /\ Aftermath(FALSE)

ChordPress(b) ==
    /\ Midi(b, TRUE, "chord")
    /\ LET notes == Chord[<<slot, layer_now, b>>]
       IN  /\ chord' = [chord EXCEPT ![b] = notes]
           /\ ring' = PushedAll(ring, [k \in DOMAIN notes |-> On(notes[k])])
    /\ UNCHANGED <<slot, toggles, wire, purged>>
    /\ Aftermath(FALSE)

ChordRelease(b) ==
    /\ Midi(b, FALSE, "chord")
    /\ ring' = PushedAll(ring, [k \in DOMAIN chord[b] |-> Off(chord[b][k])])
    /\ chord' = [chord EXCEPT ![b] = <<>>]
    /\ UNCHANGED <<slot, toggles, wire, purged>>
    /\ Aftermath(FALSE)

\* A toggle flips its layer's latch on the press.
Toggle(b, down) ==
    /\ Midi(b, down, "toggle")
    /\ LET latch == [layer |-> EmitLayer(b, down), button |-> b]
       IN  toggles' = IF ~down THEN toggles
                      ELSE IF latch \in toggles THEN toggles \ {latch}
                      ELSE toggles \cup {latch}
    /\ NoFlush
    /\ UNCHANGED slot
    /\ Aftermath(FALSE)

\* A profile-switch button: select, flush and reset the toggles.
Switch(b, down) ==
    /\ Midi(b, down, "switch")
    /\ IF down
       THEN slot' \in {s \in Slots : Mode(s) = Mode(slot)} /\ Flush /\ toggles' = {}
       ELSE UNCHANGED <<slot, toggles>> /\ NoFlush
    /\ Aftermath(FALSE)

Route(b) ==
    \/ ComboMode(b) \/ ComboProfile(b) \/ ComboLayer(b) \/ ComboOther(b)
    \/ ComboRelease(b)
    \/ ChordPress(b) \/ ChordRelease(b)
    \/ \E down \in BOOLEAN :
         TapPad(b, down) \/ Key(b, down) \/ Mute(b, down) \/ Note(b, down) \/ Toggle(b, down) \/ Switch(b, down)

Next == Drain \/ Poll \/ Detect \/ Scan \/ EndTick \/ \E b \in Buttons : Route(b)

Spec == Init /\ [][Next]_vars

-----------------------------------------------------------------------------
(* Properties.                                                             *)

Messages == [off : BOOLEAN, note : Notes]

TypeOK ==
    /\ slot \in Slots /\ seen \in Slots
    /\ layer \in Layers /\ layer_now \in Layers
    /\ held \in Readings /\ settled \in [1 .. 2 -> 0 .. Debounce]
    /\ fn_down \in BOOLEAN /\ combo \subseteq Buttons
    /\ pressed \in [Buttons -> Layers] /\ pad \in Buttons \cup {NoButton}
    /\ chord \in [Buttons -> Seq(Notes)]
    /\ ring \in Seq(Messages) /\ Len(ring) <= RingSize
    /\ toggles \subseteq [layer : Layers, button : Buttons]
    /\ keys \subseteq Buttons /\ wire \subseteq Notes
    /\ purged \subseteq wire /\ astray \subseteq wire /\ lost \subseteq keys
    /\ unnoticed \in BOOLEAN
    /\ evt \in Seq([button : Buttons, down : BOOLEAN])
    /\ pc \in {"top", "poll", "detect", "scan", "route"}

\* Every note that sounds has its end in sight: the button that will release
\* it is down, or its Off is on the way, or it is one a purge forgot, or a plain
\* note whose profile or tap pad changed while its button was down (main.c,
\* 111-113: a note pressed on one layer is released on it whatever the layer
\* has become; 115-118: the latched set is what a release lets go of).  A chord's
\* end is also the flush of a change of profile the detector has still to see;
\* after one it never sees, a chord may be latched without a button.
EverySoundHasAnEnd ==
    pc \in {"top", "poll"} =>
        wire \subseteq Fingered \cup purged \cup astray
                     \cup {m.note : m \in {x \in Range(ring) : x.off}}
                     \cup (IF slot = seen /\ ~unnoticed
                           THEN UNION {Range(chord[b]) : b \in DownAs("chord")}
                           ELSE Latched(chord))

\* The notes no other button plays.
Own(b) == {n \in Notes : \A p \in Played : n \in Range(Chord[p]) => p[3] = b}

\* A chord that is held sounds once the ring has been drained: no flush,
\* layer step or late Off of another chord cuts what is still latched, except for
\* the notes that two buttons share.
HeldChordSounds ==
    ring = <<>> /\ slot = seen /\ ~unnoticed =>
        \A b \in Buttons : Range(chord[b]) \cap Own(b) \subseteq wire

\* The ring keeps up with the hands: it is never full, and when a button's edge
\* is routed the messages of its last edge are out.
InTime ==
    /\ Len(ring) < RingSize
    /\ pc = "route" /\ evt # <<>> =>
          LET b == Head(evt).button
              alone == Range(chord[b]) \ Latched([chord EXCEPT ![b] = <<>>])
          IN  \A m \in Range(ring) :
                 m.off = Head(evt).down => m.note \notin (IF m.off THEN Own(b) ELSE alone)

\* By the scan, a latched chord is one of the profile and the layer the
\* buttons now play: a change by dial, host, switch or mode flip released the
\* chords it found held (main.c, 961), unless the profile was left again before
\* the detector looked.
ChordOfTheProfile ==
    pc = "scan" /\ ~unnoticed =>
        \A b \in Buttons : chord[b] # <<>> => chord[b] = Chord[<<slot, layer, b>>]

\* The HID host sees only keys whose button is down (kbd_hid.h, 36-37: no
\* phantom holds after leaving Keyboard mode), but for those that were down when
\* the host flipped the mode (config_cdc.c, 48, calls librarian_set_mode and
\* nothing else) or when a profile with another tap pad came (main.c, 1212).
NoPhantomKeys ==
    pc = "top" => keys \subseteq Range(held) \cup lost
=============================================================================
