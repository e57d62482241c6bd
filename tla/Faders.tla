------------------------------- MODULE Faders -------------------------------
(***************************************************************************)
(* One fader of the control loop (main.c with control_logic.c and          *)
(* layer_takeover.h): the reading that is compensated for the sag of a     *)
(* pressed button, the suppression of jitter, and the soft takeover, which *)
(* after a layer step holds a fader back until it crosses the value the    *)
(* new layer last sent.  The faders are independent of each other; the     *)
(* volume ladder, whose buttons step the layer and the profile, is read    *)
(* and debounced as in Buttons, because the takeover depends on the tick   *)
(* in which a press is routed.  CCs are 0 .. 127 and readings 0 .. 4095,   *)
(* as in the code; the sets of positions and of noise are small.           *)
(***************************************************************************)
EXTENDS Buttons

CONSTANTS
    Layers,    \* 0 .. Layers - 1, 8 in the code
    Slots,     \* the profiles
    Role(_),   \* what the fader is in a profile: "cc", or "bpm" for the tempo
    Positions, \* where a hand may leave the fader, as ideal readings
    Noise,     \* how far a reading is off
    VolCodes   \* what the volume ladder may read

ASSUME FadersAssumption ==
    /\ Layers \in Nat \ {0}
    /\ \A s \in Slots : Role(s) \in {"cc", "bpm"}
    /\ Positions \subseteq Code /\ Noise \subseteq -15 .. 15
    /\ VolCodes \subseteq Code

VARIABLES
    pc,          \* the tick's progress: poll, detect, scan, route, fader
    pos,         \* the fader's position
    slot,        \* the librarian's active profile
    last_active, \* the profile the loop has seen
    layer,       \* gesture_layer
    layer_now,   \* the tick's copy of it
    vol,         \* the debouncer of the volume ladder
    evt,         \* its edges still to be routed
    rail,        \* rail_loaded of the tick: how hard buttons pull the rail
    settle, prev,  \* fader_settle, fader_rail_prev
    sent,        \* g_fader: {} or {last_sent_raw}
    catch,       \* g_takeover: {} or {what the fader waits for}
    arm,         \* g_takeover_arm
    memory,      \* g_layer_takeover: for each layer, {} or {what it last sent}
    said,        \* auxiliary: emissions, up to 3, since the fader moved or was
                 \* re-armed, or since it was read under another load than rail
    heard,       \* auxiliary: the fader has sent since the profile changed
    strayed,     \* auxiliary: a reading went to a profile the loop had not noticed
    missed       \* auxiliary: a read failed in the tick of the last layer step

scanning == <<vol, evt, rail>>
fader == <<sent, catch, arm, memory>>
aux == <<said, heard, strayed, missed>>
vars == <<pc, pos, slot, last_active, layer, layer_now, scanning, settle, prev, fader, aux>>

\* Of a value sent, "from" is the profile and of a catch, "on" is the layer it
\* was set up with; the code keeps neither.
Values == [cc : 0 .. 127, from : Slots]
Catches == [cc : 0 .. 127, from : Slots, above : BOOLEAN, on : 0 .. Layers - 1]

FADER_HYSTERESIS == 16
FADER_RAW_MIN == 32
FADER_RAW_MAX == 3650
Sag(class) == CASE class = 0 -> 0 [] class = 1 -> 10 [] class = 2 -> 20
SettleTicks == 2

Lower(a, b) == IF a < b THEN a ELSE b

\* The world's part: a pressed button lowers a reading in proportion.
Read(p, off, class) ==
    LET sagged == p - (p * Sag(class)) \div 1000 + off
    IN  IF sagged < 0 THEN 0 ELSE Lower(sagged, 4095)

\* fader_rail_compensate gives the drop back.
Compensated(raw, class) == Lower(raw + (raw * Sag(class)) \div 1000, 4095)

RawToCc(raw) ==
    IF raw <= FADER_RAW_MIN THEN 0
    ELSE IF raw >= FADER_RAW_MAX THEN 127
    ELSE ((raw - FADER_RAW_MIN) * 127) \div (FADER_RAW_MAX - FADER_RAW_MIN)

Distance(a, b) == IF a < b THEN b - a ELSE a - b

\* Mutant: no jitter window.
SpeaksAtAnyStep(last, raw, class) == \A r \in last : RawToCc(raw) # RawToCc(r)

\* Mutant: the window holds in the rail bands too.
SpeaksOutsideWindow(last, raw, class) ==
    \A r \in last :
        RawToCc(raw) # RawToCc(r) /\ Distance(raw, r) >= FADER_HYSTERESIS

\* fader_update_rail: a reading is worth a CC if it is another one and, unless
\* it is in a rail band with no button pressed, out of the jitter window.
Speaks(last, raw, class) ==
    \A r \in last :
        /\ RawToCc(raw) # RawToCc(r)
        /\ \/ Distance(raw, r) >= FADER_HYSTERESIS
           \/ class = 0 /\ (raw <= FADER_RAW_MIN \/ raw >= FADER_RAW_MAX)

\* fader_settle_step: a fresh press skips the reads of two ticks.
Settling(loaded, before, n) ==
    IF loaded /\ ~before THEN SettleTicks ELSE IF n > 0 THEN n - 1 ELSE 0

LayerIds == 0 .. Layers - 1

Init ==
    /\ pc = "poll" /\ pos \in Positions
    /\ slot \in Slots /\ last_active = slot /\ layer = 0 /\ layer_now = 0
    /\ vol = Settled /\ evt = <<>> /\ rail = 0 /\ settle = 0 /\ prev = FALSE
    /\ sent = {} /\ catch = {} /\ arm = FALSE /\ memory = [l \in LayerIds |-> {}]
    /\ said = 0 /\ heard = FALSE /\ strayed = FALSE /\ missed = FALSE

-----------------------------------------------------------------------------
(* The world and the host.                                                 *)

Move ==
    /\ pc = "poll"
    /\ pos' \in Positions \ {pos}
    /\ said' = 0
    /\ UNCHANGED <<pc, slot, last_active, layer, layer_now, scanning, settle, prev,
                   fader, heard, strayed, missed>>

\* config_cdc_poll: the host may make another profile the active one.
Poll ==
    /\ pc = "poll"
    /\ slot' \in Slots
    /\ pc' = "detect"
    /\ UNCHANGED <<pos, last_active, layer, layer_now, scanning, settle, prev, fader, aux>>

-----------------------------------------------------------------------------
(* The tick.                                                               *)

\* Mutant: the memory of the layers outlives the profile.
ForgottenButMemory ==
    /\ sent' = {} /\ catch' = {} /\ arm' = FALSE
    /\ memory' = memory
    /\ said' = 0 /\ heard' = FALSE /\ strayed' = FALSE /\ missed' = FALSE

\* Mutant: a catch under way outlives the profile.
ForgottenButCatch ==
    /\ sent' = {} /\ catch' = catch /\ arm' = FALSE
    /\ memory' = [l \in LayerIds |-> {}]
    /\ said' = 0 /\ heard' = FALSE /\ strayed' = FALSE /\ missed' = FALSE

\* faders_rearm and the clearing of the takeover.
Forgotten ==
    /\ sent' = {} /\ catch' = {} /\ arm' = FALSE
    /\ memory' = [l \in LayerIds |-> {}]
    /\ said' = 0 /\ heard' = FALSE /\ strayed' = FALSE /\ missed' = FALSE

\* The detector of a profile change.
Detect ==
    /\ pc = "detect"
    /\ IF slot # last_active THEN Forgotten ELSE UNCHANGED <<fader, aux>>
    /\ last_active' = slot
    /\ pc' = "scan"
    /\ UNCHANGED <<pos, slot, layer, layer_now, scanning, settle, prev>>

\* The volume ladder; the tracks ladder counts only as a load.
ScanTick ==
    /\ pc = "scan"
    /\ \E code \in VolCodes, other \in 0 .. 2 :
          /\ vol' = Debounced(vol, DecodeVol(code))
          /\ rail' = IF other > RailClass(0, code) THEN other ELSE RailClass(0, code)
    /\ evt' = LadderEdges(vol.committed, vol'.committed)
    /\ layer_now' = layer
    /\ pc' = "route"
    /\ UNCHANGED <<pos, slot, last_active, layer, settle, prev, fader, aux>>

\* An edge that is no combo of these: a release, or a press without Fn.
RouteOther ==
    /\ pc = "route" /\ evt # <<>>
    /\ evt' = Tail(evt)
    /\ UNCHANGED <<pc, pos, slot, last_active, layer, layer_now, vol, rail, settle, prev,
                   fader, aux>>

\* Fn + FWD or RWD.
RouteLayer ==
    /\ pc = "route" /\ evt # <<>> /\ Head(evt).pressed /\ Head(evt).idx \in {Fwd, Rwd}
    /\ layer' = (layer + (IF Head(evt).idx = Fwd THEN 1 ELSE Layers - 1)) % Layers
    /\ arm' = TRUE /\ missed' = FALSE /\ said' = 0
    /\ evt' = Tail(evt)
    /\ UNCHANGED <<pc, pos, slot, last_active, layer_now, vol, rail, settle, prev,
                   sent, catch, memory, heard, strayed>>

\* Fn + VOL: the next tick detects the new profile.
RouteProfile ==
    /\ pc = "route" /\ evt # <<>> /\ Head(evt).pressed /\ Head(evt).idx \in {VolUp, VolDown}
    /\ slot' \in Slots
    /\ evt' = Tail(evt)
    /\ UNCHANGED <<pc, pos, last_active, layer, layer_now, vol, rail, settle, prev,
                   fader, aux>>

\* Fn + Track 4 (on the other ladder): the other bank's profile, seen at once.
RouteMode ==
    /\ pc = "route" /\ rail > 0
    /\ slot' \in Slots \ {slot} /\ last_active' = slot'
    /\ Forgotten
    /\ UNCHANGED <<pc, pos, layer, layer_now, scanning, settle, prev>>

\* The locals of the tick go out of scope.
EndTick == pc' = "poll" /\ rail' = 0 /\ layer_now' = 0

\* The rail is probed again; a fresh press skips the reads.
Skip ==
    /\ pc = "route" /\ evt = <<>>
    /\ \E now \in 0 .. 2 :
          LET load == IF now > rail THEN now ELSE rail
          IN  /\ settle' = Settling(load > 0, prev, settle)
              /\ prev' = (load > 0)
              /\ IF settle' = 0
                 THEN pc' = "fader" /\ rail' = load /\ UNCHANGED layer_now
                 ELSE EndTick
    /\ UNCHANGED <<pos, slot, last_active, layer, vol, evt, fader, aux>>

\* A read that fails is left for the next tick.
ReadFails ==
    /\ pc = "fader"
    /\ missed' = (missed \/ arm)
    /\ EndTick
    /\ UNCHANGED <<pos, slot, last_active, layer, vol, evt, settle, prev, fader,
                   said, heard, strayed>>

\* takeover_arm with the layer's value, if it has one and the fader is elsewhere.
Armed(phys) ==
    {[cc |-> m.cc, from |-> m.from, above |-> phys > m.cc, on |-> layer_now] :
        m \in {v \in memory[layer_now] : v.cc # phys}}

\* takeover_step: what the fader still waits for.
Waiting(c, phys) ==
    {k \in c : IF k.above THEN phys > k.cc ELSE phys < k.cc}

\* A reading under the load that buttons put on the rail just then, compensated
\* for the load the tick has seen: an armed takeover is set up, a catch suppresses,
\* and the rest is sent when it is worth it -- as tempo, if the clock was last
\* given a profile that says so, or as a CC the layer remembers.
ReadAt(load) ==
    /\ pc = "fader"
    /\ \E off \in Noise :
         LET raw   == Compensated(Read(pos, off, load), rail)
             phys  == RawToCc(raw)
             last  == IF arm THEN {} ELSE sent
             waits == Waiting(IF arm THEN Armed(phys) ELSE catch, phys)
             sends == waits = {} /\ Speaks(last, raw, rail)
         IN  /\ catch' = waits
             /\ sent' = IF sends THEN {raw} ELSE last
             /\ memory' = IF sends /\ Role(last_active) # "bpm"
                          THEN [memory EXCEPT ![layer_now] = {[cc |-> phys, from |-> slot]}]
                          ELSE memory
             /\ missed' = (missed /\ waits # {})
             /\ said' = IF load # rail THEN 0 ELSE IF sends /\ said < 3 THEN said + 1 ELSE said
             /\ heard' = (heard \/ sends)
             /\ strayed' = (strayed \/ slot # last_active)
    /\ arm' = FALSE
    /\ EndTick
    /\ UNCHANGED <<pos, slot, last_active, layer, vol, evt, settle, prev>>

\* A button may be pressed or let go between the tick's looks at the rail and the
\* reading.
ReadFader == \E load \in 0 .. 2 : ReadAt(load)

Next ==
    \/ Move \/ Poll \/ Detect \/ ScanTick
    \/ RouteOther \/ RouteLayer \/ RouteProfile \/ RouteMode
    \/ Skip \/ ReadFails \/ ReadFader

Spec == Init /\ [][Next]_vars

-----------------------------------------------------------------------------
(* Properties.                                                             *)

TypeOK ==
    /\ pc \in {"poll", "detect", "scan", "route", "fader"}
    /\ pos \in Positions /\ slot \in Slots /\ last_active \in Slots
    /\ layer \in LayerIds /\ layer_now \in LayerIds
    /\ vol \in Debouncer /\ evt \in Seq([idx : ButtonIds, pressed : BOOLEAN])
    /\ rail \in 0 .. 2 /\ settle \in 0 .. SettleTicks /\ prev \in BOOLEAN
    /\ sent \subseteq Code /\ catch \subseteq Catches /\ arm \in BOOLEAN
    /\ \A l \in LayerIds : memory[l] \subseteq Values
    /\ said \in 0 .. 3 /\ heard \in BOOLEAN /\ strayed \in BOOLEAN /\ missed \in BOOLEAN

\* A fader nobody touches is silent after at most two messages, whatever the
\* buttons held and pressed, as long as each of its readings meets the load that
\* the tick compensates for (control_logic.c, 3-5: zero messages at rest; the
\* second is the nudge into a rail band).  A button pressed or let go between the
\* tick's looks at the rail and the reading makes it send a value it is not at, and
\* starts the count anew.
RestsQuiet == said <= 2

\* The catch of a layer step is on the layer entered (main.c, 177-180: "on a layer
\* step the new bank holds its previous value until the physical fader CROSSES it";
\* control_logic.h, 47-50).
CatchIsForTheLayerEntered == ~arm => \A c \in catch : c.on = layer

\* A layer step never catches on the layer it enters: its arm is spent in the
\* same tick on the layer it leaves, since the reads resume in the very tick in
\* which the debouncer reports the press (main.c, 1473-1489), and holds the
\* fader, if at all, against the value of that layer.  Only a read that fails in
\* that tick gives the catch that is promised for every step.
CatchIsForTheLayerLeft ==
    ~arm /\ ~missed => \A c \in catch : c.on # layer

\* A catch waits for a value the present profile has sent, once the loop has
\* noticed the profile (main.c, 949-951: not against another profile's values).
\* A profile taken and left again between two detections goes unnoticed.
CatchIsOfTheProfile ==
    pc \in {"scan", "route", "fader"} /\ slot = last_active /\ ~strayed
        => \A c \in catch : c.from = slot

\* The first reading after the loop has noticed another profile is sent,
\* wherever the fader stands and whatever catch was under way (main.c, 212-217:
\* else the new mapping's values would never reach the host until it moved).
NewProfileIsHeard == [][ReadFader /\ ~heard => heard']_vars

\* With no button pressed a fader in the upper rail band ends at 127, though the
\* step to it may be within the jitter window (control_logic.c, 79-82), unless
\* it is held back.
TopIsReached ==
    [][ReadAt(0) /\ rail = 0 /\ catch' = {} =>
          \A raw \in sent' :
             (\A off \in Noise : pos + off >= FADER_RAW_MAX) => RawToCc(raw) = 127]_vars
=============================================================================
