------------------------------- MODULE Config -------------------------------
(***************************************************************************)
(* The config channel of the device: bytes of the host arrive over USB CDC *)
(* and are cut into requests by their braces (config_cdc.c), a request is  *)
(* checked, done and answered (protocol.c) by the settings (Settings) and  *)
(* the profile store (ProfileStore, which Librarian implements), while the *)
(* hands on the panel change the same state from the control loop: the     *)
(* selection, the brightness, and the tempo, which is saved once it has    *)
(* been left alone (main.c).                                               *)
(*                                                                         *)
(* A frame is a sequence of tokens: the braces "open" and "close", quotes  *)
(* "q", backslashes "b", other bytes "x", white space "w", and "r" for the *)
(* verb and the arguments of a request.  One action takes one frame, whole *)
(* or cut short by a host that gave up in the middle of it.  Only the      *)
(* parsed arguments of a request are kept, None where one is missing or is *)
(* not what its extractor takes.                                           *)
(*                                                                         *)
(* Left out: the wording of the replies and the drops of a full transmit   *)
(* queue; the Bluetooth verbs; a seed that fails half-way (Librarian has   *)
(* it).  External: the receive queue of the CDC class loses nothing.       *)
(***************************************************************************)
EXTENDS Settings, SequencesExt

CONSTANTS
    NumModes, BankSize, Profiles, Default,  \* as in ProfileStore
    NumLeds,       \* LEDs a host can take over
    Legacy,        \* the settings records older firmware left
    LineCap,       \* LINE_CAP
    Shapes,        \* the frames a host sends, whole
    Requests,      \* what their "r" stands for
    SaveTicks,     \* three seconds, in turns of the control loop
    CutBudget,     \* bound on frames cut short or overlong
    Scenes,        \* bound on what happens together: sets of the Events below
    None           \* an argument that is missing, or nothing

PlayRole == 1
Modes == 0 .. NumModes - 1
Within == 0 .. BankSize - 1
Slots == 0 .. NumModes * BankSize - 1
Leds == 0 .. NumLeds - 1

\* Frames cut short, strings that hold quotes or closing braces, failing flash
\* operations, power cuts, a port that opens and closes, hands on the tempo, on
\* the brightness, on the profiles, and requests for the settings, for the store
\* and for the LEDs and the monitor.
Events == {"cut", "quoting", "fault", "crash", "port", "tempo", "brightness", "profile",
           "settings", "store", "lights"}

Token == {"open", "close", "q", "b", "x", "w", "r"}

\* Where JSON is after i bytes of w: outside strings, in one, or behind a
\* backslash in one.
Inside(w) ==
    LET at[i \in 0 .. Len(w)] ==
          IF i = 0 THEN "out"
          ELSE CASE at[i - 1] = "out" -> IF w[i] = "q" THEN "in" ELSE "out"
                 [] at[i - 1] = "in" -> IF w[i] = "q" THEN "out"
                                        ELSE IF w[i] = "b" THEN "esc" ELSE "in"
                 [] OTHER -> "in"
    IN  at

\* One flat JSON object, its verb in its first string (config_cdc.c:13-14).
IsRequest(w) ==
    LET n == Len(w)
    IN  /\ w \in Seq(Token) /\ n > 1 /\ w[n] = "close" /\ Inside(w)[n - 1] = "out"
        /\ \A i \in 1 .. n : Inside(w)[i - 1] = "out" =>
             (w[i] = "open" <=> i = 1) /\ (w[i] = "close" <=> i = n)
        /\ \A i \in 1 .. n : w[i] = "r" => i = 3 /\ w[2] = "q"

\* Its strings hold no backslash and no closing brace.
Plain(w) == \A i \in 1 .. Len(w) - 1 : w[i] \notin {"b", "close"}

ASSUME ConfigAssumption ==
    /\ NumModes \in Nat \ {0, 1} /\ BankSize \in Nat \ {0}  \* the protocol names modes 0 and 1
    /\ Default \in [Slots -> Profiles]
    /\ Legacy \subseteq UNION {[1 .. n -> Value] : n \in 0 .. 3}
    /\ LineCap \in Nat \ {0} /\ SaveTicks \in Nat \ {0} /\ CutBudget \in Nat
    /\ Scenes \subseteq SUBSET Events
    /\ \A w \in Shapes : IsRequest(w)
    /\ \A r \in Requests : r.t \notin {"old", "flush"}
    /\ NumLeds \in Nat \ {0} /\ None \notin Value

VARIABLES
    may,      \* the events of this behaviour
    frame,    \* g_line, g_depth, g_instr, g_escape
    cuts,     \* frames cut short or too long so far
    mon,      \* g_mon
    dtr,      \* a host has the port open
    profile, sel, playing,  \* the store, as ProfileStore has it
    leds,     \* led_override.c: [owner, mask]
    pending,  \* g_bpm_pending while g_bpm_save_at is set, None otherwise
    wait,     \* what is left until g_bpm_save_at
    reply,    \* the reply a request got in this step: what was asked, the outcome
    touched,  \* the last tempo the hands set since power came up
    shown,    \* the mode and the active profile the host was last told
    blind     \* a profile-switch button has stepped the profile since

settings == <<rec, thru, cache, up, ready, loaded, faults, crashes>>
store == <<profile, sel, playing>>
tempo == <<pending, wait, touched>>
host == <<dtr, shown, blind>>
cvars == <<settings, may, frame, cuts, mon, store, leds, tempo, reply, host>>

PS == INSTANCE ProfileStore WITH formatted <- loaded

Rest == [line |-> <<>>, depth |-> 0, instr |-> FALSE, escape |-> FALSE]
NoReply == [ask |-> "none", to |-> None, code |-> "none"]
Unknown == [mode |-> None, active |-> None]
Dark == [owner |-> FALSE, mask |-> {}]

\* librarian_mode and librarian_active_index: RAM, zero until it is loaded.
Selection == IF loaded THEN sel ELSE PS!FreshSel
Active == Selection.act[Selection.mode]

CInit ==
    /\ Init /\ rec \in Legacy
    /\ may \in Scenes
    /\ frame = Rest /\ cuts = 0
    /\ mon = FALSE /\ dtr = FALSE
    /\ profile = Default
    /\ sel = PS!FreshSel /\ playing = PS!Selected(profile, sel)
    /\ leds = Dark
    /\ pending = None /\ wait = 0 /\ touched = None
    /\ reply = NoReply /\ shown = Unknown /\ blind = FALSE

-----------------------------------------------------------------------------
(* The framer.  got is what a completed line holds for find_value: the     *)
(* request of this frame "r", one an earlier frame left behind "old", or   *)
(* "none" of them.                                                         *)

\* find_value takes quotes in pairs and looks for its key after the first.
Opening(line) ==
    {i \in DOMAIN line : line[i] = "q" /\ Cardinality({j \in 1 .. i - 1 : line[j] = "q"}) % 2 = 0}

Found(line) ==
    LET keys == {i \in Opening(line) : i < Len(line) /\ line[i + 1] \in {"r", "old"}}
    IN  IF keys = {} THEN "none" ELSE line[Min(keys) + 1]

Took(s, c) == [s EXCEPT !.line = Append(s.line, c)]

\* Mutant: the overrun forgets where it is in the nesting and the strings.
OverrunLine(s) == [s EXCEPT !.line = <<>>]

\* The frame is too long: this byte and all that is kept of it are dropped.
Overrun(s) == [s EXCEPT !.line = <<>>, !.depth = 0, !.instr = FALSE, !.escape = FALSE]

\* Mutant: a line ends at the first closing brace.
ClosesFlat(s) == TRUE

\* A closing brace ends the line: it is the last, or one too many.
Closes(s) == s.depth <= 1

Line(s) == [s EXCEPT !.line = <<>>, !.depth = 0, !.got = Append(s.got, Found(s.line))]

Full(s) == Len(s.line) >= LineCap - 1

\* Mutant: an escaped quote ends the string.
InStringPlain(s, c) == [Took(s, c) EXCEPT !.instr = c # "q"]

InString(s, c) ==
    [Took(s, c) EXCEPT !.escape = ~s.escape /\ c = "b", !.instr = s.escape \/ c # "q"]

\* feed_byte: the state after one byte, and the lines it completed.
FeedByte(s, c) ==
    IF s.line = <<>> /\ c = "w" THEN s
    ELSE IF Full(s) THEN Overrun(s)
    ELSE IF s.instr THEN InString(s, c)
    ELSE CASE c = "q" -> [Took(s, c) EXCEPT !.instr = TRUE]
           [] c = "open" -> [Took(s, c) EXCEPT !.depth = s.depth + 1]
           [] c = "close" -> IF Closes(s) THEN Line(Took(s, c))
                         ELSE [Took(s, c) EXCEPT !.depth = s.depth - 1]
           [] OTHER -> Took(s, c)

Polled == [line |-> frame.line, depth |-> frame.depth, instr |-> frame.instr,
           escape |-> frame.escape, got |-> <<>>]

\* config_cdc_poll: every byte that has arrived.
Fed(bytes) ==
    LET after[i \in 0 .. Len(bytes)] ==
          IF i = 0 THEN Polled ELSE FeedByte(after[i - 1], bytes[i])
    IN  after[Len(bytes)]

Kept(s) == [line |-> [i \in DOMAIN s.line |-> IF s.line[i] = "r" THEN "old" ELSE s.line[i]],
            depth |-> s.depth, instr |-> s.instr, escape |-> s.escape]

-----------------------------------------------------------------------------
(* What a request does.  A request has t, its verb; n, an index or a mask;  *)
(* v, its value or flag; p, the decoded profile.                           *)

Replies(r, code) == reply' = [ask |-> r.t, to |-> r.v, code |-> code]

\* What a host with the port open learns; None is what it cannot know.
Told(m, a) ==
    /\ shown' = IF dtr THEN [mode |-> m, active |-> a] ELSE shown
    /\ blind' = FALSE

NothingTold == UNCHANGED <<shown, blind>>

Queries == {"hello", "getactive", "list", "read"}
Setters == {"mode", "playrole", "midithru"}
StoreVerbs == {"write", "reset", "resetall", "setactive"}
Lights == {"led", "ledmask", "ledrelease"}  \* one verb, by the keys it has
Verbs == Queries \cup Setters \cup StoreVerbs \cup Lights \cup {"monset"}

\* The checks a verb makes before anything is done.
Proper(r) ==
    /\ r.t \in Verbs
    /\ r.t \in {"read", "write", "reset"} => r.n \in Slots
    /\ r.t = "setactive" => r.n \in Within
    /\ r.t = "write" => r.p \in Profiles
    /\ r.t \in Setters => r.v \in {None, 0, 1}
    /\ r.t = "monset" => r.v \in {0, 1}
    /\ r.t = "led" => r.n \in Leds /\ r.v \in {0, 1}
    /\ r.t = "ledmask" => r.n \in 0 .. 2 ^ NumLeds - 1

Refused(r) ==
    /\ ~Proper(r)
    /\ Replies(r, "refused")
    /\ UNCHANGED <<settings, mon, store, leds>> /\ NothingTold

\* The verbs that only read; read and list need the store.
Query(r) ==
    /\ r.t \in Queries \/ (r.t \in Setters /\ r.v = None)
    /\ IF r.t \in {"read", "list"} /\ ~ready
       THEN Replies(r, "failed") /\ NothingTold
       ELSE /\ Replies(r, "ok")
            /\ CASE r.t = "list" -> Told(Selection.mode, Active)
                 [] r.t \in {"hello", "getactive"} -> Told(shown.mode, Active)
                 [] r.t = "mode" /\ dtr ->
                      shown' = [shown EXCEPT !.mode = Selection.mode] /\ UNCHANGED blind
                 [] OTHER -> NothingTold
    /\ UNCHANGED <<settings, mon, store, leds>>

Monset(r) ==
    /\ r.t = "monset"
    /\ mon' = (r.v = 1)
    /\ Replies(r, "ok") /\ NothingTold
    /\ UNCHANGED <<settings, store, leds>>

\* led_override.c: to release the LEDs keeps the mask for the next time.
Led(r) ==
    /\ r.t \in Lights
    /\ leds' = CASE r.t = "ledrelease" -> [leds EXCEPT !.owner = FALSE]
                 [] r.t = "ledmask" ->
                      [owner |-> TRUE, mask |-> {i \in Leds : (r.n \div 2 ^ i) % 2 = 1}]
                 [] r.t = "led" ->
                      [owner |-> TRUE,
                       mask |-> IF r.v = 1 THEN leds.mask \cup {r.n} ELSE leds.mask \ {r.n}]
    /\ Replies(r, "ok") /\ NothingTold
    /\ UNCHANGED <<settings, mon, store>>

\* A flash operation that fails in the librarian.
Fault ==
    /\ "fault" \in may
    /\ faults < FaultBudget /\ faults' = faults + 1
    /\ UNCHANGED <<rec, thru, cache, up, ready, loaded, crashes>>

\* Mutant: a write that fails is reported as done.
StoresBlind(f, v, code) ==
    \/ code = "ok" /\ ready /\ v = cache[f] /\ UNCHANGED settings
    \/ code = "ok" /\ SetStored(f, v)
    \/ code = "ok" /\ "fault" \in may /\ ready /\ SetFails(f, v)

\* A setter of Settings as its caller sees it, and the outcome it returns.
\* It looks at fs_ready before the value.
Stores(f, v, code) ==
    \/ code = "ok" /\ ready /\ v = cache[f] /\ UNCHANGED settings
    \/ code = "ok" /\ SetStored(f, v)
    \/ code = "failed" /\ SetUnchanged(f, v)
    \/ code = "failed" /\ "fault" \in may /\ ready /\ SetFails(f, v)
    \/ code = "failed" /\ ~ready /\ UNCHANGED settings

Setting(r) ==
    /\ r.t \in {"playrole", "midithru"} /\ r.v # None
    /\ \E code \in {"ok", "failed"} :
         /\ Stores(IF r.t = "playrole" THEN PlayRole ELSE Thru, r.v, code)
         /\ Replies(r, code)
    /\ NothingTold
    /\ UNCHANGED <<mon, store, leds>>

Chosen(m, w) == [mode |-> m, act |-> [sel.act EXCEPT ![m] = w]]

\* What each verb does when the librarian does it.
Write(r) == r.t = "write" /\ PS!Save(r.n, r.p) /\ NothingTold

Reset(r) == r.t = "reset" /\ PS!Save(r.n, Default[r.n]) /\ NothingTold

ResetAll(r) == r.t = "resetall" /\ PS!Restore(NumModes * BankSize) /\ NothingTold

\* A profile of the bank of the mode.
SetActive(r) ==
    /\ r.t = "setactive"
    /\ PS!Select(Chosen(sel.mode, r.n)) /\ Told(shown.mode, r.n)

SetMode(r) ==
    /\ r.t = "mode" /\ loaded
    /\ IF r.v = sel.mode THEN UNCHANGED store
                         ELSE PS!Select([sel EXCEPT !.mode = r.v])
    /\ Told(r.v, None)

\* A reset of all that fails has restored the profiles before the failure.
StoreFails(r) ==
    \/ ~ready /\ UNCHANGED <<settings, store>>
    \/ /\ ready /\ Fault
       /\ r.t = "mode" => r.v # sel.mode
       /\ IF r.t = "resetall" THEN \E n \in Slots : PS!Restore(n) ELSE UNCHANGED store

StoreVerb(r) ==
    /\ r.t \in StoreVerbs \/ (r.t = "mode" /\ r.v # None)
    /\ \/ /\ Write(r) \/ Reset(r) \/ ResetAll(r) \/ SetActive(r) \/ SetMode(r)
          /\ Replies(r, "ok") /\ UNCHANGED settings
       \/ StoreFails(r) /\ Replies(r, "failed") /\ NothingTold
    /\ UNCHANGED <<mon, leds>>

\* proto_handle: the first verb it knows answers.
Handle(r) ==
    \/ Refused(r)
    \/ Proper(r) /\ (Query(r) \/ Monset(r) \/ Led(r) \/ Setting(r) \/ StoreVerb(r))

Kind(r) == CASE r.t \in {"playrole", "midithru"} -> "settings"
             [] r.t \in Lights \cup {"monset"} -> "lights"
             [] OTHER -> "store"

Garbled(found) == [t |-> found, n |-> None, v |-> None, p |-> None]

\* The control loop takes what arrived since its last turn.
Receive(bytes) ==
    /\ up
    /\ LET s == Fed(bytes)
       IN  /\ frame' = Kept(s)
           /\ CASE s.got = <<"r">> -> \E r \in {x \in Requests : Kind(x) \in may} : Handle(r)
                [] s.got = <<>> ->
                     reply' = NoReply /\ NothingTold /\ UNCHANGED <<settings, mon, store, leds>>
                [] OTHER -> Handle(Garbled(s.got[1]))
    /\ UNCHANGED <<may, tempo, dtr>>

Sent == {w \in Shapes : Plain(w) \/ "quoting" \in may}

Whole == \E w \in Sent : Len(w) < LineCap /\ Receive(w) /\ UNCHANGED cuts

\* A host that stops in the middle, or sends more than a line holds.
Broken ==
    /\ "cut" \in may
    /\ cuts < CutBudget /\ cuts' = cuts + 1
    /\ \E w \in Sent :
         \/ Len(w) >= LineCap /\ Receive(w)
         \/ \E k \in 1 .. Len(w) - 1 : Receive(SubSeq(w, 1, k))

\* A host that makes sure: as much white space as fills any line.
Flush ==
    /\ up
    /\ frame' = Kept(Fed([i \in 1 .. LineCap |-> "w"]))
    /\ reply' = [NoReply EXCEPT !.ask = "flush"]
    /\ UNCHANGED <<settings, may, cuts, mon, store, leds, tempo, host>>

-----------------------------------------------------------------------------
(* The panel and the control loop.                                         *)

\* The port is opened or closed; a host that opens it knows nothing yet.
Port ==
    /\ up /\ "port" \in may
    /\ dtr' = ~dtr /\ shown' = Unknown /\ blind' = FALSE
    /\ reply' = NoReply
    /\ UNCHANGED <<settings, may, frame, cuts, mon, store, leds, tempo>>

Hands == reply' = NoReply /\ UNCHANGED <<may, frame, cuts, mon, leds, dtr>>

\* Fn + Vol, another profile of the bank: the host is told.
StepProfile(w) ==
    /\ "profile" \in may /\ PS!Select(Chosen(sel.mode, w))
    /\ Told(shown.mode, w)
    /\ Hands /\ UNCHANGED <<settings, tempo>>

\* A profile-switch button does the same and tells the host nothing.
SwitchProfile(w) ==
    /\ "profile" \in may /\ PS!Select(Chosen(sel.mode, w))
    /\ blind' = dtr
    /\ Hands /\ UNCHANGED <<settings, tempo, shown>>

\* Mutant: only the mode is pushed.
FlipModeOnly(m) ==
    /\ "profile" \in may /\ m # sel.mode
    /\ PS!Select([sel EXCEPT !.mode = m])
    /\ shown' = IF dtr THEN [shown EXCEPT !.mode = m] ELSE shown
    /\ Hands /\ UNCHANGED <<settings, tempo, blind>>

\* Fn + T4: the other mode, and its bank's own profile.
FlipMode(m) ==
    /\ "profile" \in may /\ m # sel.mode
    /\ PS!Select([sel EXCEPT !.mode = m])
    /\ Told(m, sel.act[m])
    /\ Hands /\ UNCHANGED <<settings, tempo>>

\* Fn + T2: the other brightness.
Brighten ==
    /\ "brightness" \in may
    /\ \/ SetStored(Brightness, 1 - cache[Brightness])
       \/ SetUnchanged(Brightness, 1 - cache[Brightness])
       \/ (ready => "fault" \in may) /\ SetFails(Brightness, 1 - cache[Brightness])
    /\ Hands /\ UNCHANGED <<store, tempo>> /\ NothingTold

\* Mutant: what waits to be saved is the first tempo of a sweep.
TouchOnce(v) ==
    /\ up /\ "tempo" \in may
    /\ pending' = IF pending = None THEN v ELSE pending
    /\ wait' = SaveTicks /\ touched' = v
    /\ Hands /\ UNCHANGED <<settings, store>> /\ NothingTold

\* clock_set_live_bpm: a fader or a tap sets the tempo and arms its save.
Touch(v) ==
    /\ up /\ "tempo" \in may
    /\ pending' = v /\ wait' = SaveTicks /\ touched' = v
    /\ Hands /\ UNCHANGED <<settings, store>> /\ NothingTold

Tick ==
    /\ up /\ wait > 0 /\ wait' = wait - 1
    /\ Hands /\ UNCHANGED <<settings, store, pending, touched>> /\ NothingTold

\* The save at the end of the loop: its outcome is not looked at.
Save ==
    /\ up /\ pending # None /\ wait = 0
    /\ pending' = None
    /\ \E code \in {"ok", "failed"} : Stores(Bpm, pending, code)
    /\ Hands /\ UNCHANGED <<store, wait, touched>> /\ NothingTold

Boot ==
    /\ Load \/ (InitReturnsEarly /\ ~ready')
    /\ Hands /\ UNCHANGED <<store, tempo>> /\ NothingTold

PowerCut ==
    /\ "crash" \in may /\ Crash
    /\ frame' = Rest /\ mon' = FALSE /\ leds' = Dark
    /\ pending' = None /\ wait' = 0 /\ touched' = None
    /\ reply' = NoReply /\ dtr' = FALSE /\ shown' = Unknown /\ blind' = FALSE
    /\ UNCHANGED <<may, cuts, store>>

CNext ==
    \/ Whole \/ Broken \/ Flush \/ Port
    \/ \E w \in Within : StepProfile(w) \/ SwitchProfile(w)
    \/ \E m \in Modes : FlipMode(m)
    \/ \E v \in Valid[Bpm] : Touch(v)
    \/ Brighten \/ Tick \/ Save \/ Boot \/ PowerCut

CSpec == CInit /\ [][CNext]_cvars /\ WF_cvars(Tick) /\ WF_cvars(Save)

-----------------------------------------------------------------------------
(* Properties.                                                             *)

\* No request is put together from two frames: what a host that gave up once
\* left in g_line, its verb never runs with a later frame's bytes
\* (feed_byte, config_cdc.c:172-203; nothing clears the line when DTR drops).
\* It takes strings that hold no quote and no closing brace, as the protocol's
\* are: after a cut in a string they count as if they stood outside.
OneFrameOneRequest == ("quoting" \notin may /\ cuts <= 1) => reply.ask # "old"

\* Hosts that finish their frames find the framer at rest, whatever opening
\* braces and escaped quotes their strings hold, and whatever comes, g_line
\* keeps a byte for its NUL (config_cdc.c, 176).
CleanIsAtRest == (cuts = 0 => frame = Rest) /\ Len(frame.line) < LineCap

\* From whatever a cut or overlong frame left, a line of white space brings
\* the framer to rest: the overrun at LINE_CAP resets all it keeps.
FlushRecovers == reply.ask = "flush" => frame = Rest

\* A setter that is told "ok" for a value the cache did not have yet finds it
\* in flash: the next boot loads it, whatever failed before.  (Told "ok" for
\* the value of the cache, it may not: the failed write's retry does nothing.)
OkIsDurable ==
    [][\A f \in {PlayRole, Thru} :
         (/\ reply' # reply /\ reply'.code = "ok" /\ reply'.to # None
          /\ reply'.ask = (IF f = PlayRole THEN "playrole" ELSE "midithru")
          /\ reply'.to # cache[f])
         => Stored'[f] = reply'.to]_cvars

\* A host with the port open knows the mode and the active profile as they
\* are (config_cdc.c:265-267), with one exception: a profile-switch button.
MarkerIsFresh ==
    ~blind => /\ shown.mode \in {None, Selection.mode}
              /\ shown.active \in {None, Active}

\* Once nothing waits to be saved, the settings hold the tempo the hands set
\* last, and flash does unless a write failed: a sweep's last value is the
\* one the 3 s timer writes (main.c:140-145, 1566-1569).
SavedIsLastTouched ==
    (touched # None /\ pending = None /\ ready) =>
        /\ cache[Bpm] = touched
        /\ (loaded /\ faults = 0) => Stored[Bpm] = touched

\* Hands that leave the tempo alone have their last one saved, whatever save is
\* under way when they set it and whatever the host and the panel do meanwhile.
TempoIsSaved ==
    <>[][\A v \in Valid[Bpm] : ~Touch(v)]_cvars
        => <>[](pending = None /\ (touched # None /\ ready => cache[Bpm] = touched))
=============================================================================
