# A model of the feldd SP-1 firmware

TLA+ modules of the control surface firmware in `src/firmware/app`, TLC runs of
them on small instances, and theorems about them checked by TLAPS. File names
without a directory are in `src/firmware/app/src`.

## The system

The SP-1 is a MIDI controller on an nRF52840: nine buttons on two resistor
ladders, four faders, a function button (Fn, the dot-dot button), eight LEDs, a
TRS MIDI output and a USB composite device (a serial config channel, USB-MIDI, a
HID keyboard). One cooperative **control loop** (`main.c`, about 8 ms a tick)
does nearly everything. Beside it run the **USB thread** (higher priority, not
preempted by the loop), the **system work queue** (USB transmissions), the
**timer interrupt** of the MIDI clock and the **UART interrupt** of the TRS
output.

| Component | State | Operations | Interacts with |
| --- | --- | --- | --- |
| Profile librarian (`librarian.c`, `lib_header.h`, `lib_bank.h`, `seed_cadence.h`, `nvs_erase.h`) | flash: a header and 16 profile records; RAM: mode, active of each bank, hot copy | boot (mount, erase, probe, seed, load), read, write, reset, reset all, set active, set mode | called by the loop and by the config protocol; read by all routing |
| Device settings (`librarian.c`) | one record of three bytes, one of one byte, a RAM cache of each | boot load, four setters | config protocol, combos, tempo save |
| MIDI clock (`clock_router.c`, `clock_ctl.c`, `clock_timer.c`, `clockgen.c`) | source selector, emit gate, hardware counter, tempo | apply a profile, external tick, service, timer interrupt | main thread, USB thread, interrupt |
| Chord engine (`chord_engine.c`, `chord6.c`) | deferral ring of 32 messages | push, drain (8 a tick), purge | button routing, MIDI output |
| Button routing (`main.c`, `mode.c`, `mapping.c`, `btn_toggle.h`, `gesture.c`) | combo latch, layer, press layer and latched chord of each button, toggles, held keys | combos, keyboard keys, notes, chords, toggles, profile switches, flushes | librarian, chord ring, HID, MIDI output |
| Button scan (`buttons.c`) | a debouncer for each ladder, DFU hold counter | scan | routing, faders |
| Faders (`control_logic.c`, `layer_takeover.h`, `cc_value.c`) | last sent value, one soft takeover, an arm, the memory of each layer | read, arm, re-arm | button scan (the rail), routing (layer steps), librarian (profile), clock (tempo) |
| TRS output (`midi_out.c`, `midi_rt_ring.c`) | two-tier byte ring | enqueue byte, enqueue message, UART interrupt | loop, USB thread, timer interrupt |
| USB-MIDI (`usb_midi1.c`, `usb_rt_parse.c`) | transmit ring, enabled flag, transfer buffers | send, work, completion, enable, suspend | loop, work queue, USB thread |
| HID keyboard (`usb_hid.c`, `kbd_hid.c`) | held keys, report ring, in-flight flag | press, release, send, work, done | loop, work queue, USB thread |
| Config channel and protocol (`config_cdc.c`, `protocol.c`) | line buffer, brace depth, string flags; monitor flag | feed a byte, dispatch a verb, push an event | librarian, settings, LEDs; the control loop, which changes the same state by hand |
| Power (`main.c`, `wdt.h`) | hold counter, watchdog, reset reasons | charge gate, power-off hold, bootloader | button scan, routing |
| LEDs, dial, transport, panic | presentation and one run flag | - | routing |
| Bluetooth | call sites only; the link's sources are not in the repository | - | - |
| Host tools (`src/scripts`, `src/feldd-cc`) | Python, on the host | - | config protocol |

### What is hard here, and what correct means

- **Crashes and partial failure** (librarian, settings). Power may go between two
  flash writes of the boot's seed or erase, and any write may fail. Correct: what a
  booted device plays is what the next boot brings back; a store that looks
  formatted is whole; no boot changes a user's profile; no boot loop.
- **Interleaving** (clock). The USB thread cuts into the loop between any two
  accesses to shared state, the timer interrupt into both. Correct: never two
  clocks on the wire, none when the profile has none, and no dead air when an
  external master leaves.
- **Order over several ticks** (routing and chord ring). A press, a layer step, a
  profile change by hand or host, a flush, a drain and a release come in any order.
  Correct: each sounding note has an end in sight, a held chord sounds, no key is
  held without its button, and no latch outlives its profile.
- **Hand-over between contexts** (TRS, HID). A producer puts, then wakes a consumer; the
  consumer finds nothing, then goes to sleep. Correct: no byte or report is left behind
  asleep, messages stay whole, a buffer the hardware reads is not written, and the host
  ends up seeing the keys that are held.
- **Stale state in one loop** (faders, config channel, tempo save). A value is read, armed or
  told in one turn and used in another, after a layer step, a profile change or a frame that
  broke off. Correct: a new profile is heard at once, a fader at rest is silent, a request
  is never put together from two frames, what the host was told is so, the last tempo set
  is the one saved.
- **From reset to reset** (power). Reset reasons, holds and the watchdog outlive what set
  them. Correct: the device switches off only for a bare hold, does not turn on again by
  it, starts only for somebody who wants it, and does not hang.
- **Limits** (rings). A queue at its bound, and a loop that counts both ends.

## Modules

| Module | Models |
| --- | --- |
| `Librarian` | the librarian: a boot is a sequence of steps, one for each flash operation; each operation of the running device is one action, as they all run in the main thread. `Crash` is possible between any two. `faults` bounds failing flash operations, and `seedFailed` (auxiliary) remembers that one was a write of a seed |
| `ProfileStore` | what the librarian promises: an atomic, durable store and a selection; no power, no flash |
| `MCLibrarian` | values for TLC |
| `LibrarianProofs` | theorems about `Librarian` |
| `Settings` | the settings records and their caches, from records of each length older firmware left |
| `Config`, `MCConfig` | the config channel on top of `Settings` and `ProfileStore`: the framer token by token, every verb of the protocol with its checks, the hands on the same state, the tempo save, the port, faults and power cuts |
| `ConfigProofs` | theorems about `Settings` and `Config` |
| `ClockRouter` | the clock: each access of the main thread to shared state is a step, the locked section is one step, the USB thread's handler is one step |
| `ClockTempo`, `MCClockTempo` | the tempo on top of it: defaults, the hand's, and the one measured from the master |
| `ClockRouterProofs` | theorems about `ClockRouter` |
| `ChordRing` | the ring's push and drain as operators, shared by the next two |
| `ChordTx` | pushes, drains and purges in any order |
| `ChordQueue` | what a deferral queue must be, refined by `ChordTx` |
| `Notes`, `MCNotes` | the tick: drain, poll, detection of changes, scan, then one edge after another. It composes `ChordRing` with the combo latch, layer, latches, toggles, tap pad, held keys and the receiver |
| `RoutingProofs` | theorems about `Notes`, `HidTx` and `ChordTx`, the ways an edge takes |
| `Buttons` | the scan as operators: decoding of the two ladders, debounce, bootloader combo, shared by the next two |
| `Panel`, `MCPanel` | power and the function button from reset to reset, and in the loop the scan and the combo latch |
| `LadderEvents` | what the edges of a ladder promise: one button at a time, three scans apart; refined by `Panel`, for each ladder, and assumed by `Notes` |
| `PanelProofs` | theorems about `Panel` |
| `Faders`, `MCFaders` | one fader: its reading under the load that buttons put on the rail just then, jitter suppression, soft takeover; the volume ladder steps the layer and the profile, the host changes the profile |
| `FadersProofs` | theorems about `Faders` |
| `TrsOut` | the TRS ring, its three producers (loop, USB thread, clock interrupt), the transmit interrupt, the UART's one byte. What is under `irq_lock` is one step, the enabling of the interrupt after it another |
| `MidiWire` | what a MIDI line must carry: whole messages in order, nothing but real-time bytes between their bytes, real-time bytes first; refined by `TrsOut` |
| `TrsOutProofs` | theorems about `TrsOut` |
| `HidTx`, `MCHidTx` | the keyboard from the held buttons to the host: the loop's edge, test, put and kick, the work item's take and submission, the stack's completion, enable and disable |
| `UsbMidi` | USB-MIDI: the loop's test, put and kick, the work item's take and submission, completions and aborts, enabling, suspending, resuming and disabling |
| `MidiPort` | what a MIDI port promises its host: events in order, once, none lost while the port is up; refined by `UsbMidi` |
| `UsbMidiProofs` | theorems about `UsbMidi` |

How the state maps to the code: `Librarian.slots` and `header` are the NVS records,
`mode`, `act` and `live` are `active_mode`, `active_within` and `active_profile`.
`ClockRouter.ctl` is `g_ctl` without the tempo fields, and `quiet`, `owner` and
`raced` are auxiliary: they say what is true of the external master, whatever the
code believes. `Notes.chord` is `g_chord_notes` with its counts, `pressed` is
`g_btn_press_layer` for the buttons that are down, `seen` is `last_active`; `wire`
is the receiver (a note sounds from its On to the next Off of it);
`purged`, `astray`, `lost` and `unnoticed` are auxiliary and record what the code is known to
leave behind. In `TrsOut`, `rt` and `nb` are the two tiers (a byte is its place in its
message), and `pc` says whether a thread still has to enable the
interrupt. In `HidTx`, `inflight`, `busy` and `enabled` are `hid_inflight`, `hid_busy` and
`hid_enabled`, `kbd` is `g_kbd`, `reports` the ring of reports, `at` the loop's place in the call;
`moving` and `host` belong to the USB stack and the host; `current` and `refused` are
auxiliary: the loop's last report was neither dropped, refused by the stack nor lost with the
interface, and the stack refused the last submission. In
`UsbMidi`, `pending` is the queued state of `tx_work`, `taken` the buffer between its
filling and its enqueueing, `sending` and `armed` the transfers the stack holds, and `free`
the rest of the pool; `lost` is auxiliary: since the port was enabled, a read has ended under
suspend or has been refused. In `Config`, `frame` is the framer's four variables, `mon` is
`g_mon`, `pending` and `wait` are `g_bpm_pending` and the time left of `g_bpm_save_at`; `shown`
and `blind` are auxiliary: what the host was told, and that a button made it stale. In `Panel`,
`held` is the loop's counter of the hold, `btn` is `g_state` of the scan, `reas` is RESETREAS;
`bare`, `letgo`, `cause` and `age` are auxiliary and say what the hands, the last reset and the
ladders really did. In `Faders`, `sent` is `fader_t`, `catch` is `takeover_t`, `arm` is
`g_takeover_arm` and `memory` is `g_layer_takeover`; the profile and the layer recorded in them
are auxiliary. In `ClockTempo`, `ivl` is `ext_ivl_us`; `beats` and `gap` are the master's truth.

Abstractions: a profile's content is one value, except in `Notes`, where it is what
the buttons play, and in `Faders`, where it is what the fader is. `Panel` and `Faders`
compute with the ADC's codes and the source's thresholds. A frame in `Config` is a sequence
of tokens (brace, quote, backslash, white space, other, and one for the verb with its
arguments); an argument is a value, absent or unparsable. In `Notes` the debouncer is the bound
it puts on edges: two edges of a ladder are at least `Debounce` scans apart.
The ring holds notes without channel and velocity. Each record write is atomic,
as NVS promises. Data of a transfer is not modelled.

## Runs

| Run | Question | Instance |
| --- | --- | --- |
| `Librarian` | Is the state after a power cycle the state before it, does the boot end, and does it implement `ProfileStore` through saves, selections, factory resets, faults and power cuts? | 2 modes of 2 profiles, 2 sectors, 2 resets, 1 fault |
| `Config` | Do requests stay apart, does the framer recover, do caches, records, replies and the host's marker agree with each other, is the last tempo saved? | lines of 11 tokens, 4 frames (one with a brace and an escaped quote in a string, two longer than a line), 39 requests; 1 cut frame, 1 fault, 1 power cut; records of 0, 1, 2 and 3 bytes, one garbled; 2 banks of 2; 4 scenes |
| `Clock` | Is the generator silent when it must be, does it come back, at whose tempo? | clock modulo 12, gap 4, a loop turn of at most 2; tempos 1 to 4 |
| `ChordTx` | Is the ring a queue of Offs and a queue of Ons? | ring of 7, budget 3, up to 6 pending |
| `NotesLayers` | Does the ring keep up, does each sound keep its end, does a held chord sound? | real ring of 32, budget of 8 and debounce of 3; two ladders, two layers; a plain note and chords of 1 to 3 |
| `NotesModes` | No phantom keys, no chord of another profile? | two MIDI and two Keyboard slots, a tap pad in one of each, Fn combos, a switch button, host selections and mode flips |
| `Panel` | Does only a bare hold switch off, does it stay off, who opens the gate, are the combos silent, does the scan implement `LadderEvents`? | hold of 4 ticks, gate of 2 polls, combo of 5 scans; four codes of the tracks ladder, two of the other |
| `Faders` | Is a fader silent at rest, heard after a profile change, able to reach 127, and whom does a catch wait for? | 2 positions, noise of 3 either way, 2 layers, a CC and a tempo profile, two buttons (one steps the layer or the profile) |
| `TrsOut` | Are messages whole and in order, is nothing stranded, and does the ring drain? | tiers of 4 and 8 slots, messages of 1, 2 and 3 bytes |
| `HidTx` | Does the host see what is held, and does the queue go on? | 2 buttons, 3 bindings, one key slot, a ring of 2; any submission may be refused |
| `UsbMidi` | Do buffers, reads and events survive every disable, suspend and refusal, and does the ring drain? | 2 events, a ring of 2, the real pool of 4, reads may be refused |
| `FadersLayer` | Is a layer step's catch on the layer entered? | as `Faders` |

The properties each run checks:

| Run | Properties |
| --- | --- |
| `Librarian` | `PowerCycleRoundTrip`, `ImplementsProfileStore`, `EventuallyRuns` |
| `Config` | `CacheIsDurable`, `OneFrameOneRequest`, `MarkerIsFresh`, `CleanIsAtRest`, `FlushRecovers`, `OkIsDurable`, `TempoIsSaved` |
| `Clock` | `TwoClocksOnlyByStampRace`, `GeneratorComesBack`, `FallbackKeepsTheBeat`, `HandKeepsTheTempo` |
| `NotesLayers` | `InTime`, `EverySoundHasAnEnd`, `HeldChordSounds` |
| `NotesModes` | `EverySoundHasAnEnd`, `NoPhantomKeys`, `ChordOfTheProfile` |
| `ChordTx` | `ImplementsChordQueue` |
| `TrsOut` | `ImplementsMidiWire`, `QuietDrains` |
| `HidTx` | `HostSeesHeld`, `BufferIsStable`, `QuietSettles` |
| `UsbMidi` | `SinkIsKept`, `ImplementsMidiPort`, `QuietDrains` |
| `Faders` | `RestsQuiet`, `CatchIsOfTheProfile`, `NewProfileIsHeard`, `TopIsReached` |
| `FadersLayer` | `CatchIsForTheLayerEntered` (violated) |
| `Panel` | `ComboIsSilent`, `LatchIsDown`, `OffIsMeant`, `GateGuardsTheLoop`, `ImplementsLadderEvents`, `NothingLingers` |

Why the bounds are enough. *Librarian*: with two modes and two profiles each
there is an active slot, another of its bank, another bank, a top slot that is not
the first, and a middle one; two resets cut a boot that follows a cut boot. *Clock*:
the gap is longer than a loop turn and shorter than the modulus, so wrapping, ageing
out and the race all occur; the modulus is the smallest that keeps a wrapped
difference apart from a real gap. *ChordTx*: 6 pending is twice the budget, so a
drain leaves messages behind in both passes; the run stays below the full ring,
where the ring is not a queue (see Hazards in `PROJECT.json`). *Notes*: chords of
2 and 3 on both ladders share the budget of a drain and, with a release and a press in one
scan, overrun it, so that messages stay for the next tick; the
debounce lets a whole press and release of a ladder happen meanwhile; the two
runs split the configurations since layers and profiles interact only
through the flush, which both have.

*Config*: the bounds on what happens together are the `Scenes`: a behaviour has the events of
one scene, so that the framer is explored with every shape and cut against the settings, the
LEDs and the port, the settings against the tempo, the brightness, faults and power cuts, and
the store against the hands, the port and faults. State that two scenes do not share is not
read by both: the framer never looks at the store or at the settings. A line of 11 tokens is
overrun inside a string and just behind one. *Panel*: the codes are the middles of the plateaus
that matter and one in the combo's band, so that all the ways into and out of the band occur;
three scans of debounce, five of the combo and four ticks of the hold run out at different
times. *Faders*: the first position lies between two CCs, so noise crosses the step, the second
just inside the upper rail band, where a heavy load leaves a reading one CC short; the debounce
is the real one, as the takeover depends on the tick a press is routed in.

*TRS*: the
normal tier holds two messages of three bytes and one byte more, so messages are refused
at every fill and by every length; the real-time tier overruns as well. *HID*: two buttons
overrun one key slot (rollover), two reports fill the ring while a third is with the stack
and a fourth is about to be put. *USB-MIDI*: three transfers and a read use up the real
pool of four while the ring fills behind them, and a ring of two is full, half full, and
empty between.

Deadlock is checked in all runs but the librarian's: a device whose partition cannot
be erased has no librarian step left once its resets are used up.

**Fairness.** `Librarian!FairSpec`: weak fairness of the boot's steps; the main thread
runs alone until `librarian_init` returns, and the watchdog is fed in both loops.
`ClockRouter!FairSpec`: time passes (weak), an `apply_profile` or a service that has
begun ends (weak), and the loop calls `clock_router_service` again and again (strong
for `ServiceStamp`, because profile changes may come between, and weak for the skip).
`TrsOut!FairSpec`: the transmit interrupt fires when it is due, the UART goes on shifting,
and a thread that has let go of the lock enables the interrupt (all weak; the loop waits
only for the USB thread, whose handlers end). `HidTx!FairSpec`: the loop finishes its call,
the work queue runs what is queued, and a host that has enabled the keyboard polls it, as
interrupt endpoints are polled; a transfer that the host's disabling aborts completes too. A
submission is made or refused, and nothing says which. `UsbMidi!FairSpec`: the same of
the loop and the work queue, and a host that has the port open reads it (weak). Nothing is
assumed of transfers while the port is not up: a disable or a suspend need not end them.
`ClockTempo!TSpec`: as `ClockRouter!FairSpec`. `Config!CSpec`: the loop turns and saves when the time
has come (weak; both are in the loop's path each turn). `Panel!FairSpec`: the firmware goes on
while it has a step to take, and a watchdog that counts fires on a hang (weak).
No fairness is assumed of the master, the hands, or the host's will to configure anything;
`QuietDrains` and `QuietSettles` are about the time after producers and hands have come to
rest.

## Findings

Where the code does something else than a comment of it says. One is a run, `FadersLayer`: it
states what the comments say, and TLC must find it violated. Most others are exceptions that a
passing property names (in brackets), so its run also shows that there is no other; the rest
were met while modelling.

*HID and USB-MIDI.*

- A press that is in the ring when the host disables the keyboard stays there; the reports of
  later edges, its release among them, are dropped (`usb_hid.c`, 210), and the next enabling
  sends it (115). The key is stuck at the host although the loop sent a report at each edge,
  against the comment at 214-217. A release that a full ring drops, or that the stack refuses,
  does the same. (`HostSeesHeld`, through `current`)
- A refused submission drops its report (`usb_hid.c`, 90-94) and starts no other: the reports
  behind it wait for the next press, as the comment there has it. `hid_ops` has no hook for a
  suspend, so this may be while `hid_enabled` is set. (`HostSeesHeld`, `QuietSettles`)
- A USB-MIDI read that ends while the port is suspended is not armed again (`usb_midi1.c`, 489),
  and a resume arms none: the resumed port has no read until the next enabling, against 446-447.
  A read the stack refuses (438) is not tried again either. (`SinkIsKept`, through `lost`)

*Clock.*

- `clock_router_service` reads the clock before it takes its lock (`clock_router.c`, 68). A
  master tick in between is newer than that stamp, the unsigned difference wraps, and the
  generator resumes beside the master until its next tick; the comment at 76-77 rules that
  out. (`TwoClocksOnlyByStampRace`)
- A master that sends a single tick after a silence and vanishes leaves the generator with
  the tempo of the silence, clamped to 40 BPM (`clock_ctl.c`, 26). (`FallbackKeepsTheBeat`
  asks for two ticks)
- `clock_tap_reset` has no caller: taps of one profile count for the next.

*Routing.*

- A mode flip over the config protocol calls `librarian_set_mode` (`config_cdc.c`, 48) and not
  the end of the Keyboard session, as Fn+T4 does (`main.c`, 1122): a key stays in the report
  after its button is up, contrary to `kbd_hid.h`, 36-37. (`NoPhantomKeys`)
- A profile whose tap pad is a button that is down swallows the release (`main.c`, 1212): the
  key stays in the report, the note sounds on. (`NoPhantomKeys`, `EverySoundHasAnEnd`)
- Only a profile-switch button resets the toggle latches; the change detector, which sees
  changes by dial and host, does not (`main.c`, 102 and 940).
- `chord_flush_all` discards the queued Off of a chord already released, and its note
  rings on; the comment above it (`main.c`, 519) calls discarded Offs harmless since every
  *latched* note gets a direct Off. (`EverySoundHasAnEnd`)
- A profile-switch button on one ladder and a chord's press on the other in one tick, and the
  host selecting the old profile again before the detector looks: the change goes unnoticed
  and the chord of the other profile stays latched. (`ChordOfTheProfile`, through `unnoticed`)
- Two held chords that share a note: the release of one sends the note's Off and cuts it for
  the other, which the comment on the latched set (`main.c`, 115-118) does not say.
  (`HeldChordSounds`, for the notes no other button plays)
- `chord_tx_drain` counts a taken message twice (`total--` and `scanned++`), so each pass
  sees part of the ring. With chords of four on both ladders an On can wait longer than a
  debounced tap takes, and since Offs go first, the tap's Off passes its On and the note rings
  on. With chords of five notes at most on the two ladders together this cannot happen (theorem
  `FirmwareKeepsUp`), nor with the three and three of `NotesLayers`; TLC finds it with one and
  five, and with four and three. (`InTime`)
- Fn+T3 puts 48 messages, 144 bytes, into a tier that holds 127, in far less time than a
  byte takes on the line. The last messages, of channels 15 and 16, are dropped; the comment
  (`main.c`, 1184) says all 16 channels.
- The comment above `usb_midi1_send` (586-588) says a dropped event is kept and retried by
  `midi_out`'s pump. There is no pump: it is lost, as `UsbMidi` has it.

*Faders.*

- A layer step arms the takeover for the layer it enters (`main.c`, 177-180, and
  `control_logic.h`, 47-50), but the fader section of the same tick spends the arm on the layer it
  leaves. (violated in `FadersLayer`; the theorem `LayerLeft` says that only a read that fails in
  that tick gives the catch the comments promise)
- A button pressed between the second probe of the rail (`main.c`, 1456) and the reading of a
  fader (1465) sags a reading that nothing compensates, and a fader nobody touches sends a lower
  value and then its return; the comments at 1451 and 1469-1471 rule that out. One let go there
  is still compensated for, and the value is up to 2 % too high. (`RestsQuiet` counts only from
  the last such reading)
- A profile taken and left again between two turns of the detector goes unnoticed.
  (`CatchIsOfTheProfile`)

*Config channel.*

- A frame that is cut off leaves the depth and the string flags behind, and nothing resets
  them when the port closes; after a cut inside a string the requests that follow are
  swallowed until the line overruns, while the comment (`config_cdc.c`, 75) has the framer
  resynchronise. A line of white space recovers it. (`FlushRecovers`) With a closing brace or an
  escaped quote in a string, or after two cuts, the verb of the old frame may run with later
  bytes. (`OneFrameOneRequest`, for one cut and none of these)
- A profile-switch button (`main.c`, 589-606) does not push the new profile to the host as
  `config_cdc.c`, 265-267, says of every change. (`MarkerIsFresh`)
- A setter that failed has changed the cache: a retry is "ok" and writes nothing. A write of
  bytes that are in flash already returns 0 and is reported as a failure. (`OkIsDurable`)
- A mode, play role or thru value that does not parse makes the request a query, and
  `get_playrole` always answers 1.
- A tempo set less than 3 s before power goes is lost, and after a profile switch the next
  power-on starts with the saved tempo, not with the last one used (`main.c`, 751-754).
- The host's hold of the LEDs outlives its connection.

## Proofs

The theorems hold for every value of the constants that the module's assumption admits:
any number of banks, profiles, sectors, resets and faults (`LibrarianAssumption`); any
modulus, gap and period (`ClockAssumption`); any sizes of the tiers and any panic, messages
of one to three bytes (`TrsAssumption`); any buttons, bindings, key slots and ring
(`HidAssumption`); any ring, and any pool of two buffers or more (`UsbMidiAssumption`); any
lengths of the holds and any codes (`PanelAssumption`); any layers, profiles, roles, positions and
a noise of at most 15 (`FadersAssumption`); any values, old records, banks, frames and requests
(`SettingsAssumption`, `ConfigAssumption`); any ladders, slots, layers, button types, chords and
ring (`NotesAssumption`, `RingAssumption`).

Each safety property a passing run checks is a theorem too, and so is each refinement. Some
have a hypothesis beyond the module's assumption, given with them below: a bound on the noise
(`Quiet`) or on the chords (`KeepsUp`), two layers or more (`LayerLeft`), a ring that keeps up
(`SoundsEnd`, `HeldChordsSound`, `QueueRefined`).

*Librarian.* `PowerCycleRoundTrip` is not inductive: it says nothing of a device that
is not booted, and the load that ends a boot makes it true only because the header and
the top slot were accepted. The inductive invariant `IInv` (theorem
`InductiveInvariant`) adds what the boot knows at each phase: `LoadReady` (what is
loaded needs no reseed), `SeedProgress` (a seed that has come to its end has written the
top slot) and `OnlyRunBooted`. `TypeCorrect` and `RoundTrip` follow. `HeaderVouches`,
`BootKeeps` and `StoreRefined` are about the time until a write of a seed fails (`seedFailed`,
auxiliary): after it all three are false, as operations of the half-booted device write a header.
Their invariant `VInv` adds `SeedPrefix` (while seeding, the slots below the loop's index
are readable and the header is not of this version) and `RunsFormatted` (a running,
mounted device has a header). `StoreRefined` maps each flash
operation to a step of `ProfileStore` or to none; it needs `RInv`, which adds that what a seed
has written so far is the factory's and that a device that runs its librarian has booted.

*Clock.* `TypeCorrect`; then `SilenceInv`: THRU implies a closed gate outside the two
statements of `apply_profile` (`ThruIsShut`), and what `apply_profile` has done so far at
each of its places (`OffAtPlace`). `Silent` and `Disabled` follow. `OnlyByRace` adds `StampsAreTrue`: while
the master is heard and its last tick did not race, the selector says THRU, the router's stamp
of that tick is as old as the silence, and the loop's stamp lies between the two; the modular
difference is then the true one and within the gap. `TempoRefines` carries all of these from
`Spec` to the run's `TSpec`, and `TempoCorrect` adds the types of the tempo. `BeatInv` says that until the gap
has passed the stamp of a master's last tick is as old as the silence, that after two ticks the
interval the router keeps is the true one, and that a selector that gave up its master early
was reset and has measured nothing; `BeatKept` and `HandKept` follow.

*TRS.* `NothingStranded` is inductive as it stands: the interrupt disables itself only when
both tiers are empty, and each put leaves its thread before its enabling. `WholeMessages`
needs that a put appends a whole message or nothing, and that taking the head of such a
sequence leaves one; both are facts about sequences proved once (`PutMsgWhole`, `TailWhole`
in the module). `NeverStranded` and `WholeMessages` do not depend on the sizes. `WireRefined`: the
wire's queue is the sequence of messages whose first byte is still in the ring. The n-th
message begins at the n-th least place of a first byte; the lemmas say what a put at the end
and a take at the front do to those places (`PlaceBehind`, `PlaceShifted`), and so to the queue.

*HID* (in `RoutingProofs`). Two inductive invariants. `FlagsInv` ties the flags: `BusyIsTrue`, `OneReport` (no
submission during a transfer) and `NothingStranded` hold each other up; what waits behind a
refused report is its only exception. `PathInv` follows the
report: `PutIsHeld` (what the loop is about to put is what is held), `LossIsKnown` (with the
interface down, nothing on its way counts as current) and `HostSeesHeld`. `BufferCorrect` is
an action property and follows from `OneReport`.

*USB-MIDI.* `BuffersBalance` is inductive given the types. `OneRead` (at most one read is
armed, and one is while the port is enabled or suspended unless one was lost) carries
`SinkIsKept`; an enabling finds a buffer for its read because the work item holds at most one of
the two or more.
`NothingStranded` needs both: a work item goes to sleep on a
non-empty ring only if no buffer is free, all buffers are then reads or transfers, at most one
is a read, and so a transfer is under way whose completion will schedule the work. `PortRefined`:
the port's queue is the transfers, the buffer taken and the ring, flattened. The lemmas say
what `FlattenSeq` does to one more batch at the end and to one less at the front. The library's
induction theorems take an operator as a parameter, which no installed prover can instantiate;
where a recursive function is met, here and in the framer, the induction is an argument by the
least counterexample (`LeastNumber`, from well-foundedness).

*Panel.* `PowerInv` ties the loop's counters to what happened: `HoldIsBare` (the counter is at
most the ticks since Fn went down, the last consumed press or the loop's begin), `LetGoIsKnown`
(a hold that counts began after Fn was seen up), `ReasonIsCause` (outside the boot the reset
register is clear, so it names the last reset and no other) and `GateWasHeld`. `OffByHold`,
`NoRebound` (together `OffMeant`) and `GateGuards` are action properties and follow from it. `ScanInv` says that the
debouncers' counts are bounded by the scans since their last edges, and that in the combo's band
the tracks ladder is on its way to nothing (`Towards`); `ComboSilent` and the two refinements
`TrackEvents` and `VolEvents` (initial state and each step mapped) follow. `LatchInv` adds to
`LatchIsDown` that a press still to be routed is of a button that is down.

*Faders.* `NewIsHeard` rests on `NothingHolds` (until the first reading of a profile nothing is
remembered that could suppress it), `OwnCatch` on `OwnValues` (what is remembered and awaited
is of the profile the loop has noticed, unless a reading strayed), `Top` on the arithmetic of
the upper rail band and on `OneSent` (at most one value is remembered as sent).
`LayerLeft`, for two layers or more, on `LayerInv`: a button the debouncer is counting loads the
rail and the probe has seen it as often (`PullsTheRail`), so the reads resume in the tick that
reports its press (`OnePress`) and the arm of a layer step is spent before the tick is over,
unless a read fails (`ArmIsSpent`). `Quiet` assumes readings that are off by at most 6: compensation
can put two readings at one place 14 apart then, inside the jitter window of 16, and with a noise
of 7 it can put them a whole window apart and the fader would speak at every other reading. It counts
the messages since the last reading under another load than the one compensated for.
`RestInv` says that what was sent since the fader came to rest was read near its place, and that
a second message is a step into one of the bands at the ends, which no third follows.

*Config.* `DurableInv` (a loaded device can write, its caches are valid and, without faults,
are what a boot decodes) carries `Durable` and `OthersStay`; `OkDurable` follows from the types alone.
`LastTouch` says where the last tempo is while it waits, and `ToldInv` what a host can know at
each moment; `LastIsSaved` and `MarkerFresh` follow. All four hold whatever the framer makes of
the bytes, since the proofs treat a frame's outcome as any request. The framer has its own
invariant, `FrameInv`: what it keeps fits the line (`Well`), it is at rest unless a frame was cut,
and after one cut and frames without escaped quotes or closing braces in strings its flags are
those its line gives and the old verb still lacks a brace (`Clear`). That a whole frame, a line
of white space, or a plain frame behind a cut one keeps this is shown byte by byte, over the
states the framer goes through (`Feeds`), by the least byte that would break it.

*Ring* (`ChordTx`, in `RoutingProofs`). `QueueRefined` holds for every set of notes, ring size
and budget, while the messages pending stay below the ring's size (`MaxPending < RingSize`): the
full ring loses messages and is not a queue (a hazard listed in `PROJECT.json`). The abstract
queues are `OfKind` of the ring; as the induction over a recursive function has to be done by hand,
`OfKindRuns` gives the run that defines it, and `OfKindConcat`, `OfKindFirst` say what it makes
of a concatenation and of taking the first message of a kind. A pass is followed turn by turn
with `Sorts` (what was passed over is of the other kind, what was taken came first) and `Passes`
(as long as nothing was taken, nothing was missed); `PassSorts` and `DrainSplits` put the two
passes together into a `Take` of the abstract queue that takes something when there is anything.

*Routing* (`Notes`, in `RoutingProofs`). The lemmas on the ring come first: `RemovedFrom` and `CutOff` are the
compaction's shift at each place, `TurnCarries` and `PassCarries` follow a drain through its
passes, and so below the full ring `DrainKeeps` and `PushKeeps`: nothing comes out that was not in, and what was
in is out or still there. Then the hands: `EdgesInv` (an edge to be routed is of a button that
changed in this scan, one of each), `PlaceInv` (what the detector and the combo latch know at
each place of the tick). On top of these
`KeysInv` (a key is down only with its button, but for those on their own) gives `NoPhantoms`;
`LatchesInv` gives `ChordsFollow`: what is latched is of the layer of its press and, if every
change of profile was seen, of a button that is down and plays it (`LatchInv`), a latch left by
a change is one the profile last seen would not release (`StaleInv`), and no edge of such a
button is routed before the detector has looked (`LateInv`). `SoundsInv` gives the other two: an On in the ring is of a latched
chord (`OnInv`), what sounds is accounted for (`SoundInv`), and a latched note only its button
plays sounds or is on its way with no Off behind it (`HeldInv`). `SoundsEnd` and
`HeldChordsSound` have `[]InTime` as a hypothesis: a ring that is full, or still holds a
button's last messages when its next edge is routed, breaks both (see Findings).

`KeepsUp` says when the ring keeps up. With `W[l]` the widest chord of ladder `l`, it asks that
`W[1] + W[2]` be two thirds of the budget at most, that twice as much not fill the ring, and that
the sum, halved at each drain, be gone after `Debounce` drains (`Loaded`). The argument
(`LoadInv`) gives each ladder its share of the two queues: the cell of its last message, behind
which all is of the other ladder and of one push (`Shares`). A drain within that budget takes at
least half of each queue, whatever the double count of the passes leaves out (`Halves` in
`DrainSplits`), so that cell comes forward by half at each drain since the ladder's last edge,
which `h` bounds; the debouncer leaves `Debounce` drains between two edges of a ladder, by which
time nothing of it is left. `OrderInv` and `PressInv` are for the tick in which one ladder slides
from a button to another: its release is routed before its press, and the Off just pushed is not
of the button pressed. `FirmwareKeepsUp` puts in the code's 3 scans, budget of 8 and ring of 32:
five notes on the two ladders together, however split, and then `EverySoundHasAnEnd` and
`HeldChordSounds` hold with no hypothesis on the ring. Five is the largest sum that holds for every
split: TLC finds `InTime` violated for one and five and for each split of seven and eight tried.
Other splits of six hold where TLC tried them, and `NotesLayers` checks three and three.

Checked by TLC only:

- liveness (`EventuallyRuns`, `GeneratorComesBack`, `QuietDrains`, `QuietSettles`,
  `NothingLingers`, `TempoIsSaved`): out of the prover's reach;
- `InTime`, `EverySoundHasAnEnd` and `HeldChordSounds` for chords of three on both ladders, which
  the theorem's bound leaves out.

Proved and in no configuration, since a run on a small instance adds nothing to a theorem for
all of them: the type invariants of the proof modules' subjects; `HeaderVouchesForSlots`,
`BootKeepsProfiles`; `OthersKept`, `SavedIsLastTouched`; `ThruIsSilent`, `DisabledIsSilent`,
`TempoOK`; `RingIsWhole`, the three `NothingStranded`, `BusyIsTrue`, `BuffersBalance`;
`CatchIsForTheLayerLeft`.

## Not modelled

- Routing: live edits of the active profile, transport buttons and controllers, which keep no
  note or key. The panic combo is in `TrsOut`.
- Clock: the averaging of taps, a function of timestamps, and the 67 s wrap of the cycle counter
  under the microsecond stamp (`clock_router.c`, 34).
- USB-MIDI: encoding and parsing of packets, and the descriptors.
- Faders: the fader as a chord's depth and CC encodings of more than 7 bits (`cc_value.c`).
- Config: the wording of the lines, the drops of a full transmit queue, the Bluetooth verbs. Of
  one frame only the first line that it completes is handled (a second takes a closing brace in a
  string, behind a cut), and a line put together from a cut frame and a later one is always
  refused; `OneFrameOneRequest` is about when such a line comes to be at all.
- Profile coding, chord voicing, LEDs: sequential functions and tables, enumerated by the unit
  tests.
- Bluetooth: the link's sources are not in the repository.
- The host tools: Python on the other side of the protocol that `Config` has.

## What could come next

1. A `Profile` module: the codec's record as fields, its versions and what a live edit changes
   under a held button; with it live edits in `Notes`.
2. `KeepsUp` for three and three: it needs the order of Offs against Ons, which `LoadInv` follows
   as two queues.
3. The composition of `UsbMidi`, `TrsOut` and the Bluetooth mirror as one output, once the
   mirror's source is available.
