----------------------------- MODULE Librarian -----------------------------
(***************************************************************************)
(* The NVS-backed profile librarian (firmware/app/src/librarian.c): one    *)
(* header record and NumModes * BankSize profile records in flash, and in  *)
(* RAM the hot copy the control loop plays from.  All of it runs in the    *)
(* main thread, so an operation is one action; what can intervene is a     *)
(* power cut (or a watchdog bite) between two flash operations and a flash *)
(* operation that fails.                                                   *)
(*                                                                         *)
(* External, modelled from its use here: nvs_write is atomic (a record is  *)
(* the old one or the new one) and nvs_mount fails exactly while a sector  *)
(* still holds the flash of a previous layout.                             *)
(***************************************************************************)
EXTENDS Integers, FiniteSets

CONSTANTS
    NumModes,     \* NUM_MODES: the banks
    BankSize,     \* NUM_BANK_PROFILES: profiles in a bank
    Profiles,     \* contents of a record of the current version
    Default,      \* make_default: a factory profile for each slot
    ZeroProfile,  \* the static hot copy before librarian_init fills it
    Stale,        \* a record of another version: present, wrong length
    Absent,       \* no record under this id
    NumSectors,   \* flash sectors of the storage partition
    CrashBudget,  \* bound on resets in a behaviour
    FaultBudget   \* bound on failing flash operations in a behaviour

Modes == 0 .. NumModes - 1
Within == 0 .. BankSize - 1
NumProfiles == NumModes * BankSize
Slots == 0 .. NumProfiles - 1
TopSlot == NumProfiles - 1
Sectors == 0 .. NumSectors - 1
Headers == [mode : Modes, act : [Modes -> Within]]

ASSUME LibrarianAssumption ==
    /\ NumModes \in Nat \ {0}
    /\ BankSize \in Nat \ {0}
    /\ Default \in [Slots -> Profiles]
    /\ ZeroProfile \notin Profiles
    /\ Stale \notin Profiles
    /\ Absent \notin Profiles
    /\ Stale # Absent
    /\ Stale \notin Headers /\ Absent \notin Headers
    /\ NumSectors \in Nat
    /\ CrashBudget \in Nat
    /\ FaultBudget \in Nat

VARIABLES
    slots,    \* flash: the profile record of each slot
    header,   \* flash: the header record, Stale for another PROFILE_VERSION
    dirty,    \* flash: the sectors that make nvs_mount fail
    phase,    \* where the main thread is: off, a step of librarian_init, run
    next,     \* the index of the erase or seed loop
    ready,    \* fs_ready
    booted,   \* librarian_init returned 0
    mode,     \* active_mode
    act,      \* active_within
    live,     \* active_profile
    crashes,  \* resets so far
    faults,   \* failed flash operations so far
    seedFailed  \* auxiliary: one of them was a write of a seed

flash == <<slots, header, dirty>>
ram == <<ready, booted, mode, act, live>>
vars == <<slots, header, dirty, phase, next, ready, booted, mode, act, live,
          crashes, faults, seedFailed>>

FreshHeader == [mode |-> 0, act |-> [m \in Modes |-> 0]]
Phases == {"off", "mount", "erase", "probe", "seed", "load", "run"}

-----------------------------------------------------------------------------
(* The index arithmetic of lib_bank.h and the reads of one record.         *)

Global(m, w) == m * BankSize + w

\* The slot the hot copy stands for.
SlotOf(m, a) == Global(m, a[m])

Readable(g) == slots[g] \in Profiles

\* What a boot or a mode flip makes of slot g.
Loaded(g) == IF Readable(g) THEN slots[g] ELSE Default[g]

\* The condition librarian_init tests before it reseeds.
NeedsReseed == header \notin Headers \/ slots[TopSlot] = Absent

-----------------------------------------------------------------------------
(* Stores a device can come with: a blank partition, a blank one whose     *)
(* geometry moved, one written by firmware of an older PROFILE_VERSION,    *)
(* and one this firmware wrote.                                            *)

Blank == slots = [g \in Slots |-> Absent] /\ header = Absent

Init ==
    /\ \/ Blank /\ dirty = {}
       \/ Blank /\ dirty = Sectors
       \/ slots = [g \in Slots |-> Stale] /\ header = Stale /\ dirty = {}
       \/ slots = Default /\ header = FreshHeader /\ dirty = {}
    /\ phase = "off" /\ next = 0
    /\ ready = FALSE /\ booted = FALSE
    /\ mode = 0 /\ act = [m \in Modes |-> 0] /\ live = ZeroProfile
    /\ crashes = 0 /\ faults = 0 /\ seedFailed = FALSE

\* Power comes up; main() starts the watchdog and reaches librarian_init.
PowerOn ==
    /\ phase = "off"
    /\ phase' = "mount"
    /\ UNCHANGED <<flash, next, ram, crashes, faults, seedFailed>>

\* fs_bring_up: mount, or erase the partition whole and mount once more.
Mount ==
    /\ phase = "mount"
    /\ IF dirty = {}
       THEN ready' = TRUE /\ phase' = "probe" /\ UNCHANGED next
       ELSE phase' = "erase" /\ next' = 0 /\ UNCHANGED ready
    /\ UNCHANGED <<flash, booted, mode, act, live, crashes, faults, seedFailed>>

\* One turn of nvs_erase_sweep; the sweep stops at an error.
EraseSector ==
    /\ phase = "erase" /\ next \in Sectors
    /\ dirty' = dirty \ {next}
    /\ next' = next + 1
    /\ UNCHANGED <<slots, header, phase, ram, crashes, faults, seedFailed>>

EraseFails ==
    /\ phase = "erase" /\ next \in Sectors
    /\ faults < FaultBudget
    /\ faults' = faults + 1
    /\ next' = NumSectors
    /\ UNCHANGED <<flash, phase, ram, crashes, seedFailed>>

\* Mutant: the mount is retried until it works.
RemountForEver ==
    /\ phase = "erase" /\ next = NumSectors
    /\ ready' = (dirty = {})
    /\ phase' = IF dirty = {} THEN "probe" ELSE "erase"
    /\ UNCHANGED <<flash, next, booted, mode, act, live, crashes, faults, seedFailed>>

\* The retry of nvs_mount; when it fails too, init gives up with fs_ready off.
Remount ==
    /\ phase = "erase" /\ next = NumSectors
    /\ ready' = (dirty = {})
    /\ phase' = IF dirty = {} THEN "probe" ELSE "run"
    /\ UNCHANGED <<flash, next, booted, mode, act, live, crashes, faults, seedFailed>>

\* Read the header and probe the top slot.
Probe ==
    /\ phase = "probe"
    /\ phase' = IF NeedsReseed THEN "seed" ELSE "load"
    /\ next' = 0
    /\ UNCHANGED <<flash, ram, crashes, faults, seedFailed>>

\* One turn of seed_cadence_run: write the default of slot next.
SeedProfile ==
    /\ phase = "seed" /\ next \in Slots
    /\ slots' = [slots EXCEPT ![next] = Default[next]]
    /\ next' = next + 1
    /\ UNCHANGED <<header, dirty, phase, ram, crashes, faults, seedFailed>>

\* Its end: write the header.
SeedHeader ==
    /\ phase = "seed" /\ next = NumProfiles
    /\ header' = FreshHeader
    /\ phase' = "load"
    /\ UNCHANGED <<slots, dirty, next, ram, crashes, faults, seedFailed>>

\* A seed write fails: librarian_init returns early, with fs_ready set and
\* the RAM state still zero, and main() runs its loop all the same.
SeedFails ==
    /\ phase = "seed"
    /\ faults < FaultBudget
    /\ faults' = faults + 1 /\ seedFailed' = TRUE
    /\ phase' = "run"
    /\ UNCHANGED <<flash, next, ram, crashes>>

\* Decode the header (each active clamped into its bank) and fill the hot copy.
Load ==
    /\ phase = "load"
    /\ mode' = header.mode
    /\ act' = [m \in Modes |-> IF header.act[m] < BankSize THEN header.act[m] ELSE 0]
    /\ live' = Loaded(SlotOf(mode', act'))
    /\ booted' = TRUE
    /\ phase' = "run"
    /\ UNCHANGED <<flash, next, ready, crashes, faults, seedFailed>>

-----------------------------------------------------------------------------
(* Operations of the running device, from the control loop and the host.   *)
(* A failing nvs_write leaves all of this state alone, so only reset_all,  *)
(* which has several, has a failing form.                                  *)

Running == phase = "run" /\ ready

\* Mutant: the hot copy is not refreshed.
WriteProfileCold(g, p) ==
    /\ Running
    /\ slots' = [slots EXCEPT ![g] = p]
    /\ UNCHANGED <<header, dirty, phase, next, ram, crashes, faults, seedFailed>>

\* librarian_write; librarian_reset is the write of Default[g].
WriteProfile(g, p) ==
    /\ Running
    /\ slots' = [slots EXCEPT ![g] = p]
    /\ live' = IF g = SlotOf(mode, act) THEN p ELSE live
    /\ UNCHANGED <<header, dirty, phase, next, ready, booted,
                   mode, act, crashes, faults, seedFailed>>

\* librarian_reset_all: the loop reaches slot n and stops there on an error.
ResetAll(n) ==
    /\ Running
    /\ IF n < NumProfiles THEN faults < FaultBudget /\ faults' = faults + 1
                          ELSE UNCHANGED faults
    /\ slots' = [g \in Slots |-> IF g < n THEN Default[g] ELSE slots[g]]
    /\ live' = IF SlotOf(mode, act) < n THEN Default[SlotOf(mode, act)] ELSE live
    /\ UNCHANGED <<header, dirty, phase, next, ready, booted,
                   mode, act, crashes, seedFailed>>

\* librarian_set_active: the target must read back before it is persisted.
SetActive(w) ==
    /\ Running
    /\ Readable(Global(mode, w))
    /\ act' = [act EXCEPT ![mode] = w]
    /\ header' = [mode |-> mode, act |-> act']
    /\ live' = slots[Global(mode, w)]
    /\ UNCHANGED <<slots, dirty, phase, next, ready, booted, mode,
                   crashes, faults, seedFailed>>

\* Mutant: the flip is not persisted.
SetModeVolatile(m) ==
    /\ Running
    /\ m # mode
    /\ mode' = m
    /\ live' = Loaded(SlotOf(m, act))
    /\ UNCHANGED <<flash, phase, next, ready, booted, act, crashes, faults, seedFailed>>

\* librarian_set_mode: the same mode burns no write.  The reserved personalities
\* it leaves room for have no caller.
SetMode(m) ==
    /\ Running
    /\ m # mode
    /\ mode' = m
    /\ header' = [mode |-> m, act |-> act]
    /\ live' = Loaded(SlotOf(m, act))
    /\ UNCHANGED <<slots, dirty, phase, next, ready, booted, act, crashes, faults, seedFailed>>

\* Power is cut, or the device reset: RAM goes back to its zeros.
Crash ==
    /\ phase # "off"
    /\ crashes < CrashBudget
    /\ crashes' = crashes + 1
    /\ phase' = "off" /\ next' = 0
    /\ ready' = FALSE /\ booted' = FALSE
    /\ mode' = 0 /\ act' = [m \in Modes |-> 0] /\ live' = ZeroProfile
    /\ UNCHANGED <<flash, faults, seedFailed>>

BootStep ==
    PowerOn \/ Mount \/ EraseSector \/ Remount \/ Probe \/ SeedProfile
      \/ SeedHeader \/ Load

Operation ==
    \/ \E g \in Slots, p \in Profiles : WriteProfile(g, p)
    \/ \E n \in 0 .. NumProfiles : ResetAll(n)
    \/ \E w \in Within : SetActive(w)
    \/ \E m \in Modes : SetMode(m)

Next == BootStep \/ Operation \/ EraseFails \/ SeedFails \/ Crash

Spec == Init /\ [][Next]_vars

\* The main thread runs on; resets and faults are bounded, so they end.
FairSpec == Spec /\ WF_vars(BootStep)

-----------------------------------------------------------------------------
(* Properties.                                                             *)

TypeOK ==
    /\ slots \in [Slots -> Profiles \cup {Stale, Absent}]
    /\ header \in Headers \cup {Stale, Absent}
    /\ dirty \subseteq Sectors
    /\ phase \in Phases
    /\ next \in Nat
    /\ ready \in BOOLEAN /\ booted \in BOOLEAN
    /\ mode \in Modes
    /\ act \in [Modes -> Within]
    /\ live \in Profiles \cup {ZeroProfile}
    /\ crashes \in 0 .. CrashBudget /\ faults \in 0 .. FaultBudget
    /\ seedFailed \in BOOLEAN

\* Switching off at any moment of a booted device and on again brings back
\* what was live: the header in flash is the RAM's mode and actives, the
\* next boot will not reseed, and the hot copy the control loop plays is the
\* record of the active slot, through every edit, switch, flip and reset
\* (librarian_write's refresh, set_active's and set_mode's write order).
PowerCycleRoundTrip ==
    booted =>
        /\ ~NeedsReseed
        /\ header = [mode |-> mode, act |-> act]
        /\ live = Loaded(SlotOf(mode, act))

\* A header of this version vouches for all the profile records, whatever
\* power cut came between the writes of the seed, so a `list` of a booted
\* device never meets an unreadable slot (the header is written last).  It takes
\* seeds that do not fail: a device whose seed did operates half-booted, and its
\* operations write a header.
HeaderVouchesForSlots ==
    header \in Headers /\ ~seedFailed => \A g \in Slots : Readable(g)

\* A power cut between two writes never turns a user's profile back into a
\* default: flash changes a readable profile of a formatted store only by
\* an operation of the running device, never by a boot, unless a seed has failed.
BootKeepsProfiles ==
    [][(header \in Headers /\ slots' # slots /\ ~seedFailed) => phase = "run"]_vars

\* Whatever resets hit it, the boot ends and the control loop runs: a seed or
\* an erase interrupted again and again does not become a boot loop.
EventuallyRuns == <>[](phase = "run")

-----------------------------------------------------------------------------
\* The abstract store as this one maps to it: until a header is in flash the
\* store is unformatted; the selection is the header's; what plays is the
\* hot copy, or what the next boot would load while the device is off.
PS == INSTANCE ProfileStore WITH
    formatted <- header \in Headers,
    profile <- [g \in Slots |-> IF header \in Headers THEN Loaded(g) ELSE Default[g]],
    sel <- IF header \in Headers THEN header ELSE FreshHeader,
    playing <- IF booted THEN live
               ELSE IF header \in Headers
                    THEN Loaded(SlotOf(header.mode, header.act))
                    ELSE Default[0]

\* The librarian implements the store of ProfileStore: each operation is one
\* atomic, durable change and a power cut at any point is none, until a write of
\* a seed fails.
ImplementsProfileStore == PS!Init /\ [][seedFailed' \/ PS!Next]_(PS!pvars)
=============================================================================
