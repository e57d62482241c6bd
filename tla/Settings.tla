------------------------------ MODULE Settings ------------------------------
(***************************************************************************)
(* The device settings of librarian.c: one flash record whose bytes are    *)
(* the PLAY role, the LED brightness and the tempo (LIB_ID_SETTINGS, grown *)
(* from one byte to three over the releases) and a record of its own for   *)
(* MIDI thru, each with a RAM cache.  A setter changes the cache first and *)
(* then writes the record; a write may fail and power may be cut.          *)
(*                                                                         *)
(* External: nvs_write of data equal to the stored data writes nothing and *)
(* returns 0, not the length.                                              *)
(***************************************************************************)
EXTENDS Integers, Sequences

CONSTANTS
    Value,       \* the byte values that occur
    Valid,       \* for each field the values a setter and a load accept
    Fallback,    \* for each field its default
    Zero,        \* what a cache holds before it is loaded
    FaultBudget, CrashBudget,
    InitMayFail  \* whether librarian_init may return before it loads these

\* The bytes of the settings record in their order, and the thru record.
Field == 1 .. 3
Bpm == 3
Brightness == 2
Thru == 4
Caches == Field \cup {Thru}

ASSUME SettingsAssumption ==
    /\ Valid \in [Caches -> SUBSET Value]
    /\ Fallback \in [Caches -> Value]
    /\ \A f \in Caches : Fallback[f] \in Valid[f]
    /\ Zero \in Value
    /\ FaultBudget \in Nat /\ CrashBudget \in Nat
    /\ InitMayFail \in BOOLEAN

VARIABLES
    rec,     \* flash: the settings record, <<>> when there is none
    thru,    \* flash: the thru record, a sequence of length 0 or 1
    cache,   \* RAM: play_mode_cache, brightness_cache, bpm_cache, midi_thru_cache
    up,      \* librarian_init has returned
    ready,   \* fs_ready
    loaded,  \* ... and had loaded the caches
    faults, crashes

vars == <<rec, thru, cache, up, ready, loaded, faults, crashes>>

\* Mutant: the last byte of the record is missed.
DecodeShort(f) ==
    LET bytes == IF f = Thru THEN thru ELSE rec
        i     == IF f = Thru THEN 1 ELSE f
    IN  IF i < Len(bytes) /\ bytes[i] \in Valid[f] THEN bytes[i] ELSE Fallback[f]

\* lib_playrole_load and its siblings: a byte the record has, when valid.
Decode(f) ==
    LET bytes == IF f = Thru THEN thru ELSE rec
        i     == IF f = Thru THEN 1 ELSE f
    IN  IF i <= Len(bytes) /\ bytes[i] \in Valid[f] THEN bytes[i] ELSE Fallback[f]

Stored == [f \in Caches |-> Decode(f)]

Init ==
    /\ rec \in UNION {[1 .. n -> Value] : n \in 0 .. 3}
    /\ thru \in {<<>>} \cup {<<v>> : v \in Value}
    /\ cache = [f \in Caches |-> Zero]
    /\ up = FALSE /\ ready = FALSE /\ loaded = FALSE
    /\ faults = 0 /\ crashes = 0

\* The part of librarian_init that loads the caches.
Load ==
    /\ ~up
    /\ up' = TRUE /\ ready' = TRUE /\ loaded' = TRUE
    /\ cache' = Stored
    /\ UNCHANGED <<rec, thru, faults, crashes>>

\* Its early returns: no mount, or a failed seed with the partition mounted.
InitReturnsEarly ==
    /\ ~up /\ InitMayFail
    /\ up' = TRUE /\ ready' \in BOOLEAN
    /\ UNCHANGED <<rec, thru, cache, loaded, faults, crashes>>

-----------------------------------------------------------------------------
(* A setter: brightness does not look at fs_ready, the others do.  For the  *)
(* value the cache has, each does nothing and reports success.             *)

Admitted(f, v) ==
    up /\ v \in Valid[f] /\ v # cache[f] /\ (ready \/ f = Brightness)

Record(c) == [i \in Field |-> c[i]]

\* settings_write, or the thru record's write, does its work and says so.
SetStored(f, v) ==
    /\ Admitted(f, v) /\ ready
    /\ cache' = [cache EXCEPT ![f] = v]
    /\ IF f = Thru
       THEN thru # <<v>> /\ thru' = <<v>> /\ UNCHANGED rec
       ELSE rec # Record(cache') /\ rec' = Record(cache') /\ UNCHANGED thru
    /\ UNCHANGED <<up, ready, loaded, faults, crashes>>

\* The flash already holds these bytes: nvs_write returns 0 and the setter
\* takes that for a failure.
SetUnchanged(f, v) ==
    /\ Admitted(f, v) /\ ready
    /\ cache' = [cache EXCEPT ![f] = v]
    /\ IF f = Thru THEN thru = <<v>> ELSE rec = Record(cache')
    /\ UNCHANGED <<rec, thru, up, ready, loaded, faults, crashes>>

\* The write fails: the cache has changed all the same.
SetFails(f, v) ==
    /\ Admitted(f, v)
    /\ IF ready THEN faults < FaultBudget /\ faults' = faults + 1
                ELSE UNCHANGED faults
    /\ cache' = [cache EXCEPT ![f] = v]
    /\ UNCHANGED <<rec, thru, up, ready, loaded, crashes>>

Crash ==
    /\ up
    /\ crashes < CrashBudget /\ crashes' = crashes + 1
    /\ up' = FALSE /\ ready' = FALSE /\ loaded' = FALSE
    /\ cache' = [f \in Caches |-> Zero]
    /\ UNCHANGED <<rec, thru, faults>>

Set(f, v) == SetStored(f, v) \/ SetUnchanged(f, v) \/ SetFails(f, v)

Next == Load \/ InitReturnsEarly \/ Crash \/ \E f \in Caches, v \in Value : Set(f, v)

Spec == Init /\ [][Next]_vars

-----------------------------------------------------------------------------
(* Properties.                                                             *)

TypeOK ==
    /\ rec \in UNION {[1 .. n -> Value] : n \in 0 .. 3}
    /\ thru \in {<<>>} \cup {<<v>> : v \in Value}
    /\ cache \in [Caches -> Value]
    /\ up \in BOOLEAN /\ ready \in BOOLEAN /\ loaded \in BOOLEAN
    /\ faults \in 0 .. FaultBudget /\ crashes \in 0 .. CrashBudget

\* As long as no write fails, what runs is what the next power-on will load,
\* whatever length of record an older firmware left behind.
CacheIsDurable == (loaded /\ faults = 0) => cache = Stored

\* Writing one setting of a loaded device leaves the others as they decode:
\* the record is written whole from the caches, and a short record of an
\* older firmware gains bytes no boot reads differently.
OthersKept ==
    [][\A f \in Caches : (faults = 0 /\ loaded /\ Stored'[f] # Stored[f]) =>
          \A g \in Caches \ {f} : Stored'[g] = Stored[g]]_vars
=============================================================================
