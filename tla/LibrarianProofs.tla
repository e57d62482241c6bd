--------------------------- MODULE LibrarianProofs ---------------------------
(***************************************************************************)
(* Proofs about the librarian, for every number of banks, bank size and    *)
(* profile content, and every bound on resets and faults.                  *)
(***************************************************************************)
EXTENDS Librarian, TLAPS

USE LibrarianAssumption

-----------------------------------------------------------------------------
(* The index arithmetic.                                                   *)

\* lib_bank_global maps the banks into the slots, below the profile count.
LEMMA GlobalIsSlot ==
    ASSUME NEW m \in Modes, NEW w \in Within
    PROVE  Global(m, w) \in Slots
<1>1. m * BankSize \in Nat /\ NumProfiles \in Nat
  BY DEF Modes, NumProfiles
<1>2. (m + 1) * BankSize <= NumModes * BankSize
  BY DEF Modes
<1>3. (m + 1) * BankSize = m * BankSize + BankSize
  BY DEF Modes
<1> QED
  BY <1>1, <1>2, <1>3 DEF Global, Slots, Within, NumProfiles

LEMMA TopSlotIsSlot == NumProfiles \in Nat \ {0} /\ TopSlot \in Slots
<1>1. NumModes * BankSize >= BankSize
  BY SMT
<1> QED
  BY <1>1 DEF NumProfiles, TopSlot, Slots

LEMMA LoadedIsProfile ==
    ASSUME TypeOK, NEW g \in Slots
    PROVE  Loaded(g) \in Profiles
BY DEF TypeOK, Loaded, Readable

LEMMA SlotOfIsSlot ==
    ASSUME NEW m \in Modes, NEW a \in [Modes -> Within]
    PROVE  SlotOf(m, a) \in Slots
<1>1. 0 \in Modes /\ 0 \in Within
  BY DEF Modes, Within
<1> QED
  BY <1>1, GlobalIsSlot DEF SlotOf

-----------------------------------------------------------------------------
(* Types.                                                                  *)

LEMMA FreshHeaderIsHeader == FreshHeader \in Headers
BY DEF FreshHeader, Headers, Modes, Within

\* The invariant is inductive only with what the boot knows at each of its
\* steps: what is loaded was accepted, a finished seed has reached the probed
\* slot, and only a running device has booted.
LoadReady == phase = "load" => ~NeedsReseed

SeedProgress ==
    phase = "seed" => next <= NumProfiles
                      /\ (next = NumProfiles => slots[TopSlot] # Absent)

OnlyRunBooted == booted => phase = "run"

IInv == TypeOK /\ LoadReady /\ SeedProgress /\ OnlyRunBooted /\ PowerCycleRoundTrip

LEMMA InitTypeOK == Init => TypeOK
<1> SUFFICES ASSUME Init PROVE TypeOK
  OBVIOUS
<1>1. act \in [Modes -> Within] /\ mode \in Modes
  BY DEF Init, Modes, Within
<1>2. dirty \subseteq Sectors /\ slots \in [Slots -> Profiles \cup {Stale, Absent}]
  BY DEF Init, Blank
<1>3. header \in Headers \cup {Stale, Absent}
  BY FreshHeaderIsHeader DEF Init, Blank
<1>4. phase \in Phases /\ next \in Nat /\ live \in Profiles \cup {ZeroProfile}
  BY DEF Init, Phases
<1>5. crashes \in 0 .. CrashBudget /\ faults \in 0 .. FaultBudget
  BY DEF Init
<1>6. ready \in BOOLEAN /\ booted \in BOOLEAN /\ seedFailed \in BOOLEAN
  BY DEF Init
<1> QED
  BY <1>1, <1>2, <1>3, <1>4, <1>5, <1>6 DEF TypeOK

LEMMA StepTypeOK == IInv /\ [Next]_vars => TypeOK'
<1> SUFFICES ASSUME IInv, [Next]_vars PROVE TypeOK'
  OBVIOUS
<1> TypeOK
  BY DEF IInv
<1> USE DEF TypeOK, flash, ram
<1>1. CASE PowerOn
  BY <1>1 DEF PowerOn, Phases
<1>2. CASE Mount
  <2>1. UNCHANGED <<slots, header, dirty, booted, mode, act, live, crashes, faults, seedFailed>>
    BY <1>2 DEF Mount
  <2>2. CASE dirty = {}
    BY <1>2, <2>1, <2>2 DEF Mount, Phases
  <2>3. CASE dirty # {}
    BY <1>2, <2>1, <2>3 DEF Mount, Phases
  <2> QED
    BY <2>2, <2>3
<1>3. CASE EraseSector
  BY <1>3 DEF EraseSector
<1>4. CASE EraseFails
  BY <1>4 DEF EraseFails
<1>5. CASE Remount
  BY <1>5 DEF Remount, Phases
<1>6. CASE Probe
  BY <1>6 DEF Probe, Phases
<1>7. CASE SeedProfile
  <2>1. Default[next] \in Profiles /\ next' \in Nat
    BY <1>7 DEF SeedProfile
  <2>2. slots' \in [Slots -> Profiles \cup {Stale, Absent}]
    BY <1>7, <2>1 DEF SeedProfile
  <2> QED
    BY <1>7, <2>1, <2>2 DEF SeedProfile
<1>8. CASE SeedHeader
  BY <1>8, FreshHeaderIsHeader DEF SeedHeader, Phases
<1>9. CASE SeedFails
  BY <1>9 DEF SeedFails, Phases
<1>10. CASE Load
  <2>1. header \in Headers
    BY <1>10 DEF IInv, Load, LoadReady, NeedsReseed
  <2>2. mode' \in Modes /\ act' \in [Modes -> Within]
    BY <1>10, <2>1 DEF Load, Headers, Within
  <2>3. live' \in Profiles
    BY <1>10, <2>2, SlotOfIsSlot, LoadedIsProfile DEF Load
  <2> QED
    BY <1>10, <2>2, <2>3 DEF Load, Phases
<1>11. ASSUME NEW g \in Slots, NEW p \in Profiles, WriteProfile(g, p)
       PROVE  TypeOK'
  BY <1>11 DEF WriteProfile
<1>12. ASSUME NEW n \in 0 .. NumProfiles, ResetAll(n)
       PROVE  TypeOK'
  <2>1. slots' \in [Slots -> Profiles \cup {Stale, Absent}]
    BY <1>12 DEF ResetAll
  <2>2. live' \in Profiles \cup {ZeroProfile}
    <3>1. Default[SlotOf(mode, act)] \in Profiles
      BY GlobalIsSlot DEF SlotOf
    <3> QED
      BY <1>12, <3>1 DEF ResetAll
  <2> QED
    BY <1>12, <2>1, <2>2 DEF ResetAll
<1>13. ASSUME NEW w \in Within, SetActive(w)
       PROVE  TypeOK'
  <2>1. act' \in [Modes -> Within]
    BY <1>13 DEF SetActive
  <2>2. header' \in Headers
    BY <1>13, <2>1 DEF SetActive, Headers
  <2> QED
    BY <1>13, <2>1, <2>2 DEF SetActive, Readable
<1>14. ASSUME NEW m \in Modes, SetMode(m)
       PROVE  TypeOK'
  <2>1. header' \in Headers
    BY <1>14 DEF SetMode, Headers
  <2>2. live' \in Profiles
    BY <1>14, SlotOfIsSlot, LoadedIsProfile DEF SetMode
  <2> QED
    BY <1>14, <2>1, <2>2 DEF SetMode
<1>15. CASE Crash
  <2>1. 0 \in Modes /\ 0 \in Within
    BY DEF Modes, Within
  <2>2. mode' \in Modes /\ act' \in [Modes -> Within]
    BY <1>15, <2>1 DEF Crash
  <2>3. crashes' \in 0 .. CrashBudget
    BY <1>15 DEF Crash
  <2>4. phase' \in Phases /\ next' \in Nat
    BY <1>15 DEF Crash, Phases
  <2>5. UNCHANGED <<slots, header, dirty, faults, seedFailed>>
        /\ ready' = FALSE /\ booted' = FALSE /\ live' = ZeroProfile
    BY <1>15 DEF Crash
  <2> QED
    BY <2>2, <2>3, <2>4, <2>5
<1>16. CASE UNCHANGED vars
  BY <1>16 DEF vars
<1> QED
  BY <1>1, <1>2, <1>3, <1>4, <1>5, <1>6, <1>7, <1>8, <1>9, <1>10, <1>11,
     <1>12, <1>13, <1>14, <1>15, <1>16 DEF Next, BootStep, Operation

-----------------------------------------------------------------------------
(* The round trip through flash.                                           *)

LEMMA InitIInv == Init => IInv
BY InitTypeOK DEF Init, IInv, LoadReady, SeedProgress, OnlyRunBooted,
                  PowerCycleRoundTrip

LEMMA StepIInv == IInv /\ [Next]_vars => IInv'
<1> SUFFICES ASSUME IInv, [Next]_vars PROVE IInv'
  OBVIOUS
<1>t. TypeOK /\ TypeOK'
  BY StepTypeOK DEF IInv
<1>top. NumProfiles \in Nat \ {0} /\ TopSlot \in Slots /\ TopSlot = NumProfiles - 1
  BY TopSlotIsSlot DEF TopSlot
<1> DEFINE Boot == LoadReady' /\ SeedProgress' /\ OnlyRunBooted'
\* A step that keeps the device off the control loop keeps booted FALSE.
<1>1. ASSUME phase # "run", ~booted', Boot PROVE IInv'
  BY <1>1, <1>t DEF IInv, PowerCycleRoundTrip
<1> USE DEF flash, ram
<1>2. ASSUME phase # "run" PROVE ~booted
  BY <1>2 DEF IInv, OnlyRunBooted
<1>3. CASE PowerOn \/ Mount \/ EraseSector \/ EraseFails \/ Remount \/ SeedFails
  <2>1. phase # "run" /\ ~booted'
    BY <1>2, <1>3 DEF PowerOn, Mount, EraseSector, EraseFails, Remount, SeedFails
  <2>2. phase' \notin {"load", "seed"}
    BY <1>3 DEF PowerOn, Mount, EraseSector, EraseFails, Remount, SeedFails
  <2> QED
    BY <1>1, <2>1, <2>2 DEF LoadReady, SeedProgress, OnlyRunBooted
<1>4. CASE Probe
  <2>1. phase # "run" /\ ~booted'
    BY <1>2, <1>4 DEF Probe
  <2>2. LoadReady' /\ SeedProgress'
    BY <1>4, <1>top DEF Probe, LoadReady, SeedProgress, NeedsReseed
  <2> QED
    BY <1>1, <2>1, <2>2 DEF OnlyRunBooted
<1>5. CASE SeedProfile
  <2>1. phase # "run" /\ ~booted' /\ phase' = "seed"
    BY <1>2, <1>5 DEF SeedProfile
  <2>2. next < NumProfiles /\ next' = next + 1
    BY <1>5, <1>top DEF SeedProfile, Slots
  <2>3. next' = NumProfiles => next = TopSlot
    BY <2>2, <1>t, <1>top DEF TypeOK
  <2>4. slots'[next] = Default[next] /\ Default[next] # Absent
    BY <1>5, <1>t DEF SeedProfile, TypeOK
  <2>5. SeedProgress'
    BY <2>1, <2>2, <2>3, <2>4, <1>t, <1>top DEF SeedProgress, TypeOK, TopSlot, NumProfiles
  <2> QED
    BY <1>1, <2>1, <2>5 DEF LoadReady, OnlyRunBooted
<1>6. CASE SeedHeader
  <2>1. phase # "run" /\ ~booted' /\ phase' = "load"
    BY <1>2, <1>6 DEF SeedHeader
  <2>2. ~NeedsReseed'
    BY <1>6, FreshHeaderIsHeader DEF SeedHeader, IInv, SeedProgress, NeedsReseed
  <2> QED
    BY <1>1, <2>1, <2>2 DEF LoadReady, SeedProgress, OnlyRunBooted
<1>7. CASE Load
  <2>1. ~NeedsReseed /\ ~NeedsReseed'
    BY <1>7 DEF IInv, Load, LoadReady, NeedsReseed
  <2>2. header' = [mode |-> mode', act |-> act']
    <3>1. header \in Headers /\ header' = header
      BY <1>7, <2>1 DEF Load, NeedsReseed
    <3>2. header.act \in [Modes -> Within] /\ header = [mode |-> header.mode, act |-> header.act]
      BY <3>1 DEF Headers
    <3>3. act' = header.act
      BY <1>7, <3>2 DEF Load, Within
    <3> QED
      BY <1>7, <3>1, <3>2, <3>3 DEF Load
  <2>3. (live = Loaded(SlotOf(mode, act)))'
    BY <1>7 DEF Load, SlotOf, Loaded, Readable, Global
  <2> QED
    BY <1>7, <2>1, <2>2, <2>3, <1>t
       DEF Load, IInv, LoadReady, SeedProgress, OnlyRunBooted, PowerCycleRoundTrip
<1>8. ASSUME phase' = "run", PowerCycleRoundTrip' PROVE IInv'
  BY <1>8, <1>t DEF IInv, LoadReady, SeedProgress, OnlyRunBooted
<1>9. ASSUME NEW g \in Slots, NEW p \in Profiles, WriteProfile(g, p)
      PROVE  IInv'
  <2>1. phase' = "run" /\ UNCHANGED <<header, mode, act, booted>>
    BY <1>9 DEF WriteProfile, Running
  <2>2. slots' = [slots EXCEPT ![g] = p] /\ p # Absent
    BY <1>9 DEF WriteProfile
  <2>3. NeedsReseed' => NeedsReseed
    BY <2>1, <2>2, <1>t DEF NeedsReseed, TypeOK
  <2>4. ASSUME booted PROVE live' = Loaded(SlotOf(mode, act))'
    <3>1. Global(mode, act[mode]) \in Slots
      BY <1>t, GlobalIsSlot DEF TypeOK
    <3>2. live = Loaded(Global(mode, act[mode]))
      BY <2>4 DEF IInv, PowerCycleRoundTrip, SlotOf
    <3>3. CASE g = Global(mode, act[mode])
      BY <3>1, <3>3, <2>1, <2>2, <2>4, <1>9, <1>t
         DEF WriteProfile, SlotOf, Loaded, Readable, TypeOK, Global
    <3>4. CASE g # Global(mode, act[mode])
      BY <3>1, <3>2, <3>4, <2>1, <2>2, <2>4, <1>9, <1>t
         DEF WriteProfile, SlotOf, Loaded, Readable, TypeOK, Global
    <3> QED
      BY <3>3, <3>4
  <2> QED
    BY <1>8, <2>1, <2>3, <2>4 DEF IInv, PowerCycleRoundTrip, SlotOf, Global
<1>10. ASSUME NEW n \in 0 .. NumProfiles, ResetAll(n)
       PROVE  IInv'
  <2>1. phase' = "run" /\ UNCHANGED <<header, mode, act, booted>>
    BY <1>10 DEF ResetAll, Running
  <2>2. slots' = [g \in Slots |-> IF g < n THEN Default[g] ELSE slots[g]]
    BY <1>10 DEF ResetAll
  <2>3. NeedsReseed' => NeedsReseed
    BY <2>1, <2>2, <1>t, <1>top DEF NeedsReseed, TypeOK
  <2>4. ASSUME booted PROVE live' = Loaded(SlotOf(mode, act))'
    <3>1. Global(mode, act[mode]) \in Slots
      BY <1>t, GlobalIsSlot DEF TypeOK
    <3>2. live = Loaded(Global(mode, act[mode]))
      BY <2>4 DEF IInv, PowerCycleRoundTrip, SlotOf
    <3>3. CASE Global(mode, act[mode]) < n
      BY <3>1, <3>3, <2>1, <2>2, <2>4, <1>10
         DEF ResetAll, SlotOf, Loaded, Readable, Global
    <3>4. CASE ~(Global(mode, act[mode]) < n)
      BY <3>1, <3>2, <3>4, <2>1, <2>2, <2>4, <1>10
         DEF ResetAll, SlotOf, Loaded, Readable, Global
    <3> QED
      BY <3>3, <3>4
  <2> QED
    BY <1>8, <2>1, <2>3, <2>4 DEF IInv, PowerCycleRoundTrip, SlotOf, Global
<1>11. ASSUME NEW w \in Within, SetActive(w)
       PROVE  IInv'
  <2>1. phase' = "run" /\ UNCHANGED <<slots, mode, booted>>
    BY <1>11 DEF SetActive, Running
  <2>2. header' = [mode |-> mode', act |-> act']
    BY <1>11 DEF SetActive
  <2>3. header' \in Headers
    BY <2>2, <1>t DEF TypeOK, Headers
  <2>4. booted => ~NeedsReseed'
    BY <2>1, <2>3 DEF IInv, PowerCycleRoundTrip, NeedsReseed
  <2>5. (live = Loaded(SlotOf(mode, act)))'
    <3>1. act'[mode'] = w /\ mode' = mode
      BY <2>1, <1>11, <1>t DEF SetActive, TypeOK
    <3>2. live' = slots[Global(mode, w)] /\ Readable(Global(mode, w))
      BY <1>11 DEF SetActive
    <3> QED
      BY <3>1, <3>2, <2>1 DEF SlotOf, Loaded, Readable, Global
  <2> QED
    BY <1>8, <2>1, <2>2, <2>4, <2>5 DEF PowerCycleRoundTrip
<1>12. ASSUME NEW m \in Modes, SetMode(m)
       PROVE  IInv'
  <2>1. phase' = "run" /\ UNCHANGED <<slots, act, booted>> /\ mode' = m
    BY <1>12 DEF SetMode, Running
  <2>2. header' = [mode |-> mode', act |-> act']
    BY <1>12 DEF SetMode
  <2>3. header' \in Headers
    BY <2>2, <1>t DEF TypeOK, Headers
  <2>4. booted => ~NeedsReseed'
    BY <2>1, <2>3 DEF IInv, PowerCycleRoundTrip, NeedsReseed
  <2>5. (live = Loaded(SlotOf(mode, act)))'
    BY <2>1, <1>12 DEF SetMode, SlotOf, Loaded, Readable, Global
  <2> QED
    BY <1>8, <2>1, <2>2, <2>4, <2>5 DEF PowerCycleRoundTrip
<1>13. CASE Crash
  BY <1>13, <1>t DEF Crash, IInv, LoadReady, SeedProgress, OnlyRunBooted,
                     PowerCycleRoundTrip
<1>14. CASE UNCHANGED vars
  BY <1>14, <1>t DEF vars, IInv, LoadReady, SeedProgress, OnlyRunBooted,
                     PowerCycleRoundTrip, NeedsReseed, Loaded, Readable
<1> QED
  BY <1>3, <1>4, <1>5, <1>6, <1>7, <1>9, <1>10, <1>11, <1>12, <1>13, <1>14
     DEF Next, BootStep, Operation

THEOREM InductiveInvariant == Spec => []IInv
BY InitIInv, StepIInv, PTL DEF Spec

\* Every reachable state is of its type: the boot never decodes a header it
\* has not accepted, and no index leaves its bank.
THEOREM TypeCorrect == Spec => []TypeOK
BY InductiveInvariant, PTL DEF IInv

\* For any geometry, contents and order of resets, failing writes and
\* operations: the power-cycle round trip of the selection and of the profile
\* that plays.
THEOREM RoundTrip == Spec => []PowerCycleRoundTrip
BY InductiveInvariant, PTL DEF IInv

-----------------------------------------------------------------------------
(* What a header in flash says of the records: until a write of a seed     *)
(* fails, and with power cuts anywhere.                                    *)

\* A seed only runs in a store without a header of this version, and leaves a
\* readable prefix; a mounted device reaches its loop only past a header.
SeedPrefix ==
    phase = "seed" =>
        /\ header \notin Headers
        /\ \A g \in Slots : g < next => Readable(g)

RunsFormatted == (phase = "run" /\ ready) => header \in Headers

VInv == IInv /\ HeaderVouchesForSlots /\ SeedPrefix /\ RunsFormatted

LEMMA InitVInv == Init => VInv
<1> SUFFICES ASSUME Init PROVE VInv
  OBVIOUS
<1>1. HeaderVouchesForSlots
  BY DEF Init, Blank, HeaderVouchesForSlots, Readable, Headers
<1> QED
  BY <1>1, InitIInv DEF Init, VInv, SeedPrefix, RunsFormatted

\* A failure of a seed is not forgotten.
LEMMA FailureLasts == [Next]_vars /\ ~seedFailed' => ~seedFailed
BY DEF Next, BootStep, Operation, vars, PowerOn, Mount, EraseSector, EraseFails, Remount,
       Probe, SeedProfile, SeedHeader, SeedFails, Load, Crash, WriteProfile, ResetAll,
       SetActive, SetMode

LEMMA StepVInv == ~seedFailed' /\ VInv /\ [Next]_vars => VInv'
<1> SUFFICES ASSUME ~seedFailed', VInv, [Next]_vars PROVE VInv'
  OBVIOUS
<1>t. IInv /\ IInv' /\ TypeOK /\ ~seedFailed
  BY StepIInv, FailureLasts DEF VInv, IInv
<1>top. NumProfiles \in Nat \ {0} /\ TopSlot \in Slots
  BY TopSlotIsSlot
<1> USE DEF flash, ram
<1>1. ASSUME UNCHANGED <<slots, header>>, phase' # "seed",
             (phase' = "run" /\ ready') => header' \in Headers
      PROVE  VInv'
  BY <1>1, <1>t DEF VInv, HeaderVouchesForSlots, Readable, SeedPrefix, RunsFormatted
<1>2. CASE PowerOn \/ Mount \/ EraseSector \/ EraseFails \/ Remount \/ Load \/ Crash
  <2>1. UNCHANGED <<slots, header>> /\ phase' # "seed"
    BY <1>2 DEF PowerOn, Mount, EraseSector, EraseFails, Remount, Load, Crash
  <2>2. (phase' = "run" /\ ready') => phase = "load"
    BY <1>2 DEF PowerOn, Mount, EraseSector, EraseFails, Remount, Load, Crash
  <2>3. phase = "load" => header \in Headers
    BY <1>t DEF IInv, LoadReady, NeedsReseed
  <2> QED
    BY <1>1, <2>1, <2>2, <2>3
<1>3. CASE Probe
  <2>1. HeaderVouchesForSlots => (NeedsReseed => header \notin Headers)
    BY <1>top, <1>t DEF HeaderVouchesForSlots, NeedsReseed, Readable
  <2>2. UNCHANGED <<slots, header>> /\ next' = 0 /\ phase' # "run"
        /\ (phase' = "seed" => NeedsReseed)
    BY <1>3 DEF Probe
  <2>3. \A g \in Slots : ~(g < 0)
    BY DEF Slots
  <2> QED
    BY <2>1, <2>2, <2>3, <1>t
       DEF VInv, HeaderVouchesForSlots, Readable, SeedPrefix, RunsFormatted
<1>4. CASE SeedProfile
  <2>1. phase = "seed" /\ phase' = "seed" /\ UNCHANGED header /\ next' = next + 1
        /\ next \in Slots
    BY <1>4 DEF SeedProfile
  <2>2. header \notin Headers /\ \A g \in Slots : g < next => Readable(g)
    BY <2>1 DEF VInv, SeedPrefix
  <2>3. ASSUME NEW g \in Slots, g < next' PROVE Readable(g)'
    <3>1. g = next \/ g < next
      BY <2>1, <2>3 DEF Slots
    <3>2. slots' = [slots EXCEPT ![next] = Default[next]] /\ Default[next] \in Profiles
      BY <1>4, <2>1 DEF SeedProfile
    <3> QED
      BY <3>1, <3>2, <2>2, <1>t DEF Readable, TypeOK
  <2> QED
    BY <2>1, <2>2, <2>3, <1>t DEF VInv, HeaderVouchesForSlots, SeedPrefix, RunsFormatted
<1>5. CASE SeedHeader
  <2>1. phase = "seed" /\ next = NumProfiles /\ phase' = "load" /\ UNCHANGED slots
    BY <1>5 DEF SeedHeader
  <2>2. \A g \in Slots : g < NumProfiles
    BY <1>top DEF Slots
  <2>3. \A g \in Slots : Readable(g)
    BY <2>1, <2>2 DEF VInv, SeedPrefix
  <2> QED
    BY <2>1, <2>3, <1>t
       DEF VInv, HeaderVouchesForSlots, Readable, SeedPrefix, RunsFormatted
<1>6. CASE SeedFails
  BY <1>6 DEF SeedFails
\* The running device: the header stays one of this version, and every write
\* of a profile leaves a readable record.
<1>7. ASSUME Running, phase' = "run", header' \in Headers,
             \A g \in Slots : Readable(g) => Readable(g)'
      PROVE  VInv'
  BY <1>7, <1>t DEF VInv, Running, HeaderVouchesForSlots, SeedPrefix, RunsFormatted
<1>8. Running => header \in Headers
  BY DEF Running, VInv, RunsFormatted
<1>9. ASSUME NEW g \in Slots, NEW p \in Profiles, WriteProfile(g, p)
      PROVE  VInv'
  <2>1. Running /\ phase' = "run" /\ header' = header
    BY <1>9 DEF WriteProfile, Running
  <2>2. \A h \in Slots : Readable(h) => Readable(h)'
    BY <1>9, <1>t DEF WriteProfile, Readable, TypeOK
  <2> QED
    BY <1>7, <1>8, <2>1, <2>2
<1>10. ASSUME NEW n \in 0 .. NumProfiles, ResetAll(n)
       PROVE  VInv'
  <2>1. Running /\ phase' = "run" /\ header' = header
    BY <1>10 DEF ResetAll, Running
  <2>2. \A h \in Slots : Readable(h) => Readable(h)'
    BY <1>10 DEF ResetAll, Readable
  <2> QED
    BY <1>7, <1>8, <2>1, <2>2
<1>11. CASE \/ \E w \in Within : SetActive(w)
            \/ \E m \in Modes : SetMode(m)
  <2>1. Running /\ phase' = "run" /\ UNCHANGED slots
    BY <1>11 DEF SetActive, SetMode, Running
  <2>2. header' \in Headers
    <3>1. header' = [mode |-> mode', act |-> act']
      BY <1>11 DEF SetActive, SetMode
    <3>2. mode' \in Modes /\ act' \in [Modes -> Within]
      BY <1>t DEF IInv, TypeOK
    <3> QED
      BY <3>1, <3>2 DEF Headers
  <2> QED
    BY <1>7, <2>1, <2>2 DEF Readable
<1>12. CASE UNCHANGED vars
  BY <1>12, <1>t DEF vars, VInv, HeaderVouchesForSlots, Readable, SeedPrefix,
                     RunsFormatted
<1> QED
  BY <1>2, <1>3, <1>4, <1>5, <1>6, <1>9, <1>10, <1>11, <1>12
     DEF Next, BootStep, Operation

\* Wherever power is cut, a header of this version means that every slot of
\* every bank can be read: `list` never meets a slot it must refuse.
THEOREM HeaderVouches == Spec => []HeaderVouchesForSlots
<1>1. (seedFailed \/ VInv) /\ [Next]_vars => (seedFailed \/ VInv)'
  BY StepVInv, FailureLasts
<1>2. seedFailed \/ VInv => HeaderVouchesForSlots
  BY DEF VInv, HeaderVouchesForSlots
<1> QED
  BY InitVInv, <1>1, <1>2, PTL DEF Spec

\* A boot never overwrites the profiles of a store that has a header of this
\* version, however often it is cut short.
THEOREM BootKeeps == Spec => BootKeepsProfiles
<1>1. (seedFailed \/ VInv) /\ [Next]_vars => (seedFailed \/ VInv)'
  BY StepVInv, FailureLasts
<1>2. (seedFailed \/ VInv) /\ [Next]_vars
        => [(header \in Headers /\ slots' # slots /\ ~seedFailed) => phase = "run"]_vars
  <2> SUFFICES ASSUME VInv, Next, header \in Headers, slots' # slots PROVE phase = "run"
    OBVIOUS
  <2>1. phase # "seed"
    BY DEF VInv, SeedPrefix
  <2>2. ~(PowerOn \/ Mount \/ EraseSector \/ EraseFails \/ Remount \/ Probe
            \/ SeedProfile \/ SeedHeader \/ SeedFails \/ Load \/ Crash)
    BY <2>1 DEF PowerOn, Mount, EraseSector, EraseFails, Remount, Probe, SeedProfile,
                SeedHeader, SeedFails, Load, Crash, flash
  <2> QED
    BY <2>2 DEF Next, BootStep, Operation, WriteProfile, ResetAll, SetActive, SetMode,
                Running
<1> QED
  BY InitVInv, <1>1, <1>2, PTL DEF Spec, BootKeepsProfiles

-----------------------------------------------------------------------------
(* The abstract store.  What a seed has written so far is what the mapping *)
(* says of a store without a header, and a device that operates has booted *)
(* through the load.                                                       *)

SeedIsFactory == phase = "seed" => \A g \in Slots : g < next => slots[g] = Default[g]

RunsBooted == (phase = "run" /\ ready) => booted

RInv == VInv /\ SeedIsFactory /\ RunsBooted

LEMMA InitRInv == Init => RInv
BY InitVInv DEF Init, RInv, SeedIsFactory, RunsBooted

LEMMA StepRInv == ~seedFailed' /\ RInv /\ [Next]_vars => RInv'
<1> SUFFICES ASSUME ~seedFailed', RInv, [Next]_vars PROVE RInv'
  OBVIOUS
<1>v. VInv /\ VInv' /\ TypeOK
  BY StepVInv DEF RInv, VInv, IInv
<1> USE DEF flash, ram
<1>1. ASSUME phase' # "seed", (phase' = "run" /\ ready') => booted' PROVE RInv'
  BY <1>1, <1>v DEF RInv, SeedIsFactory, RunsBooted
<1>2. CASE PowerOn \/ Mount \/ EraseSector \/ EraseFails \/ Remount \/ SeedHeader \/ Load
           \/ Crash
  BY <1>1, <1>2 DEF PowerOn, Mount, EraseSector, EraseFails, Remount, SeedHeader, Load, Crash
<1>3. CASE Probe
  <2>1. next' = 0 /\ phase' # "run" /\ UNCHANGED slots
    BY <1>3 DEF Probe
  <2>2. \A g \in Slots : ~(g < 0)
    BY DEF Slots
  <2> QED
    BY <1>v, <2>1, <2>2 DEF RInv, SeedIsFactory, RunsBooted
<1>4. CASE SeedProfile
  <2>1. phase = "seed" /\ phase' = "seed" /\ next \in Slots /\ next' = next + 1
        /\ slots' = [slots EXCEPT ![next] = Default[next]]
    BY <1>4 DEF SeedProfile
  <2>2. ASSUME NEW g \in Slots, g < next' PROVE slots'[g] = Default[g]
    <3>1. g = next \/ g < next
      BY <2>1, <2>2 DEF Slots
    <3> QED
      BY <2>1, <3>1, <1>v DEF RInv, SeedIsFactory, TypeOK
  <2> QED
    BY <1>v, <2>1, <2>2 DEF RInv, SeedIsFactory, RunsBooted
<1>5. CASE SeedFails
  BY <1>5 DEF SeedFails
<1>6. CASE Operation
  <2>1. phase' = "run" /\ Running /\ UNCHANGED <<booted, ready>>
    BY <1>6 DEF Operation, WriteProfile, ResetAll, SetActive, SetMode, Running
  <2> QED
    BY <1>1, <2>1 DEF RInv, RunsBooted, Running
<1>7. CASE UNCHANGED vars
  BY <1>v, <1>7 DEF vars, RInv, SeedIsFactory, RunsBooted
<1> QED
  BY <1>2, <1>3, <1>4, <1>5, <1>6, <1>7 DEF Next, BootStep

\* The abstract state, as the refinement mapping has it.
Formatted == header \in Headers
Profile == [g \in Slots |-> IF Formatted THEN Loaded(g) ELSE Default[g]]
Sel == IF Formatted THEN header ELSE FreshHeader
Playing == IF booted THEN live
           ELSE IF Formatted THEN Loaded(SlotOf(header.mode, header.act)) ELSE Default[0]

StoreStep == PS!Next \/ UNCHANGED <<Formatted, Profile, Sel, Playing>>

\* The definitions of the abstract store read in the concrete one's terms.
LEMMA StoreTerms ==
    /\ PS!Modes = Modes /\ PS!Within = Within /\ PS!Slots = Slots
    /\ PS!FreshSel = FreshHeader
    /\ \A p, s : PS!Selected(p, s) = p[Global(s.mode, s.act[s.mode])]
BY DEF PS!Modes, PS!Within, PS!Slots, PS!FreshSel, PS!Selected, Modes, Within, Slots,
       NumProfiles, FreshHeader, Global

LEMMA FirstSlot == 0 \in Slots /\ SlotOf(FreshHeader.mode, FreshHeader.act) = 0
<1>1. 0 \in Modes /\ 0 \in Within
  BY DEF Modes, Within
<1>2. Global(0, 0) = 0
  BY DEF Global
<1>3. 0 \in Slots
  BY <1>1, <1>2, GlobalIsSlot
<1> QED
  BY <1>1, <1>2, <1>3 DEF FreshHeader, SlotOf

\* The slot of a header's selection is one of a bank.
LEMMA SelectedSlot ==
    ASSUME NEW h \in Headers
    PROVE  /\ h.mode \in Modes /\ h.act \in [Modes -> Within]
           /\ SlotOf(h.mode, h.act) = Global(h.mode, h.act[h.mode])
           /\ Global(h.mode, h.act[h.mode]) \in Slots
<1>1. h.mode \in Modes /\ h.act \in [Modes -> Within]
  BY DEF Headers
<1> QED
  BY <1>1, GlobalIsSlot DEF SlotOf

\* A booted device plays the selected profile.
LEMMA BootedPlays ==
    ASSUME IInv, booted
    PROVE  /\ Formatted /\ Sel = [mode |-> mode, act |-> act]
           /\ mode \in Modes /\ act \in [Modes -> Within]
           /\ Playing = Profile[Global(mode, act[mode])]
<1>1. header \in Headers /\ header = [mode |-> mode, act |-> act]
  BY DEF IInv, PowerCycleRoundTrip, NeedsReseed
<1>2. mode \in Modes /\ act \in [Modes -> Within]
  BY DEF IInv, TypeOK
<1>3. live = Loaded(Global(mode, act[mode])) /\ Global(mode, act[mode]) \in Slots
  BY <1>2, GlobalIsSlot DEF IInv, PowerCycleRoundTrip, SlotOf
<1> QED
  BY <1>1, <1>2, <1>3 DEF Formatted, Sel, Playing, Profile

\* A boot's steps and a reset do not show: what a reset takes from RAM the next
\* load brings back.
LEMMA BootIsStutter ==
    ASSUME RInv, RInv',
           BootStep \/ EraseFails \/ Crash
    PROVE  StoreStep
<1>v. VInv /\ IInv /\ TypeOK /\ IInv'
  BY DEF RInv, VInv, IInv
<1> USE DEF flash, ram
<1>s. ASSUME UNCHANGED <<slots, header, booted, live>> PROVE StoreStep
  BY <1>s DEF StoreStep, Formatted, Profile, Sel, Playing, Loaded, Readable
<1>b. phase # "run" => ~booted
  BY <1>v DEF IInv, OnlyRunBooted
<1>1. CASE PowerOn \/ Mount \/ EraseSector \/ EraseFails \/ Remount \/ Probe
  BY <1>1, <1>s DEF PowerOn, Mount, EraseSector, EraseFails, Remount, Probe
<1>2. CASE SeedProfile
  <2>1. header \notin Headers /\ UNCHANGED <<header, booted, live>> /\ ~booted
    BY <1>2, <1>v, <1>b DEF SeedProfile, VInv, SeedPrefix
  <2> QED
    BY <2>1 DEF StoreStep, Formatted, Profile, Sel, Playing
<1>3. CASE SeedHeader
  <2>1. /\ header \notin Headers /\ header' = FreshHeader /\ header' \in Headers
        /\ UNCHANGED <<slots, booted, live>> /\ ~booted
    BY <1>3, <1>v, <1>b, FreshHeaderIsHeader DEF SeedHeader, VInv, SeedPrefix
  <2>2. \A g \in Slots : slots'[g] = Default[g]
    <3>1. \A g \in Slots : g < NumProfiles
      BY TopSlotIsSlot DEF Slots
    <3> QED
      BY <1>3, <2>1, <3>1 DEF SeedHeader, RInv, SeedIsFactory
  <2>3. \A g \in Slots : Loaded(g)' = Default[g]
    BY <2>2 DEF Loaded
  <2>4. UNCHANGED Profile
    BY <2>1, <2>3 DEF Profile, Formatted
  <2>5. ~Formatted /\ Formatted' = TRUE /\ UNCHANGED Sel
    BY <2>1 DEF Formatted, Sel
  <2>6. UNCHANGED Playing
    BY <2>1, <2>3, FirstSlot DEF Playing, Formatted, SlotOf, Global
  <2> QED
    BY <2>4, <2>5, <2>6 DEF StoreStep, PS!Next, PS!Format, Formatted, Profile, Sel, Playing
<1>4. CASE Load
  <2>1. header \in Headers /\ UNCHANGED <<slots, header>> /\ ~booted /\ booted'
    BY <1>4, <1>v, <1>b DEF Load, IInv, LoadReady, NeedsReseed
  <2>2. header = [mode |-> mode', act |-> act']
    BY <1>v, <2>1 DEF IInv, PowerCycleRoundTrip
  <2>3. live' = Loaded(SlotOf(header.mode, header.act))
    BY <1>4, <2>2 DEF Load
  <2>4. UNCHANGED Playing
    BY <2>1, <2>3 DEF Playing, Formatted
  <2> QED
    BY <2>1, <2>4 DEF StoreStep, Formatted, Profile, Sel, Loaded, Readable
<1>5. CASE Crash
  <2>1. UNCHANGED <<slots, header>> /\ ~booted'
    BY <1>5 DEF Crash
  <2>2. UNCHANGED <<Formatted, Profile, Sel>>
    BY <2>1 DEF Formatted, Profile, Sel, Loaded, Readable
  <2>3. UNCHANGED Playing
    <3>1. CASE ~booted
      BY <2>1, <3>1 DEF Playing, Formatted, Loaded, Readable
    <3>2. CASE booted
      <4>1. header \in Headers /\ header.mode = mode /\ header.act = act
        BY <3>2, <1>v DEF IInv, PowerCycleRoundTrip, NeedsReseed
      <4>2. SlotOf(header.mode, header.act) = Global(mode, act[mode])
        BY <4>1, SelectedSlot
      <4>3. live = Loaded(Global(mode, act[mode]))
        BY <3>2, <4>1, SelectedSlot, <1>v DEF IInv, PowerCycleRoundTrip
      <4> QED
        BY <2>1, <3>2, <4>1, <4>2, <4>3 DEF Playing, Formatted, Loaded, Readable
    <3> QED
      BY <3>1, <3>2
  <2> QED
    BY <2>2, <2>3 DEF StoreStep
<1> QED
  BY <1>1, <1>2, <1>3, <1>4, <1>5 DEF BootStep

\* Each operation is one step of the store.
LEMMA OperationIsStep ==
    ASSUME RInv, RInv', Operation
    PROVE  StoreStep
<1>v. VInv /\ IInv /\ TypeOK /\ IInv'
  BY DEF RInv, VInv, IInv
<1> USE DEF flash, ram
<1>1. booted /\ booted'
  <2>1. Running /\ booted' = booted
    BY DEF Operation, WriteProfile, ResetAll, SetActive, SetMode
  <2> QED
    BY <2>1 DEF Running, RInv, RunsBooted
\* Before and after, the device plays what is selected.
<1>2. /\ Formatted /\ Sel = [mode |-> mode, act |-> act]
      /\ mode \in Modes /\ act \in [Modes -> Within]
  BY <1>1, <1>v, BootedPlays
<1>3. /\ Formatted' /\ Sel' = [mode |-> mode', act |-> act']
      /\ mode' \in Modes /\ act' \in [Modes -> Within]
      /\ Playing' = Profile'[Global(mode', act'[mode'])]
  <2>1. (booted /\ IInv => /\ Formatted /\ Sel = [mode |-> mode, act |-> act]
                           /\ mode \in Modes /\ act \in [Modes -> Within]
                           /\ Playing = Profile[Global(mode, act[mode])])'
    BY BootedPlays, PTL
  <2> QED
    BY <2>1, <1>1, <1>v DEF Global
<1>4. Playing' = PS!Selected(Profile', Sel')
  BY <1>3, StoreTerms
<1>5. ASSUME NEW g \in Slots, NEW p \in Profiles, WriteProfile(g, p) PROVE StoreStep
  <2>1. slots' = [slots EXCEPT ![g] = p] /\ UNCHANGED <<mode, act>>
    BY <1>5 DEF WriteProfile
  <2>2. Profile' = [Profile EXCEPT ![g] = p]
    BY <2>1, <1>2, <1>3, <1>v DEF Profile, Loaded, Readable, TypeOK
  <2>3. UNCHANGED <<Formatted, Sel>>
    BY <2>1, <1>2, <1>3
  <2>4. PS!Save(g, p)
    BY <2>2, <2>3, <1>2, <1>4 DEF PS!Save, Formatted, Profile, Sel, Playing
  <2> QED
    BY <2>4, StoreTerms DEF StoreStep, PS!Next
<1>6. ASSUME NEW n \in 0 .. NumProfiles, ResetAll(n) PROVE StoreStep
  <2>1. slots' = [g \in Slots |-> IF g < n THEN Default[g] ELSE slots[g]]
        /\ UNCHANGED <<mode, act>>
    BY <1>6 DEF ResetAll
  <2>2. Profile' = [g \in Slots |-> IF g < n THEN Default[g] ELSE Profile[g]]
    BY <2>1, <1>2, <1>3 DEF Profile, Loaded, Readable
  <2>3. UNCHANGED <<Formatted, Sel>>
    BY <2>1, <1>2, <1>3
  <2>4. PS!Restore(n)
    BY <2>2, <2>3, <1>2, <1>4, StoreTerms DEF PS!Restore, Formatted, Profile, Sel, Playing
  <2> QED
    BY <2>4 DEF StoreStep, PS!Next, NumProfiles
<1>7. ASSUME UNCHANGED slots, Sel' \in [mode : Modes, act : [Modes -> Within]],
             \/ Sel'.mode = Sel.mode
                /\ \E w \in Within : Sel'.act = [Sel.act EXCEPT ![Sel'.mode] = w]
             \/ Sel'.mode # Sel.mode /\ Sel'.act = Sel.act
      PROVE  StoreStep
  <2>1. UNCHANGED <<Formatted, Profile>>
    BY <1>7, <1>2, <1>3 DEF Profile, Loaded, Readable
  <2>2. Playing' = PS!Selected(Profile, Sel')
    BY <2>1, <1>4
  <2>3. PS!Select(Sel')
    BY <2>1, <2>2, <1>2, <1>7, StoreTerms DEF PS!Select, Formatted, Profile, Sel, Playing
  <2>4. Sel' \in [mode : PS!Modes, act : [PS!Modes -> PS!Within]]
    BY <1>7, StoreTerms
  <2> QED
    BY <2>3, <2>4 DEF StoreStep, PS!Next
<1>8. ASSUME NEW w \in Within, SetActive(w) PROVE StoreStep
  <2>1. UNCHANGED <<slots, mode>> /\ act' = [act EXCEPT ![mode] = w]
    BY <1>8 DEF SetActive
  <2> QED
    BY <2>1, <1>2, <1>3, <1>7
<1>9. ASSUME NEW m \in Modes, SetMode(m) PROVE StoreStep
  <2>1. UNCHANGED <<slots, act>> /\ mode' # mode
    BY <1>9 DEF SetMode
  <2> QED
    BY <2>1, <1>2, <1>3, <1>7
<1> QED
  BY <1>5, <1>6, <1>8, <1>9 DEF Operation

\* The flash-backed librarian is the store of ProfileStore: however a boot or an
\* operation is cut short, each save, restore and selection is one atomic and
\* durable change and a power cut is none, until a write of a seed fails.
THEOREM StoreRefined == Spec => ImplementsProfileStore
<1>1. Init => PS!Init
  <2> SUFFICES ASSUME Init PROVE PS!Init
    OBVIOUS
  <2>1. TypeOK /\ ~booted
    BY InitTypeOK DEF Init
  <2>2. Formatted => slots = Default /\ header = FreshHeader
    BY DEF Init, Blank, Formatted, Headers
  <2>3. Profile = Default
    BY <2>2 DEF Profile, Loaded, Readable
  <2>4. Sel = FreshHeader
    BY <2>2 DEF Sel
  <2>5. Playing = Default[0]
    BY <2>1, <2>2, FirstSlot DEF Playing, Loaded, Readable
  <2>6. PS!Selected(Profile, Sel) = Default[0]
    <3>1. 0 \in Modes
      BY DEF Modes
    <3>2. Global(Sel.mode, Sel.act[Sel.mode]) = 0
      BY <2>4, <3>1 DEF FreshHeader, Global
    <3> QED
      BY <2>3, <3>2, StoreTerms
  <2> QED
    BY <2>3, <2>4, <2>5, <2>6, StoreTerms DEF PS!Init, Formatted, Profile, Sel, Playing
<1>2. (seedFailed \/ RInv) /\ [Next]_vars => (seedFailed \/ RInv)'
  BY StepRInv, FailureLasts
<1>3. (seedFailed \/ RInv) /\ [Next]_vars
        => [seedFailed' \/ PS!Next]_<<Formatted, Profile, Sel, Playing>>
  <2> SUFFICES ASSUME ~seedFailed', RInv, RInv', [Next]_vars PROVE StoreStep
    BY StepRInv, FailureLasts DEF StoreStep
  <2>1. CASE SeedFails
    BY <2>1 DEF SeedFails
  <2>2. CASE UNCHANGED vars
    BY <2>2 DEF vars, StoreStep, Formatted, Profile, Sel, Playing, Loaded, Readable
  <2> QED
    BY <2>1, <2>2, BootIsStutter, OperationIsStep DEF Next
<1>4. ImplementsProfileStore
        <=> PS!Init /\ [][seedFailed' \/ PS!Next]_<<Formatted, Profile, Sel, Playing>>
  BY DEF ImplementsProfileStore, PS!pvars, Formatted, Profile, Sel, Playing
<1> QED
  BY InitRInv, <1>1, <1>2, <1>3, <1>4, PTL DEF Spec
=============================================================================
