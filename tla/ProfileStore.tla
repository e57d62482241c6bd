--------------------------- MODULE ProfileStore ---------------------------
(***************************************************************************)
(* What the librarian promises: a store of profiles and a selection that   *)
(* survive power cycles.  There is no power here, no flash and no boot: a  *)
(* reset of the device is a stutter of this specification.                 *)
(***************************************************************************)
EXTENDS Integers

CONSTANTS NumModes, BankSize, Profiles, Default

Modes == 0 .. NumModes - 1
Within == 0 .. BankSize - 1
Slots == 0 .. NumModes * BankSize - 1

VARIABLES
    formatted, \* the store is laid down
    profile,   \* the profile of each slot
    sel,       \* [mode, act]: the current mode and the active of each bank
    playing    \* the profile the control loop plays from

pvars == <<formatted, profile, sel, playing>>

Selected(p, s) == p[s.mode * BankSize + s.act[s.mode]]

FreshSel == [mode |-> 0, act |-> [m \in Modes |-> 0]]

Init ==
    /\ formatted \in BOOLEAN
    /\ profile = Default
    /\ sel = FreshSel
    /\ playing = Selected(profile, sel)

\* The first boot of this version: once, and everything back to factory.
Format ==
    /\ ~formatted
    /\ formatted' = TRUE
    /\ UNCHANGED <<profile, sel, playing>>

Save(g, p) ==
    /\ formatted
    /\ profile' = [profile EXCEPT ![g] = p]
    /\ playing' = Selected(profile', sel)
    /\ UNCHANGED <<formatted, sel>>

\* A reset of all slots may stop half-way, never skip one.
Restore(n) ==
    /\ formatted
    /\ profile' = [g \in Slots |-> IF g < n THEN Default[g] ELSE profile[g]]
    /\ playing' = Selected(profile', sel)
    /\ UNCHANGED <<formatted, sel>>

\* Select a profile of the current mode, or flip to another mode's own.
Select(s) ==
    /\ formatted
    /\ \/ s.mode = sel.mode /\ \E w \in Within : s.act = [sel.act EXCEPT ![s.mode] = w]
       \/ s.mode # sel.mode /\ s.act = sel.act
    /\ sel' = s
    /\ playing' = Selected(profile, s)
    /\ UNCHANGED <<formatted, profile>>

Next ==
    \/ Format
    \/ \E g \in Slots, p \in Profiles : Save(g, p)
    \/ \E n \in 0 .. NumModes * BankSize : Restore(n)
    \/ \E s \in [mode : Modes, act : [Modes -> Within]] : Select(s)

Spec == Init /\ [][Next]_pvars
=============================================================================
