---------------------------- MODULE LadderEvents ----------------------------
(***************************************************************************)
(* What the routing may rely on from one button ladder: it reports one     *)
(* button at a time, and after an edge it reports no other for at least    *)
(* Debounce - 1 scans.                                                     *)
(***************************************************************************)
EXTENDS Integers

CONSTANTS
    Values,   \* the buttons of the ladder, and None
    None,     \* no button
    Debounce  \* readings in a row that commit a value

VARIABLES
    held,     \* the button last reported as pressed
    settled   \* scans since the last edge, up to Debounce

Init == held = None /\ settled = Debounce

Quiet ==
    /\ held' = held
    /\ settled' = IF settled < Debounce THEN settled + 1 ELSE Debounce

Edge ==
    /\ settled >= Debounce - 1
    /\ held' \in Values \ {held}
    /\ settled' = 0

\* The device restarts, with no button reported.
Restart == held' = None /\ settled' = Debounce

Next == Quiet \/ Edge \/ Restart

Spec == Init /\ [][Next]_<<held, settled>>
=============================================================================
