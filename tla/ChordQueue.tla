----------------------------- MODULE ChordQueue -----------------------------
(***************************************************************************)
(* What a deferral queue for chord messages must be: every message queued  *)
(* is sent once, the Offs among themselves and the Ons among themselves in *)
(* the order of their pushes; a tick takes at most Budget of them and at   *)
(* least one when there is any.                                            *)
(***************************************************************************)
EXTENDS Integers, Sequences, SequencesExt

CONSTANTS Budget, Messages

VARIABLES
    offs, ons,  \* the pending messages
    sent        \* what the last tick sent

qvars == <<offs, ons, sent>>

Init == offs = <<>> /\ ons = <<>> /\ sent = <<>>

Push(m) ==
    /\ IF m.off THEN offs' = Append(offs, m) /\ UNCHANGED ons
                ELSE ons' = Append(ons, m) /\ UNCHANGED offs
    /\ sent' = <<>>

Take(j, k) ==
    /\ j + k <= Budget
    /\ Len(offs) + Len(ons) > 0 => j + k > 0
    /\ sent' = SubSeq(offs, 1, j) \o SubSeq(ons, 1, k)
    /\ offs' = SubSeq(offs, j + 1, Len(offs))
    /\ ons' = SubSeq(ons, k + 1, Len(ons))

Purge == offs' = <<>> /\ ons' = <<>> /\ sent' = <<>>

Next ==
    \/ \E m \in Messages : Push(m)
    \/ \E j \in 0 .. Len(offs), k \in 0 .. Len(ons) : Take(j, k)
    \/ Purge

Spec == Init /\ [][Next]_qvars
=============================================================================
