--------------------------- MODULE RoutingProofs ---------------------------
(***************************************************************************)
(* Proofs about the path of a button: the path of its HID reports to the   *)
(* host (HidTx), and the routing of its edges to notes, chords and keys    *)
(* (Notes), for every assignment of the buttons, every profile, every size *)
(* of the two rings and every bound of the debouncer.                      *)
(***************************************************************************)
EXTENDS Notes, HidTx, ChordTx, SequenceTheorems, FiniteSetTheorems, WellFoundedInduction, TLAPS


-----------------------------------------------------------------------------
(* Types.                                                                  *)

HeldOK(h) == DOMAIN h \subseteq HidButtons /\ \A b \in DOMAIN h : h[b] \in Bindings

LEMMA ReportTyped ==
    ASSUME NEW h, HeldOK(h)
    PROVE  Report(h) \in Reports
<1>1. UNION {h[b].mod : b \in DOMAIN h} \subseteq Mods
  BY DEF HeldOK, Mods
<1>2. UNION {h[b].key : b \in DOMAIN h} \subseteq Keys
  BY DEF HeldOK, Keys
<1> QED
  BY <1>1, <1>2 DEF Report, Reports

LEMMA NoKeysTyped == NoKeys \in Reports
  BY DEF NoKeys, Reports

\* What each edge makes of the held set.
LEMMA SendHeldTyped ==
    ASSUME HidTypeOK, NEW h, HeldOK(h), SendHeld(h)
    PROVE  HidTypeOK'
<1>1. HeldOK(h) /\ kbd' = h
  BY DEF SendHeld
<1>2. rpt' \in Reports
  BY ReportTyped DEF SendHeld
<1>3. at' \in {"idle", "put", "kick"} /\ current' \in BOOLEAN
  BY DEF SendHeld, HidTypeOK
<1>4. UNCHANGED <<reports, inflight, busy, work, enabled, pending, moving, host, refused>>
  BY DEF SendHeld, tx
<1> QED
  BY <1>1, <1>2, <1>3, <1>4 DEF HidTypeOK, HeldOK

LEMMA HandsTyped == HidTypeOK /\ Hands => HidTypeOK'
<1> SUFFICES ASSUME HidTypeOK, Hands PROVE HidTypeOK'
  OBVIOUS
<1>1. HeldOK(kbd)
  BY DEF HidTypeOK, HeldOK
<1>2. CASE Reset
  <2>1. HeldOK(NothingHeld)
    BY DEF HeldOK, NothingHeld
  <2> QED
    BY <1>2, <2>1, SendHeldTyped DEF Reset
<1>3. ASSUME NEW b \in HidButtons, Press(b) PROVE HidTypeOK'
  <2>1. PICK k \in Bindings :
            SendHeld([c \in DOMAIN kbd \cup {b} |-> IF c = b THEN k ELSE kbd[c]])
    BY <1>3 DEF Press
  <2>2. HeldOK([c \in DOMAIN kbd \cup {b} |-> IF c = b THEN k ELSE kbd[c]])
    BY <1>1 DEF HeldOK
  <2> QED
    BY <2>1, <2>2, SendHeldTyped
<1>4. ASSUME NEW b \in HidButtons, Release(b) PROVE HidTypeOK'
  <2>1. HeldOK([c \in DOMAIN kbd \ {b} |-> kbd[c]])
    BY <1>1 DEF HeldOK
  <2> QED
    BY <1>4, <2>1, SendHeldTyped DEF Release
<1> QED
  BY <1>2, <1>3, <1>4 DEF Hands

LEMMA InitHidTypeOK == HidInit => HidTypeOK
<1> SUFFICES ASSUME HidInit PROVE HidTypeOK
  OBVIOUS
<1>1. DOMAIN kbd = {}
  BY DEF HidInit, NothingHeld
<1>2. reports \in Seq(Reports) /\ Len(reports) <= RingSlots
  BY HidAssumption DEF HidInit
<1> QED
  BY <1>1, <1>2, NoKeysTyped DEF HidInit, HidTypeOK

LEMMA StepHidTypeOK == HidTypeOK /\ [HidNext]_hid_vars => HidTypeOK'
<1> SUFFICES ASSUME HidTypeOK, [HidNext]_hid_vars PROVE HidTypeOK'
  OBVIOUS
<1> USE DEF HidTypeOK, loop, tx
<1>1. CASE Hands
  BY <1>1, HandsTyped
<1>2. CASE Enable
  BY <1>2 DEF Enable
<1>3. CASE Disable
  <2>1. host' \in Reports /\ current' \in BOOLEAN /\ enabled' \in BOOLEAN
    BY <1>3, NoKeysTyped DEF Disable
  <2> QED
    BY <1>3, <2>1 DEF Disable
<1>4. CASE Put
  <2>1. reports' \in Seq(Reports) /\ Len(reports') <= RingSlots
    BY <1>4, HidAssumption DEF Put
  <2>2. current' \in BOOLEAN /\ at' \in {"idle", "put", "kick"}
    BY <1>4 DEF Put
  <2> QED
    BY <1>4, <2>1, <2>2 DEF Put
<1>5. CASE Kick
  BY <1>5 DEF Kick
<1>6. CASE WorkSkip
  BY <1>6 DEF WorkSkip
<1>7. CASE WorkTake
  <2>1. Head(reports) \in Reports /\ Tail(reports) \in Seq(Reports)
        /\ Len(Tail(reports)) <= RingSlots
    BY <1>7, HidAssumption DEF WorkTake
  <2> QED
    BY <1>7, <2>1 DEF WorkTake
<1>8. CASE WorkSubmit
  BY <1>8 DEF WorkSubmit
<1>r. CASE WorkRefused
  <2>1. current' \in BOOLEAN
    BY <1>r DEF WorkRefused
  <2> QED
    BY <1>r, <2>1 DEF WorkRefused
<1>9. CASE Done
  <2>1. host' \in Reports
    BY <1>9 DEF Done
  <2> QED
    BY <1>9, <2>1 DEF Done
<1>10. CASE UNCHANGED hid_vars
  BY <1>10 DEF hid_vars
<1> QED
  BY <1>1, <1>2, <1>3, <1>4, <1>5, <1>6, <1>7, <1>8, <1>r, <1>9, <1>10
     DEF HidNext, Host, Deliver

\* Reports and flags keep their types and the ring its size.
THEOREM HidTypeCorrect == HidSpec => []HidTypeOK
<1> QED
  BY InitHidTypeOK, StepHidTypeOK, PTL DEF HidSpec

-----------------------------------------------------------------------------
(* The flags.                                                              *)

\* A transfer is under way only when no submission is.
OneReport == moving => work = "idle"

FlagsInv == BusyIsTrue /\ OneReport /\ NothingStranded

LEMMA StepFlags == HidTypeOK /\ FlagsInv /\ [HidNext]_hid_vars => FlagsInv'
<1> SUFFICES ASSUME HidTypeOK, FlagsInv, [HidNext]_hid_vars PROVE FlagsInv'
  OBVIOUS
<1> USE DEF FlagsInv, BusyIsTrue, OneReport, NothingStranded, loop, tx
<1>1. ASSUME NEW h, SendHeld(h) PROVE FlagsInv'
  BY <1>1 DEF SendHeld
<1>2. CASE Put
  BY <1>2 DEF Put
<1>3. CASE Kick \/ Enable
  BY <1>3 DEF Kick, Enable
<1>4. CASE Disable
  BY <1>4 DEF Disable
<1>5. CASE WorkSkip
  BY <1>5 DEF WorkSkip
<1>6. CASE WorkTake
  BY <1>6 DEF WorkTake
<1>7. CASE WorkSubmit \/ WorkRefused
  BY <1>7 DEF WorkSubmit, WorkRefused, HidTypeOK
<1>8. CASE Done
  BY <1>8 DEF Done
<1>9. CASE UNCHANGED hid_vars
  BY <1>9 DEF hid_vars
<1> QED
  BY <1>1, <1>2, <1>3, <1>4, <1>5, <1>6, <1>7, <1>8, <1>9
     DEF HidNext, Host, Deliver, Hands, Press, Release, Reset

THEOREM FlagsCorrect == HidSpec => []FlagsInv
<1>1. HidInit => FlagsInv
  BY DEF HidInit, FlagsInv, BusyIsTrue, OneReport, NothingStranded
<1> QED
  BY <1>1, StepFlags, HidTypeCorrect, PTL DEF HidSpec

\* hid_busy tells the truth: no second submission beside one, and no stall.
THEOREM BusyCorrect == HidSpec => []BusyIsTrue
<1>1. FlagsInv => BusyIsTrue
  BY DEF FlagsInv
<1> QED
  BY <1>1, FlagsCorrect, PTL

\* No report is left in the ring of an enabled interface with no one to send it,
\* but behind one the stack refused, where the next press finds it.
THEOREM NeverStranded == HidSpec => []NothingStranded
<1>1. FlagsInv => NothingStranded
  BY DEF FlagsInv
<1> QED
  BY <1>1, FlagsCorrect, PTL

\* The buffer the stack reads in place is not written while it reads: the work
\* item writes only when it is not busy, and then nothing moves.
THEOREM BufferCorrect == HidSpec => BufferIsStable
<1>1. FlagsInv /\ [HidNext]_hid_vars => [moving /\ moving' => inflight' = inflight]_hid_vars
  <2> SUFFICES ASSUME FlagsInv, HidNext, moving, moving'
               PROVE  inflight' = inflight
    OBVIOUS
  <2>1. CASE WorkTake
    BY <2>1 DEF WorkTake, FlagsInv, BusyIsTrue
  <2>2. CASE ~WorkTake
    BY <2>2 DEF HidNext, Hands, Host, Deliver, Press, Release, Reset, SendHeld, Put,
                Kick, WorkSkip, WorkSubmit, WorkRefused, Done, Enable, Disable, tx
  <2> QED
    BY <2>1, <2>2
<1> QED
  BY <1>1, FlagsCorrect, PTL DEF HidSpec, BufferIsStable

-----------------------------------------------------------------------------
(* What the host ends with.                                                *)

\* What is about to be put is what is held.
PutIsHeld == at = "put" => rpt = Report(kbd)

\* A report on its way when the host disables the interface counts as lost.
LossIsKnown == ~enabled /\ reports = <<>> /\ busy => ~current

PathInv == PutIsHeld /\ LossIsKnown /\ HostSeesHeld

\* Taking the head keeps the last element, unless it is the head.
LEMMA LastOfTail ==
    ASSUME NEW S, NEW q \in Seq(S), q # <<>>
    PROVE  IF Len(q) = 1 THEN Tail(q) = <<>> /\ Last(q) = Head(q)
                         ELSE Tail(q) # <<>> /\ Last(Tail(q)) = Last(q)
<1> DEFINE t == Tail(q)
<1>1. Len(q) \in Nat \ {0} /\ t \in Seq(S) /\ Len(t) = Len(q) - 1
  BY HeadTailProperties, EmptySeq
<1>2. \A i \in 1 .. Len(q) - 1 : t[i] = q[i + 1]
  BY HeadTailProperties
<1>3. Head(q) = q[1]
  OBVIOUS
<1> HIDE DEF t
<1>4. t = <<>> <=> Len(t) = 0
  BY <1>1, EmptySeq
<1>5. CASE Len(q) = 1
  <2>1. t = <<>>
    BY <1>1, <1>4, <1>5
  <2>2. Last(q) = Head(q)
    BY <1>3, <1>5 DEF Last
  <2> QED
    BY <1>5, <2>1, <2>2 DEF t
<1>6. CASE Len(q) # 1
  <2>1. Len(t) \in 1 .. Len(q) - 1 /\ Len(t) + 1 = Len(q)
    BY <1>1, <1>6
  <2>2. t # <<>> /\ Last(t) = Last(q)
    BY <1>2, <1>4, <2>1 DEF Last
  <2> QED
    BY <1>6, <2>2 DEF t
<1> QED
  BY <1>5, <1>6

LEMMA StepPath ==
    HidTypeOK /\ FlagsInv /\ PathInv /\ [HidNext]_hid_vars => PathInv'
<1> SUFFICES ASSUME HidTypeOK, FlagsInv, PathInv, [HidNext]_hid_vars PROVE PathInv'
  OBVIOUS
<1> USE DEF PathInv, PutIsHeld, LossIsKnown, HostSeesHeld, Final
<1>0. reports \in Seq(Reports)
  BY DEF HidTypeOK
<1>1. ASSUME NEW h, SendHeld(h) PROVE PathInv'
  BY <1>1 DEF SendHeld, tx
<1>2. CASE Put
  <2>1. CASE Len(reports) < RingSlots
    <3>1. reports' = Append(reports, rpt)
      BY <1>2, <2>1 DEF Put
    <3>2. reports' # <<>> /\ Last(reports') = rpt
      BY <1>0, <3>1 DEF Last
    <3> QED
      BY <1>2, <2>1, <3>2 DEF Put
  <2>2. CASE ~(Len(reports) < RingSlots)
    BY <1>2, <2>2 DEF Put
  <2> QED
    BY <2>1, <2>2
<1>3. CASE Kick \/ Enable
  BY <1>3 DEF Kick, Enable, loop, tx
<1>4. CASE Disable
  BY <1>4 DEF Disable, loop, tx
<1>5. CASE WorkSkip
  BY <1>5 DEF WorkSkip, loop, tx
<1>6. CASE WorkTake
  <2>1. reports # <<>> /\ reports' = Tail(reports) /\ inflight' = Head(reports) /\ busy'
        /\ enabled' /\ UNCHANGED <<kbd, rpt, at, current>>
    BY <1>6 DEF WorkTake, loop
  <2>2. Final' = Final
    <3>1. CASE Len(reports) = 1
      <4>1. Final = Head(reports) /\ reports' = <<>>
        BY <1>0, <2>1, <3>1, LastOfTail
      <4> QED
        BY <2>1, <4>1
    <3>2. CASE Len(reports) # 1
      <4>1. reports' # <<>> /\ Last(reports') = Last(reports)
        BY <1>0, <2>1, <3>2, LastOfTail
      <4> QED
        BY <2>1, <4>1
    <3> QED
      BY <3>1, <3>2
  <2> QED
    BY <2>1, <2>2
<1>7. CASE WorkSubmit
  BY <1>7 DEF WorkSubmit, loop
<1>r. CASE WorkRefused
  BY <1>r DEF WorkRefused, loop
<1>8. CASE Done
  BY <1>8 DEF Done, loop, FlagsInv, BusyIsTrue
<1>9. CASE UNCHANGED hid_vars
  BY <1>9 DEF hid_vars, loop, tx
<1> QED
  BY <1>1, <1>2, <1>3, <1>4, <1>5, <1>6, <1>7, <1>8, <1>r, <1>9
     DEF HidNext, Host, Deliver, Hands, Press, Release, Reset

\* Unless the last report was dropped, refused or lost with the interface, the
\* host ends with exactly the keys held now, whatever came of the earlier ones.
THEOREM HostCorrect == HidSpec => []HostSeesHeld
<1>1. HidInit => PathInv
  <2>1. Report(NothingHeld) = NoKeys
    <3>1. DOMAIN NothingHeld = {}
      BY DEF NothingHeld
    <3>2. /\ UNION {NothingHeld[b].mod : b \in DOMAIN NothingHeld} = {}
          /\ UNION {NothingHeld[b].key : b \in DOMAIN NothingHeld} = {}
      BY <3>1
    <3>3. ~(Cardinality({}) > MaxKeys)
      BY FS_EmptySet, HidAssumption
    <3> QED
      BY <3>2, <3>3 DEF Report, NoKeys
  <2> QED
    BY <2>1 DEF HidInit, PathInv, PutIsHeld, LossIsKnown, HostSeesHeld, Final
<1>2. PathInv => HostSeesHeld
  BY DEF PathInv
<1> QED
  BY <1>1, <1>2, StepPath, HidTypeCorrect, FlagsCorrect, PTL DEF HidSpec


-----------------------------------------------------------------------------
(* Numbers.                                                                *)

\* The least counterexample stands in for induction.
LEMMA LeastNumber ==
    ASSUME NEW B, B \subseteq Nat, B # {}
    PROVE  \E n \in B : \A m \in B : n <= m
<1>1. \A m, n \in Nat : m < n => <<m, n>> \in OpToRel(<, Nat)
  BY DEF OpToRel
<1>2. PICK R : IsWellFoundedOn(R, Nat) /\ \A m, n \in Nat : m < n => <<m, n>> \in R
  BY <1>1, NatLessThanWellFounded, Zenon
<1>3. PICK n \in B : \A m \in B : ~(<<m, n>> \in R)
  BY <1>2, WFMin
<1>4. \A m \in B : ~(m < n)
  BY <1>2, <1>3
<1>5. \A m \in B : n <= m
  BY <1>4
<1> QED
  BY <1>5


-----------------------------------------------------------------------------
(* The chord ring.                                                         *)

LEMMA RangeIs ==
    ASSUME NEW S, NEW s \in Seq(S)
    PROVE  /\ \A i \in 1 .. Len(s) : s[i] \in Range(s)
           /\ \A x \in Range(s) : x \in S /\ \E i \in 1 .. Len(s) : x = s[i]
<1>1. Range(s) = {s[i] : i \in 1 .. Len(s)}
  BY DEF Range
<1>2. \A i \in 1 .. Len(s) : s[i] \in S
  OBVIOUS
<1> QED
  BY <1>1, <1>2

LEMMA RangeOfConcat ==
    ASSUME NEW S, NEW s \in Seq(S), NEW t \in Seq(S)
    PROVE  s \o t \in Seq(S) /\ Range(s \o t) = Range(s) \cup Range(t)
<1>1. /\ s \o t \in Seq(S) /\ Len(s \o t) = Len(s) + Len(t)
      /\ \A i \in 1 .. Len(s) + Len(t) : (s \o t)[i] = IF i <= Len(s) THEN s[i] ELSE t[i - Len(s)]
  BY ConcatProperties
<1>2. Len(s) \in Nat /\ Len(t) \in Nat
  OBVIOUS
<1> DEFINE u == s \o t
<1>u. u \in Seq(S) /\ Len(u) = Len(s) + Len(t)
  BY <1>1
<1>v. /\ \A i \in 1 .. Len(u) : u[i] \in Range(u)
      /\ \A x \in Range(u) : \E i \in 1 .. Len(u) : x = u[i]
  <2> HIDE DEF u
  <2> QED
    BY <1>u, RangeIs
<1>3. Range(s \o t) \subseteq Range(s) \cup Range(t)
  <2>0. \A x \in Range(u) : \E i \in 1 .. Len(s) + Len(t) : x = u[i]
    BY <1>u, <1>v
  <2> SUFFICES ASSUME NEW i \in 1 .. Len(s) + Len(t)
               PROVE  (s \o t)[i] \in Range(s) \cup Range(t)
    BY <2>0
  <2>1. i <= Len(s) => i \in 1 .. Len(s) /\ (s \o t)[i] = s[i]
    BY <1>1
  <2>2. ~(i <= Len(s)) => i - Len(s) \in 1 .. Len(t) /\ (s \o t)[i] = t[i - Len(s)]
    BY <1>1, <1>2
  <2> QED
    BY <2>1, <2>2, RangeIs
<1>4. \A i \in 1 .. Len(s) : s[i] \in Range(s \o t)
  <2> SUFFICES ASSUME NEW i \in 1 .. Len(s) PROVE s[i] \in Range(s \o t)
    OBVIOUS
  <2>1. i \in 1 .. Len(s \o t) /\ (s \o t)[i] = s[i]
    BY <1>1, <1>2
  <2> QED
    BY <1>v, <2>1
<1>5. \A i \in 1 .. Len(t) : t[i] \in Range(s \o t)
  <2> SUFFICES ASSUME NEW i \in 1 .. Len(t) PROVE t[i] \in Range(s \o t)
    OBVIOUS
  <2>1. i + Len(s) \in 1 .. Len(s \o t) /\ (s \o t)[i + Len(s)] = t[i]
    BY <1>1, <1>2
  <2> QED
    BY <1>v, <2>1
<1> QED
  BY <1>1, <1>3, <1>4, <1>5, RangeIs

\* Removing a cell leaves the others.
LEMMA RemovedFrom ==
    ASSUME NEW S, NEW s \in Seq(S), NEW i \in 1 .. Len(s)
    PROVE  /\ RemoveAt(s, i) \in Seq(S) /\ Len(RemoveAt(s, i)) = Len(s) - 1
           /\ Range(RemoveAt(s, i)) \cup {s[i]} = Range(s)
<1>0. Len(s) \in Nat /\ i \in Int /\ i - 1 \in Int /\ i + 1 \in Int
  OBVIOUS
<1> DEFINE a == SubSeq(s, 1, i - 1)
           z == SubSeq(s, i + 1, Len(s))
<1>1. a \in Seq(S) /\ Len(a) = i - 1 /\ \A k \in 1 .. i - 1 : a[k] = s[k]
  <2>1. \A k \in 1 .. i - 1 : s[k] \in S
    BY <1>0
  <2> QED
    BY <1>0, <2>1, SubSeqProperties
<1>2. z \in Seq(S) /\ Len(z) = Len(s) - i /\ \A k \in 1 .. Len(s) - i : z[k] = s[i + k]
  <2>1. \A k \in i + 1 .. Len(s) : s[k] \in S
    BY <1>0
  <2> QED
    BY <1>0, <2>1, SubSeqProperties
<1>3. RemoveAt(s, i) = a \o z
  BY DEF RemoveAt
<1> HIDE DEF a, z
<1>4. Range(a) \cup Range(z) \cup {s[i]} \subseteq Range(s)
  <2>1. \A k \in 1 .. i - 1 : s[k] \in Range(s)
    BY <1>0, RangeIs
  <2>2. \A k \in 1 .. Len(s) - i : s[i + k] \in Range(s)
    BY <1>0, RangeIs
  <2>3. ASSUME NEW x \in Range(a) PROVE x \in Range(s)
    <3>1. PICK k \in 1 .. Len(a) : x = a[k]
      BY <1>1, RangeIs
    <3>2. k \in 1 .. i - 1 /\ a[k] = s[k]
      BY <1>1, <3>1
    <3> QED
      BY <2>1, <3>1, <3>2
  <2>4. ASSUME NEW x \in Range(z) PROVE x \in Range(s)
    <3>1. PICK k \in 1 .. Len(z) : x = z[k]
      BY <1>2, RangeIs
    <3>2. k \in 1 .. Len(s) - i /\ z[k] = s[i + k]
      BY <1>2, <3>1
    <3> QED
      BY <2>2, <3>1, <3>2
  <2>5. s[i] \in Range(s)
    BY RangeIs
  <2> QED
    BY <2>3, <2>4, <2>5
<1>5. \A k \in 1 .. Len(s) : s[k] \in Range(a) \cup Range(z) \cup {s[i]}
  <2> SUFFICES ASSUME NEW k \in 1 .. Len(s), k # i PROVE s[k] \in Range(a) \cup Range(z)
    OBVIOUS
  <2>1. CASE k < i
    <3>1. k \in 1 .. Len(a) /\ a[k] = s[k]
      BY <1>0, <1>1, <2>1
    <3> QED
      BY <1>1, <3>1, RangeIs
  <2>2. CASE k > i
    <3>1. k - i \in 1 .. Len(z) /\ z[k - i] = s[k]
      BY <1>0, <1>2, <2>2
    <3> QED
      BY <1>2, <3>1, RangeIs
  <2> QED
    BY <1>0, <2>1, <2>2
<1>6. RemoveAt(s, i) \in Seq(S) /\ Len(RemoveAt(s, i)) = Len(s) - 1
  <2>1. a \o z \in Seq(S) /\ Len(a \o z) = Len(a) + Len(z)
    BY <1>1, <1>2, ConcatProperties
  <2> QED
    BY <1>0, <1>1, <1>2, <1>3, <2>1
<1>7. \A x \in Range(s) : \E k \in 1 .. Len(s) : x = s[k]
  BY RangeIs
<1> QED
  BY <1>1, <1>2, <1>3, <1>4, <1>5, <1>6, <1>7, RangeOfConcat

\* Cutting off the last loses no more than it.
LEMMA CutOff ==
    ASSUME NEW S, NEW s \in Seq(S), s # <<>>
    PROVE  Front(s) \in Seq(S) /\ Len(Front(s)) = Len(s) - 1 /\ Range(Front(s)) \subseteq Range(s)
<1>0. Len(s) \in Nat \ {0}
  OBVIOUS
<1>1. \A k \in 1 .. Len(s) - 1 : s[k] \in S
  BY <1>0
<1>2. /\ Front(s) \in Seq(S) /\ Len(Front(s)) = Len(s) - 1
      /\ \A k \in 1 .. Len(s) - 1 : Front(s)[k] = s[k]
  <2>1. 1 \in Int /\ Len(s) - 1 \in Int
    BY <1>0
  <2>2. /\ SubSeq(s, 1, Len(s) - 1) \in Seq(S)
        /\ Len(SubSeq(s, 1, Len(s) - 1)) = IF 1 <= Len(s) - 1 THEN Len(s) - 1 - 1 + 1 ELSE 0
        /\ \A k \in 1 .. Len(s) - 1 - 1 + 1 : SubSeq(s, 1, Len(s) - 1)[k] = s[1 + k - 1]
    BY <1>1, <2>1, SubSeqProperties
  <2>3. Front(s) = SubSeq(s, 1, Len(s) - 1)
    BY DEF Front
  <2>4. /\ Len(s) - 1 - 1 + 1 = Len(s) - 1
        /\ ~(1 <= Len(s) - 1) => Len(s) - 1 = 0
        /\ \A k \in 1 .. Len(s) - 1 : 1 + k - 1 = k
    <3>1. \A n \in Nat \ {0} : n - 1 - 1 + 1 = n - 1 /\ (~(1 <= n - 1) => n - 1 = 0)
      OBVIOUS
    <3>2. \A m \in Int : \A k \in 1 .. m : 1 + k - 1 = k
      OBVIOUS
    <3>3. Len(s) - 1 \in Int
      BY <1>0
    <3> QED
      BY <1>0, <3>1, <3>2, <3>3
  <2> QED
    BY <2>2, <2>3, <2>4
<1>3. \A k \in 1 .. Len(s) - 1 : s[k] \in Range(s)
  BY <1>0, RangeIs
<1>4. \A x \in Range(Front(s)) : \E k \in 1 .. Len(s) - 1 : x = Front(s)[k]
  BY <1>2, RangeIs
<1> QED
  BY <1>2, <1>3, <1>4

LEMMA RangeOfAppend ==
    ASSUME NEW S, NEW s \in Seq(S), NEW e \in S
    PROVE  Append(s, e) \in Seq(S) /\ Range(Append(s, e)) = Range(s) \cup {e}
<1>0. Len(s) \in Nat
  OBVIOUS
<1> DEFINE t == Append(s, e)
<1>1. /\ t \in Seq(S) /\ Len(t) = Len(s) + 1 /\ t[Len(s) + 1] = e
      /\ \A i \in 1 .. Len(s) : t[i] = s[i]
  BY AppendProperties
<1> HIDE DEF t
<1>2. /\ \A i \in 1 .. Len(t) : t[i] \in Range(t)
      /\ \A x \in Range(t) : \E i \in 1 .. Len(t) : x = t[i]
  BY <1>1, RangeIs
<1>3. /\ \A i \in 1 .. Len(s) : s[i] \in Range(s)
      /\ \A x \in Range(s) : \E i \in 1 .. Len(s) : x = s[i]
  BY RangeIs
<1>4. Range(t) \subseteq Range(s) \cup {e}
  <2> SUFFICES ASSUME NEW i \in 1 .. Len(t) PROVE t[i] \in Range(s) \cup {e}
    BY <1>2
  <2>1. i \in 1 .. Len(s) \/ i = Len(s) + 1
    BY <1>0, <1>1
  <2> QED
    BY <1>1, <1>3, <2>1
<1>5. e \in Range(t)
  <2>1. Len(s) + 1 \in 1 .. Len(t)
    BY <1>0, <1>1
  <2> QED
    BY <1>1, <1>2, <2>1
<1>6. Range(s) \subseteq Range(t)
  <2>1. \A i \in 1 .. Len(s) : i \in 1 .. Len(t)
    BY <1>0, <1>1
  <2> QED
    BY <1>1, <1>2, <1>3, <2>1
<1>7. t \in Seq(S) /\ Range(t) = Range(s) \cup {e}
  BY <1>1, <1>4, <1>5, <1>6
<1> QED
  BY <1>7 DEF t

\* A pass in progress over a ring that held the messages q0 of M: nothing comes
\* out that was not in, and unless the ring is full all that was in is still
\* there or out.
RunsOf(M) == [q : Seq(M), i : Nat \ {0}, out : Seq(M), scanned : Nat, total : Nat]

Holds(M, st, q0) ==
    /\ st \in RunsOf(M)
    /\ Len(st.q) <= Len(q0)
    /\ Range(st.q) \cup Range(st.out) \subseteq Range(q0)
    /\ Len(q0) < RingSize => Range(st.q) \cup Range(st.out) = Range(q0)

Carries(M, st, q0) ==
    /\ Holds(M, st, q0)
    /\ st.total = Len(st.q) /\ st.i <= st.scanned + 1

LEMMA TurnCarries ==
    ASSUME NEW st, NEW M, NEW q0 \in Seq(M), NEW want, Carries(M, st, q0)
    PROVE  Carries(M, Turn(st, want), q0)
<1>0. RingSize \in Nat \ {0}
  BY RingAssumption
<1>1. /\ st.q \in Seq(M) /\ st.i \in Nat \ {0} /\ st.out \in Seq(M)
      /\ st.scanned \in Nat /\ st.total \in Nat /\ Len(st.q) \in Nat /\ Len(q0) \in Nat
  BY DEF Carries, Holds, RunsOf
<1>2. CASE st.scanned >= st.total \/ Len(st.out) >= Budget
  BY <1>2 DEF Turn
<1>3. CASE ~(st.scanned >= st.total \/ Len(st.out) >= Budget)
  <2>1. st.i \in 1 .. Len(st.q) /\ st.total > 0 /\ st.q # <<>>
    BY <1>1, <1>3 DEF Carries, Holds
  <2>2. CASE st.q[st.i].off = want
    <3>1. Turn(st, want) =
            [q |-> Compacted(st.q, st.i), i |-> st.i, out |-> Append(st.out, st.q[st.i]),
             scanned |-> st.scanned + 1, total |-> st.total - 1]
      BY <1>3, <2>2 DEF Turn
    <3>2. st.q[st.i] \in M /\ st.q[st.i] \in Range(st.q)
      BY <1>1, <2>1, RangeIs
    <3>3. /\ Compacted(st.q, st.i) \in Seq(M)
          /\ Len(Compacted(st.q, st.i)) = Len(st.q) - 1
          /\ Range(Compacted(st.q, st.i)) \subseteq Range(st.q)
          /\ Len(st.q) < RingSize => Range(Compacted(st.q, st.i)) \cup {st.q[st.i]} = Range(st.q)
      BY <1>0, <1>1, <2>1, RemovedFrom, CutOff DEF Compacted
    <3>4. /\ Append(st.out, st.q[st.i]) \in Seq(M)
          /\ Range(Append(st.out, st.q[st.i])) = Range(st.out) \cup {st.q[st.i]}
      BY <1>1, <3>2, RangeOfAppend
    <3>5. Turn(st, want) \in RunsOf(M)
      BY <1>1, <2>1, <3>1, <3>3, <3>4 DEF RunsOf
    <3>6. /\ Turn(st, want).q = Compacted(st.q, st.i) /\ Turn(st, want).i = st.i
          /\ Turn(st, want).out = Append(st.out, st.q[st.i])
          /\ Turn(st, want).scanned = st.scanned + 1 /\ Turn(st, want).total = st.total - 1
      BY <3>1
    <3>7. st.total = Len(st.q) /\ st.i <= st.scanned + 1 /\ Len(st.q) <= Len(q0)
      BY DEF Carries, Holds
    <3>8. Range(st.q) \cup Range(st.out) \subseteq Range(q0)
      BY DEF Carries, Holds
    <3>9. Len(q0) < RingSize =>
             Range(st.q) \cup Range(st.out) = Range(q0) /\ Len(st.q) < RingSize
      BY <1>0, <1>1, <3>7 DEF Carries, Holds
    <3>10. /\ Len(Compacted(st.q, st.i)) = st.total - 1 /\ st.i <= st.scanned + 1 + 1
           /\ Len(Compacted(st.q, st.i)) <= Len(q0)
      BY <1>1, <3>3, <3>7
    <3>11. Range(Compacted(st.q, st.i)) \cup Range(Append(st.out, st.q[st.i])) \subseteq Range(q0)
      BY <3>2, <3>3, <3>4, <3>8
    <3>12. Len(q0) < RingSize =>
             Range(Compacted(st.q, st.i)) \cup Range(Append(st.out, st.q[st.i])) = Range(q0)
      BY <3>3, <3>4, <3>9
    <3> QED
      BY <3>5, <3>6, <3>10, <3>11, <3>12 DEF Carries, Holds
  <2>3. CASE st.q[st.i].off # want
    <3>1. Turn(st, want) = [st EXCEPT !.i = @ + 1, !.scanned = @ + 1]
      BY <1>3, <2>3 DEF Turn
    <3>2. Turn(st, want) \in RunsOf(M)
      <4>1. st \in RunsOf(M) /\ st.i + 1 \in Nat \ {0} /\ st.scanned + 1 \in Nat
        BY <1>1 DEF Carries, Holds
      <4> QED
        BY <3>1, <4>1 DEF RunsOf
    <3>3. /\ Turn(st, want).q = st.q /\ Turn(st, want).out = st.out
          /\ Turn(st, want).i = st.i + 1 /\ Turn(st, want).scanned = st.scanned + 1
          /\ Turn(st, want).total = st.total
      BY <1>1, <3>1 DEF RunsOf, Carries, Holds
    <3> QED
      BY <1>1, <3>2, <3>3 DEF Carries, Holds
  <2> QED
    BY <2>2, <2>3
<1> QED
  BY <1>2, <1>3


\* The start of a pass, and the function that Pass is defined by.
Begun(st) == [st EXCEPT !.i = 1, !.scanned = 0, !.total = Len(st.q)]

Turns(f, st, want) ==
    f = [k \in 0 .. Len(st.q) |-> IF k = 0 THEN Begun(st) ELSE Turn(f[k - 1], want)]

LEMMA BegunCarries ==
    ASSUME NEW st, NEW M, NEW q0 \in Seq(M), Holds(M, st, q0)
    PROVE  Carries(M, Begun(st), q0)
<1>1. st \in RunsOf(M) /\ Len(st.q) \in Nat
  BY DEF Carries, Holds, RunsOf
<1>2. Begun(st) \in RunsOf(M)
  <2>1. 1 \in Nat \ {0} /\ 0 \in Nat
    OBVIOUS
  <2> QED
    BY <1>1, <2>1 DEF Begun, RunsOf
<1>3. /\ Begun(st).q = st.q /\ Begun(st).out = st.out
      /\ Begun(st).i = 1 /\ Begun(st).scanned = 0 /\ Begun(st).total = Len(st.q)
  BY <1>1 DEF Begun, RunsOf
<1> QED
  BY <1>2, <1>3 DEF Carries, Holds

LEMMA TurnsExist ==
    ASSUME NEW st, NEW M, NEW q0 \in Seq(M), NEW want, Holds(M, st, q0)
    PROVE  \E f : Turns(f, st, want)
<1> DEFINE S == {x \in RunsOf(M) : Carries(M, x, q0)}
           Upto(k) == \E f \in [0 .. k -> S] :
                         \A i \in 0 .. k : f[i] = IF i = 0 THEN Begun(st) ELSE Turn(f[i - 1], want)
           Bad == {k \in 0 .. Len(st.q) : ~Upto(k)}
<1>s. Len(st.q) \in Nat
  BY DEF Carries, Holds, RunsOf
<1>b. Begun(st) \in S
  <2>1. Carries(M, Begun(st), q0)
    BY BegunCarries
  <2> QED
    BY <2>1 DEF Carries, Holds
<1>t. \A x \in S : Turn(x, want) \in S
  <2> SUFFICES ASSUME NEW x \in S PROVE Turn(x, want) \in S
    OBVIOUS
  <2>1. Carries(M, Turn(x, want), q0)
    BY TurnCarries
  <2> QED
    BY <2>1 DEF Carries, Holds
<1> HIDE DEF S
<1>1. Upto(0)
  <2>1. 0 .. 0 = {0}
    OBVIOUS
  <2> DEFINE g == [i \in {0} |-> Begun(st)]
  <2>2. g \in [{0} -> S] /\ g[0] = Begun(st)
    BY <1>b
  <2> HIDE DEF g
  <2> QED
    BY <2>1, <2>2
<1>2. ASSUME NEW n \in 1 .. Len(st.q), Upto(n - 1) PROVE Upto(n)
  <2>1. PICK f \in [0 .. n - 1 -> S] :
               \A i \in 0 .. n - 1 : f[i] = IF i = 0 THEN Begun(st) ELSE Turn(f[i - 1], want)
    BY <1>2
  <2> DEFINE e == Turn(f[n - 1], want)
             g == [i \in 0 .. n |-> IF i < n THEN f[i] ELSE e]
  <2>2. e \in S
    <3>1. f[n - 1] \in S
      BY <2>1
    <3> QED
      BY <1>t, <3>1
  <2> HIDE DEF e
  <2>3. g \in [0 .. n -> S]
    BY <2>1, <2>2
  <2>4. \A i \in 0 .. n : g[i] = IF i = 0 THEN Begun(st) ELSE Turn(g[i - 1], want)
    <3> SUFFICES ASSUME NEW i \in 0 .. n
                 PROVE  g[i] = IF i = 0 THEN Begun(st) ELSE Turn(g[i - 1], want)
      OBVIOUS
    <3>1. CASE i < n
      <4>1. i \in 0 .. n - 1 /\ g[i] = f[i] /\ (i # 0 => g[i - 1] = f[i - 1])
        BY <1>s, <3>1
      <4>2. f[i] = IF i = 0 THEN Begun(st) ELSE Turn(f[i - 1], want)
        BY <2>1, <4>1
      <4> HIDE DEF g
      <4> QED
        BY <4>1, <4>2
    <3>2. CASE i = n
      <4>1. g[i] = e /\ i # 0 /\ g[i - 1] = f[i - 1]
        BY <1>s, <3>2
      <4> HIDE DEF g
      <4> QED
        BY <3>2, <4>1 DEF e
    <3> QED
      BY <1>s, <3>1, <3>2
  <2> HIDE DEF g
  <2> QED
    BY <2>3, <2>4
<1> HIDE DEF Upto
<1>3. Bad = {}
  <2> SUFFICES ASSUME Bad # {} PROVE FALSE
    OBVIOUS
  <2>0. Bad \subseteq Nat
    BY <1>s
  <2>1. PICK n \in Bad : \A m \in Bad : n <= m
    <3> HIDE DEF Bad
    <3> QED
      BY <2>0, LeastNumber
  <2>2. n \in 0 .. Len(st.q) /\ ~Upto(n)
    BY <2>1
  <2>3. n - 1 \in 0 .. Len(st.q) /\ Upto(n - 1)
    BY <1>s, <1>1, <2>1, <2>2
  <2> QED
    BY <1>s, <1>2, <2>2, <2>3
<1>4. Upto(Len(st.q))
  BY <1>s, <1>3
<1>5. PICK f \in [0 .. Len(st.q) -> S] :
             \A i \in 0 .. Len(st.q) : f[i] = IF i = 0 THEN Begun(st) ELSE Turn(f[i - 1], want)
  BY <1>4 DEF Upto
<1> QED
  BY <1>5 DEF Turns

LEMMA PassCarries ==
    ASSUME NEW st, NEW M, NEW q0 \in Seq(M), NEW want, Holds(M, st, q0)
    PROVE  Carries(M, Pass(st, want), q0)
<1>s. Len(st.q) \in Nat
  BY DEF Carries, Holds, RunsOf
<1>1. Pass(st, want) = (CHOOSE f : Turns(f, st, want))[Len(st.q)]
  BY DEF Pass, Turns, Begun
<1>2. PICK f : Turns(f, st, want) /\ Pass(st, want) = f[Len(st.q)]
  BY <1>1, TurnsExist
<1>3. \A k \in 0 .. Len(st.q) : f[k] = IF k = 0 THEN Begun(st) ELSE Turn(f[k - 1], want)
  BY <1>2 DEF Turns
<1> DEFINE Bad == {k \in 0 .. Len(st.q) : ~Carries(M, f[k], q0)}
<1>4. Bad = {}
  <2> SUFFICES ASSUME Bad # {} PROVE FALSE
    OBVIOUS
  <2>0. Bad \subseteq Nat
    BY <1>s
  <2>1. PICK n \in Bad : \A m \in Bad : n <= m
    <3> HIDE DEF Bad
    <3> QED
      BY <2>0, LeastNumber
  <2>2. n \in 0 .. Len(st.q) /\ ~Carries(M, f[n], q0)
    BY <2>1
  <2>3. n # 0
    BY <1>3, <2>2, BegunCarries
  <2>4. n - 1 \in 0 .. Len(st.q) /\ Carries(M, f[n - 1], q0)
    BY <1>s, <2>1, <2>2, <2>3
  <2>5. Carries(M, Turn(f[n - 1], want), q0)
    BY <2>4, TurnCarries
  <2> QED
    BY <1>3, <2>2, <2>3, <2>5
<1> QED
  BY <1>s, <1>2, <1>4

\* What a drain sends was in the ring; unless the ring is full it loses
\* nothing, and it never makes the ring longer.
LEMMA DrainKeeps ==
    ASSUME NEW M, NEW q0 \in Seq(M)
    PROVE  /\ Drained(q0).q \in Seq(M) /\ Drained(q0).out \in Seq(M)
           /\ Len(Drained(q0).q) <= Len(q0)
           /\ Range(Drained(q0).q) \cup Range(Drained(q0).out) \subseteq Range(q0)
           /\ Len(q0) < RingSize => Range(Drained(q0).q) \cup Range(Drained(q0).out) = Range(q0)
<1> DEFINE st == [q |-> q0, i |-> 1, out |-> <<>>, scanned |-> 0, total |-> 0]
<1>1. Holds(M, st, q0)
  <2>1. Len(q0) \in Nat /\ <<>> \in Seq(M) /\ Range(<<>>) = {}
    BY DEF Range
  <2>2. st \in RunsOf(M)
    BY <2>1 DEF RunsOf
  <2>3. st.q = q0 /\ st.out = <<>>
    OBVIOUS
  <2> HIDE DEF st
  <2> QED
    BY <2>1, <2>2, <2>3 DEF Holds
<1>2. Drained(q0) = Pass(Pass(st, TRUE), FALSE)
  BY DEF Drained
<1> HIDE DEF st
<1>3. Carries(M, Pass(st, TRUE), q0)
  BY <1>1, PassCarries
<1>4. Carries(M, Drained(q0), q0)
  BY <1>2, <1>3, PassCarries DEF Carries
<1> QED
  BY <1>4 DEF Carries, Holds, RunsOf


\* A push that leaves room has lost nothing.
LEMMA PushKeeps ==
    ASSUME NEW q \in Seq(Messages), NEW ms \in Seq(Messages), Len(q) <= RingSize
    PROVE  /\ PushedAll(q, ms) \in Seq(Messages) /\ Len(PushedAll(q, ms)) <= RingSize
           /\ Range(q) \subseteq Range(PushedAll(q, ms))
           /\ Range(PushedAll(q, ms)) \subseteq Range(q) \cup Range(ms)
           /\ Len(PushedAll(q, ms)) < RingSize => Range(PushedAll(q, ms)) = Range(q) \cup Range(ms)
<1>0. RingSize \in Nat /\ Len(q) \in Nat /\ Len(ms) \in Nat
  BY RingAssumption
<1> DEFINE room == RingSize - Len(q)
           k == IF Len(ms) < room THEN Len(ms) ELSE room
           t == SubSeq(ms, 1, k)
<1>1. k \in 0 .. Len(ms) /\ (k < RingSize - Len(q) => k = Len(ms)) /\ k <= RingSize - Len(q)
  BY <1>0
<1>2. PushedAll(q, ms) = q \o t
  BY DEF PushedAll
<1> HIDE DEF k
<1>3. t \in Seq(Messages) /\ Len(t) = k /\ \A i \in 1 .. k : t[i] = ms[i]
  <2>1. \A i \in 1 .. k : ms[i] \in Messages
    BY <1>0, <1>1
  <2>2. 1 \in Int /\ k \in Int
    BY <1>1
  <2>3. /\ t \in Seq(Messages) /\ Len(t) = IF 1 <= k THEN k - 1 + 1 ELSE 0
        /\ \A i \in 1 .. k - 1 + 1 : t[i] = ms[1 + i - 1]
    BY <2>1, <2>2, SubSeqProperties
  <2> HIDE DEF t
  <2> QED
    BY <1>1, <2>3
<1>4. k = Len(ms) => t = ms
  BY <1>0, SubSeqFull
<1> HIDE DEF t
<1>5. Range(t) \subseteq Range(ms)
  <2>1. \A i \in 1 .. k : ms[i] \in Range(ms)
    <3>1. \A i \in 1 .. k : i \in 1 .. Len(ms)
      BY <1>0, <1>1
    <3> QED
      BY <3>1, RangeIs
  <2>2. \A x \in Range(t) : \E i \in 1 .. k : x = t[i]
    BY <1>3, RangeIs
  <2> QED
    BY <1>3, <2>1, <2>2
<1>6. q \o t \in Seq(Messages) /\ Len(q \o t) = Len(q) + k
  BY <1>3, ConcatProperties
<1>7. Range(q \o t) = Range(q) \cup Range(t)
  BY <1>3, RangeOfConcat
<1>8. Len(q) + k <= RingSize /\ (Len(q) + k < RingSize => k = Len(ms))
  BY <1>0, <1>1
<1> QED
  BY <1>2, <1>4, <1>5, <1>6, <1>7, <1>8

-----------------------------------------------------------------------------
(* What sounds.                                                            *)

LEMMA HeardFrom ==
    ASSUME NEW w, NEW ms
    PROVE  Heard(w, ms) \subseteq w \cup {m.note : m \in Range(ms)}
  BY DEF Heard

\* A note that a drain has spoken of and that sounds has an On among the messages.
LEMMA HeardOn ==
    ASSUME NEW w, NEW ms \in Seq(Messages), NEW n \in Heard(w, ms),
           NEW m \in Range(ms), m.note = n
    PROVE  \E x \in Range(ms) : x.note = n /\ ~x.off
<1> DEFINE B == {k \in 0 .. Len(ms) : \A j \in k + 1 .. Len(ms) : ms[j].note # n}
<1>0. Len(ms) \in Nat
  OBVIOUS
<1>1. B \subseteq Nat /\ Len(ms) \in B
  <2>1. \A j \in Len(ms) + 1 .. Len(ms) : FALSE
    BY <1>0
  <2> QED
    BY <1>0, <2>1
<1>2. PICK k \in B : \A j \in B : k <= j
  <2> HIDE DEF B
  <2> QED
    BY <1>1, LeastNumber
<1>3. k \in 0 .. Len(ms) /\ \A j \in k + 1 .. Len(ms) : ms[j].note # n
  BY <1>2
<1>4. k # 0
  <2> SUFFICES ASSUME k = 0 PROVE FALSE
    OBVIOUS
  <2>1. \A j \in 1 .. Len(ms) : ms[j].note # n
    BY <1>3
  <2> QED
    BY <2>1, RangeIs
<1>5. ms[k].note = n
  <2> SUFFICES ASSUME ms[k].note # n PROVE FALSE
    OBVIOUS
  <2>1. \A j \in (k - 1) + 1 .. Len(ms) : j = k \/ j \in k + 1 .. Len(ms)
    BY <1>0, <1>3, <1>4
  <2>2. k - 1 \in B
    BY <1>0, <1>3, <1>4, <2>1
  <2>3. ~(k <= k - 1)
    BY <1>3
  <2> QED
    BY <1>2, <2>2, <2>3
<1>6. k \in DOMAIN ms
  BY <1>0, <1>3, <1>4
<1>7. ~ms[k].off
  BY <1>3, <1>5, <1>6 DEF Heard
<1> QED
  BY <1>0, <1>3, <1>4, <1>5, <1>7, RangeIs

\* A note that sounds or comes sounds on if nothing ends it.
LEMMA HeardStays ==
    ASSUME NEW w, NEW ms \in Seq(Messages), NEW n,
           n \in w \/ \E m \in Range(ms) : m.note = n,
           \A m \in Range(ms) : m.note = n => ~m.off
    PROVE  n \in Heard(w, ms)
<1>1. \A i \in DOMAIN ms : ms[i] \in Range(ms)
  BY DEF Range
<1> QED
  BY <1>1 DEF Heard

LEMMA HeardOne ==
    ASSUME NEW w, NEW n
    PROVE  Heard(w, <<On(n)>>) = w \cup {n} /\ Heard(w, <<Off(n)>>) = w \ {n}
<1>1. ASSUME NEW m, m.note = n
      PROVE  Heard(w, <<m>>) = {k \in w \cup {n} : k # n \/ ~m.off}
  <2>1. Range(<<m>>) = {m} /\ DOMAIN <<m>> = {1} /\ <<m>>[1] = m /\ Len(<<m>>) = 1
    BY DEF Range
  <2>2. 1 + 1 .. 1 = {}
    OBVIOUS
  <2> QED
    BY <1>1, <2>1, <2>2 DEF Heard
<1>2. On(n).note = n /\ Off(n).note = n /\ On(n).off = FALSE /\ Off(n).off = TRUE
  BY DEF On, Off
<1>3. /\ Heard(w, <<On(n)>>) = {k \in w \cup {n} : k # n \/ ~On(n).off}
      /\ Heard(w, <<Off(n)>>) = {k \in w \cup {n} : k # n \/ ~Off(n).off}
  BY <1>1, <1>2
<1> QED
  BY <1>2, <1>3


-----------------------------------------------------------------------------
(* The types of the routing.                                               *)

LEMMA ChordsTyped ==
    ASSUME NEW s \in Slots, NEW l \in Layers, NEW b \in Buttons
    PROVE  /\ <<s, l, b>> \in Played
           /\ Chord[<<s, l, b>>] \in Seq(Notes)
           /\ Kind[<<s, l, b>>] = "note" =>
                 Chord[<<s, l, b>>][1] \in Notes /\ Chord[<<s, l, b>>][1] \in Range(Chord[<<s, l, b>>])
<1>1. <<s, l, b>> \in Played
  BY DEF Played
<1>2. Range(Chord[<<s, l, b>>]) \subseteq Notes
  BY <1>1 DEF Notes
<1>3. Chord[<<s, l, b>>] \in Seq(Range(Chord[<<s, l, b>>]))
  BY <1>1, NotesAssumption
<1>4. Chord[<<s, l, b>>] \in Seq(Notes)
  BY <1>2, <1>3, SeqMonotonic
<1>5. Kind[<<s, l, b>>] = "note" => 1 \in 1 .. Len(Chord[<<s, l, b>>])
  <2>1. Kind[<<s, l, b>>] = "note" => Chord[<<s, l, b>>] # <<>>
    BY <1>1, NotesAssumption
  <2> QED
    BY <1>4, <2>1
<1> QED
  BY <1>1, <1>4, <1>5, RangeIs

LEMMA MessagesTyped ==
    ASSUME NEW n \in Notes
    PROVE  On(n) \in Messages /\ Off(n) \in Messages
  BY DEF On, Off, Messages

\* The messages of a chord.
LEMMA OnsOf ==
    ASSUME NEW ns \in Seq(Notes)
    PROVE  /\ [k \in DOMAIN ns |-> On(ns[k])] \in Seq(Messages)
           /\ Range([k \in DOMAIN ns |-> On(ns[k])]) = {On(n) : n \in Range(ns)}
<1>1. DOMAIN ns = 1 .. Len(ns) /\ Len(ns) \in Nat
  OBVIOUS
<1>2. \A k \in 1 .. Len(ns) : On(ns[k]) \in Messages
  BY MessagesTyped
<1> DEFINE t == [k \in 1 .. Len(ns) |-> On(ns[k])]
<1>3. t \in [1 .. Len(ns) -> Messages]
  BY <1>2
<1>4. t \in Seq(Messages)
  BY <1>1, <1>3
<1>5. Range(t) = {On(n) : n \in Range(ns)}
  BY <1>1 DEF Range
<1> QED
  BY <1>1, <1>4, <1>5

LEMMA OffsOf ==
    ASSUME NEW ns \in Seq(Notes)
    PROVE  /\ [k \in DOMAIN ns |-> Off(ns[k])] \in Seq(Messages)
           /\ Range([k \in DOMAIN ns |-> Off(ns[k])]) = {Off(n) : n \in Range(ns)}
<1>1. DOMAIN ns = 1 .. Len(ns) /\ Len(ns) \in Nat
  OBVIOUS
<1>2. \A k \in 1 .. Len(ns) : Off(ns[k]) \in Messages
  BY MessagesTyped
<1> DEFINE t == [k \in 1 .. Len(ns) |-> Off(ns[k])]
<1>3. t \in [1 .. Len(ns) -> Messages]
  BY <1>2
<1>4. t \in Seq(Messages)
  BY <1>1, <1>3
<1>5. Range(t) = {Off(n) : n \in Range(ns)}
  BY <1>1 DEF Range
<1> QED
  BY <1>1, <1>4, <1>5

\* The conjuncts of TypeOK by what they are about.
PlayTyped ==
    /\ chord \in [Buttons -> Seq(Notes)]
    /\ ring \in Seq(Messages) /\ Len(ring) <= RingSize
    /\ wire \subseteq Notes /\ purged \subseteq wire

PanelTyped ==
    /\ held \in Readings /\ settled \in [1 .. 2 -> 0 .. Debounce]
    /\ fn_down \in BOOLEAN
    /\ evt \in Seq([button : Buttons, down : BOOLEAN])

AuxTyped == astray \subseteq wire /\ lost \subseteq keys /\ unnoticed \in BOOLEAN

RestTyped ==
    /\ slot \in Slots /\ seen \in Slots
    /\ layer \in Layers /\ layer_now \in Layers
    /\ combo \subseteq Buttons
    /\ pressed \in [Buttons -> Layers] /\ pad \in Buttons \cup {NoButton}
    /\ toggles \subseteq [layer : Layers, button : Buttons]
    /\ keys \subseteq Buttons
    /\ pc \in {"top", "poll", "detect", "scan", "route"}

LEMMA TypedParts == PlayTyped /\ PanelTyped /\ AuxTyped /\ RestTyped => TypeOK
  BY DEF TypeOK, PlayTyped, PanelTyped, AuxTyped, RestTyped

LEMMA TypedPartsNext == PlayTyped' /\ PanelTyped' /\ AuxTyped' /\ RestTyped' => TypeOK'
  BY DEF TypeOK, PlayTyped, PanelTyped, AuxTyped, RestTyped

LEMMA FlushTyped ==
    ASSUME TypeOK, Flush PROVE PlayTyped'
<1>1. Silent \in [Buttons -> Seq(Notes)]
  BY DEF Silent
<1>2. <<>> \in Seq(Messages) /\ Len(<<>>) <= RingSize
  BY RingAssumption
<1> QED
  BY <1>1, <1>2 DEF TypeOK, Flush, PlayTyped

LEMMA NoFlushTyped ==
    ASSUME TypeOK, NoFlush PROVE PlayTyped'
  BY DEF TypeOK, NoFlush, PlayTyped

LEMMA AftermathTyped ==
    ASSUME NEW o, Aftermath(o) PROVE AuxTyped'
  BY DEF Aftermath, AuxTyped

\* The edges of a scan.
LEMMA EdgesTyped ==
    ASSUME NEW old \in Buttons \cup {NoButton}, NEW new \in Buttons \cup {NoButton}
    PROVE  Edges(old, new) \in Seq([button : Buttons, down : BOOLEAN])
<1> DEFINE E == [button : Buttons, down : BOOLEAN]
           r == [button |-> old, down |-> FALSE]
           p == [button |-> new, down |-> TRUE]
<1>1. old # NoButton => r \in E
  OBVIOUS
<1>2. new # NoButton => p \in E
  OBVIOUS
<1> HIDE DEF E
<1>3. <<>> \in Seq(E) /\ (old # NoButton => <<r>> \in Seq(E)) /\ (new # NoButton => <<p>> \in Seq(E))
  BY <1>1, <1>2
<1>4. Edges(old, new) =
        IF new = old THEN <<>>
        ELSE (IF old = NoButton THEN <<>> ELSE <<r>>) \o (IF new = NoButton THEN <<>> ELSE <<p>>)
  BY DEF Edges
<1> HIDE DEF r, p
<1>5. Edges(old, new) \in Seq(E)
  BY <1>3, <1>4, ConcatProperties
<1> QED
  BY <1>5 DEF E


LEMMA NotesInitTyped == Init => TypeOK
<1> SUFFICES ASSUME Init PROVE TypeOK
  OBVIOUS
<1>1. 0 \in Layers /\ Debounce \in Nat \ {0}
  BY NotesAssumption
<1>2. PlayTyped
  <2>1. Silent \in [Buttons -> Seq(Notes)]
    BY DEF Silent
  <2>2. <<>> \in Seq(Messages) /\ Len(<<>>) <= RingSize
    BY RingAssumption
  <2> QED
    BY <2>1, <2>2 DEF Init, PlayTyped
<1>3. PanelTyped
  <2>1. held \in Readings
    BY DEF Init, Readings
  <2>2. settled \in [1 .. 2 -> 0 .. Debounce]
    BY <1>1 DEF Init
  <2> QED
    BY <2>1, <2>2, EmptySeq DEF Init, PanelTyped
<1>4. AuxTyped
  BY DEF Init, AuxTyped
<1>5. RestTyped
  BY <1>1, NotesAssumption DEF Init, RestTyped
<1> QED
  BY <1>2, <1>3, <1>4, <1>5, TypedParts

LEMMA RoutingTyped ==
    ASSUME TypeOK, NEW b, NEW down, Routing(b, down) PROVE PanelTyped'
<1>1. Tail(evt) \in Seq([button : Buttons, down : BOOLEAN])
  BY HeadTailProperties DEF Routing, TypeOK
<1> QED
  BY <1>1 DEF Routing, TypeOK, PanelTyped

LEMMA DrainTyped == TypeOK /\ Drain => TypeOK'
<1> SUFFICES ASSUME TypeOK, Drain PROVE TypeOK'
  OBVIOUS
<1>0. ring \in Seq(Messages) /\ Len(ring) <= RingSize /\ wire \subseteq Notes /\ RingSize \in Nat
  BY RingAssumption DEF TypeOK
<1>1. /\ Drained(ring).q \in Seq(Messages) /\ Drained(ring).out \in Seq(Messages)
      /\ Len(Drained(ring).q) <= Len(ring)
  BY <1>0, DrainKeeps
<1>2. \A m \in Range(Drained(ring).out) : m.note \in Notes
  <2>1. \A m \in Range(Drained(ring).out) : m \in Messages
    BY <1>1, RangeIs
  <2> QED
    BY <2>1 DEF Messages
<1>3. wire' \subseteq Notes
  BY <1>0, <1>2, HeardFrom DEF Drain
<1>4. PlayTyped'
  <2>1. Len(Drained(ring).q) <= RingSize
    <3>1. Len(Drained(ring).q) \in Nat /\ Len(ring) \in Nat
      BY <1>0, <1>1
    <3> QED
      BY <1>0, <1>1, <3>1
  <2> QED
    BY <1>1, <1>3, <2>1 DEF Drain, PlayTyped, TypeOK
<1>5. AuxTyped'
  BY AftermathTyped DEF Drain
<1>6. PanelTyped' /\ RestTyped'
  BY DEF Drain, hand, TypeOK, PanelTyped, RestTyped
<1> QED
  BY <1>4, <1>5, <1>6, TypedPartsNext

LEMMA PollTyped == TypeOK /\ Poll => TypeOK'
<1> SUFFICES ASSUME TypeOK, Poll PROVE TypeOK'
  OBVIOUS
<1>1. AuxTyped'
  BY AftermathTyped DEF Poll
<1>2. PlayTyped' /\ PanelTyped' /\ RestTyped'
  BY DEF Poll, hand, TypeOK, PlayTyped, PanelTyped, RestTyped
<1> QED
  BY <1>1, <1>2, TypedPartsNext

LEMMA DetectTyped == TypeOK /\ Detect => TypeOK'
<1> SUFFICES ASSUME TypeOK, Detect PROVE TypeOK'
  OBVIOUS
<1>1. AuxTyped'
  BY AftermathTyped DEF Detect
<1>2. PlayTyped'
  BY FlushTyped, NoFlushTyped DEF Detect
<1>3. PanelTyped' /\ RestTyped'
  BY NotesAssumption DEF Detect, hand, TypeOK, PanelTyped, RestTyped
<1> QED
  BY <1>1, <1>2, <1>3, TypedPartsNext

LEMMA ScanTyped == TypeOK /\ Scan => TypeOK'
<1> SUFFICES ASSUME TypeOK, Scan PROVE TypeOK'
  OBVIOUS
<1>0. held \in Readings /\ Debounce \in Nat \ {0}
  BY NotesAssumption DEF TypeOK
<1>1. AuxTyped'
  BY AftermathTyped DEF Scan
<1>2. PICK r \in Readings :
        /\ held' = r
        /\ settled' = [l \in 1 .. 2 |->
                         IF r[l] # held[l] THEN 0
                         ELSE IF settled[l] < Debounce THEN settled[l] + 1 ELSE Debounce]
        /\ evt' = Edges(held[1], r[1]) \o Edges(held[2], r[2])
  BY DEF Scan
<1>3. settled' \in [1 .. 2 -> 0 .. Debounce]
  <2>1. \A l \in 1 .. 2 : settled[l] \in 0 .. Debounce
    BY DEF TypeOK
  <2> QED
    BY <1>0, <1>2, <2>1
<1>4. evt' \in Seq([button : Buttons, down : BOOLEAN])
  <2>1. \A l \in 1 .. 2 : held[l] \in Buttons \cup {NoButton} /\ r[l] \in Buttons \cup {NoButton}
    BY <1>0 DEF Readings
  <2>2. \A l \in 1 .. 2 : Edges(held[l], r[l]) \in Seq([button : Buttons, down : BOOLEAN])
    BY <2>1, EdgesTyped
  <2>3. /\ Edges(held[1], r[1]) \in Seq([button : Buttons, down : BOOLEAN])
        /\ Edges(held[2], r[2]) \in Seq([button : Buttons, down : BOOLEAN])
    BY <2>2
  <2> QED
    BY <1>2, <2>3, ConcatProperties
<1>5. PanelTyped'
  BY <1>2, <1>3, <1>4 DEF PanelTyped, Scan
<1>6. PlayTyped' /\ RestTyped'
  BY DEF Scan, TypeOK, PlayTyped, RestTyped
<1> QED
  BY <1>1, <1>5, <1>6, TypedPartsNext

LEMMA EndTickTyped == TypeOK /\ EndTick => TypeOK'
<1> SUFFICES ASSUME TypeOK, EndTick PROVE TypeOK'
  OBVIOUS
<1>1. AuxTyped'
  BY AftermathTyped DEF EndTick
<1>2. PlayTyped' /\ PanelTyped' /\ RestTyped'
  BY DEF EndTick, hand, TypeOK, PlayTyped, PanelTyped, RestTyped
<1> QED
  BY <1>1, <1>2, TypedPartsNext

LEMMA CombosTyped ==
    ASSUME TypeOK, NEW b \in Buttons,
           ComboMode(b) \/ ComboProfile(b) \/ ComboLayer(b) \/ ComboOther(b) \/ ComboRelease(b)
    PROVE  TypeOK'
<1>1. PanelTyped'
  BY RoutingTyped DEF ComboMode, ComboProfile, ComboLayer, ComboOther, ComboPress, ComboRelease
<1>2. AuxTyped'
  BY AftermathTyped DEF ComboMode, ComboProfile, ComboLayer, ComboOther, ComboRelease
<1>3. PlayTyped'
  BY FlushTyped, NoFlushTyped
     DEF ComboMode, ComboProfile, ComboLayer, ComboOther, ComboRelease
<1>4. RestTyped'
  <2>1. ASSUME Routing(b, TRUE) \/ Routing(b, FALSE) PROVE UNCHANGED <<layer_now, pc>>
    BY <2>1 DEF Routing
  <2>2. CASE ComboMode(b)
    BY <2>1, <2>2, NotesAssumption DEF ComboMode, ComboPress, TypeOK, RestTyped
  <2>3. CASE ComboProfile(b)
    BY <2>1, <2>3 DEF ComboProfile, ComboPress, TypeOK, RestTyped
  <2>4. CASE ComboLayer(b)
    BY <2>1, <2>4 DEF ComboLayer, ComboPress, TypeOK, RestTyped
  <2>5. CASE ComboOther(b)
    BY <2>1, <2>5 DEF ComboOther, ComboPress, TypeOK, RestTyped
  <2>6. CASE ComboRelease(b)
    BY <2>1, <2>6 DEF ComboRelease, TypeOK, RestTyped
  <2> QED
    BY <2>2, <2>3, <2>4, <2>5, <2>6
<1> QED
  BY <1>1, <1>2, <1>3, <1>4, TypedPartsNext

\* The layer a button acts on.
LEMMA EmitLayerTyped ==
    ASSUME TypeOK, NEW b \in Buttons, NEW down
    PROVE  EmitLayer(b, down) \in Layers
  BY DEF TypeOK, EmitLayer

LEMMA PlainTyped ==
    ASSUME TypeOK, NEW b \in Buttons, NEW down, Plain(b, down)
    PROVE  /\ PanelTyped'
           /\ pressed' \in [Buttons -> Layers]
           /\ UNCHANGED <<layer, layer_now, combo, pad, pc>>
<1>1. PanelTyped'
  BY RoutingTyped DEF Plain, Passed
<1>2. pressed' \in [Buttons -> Layers]
  BY DEF Plain, TypeOK
<1>3. UNCHANGED <<layer, layer_now, combo, pad, pc>>
  BY DEF Plain, Passed, Routing
<1> QED
  BY <1>1, <1>2, <1>3

LEMMA EdgesOfAButtonTyped ==
    ASSUME TypeOK, NEW b \in Buttons, NEW down \in BOOLEAN,
           TapPad(b, down) \/ Key(b, down) \/ Mute(b, down) \/ Note(b, down)
             \/ Toggle(b, down) \/ Switch(b, down)
    PROVE  TypeOK'
<1>1. AuxTyped'
  BY AftermathTyped DEF TapPad, Key, Mute, Note, Toggle, Switch
<1>2. CASE TapPad(b, down)
  <2>1. PanelTyped' /\ UNCHANGED <<layer, layer_now, combo, pad, pc>>
    BY <1>2, RoutingTyped DEF TapPad, Passed, Routing
  <2>2. PlayTyped'
    BY <1>2, NoFlushTyped DEF TapPad
  <2>3. RestTyped'
    BY <1>2, <2>1 DEF TapPad, TypeOK, RestTyped
  <2> QED
    BY <1>1, <2>1, <2>2, <2>3, TypedPartsNext
<1>3. CASE Key(b, down)
  <2>1. Plain(b, down)
    BY <1>3 DEF Key
  <2>2. PlayTyped'
    BY <1>3, NoFlushTyped DEF Key
  <2>3. RestTyped'
    BY <1>3, <2>1, PlainTyped DEF Key, TypeOK, RestTyped
  <2> QED
    BY <1>1, <2>1, <2>2, <2>3, PlainTyped, TypedPartsNext
<1>4. CASE Mute(b, down)
  <2>1. Plain(b, down)
    BY <1>4 DEF Mute, Midi
  <2>2. PlayTyped'
    BY <1>4, NoFlushTyped DEF Mute
  <2>3. RestTyped'
    BY <1>4, <2>1, PlainTyped DEF Mute, Midi, TypeOK, RestTyped
  <2> QED
    BY <1>1, <2>1, <2>2, <2>3, PlainTyped, TypedPartsNext
<1>5. CASE Note(b, down)
  <2>1. Plain(b, down) /\ Kind[<<slot, EmitLayer(b, down), b>>] = "note"
    BY <1>5 DEF Note, Midi
  <2> DEFINE n == Chord[<<slot, EmitLayer(b, down), b>>][1]
  <2>2. n \in Notes
    BY <2>1, EmitLayerTyped, ChordsTyped DEF TypeOK
  <2>3. wire' = Heard(wire, <<IF down THEN On(n) ELSE Off(n)>>)
    BY <1>5 DEF Note
  <2> HIDE DEF n
  <2>4. wire' = wire \cup {n} \/ wire' = wire \ {n}
    <3>1. CASE down
      BY <2>3, <3>1, HeardOne
    <3>2. CASE ~down
      BY <2>3, <3>2, HeardOne
    <3> QED
      BY <3>1, <3>2
  <2>5. PlayTyped'
    BY <1>5, <2>2, <2>4 DEF Note, TypeOK, PlayTyped
  <2>6. RestTyped'
    BY <1>5, <2>1, PlainTyped DEF Note, Midi, TypeOK, RestTyped
  <2> QED
    BY <1>1, <2>1, <2>5, <2>6, PlainTyped, TypedPartsNext
<1>6. CASE Toggle(b, down)
  <2>1. Plain(b, down)
    BY <1>6 DEF Toggle, Midi
  <2>2. PlayTyped'
    BY <1>6, NoFlushTyped DEF Toggle
  <2>3. [layer |-> EmitLayer(b, down), button |-> b] \in [layer : Layers, button : Buttons]
    BY EmitLayerTyped
  <2>4. toggles' \subseteq [layer : Layers, button : Buttons]
    BY <1>6, <2>3 DEF Toggle, TypeOK
  <2>5. RestTyped'
    BY <1>6, <2>1, <2>4, PlainTyped DEF Toggle, Midi, TypeOK, RestTyped
  <2> QED
    BY <1>1, <2>1, <2>2, <2>5, PlainTyped, TypedPartsNext
<1>7. CASE Switch(b, down)
  <2>1. Plain(b, down)
    BY <1>7 DEF Switch, Midi
  <2>2. PlayTyped'
    BY <1>7, FlushTyped, NoFlushTyped DEF Switch
  <2>3. RestTyped'
    BY <1>7, <2>1, PlainTyped DEF Switch, Midi, TypeOK, RestTyped
  <2> QED
    BY <1>1, <2>1, <2>2, <2>3, PlainTyped, TypedPartsNext
<1> QED
  BY <1>2, <1>3, <1>4, <1>5, <1>6, <1>7

LEMMA ChordsOfAButtonTyped ==
    ASSUME TypeOK, NEW b \in Buttons, ChordPress(b) \/ ChordRelease(b)
    PROVE  TypeOK'
<1>1. AuxTyped'
  BY AftermathTyped DEF ChordPress, ChordRelease
<1>2. CASE ChordPress(b)
  <2>1. Plain(b, TRUE)
    BY <1>2 DEF ChordPress, Midi
  <2> DEFINE ns == Chord[<<slot, layer_now, b>>]
             ms == [k \in DOMAIN ns |-> On(ns[k])]
  <2>2. chord' = [chord EXCEPT ![b] = ns] /\ ring' = PushedAll(ring, ms)
    BY <1>2 DEF ChordPress
  <2>3. ns \in Seq(Notes)
    BY ChordsTyped DEF TypeOK
  <2> HIDE DEF ns
  <2>4. ms \in Seq(Messages)
    BY <2>3, OnsOf
  <2> HIDE DEF ms
  <2>5. ring' \in Seq(Messages) /\ Len(ring') <= RingSize
    BY <2>2, <2>4, PushKeeps DEF TypeOK
  <2>6. PlayTyped'
    BY <1>2, <2>2, <2>3, <2>5 DEF ChordPress, TypeOK, PlayTyped
  <2>7. RestTyped'
    BY <1>2, <2>1, PlainTyped DEF ChordPress, Midi, TypeOK, RestTyped
  <2> QED
    BY <1>1, <2>1, <2>6, <2>7, PlainTyped, TypedPartsNext
<1>3. CASE ChordRelease(b)
  <2>1. Plain(b, FALSE)
    BY <1>3 DEF ChordRelease, Midi
  <2> DEFINE ms == [k \in DOMAIN chord[b] |-> Off(chord[b][k])]
  <2>2. chord' = [chord EXCEPT ![b] = <<>>] /\ ring' = PushedAll(ring, ms)
    BY <1>3 DEF ChordRelease
  <2>3. chord[b] \in Seq(Notes)
    BY DEF TypeOK
  <2>4. ms \in Seq(Messages)
    BY <2>3, OffsOf
  <2> HIDE DEF ms
  <2>5. ring' \in Seq(Messages) /\ Len(ring') <= RingSize
    BY <2>2, <2>4, PushKeeps DEF TypeOK
  <2>6. PlayTyped'
    BY <1>3, <2>2, <2>5 DEF ChordRelease, TypeOK, PlayTyped
  <2>7. RestTyped'
    BY <1>3, <2>1, PlainTyped DEF ChordRelease, Midi, TypeOK, RestTyped
  <2> QED
    BY <1>1, <2>1, <2>6, <2>7, PlainTyped, TypedPartsNext
<1> QED
  BY <1>2, <1>3

LEMMA NotesStepTyped == TypeOK /\ [Next]_vars => TypeOK'
<1> SUFFICES ASSUME TypeOK, [Next]_vars PROVE TypeOK'
  OBVIOUS
<1>1. CASE UNCHANGED vars
  BY <1>1 DEF vars, TypeOK
<1>2. ASSUME NEW b \in Buttons, Route(b) PROVE TypeOK'
  <2>1. CASE \E down \in BOOLEAN : TapPad(b, down) \/ Key(b, down) \/ Mute(b, down)
                                      \/ Note(b, down) \/ Toggle(b, down) \/ Switch(b, down)
    BY <2>1, EdgesOfAButtonTyped
  <2> QED
    BY <1>2, <2>1, CombosTyped, ChordsOfAButtonTyped DEF Route
<1> QED
  BY <1>1, <1>2, DrainTyped, PollTyped, DetectTyped, ScanTyped, EndTickTyped DEF Next

\* The variables of the button path keep their types, and the chord ring its
\* size.
THEOREM NotesTypeCorrect == Spec => []TypeOK
<1>1. Init => TypeOK
  BY NotesInitTyped
<1>2. TypeOK /\ [Next]_vars => TypeOK'
  BY NotesStepTyped
<1> QED
  BY <1>1, <1>2, PTL DEF Spec


-----------------------------------------------------------------------------
(* The edges of a scan.                                                    *)

\* The buttons whose press was routed and whose release was not.
Touched ==
    ((Range(held) \ {e.button : e \in {x \in Range(evt) : x.down}})
       \cup {e.button : e \in {x \in Range(evt) : ~x.down}}) \ {NoButton}

\* The edges still to be routed are of different buttons, presses of those that
\* are held and releases of those that are not; a press on the second ladder is
\* the last.
EdgesInv ==
    /\ pc # "route" => evt = <<>>
    /\ \A i \in 1 .. Len(evt) :
          /\ evt[i].down <=> evt[i].button \in Range(held)
          /\ \A j \in 1 .. Len(evt) : evt[i].button = evt[j].button => i = j
          /\ evt[i].down /\ evt[i].button \in Ladders[2] => i = Len(evt)

EdgeOf(c) == \E i \in 1 .. Len(evt) : evt[i].button = c

LEMMA HeldTyped ==
    ASSUME TypeOK
    PROVE  /\ Range(held) = {held[1], held[2]}
           /\ \A l \in 1 .. 2 : held[l] \in Ladders[l] \cup {NoButton}
           /\ Range(held) \subseteq Buttons \cup {NoButton}
<1>1. held \in [1 .. 2 -> Buttons \cup {NoButton}] /\ \A l \in 1 .. 2 : held[l] \in Ladders[l] \cup {NoButton}
  BY DEF TypeOK, Readings
<1> QED
  BY <1>1 DEF Range

LEMMA EvtTyped ==
    ASSUME TypeOK
    PROVE  /\ Len(evt) \in Nat
           /\ \A i \in 1 .. Len(evt) : evt[i].button \in Buttons /\ evt[i].down \in BOOLEAN
<1> DEFINE E == [button : Buttons, down : BOOLEAN]
<1>1. evt \in Seq(E)
  BY DEF TypeOK
<1>2. \A e \in E : e.button \in Buttons /\ e.down \in BOOLEAN
  OBVIOUS
<1> HIDE DEF E
<1>3. \A i \in 1 .. Len(evt) : evt[i] \in E
  BY <1>1
<1> QED
  BY <1>1, <1>2, <1>3

\* A button is touched if it is held and no edge of it is pending, or the other
\* way round.
LEMMA TouchedIff ==
    ASSUME TypeOK, EdgesInv
    PROVE  /\ Touched \subseteq Buttons
           /\ \A c \in Buttons : c \in Touched <=> (c \in Range(held) <=> ~EdgeOf(c))
<1>1. evt \in Seq([button : Buttons, down : BOOLEAN])
  BY DEF TypeOK
<1>2. \A x \in Range(evt) : \E i \in 1 .. Len(evt) : x = evt[i]
  BY <1>1, RangeIs
<1>3. \A i \in 1 .. Len(evt) : evt[i] \in Range(evt)
  BY <1>1, RangeIs
<1>4. \A c : c \in {e.button : e \in {x \in Range(evt) : x.down}}
               <=> \E i \in 1 .. Len(evt) : evt[i].down /\ evt[i].button = c
  BY <1>2, <1>3
<1>5. \A c : c \in {e.button : e \in {x \in Range(evt) : ~x.down}}
               <=> \E i \in 1 .. Len(evt) : ~evt[i].down /\ evt[i].button = c
  BY <1>2, <1>3
<1>6. Touched \subseteq Buttons
  BY <1>5, HeldTyped, EvtTyped DEF Touched
<1>7. \A i \in 1 .. Len(evt) : evt[i].down <=> evt[i].button \in Range(held)
  BY DEF EdgesInv
<1>8. NoButton \notin Buttons
  BY NotesAssumption
<1>9. ASSUME NEW c \in Buttons PROVE c \in Touched <=> (c \in Range(held) <=> ~EdgeOf(c))
  <2>1. c \in Touched <=>
          \/ c \in Range(held) /\ ~\E i \in 1 .. Len(evt) : evt[i].down /\ evt[i].button = c
          \/ \E i \in 1 .. Len(evt) : ~evt[i].down /\ evt[i].button = c
    BY <1>4, <1>5, <1>8 DEF Touched
  <2>2. CASE c \in Range(held)
    BY <1>7, <2>1, <2>2 DEF EdgeOf
  <2>3. CASE c \notin Range(held)
    BY <1>7, <2>1, <2>3 DEF EdgeOf
  <2> QED
    BY <2>2, <2>3
<1> QED
  BY <1>6, <1>9

\* One edge is routed.
LEMMA RoutingEdges ==
    ASSUME TypeOK, TypeOK', EdgesInv, NEW b \in Buttons, NEW down \in BOOLEAN, Routing(b, down)
    PROVE  /\ EdgesInv'
           /\ down => b \notin Touched /\ Touched' = Touched \cup {b}
           /\ ~down => b \in Touched /\ Touched' = Touched \ {b}
           /\ EdgeOf(b) /\ ~EdgeOf(b)'
           /\ \A c : EdgeOf(c)' => EdgeOf(c)
           /\ down /\ b \in Ladders[2] => evt' = <<>>
<1>1. /\ evt \in Seq([button : Buttons, down : BOOLEAN]) /\ evt # <<>> /\ Len(evt) \in Nat \ {0}
      /\ evt[1].button = b /\ evt[1].down = down
      /\ pc = "route" /\ pc' = pc /\ held' = held
  BY DEF TypeOK, Routing
<1>2. /\ evt' \in Seq([button : Buttons, down : BOOLEAN]) /\ Len(evt') = Len(evt) - 1
      /\ \A i \in 1 .. Len(evt') : evt'[i] = evt[i + 1]
  BY <1>1, HeadTailProperties DEF Routing
<1>3. \A i \in 1 .. Len(evt') : i + 1 \in 1 .. Len(evt) /\ i + 1 # 1
  BY <1>1, <1>2
<1>4. 1 \in 1 .. Len(evt)
  BY <1>1
<1>5. EdgesInv'
  <2>1. ASSUME NEW i \in 1 .. Len(evt')
        PROVE  /\ evt'[i].down <=> evt'[i].button \in Range(held')
               /\ \A j \in 1 .. Len(evt') : evt'[i].button = evt'[j].button => i = j
               /\ evt'[i].down /\ evt'[i].button \in Ladders[2] => i = Len(evt')
    <3>1. /\ evt[i + 1].down <=> evt[i + 1].button \in Range(held)
          /\ \A j \in 1 .. Len(evt) : evt[i + 1].button = evt[j].button => i + 1 = j
          /\ evt[i + 1].down /\ evt[i + 1].button \in Ladders[2] => i + 1 = Len(evt)
      BY <1>3 DEF EdgesInv
    <3>2. \A j \in 1 .. Len(evt') : evt'[i].button = evt'[j].button => i = j
      BY <1>2, <1>3, <3>1
    <3>3. evt'[i].down <=> evt'[i].button \in Range(held')
      BY <1>1, <1>2, <3>1
    <3>4. evt'[i].down /\ evt'[i].button \in Ladders[2] => i = Len(evt')
      BY <1>1, <1>2, <3>1
    <3> QED
      BY <3>2, <3>3, <3>4
  <2> QED
    BY <1>1, <2>1 DEF EdgesInv
<1>6. EdgeOf(b)
  BY <1>1, <1>4 DEF EdgeOf
<1>7. \A c : EdgeOf(c)' => EdgeOf(c)
  BY <1>2, <1>3 DEF EdgeOf
<1>8. ~EdgeOf(b)'
  <2>1. \A j \in 1 .. Len(evt) : evt[1].button = evt[j].button => 1 = j
    BY <1>4 DEF EdgesInv
  <2> QED
    BY <1>1, <1>2, <1>3, <2>1 DEF EdgeOf
<1>9. \A c : c # b => (EdgeOf(c) => EdgeOf(c)')
  <2> SUFFICES ASSUME NEW c, c # b, NEW i \in 1 .. Len(evt), evt[i].button = c PROVE EdgeOf(c)'
    BY DEF EdgeOf
  <2>1. i # 1
    BY <1>1
  <2>2. i - 1 \in 1 .. Len(evt') /\ evt'[i - 1] = evt[i]
    BY <1>1, <1>2, <2>1
  <2> QED
    BY <2>2 DEF EdgeOf
<1>10. /\ Touched \subseteq Buttons
       /\ \A c \in Buttons : c \in Touched <=> (c \in Range(held) <=> ~EdgeOf(c))
  BY TouchedIff
<1>11. /\ Touched' \subseteq Buttons
       /\ \A c \in Buttons : c \in Touched' <=> (c \in Range(held) <=> ~EdgeOf(c)')
  <2>1. (TypeOK /\ EdgesInv =>
           /\ Touched \subseteq Buttons
           /\ \A c \in Buttons : c \in Touched <=> (c \in Range(held) <=> ~EdgeOf(c)))'
    BY TouchedIff, PTL
  <2> QED
    BY <1>1, <1>5, <2>1
<1>12. down <=> b \in Range(held)
  BY <1>1, <1>4 DEF EdgesInv
<1>13. \A c \in Buttons : c # b => (c \in Touched <=> c \in Touched')
  BY <1>7, <1>9, <1>10, <1>11
<1>14. down => b \notin Touched /\ b \in Touched'
  BY <1>6, <1>8, <1>10, <1>11, <1>12
<1>15. ~down => b \in Touched /\ b \notin Touched'
  BY <1>6, <1>8, <1>10, <1>11, <1>12
<1>16. down /\ b \in Ladders[2] => evt' = <<>>
  <2>1. down /\ b \in Ladders[2] => 1 = Len(evt)
    BY <1>1, <1>4 DEF EdgesInv
  <2> QED
    BY <1>2, <2>1
<1>17. down => Touched' = Touched \cup {b}
  BY <1>10, <1>11, <1>13, <1>14
<1>18. ~down => Touched' = Touched \ {b}
  BY <1>10, <1>11, <1>13, <1>15
<1> QED
  BY <1>5, <1>6, <1>7, <1>8, <1>14, <1>15, <1>16, <1>17, <1>18

\* What Edges lists: for a ladder that changed, the release of the old button
\* and, at the end, the press of the new one.
EdgeList(E, old, new) ==
    /\ Len(E) \in Nat
    /\ \A i \in 1 .. Len(E) :
          /\ old # new /\ E[i].button \in {old, new} \ {NoButton}
          /\ E[i].down <=> E[i].button = new
          /\ E[i].down => i = Len(E)
          /\ \A j \in 1 .. Len(E) : E[i].button = E[j].button => i = j
    /\ old # new => \A c \in {old, new} \ {NoButton} : \E i \in 1 .. Len(E) : E[i].button = c

LEMMA EdgesList ==
    ASSUME NEW old \in Buttons \cup {NoButton}, NEW new \in Buttons \cup {NoButton}
    PROVE  EdgeList(Edges(old, new), old, new)
<1> DEFINE r == [button |-> old, down |-> FALSE]
           p == [button |-> new, down |-> TRUE]
<1>0. r.button = old /\ r.down = FALSE /\ p.button = new /\ p.down = TRUE
  OBVIOUS
<1>1. Edges(old, new) =
        IF new = old THEN <<>>
        ELSE (IF old = NoButton THEN <<>> ELSE <<r>>) \o (IF new = NoButton THEN <<>> ELSE <<p>>)
  BY DEF Edges
<1> HIDE DEF r, p
<1> DEFINE E == Edges(old, new)
<1>2. CASE new = old
  <2>1. E = <<>> /\ Len(E) = 0
    BY <1>1, <1>2
  <2>2. 1 .. Len(E) = {}
    BY <2>1
  <2> HIDE DEF E
  <2>3. /\ Len(E) \in Nat /\ \A i \in 1 .. Len(E) : FALSE
    BY <2>1, <2>2
  <2> QED
    BY <1>2, <2>3 DEF E, EdgeList
<1>3. ASSUME NEW e, NEW n, {n} = {old, new} \ {NoButton}, old # new, E = <<e>>,
             e.button = n, e.down <=> n = new
      PROVE  EdgeList(E, old, new)
  <2>1. Len(E) = 1 /\ E[1] = e
    BY <1>3
  <2> HIDE DEF E
  <2>2. 1 .. Len(E) = {1}
    BY <2>1
  <2>3. n \in {old, new} \ {NoButton} /\ \A c \in {old, new} \ {NoButton} : c = n
    BY <1>3
  <2> QED
    BY <1>3, <2>1, <2>2, <2>3 DEF EdgeList
<1>4. CASE new # old /\ old = NoButton
  <2>1. E = <<p>> /\ {new} = {old, new} \ {NoButton}
    BY <1>1, <1>4, ConcatEmptySeq
  <2> QED
    BY <1>0, <1>3, <1>4, <2>1
<1>5. CASE new # old /\ new = NoButton
  <2>1. E = <<r>> /\ {old} = {old, new} \ {NoButton}
    BY <1>1, <1>5
  <2>2. r.down <=> old = new
    BY <1>0, <1>5
  <2> QED
    BY <1>0, <1>3, <1>5, <2>1, <2>2
<1>6. CASE new # old /\ new # NoButton /\ old # NoButton
  <2>1. E = <<r>> \o <<p>>
    BY <1>1, <1>6
  <2>2. <<r>> \in Seq({r, p}) /\ <<p>> \in Seq({r, p}) /\ Len(<<r>>) = 1 /\ Len(<<p>>) = 1
        /\ <<r>>[1] = r /\ <<p>>[1] = p
    <3>1. r \in {r, p} /\ p \in {r, p}
      OBVIOUS
    <3> QED
      BY <3>1
  <2>3. /\ Len(<<r>> \o <<p>>) = 2
        /\ \A i \in 1 .. 2 : (<<r>> \o <<p>>)[i] = IF i <= 1 THEN <<r>>[i] ELSE <<p>>[i - 1]
    <3>1. /\ Len(<<r>> \o <<p>>) = Len(<<r>>) + Len(<<p>>)
          /\ \A i \in 1 .. Len(<<r>>) + Len(<<p>>) :
                (<<r>> \o <<p>>)[i] = IF i <= Len(<<r>>) THEN <<r>>[i] ELSE <<p>>[i - Len(<<r>>)]
      BY <2>2, ConcatProperties
    <3> QED
      BY <2>2, <3>1
  <2>4. Len(E) = 2 /\ E[1] = r /\ E[2] = p
    <3>1. /\ (<<r>> \o <<p>>)[1] = <<r>>[1]
          /\ (<<r>> \o <<p>>)[2] = <<p>>[2 - 1]
      BY <2>3
    <3> QED
      BY <2>1, <2>2, <2>3, <3>1
  <2> HIDE DEF E
  <2>5. 1 .. Len(E) = {1, 2}
    BY <2>4
  <2>6. {old, new} \ {NoButton} = {old, new}
    BY <1>6
  <2>7. /\ Len(E) \in Nat
        /\ \A i \in {1, 2} :
              /\ E[i].button \in {old, new}
              /\ E[i].down <=> E[i].button = new
              /\ E[i].down => i = Len(E)
              /\ \A j \in {1, 2} : E[i].button = E[j].button => i = j
        /\ E[1].button = old /\ E[2].button = new
    BY <1>0, <1>6, <2>4
  <2> QED
    BY <1>6, <2>5, <2>6, <2>7 DEF E, EdgeList
<1> QED
  BY <1>2, <1>4, <1>5, <1>6


\* A scan touches nothing: what it sees is still to be routed.
LEMMA ScanEdges ==
    ASSUME TypeOK, TypeOK', EdgesInv, Scan
    PROVE  EdgesInv' /\ Touched' = Touched
<1>1. PICK r \in Readings : held' = r /\ evt' = Edges(held[1], r[1]) \o Edges(held[2], r[2])
  BY DEF Scan
<1> DEFINE E1 == Edges(held[1], r[1])
           E2 == Edges(held[2], r[2])
<1>2. /\ held[1] \in Ladders[1] \cup {NoButton} /\ held[2] \in Ladders[2] \cup {NoButton}
      /\ r[1] \in Ladders[1] \cup {NoButton} /\ r[2] \in Ladders[2] \cup {NoButton}
      /\ Range(held) = {held[1], held[2]} /\ Range(held') = {r[1], r[2]}
  <2>1. 1 \in 1 .. 2 /\ 2 \in 1 .. 2
    OBVIOUS
  <2>2. r \in [1 .. 2 -> Buttons \cup {NoButton}] /\ \A l \in 1 .. 2 : r[l] \in Ladders[l] \cup {NoButton}
    BY DEF Readings
  <2>3. Range(r) = {r[1], r[2]}
    BY <2>2 DEF Range
  <2> QED
    BY <1>1, <2>1, <2>2, <2>3, HeldTyped
<1>3. Ladders[1] \cap Ladders[2] = {} /\ Buttons = Ladders[1] \cup Ladders[2] /\ NoButton \notin Buttons
  BY NotesAssumption DEF Buttons
<1>4. /\ held[1] \in Buttons \cup {NoButton} /\ held[2] \in Buttons \cup {NoButton}
      /\ r[1] \in Buttons \cup {NoButton} /\ r[2] \in Buttons \cup {NoButton}
  BY <1>2, <1>3
<1>5. /\ E1 \in Seq([button : Buttons, down : BOOLEAN]) /\ E2 \in Seq([button : Buttons, down : BOOLEAN])
  BY <1>4, EdgesTyped
<1>6. EdgeList(E1, held[1], r[1])
  BY <1>4, EdgesList
<1>7. EdgeList(E2, held[2], r[2])
  BY <1>4, EdgesList
<1>8. /\ evt' = E1 \o E2 /\ Len(E1 \o E2) = Len(E1) + Len(E2)
      /\ \A i \in 1 .. Len(E1) + Len(E2) :
            (E1 \o E2)[i] = IF i <= Len(E1) THEN E1[i] ELSE E2[i - Len(E1)]
  BY <1>1, <1>5, ConcatProperties
<1> DEFINE n1 == Len(E1)
           n2 == Len(E2)
<1>9. /\ Len(evt') = n1 + n2 /\ n1 \in Nat /\ n2 \in Nat
      /\ \A i \in 1 .. n1 : evt'[i] = E1[i]
      /\ \A i \in 1 .. n2 : evt'[n1 + i] = E2[i]
      /\ \A i \in 1 .. n1 + n2 : i \in 1 .. n1 \/ (i - n1 \in 1 .. n2 /\ n1 + (i - n1) = i)
      /\ \A i \in 1 .. n1 : i \in 1 .. n1 + n2
      /\ \A i \in 1 .. n2 : n1 + i \in 1 .. n1 + n2
  <2>1. n1 \in Nat /\ n2 \in Nat
    BY <1>6, <1>7 DEF EdgeList
  <2> HIDE DEF n1, n2
  <2>2. Len(evt') = n1 + n2 /\ \A i \in 1 .. n1 + n2 : evt'[i] = IF i <= n1 THEN E1[i] ELSE E2[i - n1]
    BY <1>8 DEF n1, n2
  <2> HIDE DEF E1, E2
  <2>3. \A i \in 1 .. n1 : i \in 1 .. n1 + n2 /\ i <= n1
    BY <2>1
  <2>4. \A i \in 1 .. n2 : n1 + i \in 1 .. n1 + n2 /\ ~(n1 + i <= n1) /\ n1 + i - n1 = i
    BY <2>1
  <2>5. \A i \in 1 .. n1 + n2 : i \in 1 .. n1 \/ (i - n1 \in 1 .. n2 /\ n1 + (i - n1) = i)
    BY <2>1
  <2> QED
    BY <2>1, <2>2, <2>3, <2>4, <2>5
<1> HIDE DEF E1, E2
\* The edges of one ladder or the other.
<1>10. \A i \in 1 .. n1 : /\ evt'[i].button \in Ladders[1] /\ evt'[i].button \in {held[1], r[1]}
                          /\ evt'[i].down <=> evt'[i].button = r[1]
                          /\ \A j \in 1 .. n1 : evt'[i].button = evt'[j].button => i = j
                          /\ held[1] # r[1]
  BY <1>2, <1>6, <1>9 DEF EdgeList
<1>11. \A i \in 1 .. n2 : /\ evt'[n1 + i].button \in Ladders[2] /\ evt'[n1 + i].button \in {held[2], r[2]}
                          /\ evt'[n1 + i].down <=> evt'[n1 + i].button = r[2]
                          /\ evt'[n1 + i].down => i = n2
                          /\ \A j \in 1 .. n2 : evt'[n1 + i].button = evt'[n1 + j].button => i = j
                          /\ held[2] # r[2]
  <2>1. \A i \in 1 .. n2 : /\ E2[i].button \in Ladders[2] /\ E2[i].button \in {held[2], r[2]}
                           /\ E2[i].down <=> E2[i].button = r[2]
                           /\ E2[i].down => i = n2
                           /\ \A j \in 1 .. n2 : E2[i].button = E2[j].button => i = j
                           /\ held[2] # r[2]
    BY <1>2, <1>7 DEF EdgeList
  <2>2. \A i \in 1 .. n2 : evt'[n1 + i] = E2[i]
    BY <1>9
  <2> HIDE DEF n1, n2
  <2> QED
    BY <2>1, <2>2
<1> HIDE DEF n1, n2
<1>12. ASSUME NEW i \in 1 .. Len(evt')
       PROVE  /\ evt'[i].down <=> evt'[i].button \in Range(held')
              /\ \A j \in 1 .. Len(evt') : evt'[i].button = evt'[j].button => i = j
              /\ evt'[i].down /\ evt'[i].button \in Ladders[2] => i = Len(evt')
  <2>1. CASE i \in 1 .. n1
    <3>1. evt'[i].button # r[2] /\ evt'[i].button \notin Ladders[2] /\ evt'[i].button \in Ladders[1]
      BY <1>2, <1>3, <1>10, <2>1
    <3>2. evt'[i].down <=> evt'[i].button \in Range(held')
      BY <1>2, <1>10, <2>1, <3>1
    <3>3. ASSUME NEW j \in 1 .. Len(evt'), evt'[i].button = evt'[j].button PROVE i = j
      <4>1. j \in 1 .. n1 \/ (j - n1 \in 1 .. n2 /\ n1 + (j - n1) = j)
        BY <1>9
      <4>2. CASE j \in 1 .. n1
        BY <1>10, <2>1, <3>3, <4>2
      <4>3. CASE j - n1 \in 1 .. n2 /\ n1 + (j - n1) = j
        <5>1. evt'[n1 + (j - n1)].button \in Ladders[2]
          BY <1>11, <4>3
        <5> QED
          BY <3>1, <3>3, <4>3, <5>1
      <4> QED
        BY <4>1, <4>2, <4>3
    <3> QED
      BY <3>1, <3>2, <3>3
  <2>2. CASE i - n1 \in 1 .. n2 /\ n1 + (i - n1) = i
    <3> DEFINE k == i - n1
    <3>0. k \in 1 .. n2 /\ n1 + k = i
      BY <2>2
    <3> HIDE DEF k
    <3>1. /\ evt'[i].button \in Ladders[2] /\ evt'[i].button \in {held[2], r[2]}
          /\ evt'[i].down <=> evt'[i].button = r[2]
          /\ evt'[i].down => k = n2
          /\ \A j \in 1 .. n2 : evt'[i].button = evt'[n1 + j].button => k = j
      BY <1>11, <3>0
    <3>2. evt'[i].button # r[1] /\ evt'[i].button \notin Ladders[1]
      BY <1>2, <1>3, <3>1
    <3>3. evt'[i].down <=> evt'[i].button \in Range(held')
      BY <1>2, <3>1, <3>2
    <3>4. ASSUME NEW j \in 1 .. Len(evt'), evt'[i].button = evt'[j].button PROVE i = j
      <4>1. j \in 1 .. n1 \/ (j - n1 \in 1 .. n2 /\ n1 + (j - n1) = j)
        BY <1>9
      <4>2. CASE j \in 1 .. n1
        <5>1. evt'[j].button \in Ladders[1]
          BY <1>10, <4>2
        <5> QED
          BY <3>2, <3>4, <5>1
      <4>3. CASE j - n1 \in 1 .. n2 /\ n1 + (j - n1) = j
        <5>1. k = j - n1
          BY <3>1, <3>4, <4>3
        <5> QED
          BY <3>0, <4>3, <5>1
      <4> QED
        BY <4>1, <4>2, <4>3
    <3>5. evt'[i].down => i = Len(evt')
      BY <1>9, <3>0, <3>1
    <3> QED
      BY <3>3, <3>4, <3>5
  <2> QED
    BY <1>9, <2>1, <2>2
<1>13. EdgesInv'
  <2>1. pc' = "route"
    BY DEF Scan
  <2> QED
    BY <1>12, <2>1 DEF EdgesInv
<1>14. ~EdgeOf(NoButton) /\ \A c : ~EdgeOf(c)
  <2>1. evt = <<>>
    BY DEF Scan, EdgesInv
  <2>2. 1 .. Len(evt) = {}
    BY <2>1
  <2> QED
    BY <2>2 DEF EdgeOf
<1>15. \A c \in Buttons : EdgeOf(c)' <=> \/ held[1] # r[1] /\ c \in {held[1], r[1]}
                                         \/ held[2] # r[2] /\ c \in {held[2], r[2]}
  <2> SUFFICES ASSUME NEW c \in Buttons
               PROVE  EdgeOf(c)' <=> \/ held[1] # r[1] /\ c \in {held[1], r[1]}
                                     \/ held[2] # r[2] /\ c \in {held[2], r[2]}
    OBVIOUS
  <2>1. EdgeOf(c)' <=> \E i \in 1 .. Len(evt') : evt'[i].button = c
    BY DEF EdgeOf
  <2>2. EdgeOf(c)' => \/ held[1] # r[1] /\ c \in {held[1], r[1]}
                      \/ held[2] # r[2] /\ c \in {held[2], r[2]}
    <3> SUFFICES ASSUME NEW i \in 1 .. n1 + n2, evt'[i].button = c
                 PROVE  \/ held[1] # r[1] /\ c \in {held[1], r[1]}
                        \/ held[2] # r[2] /\ c \in {held[2], r[2]}
      BY <1>9, <2>1
    <3>1. CASE i \in 1 .. n1
      BY <1>10, <3>1
    <3>2. CASE i - n1 \in 1 .. n2 /\ n1 + (i - n1) = i
      <4>1. evt'[n1 + (i - n1)].button \in {held[2], r[2]} /\ held[2] # r[2]
        BY <1>11, <3>2
      <4> QED
        BY <3>2, <4>1
    <3> QED
      BY <1>9, <3>1, <3>2
  <2>3. ASSUME held[1] # r[1], c \in {held[1], r[1]} PROVE EdgeOf(c)'
    <3>1. PICK i \in 1 .. n1 : E1[i].button = c
      BY <1>3, <1>6, <2>3 DEF n1, EdgeList
    <3> QED
      BY <1>9, <2>1, <3>1
  <2>4. ASSUME held[2] # r[2], c \in {held[2], r[2]} PROVE EdgeOf(c)'
    <3>1. PICK i \in 1 .. n2 : E2[i].button = c
      BY <1>3, <1>7, <2>4 DEF n2, EdgeList
    <3> QED
      BY <1>9, <2>1, <3>1
  <2> QED
    BY <2>2, <2>3, <2>4
<1>16. /\ Touched \subseteq Buttons
       /\ \A c \in Buttons : c \in Touched <=> (c \in Range(held) <=> ~EdgeOf(c))
  BY TouchedIff
<1>17. /\ Touched' \subseteq Buttons
       /\ \A c \in Buttons : c \in Touched' <=> (c \in Range(held') <=> ~EdgeOf(c)')
  <2>1. (TypeOK /\ EdgesInv =>
           /\ Touched \subseteq Buttons
           /\ \A c \in Buttons : c \in Touched <=> (c \in Range(held) <=> ~EdgeOf(c)))'
    BY TouchedIff, PTL
  <2> QED
    BY <1>13, <2>1
<1>18. ASSUME NEW c \in Buttons PROVE c \in Touched <=> c \in Touched'
  <2>1. c \in Touched <=> c \in {held[1], held[2]}
    BY <1>2, <1>14, <1>16
  <2>2. c \in Touched' <=> (c \in {r[1], r[2]} <=> ~EdgeOf(c)')
    BY <1>2, <1>17
  <2>3. CASE c \in Ladders[1]
    <3>1. c # held[2] /\ c # r[2]
      BY <1>2, <1>3, <2>3
    <3>2. EdgeOf(c)' <=> held[1] # r[1] /\ c \in {held[1], r[1]}
      BY <1>15, <3>1
    <3> QED
      BY <2>1, <2>2, <3>1, <3>2
  <2>4. CASE c \in Ladders[2]
    <3>1. c # held[1] /\ c # r[1]
      BY <1>2, <1>3, <2>4
    <3>2. EdgeOf(c)' <=> held[2] # r[2] /\ c \in {held[2], r[2]}
      BY <1>15, <3>1
    <3> QED
      BY <2>1, <2>2, <3>1, <3>2
  <2> QED
    BY <1>3, <2>3, <2>4
<1> QED
  BY <1>13, <1>16, <1>17, <1>18


-----------------------------------------------------------------------------
(* Where the tick is, and the keys the host sees.                          *)

PlaceInv ==
    /\ pad = Pad[seen]
    /\ combo \subseteq Touched
    /\ pc = "scan" => slot = seen
    /\ pc = "route" /\ evt # <<>> => layer_now = layer

\* The keys down are those of the buttons down, but for those on their own.
KeysInv == keys \subseteq lost \cup (IF Mode(slot) = "keyboard" THEN Down ELSE {})

LEMMA HandStill ==
    ASSUME UNCHANGED hand
    PROVE  Touched' = Touched /\ held' = held /\ evt' = evt /\ \A c : EdgeOf(c)' <=> EdgeOf(c)
  BY DEF hand, Touched, EdgeOf

LEMMA EdgesStill ==
    ASSUME EdgesInv, UNCHANGED hand, evt = <<>> PROVE EdgesInv'
<1>1. evt' = <<>> /\ held' = held
  BY DEF hand
<1>2. 1 .. Len(evt') = {}
  BY <1>1
<1> QED
  BY <1>1, <1>2 DEF EdgesInv

LEMMA TouchedAtRest ==
    ASSUME TypeOK, EdgesInv, evt = <<>>
    PROVE  Touched = Range(held) \ {NoButton} /\ \A c : ~EdgeOf(c)
<1>1. 1 .. Len(evt) = {}
  OBVIOUS
<1>2. \A c : ~EdgeOf(c)
  BY <1>1 DEF EdgeOf
<1>3. NoButton \notin Buttons /\ Range(held) \subseteq Buttons \cup {NoButton}
  BY HeldTyped, NotesAssumption
<1> QED
  BY <1>2, <1>3, TouchedIff

LEMMA PlaceInit == Init => EdgesInv /\ PlaceInv /\ KeysInv
<1> SUFFICES ASSUME Init PROVE EdgesInv /\ PlaceInv /\ KeysInv
  OBVIOUS
<1>1. evt = <<>> /\ 1 .. Len(evt) = {}
  BY DEF Init
<1>2. EdgesInv
  BY <1>1 DEF EdgesInv
<1> QED
  BY <1>1, <1>2 DEF Init, PlaceInv, KeysInv

\* The edge of a button, whoever takes it.
LEMMA EdgesOfRoute ==
    ASSUME TypeOK, TypeOK', EdgesInv, NEW b \in Buttons, Route(b)
    PROVE  EdgesInv'
<1>1. Routing(b, TRUE) \/ Routing(b, FALSE)
  BY DEF Route, ComboMode, ComboProfile, ComboLayer, ComboOther, ComboPress, ComboRelease,
         ChordPress, ChordRelease, TapPad, Key, Mute, Note, Toggle, Switch, Midi, Plain, Passed
<1> QED
  BY <1>1, RoutingEdges

LEMMA EdgesStep ==
    ASSUME TypeOK, TypeOK', EdgesInv, [Next]_vars
    PROVE  EdgesInv'
<1>1. CASE UNCHANGED vars
  <2>1. UNCHANGED <<pc, evt, held>>
    BY <1>1 DEF vars
  <2> QED
    BY <2>1 DEF EdgesInv
<1>2. CASE Drain \/ Poll \/ Detect
  <2>1. UNCHANGED hand /\ evt = <<>>
    BY <1>2 DEF Drain, Poll, Detect, EdgesInv
  <2> QED
    BY <2>1, EdgesStill
<1>3. CASE EndTick
  BY <1>3, EdgesStill DEF EndTick
<1>4. CASE Scan
  BY <1>4, ScanEdges
<1> QED
  BY <1>1, <1>2, <1>3, <1>4, EdgesOfRoute DEF Next

LEMMA PassedPlace ==
    ASSUME TypeOK, TypeOK', EdgesInv, PlaceInv, NEW b \in Buttons, NEW down \in BOOLEAN,
           Passed(b, down), UNCHANGED seen
    PROVE  PlaceInv'
<1>1. Routing(b, down)
  BY DEF Passed
<1>2. /\ down => Touched' = Touched \cup {b}
      /\ ~down => Touched' = Touched \ {b} /\ b \notin combo
  BY <1>1, RoutingEdges DEF Passed
<1>3. UNCHANGED <<layer, layer_now, combo, pad, pc>> /\ pc = "route" /\ evt # <<>>
  BY <1>1 DEF Passed, Routing
<1> QED
  BY <1>2, <1>3 DEF PlaceInv

LEMMA PlaceOfRoute ==
    ASSUME TypeOK, TypeOK', EdgesInv, PlaceInv, NEW b \in Buttons, Route(b)
    PROVE  PlaceInv'
<1>1. CASE ComboMode(b) \/ ComboProfile(b) \/ ComboLayer(b) \/ ComboOther(b)
  <2>1. ComboPress(b) /\ Routing(b, TRUE)
    BY <1>1 DEF ComboMode, ComboProfile, ComboLayer, ComboOther, ComboPress
  <2>2. Touched' = Touched \cup {b} /\ (b \in Ladders[2] => evt' = <<>>)
    BY <2>1, RoutingEdges
  <2>3. /\ combo' = combo \cup {b} /\ UNCHANGED <<layer_now, pc>> /\ pc = "route" /\ evt # <<>>
    BY <2>1 DEF ComboPress, Routing
  <2>4. pad' = Pad[seen']
    BY <1>1 DEF ComboMode, ComboProfile, ComboLayer, ComboOther, PlaceInv
  <2>5. evt' # <<>> => layer' = layer
    BY <1>1, <2>2, NotesAssumption DEF ComboMode, ComboProfile, ComboLayer, ComboOther
  <2> QED
    BY <2>2, <2>3, <2>4, <2>5 DEF PlaceInv
<1>2. CASE ComboRelease(b)
  <2>1. Routing(b, FALSE)
    BY <1>2 DEF ComboRelease
  <2>2. Touched' = Touched \ {b}
    BY <2>1, RoutingEdges
  <2>3. UNCHANGED <<layer_now, pc>> /\ pc = "route" /\ evt # <<>>
    BY <2>1 DEF Routing
  <2> QED
    BY <1>2, <2>2, <2>3 DEF PlaceInv, ComboRelease
<1>3. CASE ChordPress(b)
  BY <1>3, PassedPlace DEF ChordPress, Midi, Plain
<1>4. CASE ChordRelease(b)
  BY <1>4, PassedPlace DEF ChordRelease, Midi, Plain
<1>5. ASSUME NEW down \in BOOLEAN,
             TapPad(b, down) \/ Key(b, down) \/ Mute(b, down) \/ Note(b, down)
               \/ Toggle(b, down) \/ Switch(b, down)
      PROVE  PlaceInv'
  <2>1. Passed(b, down) /\ UNCHANGED seen
    BY <1>5 DEF TapPad, Key, Mute, Note, Toggle, Switch, Midi, Plain
  <2> QED
    BY <2>1, PassedPlace
<1> QED
  BY <1>1, <1>2, <1>3, <1>4, <1>5 DEF Route

LEMMA PlaceStep ==
    ASSUME TypeOK, TypeOK', EdgesInv, PlaceInv, [Next]_vars
    PROVE  PlaceInv'
<1>1. CASE UNCHANGED vars
  <2>1. UNCHANGED <<pad, seen, combo, slot, layer, layer_now, pc, hand>>
    BY <1>1 DEF vars, hand
  <2>2. Touched' = Touched /\ evt' = evt
    BY <2>1, HandStill
  <2> QED
    BY <2>1, <2>2 DEF PlaceInv
<1>2. CASE Drain \/ Poll \/ Detect \/ EndTick
  <2>1. UNCHANGED hand
    BY <1>2 DEF Drain, Poll, Detect, EndTick
  <2>2. Touched' = Touched
    BY <2>1, HandStill
  <2> QED
    BY <1>2, <2>2 DEF Drain, Poll, Detect, EndTick, PlaceInv
<1>3. CASE Scan
  BY <1>3, ScanEdges DEF Scan, PlaceInv
<1> QED
  BY <1>1, <1>2, <1>3, PlaceOfRoute DEF Next


LEMMA DownIs == Down = Touched \ (combo \cup {pad})
  BY DEF Down, Touched

\* What a combo takes is not down, and neither is the tap pad.
LEMMA DownUnderCombo ==
    ASSUME TypeOK, TypeOK', EdgesInv, PlaceInv, NEW b \in Buttons,
           ComboPress(b) \/ ComboRelease(b) \/ (\E down \in BOOLEAN : TapPad(b, down)),
           UNCHANGED pad
    PROVE  Down' = Down
<1>0. Down = Touched \ (combo \cup {pad}) /\ Down' = Touched' \ (combo' \cup {pad'})
  <2>1. (Down = Touched \ (combo \cup {pad}))'
    BY DownIs, PTL
  <2> QED
    BY <2>1, DownIs
<1>1. CASE ComboPress(b)
  <2>1. Touched' = Touched \cup {b} /\ b \notin Touched
    BY <1>1, RoutingEdges DEF ComboPress
  <2> QED
    BY <1>0, <1>1, <2>1 DEF ComboPress
<1>2. CASE ComboRelease(b)
  <2>1. Touched' = Touched \ {b}
    BY <1>2, RoutingEdges DEF ComboRelease
  <2> QED
    BY <1>0, <1>2, <2>1 DEF ComboRelease
<1>3. ASSUME NEW down \in BOOLEAN, TapPad(b, down) PROVE Down' = Down
  <2>1. Touched' \cup {b} = Touched \cup {b}
    BY <1>3, RoutingEdges DEF TapPad, Passed
  <2>2. combo' = combo /\ b = pad
    BY <1>3 DEF TapPad, Passed
  <2> QED
    BY <1>0, <2>1, <2>2
<1> QED
  BY <1>1, <1>2, <1>3

LEMMA DownUnderPlain ==
    ASSUME TypeOK, TypeOK', EdgesInv, PlaceInv, NEW b \in Buttons, NEW down \in BOOLEAN,
           Plain(b, down)
    PROVE  /\ down => b \notin Touched /\ b \notin Down /\ Down' = Down \cup {b}
           /\ ~down => b \in Down /\ Down' = Down \ {b}
<1>0. Down = Touched \ (combo \cup {pad}) /\ Down' = Touched' \ (combo' \cup {pad'})
  <2>1. (Down = Touched \ (combo \cup {pad}))'
    BY DownIs, PTL
  <2> QED
    BY <2>1, DownIs
<1>1. combo' = combo /\ pad' = pad /\ b # pad /\ (~down => b \notin combo)
  BY DEF Plain, Passed
<1>2. /\ down => b \notin Touched /\ Touched' = Touched \cup {b}
      /\ ~down => b \in Touched /\ Touched' = Touched \ {b}
  BY RoutingEdges DEF Plain, Passed
<1>3. combo \subseteq Touched
  BY DEF PlaceInv
<1> QED
  BY <1>0, <1>1, <1>2, <1>3

\* Nothing changes who is down while the hand rests.
LEMMA DownStill ==
    ASSUME UNCHANGED <<hand, combo, pad>> PROVE Down' = Down
<1>1. held' = held /\ evt' = evt /\ combo' = combo /\ pad' = pad
  BY DEF hand
<1> QED
  BY <1>1 DEF Down

LEMMA DownUnderScan ==
    ASSUME TypeOK, TypeOK', EdgesInv, Scan PROVE Down' = Down
<1>1. (Down = Touched \ (combo \cup {pad}))'
  BY DownIs, PTL
<1> QED
  BY <1>1, DownIs, ScanEdges DEF Scan

LEMMA KeysOfRoute ==
    ASSUME TypeOK, TypeOK', EdgesInv, PlaceInv, KeysInv, NEW b \in Buttons, Route(b)
    PROVE  KeysInv'
<1>1. CASE ComboMode(b)
  BY <1>1 DEF ComboMode, KeysInv
<1>2. CASE ComboProfile(b) \/ ComboLayer(b) \/ ComboOther(b) \/ ComboRelease(b)
  <2>1. UNCHANGED <<pad, keys>> /\ Mode(slot') = Mode(slot) /\ Aftermath(FALSE)
    BY <1>2 DEF ComboProfile, ComboLayer, ComboOther, ComboRelease
  <2>2. Down' = Down
    BY <1>2, <2>1, DownUnderCombo DEF ComboProfile, ComboLayer, ComboOther
  <2> QED
    BY <2>1, <2>2 DEF KeysInv, Aftermath, Mode
<1>3. ASSUME NEW down \in BOOLEAN, TapPad(b, down) PROVE KeysInv'
  <2>1. UNCHANGED <<pad, keys, slot>> /\ Aftermath(FALSE)
    BY <1>3 DEF TapPad, Passed
  <2>2. Down' = Down
    BY <1>3, <2>1, DownUnderCombo
  <2> QED
    BY <2>1, <2>2 DEF KeysInv, Aftermath, Mode
<1>4. ASSUME NEW down \in BOOLEAN, Key(b, down) PROVE KeysInv'
  <2>1. /\ Mode(slot) = "keyboard" /\ slot' = slot /\ lost' = keys' \cap lost
        /\ keys' = IF down THEN keys \cup {b} ELSE keys \ {b}
    BY <1>4 DEF Key, Aftermath
  <2>2. /\ down => Down' = Down \cup {b}
        /\ ~down => Down' = Down \ {b}
    BY <1>4, DownUnderPlain DEF Key
  <2> QED
    BY <2>1, <2>2 DEF KeysInv, Mode
<1>5. ASSUME NEW down \in BOOLEAN, NEW kind, Midi(b, down, kind), Aftermath(FALSE),
             Mode(slot') = Mode(slot)
      PROVE  KeysInv'
  <2>1. Mode(slot) = "midi" /\ keys' = keys /\ lost' = keys' \cap lost
    BY <1>5 DEF Midi, Aftermath
  <2> QED
    BY <1>5, <2>1 DEF KeysInv, Mode
<1>6. CASE ChordPress(b)
  BY <1>5, <1>6 DEF ChordPress, Mode
<1>7. CASE ChordRelease(b)
  BY <1>5, <1>7 DEF ChordRelease, Mode
<1>8. ASSUME NEW down \in BOOLEAN,
             Mute(b, down) \/ Note(b, down) \/ Toggle(b, down) \/ Switch(b, down)
      PROVE  KeysInv'
  <2>1. Aftermath(FALSE) /\ Mode(slot') = Mode(slot)
    BY <1>8 DEF Mute, Note, Toggle, Switch, Mode
  <2>2. \E kind : Midi(b, down, kind)
    BY <1>8 DEF Mute, Note, Toggle, Switch
  <2> QED
    BY <1>5, <2>1, <2>2
<1> QED
  BY <1>1, <1>2, <1>3, <1>4, <1>6, <1>7, <1>8 DEF Route

LEMMA KeysStep ==
    ASSUME TypeOK, TypeOK', EdgesInv, PlaceInv, KeysInv, [Next]_vars
    PROVE  KeysInv'
<1>1. CASE UNCHANGED vars
  <2>1. UNCHANGED <<keys, lost, slot, hand, combo, pad>>
    BY <1>1 DEF vars, hand
  <2>2. Down' = Down
    BY <2>1, DownStill
  <2> QED
    BY <2>1, <2>2 DEF KeysInv, Mode
<1>2. CASE Drain \/ EndTick
  <2>1. UNCHANGED <<keys, slot, hand, combo, pad>> /\ Aftermath(FALSE)
    BY <1>2 DEF Drain, EndTick
  <2>2. Down' = Down
    BY <2>1, DownStill
  <2> QED
    BY <2>1, <2>2 DEF KeysInv, Mode, Aftermath
<1>3. CASE Poll
  <2>1. UNCHANGED <<keys, hand, combo, pad>> /\ Aftermath(Mode(slot') # Mode(slot))
    BY <1>3 DEF Poll
  <2>2. Down' = Down
    BY <2>1, DownStill
  <2> QED
    BY <2>1, <2>2 DEF KeysInv, Mode, Aftermath
<1>4. CASE Detect
  <2>1. UNCHANGED <<keys, slot, hand, combo>> /\ Aftermath(pad' # pad)
    BY <1>4 DEF Detect
  <2>2. pad' = pad => Down' = Down
    BY <2>1, DownStill
  <2> QED
    BY <2>1, <2>2 DEF KeysInv, Mode, Aftermath
<1>5. CASE Scan
  <2>1. UNCHANGED <<keys, slot>> /\ Aftermath(FALSE)
    BY <1>5 DEF Scan
  <2>2. Down' = Down
    BY <1>5, DownUnderScan
  <2> QED
    BY <2>1, <2>2 DEF KeysInv, Mode, Aftermath
<1> QED
  BY <1>1, <1>2, <1>3, <1>4, <1>5, KeysOfRoute DEF Next

\* The HID host sees no key whose button is not down, but for those that were
\* down when the host flipped the mode or the tap pad became another.
THEOREM NoPhantoms == Spec => []NoPhantomKeys
<1> DEFINE I == EdgesInv /\ PlaceInv /\ KeysInv
<1>1. Init => I
  BY PlaceInit
<1>2. TypeOK /\ TypeOK' /\ I /\ [Next]_vars => I'
  BY EdgesStep, PlaceStep, KeysStep
<1>3. TypeOK /\ I => NoPhantomKeys
  <2> SUFFICES ASSUME TypeOK, I, pc = "top" PROVE keys \subseteq Range(held) \cup lost
    BY DEF NoPhantomKeys
  <2>1. Touched = Range(held) \ {NoButton}
    BY TouchedAtRest DEF EdgesInv
  <2> QED
    BY <2>1, DownIs DEF KeysInv
<1> QED
  BY <1>1, <1>2, <1>3, NotesTypeCorrect, PTL DEF Spec


-----------------------------------------------------------------------------
(* The chords that are latched.                                            *)

Noticed == slot = seen /\ ~unnoticed

\* A chord is latched on the layer the buttons play, and unless a change of
\* profile went unnoticed its button is down and it is the chord of that button.
LatchInv ==
    \A b \in Buttons : chord[b] # <<>> =>
        /\ pressed[b] = layer
        /\ Noticed => b \in DownAs("chord") /\ chord[b] = Chord[<<slot, layer, b>>]

\* A chord without its button is of a button that plays no chord in the profile
\* last seen.
StaleInv ==
    \A b \in Buttons : chord[b] # <<>> /\ b \notin Down /\ b # pad =>
        Mode(seen) # "midi" \/ Kind[<<seen, layer, b>>] # "chord"

\* While edges are routed after a change of profile, none is of a latched chord.
LateInv ==
    pc = "route" /\ evt # <<>> /\ slot # seen =>
        \A b \in Buttons : chord[b] # <<>> => b \in Touched /\ ~EdgeOf(b)

\* The notes a button plays in some profile and layer.
PlayedBy(b) == {n \in Notes : \E p \in Played : p[3] = b /\ n \in Range(Chord[p])}

ChordsInv == \A b \in Buttons : Range(chord[b]) \subseteq PlayedBy(b)

LatchesInv == LatchInv /\ StaleInv /\ LateInv /\ ChordsInv

LEMMA Silenced ==
    ASSUME chord' = Silent PROVE LatchesInv'
<1>1. \A b \in Buttons : chord'[b] = <<>>
  BY DEF Silent
<1>2. Range(<<>>) = {}
  BY DEF Range
<1> QED
  BY <1>1, <1>2 DEF LatchesInv, LatchInv, StaleInv, LateInv, ChordsInv

LEMMA LatchInit == Init => LatchesInv
<1> SUFFICES ASSUME Init PROVE LatchesInv
  OBVIOUS
<1>1. \A b \in Buttons : chord[b] = <<>>
  BY DEF Silent, Init
<1>2. Range(<<>>) = {}
  BY DEF Range
<1> QED
  BY <1>1, <1>2 DEF LatchesInv, LatchInv, StaleInv, LateInv, ChordsInv

\* With a chord latched, what is noticed after a step was before.
LEMMA NoticedBefore ==
    ASSUME NEW o, Aftermath(o), UNCHANGED seen, NEW b \in Buttons, chord'[b] # <<>>, Noticed'
    PROVE  Noticed /\ slot' = slot
<1>1. chord' # Silent
  BY DEF Silent
<1>2. slot' = seen /\ ~unnoticed'
  BY DEF Noticed
<1>3. ~(unnoticed \/ (slot # seen /\ slot' = seen))
  BY <1>1, <1>2 DEF Aftermath
<1> QED
  BY <1>2, <1>3 DEF Noticed

\* A step that changes nobody's chord, layer or being down.
LEMMA LatchStill ==
    ASSUME LatchInv, StaleInv, ChordsInv, UNCHANGED <<chord, seen, layer, pressed, pad>>, Down' = Down,
           NEW o, Aftermath(o)
    PROVE  LatchInv' /\ StaleInv' /\ ChordsInv'
<1>1. ASSUME NEW b \in Buttons, chord'[b] # <<>>
      PROVE  /\ pressed'[b] = layer'
             /\ Noticed' => b \in DownAs("chord")' /\ chord'[b] = Chord[<<slot', layer', b>>]
  <2>1. Noticed' => Noticed /\ slot' = slot
    BY <1>1, NoticedBefore
  <2>2. pressed[b] = layer /\ (Noticed => b \in DownAs("chord") /\ chord[b] = Chord[<<slot, layer, b>>])
    BY <1>1 DEF LatchInv
  <2>3. slot' = slot => DownAs("chord")' = DownAs("chord")
    BY DEF DownAs, Mode
  <2> QED
    BY <2>1, <2>2, <2>3
<1>2. LatchInv'
  BY <1>1 DEF LatchInv
<1>3. StaleInv'
  BY DEF StaleInv, Mode
<1>4. ChordsInv'
  BY DEF ChordsInv
<1> QED
  BY <1>2, <1>3, <1>4

\* An edge that another button than a late chord's takes.
LEMMA LateStill ==
    ASSUME TypeOK, TypeOK', EdgesInv, LateInv, NEW b \in Buttons, NEW down \in BOOLEAN,
           Routing(b, down), UNCHANGED <<slot, seen>>,
           \A c \in Buttons : chord'[c] # <<>> => chord[c] # <<>> \/ (c = b /\ down)
    PROVE  LateInv'
<1> SUFFICES ASSUME slot # seen, NEW c \in Buttons, chord'[c] # <<>>
             PROVE  c \in Touched' /\ ~EdgeOf(c)'
  BY DEF LateInv
<1>1. pc = "route" /\ evt # <<>>
  BY DEF Routing
<1>2. /\ down => Touched' = Touched \cup {b}
      /\ ~down => Touched' = Touched \ {b}
      /\ EdgeOf(b) /\ ~EdgeOf(b)'
      /\ \A x : EdgeOf(x)' => EdgeOf(x)
  BY RoutingEdges
<1>3. CASE chord[c] # <<>>
  <2>1. c \in Touched /\ ~EdgeOf(c)
    BY <1>1, <1>3 DEF LateInv
  <2>2. c # b
    BY <1>2, <2>1
  <2> QED
    BY <1>2, <2>1, <2>2
<1>4. CASE c = b /\ down
  BY <1>2, <1>4
<1> QED
  BY <1>3, <1>4

\* An edge of a button that does not play a chord.
LEMMA LatchUnderPlain ==
    ASSUME TypeOK, TypeOK', EdgesInv, PlaceInv, LatchesInv, NEW b \in Buttons, NEW down \in BOOLEAN,
           Plain(b, down), UNCHANGED <<chord, slot, seen>>, NEW o, Aftermath(o),
           Mode(slot) # "midi" \/ Kind[<<slot, EmitLayer(b, down), b>>] # "chord"
    PROVE  LatchesInv'
<1>0. Routing(b, down) /\ UNCHANGED <<layer, combo, pad>>
  BY DEF Plain, Passed
<1>1. layer_now = layer
  BY <1>0 DEF PlaceInv, Routing
<1>2. /\ down => b \notin Down /\ Down' = Down \cup {b}
      /\ ~down => b \in Down /\ Down' = Down \ {b}
  BY DownUnderPlain
<1>3. \A c \in Buttons : pressed'[c] = IF c = b /\ down THEN layer ELSE pressed[c]
  BY <1>1 DEF Plain, TypeOK
<1>4. ASSUME NEW c \in Buttons, chord'[c] # <<>>
      PROVE  /\ pressed'[c] = layer'
             /\ Noticed' => c \in DownAs("chord")' /\ chord'[c] = Chord[<<slot', layer', c>>]
  <2>1. pressed[c] = layer /\ (Noticed => c \in DownAs("chord") /\ chord[c] = Chord[<<slot, layer, c>>])
    BY <1>4 DEF LatchesInv, LatchInv
  <2>2. pressed'[c] = layer'
    BY <1>0, <1>3, <2>1
  <2>3. ASSUME Noticed' PROVE c \in DownAs("chord")' /\ chord'[c] = Chord[<<slot', layer', c>>]
    <3>1. Noticed
      BY <1>4, <2>3, NoticedBefore
    <3>2. c \in Down /\ Mode(slot) = "midi" /\ Kind[<<slot, pressed[c], c>>] = "chord"
      BY <2>1, <3>1 DEF DownAs
    <3>3. c # b
      BY <1>2, <3>2 DEF EmitLayer
    <3>4. c \in Down' /\ pressed'[c] = pressed[c] /\ Mode(slot') = "midi"
      BY <1>2, <1>3, <3>2, <3>3 DEF Mode
    <3>5. c \in DownAs("chord")'
      BY <3>2, <3>4 DEF DownAs
    <3> QED
      BY <1>0, <2>1, <3>1, <3>5
  <2> QED
    BY <2>2, <2>3
<1>5. LatchInv'
  BY <1>4 DEF LatchInv
<1>6. ASSUME NEW c \in Buttons, chord'[c] # <<>>, c \notin Down', c # pad'
      PROVE  Mode(seen') # "midi" \/ Kind[<<seen', layer', c>>] # "chord"
  <2>1. CASE c # b
    <3>1. c \notin Down
      BY <1>2, <1>6, <2>1
    <3> QED
      BY <1>0, <1>6, <3>1 DEF LatchesInv, StaleInv, Mode
  <2>2. CASE c = b
    <3>1. ~down
      BY <1>2, <1>6, <2>2
    <3>2. slot = seen
      <4>1. EdgeOf(b) /\ pc = "route" /\ evt # <<>>
        BY <1>0, RoutingEdges DEF Routing
      <4> QED
        BY <1>6, <2>2, <4>1 DEF LatchesInv, LateInv
    <3>3. pressed[b] = layer
      BY <1>6, <2>2 DEF LatchesInv, LatchInv
    <3> QED
      BY <1>0, <2>2, <3>1, <3>2, <3>3 DEF EmitLayer, Mode
  <2> QED
    BY <2>1, <2>2
<1>7. StaleInv'
  BY <1>6 DEF StaleInv
<1>8. LateInv'
  BY <1>0, LateStill DEF LatchesInv
<1>9. ChordsInv'
  BY DEF LatchesInv, ChordsInv
<1> QED
  BY <1>5, <1>7, <1>8, <1>9 DEF LatchesInv


\* The press of a chord finds none latched.
LEMMA FreshPress ==
    ASSUME TypeOK, TypeOK', EdgesInv, PlaceInv, LatchesInv, NEW b \in Buttons, ChordPress(b)
    PROVE  chord[b] = <<>> /\ layer_now = layer
<1>1. /\ Plain(b, TRUE) /\ Mode(slot) = "midi" /\ Kind[<<slot, layer_now, b>>] = "chord"
      /\ pc = "route" /\ evt # <<>> /\ b # pad
  BY DEF ChordPress, Midi, EmitLayer, Plain, Passed, Routing
<1>2. layer_now = layer
  BY <1>1 DEF PlaceInv
<1>3. b \notin Touched /\ b \notin Down
  BY <1>1, DownUnderPlain
<1>4. slot # seen => chord[b] = <<>>
  BY <1>1, <1>3 DEF LatchesInv, LateInv
<1>5. slot = seen => chord[b] = <<>>
  BY <1>1, <1>2, <1>3 DEF LatchesInv, StaleInv
<1> QED
  BY <1>2, <1>4, <1>5

LEMMA LatchUnderChordPress ==
    ASSUME TypeOK, TypeOK', EdgesInv, PlaceInv, LatchesInv, NEW b \in Buttons, ChordPress(b)
    PROVE  LatchesInv'
<1> DEFINE ns == Chord[<<slot, layer, b>>]
<1>0. /\ Plain(b, TRUE) /\ Routing(b, TRUE) /\ Mode(slot) = "midi"
      /\ Kind[<<slot, layer, b>>] = "chord"
      /\ UNCHANGED <<slot, seen, layer, combo, pad>> /\ Aftermath(FALSE)
      /\ chord' = [chord EXCEPT ![b] = ns]
  BY FreshPress DEF ChordPress, Midi, EmitLayer, Plain, Passed
<1>1. b \notin Down /\ Down' = Down \cup {b}
  BY <1>0, DownUnderPlain
<1>2. \A c \in Buttons : pressed'[c] = IF c = b THEN layer ELSE pressed[c]
  BY <1>0, FreshPress DEF Plain, TypeOK
<1>3. \A c \in Buttons : chord'[c] = IF c = b THEN ns ELSE chord[c]
  BY <1>0 DEF TypeOK
<1>4. ASSUME NEW c \in Buttons, chord'[c] # <<>>
      PROVE  /\ pressed'[c] = layer'
             /\ Noticed' => c \in DownAs("chord")' /\ chord'[c] = Chord[<<slot', layer', c>>]
  <2>1. CASE c = b
    BY <1>0, <1>1, <1>2, <1>3, <2>1 DEF DownAs, Mode
  <2>2. CASE c # b
    <3>1. pressed[c] = layer /\ (Noticed => c \in DownAs("chord") /\ chord[c] = Chord[<<slot, layer, c>>])
      BY <1>3, <1>4, <2>2 DEF LatchesInv, LatchInv
    <3>2. Noticed' => Noticed
      BY <1>0, <1>4, NoticedBefore
    <3>3. c \in DownAs("chord") => c \in DownAs("chord")'
      BY <1>0, <1>1, <1>2, <2>2 DEF DownAs, Mode
    <3> QED
      BY <1>0, <1>2, <1>3, <2>2, <3>1, <3>2, <3>3
  <2> QED
    BY <2>1, <2>2
<1>5. LatchInv'
  BY <1>4 DEF LatchInv
<1>6. StaleInv'
  <2> SUFFICES ASSUME NEW c \in Buttons, chord'[c] # <<>>, c \notin Down', c # pad'
               PROVE  Mode(seen') # "midi" \/ Kind[<<seen', layer', c>>] # "chord"
    BY DEF StaleInv
  <2>1. c # b /\ chord[c] # <<>> /\ c \notin Down /\ c # pad
    BY <1>0, <1>1, <1>3
  <2> QED
    BY <1>0, <2>1 DEF LatchesInv, StaleInv, Mode
<1>7. LateInv'
  BY <1>0, <1>3, LateStill DEF LatchesInv
<1>8. ChordsInv'
  <2>1. <<slot, layer, b>> \in Played /\ ns \in Seq(Notes)
    BY ChordsTyped DEF TypeOK
  <2>2. \A n \in Range(ns) : n \in Notes
    BY <2>1, RangeIs
  <2>3. <<slot, layer, b>>[3] = b
    OBVIOUS
  <2>4. Range(ns) \subseteq PlayedBy(b)
    BY <2>1, <2>2, <2>3 DEF PlayedBy
  <2> HIDE DEF ns
  <2>5. \A c \in Buttons : Range(chord'[c]) \subseteq PlayedBy(c)
    BY <1>3, <2>4 DEF LatchesInv, ChordsInv
  <2> QED
    BY <2>5 DEF ChordsInv, PlayedBy
<1> QED
  BY <1>5, <1>6, <1>7, <1>8 DEF LatchesInv

LEMMA LatchUnderChordRelease ==
    ASSUME TypeOK, TypeOK', EdgesInv, PlaceInv, LatchesInv, NEW b \in Buttons, ChordRelease(b)
    PROVE  LatchesInv'
<1>0. /\ Plain(b, FALSE) /\ Routing(b, FALSE)
      /\ UNCHANGED <<slot, seen, layer, combo, pad>> /\ Aftermath(FALSE)
      /\ chord' = [chord EXCEPT ![b] = <<>>]
      /\ pressed' = pressed
  BY DEF ChordRelease, Midi, Plain, Passed
<1>1. Down' = Down \ {b}
  BY <1>0, DownUnderPlain
<1>2. \A c \in Buttons : chord'[c] = IF c = b THEN <<>> ELSE chord[c]
  BY <1>0 DEF TypeOK
<1>3. ASSUME NEW c \in Buttons, chord'[c] # <<>>
      PROVE  /\ pressed'[c] = layer'
             /\ Noticed' => c \in DownAs("chord")' /\ chord'[c] = Chord[<<slot', layer', c>>]
  <2>1. c # b /\ chord[c] # <<>>
    BY <1>2, <1>3
  <2>2. pressed[c] = layer /\ (Noticed => c \in DownAs("chord") /\ chord[c] = Chord[<<slot, layer, c>>])
    BY <2>1 DEF LatchesInv, LatchInv
  <2>3. Noticed' => Noticed
    BY <1>0, <1>3, NoticedBefore
  <2>4. c \in DownAs("chord") => c \in DownAs("chord")'
    BY <1>0, <1>1, <2>1 DEF DownAs, Mode
  <2> QED
    BY <1>0, <1>2, <2>1, <2>2, <2>3, <2>4
<1>4. LatchInv'
  BY <1>3 DEF LatchInv
<1>5. StaleInv'
  <2> SUFFICES ASSUME NEW c \in Buttons, chord'[c] # <<>>, c \notin Down', c # pad'
               PROVE  Mode(seen') # "midi" \/ Kind[<<seen', layer', c>>] # "chord"
    BY DEF StaleInv
  <2>1. c # b /\ chord[c] # <<>> /\ c \notin Down /\ c # pad
    BY <1>0, <1>1, <1>2
  <2> QED
    BY <1>0, <2>1 DEF LatchesInv, StaleInv, Mode
<1>6. LateInv'
  BY <1>0, <1>2, LateStill DEF LatchesInv
<1>7. ChordsInv'
  <2>1. Range(<<>>) = {}
    BY DEF Range
  <2>2. \A c \in Buttons : Range(chord'[c]) \subseteq PlayedBy(c)
    BY <1>2, <2>1 DEF LatchesInv, ChordsInv
  <2> QED
    BY <2>2 DEF ChordsInv, PlayedBy
<1> QED
  BY <1>4, <1>5, <1>6, <1>7 DEF LatchesInv

LEMMA LatchOfRoute ==
    ASSUME TypeOK, TypeOK', EdgesInv, PlaceInv, LatchesInv, NEW b \in Buttons, Route(b)
    PROVE  LatchesInv'
<1>1. CASE ComboMode(b) \/ ComboLayer(b)
  BY <1>1, Silenced DEF ComboMode, ComboLayer, Flush
<1>2. CASE ComboProfile(b)
  <2>1. /\ UNCHANGED <<chord, seen, layer, pressed, pad>> /\ Aftermath(FALSE)
        /\ ComboPress(b) /\ Routing(b, TRUE) /\ b \in Ladders[2]
    BY <1>2, NotesAssumption DEF ComboProfile, ComboPress, NoFlush
  <2>2. Down' = Down /\ evt' = <<>>
    BY <2>1, DownUnderCombo, RoutingEdges
  <2>3. LateInv'
    BY <2>2 DEF LateInv
  <2> QED
    BY <2>1, <2>2, <2>3, LatchStill DEF LatchesInv
<1>3. CASE ComboOther(b) \/ ComboRelease(b)
  <2>1. /\ UNCHANGED <<chord, seen, slot, layer, pressed, pad>> /\ Aftermath(FALSE)
        /\ Routing(b, TRUE) \/ Routing(b, FALSE)
    BY <1>3 DEF ComboOther, ComboRelease, ComboPress, NoFlush
  <2>2. Down' = Down
    BY <1>3, <2>1, DownUnderCombo DEF ComboOther
  <2>3. LateInv'
    BY <2>1, LateStill DEF LatchesInv
  <2> QED
    BY <2>1, <2>2, <2>3, LatchStill DEF LatchesInv
<1>4. ASSUME NEW down \in BOOLEAN, TapPad(b, down) PROVE LatchesInv'
  <2>1. /\ UNCHANGED <<chord, seen, slot, layer, pressed, pad>> /\ Aftermath(FALSE)
        /\ Routing(b, down)
    BY <1>4 DEF TapPad, Passed, NoFlush
  <2>2. Down' = Down
    BY <1>4, <2>1, DownUnderCombo
  <2>3. LateInv'
    BY <2>1, LateStill DEF LatchesInv
  <2> QED
    BY <2>1, <2>2, <2>3, LatchStill DEF LatchesInv
<1>5. ASSUME NEW down \in BOOLEAN, Key(b, down) PROVE LatchesInv'
  <2>1. /\ Plain(b, down) /\ UNCHANGED <<chord, slot, seen>> /\ Aftermath(FALSE)
        /\ Mode(slot) # "midi"
    BY <1>5 DEF Key, NoFlush
  <2> QED
    BY <2>1, LatchUnderPlain
<1>6. ASSUME NEW down \in BOOLEAN, Mute(b, down) \/ Note(b, down) \/ Toggle(b, down) PROVE LatchesInv'
  <2>1. /\ Plain(b, down) /\ UNCHANGED <<chord, slot, seen>> /\ Aftermath(FALSE)
        /\ Kind[<<slot, EmitLayer(b, down), b>>] # "chord"
    BY <1>6 DEF Mute, Note, Toggle, Midi, NoFlush
  <2> QED
    BY <2>1, LatchUnderPlain
<1>7. CASE Switch(b, TRUE)
  BY <1>7, Silenced DEF Switch, Flush
<1>8. CASE Switch(b, FALSE)
  <2>1. /\ Plain(b, FALSE) /\ UNCHANGED <<chord, slot, seen>> /\ Aftermath(FALSE)
        /\ Kind[<<slot, EmitLayer(b, FALSE), b>>] # "chord"
    BY <1>8 DEF Switch, Midi, NoFlush
  <2> QED
    BY <2>1, LatchUnderPlain
<1> QED
  BY <1>1, <1>2, <1>3, <1>4, <1>5, <1>6, <1>7, <1>8, LatchUnderChordPress, LatchUnderChordRelease
     DEF Route

LEMMA LatchStep ==
    ASSUME TypeOK, TypeOK', EdgesInv, PlaceInv, LatchesInv, [Next]_vars
    PROVE  LatchesInv'
<1>1. CASE UNCHANGED vars
  <2>1. UNCHANGED <<chord, seen, slot, unnoticed, layer, pressed, hand, combo, pad, pc>>
    BY <1>1 DEF vars, hand
  <2>2. Down' = Down /\ Touched' = Touched /\ evt' = evt /\ \A c : EdgeOf(c)' <=> EdgeOf(c)
    BY <2>1, DownStill, HandStill
  <2>3. LatchInv'
    BY <2>1, <2>2 DEF LatchesInv, LatchInv, DownAs, Noticed, Mode
  <2>4. StaleInv' /\ LateInv' /\ ChordsInv'
    BY <2>1, <2>2 DEF LatchesInv, StaleInv, LateInv, ChordsInv, Mode
  <2> QED
    BY <2>3, <2>4 DEF LatchesInv
<1>2. CASE Drain \/ Poll \/ EndTick
  <2>1. /\ UNCHANGED <<chord, seen, layer, pressed, pad, hand, combo>> /\ (\E o : Aftermath(o))
        /\ pc' # "route"
    BY <1>2 DEF Drain, Poll, EndTick
  <2>2. Down' = Down
    BY <2>1, DownStill
  <2>3. LateInv'
    BY <2>1 DEF LateInv
  <2> QED
    BY <2>1, <2>2, <2>3, LatchStill DEF LatchesInv
<1>3. CASE Detect
  <2>1. CASE Flush
    BY <2>1, Silenced DEF Flush
  <2>2. CASE NoFlush /\ slot = seen
    <3>1. /\ UNCHANGED <<chord, seen, layer, pressed, pad, hand, combo>> /\ (\E o : Aftermath(o))
          /\ pc' # "route"
      BY <1>3, <2>2 DEF Detect, NoFlush, PlaceInv
    <3>2. Down' = Down
      BY <3>1, DownStill
    <3>3. LateInv'
      BY <3>1 DEF LateInv
    <3> QED
      BY <3>1, <3>2, <3>3, LatchStill DEF LatchesInv
  <2> QED
    BY <1>3, <2>1, <2>2 DEF Detect
<1>4. CASE Scan
  <2>1. /\ UNCHANGED <<chord, seen, slot, layer, pressed, pad>> /\ Aftermath(FALSE)
        /\ slot = seen
    BY <1>4 DEF Scan, PlaceInv
  <2>2. Down' = Down
    BY <1>4, DownUnderScan
  <2>3. LateInv'
    BY <2>1 DEF LateInv
  <2> QED
    BY <2>1, <2>2, <2>3, LatchStill DEF LatchesInv
<1> QED
  BY <1>1, <1>2, <1>3, <1>4, LatchOfRoute DEF Next

\* By the scan, a latched chord is the chord its button plays in the profile and
\* on the layer of the moment, unless the profile was left and came back between
\* two looks of the detector.
THEOREM ChordsFollow == Spec => []ChordOfTheProfile
<1> DEFINE I == EdgesInv /\ PlaceInv /\ LatchesInv
<1>1. Init => I
  BY PlaceInit, LatchInit
<1>2. TypeOK /\ TypeOK' /\ I /\ [Next]_vars => I'
  BY EdgesStep, PlaceStep, LatchStep
<1>3. I => ChordOfTheProfile
  BY DEF ChordOfTheProfile, PlaceInv, LatchesInv, LatchInv, Noticed
<1> QED
  BY <1>1, <1>2, <1>3, NotesTypeCorrect, PTL DEF Spec


-----------------------------------------------------------------------------
(* What sounds, as long as the ring keeps up.                              *)

Offs(q) == {m.note : m \in {x \in Range(q) : x.off}}

\* An On in the ring is of a latched chord.
OnInv == \A m \in Range(ring) : ~m.off => m.note \in Latched(chord)

SoundInv == wire \subseteq Fingered \cup purged \cup astray \cup Offs(ring) \cup Latched(chord)

\* A note of a latched chord that no other button plays sounds or is in the
\* ring, and no Off of it is.
HeldInv ==
    Noticed => \A b \in Buttons : \A n \in Range(chord[b]) \cap Own(b) :
        /\ \A m \in Range(ring) : m.note = n => ~m.off
        /\ n \in wire \/ \E m \in Range(ring) : m.note = n

SoundsInv == OnInv /\ SoundInv /\ HeldInv

LEMMA RangeOfNone == Range(<<>>) = {}
  BY DEF Range

LEMMA SoundInit == Init => SoundsInv
<1> SUFFICES ASSUME Init PROVE SoundsInv
  OBVIOUS
<1>1. ring = <<>> /\ wire = {} /\ \A b \in Buttons : chord[b] = <<>>
  BY DEF Init, Silent
<1> QED
  BY <1>1, RangeOfNone DEF SoundsInv, OnInv, SoundInv, HeldInv

\* The plain notes held: a press adds to them, a release takes none but the
\* button's own.
LEMMA FingeredStill ==
    ASSUME Down' = Down, UNCHANGED <<slot, pressed>> PROVE Fingered' = Fingered
  BY DEF Fingered, DownAs, Mode

LEMMA FingeredUnderPlain ==
    ASSUME TypeOK, TypeOK', EdgesInv, PlaceInv, NEW b \in Buttons, NEW down \in BOOLEAN,
           Plain(b, down), slot' = slot
    PROVE  \A n \in Fingered : n \in Fingered' \/
               /\ ~down /\ Mode(slot) = "midi" /\ Kind[<<slot, EmitLayer(b, down), b>>] = "note"
               /\ n = Chord[<<slot, EmitLayer(b, down), b>>][1]
<1> SUFFICES ASSUME NEW c \in DownAs("note"), NEW n, n = Chord[<<slot, pressed[c], c>>][1]
             PROVE  n \in Fingered' \/
               /\ ~down /\ Mode(slot) = "midi" /\ Kind[<<slot, EmitLayer(b, down), b>>] = "note"
               /\ n = Chord[<<slot, EmitLayer(b, down), b>>][1]
  BY DEF Fingered
<1>1. c \in Down /\ Mode(slot) = "midi" /\ Kind[<<slot, pressed[c], c>>] = "note"
  BY DEF DownAs
<1>2. /\ down => b \notin Down /\ Down' = Down \cup {b}
      /\ ~down => b \in Down /\ Down' = Down \ {b}
  BY DownUnderPlain
<1>3. c \in Buttons
  BY <1>1, TouchedIff, DownIs
<1>4. CASE c # b
  <2>1. pressed'[c] = pressed[c] /\ c \in Down'
    BY <1>1, <1>2, <1>3, <1>4 DEF Plain, TypeOK
  <2>2. c \in DownAs("note")'
    BY <1>1, <2>1 DEF DownAs, Mode
  <2> QED
    BY <2>1, <2>2 DEF Fingered
<1>5. CASE c = b
  BY <1>1, <1>2, <1>5 DEF EmitLayer
<1> QED
  BY <1>4, <1>5

\* A step that sends nothing, or flushes.
LEMMA SoundQuiet ==
    ASSUME SoundInv, OnInv, NoFlush, NEW o, Aftermath(o),
           slot' = slot /\ pad' = pad => Fingered \subseteq Fingered'
    PROVE  SoundInv' /\ OnInv'
<1>1. ring' = ring /\ chord' = chord /\ wire' = wire /\ purged' = purged
  BY DEF NoFlush
<1>2. wire' \subseteq Fingered' \cup purged' \cup astray' \cup Offs(ring') \cup Latched(chord')
  <2>1. CASE slot' = slot /\ pad' = pad
    <3>1. astray' = wire' \cap astray
      BY <2>1 DEF Aftermath
    <3> QED
      BY <1>1, <2>1, <3>1 DEF SoundInv
  <2>2. CASE ~(slot' = slot /\ pad' = pad)
    <3>1. astray' = wire' \cap (astray \cup Fingered)
      BY <2>2 DEF Aftermath
    <3> QED
      BY <1>1, <3>1 DEF SoundInv
  <2> QED
    BY <2>1, <2>2
<1>3. SoundInv'
  BY <1>2 DEF SoundInv, Offs, Latched
<1>4. OnInv'
  BY <1>1 DEF OnInv
<1> QED
  BY <1>3, <1>4

LEMMA SoundFlushed ==
    ASSUME SoundInv, Flush, NEW o, Aftermath(o),
           slot' = slot /\ pad' = pad => Fingered \subseteq Fingered'
    PROVE  SoundsInv'
<1>1. /\ ring' = <<>> /\ chord' = Silent /\ wire' = wire \ Latched(chord)
      /\ purged' = wire' \cap (purged \cup Offs(ring))
  BY DEF Flush, Offs
<1>2. wire' \subseteq Fingered' \cup purged' \cup astray'
  <2>1. CASE slot' = slot /\ pad' = pad
    <3>1. astray' = wire' \cap astray
      BY <2>1 DEF Aftermath
    <3> QED
      BY <1>1, <2>1, <3>1 DEF SoundInv
  <2>2. CASE ~(slot' = slot /\ pad' = pad)
    <3>1. astray' = wire' \cap (astray \cup Fingered)
      BY <2>2 DEF Aftermath
    <3> QED
      BY <1>1, <3>1 DEF SoundInv
  <2> QED
    BY <2>1, <2>2
<1>3. SoundInv'
  BY <1>2 DEF SoundInv
<1>4. Range(ring') = {} /\ \A b \in Buttons : Range(chord'[b]) = {}
  BY <1>1, RangeOfNone DEF Silent
<1> QED
  BY <1>3, <1>4 DEF SoundsInv, OnInv, HeldInv

LEMMA HeldQuiet ==
    ASSUME HeldInv, NoFlush, UNCHANGED seen, NEW o, Aftermath(o)
    PROVE  HeldInv'
<1>1. ring' = ring /\ chord' = chord /\ wire' = wire
  BY DEF NoFlush
<1> SUFFICES ASSUME Noticed', NEW b \in Buttons, NEW n \in Range(chord'[b]) \cap Own(b)
             PROVE  /\ \A m \in Range(ring') : m.note = n => ~m.off
                    /\ n \in wire' \/ \E m \in Range(ring') : m.note = n
  BY DEF HeldInv, Own
<1>2. chord'[b] # <<>>
  BY RangeOfNone
<1>3. Noticed
  BY <1>2, NoticedBefore
<1> QED
  BY <1>1, <1>3 DEF HeldInv

\* The drain sends the Offs of what may end and the Ons of what is latched.
LEMMA SoundUnderDrain ==
    ASSUME TypeOK, SoundsInv, InTime, Drain
    PROVE  SoundsInv'
<1> DEFINE q == Drained(ring).q
           out == Drained(ring).out
<1>1. /\ q \in Seq(Messages) /\ out \in Seq(Messages)
      /\ Range(q) \cup Range(out) = Range(ring)
  BY DrainKeeps DEF TypeOK, InTime
<1>2. /\ ring' = q /\ wire' = Heard(wire, out) /\ purged' = purged \cap wire'
      /\ UNCHANGED <<slot, seen, hand, combo, pressed, pad, chord>> /\ Aftermath(FALSE)
  BY DEF Drain
<1> HIDE DEF q, out
<1>3. Fingered' = Fingered
  BY <1>2, DownStill, FingeredStill
<1>4. astray' = wire' \cap astray
  BY <1>2 DEF Aftermath
<1>5. OnInv'
  BY <1>1, <1>2 DEF SoundsInv, OnInv
<1>6. wire' \subseteq Fingered' \cup purged' \cup astray' \cup Offs(ring') \cup Latched(chord')
  <2> SUFFICES ASSUME NEW n \in wire'
               PROVE  n \in Fingered' \cup purged' \cup astray' \cup Offs(ring') \cup Latched(chord')
    OBVIOUS
  <2>1. CASE \E m \in Range(out) : m.note = n
    <3>1. PICK x \in Range(out) : x.note = n /\ ~x.off
      BY <1>1, <1>2, <2>1, HeardOn
    <3>2. n \in Latched(chord)
      BY <1>1, <3>1 DEF SoundsInv, OnInv
    <3> QED
      BY <1>2, <3>2
  <2>2. CASE ~\E m \in Range(out) : m.note = n
    <3>1. n \in wire
      BY <1>2, <2>2, HeardFrom
    <3>2. n \in Offs(ring) => n \in Offs(ring')
      BY <1>1, <1>2, <2>2 DEF Offs
    <3> QED
      BY <1>2, <1>3, <1>4, <3>1, <3>2 DEF SoundsInv, SoundInv
  <2> QED
    BY <2>1, <2>2
<1>7. SoundInv'
  BY <1>6 DEF SoundInv, Offs, Latched
<1>8. ASSUME Noticed', NEW b \in Buttons, NEW n \in Range(chord'[b]) \cap Own(b)
      PROVE  /\ \A m \in Range(ring') : m.note = n => ~m.off
             /\ n \in wire' \/ \E m \in Range(ring') : m.note = n
  <2>1. chord'[b] # <<>>
    BY <1>8, RangeOfNone
  <2>2. Noticed
    BY <1>2, <1>8, <2>1, NoticedBefore
  <2>3. /\ \A m \in Range(ring) : m.note = n => ~m.off
        /\ n \in wire \/ \E m \in Range(ring) : m.note = n
    BY <1>2, <1>8, <2>2 DEF SoundsInv, HeldInv
  <2>4. \A m \in Range(out) : m.note = n => ~m.off
    BY <1>1, <2>3
  <2>5. n \in wire \/ (\E m \in Range(out) : m.note = n) => n \in Heard(wire, out)
    BY <1>1, <2>4, HeardStays
  <2> QED
    BY <1>1, <1>2, <2>3, <2>5
<1>9. HeldInv'
  BY <1>8 DEF HeldInv, Own
<1> QED
  BY <1>5, <1>7, <1>9 DEF SoundsInv


\* A plain note sounds while its button is down, and its Off cuts no chord whose
\* notes are its own.
LEMMA SoundUnderNote ==
    ASSUME TypeOK, TypeOK', EdgesInv, PlaceInv, LatchesInv, SoundsInv,
           NEW b \in Buttons, NEW down \in BOOLEAN, Note(b, down)
    PROVE  SoundsInv'
<1> DEFINE p0 == <<slot, EmitLayer(b, down), b>>
           n0 == Chord[p0][1]
<1>0. /\ Plain(b, down) /\ Mode(slot) = "midi" /\ Kind[p0] = "note"
      /\ UNCHANGED <<slot, seen, ring, chord, pad>> /\ Aftermath(FALSE)
      /\ wire' = Heard(wire, <<IF down THEN On(n0) ELSE Off(n0)>>)
      /\ purged' = purged \cap wire'
  BY DEF Note, Midi, Plain, Passed
<1>1. p0 \in Played /\ n0 \in Range(Chord[p0]) /\ p0[3] = b
  BY <1>0, EmitLayerTyped, ChordsTyped DEF TypeOK
<1>2. astray' = wire' \cap astray
  BY <1>0 DEF Aftermath
<1>3. \A n \in Fingered : n \in Fingered' \/ (~down /\ n = n0)
  BY <1>0, FingeredUnderPlain
<1>4. wire' = IF down THEN wire \cup {n0} ELSE wire \ {n0}
  <2> HIDE DEF n0
  <2>1. CASE down
    BY <1>0, <2>1, HeardOne
  <2>2. CASE ~down
    BY <1>0, <2>2, HeardOne
  <2> QED
    BY <2>1, <2>2
<1>5. down => n0 \in Fingered'
  <2> SUFFICES ASSUME down PROVE n0 \in Fingered'
    OBVIOUS
  <2>1. Down' = Down \cup {b} /\ pressed'[b] = layer_now
    BY <1>0, DownUnderPlain DEF Plain, TypeOK
  <2>2. p0 = <<slot', pressed'[b], b>>
    BY <1>0, <2>1 DEF EmitLayer
  <2> HIDE DEF p0
  <2>3. b \in DownAs("note")'
    BY <1>0, <2>1, <2>2 DEF DownAs, Mode
  <2> QED
    BY <2>2, <2>3 DEF Fingered
<1> HIDE DEF p0, n0
<1>6. OnInv'
  BY <1>0 DEF SoundsInv, OnInv
<1>7. wire' \subseteq Fingered' \cup purged' \cup astray' \cup Offs(ring') \cup Latched(chord')
  BY <1>0, <1>2, <1>3, <1>4, <1>5 DEF SoundsInv, SoundInv
<1>8. SoundInv'
  BY <1>7 DEF SoundInv, Offs, Latched
<1>9. ASSUME Noticed', NEW c \in Buttons, NEW n \in Range(chord'[c]) \cap Own(c)
      PROVE  /\ \A m \in Range(ring') : m.note = n => ~m.off
             /\ n \in wire' \/ \E m \in Range(ring') : m.note = n
  <2>1. chord'[c] # <<>>
    BY <1>9, RangeOfNone
  <2>2. Noticed
    BY <1>0, <1>9, <2>1, NoticedBefore
  <2>3. /\ \A m \in Range(ring) : m.note = n => ~m.off
        /\ n \in wire \/ \E m \in Range(ring) : m.note = n
    BY <1>0, <1>9, <2>2 DEF SoundsInv, HeldInv
  <2>4. ~down => n # n0
    <3> SUFFICES ASSUME ~down, n = n0 PROVE FALSE
      OBVIOUS
    <3>1. c = b
      BY <1>1, <1>9 DEF Own
    <3>2. b \in DownAs("chord")
      BY <1>0, <2>1, <2>2, <3>1 DEF LatchesInv, LatchInv
    <3>3. Kind[<<slot, pressed[b], b>>] = "chord"
      BY <3>2 DEF DownAs
    <3> QED
      BY <1>0, <3>3 DEF p0, EmitLayer
  <2> QED
    BY <1>0, <1>4, <2>3, <2>4
<1>10. HeldInv'
  BY <1>9 DEF HeldInv, Own
<1> QED
  BY <1>6, <1>8, <1>10 DEF SoundsInv

LEMMA SoundUnderChordPress ==
    ASSUME TypeOK, TypeOK', EdgesInv, PlaceInv, LatchesInv, SoundsInv, InTime, InTime',
           NEW b \in Buttons, ChordPress(b)
    PROVE  SoundsInv'
<1> DEFINE ns == Chord[<<slot, layer_now, b>>]
           ms == [k \in DOMAIN ns |-> On(ns[k])]
<1>0. /\ Plain(b, TRUE) /\ UNCHANGED <<slot, seen, wire, purged, pad>> /\ Aftermath(FALSE)
      /\ chord' = [chord EXCEPT ![b] = ns] /\ ring' = PushedAll(ring, ms)
      /\ pc = "route" /\ evt # <<>>
  BY DEF ChordPress, Midi, Plain, Passed, Routing
<1>h. Head(evt).button = b /\ Head(evt).down = TRUE
  BY DEF ChordPress, Midi, Plain, Passed, Routing
<1>1. chord[b] = <<>> /\ Range(chord[b]) = {}
  BY FreshPress, RangeOfNone
<1>2. ns \in Seq(Notes)
  BY ChordsTyped DEF TypeOK
<1> HIDE DEF ns
<1>3. ms \in Seq(Messages) /\ Range(ms) = {On(n) : n \in Range(ns)}
  BY <1>2, OnsOf
<1> HIDE DEF ms
<1>4. Range(ring') = Range(ring) \cup {On(n) : n \in Range(ns)}
  <2>1. Len(PushedAll(ring, ms)) < RingSize
    BY <1>0 DEF InTime
  <2>2. Range(PushedAll(ring, ms)) = Range(ring) \cup Range(ms)
    BY <1>3, <2>1, PushKeeps DEF TypeOK
  <2> QED
    BY <1>0, <1>3, <2>2
<1>5. \A n : On(n).off = FALSE /\ On(n).note = n
  BY DEF On
<1>6. \A c \in Buttons : chord'[c] = IF c = b THEN ns ELSE chord[c]
  BY <1>0 DEF TypeOK
<1>7. Latched(chord') = Latched(chord) \cup Range(ns)
  <2>1. \A c \in Buttons : Range(chord[c]) \subseteq Latched(chord') /\ Range(ns) \subseteq Latched(chord')
    BY <1>1, <1>6 DEF Latched
  <2>2. \A c \in Buttons : Range(chord'[c]) \subseteq Latched(chord) \cup Range(ns)
    BY <1>6 DEF Latched
  <2> QED
    BY <2>1, <2>2 DEF Latched
<1>8. OnInv'
  <2>1. \A m \in Range(ring') : ~m.off => m.note \in Latched(chord')
    BY <1>4, <1>5, <1>7 DEF SoundsInv, OnInv
  <2> QED
    BY <2>1 DEF OnInv, Latched
<1>9. SoundInv'
  <2>1. Fingered \subseteq Fingered'
    BY <1>0, FingeredUnderPlain
  <2>2. astray' = wire' \cap astray
    BY <1>0 DEF Aftermath
  <2>3. Offs(ring) \subseteq Offs(ring')
    BY <1>4 DEF Offs
  <2>4. wire' \subseteq Fingered' \cup purged' \cup astray' \cup Offs(ring') \cup Latched(chord')
    BY <1>0, <1>7, <2>1, <2>2, <2>3 DEF SoundsInv, SoundInv
  <2> QED
    BY <2>4 DEF SoundInv, Offs, Latched
<1>10. ASSUME Noticed', NEW c \in Buttons, NEW n \in Range(chord'[c]) \cap Own(c)
       PROVE  /\ \A m \in Range(ring') : m.note = n => ~m.off
              /\ n \in wire' \/ \E m \in Range(ring') : m.note = n
  <2>1. CASE c = b
    <3>1. n \in Range(ns)
      BY <1>6, <1>10, <2>1
    <3>2. \A m \in Range(ring) : m.note = n => ~m.off
      <4> SUFFICES ASSUME NEW m \in Range(ring), m.note = n, m.off PROVE FALSE
        OBVIOUS
      <4>1. m \in Messages
        BY RangeIs DEF TypeOK
      <4>2. m.off = TRUE
        BY <4>1 DEF Messages
      <4>3. m.off = Head(evt).down
        BY <1>h, <4>2
      <4>4. m.note \notin Own(b)
        BY <1>0, <1>h, <4>2, <4>3 DEF InTime
      <4> QED
        BY <1>10, <2>1, <4>4
    <3>3. On(n) \in Range(ring') /\ On(n).note = n
      BY <1>4, <1>5, <3>1
    <3> QED
      BY <1>4, <1>5, <3>2, <3>3
  <2>2. CASE c # b
    <3>1. chord'[c] # <<>> /\ chord[c] = chord'[c]
      BY <1>6, <1>10, <2>2, RangeOfNone
    <3>2. Noticed
      BY <1>0, <1>10, <3>1, NoticedBefore
    <3>3. /\ \A m \in Range(ring) : m.note = n => ~m.off
          /\ n \in wire \/ \E m \in Range(ring) : m.note = n
      BY <1>10, <3>1, <3>2 DEF SoundsInv, HeldInv
    <3> QED
      BY <1>0, <1>4, <1>5, <3>3
  <2> QED
    BY <2>1, <2>2
<1>11. HeldInv'
  BY <1>10 DEF HeldInv, Own
<1> QED
  BY <1>8, <1>9, <1>11 DEF SoundsInv

LEMMA SoundUnderChordRelease ==
    ASSUME TypeOK, TypeOK', EdgesInv, PlaceInv, LatchesInv, SoundsInv, InTime, InTime',
           NEW b \in Buttons, ChordRelease(b)
    PROVE  SoundsInv'
<1> DEFINE ms == [k \in DOMAIN chord[b] |-> Off(chord[b][k])]
<1>0. /\ Plain(b, FALSE) /\ UNCHANGED <<slot, seen, wire, purged, pad>> /\ Aftermath(FALSE)
      /\ chord' = [chord EXCEPT ![b] = <<>>] /\ ring' = PushedAll(ring, ms)
      /\ pc = "route" /\ evt # <<>>
      /\ Kind[<<slot, EmitLayer(b, FALSE), b>>] = "chord"
  BY DEF ChordRelease, Midi, Plain, Passed, Routing
<1>h. Head(evt).button = b /\ Head(evt).down = FALSE
  BY DEF ChordRelease, Midi, Plain, Passed, Routing
<1>1. chord[b] \in Seq(Notes)
  BY DEF TypeOK
<1>2. ms \in Seq(Messages) /\ Range(ms) = {Off(n) : n \in Range(chord[b])}
  BY <1>1, OffsOf
<1> HIDE DEF ms
<1>3. Range(ring') = Range(ring) \cup {Off(n) : n \in Range(chord[b])}
  <2>1. Len(PushedAll(ring, ms)) < RingSize
    BY <1>0 DEF InTime
  <2>2. Range(PushedAll(ring, ms)) = Range(ring) \cup Range(ms)
    BY <1>2, <2>1, PushKeeps DEF TypeOK
  <2> QED
    BY <1>0, <1>2, <2>2
<1>4. \A n : Off(n).off = TRUE /\ Off(n).note = n
  BY DEF Off
<1>5. \A c \in Buttons : chord'[c] = IF c = b THEN <<>> ELSE chord[c]
  BY <1>0 DEF TypeOK
<1>6. Latched(chord) \subseteq Latched(chord') \cup Range(chord[b])
  BY <1>5 DEF Latched
<1>7. OnInv'
  <2> SUFFICES ASSUME NEW m \in Range(ring'), ~m.off PROVE m.note \in Latched(chord')
    BY DEF OnInv, Latched
  <2>1. m \in Range(ring)
    BY <1>3, <1>4
  <2>2. m \in Messages
    BY <2>1, RangeIs DEF TypeOK
  <2>3. m.off = FALSE
    BY <2>2 DEF Messages
  <2>4. m.note \notin Range(chord[b]) \ Latched([chord EXCEPT ![b] = <<>>])
    <3>1. m.off = Head(evt).down
      BY <1>h, <2>3
    <3> QED
      BY <1>0, <1>h, <2>1, <2>3, <3>1 DEF InTime
  <2>5. m.note \in Latched(chord)
    BY <2>1 DEF SoundsInv, OnInv
  <2> QED
    BY <1>0, <1>6, <2>4, <2>5
<1>8. SoundInv'
  <2>1. Fingered \subseteq Fingered'
    BY <1>0, FingeredUnderPlain
  <2>2. astray' = wire' \cap astray
    BY <1>0 DEF Aftermath
  <2>3. Offs(ring) \cup Range(chord[b]) \subseteq Offs(ring')
    <3>1. \A n \in Range(chord[b]) : Off(n) \in Range(ring') /\ Off(n).off /\ Off(n).note = n
      BY <1>3, <1>4
    <3> QED
      BY <1>3, <3>1 DEF Offs
  <2>4. wire' \subseteq Fingered' \cup purged' \cup astray' \cup Offs(ring') \cup Latched(chord')
    BY <1>0, <1>6, <2>1, <2>2, <2>3 DEF SoundsInv, SoundInv
  <2> QED
    BY <2>4 DEF SoundInv, Offs, Latched
<1>9. ASSUME Noticed', NEW c \in Buttons, NEW n \in Range(chord'[c]) \cap Own(c)
      PROVE  /\ \A m \in Range(ring') : m.note = n => ~m.off
             /\ n \in wire' \/ \E m \in Range(ring') : m.note = n
  <2>1. c # b /\ chord'[c] # <<>> /\ chord[c] = chord'[c]
    BY <1>5, <1>9, RangeOfNone
  <2>2. Noticed
    BY <1>0, <1>9, <2>1, NoticedBefore
  <2>3. /\ \A m \in Range(ring) : m.note = n => ~m.off
        /\ n \in wire \/ \E m \in Range(ring) : m.note = n
    BY <1>9, <2>1, <2>2 DEF SoundsInv, HeldInv
  <2>4. n \notin Range(chord[b])
    <3> SUFFICES ASSUME n \in Range(chord[b]) PROVE FALSE
      OBVIOUS
    <3>1. PICK p \in Played : p[3] = b /\ n \in Range(Chord[p])
      BY DEF LatchesInv, ChordsInv, PlayedBy
    <3> QED
      BY <1>9, <2>1, <3>1 DEF Own
  <2> QED
    BY <1>0, <1>3, <1>4, <2>3, <2>4
<1>10. HeldInv'
  BY <1>9 DEF HeldInv, Own
<1> QED
  BY <1>7, <1>8, <1>10 DEF SoundsInv

LEMMA SoundOfRoute ==
    ASSUME TypeOK, TypeOK', EdgesInv, PlaceInv, LatchesInv, SoundsInv, InTime, InTime',
           NEW b \in Buttons, Route(b)
    PROVE  SoundsInv'
<1>1. CASE ComboMode(b)
  <2>1. Flush /\ slot' # slot /\ \E o : Aftermath(o)
    BY <1>1 DEF ComboMode
  <2> QED
    BY <2>1, SoundFlushed DEF SoundsInv
<1>2. CASE ComboLayer(b)
  <2>1. Flush /\ Aftermath(FALSE) /\ UNCHANGED <<slot, pad, pressed>> /\ ComboPress(b)
    BY <1>2 DEF ComboLayer, ComboPress
  <2>2. Fingered' = Fingered
    BY <2>1, DownUnderCombo, FingeredStill
  <2> QED
    BY <2>1, <2>2, SoundFlushed DEF SoundsInv
<1>3. CASE ComboProfile(b) \/ ComboOther(b) \/ ComboRelease(b)
  <2>1. NoFlush /\ Aftermath(FALSE) /\ UNCHANGED <<seen, pad, pressed>>
    BY <1>3 DEF ComboProfile, ComboOther, ComboRelease, ComboPress
  <2>2. Down' = Down
    BY <1>3, <2>1, DownUnderCombo DEF ComboProfile, ComboOther
  <2>3. slot' = slot => Fingered' = Fingered
    BY <2>1, <2>2, FingeredStill
  <2> QED
    BY <2>1, <2>3, SoundQuiet, HeldQuiet DEF SoundsInv
<1>4. ASSUME NEW down \in BOOLEAN, TapPad(b, down) PROVE SoundsInv'
  <2>1. NoFlush /\ Aftermath(FALSE) /\ UNCHANGED <<slot, seen, pad, pressed>>
    BY <1>4 DEF TapPad, Passed
  <2>2. Down' = Down
    BY <1>4, <2>1, DownUnderCombo
  <2>3. Fingered' = Fingered
    BY <2>1, <2>2, FingeredStill
  <2> QED
    BY <2>1, <2>3, SoundQuiet, HeldQuiet DEF SoundsInv
<1>5. ASSUME NEW down \in BOOLEAN,
             Key(b, down) \/ Mute(b, down) \/ Toggle(b, down) \/ (Switch(b, down) /\ ~down)
      PROVE  SoundsInv'
  <2>1. /\ NoFlush /\ Aftermath(FALSE) /\ UNCHANGED <<slot, seen, pad>> /\ Plain(b, down)
        /\ Mode(slot) # "midi" \/ Kind[<<slot, EmitLayer(b, down), b>>] # "note"
    BY <1>5 DEF Key, Mute, Toggle, Switch, Midi, Plain, Passed
  <2>2. Fingered \subseteq Fingered'
    BY <2>1, FingeredUnderPlain
  <2> QED
    BY <2>1, <2>2, SoundQuiet, HeldQuiet DEF SoundsInv
<1>6. CASE Switch(b, TRUE)
  <2>1. Flush /\ Aftermath(FALSE) /\ Plain(b, TRUE)
    BY <1>6 DEF Switch, Midi
  <2>2. slot' = slot => Fingered \subseteq Fingered'
    BY <2>1, FingeredUnderPlain
  <2> QED
    BY <2>1, <2>2, SoundFlushed DEF SoundsInv
<1>7. ASSUME NEW down \in BOOLEAN, Switch(b, down) PROVE SoundsInv'
  BY <1>5, <1>6, <1>7
<1> QED
  BY <1>1, <1>2, <1>3, <1>4, <1>5, <1>7, SoundUnderNote, SoundUnderChordPress, SoundUnderChordRelease
     DEF Route

LEMMA SoundStep ==
    ASSUME TypeOK, TypeOK', EdgesInv, PlaceInv, LatchesInv, SoundsInv, InTime, InTime', [Next]_vars
    PROVE  SoundsInv'
<1>1. CASE UNCHANGED vars
  <2>1. UNCHANGED <<chord, ring, wire, purged, astray, seen, slot, unnoticed, pressed, hand, combo, pad>>
    BY <1>1 DEF vars, hand
  <2>2. Fingered' = Fingered
    BY <2>1, DownStill, FingeredStill
  <2>3. OnInv' /\ SoundInv' /\ HeldInv'
    BY <2>1, <2>2 DEF SoundsInv, OnInv, SoundInv, HeldInv, Noticed
  <2> QED
    BY <2>3 DEF SoundsInv
<1>2. CASE Poll \/ EndTick
  <2>1. NoFlush /\ UNCHANGED <<seen, pressed, pad, hand, combo>> /\ \E o : Aftermath(o)
    BY <1>2 DEF Poll, EndTick, NoFlush
  <2>2. slot' = slot => Fingered' = Fingered
    BY <2>1, DownStill, FingeredStill
  <2> QED
    BY <2>1, <2>2, SoundQuiet, HeldQuiet DEF SoundsInv
<1>3. CASE Detect
  <2>1. UNCHANGED <<slot, pressed, hand, combo>> /\ \E o : Aftermath(o)
    BY <1>3 DEF Detect
  <2>2. pad' = pad => Fingered' = Fingered
    BY <2>1, DownStill, FingeredStill
  <2>3. CASE Flush
    BY <2>1, <2>2, <2>3, SoundFlushed DEF SoundsInv
  <2>4. CASE NoFlush /\ slot = seen
    <3>1. seen' = seen
      BY <1>3, <2>4 DEF Detect
    <3> QED
      BY <2>1, <2>2, <2>4, <3>1, SoundQuiet, HeldQuiet DEF SoundsInv
  <2> QED
    BY <1>3, <2>3, <2>4 DEF Detect
<1>4. CASE Scan
  <2>1. NoFlush /\ UNCHANGED <<slot, seen, pressed>> /\ Aftermath(FALSE)
    BY <1>4 DEF Scan, NoFlush
  <2>2. Fingered' = Fingered
    BY <1>4, <2>1, DownUnderScan, FingeredStill
  <2> QED
    BY <2>1, <2>2, SoundQuiet, HeldQuiet DEF SoundsInv
<1> QED
  BY <1>1, <1>2, <1>3, <1>4, SoundUnderDrain, SoundOfRoute DEF Next

LEMMA SoundsAlways ==
    Spec /\ []InTime => [](TypeOK /\ EdgesInv /\ PlaceInv /\ LatchesInv /\ SoundsInv)
<1> DEFINE I == EdgesInv /\ PlaceInv /\ LatchesInv /\ SoundsInv
<1>1. Init => I
  BY PlaceInit, LatchInit, SoundInit
<1>2. TypeOK /\ TypeOK' /\ InTime /\ InTime' /\ I /\ [Next]_vars => I'
  BY EdgesStep, PlaceStep, LatchStep, SoundStep
<1> QED
  BY <1>1, <1>2, NotesTypeCorrect, PTL DEF Spec

\* As long as the ring keeps up with the hands, whatever sounds will end: its
\* button is down, its Off is on the way or due, or it is one of those that a
\* purge or a change of profile under the finger left behind.
THEOREM SoundsEnd == Spec /\ []InTime => []EverySoundHasAnEnd
<1>1. TypeOK /\ EdgesInv /\ PlaceInv /\ LatchesInv /\ SoundsInv => EverySoundHasAnEnd
  <2> SUFFICES ASSUME LatchesInv, SoundsInv PROVE EverySoundHasAnEnd
    OBVIOUS
  <2>1. slot = seen /\ ~unnoticed =>
           Latched(chord) \subseteq UNION {Range(chord[b]) : b \in DownAs("chord")}
    <3>1. \A b \in Buttons : Noticed /\ Range(chord[b]) # {} => b \in DownAs("chord")
      BY RangeOfNone DEF LatchesInv, LatchInv
    <3> QED
      BY <3>1 DEF Latched, Noticed
  <2> QED
    BY <2>1 DEF EverySoundHasAnEnd, SoundsInv, SoundInv, Offs
<1> QED
  BY <1>1, SoundsAlways, PTL

\* As long as the ring keeps up with the hands, a chord that is latched sounds
\* once the ring is empty, but for the notes that two buttons share.
THEOREM HeldChordsSound == Spec /\ []InTime => []HeldChordSounds
<1>1. SoundsInv => HeldChordSounds
  <2> SUFFICES ASSUME SoundsInv, ring = <<>>, Noticed, NEW b \in Buttons,
                      NEW n \in Range(chord[b]) \cap Own(b)
               PROVE  n \in wire
    BY DEF HeldChordSounds, Noticed
  <2> QED
    BY RangeOfNone DEF SoundsInv, HeldInv
<1> QED
  BY <1>1, SoundsAlways, PTL

-----------------------------------------------------------------------------
(* Runs of a machine, to reason about a recursive function.                *)

LEMMA AllUpTo ==
    ASSUME NEW n \in Nat, NEW G, 0 \in G, \A i \in 1 .. n : i - 1 \in G => i \in G
    PROVE  \A i \in 0 .. n : i \in G
<1> DEFINE Bad == {i \in 0 .. n : i \notin G}
<1> SUFFICES ASSUME Bad # {} PROVE FALSE
  OBVIOUS
<1>1. Bad \subseteq Nat
  OBVIOUS
<1>2. PICK k \in Bad : \A m \in Bad : k <= m
  <2> HIDE DEF Bad
  <2> QED
    BY <1>1, LeastNumber
<1>3. k \in 0 .. n /\ k \notin G
  BY <1>2
<1>4. k # 0 /\ k - 1 \in 0 .. n /\ k - 1 < k /\ k \in 1 .. n
  BY <1>3
<1>5. k - 1 \in G
  BY <1>2, <1>4
<1> QED
  BY <1>3, <1>4, <1>5

\* A machine that goes from a state of S to another at each of n steps has a run.
Machine(S, n, F) == \A s \in S : \A i \in 1 .. n : F[<<s, i>>] \in S

HasRun(S, base, n, F) ==
    \E f \in [0 .. n -> S] : f[0] = base /\ \A i \in 1 .. n : f[i] = F[<<f[i - 1], i>>]

LEMMA RunExists ==
    ASSUME NEW S, NEW base \in S, NEW n \in Nat, NEW F, Machine(S, n, F)
    PROVE  HasRun(S, base, n, F)
<1> USE DEF Machine
<1> DEFINE Upto(k) == \E f \in [0 .. k -> S] :
                        f[0] = base /\ \A i \in 1 .. k : f[i] = F[<<f[i - 1], i>>]
           Good == {k \in 0 .. n : Upto(k)}
<1>1. Upto(0)
  <2> DEFINE f == [i \in 0 .. 0 |-> base]
  <2>1. f \in [0 .. 0 -> S] /\ f[0] = base
    OBVIOUS
  <2>2. 1 .. 0 = {}
    OBVIOUS
  <2> QED
    BY <2>1, <2>2
<1>2. ASSUME NEW k \in 1 .. n, Upto(k - 1) PROVE Upto(k)
  <2>1. PICK f \in [0 .. k - 1 -> S] :
               f[0] = base /\ \A i \in 1 .. k - 1 : f[i] = F[<<f[i - 1], i>>]
    BY <1>2
  <2> DEFINE e == F[<<f[k - 1], k>>]
             g == [i \in 0 .. k |-> IF i < k THEN f[i] ELSE e]
  <2>2. e \in S
    <3>1. f[k - 1] \in S
      BY <2>1
    <3> QED
      BY <3>1
  <2> HIDE DEF e
  <2>3. g \in [0 .. k -> S]
    BY <2>1, <2>2
  <2>4. g[0] = base /\ g[k] = F[<<g[k - 1], k>>]
    <3>1. k - 1 \in 0 .. k /\ k \in 0 .. k /\ 0 \in 0 .. k /\ k - 1 < k /\ ~(k < k) /\ 0 < k
      OBVIOUS
    <3>2. g[0] = f[0] /\ g[k - 1] = f[k - 1] /\ g[k] = e
      BY <3>1
    <3> HIDE DEF g
    <3> QED
      BY <2>1, <3>2 DEF e
  <2>5. \A i \in 1 .. k - 1 : g[i] = F[<<g[i - 1], i>>]
    <3>1. \A i \in 1 .. k - 1 : g[i] = f[i] /\ g[i - 1] = f[i - 1]
      OBVIOUS
    <3> HIDE DEF g
    <3> QED
      BY <2>1, <3>1
  <2>6. \A i \in 1 .. k : i \in 1 .. k - 1 \/ i = k
    OBVIOUS
  <2>7. \A i \in 1 .. k : g[i] = F[<<g[i - 1], i>>]
    <3> HIDE DEF g
    <3> QED
      BY <2>4, <2>5, <2>6
  <2> HIDE DEF g
  <2> QED
    BY <2>3, <2>4, <2>7
<1>3. \A k \in 0 .. n : k \in Good
  <2>1. 0 \in Good
    BY <1>1
  <2>2. \A k \in 1 .. n : k - 1 \in Good => k \in Good
    <3> HIDE DEF Upto
    <3> QED
      BY <1>2
  <2> HIDE DEF Good
  <2> QED
    BY <2>1, <2>2, AllUpTo
<1>4. Upto(n)
  <2> HIDE DEF Upto
  <2> QED
    BY <1>3
<1> QED
  BY <1>4 DEF HasRun

-----------------------------------------------------------------------------
(* The ring as a queue of Offs and a queue of Ons.                         *)

\* The parts of q of one kind, one message longer or not at each message of q.
Keeps(f, M, q, w) ==
    /\ f \in [0 .. Len(q) -> Seq(M)] /\ f[0] = <<>>
    /\ \A k \in 1 .. Len(q) :
          f[k] = IF q[k].off = w THEN Append(f[k - 1], q[k]) ELSE f[k - 1]

LEMMA OfKindRuns ==
    ASSUME NEW M, NEW q \in Seq(M), NEW w
    PROVE  \E f : Keeps(f, M, q, w) /\ OfKind(q, w) = f[Len(q)]
<1> DEFINE n == Len(q)
           S == Seq(M)
           F == [x \in S \X (1 .. n) |-> IF q[x[2]].off = w THEN Append(x[1], q[x[2]]) ELSE x[1]]
           Runs(f) == f = [k \in 0 .. n |-> IF k = 0 THEN <<>>
                                            ELSE IF q[k].off = w THEN Append(f[k - 1], q[k])
                                            ELSE f[k - 1]]
<1>0. n \in Nat /\ <<>> \in S
  OBVIOUS
<1>1. ASSUME NEW s \in S, NEW i \in 1 .. n
      PROVE  /\ F[<<s, i>>] \in S
             /\ F[<<s, i>>] = IF q[i].off = w THEN Append(s, q[i]) ELSE s
  <2>1. q[i] \in M /\ Append(s, q[i]) \in S
    OBVIOUS
  <2>2. <<s, i>> \in S \X (1 .. n) /\ <<s, i>>[1] = s /\ <<s, i>>[2] = i
    OBVIOUS
  <2> HIDE DEF S, n
  <2> QED
    BY <2>1, <2>2
<1>2. Machine(S, n, F)
  <2> HIDE DEF S, n, F
  <2> QED
    BY <1>1 DEF Machine
<1>3. HasRun(S, <<>>, n, F)
  <2> HIDE DEF S, n, F
  <2> QED
    BY <1>0, <1>2, RunExists
<1>4. PICK f \in [0 .. n -> S] : f[0] = <<>> /\ \A i \in 1 .. n : f[i] = F[<<f[i - 1], i>>]
  <2> HIDE DEF S, n, F
  <2> QED
    BY <1>3 DEF HasRun
<1>5. \A i \in 1 .. n : f[i] = IF q[i].off = w THEN Append(f[i - 1], q[i]) ELSE f[i - 1]
  <2>1. \A i \in 1 .. n : f[i - 1] \in S
    <3> HIDE DEF S
    <3> QED
      BY <1>0, <1>4
  <2> HIDE DEF S, n, F
  <2> QED
    BY <1>1, <1>4, <2>1
<1>6. Runs(f)
  <2> HIDE DEF S, F
  <2> QED
    BY <1>0, <1>4, <1>5
<1> DEFINE g == CHOOSE h : Runs(h)
<1>7. Runs(g) /\ OfKind(q, w) = g[n]
  BY <1>6 DEF OfKind
<1> HIDE DEF g, F
<1>8. g[0] = <<>> /\ \A i \in 1 .. n : g[i] = IF q[i].off = w THEN Append(g[i - 1], q[i]) ELSE g[i - 1]
  <2>1. 0 \in 0 .. n /\ \A i \in 1 .. n : i \in 0 .. n /\ i # 0
    BY <1>0
  <2> HIDE DEF n
  <2> QED
    BY <1>7, <2>1
<1>9. \A k \in 0 .. n : g[k] \in S
  <2> DEFINE Good == {k \in 0 .. n : g[k] \in S}
  <2>1. 0 \in Good
    <3>1. 0 \in 0 .. n /\ g[0] \in S
      BY <1>0, <1>8
    <3> QED
      BY <3>1
  <2>2. \A k \in 1 .. n : k - 1 \in Good => k \in Good
    <3> SUFFICES ASSUME NEW k \in 1 .. n, g[k - 1] \in S PROVE g[k] \in S
      OBVIOUS
    <3>1. q[k] \in M /\ Append(g[k - 1], q[k]) \in S
      OBVIOUS
    <3>2. g[k] = IF q[k].off = w THEN Append(g[k - 1], q[k]) ELSE g[k - 1]
      BY <1>8
    <3> HIDE DEF S
    <3> QED
      BY <3>1, <3>2
  <2>3. \A k \in 0 .. n : k \in Good
    <3> HIDE DEF Good, n
    <3> QED
      BY <1>0, <2>1, <2>2, AllUpTo
  <2> QED
    BY <2>3
<1>10. g \in [0 .. n -> S]
  <2> HIDE DEF S, n
  <2> QED
    BY <1>7, <1>9
<1> QED
  BY <1>7, <1>8, <1>10 DEF Keeps

LEMMA OfKindEmpty == \A w : OfKind(<<>>, w) = <<>>
<1> SUFFICES ASSUME NEW w PROVE OfKind(<<>>, w) = <<>>
  OBVIOUS
<1>1. <<>> \in Seq({}) /\ Len(<<>>) = 0
  OBVIOUS
<1>2. PICK f : Keeps(f, {}, <<>>, w) /\ OfKind(<<>>, w) = f[Len(<<>>)]
  BY <1>1, OfKindRuns
<1> QED
  BY <1>1, <1>2 DEF Keeps

LEMMA OfKindAppend ==
    ASSUME NEW M, NEW q \in Seq(M), NEW m \in M, NEW w
    PROVE  /\ OfKind(q, w) \in Seq(M)
           /\ OfKind(Append(q, m), w) = IF m.off = w THEN Append(OfKind(q, w), m) ELSE OfKind(q, w)
<1> DEFINE t == Append(q, m)
           n == Len(q)
<1>0. /\ n \in Nat /\ t \in Seq(M) /\ Len(t) = n + 1
      /\ t[n + 1] = m /\ \A k \in 1 .. n : t[k] = q[k]
  BY AppendProperties
<1>1. PICK f : Keeps(f, M, q, w) /\ OfKind(q, w) = f[n]
  BY OfKindRuns
<1> HIDE DEF t
<1>2. PICK g : Keeps(g, M, t, w) /\ OfKind(t, w) = g[n + 1]
  BY <1>0, OfKindRuns
<1> HIDE DEF n
<1>3. \A k \in 0 .. n : f[k] = g[k]
  <2> DEFINE Good == {k \in 0 .. n : f[k] = g[k]}
  <2>1. 0 \in Good
    BY <1>0, <1>1, <1>2 DEF Keeps
  <2>2. \A k \in 1 .. n : k - 1 \in Good => k \in Good
    <3> SUFFICES ASSUME NEW k \in 1 .. n, f[k - 1] = g[k - 1] PROVE f[k] = g[k]
      OBVIOUS
    <3>1. f[k] = IF q[k].off = w THEN Append(f[k - 1], q[k]) ELSE f[k - 1]
      BY <1>1 DEF Keeps, n
    <3>2. g[k] = IF t[k].off = w THEN Append(g[k - 1], t[k]) ELSE g[k - 1]
      <4>1. k \in 1 .. Len(t)
        BY <1>0
      <4> QED
        BY <1>2, <4>1 DEF Keeps
    <3> QED
      BY <1>0, <3>1, <3>2
  <2> HIDE DEF Good
  <2>3. \A k \in 0 .. n : k \in Good
    BY <1>0, <2>1, <2>2, AllUpTo
  <2> QED
    BY <2>3 DEF Good
<1>4. g[n + 1] = IF t[n + 1].off = w THEN Append(g[n], t[n + 1]) ELSE g[n]
  <2>1. n + 1 \in 1 .. Len(t) /\ n + 1 - 1 = n
    BY <1>0
  <2>2. \A k \in 1 .. Len(t) : g[k] = IF t[k].off = w THEN Append(g[k - 1], t[k]) ELSE g[k - 1]
    BY <1>2 DEF Keeps
  <2> DEFINE k == n + 1
  <2>3. k \in 1 .. Len(t) /\ k - 1 = n
    BY <1>0, <2>1
  <2> HIDE DEF k
  <2>4. g[k] = IF t[k].off = w THEN Append(g[k - 1], t[k]) ELSE g[k - 1]
    BY <2>2, <2>3
  <2> QED
    BY <2>3, <2>4 DEF k
<1>5. f[n] \in Seq(M) /\ f[n] = g[n]
  <2>1. n \in 0 .. n
    BY <1>0
  <2> QED
    BY <1>1, <1>3, <2>1 DEF Keeps, n
<1> QED
  BY <1>0, <1>1, <1>2, <1>4, <1>5 DEF t

LEMMA OfKindTyped ==
    ASSUME NEW M, NEW q \in Seq(M), NEW w PROVE OfKind(q, w) \in Seq(M)
<1>0. Len(q) \in Nat
  OBVIOUS
<1>1. PICK f : Keeps(f, M, q, w) /\ OfKind(q, w) = f[Len(q)]
  BY OfKindRuns
<1> QED
  BY <1>0, <1>1 DEF Keeps

\* One message behind the others, as a concatenation.
LEMMA OfKindOne ==
    ASSUME NEW M, NEW m \in M, NEW w
    PROVE  OfKind(<<m>>, w) = IF m.off = w THEN <<m>> ELSE <<>>
<1> DEFINE e == <<>>
<1>1. Append(e, m) = <<m>> /\ OfKind(e, w) = e
  BY OfKindEmpty
<1>e. e \in Seq(M)
  OBVIOUS
<1> HIDE DEF e
<1>2. OfKind(Append(e, m), w) = IF m.off = w THEN Append(OfKind(e, w), m) ELSE OfKind(e, w)
  BY <1>e, OfKindAppend
<1> QED
  BY <1>1, <1>2 DEF e

\* A message behind two sequences.
LEMMA AppendBehind ==
    ASSUME NEW M, NEW s \in Seq(M), NEW p \in Seq(M), NEW m \in M
    PROVE  s \o p \in Seq(M) /\ s \o Append(p, m) = Append(s \o p, m)
<1> DEFINE one == <<m>>
           sp == s \o p
<1>1. one \in Seq(M) /\ Append(p, m) = p \o one
  BY AppendIsConcat
<1>2. sp \in Seq(M)
  BY ConcatProperties
<1> HIDE DEF one
<1>3. sp \o one = s \o (p \o one)
  BY <1>1, ConcatAssociative
<1> HIDE DEF sp
<1>4. Append(sp, m) = sp \o one
  BY <1>2, AppendIsConcat DEF one
<1>5. sp \in Seq(M) /\ s \o Append(p, m) = Append(sp, m)
  BY <1>1, <1>2, <1>3, <1>4
<1> QED
  BY <1>5 DEF sp

LEMMA OfKindConcat ==
    ASSUME NEW M, NEW s \in Seq(M), NEW t \in Seq(M), NEW w
    PROVE  OfKind(s \o t, w) = OfKind(s, w) \o OfKind(t, w)
<1> DEFINE n == Len(t)
           part(k) == SubSeq(t, 1, k)
           Good == {k \in 0 .. n : OfKind(s \o part(k), w) = OfKind(s, w) \o OfKind(part(k), w)}
<1>0. n \in Nat
  OBVIOUS
<1>1. 0 \in Good
  <2>1. part(0) = <<>>
    BY SubSeqEmpty
  <2>2. s \o <<>> = s /\ OfKind(s, w) \o <<>> = OfKind(s, w)
    BY OfKindTyped, ConcatEmptySeq
  <2>3. OfKind(s \o part(0), w) = OfKind(s, w) \o OfKind(part(0), w)
    <3> HIDE DEF part
    <3> QED
      BY <2>1, <2>2, OfKindEmpty
  <2>4. 0 \in 0 .. n
    BY <1>0
  <2> HIDE DEF part
  <2> QED
    BY <2>3, <2>4
<1>2. ASSUME NEW k \in 1 .. n, OfKind(s \o part(k - 1), w) = OfKind(s, w) \o OfKind(part(k - 1), w)
      PROVE  OfKind(s \o part(k), w) = OfKind(s, w) \o OfKind(part(k), w)
  <2> DEFINE p == part(k - 1)
             m == t[k]
  <2>1. p \in Seq(M) /\ m \in M
    <3>1. \A i \in 1 .. k - 1 : t[i] \in M
      BY <1>0
    <3>2. 1 \in Int /\ k - 1 \in Int
      BY <1>0
    <3> QED
      BY <3>1, <3>2, SubSeqProperties
  <2>2. part(k) = Append(p, m)
    <3>1. part(k) = p \o <<m>>
      <4>1. 1 \in 1 .. Len(t) /\ k \in 1 .. Len(t)
        BY <1>0
      <4> QED
        BY <4>1, SubSeqRecursiveSecond
    <3>2. Append(p, m) = p \o <<m>>
      <4> HIDE DEF p, m
      <4> QED
        BY <2>1, AppendIsConcat
    <3> QED
      BY <3>1, <3>2
  <2> HIDE DEF p, m
  <2>3. s \o Append(p, m) = Append(s \o p, m) /\ s \o p \in Seq(M)
    BY <2>1, AppendBehind
  <2>4. OfKind(s, w) \in Seq(M) /\ OfKind(p, w) \in Seq(M)
    BY <2>1, OfKindTyped
  <2>5. OfKind(s, w) \o Append(OfKind(p, w), m) = Append(OfKind(s, w) \o OfKind(p, w), m)
    <3> DEFINE a == OfKind(s, w)
               b == OfKind(p, w)
    <3>1. a \in Seq(M) /\ b \in Seq(M)
      BY <2>4
    <3> HIDE DEF a, b
    <3>2. a \o Append(b, m) = Append(a \o b, m)
      BY <2>1, <3>1, AppendBehind
    <3> QED
      BY <3>2 DEF a, b
  <2>6. OfKind(s \o p, w) = OfKind(s, w) \o OfKind(p, w)
    BY <1>2 DEF p
  <2>7. OfKind(Append(p, m), w) = IF m.off = w THEN Append(OfKind(p, w), m) ELSE OfKind(p, w)
    BY <2>1, OfKindAppend
  <2>8. OfKind(Append(s \o p, m), w) =
           IF m.off = w THEN Append(OfKind(s \o p, w), m) ELSE OfKind(s \o p, w)
    <3> DEFINE r == s \o p
    <3>1. r \in Seq(M)
      BY <2>3
    <3> HIDE DEF r
    <3>2. OfKind(Append(r, m), w) = IF m.off = w THEN Append(OfKind(r, w), m) ELSE OfKind(r, w)
      BY <2>1, <3>1, OfKindAppend
    <3> QED
      BY <3>2 DEF r
  <2> HIDE DEF part
  <2> QED
    BY <2>2, <2>3, <2>5, <2>6, <2>7, <2>8
<1>3. \A k \in 1 .. n : k - 1 \in Good => k \in Good
  <2> SUFFICES ASSUME NEW k \in 1 .. n, k - 1 \in Good PROVE k \in Good
    OBVIOUS
  <2>1. OfKind(s \o part(k - 1), w) = OfKind(s, w) \o OfKind(part(k - 1), w)
    <3> HIDE DEF part
    <3> QED
      OBVIOUS
  <2>2. OfKind(s \o part(k), w) = OfKind(s, w) \o OfKind(part(k), w)
    <3> HIDE DEF part, Good
    <3> QED
      BY <1>2, <2>1
  <2>3. k \in 0 .. n
    BY <1>0
  <2> HIDE DEF part
  <2> QED
    BY <2>2, <2>3
<1>4. \A k \in 0 .. n : k \in Good
  <2> HIDE DEF Good, n
  <2> QED
    BY <1>0, <1>1, <1>3, AllUpTo
<1>5. n \in Good /\ part(n) = t
  BY <1>0, <1>4, SubSeqFull
<1> HIDE DEF part, n
<1> QED
  BY <1>5

\* Where all are of the other kind there is none of this.
LEMMA OfKindNone ==
    ASSUME NEW M, NEW q \in Seq(M), NEW w, \A i \in 1 .. Len(q) : q[i].off # w
    PROVE  OfKind(q, w) = <<>>
<1>0. Len(q) \in Nat
  OBVIOUS
<1>1. PICK f : Keeps(f, M, q, w) /\ OfKind(q, w) = f[Len(q)]
  BY OfKindRuns
<1> DEFINE Good == {k \in 0 .. Len(q) : f[k] = <<>>}
<1>2. f[0] = <<>> /\ \A k \in 1 .. Len(q) : f[k] = f[k - 1]
  BY <1>1 DEF Keeps
<1>3. 0 \in Good /\ \A k \in 1 .. Len(q) : k - 1 \in Good => k \in Good
  BY <1>0, <1>2
<1>4. \A k \in 0 .. Len(q) : k \in Good
  <2> HIDE DEF Good
  <2> QED
    BY <1>0, <1>3, AllUpTo
<1> QED
  BY <1>0, <1>1, <1>4

\* The first message of a kind.
IsFirst(q, i, w) ==
    i \in 1 .. Len(q) /\ q[i].off = w /\ \A j \in 1 .. Len(q) : j < i => q[j].off # w

\* From q to r the message m, the first of kind w, has gone, the others of it
\* stay behind each other, and the other kind is as it was.
Unqueued(q, r, m, w, v) == OfKind(q, w) = <<m>> \o OfKind(r, w) /\ OfKind(q, v) = OfKind(r, v)

LEMMA OfKindFirst ==
    ASSUME NEW M, NEW q \in Seq(M), NEW i \in 1 .. Len(q), NEW w, NEW v, v # w, IsFirst(q, i, w),
           NEW x, x = q[i], NEW r, r = RemoveAt(q, i)
    PROVE  Unqueued(q, r, x, w, v)
<1>f. i \in 1 .. Len(q) /\ q[i].off = w /\ \A j \in 1 .. Len(q) : j < i => q[j].off # w
  BY DEF IsFirst
<1>0. Len(q) \in Nat /\ i - 1 \in 0 .. Len(q) /\ i \in Nat \ {0} /\ q[i] \in M
  BY <1>f
<1> DEFINE a == SubSeq(q, 1, i - 1)
           m == q[i]
           z == SubSeq(q, i + 1, Len(q))
<1>1. a \in Seq(M) /\ Len(a) = i - 1 /\ \A j \in 1 .. i - 1 : a[j] = q[j]
  <2>1. \A j \in 1 .. i - 1 : q[j] \in M
    BY <1>0
  <2>2. 1 \in Int /\ i - 1 \in Int
    BY <1>0
  <2>3. /\ a \in Seq(M) /\ Len(a) = IF 1 <= i - 1 THEN i - 1 - 1 + 1 ELSE 0
        /\ \A j \in 1 .. i - 1 - 1 + 1 : a[j] = q[1 + j - 1]
    BY <2>1, <2>2, SubSeqProperties
  <2> HIDE DEF a
  <2> QED
    BY <1>0, <2>3
<1>2. z \in Seq(M)
  <2>1. \A j \in i + 1 .. Len(q) : q[j] \in M
    BY <1>0
  <2>2. i + 1 \in Int /\ Len(q) \in Int
    BY <1>0
  <2> QED
    BY <2>1, <2>2, SubSeqProperties
<1>3. RemoveAt(q, i) = a \o z
  BY DEF RemoveAt
<1>4. q = (a \o <<m>>) \o z
  <2>1. a \o <<m>> = SubSeq(q, 1, i)
    <3>1. 1 \in 1 .. Len(q) /\ i \in 1 .. Len(q)
      BY <1>0, <1>f
    <3> QED
      BY <1>0, <3>1, SubSeqRecursiveSecond
  <2>2. SubSeq(q, 1, i) \o z = SubSeq(q, 1, Len(q))
    <3>1. /\ 1 \in 1 .. Len(q) + 1 /\ i \in 1 - 1 .. Len(q) /\ Len(q) \in i .. Len(q)
      BY <1>0, <1>f
    <3> QED
      BY <3>1, ConcatAdjacentSubSeq
  <2>3. SubSeq(q, 1, Len(q)) = q
    BY SubSeqFull
  <2> QED
    BY <2>1, <2>2, <2>3
<1>5. OfKind(a, w) = <<>>
  <2>1. \A j \in 1 .. Len(a) : a[j].off # w
    BY <1>0, <1>1, <1>f
  <2> HIDE DEF a
  <2> QED
    BY <1>1, <2>1, OfKindNone
<1>6. m \in M /\ m.off = w /\ m.off # v
  BY <1>0, <1>f
<1> HIDE DEF a, m, z
<1>7. <<m>> \in Seq(M) /\ a \o <<m>> \in Seq(M)
  <2>1. <<m>> \in Seq(M)
    BY <1>6
  <2> QED
    BY <1>1, <2>1, ConcatProperties
<1>8. \A u : /\ OfKind(q, u) = (OfKind(a, u) \o OfKind(<<m>>, u)) \o OfKind(z, u)
             /\ OfKind(RemoveAt(q, i), u) = OfKind(a, u) \o OfKind(z, u)
             /\ OfKind(a, u) \in Seq(M) /\ OfKind(z, u) \in Seq(M)
  <2> SUFFICES ASSUME NEW u
               PROVE  /\ OfKind(q, u) = (OfKind(a, u) \o OfKind(<<m>>, u)) \o OfKind(z, u)
                      /\ OfKind(RemoveAt(q, i), u) = OfKind(a, u) \o OfKind(z, u)
                      /\ OfKind(a, u) \in Seq(M) /\ OfKind(z, u) \in Seq(M)
    OBVIOUS
  <2> DEFINE one == <<m>>
             am == a \o one
  <2>0. one \in Seq(M) /\ am \in Seq(M)
    BY <1>7
  <2>1. OfKind(am \o z, u) = OfKind(am, u) \o OfKind(z, u)
    <3> HIDE DEF am
    <3> QED
      BY <1>2, <2>0, OfKindConcat
  <2>2. OfKind(am, u) = OfKind(a, u) \o OfKind(one, u)
    <3> HIDE DEF one
    <3> QED
      BY <1>1, <2>0, OfKindConcat
  <2>3. OfKind(a \o z, u) = OfKind(a, u) \o OfKind(z, u)
    BY <1>1, <1>2, OfKindConcat
  <2>4. OfKind(a, u) \in Seq(M) /\ OfKind(z, u) \in Seq(M)
    BY <1>1, <1>2, OfKindTyped
  <2> QED
    BY <1>3, <1>4, <2>1, <2>2, <2>3, <2>4
<1>9. OfKind(<<m>>, w) = <<m>> /\ OfKind(<<m>>, v) = <<>>
  BY <1>6, OfKindOne
<1>10. OfKind(q, w) = <<m>> \o OfKind(RemoveAt(q, i), w)
  <2>1. <<>> \o <<m>> = <<m>> /\ <<>> \o OfKind(z, w) = OfKind(z, w)
    BY <1>7, <1>8, ConcatEmptySeq
  <2> QED
    BY <1>5, <1>8, <1>9, <2>1
<1>11. OfKind(q, v) = OfKind(RemoveAt(q, i), v)
  <2>1. OfKind(a, v) \o <<>> = OfKind(a, v)
    BY <1>8, ConcatEmptySeq
  <2> QED
    BY <1>8, <1>9, <2>1
<1> QED
  BY <1>10, <1>11 DEF m, Unqueued

LEMMA RemoveAtKeeps ==
    ASSUME NEW S, NEW s \in Seq(S), NEW i \in 1 .. Len(s), NEW j \in 1 .. i - 1
    PROVE  RemoveAt(s, i)[j] = s[j]
<1> DEFINE a == SubSeq(s, 1, i - 1)
           z == SubSeq(s, i + 1, Len(s))
<1>0. Len(s) \in Nat /\ i \in Nat \ {0} /\ j \in Nat /\ i <= Len(s)
  OBVIOUS
<1>1. a \in Seq(S) /\ Len(a) = i - 1 /\ a[j] = s[j]
  <2>1. \A k \in 1 .. i - 1 : s[k] \in S
    BY <1>0
  <2>2. 1 \in Int /\ i - 1 \in Int
    BY <1>0
  <2>3. /\ a \in Seq(S) /\ Len(a) = IF 1 <= i - 1 THEN i - 1 - 1 + 1 ELSE 0
        /\ \A k \in 1 .. i - 1 - 1 + 1 : a[k] = s[1 + k - 1]
    BY <2>1, <2>2, SubSeqProperties
  <2> HIDE DEF a
  <2> QED
    BY <1>0, <2>3
<1>2. z \in Seq(S)
  <2>1. \A k \in i + 1 .. Len(s) : s[k] \in S
    BY <1>0
  <2>2. i + 1 \in Int /\ Len(s) \in Int
    BY <1>0
  <2> QED
    BY <2>1, <2>2, SubSeqProperties
<1>3. RemoveAt(s, i) = a \o z
  BY DEF RemoveAt
<1> HIDE DEF a, z
<1>4. Len(a) \in Nat /\ Len(z) \in Nat
  BY <1>1, <1>2
<1>5. j \in 1 .. Len(a) + Len(z) /\ j <= Len(a)
  BY <1>0, <1>1, <1>4
<1>6. \A k \in 1 .. Len(a) + Len(z) : (a \o z)[k] = IF k <= Len(a) THEN a[k] ELSE z[k - Len(a)]
  BY <1>1, <1>2, ConcatProperties
<1> QED
  BY <1>1, <1>3, <1>5, <1>6

LEMMA SplitAt ==
    ASSUME NEW S, NEW s \in Seq(S), NEW t \in Seq(S)
    PROVE  /\ SubSeq(s \o t, 1, Len(s)) = s
           /\ SubSeq(s \o t, Len(s) + 1, Len(s \o t)) = t
<1> DEFINE u == s \o t
           m == Len(s)
           n == Len(t)
<1>1. /\ m \in Nat /\ n \in Nat /\ u \in Seq(S) /\ Len(u) = m + n
      /\ \A i \in 1 .. m + n : u[i] = IF i <= m THEN s[i] ELSE t[i - m]
  BY ConcatProperties
<1>2. (\A i \in 1 .. m : s[i] \in S) /\ \A i \in 1 .. n : t[i] \in S
  OBVIOUS
<1>s. s \in Seq(S) /\ t \in Seq(S) /\ Len(s) = m /\ Len(t) = n
  OBVIOUS
<1> HIDE DEF u, m, n
<1>3. SubSeq(u, 1, m) = s
  <2> DEFINE a == SubSeq(u, 1, m)
  <2>1. \A i \in 1 .. m : i \in 1 .. m + n /\ u[i] = s[i] /\ u[i] \in S
    BY <1>1, <1>2
  <2>2. /\ a \in Seq(S) /\ Len(a) = IF 1 <= m THEN m - 1 + 1 ELSE 0
        /\ \A i \in 1 .. m - 1 + 1 : a[i] = u[1 + i - 1]
    BY <1>1, <2>1, SubSeqProperties
  <2> HIDE DEF a
  <2>3. Len(a) = m /\ \A i \in 1 .. m : a[i] = s[i]
    BY <1>1, <2>1, <2>2
  <2>4. a = s
    BY <1>s, <2>2, <2>3, SeqEqual
  <2> QED
    BY <2>4 DEF a
<1>4. SubSeq(u, m + 1, m + n) = t
  <2> DEFINE lo == m + 1
             hi == m + n
             a == SubSeq(u, lo, hi)
  <2>1. \A i \in m + 1 .. m + n : i \in 1 .. m + n /\ u[i] = t[i - m] /\ i - m \in 1 .. n
    BY <1>1
  <2>2. \A i \in m + 1 .. m + n : u[i] \in S
    BY <1>2, <2>1
  <2>3. lo \in Int /\ hi \in Int
    BY <1>1
  <2>4. /\ a \in Seq(S) /\ Len(a) = IF lo <= hi THEN hi - lo + 1 ELSE 0
        /\ \A i \in 1 .. hi - lo + 1 : a[i] = u[lo + i - 1]
    <3> HIDE DEF lo, hi
    <3> QED
      BY <2>2, <2>3, SubSeqProperties DEF lo, hi
  <2> HIDE DEF a
  <2>5. Len(a) = n
    BY <1>1, <2>4
  <2>6. \A i \in 1 .. n : i \in 1 .. hi - lo + 1 /\ lo + i - 1 = m + i
                          /\ m + i \in m + 1 .. m + n /\ m + i - m = i
    BY <1>1
  <2>7. \A i \in 1 .. n : a[i] = t[i]
    <3> SUFFICES ASSUME NEW i \in 1 .. n PROVE a[i] = t[i]
      OBVIOUS
    <3>1. a[i] = u[m + i]
      BY <2>4, <2>6
    <3>2. u[m + i] = t[i]
      <4> DEFINE x == m + i
      <4>1. x \in m + 1 .. m + n /\ x - m = i
        BY <1>1
      <4> HIDE DEF x
      <4> QED
        BY <2>1, <4>1 DEF x
    <3> QED
      BY <3>1, <3>2
  <2>8. a = t
    BY <1>s, <2>4, <2>5, <2>7, SeqEqual
  <2> QED
    BY <2>8 DEF a
<1> QED
  BY <1>1, <1>3, <1>4 DEF u, m

\* A pass for the messages of kind w (v is the other), from the ring p with o
\* taken before it: what was passed over is of the other kind, what was taken
\* came first.
Sorts(M, st, p, o, w, v) ==
    /\ \A j \in 1 .. Len(st.q) : j < st.i => st.q[j].off # w
    /\ Len(st.out) <= Budget
    /\ OfKind(st.q, v) = OfKind(p, v)
    /\ \E t \in Seq(M) : st.out = o \o t /\ t \o OfKind(st.q, w) = OfKind(p, w)

\* As long as a pass has taken nothing it has missed nothing.
Passes(st, p, o, k) == st.out = o => st.q = p /\ st.scanned = k /\ st.i = k + 1

LEMMA TurnSorts ==
    ASSUME NEW M, NEW q0 \in Seq(M), Len(q0) < RingSize, NEW st, Carries(M, st, q0),
           NEW w, NEW v, v # w, NEW p, NEW o \in Seq(M), Sorts(M, st, p, o, w, v)
    PROVE  Sorts(M, Turn(st, w), p, o, w, v)
<1>0. RingSize \in Nat \ {0} /\ Budget \in Nat
  BY RingAssumption
<1>1. /\ st.q \in Seq(M) /\ st.i \in Nat \ {0} /\ st.out \in Seq(M)
      /\ st.scanned \in Nat /\ st.total = Len(st.q) /\ st.i <= st.scanned + 1
      /\ Len(st.q) \in Nat /\ Len(st.out) \in Nat /\ Len(st.q) < RingSize
  <2>1. Len(q0) \in Nat /\ Len(st.q) <= Len(q0) /\ st \in RunsOf(M)
    BY DEF Carries, Holds
  <2>2. st.total = Len(st.q) /\ st.i <= st.scanned + 1
    BY DEF Carries
  <2>3. st.q \in Seq(M) /\ st.i \in Nat \ {0} /\ st.out \in Seq(M) /\ st.scanned \in Nat
    BY <2>1 DEF RunsOf
  <2> QED
    BY <1>0, <2>1, <2>2, <2>3
<1>2. CASE st.scanned >= st.total \/ Len(st.out) >= Budget
  BY <1>2 DEF Turn
<1>3. CASE ~(st.scanned >= st.total \/ Len(st.out) >= Budget)
  <2>1. st.i \in 1 .. Len(st.q) /\ Len(st.out) + 1 <= Budget
    BY <1>0, <1>1, <1>3
  <2>2. CASE st.q[st.i].off = w
    <3> DEFINE m == st.q[st.i]
               r == RemoveAt(st.q, st.i)
    <3>1. Turn(st, w) =
            [q |-> Compacted(st.q, st.i), i |-> st.i, out |-> Append(st.out, st.q[st.i]),
             scanned |-> st.scanned + 1, total |-> st.total - 1]
      BY <1>3, <2>2 DEF Turn
    <3>2. Compacted(st.q, st.i) = r
      BY <1>0, <1>1 DEF Compacted
    <3>3. Turn(st, w).q = r /\ Turn(st, w).i = st.i /\ Turn(st, w).out = Append(st.out, m)
      BY <3>1, <3>2
    <3>4. r \in Seq(M) /\ Len(r) = Len(st.q) - 1 /\ m \in M
      BY <1>1, <2>1, RemovedFrom
    <3>5. \A j \in 1 .. Len(r) : j < st.i => r[j].off # w
      <4> SUFFICES ASSUME NEW j \in 1 .. Len(r), j < st.i PROVE r[j].off # w
        OBVIOUS
      <4>1. j \in 1 .. st.i - 1 /\ j \in 1 .. Len(st.q)
        BY <1>1, <3>4
      <4>2. r[j] = st.q[j]
        BY <1>1, <2>1, <4>1, RemoveAtKeeps
      <4> QED
        BY <4>1, <4>2 DEF Sorts
    <3>6. /\ OfKind(st.q, w) = <<m>> \o OfKind(r, w)
          /\ OfKind(st.q, v) = OfKind(r, v)
      <4>1. \A j \in 1 .. Len(st.q) : j < st.i => st.q[j].off # w
        BY DEF Sorts
      <4>2. IsFirst(st.q, st.i, w)
        BY <2>1, <2>2, <4>1 DEF IsFirst
      <4>3. m = st.q[st.i] /\ r = RemoveAt(st.q, st.i)
        OBVIOUS
      <4> HIDE DEF m, r
      <4> DEFINE q == st.q
                 i == st.i
      <4>4. q \in Seq(M) /\ i \in 1 .. Len(q) /\ IsFirst(q, i, w) /\ m = q[i] /\ r = RemoveAt(q, i)
        BY <1>1, <2>1, <4>2, <4>3
      <4> HIDE DEF q, i
      <4>5. Unqueued(q, r, m, w, v)
        BY <4>4, OfKindFirst
      <4> QED
        BY <4>5 DEF Unqueued, q
    <3> HIDE DEF m, r
    <3>7. PICK t \in Seq(M) : st.out = o \o t /\ t \o OfKind(st.q, w) = OfKind(p, w)
      BY DEF Sorts
    <3> DEFINE one == <<m>>
               u == t \o one
               z == OfKind(r, w)
    <3>8. one \in Seq(M) /\ z \in Seq(M)
      BY <3>4, OfKindTyped
    <3> HIDE DEF one, z
    <3>9. u \in Seq(M)
      BY <3>8, ConcatProperties
    <3>10. Append(st.out, m) = o \o u
      <4>1. Append(st.out, m) = st.out \o one
        BY <1>1, <3>4, AppendIsConcat DEF one
      <4>2. (o \o t) \o one = o \o (t \o one)
        BY <3>8, ConcatAssociative
      <4> QED
        BY <3>7, <4>1, <4>2
    <3>11. u \o z = OfKind(p, w)
      <4>1. (t \o one) \o z = t \o (one \o z)
        BY <3>8, ConcatAssociative
      <4> QED
        BY <3>6, <3>7, <4>1 DEF one, z
    <3>12. Len(Append(st.out, m)) = Len(st.out) + 1
      BY <1>1, <3>4, AppendProperties
    <3>13. OfKind(r, v) = OfKind(p, v)
      BY <3>6 DEF Sorts
    <3> HIDE DEF u
    <3> QED
      BY <2>1, <3>3, <3>5, <3>9, <3>10, <3>11, <3>12, <3>13 DEF Sorts, z
  <2>3. CASE st.q[st.i].off # w
    <3>1. Turn(st, w) = [st EXCEPT !.i = @ + 1, !.scanned = @ + 1]
      BY <1>3, <2>3 DEF Turn
    <3>2. /\ Turn(st, w).q = st.q /\ Turn(st, w).out = st.out
          /\ Turn(st, w).i = st.i + 1
      BY <3>1 DEF Carries, Holds, RunsOf
    <3>3. \A j \in 1 .. Len(st.q) : j < st.i + 1 => j < st.i \/ j = st.i
      BY <1>1
    <3>4. \A j \in 1 .. Len(st.q) : j < st.i + 1 => st.q[j].off # w
      BY <2>3, <3>3 DEF Sorts
    <3> QED
      BY <3>2, <3>4 DEF Sorts
  <2> QED
    BY <2>2, <2>3
<1> QED
  BY <1>2, <1>3

LEMMA TurnPasses ==
    ASSUME NEW M, NEW q0 \in Seq(M), NEW st, Carries(M, st, q0), NEW w, NEW v,
           NEW p, NEW o \in Seq(M), Sorts(M, st, p, o, w, v), Len(o) < Budget,
           NEW k \in Nat, k < Len(p), Passes(st, p, o, k)
    PROVE  Passes(Turn(st, w), p, o, k + 1)
<1> SUFFICES ASSUME Turn(st, w).out = o
             PROVE  Turn(st, w).q = p /\ Turn(st, w).scanned = k + 1 /\ Turn(st, w).i = k + 1 + 1
  BY DEF Passes
<1>1. /\ st.q \in Seq(M) /\ st.out \in Seq(M) /\ st.scanned \in Nat /\ st.i \in Nat
      /\ st.total = Len(st.q) /\ st.i <= st.scanned + 1
      /\ Len(st.out) \in Nat /\ Len(o) \in Nat /\ Len(st.q) \in Nat
  BY DEF Carries, Holds, RunsOf
<1>2. Len(st.out) >= Len(o)
  <2>1. PICK t \in Seq(M) : st.out = o \o t
    BY DEF Sorts
  <2>2. Len(t) \in Nat /\ Len(o \o t) = Len(o) + Len(t)
    BY ConcatProperties
  <2> QED
    BY <1>1, <2>1, <2>2
<1>3. Budget \in Nat
  BY RingAssumption
<1>4. CASE st.scanned >= st.total \/ Len(st.out) >= Budget
  <2>1. Turn(st, w) = st
    BY <1>4 DEF Turn
  <2>2. st.q = p /\ st.scanned = k /\ st.out = o
    BY <2>1 DEF Passes
  <2> QED
    BY <1>1, <1>3, <1>4, <2>2
<1>5. CASE ~(st.scanned >= st.total \/ Len(st.out) >= Budget)
  <2>1. CASE st.q[st.i].off = w
    <3>1. Turn(st, w).out = Append(st.out, st.q[st.i])
      BY <1>5, <2>1 DEF Turn
    <3>2. st.i \in 1 .. Len(st.q)
      <4>1. st.i \in Nat \ {0}
        BY DEF Carries, Holds, RunsOf
      <4> QED
        BY <1>1, <1>5, <4>1
    <3>3. st.q[st.i] \in M
      BY <1>1, <3>2
    <3>4. Len(Append(st.out, st.q[st.i])) = Len(st.out) + 1
      BY <1>1, <3>3, AppendProperties
    <3> QED
      BY <1>1, <1>2, <3>1, <3>4
  <2>2. CASE st.q[st.i].off # w
    <3>1. Turn(st, w) = [st EXCEPT !.i = @ + 1, !.scanned = @ + 1]
      BY <1>5, <2>2 DEF Turn
    <3>2. /\ Turn(st, w).q = st.q /\ Turn(st, w).out = st.out
          /\ Turn(st, w).i = st.i + 1 /\ Turn(st, w).scanned = st.scanned + 1
      BY <3>1 DEF Carries, Holds, RunsOf
    <3> QED
      BY <3>2 DEF Passes
  <2> QED
    BY <2>1, <2>2
<1> QED
  BY <1>4, <1>5

\* A pass for the messages of kind w from the state st has ended at e.
PassedFor(M, st, e, w, v) ==
    /\ Sorts(M, e, st.q, st.out, w, v)
    /\ Len(st.out) < Budget /\ e.out = st.out => OfKind(st.q, w) = <<>>

LEMMA PassSorts ==
    ASSUME NEW M, NEW q0 \in Seq(M), Len(q0) < RingSize, NEW st, Holds(M, st, q0),
           Len(st.out) <= Budget, NEW w, NEW v, v # w
    PROVE  PassedFor(M, st, Pass(st, w), w, v)
<1> DEFINE p == st.q
           o == st.out
           n == Len(p)
           Fine(x, k) == /\ Carries(M, x, q0) /\ Sorts(M, x, p, o, w, v)
                         /\ Len(o) < Budget => Passes(x, p, o, k)
<1>s. n \in Nat /\ p \in Seq(M) /\ o \in Seq(M) /\ Len(o) <= Budget
  BY DEF Holds, RunsOf
<1>1. Pass(st, w) = (CHOOSE f : Turns(f, st, w))[n]
  BY DEF Pass, Turns, Begun
<1>2. PICK f : Turns(f, st, w) /\ Pass(st, w) = f[n]
  BY <1>1, TurnsExist
<1>3. \A k \in 0 .. n : f[k] = IF k = 0 THEN Begun(st) ELSE Turn(f[k - 1], w)
  BY <1>2 DEF Turns
<1>4. Fine(Begun(st), 0)
  <2>1. Carries(M, Begun(st), q0)
    BY BegunCarries
  <2>2. Begun(st).q = p /\ Begun(st).out = o /\ Begun(st).i = 1 /\ Begun(st).scanned = 0
    BY DEF Begun, Holds, RunsOf
  <2>3. \A j \in 1 .. Len(p) : ~(j < 1)
    BY <1>s
  <2>4. OfKind(p, w) \in Seq(M)
    BY <1>s, OfKindTyped
  <2> DEFINE t == <<>>
             z == OfKind(p, w)
  <2>5. t \in Seq(M) /\ o = o \o t /\ t \o z = z
    BY <1>s, <2>4, ConcatEmptySeq
  <2> HIDE DEF p, o
  <2>6. Sorts(M, Begun(st), p, o, w, v)
    <3> HIDE DEF t
    <3> QED
      BY <1>s, <2>2, <2>3, <2>5 DEF Sorts
  <2>7. Passes(Begun(st), p, o, 0)
    BY <2>2 DEF Passes
  <2> QED
    BY <2>1, <2>6, <2>7
<1> HIDE DEF p, o
<1>5. ASSUME NEW k \in 1 .. n, Fine(f[k - 1], k - 1) PROVE Fine(f[k], k)
  <2> DEFINE x == f[k - 1]
             h == k - 1
  <2>1. k \in 0 .. n /\ k # 0 /\ h \in Nat /\ h < n /\ h + 1 = k
    BY <1>s
  <2>2. f[k] = Turn(x, w)
    BY <1>3, <2>1
  <2> HIDE DEF x, n
  <2>3. Carries(M, x, q0) /\ Sorts(M, x, p, o, w, v) /\ (Len(o) < Budget => Passes(x, p, o, h))
    BY <1>5 DEF x
  <2> HIDE DEF h
  <2>4. Carries(M, Turn(x, w), q0)
    BY <2>3, TurnCarries
  <2>5. Sorts(M, Turn(x, w), p, o, w, v)
    BY <1>s, <2>3, TurnSorts
  <2>6. Len(o) < Budget => Passes(Turn(x, w), p, o, h + 1)
    BY <1>s, <2>1, <2>3, TurnPasses DEF n
  <2> QED
    BY <2>1, <2>2, <2>4, <2>5, <2>6
<1>6. Fine(f[n], n)
  <2> DEFINE Good == {k \in 0 .. n : Fine(f[k], k)}
  <2>1. 0 \in Good
    <3>1. 0 \in 0 .. n
      BY <1>s
    <3>2. f[0] = Begun(st)
      BY <1>3, <3>1
    <3> HIDE DEF Fine, n
    <3> QED
      BY <1>4, <3>1, <3>2
  <2>2. \A k \in 1 .. n : k - 1 \in Good => k \in Good
    <3> SUFFICES ASSUME NEW k \in 1 .. n, k - 1 \in Good PROVE k \in Good
      OBVIOUS
    <3>1. k \in 0 .. n
      BY <1>s
    <3> HIDE DEF Fine, n
    <3> QED
      BY <1>5, <3>1
  <2>3. \A k \in 0 .. n : k \in Good
    <3> HIDE DEF Good, n
    <3> QED
      BY <1>s, <2>1, <2>2, AllUpTo
  <2>4. n \in Good
    <3> HIDE DEF Good
    <3> QED
      BY <1>s, <2>3
  <2> HIDE DEF Fine, n
  <2> QED
    BY <2>4
<1>7. Carries(M, f[n], q0) /\ Sorts(M, f[n], p, o, w, v)
      /\ (Len(o) < Budget => Passes(f[n], p, o, n))
  BY <1>6
<1>8. ASSUME Len(o) < Budget, f[n].out = o PROVE OfKind(p, w) = <<>>
  <2>1. f[n].q = p /\ f[n].i = n + 1
    BY <1>7, <1>8 DEF Passes
  <2>2. \A j \in 1 .. Len(f[n].q) : j < f[n].i => f[n].q[j].off # w
    BY <1>7 DEF Sorts
  <2>3. \A j \in 1 .. Len(p) : j < n + 1
    BY <1>s
  <2>4. \A j \in 1 .. Len(p) : p[j].off # w
    BY <2>1, <2>2, <2>3
  <2> QED
    BY <1>s, <2>4, OfKindNone
<1> QED
  BY <1>2, <1>7, <1>8 DEF PassedFor, p, o

-----------------------------------------------------------------------------
(* How many messages are of a kind.                                        *)

\* Every message of q is of kind w or of kind v.
TwoKinds(q, w, v) == w # v /\ \A i \in 1 .. Len(q) : q[i].off = w \/ q[i].off = v

LEMMA OfKindLens ==
    ASSUME NEW M, NEW q \in Seq(M), NEW w, NEW v, TwoKinds(q, w, v)
    PROVE  Len(OfKind(q, w)) + Len(OfKind(q, v)) = Len(q)
<1> DEFINE n == Len(q)
<1>0. n \in Nat
  OBVIOUS
<1>1. PICK f : Keeps(f, M, q, w) /\ OfKind(q, w) = f[n]
  BY OfKindRuns
<1>2. PICK g : Keeps(g, M, q, v) /\ OfKind(q, v) = g[n]
  BY OfKindRuns
<1>3. /\ \A k \in 0 .. n : f[k] \in Seq(M) /\ g[k] \in Seq(M)
      /\ f[0] = <<>> /\ g[0] = <<>>
  BY <1>1, <1>2 DEF Keeps
<1> DEFINE Good == {k \in 0 .. n : Len(f[k]) + Len(g[k]) = k}
<1>4. 0 \in Good
  <2>1. Len(f[0]) + Len(g[0]) = 0
    <3>1. Len(<<>>) = 0
      OBVIOUS
    <3> QED
      BY <1>3, <3>1
  <2>2. 0 \in 0 .. n
    BY <1>0
  <2> HIDE DEF n
  <2> QED
    BY <2>1, <2>2
<1>5. ASSUME NEW k \in 1 .. n, k - 1 \in Good PROVE k \in Good
  <2> DEFINE j == k - 1
             a == f[j]
             c == g[j]
             x == q[k]
  <2>1. k \in 0 .. n /\ j \in 0 .. n /\ x \in M /\ j + 1 = k
    BY <1>0
  <2>2. a \in Seq(M) /\ c \in Seq(M) /\ Len(a) + Len(c) = j
    BY <1>3, <1>5, <2>1
  <2>3. /\ f[k] = IF x.off = w THEN Append(a, x) ELSE a
        /\ g[k] = IF x.off = v THEN Append(c, x) ELSE c
        /\ w # v /\ (x.off = w \/ x.off = v)
    BY <1>1, <1>2 DEF Keeps, TwoKinds
  <2> HIDE DEF a, c, x, j
  <2>4. Len(Append(a, x)) = Len(a) + 1 /\ Len(Append(c, x)) = Len(c) + 1
    BY <2>1, <2>2
  <2>5. Len(a) \in Nat /\ Len(c) \in Nat /\ j \in Nat
    BY <2>1, <2>2
  <2>6. Len(f[k]) + Len(g[k]) = k
    <3>1. CASE x.off = w
      <4>1. f[k] = Append(a, x) /\ g[k] = c
        BY <2>3, <3>1
      <4>2. Len(f[k]) = Len(a) + 1 /\ Len(g[k]) = Len(c)
        BY <2>4, <4>1
      <4> QED
        BY <2>1, <2>2, <2>5, <4>2
    <3>2. CASE x.off = v
      <4>1. f[k] = a /\ g[k] = Append(c, x)
        BY <2>3, <3>2
      <4>2. Len(f[k]) = Len(a) /\ Len(g[k]) = Len(c) + 1
        BY <2>4, <4>1
      <4> QED
        BY <2>1, <2>2, <2>5, <4>2
    <3> QED
      BY <2>3, <3>1, <3>2
  <2> QED
    BY <2>1, <2>6
<1>6. \A k \in 0 .. n : k \in Good
  <2> HIDE DEF Good, n
  <2> QED
    BY <1>0, <1>4, <1>5, AllUpTo
<1>7. n \in Good
  <2> HIDE DEF Good
  <2> QED
    BY <1>0, <1>6
<1> QED
  BY <1>1, <1>2, <1>7

LEMMA OfKindAll ==
    ASSUME NEW M, NEW q \in Seq(M), NEW w, \A i \in 1 .. Len(q) : q[i].off = w
    PROVE  OfKind(q, w) = q
<1> DEFINE n == Len(q)
           part(k) == SubSeq(q, 1, k)
<1>0. n \in Nat
  OBVIOUS
<1>1. PICK f : Keeps(f, M, q, w) /\ OfKind(q, w) = f[n]
  BY OfKindRuns
<1>2. f[0] = <<>> /\ \A k \in 1 .. n : f[k] = Append(f[k - 1], q[k])
  BY <1>1 DEF Keeps
<1> DEFINE Good == {k \in 0 .. n : f[k] = part(k)}
<1>3. 0 \in Good
  <2>1. part(0) = <<>>
    BY SubSeqEmpty
  <2>2. 0 \in 0 .. n
    BY <1>0
  <2> HIDE DEF part, n
  <2> QED
    BY <1>2, <2>1, <2>2
<1>4. ASSUME NEW k \in 1 .. n, k - 1 \in Good PROVE k \in Good
  <2> DEFINE j == k - 1
  <2>1. k \in 0 .. n /\ j \in 0 .. n /\ j + 1 = k /\ j \in Nat /\ j < n
    BY <1>0
  <2>2. f[j] = part(j) /\ f[k] = Append(f[j], q[k])
    BY <1>2, <1>4
  <2>3. part(j + 1) = Append(part(j), q[j + 1])
    <3> DEFINE a == part(j)
               c == part(k)
    <3>1. \A i \in 1 .. n : q[i] \in M
      OBVIOUS
    <3>2. /\ a \in Seq(M) /\ Len(a) = j /\ \A i \in 1 .. j : a[i] = q[i]
      <4>1. \A i \in 1 .. j : q[i] \in M
        BY <2>1, <3>1
      <4>2. 1 \in Int /\ j \in Int
        BY <2>1
      <4> HIDE DEF j
      <4>3. /\ a \in Seq(M) /\ Len(a) = IF 1 <= j THEN j - 1 + 1 ELSE 0
            /\ \A i \in 1 .. j - 1 + 1 : a[i] = q[1 + i - 1]
        BY <4>1, <4>2, SubSeqProperties
      <4> HIDE DEF a
      <4> QED
        BY <2>1, <4>3
    <3>3. /\ c \in Seq(M) /\ Len(c) = k /\ \A i \in 1 .. k : c[i] = q[i]
      <4>1. \A i \in 1 .. k : q[i] \in M
        BY <1>0, <3>1
      <4>2. 1 \in Int /\ k \in Int
        BY <2>1
      <4>3. /\ c \in Seq(M) /\ Len(c) = IF 1 <= k THEN k - 1 + 1 ELSE 0
            /\ \A i \in 1 .. k - 1 + 1 : c[i] = q[1 + i - 1]
        BY <4>1, <4>2, SubSeqProperties
      <4> HIDE DEF c
      <4> QED
        BY <2>1, <4>3
    <3> DEFINE d == Append(a, q[k])
    <3> HIDE DEF a, c
    <3>4. /\ d \in Seq(M) /\ Len(d) = j + 1 /\ d[j + 1] = q[k]
          /\ \A i \in 1 .. j : d[i] = a[i]
      BY <3>1, <3>2, AppendProperties
    <3> HIDE DEF d, j, n
    <3>5. \A i \in 1 .. k : c[i] = d[i]
      <4> SUFFICES ASSUME NEW i \in 1 .. k PROVE c[i] = d[i]
        OBVIOUS
      <4>1. i \in 1 .. j \/ i = k
        BY <2>1
      <4> QED
        BY <2>1, <3>2, <3>3, <3>4, <4>1
    <3>6. c = d
      BY <2>1, <3>3, <3>4, <3>5, SeqEqual
    <3> QED
      BY <2>1, <3>6 DEF c, d, a
  <2> HIDE DEF j, part
  <2> QED
    BY <2>1, <2>2, <2>3
<1>5. \A k \in 0 .. n : k \in Good
  <2> HIDE DEF Good, n
  <2> QED
    BY <1>0, <1>3, <1>4, AllUpTo
<1>6. f[n] = part(n)
  <2>1. n \in Good
    <3> HIDE DEF Good
    <3> QED
      BY <1>0, <1>5
  <2> QED
    BY <2>1
<1>7. part(n) = q
  BY <1>0, SubSeqFull
<1> HIDE DEF part, n
<1> QED
  BY <1>1, <1>6, <1>7

\* A message of a kind is in the queue of that kind.
LEMMA OfKindHas ==
    ASSUME NEW M, NEW q \in Seq(M), NEW w, NEW x \in Range(q), x.off = w
    PROVE  \E i \in 1 .. Len(OfKind(q, w)) : OfKind(q, w)[i] = x
<1> DEFINE n == Len(q)
           In(s) == \E i \in 1 .. Len(s) : s[i] = x
<1>0. n \in Nat
  OBVIOUS
<1>1. PICK f : Keeps(f, M, q, w) /\ OfKind(q, w) = f[n]
  BY OfKindRuns
<1>2. PICK p \in 1 .. n : q[p] = x
  BY RangeIs
<1>3. \A k \in 0 .. n : f[k] \in Seq(M)
  BY <1>1 DEF Keeps
<1> DEFINE Good == {k \in 0 .. n : k >= p => In(f[k])}
<1>4. 0 \in Good
  BY <1>0
<1>5. ASSUME NEW k \in 1 .. n, k - 1 \in Good PROVE k \in Good
  <2> DEFINE j == k - 1
             a == f[j]
             y == q[k]
             d == Append(a, y)
  <2>1. k \in 0 .. n /\ j \in 0 .. n /\ y \in M
    BY <1>0
  <2>2. f[k] = IF y.off = w THEN d ELSE a
    BY <1>1 DEF Keeps
  <2>3. a \in Seq(M) /\ Len(a) \in Nat
    BY <1>3, <2>1
  <2>4. k > p => In(a)
    BY <1>5
  <2>5. k = p => y = x
    BY <1>2
  <2> HIDE DEF a, y, j
  <2>6. Len(d) = Len(a) + 1 /\ d[Len(a) + 1] = y /\ \A i \in 1 .. Len(a) : d[i] = a[i]
    BY <2>1, <2>3, AppendProperties
  <2> HIDE DEF d
  <2>7. CASE k = p
    <3>1. Len(a) + 1 \in 1 .. Len(d) /\ d[Len(a) + 1] = x
      BY <2>3, <2>5, <2>6, <2>7
    <3>2. f[k] = d
      BY <2>2, <2>5, <2>7
    <3> QED
      BY <2>1, <3>1, <3>2
  <2>8. CASE k > p
    <3>1. PICK i \in 1 .. Len(a) : a[i] = x
      BY <2>4, <2>8
    <3>2. i \in 1 .. Len(d) /\ d[i] = x
      BY <2>3, <2>6, <3>1
    <3>3. In(f[k])
      BY <2>2, <3>1, <3>2
    <3> QED
      BY <2>1, <3>3
  <2>9. CASE k < p
    BY <2>1, <2>9
  <2>10. k \in Nat /\ p \in Nat
    OBVIOUS
  <2>11. k = p \/ k > p \/ k < p
    BY <2>10
  <2> QED
    BY <2>7, <2>8, <2>9, <2>11
<1>6. \A k \in 0 .. n : k \in Good
  <2> HIDE DEF Good, n
  <2> QED
    BY <1>0, <1>4, <1>5, AllUpTo
<1>7. n \in Good /\ n >= p
  <2> HIDE DEF Good
  <2> QED
    BY <1>0, <1>6
<1> QED
  BY <1>1, <1>7

-----------------------------------------------------------------------------
(* How much a drain takes.                                                 *)

\* A pass is n cells at most from its end, counting what it takes twice.
Nears(st, n, k) ==
    st.scanned - st.total >= k - n \/ st.scanned >= st.total \/ Len(st.out) >= Budget

\* What a pass has scanned is what it passed over and what it took.
Counts(st, o, n) ==
    /\ st.scanned = (st.i - 1) + (Len(st.out) - Len(o))
    /\ Len(st.q) = n - (Len(st.out) - Len(o))
    /\ Len(st.out) >= Len(o)
    /\ st.i - 1 <= Len(st.q)

LEMMA TurnCounts ==
    ASSUME NEW M, NEW q0 \in Seq(M), Len(q0) < RingSize, NEW st, Carries(M, st, q0),
           NEW w, NEW o \in Seq(M), NEW n \in Nat, NEW k \in Nat,
           Counts(st, o, n), Nears(st, n, k)
    PROVE  Counts(Turn(st, w), o, n) /\ Nears(Turn(st, w), n, k + 1)
<1>0. RingSize \in Nat \ {0} /\ Budget \in Nat
  BY RingAssumption
<1>1. /\ st \in RunsOf(M) /\ Len(st.q) <= Len(q0) /\ Len(q0) \in Nat
      /\ st.total = Len(st.q)
  BY DEF Carries, Holds
<1>2. /\ st.q \in Seq(M) /\ st.i \in Nat \ {0} /\ st.out \in Seq(M)
      /\ st.scanned \in Nat /\ Len(st.q) \in Nat /\ Len(st.out) \in Nat /\ Len(o) \in Nat
      /\ Len(st.q) < RingSize
  <2>1. st.q \in Seq(M) /\ st.i \in Nat \ {0} /\ st.out \in Seq(M) /\ st.scanned \in Nat
    BY <1>1 DEF RunsOf
  <2> QED
    BY <1>0, <1>1, <2>1
<1>3. CASE st.scanned >= st.total \/ Len(st.out) >= Budget
  BY <1>3 DEF Turn, Nears
<1>4. CASE ~(st.scanned >= st.total \/ Len(st.out) >= Budget)
  <2>1. st.i \in 1 .. Len(st.q)
    <3>1. st.i <= st.scanned + 1
      BY DEF Carries
    <3> QED
      BY <1>1, <1>2, <1>4, <3>1
  <2>2. st.scanned - st.total >= k - n
    BY <1>4 DEF Nears
  <2>3. CASE st.q[st.i].off = w
    <3> DEFINE m == st.q[st.i]
               r == RemoveAt(st.q, st.i)
    <3>1. Turn(st, w) =
            [q |-> Compacted(st.q, st.i), i |-> st.i, out |-> Append(st.out, st.q[st.i]),
             scanned |-> st.scanned + 1, total |-> st.total - 1]
      BY <1>4, <2>3 DEF Turn
    <3>2. Compacted(st.q, st.i) = r
      BY <1>0, <1>2 DEF Compacted
    <3>3. /\ Turn(st, w).q = r /\ Turn(st, w).i = st.i /\ Turn(st, w).out = Append(st.out, m)
          /\ Turn(st, w).scanned = st.scanned + 1 /\ Turn(st, w).total = st.total - 1
      BY <3>1, <3>2
    <3>4. Len(r) = Len(st.q) - 1 /\ m \in M
      BY <1>2, <2>1, RemovedFrom
    <3>5. Len(Append(st.out, m)) = Len(st.out) + 1
      BY <1>2, <3>4, AppendProperties
    <3> HIDE DEF m, r
    <3>6. Counts(Turn(st, w), o, n)
      <4> DEFINE e == Turn(st, w)
                 a == Append(st.out, m)
      <4>1. e.q = r /\ e.i = st.i /\ e.out = a /\ e.scanned = st.scanned + 1
        BY <3>3
      <4>2. Len(a) = Len(st.out) + 1
        BY <3>5
      <4> HIDE DEF e, a
      <4>3. /\ st.scanned = (st.i - 1) + (Len(st.out) - Len(o))
            /\ Len(st.q) = n - (Len(st.out) - Len(o))
            /\ Len(st.out) >= Len(o)
        BY DEF Counts
      <4>7. Len(e.out) = Len(st.out) + 1 /\ Len(e.q) = Len(st.q) - 1
        BY <3>4, <4>1, <4>2
      <4>4. e.scanned = (e.i - 1) + (Len(e.out) - Len(o))
        BY <1>2, <4>1, <4>3, <4>7
      <4>5. Len(e.q) = n - (Len(e.out) - Len(o)) /\ Len(e.out) >= Len(o)
        BY <1>2, <4>3, <4>7
      <4>6. e.i - 1 <= Len(e.q)
        BY <1>2, <2>1, <3>4, <4>1
      <4> QED
        BY <4>4, <4>5, <4>6 DEF Counts, e
    <3>7. Nears(Turn(st, w), n, k + 1)
      BY <1>1, <1>2, <2>2, <3>3 DEF Nears
    <3> QED
      BY <3>6, <3>7
  <2>4. CASE st.q[st.i].off # w
    <3>1. Turn(st, w) = [st EXCEPT !.i = @ + 1, !.scanned = @ + 1]
      BY <1>4, <2>4 DEF Turn
    <3>2. /\ Turn(st, w).q = st.q /\ Turn(st, w).out = st.out /\ Turn(st, w).total = st.total
          /\ Turn(st, w).i = st.i + 1 /\ Turn(st, w).scanned = st.scanned + 1
      BY <1>1, <3>1 DEF RunsOf
    <3>3. Counts(Turn(st, w), o, n)
      <4> DEFINE e == Turn(st, w)
      <4>1. e.q = st.q /\ e.out = st.out /\ e.i = st.i + 1 /\ e.scanned = st.scanned + 1
        BY <3>2
      <4> HIDE DEF e
      <4>2. /\ st.scanned = (st.i - 1) + (Len(st.out) - Len(o))
            /\ Len(st.q) = n - (Len(st.out) - Len(o))
            /\ Len(st.out) >= Len(o)
        BY DEF Counts
      <4>3. Len(e.out) = Len(st.out) /\ Len(e.q) = Len(st.q)
        BY <4>1
      <4>4. e.scanned = (e.i - 1) + (Len(e.out) - Len(o))
        <5>1. st.scanned + 1 = ((st.i + 1) - 1) + (Len(st.out) - Len(o))
          <6> DEFINE s == st.scanned
                     i == st.i
                     a == Len(st.out)
                     c == Len(o)
          <6>1. s \in Int /\ i \in Int /\ a \in Int /\ c \in Int
            BY <1>2
          <6>2. s = (i - 1) + (a - c)
            BY <4>2
          <6> HIDE DEF s, i, a, c
          <6>3. s + 1 = ((i + 1) - 1) + (a - c)
            BY <6>1, <6>2
          <6> QED
            BY <6>3 DEF s, i, a, c
        <5> QED
          BY <4>1, <4>3, <5>1
      <4>5. e.i - 1 <= Len(e.q)
        BY <1>2, <2>1, <4>1, <4>3
      <4> QED
        BY <4>1, <4>2, <4>3, <4>4, <4>5 DEF Counts, e
    <3>4. Nears(Turn(st, w), n, k + 1)
      BY <1>1, <1>2, <2>2, <3>2 DEF Nears
    <3> QED
      BY <3>3, <3>4
  <2> QED
    BY <2>3, <2>4
<1> QED
  BY <1>3, <1>4

\* The cells in front of cell i, all of kind v, are counted in the queue of v.
LEMMA FrontCounts ==
    ASSUME NEW M, NEW q \in Seq(M), NEW i \in 1 .. Len(q) + 1, NEW v,
           \A j \in 1 .. Len(q) : j < i => q[j].off = v
    PROVE  i - 1 <= Len(OfKind(q, v))
<1> DEFINE a == SubSeq(q, 1, i - 1)
           z == SubSeq(q, i, Len(q))
<1>0. Len(q) \in Nat /\ i \in Nat \ {0} /\ i <= Len(q) + 1
  OBVIOUS
<1>1. a \in Seq(M) /\ Len(a) = i - 1 /\ \A j \in 1 .. i - 1 : a[j] = q[j]
  <2>1. \A k \in 1 .. i - 1 : q[k] \in M
    BY <1>0
  <2>2. 1 \in Int /\ i - 1 \in Int
    BY <1>0
  <2>3. /\ a \in Seq(M) /\ Len(a) = IF 1 <= i - 1 THEN i - 1 - 1 + 1 ELSE 0
        /\ \A k \in 1 .. i - 1 - 1 + 1 : a[k] = q[1 + k - 1]
    BY <2>1, <2>2, SubSeqProperties
  <2> HIDE DEF a
  <2> QED
    BY <1>0, <2>3
<1>2. /\ z \in Seq(M) /\ Len(z) = Len(q) - (i - 1)
      /\ \A k \in 1 .. Len(q) - (i - 1) : z[k] = q[(i - 1) + k]
  <2>1. \A k \in i .. Len(q) : q[k] \in M
    BY <1>0
  <2>2. i \in Int /\ Len(q) \in Int
    BY <1>0
  <2>3. /\ z \in Seq(M) /\ Len(z) = IF i <= Len(q) THEN Len(q) - i + 1 ELSE 0
        /\ \A k \in 1 .. Len(q) - i + 1 : z[k] = q[i + k - 1]
    BY <2>1, <2>2, SubSeqProperties
  <2> HIDE DEF z
  <2>4. Len(q) - i + 1 = Len(q) - (i - 1)
    BY <1>0
  <2>5. \A k \in 1 .. Len(q) - (i - 1) : k \in 1 .. Len(q) - i + 1 /\ i + k - 1 = (i - 1) + k
    BY <1>0
  <2>6. Len(z) = Len(q) - (i - 1)
    BY <1>0, <2>3
  <2>7. \A k \in 1 .. Len(q) - (i - 1) : z[k] = q[(i - 1) + k]
    BY <2>3, <2>5
  <2> QED
    BY <2>3, <2>6, <2>7
<1> HIDE DEF a, z
<1> DEFINE u == a \o z
<1>3. q = u
  <2>1. /\ u \in Seq(M) /\ Len(u) = Len(a) + Len(z)
        /\ \A k \in 1 .. Len(a) + Len(z) : u[k] = IF k <= Len(a) THEN a[k] ELSE z[k - Len(a)]
    BY <1>1, <1>2, ConcatProperties
  <2> HIDE DEF u
  <2>2. Len(u) = Len(q)
    BY <1>0, <1>1, <1>2, <2>1
  <2>3. ASSUME NEW k \in 1 .. Len(q) PROVE u[k] = q[k]
    <3>1. k \in 1 .. Len(a) + Len(z)
      BY <1>0, <1>1, <1>2
    <3>2. CASE k <= i - 1
      <4>1. k \in 1 .. i - 1
        BY <1>0, <3>2
      <4> QED
        BY <1>1, <2>1, <3>1, <4>1
    <3>3. CASE ~(k <= i - 1)
      <4> DEFINE j == k - (i - 1)
      <4>1. j \in 1 .. Len(q) - (i - 1) /\ (i - 1) + j = k
        BY <1>0, <3>3
      <4>2. u[k] = z[j]
        BY <1>0, <1>1, <2>1, <3>1, <3>3
      <4> HIDE DEF j
      <4> QED
        BY <1>2, <4>1, <4>2
    <3> QED
      BY <3>2, <3>3
  <2> QED
    BY <2>1, <2>2, <2>3, SeqEqual
<1> HIDE DEF u
<1>4. OfKind(a, v) = a
  <2>1. \A j \in 1 .. Len(a) : a[j].off = v
    <3>1. \A j \in 1 .. i - 1 : j \in 1 .. Len(q) /\ j < i
      BY <1>0
    <3> QED
      BY <1>1, <3>1
  <2> QED
    BY <1>1, <2>1, OfKindAll
<1>5. OfKind(u, v) = OfKind(a, v) \o OfKind(z, v)
  BY <1>1, <1>2, OfKindConcat DEF u
<1> DEFINE y == OfKind(z, v)
<1>6. y \in Seq(M)
  BY <1>2, OfKindTyped
<1>7. OfKind(q, v) = a \o y
  BY <1>3, <1>4, <1>5
<1> HIDE DEF y
<1>8. Len(a \o y) = (i - 1) + Len(y) /\ Len(y) \in Nat
  <2>1. Len(a \o y) = Len(a) + Len(y)
    BY <1>1, <1>6, ConcatProperties
  <2>2. Len(y) \in Nat
    BY <1>6
  <2> QED
    BY <1>1, <2>1, <2>2
<1> QED
  BY <1>0, <1>7, <1>8

\* A pass over all that is of kind w or v takes half of w, unless the budget
\* stops it.
TakesHalf(st, e, w) ==
    \/ Len(OfKind(st.q, w)) <= 2 * (Len(e.out) - Len(st.out))
    \/ Len(e.out) >= Budget

Kinds(M, w, v) == w # v /\ \A x \in M : x.off = w \/ x.off = v

LEMMA PassTakes ==
    ASSUME NEW M, NEW q0 \in Seq(M), Len(q0) < RingSize, NEW st, Holds(M, st, q0),
           Len(st.out) <= Budget, NEW w, NEW v, Kinds(M, w, v)
    PROVE  TakesHalf(st, Pass(st, w), w)
<1> DEFINE p == st.q
           o == st.out
           n == Len(p)
           Fine(x, k) == Carries(M, x, q0) /\ Counts(x, o, n) /\ Nears(x, n, k)
<1>s. n \in Nat /\ p \in Seq(M) /\ o \in Seq(M) /\ Len(o) \in Nat
  BY DEF Holds, RunsOf
<1>v. v # w
  BY DEF Kinds
<1>1. Pass(st, w) = (CHOOSE f : Turns(f, st, w))[n]
  BY DEF Pass, Turns, Begun
<1>2. PICK f : Turns(f, st, w) /\ Pass(st, w) = f[n]
  BY <1>1, TurnsExist
<1>3. \A k \in 0 .. n : f[k] = IF k = 0 THEN Begun(st) ELSE Turn(f[k - 1], w)
  BY <1>2 DEF Turns
<1>4. Fine(Begun(st), 0)
  <2>1. Carries(M, Begun(st), q0)
    BY BegunCarries
  <2>2. /\ Begun(st).q = p /\ Begun(st).out = o /\ Begun(st).i = 1 /\ Begun(st).scanned = 0
        /\ Begun(st).total = n
    BY DEF Begun, Holds, RunsOf
  <2> DEFINE x == Begun(st)
  <2> HIDE DEF x, o, p, n
  <2>3. x.q = p /\ x.out = o /\ x.i = 1 /\ x.scanned = 0 /\ x.total = n
    BY <2>2 DEF x
  <2>4. Counts(x, o, n)
    BY <1>s, <2>3 DEF Counts, n
  <2>5. Nears(x, n, 0)
    BY <1>s, <2>3 DEF Nears
  <2> QED
    BY <2>1, <2>4, <2>5 DEF x
<1> HIDE DEF o
<1>5. ASSUME NEW k \in 1 .. n, Fine(f[k - 1], k - 1) PROVE Fine(f[k], k)
  <2> DEFINE x == f[k - 1]
             h == k - 1
  <2>1. k \in 0 .. n /\ k # 0 /\ h \in Nat /\ h + 1 = k
    BY <1>s
  <2>2. f[k] = Turn(x, w)
    BY <1>3, <2>1
  <2> HIDE DEF x, n
  <2>3. Carries(M, x, q0) /\ Counts(x, o, n) /\ Nears(x, n, h)
    BY <1>5 DEF x
  <2> HIDE DEF h
  <2>4. Carries(M, Turn(x, w), q0)
    BY <2>3, TurnCarries
  <2>5. Counts(Turn(x, w), o, n) /\ Nears(Turn(x, w), n, h + 1)
    BY <1>s, <2>1, <2>3, TurnCounts
  <2> QED
    BY <2>1, <2>2, <2>4, <2>5
<1>6. Fine(f[n], n)
  <2> DEFINE Good == {k \in 0 .. n : Fine(f[k], k)}
  <2>1. 0 \in Good
    <3>1. 0 \in 0 .. n
      BY <1>s
    <3>2. f[0] = Begun(st)
      BY <1>3, <3>1
    <3> HIDE DEF Fine, n
    <3> QED
      BY <1>4, <3>1, <3>2
  <2>2. \A k \in 1 .. n : k - 1 \in Good => k \in Good
    <3> SUFFICES ASSUME NEW k \in 1 .. n, k - 1 \in Good PROVE k \in Good
      OBVIOUS
    <3>1. k \in 0 .. n
      BY <1>s
    <3> HIDE DEF Fine, n
    <3> QED
      BY <1>5, <3>1
  <2>3. \A k \in 0 .. n : k \in Good
    <3> HIDE DEF Good, n
    <3> QED
      BY <1>s, <2>1, <2>2, AllUpTo
  <2>4. n \in Good
    <3> HIDE DEF Good
    <3> QED
      BY <1>s, <2>3
  <2> HIDE DEF Fine, n
  <2> QED
    BY <2>4
<1> DEFINE e == f[n]
<1>7. Carries(M, e, q0) /\ Counts(e, o, n) /\ Nears(e, n, n)
  BY <1>6
<1>8. Sorts(M, e, p, o, w, v)
  <2>1. PassedFor(M, st, Pass(st, w), w, v)
    BY <1>v, PassSorts
  <2> QED
    BY <1>2, <2>1 DEF PassedFor, o
<1>e. Pass(st, w) = e
  BY <1>2
<1> HIDE DEF e, p, n
<1>9. /\ e.q \in Seq(M) /\ e.i \in Nat \ {0} /\ e.out \in Seq(M) /\ e.scanned \in Nat
      /\ Len(e.q) \in Nat /\ Len(e.out) \in Nat /\ e.total = Len(e.q)
  BY <1>7 DEF Carries, Holds, RunsOf
<1>10. e.i - 1 <= Len(OfKind(e.q, v))
  <2>1. e.i \in 1 .. Len(e.q) + 1
    BY <1>7, <1>9 DEF Counts
  <2>2. \A j \in 1 .. Len(e.q) : j < e.i => e.q[j].off = v
    <3>1. \A j \in 1 .. Len(e.q) : j < e.i => e.q[j].off # w
      BY <1>8 DEF Sorts
    <3>2. \A j \in 1 .. Len(e.q) : e.q[j] \in M
      BY <1>9
    <3> QED
      BY <3>1, <3>2 DEF Kinds
  <2> DEFINE q == e.q
             i == e.i
  <2>3. q \in Seq(M) /\ i \in 1 .. Len(q) + 1 /\ \A j \in 1 .. Len(q) : j < i => q[j].off = v
    BY <1>9, <2>1, <2>2
  <2> HIDE DEF q, i
  <2>4. i - 1 <= Len(OfKind(q, v))
    BY <2>3, FrontCounts
  <2> QED
    BY <2>4 DEF q, i
<1>11. OfKind(e.q, v) = OfKind(p, v)
  BY <1>8 DEF Sorts
<1>12. Len(OfKind(p, w)) + Len(OfKind(p, v)) = n
  <2>1. \A i \in 1 .. Len(p) : p[i] \in M
    BY <1>s
  <2>2. TwoKinds(p, w, v)
    BY <2>1 DEF TwoKinds, Kinds
  <2> QED
    BY <1>s, <2>2, OfKindLens DEF n
<1>13. Len(OfKind(p, w)) \in Nat /\ Len(OfKind(p, v)) \in Nat
  BY <1>s, OfKindTyped
<1>14. CASE Len(e.out) >= Budget
  BY <1>e, <1>14 DEF TakesHalf
<1>15. CASE ~(Len(e.out) >= Budget)
  <2> DEFINE lw == Len(OfKind(p, w))
             lv == Len(OfKind(p, v))
             t == Len(e.out) - Len(o)
             s == e.i - 1
  <2>1. e.scanned >= e.total
    BY <1>s, <1>7, <1>9, <1>15 DEF Nears
  <2>2. e.scanned = s + t /\ Len(e.q) = n - t
    BY <1>7 DEF Counts
  <2>3. s <= lv /\ lw + lv = n
    BY <1>10, <1>11, <1>12
  <2>4. lw \in Nat /\ lv \in Nat /\ t \in Int /\ s \in Int /\ n \in Nat
    BY <1>s, <1>9, <1>13
  <2> HIDE DEF lw, lv, t, s
  <2>5. s + t >= n - t
    BY <1>9, <2>1, <2>2
  <2>6. lw <= 2 * t
    BY <2>3, <2>4, <2>5
  <2> QED
    BY <1>e, <2>6 DEF TakesHalf, lw, t, p, o
<1> QED
  BY <1>14, <1>15

-----------------------------------------------------------------------------
(* A drain.                                                                *)

\* A drain of a ring that is not full takes t from the front of the Offs and u
\* from the front of the Ons, something when there is anything.
Splits(M, q0, e, t, u) ==
    /\ t \in Seq(M) /\ u \in Seq(M) /\ e.out = t \o u /\ Len(t) + Len(u) <= Budget
    /\ t \o OfKind(e.q, TRUE) = OfKind(q0, TRUE)
    /\ u \o OfKind(e.q, FALSE) = OfKind(q0, FALSE)
    /\ t = <<>> /\ u = <<>> => OfKind(q0, TRUE) = <<>> /\ OfKind(q0, FALSE) = <<>>

\* It takes at least half of either, unless the budget stops it.
Halves(q0, t, u) ==
    /\ Len(OfKind(q0, TRUE)) <= 2 * Len(t) \/ Len(t) >= Budget
    /\ Len(OfKind(q0, FALSE)) <= 2 * Len(u) \/ Len(t) + Len(u) >= Budget

LEMMA DrainSplits ==
    ASSUME NEW M, Kinds(M, TRUE, FALSE), NEW q0 \in Seq(M), Len(q0) < RingSize
    PROVE  \E t, u : Splits(M, q0, Drained(q0), t, u) /\ Halves(q0, t, u)
<1> DEFINE st == [q |-> q0, i |-> 1, out |-> <<>>, scanned |-> 0, total |-> 0]
           none == <<>>
<1>0. Budget \in Nat \ {0} /\ Len(none) = 0 /\ none \in Seq(M)
  BY RingAssumption
<1>1. st.q = q0 /\ st.out = none /\ st \in RunsOf(M) /\ Len(st.q) <= Len(q0)
  BY DEF RunsOf
<1>2. Holds(M, st, q0)
  <2>1. Range(<<>>) = {}
    BY DEF Range
  <2> HIDE DEF st
  <2> QED
    BY <1>1, <2>1 DEF Holds
<1> DEFINE s1 == Pass(st, TRUE)
           s2 == Pass(s1, FALSE)
<1>3. Drained(q0) = s2
  BY DEF Drained
<1> HIDE DEF st
<1>4. Carries(M, s1, q0)
  BY <1>2, PassCarries
<1>5. Holds(M, s1, q0) /\ s1.q \in Seq(M) /\ s1.out \in Seq(M)
  BY <1>4 DEF Carries, Holds, RunsOf
<1> DEFINE off == TRUE
           on == FALSE
<1>d. off # on
  OBVIOUS
<1>6. PassedFor(M, st, s1, off, on)
  <2>1. s1 = Pass(st, off)
    OBVIOUS
  <2> HIDE DEF s1, s2, off, on, none
  <2> QED
    BY <1>0, <1>1, <1>2, <1>d, <2>1, PassSorts
<1>e. s2 = Pass(s1, on)
  OBVIOUS
<1> HIDE DEF s1, s2
<1>7. PassedFor(M, s1, s2, on, off)
  <2>1. Len(s1.out) <= Budget
    BY <1>6 DEF PassedFor, Sorts
  <2> HIDE DEF off, on, none
  <2> QED
    BY <1>5, <1>d, <1>e, <2>1, PassSorts
<1> HIDE DEF off, on, none
<1>8. PICK t \in Seq(M) : s1.out = none \o t /\ t \o OfKind(s1.q, off) = OfKind(q0, off)
  BY <1>1, <1>6 DEF PassedFor, Sorts
<1>9. s1.out = t
  BY <1>8, ConcatEmptySeq DEF none
<1>10. OfKind(s1.q, on) = OfKind(q0, on)
  BY <1>1, <1>6 DEF PassedFor, Sorts
<1>11. PICK u \in Seq(M) : s2.out = t \o u /\ u \o OfKind(s2.q, on) = OfKind(s1.q, on)
  BY <1>7, <1>9 DEF PassedFor, Sorts
<1>12. OfKind(s2.q, off) = OfKind(s1.q, off) /\ Len(s2.out) <= Budget
  BY <1>7 DEF PassedFor, Sorts
<1>13. Len(t) + Len(u) <= Budget
  <2>1. Len(t \o u) = Len(t) + Len(u)
    BY ConcatProperties
  <2> QED
    BY <1>11, <1>12, <2>1
<1>14. ASSUME t = none, u = none PROVE OfKind(q0, off) = none /\ OfKind(q0, on) = none
  <2>1. OfKind(q0, off) = none
    <3>1. Len(st.out) < Budget /\ s1.out = st.out
      BY <1>0, <1>1, <1>9, <1>14
    <3> QED
      BY <1>1, <1>6, <3>1 DEF PassedFor, none
  <2>2. OfKind(s1.q, on) = none
    <3>1. none \o none = none
      BY DEF none
    <3>2. Len(s1.out) < Budget /\ s2.out = s1.out
      BY <1>0, <1>9, <1>11, <1>14, <3>1
    <3> QED
      BY <1>7, <3>2 DEF PassedFor, none
  <2> QED
    BY <1>10, <2>1, <2>2
<1>15. Splits(M, q0, s2, t, u)
  BY <1>8, <1>10, <1>11, <1>12, <1>13, <1>14 DEF Splits, off, on, none
<1>16. TakesHalf(st, s1, off) /\ TakesHalf(s1, s2, on)
  <2>1. Kinds(M, off, on) /\ Kinds(M, on, off)
    BY DEF Kinds, off, on
  <2>2. s1 = Pass(st, off)
    BY DEF s1, off
  <2>3. TakesHalf(st, Pass(st, off), off)
    <3>1. Len(st.out) <= Budget
      BY <1>0, <1>1
    <3> QED
      BY <1>2, <2>1, <3>1, PassTakes
  <2>4. TakesHalf(s1, Pass(s1, on), on)
    <3>1. Len(s1.out) <= Budget
      BY <1>6 DEF PassedFor, Sorts
    <3> QED
      BY <1>5, <2>1, <3>1, PassTakes
  <2> QED
    BY <1>e, <2>2, <2>3, <2>4
<1>17. Halves(q0, t, u)
  <2>1. Len(st.out) = 0 /\ Len(s1.out) = Len(t) /\ Len(s2.out) = Len(t) + Len(u)
    <3>1. Len(t \o u) = Len(t) + Len(u)
      BY ConcatProperties
    <3> QED
      BY <1>0, <1>1, <1>9, <1>11, <3>1
  <2>2. Len(t) \in Nat /\ Len(u) \in Nat
    OBVIOUS
  <2>3. Len(OfKind(q0, off)) <= 2 * Len(t) \/ Len(t) >= Budget
    BY <1>1, <1>16, <2>1, <2>2 DEF TakesHalf
  <2>4. Len(OfKind(q0, on)) <= 2 * Len(u) \/ Len(t) + Len(u) >= Budget
    BY <1>10, <1>16, <2>1, <2>2 DEF TakesHalf
  <2> QED
    BY <2>3, <2>4 DEF Halves, off, on
<1> QED
  BY <1>3, <1>15, <1>17

\* The ring never fills, so that no push and no drain meets the full ring.
TxInv == queued \in Seq(TxMessages) /\ Len(queued) <= MaxPending

LEMMA TxStep ==
    ASSUME MaxPending \in Nat, MaxPending < RingSize
    PROVE  (TxInit => TxInv) /\ (TxInv /\ [TxNext]_tx_vars => TxInv')
<1>1. TxInit => TxInv
  BY DEF TxInit, TxInv
<1>2. TxInv /\ [TxNext]_tx_vars => TxInv'
  <2> SUFFICES ASSUME TxInv, [TxNext]_tx_vars PROVE TxInv'
    OBVIOUS
  <2>0. queued \in Seq(TxMessages) /\ Len(queued) <= MaxPending /\ Len(queued) \in Nat
        /\ RingSize \in Nat
    BY RingAssumption DEF TxInv
  <2>1. CASE TxDrain
    <3>1. Drained(queued).q \in Seq(TxMessages) /\ Len(Drained(queued).q) <= Len(queued)
      BY <2>0, DrainKeeps
    <3>2. Len(Drained(queued).q) \in Nat
      BY <3>1
    <3> QED
      BY <2>0, <2>1, <3>1, <3>2 DEF TxDrain, TxInv
  <2>2. CASE Purge
    BY <2>2 DEF Purge, TxInv
  <2>3. ASSUME NEW m \in TxMessages, Push(m) PROVE TxInv'
    <3>1. queued' = Append(queued, m) /\ Len(queued) < MaxPending
      BY <2>0, <2>3 DEF Push, Pushed
    <3>2. Append(queued, m) \in Seq(TxMessages) /\ Len(Append(queued, m)) = Len(queued) + 1
      BY <2>0, AppendProperties
    <3> QED
      BY <2>0, <3>1, <3>2 DEF TxInv
  <2>4. CASE UNCHANGED tx_vars
    BY <2>4 DEF tx_vars, TxInv
  <2> QED
    BY <2>1, <2>2, <2>3, <2>4 DEF TxNext
<1> QED
  BY <1>1, <1>2

QueueStep == [QUEUE!Next]_<<OfKind(queued, TRUE), OfKind(queued, FALSE), taken>>

LEMMA QueueSteps ==
    ASSUME MaxPending \in Nat, MaxPending < RingSize, TxInv, [TxNext]_tx_vars
    PROVE  QueueStep
<1> DEFINE q == queued
           M == TxMessages
<1>0. /\ q \in Seq(M) /\ Len(q) <= MaxPending /\ Len(q) \in Nat
      /\ RingSize \in Nat /\ Len(q) < RingSize
  BY RingAssumption DEF TxInv
<1>1. ASSUME NEW m \in M, Push(m) PROVE QueueStep
  <2>1. queued' = Append(q, m) /\ taken' = <<>>
    BY <1>0, <1>1 DEF Push, Pushed
  <2>2. m.off = TRUE \/ m.off = FALSE
    <3>1. PICK n \in Voices : m = On(n) \/ m = Off(n)
      BY DEF TxMessages
    <3> QED
      BY <3>1 DEF On, Off
  <2> DEFINE off == TRUE
             on == FALSE
             r == Append(q, m)
  <2> HIDE DEF M, q
  <2>3. /\ OfKind(r, off) = IF m.off = off THEN Append(OfKind(q, off), m) ELSE OfKind(q, off)
        /\ OfKind(r, on) = IF m.off = on THEN Append(OfKind(q, on), m) ELSE OfKind(q, on)
    <3> HIDE DEF off, on
    <3> QED
      BY <1>0, OfKindAppend
  <2>4. /\ OfKind(queued, TRUE)' = OfKind(r, TRUE) /\ OfKind(queued, FALSE)' = OfKind(r, FALSE)
    BY <2>1
  <2> HIDE DEF r
  <2>5. CASE m.off = TRUE
    BY <2>1, <2>3, <2>4, <2>5 DEF QUEUE!Push, q, M, QUEUE!Next, QueueStep
  <2>6. CASE m.off = FALSE
    BY <2>1, <2>3, <2>4, <2>6 DEF QUEUE!Push, q, M, QUEUE!Next, QueueStep
  <2> QED
    BY <2>2, <2>5, <2>6
<1>2. CASE TxDrain
  <2> DEFINE e == Drained(q)
  <2>1. queued' = e.q /\ taken' = e.out
    BY <1>2 DEF TxDrain
  <2>2. PICK t, u : Splits(M, q, e, t, u)
    <3>1. Kinds(M, TRUE, FALSE)
      BY DEF Kinds, TxMessages, On, Off
    <3> HIDE DEF q, M
    <3> QED
      BY <1>0, <3>1, DrainSplits
  <2>3. e.q \in Seq(M)
    BY <1>0, DrainKeeps
  <2> HIDE DEF e, M
  <2> DEFINE a == OfKind(e.q, TRUE)
             b == OfKind(e.q, FALSE)
             offs == OfKind(q, TRUE)
             ons == OfKind(q, FALSE)
             j == Len(t)
             k == Len(u)
  <2>4. /\ t \in Seq(M) /\ u \in Seq(M) /\ e.out = t \o u /\ j + k <= Budget
        /\ t \o a = offs /\ u \o b = ons
        /\ t = <<>> /\ u = <<>> => offs = <<>> /\ ons = <<>>
    BY <2>2 DEF Splits
  <2>5. a \in Seq(M) /\ b \in Seq(M) /\ j \in Nat /\ k \in Nat
    <3>1. j \in Nat /\ k \in Nat
      BY <2>4
    <3> DEFINE r == e.q
               off == TRUE
               on == FALSE
    <3>2. r \in Seq(M)
      BY <2>3
    <3>3. OfKind(r, off) \in Seq(M) /\ OfKind(r, on) \in Seq(M)
      <4> HIDE DEF r, off, on
      <4> QED
        BY <3>2, OfKindTyped
    <3> QED
      BY <3>1, <3>3
  <2>6. OfKind(queued, TRUE)' = a /\ OfKind(queued, FALSE)' = b
    BY <2>1
  <2>7. offs = OfKind(queued, TRUE) /\ ons = OfKind(queued, FALSE)
    OBVIOUS
  <2> HIDE DEF a, b, offs, ons, q
  <2>8. /\ SubSeq(offs, 1, j) = t /\ SubSeq(offs, j + 1, Len(offs)) = a
        /\ SubSeq(ons, 1, k) = u /\ SubSeq(ons, k + 1, Len(ons)) = b
    BY <2>4, <2>5, SplitAt
  <2>9. /\ j \in 0 .. Len(offs) /\ k \in 0 .. Len(ons)
    <3>1. Len(t \o a) = j + Len(a) /\ Len(u \o b) = k + Len(b)
      BY <2>4, <2>5, ConcatProperties
    <3>2. Len(a) \in Nat /\ Len(b) \in Nat
      BY <2>5
    <3>3. Len(offs) = j + Len(a) /\ Len(ons) = k + Len(b)
      BY <2>4, <3>1
    <3> HIDE DEF j, k
    <3> QED
      BY <2>5, <3>2, <3>3
  <2>10. Len(offs) + Len(ons) > 0 => j + k > 0
    <3> SUFFICES ASSUME ~(j + k > 0) PROVE ~(Len(offs) + Len(ons) > 0)
      OBVIOUS
    <3>1. j = 0 /\ k = 0
      BY <2>5
    <3>2. t = <<>> /\ u = <<>>
      BY <2>4, <3>1, EmptySeq
    <3>3. offs = <<>> /\ ons = <<>>
      BY <2>4, <3>2
    <3> QED
      BY <3>3
  <2> HIDE DEF j, k
  <2>11. QUEUE!Take(j, k)
    BY <2>1, <2>4, <2>6, <2>7, <2>8, <2>10 DEF QUEUE!Take
  <2> QED
    BY <2>7, <2>9, <2>11 DEF QueueStep, QUEUE!Next
<1>3. CASE Purge
  <2>1. queued' = <<>> /\ taken' = <<>>
    BY <1>3 DEF Purge
  <2>2. OfKind(<<>>, TRUE) = <<>> /\ OfKind(<<>>, FALSE) = <<>>
    BY OfKindEmpty
  <2>3. OfKind(queued, TRUE)' = <<>> /\ OfKind(queued, FALSE)' = <<>>
    BY <2>1, <2>2
  <2> QED
    BY <2>1, <2>3 DEF QueueStep, QUEUE!Next, QUEUE!Purge
<1>4. CASE UNCHANGED tx_vars
  <2>1. queued' = queued /\ taken' = taken
    BY <1>4 DEF tx_vars
  <2>2. OfKind(queued, TRUE)' = OfKind(queued, TRUE) /\ OfKind(queued, FALSE)' = OfKind(queued, FALSE)
    BY <2>1
  <2> QED
    BY <2>1, <2>2 DEF QueueStep
<1> QED
  BY <1>1, <1>2, <1>3, <1>4 DEF TxNext

\* While fewer messages are pending than the ring has cells, whatever the
\* notes, the size of the ring and the budget of a drain are, the ring is a
\* queue of Offs and a queue of Ons: no message lost, doubled or overtaken by
\* one of its kind, and a drain of a ring that is not empty gets on.
THEOREM QueueRefined ==
    ASSUME MaxPending \in Nat, MaxPending < RingSize PROVE TxSpec => ImplementsChordQueue
<1>1. TxInit => QUEUE!Init
  <2>1. OfKind(<<>>, TRUE) = <<>> /\ OfKind(<<>>, FALSE) = <<>>
    BY OfKindEmpty
  <2> QED
    BY <2>1 DEF TxInit, QUEUE!Init
<1>2. (TxInit => TxInv) /\ (TxInv /\ [TxNext]_tx_vars => TxInv')
  BY TxStep
<1>3. TxInv /\ [TxNext]_tx_vars => [QUEUE!Next]_<<OfKind(queued, TRUE), OfKind(queued, FALSE), taken>>
  BY QueueSteps DEF QueueStep
<1>4. [QUEUE!Next]_<<OfKind(queued, TRUE), OfKind(queued, FALSE), taken>> => [QUEUE!Next]_QUEUE!qvars
  BY DEF QUEUE!qvars
<1> QED
  BY <1>1, <1>2, <1>3, <1>4, PTL DEF TxSpec, ImplementsChordQueue, QUEUE!Spec

-----------------------------------------------------------------------------
(* Two ladders in one queue.                                               *)

\* The queue s of one kind holds what two ladders pushed: behind cell P[l] it is
\* the other ladder's alone, what X[l] allows, and of one push.  Ladder l has H[l]
\* cells at most until its own last one, the ladders of D have none.
Shares(W, H, s, P, X, D) ==
    /\ P \in [1 .. 2 -> 0 .. Len(s)]
    /\ Len(s) <= W[1] + W[2]
    /\ \E l \in 1 .. 2 : P[l] = Len(s)
    /\ \A l, m \in 1 .. 2 : l # m => Len(s) - P[l] <= W[m]
    /\ \A l \in 1 .. 2 : \A i \in 1 .. Len(s) : i > P[l] => s[i].note \in X[l]
    /\ \A l \in 1 .. 2 : P[l] <= H[l]
    /\ \A l \in D : P[l] = 0

LEMMA SharesNone ==
    ASSUME NEW W \in [1 .. 2 -> Nat], NEW H \in [1 .. 2 -> Nat], NEW X, NEW D, D \subseteq 1 .. 2
    PROVE  \E P : Shares(W, H, <<>>, P, X, D)
<1> DEFINE s == <<>>
           P == [l \in 1 .. 2 |-> 0]
<1>1. Len(s) = 0
  OBVIOUS
<1> HIDE DEF s
<1>2. P \in [1 .. 2 -> 0 .. Len(s)] /\ \A l \in 1 .. 2 : P[l] = 0
  BY <1>1
<1>3. W[1] \in Nat /\ W[2] \in Nat /\ \A l \in 1 .. 2 : H[l] \in Nat /\ W[l] \in Nat
  OBVIOUS
<1> HIDE DEF P
<1>4. 1 .. Len(s) = {} /\ 1 \in 1 .. 2
  BY <1>1
<1>5. Shares(W, H, s, P, X, D)
  BY <1>1, <1>2, <1>3, <1>4 DEF Shares
<1> QED
  BY <1>5 DEF s

\* What a ladder may have grows, what the queue may hold grows, or the ladder
\* has the last cell.
LEMMA SharesKeep ==
    ASSUME NEW W, NEW H, NEW s, NEW P, NEW X, NEW D, Shares(W, H, s, P, X, D),
           NEW R, NEW Y, NEW E, \A l \in 1 .. 2 : P[l] <= R[l], \A l \in E : P[l] = 0,
           \A l \in 1 .. 2 : P[l] = Len(s) \/ X[l] \subseteq Y[l], Len(s) \in Nat
    PROVE  Shares(W, R, s, P, Y, E)
<1>1. ASSUME NEW l \in 1 .. 2, NEW i \in 1 .. Len(s), i > P[l] PROVE s[i].note \in Y[l]
  <2>1. P[l] \in 0 .. Len(s)
    BY DEF Shares
  <2>2. P[l] # Len(s)
    BY <1>1, <2>1
  <2> QED
    BY <1>1, <2>2 DEF Shares
<1> QED
  BY <1>1 DEF Shares

\* A ladder that has nothing in the queue pushes.
LEMMA SharesPush ==
    ASSUME NEW M, NEW s \in Seq(M), NEW ms \in Seq(M),
           NEW W \in [1 .. 2 -> Nat], NEW H, NEW P, NEW X, NEW D, Shares(W, H, s, P, X, D),
           NEW l \in 1 .. 2, NEW m \in 1 .. 2, l # m, P[l] = 0, Len(ms) <= W[l],
           NEW R \in [1 .. 2 -> Nat], R[l] >= W[1] + W[2], R[m] >= H[m], H[m] \in Nat,
           NEW Y, \A i \in 1 .. Len(ms) : ms[i].note \in Y[m],
           NEW E, E \subseteq D \cap (1 .. 2), l \notin E
    PROVE  \E Q : Shares(W, R, s \o ms, Q, Y, E)
<1> DEFINE t == s \o ms
           n == Len(s)
           k == Len(ms)
<1>0. n \in Nat /\ k \in Nat /\ W[1] \in Nat /\ W[2] \in Nat /\ W[l] \in Nat /\ W[m] \in Nat
  OBVIOUS
<1>1. 1 .. 2 = {l, m} /\ W[l] + W[m] = W[1] + W[2]
  <2>1. (l = 1 /\ m = 2) \/ (l = 2 /\ m = 1)
    OBVIOUS
  <2> QED
    BY <1>0, <2>1
<1>2. /\ Len(t) = n + k
      /\ \A i \in 1 .. n + k : t[i] = IF i <= n THEN s[i] ELSE ms[i - n]
  BY ConcatProperties
<1> DEFINE Q == [j \in 1 .. 2 |-> IF j = l THEN n + k ELSE n]
<1>3. Q[l] = n + k /\ Q[m] = n
  OBVIOUS
<1>4. Q \in [1 .. 2 -> 0 .. n + k]
  <2>1. n + k \in 0 .. n + k /\ n \in 0 .. n + k
    BY <1>0
  <2> HIDE DEF n, k
  <2> QED
    BY <2>1
<1> HIDE DEF Q
<1>5. P[m] = n /\ n <= W[m] /\ P[m] <= H[m]
  <2>1. P[1] = n \/ P[2] = n
    BY DEF Shares
  <2>2. n - P[l] <= W[m] /\ P[m] \in 0 .. n /\ P[m] <= H[m]
    BY DEF Shares
  <2> QED
    BY <1>0, <1>1, <2>1, <2>2
<1>6. n + k <= W[1] + W[2]
  BY <1>0, <1>1, <1>5
<1>7. \A j, h \in 1 .. 2 : j # h => (n + k) - Q[j] <= W[h]
  <2>1. (n + k) - Q[l] <= W[m] /\ (n + k) - Q[m] <= W[l]
    BY <1>0, <1>3
  <2> QED
    BY <1>1, <2>1
<1>8. \A j \in 1 .. 2 : Q[j] <= R[j]
  <2>1. Q[l] <= R[l]
    BY <1>0, <1>3, <1>6
  <2>2. Q[m] <= R[m]
    BY <1>0, <1>3, <1>5
  <2> QED
    BY <1>1, <2>1, <2>2
<1>9. ASSUME NEW j \in 1 .. 2, NEW i \in 1 .. n + k, i > Q[j] PROVE t[i].note \in Y[j]
  <2>1. j = m
    BY <1>0, <1>1, <1>3, <1>9
  <2>2. i > n /\ i - n \in 1 .. k
    BY <1>0, <1>3, <1>9, <2>1
  <2>3. t[i] = ms[i - n]
    BY <1>0, <1>2, <2>2
  <2> QED
    BY <2>1, <2>2, <2>3
<1>10. ASSUME NEW j \in E PROVE Q[j] = 0
  <2>1. j \in 1 .. 2 /\ j # l /\ P[j] = 0
    BY DEF Shares
  <2> QED
    BY <1>1, <1>3, <1>5, <2>1
<1> DEFINE z == n + k
<1> HIDE DEF n, k, t, z
<1>11. Shares(W, R, t, Q, Y, E)
  <2>1. Len(t) = z
    BY <1>2 DEF z
  <2>2. Q \in [1 .. 2 -> 0 .. z] /\ z <= W[1] + W[2] /\ \E j \in 1 .. 2 : Q[j] = z
    BY <1>3, <1>4, <1>6 DEF z
  <2>3. ASSUME NEW j \in 1 .. 2, NEW h \in 1 .. 2, j # h PROVE z - Q[j] <= W[h]
    BY <1>7, <2>3 DEF z
  <2>4. \A j \in 1 .. 2 : \A i \in 1 .. z : i > Q[j] => t[i].note \in Y[j]
    BY <1>9 DEF z
  <2> QED
    BY <1>8, <1>10, <2>1, <2>2, <2>3, <2>4 DEF Shares
<1> QED
  BY <1>11 DEF t

\* Cell p of a queue when k cells have gone from its front.
Cut(p, k) == IF p <= k THEN 0 ELSE p - k

LEMMA CutIs ==
    ASSUME NEW n \in Nat, NEW k \in Nat, n <= k, NEW p \in 0 .. k + n
    PROVE  /\ Cut(p, k) \in 0 .. n
           /\ p = k + n => Cut(p, k) = n
           /\ n - Cut(p, k) <= (k + n) - p
           /\ 2 * Cut(p, k) <= p
           /\ \A i \in 1 .. n : i > Cut(p, k) => k + i > p
<1>1. CASE p <= k
  <2>1. Cut(p, k) = 0
    BY <1>1 DEF Cut
  <2> QED
    BY <1>1, <2>1
<1>2. CASE ~(p <= k)
  <2>1. Cut(p, k) = p - k
    BY <1>2 DEF Cut
  <2> QED
    BY <1>2, <2>1
<1> QED
  BY <1>1, <1>2

LEMMA BelowHalf ==
    ASSUME NEW c \in Nat, NEW p \in Nat, NEW h \in Nat, NEW r \in Nat,
           2 * c <= p, p <= h, h <= 2 * r + 1
    PROVE  c <= r
  OBVIOUS

LEMMA BehindCut ==
    ASSUME NEW n \in Nat, NEW k \in Nat, NEW i \in 1 .. n
    PROVE  k + i \in 1 .. k + n /\ ~(k + i <= k) /\ (k + i) - k = i
  OBVIOUS

\* A drain takes half of the queue or more from its front.
LEMMA SharesDrop ==
    ASSUME NEW M, NEW t \in Seq(M), NEW r \in Seq(M), NEW s, s = t \o r,
           NEW W \in [1 .. 2 -> Nat], NEW H \in [1 .. 2 -> Nat], NEW P, NEW X, NEW D,
           D \subseteq 1 .. 2, Shares(W, H, s, P, X, D), Len(s) <= 2 * Len(t),
           NEW R \in [1 .. 2 -> Nat], \A l \in 1 .. 2 : H[l] <= 2 * R[l] + 1
    PROVE  \E Q : Shares(W, R, r, Q, X, D)
<1> DEFINE n == Len(r)
           k == Len(t)
           Q == [l \in 1 .. 2 |-> Cut(P[l], k)]
<1>0. n \in Nat /\ k \in Nat
  OBVIOUS
<1>1. Len(s) = k + n /\ \A i \in 1 .. k + n : s[i] = IF i <= k THEN t[i] ELSE r[i - k]
  BY ConcatProperties
<1>2. n <= k
  BY <1>0, <1>1
<1>3. P \in [1 .. 2 -> 0 .. k + n]
  BY <1>1 DEF Shares
<1>4. \A l \in 1 .. 2 : P[l] \in 0 .. k + n
  BY <1>3
<1>5. \A l \in 1 .. 2 : Q[l] = Cut(P[l], k)
  OBVIOUS
<1> HIDE DEF n, k
<1>6. ASSUME NEW l \in 1 .. 2
      PROVE  /\ Q[l] \in 0 .. n /\ (P[l] = k + n => Q[l] = n)
             /\ n - Q[l] <= (k + n) - P[l] /\ 2 * Q[l] <= P[l]
             /\ \A i \in 1 .. n : i > Q[l] => k + i > P[l]
  <2> DEFINE p == P[l]
  <2>1. p \in 0 .. k + n /\ Q[l] = Cut(p, k)
    BY <1>4, <1>5
  <2> HIDE DEF p, Q
  <2>2. /\ Cut(p, k) \in 0 .. n
        /\ p = k + n => Cut(p, k) = n
        /\ n - Cut(p, k) <= (k + n) - p
        /\ 2 * Cut(p, k) <= p
        /\ \A i \in 1 .. n : i > Cut(p, k) => k + i > p
    BY <1>0, <1>2, <2>1, CutIs
  <2> QED
    BY <2>1, <2>2 DEF p
<1>r. ASSUME NEW l \in 1 .. 2 PROVE Q[l] \in Nat /\ P[l] \in Nat
  <2>1. Q[l] \in 0 .. n /\ P[l] \in 0 .. k + n
    BY <1>4, <1>6
  <2> HIDE DEF Q
  <2> QED
    BY <1>0, <2>1
<1>7. Q \in [1 .. 2 -> 0 .. n]
  BY <1>6
<1> HIDE DEF Q
<1>8. \E l \in 1 .. 2 : Q[l] = n
  <2>1. PICK l \in 1 .. 2 : P[l] = Len(s)
    BY DEF Shares
  <2> QED
    BY <1>1, <1>6, <2>1
<1>9. ASSUME NEW l \in 1 .. 2, NEW m \in 1 .. 2, l # m PROVE n - Q[l] <= W[m]
  <2> DEFINE a == n - Q[l]
             c == (k + n) - P[l]
             w == W[m]
  <2>1. a <= c /\ a \in Int /\ c \in Int /\ w \in Int
    <3>n. Q[l] \in Nat /\ P[l] \in Nat
      BY <1>r
    <3>w. w \in Nat
      OBVIOUS
    <3>1. Q[l] \in Int /\ P[l] \in Int /\ w \in Int
      <4> DEFINE q == Q[l]
                 p == P[l]
      <4>1. q \in Nat /\ p \in Nat
        BY <3>n
      <4> HIDE DEF q, p, w
      <4>2. q \in Int /\ p \in Int /\ w \in Int
        BY <4>1, <3>w
      <4> QED
        BY <4>2 DEF q, p
    <3>2. a \in Int /\ c \in Int
      <4> DEFINE q == Q[l]
                 p == P[l]
                 kn == k + n
      <4>1. n \in Int /\ kn \in Int /\ q \in Int /\ p \in Int
        BY <1>0, <3>1
      <4> HIDE DEF q, p, kn
      <4>2. n - q \in Int /\ kn - p \in Int
        BY <4>1
      <4> QED
        BY <4>2 DEF q, p, kn
    <3>3. a <= c
      BY <1>6
    <3> QED
      BY <3>1, <3>2, <3>3
  <2>2. c <= w
    BY <1>1, <1>9 DEF Shares
  <2> HIDE DEF a, c, w
  <2>3. a <= w
    BY <2>1, <2>2
  <2> QED
    BY <2>3 DEF a, w
<1>10. ASSUME NEW l \in 1 .. 2, NEW i \in 1 .. n, i > Q[l] PROVE r[i].note \in X[l]
  <2> DEFINE j == k + i
  <2>1. j > P[l]
    BY <1>6, <1>10
  <2>2. j \in 1 .. k + n /\ ~(j <= k) /\ j - k = i
    BY <1>0, BehindCut
  <2> HIDE DEF j
  <2>3. s[j] = r[i]
    BY <1>1, <2>2
  <2>4. j \in 1 .. Len(s)
    BY <1>1, <2>2
  <2>5. s[j].note \in X[l]
    BY <2>1, <2>4 DEF Shares
  <2> QED
    BY <2>3, <2>5
<1>11. ASSUME NEW l \in 1 .. 2 PROVE Q[l] <= R[l]
  <2> DEFINE c == Q[l]
             p == P[l]
             h == H[l]
             g == R[l]
  <2>r. c \in Nat /\ p \in Nat
    BY <1>r
  <2>h. h \in Nat /\ g \in Nat
    OBVIOUS
  <2>1. c \in Nat /\ p \in Nat /\ h \in Nat /\ g \in Nat
    BY <2>r, <2>h
  <2>2. 2 * c <= p
    BY <1>6
  <2>3. p <= h
    BY DEF Shares
  <2>4. h <= 2 * g + 1
    OBVIOUS
  <2> HIDE DEF c, p, h, g
  <2>5. c <= g
    BY <2>1, <2>2, <2>3, <2>4, BelowHalf
  <2> QED
    BY <2>5 DEF c, g
<1>12. ASSUME NEW l \in D PROVE Q[l] = 0
  <2>1. l \in 1 .. 2 /\ P[l] = 0
    BY DEF Shares
  <2>2. 2 * Q[l] <= 0 /\ Q[l] \in 0 .. n
    BY <1>6, <2>1
  <2> QED
    BY <1>0, <2>2
<1>13. n <= W[1] + W[2]
  <2> DEFINE w == W[1] + W[2]
  <2>1. w \in Int
    OBVIOUS
  <2>2. k + n <= w
    BY <1>1 DEF Shares
  <2> HIDE DEF w
  <2>3. n <= w
    BY <1>0, <2>1, <2>2
  <2> QED
    BY <2>3 DEF w
<1>14. Shares(W, R, r, Q, X, D)
  <2>1. Q \in [1 .. 2 -> 0 .. Len(r)] /\ Len(r) <= W[1] + W[2] /\ \E l \in 1 .. 2 : Q[l] = Len(r)
    BY <1>7, <1>8, <1>13 DEF n
  <2>2. \A l, m \in 1 .. 2 : l # m => Len(r) - Q[l] <= W[m]
    BY <1>9 DEF n
  <2>3. \A l \in 1 .. 2 : \A i \in 1 .. Len(r) : i > Q[l] => r[i].note \in X[l]
    BY <1>10 DEF n
  <2> QED
    BY <1>11, <1>12, <2>1, <2>2, <2>3 DEF Shares
<1> QED
  BY <1>14

\* A push for which the ring has room.
LEMMA PushFits ==
    ASSUME NEW q \in Seq(Messages), NEW ms \in Seq(Messages), Len(q) + Len(ms) <= RingSize
    PROVE  PushedAll(q, ms) = q \o ms
<1>0. RingSize \in Nat /\ Len(q) \in Nat /\ Len(ms) \in Nat
  BY RingAssumption
<1>1. (IF Len(ms) < RingSize - Len(q) THEN Len(ms) ELSE RingSize - Len(q)) = Len(ms)
  BY <1>0
<1>2. SubSeq(ms, 1, Len(ms)) = ms
  BY <1>0, SubSeqFull
<1> QED
  BY <1>1, <1>2 DEF PushedAll

-----------------------------------------------------------------------------
(* The ring keeps up with the hands.                                       *)

\* W[l] is the widest chord a button of ladder l plays.
Widths(W) ==
    \A p \in Played : Kind[p] = "chord" =>
        \A l \in 1 .. 2 : p[3] \in Ladders[l] => Len(Chord[p]) <= W[l]

\* The widest chords of the two ladders come to two thirds of a drain's budget at
\* most, and twice their notes do not fill the ring.
Room(W) == 3 * (W[1] + W[2]) <= 2 * Budget /\ 2 * (W[1] + W[2]) < RingSize

\* What is left of two chords after k drains that each halve it; nothing is by
\* the time a ladder may have its next edge.
Fades(W, h) ==
    /\ h \in [0 .. Debounce -> Nat]
    /\ h[0] = W[1] + W[2] /\ h[Debounce] = 0
    /\ \A k \in 1 .. Debounce : h[k - 1] <= 2 * h[k] + 1

Loaded(W, h) == W \in [1 .. 2 -> Nat] /\ Widths(W) /\ Room(W) /\ Fades(W, h)

\* The drains since a ladder's last edge.
Age(l) ==
    IF pc \in {"poll", "detect", "scan"} /\ settled[l] < Debounce THEN settled[l] + 1
    ELSE settled[l]

Loads(h) == [l \in 1 .. 2 |-> h[Age(l)]]

\* The ladders with an edge to come, and those with a release to come.
Edging == {l \in 1 .. 2 : \E i \in 1 .. Len(evt) : evt[i].button \in Ladders[l]}
Releasing ==
    {l \in 1 .. 2 : \E i \in 1 .. Len(evt) : ~evt[i].down /\ evt[i].button \in Ladders[l]}

\* What a ladder does not mind of the other's.
ForeignOffs == [l \in 1 .. 2 |-> {n \in Notes : \A b \in Ladders[l] : n \notin Own(b)}]
ForeignOns ==
    [l \in 1 .. 2 |-> {n \in Notes : \E x \in Buttons \ Ladders[l] : n \in Range(chord[x])}]

OffsInv(W, h) ==
    \E P : Shares(W, Loads(h), OfKind(ring, TRUE), P, ForeignOffs, Releasing)

OnsInv(W, h) ==
    \E P : Shares(W, Loads(h), OfKind(ring, FALSE), P, ForeignOns, Edging)

WidthInv(W) == \A l \in 1 .. 2 : \A b \in Ladders[l] : Len(chord[b]) <= W[l]

\* A ladder's release comes before its press, and both are of the last scan.
OrderInv ==
    /\ \A i, j \in 1 .. Len(evt) : \A l \in 1 .. 2 :
          i < j /\ evt[i].button \in Ladders[l] /\ evt[j].button \in Ladders[l] =>
              ~evt[i].down /\ evt[j].down
    /\ \A l \in Edging : settled[l] = 0

\* No Off in the ring is of a button about to be pressed.
PressInv ==
    \A i \in 1 .. Len(evt) : evt[i].down =>
        \A m \in Range(ring) : m.off => m.note \notin Own(evt[i].button)

LoadInv(W, h) == OffsInv(W, h) /\ OnsInv(W, h) /\ WidthInv(W) /\ OrderInv /\ PressInv

LEMMA TwoLadders ==
    ASSUME NEW b \in Buttons
    PROVE  \E l, m \in 1 .. 2 : l # m /\ b \in Ladders[l] /\ b \notin Ladders[m]
<1>1. Ladders[1] \cap Ladders[2] = {}
  BY NotesAssumption
<1>2. 1 \in 1 .. 2 /\ 2 \in 1 .. 2 /\ 1 # 2
  OBVIOUS
<1> QED
  BY <1>1, <1>2 DEF Buttons

LEMMA LaddersOf ==
    /\ \A l \in 1 .. 2 : Ladders[l] \subseteq Buttons
    /\ \A l, m \in 1 .. 2 : l # m => Ladders[l] \cap Ladders[m] = {}
<1>1. Ladders[1] \cap Ladders[2] = {}
  BY NotesAssumption
<1>2. \A l \in 1 .. 2 : l = 1 \/ l = 2
  OBVIOUS
<1> QED
  BY <1>1, <1>2 DEF Buttons

LEMMA RingTyped ==
    ASSUME TypeOK
    PROVE  /\ ring \in Seq(Messages) /\ Len(ring) \in Nat
           /\ settled \in [1 .. 2 -> 0 .. Debounce] /\ Debounce \in Nat \ {0}
           /\ RingSize \in Nat \ {0} /\ Budget \in Nat \ {0}
  BY RingAssumption, NotesAssumption DEF TypeOK

LEMMA AgeTyped ==
    ASSUME TypeOK, NEW l \in 1 .. 2
    PROVE  Age(l) \in 0 .. Debounce
<1>1. settled[l] \in 0 .. Debounce /\ Debounce \in Nat \ {0}
  BY RingTyped
<1>2. CASE pc \in {"poll", "detect", "scan"} /\ settled[l] < Debounce
  <2>1. Age(l) = settled[l] + 1
    BY <1>2 DEF Age
  <2> QED
    BY <1>1, <1>2, <2>1
<1>3. CASE ~(pc \in {"poll", "detect", "scan"} /\ settled[l] < Debounce)
  BY <1>1, <1>3 DEF Age
<1> QED
  BY <1>2, <1>3

LEMMA LoadsTyped ==
    ASSUME TypeOK, NEW W, NEW h, Fades(W, h)
    PROVE  Loads(h) \in [1 .. 2 -> Nat] /\ \A l \in 1 .. 2 : Loads(h)[l] = h[Age(l)]
<1>1. h \in [0 .. Debounce -> Nat]
  BY DEF Fades
<1>2. \A l \in 1 .. 2 : h[Age(l)] \in Nat
  BY <1>1, AgeTyped
<1> QED
  BY <1>2 DEF Loads

LEMMA LoadsTypedNext ==
    ASSUME NEW W, NEW h
    PROVE  (TypeOK /\ Fades(W, h) =>
              Loads(h) \in [1 .. 2 -> Nat] /\ \A l \in 1 .. 2 : Loads(h)[l] = h[Age(l)])'
<1>1. TypeOK /\ Fades(W, h) =>
        Loads(h) \in [1 .. 2 -> Nat] /\ \A l \in 1 .. 2 : Loads(h)[l] = h[Age(l)]
  BY LoadsTyped
<1> QED
  BY <1>1, PTL

\* The messages are Offs and Ons, and the ring is both.
LEMMA RingKinds ==
    ASSUME TypeOK
    PROVE  /\ Kinds(Messages, TRUE, FALSE)
           /\ OfKind(ring, TRUE) \in Seq(Messages) /\ OfKind(ring, FALSE) \in Seq(Messages)
           /\ Len(OfKind(ring, TRUE)) + Len(OfKind(ring, FALSE)) = Len(ring)
           /\ \A m \in Messages : m.off \in BOOLEAN /\ m.note \in Notes
<1>1. \A m \in Messages : m.off \in BOOLEAN /\ m.note \in Notes
  BY DEF Messages
<1>2. Kinds(Messages, TRUE, FALSE)
  BY <1>1 DEF Kinds
<1> DEFINE M == Messages
           q == ring
           off == TRUE
           on == FALSE
<1>3. q \in Seq(M)
  BY RingTyped
<1>4. \A i \in 1 .. Len(q) : q[i].off = off \/ q[i].off = on
  <2>1. \A i \in 1 .. Len(q) : q[i] \in M
    BY <1>3
  <2> QED
    BY <2>1, <1>1
<1>5. off # on
  OBVIOUS
<1> HIDE DEF M, q, off, on
<1>6. TwoKinds(q, off, on)
  BY <1>4, <1>5 DEF TwoKinds
<1>7. Len(OfKind(q, off)) + Len(OfKind(q, on)) = Len(q)
  BY <1>3, <1>6, OfKindLens
<1>8. OfKind(q, off) \in Seq(M) /\ OfKind(q, on) \in Seq(M)
  BY <1>3, OfKindTyped
<1> QED
  BY <1>1, <1>2, <1>7, <1>8 DEF M, q, off, on

\* The ring is never near full.
LEMMA LoadLight ==
    ASSUME TypeOK, NEW W, NEW h, Loaded(W, h), LoadInv(W, h)
    PROVE  /\ Len(OfKind(ring, TRUE)) <= W[1] + W[2] /\ Len(OfKind(ring, FALSE)) <= W[1] + W[2]
           /\ Len(OfKind(ring, TRUE)) \in Nat /\ Len(OfKind(ring, FALSE)) \in Nat
           /\ W[1] \in Nat /\ W[2] \in Nat
           /\ Len(ring) < RingSize
<1>1. W[1] \in Nat /\ W[2] \in Nat /\ 2 * (W[1] + W[2]) < RingSize /\ RingSize \in Nat
  BY RingAssumption DEF Loaded, Room
<1> DEFINE a == Len(OfKind(ring, TRUE))
           c == Len(OfKind(ring, FALSE))
           n == Len(ring)
           S == W[1] + W[2]
<1>2. a <= S
  BY DEF LoadInv, OffsInv, Shares
<1>3. c <= S
  BY DEF LoadInv, OnsInv, Shares
<1>4. a + c = n
  BY RingKinds
<1>5. a \in Nat /\ c \in Nat
  <2>1. OfKind(ring, TRUE) \in Seq(Messages) /\ OfKind(ring, FALSE) \in Seq(Messages)
    BY RingKinds
  <2> DEFINE x == OfKind(ring, TRUE)
             y == OfKind(ring, FALSE)
  <2>2. x \in Seq(Messages) /\ y \in Seq(Messages)
    BY <2>1
  <2> HIDE DEF x, y
  <2>3. Len(x) \in Nat /\ Len(y) \in Nat
    BY <2>2
  <2> QED
    BY <2>3 DEF x, y
<1>6. S \in Nat /\ 2 * S < RingSize
  BY <1>1
<1> HIDE DEF a, c, n, S
<1>7. n < RingSize
  BY <1>1, <1>2, <1>3, <1>4, <1>5, <1>6
<1> QED
  BY <1>1, <1>2, <1>3, <1>5, <1>7 DEF a, c, n, S

\* The edges of before, but for the first ones.
Later ==
    \E d \in Nat : \A i \in 1 .. Len(evt') : i + d \in 1 .. Len(evt) /\ evt'[i] = evt[i + d]

LEMMA LaterOrder ==
    ASSUME TypeOK, TypeOK', Later, UNCHANGED settled, OrderInv
    PROVE  OrderInv' /\ Edging' \subseteq Edging /\ Releasing' \subseteq Releasing
<1>1. PICK d \in Nat : \A i \in 1 .. Len(evt') : i + d \in 1 .. Len(evt) /\ evt'[i] = evt[i + d]
  BY DEF Later
<1>2. Edging' \subseteq Edging
  BY <1>1 DEF Edging
<1>3. Releasing' \subseteq Releasing
  BY <1>1 DEF Releasing
<1>4. ASSUME NEW i \in 1 .. Len(evt'), NEW j \in 1 .. Len(evt'), NEW l \in 1 .. 2, i < j,
             evt'[i].button \in Ladders[l], evt'[j].button \in Ladders[l]
      PROVE  ~evt'[i].down /\ evt'[j].down
  <2> DEFINE x == i + d
             y == j + d
  <2>1. x \in 1 .. Len(evt) /\ y \in 1 .. Len(evt) /\ x < y
    BY <1>1, <1>4
  <2>2. evt'[i] = evt[x] /\ evt'[j] = evt[y]
    BY <1>1
  <2> HIDE DEF x, y
  <2> QED
    BY <1>4, <2>1, <2>2 DEF OrderInv
<1>5. \A l \in Edging' : settled'[l] = 0
  BY <1>2 DEF OrderInv
<1> QED
  BY <1>2, <1>3, <1>4, <1>5 DEF OrderInv

LEMMA SameLater ==
    ASSUME TypeOK, TypeOK', UNCHANGED evt
    PROVE  Later
<1>1. \A i \in 1 .. Len(evt') : i + 0 \in 1 .. Len(evt) /\ evt'[i] = evt[i + 0]
  BY EvtTyped
<1> QED
  BY <1>1 DEF Later

LEMMA RoutingLater ==
    ASSUME TypeOK, TypeOK', NEW b \in Buttons, NEW down \in BOOLEAN, Routing(b, down)
    PROVE  /\ Later /\ UNCHANGED settled /\ pc = "route" /\ pc' = "route"
           /\ 1 \in 1 .. Len(evt) /\ evt[1].button = b /\ evt[1].down = down
           /\ \A i \in 1 .. Len(evt') : i + 1 \in 1 .. Len(evt) /\ evt'[i] = evt[i + 1]
<1> DEFINE E == [button : Buttons, down : BOOLEAN]
<1>1. evt \in Seq(E) /\ evt # <<>> /\ evt' = Tail(evt) /\ Head(evt) = [button |-> b, down |-> down]
  BY DEF Routing, TypeOK
<1>2. UNCHANGED settled /\ pc = "route" /\ pc' = "route"
  BY DEF Routing
<1> DEFINE e == [button |-> b, down |-> down]
<1>3. e.button = b /\ e.down = down
  OBVIOUS
<1> HIDE DEF E, e
<1>4. 1 \in 1 .. Len(evt) /\ Head(evt) = evt[1]
  BY <1>1
<1>5. \A i \in 1 .. Len(evt') : i + 1 \in 1 .. Len(evt) /\ evt'[i] = evt[i + 1]
  BY <1>1
<1>6. evt[1] = e
  BY <1>1, <1>4 DEF e
<1>7. Later
  <2>1. 1 \in Nat
    OBVIOUS
  <2> QED
    BY <1>5, <2>1 DEF Later
<1> QED
  BY <1>2, <1>3, <1>4, <1>5, <1>6, <1>7

\* What of the invariants leaves the queues alone.
LEMMA PressUnder ==
    ASSUME PressInv, Later, Range(ring') \subseteq Range(ring)
    PROVE  PressInv'
<1>1. PICK d \in Nat : \A i \in 1 .. Len(evt') : i + d \in 1 .. Len(evt) /\ evt'[i] = evt[i + d]
  BY DEF Later
<1> SUFFICES ASSUME NEW i \in 1 .. Len(evt'), evt'[i].down, NEW m \in Range(ring'), m.off
             PROVE  m.note \notin Own(evt'[i].button)
  BY DEF PressInv
<1> DEFINE j == i + d
<1>2. j \in 1 .. Len(evt) /\ evt'[i] = evt[j]
  BY <1>1
<1> HIDE DEF j
<1>3. evt[j].down /\ m \in Range(ring)
  BY <1>2
<1>4. m.note \notin Own(evt[j].button)
  BY <1>2, <1>3 DEF PressInv
<1> QED
  BY <1>2, <1>4

\* The ladders' loads do not change but with an edge or a drain.
LEMMA LoadsStill ==
    ASSUME NEW h, \A l \in 1 .. 2 : Age(l)' = Age(l)
    PROVE  Loads(h)' = Loads(h)
  BY DEF Loads

LEMMA AgeStill ==
    ASSUME UNCHANGED settled,
           \/ pc' = pc
           \/ pc \in {"poll", "detect", "scan"} /\ pc' \in {"poll", "detect", "scan"}
           \/ pc = "route" /\ pc' = "top"
    PROVE  \A l \in 1 .. 2 : Age(l)' = Age(l)
  BY DEF Age

\* A step that leaves the ring and the latches as they are.
LEMMA LoadStill ==
    ASSUME TypeOK, TypeOK', NEW W, NEW h, Loaded(W, h), LoadInv(W, h),
           Later, UNCHANGED <<ring, chord, settled>>, \A l \in 1 .. 2 : Age(l)' = Age(l)
    PROVE  LoadInv(W, h)'
<1>1. OrderInv' /\ Edging' \subseteq Edging /\ Releasing' \subseteq Releasing
  BY LaterOrder DEF LoadInv
<1>2. PressInv'
  BY PressUnder DEF LoadInv
<1>3. WidthInv(W)'
  BY DEF LoadInv, WidthInv
<1>4. Loads(h)' = Loads(h) /\ ForeignOns' = ForeignOns
  BY LoadsStill DEF ForeignOns
<1>5. OffsInv(W, h)'
  <2>1. PICK P : Shares(W, Loads(h), OfKind(ring, TRUE), P, ForeignOffs, Releasing)
    BY DEF LoadInv, OffsInv
  <2>2. Shares(W, Loads(h), OfKind(ring, TRUE), P, ForeignOffs, Releasing')
    BY <1>1, <2>1 DEF Shares
  <2> QED
    BY <1>4, <2>2 DEF OffsInv
<1>6. OnsInv(W, h)'
  <2>1. PICK P : Shares(W, Loads(h), OfKind(ring, FALSE), P, ForeignOns, Edging)
    BY DEF LoadInv, OnsInv
  <2>2. Shares(W, Loads(h), OfKind(ring, FALSE), P, ForeignOns, Edging')
    BY <1>1, <2>1 DEF Shares
  <2> QED
    BY <1>4, <2>2 DEF OnsInv
<1> QED
  BY <1>1, <1>2, <1>3, <1>5, <1>6 DEF LoadInv

\* A flush.
LEMMA LoadFlushed ==
    ASSUME TypeOK, TypeOK', NEW W, NEW h, Loaded(W, h), LoadInv(W, h),
           Later, Flush, UNCHANGED settled
    PROVE  LoadInv(W, h)'
<1>1. OrderInv' /\ Edging' \subseteq 1 .. 2 /\ Releasing' \subseteq 1 .. 2
  BY LaterOrder DEF LoadInv, Edging, Releasing
<1>2. ring' = <<>> /\ chord' = Silent
  BY DEF Flush
<1>3. PressInv'
  <2>1. Range(<<>>) = {}
    BY RangeOfNone
  <2> QED
    BY <1>2, <2>1, PressUnder DEF LoadInv
<1>4. WidthInv(W)'
  <2>1. \A b \in Buttons : chord'[b] = <<>>
    BY <1>2 DEF Silent
  <2>2. \A l \in 1 .. 2 : W[l] \in Nat
    BY DEF Loaded
  <2>3. Len(<<>>) = 0
    OBVIOUS
  <2> QED
    BY <2>1, <2>2, <2>3, LaddersOf DEF WidthInv
<1>5. W \in [1 .. 2 -> Nat] /\ Loads(h)' \in [1 .. 2 -> Nat]
  <2>1. TypeOK' /\ Fades(W, h)' => Loads(h)' \in [1 .. 2 -> Nat]
    BY LoadsTypedNext
  <2>2. Fades(W, h)' = Fades(W, h)
    BY DEF Fades
  <2> QED
    BY <2>1, <2>2 DEF Loaded
<1>6. OfKind(ring, TRUE)' = <<>> /\ OfKind(ring, FALSE)' = <<>>
  BY <1>2, OfKindEmpty
<1>7. OffsInv(W, h)'
  <2> DEFINE H == Loads(h)'
             X == ForeignOffs
             D == Releasing'
  <2>1. \E P : Shares(W, H, <<>>, P, X, D)
    <3> HIDE DEF H, X
    <3>1. H \in [1 .. 2 -> Nat] /\ D \subseteq 1 .. 2
      BY <1>1, <1>5 DEF H
    <3> HIDE DEF D
    <3> QED
      BY <1>5, <3>1, SharesNone
  <2> QED
    BY <1>6, <2>1 DEF OffsInv
<1>8. OnsInv(W, h)'
  <2> DEFINE H == Loads(h)'
             X == ForeignOns'
             D == Edging'
  <2>1. \E P : Shares(W, H, <<>>, P, X, D)
    <3> HIDE DEF H, X
    <3>1. H \in [1 .. 2 -> Nat] /\ D \subseteq 1 .. 2
      BY <1>1, <1>5 DEF H
    <3> HIDE DEF D
    <3> QED
      BY <1>5, <3>1, SharesNone
  <2> QED
    BY <1>6, <2>1 DEF OnsInv
<1> QED
  BY <1>1, <1>3, <1>4, <1>7, <1>8 DEF LoadInv

\* A drain takes half of what either ladder has in the ring.
LEMMA LoadAges ==
    ASSUME TypeOK, TypeOK', NEW W, NEW h, Fades(W, h), Drain
    PROVE  \A l \in 1 .. 2 : Loads(h)[l] <= 2 * Loads(h)'[l] + 1
<1>1. Fades(W, h)' = Fades(W, h)
  BY DEF Fades
<1>2. \A l \in 1 .. 2 : Loads(h)[l] = h[Age(l)] /\ Loads(h)'[l] = h[Age(l)']
  BY <1>1, LoadsTyped, LoadsTypedNext
<1> SUFFICES ASSUME NEW l \in 1 .. 2 PROVE h[Age(l)] <= 2 * h[Age(l)'] + 1
  BY <1>2
<1>3. pc = "top" /\ pc' = "poll" /\ settled' = settled
  BY DEF Drain, hand
<1> DEFINE k == settled[l]
           x == Age(l)
           y == Age(l)'
<1>4. k \in 0 .. Debounce /\ Debounce \in Nat
  BY RingTyped
<1>5. x = k
  BY <1>3 DEF Age
<1>6. CASE k < Debounce
  <2>1. y = k + 1
    BY <1>3, <1>6 DEF Age
  <2> HIDE DEF k, x, y
  <2>2. y \in 1 .. Debounce /\ y - 1 = k
    BY <1>4, <1>6, <2>1
  <2>3. h[y - 1] <= 2 * h[y] + 1
    BY <2>2 DEF Fades
  <2>4. h[x] <= 2 * h[y] + 1
    BY <1>5, <2>2, <2>3
  <2> QED
    BY <2>4 DEF x, y
<1>7. CASE ~(k < Debounce)
  <2>1. y = k
    BY <1>3, <1>7 DEF Age
  <2> HIDE DEF k, x, y
  <2>2. k = Debounce
    BY <1>4, <1>7
  <2>3. h[x] = 0 /\ h[y] = 0
    BY <1>5, <2>1, <2>2 DEF Fades
  <2>4. h[x] <= 2 * h[y] + 1
    BY <2>3
  <2> QED
    BY <2>4 DEF x, y
<1> QED
  BY <1>6, <1>7

\* Both kinds together: what the budget stops is taken whole.
LEMMA BudgetHalves ==
    ASSUME NEW S \in Nat, NEW B \in Nat, 3 * S <= 2 * B,
           NEW a \in Nat, NEW c \in Nat, NEW t \in Nat, NEW u \in Nat,
           a <= S, c <= S, t <= a, a <= 2 * t \/ t >= B, c <= 2 * u \/ t + u >= B
    PROVE  a <= 2 * t /\ c <= 2 * u
<1>1. t >= B => a <= 2 * t
  OBVIOUS
<1>2. t + u >= B => c <= 2 * u
  OBVIOUS
<1> QED
  BY <1>1, <1>2

LEMMA DrainHalves ==
    ASSUME TypeOK, NEW W, NEW h, Loaded(W, h), LoadInv(W, h)
    PROVE  \E t, u : /\ Splits(Messages, ring, Drained(ring), t, u)
                     /\ Len(OfKind(ring, TRUE)) <= 2 * Len(t)
                     /\ Len(OfKind(ring, FALSE)) <= 2 * Len(u)
<1>1. /\ ring \in Seq(Messages) /\ Len(ring) < RingSize /\ Kinds(Messages, TRUE, FALSE)
      /\ Budget \in Nat
  BY RingTyped, RingKinds, LoadLight
<1>2. PICK t, u : Splits(Messages, ring, Drained(ring), t, u) /\ Halves(ring, t, u)
  <2> DEFINE M == Messages
             q == ring
  <2>1. q \in Seq(M) /\ Len(q) < RingSize /\ Kinds(M, TRUE, FALSE)
    BY <1>1
  <2> HIDE DEF M, q
  <2>2. \E t, u : Splits(M, q, Drained(q), t, u) /\ Halves(q, t, u)
    BY <2>1, DrainSplits
  <2> QED
    BY <2>2 DEF M, q
<1> DEFINE a == Len(OfKind(ring, TRUE))
           c == Len(OfKind(ring, FALSE))
           x == Len(t)
           y == Len(u)
           S == W[1] + W[2]
           r == OfKind(Drained(ring).q, TRUE)
<1>3. a <= S /\ c <= S /\ a \in Nat /\ c \in Nat /\ S \in Nat
  <2>1. a <= S /\ c <= S /\ a \in Nat /\ c \in Nat
    BY LoadLight
  <2>2. W[1] \in Nat /\ W[2] \in Nat
    BY LoadLight
  <2> HIDE DEF a, c
  <2>3. S \in Nat
    BY <2>2
  <2> QED
    BY <2>1, <2>3
<1>4. t \in Seq(Messages) /\ u \in Seq(Messages) /\ t \o r = OfKind(ring, TRUE)
  BY <1>2 DEF Splits
<1>5. x \in Nat /\ y \in Nat
  BY <1>4
<1>6. x <= a
  <2>1. r \in Seq(Messages)
    <3> DEFINE M == Messages
               q == Drained(ring).q
    <3>1. q \in Seq(M)
      BY <1>1, DrainKeeps
    <3> HIDE DEF M, q
    <3>2. OfKind(q, TRUE) \in Seq(M)
      BY <3>1, OfKindTyped
    <3> QED
      BY <3>2 DEF M, q
  <2> HIDE DEF r
  <2>2. Len(t \o r) = Len(t) + Len(r) /\ Len(r) \in Nat
    <3>1. Len(t \o r) = Len(t) + Len(r)
      BY <1>4, <2>1, ConcatProperties
    <3>2. Len(r) \in Nat
      BY <2>1
    <3> QED
      BY <3>1, <3>2
  <2>3. Len(t \o r) = a
    BY <1>4
  <2> HIDE DEF a
  <2> QED
    BY <1>5, <2>2, <2>3
<1>7. 3 * S <= 2 * Budget
  BY DEF Loaded, Room
<1>8. (a <= 2 * x \/ x >= Budget) /\ (c <= 2 * y \/ x + y >= Budget)
  BY <1>2 DEF Halves
<1> HIDE DEF a, c, x, y, S
<1>9. a <= 2 * x /\ c <= 2 * y
  BY <1>1, <1>3, <1>5, <1>6, <1>7, <1>8, BudgetHalves
<1> QED
  BY <1>2, <1>9 DEF a, c, x, y

LEMMA LoadUnderDrain ==
    ASSUME TypeOK, TypeOK', EdgesInv, NEW W, NEW h, Loaded(W, h), LoadInv(W, h), Drain
    PROVE  LoadInv(W, h)'
<1>1. pc = "top" /\ ring' = Drained(ring).q /\ UNCHANGED <<chord, settled, evt>>
  BY DEF Drain, hand
<1>2. Later /\ evt = <<>>
  BY <1>1, SameLater DEF EdgesInv
<1>3. OrderInv' /\ Edging' \subseteq Edging /\ Releasing' \subseteq Releasing
  BY <1>1, <1>2, LaterOrder DEF LoadInv
<1>4. Edging' = Edging /\ Releasing' = Releasing
  BY <1>1 DEF Edging, Releasing
<1>5. PressInv'
  <2>1. Range(ring') \subseteq Range(ring)
    BY <1>1, RingTyped, DrainKeeps
  <2> QED
    BY <1>2, <2>1, PressUnder DEF LoadInv
<1>6. WidthInv(W)' /\ ForeignOns' = ForeignOns
  BY <1>1 DEF LoadInv, WidthInv, ForeignOns
<1>7. PICK t, u : /\ Splits(Messages, ring, Drained(ring), t, u)
                  /\ Len(OfKind(ring, TRUE)) <= 2 * Len(t)
                  /\ Len(OfKind(ring, FALSE)) <= 2 * Len(u)
  BY DrainHalves
<1> DEFINE M == Messages
           a == OfKind(ring, TRUE)
           c == OfKind(ring, FALSE)
           x == OfKind(Drained(ring).q, TRUE)
           y == OfKind(Drained(ring).q, FALSE)
           H == Loads(h)
           R == Loads(h)'
           X == ForeignOffs
           Y == ForeignOns
           D == Releasing
           E == Edging
<1>8. t \in Seq(M) /\ u \in Seq(M) /\ a = t \o x /\ c = u \o y
  BY <1>7 DEF Splits
<1>9. x \in Seq(M) /\ y \in Seq(M)
  <2> DEFINE q == Drained(ring).q
  <2>1. q \in Seq(M)
    BY RingTyped, DrainKeeps
  <2> HIDE DEF M, q
  <2>2. OfKind(q, TRUE) \in Seq(M) /\ OfKind(q, FALSE) \in Seq(M)
    BY <2>1, OfKindTyped
  <2> QED
    BY <2>2 DEF q
<1>10. /\ H \in [1 .. 2 -> Nat] /\ R \in [1 .. 2 -> Nat] /\ W \in [1 .. 2 -> Nat]
       /\ \A l \in 1 .. 2 : H[l] <= 2 * R[l] + 1
  <2>1. Fades(W, h)' = Fades(W, h)
    BY DEF Fades
  <2>2. Fades(W, h) /\ W \in [1 .. 2 -> Nat]
    BY DEF Loaded
  <2> HIDE DEF H, R
  <2>3. H \in [1 .. 2 -> Nat]
    BY <2>2, LoadsTyped DEF H
  <2>4. R \in [1 .. 2 -> Nat]
    BY <2>1, <2>2, LoadsTypedNext DEF R
  <2>5. \A l \in 1 .. 2 : H[l] <= 2 * R[l] + 1
    BY <2>2, LoadAges DEF H, R
  <2> QED
    BY <2>2, <2>3, <2>4, <2>5
<1>11. D \subseteq 1 .. 2 /\ E \subseteq 1 .. 2
  BY DEF Releasing, Edging
<1>12. PICK P : Shares(W, H, a, P, X, D)
  BY DEF LoadInv, OffsInv
<1>13. PICK O : Shares(W, H, c, O, Y, E)
  BY DEF LoadInv, OnsInv
<1>14. Len(a) <= 2 * Len(t) /\ Len(c) <= 2 * Len(u)
  BY <1>7
<1>15. OfKind(ring, TRUE)' = x /\ OfKind(ring, FALSE)' = y
  BY <1>1
<1> HIDE DEF M, a, c, x, y, H, R, X, Y, D, E
<1>16. \E Q : Shares(W, R, x, Q, X, D)
  BY <1>8, <1>9, <1>10, <1>11, <1>12, <1>14, SharesDrop
<1>17. \E Q : Shares(W, R, y, Q, Y, E)
  BY <1>8, <1>9, <1>10, <1>11, <1>13, <1>14, SharesDrop
<1>18. OffsInv(W, h)'
  BY <1>4, <1>15, <1>16 DEF OffsInv, R, X, D
<1>19. OnsInv(W, h)'
  BY <1>4, <1>6, <1>15, <1>17 DEF OnsInv, R, Y, E
<1> QED
  BY <1>3, <1>5, <1>6, <1>18, <1>19 DEF LoadInv

\* The edges of one ladder, in their order.
LEMMA EdgesOrder ==
    ASSUME NEW old, NEW new, NEW E, EdgeList(E, old, new),
           NEW i \in 1 .. Len(E), NEW j \in 1 .. Len(E), i < j
    PROVE  ~E[i].down /\ E[j].down
<1>0. Len(E) \in Nat /\ j <= Len(E) /\ i # Len(E)
  BY DEF EdgeList
<1>1. ~E[i].down
  BY <1>0 DEF EdgeList
<1>2. E[i].button \in {old, new} /\ E[j].button \in {old, new}
  BY DEF EdgeList
<1>3. E[i].button # new
  BY <1>1 DEF EdgeList
<1>4. E[i].button # E[j].button
  <2>1. i # j
    BY <1>0
  <2> QED
    BY <2>1 DEF EdgeList
<1>5. E[j].button = new
  BY <1>2, <1>3, <1>4
<1> QED
  BY <1>1, <1>5 DEF EdgeList

\* The edges of a scan: first those of ladder 1, then those of ladder 2.
LEMMA ScanOrder ==
    ASSUME TypeOK, TypeOK', EdgesInv, Scan
    PROVE  /\ OrderInv'
           /\ \A l \in Edging' : settled[l] >= Debounce - 1
           /\ \A l \in 1 .. 2 : settled'[l] = 0 \/ settled'[l] = Age(l)
<1>1. PICK r \in Readings :
        /\ \A l \in 1 .. 2 : r[l] # held[l] => settled[l] >= Debounce - 1
        /\ held' = r
        /\ settled' = [l \in 1 .. 2 |->
                         IF r[l] # held[l] THEN 0
                         ELSE IF settled[l] < Debounce THEN settled[l] + 1 ELSE Debounce]
        /\ evt' = Edges(held[1], r[1]) \o Edges(held[2], r[2])
  BY DEF Scan
<1> DEFINE E1 == Edges(held[1], r[1])
           E2 == Edges(held[2], r[2])
           t == E1 \o E2
           n == Len(E1)
<1>2. /\ held[1] \in Ladders[1] \cup {NoButton} /\ held[2] \in Ladders[2] \cup {NoButton}
      /\ r[1] \in Ladders[1] \cup {NoButton} /\ r[2] \in Ladders[2] \cup {NoButton}
  <2>1. \A l \in 1 .. 2 : r[l] \in Ladders[l] \cup {NoButton}
    BY DEF Readings
  <2>2. 1 \in 1 .. 2 /\ 2 \in 1 .. 2
    OBVIOUS
  <2> QED
    BY <2>1, <2>2, HeldTyped
<1>3. EdgeList(E1, held[1], r[1]) /\ EdgeList(E2, held[2], r[2])
  <2>1. /\ held[1] \in Buttons \cup {NoButton} /\ r[1] \in Buttons \cup {NoButton}
        /\ held[2] \in Buttons \cup {NoButton} /\ r[2] \in Buttons \cup {NoButton}
    BY <1>2, LaddersOf DEF Buttons
  <2> QED
    BY <2>1, EdgesList
<1>4. n \in Nat /\ Len(E2) \in Nat
  BY <1>3 DEF EdgeList
<1>5. /\ Len(t) = n + Len(E2)
      /\ \A i \in 1 .. n + Len(E2) : t[i] = IF i <= n THEN E1[i] ELSE E2[i - n]
  <2> DEFINE M == [button : Buttons, down : BOOLEAN]
  <2>1. E1 \in Seq(M) /\ E2 \in Seq(M)
    <3>1. /\ held[1] \in Buttons \cup {NoButton} /\ r[1] \in Buttons \cup {NoButton}
          /\ held[2] \in Buttons \cup {NoButton} /\ r[2] \in Buttons \cup {NoButton}
      BY <1>2, LaddersOf DEF Buttons
    <3> QED
      BY <3>1, EdgesTyped
  <2> HIDE DEF M, E1, E2
  <2> QED
    BY <2>1, ConcatProperties
<1>6. evt' = t
  BY <1>1
<1> HIDE DEF E1, E2, t
<1>7. \A i \in 1 .. Len(t) :
        \/ i <= n /\ i \in 1 .. n /\ t[i] = E1[i]
        \/ i > n /\ i - n \in 1 .. Len(E2) /\ t[i] = E2[i - n]
  BY <1>4, <1>5
<1>8. \A i \in 1 .. n : E1[i].button \in Ladders[1] /\ held[1] # r[1]
  BY <1>2, <1>3 DEF EdgeList
<1>9. \A i \in 1 .. Len(E2) : E2[i].button \in Ladders[2] /\ held[2] # r[2]
  BY <1>2, <1>3 DEF EdgeList
<1>10. Ladders[1] \cap Ladders[2] = {}
  BY NotesAssumption
<1>11. ASSUME NEW i \in 1 .. Len(t), NEW l \in 1 .. 2, t[i].button \in Ladders[l]
       PROVE  /\ l = 1 => i \in 1 .. n /\ t[i] = E1[i] /\ held[1] # r[1]
              /\ l = 2 => i > n /\ i - n \in 1 .. Len(E2) /\ t[i] = E2[i - n] /\ held[2] # r[2]
  <2>1. CASE i <= n /\ i \in 1 .. n /\ t[i] = E1[i]
    <3>1. E1[i].button \in Ladders[1] /\ held[1] # r[1]
      BY <1>8, <2>1
    <3>2. l # 2
      BY <1>10, <1>11, <2>1, <3>1
    <3> QED
      BY <2>1, <3>1, <3>2
  <2>2. CASE i > n /\ i - n \in 1 .. Len(E2) /\ t[i] = E2[i - n]
    <3>1. E2[i - n].button \in Ladders[2] /\ held[2] # r[2]
      BY <1>9, <2>2
    <3>2. l # 1
      BY <1>10, <1>11, <2>2, <3>1
    <3> QED
      BY <2>2, <3>1, <3>2
  <2> QED
    BY <1>7, <2>1, <2>2
<1>12. ASSUME NEW i \in 1 .. Len(t), NEW j \in 1 .. Len(t), NEW l \in 1 .. 2, i < j,
              t[i].button \in Ladders[l], t[j].button \in Ladders[l]
       PROVE  ~t[i].down /\ t[j].down
  <2>1. CASE l = 1
    <3>1. i \in 1 .. n /\ j \in 1 .. n /\ t[i] = E1[i] /\ t[j] = E1[j]
      BY <1>11, <1>12, <2>1
    <3>2. ~E1[i].down /\ E1[j].down
      <4> DEFINE old == held[1]
                 new == r[1]
      <4>1. EdgeList(E1, old, new) /\ i \in 1 .. Len(E1) /\ j \in 1 .. Len(E1)
        BY <1>3, <3>1
      <4> HIDE DEF old, new
      <4> QED
        BY <1>12, <4>1, EdgesOrder
    <3> QED
      BY <3>1, <3>2
  <2>2. CASE l = 2
    <3> DEFINE x == i - n
               y == j - n
    <3>1. x \in 1 .. Len(E2) /\ y \in 1 .. Len(E2) /\ t[i] = E2[x] /\ t[j] = E2[y]
      BY <1>11, <1>12, <2>2
    <3>2. x < y
      BY <1>4, <1>12
    <3> HIDE DEF x, y
    <3>3. ~E2[x].down /\ E2[y].down
      <4> DEFINE old == held[2]
                 new == r[2]
      <4>1. EdgeList(E2, old, new)
        BY <1>3
      <4> HIDE DEF old, new
      <4> QED
        BY <3>1, <3>2, <4>1, EdgesOrder
    <3> QED
      BY <3>1, <3>3
  <2> QED
    BY <2>1, <2>2
<1>13. ASSUME NEW l \in Edging' PROVE held[l] # r[l] /\ l \in 1 .. 2
  <2>1. l \in 1 .. 2 /\ \E i \in 1 .. Len(t) : t[i].button \in Ladders[l]
    BY <1>6 DEF Edging
  <2>2. PICK i \in 1 .. Len(t) : t[i].button \in Ladders[l]
    BY <2>1
  <2>3. l = 1 \/ l = 2
    BY <2>1
  <2>4. /\ l = 1 => held[1] # r[1]
        /\ l = 2 => held[2] # r[2]
    BY <1>11, <2>1, <2>2
  <2> QED
    BY <2>1, <2>3, <2>4
<1>14. \A l \in Edging' : settled'[l] = 0
  BY <1>1, <1>13
<1>15. OrderInv'
  BY <1>6, <1>12, <1>14 DEF OrderInv
<1>16. \A l \in Edging' : settled[l] >= Debounce - 1
  BY <1>1, <1>13
<1>17. \A l \in 1 .. 2 : settled'[l] = 0 \/ settled'[l] = Age(l)
  <2> SUFFICES ASSUME NEW l \in 1 .. 2 PROVE settled'[l] = 0 \/ settled'[l] = Age(l)
    OBVIOUS
  <2>1. pc = "scan" /\ settled[l] \in 0 .. Debounce /\ Debounce \in Nat
    BY RingTyped DEF Scan
  <2>2. settled'[l] = IF r[l] # held[l] THEN 0
                      ELSE IF settled[l] < Debounce THEN settled[l] + 1 ELSE Debounce
    BY <1>1
  <2>3. CASE settled[l] < Debounce
    BY <2>1, <2>2, <2>3 DEF Age
  <2>4. CASE ~(settled[l] < Debounce)
    <3>1. settled[l] = Debounce
      BY <2>1, <2>4
    <3> QED
      BY <2>1, <2>2, <2>4, <3>1 DEF Age
  <2> QED
    BY <2>3, <2>4
<1> QED
  BY <1>15, <1>16, <1>17

\* A ladder may have an edge when its last messages are out.
LEMMA SharesEdge ==
    ASSUME NEW W, NEW H \in [1 .. 2 -> Nat], NEW s, NEW P, NEW X, NEW D,
           Shares(W, H, s, P, X, D), Len(s) \in Nat, W[1] + W[2] \in Nat,
           NEW R \in [1 .. 2 -> Nat], \A l \in 1 .. 2 : R[l] = W[1] + W[2] \/ R[l] = H[l],
           NEW E, \A l \in E : l \in 1 .. 2 /\ H[l] = 0
    PROVE  Shares(W, R, s, P, X, E)
<1>1. \A l \in 1 .. 2 : P[l] \in 0 .. Len(s) /\ P[l] <= H[l]
  BY DEF Shares
<1>2. ASSUME NEW l \in 1 .. 2 PROVE P[l] <= R[l]
  <2> DEFINE p == P[l]
             n == Len(s)
             w == W[1] + W[2]
  <2>1. p \in 0 .. n /\ n \in Nat /\ n <= w /\ w \in Nat
    BY <1>1 DEF Shares
  <2>2. R[l] = w \/ R[l] = H[l]
    OBVIOUS
  <2>3. p <= H[l]
    BY <1>1
  <2> HIDE DEF p, n, w
  <2>4. p <= w
    BY <2>1
  <2>5. p <= R[l]
    BY <2>2, <2>3, <2>4
  <2> QED
    BY <2>5 DEF p
<1>3. ASSUME NEW l \in E PROVE P[l] = 0
  <2>1. l \in 1 .. 2 /\ H[l] = 0
    OBVIOUS
  <2>2. P[l] \in 0 .. Len(s) /\ P[l] <= 0
    BY <1>1, <2>1
  <2> QED
    BY <2>2
<1>4. \A l \in 1 .. 2 : P[l] = Len(s) \/ X[l] \subseteq X[l]
  OBVIOUS
<1> QED
  BY <1>2, <1>3, <1>4, SharesKeep

LEMMA ScanLoads ==
    ASSUME TypeOK, TypeOK', EdgesInv, NEW W, NEW h, Loaded(W, h), Scan
    PROVE  /\ \A l \in 1 .. 2 : Loads(h)'[l] = W[1] + W[2] \/ Loads(h)'[l] = Loads(h)[l]
           /\ \A l \in Edging' : l \in 1 .. 2 /\ Loads(h)[l] = 0
<1>1. Fades(W, h)' = Fades(W, h) /\ Fades(W, h)
  BY DEF Fades, Loaded
<1>2. \A l \in 1 .. 2 : Loads(h)[l] = h[Age(l)] /\ Loads(h)'[l] = h[Age(l)']
  BY <1>1, LoadsTyped, LoadsTypedNext
<1>3. pc = "scan" /\ pc' = "route"
  BY DEF Scan
<1>4. ASSUME NEW l \in 1 .. 2
      PROVE  Loads(h)'[l] = W[1] + W[2] \/ Loads(h)'[l] = Loads(h)[l]
  <2>1. Age(l)' = settled'[l]
    BY <1>3 DEF Age
  <2>2. settled'[l] = 0 \/ settled'[l] = Age(l)
    BY ScanOrder
  <2>3. h[0] = W[1] + W[2]
    BY <1>1 DEF Fades
  <2> QED
    BY <1>2, <2>1, <2>2, <2>3
<1>5. ASSUME NEW l \in Edging' PROVE l \in 1 .. 2 /\ Loads(h)[l] = 0
  <2>1. l \in 1 .. 2
    BY DEF Edging
  <2>2. settled[l] >= Debounce - 1 /\ settled[l] \in 0 .. Debounce /\ Debounce \in Nat
    BY <2>1, ScanOrder, RingTyped
  <2>3. Age(l) = Debounce
    <3>1. CASE settled[l] < Debounce
      <4>1. Age(l) = settled[l] + 1
        BY <1>3, <3>1 DEF Age
      <4> QED
        BY <2>2, <3>1, <4>1
    <3>2. CASE ~(settled[l] < Debounce)
      <4>1. Age(l) = settled[l]
        BY <1>3, <3>2 DEF Age
      <4> QED
        BY <2>2, <3>2, <4>1
    <3> QED
      BY <3>1, <3>2
  <2>4. h[Debounce] = 0
    BY <1>1 DEF Fades
  <2> QED
    BY <1>2, <2>1, <2>3, <2>4
<1> QED
  BY <1>4, <1>5

\* An Off in the ring is in the queue of the Offs, an On in that of the Ons.
LEMMA OffsHave ==
    ASSUME TypeOK, NEW W, NEW H, NEW P, NEW X, NEW D, NEW l \in D, D \subseteq 1 .. 2,
           Shares(W, H, OfKind(ring, TRUE), P, X, D), NEW m \in Range(ring), m.off
    PROVE  m.note \in X[l]
<1>1. m.off = TRUE
  <2>1. m \in Messages
    BY RingTyped, RangeIs
  <2> QED
    BY <2>1, RingKinds
<1> DEFINE M == Messages
           q == ring
           w == TRUE
           s == OfKind(q, w)
<1>2. q \in Seq(M) /\ m \in Range(q) /\ m.off = w
  BY <1>1, RingTyped
<1>3. Shares(W, H, s, P, X, D)
  OBVIOUS
<1> HIDE DEF M, q, w
<1>4. PICK i \in 1 .. Len(s) : s[i] = m
  BY <1>2, OfKindHas
<1>5. P[l] = 0 /\ l \in 1 .. 2
  BY <1>3 DEF Shares
<1> HIDE DEF s
<1>6. i > P[l]
  BY <1>5
<1>7. s[i].note \in X[l]
  BY <1>3, <1>5, <1>6 DEF Shares
<1> QED
  BY <1>4, <1>7

LEMMA OnsHave ==
    ASSUME TypeOK, NEW W, NEW H, NEW P, NEW X, NEW D, NEW l \in D, D \subseteq 1 .. 2,
           Shares(W, H, OfKind(ring, FALSE), P, X, D), NEW m \in Range(ring), ~m.off
    PROVE  m.note \in X[l]
<1>1. m.off = FALSE
  <2>1. m \in Messages
    BY RingTyped, RangeIs
  <2> QED
    BY <2>1, RingKinds
<1> DEFINE M == Messages
           q == ring
           w == FALSE
           s == OfKind(q, w)
<1>2. q \in Seq(M) /\ m \in Range(q) /\ m.off = w
  BY <1>1, RingTyped
<1>3. Shares(W, H, s, P, X, D)
  OBVIOUS
<1> HIDE DEF M, q, w
<1>4. PICK i \in 1 .. Len(s) : s[i] = m
  BY <1>2, OfKindHas
<1>5. P[l] = 0 /\ l \in 1 .. 2
  BY <1>3 DEF Shares
<1> HIDE DEF s
<1>6. i > P[l]
  BY <1>5
<1>7. s[i].note \in X[l]
  BY <1>3, <1>5, <1>6 DEF Shares
<1> QED
  BY <1>4, <1>7

LEMMA LoadUnderScan ==
    ASSUME TypeOK, TypeOK', EdgesInv, EdgesInv', NEW W, NEW h, Loaded(W, h), LoadInv(W, h), Scan
    PROVE  LoadInv(W, h)'
<1>1. UNCHANGED <<ring, chord>> /\ OrderInv'
  BY ScanOrder DEF Scan
<1>2. /\ Releasing' \subseteq Edging' /\ Edging' \subseteq 1 .. 2
      /\ ForeignOns' = ForeignOns /\ WidthInv(W)'
  BY <1>1 DEF Releasing, Edging, ForeignOns, LoadInv, WidthInv
<1> DEFINE a == OfKind(ring, TRUE)
           c == OfKind(ring, FALSE)
           H == Loads(h)
           R == Loads(h)'
           X == ForeignOffs
           Y == ForeignOns
           D == Releasing
           E == Edging
           D1 == Releasing'
           E1 == Edging'
<1>3. PICK P : Shares(W, H, a, P, X, D)
  BY DEF LoadInv, OffsInv
<1>4. PICK O : Shares(W, H, c, O, Y, E)
  BY DEF LoadInv, OnsInv
<1>5. /\ H \in [1 .. 2 -> Nat] /\ R \in [1 .. 2 -> Nat]
      /\ \A l \in 1 .. 2 : R[l] = W[1] + W[2] \/ R[l] = H[l]
      /\ \A l \in E1 : l \in 1 .. 2 /\ H[l] = 0
  <2>1. Fades(W, h)' = Fades(W, h) /\ Fades(W, h)
    BY DEF Fades, Loaded
  <2> HIDE DEF H, R, E1
  <2>2. H \in [1 .. 2 -> Nat]
    BY <2>1, LoadsTyped DEF H
  <2>3. R \in [1 .. 2 -> Nat]
    BY <2>1, LoadsTypedNext DEF R
  <2>4. /\ \A l \in 1 .. 2 : R[l] = W[1] + W[2] \/ R[l] = H[l]
        /\ \A l \in E1 : l \in 1 .. 2 /\ H[l] = 0
    BY ScanLoads DEF H, R, E1
  <2> QED
    BY <2>2, <2>3, <2>4
<1>6. Len(a) \in Nat /\ Len(c) \in Nat /\ W[1] \in Nat /\ W[2] \in Nat
  BY LoadLight
<1>7. OfKind(ring, TRUE)' = a /\ OfKind(ring, FALSE)' = c
  BY <1>1
<1>8. D1 \subseteq E1 /\ E1 \subseteq 1 .. 2
  BY <1>2
<1> HIDE DEF a, c, H, R, X, Y, D, E, D1, E1
<1>w. W[1] + W[2] \in Nat
  BY <1>6
<1>9. Shares(W, R, a, P, X, E1)
  BY <1>3, <1>5, <1>6, <1>w, SharesEdge
<1>10. Shares(W, R, c, O, Y, E1)
  BY <1>4, <1>5, <1>6, <1>w, SharesEdge
<1>11. Shares(W, R, a, P, X, D1)
  BY <1>8, <1>9 DEF Shares
<1>12. OffsInv(W, h)'
  BY <1>7, <1>11 DEF OffsInv, R, X, D1
<1>13. OnsInv(W, h)'
  BY <1>2, <1>7, <1>10 DEF OnsInv, R, Y, E1
<1>14. PressInv'
  <2> SUFFICES ASSUME NEW i \in 1 .. Len(evt'), evt'[i].down, NEW m \in Range(ring), m.off
               PROVE  m.note \notin Own(evt'[i].button)
    BY <1>1 DEF PressInv
  <2> DEFINE b == evt'[i].button
  <2>1. b \in Buttons
    <3> DEFINE S == [button : Buttons, down : BOOLEAN]
    <3>1. evt' \in Seq(S)
      BY DEF TypeOK
    <3>2. \A e \in S : e.button \in Buttons
      OBVIOUS
    <3> HIDE DEF S, b
    <3>3. evt'[i] \in S
      BY <3>1
    <3> QED
      BY <3>2, <3>3 DEF b
  <2>2. PICK l \in 1 .. 2 : b \in Ladders[l]
    BY <2>1, TwoLadders
  <2>3. l \in E1
    BY <2>2 DEF Edging, E1
  <2>4. m.note \in X[l]
    <3>1. Shares(W, R, OfKind(ring, TRUE), P, X, E1)
      BY <1>9 DEF a
    <3> QED
      BY <1>8, <2>3, <3>1, OffsHave
  <2> HIDE DEF b
  <2>5. m.note \notin Own(b)
    BY <2>2, <2>4 DEF X, ForeignOffs
  <2> QED
    BY <2>5 DEF b
<1> QED
  BY <1>1, <1>2, <1>12, <1>13, <1>14 DEF LoadInv

\* The edge of a button on ladder l.
LEMMA EdgeOn ==
    ASSUME TypeOK, TypeOK', NEW b \in Buttons, NEW down \in BOOLEAN, Routing(b, down), OrderInv,
           NEW l \in 1 .. 2, b \in Ladders[l]
    PROVE  /\ l \in Edging /\ (~down => l \in Releasing)
           /\ l \notin (IF down THEN Edging' ELSE Releasing')
           /\ settled'[l] = 0
<1>1. /\ 1 \in 1 .. Len(evt) /\ evt[1].button = b /\ evt[1].down = down
      /\ \A i \in 1 .. Len(evt') : i + 1 \in 1 .. Len(evt) /\ evt'[i] = evt[i + 1]
      /\ UNCHANGED settled
  BY RoutingLater
<1>2. l \in Edging
  BY <1>1 DEF Edging
<1>3. ~down => l \in Releasing
  BY <1>1 DEF Releasing
<1>4. settled'[l] = 0
  BY <1>1, <1>2 DEF OrderInv
<1>5. ASSUME NEW i \in 1 .. Len(evt'), evt'[i].button \in Ladders[l]
      PROVE  ~down /\ evt'[i].down
  <2> DEFINE j == i + 1
  <2>1. j \in 1 .. Len(evt) /\ evt'[i] = evt[j] /\ 1 < j
    BY <1>1
  <2> HIDE DEF j
  <2>2. ~evt[1].down /\ evt[j].down
    BY <1>1, <1>5, <2>1 DEF OrderInv
  <2> QED
    BY <1>1, <2>1, <2>2
<1>6. l \notin (IF down THEN Edging' ELSE Releasing')
  <2>1. down => l \notin Edging'
    BY <1>5 DEF Edging
  <2>2. ~down => l \notin Releasing'
    BY <1>5 DEF Releasing
  <2> QED
    BY <2>1, <2>2
<1> QED
  BY <1>2, <1>3, <1>4, <1>6

\* While edges are routed the loads stay, and a ladder with an edge may push.
LEMMA RouteLoads ==
    ASSUME TypeOK, TypeOK', NEW W, NEW h, Loaded(W, h),
           UNCHANGED settled, pc = "route", pc' = "route"
    PROVE  /\ Loads(h)' = Loads(h) /\ Loads(h) \in [1 .. 2 -> Nat]
           /\ \A l \in 1 .. 2 : settled'[l] = 0 => Loads(h)'[l] = W[1] + W[2]
<1>1. \A l \in 1 .. 2 : Age(l)' = Age(l)
  BY AgeStill
<1>2. Loads(h)' = Loads(h)
  BY <1>1, LoadsStill
<1>3. Loads(h) \in [1 .. 2 -> Nat] /\ \A l \in 1 .. 2 : Loads(h)[l] = h[Age(l)]
  BY LoadsTyped DEF Loaded
<1>4. h[0] = W[1] + W[2]
  BY DEF Loaded, Fades
<1>5. ASSUME NEW l \in 1 .. 2, settled'[l] = 0 PROVE Loads(h)'[l] = W[1] + W[2]
  <2>1. Age(l) = 0
    BY <1>5 DEF Age
  <2> QED
    BY <1>2, <1>3, <1>4, <2>1
<1> QED
  BY <1>2, <1>3, <1>5

\* A ladder without messages in a queue: the other one's load is all of it.
LEMMA SharesOne ==
    ASSUME NEW W, NEW H, NEW s, NEW P, NEW X, NEW D, Shares(W, H, s, P, X, D), Len(s) \in Nat,
           NEW l \in 1 .. 2, NEW m \in 1 .. 2, l # m, P[l] = 0, W[m] \in Nat
    PROVE  P[m] = Len(s) /\ Len(s) <= W[m]
<1>1. 1 .. 2 = {l, m}
  BY DEF Shares
<1>2. P[l] = Len(s) \/ P[m] = Len(s)
  BY <1>1 DEF Shares
<1> DEFINE n == Len(s)
<1>3. P[m] \in 0 .. n /\ n - P[l] <= W[m]
  BY DEF Shares
<1>4. n - 0 <= W[m]
  BY <1>3
<1>n. n \in Nat
  OBVIOUS
<1> HIDE DEF n
<1>5. n <= W[m]
  BY <1>4, <1>n
<1>6. P[m] = n
  BY <1>2, <1>3 DEF n
<1> QED
  BY <1>5, <1>6 DEF n

\* A chord's messages, behind the ring.
AllOf(ms, w) == \A i \in 1 .. Len(ms) : ms[i].off = w
FitsIn(q, ms) == Len(q) + Len(ms) <= RingSize
JoinedBy(r, q, ms) == r = q \o ms

LEMMA PushKinds ==
    ASSUME NEW q \in Seq(Messages), NEW ms \in Seq(Messages), FitsIn(q, ms),
           NEW w, NEW v, w # v, AllOf(ms, w)
    PROVE  /\ JoinedBy(OfKind(PushedAll(q, ms), w), OfKind(q, w), ms)
           /\ OfKind(PushedAll(q, ms), v) = OfKind(q, v)
<1>1. PushedAll(q, ms) = q \o ms
  BY PushFits DEF FitsIn
<1> DEFINE M == Messages
<1>2. q \in Seq(M) /\ ms \in Seq(M)
  OBVIOUS
<1> HIDE DEF M
<1>3. OfKind(q \o ms, w) = OfKind(q, w) \o OfKind(ms, w)
  BY <1>2, OfKindConcat
<1>4. OfKind(q \o ms, v) = OfKind(q, v) \o OfKind(ms, v)
  BY <1>2, OfKindConcat
<1>a. \A i \in 1 .. Len(ms) : ms[i].off = w
  BY DEF AllOf
<1>5. OfKind(ms, w) = ms
  BY <1>2, <1>a, OfKindAll
<1>6. OfKind(ms, v) = <<>>
  <2>1. \A i \in 1 .. Len(ms) : ms[i].off # v
    BY <1>a
  <2> QED
    BY <1>2, <2>1, OfKindNone
<1>7. OfKind(q, v) \in Seq(M)
  BY <1>2, OfKindTyped
<1> DEFINE z == OfKind(q, v)
<1>8. z \o <<>> = z
  <2>1. z \in Seq(M)
    BY <1>7
  <2> HIDE DEF z
  <2> QED
    BY <2>1, ConcatEmptySeq
<1>9. OfKind(PushedAll(q, ms), v) = OfKind(q, v)
  BY <1>1, <1>4, <1>6, <1>8
<1>10. OfKind(PushedAll(q, ms), w) = OfKind(q, w) \o ms
  BY <1>1, <1>3, <1>5
<1> QED
  BY <1>9, <1>10 DEF JoinedBy

\* Two chords of either kind leave room in the ring.
LEMMA RoomFor ==
    ASSUME NEW S \in Nat, NEW a \in Nat, NEW c \in Nat, NEW k \in Nat, NEW n \in Nat,
           NEW x \in Nat, NEW y \in Nat, x + y = S, 2 * S < RingSize,
           a + c = n, a <= S, c <= S, (a <= x /\ k <= y) \/ (c <= x /\ k <= y)
    PROVE  n + k <= RingSize
<1>1. RingSize \in Nat
  BY RingAssumption
<1>2. a + k <= S \/ c + k <= S
  OBVIOUS
<1>3. n + k <= 2 * S
  BY <1>2
<1> QED
  BY <1>1, <1>3

LEMMA ChordMessages ==
    ASSUME NEW ns \in Seq(Notes), NEW ms, NEW w \in BOOLEAN, ms \in Seq(Messages),
           ms = [k \in DOMAIN ns |-> IF w THEN Off(ns[k]) ELSE On(ns[k])]
    PROVE  /\ Len(ms) = Len(ns) /\ Len(ns) \in Nat
           /\ \A i \in 1 .. Len(ms) : ms[i].off = w /\ ms[i].note \in Range(ns)
<1>1. DOMAIN ns = 1 .. Len(ns) /\ Len(ns) \in Nat
  OBVIOUS
<1>2. ms = [k \in 1 .. Len(ns) |-> IF w THEN Off(ns[k]) ELSE On(ns[k])]
  BY <1>1
<1>3. Len(ms) = Len(ns)
  BY <1>1, <1>2
<1>4. ASSUME NEW i \in 1 .. Len(ms) PROVE ms[i].off = w /\ ms[i].note \in Range(ns)
  <2>1. i \in 1 .. Len(ns) /\ ns[i] \in Range(ns)
    BY <1>3, RangeIs
  <2>2. ms[i] = IF w THEN Off(ns[i]) ELSE On(ns[i])
    BY <1>2, <2>1
  <2>3. /\ Off(ns[i]).off = TRUE /\ Off(ns[i]).note = ns[i]
        /\ On(ns[i]).off = FALSE /\ On(ns[i]).note = ns[i]
    BY DEF On, Off
  <2>4. CASE w
    <3>1. w = TRUE /\ ms[i] = Off(ns[i])
      BY <2>2, <2>4
    <3> QED
      BY <2>1, <2>3, <3>1
  <2>5. CASE ~w
    <3>1. w = FALSE /\ ms[i] = On(ns[i])
      BY <2>2, <2>5
    <3> QED
      BY <2>1, <2>3, <3>1
  <2> QED
    BY <2>4, <2>5
<1> QED
  BY <1>1, <1>3, <1>4

\* A note of one button is none of another's own.
LEMMA NotOwn ==
    ASSUME NEW b, NEW c, b # c, NEW n \in PlayedBy(b)
    PROVE  n \notin Own(c)
  BY DEF PlayedBy, Own

LEMMA LoadUnderChordPress ==
    ASSUME TypeOK, TypeOK', EdgesInv, LatchesInv, NEW W, NEW h, Loaded(W, h), LoadInv(W, h),
           NEW b \in Buttons, ChordPress(b)
    PROVE  LoadInv(W, h)'
<1> DEFINE ns == Chord[<<slot, layer_now, b>>]
           ms == [k \in DOMAIN ns |-> On(ns[k])]
<1>0. /\ Routing(b, TRUE) /\ Kind[<<slot, layer_now, b>>] = "chord"
      /\ chord' = [chord EXCEPT ![b] = ns] /\ ring' = PushedAll(ring, ms)
  BY DEF ChordPress, Midi, EmitLayer, Plain, Passed
<1>1. <<slot, layer_now, b>> \in Played /\ ns \in Seq(Notes)
  BY ChordsTyped DEF TypeOK
<1>2. Later /\ UNCHANGED settled /\ pc = "route" /\ pc' = "route"
  BY <1>0, RoutingLater
<1>3. PICK l, m \in 1 .. 2 : l # m /\ b \in Ladders[l] /\ b \notin Ladders[m]
  BY TwoLadders
<1>4. l \in Edging /\ l \notin Edging' /\ settled'[l] = 0
  BY <1>0, <1>3, EdgeOn DEF LoadInv
<1>5. OrderInv' /\ Edging' \subseteq Edging /\ Releasing' \subseteq Releasing /\ Edging \subseteq 1 .. 2
  BY <1>2, LaterOrder DEF LoadInv, Edging
<1>6. /\ ms \in Seq(Messages) /\ Len(ms) = Len(ns) /\ Len(ms) \in Nat
      /\ \A i \in 1 .. Len(ms) : ms[i].off = FALSE /\ ms[i].note \in Range(ns)
  <2>1. ms \in Seq(Messages)
    BY <1>1, OnsOf
  <2> DEFINE w == FALSE
  <2>2. ms = [k \in DOMAIN ns |-> IF w THEN Off(ns[k]) ELSE On(ns[k])] /\ w \in BOOLEAN
    OBVIOUS
  <2> HIDE DEF ns, ms, w
  <2>3. /\ Len(ms) = Len(ns) /\ Len(ns) \in Nat
        /\ \A i \in 1 .. Len(ms) : ms[i].off = w /\ ms[i].note \in Range(ns)
    BY <1>1, <2>1, <2>2, ChordMessages
  <2> QED
    BY <2>1, <2>3 DEF w
<1>7. Len(ns) <= W[l]
  <2>1. <<slot, layer_now, b>>[3] = b
    OBVIOUS
  <2> QED
    BY <1>0, <1>1, <1>3, <2>1 DEF Loaded, Widths
<1>8. \A c \in Buttons : chord'[c] = IF c = b THEN ns ELSE chord[c]
  BY <1>0 DEF TypeOK
<1> HIDE DEF ms, ns
<1>9. WidthInv(W)'
  <2>1. ASSUME NEW j \in 1 .. 2, NEW c \in Ladders[j] PROVE Len(chord'[c]) <= W[j]
    <3>1. CASE c = b
      <4>1. j = l
        BY <1>3, <2>1, <3>1, LaddersOf
      <4>2. chord'[c] = ns
        BY <1>8, <3>1
      <4> QED
        BY <1>7, <4>1, <4>2
    <3>2. CASE c # b
      <4>1. chord'[c] = chord[c]
        BY <1>8, <3>2, LaddersOf
      <4> QED
        BY <4>1 DEF LoadInv, WidthInv
    <3> QED
      BY <3>1, <3>2
  <2> QED
    BY <2>1 DEF WidthInv
<1> DEFINE a == OfKind(ring, TRUE)
           c == OfKind(ring, FALSE)
           H == Loads(h)
           R == Loads(h)'
           X == ForeignOffs
           Y == ForeignOns
           Y1 == ForeignOns'
           D == Releasing
           E == Edging
           D1 == Releasing'
           E1 == Edging'
<1>10. PICK P : Shares(W, H, a, P, X, D)
  BY DEF LoadInv, OffsInv
<1>11. PICK O : Shares(W, H, c, O, Y, E)
  BY DEF LoadInv, OnsInv
<1>12. R = H /\ H \in [1 .. 2 -> Nat] /\ R[l] = W[1] + W[2]
  BY <1>2, <1>4, RouteLoads
<1>13. /\ W \in [1 .. 2 -> Nat] /\ W[l] \in Nat /\ W[m] \in Nat /\ W[1] \in Nat /\ W[2] \in Nat
       /\ W[m] + W[l] = W[1] + W[2]
  <2>1. W \in [1 .. 2 -> Nat]
    BY DEF Loaded
  <2>2. (l = 1 /\ m = 2) \/ (l = 2 /\ m = 1)
    BY <1>3
  <2>3. W[1] \in Nat /\ W[2] \in Nat
    BY <2>1
  <2> QED
    BY <2>1, <2>2, <2>3
<1>14. /\ Len(a) \in Nat /\ Len(c) \in Nat /\ Len(a) <= W[1] + W[2] /\ Len(c) <= W[1] + W[2]
       /\ Len(a) + Len(c) = Len(ring) /\ a \in Seq(Messages) /\ c \in Seq(Messages)
  BY LoadLight, RingKinds
<1>15. D1 \subseteq D /\ E1 \subseteq E /\ l \in E /\ l \notin E1 /\ E \subseteq 1 .. 2
  BY <1>4, <1>5
<1>16. \A i \in 1 .. Len(ms) : ms[i].note \in Y1[m]
  <2>1. ASSUME NEW n \in Range(ns) PROVE n \in Y1[m]
    <3>1. b \in Buttons \ Ladders[m] /\ n \in Range(chord'[b]) /\ n \in Notes
      BY <1>1, <1>3, <1>8, RangeIs
    <3> QED
      BY <3>1 DEF ForeignOns
  <2> QED
    BY <1>6, <2>1
<1>17. 2 * (W[1] + W[2]) < RingSize
  BY DEF Loaded, Room
<1>18. LatchesInv
  OBVIOUS
<1> HIDE DEF a, c, H, R, X, Y, Y1, D, E, D1, E1
<1>19. O[l] = 0
  BY <1>11, <1>15 DEF Shares
<1>20. Len(c) <= W[m]
  BY <1>3, <1>11, <1>13, <1>14, <1>19, SharesOne
<1>21. Len(ring) + Len(ms) <= RingSize
  <2> DEFINE S == W[1] + W[2]
             x == W[m]
             y == W[l]
             i == Len(a)
             j == Len(c)
             k == Len(ms)
             n == Len(ring)
  <2>1. S \in Nat
    BY <1>13
  <2>2. x \in Nat /\ y \in Nat /\ x + y = S /\ 2 * S < RingSize
    BY <1>13, <1>17
  <2>3. i \in Nat /\ j \in Nat /\ k \in Nat
    BY <1>6, <1>14
  <2>4. n \in Nat
    BY RingTyped
  <2>5. i + j = n /\ i <= S /\ j <= S
    BY <1>14
  <2>6. j <= x /\ k <= y
    BY <1>6, <1>7, <1>20
  <2> HIDE DEF S, x, y, i, j, k, n
  <2>7. n + k <= RingSize
    BY <2>1, <2>2, <2>3, <2>4, <2>5, <2>6, RoomFor
  <2> QED
    BY <2>7 DEF n, k
<1>22. OfKind(ring, TRUE)' = a /\ OfKind(ring, FALSE)' = c \o ms
  <2> DEFINE q == ring
             w == FALSE
             v == TRUE
  <2>1. /\ q \in Seq(Messages) /\ ms \in Seq(Messages) /\ w # v
        /\ FitsIn(q, ms)
    BY <1>6, <1>21, RingTyped DEF FitsIn
  <2>2. AllOf(ms, w)
    BY <1>6 DEF AllOf
  <2> HIDE DEF q, w, v
  <2>3. /\ JoinedBy(OfKind(PushedAll(q, ms), w), OfKind(q, w), ms)
        /\ OfKind(PushedAll(q, ms), v) = OfKind(q, v)
    BY <2>1, <2>2, PushKinds
  <2> QED
    BY <1>0, <2>3 DEF JoinedBy, q, w, v, a, c
<1>23. OffsInv(W, h)'
  <2>1. Shares(W, R, a, P, X, D1)
    BY <1>10, <1>12, <1>15 DEF Shares
  <2> QED
    BY <1>22, <2>1 DEF OffsInv, R, X, D1
<1>24. OnsInv(W, h)'
  <2> DEFINE M == Messages
  <2>1. c \in Seq(M) /\ ms \in Seq(M)
    BY <1>6, <1>14
  <2>2. Len(ms) <= W[l]
    BY <1>6, <1>7
  <2>3. R \in [1 .. 2 -> Nat] /\ R[l] >= W[1] + W[2] /\ R[m] >= H[m] /\ H[m] \in Nat
    <3>1. W[1] + W[2] \in Nat
      BY <1>13
    <3>2. H[m] \in Nat
      BY <1>3, <1>12
    <3> QED
      BY <1>12, <3>1, <3>2
  <2>4. E1 \subseteq E \cap (1 .. 2)
    BY <1>15
  <2> HIDE DEF M
  <2>5. \E Q : Shares(W, R, c \o ms, Q, Y1, E1)
    BY <1>3, <1>11, <1>13, <1>15, <1>16, <1>19, <2>1, <2>2, <2>3, <2>4, SharesPush
  <2> QED
    BY <1>22, <2>5 DEF OnsInv, R, Y1, E1
<1>25. PressInv'
  <2>1. PICK d \in Nat : \A i \in 1 .. Len(evt') : i + d \in 1 .. Len(evt) /\ evt'[i] = evt[i + d]
    BY <1>2 DEF Later
  <2>2. Range(ring') \subseteq Range(ring) \cup Range(ms)
    <3>1. ring \in Seq(Messages) /\ ms \in Seq(Messages) /\ Len(ring) <= RingSize
      BY <1>6, RingTyped DEF TypeOK
    <3>2. Range(PushedAll(ring, ms)) \subseteq Range(ring) \cup Range(ms)
      BY <3>1, PushKeeps
    <3> QED
      BY <1>0, <3>2
  <2> SUFFICES ASSUME NEW i \in 1 .. Len(evt'), evt'[i].down, NEW n \in Range(ring'), n.off
               PROVE  n.note \notin Own(evt'[i].button)
    BY DEF PressInv
  <2>3. n \in Range(ring)
    <3>1. \A x \in Range(ms) : x.off = FALSE
      BY <1>6, RangeIs
    <3> QED
      BY <2>2, <3>1
  <2> DEFINE j == i + d
  <2>4. j \in 1 .. Len(evt) /\ evt'[i] = evt[j]
    BY <2>1
  <2> HIDE DEF j
  <2>5. n.note \notin Own(evt[j].button)
    <3>1. evt[j].down
      BY <2>4
    <3> QED
      BY <2>3, <2>4, <3>1 DEF LoadInv, PressInv
  <2> QED
    BY <2>4, <2>5
<1> QED
  BY <1>5, <1>9, <1>23, <1>24, <1>25 DEF LoadInv

LEMMA LoadUnderChordRelease ==
    ASSUME TypeOK, TypeOK', EdgesInv, LatchesInv, NEW W, NEW h, Loaded(W, h), LoadInv(W, h),
           NEW b \in Buttons, ChordRelease(b)
    PROVE  LoadInv(W, h)'
<1> DEFINE ns == chord[b]
           ms == [k \in DOMAIN ns |-> Off(ns[k])]
<1>0. Routing(b, FALSE) /\ chord' = [chord EXCEPT ![b] = <<>>] /\ ring' = PushedAll(ring, ms)
  BY DEF ChordRelease, Midi, Plain, Passed
<1>1. ns \in Seq(Notes)
  BY DEF TypeOK
<1>2. Later /\ UNCHANGED settled /\ pc = "route" /\ pc' = "route"
  BY <1>0, RoutingLater
<1>3. PICK l, m \in 1 .. 2 : l # m /\ b \in Ladders[l] /\ b \notin Ladders[m]
  BY TwoLadders
<1>4. l \in Edging /\ l \in Releasing /\ l \notin Releasing' /\ settled'[l] = 0
  BY <1>0, <1>3, EdgeOn DEF LoadInv
<1>5. /\ OrderInv' /\ Edging' \subseteq Edging /\ Releasing' \subseteq Releasing
      /\ Edging \subseteq 1 .. 2 /\ Releasing \subseteq 1 .. 2
  BY <1>2, LaterOrder DEF LoadInv, Edging, Releasing
<1>6. /\ ms \in Seq(Messages) /\ Len(ms) = Len(ns) /\ Len(ms) \in Nat
      /\ \A i \in 1 .. Len(ms) : ms[i].off = TRUE /\ ms[i].note \in Range(ns)
  <2>1. ms \in Seq(Messages)
    BY <1>1, OffsOf
  <2> DEFINE w == TRUE
  <2>2. ms = [k \in DOMAIN ns |-> IF w THEN Off(ns[k]) ELSE On(ns[k])] /\ w \in BOOLEAN
    OBVIOUS
  <2> HIDE DEF ns, ms, w
  <2>3. /\ Len(ms) = Len(ns) /\ Len(ns) \in Nat
        /\ \A i \in 1 .. Len(ms) : ms[i].off = w /\ ms[i].note \in Range(ns)
    BY <1>1, <2>1, <2>2, ChordMessages
  <2> QED
    BY <2>1, <2>3 DEF w
<1>7. Len(ns) <= W[l]
  BY <1>3 DEF LoadInv, WidthInv
<1>8. \A c \in Buttons : chord'[c] = IF c = b THEN <<>> ELSE chord[c]
  BY <1>0 DEF TypeOK
<1>n. \A n \in Range(ns) : n \in PlayedBy(b)
  BY DEF LatchesInv, ChordsInv
<1> HIDE DEF ms, ns
<1>9. WidthInv(W)'
  <2>1. ASSUME NEW j \in 1 .. 2, NEW c \in Ladders[j] PROVE Len(chord'[c]) <= W[j]
    <3>1. CASE c = b
      <4>1. chord'[c] = <<>> /\ Len(<<>>) = 0
        BY <1>8, <3>1
      <4>2. W[j] \in Nat
        BY DEF Loaded
      <4> QED
        BY <4>1, <4>2
    <3>2. CASE c # b
      <4>1. chord'[c] = chord[c]
        BY <1>8, <3>2, LaddersOf
      <4> QED
        BY <4>1 DEF LoadInv, WidthInv
    <3> QED
      BY <3>1, <3>2
  <2> QED
    BY <2>1 DEF WidthInv
<1> DEFINE a == OfKind(ring, TRUE)
           c == OfKind(ring, FALSE)
           H == Loads(h)
           R == Loads(h)'
           X == ForeignOffs
           Y == ForeignOns
           Y1 == ForeignOns'
           D == Releasing
           E == Edging
           D1 == Releasing'
           E1 == Edging'
<1>10. PICK P : Shares(W, H, a, P, X, D)
  BY DEF LoadInv, OffsInv
<1>11. PICK O : Shares(W, H, c, O, Y, E)
  BY DEF LoadInv, OnsInv
<1>12. R = H /\ H \in [1 .. 2 -> Nat] /\ R[l] = W[1] + W[2]
  BY <1>2, <1>4, RouteLoads
<1>13. /\ W \in [1 .. 2 -> Nat] /\ W[l] \in Nat /\ W[m] \in Nat /\ W[1] \in Nat /\ W[2] \in Nat
       /\ W[m] + W[l] = W[1] + W[2]
  <2>1. W \in [1 .. 2 -> Nat]
    BY DEF Loaded
  <2>2. (l = 1 /\ m = 2) \/ (l = 2 /\ m = 1)
    BY <1>3
  <2>3. W[1] \in Nat /\ W[2] \in Nat
    BY <2>1
  <2> QED
    BY <2>1, <2>2, <2>3
<1>14. /\ Len(a) \in Nat /\ Len(c) \in Nat /\ Len(a) <= W[1] + W[2] /\ Len(c) <= W[1] + W[2]
       /\ Len(a) + Len(c) = Len(ring) /\ a \in Seq(Messages) /\ c \in Seq(Messages)
  BY LoadLight, RingKinds
<1>15. /\ D1 \subseteq D /\ E1 \subseteq E /\ l \in D /\ l \in E /\ l \notin D1
       /\ E \subseteq 1 .. 2 /\ D \subseteq 1 .. 2
  BY <1>4, <1>5
<1>16. \A i \in 1 .. Len(ms) : ms[i].note \in X[m]
  <2>1. ASSUME NEW n \in Range(ns) PROVE n \in X[m]
    <3>1. n \in Notes /\ n \in PlayedBy(b)
      BY <1>1, <1>n, RangeIs
    <3>2. ASSUME NEW d \in Ladders[m] PROVE n \notin Own(d)
      <4>1. b # d
        BY <1>3
      <4> QED
        BY <3>1, <4>1, NotOwn
    <3> QED
      BY <3>1, <3>2 DEF ForeignOffs
  <2> QED
    BY <1>6, <2>1
<1>17. 2 * (W[1] + W[2]) < RingSize
  BY DEF Loaded, Room
<1>18. Y[l] \subseteq Y1[l]
  <2> SUFFICES ASSUME NEW n \in Notes, NEW x \in Buttons \ Ladders[l], n \in Range(chord[x])
               PROVE  n \in Y1[l]
    BY DEF ForeignOns
  <2>1. x # b
    BY <1>3
  <2>2. chord'[x] = chord[x]
    BY <1>8, <2>1
  <2> QED
    BY <2>2 DEF ForeignOns
<1> HIDE DEF a, c, H, R, X, Y, Y1, D, E, D1, E1
<1>19. P[l] = 0 /\ O[l] = 0
  BY <1>10, <1>11, <1>15 DEF Shares
<1>20. Len(a) <= W[m] /\ O[m] = Len(c)
  <2>1. Len(a) <= W[m]
    BY <1>3, <1>10, <1>13, <1>14, <1>19, SharesOne
  <2>2. O[m] = Len(c)
    BY <1>3, <1>11, <1>13, <1>14, <1>19, SharesOne
  <2> QED
    BY <2>1, <2>2
<1>21. Len(ring) + Len(ms) <= RingSize
  <2> DEFINE S == W[1] + W[2]
             x == W[m]
             y == W[l]
             i == Len(a)
             j == Len(c)
             k == Len(ms)
             n == Len(ring)
  <2>1. S \in Nat
    BY <1>13
  <2>2. x \in Nat /\ y \in Nat /\ x + y = S /\ 2 * S < RingSize
    BY <1>13, <1>17
  <2>3. i \in Nat /\ j \in Nat /\ k \in Nat
    BY <1>6, <1>14
  <2>4. n \in Nat
    BY RingTyped
  <2>5. i + j = n /\ i <= S /\ j <= S
    BY <1>14
  <2>6. i <= x /\ k <= y
    BY <1>6, <1>7, <1>20
  <2> HIDE DEF S, x, y, i, j, k, n
  <2>7. n + k <= RingSize
    BY <2>1, <2>2, <2>3, <2>4, <2>5, <2>6, RoomFor
  <2> QED
    BY <2>7 DEF n, k
<1>22. OfKind(ring, TRUE)' = a \o ms /\ OfKind(ring, FALSE)' = c
  <2> DEFINE q == ring
             w == TRUE
             v == FALSE
  <2>1. /\ q \in Seq(Messages) /\ ms \in Seq(Messages) /\ w # v
        /\ FitsIn(q, ms)
    BY <1>6, <1>21, RingTyped DEF FitsIn
  <2>2. AllOf(ms, w)
    BY <1>6 DEF AllOf
  <2> HIDE DEF q, w, v
  <2>3. /\ JoinedBy(OfKind(PushedAll(q, ms), w), OfKind(q, w), ms)
        /\ OfKind(PushedAll(q, ms), v) = OfKind(q, v)
    BY <2>1, <2>2, PushKinds
  <2> QED
    BY <1>0, <2>3 DEF JoinedBy, q, w, v, a, c
<1>23. OnsInv(W, h)'
  <2>1. \A j \in 1 .. 2 : O[j] <= R[j]
    BY <1>11, <1>12 DEF Shares
  <2>2. \A j \in E1 : O[j] = 0
    BY <1>11, <1>15 DEF Shares
  <2>3. \A j \in 1 .. 2 : O[j] = Len(c) \/ Y[j] \subseteq Y1[j]
    <3>1. \A j \in 1 .. 2 : j = l \/ j = m
      BY <1>3
    <3> QED
      BY <1>18, <1>20, <3>1
  <2>4. Shares(W, R, c, O, Y1, E1)
    BY <1>11, <1>14, <2>1, <2>2, <2>3, SharesKeep
  <2> QED
    BY <1>22, <2>4 DEF OnsInv, R, Y1, E1
<1>24. OffsInv(W, h)'
  <2> DEFINE M == Messages
  <2>1. a \in Seq(M) /\ ms \in Seq(M)
    BY <1>6, <1>14
  <2>2. Len(ms) <= W[l]
    BY <1>6, <1>7
  <2>3. R \in [1 .. 2 -> Nat] /\ R[l] >= W[1] + W[2] /\ R[m] >= H[m] /\ H[m] \in Nat
    <3>1. W[1] + W[2] \in Nat
      BY <1>13
    <3>2. H[m] \in Nat
      BY <1>3, <1>12
    <3> QED
      BY <1>12, <3>1, <3>2
  <2>4. D1 \subseteq D \cap (1 .. 2)
    BY <1>15
  <2> HIDE DEF M
  <2>5. \E Q : Shares(W, R, a \o ms, Q, X, D1)
    BY <1>3, <1>10, <1>13, <1>15, <1>16, <1>19, <2>1, <2>2, <2>3, <2>4, SharesPush
  <2> QED
    BY <1>22, <2>5 DEF OffsInv, R, X, D1
<1>25. PressInv'
  <2>1. /\ 1 \in 1 .. Len(evt) /\ evt[1].button = b
        /\ \A i \in 1 .. Len(evt') : i + 1 \in 1 .. Len(evt) /\ evt'[i] = evt[i + 1]
    BY <1>0, RoutingLater
  <2>2. Range(ring') \subseteq Range(ring) \cup Range(ms)
    <3>1. ring \in Seq(Messages) /\ ms \in Seq(Messages) /\ Len(ring) <= RingSize
      BY <1>6, RingTyped DEF TypeOK
    <3>2. Range(PushedAll(ring, ms)) \subseteq Range(ring) \cup Range(ms)
      BY <3>1, PushKeeps
    <3> QED
      BY <1>0, <3>2
  <2> SUFFICES ASSUME NEW i \in 1 .. Len(evt'), evt'[i].down, NEW n \in Range(ring'), n.off
               PROVE  n.note \notin Own(evt'[i].button)
    BY DEF PressInv
  <2> DEFINE j == i + 1
  <2>3. j \in 1 .. Len(evt) /\ evt'[i] = evt[j] /\ j # 1
    BY <2>1
  <2> HIDE DEF j
  <2>4. CASE n \in Range(ring)
    <3>1. evt[j].down
      BY <2>3
    <3> QED
      BY <2>3, <2>4, <3>1 DEF LoadInv, PressInv
  <2>5. CASE n \in Range(ms)
    <3>1. n.note \in PlayedBy(b)
      <4>1. PICK x \in 1 .. Len(ms) : n = ms[x]
        BY <1>6, <2>5, RangeIs
      <4> QED
        BY <1>6, <1>n, <4>1
    <3>2. b # evt[j].button
      BY <2>1, <2>3 DEF EdgesInv
    <3>3. n.note \notin Own(evt[j].button)
      BY <3>1, <3>2, NotOwn
    <3> QED
      BY <2>3, <3>3
  <2> QED
    BY <2>2, <2>4, <2>5
<1> QED
  BY <1>5, <1>9, <1>23, <1>24, <1>25 DEF LoadInv

LEMMA LoadInit ==
    ASSUME Init, TypeOK, NEW W, NEW h, Loaded(W, h)
    PROVE  LoadInv(W, h)
<1>1. evt = <<>> /\ ring = <<>> /\ chord = Silent
  BY DEF Init
<1>2. 1 .. Len(evt) = {}
  BY <1>1
<1>3. Edging = {} /\ Releasing = {} /\ OrderInv /\ PressInv
  BY <1>2 DEF Edging, Releasing, OrderInv, PressInv
<1>4. WidthInv(W)
  <2>1. \A b \in Buttons : chord[b] = <<>>
    BY <1>1 DEF Silent
  <2>2. \A l \in 1 .. 2 : W[l] \in Nat
    BY DEF Loaded
  <2>3. Len(<<>>) = 0
    OBVIOUS
  <2> QED
    BY <2>1, <2>2, <2>3, LaddersOf DEF WidthInv
<1> DEFINE H == Loads(h)
           X == ForeignOffs
           Y == ForeignOns
           D == {}
<1>5. W \in [1 .. 2 -> Nat] /\ H \in [1 .. 2 -> Nat] /\ D \subseteq 1 .. 2
  BY LoadsTyped DEF Loaded
<1>6. OfKind(ring, TRUE) = <<>> /\ OfKind(ring, FALSE) = <<>>
  BY <1>1, OfKindEmpty
<1> HIDE DEF H, X, Y, D
<1>7. (\E P : Shares(W, H, <<>>, P, X, D)) /\ \E P : Shares(W, H, <<>>, P, Y, D)
  BY <1>5, SharesNone
<1>8. OffsInv(W, h) /\ OnsInv(W, h)
  BY <1>3, <1>6, <1>7 DEF OffsInv, OnsInv, H, X, Y, D
<1> QED
  BY <1>3, <1>4, <1>8 DEF LoadInv

LEMMA LoadOfRoute ==
    ASSUME TypeOK, TypeOK', EdgesInv, LatchesInv, NEW W, NEW h, Loaded(W, h), LoadInv(W, h),
           NEW b \in Buttons, Route(b)
    PROVE  LoadInv(W, h)'
<1>1. CASE ComboMode(b) \/ ComboLayer(b)
  <2>1. Routing(b, TRUE) /\ Flush
    BY <1>1 DEF ComboMode, ComboLayer, ComboPress
  <2>2. Later /\ UNCHANGED settled
    BY <2>1, RoutingLater
  <2> QED
    BY <2>1, <2>2, LoadFlushed
<1>2. ASSUME NEW down \in BOOLEAN, Routing(b, down), UNCHANGED <<ring, chord>>
      PROVE  LoadInv(W, h)'
  <2>1. Later /\ UNCHANGED settled /\ pc = "route" /\ pc' = "route"
    BY <1>2, RoutingLater
  <2>2. \A l \in 1 .. 2 : Age(l)' = Age(l)
    BY <2>1, AgeStill
  <2> QED
    BY <1>2, <2>1, <2>2, LoadStill
<1>3. CASE ComboProfile(b) \/ ComboOther(b)
  <2>1. Routing(b, TRUE) /\ UNCHANGED <<ring, chord>>
    BY <1>3 DEF ComboProfile, ComboOther, ComboPress, NoFlush
  <2> QED
    BY <1>2, <2>1
<1>4. CASE ComboRelease(b)
  <2>1. Routing(b, FALSE) /\ UNCHANGED <<ring, chord>>
    BY <1>4 DEF ComboRelease, NoFlush
  <2> QED
    BY <1>2, <2>1
<1>5. ASSUME NEW down \in BOOLEAN,
             TapPad(b, down) \/ Key(b, down) \/ Mute(b, down) \/ Note(b, down) \/ Toggle(b, down)
      PROVE  LoadInv(W, h)'
  <2>1. Routing(b, down) /\ UNCHANGED <<ring, chord>>
    BY <1>5 DEF TapPad, Key, Mute, Note, Toggle, Midi, Plain, Passed, NoFlush
  <2> QED
    BY <1>2, <2>1
<1>6. ASSUME NEW down \in BOOLEAN, Switch(b, down) PROVE LoadInv(W, h)'
  <2>1. Routing(b, down) /\ (Flush \/ NoFlush)
    BY <1>6 DEF Switch, Midi, Plain, Passed
  <2>2. CASE Flush
    <3>1. Later /\ UNCHANGED settled
      BY <2>1, RoutingLater
    <3> QED
      BY <2>2, <3>1, LoadFlushed
  <2>3. CASE NoFlush
    BY <1>2, <2>1, <2>3 DEF NoFlush
  <2> QED
    BY <2>1, <2>2, <2>3
<1> QED
  BY <1>1, <1>3, <1>4, <1>5, <1>6, LoadUnderChordPress, LoadUnderChordRelease DEF Route

LEMMA LoadStep ==
    ASSUME TypeOK, TypeOK', EdgesInv, EdgesInv', LatchesInv, NEW W, NEW h, Loaded(W, h),
           LoadInv(W, h), [Next]_vars
    PROVE  LoadInv(W, h)'
<1>1. CASE UNCHANGED vars
  <2>1. UNCHANGED <<evt, ring, chord, settled, pc>>
    BY <1>1 DEF vars
  <2>2. Later
    BY <2>1, SameLater
  <2>3. \A l \in 1 .. 2 : Age(l)' = Age(l)
    BY <2>1, AgeStill
  <2> QED
    BY <2>1, <2>2, <2>3, LoadStill
<1>2. CASE Poll \/ EndTick
  <2>1. /\ UNCHANGED <<evt, ring, chord, settled>>
        /\ (pc = "poll" /\ pc' = "detect") \/ (pc = "route" /\ pc' = "top")
    BY <1>2 DEF Poll, EndTick, hand
  <2>2. Later
    BY <2>1, SameLater
  <2>3. \A l \in 1 .. 2 : Age(l)' = Age(l)
    BY <2>1, AgeStill
  <2> QED
    BY <2>1, <2>2, <2>3, LoadStill
<1>3. CASE Detect
  <2>1. /\ UNCHANGED <<evt, settled>> /\ pc = "detect" /\ pc' = "scan" /\ (Flush \/ NoFlush)
    BY <1>3 DEF Detect, hand
  <2>2. Later
    BY <2>1, SameLater
  <2>3. \A l \in 1 .. 2 : Age(l)' = Age(l)
    BY <2>1, AgeStill
  <2>4. CASE Flush
    BY <2>1, <2>2, <2>4, LoadFlushed
  <2>5. CASE NoFlush
    BY <2>1, <2>2, <2>3, <2>5, LoadStill DEF NoFlush
  <2> QED
    BY <2>1, <2>4, <2>5
<1> QED
  BY <1>1, <1>2, <1>3, LoadUnderDrain, LoadUnderScan, LoadOfRoute DEF Next

\* What the invariant says of the ring, and of the edge at the head.
LEMMA LoadInTime ==
    ASSUME TypeOK, NEW W, NEW h, Loaded(W, h), LoadInv(W, h)
    PROVE  InTime
<1>1. Len(ring) < RingSize
  BY LoadLight
<1>2. ASSUME pc = "route", evt # <<>>, NEW m \in Range(ring), m.off = Head(evt).down
      PROVE  LET b == Head(evt).button
                 alone == Range(chord[b]) \ Latched([chord EXCEPT ![b] = <<>>])
             IN  m.note \notin (IF m.off THEN Own(b) ELSE alone)
  <2> DEFINE b == Head(evt).button
             rest == [chord EXCEPT ![b] = <<>>]
             alone == Range(chord[b]) \ Latched(rest)
  <2>1. 1 \in 1 .. Len(evt) /\ Head(evt) = evt[1]
    <3>1. evt \in Seq([button : Buttons, down : BOOLEAN])
      BY DEF TypeOK
    <3> QED
      BY <1>2, <3>1
  <2>2. b = evt[1].button /\ b \in Buttons /\ evt[1].down \in BOOLEAN
    BY <2>1, EvtTyped
  <2>3. m \in Messages /\ m.off \in BOOLEAN
    BY RingTyped, RangeIs, RingKinds
  <2>4. PICK l \in 1 .. 2 : b \in Ladders[l]
    BY <2>2, TwoLadders
  <2>5. l \in Edging
    BY <2>1, <2>2, <2>4 DEF Edging
  <2>6. \A x \in Buttons : x # b => rest[x] = chord[x]
    BY DEF TypeOK
  <2> HIDE DEF b, rest
  <2>7. m.note \notin (IF m.off THEN Own(b) ELSE alone)
    <3>1. CASE m.off
      <4>1. evt[1].down
        BY <1>2, <2>1, <3>1
      <4>2. m.note \notin Own(b)
        BY <2>1, <2>2, <3>1, <4>1 DEF LoadInv, PressInv
      <4> QED
        BY <3>1, <4>2
    <3>2. CASE ~m.off
      <4> DEFINE Y == ForeignOns
                 E == Edging
                 H == Loads(h)
      <4>1. PICK P : Shares(W, H, OfKind(ring, FALSE), P, Y, E)
        BY DEF LoadInv, OnsInv
      <4>2. E \subseteq 1 .. 2 /\ l \in E
        BY <2>5 DEF Edging
      <4> HIDE DEF Y, E, H
      <4>3. m.note \in Y[l]
        BY <3>2, <4>1, <4>2, OnsHave
      <4>4. PICK x \in Buttons \ Ladders[l] : m.note \in Range(chord[x])
        BY <4>3 DEF Y, ForeignOns
      <4>5. x # b
        BY <2>4
      <4>6. m.note \in Range(rest[x])
        BY <2>6, <4>4, <4>5
      <4>7. m.note \in Latched(rest)
        BY <4>6 DEF Latched
      <4> QED
        BY <3>2, <4>7
    <3> QED
      BY <2>3, <3>1, <3>2
  <2> QED
    BY <2>7 DEF b, rest
<1> QED
  BY <1>1, <1>2 DEF InTime

\* The ring keeps up with the hands: it never fills, and when a button's edge is
\* routed the messages of its last edge are out (InTime, of chord_tx_push and
\* chord_tx_drain under button_scan_step's debounce) - provided the widest chords
\* of the two ladders come to two thirds of a drain's budget at most, and what
\* they come to, halved at every drain, is gone after Debounce of them.
THEOREM KeepsUp ==
    ASSUME NEW W, NEW h, Loaded(W, h)
    PROVE  Spec => []InTime
<1> DEFINE I == EdgesInv /\ PlaceInv /\ LatchesInv /\ LoadInv(W, h)
<1>1. TypeOK /\ Init => I
  BY PlaceInit, LatchInit, LoadInit
<1>2. TypeOK /\ TypeOK' /\ I /\ [Next]_vars => I'
  BY EdgesStep, PlaceStep, LatchStep, LoadStep
<1>3. TypeOK /\ I => InTime
  BY LoadInTime
<1> QED
  BY <1>1, <1>2, <1>3, NotesTypeCorrect, PTL DEF Spec

\* With the firmware's debounce, budget and ring, and chords that come to five
\* notes at most on the two ladders together, no sound is left without its end
\* and no held chord is cut, and the ring keeps up: what SoundsEnd and
\* HeldChordsSound assume holds.
THEOREM FirmwareKeepsUp ==
    ASSUME Debounce = 3, Budget = 8, RingSize = 32,
           NEW W \in [1 .. 2 -> Nat], W[1] + W[2] <= 5, Widths(W)
    PROVE  Spec => []InTime /\ []EverySoundHasAnEnd /\ []HeldChordSounds
<1> DEFINE S == W[1] + W[2]
           h == [k \in 0 .. 3 |-> IF k = 0 THEN S ELSE IF k = 1 THEN 2 ELSE IF k = 2 THEN 1 ELSE 0]
<1>1. S \in 0 .. 5
  <2>1. W[1] \in Nat /\ W[2] \in Nat
    OBVIOUS
  <2> QED
    BY <2>1
<1>2. Room(W)
  <2>1. 3 * S <= 2 * 8 /\ 2 * S < 32
    <3> HIDE DEF S
    <3> QED
      BY <1>1
  <2> QED
    BY <2>1 DEF Room
<1>3. Fades(W, h)
  <2> DEFINE s == S
  <2>1. s \in 0 .. 5
    BY <1>1
  <2> HIDE DEF S
  <2>2. h[0] = S /\ h[1] = 2 /\ h[2] = 1 /\ h[3] = 0
    OBVIOUS
  <2>3. h \in [0 .. 3 -> Nat]
    <3>1. \A k \in 0 .. 3 : (IF k = 0 THEN S ELSE IF k = 1 THEN 2 ELSE IF k = 2 THEN 1 ELSE 0) \in Nat
      BY <1>1
    <3> QED
      BY <3>1
  <2> HIDE DEF h
  <2>4. ASSUME NEW k \in 1 .. 3 PROVE h[k - 1] <= 2 * h[k] + 1
    <3>1. k = 1 \/ k = 2 \/ k = 3
      OBVIOUS
    <3>2. CASE k = 1
      <4>1. h[k - 1] = S /\ h[k] = 2
        BY <2>2, <3>2
      <4> QED
        BY <1>1, <4>1
    <3>3. CASE k = 2
      <4>1. h[k - 1] = 2 /\ h[k] = 1
        BY <2>2, <3>3
      <4> QED
        BY <4>1
    <3>4. CASE k = 3
      <4>1. h[k - 1] = 1 /\ h[k] = 0
        BY <2>2, <3>4
      <4> QED
        BY <4>1
    <3> QED
      BY <3>1, <3>2, <3>3, <3>4
  <2> QED
    BY <2>2, <2>3, <2>4 DEF Fades, S
<1>4. Loaded(W, h)
  BY <1>2, <1>3 DEF Loaded
<1> HIDE DEF h
<1>5. Spec => []InTime
  BY <1>4, KeepsUp
<1> QED
  BY <1>5, SoundsEnd, HeldChordsSound, PTL
=============================================================================
