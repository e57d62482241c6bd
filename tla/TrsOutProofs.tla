---------------------------- MODULE TrsOutProofs ----------------------------
(***************************************************************************)
(* Proofs about the TRS output, for rings and panics of every size and     *)
(* every interleaving of its producers and interrupts.                     *)
(***************************************************************************)
EXTENDS TrsOut, SequenceTheorems, FiniteSetTheorems, TLAPS

-----------------------------------------------------------------------------
(* The bytes of a message.                                                 *)

\* A message the code sends: one of the loop's, a forwarded one, or a panic's.
Lengths == MainLengths \cup ThruLengths \cup {3}

\* midi_rt_put_msg appends bytes of the known kind, in their order.
LEMMA MessageBytes ==
    ASSUME NEW n \in Lengths
    PROVE  /\ n \in 1 .. 3
           /\ Message(n) \in Seq(Bytes)
           /\ Len(Message(n)) = n
           /\ \A i \in 1 .. n : Message(n)[i] = Byte(n, i)
<1>1. n \in 1 .. 3
  BY TrsAssumption DEF Lengths
<1>2. \A i \in 1 .. n : Byte(n, i) \in Bytes
  BY <1>1 DEF Bytes, Lengths
<1>3. Message(n) \in [1 .. n -> Bytes]
  BY <1>2 DEF Message
<1> QED
  BY <1>1, <1>3 DEF Message

LEMMA BytesHaveFields ==
    \A b \in Bytes : b.len \in 1 .. 3 /\ b.pos \in 1 .. 3
  BY TrsAssumption DEF Bytes, Byte

-----------------------------------------------------------------------------
(* Types.                                                                  *)

\* What a put in the normal tier does, room or no room.
LEMMA PutMsgTyped ==
    ASSUME TypeOK, NEW n \in Lengths, PutMsg(n)
    PROVE  nb' \in Seq(Bytes) /\ Len(nb') < NbSlots
<1>1. CASE Fits(n)
  <2>1. nb' = nb \o Message(n)
    BY <1>1 DEF PutMsg
  <2>2. nb \in Seq(Bytes) /\ Message(n) \in Seq(Bytes) /\ Len(Message(n)) = n
    BY MessageBytes DEF TypeOK
  <2>3. nb' \in Seq(Bytes)
    BY <2>1, <2>2, ConcatProperties
  <2>4. Len(nb') = Len(nb) + n
    BY <2>1, <2>2, ConcatProperties
  <2> QED
    BY <1>1, <2>2, <2>3, <2>4, MessageBytes, TrsAssumption DEF Fits
<1>2. CASE ~Fits(n)
  BY <1>2 DEF PutMsg, TypeOK
<1> QED
  BY <1>1, <1>2

LEMMA PutRtTyped ==
    ASSUME TypeOK, NEW b \in Clocks, PutRt(b)
    PROVE  rt' \in Seq(Clocks) /\ Len(rt') < RtSlots
<1>1. CASE Len(rt) < RtSlots - 1
  BY <1>1, TrsAssumption DEF TypeOK, PutRt
<1>2. CASE ~(Len(rt) < RtSlots - 1)
  BY <1>2, TrsAssumption DEF TypeOK, PutRt
<1> QED
  BY <1>1, <1>2

LEMMA EnqueueTyped ==
    ASSUME TypeOK, NEW t \in Threads, NEW n \in Lengths, EnqueueMsg(t, n)
    PROVE  /\ nb' \in Seq(Bytes) /\ Len(nb') < NbSlots
           /\ pc' \in [Threads -> {"idle", "kick"}]
           /\ UNCHANGED <<rt, tx_irq, line>>
<1>1. pc' \in [Threads -> {"idle", "kick"}]
  BY DEF TypeOK, EnqueueMsg
<1>2. PutMsg(n) /\ UNCHANGED <<rt, tx_irq, line>>
  BY DEF EnqueueMsg
<1> QED
  BY <1>1, <1>2, PutMsgTyped

\* Every step that offers a byte goes through one of the producers' actions.
LEMMA InitTypeOK == Init => TypeOK
<1> SUFFICES ASSUME Init PROVE TypeOK
  OBVIOUS
<1>1. rt \in Seq(Clocks) /\ Len(rt) < RtSlots
  BY TrsAssumption DEF Init
<1>2. nb \in Seq(Bytes) /\ Len(nb) < NbSlots
  BY TrsAssumption DEF Init
<1>3. panic \in 0 .. PanicSize
  BY TrsAssumption DEF Init
<1> QED
  BY <1>1, <1>2, <1>3 DEF Init, TypeOK

LEMMA StepTypeOK == TypeOK /\ [Next]_vars => TypeOK'
<1> SUFFICES ASSUME TypeOK, [Next]_vars PROVE TypeOK'
  OBVIOUS
<1>1. ASSUME NEW n \in MainLengths, MainSend(n) PROVE TypeOK'
  <2>1. EnqueueMsg("main", n) /\ UNCHANGED panic
    BY <1>1 DEF MainSend
  <2> QED
    BY <2>1, EnqueueTyped DEF TypeOK, Threads, Lengths
<1>2. CASE Panic
  <2>1. panic' \in 0 .. PanicSize
    BY <1>2, TrsAssumption DEF Panic
  <2>2. UNCHANGED <<rt, nb, tx_irq, line, pc>>
    BY <1>2 DEF Panic
  <2> QED
    BY <2>1, <2>2 DEF TypeOK
<1>3. CASE PanicSend
  <2>1. EnqueueMsg("main", 3)
    BY <1>3 DEF PanicSend
  <2>2. panic' \in 0 .. PanicSize
    BY <1>3, TrsAssumption DEF PanicSend, TypeOK
  <2> QED
    BY <2>1, <2>2, EnqueueTyped DEF TypeOK, Threads, Lengths
<1>4. ASSUME NEW n \in ThruLengths, ThruSend(n) PROVE TypeOK'
  <2>1. EnqueueMsg("usb", n) /\ UNCHANGED panic
    BY <1>4 DEF ThruSend
  <2> QED
    BY <2>1, EnqueueTyped DEF TypeOK, Threads, Lengths
<1>5. ASSUME NEW b \in HostClocks, HostRt(b) PROVE TypeOK'
  <2>1. PutRt(b) /\ UNCHANGED <<nb, tx_irq, line, panic>>
    BY <1>5 DEF HostRt
  <2>2. pc' \in [Threads -> {"idle", "kick"}]
    BY <1>5 DEF HostRt, TypeOK
  <2> QED
    BY <2>1, <2>2, PutRtTyped DEF TypeOK, Clocks
<1>6. CASE TimerTick
  <2>1. PutRt(Tick) /\ tx_irq' = TRUE /\ UNCHANGED <<nb, line, pc, panic>>
    BY <1>6 DEF TimerTick
  <2> QED
    BY <2>1, PutRtTyped DEF TypeOK, Clocks
<1>7. CASE TxIsr
  <2>1. CASE Empty
    BY <1>7, <2>1 DEF TxIsr, TypeOK
  <2>2. CASE rt # <<>>
    <3>1. line' = Head(rt) /\ rt' = Tail(rt) /\ UNCHANGED <<nb, tx_irq, pc, panic>>
      BY <1>7, <2>2 DEF TxIsr, NextByte, Empty
    <3>2. Head(rt) \in Clocks /\ Tail(rt) \in Seq(Clocks) /\ Len(Tail(rt)) < RtSlots
      BY <2>2, TrsAssumption DEF TypeOK
    <3> QED
      BY <3>1, <3>2 DEF TypeOK
  <2>3. CASE rt = <<>> /\ nb # <<>>
    <3>1. line' = Head(nb) /\ nb' = Tail(nb) /\ UNCHANGED <<rt, tx_irq, pc, panic>>
      BY <1>7, <2>3 DEF TxIsr, NextByte, Empty
    <3>2. Head(nb) \in Bytes /\ Tail(nb) \in Seq(Bytes) /\ Len(Tail(nb)) < NbSlots
      BY <2>3, TrsAssumption DEF TypeOK
    <3> QED
      BY <3>1, <3>2 DEF TypeOK
  <2> QED
    BY <2>1, <2>2, <2>3 DEF Empty
<1>8. CASE LineDone
  BY <1>8 DEF LineDone, TypeOK
<1>9. ASSUME NEW t \in Threads, Kick(t) PROVE TypeOK'
  BY <1>9 DEF Kick, TypeOK
<1>10. CASE UNCHANGED vars
  BY <1>10 DEF vars, TypeOK
<1> QED
  BY <1>1, <1>2, <1>3, <1>4, <1>5, <1>6, <1>7, <1>8, <1>9, <1>10
     DEF Next, Offer, Deliver

\* The tiers never outgrow their slots, and each variable keeps its type.
THEOREM TypeCorrect == Spec => []TypeOK
<1> QED
  BY InitTypeOK, StepTypeOK, PTL DEF Spec

-----------------------------------------------------------------------------
(* No lost wake-up.                                                        *)

\* No byte waits in the ring with the interrupt off and no producer about to
\* enable it.  Inductive as it stands: the interrupt turns itself off only on
\* an empty ring, and a producer that has put a byte holds its "kick" until it
\* has turned the interrupt on.
THEOREM NeverStranded == Spec => []NothingStranded
<1>1. Init => NothingStranded
  BY DEF Init, NothingStranded, Empty
<1>2. TypeOK /\ NothingStranded /\ [Next]_vars => NothingStranded'
  <2> SUFFICES ASSUME TypeOK, NothingStranded, [Next]_vars
               PROVE  NothingStranded'
    OBVIOUS
  <2> USE DEF NothingStranded
  <2>1. ASSUME NEW t \in Threads, NEW n, EnqueueMsg(t, n) PROVE NothingStranded'
    BY <2>1 DEF EnqueueMsg, TypeOK
  <2>2. CASE Panic
    BY <2>2 DEF Panic, Empty
  <2>3. ASSUME NEW b, HostRt(b) PROVE NothingStranded'
    BY <2>3 DEF HostRt, TypeOK, Threads
  <2>4. CASE TimerTick
    BY <2>4 DEF TimerTick
  <2>5. CASE TxIsr
    <3>1. CASE Empty
      BY <2>5, <3>1 DEF TxIsr, Empty
    <3>2. CASE ~Empty
      BY <2>5, <3>2 DEF TxIsr
    <3> QED
      BY <3>1, <3>2
  <2>6. CASE LineDone
    BY <2>6 DEF LineDone, Empty
  <2>7. ASSUME NEW t \in Threads, Kick(t) PROVE NothingStranded'
    BY <2>7 DEF Kick
  <2>8. CASE UNCHANGED vars
    BY <2>8 DEF vars, Empty
  <2> QED
    BY <2>1, <2>2, <2>3, <2>4, <2>5, <2>6, <2>7, <2>8
       DEF Next, Offer, Deliver, MainSend, PanicSend, ThruSend, Threads
<1> QED
  BY <1>1, <1>2, TypeCorrect, PTL DEF Spec

-----------------------------------------------------------------------------
(* Whole messages.                                                         *)

\* A put appends a message behind one that has ended.
LEMMA PutMsgWhole ==
    ASSUME TypeOK, RingIsWhole, NEW n \in Lengths, PutMsg(n)
    PROVE  RingIsWhole'
<1>1. CASE ~Fits(n)
  BY <1>1 DEF PutMsg, RingIsWhole
<1>2. CASE Fits(n)
  <2> DEFINE k == Len(nb)
  <2>1. nb' = nb \o Message(n)
    BY <1>2 DEF PutMsg
  <2>2. nb \in Seq(Bytes) /\ k \in Nat /\ n \in 1 .. 3
    BY MessageBytes DEF TypeOK
  <2>3. /\ Len(nb') = k + n
        /\ \A i \in 1 .. k : nb'[i] = nb[i]
        /\ \A i \in 1 .. n : nb'[k + i] = Byte(n, i)
    BY <2>1, <2>2, MessageBytes
  <2> SUFFICES ASSUME NEW i \in 1 .. k + n
               PROVE  IF nb'[i].pos < nb'[i].len
                      THEN /\ i < k + n
                           /\ nb'[i + 1] = Byte(nb'[i].len, nb'[i].pos + 1)
                      ELSE i < k + n => nb'[i + 1].pos = 1
    BY <2>3 DEF RingIsWhole
  <2>4. CASE i < k
    BY <2>2, <2>3, <2>4 DEF RingIsWhole
  <2>5. CASE i = k
    <3>1. ~(nb[k].pos < nb[k].len)
      BY <2>2, <2>5 DEF RingIsWhole
    <3>2. nb'[k + 1] = Byte(n, 1)
      BY <2>2, <2>3
    <3> QED
      BY <2>2, <2>3, <2>5, <3>1, <3>2 DEF Byte
  <2>6. CASE i > k
    <3> DEFINE j == i - k
    <3>1. j \in 1 .. n /\ nb'[i] = Byte(n, j)
      BY <2>2, <2>3, <2>6
    <3>2. j < n => nb'[i + 1] = Byte(n, j + 1)
      BY <2>2, <2>3, <3>1
    <3> QED
      BY <2>2, <3>1, <3>2 DEF Byte
  <2> QED
    BY <2>2, <2>4, <2>5, <2>6
<1> QED
  BY <1>1, <1>2

\* Taking the first byte leaves what follows as it was.
LEMMA TailWhole ==
    ASSUME TypeOK, RingIsWhole, nb # <<>>, nb' = Tail(nb)
    PROVE  RingIsWhole'
<1>1. nb \in Seq(Bytes) /\ Len(nb) \in Nat \ {0}
  BY DEF TypeOK
<1>2. Len(nb') = Len(nb) - 1 /\ \A i \in 1 .. Len(nb) - 1 : nb'[i] = nb[i + 1]
  BY <1>1
<1> QED
  BY <1>1, <1>2 DEF RingIsWhole

\* Every message with a byte in the ring ends in the ring, for every size of
\* the ring and every mix of producers.
THEOREM WholeMessages == Spec => []RingIsWhole
<1>1. Init => RingIsWhole
  BY DEF Init, RingIsWhole
<1>2. TypeOK /\ RingIsWhole /\ [Next]_vars => RingIsWhole'
  <2> SUFFICES ASSUME TypeOK, RingIsWhole, [Next]_vars PROVE RingIsWhole'
    OBVIOUS
  <2>1. ASSUME NEW t \in Threads, NEW n \in Lengths, EnqueueMsg(t, n)
        PROVE  RingIsWhole'
    BY <2>1, PutMsgWhole DEF EnqueueMsg
  <2>2. CASE TxIsr /\ UNCHANGED nb
    BY <2>2 DEF RingIsWhole
  <2>3. CASE TxIsr /\ ~UNCHANGED nb
    BY <2>3, TailWhole DEF TxIsr, NextByte, Empty
  <2>4. CASE UNCHANGED nb
    BY <2>4 DEF RingIsWhole
  <2> QED
    BY <2>1, <2>2, <2>3, <2>4
       DEF Next, Offer, Deliver, MainSend, Panic, PanicSend, ThruSend, HostRt,
           TimerTick, LineDone, Kick, vars, Threads, Lengths
<1> QED
  BY <1>1, <1>2, TypeCorrect, PTL DEF Spec

-----------------------------------------------------------------------------
(* Places.  The k-th member of a finite set of numbers: there is one for   *)
(* each k up to the size of the set, and a member behind the others, or a  *)
(* shift, moves the places as it should.                                   *)

UpTo(S, i) == {j \in S : j <= i}

LEMMA PlaceOfRank ==
    ASSUME NEW n \in Nat, NEW S \in SUBSET (1 .. n)
    PROVE  /\ IsFiniteSet(S) /\ Cardinality(S) \in 0 .. n
           /\ \A i \in S : /\ Cardinality(UpTo(S, i)) \in 1 .. Cardinality(S)
                           /\ Place(S, Cardinality(UpTo(S, i))) = i
           /\ \A k \in 1 .. Cardinality(S) :
                 Place(S, k) \in S /\ Cardinality(UpTo(S, Place(S, k))) = k
<1> DEFINE rank(i) == Cardinality(UpTo(S, i))
           c == Cardinality(S)
<1>1. IsFiniteSet(S) /\ c \in 0 .. n
  <2>1. IsFiniteSet(1 .. n) /\ Cardinality(1 .. n) = n
    BY FS_Interval
  <2>2. IsFiniteSet(S) /\ c <= n
    BY <2>1, FS_Subset
  <2>3. c \in Nat
    BY <2>2, FS_CardinalityType
  <2> QED
    BY <2>2, <2>3
<1>2. \A i \in S : IsFiniteSet(UpTo(S, i)) /\ rank(i) \in 1 .. c
  <2> SUFFICES ASSUME NEW i \in S PROVE IsFiniteSet(UpTo(S, i)) /\ rank(i) \in 1 .. c
    OBVIOUS
  <2>1. UpTo(S, i) \in SUBSET S /\ i \in UpTo(S, i)
    BY DEF UpTo
  <2>2. IsFiniteSet(UpTo(S, i)) /\ rank(i) <= c
    BY <1>1, <2>1, FS_Subset
  <2>3. rank(i) \in Nat /\ rank(i) # 0
    BY <2>1, <2>2, FS_CardinalityType, FS_EmptySet
  <2> QED
    BY <1>1, <2>2, <2>3
<1>3. \A i, j \in S : i < j => rank(i) < rank(j)
  <2> SUFFICES ASSUME NEW i \in S, NEW j \in S, i < j PROVE rank(i) < rank(j)
    OBVIOUS
  <2>1. UpTo(S, i) \in SUBSET UpTo(S, j) /\ j \in UpTo(S, j) /\ j \notin UpTo(S, i)
    <3>1. \A x \in S : x \in Nat
      OBVIOUS
    <3>2. \A x \in UpTo(S, i) : x \in S /\ x <= j
      BY <3>1 DEF UpTo
    <3>3. ~(j <= i) /\ j <= j
      BY <3>1
    <3> QED
      BY <3>2, <3>3 DEF UpTo
  <2>2. rank(i) <= rank(j) /\ rank(i) # rank(j)
    BY <1>2, <2>1, FS_Subset
  <2> QED
    BY <1>1, <1>2, <2>2
<1>4. \A i, j \in S : rank(i) = rank(j) => i = j
  <2> SUFFICES ASSUME NEW i \in S, NEW j \in S, rank(i) = rank(j) PROVE i = j
    OBVIOUS
  <2>1. i \in Nat /\ j \in Nat /\ rank(i) \in Nat
    BY <1>1, <1>2
  <2>2. ~(i < j) /\ ~(j < i)
    BY <1>3, <2>1
  <2> QED
    BY <2>1, <2>2
\* The ranks are as many as the members, so every number up to c is one.
<1>5. \A k \in 1 .. c : \E i \in S : rank(i) = k
  <2> DEFINE f == [i \in S |-> rank(i)]
  <2>1. f \in Injection(S, 1 .. c)
    BY <1>2, <1>4 DEF Injection, IsInjective
  <2>2. IsFiniteSet(1 .. c) /\ Cardinality(1 .. c) = c
    BY <1>1, FS_Interval
  <2> HIDE DEF f
  <2>3. f \in Surjection(S, 1 .. c)
    BY <2>1, <2>2, FS_Injection
  <2> QED
    BY <2>3 DEF Surjection, f
<1>6. \A k \in 1 .. c : Place(S, k) \in S /\ rank(Place(S, k)) = k
  BY <1>5 DEF Place, UpTo
<1>7. \A i \in S : Place(S, rank(i)) = i
  BY <1>2, <1>4, <1>6
<1> QED
  BY <1>1, <1>2, <1>6, <1>7

LEMMA PlaceBehind ==
    ASSUME NEW n \in Nat, NEW S \in SUBSET (1 .. n)
    PROVE  LET T == S \cup {n + 1} IN
           /\ Cardinality(T) = Cardinality(S) + 1
           /\ \A k \in 1 .. Cardinality(S) : Place(T, k) = Place(S, k)
           /\ Place(T, Cardinality(T)) = n + 1
<1> DEFINE T == S \cup {n + 1}
<1>1. T \in SUBSET (1 .. n + 1) /\ n + 1 \in T /\ n + 1 \notin S
  OBVIOUS
<1>2. Cardinality(T) = Cardinality(S) + 1
  BY <1>1, PlaceOfRank, FS_AddElement
<1>3. \A i \in T : Place(T, Cardinality(UpTo(T, i))) = i
  <2>1. n + 1 \in Nat
    OBVIOUS
  <2> HIDE DEF T
  <2> QED
    BY <1>1, <2>1, PlaceOfRank
<1>4. ASSUME NEW k \in 1 .. Cardinality(S) PROVE Place(T, k) = Place(S, k)
  <2>1. Place(S, k) \in S /\ Cardinality(UpTo(S, Place(S, k))) = k
    BY PlaceOfRank
  <2>2. UpTo(T, Place(S, k)) = UpTo(S, Place(S, k))
    <3> DEFINE i == Place(S, k)
    <3>1. i \in S
      BY <2>1
    <3> HIDE DEF i
    <3>2. i \in 1 .. n
      BY <3>1
    <3>3. ~(n + 1 <= i)
      BY <3>2
    <3> QED
      BY <3>3 DEF UpTo, i
  <2> QED
    BY <1>3, <2>1, <2>2
<1>5. UpTo(T, n + 1) = T
  <2>1. \A i \in T : i <= n + 1
    BY <1>1
  <2> HIDE DEF T
  <2> QED
    BY <2>1 DEF UpTo
<1> QED
  BY <1>1, <1>2, <1>3, <1>4, <1>5

\* The set one lower, without what falls out at the low end.
Shifted(n, S) == {i \in 1 .. n - 1 : i + 1 \in S}

LEMMA CardinalityOfShifted ==
    ASSUME NEW n \in Nat, NEW S \in SUBSET (1 .. n)
    PROVE  Cardinality(Shifted(n, S)) =
              IF 1 \in S THEN Cardinality(S) - 1 ELSE Cardinality(S)
<1> DEFINE T == Shifted(n, S)
           f == [i \in T |-> i + 1]
<1>1. IsFiniteSet(S)
  BY PlaceOfRank
<1>2. T \in SUBSET (1 .. n) /\ IsFiniteSet(T)
  <2>1. T \in SUBSET (1 .. n)
    BY DEF Shifted
  <2> QED
    BY <2>1, PlaceOfRank
<1>3. f \in Bijection(T, S \ {1})
  <2>1. \A i \in T : i \in Int /\ i + 1 \in S \ {1}
    BY DEF Shifted
  <2>2. \A j \in S \ {1} : j - 1 \in T /\ (j - 1) + 1 = j
    BY DEF Shifted
  <2> HIDE DEF T
  <2>3. f \in Injection(T, S \ {1})
    BY <2>1 DEF Injection, IsInjective
  <2>4. f \in Surjection(T, S \ {1})
    BY <2>1, <2>2 DEF Surjection
  <2> QED
    BY <2>3, <2>4 DEF Bijection
<1> HIDE DEF f, T
<1>4. Cardinality(T) = Cardinality(S \ {1})
  BY <1>2, <1>3, FS_Bijection DEF ExistsBijection
<1> QED
  BY <1>1, <1>4, FS_RemoveElement DEF T

LEMMA PlaceShifted ==
    ASSUME NEW n \in Nat, NEW S \in SUBSET (1 .. n)
    PROVE  LET T == Shifted(n, S)
               d == IF 1 \in S THEN 1 ELSE 0
           IN  /\ T \in SUBSET (1 .. n - 1)
               /\ Cardinality(T) = Cardinality(S) - d
               /\ \A k \in 1 .. Cardinality(T) : Place(S, k + d) = Place(T, k) + 1
<1> DEFINE T == Shifted(n, S)
           d == IF 1 \in S THEN 1 ELSE 0
<1>1. T \in SUBSET (1 .. n - 1) /\ T \in SUBSET (1 .. n)
  BY DEF Shifted
<1>2. Cardinality(T) = Cardinality(S) - d /\ Cardinality(S) \in Nat
  <2>1. Cardinality(S) \in 0 .. n
    BY PlaceOfRank
  <2> QED
    BY <2>1, CardinalityOfShifted
<1>3. ASSUME NEW k \in 1 .. Cardinality(T) PROVE Place(S, k + d) = Place(T, k) + 1
  <2> DEFINE i == Place(T, k)
  <2>1. i \in T /\ Cardinality(UpTo(T, i)) = k
    BY <1>1, PlaceOfRank
  <2> HIDE DEF i
  <2>2. i \in 1 .. n - 1 /\ i + 1 \in S
    BY <2>1 DEF Shifted
  <2>3. UpTo(T, i) = Shifted(n, UpTo(S, i + 1))
    BY <2>2 DEF UpTo, Shifted
  <2>4. UpTo(S, i + 1) \in SUBSET (1 .. n) /\ (1 \in UpTo(S, i + 1) <=> 1 \in S)
    <3>1. 1 <= i + 1
      BY <2>2
    <3> QED
      BY <3>1 DEF UpTo
  <2>5. Cardinality(UpTo(S, i + 1)) = k + d
    <3>1. Cardinality(UpTo(T, i)) = Cardinality(UpTo(S, i + 1)) - d
      BY <2>3, <2>4, CardinalityOfShifted, PlaceOfRank
    <3>2. Cardinality(UpTo(S, i + 1)) \in Nat
      BY <2>4, PlaceOfRank
    <3> QED
      BY <2>1, <3>1, <3>2
  <2>6. Place(S, Cardinality(UpTo(S, i + 1))) = i + 1
    BY <2>2, PlaceOfRank
  <2> QED
    BY <2>5, <2>6 DEF i
<1> QED
  BY <1>1, <1>2, <1>3

LEMMA LeastPlace ==
    ASSUME NEW n \in Nat, NEW S \in SUBSET (1 .. n), S # {}
    PROVE  /\ Min(S) \in S /\ \A j \in S : Min(S) <= j
           /\ Place(S, 1) = Min(S)
<1> DEFINE i == Place(S, 1)
<1>1. Cardinality(S) \in Nat \ {0} /\ 1 \in 1 .. Cardinality(S)
  <2>1. IsFiniteSet(S) /\ Cardinality(S) \in 0 .. n
    BY PlaceOfRank
  <2>2. Cardinality(S) # 0
    BY <2>1, FS_EmptySet
  <2> QED
    BY <2>1, <2>2
<1>2. i \in S /\ Cardinality(UpTo(S, i)) = 1
  BY <1>1, PlaceOfRank
<1> HIDE DEF i
<1>3. ASSUME NEW j \in S PROVE i <= j
  <2> SUFFICES ASSUME j < i PROVE FALSE
    BY <1>2
  <2>1. \A x \in UpTo(S, j) : x \in S /\ x \in Nat /\ x <= i
    BY <1>2 DEF UpTo
  <2>2. UpTo(S, j) \in SUBSET UpTo(S, i)
    BY <2>1 DEF UpTo
  <2>3. IsFiniteSet(UpTo(S, i))
    <3>1. UpTo(S, i) \in SUBSET S
      BY DEF UpTo
    <3> QED
      BY <3>1, PlaceOfRank, FS_Subset
  <2>4. Cardinality(UpTo(S, j)) <= 1
    BY <1>2, <2>2, <2>3, FS_Subset
  <2>5. Cardinality(UpTo(S, j)) \in 1 .. Cardinality(S) /\ Place(S, Cardinality(UpTo(S, j))) = j
    BY PlaceOfRank
  <2>6. Cardinality(UpTo(S, j)) = 1
    BY <1>1, <2>4, <2>5
  <2> QED
    BY <2>5, <2>6 DEF i
<1>4. Min(S) = i
  <2>1. \A x \in S : (\A y \in S : x <= y) => x = i
    BY <1>2, <1>3
  <2> QED
    BY <1>2, <1>3, <2>1 DEF Min
<1> QED
  BY <1>2, <1>3, <1>4 DEF i

-----------------------------------------------------------------------------
(* The abstract wire.                                                      *)

WireStep == [WIRE!Next]_<<rt, Whole, Rest, line>>

LEMMA RingTyped ==
    ASSUME TypeOK
    PROVE  /\ Len(nb) \in Nat /\ Begins \in SUBSET (1 .. Len(nb))
           /\ \A i \in 1 .. Len(nb) : nb[i].len \in Lengths /\ nb[i] = Byte(nb[i].len, nb[i].pos)
                                      /\ nb[i].pos \in 1 .. 3
           /\ Whole \in Seq(Lengths) /\ Len(Whole) = Cardinality(Begins)
           /\ \A k \in 1 .. Cardinality(Begins) : Whole[k] = nb[Place(Begins, k)].len
<1>1. Len(nb) \in Nat /\ \A i \in 1 .. Len(nb) : nb[i] \in Bytes
  BY DEF TypeOK
<1>2. \A b \in Bytes : b.len \in Lengths /\ b.pos \in 1 .. 3 /\ b = Byte(b.len, b.pos)
  BY DEF Bytes, Byte, Lengths
<1>3. Begins \in SUBSET (1 .. Len(nb))
  BY DEF Begins
<1>4. /\ Cardinality(Begins) \in Nat
      /\ \A k \in 1 .. Cardinality(Begins) : Place(Begins, k) \in 1 .. Len(nb)
  <2>1. /\ Cardinality(Begins) \in 0 .. Len(nb)
        /\ \A k \in 1 .. Cardinality(Begins) : Place(Begins, k) \in Begins
    BY <1>1, <1>3, PlaceOfRank
  <2>2. \A i \in Begins : i \in 1 .. Len(nb)
    BY <1>3
  <2>3. Cardinality(Begins) \in Nat
    BY <2>1
  <2> QED
    BY <2>1, <2>2, <2>3, Zenon
<1>5. Whole \in Seq(Lengths) /\ Len(Whole) = Cardinality(Begins)
  BY <1>1, <1>2, <1>4 DEF Whole
<1> QED
  BY <1>1, <1>2, <1>3, <1>5 DEF Whole

LEMMA PutIsStep ==
    ASSUME TypeOK, NEW n \in Lengths, PutMsg(n), TypeOK', UNCHANGED <<rt, line>>
    PROVE  WireStep
<1> DEFINE L == Len(nb)
           S == Begins
           c == Cardinality(S)
<1>1. CASE ~Fits(n)
  BY <1>1 DEF PutMsg, WireStep, Whole, Rest, Begins
<1>2. CASE Fits(n)
  <2>1. n \in 1 .. 3 /\ nb \in Seq(Bytes) /\ Message(n) \in Seq(Bytes) /\ L \in Nat
    BY MessageBytes DEF TypeOK
  <2>2. /\ nb' \in Seq(Bytes) /\ Len(nb') = L + n
        /\ \A i \in 1 .. L : nb'[i] = nb[i]
        /\ \A i \in 1 .. n : nb'[L + i] = Byte(n, i)
    <3>1. nb' = nb \o Message(n)
      BY <1>2 DEF PutMsg
    <3> QED
      BY <2>1, <3>1, MessageBytes
  <2>3. Begins' = S \cup {L + 1}
    <3>1. Begins' = {i \in 1 .. L + n : nb'[i].pos = 1}
      BY <2>2 DEF Begins
    <3>2. \A i \in 1 .. L + n : nb'[i].pos = 1 <=> i \in S \/ i = L + 1
      <4> SUFFICES ASSUME NEW i \in 1 .. L + n
                   PROVE  nb'[i].pos = 1 <=> i \in S \/ i = L + 1
        OBVIOUS
      <4>1. CASE i <= L
        BY <2>1, <2>2, <4>1 DEF Begins
      <4>2. CASE ~(i <= L)
        <5>1. i - L \in 1 .. n /\ L + (i - L) = i
          BY <2>1, <4>2
        <5>2. nb'[i] = Byte(n, i - L)
          BY <2>2, <5>1
        <5> QED
          BY <2>1, <4>2, <5>1, <5>2 DEF Begins, Byte
      <4> QED
        BY <4>1, <4>2
    <3>3. S \in SUBSET (1 .. L + n) /\ L + 1 \in 1 .. L + n
      BY <2>1 DEF Begins
    <3> HIDE DEF S, L
    <3> QED
      BY <3>1, <3>2, <3>3
  <2>4. /\ S \in SUBSET (1 .. L) /\ c \in Nat
        /\ \A k \in 1 .. c : Place(S, k) \in 1 .. L
    <3>1. S \in SUBSET (1 .. L)
      BY RingTyped
    <3> HIDE DEF S, L
    <3>2. c \in 0 .. L /\ \A k \in 1 .. c : Place(S, k) \in S
      BY <2>1, <3>1, PlaceOfRank
    <3>3. \A i \in S : i \in 1 .. L
      BY <3>1
    <3>4. c \in Nat
      BY <3>2
    <3> QED
      BY <3>1, <3>2, <3>3, <3>4, Zenon
  <2>5. /\ Cardinality(Begins') = c + 1
        /\ \A k \in 1 .. c : Place(Begins', k) = Place(S, k)
        /\ Place(Begins', c + 1) = L + 1
    <3> HIDE DEF S, L
    <3> QED
      BY <2>1, <2>3, <2>4, PlaceBehind
  <2>6. Whole' = Append(Whole, n)
    <3>1. /\ Whole \in Seq(Lengths) /\ Len(Whole) = c
          /\ \A k \in 1 .. c : Whole[k] = nb[Place(S, k)].len
      BY RingTyped
    <3>2. /\ Whole' \in Seq(Lengths') /\ Len(Whole') = Cardinality(Begins')
          /\ \A k \in 1 .. Cardinality(Begins') : Whole'[k] = nb'[Place(Begins', k)].len
      <4>1. (TypeOK => /\ Whole \in Seq(Lengths) /\ Len(Whole) = Cardinality(Begins)
                       /\ \A k \in 1 .. Cardinality(Begins) :
                             Whole[k] = nb[Place(Begins, k)].len)'
        BY RingTyped, PTL
      <4> QED
        BY <4>1 DEF Place
    <3>3. Lengths' = Lengths
      BY DEF Lengths
    <3>4. /\ Append(Whole, n) \in Seq(Lengths) /\ Len(Append(Whole, n)) = c + 1
          /\ \A k \in 1 .. c : Append(Whole, n)[k] = Whole[k]
          /\ Append(Whole, n)[c + 1] = n
      BY <3>1, AppendProperties
    <3>5. \A k \in 1 .. c : Whole'[k] = Append(Whole, n)[k]
      <4> SUFFICES ASSUME NEW k \in 1 .. c PROVE Whole'[k] = Append(Whole, n)[k]
        OBVIOUS
      <4> HIDE DEF c, S, L
      <4>1. k \in 1 .. Cardinality(Begins')
        BY <2>4, <2>5
      <4>2. Whole'[k] = nb'[Place(S, k)].len
        BY <2>5, <3>2, <4>1
      <4>3. nb'[Place(S, k)] = nb[Place(S, k)]
        BY <2>2, <2>4
      <4> QED
        BY <3>1, <3>4, <4>2, <4>3
    <3>6. Whole'[c + 1] = n
      <4>1. nb'[L + 1] = Byte(n, 1)
        BY <2>1, <2>2
      <4> QED
        BY <2>4, <2>5, <3>2, <4>1 DEF Byte
    <3> HIDE DEF c
    <3>7. \A k \in 1 .. c + 1 : Whole'[k] = Append(Whole, n)[k]
      BY <2>4, <3>4, <3>5, <3>6
    <3> QED
      BY <2>5, <3>2, <3>3, <3>4, <3>7, SeqEqual
  <2>7. Rest' = Rest
    <3>1. \A m \in 0 .. L : SubSeq(nb', 1, m) = SubSeq(nb, 1, m)
      BY <2>1, <2>2
    <3>r. /\ Rest = IF S = {} THEN nb ELSE SubSeq(nb, 1, Min(S) - 1)
          /\ Rest' = IF Begins' = {} THEN nb' ELSE SubSeq(nb', 1, Min(Begins') - 1)
          /\ nb = SubSeq(nb, 1, L)
      BY <2>1 DEF Rest, Min
    <3> DEFINE T == Begins'
    <3> HIDE DEF S, L, T
    <3>2. /\ T = S \cup {L + 1} /\ T # {} /\ T \in SUBSET (1 .. L + 1) /\ L + 1 \in Nat
          /\ L + 1 \in T
      BY <2>1, <2>3, <2>4 DEF T
    <3>3. Min(T) \in T /\ \A j \in T : Min(T) <= j
      BY <3>2, LeastPlace
    <3>4. CASE S = {}
      <4>1. Min(T) = L + 1 /\ (L + 1) - 1 = L
        BY <2>1, <3>2, <3>3, <3>4
      <4>2. Rest' = SubSeq(nb', 1, Min(T) - 1)
        BY <3>2, <3>r DEF T
      <4>3. SubSeq(nb', 1, L) = SubSeq(nb, 1, L)
        BY <2>1, <3>1
      <4> QED
        BY <3>r, <3>4, <4>1, <4>2, <4>3
    <3>5. CASE S # {}
      <4>1. Min(S) \in S /\ \A j \in S : Min(S) <= j
        BY <2>1, <2>4, <3>5, LeastPlace
      <4>2. Min(S) \in 1 .. L /\ Min(S) \in T
        BY <2>4, <3>2, <4>1
      <4>3. Min(T) <= Min(S)
        BY <3>3, <4>2
      <4>4. Min(T) \in S
        BY <2>1, <3>2, <3>3, <4>2, <4>3
      <4>5. Min(T) = Min(S) /\ Min(S) - 1 \in 0 .. L
        <5>1. Min(S) <= Min(T) /\ Min(T) \in 1 .. L
          BY <2>4, <4>1, <4>4
        <5> QED
          BY <2>1, <4>2, <4>3, <5>1
      <4>6. SubSeq(nb', 1, Min(T) - 1) = SubSeq(nb, 1, Min(S) - 1)
        BY <3>1, <4>5
      <4>7. Rest' = SubSeq(nb', 1, Min(T) - 1)
        BY <3>2, <3>r DEF T
      <4>8. Rest = SubSeq(nb, 1, Min(S) - 1)
        BY <3>r, <3>5
      <4> QED
        BY <4>6, <4>7, <4>8
    <3> QED
      BY <3>4, <3>5
  <2>8. WIRE!Accept(n)
    BY <2>6, <2>7 DEF WIRE!Accept
  <2> QED
    BY <2>8 DEF WireStep, WIRE!Next, Lengths
<1> QED
  BY <1>1, <1>2

\* What a byte taken from the normal tier does to the messages behind it.
LEMMA TailTakesByte ==
    ASSUME TypeOK, TypeOK', nb # <<>>, nb' = Tail(nb)
    PROVE  /\ Len(nb) \in Nat \ {0} /\ Len(nb') = Len(nb) - 1
           /\ \A i \in 1 .. Len(nb) - 1 : nb'[i] = nb[i + 1]
           /\ Begins' = Shifted(Len(nb), Begins)
           /\ Whole' = IF 1 \in Begins THEN Tail(Whole) ELSE Whole
           /\ 1 \in Begins => Whole # <<>> /\ Head(Whole) = nb[1].len
<1> DEFINE L == Len(nb)
           S == Begins
           T == Begins'
           c == Cardinality(S)
           d == IF 1 \in S THEN 1 ELSE 0
<1>1. /\ L \in Nat \ {0} /\ L \in Nat /\ Len(nb') = L - 1
      /\ \A i \in 1 .. L - 1 : nb'[i] = nb[i + 1]
  BY DEF TypeOK
<1>2. T = Shifted(L, S)
  <2>1. \A i \in 1 .. L - 1 : i + 1 \in 1 .. L
    BY <1>1
  <2>2. T = {i \in 1 .. L - 1 : nb[i + 1].pos = 1}
    BY <1>1 DEF Begins
  <2> QED
    BY <1>1, <2>1, <2>2 DEF Begins, Shifted
<1>3. /\ S \in SUBSET (1 .. L)
      /\ Whole \in Seq(Lengths) /\ Len(Whole) = c
      /\ \A k \in 1 .. c : Whole[k] = nb[Place(S, k)].len
  BY RingTyped
<1>4. /\ T \in SUBSET (1 .. L - 1) /\ Cardinality(T) = c - d
      /\ \A k \in 1 .. Cardinality(T) : Place(S, k + d) = Place(T, k) + 1
  <2> HIDE DEF S, T, L
  <2> QED
    BY <1>1, <1>2, <1>3, PlaceShifted
<1>5. /\ Whole' \in Seq(Lengths) /\ Len(Whole') = Cardinality(T)
      /\ \A k \in 1 .. Cardinality(T) : Whole'[k] = nb'[Place(T, k)].len
  <2>1. (TypeOK => /\ Whole \in Seq(Lengths) /\ Len(Whole) = Cardinality(Begins)
                   /\ \A k \in 1 .. Cardinality(Begins) :
                         Whole[k] = nb[Place(Begins, k)].len)'
    BY RingTyped, PTL
  <2>2. Lengths' = Lengths
    BY DEF Lengths
  <2> QED
    BY <2>1, <2>2 DEF Place
<1> HIDE DEF S, T, L
<1>6. c \in Nat /\ (1 \in S => c # 0 /\ Place(S, 1) = 1)
  <2>1. IsFiniteSet(S) /\ c \in 0 .. L
    BY <1>1, <1>3, PlaceOfRank
  <2>2. ASSUME 1 \in S PROVE c # 0 /\ Place(S, 1) = 1
    <3>1. c # 0
      BY <2>1, <2>2, FS_EmptySet
    <3>2. Min(S) \in S /\ (\A j \in S : Min(S) <= j) /\ Place(S, 1) = Min(S)
      BY <1>1, <1>3, <2>2, LeastPlace
    <3>3. Min(S) \in 1 .. L /\ Min(S) <= 1
      BY <1>3, <2>2, <3>2
    <3> QED
      BY <1>1, <3>1, <3>2, <3>3
  <2> QED
    BY <2>1, <2>2
<1> HIDE DEF c
<1>7. ASSUME NEW k \in 1 .. Cardinality(T) PROVE Whole'[k] = Whole[k + d]
  <2>1. Place(T, k) \in T
    <3>1. L - 1 \in Nat
      BY <1>1
    <3> QED
      BY <1>4, <3>1, PlaceOfRank
  <2>2. nb'[Place(T, k)] = nb[Place(T, k) + 1]
    <3>1. Place(T, k) \in 1 .. L - 1
      BY <1>4, <2>1
    <3> QED
      BY <1>1, <3>1
  <2>3. k + d \in 1 .. c
    BY <1>4, <1>6
  <2>4. Whole[k + d] = nb[Place(T, k) + 1].len
    BY <1>3, <1>4, <2>3
  <2> QED
    BY <1>5, <2>2, <2>4
<1>8. CASE 1 \in S
  <2>1. Whole # <<>> /\ Len(Whole) = c /\ 1 \in 1 .. c
    BY <1>3, <1>6, <1>8
  <2>2. Head(Whole) = nb[1].len
    <3>1. Whole[1] = nb[1].len
      BY <1>3, <1>6, <1>8, <2>1
    <3> QED
      BY <1>3, <2>1, <3>1
  <2>3. /\ Tail(Whole) \in Seq(Lengths) /\ Len(Tail(Whole)) = c - 1
        /\ \A k \in 1 .. c - 1 : Tail(Whole)[k] = Whole[k + 1]
    BY <1>3, <2>1, HeadTailProperties
  <2>4. Len(Whole') = c - 1 /\ \A k \in 1 .. c - 1 : Whole'[k] = Tail(Whole)[k]
    BY <1>4, <1>5, <1>7, <1>8, <2>3
  <2>5. Whole' = Tail(Whole)
    BY <1>5, <2>3, <2>4, SeqEqual
  <2> QED
    BY <1>1, <1>2, <1>8, <2>1, <2>2, <2>5 DEF S, T, L
<1>9. CASE 1 \notin S
  <2>1. Len(Whole') = c /\ \A k \in 1 .. c : Whole'[k] = Whole[k]
    BY <1>4, <1>5, <1>6, <1>7, <1>9
  <2>2. Whole' = Whole
    BY <1>3, <1>5, <2>1, SeqEqual
  <2> QED
    BY <1>1, <1>2, <1>9, <2>2 DEF S, T, L
<1> QED
  BY <1>8, <1>9

\* A message that begins at the head of the ring: its bytes, then the next
\* message or the end.
LEMMA HeadMessage ==
    ASSUME TypeOK, RingIsWhole, nb # <<>>, nb[1].pos = 1
    PROVE  LET n == nb[1].len IN
           /\ n \in 1 .. Len(nb)
           /\ \A i \in 1 .. n : nb[i] = Byte(n, i)
           /\ n < Len(nb) => nb[n + 1].pos = 1
<1> DEFINE n == nb[1].len
<1>1. /\ Len(nb) \in Nat \ {0} /\ n \in 1 .. 3
      /\ \A i \in 1 .. Len(nb) : nb[i] = Byte(nb[i].len, nb[i].pos)
  <2>1. Len(nb) \in Nat \ {0}
    BY DEF TypeOK
  <2>2. Lengths \subseteq 1 .. 3
    BY TrsAssumption DEF Lengths
  <2>3. \A i \in 1 .. Len(nb) : nb[i].len \in Lengths /\ nb[i] = Byte(nb[i].len, nb[i].pos)
    BY RingTyped
  <2>4. 1 \in 1 .. Len(nb)
    BY <2>1
  <2> QED
    BY <2>1, <2>2, <2>3, <2>4
<1>2. nb[1] = Byte(n, 1)
  BY <1>1
<1>3. n > 1 => 1 < Len(nb) /\ nb[2] = Byte(n, 2)
  BY <1>1 DEF RingIsWhole, Byte
<1>4. n > 2 => 2 < Len(nb) /\ nb[3] = Byte(n, 3)
  BY <1>1, <1>3 DEF RingIsWhole, Byte
<1>5. n \in 1 .. Len(nb) /\ nb[n] = Byte(n, n)
  BY <1>1, <1>2, <1>3, <1>4
<1>6. n < Len(nb) => nb[n + 1].pos = 1
  <2>1. n \in 1 .. Len(nb) /\ ~(nb[n].pos < nb[n].len)
    BY <1>1, <1>5 DEF Byte
  <2> HIDE DEF n
  <2> QED
    BY <2>1 DEF RingIsWhole
<1>7. \A i \in 1 .. n : i = 1 \/ (i = 2 /\ n > 1) \/ (i = 3 /\ n > 2)
  <2> HIDE DEF n
  <2> QED
    BY <1>1
<1> QED
  BY <1>2, <1>3, <1>4, <1>5, <1>6, <1>7

\* What is left of a message ends where the next begins, or with the ring.
EndsAt(m) ==
    /\ m \in 0 .. Len(nb)
    /\ \A i \in 1 .. m : nb[i].pos # 1
    /\ m = Len(nb) \/ nb[m + 1].pos = 1

LEMMA RestEnds ==
    ASSUME TypeOK
    PROVE  /\ \A m : EndsAt(m) => Rest = SubSeq(nb, 1, m)
           /\ \E m : EndsAt(m)
<1>1. nb \in Seq(Bytes) /\ Len(nb) \in Nat /\ Begins \in SUBSET (1 .. Len(nb))
  BY RingTyped DEF TypeOK
<1>2. \A i \in 1 .. Len(nb) : i \in Begins <=> nb[i].pos = 1
  BY DEF Begins
<1>3. CASE Begins = {}
  <2>1. Rest = nb /\ nb = SubSeq(nb, 1, Len(nb))
    BY <1>1, <1>3 DEF Rest
  <2>2. EndsAt(Len(nb))
    BY <1>1, <1>2, <1>3 DEF EndsAt
  <2>3. \A m : EndsAt(m) => m = Len(nb)
    <3> SUFFICES ASSUME NEW m, EndsAt(m), m # Len(nb) PROVE FALSE
      OBVIOUS
    <3>1. m + 1 \in 1 .. Len(nb) /\ nb[m + 1].pos = 1
      BY <1>1 DEF EndsAt
    <3> QED
      BY <1>2, <1>3, <3>1
  <2> QED
    BY <2>1, <2>2, <2>3
<1>4. CASE Begins # {}
  <2> DEFINE b == Min(Begins)
  <2>1. b \in Begins /\ \A j \in Begins : b <= j
    BY <1>1, <1>4, LeastPlace
  <2>2. Rest = SubSeq(nb, 1, b - 1)
    BY <1>4 DEF Rest
  <2> HIDE DEF b
  <2>3. b \in 1 .. Len(nb) /\ nb[b].pos = 1
    BY <1>1, <1>2, <2>1
  <2>4. EndsAt(b - 1)
    <3>1. \A i \in 1 .. b - 1 : i \in 1 .. Len(nb) /\ ~(b <= i)
      BY <1>1, <2>3
    <3>2. \A i \in 1 .. b - 1 : nb[i].pos # 1
      BY <1>2, <2>1, <3>1
    <3> QED
      BY <1>1, <2>3, <3>2 DEF EndsAt
  <2>5. \A m : EndsAt(m) => m = b - 1
    <3> SUFFICES ASSUME NEW m, EndsAt(m) PROVE m = b - 1
      OBVIOUS
    <3>1. m \in 0 .. Len(nb) /\ ~(b \in 1 .. m)
      BY <2>3 DEF EndsAt
    <3>2. m # Len(nb) /\ m \in Nat
      BY <1>1, <2>3, <3>1
    <3>3. m + 1 \in Begins
      BY <1>1, <1>2, <3>1, <3>2 DEF EndsAt
    <3> QED
      BY <2>1, <2>3, <3>1, <3>2, <3>3
  <2> QED
    BY <2>2, <2>4, <2>5
<1> QED
  BY <1>3, <1>4

LEMMA NextByteIsStep ==
    ASSUME TypeOK, TypeOK', RingIsWhole, line = Idle, NextByte, ~Empty
    PROVE  WireStep
<1>1. CASE rt # <<>>
  <2>1. /\ line' = Head(rt) /\ rt' = Tail(rt)
        /\ UNCHANGED <<Whole, Rest>>
    BY <1>1 DEF NextByte, Whole, Rest, Begins
  <2> QED
    BY <1>1, <2>1 DEF WireStep, WIRE!Next, WIRE!SendUrgent
<1>2. CASE rt = <<>>
  <2>1. nb # <<>> /\ line' = Head(nb) /\ nb' = Tail(nb) /\ rt' = rt
    BY <1>2 DEF NextByte, Empty
  <2>2. /\ nb \in Seq(Bytes) /\ Len(nb) \in Nat \ {0} /\ Len(nb') = Len(nb) - 1
        /\ \A i \in 1 .. Len(nb) - 1 : nb'[i] = nb[i + 1]
    BY <2>1, TailTakesByte DEF TypeOK
  <2>3. \A m : EndsAt(m)' => Rest' = SubSeq(nb', 1, m)
    <3>1. (TypeOK => \A m : EndsAt(m) => Rest = SubSeq(nb, 1, m))'
      BY RestEnds, PTL
    <3> QED
      BY <3>1
  <2>4. 1 \in Begins <=> nb[1].pos = 1
    BY <2>2 DEF Begins
  <2>5. CASE nb[1].pos = 1
    <3>n. PICK n : n = nb[1].len
      OBVIOUS
    <3>1. /\ Whole' = Tail(Whole) /\ Whole # <<>> /\ Head(Whole) = n
      BY <2>1, <2>4, <2>5, <3>n, TailTakesByte
    <3>2. /\ n \in 1 .. Len(nb)
          /\ \A i \in 1 .. n : nb[i] = Byte(n, i)
          /\ n < Len(nb) => nb[n + 1].pos = 1
      BY <2>1, <2>5, <3>n, HeadMessage
    <3>3. line' = Byte(n, 1)
      BY <2>1, <2>2, <3>2
    <3>4. Rest = <<>>
      <4>1. EndsAt(0)
        BY <2>2, <2>5 DEF EndsAt
      <4> QED
        BY <4>1, RestEnds
    <3>5. \A i \in 1 .. n - 1 : nb'[i] = Byte(n, i + 1)
      BY <2>2, <3>2
    <3>6. EndsAt(n - 1)'
      <4>1. n - 1 \in 0 .. Len(nb')
        BY <2>2, <3>2
      <4>2. \A i \in 1 .. n - 1 : nb'[i].pos # 1
        <5> SUFFICES ASSUME NEW i \in 1 .. n - 1 PROVE nb'[i].pos # 1
          OBVIOUS
        <5>1. nb'[i].pos = i + 1
          <6>1. nb'[i] = Byte(n, i + 1)
            BY <3>5
          <6> QED
            BY <6>1 DEF Byte
        <5> QED
          BY <2>2, <3>2, <5>1
      <4>3. n - 1 = Len(nb') \/ nb'[(n - 1) + 1].pos = 1
        <5>1. CASE n = Len(nb)
          BY <2>2, <5>1
        <5>2. CASE n # Len(nb)
          <6>1. n < Len(nb) /\ n \in 1 .. Len(nb) - 1 /\ (n - 1) + 1 = n
            BY <2>2, <3>2, <5>2
          <6> QED
            BY <2>2, <3>2, <6>1
        <5> QED
          BY <5>1, <5>2
      <4> QED
        BY <4>1, <4>2, <4>3 DEF EndsAt
    <3>7. Rest' = [i \in 1 .. n - 1 |-> Byte(n, i + 1)]
      <4>1. Rest' = SubSeq(nb', 1, n - 1)
        BY <2>3, <3>6
      <4>2. SubSeq(nb', 1, n - 1) = [i \in 1 .. n - 1 |-> Byte(n, i + 1)]
        BY <2>2, <3>2, <3>5
      <4> QED
        BY <4>1, <4>2
    <3>8. WIRE!SendFirst
      BY <1>2, <2>1, <3>1, <3>3, <3>4, <3>7 DEF WIRE!SendFirst, WIRE!Byte, Byte
    <3> QED
      BY <3>8 DEF WireStep, WIRE!Next
  <2>6. CASE nb[1].pos # 1
    <3>1. Whole' = Whole
      BY <2>1, <2>4, <2>6, TailTakesByte
    <3>2. PICK m : EndsAt(m)
      BY RestEnds
    <3>3. m \in 1 .. Len(nb) /\ Rest = SubSeq(nb, 1, m)
      <4>1. m # 0
        BY <2>2, <2>6, <3>2 DEF EndsAt
      <4> QED
        BY <2>2, <3>2, <4>1, RestEnds DEF EndsAt
    <3>4. EndsAt(m - 1)'
      <4>1. m - 1 \in 0 .. Len(nb')
        BY <2>2, <3>3
      <4>2. \A i \in 1 .. m - 1 : nb'[i].pos # 1
        <5>1. \A i \in 1 .. m - 1 : nb'[i] = nb[i + 1] /\ i + 1 \in 1 .. m
          BY <2>2, <3>3
        <5> QED
          BY <3>2, <5>1 DEF EndsAt
      <4>3. m - 1 = Len(nb') \/ nb'[(m - 1) + 1].pos = 1
        BY <2>2, <3>2, <3>3 DEF EndsAt
      <4> QED
        BY <4>1, <4>2, <4>3 DEF EndsAt
    <3>5. /\ Rest # <<>> /\ Head(Rest) = nb[1] /\ Tail(Rest) = SubSeq(nb, 2, m)
      <4>1. 1 \in 1 .. Len(nb) /\ m \in 1 .. Len(nb)
        BY <2>2, <3>3
      <4>2. Head(SubSeq(nb, 1, m)) = nb[1] /\ Tail(SubSeq(nb, 1, m)) = SubSeq(nb, 1 + 1, m)
        BY <2>2, <4>1, HeadTailOfSubSeq
      <4>3. Rest # <<>>
        <5>1. \A i \in 1 .. m : nb[i] \in Bytes
          BY <2>2, <3>3
        <5>2. Len(SubSeq(nb, 1, m)) = m /\ m # 0
          BY <2>2, <3>3, <5>1, SubSeqProperties
        <5> QED
          BY <3>3, <5>2
      <4> QED
        BY <3>3, <4>2, <4>3
    <3>6. Rest' = SubSeq(nb, 2, m)
      <4>1. Rest' = SubSeq(nb', 1, m - 1)
        BY <2>3, <3>4
      <4>2. SubSeq(nb', 1, m - 1) = SubSeq(nb, 2, m)
        BY <2>2, <3>3
      <4> QED
        BY <4>1, <4>2
    <3>7. WIRE!SendNext
      <4>1. line' = Head(Rest) /\ Rest' = Tail(Rest)
        <5>1. Head(nb) = nb[1]
          BY <2>1, <2>2
        <5> QED
          BY <2>1, <3>5, <3>6, <5>1
      <4> QED
        BY <1>2, <2>1, <3>1, <3>5, <4>1 DEF WIRE!SendNext
    <3> QED
      BY <3>7 DEF WireStep, WIRE!Next
  <2> QED
    BY <2>5, <2>6
<1> QED
  BY <1>1, <1>2

LEMMA PutRtIsStep ==
    ASSUME NEW b \in Clocks, PutRt(b), UNCHANGED <<nb, line>> PROVE WireStep
<1>1. UNCHANGED <<Whole, Rest>>
  BY DEF Whole, Rest, Begins
<1>2. UNCHANGED rt \/ WIRE!AcceptUrgent(b)
  BY <1>1 DEF PutRt, WIRE!AcceptUrgent
<1> QED
  BY <1>1, <1>2 DEF WireStep, WIRE!Next, Clocks

\* The two-tier byte ring is the wire of MidiWire: whichever producers interleave
\* and whatever finds no room, messages reach the line whole and in their order,
\* only real-time bytes come between their bytes, and those go first.
THEOREM WireRefined == Spec => ImplementsMidiWire
<1>1. Init => WIRE!Init
  <2> SUFFICES ASSUME Init PROVE WIRE!Init
    OBVIOUS
  <2>1. nb = <<>> /\ Begins = {} /\ Cardinality(Begins) = 0
    <3>1. nb = <<>> /\ Begins = {}
      BY DEF Init, Begins
    <3> QED
      BY <3>1, FS_EmptySet
  <2>2. Whole = <<>>
    BY <2>1 DEF Whole
  <2> QED
    BY <2>1, <2>2 DEF Init, WIRE!Init, Rest
<1>2. Init => RingIsWhole
  BY DEF Init, RingIsWhole
<1>3. TypeOK /\ TypeOK' /\ RingIsWhole /\ [Next]_vars => [WIRE!Next]_<<rt, Whole, Rest, line>>
  <2> SUFFICES ASSUME TypeOK, TypeOK', RingIsWhole, [Next]_vars PROVE WireStep
    BY DEF WireStep
  <2>1. ASSUME NEW t \in Threads, NEW n \in Lengths, EnqueueMsg(t, n) PROVE WireStep
    BY <2>1, PutIsStep DEF EnqueueMsg
  <2>2. ASSUME NEW b \in HostClocks, HostRt(b) PROVE WireStep
    BY <2>2, PutRtIsStep DEF HostRt, Clocks
  <2>3. CASE TimerTick
    BY <2>3, PutRtIsStep DEF TimerTick, Clocks
  <2>4. CASE TxIsr /\ ~Empty
    BY <2>4, NextByteIsStep DEF TxIsr
  <2>5. CASE LineDone
    <3>1. UNCHANGED <<rt, Whole, Rest>>
      BY <2>5 DEF LineDone, Whole, Rest, Begins
    <3>2. WIRE!Sent
      BY <2>5, <3>1 DEF LineDone, WIRE!Sent
    <3> QED
      BY <3>2 DEF WireStep, WIRE!Next
  <2>6. CASE UNCHANGED <<rt, nb, line>>
    BY <2>6 DEF WireStep, Whole, Rest, Begins
  <2> QED
    BY <2>1, <2>2, <2>3, <2>4, <2>5, <2>6
       DEF Next, Offer, Deliver, MainSend, Panic, PanicSend, ThruSend, TxIsr,
           Kick, vars, Threads, Lengths
<1>4. WIRE!Spec <=> WIRE!Init /\ [][WIRE!Next]_<<rt, Whole, Rest, line>>
  BY DEF WIRE!Spec, WIRE!wvars, Whole, Rest
<1> QED
  BY TypeCorrect, WholeMessages, <1>1, <1>3, <1>4, PTL DEF Spec, ImplementsMidiWire
=============================================================================
