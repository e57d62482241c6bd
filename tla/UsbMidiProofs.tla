--------------------------- MODULE UsbMidiProofs ---------------------------
(***************************************************************************)
(* Theorems about the USB-MIDI function: buffers, the host's open sink,    *)
(* and events nobody forgets, for any ring and any pool of two or more.    *)
(***************************************************************************)
EXTENDS UsbMidi, SequenceTheorems, WellFoundedInduction, TLAPS

-----------------------------------------------------------------------------
(* Types.                                                                  *)

LEMMA InitTypeOK == Init => TypeOK
<1> SUFFICES ASSUME Init PROVE TypeOK
  OBVIOUS
<1>1. tx_queue \in Seq(Events) /\ Len(tx_queue) <= Slots /\ taken \in Seq(Events)
  BY UsbMidiAssumption DEF Init
<1>2. sending \in Seq(Seq(Events))
  BY DEF Init
<1>3. pc \in {"idle", "put", "kick"}
  BY DEF Init
<1> QED
  BY <1>1, <1>2, <1>3, UsbMidiAssumption DEF Init, TypeOK

LEMMA StepTypeOK == TypeOK /\ [Next]_vars => TypeOK'
<1> SUFFICES ASSUME TypeOK, [Next]_vars PROVE TypeOK'
  OBVIOUS
<1> USE DEF TypeOK, port
<1>1. CASE Send \/ Kick
  BY <1>1 DEF Send, Kick
<1>2. ASSUME NEW e \in Events, Put(e) PROVE TypeOK'
  <2>1. tx_queue' \in Seq(Events) /\ Len(tx_queue') <= Slots
    <3>1. CASE Len(tx_queue) < Slots
      <4>1. tx_queue' = Append(tx_queue, e)
        BY <1>2, <3>1 DEF Put
      <4>2. Len(Append(tx_queue, e)) = Len(tx_queue) + 1
            /\ Append(tx_queue, e) \in Seq(Events)
        OBVIOUS
      <4> QED
        BY <3>1, <4>1, <4>2, UsbMidiAssumption
    <3>2. CASE ~(Len(tx_queue) < Slots)
      BY <1>2, <3>2 DEF Put
    <3> QED
      BY <3>1, <3>2
  <2>2. pc' \in {"idle", "put", "kick"}
    BY <1>2 DEF Put
  <2> QED
    BY <1>2, <2>1, <2>2 DEF Put
<1>3. CASE WorkSkip
  BY <1>3 DEF WorkSkip
<1>4. CASE WorkTake
  <2>1. tx_queue' \in Seq(Events) /\ Len(tx_queue') <= Slots
    BY <1>4, UsbMidiAssumption DEF WorkTake
  <2>2. taken' \in Seq(Events) /\ pending' \in BOOLEAN
    BY <1>4 DEF WorkTake
  <2>3. free' \in Nat
    <3>1. free \in Nat /\ free > 0 /\ free' = free - 1
      BY <1>4 DEF WorkTake
    <3> QED
      BY <3>1
  <2>4. UNCHANGED <<pc, sending, armed, enabled, suspended, lost>>
    BY <1>4 DEF WorkTake
  <2> QED
    BY <2>1, <2>2, <2>3, <2>4
<1>5. CASE WorkEnqueue
  <2>1. taken' \in Seq(Events)
    BY <1>5 DEF WorkEnqueue
  <2>2. Append(sending, taken) \in Seq(Seq(Events))
    OBVIOUS
  <2>3. sending' \in Seq(Seq(Events))
    BY <1>5, <2>2 DEF WorkEnqueue
  <2> QED
    BY <1>5, <2>1, <2>3 DEF WorkEnqueue
<1>6. CASE WorkRefused
  <2>1. <<>> \in Seq(Events)
    OBVIOUS
  <2> QED
    BY <1>6, <2>1 DEF WorkRefused
<1>7. CASE InRequest
  <2>1. Tail(sending) \in Seq(Seq(Events))
    BY <1>7 DEF InRequest
  <2> QED
    BY <1>7, <2>1 DEF InRequest
<1>8. CASE OutDone
  <2>1. PICK ok \in BOOLEAN : OutPrep(free + 1, armed - 1, ok) /\ lost' = (lost \/ ~ok)
    BY <1>8 DEF OutDone
  <2>2. armed' \in Nat /\ free' \in Nat
    BY <1>8, <2>1 DEF OutDone, OutPrep
  <2>3. lost' \in BOOLEAN
    BY <2>1
  <2> QED
    BY <1>8, <2>2, <2>3 DEF OutDone
<1>12. CASE OutEnded
  BY <1>12 DEF OutEnded
<1>9. CASE Enable
  <2>1. PICK ok \in BOOLEAN : OutPrep(free, armed, ok) /\ lost' = ~ok
    BY <1>9 DEF Enable
  <2>2. armed' \in Nat /\ free' \in Nat
    BY <2>1 DEF OutPrep
  <2>3. lost' \in BOOLEAN
    BY <2>1
  <2> QED
    BY <1>9, <2>2, <2>3 DEF Enable
<1>10. CASE Disable \/ Suspended \/ Resumed
  BY <1>10 DEF Disable, Suspended, Resumed
<1>11. CASE UNCHANGED vars
  BY <1>11 DEF vars
<1> QED
  BY <1>1, <1>2, <1>3, <1>4, <1>5, <1>6, <1>7, <1>8, <1>9, <1>10, <1>11,
     <1>12 DEF Next, Offer, Host, Deliver, InDone, InAborted

\* Events and buffers keep their types and the ring its size.
THEOREM TypeCorrect == Spec => []TypeOK
<1> QED
  BY InitTypeOK, StepTypeOK, PTL DEF Spec

-----------------------------------------------------------------------------
(* The pool.                                                               *)

LEMMA StepBalance == TypeOK /\ BuffersBalance /\ [Next]_vars => BuffersBalance'
<1> SUFFICES ASSUME TypeOK, BuffersBalance, [Next]_vars PROVE BuffersBalance'
  OBVIOUS
<1> USE DEF TypeOK, BuffersBalance, port
<1>1. CASE Send \/ Kick \/ WorkSkip \/ Disable \/ Suspended \/ Resumed
  BY <1>1 DEF Send, Kick, WorkSkip, Disable, Suspended, Resumed
<1>2. ASSUME NEW e \in Events, Put(e) PROVE BuffersBalance'
  BY <1>2 DEF Put
<1>3. CASE WorkTake
  BY <1>3 DEF WorkTake
<1>4. CASE WorkEnqueue
  <2>1. Len(sending') = Len(sending) + 1
    BY <1>4 DEF WorkEnqueue
  <2> QED
    BY <1>4, <2>1, UsbMidiAssumption DEF WorkEnqueue
<1>5. CASE WorkRefused
  BY <1>5, UsbMidiAssumption DEF WorkRefused
<1>6. CASE InRequest
  <2>1. Len(sending') = Len(sending) - 1 /\ Len(sending) \in Nat
    BY <1>6 DEF InRequest
  <2> QED
    BY <1>6, <2>1, UsbMidiAssumption DEF InRequest
<1>7. CASE OutDone \/ OutEnded \/ Enable
  <2>1. free' + armed' = free + armed
    <3>1. CASE OutEnded
      BY <3>1 DEF OutEnded
    <3>2. CASE OutDone
      BY <3>2 DEF OutDone, OutPrep
    <3>3. CASE Enable
      BY <3>3 DEF Enable, OutPrep
    <3> QED
      BY <1>7, <3>1, <3>2, <3>3
  <2>2. armed' \in Nat /\ free' \in Nat
    BY StepTypeOK, UsbMidiAssumption
  <2>3. UNCHANGED <<taken, sending>>
    BY <1>7 DEF OutDone, OutEnded, Enable
  <2> QED
    BY <2>1, <2>2, <2>3, UsbMidiAssumption
<1>9. CASE UNCHANGED vars
  BY <1>9 DEF vars
<1> QED
  BY <1>1, <1>2, <1>3, <1>4, <1>5, <1>6, <1>7, <1>9
     DEF Next, Offer, Host, Deliver, InDone, InAborted

\* No buffer of the pool leaks and none is returned twice.
THEOREM PoolBalanced == Spec => []BuffersBalance
<1>1. Init => BuffersBalance
  BY UsbMidiAssumption DEF Init, BuffersBalance
<1> QED
  BY <1>1, StepBalance, TypeCorrect, PTL DEF Spec

-----------------------------------------------------------------------------
(* The read for the host's stream.                                         *)

\* One read is armed from enable to disable, through suspends, until one ends
\* under suspend or is refused; and at most one is.
OneRead == armed <= 1 /\ ((enabled \/ suspended) /\ ~lost => armed = 1)

LEMMA StepOneRead ==
    TypeOK /\ BuffersBalance /\ OneRead /\ [Next]_vars => OneRead'
<1> SUFFICES ASSUME TypeOK, BuffersBalance, OneRead, [Next]_vars PROVE OneRead'
  OBVIOUS
<1> USE DEF TypeOK, OneRead, port
<1>1. CASE Enable
  <2>1. sending = <<>> /\ armed = 0 /\ free > 0
    BY <1>1, UsbMidiAssumption DEF Enable, BuffersBalance
  <2> QED
    <3>1. PICK ok \in BOOLEAN : OutPrep(free, armed, ok) /\ lost' = ~ok
      BY <1>1 DEF Enable
    <3>2. armed' <= 1
      BY <2>1, <3>1 DEF OutPrep
    <3>3. ok => armed' = 1
      BY <2>1, <3>1 DEF OutPrep
    <3>4. ~ok => lost'
      BY <3>1
    <3> QED
      BY <3>2, <3>3, <3>4
<1>2. CASE OutDone
  <2>1. PICK ok \in BOOLEAN : OutPrep(free + 1, armed - 1, ok) /\ lost' = (lost \/ ~ok)
    BY <1>2 DEF OutDone
  <2>2. CASE ok
    <3>1. armed' = armed
      BY <1>2, <2>1, <2>2 DEF OutDone, OutPrep
    <3>2. lost' = lost /\ UNCHANGED <<enabled, suspended>>
      BY <1>2, <2>1, <2>2 DEF OutDone
    <3> QED
      BY <3>1, <3>2
  <2>3. CASE ~ok
    <3>1. armed' = armed - 1
      BY <1>2, <2>1, <2>3 DEF OutDone, OutPrep
    <3>2. lost'
      BY <2>1, <2>3
    <3> QED
      BY <3>1, <3>2
  <2> QED
    BY <2>2, <2>3
<1>3. CASE OutEnded
  <2>1. armed' = armed - 1 /\ ~enabled' /\ (suspended' => lost')
    BY <1>3 DEF OutEnded
  <2> QED
    BY <2>1
<1>4. CASE Disable \/ Suspended \/ Resumed
  BY <1>4 DEF Disable, Suspended, Resumed
<1>5. CASE UNCHANGED <<armed, port>>
  BY <1>5
<1> QED
  BY <1>1, <1>2, <1>3, <1>4, <1>5
     DEF Next, Offer, Host, Deliver, InDone, InAborted, InRequest, Send, Put,
         Kick, WorkSkip, WorkTake, WorkEnqueue, WorkRefused, vars

THEOREM ReadArmed == Spec => []OneRead
<1>1. Init => OneRead
  BY DEF Init, OneRead
<1> QED
  BY <1>1, StepOneRead, TypeCorrect, PoolBalanced, PTL DEF Spec

\* Until a read ends under suspend or is refused, the host has an open sink while
\* the port is up, and never is a second read armed.
THEOREM SinkKept == Spec => []SinkIsKept
<1>1. OneRead => SinkIsKept
  BY DEF OneRead, SinkIsKept
<1> QED
  BY <1>1, ReadArmed, PTL

-----------------------------------------------------------------------------
(* The ring.                                                               *)

LEMMA StepStranded ==
    TypeOK /\ BuffersBalance /\ OneRead /\ NothingStranded /\ [Next]_vars
        => NothingStranded'
<1> SUFFICES ASSUME TypeOK, BuffersBalance, OneRead, NothingStranded, [Next]_vars
             PROVE  NothingStranded'
  OBVIOUS
<1> USE DEF TypeOK, NothingStranded, port
<1>1. CASE WorkSkip
  <2>1. CASE tx_queue = <<>>
    BY <1>1, <2>1 DEF WorkSkip
  <2>2. CASE free = 0
    \* The pool is used up, and reads hold one buffer of it at most.
    <3>1. Len(sending) >= 1
      BY <1>1, <2>2, UsbMidiAssumption DEF WorkSkip, BuffersBalance, OneRead
    <3>2. sending # <<>>
      BY <3>1
    <3> QED
      BY <1>1, <3>2 DEF WorkSkip
  <2> QED
    BY <1>1, <2>1, <2>2 DEF WorkSkip
<1>2. CASE WorkTake
  BY <1>2 DEF WorkTake
<1>3. CASE WorkEnqueue
  <2>1. sending' = Append(sending, taken)
    BY <1>3 DEF WorkEnqueue
  <2> QED
    BY <2>1
<1>4. CASE InRequest
  BY <1>4 DEF InRequest
<1>5. ASSUME NEW e \in Events, Put(e) PROVE NothingStranded'
  BY <1>5 DEF Put
<1>6. CASE Send \/ Kick \/ WorkRefused \/ OutDone \/ OutEnded
  BY <1>6 DEF Send, Kick, WorkRefused, OutDone, OutEnded
<1>7. CASE Enable \/ Disable \/ Suspended \/ Resumed
  BY <1>7 DEF Enable, Disable, Suspended, Resumed
<1>8. CASE UNCHANGED vars
  BY <1>8 DEF vars
<1> QED
  BY <1>1, <1>2, <1>3, <1>4, <1>5, <1>6, <1>7, <1>8
     DEF Next, Offer, Host, Deliver, InDone, InAborted

\* No event waits in the ring with nobody about to send it.
THEOREM NeverStranded == Spec => []NothingStranded
<1>1. Init => NothingStranded
  BY DEF Init, NothingStranded
<1> QED
  BY <1>1, StepStranded, TypeCorrect, PoolBalanced, ReadArmed, PTL DEF Spec

-----------------------------------------------------------------------------
(* What FlattenSeq computes.  Its recursion runs over the numbers, and an  *)
(* induction over them is an argument by the least counterexample.         *)

LEMMA LeastNumber ==
    ASSUME NEW B, B \subseteq Nat, B # {}
    PROVE  \E n \in B : \A m \in B : n <= m
<1>1. \A m, n \in Nat : m < n => <<m, n>> \in OpToRel(<, Nat)
  BY DEF OpToRel
<1>2. PICK R : IsWellFoundedOn(R, Nat) /\ \A m, n \in Nat : m < n => <<m, n>> \in R
  BY <1>1, NatLessThanWellFounded, Zenon
<1>3. PICK n \in B : \A m \in B : ~(<<m, n>> \in R)
  BY <1>2, WFMin
<1>4. \A m \in B : ~(m < n)
  BY <1>2, <1>3
<1>5. \A m \in B : n <= m
  BY <1>4
<1> QED
  BY <1>5

\* f is the function FlattenSeq(s) is defined by: the concatenations of the
\* first parts of s.
Flattens(f, s) == f = [i \in 1 .. Len(s) |-> IF i = 1 THEN s[i] ELSE f[i - 1] \o s[i]]

LEMMA FlattenExists ==
    ASSUME NEW E, NEW s \in Seq(Seq(E))
    PROVE  \E f : Flattens(f, s)
<1> DEFINE Upto(k) == \E f \in [1 .. k -> Seq(E)] :
                         \A i \in 1 .. k : f[i] = IF i = 1 THEN s[i] ELSE f[i - 1] \o s[i]
           Bad == {k \in 0 .. Len(s) : ~Upto(k)}
<1>s. Len(s) \in Nat /\ \A i \in 1 .. Len(s) : s[i] \in Seq(E)
  OBVIOUS
<1>1. Upto(0)
  <2>1. 1 .. 0 = {}
    OBVIOUS
  <2>2. [i \in {} |-> <<>>] \in [{} -> Seq(E)]
    OBVIOUS
  <2> QED
    BY <2>1, <2>2
<1>2. ASSUME NEW n \in 1 .. Len(s), Upto(n - 1) PROVE Upto(n)
  <2>1. PICK f \in [1 .. n - 1 -> Seq(E)] :
               \A i \in 1 .. n - 1 : f[i] = IF i = 1 THEN s[i] ELSE f[i - 1] \o s[i]
    BY <1>2
  <2> DEFINE e == IF n = 1 THEN s[n] ELSE f[n - 1] \o s[n]
             g == [i \in 1 .. n |-> IF i < n THEN f[i] ELSE e]
  <2>2. e \in Seq(E)
    <3>1. CASE n = 1
      BY <1>s, <3>1
    <3>2. CASE n # 1
      <4>1. f[n - 1] \in Seq(E)
        BY <2>1, <3>2
      <4> QED
        BY <1>s, <3>2, <4>1, ConcatProperties
    <3> QED
      BY <3>1, <3>2
  <2> HIDE DEF e
  <2>3. g \in [1 .. n -> Seq(E)]
    BY <2>1, <2>2
  <2>4. \A i \in 1 .. n : g[i] = IF i = 1 THEN s[i] ELSE g[i - 1] \o s[i]
    <3> SUFFICES ASSUME NEW i \in 1 .. n PROVE g[i] = IF i = 1 THEN s[i] ELSE g[i - 1] \o s[i]
      OBVIOUS
    <3>1. CASE i < n
      <4>1. i \in 1 .. n - 1 /\ g[i] = f[i] /\ (i # 1 => g[i - 1] = f[i - 1])
        BY <1>s, <3>1
      <4>2. f[i] = IF i = 1 THEN s[i] ELSE f[i - 1] \o s[i]
        BY <2>1, <4>1
      <4> HIDE DEF g
      <4> QED
        BY <4>1, <4>2
    <3>2. CASE i = n
      <4>1. g[i] = e /\ (i # 1 => g[i - 1] = f[i - 1])
        BY <1>s, <3>2
      <4> HIDE DEF g
      <4> QED
        BY <3>2, <4>1 DEF e
    <3> QED
      BY <1>s, <3>1, <3>2
  <2> HIDE DEF g
  <2> QED
    BY <2>3, <2>4
<1> HIDE DEF Upto
<1>3. Bad = {}
  <2> SUFFICES ASSUME Bad # {} PROVE FALSE
    OBVIOUS
  <2>0. Bad \subseteq Nat
    BY <1>s
  <2>1. PICK n \in Bad : \A m \in Bad : n <= m
    <3> HIDE DEF Bad
    <3> QED
      BY <2>0, LeastNumber
  <2>2. n \in 0 .. Len(s) /\ ~Upto(n)
    BY <2>1
  <2>3. n - 1 \in 0 .. Len(s) /\ Upto(n - 1)
    BY <1>s, <1>1, <2>1, <2>2
  <2> QED
    BY <1>s, <1>2, <2>2, <2>3
<1>4. Upto(Len(s))
  BY <1>s, <1>3
<1>5. PICK f \in [1 .. Len(s) -> Seq(E)] :
             \A i \in 1 .. Len(s) : f[i] = IF i = 1 THEN s[i] ELSE f[i - 1] \o s[i]
  BY <1>4 DEF Upto
<1> QED
  BY <1>5 DEF Flattens

LEMMA FlattenIs ==
    ASSUME NEW E, NEW s \in Seq(Seq(E)), s # <<>>
    PROVE  \E f : Flattens(f, s) /\ FlattenSeq(s) = f[Len(s)]
<1>1. Len(s) # 0
  OBVIOUS
<1>2. FlattenSeq(s) = (CHOOSE f : Flattens(f, s))[Len(s)]
  BY <1>1 DEF FlattenSeq, Flattens
<1> QED
  BY <1>2, FlattenExists

\* Its values are sequences of the elements' elements.
LEMMA FlattenTyped ==
    ASSUME NEW E, NEW s \in Seq(Seq(E)), NEW f, Flattens(f, s)
    PROVE  \A i \in 1 .. Len(s) : f[i] \in Seq(E)
<1> DEFINE Bad == {i \in 1 .. Len(s) : f[i] \notin Seq(E)}
<1>1. Bad = {}
  <2> SUFFICES ASSUME Bad # {} PROVE FALSE
    OBVIOUS
  <2>0. Bad \subseteq Nat
    OBVIOUS
  <2>1. PICK n \in Bad : \A m \in Bad : n <= m
    <3> HIDE DEF Bad
    <3> QED
      BY <2>0, LeastNumber
  <2>2. n \in 1 .. Len(s) /\ f[n] \notin Seq(E) /\ s[n] \in Seq(E)
    BY <2>1
  <2>3. n # 1 => f[n - 1] \in Seq(E)
    BY <2>1, <2>2
  <2>4. f[n] = IF n = 1 THEN s[n] ELSE f[n - 1] \o s[n]
    BY <2>2 DEF Flattens
  <2> QED
    BY <2>2, <2>3, <2>4, ConcatProperties
<1> QED
  BY <1>1

LEMMA FlattenOfNone == FlattenSeq(<<>>) = <<>>
  BY DEF FlattenSeq

LEMMA FlattenIn ==
    ASSUME NEW E, NEW s \in Seq(Seq(E)) PROVE FlattenSeq(s) \in Seq(E)
<1>1. CASE s = <<>>
  BY <1>1, FlattenOfNone, EmptySeq, Zenon
<1>2. CASE s # <<>>
  <2>1. PICK f : Flattens(f, s) /\ FlattenSeq(s) = f[Len(s)]
    BY <1>2, FlattenIs
  <2>2. Len(s) \in 1 .. Len(s)
    BY <1>2
  <2>3. f[Len(s)] \in Seq(E)
    BY <2>1, <2>2, FlattenTyped
  <2> QED
    BY <2>1, <2>3
<1> QED
  BY <1>1, <1>2

\* A buffer that joins the end brings its events to the end.
LEMMA FlattenOfAppend ==
    ASSUME NEW E, NEW s \in Seq(Seq(E)), NEW b \in Seq(E)
    PROVE  FlattenSeq(Append(s, b)) = FlattenSeq(s) \o b
<1> DEFINE t == Append(s, b)
<1>1. /\ t \in Seq(Seq(E)) /\ t # <<>> /\ Len(t) = Len(s) + 1 /\ Len(s) \in Nat
      /\ \A i \in 1 .. Len(s) : t[i] = s[i]
      /\ t[Len(s) + 1] = b
  BY AppendProperties
<1> HIDE DEF t
<1>n. Len(s) \in Nat
  BY <1>1
<1>2. PICK g : Flattens(g, t) /\ FlattenSeq(t) = g[Len(t)]
  BY <1>1, FlattenIs
<1>r. \A i \in 1 .. Len(t) : g[i] = IF i = 1 THEN t[i] ELSE g[i - 1] \o t[i]
  BY <1>2 DEF Flattens
<1>3. g[Len(t)] = IF Len(t) = 1 THEN t[Len(t)] ELSE g[Len(t) - 1] \o t[Len(t)]
  <2>1. Len(t) \in 1 .. Len(t)
    BY <1>1
  <2> QED
    BY <1>r, <2>1
<1>4. CASE s = <<>>
  <2>1. FlattenSeq(t) = b
    BY <1>1, <1>2, <1>3, <1>4
  <2> QED
    BY <1>4, <2>1, FlattenOfNone, ConcatEmptySeq DEF t
<1>5. CASE s # <<>>
  <2>1. PICK f : Flattens(f, s) /\ FlattenSeq(s) = f[Len(s)]
    BY <1>5, FlattenIs
  <2>r. \A i \in 1 .. Len(s) : f[i] = IF i = 1 THEN s[i] ELSE f[i - 1] \o s[i]
    BY <2>1 DEF Flattens
  <2> DEFINE Bad == {i \in 1 .. Len(s) : f[i] # g[i]}
  <2>2. Bad = {}
    <3> SUFFICES ASSUME Bad # {} PROVE FALSE
      OBVIOUS
    <3>0. Bad \subseteq Nat
      <4>1. Bad \subseteq 1 .. Len(s)
        BY Zenon
      <4>2. 1 .. Len(s) \subseteq Nat
        BY <1>n
      <4> QED
        BY <4>1, <4>2, Zenon
    <3>1. PICK n \in Bad : \A m \in Bad : n <= m
      <4> HIDE DEF Bad
      <4> QED
        BY <3>0, LeastNumber
    <3>2. n \in 1 .. Len(s) /\ n \in 1 .. Len(t) /\ f[n] # g[n] /\ s[n] = t[n]
      BY <1>1, <3>1
    <3>m. \A m \in 1 .. Len(s) : f[m] # g[m] => n <= m
      BY <3>1
    <3> HIDE DEF Bad
    <3>i. n # 1 => n - 1 \in 1 .. Len(s) /\ ~(n <= n - 1)
      BY <1>n, <3>2
    <3>3. n # 1 => f[n - 1] = g[n - 1]
      BY <3>m, <3>i
    <3> QED
      BY <1>r, <2>r, <3>2, <3>3
  <2>3. Len(s) \in 1 .. Len(s) /\ Len(t) # 1 /\ Len(t) - 1 = Len(s)
    BY <1>1, <1>5
  <2> QED
    BY <1>1, <1>2, <1>3, <2>1, <2>2, <2>3 DEF t
<1> QED
  BY <1>4, <1>5

\* The first buffer's events come first, and the others' follow in their order.
LEMMA FlattenOfHead ==
    ASSUME NEW E, NEW s \in Seq(Seq(E)), s # <<>>
    PROVE  FlattenSeq(s) = Head(s) \o FlattenSeq(Tail(s))
<1> DEFINE t == Tail(s)
<1>1. /\ t \in Seq(Seq(E)) /\ Len(t) \in Nat /\ Len(s) = Len(t) + 1
      /\ \A i \in 1 .. Len(t) : t[i] = s[i + 1]
      /\ Head(s) = s[1] /\ Head(s) \in Seq(E)
  BY HeadTailProperties
<1> HIDE DEF t
<1>n. Len(t) \in Nat /\ Len(s) \in Nat /\ Len(s) = Len(t) + 1
  BY <1>1
<1>2. PICK f : Flattens(f, s) /\ FlattenSeq(s) = f[Len(s)]
  BY FlattenIs
<1>r. \A i \in 1 .. Len(s) : f[i] = IF i = 1 THEN s[i] ELSE f[i - 1] \o s[i]
  BY <1>2 DEF Flattens
<1>3. CASE t = <<>>
  <2>1. Len(s) = 1 /\ 1 \in 1 .. Len(s)
    BY <1>1, <1>3
  <2>2. FlattenSeq(s) = Head(s)
    BY <1>1, <1>2, <1>r, <2>1
  <2> QED
    BY <1>1, <1>3, <2>2, FlattenOfNone, ConcatEmptySeq DEF t
<1>4. CASE t # <<>>
  <2>1. PICK g : Flattens(g, t) /\ FlattenSeq(t) = g[Len(t)]
    BY <1>1, <1>4, FlattenIs
  <2>r. \A i \in 1 .. Len(t) : g[i] = IF i = 1 THEN t[i] ELSE g[i - 1] \o t[i]
    BY <2>1 DEF Flattens
  <2>t. \A i \in 1 .. Len(t) : g[i] \in Seq(E) /\ t[i] \in Seq(E)
    BY <1>1, <2>1, FlattenTyped
  <2> DEFINE Bad == {i \in 1 .. Len(t) : f[i + 1] # Head(s) \o g[i]}
  <2>2. Bad = {}
    <3> SUFFICES ASSUME Bad # {} PROVE FALSE
      OBVIOUS
    <3>0. Bad \subseteq Nat
      <4>1. Bad \subseteq 1 .. Len(t)
        BY Zenon
      <4>2. 1 .. Len(t) \subseteq Nat
        BY <1>n
      <4> QED
        BY <4>1, <4>2, Zenon
    <3>1. PICK n \in Bad : \A m \in Bad : n <= m
      <4> HIDE DEF Bad
      <4> QED
        BY <3>0, LeastNumber
    <3>m. \A m \in 1 .. Len(t) : f[m + 1] # Head(s) \o g[m] => n <= m
      BY <3>1
    <3>2. n \in 1 .. Len(t) /\ f[n + 1] # Head(s) \o g[n]
      BY <3>1
    <3> HIDE DEF Bad
    <3>i. n \in Nat /\ n + 1 \in 1 .. Len(s) /\ n + 1 # 1 /\ (n + 1) - 1 = n
      BY <1>n, <3>2
    <3>3. f[n + 1] = f[n] \o t[n]
      <4>1. f[n + 1] = f[(n + 1) - 1] \o s[n + 1]
        BY <1>r, <3>i
      <4> QED
        BY <1>1, <3>2, <3>i, <4>1
    <3>4. CASE n = 1
      <4>1. f[1] = s[1] /\ g[1] = t[1]
        BY <1>r, <2>r, <3>2, <3>i, <3>4, <1>n
      <4> QED
        BY <1>1, <3>2, <3>3, <3>4, <4>1
    <3>5. CASE n # 1
      <4>i. n - 1 \in 1 .. Len(t) /\ (n - 1) + 1 = n /\ ~(n <= n - 1)
        BY <1>n, <3>2, <3>5
      <4>1. f[(n - 1) + 1] = Head(s) \o g[n - 1]
        BY <3>m, <4>i
      <4>2. g[n] = g[n - 1] \o t[n]
        BY <2>r, <3>2, <3>5
      <4>3. f[n] = Head(s) \o g[n - 1]
        BY <4>i, <4>1
      <4>s. Head(s) \in Seq(E) /\ g[n - 1] \in Seq(E) /\ t[n] \in Seq(E)
        BY <1>1, <2>t, <3>2, <4>i, Zenon
      <4>4. (Head(s) \o g[n - 1]) \o t[n] = Head(s) \o (g[n - 1] \o t[n])
        <5>1. \A a, b, c \in Seq(E) : (a \o b) \o c = a \o (b \o c)
          BY ConcatAssociative
        <5> QED
          BY <4>s, <5>1, Zenon
      <4> QED
        BY <3>2, <3>3, <4>2, <4>3, <4>4
    <3> QED
      BY <3>4, <3>5
  <2>3. Len(t) \in 1 .. Len(t) /\ Len(t) + 1 = Len(s)
    BY <1>1, <1>4
  <2>4. f[Len(s)] = Head(s) \o g[Len(t)]
    BY <2>2, <2>3
  <2> QED
    BY <1>2, <2>1, <2>4 DEF t
<1> QED
  BY <1>3, <1>4

-----------------------------------------------------------------------------
(* The abstract port.  Every step is one of MidiPort's or changes neither  *)
(* what is under way nor whether the port is up.                           *)

Flat == FlattenSeq(sending)
Queue == Flat \o taken \o tx_queue

PortStep == [PORT!Next]_<<Queue, enabled>>

\* Cutting the middle out of a, b, c leaves a and c.
LEMMA Cut ==
    ASSUME NEW E, NEW a \in Seq(E), NEW b \in Seq(E), NEW c \in Seq(E)
    PROVE  LET q == a \o b \o c IN
           /\ q \in Seq(E) /\ Len(q) = Len(a) + Len(b) + Len(c)
           /\ SubSeq(q, 1, Len(a)) = a
           /\ SubSeq(q, Len(a) + Len(b) + 1, Len(q)) = c
<1> DEFINE q == a \o b \o c
           ends == SubSeq(q, Len(a) + Len(b) + 1, Len(q))
<1>1. /\ Len(a) \in Nat /\ Len(b) \in Nat /\ Len(c) \in Nat
      /\ a \o b \in Seq(E) /\ Len(a \o b) = Len(a) + Len(b)
      /\ \A i \in 1 .. Len(a) : (a \o b)[i] = a[i]
  BY ConcatProperties
<1>2. /\ q \in Seq(E) /\ Len(q) = Len(a) + Len(b) + Len(c)
      /\ \A i \in 1 .. Len(a) : q[i] = a[i]
      /\ \A i \in 1 .. Len(c) : q[Len(a) + Len(b) + i] = c[i]
  <2>1. /\ q \in Seq(E) /\ Len(q) = Len(a \o b) + Len(c)
        /\ \A i \in 1 .. Len(a \o b) + Len(c) :
              q[i] = IF i <= Len(a \o b) THEN (a \o b)[i] ELSE c[i - Len(a \o b)]
    BY <1>1, ConcatProperties
  <2> HIDE DEF q
  <2> QED
    BY <1>1, <2>1
<1> HIDE DEF q
<1>3. SubSeq(q, 1, Len(a)) = a
  <2>1. \A i \in 1 .. Len(a) : q[i] \in E
    BY <1>1, <1>2
  <2>2. /\ SubSeq(q, 1, Len(a)) \in Seq(E) /\ Len(SubSeq(q, 1, Len(a))) = Len(a)
        /\ \A i \in 1 .. Len(a) : SubSeq(q, 1, Len(a))[i] = q[i]
    BY <1>1, <2>1, SubSeqProperties
  <2> QED
    BY <1>2, <2>2, SeqEqual
<1>4. ends = c
  <2>1. \A i \in Len(a) + Len(b) + 1 .. Len(q) : q[i] \in E
    BY <1>1, <1>2
  <2>2. /\ ends \in Seq(E) /\ Len(ends) = Len(c)
        /\ \A i \in 1 .. Len(c) : ends[i] = q[Len(a) + Len(b) + i]
    BY <1>1, <1>2, <2>1, SubSeqProperties
  <2> HIDE DEF ends
  <2> QED
    BY <1>2, <2>2, SeqEqual
<1> QED
  BY <1>2, <1>3, <1>4 DEF q, ends

LEMMA PutIsStep ==
    ASSUME TypeOK, NEW e \in Events, Put(e) PROVE PortStep
<1>1. CASE Len(tx_queue) < Slots
  <2>1. UNCHANGED <<Flat, taken, enabled>> /\ tx_queue' = Append(tx_queue, e)
    BY <1>1 DEF Put, Flat, port
  <2>2. Flat \o taken \in Seq(Events) /\ tx_queue \in Seq(Events)
    BY FlattenIn, ConcatProperties DEF TypeOK, Flat
  <2>3. \A q, r \in Seq(Events) : q \o Append(r, e) = Append(q \o r, e)
    <3> SUFFICES ASSUME NEW q \in Seq(Events), NEW r \in Seq(Events)
                 PROVE  q \o Append(r, e) = Append(q \o r, e)
      OBVIOUS
    <3>1. /\ <<e>> \in Seq(Events) /\ q \o r \in Seq(Events)
          /\ Append(r, e) = r \o <<e>> /\ Append(q \o r, e) = (q \o r) \o <<e>>
      BY AppendIsConcat, ConcatProperties
    <3> QED
      BY <3>1, ConcatAssociative
  <2>4. Queue' = Append(Queue, e)
    BY <2>1, <2>2, <2>3 DEF Queue
  <2> QED
    BY <2>1, <2>4 DEF PortStep, PORT!Next, PORT!Accept, Queue, Flat
<1>2. CASE ~(Len(tx_queue) < Slots)
  BY <1>2 DEF Put, port, PortStep, Queue, Flat
<1> QED
  BY <1>1, <1>2

\* Filling a buffer, and handing it over, moves events and keeps their order.
LEMMA MovesKeepQueue ==
    ASSUME TypeOK, WorkTake \/ WorkEnqueue PROVE PortStep
<1>1. Flat \in Seq(Events) /\ taken \in Seq(Events) /\ tx_queue \in Seq(Events)
      /\ Flat \o taken \in Seq(Events)
  BY FlattenIn, ConcatProperties DEF TypeOK, Flat
<1>2. CASE WorkTake
  <2>1. /\ taken = <<>> /\ taken' = tx_queue /\ tx_queue' = <<>>
        /\ UNCHANGED <<Flat, enabled>>
    BY <1>2 DEF WorkTake, port, Flat
  <2>2. Queue' = Queue
    <3>1. Flat \o <<>> = Flat /\ (Flat \o tx_queue) \o <<>> = Flat \o tx_queue
      BY <1>1, ConcatEmptySeq, ConcatProperties
    <3> QED
      BY <2>1, <3>1 DEF Queue
  <2> QED
    BY <2>1, <2>2 DEF PortStep
<1>3. CASE WorkEnqueue
  <2>1. /\ sending' = Append(sending, taken) /\ taken' = <<>>
        /\ UNCHANGED <<tx_queue, enabled>>
    BY <1>3 DEF WorkEnqueue, port
  <2>2. Flat' = Flat \o taken
    BY <1>1, <2>1, FlattenOfAppend DEF TypeOK, Flat
  <2>3. Queue' = Queue
    <3>1. (Flat \o taken) \o <<>> = Flat \o taken
      BY <1>1, ConcatEmptySeq
    <3> QED
      BY <2>1, <2>2, <3>1 DEF Queue
  <2> QED
    BY <2>1, <2>3 DEF PortStep
<1> QED
  BY <1>2, <1>3

LEMMA RefusalIsLoss ==
    ASSUME TypeOK, WorkRefused PROVE PortStep
<1>1. Flat \in Seq(Events) /\ taken \in Seq(Events) /\ tx_queue \in Seq(Events)
  BY FlattenIn DEF TypeOK, Flat
<1>2. /\ taken # <<>> /\ ~enabled /\ taken' = <<>>
      /\ UNCHANGED <<Flat, tx_queue, enabled>>
  BY DEF WorkRefused, port, Flat
<1> DEFINE i == Len(Flat)
           n == Len(taken)
<1>3. /\ SubSeq(Queue, 1, i) = Flat
      /\ SubSeq(Queue, i + n + 1, Len(Queue)) = tx_queue
      /\ Len(Queue) = i + n + Len(tx_queue)
  BY <1>1, Cut DEF Queue
<1>4. Queue' = Flat \o tx_queue
  BY <1>1, <1>2, ConcatEmptySeq DEF Queue
<1>5. i \in 0 .. Len(Queue) /\ n \in 1 .. Len(Queue) /\ i + n <= Len(Queue)
  <2>1. i \in Nat /\ n \in Nat \ {0} /\ Len(tx_queue) \in Nat
    BY <1>1, <1>2
  <2> QED
    BY <1>3, <2>1
<1>6. PORT!Lose(i, n)
  BY <1>2, <1>3, <1>4 DEF PORT!Lose, Queue, Flat
<1> HIDE DEF i, n
<1> QED
  BY <1>5, <1>6 DEF PortStep, PORT!Next, Queue, Flat

\* The transfer that completes is the oldest, and its events are the first.
LEMMA CompletionIsStep ==
    ASSUME TypeOK, InDone \/ InAborted PROVE PortStep
<1> DEFINE h == Head(sending)
           t == FlattenSeq(Tail(sending))
           r == t \o taken \o tx_queue
           n == Len(h)
<1>1. /\ sending # <<>> /\ sending' = Tail(sending)
      /\ UNCHANGED <<taken, tx_queue, enabled>>
  BY DEF InDone, InAborted, InRequest, port
<1>2. /\ h \in Seq(Events) /\ t \in Seq(Events) /\ r \in Seq(Events)
      /\ taken \in Seq(Events) /\ tx_queue \in Seq(Events) /\ t \o taken \in Seq(Events)
  <2>1. h \in Seq(Events) /\ Tail(sending) \in Seq(Seq(Events))
    BY <1>1, HeadTailProperties DEF TypeOK
  <2>2. taken \in Seq(Events) /\ tx_queue \in Seq(Events)
    BY DEF TypeOK
  <2>3. t \in Seq(Events)
    BY <2>1, FlattenIn
  <2> HIDE DEF h, t
  <2> QED
    BY <2>1, <2>2, <2>3, ConcatProperties
<1>3. Queue = h \o r
  <2>1. Flat = h \o t
    BY <1>1, FlattenOfHead DEF TypeOK, Flat
  <2> HIDE DEF h, t
  <2>2. ((h \o t) \o taken) \o tx_queue = h \o ((t \o taken) \o tx_queue)
    <3>1. (h \o t) \o taken = h \o (t \o taken)
      BY <1>2, ConcatAssociative
    <3>2. (h \o (t \o taken)) \o tx_queue = h \o ((t \o taken) \o tx_queue)
      BY <1>2, ConcatAssociative
    <3> QED
      BY <3>1, <3>2
  <2> QED
    BY <2>1, <2>2 DEF Queue
<1>4. Queue' = r
  BY <1>1 DEF Queue, Flat
<1> HIDE DEF h, t, r
<1>5. /\ Queue = <<>> \o h \o r /\ Len(<<>>) = 0 /\ <<>> \in Seq(Events)
      /\ n \in Nat /\ Len(r) \in Nat
  BY <1>2, <1>3, ConcatEmptySeq
<1>6. /\ Len(Queue) = n + Len(r)
      /\ SubSeq(Queue, 1, 0) = <<>>
      /\ SubSeq(Queue, n + 1, Len(Queue)) = r
  <2>1. /\ Len(Queue) = Len(<<>>) + Len(h) + Len(r)
        /\ SubSeq(Queue, 1, Len(<<>>)) = <<>>
        /\ SubSeq(Queue, Len(<<>>) + Len(h) + 1, Len(Queue)) = r
    BY <1>2, <1>5, Cut
  <2> QED
    BY <1>5, <2>1
<1>7. CASE n = 0
  <2>1. h = <<>>
    BY <1>2, <1>7, EmptySeq
  <2>2. Queue' = Queue
    BY <1>2, <1>3, <1>4, <2>1, ConcatEmptySeq
  <2> QED
    BY <1>1, <2>2 DEF PortStep
<1>8. CASE n # 0
  <2>1. n \in 1 .. Len(Queue) /\ 0 \in 0 .. Len(Queue) /\ 0 + n <= Len(Queue)
    BY <1>5, <1>6, <1>8
  <2>2. CASE enabled
    <3>1. PORT!Deliver(n)
      BY <1>1, <1>4, <1>6, <2>2 DEF PORT!Deliver, Queue, Flat
    <3> HIDE DEF n
    <3> QED
      BY <2>1, <3>1 DEF PortStep, PORT!Next, Queue, Flat
  <2>3. CASE ~enabled
    <3>1. <<>> \o r = r /\ 0 + n + 1 = n + 1
      BY <1>2, <1>5, ConcatEmptySeq
    <3>2. PORT!Lose(0, n)
      BY <1>1, <1>4, <1>6, <2>3, <3>1 DEF PORT!Lose, Queue, Flat
    <3> HIDE DEF n
    <3> QED
      BY <2>1, <3>2 DEF PortStep, PORT!Next, Queue, Flat
  <2> QED
    BY <2>2, <2>3
<1> QED
  BY <1>7, <1>8

\* The USB-MIDI function is the port of MidiPort: however the loop, the work item
\* and the class callbacks cut into each other, events reach the host in order and
\* once, and only while the port is down may any be lost.
THEOREM PortRefined == Spec => ImplementsMidiPort
<1>1. Init => PORT!Init
  <2> SUFFICES ASSUME Init PROVE PORT!Init
    OBVIOUS
  <2>1. <<>> \o <<>> \o <<>> = <<>>
    OBVIOUS
  <2> QED
    BY <2>1, FlattenOfNone DEF Init, PORT!Init
<1>2. TypeOK /\ [Next]_vars => [PORT!Next]_<<Queue, enabled>>
  <2> SUFFICES ASSUME TypeOK, [Next]_vars PROVE PortStep
    BY DEF PortStep
  <2>1. CASE Enable \/ Disable \/ Suspended \/ Resumed
    <3>1. UNCHANGED Queue /\ enabled \in BOOLEAN /\ enabled' \in BOOLEAN
      BY <2>1 DEF Enable, Disable, Suspended, Resumed, Queue, Flat, TypeOK
    <3>2. enabled' = enabled \/ enabled' = ~enabled
      BY <3>1
    <3> QED
      BY <3>1, <3>2 DEF PortStep, PORT!Next, PORT!UpOrDown, Queue, Flat
  <2>2. CASE Send \/ Kick \/ WorkSkip \/ OutDone \/ OutEnded \/ UNCHANGED vars
    BY <2>2 DEF Send, Kick, WorkSkip, OutDone, OutEnded, vars, port, PortStep, Queue, Flat
  <2> QED
    BY <2>1, <2>2, PutIsStep, MovesKeepQueue, RefusalIsLoss, CompletionIsStep
       DEF Next, Offer, Host, Deliver
<1>3. PORT!Spec <=> PORT!Init /\ [][PORT!Next]_<<Queue, enabled>>
  BY DEF PORT!Spec, PORT!vars, Queue, Flat
<1> QED
  BY TypeCorrect, <1>1, <1>2, <1>3, PTL DEF Spec, ImplementsMidiPort
=============================================================================
