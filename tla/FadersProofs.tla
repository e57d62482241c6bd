---------------------------- MODULE FadersProofs ----------------------------
(***************************************************************************)
(* Proofs about a fader, for every number of layers, every set of profiles *)
(* and their roles, and every position and noise that the ADC can read.    *)
(***************************************************************************)
EXTENDS Faders, SequenceTheorems, TLAPS

Edges == [idx : ButtonIds, pressed : BOOLEAN]

-----------------------------------------------------------------------------
(* The arithmetic of a reading.                                            *)

LEMMA SagTyped ==
    ASSUME NEW p \in Nat, NEW class \in 0 .. 2
    PROVE  (p * Sag(class)) \div 1000 \in Nat
<1>1. p * Sag(class) \in Nat
  <2>1. CASE class = 0
    BY <2>1 DEF Sag
  <2>2. CASE class = 1
    BY <2>2 DEF Sag
  <2>3. CASE class = 2
    BY <2>3 DEF Sag
  <2> QED
    BY <2>1, <2>2, <2>3
<1>2. \A x \in Nat : x \div 1000 \in Nat
  OBVIOUS
<1> QED
  BY <1>1, <1>2

LEMMA CodeIsNat == \A c : c \in Code <=> c \in Nat /\ c <= 4095
<1>1. CodeMax \in Nat
  BY DEF CodeMax
<1>2. \A c : c \in Code <=> c \in Nat /\ c <= CodeMax
  BY <1>1 DEF Code
<1>3. CodeMax = 4095
  BY DEF CodeMax
<1> QED
  BY <1>2, <1>3

\* The world stays within the converter's range.
LEMMA ReadTyped ==
    ASSUME NEW p \in Code, NEW off \in -15 .. 15, NEW class \in 0 .. 2
    PROVE  Read(p, off, class) \in Code
<1> DEFINE sagged == p - (p * Sag(class)) \div 1000 + off
<1>1. sagged \in Int
  BY SagTyped, CodeIsNat
<1> HIDE DEF sagged
<1>2. (IF sagged < 0 THEN 0 ELSE Lower(sagged, 4095)) \in Code
  BY <1>1, CodeIsNat DEF Lower
<1> QED
  BY <1>2 DEF Read, sagged

LEMMA CompensatedTyped ==
    ASSUME NEW raw \in Code, NEW class \in 0 .. 2
    PROVE  Compensated(raw, class) \in Code
<1> DEFINE d == (raw * Sag(class)) \div 1000
<1>1. d \in Nat
  BY SagTyped, CodeIsNat
<1> HIDE DEF d
<1>2. Lower(raw + d, 4095) \in Code
  BY <1>1, CodeIsNat DEF Lower
<1> QED
  BY <1>2 DEF Compensated, d

\* A CC is a CC for every reading the converter can give.
LEMMA CcTyped == ASSUME NEW raw \in Code PROVE RawToCc(raw) \in 0 .. 127
BY DEF Code, RawToCc, FADER_RAW_MIN, FADER_RAW_MAX

\* With no button pressed a reading is what the fader gives.
LEMMA BareReading ==
    ASSUME NEW p \in Code, NEW off \in -15 .. 15, p + off >= FADER_RAW_MAX
    PROVE  LET raw == Compensated(Read(p, off, 0), 0)
           IN  raw >= FADER_RAW_MAX /\ RawToCc(raw) = 127
<1> DEFINE raw == Compensated(Read(p, off, 0), 0)
<1>1. Read(p, off, 0) = Lower(p + off, 4095)
  <2>1. (p * Sag(0)) \div 1000 = 0
    BY DEF Sag, Code
  <2> QED
    BY <2>1 DEF Read, Code, FADER_RAW_MAX
<1>2. Read(p, off, 0) \in FADER_RAW_MAX .. 4095
  BY <1>1 DEF Lower, Code, FADER_RAW_MAX
<1>3. raw = Read(p, off, 0)
  <2> DEFINE x == Read(p, off, 0)
  <2>1. x \in FADER_RAW_MAX .. 4095
    BY <1>2
  <2> HIDE DEF x
  <2>2. (x * Sag(0)) \div 1000 = 0
    BY <2>1 DEF Sag, FADER_RAW_MAX
  <2>3. Compensated(x, 0) = x
    BY <2>1, <2>2 DEF Compensated, Lower, FADER_RAW_MAX
  <2> QED
    BY <2>3 DEF x
<1>4. raw >= FADER_RAW_MAX
  BY <1>2, <1>3 DEF FADER_RAW_MAX
<1> HIDE DEF raw
<1>5. RawToCc(raw) = 127
  BY <1>2, <1>3, <1>4 DEF RawToCc, FADER_RAW_MAX, FADER_RAW_MIN
<1> QED
  BY <1>4, <1>5 DEF raw

\* What the fader waits for is part of what it was given to wait for.
LEMMA WaitingIsPart == ASSUME NEW c, NEW phys PROVE Waiting(c, phys) \subseteq c
BY DEF Waiting

-----------------------------------------------------------------------------
(* A reading, by what it does to the takeover.                             *)

RawAt(off, load) == Compensated(Read(pos, off, load), rail)
LastSent == IF arm THEN {} ELSE sent
WaitsAt(raw) == Waiting(IF arm THEN Armed(RawToCc(raw)) ELSE catch, RawToCc(raw))
SendsAt(raw) == WaitsAt(raw) = {} /\ Speaks(LastSent, raw, rail)

Reads(raw) ==
    /\ catch' = WaitsAt(raw)
    /\ sent' = IF SendsAt(raw) THEN {raw} ELSE LastSent
    /\ memory' = IF SendsAt(raw) /\ Role(last_active) # "bpm"
                 THEN [memory EXCEPT ![layer_now] = {[cc |-> RawToCc(raw), from |-> slot]}]
                 ELSE memory
    /\ missed' = (missed /\ WaitsAt(raw) # {})
    /\ heard' = (heard \/ SendsAt(raw))
    /\ strayed' = (strayed \/ slot # last_active)

Counts(raw, load) ==
    said' = IF load # rail THEN 0 ELSE IF SendsAt(raw) /\ said < 3 THEN said + 1 ELSE said

LEMMA ReadingAt ==
    ASSUME NEW load \in 0 .. 2, ReadAt(load)
    PROVE  \E off \in Noise : Reads(RawAt(off, load)) /\ Counts(RawAt(off, load), load)
BY DEF ReadAt, Reads, Counts, RawAt, LastSent, WaitsAt, SendsAt

\* Whatever the load, a reading is one of the converter's.
LEMMA Reading ==
    ASSUME TypeOK, ReadFader
    PROVE  \E raw \in Code : Reads(raw) /\ \E load \in 0 .. 2 : Counts(raw, load)
<1>1. PICK load \in 0 .. 2 : ReadAt(load)
  BY DEF ReadFader
<1>2. PICK off \in Noise : Reads(RawAt(off, load)) /\ Counts(RawAt(off, load), load)
  BY <1>1, ReadingAt
<1>3. pos \in Code /\ off \in -15 .. 15 /\ rail \in 0 .. 2
  BY FadersAssumption DEF TypeOK
<1>4. RawAt(off, load) \in Code
  BY <1>3, ReadTyped, CompensatedTyped DEF RawAt
<1> QED
  BY <1>2, <1>4

\* What a reading leaves alone.
LEMMA ReadingKeeps ==
    ReadFader =>
      /\ pc = "fader" /\ arm' = FALSE /\ EndTick
      /\ UNCHANGED <<pos, slot, last_active, layer, vol, evt, settle, prev>>
BY DEF ReadFader, ReadAt

-----------------------------------------------------------------------------
(* Types.                                                                  *)

LEMMA VolTyped == ASSUME NEW v \in Code PROVE DecodeVol(v) \in MaybeButton
BY CodeIsNat DEF DecodeVol, MaybeButton, ButtonIds, NoButton, VolUp, VolDown, Fwd, Rwd

LEMMA DebouncedTyped ==
    ASSUME NEW d \in Debouncer, NEW raw \in MaybeButton
    PROVE  Debounced(d, raw) \in Debouncer
<1>1. /\ d.committed \in MaybeButton /\ d.cand \in MaybeButton
      /\ d.cnt \in 0 .. 2
      /\ d = [committed |-> d.committed, cand |-> d.cand, cnt |-> d.cnt]
  BY DEF Debouncer
<1>2. CASE raw = d.committed
  <2>1. Debounced(d, raw) = [committed |-> d.committed, cand |-> d.cand, cnt |-> 0]
    BY <1>1, <1>2 DEF Debounced
  <2> QED
    BY <1>1, <2>1 DEF Debouncer
<1>3. CASE raw # d.committed /\ raw = d.cand /\ d.cnt = 2
  <2>1. Debounced(d, raw) = [committed |-> raw, cand |-> d.cand, cnt |-> 0]
    BY <1>1, <1>3 DEF Debounced
  <2> QED
    BY <1>1, <2>1 DEF Debouncer
<1>4. CASE raw # d.committed /\ raw = d.cand /\ d.cnt # 2
  <2>1. Debounced(d, raw) = [committed |-> d.committed, cand |-> d.cand, cnt |-> d.cnt + 1]
    BY <1>1, <1>4 DEF Debounced
  <2> QED
    BY <1>1, <1>4, <2>1 DEF Debouncer
<1>5. CASE raw # d.committed /\ raw # d.cand
  <2>1. Debounced(d, raw) = [committed |-> d.committed, cand |-> raw, cnt |-> 1]
    BY <1>1, <1>5 DEF Debounced
  <2> QED
    BY <1>1, <2>1 DEF Debouncer
<1> QED
  BY <1>2, <1>3, <1>4, <1>5

LEMMA LadderEdgesTyped ==
    ASSUME NEW old \in MaybeButton, NEW new \in MaybeButton
    PROVE  LadderEdges(old, new) \in Seq(Edges)
<1>1. old # NoButton => <<[idx |-> old, pressed |-> FALSE]>> \in Seq(Edges)
  BY DEF Edges, MaybeButton
<1>2. new # NoButton => <<[idx |-> new, pressed |-> TRUE]>> \in Seq(Edges)
  BY DEF Edges, MaybeButton
<1>3. <<>> \in Seq(Edges)
  OBVIOUS
<1> QED
  BY <1>1, <1>2, <1>3, ConcatProperties DEF LadderEdges

LEMMA TailTyped ==
    ASSUME NEW es \in Seq(Edges), es # <<>>
    PROVE  Tail(es) \in Seq(Edges) /\ Head(es) \in Edges
BY HeadTailProperties

\* The parts of the state that a tick's steps change apart from each other.
PlaceOK == pc \in {"poll", "detect", "scan", "route", "fader"}
HandOK == pos \in Positions /\ slot \in Slots /\ last_active \in Slots
LayerOK == layer \in LayerIds /\ layer_now \in LayerIds
ScanOK == vol \in Debouncer /\ evt \in Seq(Edges)
RailOK == rail \in 0 .. 2 /\ settle \in 0 .. SettleTicks /\ prev \in BOOLEAN
FaderOK ==
    /\ sent \subseteq Code /\ catch \subseteq Catches /\ arm \in BOOLEAN
    /\ \A l \in LayerIds : memory[l] \subseteq Values
AuxOK ==
    /\ said \in 0 .. 3 /\ heard \in BOOLEAN /\ strayed \in BOOLEAN /\ missed \in BOOLEAN

LEMMA Parts == TypeOK <=> PlaceOK /\ HandOK /\ LayerOK /\ ScanOK /\ RailOK /\ FaderOK /\ AuxOK
BY DEF TypeOK, PlaceOK, HandOK, LayerOK, ScanOK, RailOK, FaderOK, AuxOK, Edges

LEMMA InitTypeOK == Init => TypeOK
<1> SUFFICES ASSUME Init PROVE TypeOK
  OBVIOUS
<1>1. 0 \in LayerIds
  BY FadersAssumption DEF LayerIds
<1>2. Settled \in Debouncer /\ <<>> \in Seq(Edges)
  BY DEF Settled, Debouncer, MaybeButton
<1>3. PlaceOK /\ HandOK /\ LayerOK
  BY <1>1 DEF Init, PlaceOK, HandOK, LayerOK
<1>4. ScanOK
  BY <1>2 DEF Init, ScanOK
<1>8. 0 \in 0 .. 2 /\ 0 \in 0 .. SettleTicks /\ 0 \in 0 .. 3
  BY DEF SettleTicks
<1>5. RailOK
  BY <1>8, Zenon DEF Init, RailOK
<1>7. AuxOK
  BY <1>8, Zenon DEF Init, AuxOK
<1>6. FaderOK
  BY DEF Init, FaderOK
<1> QED
  BY <1>3, <1>4, <1>5, <1>6, <1>7, Parts

\* A reading keeps what a fader knows within range.
LEMMA ReadingTyped ==
    ASSUME TypeOK, ReadFader
    PROVE  FaderOK' /\ AuxOK'
<1>1. PICK raw \in Code : Reads(raw) /\ \E load \in 0 .. 2 : Counts(raw, load)
  BY Reading
<1>4. RawToCc(raw) \in 0 .. 127
  BY CcTyped
<1>5. Armed(RawToCc(raw)) \subseteq Catches
  <2>1. layer_now \in 0 .. Layers - 1 /\ memory[layer_now] \subseteq Values
    BY DEF TypeOK, LayerIds
  <2>2. ASSUME NEW m \in Values PROVE m.cc \in 0 .. 127 /\ m.from \in Slots
    BY DEF Values
  <2>4. layer_now \in 0 .. Layers - 1
    BY <2>1
  <2>5. ASSUME NEW m \in memory[layer_now]
        PROVE  [cc |-> m.cc, from |-> m.from, above |-> RawToCc(raw) > m.cc, on |-> layer_now]
                  \in Catches
    <3>1. m.cc \in 0 .. 127 /\ m.from \in Slots
      BY <2>1, <2>2
    <3>2. (RawToCc(raw) > m.cc) \in BOOLEAN
      OBVIOUS
    <3> QED
      BY <2>4, <3>1, <3>2, Zenon DEF Catches
  <2> QED
    BY <2>5, Zenon DEF Armed
<1>6. catch' \subseteq Catches
  <2>1. (IF arm THEN Armed(RawToCc(raw)) ELSE catch) \subseteq Catches
    BY <1>5 DEF TypeOK
  <2> QED
    BY <1>1, <2>1, WaitingIsPart DEF Reads, WaitsAt
<1>7. sent' \subseteq Code
  BY <1>1 DEF Reads, LastSent, TypeOK
<1>8. \A l \in LayerIds : memory'[l] \subseteq Values
  <2>1. CASE SendsAt(raw) /\ Role(last_active) # "bpm"
    <3>1. memory' = [memory EXCEPT ![layer_now] = {[cc |-> RawToCc(raw), from |-> slot]}]
      BY <1>1, <2>1 DEF Reads
    <3>2. [cc |-> RawToCc(raw), from |-> slot] \in Values
      BY <1>4 DEF Values, TypeOK
    <3>3. ASSUME NEW l \in LayerIds
          PROVE  memory'[l] \subseteq memory[l] \cup {[cc |-> RawToCc(raw), from |-> slot]}
      BY <3>1
    <3> QED
      BY <3>2, <3>3 DEF TypeOK
  <2>2. CASE ~(SendsAt(raw) /\ Role(last_active) # "bpm")
    BY <1>1, <2>2 DEF Reads, TypeOK
  <2> QED
    BY <2>1, <2>2
<1>9. arm' \in BOOLEAN
  BY ReadingKeeps
<1>10. said' \in 0 .. 3
  BY <1>1 DEF Counts, TypeOK
<1>11. heard' \in BOOLEAN /\ strayed' \in BOOLEAN /\ missed' \in BOOLEAN
  BY <1>1 DEF Reads
<1> QED
  BY <1>6, <1>7, <1>8, <1>9, <1>10, <1>11 DEF FaderOK, AuxOK

LEMMA StepTypeOK == TypeOK /\ [Next]_vars => TypeOK'
<1> SUFFICES ASSUME TypeOK, [Next]_vars PROVE TypeOK'
  OBVIOUS
<1>p. PlaceOK /\ HandOK /\ LayerOK /\ ScanOK /\ RailOK /\ FaderOK /\ AuxOK
  BY Parts
<1>z. 0 \in LayerIds
  BY FadersAssumption DEF LayerIds
<1>f. Forgotten => FaderOK' /\ AuxOK'
  <2>1. Forgotten => FaderOK'
    BY DEF Forgotten, FaderOK
  <2>2. Forgotten => AuxOK'
    <3>1. 0 \in 0 .. 3
      OBVIOUS
    <3> QED
      BY <3>1, Zenon DEF Forgotten, AuxOK
  <2> QED
    BY <2>1, <2>2
<1> USE DEF scanning, fader, aux
<1> SUFFICES PlaceOK' /\ HandOK' /\ LayerOK' /\ ScanOK' /\ RailOK' /\ FaderOK' /\ AuxOK'
  BY Parts DEF TypeOK, PlaceOK, HandOK, LayerOK, ScanOK, RailOK, FaderOK, AuxOK, Edges
<1>1. CASE Move
  BY <1>1, <1>p DEF Move, PlaceOK, HandOK, LayerOK, ScanOK, RailOK, FaderOK, AuxOK
<1>2. CASE Poll
  BY <1>2, <1>p DEF Poll, PlaceOK, HandOK, LayerOK, ScanOK, RailOK, FaderOK, AuxOK
<1>3. CASE Detect
  <2>1. FaderOK' /\ AuxOK'
    BY <1>3, <1>p, <1>f DEF Detect, FaderOK, AuxOK
  <2> QED
    BY <1>3, <1>p, <2>1 DEF Detect, PlaceOK, HandOK, LayerOK, ScanOK, RailOK
<1>4. CASE ScanTick
  <2>1. PICK code \in VolCodes, other \in 0 .. 2 :
           /\ vol' = Debounced(vol, DecodeVol(code))
           /\ rail' = IF other > RailClass(0, code) THEN other ELSE RailClass(0, code)
    BY <1>4 DEF ScanTick
  <2>2. code \in Code
    BY FadersAssumption
  <2>3. vol' \in Debouncer
    BY <1>p, <2>1, <2>2, VolTyped, DebouncedTyped DEF ScanOK
  <2>4. evt' \in Seq(Edges)
    <3>1. vol.committed \in MaybeButton /\ vol'.committed \in MaybeButton
      BY <1>p, <2>3 DEF ScanOK, Debouncer
    <3> QED
      BY <1>4, <3>1, LadderEdgesTyped DEF ScanTick
  <2>5. rail' \in 0 .. 2
    <3>1. RailClass(0, code) \in 0 .. 2
      BY <2>2, CodeIsNat DEF RailClass
    <3> QED
      BY <2>1, <3>1
  <2> QED
    BY <1>4, <1>p, <2>3, <2>4, <2>5
       DEF ScanTick, PlaceOK, HandOK, LayerOK, ScanOK, RailOK, FaderOK, AuxOK
<1>5. CASE RouteOther
  <2>1. evt' \in Seq(Edges)
    BY <1>5, <1>p, TailTyped DEF RouteOther, ScanOK
  <2> QED
    BY <1>5, <1>p, <2>1 DEF RouteOther, PlaceOK, HandOK, LayerOK, ScanOK, RailOK, FaderOK, AuxOK
<1>6. CASE RouteLayer
  <2>1. evt' \in Seq(Edges)
    BY <1>6, <1>p, TailTyped DEF RouteLayer, ScanOK
  <2>2. layer' \in LayerIds
    <3>1. PICK n \in Nat : layer' = n % Layers
      <4>1. layer + 1 \in Nat /\ layer + (Layers - 1) \in Nat
        BY <1>p, FadersAssumption DEF LayerOK, LayerIds
      <4> QED
        BY <1>6, <4>1 DEF RouteLayer
    <3> QED
      BY <3>1, FadersAssumption DEF LayerIds
  <2>3. FaderOK'
    BY <1>6, <1>p DEF RouteLayer, FaderOK
  <2>4. AuxOK'
    <3>1. 0 \in 0 .. 3
      OBVIOUS
    <3> QED
      BY <1>6, <1>p, <3>1, Zenon DEF RouteLayer, AuxOK
  <2> QED
    BY <1>6, <1>p, <2>1, <2>2, <2>3, <2>4 DEF RouteLayer, PlaceOK, HandOK, LayerOK, ScanOK, RailOK
<1>7. CASE RouteProfile
  <2>1. evt' \in Seq(Edges)
    BY <1>7, <1>p, TailTyped DEF RouteProfile, ScanOK
  <2> QED
    BY <1>7, <1>p, <2>1 DEF RouteProfile, PlaceOK, HandOK, LayerOK, ScanOK, RailOK, FaderOK, AuxOK
<1>8. CASE RouteMode
  BY <1>8, <1>p, <1>f DEF RouteMode, PlaceOK, HandOK, LayerOK, ScanOK, RailOK
<1>9. CASE Skip
  <2>1. PICK now \in 0 .. 2 :
          LET load == IF now > rail THEN now ELSE rail
          IN  /\ settle' = Settling(load > 0, prev, settle)
              /\ prev' = (load > 0)
              /\ IF settle' = 0
                 THEN pc' = "fader" /\ rail' = load /\ UNCHANGED layer_now
                 ELSE EndTick
    BY <1>9 DEF Skip
  <2>2. settle' \in 0 .. SettleTicks /\ rail' \in 0 .. 2
    BY <1>p, <2>1 DEF RailOK, Settling, SettleTicks, EndTick
  <2>3. prev' \in BOOLEAN
    BY <2>1
  <2>4. layer_now' \in LayerIds /\ pc' \in {"fader", "poll"}
    BY <1>p, <1>z, <2>1 DEF LayerOK, EndTick
  <2> QED
    BY <1>9, <1>p, <2>2, <2>3, <2>4
       DEF Skip, PlaceOK, HandOK, LayerOK, ScanOK, RailOK, FaderOK, AuxOK
<1>10. CASE ReadFails
  BY <1>10, <1>p, <1>z
     DEF ReadFails, EndTick, PlaceOK, HandOK, LayerOK, ScanOK, RailOK, FaderOK, AuxOK
<1>11. CASE ReadFader
  <2>1. FaderOK' /\ AuxOK'
    BY <1>11, ReadingTyped
  <2> QED
    BY <1>11, <1>p, <1>z, <2>1, ReadingKeeps
       DEF EndTick, PlaceOK, HandOK, LayerOK, ScanOK, RailOK
<1>12. CASE UNCHANGED vars
  BY <1>12, <1>p DEF vars, PlaceOK, HandOK, LayerOK, ScanOK, RailOK, FaderOK, AuxOK
<1> QED
  BY <1>1, <1>2, <1>3, <1>4, <1>5, <1>6, <1>7, <1>8, <1>9, <1>10, <1>11, <1>12 DEF Next

\* Every reading, compensated and quantised, is a CC in range, and the layer
\* stays one of the layers in both directions.
THEOREM TypeCorrect == Spec => []TypeOK
BY InitTypeOK, StepTypeOK, PTL DEF Spec

-----------------------------------------------------------------------------
(* What a step does to the fader: nothing, it is forgotten, its takeover   *)
(* is armed, or it is read.                                                *)

LEMMA FaderSteps ==
    ASSUME [Next]_vars
    PROVE  \/ UNCHANGED <<sent, catch, memory, heard, strayed>> /\ UNCHANGED last_active
           \/ Forgotten
           \/ ReadFader
<1> USE DEF scanning, fader, aux
<1>1. CASE Move \/ Poll
  BY <1>1 DEF Move, Poll
<1>2. CASE Detect
  BY <1>2 DEF Detect
<1>3. CASE ScanTick \/ RouteOther \/ RouteLayer \/ RouteProfile
  BY <1>3 DEF ScanTick, RouteOther, RouteLayer, RouteProfile
<1>4. CASE RouteMode
  BY <1>4 DEF RouteMode
<1>5. CASE Skip
  BY <1>5 DEF Skip
<1>6. CASE ReadFails
  BY <1>6 DEF ReadFails
<1>7. CASE UNCHANGED vars
  BY <1>7 DEF vars
<1> QED
  BY <1>1, <1>2, <1>3, <1>4, <1>5, <1>6, <1>7 DEF Next

-----------------------------------------------------------------------------
(* A new profile.                                                          *)

\* Until it is heard again, a re-armed fader has nothing that holds it back.
NothingHolds == ~heard => sent = {} /\ catch = {} /\ \A l \in LayerIds : memory[l] = {}

LEMMA StepNothing == TypeOK /\ NothingHolds /\ [Next]_vars => NothingHolds' /\ (ReadFader => heard')
<1> SUFFICES ASSUME TypeOK, NothingHolds, [Next]_vars PROVE NothingHolds' /\ (ReadFader => heard')
  OBVIOUS
<1>1. CASE ReadFader
  <2>1. PICK raw \in Code : Reads(raw)
    BY <1>1, Reading
  <2>2. CASE heard
    BY <2>1, <2>2 DEF Reads, NothingHolds
  <2>3. CASE ~heard
    <3>1. sent = {} /\ catch = {} /\ memory[layer_now] = {}
      BY <2>3 DEF NothingHolds, TypeOK
    <3>2. LastSent = {} /\ Armed(RawToCc(raw)) = {}
      BY <3>1 DEF LastSent, Armed
    <3>3. WaitsAt(raw) = {}
      BY <3>1, <3>2, WaitingIsPart DEF WaitsAt
    <3>4. Speaks(LastSent, raw, rail)
      BY <3>2 DEF Speaks
    <3>5. SendsAt(raw)
      BY <3>3, <3>4 DEF SendsAt
    <3> QED
      BY <2>1, <3>5 DEF Reads, NothingHolds
  <2> QED
    BY <2>2, <2>3
<1>2. CASE Forgotten /\ ~ReadFader
  BY <1>2 DEF Forgotten, NothingHolds
<1>3. CASE UNCHANGED <<sent, catch, memory, heard, strayed>> /\ ~ReadFader
  BY <1>3 DEF NothingHolds
<1> QED
  BY <1>1, <1>2, <1>3, FaderSteps

LEMMA AlwaysNothing == Spec => [](TypeOK /\ NothingHolds)
<1>1. Init => NothingHolds
  BY DEF Init, NothingHolds
<1>2. TypeOK /\ NothingHolds /\ [Next]_vars => NothingHolds'
  BY StepNothing
<1> QED
  BY <1>1, <1>2, TypeCorrect, PTL DEF Spec

\* Whatever was caught, armed or remembered, and whatever buttons pull the rail,
\* the first reading of a profile the loop has noticed reaches the host.
THEOREM NewIsHeard == Spec => NewProfileIsHeard
<1>1. TypeOK /\ NothingHolds /\ [Next]_vars => [ReadFader /\ ~heard => heard']_vars
  BY StepNothing
<1> QED
  BY <1>1, AlwaysNothing, PTL DEF Spec, NewProfileIsHeard

-----------------------------------------------------------------------------
(* Whose values a fader is held against.                                   *)

\* What the layers remember and what is waited for was sent for the profile the
\* loop knows, unless a reading strayed to one it had not noticed.
OwnValues ==
    ~strayed => /\ \A c \in catch : c.from = last_active
                /\ \A l \in LayerIds : \A m \in memory[l] : m.from = last_active

LEMMA StepOwn == TypeOK /\ TypeOK' /\ OwnValues /\ [Next]_vars => OwnValues'
<1> SUFFICES ASSUME TypeOK, TypeOK', OwnValues, [Next]_vars PROVE OwnValues'
  OBVIOUS
<1>1. CASE ReadFader
  <2> SUFFICES ASSUME ~strayed'
               PROVE  /\ \A c \in catch' : c.from = last_active'
                      /\ \A l \in LayerIds : \A m \in memory'[l] : m.from = last_active'
    BY DEF OwnValues
  <2>1. PICK raw \in Code : Reads(raw)
    BY <1>1, Reading
  <2>2. last_active' = last_active
    BY <1>1, ReadingKeeps
  <2>3. ~strayed /\ slot = last_active
    BY <2>1 DEF Reads
  <2>4. /\ \A c \in catch : c.from = last_active
        /\ \A l \in LayerIds : \A m \in memory[l] : m.from = last_active
    BY <2>3 DEF OwnValues
  <2>5. \A c \in Armed(RawToCc(raw)) : c.from = last_active
    BY <2>4 DEF Armed, TypeOK
  <2>6. \A c \in catch' : c.from = last_active
    <3>1. \A c \in (IF arm THEN Armed(RawToCc(raw)) ELSE catch) : c.from = last_active
      BY <2>4, <2>5
    <3> QED
      BY <2>1, <3>1, WaitingIsPart DEF Reads, WaitsAt
  <2>7. \A l \in LayerIds : \A m \in memory'[l] : m.from = last_active
    <3>1. CASE memory' = memory
      BY <2>4, <3>1
    <3>2. CASE memory' = [memory EXCEPT ![layer_now] = {[cc |-> RawToCc(raw), from |-> slot]}]
      <4>1. ASSUME NEW l \in LayerIds, NEW m \in memory'[l]
            PROVE  m \in memory[l] \/ m = [cc |-> RawToCc(raw), from |-> slot]
        BY <3>2, <4>1
      <4> QED
        BY <2>3, <2>4, <4>1
    <3> QED
      BY <2>1, <3>1, <3>2 DEF Reads
  <2> QED
    BY <2>2, <2>6, <2>7
<1>2. CASE Forgotten
  BY <1>2 DEF Forgotten, OwnValues
<1>3. CASE UNCHANGED <<sent, catch, memory, heard, strayed>> /\ UNCHANGED last_active
  BY <1>3 DEF OwnValues
<1> QED
  BY <1>1, <1>2, <1>3, FaderSteps

\* A fader is never held back against a value that another profile sent.
THEOREM OwnCatch == Spec => []CatchIsOfTheProfile
<1>1. Init => OwnValues
  BY DEF Init, OwnValues
<1>2. TypeOK /\ TypeOK' /\ OwnValues /\ [Next]_vars => OwnValues'
  BY StepOwn
<1>3. OwnValues => CatchIsOfTheProfile
  BY DEF OwnValues, CatchIsOfTheProfile
<1> QED
  BY <1>1, <1>2, <1>3, TypeCorrect, PTL DEF Spec

-----------------------------------------------------------------------------
(* The upper rail band.                                                    *)

\* The last value sent is one.
OneSent == \A a, b \in sent : a = b

LEMMA StepOneSent == TypeOK /\ OneSent /\ [Next]_vars => OneSent'
<1> SUFFICES ASSUME TypeOK, OneSent, [Next]_vars PROVE OneSent'
  OBVIOUS
<1>1. CASE ReadFader
  <2>1. PICK raw \in Code : Reads(raw)
    BY <1>1, Reading
  <2> QED
    BY <2>1 DEF Reads, LastSent, OneSent
<1>2. CASE Forgotten
  BY <1>2 DEF Forgotten, OneSent
<1>3. CASE UNCHANGED sent
  BY <1>3 DEF OneSent
<1> QED
  BY <1>1, <1>2, <1>3, FaderSteps

LEMMA AlwaysOneSent == Spec => [](TypeOK /\ OneSent)
<1>1. Init => OneSent
  BY DEF Init, OneSent
<1>2. TypeOK /\ OneSent /\ [Next]_vars => OneSent'
  BY StepOneSent
<1> QED
  BY <1>1, <1>2, TypeCorrect, PTL DEF Spec

\* For every noise: a fader in the band ends at 127 though the last step lies
\* within the jitter window.
THEOREM Top == Spec => TopIsReached
<1> DEFINE P == ReadAt(0) /\ rail = 0 /\ catch' = {} =>
                   \A raw \in sent' :
                      (\A off \in Noise : pos + off >= FADER_RAW_MAX) => RawToCc(raw) = 127
<1>1. TypeOK /\ OneSent /\ [Next]_vars => P
  <2> SUFFICES ASSUME TypeOK, OneSent, ReadAt(0), rail = 0, catch' = {}, NEW raw \in sent',
                      \A off \in Noise : pos + off >= FADER_RAW_MAX
               PROVE  RawToCc(raw) = 127
    OBVIOUS
  <2>1. PICK off \in Noise : Reads(RawAt(off, 0))
    BY ReadingAt
  <2>2. pos \in Code /\ off \in -15 .. 15
    BY FadersAssumption DEF TypeOK
  <2> DEFINE new == RawAt(off, 0)
  <2>3. new >= FADER_RAW_MAX /\ RawToCc(new) = 127
    BY <2>1, <2>2, BareReading DEF RawAt
  <2>4. Reads(new)
    BY <2>1
  <2> HIDE DEF new
  <2>5. CASE SendsAt(new)
    BY <2>3, <2>4, <2>5 DEF Reads
  <2>6. CASE ~SendsAt(new)
    <3>1. raw \in LastSent /\ ~Speaks(LastSent, new, 0)
      BY <2>4, <2>6 DEF Reads, SendsAt
    <3>2. PICK old \in LastSent : RawToCc(new) = RawToCc(old)
      BY <2>3, <3>1 DEF Speaks
    <3>3. old = raw
      BY <3>1, <3>2 DEF LastSent, OneSent
    <3> QED
      BY <2>3, <3>2, <3>3
  <2> QED
    BY <2>5, <2>6
<1>2. TypeOK /\ OneSent /\ [Next]_vars => [P]_vars
  BY <1>1
<1> QED
  BY <1>2, AlwaysOneSent, PTL DEF Spec, TopIsReached

-----------------------------------------------------------------------------
(* The layer on which a fader catches.                                     *)

\* A button the debouncer has read once or twice in a row pulls the rail: the
\* probe has seen it as often as the debouncer.
Pressing == vol.cnt > 0 /\ vol.cand # NoButton
PullsTheRail ==
    /\ Pressing /\ pc = "route" => rail > 0 /\ (vol.cnt = 2 => prev)
    /\ Pressing /\ pc # "route" => prev /\ (vol.cnt = 2 => settle <= 1)

\* In the tick that reports a press, the reads resume.
Resumes == rail > 0 /\ prev /\ settle <= 1

\* A tick reports one press, and it is the last of its edges.
OnePress ==
    pc = "route" => \A i \in 1 .. Len(evt) :
                       evt[i].pressed => i = Len(evt) /\ Resumes /\ layer = layer_now

\* The arm of a layer step does not outlive the tick, unless a read fails.
ArmIsSpent ==
    arm /\ ~missed => /\ pc \in {"route", "fader"}
                      /\ layer # layer_now
                      /\ pc = "route" => evt = <<>> /\ Resumes

LayerInv == PullsTheRail /\ OnePress /\ ArmIsSpent /\ CatchIsForTheLayerLeft

\* A step of the layer leads to another one.
LEMMA StepLeaves ==
    ASSUME Layers > 1, NEW l \in LayerIds
    PROVE  (l + 1) % Layers # l /\ (l + (Layers - 1)) % Layers # l
<1>1. Layers \in Nat
  BY FadersAssumption
<1>2. \A a \in 0 .. Layers - 1 : a % Layers = a /\ (a + Layers) % Layers = a
  BY <1>1
<1>3. CASE l + 1 < Layers
  BY <1>1, <1>2, <1>3 DEF LayerIds
<1>4. CASE l + 1 = Layers
  BY <1>1, <1>2, <1>4 DEF LayerIds
<1>5. (l + (Layers - 1)) % Layers # l
  <2>1. CASE l = 0
    BY <1>1, <1>2, <2>1 DEF LayerIds
  <2>2. CASE l # 0
    <3>1. l - 1 \in 0 .. Layers - 1 /\ l + (Layers - 1) = (l - 1) + Layers
      BY <1>1, <2>2 DEF LayerIds
    <3> QED
      BY <1>1, <1>2, <3>1 DEF LayerIds
  <2> QED
    BY <2>1, <2>2
<1> QED
  BY <1>1, <1>3, <1>4, <1>5 DEF LayerIds

\* What a scan reports: at most one press, and the last of two edges.
LEMMA OneEdgePressed ==
    ASSUME NEW old \in MaybeButton, NEW new \in MaybeButton,
           NEW i \in 1 .. Len(LadderEdges(old, new)), LadderEdges(old, new)[i].pressed
    PROVE  i = Len(LadderEdges(old, new)) /\ new # old /\ new # NoButton
<1> DEFINE R == <<[idx |-> old, pressed |-> FALSE]>>
           P == <<[idx |-> new, pressed |-> TRUE]>>
<1>1. old # new
  BY DEF LadderEdges
<1>2. new # NoButton
  <2>1. CASE new = NoButton /\ old # NoButton
    <3>1. LadderEdges(old, new) = R
      BY <1>1, <2>1 DEF LadderEdges
    <3> QED
      BY <3>1
  <2>2. CASE new = NoButton /\ old = NoButton
    BY <1>1, <2>2
  <2> QED
    BY <2>1, <2>2
<1>3. CASE old = NoButton
  <2>1. LadderEdges(old, new) = <<>> \o P
    BY <1>1, <1>2, <1>3 DEF LadderEdges
  <2>2. P \in Seq(Edges) /\ Len(P) = 1
    <3>1. [idx |-> new, pressed |-> TRUE] \in Edges
      BY <1>2 DEF Edges, MaybeButton
    <3> QED
      BY <3>1
  <2>3. <<>> \o P = P
    BY <2>2, ConcatEmptySeq
  <2> QED
    BY <1>1, <1>2, <2>1, <2>2, <2>3
<1>4. CASE old # NoButton
  <2>1. LadderEdges(old, new) = R \o P
    BY <1>1, <1>2, <1>4 DEF LadderEdges
  <2>2. R \in Seq(Edges) /\ P \in Seq(Edges) /\ Len(R) = 1 /\ Len(P) = 1
    BY <1>2, <1>4 DEF Edges, MaybeButton
  <2>3. Len(R \o P) = 2 /\ (R \o P)[1] = R[1]
    BY <2>2
  <2>4. ~R[1].pressed
    OBVIOUS
  <2>5. i = 2
    BY <2>1, <2>3, <2>4
  <2> QED
    BY <1>1, <1>2, <2>1, <2>3, <2>5
<1> QED
  BY <1>3, <1>4

\* A code that reads as a button pulls the rail.
LEMMA PressPulls ==
    ASSUME NEW code \in Code, DecodeVol(code) # NoButton
    PROVE  RailClass(0, code) > 0
BY CodeIsNat DEF DecodeVol, RailClass

\* One reading of the debouncer.
LEMMA DebouncedSteps ==
    ASSUME NEW d \in Debouncer, NEW raw \in MaybeButton, NEW e, e = Debounced(d, raw)
    PROVE  /\ e.cnt > 0 => e.cand = raw
           /\ e.cnt = 2 => d.cnt = 1 /\ d.cand = raw
           /\ e.committed # d.committed => e.committed = raw /\ d.cnt = 2 /\ d.cand = raw
<1>1. /\ d.committed \in MaybeButton /\ d.cand \in MaybeButton
      /\ d.cnt \in 0 .. 2
      /\ d = [committed |-> d.committed, cand |-> d.cand, cnt |-> d.cnt]
  BY DEF Debouncer
<1>2. CASE raw = d.committed
  <2>1. e = [committed |-> d.committed, cand |-> d.cand, cnt |-> 0]
    BY <1>1, <1>2 DEF Debounced
  <2> QED
    BY <2>1
<1>3. CASE raw # d.committed /\ raw = d.cand /\ d.cnt = 2
  <2>1. e = [committed |-> raw, cand |-> d.cand, cnt |-> 0]
    BY <1>1, <1>3 DEF Debounced
  <2> QED
    BY <1>3, <2>1
<1>4. CASE raw # d.committed /\ raw = d.cand /\ d.cnt # 2
  <2>1. e = [committed |-> d.committed, cand |-> d.cand, cnt |-> d.cnt + 1]
    BY <1>1, <1>4 DEF Debounced
  <2> QED
    BY <1>1, <1>4, <2>1
<1>5. CASE raw # d.committed /\ raw # d.cand
  <2>1. e = [committed |-> d.committed, cand |-> raw, cnt |-> 1]
    BY <1>1, <1>5 DEF Debounced
  <2> QED
    BY <1>1, <1>5, <2>1
<1> QED
  BY <1>2, <1>3, <1>4, <1>5

LEMMA InitLayerInv == Init => LayerInv
<1> SUFFICES ASSUME Init PROVE LayerInv
  OBVIOUS
<1>1. PullsTheRail
  BY DEF Init, PullsTheRail, Pressing, Settled
<1> QED
  BY <1>1 DEF Init, LayerInv, OnePress, ArmIsSpent, CatchIsForTheLayerLeft

\* The steps that leave the ladder, the layer and the takeover alone.
StillThere == UNCHANGED <<layer, layer_now, vol, rail, settle, prev, catch, arm, missed>>

LEMMA StepLayerInv ==
    ASSUME Layers > 1, TypeOK, TypeOK', LayerInv, [Next]_vars
    PROVE  LayerInv'
<1> USE DEF scanning, fader, aux
<1>1. CASE Move
  BY <1>1 DEF Move, LayerInv, PullsTheRail, Pressing, OnePress, Resumes, ArmIsSpent,
              CatchIsForTheLayerLeft
<1>2. CASE Poll
  BY <1>2 DEF Poll, LayerInv, PullsTheRail, Pressing, OnePress, Resumes, ArmIsSpent,
              CatchIsForTheLayerLeft
<1>3. CASE Detect
  <2>1. PullsTheRail' /\ OnePress'
    BY <1>3 DEF Detect, LayerInv, PullsTheRail, Pressing, OnePress
  <2>2. arm' => arm /\ missed /\ missed'
    BY <1>3 DEF Detect, Forgotten, LayerInv, ArmIsSpent
  <2>3. CatchIsForTheLayerLeft'
    BY <1>3 DEF Detect, Forgotten, LayerInv, CatchIsForTheLayerLeft
  <2> QED
    BY <2>1, <2>2, <2>3 DEF LayerInv, ArmIsSpent
<1>4. CASE ScanTick
  <2>1. PICK code \in VolCodes, other \in 0 .. 2 :
           /\ vol' = Debounced(vol, DecodeVol(code))
           /\ rail' = IF other > RailClass(0, code) THEN other ELSE RailClass(0, code)
    BY <1>4 DEF ScanTick
  <2> DEFINE raw == DecodeVol(code)
  <2>2. code \in Code
    BY FadersAssumption
  <2>3. raw \in MaybeButton /\ vol \in Debouncer /\ vol' \in Debouncer
    BY <2>2, VolTyped DEF TypeOK
  <2>4. raw # NoButton => rail' > 0
    <3>1. raw # NoButton => RailClass(0, code) > 0
      BY <2>2, PressPulls
    <3>2. RailClass(0, code) \in 0 .. 2
      BY DEF RailClass
    <3> QED
      BY <2>1, <3>1, <3>2
  <2> HIDE DEF raw
  <2>5. /\ vol'.cnt > 0 => vol'.cand = raw
        /\ vol'.cnt = 2 => vol.cnt = 1 /\ vol.cand = raw
        /\ vol'.committed # vol.committed => vol'.committed = raw /\ vol.cnt = 2 /\ vol.cand = raw
    BY <2>1, <2>3, DebouncedSteps DEF raw
  <2>6. /\ pc = "scan" /\ pc' = "route" /\ layer_now' = layer
        /\ evt' = LadderEdges(vol.committed, vol'.committed)
        /\ UNCHANGED <<layer, settle, prev, catch, arm, missed>>
    BY <1>4 DEF ScanTick
  <2>7. vol.cnt > 0 /\ vol.cand # NoButton => prev /\ (vol.cnt = 2 => settle <= 1)
    BY <2>6 DEF LayerInv, PullsTheRail, Pressing
  <2>8. PullsTheRail'
    BY <2>4, <2>5, <2>6, <2>7 DEF PullsTheRail, Pressing
  <2>9. OnePress'
    <3> SUFFICES ASSUME NEW i \in 1 .. Len(evt'), evt'[i].pressed
                 PROVE  i = Len(evt') /\ Resumes' /\ layer' = layer_now'
      BY DEF OnePress
    <3>1. vol.committed \in MaybeButton /\ vol'.committed \in MaybeButton
      BY <2>3 DEF Debouncer
    <3>2. /\ i = Len(evt')
          /\ vol'.committed # vol.committed /\ vol'.committed # NoButton
      BY <2>6, <3>1, OneEdgePressed
    <3>3. raw # NoButton /\ vol.cnt = 2 /\ vol.cand = raw
      BY <2>5, <3>2
    <3> QED
      BY <2>4, <2>6, <2>7, <3>2, <3>3 DEF Resumes
  <2>10. ArmIsSpent'
    BY <2>6 DEF LayerInv, ArmIsSpent
  <2> QED
    BY <2>6, <2>8, <2>9, <2>10 DEF LayerInv, CatchIsForTheLayerLeft
<1>e. ASSUME pc = "route", evt # <<>>
      PROVE  \A i \in 1 .. Len(Tail(evt)) :
                i + 1 \in 1 .. Len(evt) /\ Tail(evt)[i] = evt[i + 1]
                /\ Len(Tail(evt)) = Len(evt) - 1
  <2>1. evt \in Seq(Edges)
    BY DEF TypeOK, Edges
  <2> QED
    BY <1>e, <2>1
<1>5. CASE RouteOther \/ RouteProfile
  <2>1. /\ pc = "route" /\ pc' = "route" /\ evt # <<>> /\ evt' = Tail(evt)
        /\ StillThere
    BY <1>5 DEF RouteOther, RouteProfile, StillThere
  <2>2. OnePress'
    BY <1>e, <2>1 DEF StillThere, LayerInv, OnePress, Resumes
  <2>3. PullsTheRail' /\ CatchIsForTheLayerLeft'
    BY <2>1 DEF StillThere, LayerInv, PullsTheRail, Pressing, CatchIsForTheLayerLeft
  <2>4. ArmIsSpent'
    BY <2>1 DEF StillThere, LayerInv, ArmIsSpent, Resumes
  <2> QED
    BY <2>2, <2>3, <2>4 DEF LayerInv
<1>6. CASE RouteLayer
  <2>1. /\ pc = "route" /\ pc' = "route" /\ evt # <<>> /\ evt' = Tail(evt) /\ Head(evt).pressed
        /\ arm' /\ UNCHANGED <<layer_now, vol, rail, settle, prev, catch>>
    BY <1>6 DEF RouteLayer
  <2>2. evt \in Seq(Edges)
    BY DEF TypeOK, Edges
  <2>3. Len(evt) \in Nat /\ Len(evt) >= 1 /\ Head(evt) = evt[1]
    BY <2>1, <2>2
  <2>4. Len(evt) = 1 /\ Resumes /\ layer = layer_now
    <3>1. 1 \in 1 .. Len(evt) /\ evt[1].pressed
      BY <2>1, <2>3
    <3> QED
      BY <2>1, <3>1 DEF LayerInv, OnePress
  <2>5. Len(evt') = 0 /\ evt' = <<>>
    BY <2>1, <2>2, <2>4
  <2>6. layer' # layer
    BY <1>6, StepLeaves DEF RouteLayer, TypeOK
  <2>7. OnePress' /\ ArmIsSpent'
    <3>1. OnePress'
      BY <2>5 DEF OnePress
    <3>2. Resumes' /\ layer' # layer_now'
      BY <2>1, <2>4, <2>6 DEF Resumes
    <3> QED
      BY <2>1, <2>5, <3>1, <3>2 DEF ArmIsSpent
  <2>8. PullsTheRail'
    BY <2>1 DEF LayerInv, PullsTheRail, Pressing
  <2> QED
    BY <2>1, <2>7, <2>8 DEF LayerInv, CatchIsForTheLayerLeft
<1>7. CASE RouteMode
  <2>1. /\ pc' = pc /\ ~arm' /\ catch' = {}
        /\ UNCHANGED <<layer, layer_now, vol, evt, rail, settle, prev>>
    BY <1>7 DEF RouteMode, Forgotten
  <2> QED
    BY <2>1 DEF LayerInv, PullsTheRail, Pressing, OnePress, Resumes, ArmIsSpent,
                CatchIsForTheLayerLeft
<1>8. CASE Skip
  <2>1. PICK now \in 0 .. 2 :
          LET load == IF now > rail THEN now ELSE rail
          IN  /\ settle' = Settling(load > 0, prev, settle)
              /\ prev' = (load > 0)
              /\ IF settle' = 0
                 THEN pc' = "fader" /\ rail' = load /\ UNCHANGED layer_now
                 ELSE EndTick
    BY <1>8 DEF Skip
  <2>2. pc = "route" /\ evt = <<>> /\ UNCHANGED <<layer, vol, catch, arm, missed>>
    BY <1>8 DEF Skip
  <2>3. rail \in 0 .. 2 /\ settle \in 0 .. 2 /\ prev \in BOOLEAN
    BY DEF TypeOK, SettleTicks
  <2>4. pc' # "route"
    BY <2>1 DEF EndTick
  <2>5. rail > 0 => prev' /\ settle' = Settling(TRUE, prev, settle)
    <3> SUFFICES ASSUME rail > 0 PROVE prev' /\ settle' = Settling(TRUE, prev, settle)
      OBVIOUS
    <3>1. PICK load \in 0 .. 2 : /\ load > 0
                                 /\ settle' = Settling(load > 0, prev, settle)
                                 /\ prev' = (load > 0)
      BY <2>1, <2>3
    <3>2. (load > 0) = TRUE
      BY <3>1
    <3> QED
      BY <3>1, <3>2
  <2>6. rail > 0 /\ prev => settle' = IF settle > 0 THEN settle - 1 ELSE 0
    BY <2>5 DEF Settling
  <2>7. PullsTheRail'
    <3> SUFFICES ASSUME Pressing' PROVE prev' /\ (vol'.cnt = 2 => settle' <= 1)
      BY <2>4 DEF PullsTheRail
    <3>1. rail > 0 /\ (vol.cnt = 2 => prev)
      BY <2>2 DEF LayerInv, PullsTheRail, Pressing
    <3>2. prev' /\ vol' = vol
      BY <2>2, <2>5, <3>1
    <3>3. vol.cnt = 2 => settle' <= 1
      BY <2>3, <2>6, <3>1
    <3> QED
      BY <3>2, <3>3
  <2>8. ArmIsSpent'
    <3> SUFFICES ASSUME arm, ~missed PROVE ArmIsSpent'
      BY <2>2 DEF ArmIsSpent
    <3>1. Resumes /\ layer # layer_now
      BY <2>2 DEF LayerInv, ArmIsSpent
    <3>2. settle' = 0
      BY <2>3, <2>6, <3>1 DEF Resumes
    <3> QED
      BY <2>1, <2>2, <3>1, <3>2 DEF ArmIsSpent
  <2> QED
    BY <2>2, <2>4, <2>7, <2>8 DEF LayerInv, OnePress, CatchIsForTheLayerLeft
<1>9. CASE ReadFails
  <2>1. /\ pc = "fader" /\ pc' = "poll" /\ missed' = (missed \/ arm)
        /\ UNCHANGED <<layer, vol, settle, prev, catch, arm>>
    BY <1>9 DEF ReadFails, EndTick
  <2> QED
    BY <2>1 DEF LayerInv, PullsTheRail, Pressing, OnePress, ArmIsSpent, CatchIsForTheLayerLeft
<1>10. CASE ReadFader
  <2>1. PICK raw \in Code : Reads(raw)
    BY <1>10, Reading
  <2>2. pc = "fader" /\ pc' = "poll" /\ ~arm' /\ UNCHANGED <<layer, vol, settle, prev>>
    BY <1>10, ReadingKeeps DEF EndTick
  <2>3. PullsTheRail' /\ OnePress' /\ ArmIsSpent'
    BY <2>2 DEF LayerInv, PullsTheRail, Pressing, OnePress, ArmIsSpent
  <2>4. CatchIsForTheLayerLeft'
    <3> SUFFICES ASSUME ~missed', NEW c \in catch' PROVE c.on # layer
      BY <2>2 DEF CatchIsForTheLayerLeft
    <3>1. ~missed /\ c \in (IF arm THEN Armed(RawToCc(raw)) ELSE catch)
      BY <2>1, WaitingIsPart DEF Reads, WaitsAt
    <3>2. CASE arm
      <4>1. c.on = layer_now
        BY <3>1, <3>2 DEF Armed
      <4> QED
        BY <3>1, <3>2, <4>1 DEF LayerInv, ArmIsSpent
    <3>3. CASE ~arm
      BY <3>1, <3>3 DEF LayerInv, CatchIsForTheLayerLeft
    <3> QED
      BY <3>2, <3>3
  <2> QED
    BY <2>3, <2>4 DEF LayerInv
<1>11. CASE UNCHANGED vars
  BY <1>11 DEF vars, LayerInv, PullsTheRail, Pressing, OnePress, Resumes, ArmIsSpent,
               CatchIsForTheLayerLeft
<1> QED
  BY <1>1, <1>2, <1>3, <1>4, <1>5, <1>6, <1>7, <1>8, <1>9, <1>10, <1>11 DEF Next

\* With two layers or more (8 in the code), and for every position, noise and
\* sequence of presses: a layer step catches on the layer it leaves, never on
\* the one it enters, as long as the converter answers.
THEOREM LayerLeft == ASSUME Layers > 1 PROVE Spec => []CatchIsForTheLayerLeft
<1>1. Init => LayerInv
  BY InitLayerInv
<1>2. TypeOK /\ TypeOK' /\ LayerInv /\ [Next]_vars => LayerInv'
  BY StepLayerInv
<1>3. LayerInv => CatchIsForTheLayerLeft
  BY DEF LayerInv
<1> QED
  BY <1>1, <1>2, <1>3, TypeCorrect, PTL DEF Spec

-----------------------------------------------------------------------------
(* Silence at rest.                                                        *)

\* A reading under the load it is compensated for is within 8 of where the fader is.
Near(raw, p) == p - 8 <= raw /\ raw <= p + 7

LEMMA BareIsNear ==
    ASSUME NEW p \in Code, NEW off \in -6 .. 6
    PROVE  Near(Compensated(Read(p, off, 0), 0), p)
<1>1. \A x \in Nat : (x * Sag(0)) \div 1000 = 0
  BY DEF Sag
<1>2. p \in Nat /\ p <= 4095
  BY CodeIsNat
<1> DEFINE x == Read(p, off, 0)
<1>3. x = IF p + off < 0 THEN 0 ELSE Lower(p + off, 4095)
  BY <1>1, <1>2 DEF Read
<1>4. x \in Nat /\ Near(x, p) /\ x <= 4095
  BY <1>2, <1>3 DEF Lower, Near
<1> HIDE DEF x
<1>5. Compensated(x, 0) = x
  BY <1>1, <1>4 DEF Compensated, Lower
<1> QED
  BY <1>4, <1>5 DEF x

LEMMA LightIsNear ==
    ASSUME NEW p \in Code, NEW off \in -6 .. 6
    PROVE  Near(Compensated(Read(p, off, 1), 1), p)
<1>1. \A x \in Nat : x * Sag(1) = 10 * x
  BY DEF Sag
<1>2. p \in Nat /\ p <= 4095
  BY CodeIsNat
<1> DEFINE d == (10 * p) \div 1000
           x == Read(p, off, 1)
           e == (10 * x) \div 1000
<1>3. d \in Nat /\ 1000 * d <= 10 * p /\ 10 * p < 1000 * d + 1000
  BY <1>2
<1>4. x = IF p - d + off < 0 THEN 0 ELSE Lower(p - d + off, 4095)
  <2>1. (p * Sag(1)) \div 1000 = d
    BY <1>1, <1>2
  <2> HIDE DEF d
  <2> QED
    BY <2>1 DEF Read
<1> HIDE DEF d, x
<1>5. x \in Nat
  BY <1>2, <1>3, <1>4 DEF Lower
<1>6. e \in Nat /\ 1000 * e <= 10 * x /\ 10 * x < 1000 * e + 1000
  BY <1>5
<1>7. Compensated(x, 1) = Lower(x + e, 4095)
  <2>1. (x * Sag(1)) \div 1000 = e
    BY <1>1, <1>5
  <2> HIDE DEF e
  <2> QED
    BY <2>1 DEF Compensated
<1> HIDE DEF e
<1>8. Near(Lower(x + e, 4095), p)
  BY <1>2, <1>3, <1>4, <1>5, <1>6 DEF Lower, Near
<1> QED
  BY <1>7, <1>8 DEF x

LEMMA HeavyIsNear ==
    ASSUME NEW p \in Code, NEW off \in -6 .. 6
    PROVE  Near(Compensated(Read(p, off, 2), 2), p)
<1>1. \A x \in Nat : x * Sag(2) = 20 * x
  BY DEF Sag
<1>2. p \in Nat /\ p <= 4095
  BY CodeIsNat
<1> DEFINE d == (20 * p) \div 1000
           x == Read(p, off, 2)
           e == (20 * x) \div 1000
<1>3. d \in Nat /\ 1000 * d <= 20 * p /\ 20 * p < 1000 * d + 1000
  BY <1>2
<1>4. x = IF p - d + off < 0 THEN 0 ELSE Lower(p - d + off, 4095)
  <2>1. (p * Sag(2)) \div 1000 = d
    BY <1>1, <1>2
  <2> HIDE DEF d
  <2> QED
    BY <2>1 DEF Read
<1> HIDE DEF d, x
<1>5. x \in Nat
  BY <1>2, <1>3, <1>4 DEF Lower
<1>6. e \in Nat /\ 1000 * e <= 20 * x /\ 20 * x < 1000 * e + 1000
  BY <1>5
<1>7. Compensated(x, 2) = Lower(x + e, 4095)
  <2>1. (x * Sag(2)) \div 1000 = e
    BY <1>1, <1>5
  <2> HIDE DEF e
  <2> QED
    BY <2>1 DEF Compensated
<1> HIDE DEF e
<1>8. Near(Lower(x + e, 4095), p)
  BY <1>2, <1>3, <1>4, <1>5, <1>6 DEF Lower, Near
<1> QED
  BY <1>7, <1>8 DEF x

LEMMA ReadingIsNear ==
    ASSUME NEW p \in Code, NEW off \in -6 .. 6, NEW class \in 0 .. 2
    PROVE  Near(Compensated(Read(p, off, class), class), p)
<1>1. class = 0 \/ class = 1 \/ class = 2
  OBVIOUS
<1> QED
  BY <1>1, BareIsNear, LightIsNear, HeavyIsNear

InBand(raw) == raw <= FADER_RAW_MIN \/ raw >= FADER_RAW_MAX

\* Of two readings at one place the second is worth a message only in a rail
\* band, and no third one is.
LEMMA NearIsSilent ==
    ASSUME NEW p \in Code, NEW r \in Code, NEW raw \in Code, NEW class \in 0 .. 2,
           Near(r, p), Near(raw, p), Speaks({r}, raw, class)
    PROVE  InBand(raw) /\ ~InBand(r)
<1>1. p \in Nat /\ r \in Nat /\ raw \in Nat
  BY CodeIsNat
<1>2. Distance(raw, r) < FADER_HYSTERESIS
  BY <1>1 DEF Near, Distance, FADER_HYSTERESIS
<1>3. /\ RawToCc(raw) # RawToCc(r)
      /\ Distance(raw, r) >= FADER_HYSTERESIS \/ InBand(raw)
  BY DEF Speaks, InBand
<1>4. InBand(raw)
  BY <1>1, <1>2, <1>3 DEF Distance, FADER_HYSTERESIS
<1>5. ~InBand(r)
  <2> SUFFICES ASSUME InBand(r) PROVE RawToCc(raw) = RawToCc(r)
    BY <1>3
  <2>1. \/ r <= FADER_RAW_MIN /\ raw <= FADER_RAW_MIN
        \/ r >= FADER_RAW_MAX /\ raw >= FADER_RAW_MAX
    BY <1>1, <1>4 DEF InBand, Near, FADER_RAW_MIN, FADER_RAW_MAX
  <2> QED
    BY <1>1, <2>1 DEF RawToCc, FADER_RAW_MIN, FADER_RAW_MAX
<1> QED
  BY <1>4, <1>5

\* What was sent since the fader came to rest was read where it rests; the
\* second message is a step into a band.
RestInv ==
    /\ said <= 2
    /\ arm => said = 0
    /\ said > 0 => \E r \in Code : sent = {r} /\ Near(r, pos)
    /\ said > 1 => \A r \in sent : InBand(r)

\* What a step does to the rest.
LEMMA RestSteps ==
    ASSUME [Next]_vars
    PROVE  \/ said' = 0
           \/ UNCHANGED <<said, arm, sent, pos>>
           \/ ReadFader
<1> USE DEF scanning, fader, aux
<1>1. CASE Move
  BY <1>1 DEF Move
<1>2. CASE Poll
  BY <1>2 DEF Poll
<1>3. CASE Detect
  BY <1>3 DEF Detect, Forgotten
<1>4. CASE ScanTick \/ RouteOther
  BY <1>4 DEF ScanTick, RouteOther
<1>5. CASE RouteLayer
  BY <1>5 DEF RouteLayer
<1>6. CASE RouteProfile
  BY <1>6 DEF RouteProfile
<1>7. CASE RouteMode
  BY <1>7 DEF RouteMode, Forgotten
<1>8. CASE Skip \/ ReadFails
  BY <1>8 DEF Skip, ReadFails
<1>9. CASE UNCHANGED vars
  BY <1>9 DEF vars
<1> QED
  BY <1>1, <1>2, <1>3, <1>4, <1>5, <1>6, <1>7, <1>8, <1>9 DEF Next

LEMMA StepRest ==
    ASSUME Noise \subseteq -6 .. 6, TypeOK, RestInv, [Next]_vars
    PROVE  RestInv'
<1>1. CASE said' = 0
  BY <1>1 DEF RestInv
<1>2. CASE UNCHANGED <<said, arm, sent, pos>>
  BY <1>2 DEF RestInv
<1>3. CASE ReadFader /\ said' # 0
  <2>0. PICK load \in 0 .. 2 : ReadAt(load)
    BY <1>3 DEF ReadFader
  <2>1. PICK off \in Noise : Reads(RawAt(off, load)) /\ Counts(RawAt(off, load), load)
    BY <2>0, ReadingAt
  <2> DEFINE raw == RawAt(off, load)
  <2>2. pos \in Code /\ off \in -6 .. 6 /\ rail \in 0 .. 2
    BY FadersAssumption DEF TypeOK
  <2>3. load = rail
    BY <1>3, <2>1, <2>2 DEF Counts
  <2>4. raw \in Code /\ Near(raw, pos)
    <3>1. off \in -15 .. 15
      BY <2>2
    <3>2. Read(pos, off, load) \in Code
      BY <2>2, <3>1, ReadTyped
    <3>3. raw \in Code
      BY <2>2, <3>2, CompensatedTyped DEF RawAt
    <3>4. Near(Compensated(Read(pos, off, rail), rail), pos)
      BY <2>2, ReadingIsNear
    <3> QED
      BY <2>3, <3>3, <3>4 DEF RawAt
  <2>5. pos' = pos /\ ~arm'
    BY <1>3, ReadingKeeps
  <2>6. /\ sent' = IF SendsAt(raw) THEN {raw} ELSE LastSent
        /\ said' = IF SendsAt(raw) /\ said < 3 THEN said + 1 ELSE said
        /\ said \in 0 .. 3
    BY <2>1, <2>2, <2>3 DEF Reads, Counts, TypeOK
  <2>7. SendsAt(raw) => Speaks(LastSent, raw, rail)
    BY DEF SendsAt
  <2> HIDE DEF raw
  <2>8. CASE ~SendsAt(raw)
    <3>1. ~arm /\ LastSent = sent
      BY <1>3, <2>6, <2>8 DEF RestInv, LastSent
    <3> QED
      BY <2>5, <2>6, <2>8, <3>1 DEF RestInv
  <2>9. CASE SendsAt(raw) /\ said = 0
    BY <2>4, <2>5, <2>6, <2>9 DEF RestInv
  <2>10. CASE SendsAt(raw) /\ said > 0
    <3>1. ~arm /\ LastSent = sent
      BY <2>10 DEF RestInv, LastSent
    <3>2. PICK r \in Code : sent = {r} /\ Near(r, pos)
      BY <2>10 DEF RestInv
    <3>3. InBand(raw) /\ ~InBand(r)
      BY <2>2, <2>4, <2>7, <2>10, <3>1, <3>2, NearIsSilent
    <3>4. said = 1
      BY <2>6, <2>10, <3>2, <3>3 DEF RestInv
    <3> QED
      BY <2>4, <2>5, <2>6, <2>10, <3>3, <3>4 DEF RestInv
  <2> QED
    BY <2>6, <2>8, <2>9, <2>10
<1> QED
  BY <1>1, <1>2, <1>3, RestSteps

\* For every position and for readings that are off by up to 6: however long
\* the fader rests, whatever the buttons pull, it says at most two values as long
\* as each reading meets the load it is compensated for.  (With 7, two readings at
\* one place can be a whole window apart.)
THEOREM Quiet == ASSUME Noise \subseteq -6 .. 6 PROVE Spec => []RestsQuiet
<1>1. Init => RestInv
  BY DEF Init, RestInv
<1>2. TypeOK /\ RestInv /\ [Next]_vars => RestInv'
  BY StepRest
<1>3. RestInv => RestsQuiet
  BY DEF RestInv, RestsQuiet
<1> QED
  BY <1>1, <1>2, <1>3, TypeCorrect, PTL DEF Spec
=============================================================================
