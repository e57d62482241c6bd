----------------------------- MODULE PanelProofs -----------------------------
(***************************************************************************)
(* Proofs about the panel, for every length of the holds and every set of  *)
(* readings the ladders may give.                                          *)
(***************************************************************************)
EXTENDS Panel, SequenceTheorems, TLAPS

Edges == [idx : ButtonIds, pressed : BOOLEAN]

-----------------------------------------------------------------------------
(* The scan of buttons.c.                                                  *)

LEMMA TracksTyped == ASSUME NEW v \in Code PROVE DecodeTracks(v) \in MaybeButton
BY DEF Code, DecodeTracks, MaybeButton, ButtonIds, NoButton, Play, Track1, Track4

LEMMA VolTyped == ASSUME NEW v \in Code PROVE DecodeVol(v) \in MaybeButton
BY DEF Code, DecodeVol, MaybeButton, ButtonIds, NoButton, VolUp, VolDown, Fwd, Rwd

LEMMA DebouncedTyped ==
    ASSUME NEW d \in Debouncer, NEW raw \in MaybeButton
    PROVE  Debounced(d, raw) \in Debouncer
<1>1. /\ d.committed \in MaybeButton /\ d.cand \in MaybeButton
      /\ d.cnt \in 0 .. 2
      /\ d = [committed |-> d.committed, cand |-> d.cand, cnt |-> d.cnt]
  BY DEF Debouncer
<1>2. CASE raw = d.committed
  <2>1. Debounced(d, raw) = [committed |-> d.committed, cand |-> d.cand, cnt |-> 0]
    BY <1>1, <1>2 DEF Debounced
  <2> QED
    BY <1>1, <2>1 DEF Debouncer
<1>3. CASE raw # d.committed /\ raw = d.cand /\ d.cnt = 2
  <2>1. Debounced(d, raw) = [committed |-> raw, cand |-> d.cand, cnt |-> 0]
    BY <1>1, <1>3 DEF Debounced
  <2> QED
    BY <1>1, <2>1 DEF Debouncer
<1>4. CASE raw # d.committed /\ raw = d.cand /\ d.cnt # 2
  <2>1. Debounced(d, raw) = [committed |-> d.committed, cand |-> d.cand, cnt |-> d.cnt + 1]
    BY <1>1, <1>4 DEF Debounced
  <2> QED
    BY <1>1, <1>4, <2>1 DEF Debouncer
<1>5. CASE raw # d.committed /\ raw # d.cand
  <2>1. Debounced(d, raw) = [committed |-> d.committed, cand |-> raw, cnt |-> 1]
    BY <1>1, <1>5 DEF Debounced
  <2> QED
    BY <1>1, <2>1 DEF Debouncer
<1> QED
  BY <1>2, <1>3, <1>4, <1>5

LEMMA ScannedTyped ==
    ASSUME NEW s \in ScanState, NEW trk \in Code, NEW vol \in Code
    PROVE  Scanned(s, trk, vol) \in ScanState
<1> DEFINE seen  == IF InDfuBand(trk) THEN NoButton ELSE DecodeTracks(trk)
           scans == IF InDfuBand(trk) THEN (IF s.scans < DfuScans THEN s.scans + 1 ELSE DfuScans)
                    ELSE 0
           dfu   == s.dfu \/ scans = DfuScans
<1>1. s.trk \in Debouncer /\ s.vol \in Debouncer /\ s.scans \in 0 .. DfuScans /\ s.dfu \in BOOLEAN
  BY DEF ScanState
<1>2. Debounced(s.trk, seen) \in Debouncer
  <2>1. seen \in MaybeButton
    <3>1. NoButton \in MaybeButton
      BY DEF MaybeButton
    <3>2. DecodeTracks(trk) \in MaybeButton
      BY TracksTyped
    <3> QED
      BY <3>1, <3>2
  <2> HIDE DEF seen
  <2> QED
    BY <1>1, <2>1, DebouncedTyped
<1>3. Debounced(s.vol, DecodeVol(vol)) \in Debouncer
  <2>1. DecodeVol(vol) \in MaybeButton
    BY VolTyped
  <2> QED
    BY <1>1, <2>1, DebouncedTyped
<1>4. scans \in 0 .. DfuScans
  BY <1>1, DfuAssumption
<1>5. dfu \in BOOLEAN
  BY <1>1
<1>6. Scanned(s, trk, vol) = [trk |-> Debounced(s.trk, seen), vol |-> Debounced(s.vol, DecodeVol(vol)),
                              scans |-> scans, dfu |-> dfu]
  BY DEF Scanned
<1> HIDE DEF seen, scans, dfu
<1> QED
  BY <1>2, <1>3, <1>4, <1>5, <1>6 DEF ScanState

LEMMA LadderEdgesTyped ==
    ASSUME NEW old \in MaybeButton, NEW new \in MaybeButton
    PROVE  LadderEdges(old, new) \in Seq(Edges)
<1>1. old # NoButton => <<[idx |-> old, pressed |-> FALSE]>> \in Seq(Edges)
  BY DEF Edges, MaybeButton
<1>2. new # NoButton => <<[idx |-> new, pressed |-> TRUE]>> \in Seq(Edges)
  BY DEF Edges, MaybeButton
<1>3. <<>> \in Seq(Edges)
  OBVIOUS
<1> QED
  BY <1>1, <1>2, <1>3, ConcatProperties DEF LadderEdges

LEMMA ScanEdgesTyped ==
    ASSUME NEW s \in ScanState, NEW u \in ScanState
    PROVE  ScanEdges(s, u) \in Seq(Edges)
<1>1. /\ LadderEdges(s.trk.committed, u.trk.committed) \in Seq(Edges)
      /\ LadderEdges(s.vol.committed, u.vol.committed) \in Seq(Edges)
  BY LadderEdgesTyped DEF ScanState, Debouncer
<1> QED
  BY <1>1, ConcatProperties DEF ScanEdges

LEMMA NoEdges == <<>> \in Seq(Edges)
OBVIOUS

LEMMA ReleasedTyped == Released \in ScanState
BY DfuAssumption DEF Released, ScanState, Settled, Debouncer, MaybeButton

-----------------------------------------------------------------------------
(* Types.                                                                  *)

LEMMA ResetTyped == ASSUME TypeOK, LoopReset PROVE
    /\ pc' \in {"fn", "scan", "route"} /\ func_armed' \in BOOLEAN /\ func_down' \in BOOLEAN
    /\ held' \in 0 .. HoldTicks /\ bare' \in 0 .. HoldTicks
    /\ btn' \in ScanState /\ evt' \in Seq(Edges) /\ combo' \subseteq ButtonIds
    /\ age' \in [{"trk", "vol"} -> 0 .. 3]
<1>1. age' \in [{"trk", "vol"} -> 0 .. 3]
  BY DEF LoopReset, Fresh
<1>2. btn' \in ScanState
  BY ReleasedTyped DEF LoopReset
<1>3. evt' \in Seq(Edges)
  BY NoEdges DEF LoopReset
<1>4. held' \in 0 .. HoldTicks /\ bare' \in 0 .. HoldTicks
  BY PanelAssumption DEF LoopReset
<1>5. pc' \in {"fn", "scan", "route"} /\ combo' \subseteq ButtonIds
  BY DEF LoopReset
<1>6. func_armed' \in BOOLEAN /\ func_down' \in BOOLEAN
  BY DEF LoopReset
<1> QED
  BY <1>1, <1>2, <1>3, <1>4, <1>5, <1>6

Causes == {"OFF", "DOG", "SREQ", "VBUS", "PIN"}

LEMMA InitTypeOK == Init => TypeOK
<1> SUFFICES ASSUME Init PROVE TypeOK
  OBVIOUS
<1>1. age \in [{"trk", "vol"} -> 0 .. 3]
  BY DEF Init, Fresh
<1>2. btn \in ScanState
  BY ReleasedTyped DEF Init
<1>3. evt \in Seq([idx : ButtonIds, pressed : BOOLEAN])
  BY NoEdges DEF Init, Edges
<1>4. held \in 0 .. HoldTicks /\ bare \in 0 .. HoldTicks /\ pressed \in 0 .. GateTicks
  BY PanelAssumption DEF Init
<1>5. /\ power = "boot" /\ pc = "fn" /\ func_armed = FALSE /\ func_down = FALSE /\ combo = {}
      /\ fn \in BOOLEAN /\ usb \in BOOLEAN /\ wdt \in BOOLEAN /\ letgo = ~fn
      /\ cause \in Causes /\ reas = {cause}
  BY DEF Init, Causes
<1> QED
  BY <1>1, <1>2, <1>3, <1>4, <1>5 DEF TypeOK, Causes

\* A reset for one of the chip's reasons.
LEMMA ResetTypeOK ==
    ASSUME TypeOK, NEW why \in Causes, Reset(why),
           fn' \in BOOLEAN, usb' \in BOOLEAN, letgo' \in BOOLEAN
    PROVE  TypeOK'
<1>1. LoopReset
  BY DEF Reset
<1>2. power' = "boot" /\ reas' \subseteq Causes /\ cause' \in Causes /\ wdt' \in BOOLEAN /\ pressed' = 0
  BY DEF Reset, TypeOK, Causes
<1> QED
  BY <1>1, <1>2, ResetTyped, PanelAssumption DEF TypeOK, Edges, Causes

\* In the loop the hold is not over, or the loop would have been left.
HoldShort == power = "run" => held < HoldTicks

LEMMA StepTypeOK == TypeOK /\ HoldShort /\ [Next]_vars => TypeOK'
<1> SUFFICES ASSUME TypeOK, HoldShort, [Next]_vars PROVE TypeOK'
  OBVIOUS
<1>1. CASE FnMoves
  BY <1>1 DEF FnMoves, TypeOK, tick
<1>2. CASE Wake
  BY <1>2, ResetTypeOK DEF Wake, TypeOK, Causes
<1>3. CASE Plug
  <2>1. fn' \in BOOLEAN /\ usb' \in BOOLEAN /\ letgo' \in BOOLEAN
    BY <1>3 DEF Plug, TypeOK
  <2>2. CASE power = "off" /\ usb'
    BY <1>3, <2>1, <2>2, ResetTypeOK DEF Plug, Causes
  <2>3. CASE ~(power = "off" /\ usb')
    BY <1>3, <2>1, <2>3 DEF Plug, TypeOK, tick
  <2> QED
    BY <2>2, <2>3
<1>4. CASE Fault \/ Watchdog \/ Flashed
  <2>1. PICK why \in Causes : Reset(why)
    BY <1>4 DEF Fault, Watchdog, Flashed, Causes
  <2>2. fn' \in BOOLEAN /\ usb' \in BOOLEAN /\ letgo' \in BOOLEAN
    BY <1>4 DEF Fault, Watchdog, Flashed, TypeOK
  <2> QED
    BY <2>1, <2>2, ResetTypeOK
<1>5. CASE Hang
  BY <1>5 DEF Hang, TypeOK, tick
<1>6. CASE Boot
  <2>1. CASE reas \cap {"OFF", "DOG"} # {}
    <3>1. EnterLoop /\ reas' = {} /\ wdt' = TRUE /\ UNCHANGED <<fn, usb, letgo>>
      BY <1>6, <2>1 DEF Boot
    <3> QED
      BY <3>1, ResetTyped, PanelAssumption DEF EnterLoop, TypeOK, Edges
  <2>2. CASE reas \cap {"OFF", "DOG"} = {}
    BY <1>6, <2>2 DEF Boot, TypeOK, tick
  <2> QED
    BY <2>1, <2>2
<1>7. CASE GateHold
  <2>1. pressed' \in 0 .. GateTicks
    BY <1>7, PanelAssumption DEF GateHold, TypeOK
  <2> QED
    BY <1>7, <2>1 DEF GateHold, TypeOK, tick
<1>8. CASE GateIdle
  <2>1. power' \in {"gate", "park"} /\ letgo' \in BOOLEAN /\ pressed' = 0
    BY <1>8 DEF GateIdle, TypeOK
  <2>2. UNCHANGED <<fn, usb, reas, wdt, tick, cause>>
    BY <1>8 DEF GateIdle
  <2> QED
    BY <2>1, <2>2, PanelAssumption DEF TypeOK, tick
<1>9. CASE GateReleased
  BY <1>9, ResetTyped, PanelAssumption DEF GateReleased, EnterLoop, TypeOK, Edges
<1>10. CASE ParkReleased
  BY <1>10 DEF ParkReleased, TypeOK, tick
<1>11. CASE PowerOff
  <2>1. CASE fn
    BY <1>11, <2>1, ResetTypeOK DEF PowerOff, TypeOK, Causes
  <2>2. CASE ~fn
    <3>1. /\ LoopReset /\ power' = "off" /\ reas' = {} /\ wdt' = FALSE /\ pressed' = 0
          /\ UNCHANGED <<letgo, cause, fn, usb>> /\ 0 \in 0 .. GateTicks
      BY <1>11, <2>2, PanelAssumption DEF PowerOff
    <3> QED
      BY <3>1, ResetTyped DEF TypeOK, Edges
  <2> QED
    BY <2>1, <2>2
<1>12. CASE FnTick
  <2>1. held' \in 0 .. HoldTicks /\ bare' \in 0 .. HoldTicks
    BY <1>12, PanelAssumption DEF FnTick, TypeOK, HoldShort
  <2>2. /\ power' \in {"run", "park"} /\ func_down' \in BOOLEAN /\ func_armed' \in BOOLEAN
        /\ pc' \in {"fn", "scan"} /\ letgo' \in BOOLEAN
    BY <1>12 DEF FnTick, TypeOK
  <2>3. UNCHANGED <<fn, usb, reas, wdt, pressed, btn, evt, combo, age, cause>>
    BY <1>12 DEF FnTick
  <2> QED
    BY <2>1, <2>2, <2>3 DEF TypeOK
<1>13. CASE ScanTick
  <2>1. PICK trk \in TrackCodes, vol \in VolCodes : btn' = Scanned(btn, trk, vol)
    BY <1>13 DEF ScanTick
  <2>2. btn' \in ScanState
    <3>1. btn \in ScanState /\ trk \in Code /\ vol \in Code
      BY PanelAssumption DEF TypeOK
    <3>2. Scanned(btn, trk, vol) \in ScanState
      BY <3>1, ScannedTyped
    <3> QED
      BY <2>1, <3>2
  <2>3. evt' \in Seq(Edges)
    BY <1>13, <2>2, ScanEdgesTyped DEF ScanTick, TypeOK
  <2>4. age' \in [{"trk", "vol"} -> 0 .. 3]
    BY <1>13 DEF ScanTick, Older, TypeOK
  <2>5. /\ pc' = "route"
        /\ UNCHANGED <<power, fn, usb, reas, wdt, pressed, func_armed, func_down, held,
                       combo, bare, letgo, cause>>
    BY <1>13 DEF ScanTick
  <2> QED
    BY <2>2, <2>3, <2>4, <2>5 DEF TypeOK, Edges
<1>14. CASE Edge
  <2>1. Head(evt) \in Edges /\ evt' \in Seq(Edges)
    BY <1>14, HeadTailProperties DEF Edge, TypeOK, Edges
  <2>2. combo' \subseteq ButtonIds /\ held' \in 0 .. HoldTicks /\ bare' \in 0 .. HoldTicks
    BY <1>14, <2>1, PanelAssumption DEF Edge, TypeOK, Edges
  <2>3. UNCHANGED <<power, fn, usb, reas, wdt, pressed, pc, func_armed, func_down,
                    btn, age, letgo, cause>>
    BY <1>14 DEF Edge
  <2> QED
    BY <2>1, <2>2, <2>3 DEF TypeOK, Edges
<1>15. CASE EndTick
  BY <1>15 DEF EndTick, TypeOK
<1>16. CASE UNCHANGED vars
  BY <1>16 DEF vars, tick, TypeOK
<1> QED
  BY <1>1, <1>2, <1>3, <1>4, <1>5, <1>6, <1>7, <1>8, <1>9, <1>10, <1>11, <1>12, <1>13,
     <1>14, <1>15, <1>16 DEF Next, World, Firmware

-----------------------------------------------------------------------------
(* Power.  The properties are inductive only together with what each place *)
(* knows of the hold, of Fn and of the register of reasons.                *)

\* The code's count of a hold never runs ahead of the true one.
HoldIsBare == held <= bare

\* Who sees Fn up, or has armed, knows that it was let go.
LetGoIsKnown ==
    /\ ~fn => letgo
    /\ power = "run" /\ func_armed => letgo
    /\ power = "settle" => letgo

\* The register holds the last reset's reason until the boot clears it.
ReasonIsCause == reas = IF power = "boot" THEN {cause} ELSE {}

GateWasHeld == power = "release" => pressed = GateTicks

PowerInv == HoldShort /\ HoldIsBare /\ LetGoIsKnown /\ ReasonIsCause /\ GateWasHeld

LEMMA InitPower == Init => PowerInv
<1> SUFFICES ASSUME Init PROVE PowerInv
  OBVIOUS
<1>1. LetGoIsKnown
  <2>1. power = "boot" /\ (~fn => letgo)
    BY Zenon DEF Init
  <2> QED
    BY <2>1 DEF LetGoIsKnown
<1>2. HoldShort /\ HoldIsBare /\ ReasonIsCause /\ GateWasHeld
  BY DEF Init, HoldShort, HoldIsBare, ReasonIsCause, GateWasHeld
<1> QED
  BY <1>1, <1>2 DEF PowerInv

\* A reset from a place that has cleared the register.
LEMMA ResetPower ==
    ASSUME TypeOK, PowerInv, NEW why, Reset(why), power # "boot", ~fn' => letgo'
    PROVE  PowerInv'
BY DEF PowerInv, HoldShort, HoldIsBare, LetGoIsKnown, ReasonIsCause, GateWasHeld,
       Reset, LoopReset

LEMMA StepPower == TypeOK /\ PowerInv /\ [Next]_vars => PowerInv'
<1> SUFFICES ASSUME TypeOK, PowerInv, [Next]_vars PROVE PowerInv'
  OBVIOUS
<1> USE DEF HoldShort, HoldIsBare, LetGoIsKnown, ReasonIsCause, GateWasHeld
<1>1. CASE FnMoves
  BY <1>1 DEF FnMoves, PowerInv, tick, TypeOK
<1>2. CASE Wake \/ Fault \/ Watchdog \/ Flashed
  <2>1. PICK why \in Causes : Reset(why)
    BY <1>2 DEF Wake, Fault, Watchdog, Flashed, Causes
  <2>2. power # "boot"
    BY <1>2 DEF Wake, Fault, Watchdog, Flashed
  <2>3. ~fn' => letgo'
    <3>1. CASE Wake
      BY <3>1 DEF Wake
    <3>2. CASE Fault \/ Watchdog \/ Flashed
      <4>1. fn' = fn
        BY <3>2 DEF Fault, Watchdog, Flashed
      <4>2. letgo' = ~fn
        BY <3>2, Zenon DEF Fault, Watchdog, Flashed
      <4> QED
        BY <4>1, <4>2, Zenon
    <3> QED
      BY <1>2, <3>1, <3>2
  <2> QED
    BY <2>1, <2>2, <2>3, ResetPower
<1>3. CASE Plug
  <2>1. CASE power = "off" /\ usb'
    BY <1>3, <2>1, ResetPower DEF Plug
  <2>2. CASE ~(power = "off" /\ usb')
    <3>1. UNCHANGED <<power, reas, wdt, pressed, tick, cause, fn>>
          /\ letgo' = IF power = "off" THEN ~fn ELSE letgo
      BY <1>3, <2>2 DEF Plug
    <3> QED
      BY <3>1 DEF PowerInv, tick
  <2> QED
    BY <2>1, <2>2
<1>4. CASE Hang
  BY <1>4 DEF Hang, PowerInv, tick
<1>5. CASE Boot
  <2>1. CASE reas \cap {"OFF", "DOG"} # {}
    <3>1. EnterLoop /\ reas' = {} /\ UNCHANGED <<fn, usb, letgo>>
      BY <1>5, <2>1 DEF Boot
    <3> QED
      BY <3>1, PanelAssumption DEF EnterLoop, LoopReset, PowerInv
  <2>2. CASE reas \cap {"OFF", "DOG"} = {}
    BY <1>5, <2>2 DEF Boot, PowerInv, tick
  <2> QED
    BY <2>1, <2>2
<1>6. CASE GateHold
  BY <1>6, PanelAssumption DEF GateHold, PowerInv, tick, TypeOK
<1>7. CASE GateIdle
  BY <1>7 DEF GateIdle, PowerInv, tick
<1>8. CASE GateReleased
  BY <1>8, PanelAssumption DEF GateReleased, EnterLoop, LoopReset, PowerInv
<1>9. CASE ParkReleased
  BY <1>9 DEF ParkReleased, PowerInv, tick
<1>10. CASE PowerOff
  <2>1. CASE fn
    BY <1>10, <2>1, ResetPower DEF PowerOff
  <2>2. CASE ~fn
    BY <1>10, <2>2 DEF PowerOff, LoopReset, PowerInv
  <2> QED
    BY <2>1, <2>2
<1>11. CASE FnTick
  <2>1. held' <= bare'
    BY <1>11, PanelAssumption DEF FnTick, PowerInv, TypeOK
  <2>2. power' = "run" => held' < HoldTicks
    BY <1>11, PanelAssumption DEF FnTick, PowerInv, TypeOK
  <2>3. LetGoIsKnown'
    BY <1>11, PanelAssumption DEF FnTick, PowerInv, TypeOK
  <2>4. ReasonIsCause' /\ GateWasHeld'
    BY <1>11 DEF FnTick, PowerInv
  <2> QED
    BY <2>1, <2>2, <2>3, <2>4 DEF PowerInv
<1>12. CASE ScanTick
  BY <1>12 DEF ScanTick, PowerInv
<1>13. CASE Edge
  <2>1. held' <= bare' /\ held' < HoldTicks
    BY <1>13, PanelAssumption DEF Edge, PowerInv
  <2> QED
    BY <1>13, <2>1 DEF Edge, PowerInv
<1>14. CASE EndTick
  BY <1>14 DEF EndTick, PowerInv
<1>15. CASE UNCHANGED vars
  BY <1>15 DEF vars, tick, PowerInv
<1> QED
  BY <1>1, <1>2, <1>3, <1>4, <1>5, <1>6, <1>7, <1>8, <1>9, <1>10, <1>11, <1>12, <1>13,
     <1>14, <1>15 DEF Next, World, Firmware

LEMMA AlwaysPower == Spec => [](TypeOK /\ PowerInv)
<1>1. Init => TypeOK /\ PowerInv
  BY InitTypeOK, InitPower
<1>2. TypeOK /\ PowerInv /\ [Next]_vars => (TypeOK /\ PowerInv)'
  BY StepTypeOK, StepPower DEF PowerInv
<1> QED
  BY <1>1, <1>2, PTL DEF Spec

\* The panel's state has its types; in particular a hold that has reached its
\* length has left the loop, so no counter outgrows its bound.
THEOREM TypeCorrect == Spec => []TypeOK
BY AlwaysPower, PTL

\* Only a bare hold of a button that was up since the boot switches off,
\* whatever combos, bounces and faults came before (main.c, 895-906).
THEOREM OffByHold == Spec => OffAfterBareHold
<1>1. TypeOK /\ PowerInv /\ [Next]_vars =>
          [(power = "run" /\ power' = "park") => bare' = HoldTicks /\ letgo]_vars
  <2> SUFFICES ASSUME TypeOK, PowerInv, Next, power = "run", power' = "park"
               PROVE  bare' = HoldTicks /\ letgo
    OBVIOUS
  <2>1. FnTick
    BY DEF Next, World, Firmware, FnMoves, Wake, Plug, Fault, Hang, Watchdog, Flashed, Boot,
           GateHold, GateIdle, GateReleased, ParkReleased, PowerOff, ScanTick, Edge, EndTick,
           Reset
  <2>2. fn /\ func_armed /\ held' = held + 1 /\ held' >= HoldTicks
    BY <2>1, PanelAssumption DEF FnTick, TypeOK
  <2>3. bare' = HoldTicks
    BY <2>1, <2>2, PanelAssumption DEF FnTick, TypeOK, PowerInv, HoldIsBare
  <2> QED
    BY <2>2, <2>3 DEF PowerInv, LetGoIsKnown
<1> QED
  BY AlwaysPower, <1>1, PTL DEF Spec, OffAfterBareHold

\* The hold that switches off never wakes the device: Fn is seen up between
\* (main.c, 312-317).
THEOREM NoRebound == Spec => HoldDoesNotRebound
<1>1. PowerInv /\ [Next]_vars => [(power = "settle" /\ power' # power) => letgo]_vars
  BY DEF PowerInv, LetGoIsKnown
<1> QED
  BY AlwaysPower, <1>1, PTL DEF Spec, HoldDoesNotRebound

\* Both: who lets the device go off means it, and it stays off.
THEOREM OffMeant == Spec => OffIsMeant
BY OffByHold, NoRebound DEF OffIsMeant

\* The gate is passed by a wake of Fn, by the watchdog or by a full hold that
\* has ended, and the reasons of an earlier reset never open it.
THEOREM GateGuards == Spec => GateGuardsTheLoop
<1>1. TypeOK /\ PowerInv /\ [Next]_vars =>
          [(power # "run" /\ power' = "run") =>
              \/ power = "boot" /\ cause \in {"OFF", "DOG"}
              \/ power = "release" /\ ~fn /\ pressed = GateTicks]_vars
  <2> SUFFICES ASSUME TypeOK, PowerInv, Next, power # "run", power' = "run"
               PROVE  \/ power = "boot" /\ cause \in {"OFF", "DOG"}
                      \/ power = "release" /\ ~fn /\ pressed = GateTicks
    OBVIOUS
  <2>1. Boot \/ GateReleased
    BY DEF Next, World, Firmware, FnMoves, Wake, Plug, Fault, Hang, Watchdog, Flashed,
           GateHold, GateIdle, ParkReleased, PowerOff, FnTick, ScanTick, Edge, EndTick, Reset
  <2>2. CASE Boot
    <3>1. power = "boot" /\ reas \cap {"OFF", "DOG"} # {}
      BY <2>2 DEF Boot
    <3> QED
      BY <3>1 DEF PowerInv, ReasonIsCause
  <2>3. CASE GateReleased
    BY <2>3 DEF GateReleased, PowerInv, GateWasHeld
  <2> QED
    BY <2>1, <2>2, <2>3
<1> QED
  BY AlwaysPower, <1>1, PTL DEF Spec, GateGuardsTheLoop

-----------------------------------------------------------------------------
(* The scan, as the routing sees it.                                       *)

LEMMA LadderTyped == ASSUME TypeOK PROVE
    /\ btn.trk \in Debouncer /\ btn.vol \in Debouncer /\ btn.scans \in 0 .. DfuScans
    /\ age.trk \in 0 .. 3 /\ age.vol \in 0 .. 3
BY DEF TypeOK, ScanState

\* A commit needs two readings before it, and as many scans without an edge.
LEMMA CommitTakesScans ==
    ASSUME NEW d \in Debouncer, NEW raw \in MaybeButton, NEW n \in 0 .. 3, d.cnt <= n
    PROVE  LET e == Debounced(d, raw)
           IN  /\ e.committed # d.committed => n >= 2
               /\ e.cnt <= Older(n, e.committed # d.committed)
<1>1. d.cnt \in 0 .. 2 /\ d = [committed |-> d.committed, cand |-> d.cand, cnt |-> d.cnt]
  BY DEF Debouncer
<1>2. CASE raw = d.committed
  <2>1. Debounced(d, raw) = [committed |-> d.committed, cand |-> d.cand, cnt |-> 0]
    BY <1>1, <1>2 DEF Debounced
  <2> QED
    BY <2>1 DEF Older
<1>3. CASE raw # d.committed /\ raw = d.cand /\ d.cnt = 2
  <2>1. Debounced(d, raw) = [committed |-> raw, cand |-> d.cand, cnt |-> 0]
    BY <1>1, <1>3 DEF Debounced
  <2> QED
    BY <1>3, <2>1 DEF Older
<1>4. CASE raw # d.committed /\ raw = d.cand /\ d.cnt # 2
  <2>1. Debounced(d, raw) = [committed |-> d.committed, cand |-> d.cand, cnt |-> d.cnt + 1]
    BY <1>1, <1>4 DEF Debounced
  <2> QED
    BY <1>1, <1>4, <2>1 DEF Older
<1>5. CASE raw # d.committed /\ raw # d.cand
  <2>1. Debounced(d, raw) = [committed |-> d.committed, cand |-> raw, cnt |-> 1]
    BY <1>1, <1>5 DEF Debounced
  <2> QED
    BY <2>1 DEF Older
<1> QED
  BY <1>2, <1>3, <1>4, <1>5

\* A reading of nothing moves the debouncer towards nothing.
Towards(d, n) ==
    d.committed = NoButton \/ (n < 3 /\ d.cand = NoButton /\ d.cnt >= n)

LEMMA NothingAdvances ==
    ASSUME NEW d \in Debouncer, NEW n \in Nat, n > 0 => Towards(d, n)
    PROVE  Towards(Debounced(d, NoButton), n + 1)
<1>1. d.cnt \in 0 .. 2 /\ d = [committed |-> d.committed, cand |-> d.cand, cnt |-> d.cnt]
  BY DEF Debouncer
<1>2. CASE NoButton = d.committed
  <2>1. Debounced(d, NoButton) = [committed |-> d.committed, cand |-> d.cand, cnt |-> 0]
    BY <1>1, <1>2 DEF Debounced
  <2> QED
    BY <1>2, <2>1 DEF Towards
<1>3. CASE NoButton # d.committed /\ NoButton = d.cand /\ d.cnt = 2
  <2>1. Debounced(d, NoButton) = [committed |-> NoButton, cand |-> d.cand, cnt |-> 0]
    BY <1>1, <1>3 DEF Debounced
  <2> QED
    BY <2>1 DEF Towards
<1>4. CASE NoButton # d.committed /\ NoButton = d.cand /\ d.cnt # 2
  <2>1. Debounced(d, NoButton) = [committed |-> d.committed, cand |-> d.cand, cnt |-> d.cnt + 1]
    BY <1>1, <1>4 DEF Debounced
  <2> QED
    BY <1>1, <1>4, <2>1 DEF Towards
<1>5. CASE NoButton # d.committed /\ NoButton # d.cand
  <2>1. Debounced(d, NoButton) = [committed |-> d.committed, cand |-> NoButton, cnt |-> 1]
    BY <1>1, <1>5 DEF Debounced
  <2>2. n = 0
    BY <1>5 DEF Towards
  <2> QED
    BY <2>1, <2>2 DEF Towards
<1> QED
  BY <1>2, <1>3, <1>4, <1>5

LEMMA TowardsLess ==
    ASSUME NEW d \in Debouncer, NEW n \in Nat, Towards(d, n + 1)
    PROVE  Towards(d, n)
<1>1. d.cnt \in 0 .. 2
  BY DEF Debouncer
<1> QED
  BY <1>1 DEF Towards

\* The debouncers count no more readings than there were scans, and in the
\* combo's band the tracks ladder is on its way to nothing.
ScanInv ==
    /\ btn.trk.cnt <= age.trk /\ btn.vol.cnt <= age.vol
    /\ btn.scans > 0 => Towards(btn.trk, btn.scans)

LEMMA InitScan == Init => ScanInv
BY DEF Init, ScanInv, Released, Settled, Fresh

\* What a step does to the scan: nothing, a reset, or one scan.
LEMMA ScanSteps ==
    ASSUME [Next]_vars
    PROVE  UNCHANGED <<btn, age>> \/ (btn' = Released /\ age' = Fresh) \/ ScanTick
<1>1. CASE FnMoves \/ Hang \/ GateHold \/ GateIdle \/ ParkReleased
  BY <1>1 DEF FnMoves, Hang, GateHold, GateIdle, ParkReleased, tick
<1>2. CASE Wake \/ Fault \/ Watchdog \/ Flashed
  BY <1>2 DEF Wake, Fault, Watchdog, Flashed, Reset, LoopReset
<1>3. CASE Plug
  <2>1. CASE power = "off" /\ usb'
    BY <1>3, <2>1 DEF Plug, Reset, LoopReset
  <2>2. CASE ~(power = "off" /\ usb')
    BY <1>3, <2>2 DEF Plug, tick
  <2> QED
    BY <2>1, <2>2
<1>4. CASE Boot
  BY <1>4 DEF Boot, EnterLoop, LoopReset, tick
<1>5. CASE GateReleased
  BY <1>5 DEF GateReleased, EnterLoop, LoopReset
<1>6. CASE PowerOff
  BY <1>6 DEF PowerOff, Reset, LoopReset
<1>7. CASE FnTick \/ Edge \/ EndTick
  BY <1>7 DEF FnTick, Edge, EndTick
<1>8. CASE UNCHANGED vars
  BY <1>8 DEF vars, tick
<1> QED
  BY <1>1, <1>2, <1>3, <1>4, <1>5, <1>6, <1>7, <1>8 DEF Next, World, Firmware

\* One scan: each ladder takes one reading, the tracks' as nothing in the band.
LEMMA OneScan ==
    ASSUME TypeOK, ScanTick
    PROVE  \E t \in MaybeButton, v \in MaybeButton :
              /\ btn'.trk = Debounced(btn.trk, t) /\ btn'.vol = Debounced(btn.vol, v)
              /\ btn'.scans # 0 => t = NoButton /\ btn'.scans \in {btn.scans, btn.scans + 1}
              /\ btn'.scans # 0 => (btn'.scans = btn.scans + 1 \/ btn.scans > 0)
<1>1. PICK trk \in TrackCodes, vol \in VolCodes : btn' = Scanned(btn, trk, vol)
  BY DEF ScanTick
<1>2. trk \in Code /\ vol \in Code
  BY PanelAssumption
<1> DEFINE t == IF InDfuBand(trk) THEN NoButton ELSE DecodeTracks(trk)
<1>3. t \in MaybeButton
  <2>1. NoButton \in MaybeButton
    BY DEF MaybeButton
  <2>2. DecodeTracks(trk) \in MaybeButton
    BY <1>2, TracksTyped
  <2> QED
    BY <2>1, <2>2
<1>4. DecodeVol(vol) \in MaybeButton
  BY <1>2, VolTyped
<1>5. btn'.trk = Debounced(btn.trk, t) /\ btn'.vol = Debounced(btn.vol, DecodeVol(vol))
  BY <1>1 DEF Scanned
<1>6. btn'.scans = IF InDfuBand(trk) THEN (IF btn.scans < DfuScans THEN btn.scans + 1 ELSE DfuScans)
                   ELSE 0
  BY <1>1 DEF Scanned
<1>7. btn.scans \in 0 .. DfuScans
  BY LadderTyped
<1>8. btn'.scans # 0 => /\ t = NoButton /\ btn'.scans \in {btn.scans, btn.scans + 1}
                        /\ btn'.scans = btn.scans + 1 \/ btn.scans > 0
  BY <1>6, <1>7, DfuAssumption
<1> HIDE DEF t
<1> QED
  BY <1>3, <1>4, <1>5, <1>8

LEMMA StepScan == TypeOK /\ ScanInv /\ [Next]_vars => ScanInv'
<1> SUFFICES ASSUME TypeOK, ScanInv, [Next]_vars PROVE ScanInv'
  OBVIOUS
<1>1. CASE UNCHANGED <<btn, age>>
  BY <1>1 DEF ScanInv
<1>2. CASE btn' = Released /\ age' = Fresh
  BY <1>2 DEF ScanInv, Released, Settled, Fresh
<1>3. CASE ScanTick
  <2>1. PICK t \in MaybeButton, v \in MaybeButton :
              /\ btn'.trk = Debounced(btn.trk, t) /\ btn'.vol = Debounced(btn.vol, v)
              /\ btn'.scans # 0 => t = NoButton /\ btn'.scans \in {btn.scans, btn.scans + 1}
              /\ btn'.scans # 0 => (btn'.scans = btn.scans + 1 \/ btn.scans > 0)
    BY <1>3, OneScan
  <2>2. age' = [trk |-> Older(age.trk, btn'.trk.committed # btn.trk.committed),
                vol |-> Older(age.vol, btn'.vol.committed # btn.vol.committed)]
    BY <1>3 DEF ScanTick
  <2>3. btn'.trk.cnt <= age'.trk
    BY <2>1, <2>2, LadderTyped, CommitTakesScans DEF ScanInv
  <2>4. btn'.vol.cnt <= age'.vol
    BY <2>1, <2>2, LadderTyped, CommitTakesScans DEF ScanInv
  <2>5. btn'.scans > 0 => Towards(btn'.trk, btn'.scans)
    <3> SUFFICES ASSUME btn'.scans > 0 PROVE Towards(btn'.trk, btn'.scans)
      OBVIOUS
    <3>1. btn.scans \in Nat /\ btn'.scans \in Nat /\ btn.trk \in Debouncer
      BY LadderTyped, StepTypeOK, <2>1
    <3>5. btn'.trk \in Debouncer
      BY <2>1, <3>1, DebouncedTyped
    <3>2. Towards(btn'.trk, btn.scans + 1)
      BY <2>1, <3>1, NothingAdvances DEF ScanInv
    <3>3. CASE btn'.scans = btn.scans + 1
      BY <3>2, <3>3
    <3>4. CASE btn'.scans = btn.scans
      BY <3>1, <3>2, <3>4, <3>5, TowardsLess
    <3> QED
      BY <2>1, <3>1, <3>3, <3>4
  <2> QED
    BY <2>3, <2>4, <2>5 DEF ScanInv
<1> QED
  BY <1>1, <1>2, <1>3, ScanSteps

LEMMA AlwaysScan == Spec => [](TypeOK /\ ScanInv)
<1>1. Init => ScanInv
  BY InitScan
<1>2. TypeOK /\ ScanInv /\ [Next]_vars => ScanInv'
  BY StepScan
<1> QED
  BY <1>1, <1>2, TypeCorrect, PTL DEF Spec

\* The routing never sees a track pressed once the combo's band has lasted as
\* long as a debounce.
THEOREM ComboSilent == Spec => []ComboIsSilent
<1>1. TypeOK /\ ScanInv => ComboIsSilent
  BY LadderTyped DEF ScanInv, ComboIsSilent, Towards
<1> QED
  BY AlwaysScan, <1>1, PTL

\* The tracks ladder gives the edges that Notes assumes: one button at a time,
\* and two edges no closer than the debounce allows (buttons.c, 87-94).
THEOREM TrackEvents == Spec => ImplementsTrackEvents
<1>1. Init => TRACKS!Init
  BY DEF Init, TRACKS!Init, Released, Settled, Fresh
<1>2. TypeOK /\ TypeOK' /\ ScanInv /\ [Next]_vars => [TRACKS!Next]_<<btn.trk.committed, age.trk>>
  <2> SUFFICES ASSUME TypeOK, TypeOK', ScanInv, [Next]_vars
               PROVE  TRACKS!Next \/ UNCHANGED <<btn.trk.committed, age.trk>>
    OBVIOUS
  <2>1. CASE UNCHANGED <<btn, age>>
    BY <2>1
  <2>2. CASE btn' = Released /\ age' = Fresh
    BY <2>2 DEF Released, Settled, Fresh, TRACKS!Next, TRACKS!Restart
  <2>3. CASE ScanTick
    <3>1. PICK t \in MaybeButton : btn'.trk = Debounced(btn.trk, t)
      BY <2>3, OneScan
    <3>2. age'.trk = Older(age.trk, btn'.trk.committed # btn.trk.committed)
      BY <2>3 DEF ScanTick
    <3>3. CASE btn'.trk.committed = btn.trk.committed
      BY <3>2, <3>3, LadderTyped DEF Older, TRACKS!Next, TRACKS!Quiet
    <3>4. CASE btn'.trk.committed # btn.trk.committed
      <4>1. age.trk >= 2
        BY <3>1, <3>4, LadderTyped, CommitTakesScans DEF ScanInv
      <4>2. btn'.trk.committed \in MaybeButton
        BY DEF TypeOK, ScanState, Debouncer
      <4>3. age'.trk = 0
        BY <3>2, <3>4 DEF Older
      <4> QED
        BY <3>4, <4>1, <4>2, <4>3 DEF TRACKS!Next, TRACKS!Edge
    <3> QED
      BY <3>3, <3>4
  <2> QED
    BY <2>1, <2>2, <2>3, ScanSteps
<1> QED
  BY <1>1, <1>2, AlwaysScan, PTL DEF Spec, ImplementsTrackEvents, TRACKS!Spec

\* The same of the volume ladder, whose readings no combo hides.
THEOREM VolEvents == Spec => ImplementsVolEvents
<1>1. Init => VOLUME!Init
  BY DEF Init, VOLUME!Init, Released, Settled, Fresh
<1>2. TypeOK /\ TypeOK' /\ ScanInv /\ [Next]_vars => [VOLUME!Next]_<<btn.vol.committed, age.vol>>
  <2> SUFFICES ASSUME TypeOK, TypeOK', ScanInv, [Next]_vars
               PROVE  VOLUME!Next \/ UNCHANGED <<btn.vol.committed, age.vol>>
    OBVIOUS
  <2>1. CASE UNCHANGED <<btn, age>>
    BY <2>1
  <2>2. CASE btn' = Released /\ age' = Fresh
    BY <2>2 DEF Released, Settled, Fresh, VOLUME!Next, VOLUME!Restart
  <2>3. CASE ScanTick
    <3>1. PICK v \in MaybeButton : btn'.vol = Debounced(btn.vol, v)
      BY <2>3, OneScan
    <3>2. age'.vol = Older(age.vol, btn'.vol.committed # btn.vol.committed)
      BY <2>3 DEF ScanTick
    <3>3. CASE btn'.vol.committed = btn.vol.committed
      BY <3>2, <3>3, LadderTyped DEF Older, VOLUME!Next, VOLUME!Quiet
    <3>4. CASE btn'.vol.committed # btn.vol.committed
      <4>1. age.vol >= 2
        BY <3>1, <3>4, LadderTyped, CommitTakesScans DEF ScanInv
      <4>2. btn'.vol.committed \in MaybeButton
        BY DEF TypeOK, ScanState, Debouncer
      <4>3. age'.vol = 0
        BY <3>2, <3>4 DEF Older
      <4> QED
        BY <3>4, <4>1, <4>2, <4>3 DEF VOLUME!Next, VOLUME!Edge
    <3> QED
      BY <3>3, <3>4
  <2> QED
    BY <2>1, <2>2, <2>3, ScanSteps
<1> QED
  BY <1>1, <1>2, AlwaysScan, PTL DEF Spec, ImplementsVolEvents, VOLUME!Spec

\* Whatever noise the ladders carry and wherever a power transition or a reboot
\* cuts the scanning, both give the edges that Notes takes for granted.
THEOREM LaddersRefined == Spec => ImplementsLadderEvents
  BY TrackEvents, VolEvents DEF ImplementsLadderEvents

-----------------------------------------------------------------------------
(* The combo latch.                                                        *)

Releases(es, b) == \E k \in DOMAIN es : es[k].idx = b /\ ~es[k].pressed

Down == {btn.trk.committed, btn.vol.committed}

\* The edges are routed before the next scan, and a press still to be routed is
\* of a button that is down.
LatchInv ==
    /\ pc # "route" => evt = <<>>
    /\ \A k \in DOMAIN evt : evt[k].pressed => evt[k].idx \in Down
    /\ LatchIsDown

\* What one of two lists of edges says, both say.
LEMMA BothTell ==
    ASSUME NEW es \in Seq(Edges), NEW fs \in Seq(Edges)
    PROVE  /\ \A b : Releases(es, b) \/ Releases(fs, b) => Releases(es \o fs, b)
           /\ \A k \in DOMAIN (es \o fs) :
                 \/ \E i \in DOMAIN es : (es \o fs)[k] = es[i]
                 \/ \E i \in DOMAIN fs : (es \o fs)[k] = fs[i]
<1>1. /\ Len(es \o fs) = Len(es) + Len(fs)
      /\ \A i \in 1 .. Len(es) + Len(fs) :
            (es \o fs)[i] = IF i <= Len(es) THEN es[i] ELSE fs[i - Len(es)]
  BY ConcatProperties
<1>2. DOMAIN es = 1 .. Len(es) /\ DOMAIN fs = 1 .. Len(fs) /\ Len(es) \in Nat /\ Len(fs) \in Nat
  OBVIOUS
<1>3. DOMAIN (es \o fs) = 1 .. Len(es) + Len(fs)
  BY <1>1, ConcatProperties
<1>4. ASSUME NEW b, Releases(es, b) PROVE Releases(es \o fs, b)
  <2>1. PICK k \in DOMAIN es : es[k].idx = b /\ ~es[k].pressed
    BY <1>4 DEF Releases
  <2>2. k \in DOMAIN (es \o fs) /\ (es \o fs)[k] = es[k]
    BY <1>1, <1>2, <1>3
  <2> QED
    BY <2>1, <2>2 DEF Releases
<1>5. ASSUME NEW b, Releases(fs, b) PROVE Releases(es \o fs, b)
  <2>1. PICK k \in DOMAIN fs : fs[k].idx = b /\ ~fs[k].pressed
    BY <1>5 DEF Releases
  <2>2. Len(es) + k \in DOMAIN (es \o fs) /\ (es \o fs)[Len(es) + k] = fs[k]
    BY <1>1, <1>2, <1>3
  <2> QED
    BY <2>1, <2>2 DEF Releases
<1>6. ASSUME NEW k \in DOMAIN (es \o fs)
      PROVE  \/ \E i \in DOMAIN es : (es \o fs)[k] = es[i]
             \/ \E i \in DOMAIN fs : (es \o fs)[k] = fs[i]
  <2>1. CASE k <= Len(es)
    BY <1>1, <1>2, <1>3, <2>1
  <2>2. CASE ~(k <= Len(es))
    <3>1. k - Len(es) \in DOMAIN fs /\ (es \o fs)[k] = fs[k - Len(es)]
      BY <1>1, <1>2, <1>3, <2>2
    <3> QED
      BY <3>1
  <2> QED
    BY <2>1, <2>2
<1> QED
  BY <1>4, <1>5, <1>6

\* A ladder that leaves a button says so, and announces none but the new one.
LEMMA LadderTells ==
    ASSUME NEW old \in MaybeButton, NEW new \in MaybeButton
    PROVE  LET es == LadderEdges(old, new)
           IN  /\ old # new /\ old # NoButton => Releases(es, old)
               /\ \A k \in DOMAIN es : es[k].pressed => es[k].idx = new
<1> DEFINE rel == [idx |-> old, pressed |-> FALSE]
           prs == [idx |-> new, pressed |-> TRUE]
           A == IF old = NoButton THEN <<>> ELSE <<rel>>
           B == IF new = NoButton THEN <<>> ELSE <<prs>>
<1>1. A \in Seq(Edges) /\ B \in Seq(Edges)
  <2>1. old # NoButton => <<rel>> \in Seq(Edges)
    BY DEF Edges, MaybeButton
  <2>2. new # NoButton => <<prs>> \in Seq(Edges)
    BY DEF Edges, MaybeButton
  <2>3. <<>> \in Seq(Edges)
    OBVIOUS
  <2> QED
    BY <2>1, <2>2, <2>3
<1>2. CASE old = new
  BY <1>2 DEF LadderEdges
<1>3. CASE old # new
  <2>1. LadderEdges(old, new) = A \o B
    BY <1>3 DEF LadderEdges
  <2>2. old # NoButton => Releases(A, old)
    <3> SUFFICES ASSUME old # NoButton PROVE Releases(<<rel>>, old)
      OBVIOUS
    <3>1. 1 \in DOMAIN <<rel>> /\ <<rel>>[1] = rel
      OBVIOUS
    <3> QED
      BY <3>1 DEF Releases
  <2>3. \A k \in DOMAIN A : ~A[k].pressed
    OBVIOUS
  <2>4. \A k \in DOMAIN B : B[k].idx = new
    OBVIOUS
  <2> HIDE DEF A, B
  <2>5. \A k \in DOMAIN (A \o B) : (A \o B)[k].pressed => (A \o B)[k].idx = new
    BY <1>1, <2>3, <2>4, BothTell
  <2>6. old # NoButton => Releases(A \o B, old)
    BY <1>1, <2>2, BothTell
  <2> QED
    BY <2>1, <2>5, <2>6
<1> QED
  BY <1>2, <1>3

LEMMA ScanTells ==
    ASSUME NEW s \in ScanState, NEW u \in ScanState
    PROVE  LET es == ScanEdges(s, u)
           IN  /\ \A b \in ButtonIds :
                     (s.trk.committed = b /\ u.trk.committed # b)
                     \/ (s.vol.committed = b /\ u.vol.committed # b) => Releases(es, b)
               /\ \A k \in DOMAIN es :
                     es[k].pressed => es[k].idx \in {u.trk.committed, u.vol.committed}
<1> DEFINE A == LadderEdges(s.trk.committed, u.trk.committed)
           B == LadderEdges(s.vol.committed, u.vol.committed)
<1>1. /\ s.trk.committed \in MaybeButton /\ u.trk.committed \in MaybeButton
      /\ s.vol.committed \in MaybeButton /\ u.vol.committed \in MaybeButton
  BY DEF ScanState, Debouncer
<1>2. A \in Seq(Edges) /\ B \in Seq(Edges)
  BY <1>1, LadderEdgesTyped
<1>3. /\ s.trk.committed # u.trk.committed /\ s.trk.committed # NoButton
            => Releases(A, s.trk.committed)
      /\ \A k \in DOMAIN A : A[k].pressed => A[k].idx = u.trk.committed
  BY <1>1, LadderTells
<1>4. /\ s.vol.committed # u.vol.committed /\ s.vol.committed # NoButton
            => Releases(B, s.vol.committed)
      /\ \A k \in DOMAIN B : B[k].pressed => B[k].idx = u.vol.committed
  BY <1>1, LadderTells
<1>5. \A b \in ButtonIds : b # NoButton
  BY DEF ButtonIds, NoButton
<1>6. ScanEdges(s, u) = A \o B
  BY DEF ScanEdges
<1>7. /\ \A b : Releases(A, b) \/ Releases(B, b) => Releases(A \o B, b)
      /\ \A k \in DOMAIN (A \o B) :
            \/ \E i \in DOMAIN A : (A \o B)[k] = A[i]
            \/ \E i \in DOMAIN B : (A \o B)[k] = B[i]
  BY <1>2, BothTell
<1> HIDE DEF A, B
<1>8. ASSUME NEW b \in ButtonIds,
             \/ s.trk.committed = b /\ u.trk.committed # b
             \/ s.vol.committed = b /\ u.vol.committed # b
      PROVE  Releases(ScanEdges(s, u), b)
  BY <1>3, <1>4, <1>5, <1>6, <1>7, <1>8
<1>9. ASSUME NEW k \in DOMAIN (A \o B), (A \o B)[k].pressed
      PROVE  (A \o B)[k].idx \in {u.trk.committed, u.vol.committed}
  BY <1>3, <1>4, <1>7, <1>9
<1> QED
  BY <1>6, <1>8, <1>9

\* What a step does to the latch: nothing, a reset, a scan, or an edge.
LEMMA LatchSteps ==
    ASSUME TypeOK, LatchInv, [Next]_vars
    PROVE  \/ UNCHANGED <<btn, evt, combo>> /\ (pc' = pc \/ evt = <<>>)
           \/ evt' = <<>> /\ combo' = {}
           \/ ScanTick
           \/ Edge
<1>1. CASE FnMoves \/ Hang \/ GateHold \/ GateIdle \/ ParkReleased
  BY <1>1 DEF FnMoves, Hang, GateHold, GateIdle, ParkReleased, tick
<1>2. CASE Wake \/ Fault \/ Watchdog \/ Flashed
  BY <1>2 DEF Wake, Fault, Watchdog, Flashed, Reset, LoopReset
<1>3. CASE Plug
  <2>1. CASE power = "off" /\ usb'
    BY <1>3, <2>1 DEF Plug, Reset, LoopReset
  <2>2. CASE ~(power = "off" /\ usb')
    BY <1>3, <2>2 DEF Plug, tick
  <2> QED
    BY <2>1, <2>2
<1>4. CASE Boot
  BY <1>4 DEF Boot, EnterLoop, LoopReset, tick
<1>5. CASE GateReleased
  BY <1>5 DEF GateReleased, EnterLoop, LoopReset
<1>6. CASE PowerOff
  BY <1>6 DEF PowerOff, Reset, LoopReset
<1>7. CASE FnTick
  BY <1>7 DEF FnTick, LatchInv
<1>8. CASE EndTick
  BY <1>8 DEF EndTick
<1>9. CASE UNCHANGED vars
  BY <1>9 DEF vars, tick
<1> QED
  BY <1>1, <1>2, <1>3, <1>4, <1>5, <1>6, <1>7, <1>8, <1>9 DEF Next, World, Firmware

LEMMA StepLatch == TypeOK /\ TypeOK' /\ LatchInv /\ [Next]_vars => LatchInv'
<1> SUFFICES ASSUME TypeOK, TypeOK', LatchInv, [Next]_vars PROVE LatchInv'
  OBVIOUS
<1>1. CASE UNCHANGED <<btn, evt, combo>> /\ (pc' = pc \/ evt = <<>>)
  BY <1>1 DEF LatchInv, LatchIsDown, Down
<1>2. CASE evt' = <<>> /\ combo' = {}
  BY <1>2 DEF LatchInv, LatchIsDown
<1>3. CASE ScanTick
  <2>1. btn \in ScanState /\ btn' \in ScanState
    BY DEF TypeOK
  <2>2. evt' = ScanEdges(btn, btn') /\ combo' = combo /\ pc' = "route" /\ evt = <<>>
    BY <1>3 DEF ScanTick, LatchInv
  <2>3. \A k \in DOMAIN evt' : evt'[k].pressed => evt'[k].idx \in Down'
    BY <2>1, <2>2, ScanTells DEF Down
  <2>4. ASSUME NEW b \in combo PROVE b \in Down' \/ Releases(evt', b)
    <3>1. b \in Down /\ b \in ButtonIds
      BY <2>2 DEF LatchInv, LatchIsDown, Down, TypeOK
    <3> QED
      BY <2>1, <2>2, <3>1, ScanTells DEF Down
  <2>5. LatchIsDown'
    BY <2>2, <2>4 DEF LatchIsDown, Down, Releases
  <2> QED
    BY <2>2, <2>3, <2>5 DEF LatchInv
<1>4. CASE Edge
  <2>1. /\ evt \in Seq(Edges) /\ evt # <<>> /\ evt' = Tail(evt) /\ pc = "route"
        /\ pc' = pc /\ btn' = btn
    BY <1>4 DEF Edge, TypeOK, Edges
  <2>2. /\ DOMAIN evt = 1 .. Len(evt) /\ Len(evt) \in Nat \ {0} /\ Head(evt) = evt[1]
        /\ DOMAIN evt' = 1 .. Len(evt) - 1
        /\ \A k \in 1 .. Len(evt) - 1 : evt'[k] = evt[k + 1]
    BY <2>1, HeadTailProperties
  <2>3. \A k \in DOMAIN evt' : evt'[k].pressed => evt'[k].idx \in Down'
    <3>1. \A k \in DOMAIN evt' : k + 1 \in DOMAIN evt /\ evt'[k] = evt[k + 1]
      BY <2>2
    <3> QED
      BY <2>1, <3>1 DEF LatchInv, Down
  <2>4. ASSUME NEW b \in combo' PROVE b \in Down \/ Releases(evt', b)
    <3>1. CASE Head(evt).pressed /\ b = Head(evt).idx
      BY <2>2, <3>1 DEF LatchInv
    <3>2. CASE ~(Head(evt).pressed /\ b = Head(evt).idx)
      <4>1. b \in combo
        BY <1>4, <3>2 DEF Edge
      <4>2. ~(~Head(evt).pressed /\ b = Head(evt).idx)
        BY <1>4 DEF Edge
      <4>3. CASE Releases(evt, b)
        <5>1. PICK k \in DOMAIN evt : evt[k].idx = b /\ ~evt[k].pressed
          BY <4>3 DEF Releases
        <5>2. k # 1
          BY <2>2, <4>2, <5>1
        <5>3. k - 1 \in DOMAIN evt' /\ evt'[k - 1] = evt[k]
          BY <2>2, <5>2
        <5> QED
          BY <5>1, <5>3 DEF Releases
      <4> QED
        BY <4>1, <4>3 DEF LatchInv, LatchIsDown, Down, Releases
    <3> QED
      BY <3>1, <3>2
  <2>5. LatchIsDown'
    BY <2>1, <2>4 DEF LatchIsDown, Down, Releases
  <2> QED
    BY <2>1, <2>3, <2>5 DEF LatchInv
<1> QED
  BY <1>1, <1>2, <1>3, <1>4, LatchSteps

\* A consumed press takes its own release with it and no other (mode.c, 45).
THEOREM LatchDown == Spec => []LatchIsDown
<1>1. Init => LatchInv
  BY DEF Init, LatchInv, LatchIsDown
<1>2. TypeOK /\ TypeOK' /\ LatchInv /\ [Next]_vars => LatchInv'
  BY StepLatch
<1>3. LatchInv => LatchIsDown
  BY DEF LatchInv
<1> QED
  BY <1>1, <1>2, <1>3, TypeCorrect, PTL DEF Spec
=============================================================================
