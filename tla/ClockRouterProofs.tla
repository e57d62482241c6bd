-------------------------- MODULE ClockRouterProofs --------------------------
(***************************************************************************)
(* Proofs about the clock router, for every gap, loop period and wrap of   *)
(* the microsecond clock, and every interleaving of its three contexts.    *)
(***************************************************************************)
EXTENDS ClockTempo, TLAPS

-----------------------------------------------------------------------------
(* Types.                                                                  *)

LEMMA InitTypeOK == Init => TypeOK
<1> SUFFICES ASSUME Init PROVE TypeOK
  OBVIOUS
<1>1. 0 \in 0 .. Wrap - 1 /\ 0 \in 0 .. Period /\ Gone \in 0 .. Gone
  BY ClockAssumption DEF Gone
<1>2. FreshCtl \in Ctl
  BY <1>1 DEF FreshCtl, Ctl
<1> QED
  BY <1>1, <1>2 DEF Init, TypeOK, Places

LEMMA StepTypeOK == TypeOK /\ [Next]_vars => TypeOK'
<1> SUFFICES ASSUME TypeOK, [Next]_vars PROVE TypeOK'
  OBVIOUS
<1>c. FreshCtl \in Ctl
  BY ClockAssumption DEF FreshCtl, Ctl
<1> USE DEF TypeOK, ghosts
<1>1. CASE Tick
  <2>1. now' \in 0 .. Wrap - 1
    BY <1>1, ClockAssumption DEF Tick
  <2>2. since' \in 0 .. Period /\ quiet' \in 0 .. Gone
    BY <1>1, ClockAssumption DEF Tick, Gone
  <2>3. UNCHANGED <<clock_on, ctl, gen_emit, running, pc, t, owner, raced>>
    BY <1>1 DEF Tick
  <2> QED
    BY <2>1, <2>2, <2>3
<1>2. CASE ExtClock
  <2>1. ctl' \in Ctl
    BY <1>2 DEF ExtClock, Ctl
  <2>2. quiet' \in 0 .. Gone
    BY <1>2, ClockAssumption DEF ExtClock, Gone
  <2>3. raced' \in BOOLEAN
    BY <1>2 DEF ExtClock
  <2>4. gen_emit' \in BOOLEAN /\ owner' \in {"gen", "ext"}
        /\ UNCHANGED <<clock_on, running, pc, t, now, since>>
    BY <1>2 DEF ExtClock
  <2> QED
    BY <2>1, <2>2, <2>3, <2>4
<1>3. CASE ServiceSkip
  BY <1>3, ClockAssumption DEF ServiceSkip
<1>4. CASE ServiceStamp
  BY <1>4 DEF ServiceStamp, Places
<1>5. CASE ServiceLocked
  <2>1. ctl' \in Ctl
    BY <1>5 DEF ServiceLocked, Ctl
  <2>2. gen_emit' \in BOOLEAN
    BY <1>5, Zenon DEF ServiceLocked
  <2>3. owner' \in {"gen", "ext"} /\ pc' \in Places
    BY <1>5 DEF ServiceLocked, Places
  <2>4. since' \in 0 .. Period
    BY <1>5, ClockAssumption DEF ServiceLocked
  <2>5. UNCHANGED <<clock_on, running, t, now, quiet, raced>>
    BY <1>5 DEF ServiceLocked
  <2> QED
    BY <2>1, <2>2, <2>3, <2>4, <2>5
<1>6. CASE ApplyEnable
  BY <1>6 DEF ApplyEnable, Places
<1>7. CASE ApplyEmit
  BY <1>7 DEF ApplyEmit, Places
<1>8. CASE ApplyInit
  BY <1>8, <1>c DEF ApplyInit, Places
<1>9. CASE ApplyOn
  BY <1>9 DEF ApplyOn, Places
<1>10. CASE ApplyDisable
  BY <1>10 DEF ApplyDisable, Places
<1>11. CASE ApplyStop
  BY <1>11 DEF ApplyStop, Places
<1>12. CASE ApplyClear
  BY <1>12, <1>c DEF ApplyClear, Places
<1>13. CASE UNCHANGED vars
  BY <1>13 DEF vars
<1> QED
  BY <1>1, <1>2, <1>3, <1>4, <1>5, <1>6, <1>7, <1>8, <1>9, <1>10, <1>11, <1>12,
     <1>13 DEF Next, Service, ApplyFinish

\* Every reachable state is of its type: the modular clock stays in its width
\* and the selector's record is whole at every preemption.
THEOREM TypeCorrect == Spec => []TypeOK
BY InitTypeOK, StepTypeOK, PTL DEF Spec

-----------------------------------------------------------------------------
(* Silence: beside a master, and without a clock.  Both are inductive only *)
(* with what holds inside apply_profile and at the lock.                   *)

\* What the main thread's place says of a profile without a clock.
OffAtPlace ==
    /\ pc = "stamped" => clock_on
    /\ pc \in {"stop", "clear"} => ~clock_on
    /\ pc = "clear" => ~running
    /\ (pc \in {"on", "idle"} /\ ~clock_on) => ctl = FreshCtl
    /\ (pc = "idle" /\ ~clock_on) => ~running

\* The generator is shut beside a master even while the counter is stopped, or
\* a re-enable would start it with the gate open.
ThruIsShut == (ctl.mode = "thru" /\ pc # "init") => ~gen_emit

SilenceInv == ThruIsShut /\ OffAtPlace

LEMMA InitSilence == Init => SilenceInv
BY DEF Init, SilenceInv, ThruIsShut, OffAtPlace, FreshCtl

LEMMA StepSilence == TypeOK /\ SilenceInv /\ [Next]_vars => SilenceInv'
<1> SUFFICES ASSUME TypeOK, SilenceInv, [Next]_vars PROVE SilenceInv'
  OBVIOUS
<1> USE DEF SilenceInv, ThruIsShut, OffAtPlace, ghosts
<1>1. CASE Tick \/ UNCHANGED vars
  BY <1>1 DEF Tick, vars
\* The tick silences the generator before it marks the master present, and
\* nothing arrives while the profile has no clock.
<1>2. CASE ExtClock
  BY <1>2 DEF ExtClock
<1>3. CASE ServiceSkip \/ ServiceStamp
  BY <1>3 DEF ServiceSkip, ServiceStamp
\* Under the lock the selector is read and the generator resumed together.
<1>4. CASE ServiceLocked
  <2>1. clock_on' /\ pc' = "idle" /\ running' = running
    BY <1>4 DEF ServiceLocked
  <2>2. ctl'.mode = "thru" => ctl.mode = "thru" /\ gen_emit' = gen_emit
    BY <1>4 DEF ServiceLocked, TypeOK, Ctl
  <2>3. pc = "stamped"
    BY <1>4 DEF ServiceLocked
  <2> QED
    BY <2>1, <2>2, <2>3
<1>5. CASE ApplyEnable
  BY <1>5 DEF ApplyEnable
<1>6. CASE ApplyEmit
  BY <1>6 DEF ApplyEmit
<1>7. CASE ApplyInit
  BY <1>7 DEF ApplyInit, FreshCtl
<1>8. CASE ApplyOn
  BY <1>8 DEF ApplyOn
<1>9. CASE ApplyDisable
  BY <1>9 DEF ApplyDisable
<1>10. CASE ApplyStop
  BY <1>10 DEF ApplyStop
<1>11. CASE ApplyClear
  BY <1>11 DEF ApplyClear, FreshCtl
<1> QED
  BY <1>1, <1>2, <1>3, <1>4, <1>5, <1>6, <1>7, <1>8, <1>9, <1>10, <1>11
     DEF Next, Service, ApplyFinish

LEMMA AlwaysSilence == Spec => [](TypeOK /\ SilenceInv)
<1>1. Init => TypeOK /\ SilenceInv
  BY InitTypeOK, InitSilence
<1>2. TypeOK /\ SilenceInv /\ [Next]_vars => (TypeOK /\ SilenceInv)'
  BY StepTypeOK, StepSilence
<1> QED
  BY <1>1, <1>2, PTL DEF Spec

\* In every interleaving, at every preemption point but the one inside
\* apply_profile, an external master's clock is the only one.
THEOREM Silent == Spec => []ThruIsSilent
<1>1. SilenceInv => ThruIsSilent
  BY DEF SilenceInv, ThruIsShut, ThruIsSilent, GenTicks
<1> QED
  BY AlwaysSilence, <1>1, PTL

\* No profile without a clock ever leaves the counter running or a master's
\* mark behind, whatever cut in between the statements of apply_profile.
THEOREM Disabled == Spec => []DisabledIsSilent
<1>1. SilenceInv => DisabledIsSilent
  BY DEF SilenceInv, OffAtPlace, DisabledIsSilent
<1> QED
  BY AlwaysSilence, <1>1, PTL

-----------------------------------------------------------------------------
(* Two clocks.  Modular time agrees with true time as long as the gap has  *)
(* not passed; but for the race, the selector then knows the master.       *)

\* The stamp k units after the tick stamped "from".
After(from, k) == IF from + k < Wrap THEN from + k ELSE from + k - Wrap

LEMMA NextStamp ==
    ASSUME NEW x \in 0 .. Wrap - 1
    PROVE  (x + 1) % Wrap = After(x, 1)
<1>1. CASE x + 1 < Wrap
  BY <1>1, ClockAssumption DEF After
<1>2. CASE x + 1 = Wrap
  BY <1>2, ClockAssumption DEF After
<1> QED
  BY <1>1, <1>2, ClockAssumption

LEMMA StampsApart ==
    ASSUME NEW x \in 0 .. Wrap - 1, NEW k \in 0 .. Wrap - 1
    PROVE  Elapsed(After(x, k), x) = k
<1>1. CASE x + k < Wrap
  BY <1>1, ClockAssumption DEF After, Elapsed
<1>2. CASE x + k >= Wrap
  <2>1. After(x, k) - x = k - Wrap
    BY <1>2, ClockAssumption DEF After
  <2>2. (k - Wrap) % Wrap = k
    BY ClockAssumption
  <2> QED
    BY <2>1, <2>2 DEF Elapsed
<1> QED
  BY <1>1, <1>2, ClockAssumption

\* What is known while the master is heard and its last tick did not race.
Heard == owner = "ext" /\ ~raced

StampsAreTrue ==
    Heard => /\ ctl.mode = "thru"
             /\ quiet <= Gap => now = After(ctl.last, quiet)
             /\ quiet <= Gap /\ pc = "stamped" => \E k \in 0 .. quiet : t = After(ctl.last, k)

LEMMA StepStamps ==
    TypeOK /\ TypeOK' /\ StampsAreTrue /\ [Next]_vars => StampsAreTrue'
<1> SUFFICES ASSUME TypeOK, TypeOK', StampsAreTrue, [Next]_vars, Heard' PROVE
        /\ ctl'.mode = "thru"
        /\ quiet' <= Gap => now' = After(ctl'.last, quiet')
        /\ quiet' <= Gap /\ pc' = "stamped" => \E k \in 0 .. quiet' : t' = After(ctl'.last, k)
  BY DEF StampsAreTrue
<1>t. /\ ctl.last \in 0 .. Wrap - 1 /\ now \in 0 .. Wrap - 1 /\ quiet \in 0 .. Gone
      /\ Wrap \in Nat /\ Gap \in Nat /\ Gone < Wrap /\ Gone = Gap + 1
  BY ClockAssumption DEF TypeOK, Ctl, Gone
<1> USE DEF ghosts
<1>1. CASE Tick
  <2>1. Heard /\ UNCHANGED <<ctl, pc, t>> /\ now' = After(now, 1)
    BY <1>1, <1>t, NextStamp DEF Tick, Heard
  <2>2. quiet' <= Gap => quiet' = quiet + 1 /\ quiet <= Gap
    BY <1>1, <1>t DEF Tick
  <2>3. ctl'.mode = "thru"
    BY <2>1 DEF StampsAreTrue
  <2>4. ASSUME quiet' <= Gap PROVE now' = After(ctl'.last, quiet')
    BY <1>t, <2>1, <2>2, <2>4 DEF StampsAreTrue, After
  <2>5. ASSUME quiet' <= Gap, pc' = "stamped"
        PROVE  \E k \in 0 .. quiet' : t' = After(ctl'.last, k)
    <3>1. PICK k \in 0 .. quiet : t = After(ctl.last, k)
      BY <2>1, <2>2, <2>5 DEF StampsAreTrue
    <3>2. k \in 0 .. quiet'
      BY <1>t, <2>2, <2>5
    <3> QED
      BY <2>1, <3>1, <3>2
  <2> QED
    BY <2>3, <2>4, <2>5
\* A tick that did not race came with the stamp, or outside the lock.
<1>2. CASE ExtClock
  <2>1. ctl'.mode = "thru" /\ ctl'.last = now /\ quiet' = 0 /\ now' = now /\ t' = t
    BY <1>2 DEF ExtClock
  <2>2. now = After(now, 0)
    BY <1>t DEF After
  <2>3. pc' = "stamped" => t = now
    BY <1>2 DEF ExtClock, Heard
  <2>4. 0 \in 0 .. quiet'
    BY <2>1
  <2> QED
    BY <2>1, <2>2, <2>3, <2>4
<1>3. CASE ServiceStamp
  <2>1. Heard /\ UNCHANGED <<ctl, now, quiet>> /\ t' = now
    BY <1>3 DEF ServiceStamp, Heard
  <2>2. quiet \in 0 .. quiet
    BY <1>t
  <2> QED
    BY <2>1, <2>2 DEF StampsAreTrue
\* At the lock the master is heard only within the gap, and so does not age out.
<1>4. CASE ServiceLocked
  <2>1. Heard /\ quiet <= Gap /\ pc = "stamped" /\ pc' = "idle" /\ UNCHANGED <<now, quiet>>
    BY <1>4, <1>t DEF ServiceLocked, Heard, TypeOK
  <2>2. PICK k \in 0 .. quiet : t = After(ctl.last, k)
    BY <2>1 DEF StampsAreTrue
  <2>3. Elapsed(t, ctl.last) = k /\ k <= Gap
    BY <1>t, <2>1, <2>2, StampsApart
  <2>4. ctl' = ctl
    BY <1>4, <1>t, <2>3 DEF ServiceLocked, AgedOut
  <2> QED
    BY <2>1, <2>4 DEF StampsAreTrue
<1>5. CASE ServiceSkip \/ ApplyEnable \/ ApplyEmit \/ ApplyOn \/ ApplyDisable \/ ApplyStop
  <2>1. Heard /\ UNCHANGED <<ctl, now, quiet>> /\ pc' # "stamped"
    <3>1. CASE ServiceSkip \/ ApplyEnable \/ ApplyEmit
      BY <3>1 DEF ServiceSkip, ApplyEnable, ApplyEmit, Heard, TypeOK
    <3>2. CASE ApplyOn \/ ApplyDisable \/ ApplyStop
      BY <3>2 DEF ApplyOn, ApplyDisable, ApplyStop, Heard, TypeOK
    <3> QED
      BY <1>5, <3>1, <3>2
  <2> QED
    BY <2>1 DEF StampsAreTrue
<1>6. CASE ApplyInit \/ ApplyClear
  BY <1>6 DEF ApplyInit, ApplyClear, Heard
<1>7. CASE UNCHANGED vars
  BY <1>7 DEF vars, StampsAreTrue, Heard
<1> QED
  BY <1>1, <1>2, <1>3, <1>4, <1>5, <1>6, <1>7 DEF Next, Service, ApplyFinish

\* Only a tick between the stamp and the lock of clock_router_service makes the
\* generator sound beside its master, for every gap and every wrap of the clock.
THEOREM OnlyByRace == Spec => []TwoClocksOnlyByStampRace
<1>1. Init => StampsAreTrue
  BY DEF Init, StampsAreTrue, Heard
<1>2. TypeOK /\ TypeOK' /\ StampsAreTrue /\ [Next]_vars => StampsAreTrue'
  BY StepStamps
<1>3. SilenceInv /\ StampsAreTrue => TwoClocksOnlyByStampRace
  BY DEF SilenceInv, ThruIsShut, StampsAreTrue, Heard, TwoClocksOnlyByStampRace, GenTicks
<1> QED
  BY <1>1, <1>2, <1>3, TypeCorrect, AlwaysSilence, PTL DEF Spec

-----------------------------------------------------------------------------
(* The tempo, and what it leaves of the router.                            *)

LEMMA TempoStep == [TNext]_tvars => [Next]_vars
BY DEF TNext, tvars, TTick, TExtClock, TServiceSkip, TServiceStamp, TServiceLocked,
       TApplyEnable, TApplyDisable, TApplyFinish, TApplyEmit, TApplyInit, TApplyOn,
       TApplyStop, TApplyClear, HandSet, Next, Service, ApplyFinish

\* The tempo changes nothing of what the router does (clock_router.c): each
\* theorem above about Spec is one about TSpec.
THEOREM TempoRefines == TSpec => Spec
<1>1. TInit => Init
  BY DEF TInit
<1> QED
  BY <1>1, TempoStep, PTL DEF TSpec, Spec

LEMMA ClampTyped == ASSUME NEW us \in Nat PROVE UsToBpm(us) \in BpmMin .. BpmMax
<1>1. CASE us = 0
  BY <1>1, TempoAssumption DEF UsToBpm
<1>2. CASE us # 0
  <2>1. Micros \div us \in Int
    BY <1>2, TempoAssumption
  <2> QED
    BY <1>2, <2>1, TempoAssumption DEF UsToBpm, Clamp
<1> QED
  BY <1>1, <1>2

LEMMA StepTempo == TypeOK /\ TempoOK /\ [TNext]_tvars => TempoOK'
<1> SUFFICES ASSUME TypeOK, TempoOK, [TNext]_tvars PROVE TempoOK'
  OBVIOUS
<1>t. /\ BpmMin \in Nat \ {0} /\ 0 \in 0 .. Wrap - 1 /\ Gone \in 0 .. Gone
      /\ ivl \in Nat /\ quiet \in 0 .. Gone
  BY ClockAssumption, TempoAssumption DEF TempoOK, TypeOK, Gone
<1>b. \A bpm \in BpmMin .. BpmMax : bpm # 0
  BY <1>t
<1>1. CASE TExtClock
  <2>1. Elapsed(now, ctl.last) \in 0 .. Wrap - 1
    <3>1. now - ctl.last \in Int /\ Wrap \in Nat \ {0}
      BY ClockAssumption DEF TypeOK, Ctl
    <3> QED
      BY <3>1 DEF Elapsed
  <2>2. ivl' \in 0 .. Wrap - 1
    BY <1>1, <2>1 DEF TExtClock, TempoOK
  <2>3. have_prev' \in BOOLEAN /\ beats' \in 0 .. 2 /\ gap' \in 0 .. Gone
        /\ UNCHANGED <<cur_bpm, running>>
    BY <1>1, <1>t DEF TExtClock, ExtClock
  <2> QED
    BY <2>2, <2>3 DEF TempoOK
<1>2. CASE TServiceLocked
  <2>1. UNCHANGED <<running, have_prev, ivl, beats, gap>>
    BY <1>2 DEF TServiceLocked, ServiceLocked
  <2>2. cur_bpm' \in BpmMin .. BpmMax \/ cur_bpm' = cur_bpm
    BY <1>2, <1>t, ClampTyped DEF TServiceLocked
  <2> QED
    BY <1>b, <2>1, <2>2 DEF TempoOK
<1>3. CASE TApplyEnable
  <2>1. cur_bpm' \in BpmMin .. BpmMax /\ UNCHANGED <<have_prev, ivl, beats, gap>>
    BY <1>3, TempoAssumption DEF TApplyEnable
  <2> QED
    BY <1>b, <2>1 DEF TempoOK
<1>4. CASE HandSet
  <2>1. cur_bpm' \in BpmMin .. BpmMax /\ UNCHANGED <<have_prev, ivl, beats, gap>>
    BY <1>4, TempoAssumption DEF HandSet
  <2> QED
    BY <1>b, <2>1 DEF TempoOK
<1>5. CASE TApplyInit \/ TApplyClear
  <2>1. Forget /\ running' = running
    BY <1>5 DEF TApplyInit, TApplyClear, ApplyInit, ApplyClear
  <2>2. have_prev' = FALSE /\ ivl' = 0 /\ beats' = 0 /\ gap' = Gone /\ cur_bpm' = cur_bpm
    BY <2>1 DEF Forget
  <2>3. 0 \in 0 .. 2
    OBVIOUS
  <2> QED
    BY <1>t, <2>1, <2>2, <2>3 DEF TempoOK
<1>6. CASE TApplyStop
  BY <1>6 DEF TApplyStop, ApplyStop, tempo, TempoOK
<1>7. CASE UNCHANGED <<running, tempo>>
  BY <1>7 DEF tempo, TempoOK
<1>8. TTick \/ TServiceSkip \/ TServiceStamp \/ TApplyDisable \/ TApplyEmit \/ TApplyOn
         \/ UNCHANGED tvars => UNCHANGED <<running, tempo>>
  BY DEF TTick, TServiceSkip, TServiceStamp, TApplyDisable, TApplyEmit, TApplyOn, tvars, vars,
         Tick, ServiceSkip, ServiceStamp, ApplyDisable, ApplyEmit, ApplyOn
<1> QED
  BY <1>1, <1>2, <1>3, <1>4, <1>5, <1>6, <1>7, <1>8 DEF TNext, TApplyFinish

\* A counter that runs has a tempo, and each tempo is one the timer can be set
\* to, whatever interval a master left (clockgen.c, the clamp of us_to_bpm).
THEOREM TempoCorrect == TSpec => []TempoOK
<1>1. TInit => TempoOK /\ Init
  <2>1. 0 \in 0 .. Wrap - 1 /\ Gone \in 0 .. Gone
    BY ClockAssumption DEF Gone
  <2> SUFFICES ASSUME TInit PROVE TempoOK /\ Init
    OBVIOUS
  <2>2. Init /\ running = FALSE
    BY DEF TInit, Init
  <2>3. cur_bpm = 0 /\ have_prev = FALSE /\ ivl = 0 /\ beats = 0 /\ gap = Gone
    BY DEF TInit
  <2>4. 0 \in 0 .. 2
    OBVIOUS
  <2> QED
    BY <2>1, <2>2, <2>3, <2>4 DEF TempoOK
<1> QED
  BY <1>1, InitTypeOK, StepTypeOK, TempoStep, StepTempo, PTL DEF TSpec

-----------------------------------------------------------------------------
(* What the fallback plays.  The interval that is measured is the one that *)
(* passed, and the one that is taken over is a master's.                   *)

BeatInv ==
    \* A clock that is on, or is being turned on, runs.
    /\ clock_on \/ pc \in {"emit", "init", "on"} => running
    /\ pc = "stamped" => clock_on
    /\ pc \in {"stop", "clear"} => ~clock_on
    \* The stamp of a master's last tick is true until the gap has passed.
    /\ ctl.present => have_prev
    /\ have_prev /\ quiet <= Gap => now = After(ctl.last, quiet)
    /\ beats = 2 /\ gap <= Gap => ivl = gap
    \* A selector that gave up its master before the gap was reset, and has
    \* measured nothing.
    /\ ctl.present /\ quiet <= Gap => owner = "ext"
    /\ ctl.mode = "gen" /\ ~gen_emit => ivl = 0

LEMMA InitBeat == TInit => BeatInv
<1>1. 0 <= Gap /\ ~(Gone <= Gap)
  BY ClockAssumption DEF Gone
<1> QED
  BY <1>1 DEF TInit, Init, BeatInv, FreshCtl

LEMMA StepBeat == TypeOK /\ TypeOK' /\ TempoOK /\ BeatInv /\ [TNext]_tvars => BeatInv'
<1> SUFFICES ASSUME TypeOK, TypeOK', TempoOK, BeatInv, [TNext]_tvars PROVE BeatInv'
  OBVIOUS
<1>t. /\ ctl.last \in 0 .. Wrap - 1 /\ now \in 0 .. Wrap - 1 /\ quiet \in 0 .. Gone
      /\ Wrap \in Nat /\ Gap \in Nat /\ Gone < Wrap /\ Gone = Gap + 1
  BY ClockAssumption DEF TypeOK, Ctl, Gone
<1> USE DEF BeatInv, ghosts, tempo
<1>1. CASE TTick
  <2>1. UNCHANGED <<clock_on, ctl, gen_emit, running, pc, owner, tempo>> /\ now' = After(now, 1)
    BY <1>1, <1>t, NextStamp DEF TTick, Tick
  <2>2. quiet' <= Gap => quiet' = quiet + 1 /\ quiet <= Gap
    BY <1>1, <1>t DEF TTick, Tick
  <2>3. have_prev' /\ quiet' <= Gap => now' = After(ctl'.last, quiet')
    BY <1>t, <2>1, <2>2 DEF After
  <2> QED
    BY <2>1, <2>2, <2>3
<1>2. CASE TExtClock
  <2>1. /\ clock_on /\ gen_emit' = FALSE /\ owner' = "ext" /\ quiet' = 0
        /\ ctl' = [mode |-> "thru", present |-> TRUE, last |-> now]
        /\ UNCHANGED <<clock_on, running, pc, now>>
    BY <1>2 DEF TExtClock, ExtClock
  <2>2. /\ have_prev' = TRUE /\ gap' = quiet
        /\ beats' = IF ~ctl.present THEN 1 ELSE 2
        /\ ivl' = IF have_prev THEN Elapsed(now, ctl.last) ELSE ivl
    BY <1>2 DEF TExtClock
  <2>3. now' = After(ctl'.last, quiet')
    BY <1>t, <2>1 DEF After
  <2>4. beats' = 2 /\ gap' <= Gap => ivl' = gap'
    <3> SUFFICES ASSUME beats' = 2, gap' <= Gap PROVE ivl' = gap'
      OBVIOUS
    <3>1. have_prev /\ quiet <= Gap
      BY <2>2
    <3>2. Elapsed(now, ctl.last) = quiet
      BY <1>t, <3>1, StampsApart
    <3> QED
      BY <2>2, <3>1, <3>2
  <2> QED
    BY <2>1, <2>2, <2>3, <2>4
<1>3. CASE TServiceSkip \/ TServiceStamp
  BY <1>3 DEF TServiceSkip, TServiceStamp, ServiceSkip, ServiceStamp
<1>4. CASE TServiceLocked
  <2>1. /\ pc' = "idle" /\ gen_emit' = (gen_emit \/ ctl'.mode = "gen")
        /\ UNCHANGED <<clock_on, running, now, quiet, have_prev, ivl, beats, gap>>
    BY <1>4 DEF TServiceLocked, ServiceLocked
  <2>2. /\ ctl'.last = ctl.last
        /\ ctl'.present => ctl.present
    BY <1>4 DEF TServiceLocked, ServiceLocked, TypeOK, Ctl
  <2>3. owner' = IF quiet > Gap THEN "gen" ELSE owner
    BY <1>4 DEF TServiceLocked, ServiceLocked
  <2>4. quiet' <= Gap => owner' = owner
    BY <1>t, <2>1, <2>3
  <2> QED
    BY <2>1, <2>2, <2>4
<1>5. CASE TApplyEnable \/ TApplyEmit \/ TApplyOn
  <2>1. CASE TApplyEnable
    BY <2>1 DEF TApplyEnable, ApplyEnable
  <2>2. CASE TApplyEmit
    BY <2>2 DEF TApplyEmit, ApplyEmit
  <2>3. CASE TApplyOn
    BY <2>3 DEF TApplyOn, ApplyOn
  <2> QED
    BY <1>5, <2>1, <2>2, <2>3
<1>6. CASE TApplyDisable \/ TApplyStop
  <2>1. CASE TApplyDisable
    BY <2>1 DEF TApplyDisable, ApplyDisable
  <2>2. CASE TApplyStop
    BY <2>2 DEF TApplyStop, ApplyStop
  <2> QED
    BY <1>6, <2>1, <2>2
<1>7. CASE TApplyInit \/ TApplyClear
  <2>1. /\ ctl' = FreshCtl /\ UNCHANGED <<clock_on, running>>
        /\ have_prev' = FALSE /\ ivl' = 0 /\ beats' = 0
    BY <1>7 DEF TApplyInit, TApplyClear, ApplyInit, ApplyClear, Forget
  <2>2. (pc = "init" /\ pc' = "on") \/ (pc = "clear" /\ pc' = "idle")
    BY <1>7 DEF TApplyInit, TApplyClear, ApplyInit, ApplyClear
  <2> QED
    BY <2>1, <2>2 DEF FreshCtl
<1>8. CASE HandSet \/ UNCHANGED tvars
  BY <1>8 DEF HandSet, tvars, vars
<1> QED
  BY <1>1, <1>2, <1>3, <1>4, <1>5, <1>6, <1>7, <1>8 DEF TNext, TApplyFinish

LEMMA AlwaysBeat == TSpec => [](TypeOK /\ TempoOK /\ BeatInv /\ SilenceInv /\ StampsAreTrue)
<1>1. TInit => TypeOK /\ BeatInv /\ StampsAreTrue
  BY InitTypeOK, InitBeat DEF TInit, StampsAreTrue, Heard, Init
<1> QED
  BY <1>1, StepTypeOK, StepStamps, StepBeat, TempoStep, TempoCorrect, TempoRefines,
     AlwaysSilence, PTL DEF TSpec

\* For every gap, every wrap and every pair of ticks, the generator takes over at
\* the tempo of the last two ticks of a master that sent two.
THEOREM BeatKept == TSpec => FallbackKeepsTheBeat
<1>1. BeatInv /\ [TNext]_tvars =>
         (TServiceLocked /\ ~gen_emit /\ gen_emit' /\ beats = 2 /\ gap \in 1 .. Gap =>
             cur_bpm' = UsToBpm(gap))
  <2> SUFFICES ASSUME BeatInv, TServiceLocked, ~gen_emit, gen_emit', beats = 2, gap \in 1 .. Gap
               PROVE  cur_bpm' = UsToBpm(gap)
    OBVIOUS
  <2>1. running
    BY DEF BeatInv, TServiceLocked, ServiceLocked
  <2>2. ivl = gap /\ ivl # 0
    BY ClockAssumption DEF BeatInv
  <2> QED
    BY <2>1, <2>2 DEF TServiceLocked
<1> QED
  BY <1>1, AlwaysBeat, PTL DEF TSpec, FallbackKeepsTheBeat

\* Nothing takes the tempo from the hand or the profile but the end of a master,
\* or the race that ClockRouter names: what an earlier profile measured does not.
THEOREM HandKept == TSpec => HandKeepsTheTempo
<1>1. TypeOK /\ BeatInv /\ StampsAreTrue /\ [TNext]_tvars =>
         (TServiceLocked /\ cur_bpm' # cur_bpm => raced \/ (ctl.present /\ quiet > Gap))
  <2> SUFFICES ASSUME TypeOK, BeatInv, StampsAreTrue, TServiceLocked, cur_bpm' # cur_bpm,
                      ~raced, ~(ctl.present /\ quiet > Gap)
               PROVE  FALSE
    OBVIOUS
  <2>t. quiet \in 0 .. Gone /\ ctl.last \in 0 .. Wrap - 1 /\ Gap \in Nat /\ Gap < Wrap - 1
        /\ Wrap \in Nat
    BY ClockAssumption DEF TypeOK, Ctl, Gone
  <2>1. ~gen_emit /\ gen_emit' /\ ivl # 0 /\ pc = "stamped"
    BY DEF TServiceLocked, ServiceLocked
  <2>2. ctl.mode # "gen"
    BY <2>1 DEF BeatInv
  <2>3. AgedOut
    <3>1. ctl'.mode = "gen"
      BY <2>1 DEF TServiceLocked, ServiceLocked
    <3> QED
      BY <2>2, <3>1 DEF TServiceLocked, ServiceLocked
  <2>4. Heard /\ quiet <= Gap
    BY <2>3, <2>t DEF AgedOut, BeatInv, Heard
  <2>5. PICK k \in 0 .. quiet : t = After(ctl.last, k)
    BY <2>1, <2>4 DEF StampsAreTrue
  <2>6. k \in 0 .. Wrap - 1 /\ k <= Gap
    BY <2>t, <2>4
  <2>7. Elapsed(t, ctl.last) = k
    BY <2>t, <2>5, <2>6, StampsApart
  <2> QED
    BY <2>t, <2>3, <2>6, <2>7 DEF AgedOut
<1> QED
  BY <1>1, AlwaysBeat, PTL DEF TSpec, HandKeepsTheTempo
=============================================================================
