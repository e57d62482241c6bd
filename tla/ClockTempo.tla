----------------------------- MODULE ClockTempo -----------------------------
(***************************************************************************)
(* The tempo of the internal generator, on top of ClockRouter: a profile's *)
(* default, the hand's (tap or fader), and the one measured from an        *)
(* external master, which the generator takes over when the master falls   *)
(* silent (clock_ctl.c, clockgen.c, clock_timer.c and their use in         *)
(* clock_router.c and main.c).  The tempo is the main thread's alone; the  *)
(* measured interval is shared with the USB thread.                        *)
(***************************************************************************)
EXTENDS ClockRouter

CONSTANTS
    Micros,         \* the interval of tempo 1: 2500000 us
    BpmMin, BpmMax, \* CLOCKGEN_BPM_MIN, CLOCKGEN_BPM_MAX
    Defaults,       \* tempos that profiles and the settings hold
    HandTempos      \* tempos a hand sets

ASSUME TempoAssumption ==
    /\ Micros \in Nat \ {0}
    /\ BpmMin \in Nat \ {0} /\ BpmMax \in Nat /\ BpmMin <= BpmMax
    /\ Defaults \subseteq BpmMin .. BpmMax /\ HandTempos \subseteq BpmMin .. BpmMax

VARIABLES
    cur_bpm,   \* the timer's tempo, 0 before the first
    have_prev, \* a tick of the master has been stamped since clock_ctl_init
    ivl,       \* ext_ivl_us, 0 when there is none
    beats,     \* auxiliary: ticks of the master since it last came, up to 2
    gap        \* auxiliary: true time between its last two ticks, capped past Gap

tempo == <<cur_bpm, have_prev, ivl, beats, gap>>
tvars == <<vars, tempo>>

TInit ==
    /\ Init
    /\ cur_bpm = 0 /\ have_prev = FALSE /\ ivl = 0 /\ beats = 0 /\ gap = Gone

Clamp(bpm) == IF bpm < BpmMin THEN BpmMin ELSE IF bpm > BpmMax THEN BpmMax ELSE bpm

\* clockgen_us_to_bpm
UsToBpm(us) == IF us = 0 THEN BpmMin ELSE Clamp(Micros \div us)

TTick == Tick /\ UNCHANGED tempo

\* Mutant: the first tick after a silence is not measured from the one before it,
\* nor is the second.
TExtClockAnew ==
    /\ ExtClock
    /\ have_prev' = TRUE
    /\ ivl' = IF have_prev /\ ctl.present /\ beats > 1 THEN Elapsed(now, ctl.last) ELSE ivl
    /\ gap' = quiet
    /\ beats' = IF ~ctl.present THEN 1 ELSE 2
    /\ UNCHANGED cur_bpm

\* clock_ctl_ext_clock: the stamp of the tick before is never dropped, so the
\* first tick of a master that comes back is measured from its last one.
TExtClock ==
    /\ ExtClock
    /\ have_prev' = TRUE
    /\ ivl' = IF have_prev THEN Elapsed(now, ctl.last) ELSE ivl
    /\ gap' = quiet
    /\ beats' = IF ~ctl.present THEN 1 ELSE 2
    /\ UNCHANGED cur_bpm

TServiceSkip == ServiceSkip /\ UNCHANGED tempo
TServiceStamp == ServiceStamp /\ UNCHANGED tempo

\* Mutant: the tempo is taken whenever one has been measured.
TServiceFollows ==
    /\ ServiceLocked
    /\ cur_bpm' = IF ctl'.mode = "gen" /\ ivl # 0 THEN UsToBpm(ivl) ELSE cur_bpm
    /\ UNCHANGED <<have_prev, ivl, beats, gap>>

\* The resume takes the measured tempo; in a steady state nothing does.
TServiceLocked ==
    /\ ServiceLocked
    /\ cur_bpm' = IF ~gen_emit /\ gen_emit' /\ ivl # 0 /\ running THEN UsToBpm(ivl) ELSE cur_bpm
    /\ UNCHANGED <<have_prev, ivl, beats, gap>>

\* The profile's own tempo, or at boot the stored one.
TApplyEnable ==
    /\ ApplyEnable
    /\ cur_bpm' \in Defaults
    /\ UNCHANGED <<have_prev, ivl, beats, gap>>

TApplyEmit == ApplyEmit /\ UNCHANGED tempo

\* clock_ctl_init
Forget ==
    /\ have_prev' = FALSE /\ ivl' = 0 /\ beats' = 0 /\ gap' = Gone
    /\ UNCHANGED cur_bpm

TApplyInit == ApplyInit /\ Forget
TApplyOn == ApplyOn /\ UNCHANGED tempo
TApplyDisable == ApplyDisable /\ UNCHANGED tempo
TApplyStop == ApplyStop /\ UNCHANGED tempo
TApplyClear == ApplyClear /\ Forget

\* clock_set_live_bpm: the tap pad and the tempo fader, of a profile with a
\* clock, whoever owns the clock at the moment.
HandSet ==
    /\ pc = "idle" /\ clock_on
    /\ cur_bpm' \in HandTempos
    /\ UNCHANGED <<vars, have_prev, ivl, beats, gap>>

TApplyFinish == TApplyEmit \/ TApplyInit \/ TApplyOn \/ TApplyStop \/ TApplyClear

TNext ==
    \/ TTick \/ TExtClock
    \/ TServiceSkip \/ TServiceStamp \/ TServiceLocked
    \/ TApplyEnable \/ TApplyDisable \/ TApplyFinish
    \/ HandSet

\* The fairness of ClockRouter.
TSpec ==
    /\ TInit /\ [][TNext]_tvars
    /\ WF_tvars(TTick)
    /\ WF_tvars(TApplyFinish) /\ WF_tvars(TServiceLocked)
    /\ SF_tvars(TServiceStamp) /\ WF_tvars(TServiceSkip)

-----------------------------------------------------------------------------
(* Properties.                                                             *)

TempoOK ==
    /\ cur_bpm \in {0} \cup BpmMin .. BpmMax
    /\ running => cur_bpm # 0
    /\ have_prev \in BOOLEAN /\ ivl \in 0 .. Wrap - 1
    /\ beats \in 0 .. 2 /\ gap \in 0 .. Gone

\* The generator takes over at the tempo of a master that sent two ticks or
\* more since it came (main.c, 1555-1557: "at its last measured tempo"), as it
\* is across the wrap of the clock.  After a single tick it takes the tempo of
\* the silence before it, which is none.
FallbackKeepsTheBeat ==
    [][TServiceLocked /\ ~gen_emit /\ gen_emit' /\ beats = 2 /\ gap \in 1 .. Gap =>
          cur_bpm' = UsToBpm(gap)]_tvars

\* Nothing but the end of a master takes the tempo out of the hand's or the
\* profile's: not a tick of one that came while the profile was applied, nor
\* what an earlier profile measured (clock_router.c, 70-72: in steady GEN the
\* fader and tap stay in charge); or the race that ClockRouter names.
HandKeepsTheTempo ==
    [][TServiceLocked /\ cur_bpm' # cur_bpm =>
          raced \/ (ctl.present /\ quiet > Gap)]_tvars
=============================================================================
