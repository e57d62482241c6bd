---------------------------- MODULE ClockRouter ----------------------------
(***************************************************************************)
(* The MIDI clock: the internal generator (clock_timer.c, a free-running   *)
(* hardware counter whose ISR emits a tick while gen_emit is set), the     *)
(* source selector (clock_ctl.c) and the router that couples them          *)
(* (clock_router.c).  Three contexts interleave:                           *)
(*   - the main thread runs clock_router_service every turn and            *)
(*     clock_router_apply_profile on a profile change.  It is preemptible, *)
(*     so each of its accesses to the shared state is a step, except that  *)
(*     what it does under irq_lock is one step;                            *)
(*   - the USB thread, cooperative and of higher priority, runs            *)
(*     clock_router_ext_rt whole between two steps of the main thread;     *)
(*   - the timer ISR.                                                      *)
(* Time is the 32-bit microsecond clock: it counts modulo Wrap, in steps   *)
(* as coarse as the properties allow, and a gap longer than Gap means the  *)
(* external master is gone.                                                *)
(***************************************************************************)
EXTENDS Integers

CONSTANTS
    Wrap,    \* the clock's modulus
    Gap,     \* CLOCK_CTL_GAP_US
    Period,  \* bound on the time between two turns of the main loop
    Configs  \* enables a profile may carry: TRUE, FALSE

ASSUME ClockAssumption ==
    /\ Wrap \in Nat /\ Gap \in Nat /\ Period \in Nat \ {0}
    /\ Gap + Period + 1 < Wrap
    /\ Configs \subseteq BOOLEAN

VARIABLES
    clock_on, \* the active profile's clock is enabled
    ctl,      \* struct clock_ctl, without what only the tempo reads
    gen_emit, \* the ISR may emit
    running,  \* the counter runs
    pc,       \* the main thread's place
    t,        \* the timestamp clock_router_service read before its lock
    now,      \* the microsecond clock
    since,    \* time since the last completed turn of the main loop
    quiet,    \* true time since the last external tick, capped past Gap
    owner,    \* who the one clock on the wire should be: "gen" or "ext"
    raced     \* the last external tick fell between the stamp and the lock

ghosts == <<quiet, owner, raced>>
vars == <<clock_on, ctl, gen_emit, running, pc, t, now, since, quiet, owner,
          raced>>

Elapsed(a, b) == (a - b) % Wrap

FreshCtl == [mode |-> "gen", present |-> FALSE, last |-> 0]

Ctl == [mode : {"gen", "thru"}, present : BOOLEAN, last : 0 .. Wrap - 1]

Gone == Gap + 1

\* The main thread's places; "idle" is between two turns of the loop.
Places == {"idle", "stamped", "emit", "init", "on", "stop", "clear"}

Init ==
    /\ clock_on = FALSE
    /\ ctl = FreshCtl
    /\ gen_emit = TRUE
    /\ running = FALSE
    /\ pc = "idle" /\ t = 0
    /\ now = 0 /\ since = 0 /\ quiet = Gone
    /\ owner = "gen" /\ raced = FALSE

-----------------------------------------------------------------------------
(* The environment: time, the external master, the timer interrupt.        *)

Tick ==
    /\ since < Period
    /\ now' = (now + 1) % Wrap
    /\ since' = since + 1
    /\ quiet' = IF quiet < Gone THEN quiet + 1 ELSE quiet
    /\ UNCHANGED <<clock_on, ctl, gen_emit, running, pc, t, owner, raced>>

\* clock_router_ext_rt(0xF8), clock_ctl_ext_clock: silence the generator,
\* mark the master present, forward its tick.
ExtClock ==
    /\ clock_on
    /\ gen_emit' = FALSE
    /\ ctl' = [mode |-> "thru", present |-> TRUE, last |-> now]
    /\ quiet' = 0
    /\ owner' = "ext"
    /\ raced' = (pc = "stamped" /\ t # now)
    /\ UNCHANGED <<clock_on, running, pc, t, now, since>>

-----------------------------------------------------------------------------
(* clock_router_service.                                                   *)

ServiceSkip ==
    /\ pc = "idle" /\ ~clock_on
    /\ since' = 0
    /\ UNCHANGED <<clock_on, ctl, gen_emit, running, pc, t, now, ghosts>>

ServiceStamp ==
    /\ pc = "idle" /\ clock_on
    /\ t' = now
    /\ pc' = "stamped"
    /\ UNCHANGED <<clock_on, ctl, gen_emit, running, now, since, ghosts>>

\* Mutant: a gap one short.
AgedOutEarly == ctl.present /\ Elapsed(t, ctl.last) >= Gap

\* clock_ctl_service
AgedOut == ctl.present /\ Elapsed(t, ctl.last) > Gap

\* Mutant: the generator is not resumed.
ServiceLockedSilent ==
    /\ pc = "stamped"
    /\ ctl' = IF AgedOut THEN [ctl EXCEPT !.mode = "gen", !.present = FALSE] ELSE ctl
    /\ owner' = IF quiet > Gap THEN "gen" ELSE owner
    /\ pc' = "idle" /\ since' = 0
    /\ UNCHANGED <<clock_on, gen_emit, running, t, now, quiet, raced>>

\* The section under irq_lock; the tempo reprogrammed after it changes no
\* state of this module.
ServiceLocked ==
    /\ pc = "stamped"
    /\ ctl' = IF AgedOut THEN [ctl EXCEPT !.mode = "gen", !.present = FALSE] ELSE ctl
    /\ gen_emit' = (gen_emit \/ ctl'.mode = "gen")
    /\ owner' = IF quiet > Gap THEN "gen" ELSE owner
    /\ pc' = "idle" /\ since' = 0
    /\ UNCHANGED <<clock_on, running, t, now, quiet, raced>>

-----------------------------------------------------------------------------
(* clock_router_apply_profile: enable configures everything and sets       *)
(* clock_on last, disable clears it first.                                 *)

ApplyEnable ==      \* the timer is started or reprogrammed
    /\ pc = "idle" /\ TRUE \in Configs
    /\ running' = TRUE
    /\ pc' = "emit"
    /\ UNCHANGED <<clock_on, ctl, gen_emit, t, now, since, ghosts>>

ApplyEmit ==
    /\ pc = "emit"
    /\ gen_emit' = TRUE
    /\ pc' = "init"
    /\ UNCHANGED <<clock_on, ctl, running, t, now, since, ghosts>>

ApplyInit ==
    /\ pc = "init"
    /\ ctl' = FreshCtl
    /\ owner' = "gen"
    /\ pc' = "on"
    /\ UNCHANGED <<clock_on, gen_emit, running, t, now, since, quiet, raced>>

ApplyOn ==
    /\ pc = "on"
    /\ clock_on' = TRUE
    /\ pc' = "idle"
    /\ UNCHANGED <<ctl, gen_emit, running, t, now, since, ghosts>>

ApplyDisable ==
    /\ pc = "idle" /\ FALSE \in Configs
    /\ clock_on' = FALSE
    /\ pc' = "stop"
    /\ UNCHANGED <<ctl, gen_emit, running, t, now, since, ghosts>>

ApplyStop ==
    /\ pc = "stop"
    /\ running' = FALSE
    /\ pc' = "clear"
    /\ UNCHANGED <<clock_on, ctl, gen_emit, t, now, since, ghosts>>

ApplyClear ==
    /\ pc = "clear"
    /\ ctl' = FreshCtl
    /\ owner' = "gen"
    /\ pc' = "idle"
    /\ UNCHANGED <<clock_on, gen_emit, running, t, now, since, quiet, raced>>

Service == ServiceSkip \/ ServiceStamp \/ ServiceLocked

ApplyFinish == ApplyEmit \/ ApplyInit \/ ApplyOn \/ ApplyStop \/ ApplyClear

Next == Tick \/ ExtClock \/ Service \/ ApplyEnable \/ ApplyDisable \/ ApplyFinish

Spec == Init /\ [][Next]_vars

\* The main loop turns for ever and time passes; a profile change may or may
\* not come, and a master may or may not send.
FairSpec ==
    /\ Spec
    /\ WF_vars(Tick)
    /\ WF_vars(ApplyFinish) /\ WF_vars(ServiceLocked)
    /\ SF_vars(ServiceStamp) /\ WF_vars(ServiceSkip)

-----------------------------------------------------------------------------
(* Properties.                                                             *)

TypeOK ==
    /\ clock_on \in BOOLEAN
    /\ ctl \in Ctl
    /\ gen_emit \in BOOLEAN /\ running \in BOOLEAN
    /\ pc \in Places
    /\ t \in 0 .. Wrap - 1 /\ now \in 0 .. Wrap - 1
    /\ since \in 0 .. Period
    /\ quiet \in 0 .. Gone
    /\ owner \in {"gen", "ext"} /\ raced \in BOOLEAN

\* A timer interrupt at this moment puts an internal tick on the wire.
GenTicks == running /\ gen_emit

\* While the selector says an external master owns the clock, the ISR stays
\* silent, wherever the USB thread cut in, but for the two statements of
\* apply_profile that re-open the generator before they reset the selector.
ThruIsSilent == (ctl.mode = "thru" /\ pc # "init") => ~GenTicks

\* A profile without a clock sends none: once apply_profile has returned the
\* counter is stopped, and no tick of the master finds its way out, in any
\* order of the ISR and the USB thread with its statements.
DisabledIsSilent == (pc = "idle" /\ ~clock_on) => ~running /\ ctl = FreshCtl

\* Two clocks only by one race, and only until the next master tick: nothing
\* but a tick that fell between the stamp and the lock of clock_router_service
\* lets the generator sound beside a master that is heard, and the next tick
\* silences it ("self-heals within one master tick", clock_router.c:50-51).
TwoClocksOnlyByStampRace ==
    (GenTicks /\ pc # "init" /\ owner = "ext") => raced

\* No dead air: when the master falls silent the generator takes over, also
\* when an apply_profile was cut in two by the master's last tick.
GeneratorComesBack ==
    (clock_on /\ quiet = Gone) ~> (GenTicks \/ quiet # Gone \/ ~clock_on)
=============================================================================
