---------------------------- MODULE OutputTimers ----------------------------
(***************************************************************************)
(* The GPIO of a satellite (espnow_mesh_sync_output.c): in the HIL build the *)
(* marker pulse of each applied case, in the other builds the square wave    *)
(* that follows the shared clock.  The timers run in the esp_timer task; the *)
(* mesh task arms the apply timer while it handles HIL commands and          *)
(* PATCH_APPLY frames.                                                      *)
(*                                                                         *)
(* `now` is the controller's clock and paces the timers; the satellite reads *)
(* `now + skew`.  The clock estimate of PllClock appears as a skew that      *)
(* steps.  Abstracted: handlers take no time, but the tasks interleave.      *)
(***************************************************************************)
EXTENDS Integers, FiniteSets

CONSTANTS
    ApplyDelay,     \* CONFIG_ESPNOW_MESH_HIL_APPLY_DELAY_US
    Gap,            \* CONFIG_ESPNOW_MESH_HIL_CASE_GAP_MS
    CommandSpan,    \* RELIABLE_DEADLINE_MS: how long copies of a command are sent
    PatchSpan,      \* SEND_RETRIES * RETRY_INTERVAL_MS: ... of a PATCH_APPLY
    Pulse,          \* CONFIG_ESPNOW_MESH_HIL_MARK_PULSE_US
    Fallback,       \* the 100000 us of a satellite without a clock
    Least,          \* the 100 us a timer is armed for at least
    Period, High,   \* CONFIG_ESPNOW_MESH_SYNC_OUTPUT_PERIOD_US and HIGH_US
    Recheck,        \* the 10000 us between looks at a clock that is not ready
    MaxSkew,        \* of the estimate once it is ready
    MaxCases, MaxSteps, MaxTime     \* bounds

ASSUME OutputAssumption ==
    /\ {ApplyDelay, Gap, CommandSpan, PatchSpan, Pulse, Fallback, Least, Period, High, Recheck}
           \subseteq Nat \ {0}
    /\ {MaxSkew, MaxCases, MaxSteps, MaxTime} \subseteq Nat
    /\ High < Period
    /\ PatchSpan + MaxSkew + Least < ApplyDelay     \* the copies are sent before the apply time
    /\ ApplyDelay + MaxSkew < Gap /\ Fallback < Gap \* a case is applied before the next begins
    /\ Least <= Recheck

VARIABLES
    build,          \* "hil", "sync" (REQUIRE_SYNC) or "free" (not required)
    now, ready, skew, steps,    \* the shared clock, and how often it stepped
    timer,          \* when each timer expires, Idle if it is not armed
    firing,         \* the timer whose callback the esp_timer task runs, or "none"
    level,          \* of the GPIO
    pc, delay,      \* the mesh task in hil_schedule_apply_marker(), and delay_us
    case, kind, start, accepted,    \* the case, its controller's start, accepted here
    last,           \* history: when a frame of the case was handled last
    blind,          \* history: the case was scheduled once without a clock
    pulses,         \* history: marker pulses of the case
    stepped         \* history: the clock stepped since the square wave was set

clock   == <<now, ready, skew, steps>>
marker  == <<pc, delay>>
cases   == <<case, kind, start, accepted, last, blind>>
vars == <<build, clock, timer, firing, level, marker, cases, pulses, stepped>>

Timers == {"apply", "off", "sync"}
Idle   == -1
Skews  == -MaxSkew .. MaxSkew

TypeOK ==
    /\ build \in {"hil", "sync", "free"}
    /\ now \in 0 .. MaxTime /\ ready \in BOOLEAN /\ skew \in Skews /\ steps \in 0 .. MaxSteps
    /\ timer \in [Timers -> Nat \cup {Idle}] /\ firing \in Timers \cup {"none"}
    /\ level \in {0, 1} /\ pc \in {"idle", "stop", "start"} /\ delay \in Nat
    /\ case \in 0 .. MaxCases /\ kind \in {"command", "patch"} /\ start \in 0 .. now
    /\ accepted \in BOOLEAN /\ last \in 0 .. now /\ blind \in BOOLEAN
    /\ pulses \in Nat /\ stepped \in BOOLEAN

\* init_hil_test() and init_sync_output().
Init ==
    /\ build \in {"hil", "sync", "free"}
    /\ now = 0 /\ ready = FALSE /\ skew \in Skews /\ steps = 0
    /\ timer = [t \in Timers |-> IF t = "sync" /\ build # "hil" THEN Least ELSE Idle]
    /\ firing = "none" /\ level = 0 /\ pc = "idle" /\ delay = 0
    /\ case = 0 /\ kind = "command" /\ start = 0 /\ accepted = FALSE
    /\ last = 0 /\ blind = FALSE /\ pulses = 0 /\ stepped = FALSE
-----------------------------------------------------------------------------
\* An accepted time-sync sample changes the estimate.
StepClock ==
    /\ steps < MaxSteps
    /\ ready' = TRUE /\ skew' \in Skews /\ steps' = steps + 1 /\ stepped' = TRUE
    /\ UNCHANGED <<build, now, timer, firing, level, marker, cases, pulses>>

AtLeast(d) == IF d < Least THEN Least ELSE d

\* How long the controller sends frames of the case.
Span == IF kind = "patch" THEN PatchSpan ELSE CommandSpan

\* The controller begins a case Gap after the one before ended.
StartCase ==
    /\ build = "hil" /\ pc = "idle" /\ case < MaxCases
    /\ case > 0 => now >= Gap + (IF accepted /\ kind = "command" THEN last ELSE start + Span)
    /\ case' = case + 1 /\ kind' \in {"command", "patch"} /\ start' = now
    /\ accepted' = FALSE /\ last' = now /\ blind' = FALSE /\ pulses' = 0
    /\ UNCHANGED <<build, clock, timer, firing, level, marker, stepped>>

\* Mutant of Accepts: commands are scheduled again by every copy.
AcceptsCopies == now <= start + Span

\* A copy of a command is a duplicate once one was accepted; every PATCH_APPLY
\* is taken.
Accepts == now <= start + Span /\ (kind = "command" => ~accepted)

\* Mutants of DelayUs: every delay is the one without a clock; a negative delay
\* is not clamped and wraps to a time that never comes.
DelayUsFixed   == Fallback
DelayUsWrapped == IF ready /\ start + ApplyDelay < now + skew THEN MaxTime + 1
                  ELSE IF ready THEN (start + ApplyDelay) - (now + skew) ELSE Fallback

\* delay_us of hil_schedule_apply_marker().
DelayUs == AtLeast(IF ready THEN (start + ApplyDelay) - (now + skew) ELSE Fallback)

\* The mesh task handles a copy, down to the clock read of
\* hil_schedule_apply_marker(); then it stops the timer, and starts it.
HandleCopy ==
    /\ build = "hil" /\ pc = "idle" /\ case > 0 /\ Accepts
    /\ pc' = "stop" /\ delay' = DelayUs
    /\ accepted' = TRUE /\ last' = now /\ blind' = (blind \/ ~ready)
    /\ UNCHANGED <<build, clock, timer, firing, level, case, kind, start, pulses, stepped>>

StopApply ==
    /\ pc = "stop"
    /\ pc' = "start" /\ timer' = [timer EXCEPT !["apply"] = Idle]
    /\ UNCHANGED <<build, clock, firing, level, delay, cases, pulses, stepped>>

StartApply ==
    /\ pc = "start"
    /\ pc' = "idle" /\ timer' = [timer EXCEPT !["apply"] = now + delay]
    /\ UNCHANGED <<build, clock, firing, level, delay, cases, pulses, stepped>>
-----------------------------------------------------------------------------
Expired(t) == timer[t] # Idle /\ timer[t] <= now

\* The esp_timer task takes an expired timer off its list and calls back.
Fire(t) ==
    /\ firing = "none" /\ Expired(t)
    /\ firing' = t /\ timer' = [timer EXCEPT ![t] = Idle]
    /\ UNCHANGED <<build, clock, level, marker, cases, pulses, stepped>>

\* hil_mark_apply().
MarkApply ==
    /\ firing = "apply" /\ firing' = "none"
    /\ level' = 1 /\ pulses' = pulses + 1
    /\ timer' = [timer EXCEPT !["off"] = now + Pulse]
    /\ UNCHANGED <<build, clock, marker, cases, stepped>>

\* hil_marker_off_timer_cb().
MarkOff ==
    /\ firing = "off" /\ firing' = "none"
    /\ level' = 0
    /\ UNCHANGED <<build, clock, timer, marker, cases, pulses, stepped>>

\* The remainder, brought up to the period.
Phase(t) == t % Period

LevelAt(t) == IF Phase(t) < High THEN 1 ELSE 0

\* Mutant of Transition: the high time is not taken out of the low one.
TransitionPeriod(t) == IF LevelAt(t) = 1 THEN High - Phase(t) ELSE Period

\* delay_to_transition_us.
Transition(t) == IF LevelAt(t) = 1 THEN High - Phase(t) ELSE Period - Phase(t)

\* sync_output_timer_cb() and sync_output_schedule_us().
SyncOutput ==
    /\ firing = "sync" /\ firing' = "none"
    /\ stepped' = FALSE
    /\ LET wait == build = "sync" /\ ~ready IN
           /\ level' = IF wait THEN 0 ELSE LevelAt(now + skew)
           /\ timer' = [timer EXCEPT !["sync"] =
                            now + IF wait THEN Recheck ELSE AtLeast(Transition(now + skew))]
    /\ UNCHANGED <<build, clock, marker, cases, pulses>>

\* Time passes when no task has anything to do.
Tick ==
    /\ now < MaxTime /\ pc = "idle" /\ firing = "none"
    /\ ~\E t \in Timers : Expired(t)
    /\ now' = now + 1
    /\ UNCHANGED <<build, ready, skew, steps, timer, firing, level, marker, cases, pulses, stepped>>

Next ==
    \/ StepClock \/ StartCase \/ HandleCopy \/ StopApply \/ StartApply
    \/ MarkApply \/ MarkOff \/ SyncOutput \/ Tick
    \/ \E t \in Timers : Fire(t)

Spec == Init /\ [][Next]_vars
-----------------------------------------------------------------------------
\* docs/hil-testbench.md:35 "exactly one marker pulse per case": at most one for
\* a case that is not a patch, or that was scheduled with a clock each time...
AtMostOnePulse == kind = "command" \/ ~blind => pulses <= 1

\* ... and at least one for every accepted case before the next one begins, which
\* would take the timer from it.
NoCaseLost == [][case' # case /\ accepted => pulses > 0]_vars

\* A marker rises when the controller asked for it, within the error of the
\* clock, or right after a frame that came later than that.
AppliesOnTime ==
    [][pulses' > pulses /\ ~blind =>
           \/ now - (start + ApplyDelay) \in Skews
           \/ now <= last + Least]_vars

\* The square wave is the one of the shared clock, late by less than the least
\* time a timer is armed for, unless the clock stepped since the level was set;
\* without a clock that is required it is low.  A step is forgotten within a
\* period, because the timer is always armed.
WaveFollowsClock == build # "hil" =>
    /\ firing = "sync" \/ timer["sync"] \in now .. now + Period + Recheck
    /\ firing = "none" /\ ~Expired("sync") /\ ~stepped /\ now >= Least =>
           IF build = "sync" /\ ~ready THEN level = 0
           ELSE \E late \in 0 .. Least - 1 : level = LevelAt(now - late + skew)
=============================================================================
