------------------------- MODULE OutputTimers_proofs -------------------------
(***************************************************************************)
(* The marker pulses and the square wave, for every delay, period, error of  *)
(* the clock and number of cases.                                          *)
(***************************************************************************)
EXTENDS OutputTimers, TLAPS

\* What the assumptions say of each constant.
LEMMA ConstantFacts ==
    /\ ApplyDelay \in Nat \ {0} /\ Gap \in Nat \ {0} /\ CommandSpan \in Nat \ {0}
    /\ PatchSpan \in Nat \ {0} /\ Pulse \in Nat \ {0} /\ Fallback \in Nat \ {0}
    /\ Least \in Nat \ {0} /\ Period \in Nat \ {0} /\ High \in Nat \ {0}
    /\ Recheck \in Nat \ {0} /\ MaxSkew \in Nat /\ MaxCases \in Nat
    /\ MaxSteps \in Nat /\ MaxTime \in Nat
    /\ High < Period /\ PatchSpan + MaxSkew + Least < ApplyDelay
    /\ ApplyDelay + MaxSkew < Gap /\ Fallback < Gap /\ Least <= Recheck
  BY OutputAssumption

\* The remainder is below the period, and grows with the time until it gets there.
LEMMA PhaseFacts ==
    ASSUME NEW t \in Int
    PROVE  /\ Phase(t) \in 0 .. Period - 1
           /\ \A d \in Nat : Phase(t) + d < Period => Phase(t + d) = Phase(t) + d
  <1> DEFINE P == Period
  <1>1. P \in Nat \ {0}
    BY ConstantFacts
  <1> HIDE DEF P
  <1>2. t % P \in 0 .. P - 1
    BY <1>1
  <1>3. ASSUME NEW d \in Nat, (t % P) + d < P
        PROVE  (t + d) % P = (t % P) + d
    BY <1>1, <1>3
  <1> QED BY <1>2, <1>3 DEF Phase, P

\* The wave keeps its level up to the transition the timer is armed for.
LEMMA LevelHolds ==
    ASSUME NEW t \in Int
    PROVE  /\ LevelAt(t) \in {0, 1} /\ Transition(t) \in 1 .. Period
           /\ \A d \in Nat : d < Transition(t) => LevelAt(t + d) = LevelAt(t)
  <1>1. Phase(t) \in 0 .. Period - 1 /\ High \in Nat \ {0} /\ High < Period /\ Period \in Nat
    BY PhaseFacts, ConstantFacts
  <1>2. LevelAt(t) \in {0, 1} /\ Transition(t) \in 1 .. Period
    BY <1>1 DEF LevelAt, Transition
  <1>3. ASSUME NEW d \in Nat, d < Transition(t)
        PROVE  LevelAt(t + d) = LevelAt(t)
    <2>1. Phase(t) + d < Period
      BY <1>1, <1>3 DEF LevelAt, Transition
    <2>2. Phase(t + d) = Phase(t) + d
      BY <2>1, PhaseFacts
    <2> QED BY <1>1, <1>3, <2>2 DEF LevelAt, Transition
  <1> QED BY <1>2, <1>3
-----------------------------------------------------------------------------
\* Where the pulse of the case is: nothing is pending for a case that was not
\* accepted, and what is pending is due within a gap of the last frame.
CaseInv ==
    /\ accepted => case > 0
    /\ ~accepted => pulses = 0
    /\ last <= start + Span
    /\ pc # "idle" => /\ accepted /\ last = now /\ now <= start + Span
                      /\ Least <= delay /\ delay < Gap
    /\ timer["apply"] # Idle => /\ accepted
                                /\ now <= timer["apply"] /\ timer["apply"] < last + Gap
    /\ firing = "apply" => accepted /\ now < last + Gap

\* The pulse of an accepted case is being scheduled, scheduled, under way or seen...
PulseDue == accepted =>
    pc # "idle" \/ timer["apply"] # Idle \/ firing = "apply" \/ pulses > 0

\* ... and only one of these, when the case is accepted once or its frames all come
\* before the pulse.
OnePulse == kind = "command" \/ ~blind =>
    /\ pc # "idle" \/ timer["apply"] # Idle => firing # "apply" /\ pulses = 0
    /\ firing = "apply" => pulses = 0
    /\ pulses <= 1
    /\ kind = "command" /\ pc # "idle" => timer["apply"] = Idle

\* The pulse of a patch that is scheduled by the clock comes after the last copy.
PatchWaits == kind = "patch" /\ ~blind =>
    /\ pc # "idle" => now + delay > start + PatchSpan
    /\ timer["apply"] # Idle => timer["apply"] > start + PatchSpan
    /\ firing = "apply" \/ pulses > 0 => now > start + PatchSpan

\* A time at which the marker may rise, and that it is what the timer is set to.
AsAsked(t) == t - (start + ApplyDelay) \in Skews \/ t <= last + Least

OnTime == ~blind =>
    /\ pc # "idle" => AsAsked(now + delay)
    /\ timer["apply"] # Idle => AsAsked(timer["apply"])
    /\ firing = "apply" => AsAsked(now)

\* A square wave knows when its level was set, unless it waits for a clock.
NoClock == build = "sync" /\ ~ready

WaveSet ==
    \/ timer["sync"] = Least
    \/ NoClock /\ level = 0
    \/ /\ ~NoClock
       /\ \E set \in 0 .. now :
             /\ level = LevelAt(set + skew)
             /\ timer["sync"] = set + AtLeast(Transition(set + skew))

WaveInv == build # "hil" =>
    /\ pc = "idle" /\ timer["apply"] = Idle /\ timer["off"] = Idle
    /\ firing # "apply" /\ firing # "off"
    /\ firing # "sync" =>
           /\ timer["sync"] \in now .. now + Period + Recheck
           /\ ~stepped => WaveSet

MarkerInv == CaseInv /\ PulseDue /\ OnePulse /\ PatchWaits /\ OnTime

OutputInv == TypeOK /\ MarkerInv /\ WaveInv
-----------------------------------------------------------------------------
\* What hil_schedule_apply_marker() waits: never less than the least, never as long
\* as the gap between cases, and with a clock up to the time the controller asked for.
LEMMA DelayFacts ==
    ASSUME TypeOK
    PROVE  /\ DelayUs \in Nat /\ Least <= DelayUs /\ DelayUs < Gap
           /\ ready => \/ (now + DelayUs) - (start + ApplyDelay) \in Skews
                       \/ DelayUs = Least
           /\ ready => now + DelayUs >= start + ApplyDelay - MaxSkew
  <1>1. /\ now \in Nat /\ start \in 0 .. now /\ skew \in Int
        /\ -MaxSkew <= skew /\ skew <= MaxSkew /\ ready \in BOOLEAN
    BY ConstantFacts DEF TypeOK, Skews
  <1>2. CASE ready
    <2> DEFINE d == (start + ApplyDelay) - (now + skew)
    <2>1. d \in Int /\ d <= ApplyDelay + MaxSkew
      BY <1>1, ConstantFacts
    <2>2. DelayUs = AtLeast(d)
      BY <1>2 DEF DelayUs
    <2>3. (now + d) - (start + ApplyDelay) \in Skews /\ now + d >= start + ApplyDelay - MaxSkew
      BY <1>1, ConstantFacts DEF Skews
    <2> HIDE DEF d
    <2> QED BY <1>1, <2>1, <2>2, <2>3, ConstantFacts DEF AtLeast
  <1>3. CASE ~ready
    <2>1. DelayUs = AtLeast(Fallback)
      BY <1>3 DEF DelayUs
    <2> QED BY <1>3, <2>1, ConstantFacts DEF AtLeast
  <1> QED BY <1>1, <1>2, <1>3

\* A timer keeps the type when one of them is set to a time or stopped.
LEMMA TimerSet ==
    ASSUME TypeOK, NEW t \in Timers, NEW x \in Nat \cup {Idle}
    PROVE  [timer EXCEPT ![t] = x] \in [Timers -> Nat \cup {Idle}]
  BY DEF TypeOK

\* Every step keeps the types.
LEMMA StepTypes == TypeOK /\ [Next]_vars => TypeOK'
  <1> SUFFICES ASSUME TypeOK, [Next]_vars PROVE TypeOK'
    OBVIOUS
  <1> USE ConstantFacts
  <1>0. /\ "apply" \in Timers /\ "off" \in Timers /\ "sync" \in Timers
        /\ now \in Nat
    BY DEF Timers, TypeOK
  <1>1. CASE StepClock
    <2>1. steps' \in 0 .. MaxSteps /\ ready' \in BOOLEAN /\ stepped' \in BOOLEAN /\ skew' \in Skews
      BY <1>1 DEF StepClock, TypeOK
    <2> QED BY <1>1, <2>1 DEF StepClock, TypeOK, marker, cases
  <1>2. CASE StartCase
    <2>1. case' \in 0 .. MaxCases /\ kind' \in {"command", "patch"} /\ start' \in 0 .. now
      BY <1>2, <1>0 DEF StartCase, TypeOK
    <2>2. accepted' = FALSE /\ blind' = FALSE /\ last' = now /\ pulses' = 0
      BY <1>2 DEF StartCase
    <2>3. now' = now
      BY <1>2 DEF StartCase, clock
    <2>4. last' \in 0 .. now' /\ pulses' \in Nat
      BY <1>0, <2>2, <2>3
    <2> QED BY <1>2, <2>1, <2>2, <2>3, <2>4 DEF StartCase, TypeOK, marker, clock
  <1>3. CASE HandleCopy
    <2>1. delay' \in Nat /\ pc' \in {"idle", "stop", "start"} /\ last' \in 0 .. now
      BY <1>3, <1>0, DelayFacts DEF HandleCopy
    <2>2. accepted' \in BOOLEAN /\ blind' \in BOOLEAN
      BY <1>3 DEF HandleCopy, TypeOK
    <2> QED BY <1>3, <2>1, <2>2 DEF HandleCopy, TypeOK, clock
  <1>4. CASE StopApply
    <2>1. timer' \in [Timers -> Nat \cup {Idle}]
      BY <1>0, <1>4, TimerSet DEF StopApply
    <2> QED BY <1>4, <2>1 DEF StopApply, TypeOK, clock, cases
  <1>5. CASE StartApply
    <2>1. now + delay \in Nat
      BY <1>0 DEF TypeOK
    <2>2. timer' \in [Timers -> Nat \cup {Idle}]
      BY <1>0, <1>5, <2>1, TimerSet DEF StartApply
    <2> QED BY <1>5, <2>2 DEF StartApply, TypeOK, clock, cases
  <1>6. CASE MarkApply
    <2>1. timer' \in [Timers -> Nat \cup {Idle}]
      BY <1>0, <1>6, TimerSet DEF MarkApply
    <2>2. pulses' \in Nat /\ level' \in {0, 1} /\ firing' \in Timers \cup {"none"}
      BY <1>6 DEF MarkApply, TypeOK
    <2> QED BY <1>6, <2>1, <2>2 DEF MarkApply, TypeOK, clock, marker, cases
  <1>7. CASE MarkOff
    BY <1>7 DEF MarkOff, TypeOK, clock, marker, cases
  <1>8. CASE SyncOutput
    <2> DEFINE wait == build = "sync" /\ ~ready
               d == IF wait THEN Recheck ELSE AtLeast(Transition(now + skew))
    <2>1. now + skew \in Int
      BY <1>0 DEF TypeOK, Skews
    <2>2. now + d \in Nat
      BY <1>0, <2>1, LevelHolds DEF AtLeast
    <2>3. timer' = [timer EXCEPT !["sync"] = now + d]
      BY <1>8 DEF SyncOutput
    <2>4. level' \in {0, 1}
      BY <1>8, <2>1, LevelHolds DEF SyncOutput
    <2> HIDE DEF d
    <2>5. timer' \in [Timers -> Nat \cup {Idle}]
      BY <1>0, <2>2, <2>3, TimerSet
    <2> QED BY <1>8, <2>4, <2>5 DEF SyncOutput, TypeOK, clock, marker, cases
  <1>9. CASE Tick
    <2>1. now' \in 0 .. MaxTime /\ start' \in 0 .. now' /\ last' \in 0 .. now'
      BY <1>9 DEF Tick, TypeOK, cases
    <2> QED BY <1>9, <2>1 DEF Tick, TypeOK, marker, cases
  <1>10. ASSUME NEW t \in Timers, Fire(t) PROVE TypeOK'
    <2>1. timer' \in [Timers -> Nat \cup {Idle}]
      BY <1>10, TimerSet DEF Fire
    <2> QED BY <1>10, <2>1 DEF Fire, TypeOK, clock, marker, cases
  <1>11. CASE UNCHANGED vars
    BY <1>11 DEF vars, TypeOK, clock, marker, cases
  <1> QED BY <1>1, <1>2, <1>3, <1>4, <1>5, <1>6, <1>7, <1>8, <1>9, <1>10, <1>11 DEF Next
-----------------------------------------------------------------------------
\* What the types say of the pulse's state.
LEMMA PulseTypes ==
    ASSUME TypeOK
    PROVE  /\ now \in Nat /\ start \in Nat /\ last \in Nat /\ delay \in Nat /\ pulses \in Nat
           /\ start <= now /\ last <= now /\ Span \in Nat
           /\ timer["apply"] \in Nat \cup {Idle} /\ timer["off"] \in Nat \cup {Idle}
           /\ timer["sync"] \in Nat \cup {Idle}
           /\ accepted \in BOOLEAN /\ blind \in BOOLEAN /\ kind \in {"command", "patch"}
           /\ kind = "patch" => Span = PatchSpan
  BY ConstantFacts DEF TypeOK, Timers, Span

\* When the controller begins a case, nothing is pending of the one before.
LEMMA NothingPending ==
    ASSUME TypeOK, CaseInv, StartCase
    PROVE  timer["apply"] = Idle /\ firing # "apply" /\ pc = "idle"
  <1> USE PulseTypes, ConstantFacts
  <1>1. pc = "idle"
    BY DEF StartCase
  <1>2. case > 0 => now >= last + Gap
    BY DEF StartCase, CaseInv
  <1>3. timer["apply"] = Idle
    BY <1>2 DEF CaseInv
  <1>4. firing # "apply"
    BY <1>2 DEF CaseInv
  <1> QED BY <1>1, <1>3, <1>4

\* A case begins with nothing pending.
LEMMA StartKeepsMarkerInv == OutputInv /\ StartCase => MarkerInv'
  <1> SUFFICES ASSUME OutputInv, StartCase PROVE MarkerInv'
    OBVIOUS
  <1>1. timer'["apply"] = Idle /\ firing' # "apply" /\ pc' = "idle"
    BY NothingPending DEF OutputInv, MarkerInv, StartCase, marker
  <1>2. accepted' = FALSE /\ pulses' = 0 /\ last' = now /\ start' = now /\ kind' \in {"command", "patch"}
    BY DEF StartCase
  <1>3. now \in Nat
    BY PulseTypes DEF OutputInv
  <1>4. CaseInv'
    BY <1>1, <1>2, <1>3, ConstantFacts DEF CaseInv, Span
  <1>5. PulseDue'
    BY <1>2 DEF PulseDue
  <1>6. OnePulse' /\ PatchWaits'
    BY <1>1, <1>2 DEF OnePulse, PatchWaits
  <1>7. OnTime'
    BY <1>1 DEF OnTime
  <1> QED BY <1>4, <1>5, <1>6, <1>7 DEF MarkerInv

\* A frame of the case is handled: it is the first of a command, or a patch whose
\* pulse has yet to come, or the case is blind.
LEMMA CopyKeepsMarkerInv == OutputInv /\ HandleCopy => MarkerInv'
  <1> SUFFICES ASSUME OutputInv, HandleCopy PROVE MarkerInv'
    OBVIOUS
  <1> USE PulseTypes, ConstantFacts, DelayFacts
  <1>0. TypeOK /\ CaseInv /\ PulseDue /\ OnePulse /\ PatchWaits /\ OnTime
    BY DEF OutputInv, MarkerInv
  <1>1. /\ pc' = "stop" /\ delay' = DelayUs /\ accepted' = TRUE /\ last' = now
        /\ blind' = (blind \/ ~ready) /\ pc = "idle" /\ case > 0
        /\ UNCHANGED <<now, start, kind, case, timer, firing, pulses, ready>>
    BY DEF HandleCopy, clock
  <1>2. now <= start + Span /\ (kind = "command" => ~accepted)
    BY DEF HandleCopy, Accepts
  <1>3. DelayUs \in Nat /\ Least <= DelayUs /\ DelayUs < Gap
    BY <1>0
  <1>4. Span' = Span
    BY <1>1 DEF Span
  <1>5. CaseInv'
    <2>1. timer["apply"] # Idle => now <= timer["apply"] /\ timer["apply"] < now + Gap
      BY <1>0 DEF CaseInv
    <2>2. firing = "apply" => now < now + Gap
      BY <1>0
    <2> QED BY <1>0, <1>1, <1>2, <1>3, <1>4, <2>1, <2>2 DEF CaseInv
  <1>6. PulseDue'
    BY <1>1 DEF PulseDue
  <1>7. ASSUME kind = "command"
        PROVE  timer["apply"] = Idle /\ firing # "apply" /\ pulses = 0
    BY <1>0, <1>2, <1>7 DEF CaseInv
  <1>8. ASSUME kind = "patch", ~blind'
        PROVE  /\ ~blind /\ ready /\ now <= start + PatchSpan
               /\ firing # "apply" /\ pulses = 0
    <2>1. ~blind /\ ready /\ now <= start + PatchSpan
      BY <1>0, <1>1, <1>2, <1>8
    <2>2. ~(now > start + PatchSpan)
      BY <1>0, <2>1
    <2>3. firing # "apply" /\ ~(pulses > 0)
      BY <1>0, <1>8, <2>1, <2>2 DEF PatchWaits
    <2>4. pulses \in Nat
      BY <1>0
    <2> QED BY <2>1, <2>3, <2>4
  <1>9. OnePulse'
    <2>1. CASE kind = "command"
      BY <1>1, <1>7, <2>1 DEF OnePulse
    <2>2. CASE kind = "patch" /\ ~blind'
      BY <1>1, <1>8, <2>2 DEF OnePulse
    <2>3. CASE kind = "patch" /\ blind'
      BY <1>1, <2>3 DEF OnePulse
    <2>4. kind \in {"command", "patch"}
      BY <1>0
    <2> QED BY <2>1, <2>2, <2>3, <2>4
  <1>10. PatchWaits'
    <2>1. SUFFICES ASSUME kind = "patch", ~blind' PROVE PatchWaits'
      BY <1>1 DEF PatchWaits
    <2>2. now + DelayUs > start + PatchSpan
      BY <1>0, <1>3, <1>8, <2>1
    <2>3. timer["apply"] # Idle => timer["apply"] > start + PatchSpan
      BY <1>0, <1>8, <2>1 DEF PatchWaits
    <2> QED BY <1>1, <1>8, <2>1, <2>2, <2>3 DEF PatchWaits
  <1>11. OnTime'
    <2>1. SUFFICES ASSUME ~blind' PROVE OnTime'
      BY DEF OnTime
    <2>2. ~blind /\ ready
      BY <1>0, <1>1, <2>1
    <2>3. (now + DelayUs) - (start + ApplyDelay) \in Skews \/ now + DelayUs <= now + Least
      BY <1>0, <1>3, <2>2
    <2>4. ASSUME NEW t \in Int, AsAsked(t)
          PROVE  t - (start + ApplyDelay) \in Skews \/ t <= now + Least
      BY <1>0, <2>4 DEF AsAsked
    <2>5. timer["apply"] # Idle =>
             timer["apply"] - (start + ApplyDelay) \in Skews \/ timer["apply"] <= now + Least
      <3>1. timer["apply"] # Idle => timer["apply"] \in Int /\ AsAsked(timer["apply"])
        BY <1>0, <2>2 DEF OnTime
      <3> QED BY <2>4, <3>1
    <2>6. firing = "apply" => now - (start + ApplyDelay) \in Skews \/ now <= now + Least
      BY <1>0
    <2> QED BY <1>1, <2>3, <2>5, <2>6 DEF OnTime, AsAsked
  <1> QED BY <1>5, <1>6, <1>9, <1>10, <1>11 DEF MarkerInv

\* The mesh task stops the timer it is about to set.
LEMMA StopKeepsMarkerInv == OutputInv /\ StopApply => MarkerInv'
  <1> SUFFICES ASSUME OutputInv, StopApply PROVE MarkerInv'
    OBVIOUS
  <1>0. TypeOK /\ CaseInv /\ PulseDue /\ OnePulse /\ PatchWaits /\ OnTime
    BY DEF OutputInv, MarkerInv
  <1>1. /\ pc = "stop" /\ pc' = "start" /\ timer'["apply"] = Idle
        /\ UNCHANGED <<now, delay, firing, pulses, start, last, kind, case, accepted, blind>>
    BY <1>0 DEF StopApply, TypeOK, Timers, clock, cases
  <1>2. CaseInv'
    BY <1>0, <1>1 DEF CaseInv, Span
  <1>3. PulseDue' /\ OnePulse'
    BY <1>0, <1>1 DEF PulseDue, OnePulse
  <1>4. PatchWaits' /\ OnTime'
    BY <1>0, <1>1 DEF PatchWaits, OnTime, AsAsked
  <1> QED BY <1>2, <1>3, <1>4 DEF MarkerInv

\* It sets the timer to the time it computed.
LEMMA SetKeepsMarkerInv == OutputInv /\ StartApply => MarkerInv'
  <1> SUFFICES ASSUME OutputInv, StartApply PROVE MarkerInv'
    OBVIOUS
  <1> USE PulseTypes, ConstantFacts
  <1>0. TypeOK /\ CaseInv /\ PulseDue /\ OnePulse /\ PatchWaits /\ OnTime
    BY DEF OutputInv, MarkerInv
  <1>1. /\ pc = "start" /\ pc' = "idle" /\ timer'["apply"] = now + delay
        /\ UNCHANGED <<now, delay, firing, pulses, start, last, kind, case, accepted, blind>>
    BY <1>0 DEF StartApply, TypeOK, Timers, clock, cases
  <1>2. CaseInv'
    <2>1. now + delay \in Nat /\ now <= now + delay /\ now + delay < last + Gap
      BY <1>0, <1>1 DEF CaseInv
    <2> QED BY <1>0, <1>1, <2>1 DEF CaseInv, Span
  <1>3. PulseDue'
    <2>1. now + delay # Idle
      BY <1>0 DEF Idle
    <2> QED BY <1>1, <2>1 DEF PulseDue
  <1>4. OnePulse'
    BY <1>0, <1>1 DEF OnePulse
  <1>5. PatchWaits' /\ OnTime'
    BY <1>0, <1>1 DEF PatchWaits, OnTime, AsAsked
  <1> QED BY <1>2, <1>3, <1>4, <1>5 DEF MarkerInv

\* The esp_timer task takes a timer off its list at the time it was set to.
LEMMA FireKeepsMarkerInv ==
    ASSUME OutputInv, NEW t \in Timers, Fire(t)
    PROVE  MarkerInv'
  <1> USE PulseTypes, ConstantFacts
  <1>0. TypeOK /\ CaseInv /\ PulseDue /\ OnePulse /\ PatchWaits /\ OnTime
    BY DEF OutputInv, MarkerInv
  <1>1. /\ firing = "none" /\ firing' = t /\ timer[t] # Idle /\ timer[t] <= now
        /\ UNCHANGED <<now, pc, delay, pulses, start, last, kind, case, accepted, blind>>
    BY DEF Fire, Expired, clock, marker, cases
  <1>2. CASE t = "apply"
    <2>1. /\ timer'["apply"] = Idle /\ firing' = "apply"
          /\ timer["apply"] = now /\ accepted /\ now < last + Gap
      BY <1>0, <1>1, <1>2 DEF Fire, TypeOK, Timers, CaseInv
    <2>2. CaseInv'
      BY <1>0, <1>1, <2>1 DEF CaseInv, Span
    <2>3. PulseDue'
      BY <2>1 DEF PulseDue
    <2>4. kind = "patch" /\ ~blind => now > start + PatchSpan
      BY <1>0, <1>1, <1>2, <2>1 DEF PatchWaits
    <2>5. pc # "idle" => now <= start + Span
      BY <1>0 DEF CaseInv
    <2>6. (kind = "command" \/ ~blind) => pc = "idle"
      <3>1. CASE kind = "command"
        BY <1>0, <1>1, <1>2, <3>1 DEF OnePulse
      <3>2. CASE kind = "patch" /\ ~blind
        BY <1>0, <2>4, <2>5, <3>2
      <3> QED BY <1>0, <3>1, <3>2
    <2>7. OnePulse'
      BY <1>0, <1>1, <1>2, <2>1, <2>6 DEF OnePulse
    <2>8. PatchWaits'
      BY <1>0, <1>1, <2>1, <2>4, <2>6 DEF PatchWaits
    <2>9. OnTime'
      BY <1>0, <1>1, <1>2, <2>1 DEF OnTime, AsAsked
    <2> QED BY <2>2, <2>3, <2>7, <2>8, <2>9 DEF MarkerInv
  <1>3. CASE t # "apply"
    <2>1. timer'["apply"] = timer["apply"] /\ firing' # "apply"
      BY <1>0, <1>1, <1>3 DEF Fire, TypeOK, Timers
    <2>2. CaseInv'
      BY <1>0, <1>1, <2>1 DEF CaseInv, Span
    <2>3. PulseDue' /\ OnePulse'
      BY <1>0, <1>1, <2>1 DEF PulseDue, OnePulse
    <2>4. PatchWaits' /\ OnTime'
      BY <1>0, <1>1, <2>1 DEF PatchWaits, OnTime, AsAsked
    <2> QED BY <2>2, <2>3, <2>4 DEF MarkerInv
  <1> QED BY <1>2, <1>3

\* The marker rises.
LEMMA MarkKeepsMarkerInv == OutputInv /\ MarkApply => MarkerInv'
  <1> SUFFICES ASSUME OutputInv, MarkApply PROVE MarkerInv'
    OBVIOUS
  <1> USE PulseTypes
  <1>0. TypeOK /\ CaseInv /\ PulseDue /\ OnePulse /\ PatchWaits /\ OnTime
    BY DEF OutputInv, MarkerInv
  <1>1. /\ firing = "apply" /\ firing' = "none" /\ timer'["apply"] = timer["apply"]
        /\ pulses' = pulses + 1
        /\ UNCHANGED <<now, pc, delay, start, last, kind, case, accepted, blind>>
    BY <1>0 DEF MarkApply, TypeOK, Timers, clock, marker, cases
  <1>2. CaseInv'
    BY <1>0, <1>1 DEF CaseInv, Span
  <1>3. PulseDue' /\ OnePulse'
    BY <1>0, <1>1 DEF PulseDue, OnePulse
  <1>4. PatchWaits' /\ OnTime'
    BY <1>0, <1>1 DEF PatchWaits, OnTime, AsAsked
  <1> QED BY <1>2, <1>3, <1>4 DEF MarkerInv

\* Time passes only up to the next timer, and not while the mesh task schedules.
LEMMA TickKeepsMarkerInv == OutputInv /\ Tick => MarkerInv'
  <1> SUFFICES ASSUME OutputInv, Tick PROVE MarkerInv'
    OBVIOUS
  <1> USE PulseTypes
  <1>0. TypeOK /\ CaseInv /\ PulseDue /\ OnePulse /\ PatchWaits /\ OnTime
    BY DEF OutputInv, MarkerInv
  <1>1. /\ pc = "idle" /\ firing = "none" /\ now' = now + 1
        /\ UNCHANGED <<pc, delay, firing, timer, pulses, start, last, kind, case, accepted, blind>>
    BY DEF Tick, marker, cases
  <1>2. timer["apply"] # Idle => timer["apply"] > now
    BY <1>0 DEF Tick, Expired, Timers
  <1>3. CaseInv'
    BY <1>0, <1>1, <1>2 DEF CaseInv, Span
  <1>4. PulseDue' /\ OnePulse'
    BY <1>0, <1>1 DEF PulseDue, OnePulse
  <1>5. PatchWaits'
    BY <1>0, <1>1 DEF PatchWaits
  <1>6. OnTime'
    BY <1>0, <1>1 DEF OnTime, AsAsked
  <1> QED BY <1>3, <1>4, <1>5, <1>6 DEF MarkerInv

\* Nothing else touches the pulse of a case.
LEMMA OthersKeepMarkerInv ==
    ASSUME OutputInv,
           UNCHANGED <<now, pc, delay, pulses, start, last, kind, case, accepted, blind>>,
           timer'["apply"] = timer["apply"], (firing' = "apply") = (firing = "apply")
    PROVE  MarkerInv'
  BY DEF OutputInv, MarkerInv, CaseInv, Span, PulseDue, OnePulse, PatchWaits, OnTime, AsAsked
-----------------------------------------------------------------------------
\* In a build with a square wave there are no cases, and the timer of the wave is
\* always set or being handled; its level is the one it had at the time it was set.
LEMMA StepKeepsWaveInv ==
    ASSUME TypeOK, WaveInv, [Next]_vars
    PROVE  WaveInv'
  <1> USE PulseTypes, ConstantFacts
  <1>1. build' = build
    BY DEF Next, StepClock, StartCase, HandleCopy, StopApply, StartApply, MarkApply, MarkOff,
           SyncOutput, Tick, Fire, vars
  <1> SUFFICES ASSUME build # "hil" PROVE WaveInv'
    BY <1>1 DEF WaveInv
  <1>2. /\ pc = "idle" /\ timer["apply"] = Idle /\ timer["off"] = Idle
        /\ firing # "apply" /\ firing # "off"
        /\ firing # "sync" =>
               /\ timer["sync"] \in now .. now + Period + Recheck
               /\ ~stepped => WaveSet
    BY DEF WaveInv
  <1>3. CASE StepClock
    BY <1>1, <1>2, <1>3 DEF StepClock, marker, WaveInv
  <1>4. CASE StartCase \/ HandleCopy
    BY <1>4 DEF StartCase, HandleCopy
  <1>5. CASE StopApply \/ StartApply \/ MarkApply \/ MarkOff
    BY <1>2, <1>5 DEF StopApply, StartApply, MarkApply, MarkOff
  <1>6. CASE SyncOutput
    <2> DEFINE wait == build = "sync" /\ ~ready
               d == IF wait THEN Recheck ELSE AtLeast(Transition(now + skew))
    <2>1. now + skew \in Int
      BY DEF TypeOK, Skews
    <2>2. d \in Nat /\ d <= Period + Recheck
      BY <2>1, LevelHolds DEF AtLeast
    <2>3. /\ firing' = "none" /\ level' = (IF wait THEN 0 ELSE LevelAt(now + skew))
          /\ timer' = [timer EXCEPT !["sync"] = now + d]
          /\ UNCHANGED <<pc, now, ready, skew>>
      BY <1>6 DEF SyncOutput, clock, marker
    <2>4. /\ timer'["sync"] = now + d /\ timer'["apply"] = Idle /\ timer'["off"] = Idle
      BY <1>2, <2>3 DEF TypeOK, Timers
    <2>5. timer'["sync"] \in now' .. now' + Period + Recheck
      <3> HIDE DEF d
      <3> QED BY <2>2, <2>3, <2>4
    <2>6. WaveSet'
      <3>1. CASE wait
        BY <1>1, <2>3, <3>1 DEF WaveSet, NoClock
      <3>2. CASE ~wait
        <4>1. now \in 0 .. now
          OBVIOUS
        <4>2. /\ level' = LevelAt(now + skew')
              /\ timer'["sync"] = now + AtLeast(Transition(now + skew'))
          BY <2>3, <2>4, <3>2
        <4>3. \E set \in 0 .. now' :
                  /\ level' = LevelAt(set + skew')
                  /\ timer'["sync"] = set + AtLeast(Transition(set + skew'))
          BY <2>3, <4>1, <4>2
        <4> QED BY <1>1, <2>3, <3>2, <4>3 DEF WaveSet, NoClock
      <3> QED BY <3>1, <3>2
    <2> QED BY <1>2, <2>3, <2>4, <2>5, <2>6 DEF WaveInv
  <1>7. CASE Tick
    <2>1. /\ now' = now + 1 /\ firing = "none"
          /\ UNCHANGED <<build, ready, skew, timer, firing, level, pc, stepped>>
      BY <1>7 DEF Tick, marker
    <2>2. timer["sync"] # Idle => timer["sync"] > now
      BY <1>7 DEF Tick, Expired, Timers
    <2>3. /\ timer["sync"] \in now .. now + Period + Recheck
          /\ ~stepped => WaveSet
      <3>1. firing # "sync"
        BY <2>1
      <3> QED BY <1>2, <3>1
    <2>4. timer["sync"] \in (now + 1) .. (now + 1) + Period + Recheck
      <3>1. now \in Nat
        OBVIOUS
      <3> QED BY <2>2, <2>3, <3>1 DEF Idle
    <2>5. ASSUME ~stepped PROVE WaveSet'
      <3>1. WaveSet
        BY <2>3, <2>5
      <3>2. \A set \in 0 .. now : set \in 0 .. now + 1
        OBVIOUS
      <3> QED BY <2>1, <3>1, <3>2 DEF WaveSet, NoClock
    <2> QED BY <1>2, <2>1, <2>4, <2>5 DEF WaveInv
  <1>8. ASSUME NEW t \in Timers, Fire(t) PROVE WaveInv'
    <2>1. t = "sync"
      BY <1>2, <1>8 DEF Fire, Expired, Timers
    <2>2. /\ firing' = "sync" /\ timer'["apply"] = Idle /\ timer'["off"] = Idle /\ pc' = pc
      BY <1>2, <1>8, <2>1 DEF Fire, TypeOK, Timers, marker
    <2> QED BY <1>2, <2>2 DEF WaveInv
  <1>9. CASE UNCHANGED vars
    BY <1>2, <1>9 DEF vars, clock, marker, WaveInv, WaveSet, NoClock
  <1> QED BY <1>3, <1>4, <1>5, <1>6, <1>7, <1>8, <1>9 DEF Next

\* The satellite starts with nothing accepted and the timer of the wave set.
LEMMA InitOutputInv == Init => OutputInv
  <1> SUFFICES ASSUME Init PROVE OutputInv
    OBVIOUS
  <1> USE ConstantFacts
  <1>1. /\ timer["apply"] = Idle /\ timer["off"] = Idle
        /\ timer["sync"] = (IF build # "hil" THEN Least ELSE Idle)
    BY DEF Init, Timers
  <1>2. TypeOK
    <2>1. timer \in [Timers -> Nat \cup {Idle}]
      BY DEF Init
    <2>2. now \in 0 .. MaxTime /\ steps \in 0 .. MaxSteps /\ case \in 0 .. MaxCases
      BY DEF Init
    <2>3. /\ firing \in Timers \cup {"none"} /\ level \in {0, 1}
          /\ pc \in {"idle", "stop", "start"} /\ delay \in Nat /\ pulses \in Nat
          /\ kind \in {"command", "patch"} /\ start \in 0 .. now /\ last \in 0 .. now
      BY DEF Init
    <2>4. ready \in BOOLEAN /\ accepted \in BOOLEAN /\ blind \in BOOLEAN /\ stepped \in BOOLEAN
      BY DEF Init
    <2>5. build \in {"hil", "sync", "free"} /\ skew \in Skews
      BY DEF Init
    <2> QED BY <2>1, <2>2, <2>3, <2>4, <2>5 DEF TypeOK
  <1>3. MarkerInv
    <2>1. Span \in Nat
      BY <1>2, PulseTypes
    <2> QED BY <1>1, <2>1 DEF Init, MarkerInv, CaseInv, PulseDue, OnePulse, PatchWaits, OnTime
  <1>4. WaveInv
    <2>1. Least \in 0 .. 0 + Period + Recheck
      OBVIOUS
    <2> QED BY <1>1, <2>1 DEF Init, WaveInv, WaveSet
  <1> QED BY <1>2, <1>3, <1>4 DEF OutputInv

\* Every step keeps the invariant.
LEMMA StepOutputInv == OutputInv /\ [Next]_vars => OutputInv'
  <1> SUFFICES ASSUME OutputInv, [Next]_vars PROVE OutputInv'
    OBVIOUS
  <1>1. TypeOK' /\ WaveInv'
    BY StepTypes, StepKeepsWaveInv DEF OutputInv
  <1>2. MarkerInv'
    <2>1. CASE StepClock
      BY <2>1, OthersKeepMarkerInv DEF StepClock, marker, cases
    <2>2. CASE StartCase
      BY <2>2, StartKeepsMarkerInv
    <2>3. CASE HandleCopy
      BY <2>3, CopyKeepsMarkerInv
    <2>4. CASE StopApply
      BY <2>4, StopKeepsMarkerInv
    <2>5. CASE StartApply
      BY <2>5, SetKeepsMarkerInv
    <2>6. CASE MarkApply
      BY <2>6, MarkKeepsMarkerInv
    <2>7. CASE MarkOff
      BY <2>7, OthersKeepMarkerInv DEF MarkOff, clock, marker, cases
    <2>8. CASE SyncOutput
      <3>1. timer'["apply"] = timer["apply"]
        BY <2>8 DEF SyncOutput, OutputInv, TypeOK, Timers
      <3> QED BY <2>8, <3>1, OthersKeepMarkerInv DEF SyncOutput, clock, marker, cases
    <2>9. CASE Tick
      BY <2>9, TickKeepsMarkerInv
    <2>10. ASSUME NEW t \in Timers, Fire(t) PROVE MarkerInv'
      BY <2>10, FireKeepsMarkerInv
    <2>11. CASE UNCHANGED vars
      BY <2>11, OthersKeepMarkerInv DEF vars, clock, marker, cases
    <2> QED BY <2>1, <2>2, <2>3, <2>4, <2>5, <2>6, <2>7, <2>8, <2>9, <2>10, <2>11 DEF Next
  <1> QED BY <1>1, <1>2 DEF OutputInv
-----------------------------------------------------------------------------
\* The inductive invariant holds in every state.
THEOREM OutputInvariant == Spec => []OutputInv
  BY InitOutputInv, StepOutputInv, PTL DEF Spec

\* The state keeps its types.
THEOREM TypeCorrect == Spec => []TypeOK
  <1>1. OutputInv => TypeOK
    BY DEF OutputInv
  <1> QED BY OutputInvariant, <1>1, PTL

\* hil_mark_apply() runs at most once for a case whose frames scheduled it with a
\* clock, or that is a command.
THEOREM OnePulseAtMost == Spec => []AtMostOnePulse
  <1>1. OutputInv => AtMostOnePulse
    BY DEF OutputInv, MarkerInv, OnePulse, AtMostOnePulse
  <1> QED BY OutputInvariant, <1>1, PTL

\* An accepted case has its pulse before the controller begins the next one, whose
\* first frame would stop the timer.
THEOREM EveryCaseMarked == Spec => NoCaseLost
  <1>1. OutputInv /\ [Next]_vars => [case' # case /\ accepted => pulses > 0]_vars
    <2> SUFFICES ASSUME OutputInv, Next, case' # case, accepted
                 PROVE  pulses > 0
      OBVIOUS
    <2>1. StartCase
      BY DEF Next, StepClock, HandleCopy, StopApply, StartApply, MarkApply, MarkOff,
             SyncOutput, Tick, Fire, cases
    <2>2. timer["apply"] = Idle /\ firing # "apply" /\ pc = "idle"
      BY <2>1, NothingPending DEF OutputInv, MarkerInv
    <2> QED BY <2>2 DEF OutputInv, MarkerInv, PulseDue
  <1> QED BY OutputInvariant, <1>1, PTL DEF Spec, NoCaseLost

\* A marker rises within the error of the clock of the time the controller asked
\* for, or as soon after the last frame as a timer can be set.
THEOREM MarkedOnTime == Spec => AppliesOnTime
  <1>1. OutputInv /\ [Next]_vars =>
            [pulses' > pulses /\ ~blind =>
                \/ now - (start + ApplyDelay) \in Skews
                \/ now <= last + Least]_vars
    <2> SUFFICES ASSUME OutputInv, Next, pulses' > pulses, ~blind
                 PROVE  \/ now - (start + ApplyDelay) \in Skews
                        \/ now <= last + Least
      OBVIOUS
    <2>1. pulses \in Nat
      BY PulseTypes DEF OutputInv
    <2>2. firing = "apply"
      BY <2>1 DEF Next, StepClock, StartCase, HandleCopy, StopApply, StartApply, MarkApply,
                  MarkOff, SyncOutput, Tick, Fire
    <2> QED BY <2>2 DEF OutputInv, MarkerInv, OnTime, AsAsked
  <1> QED BY OutputInvariant, <1>1, PTL DEF Spec, AppliesOnTime

\* The square wave has the level of the shared clock, late by less than the least
\* time a timer is set for.
THEOREM WaveIsTheClocks == Spec => []WaveFollowsClock
  <1>1. OutputInv => WaveFollowsClock
    <2> SUFFICES ASSUME OutputInv, build # "hil" PROVE WaveFollowsClock
      BY DEF WaveFollowsClock
    <2> USE ConstantFacts
    <2>0. TypeOK /\ WaveInv
      BY DEF OutputInv
    <2>1. firing = "sync" \/ timer["sync"] \in now .. now + Period + Recheck
      BY <2>0 DEF WaveInv
    <2>2. ASSUME firing = "none", ~Expired("sync"), ~stepped, now >= Least
          PROVE  IF build = "sync" /\ ~ready THEN level = 0
                 ELSE \E late \in 0 .. Least - 1 : level = LevelAt(now - late + skew)
      <3>1. now \in Nat /\ skew \in Int
        BY <2>0 DEF TypeOK, Skews
      <3>2. WaveSet /\ timer["sync"] \in Nat
        BY <2>0, <2>2, <3>1 DEF WaveInv
      <3>3. timer["sync"] > now
        BY <2>2, <3>1, <3>2 DEF Expired, Idle
      <3>4. timer["sync"] # Least
        BY <2>2, <3>1, <3>3
      <3>5. CASE NoClock /\ level = 0
        BY <3>5 DEF NoClock
      <3>6. ASSUME ~NoClock, NEW set \in 0 .. now, level = LevelAt(set + skew),
                   timer["sync"] = set + AtLeast(Transition(set + skew))
            PROVE  \E late \in 0 .. Least - 1 : level = LevelAt(now - late + skew)
        <4> DEFINE t == set + skew
                   d == now - set
        <4>1. t \in Int /\ d \in Nat /\ now + skew = t + d /\ d < AtLeast(Transition(t))
          <5>1. t \in Int /\ Transition(t) \in 1 .. Period
            BY <3>1, LevelHolds
          <5>2. AtLeast(Transition(t)) \in Nat
            BY <5>1 DEF AtLeast
          <5> QED BY <3>1, <3>3, <3>6, <5>1, <5>2
        <4>2. CASE d < Least
          <5>1. d \in 0 .. Least - 1 /\ now - d + skew = t
            BY <3>1, <4>1, <4>2
          <5> QED BY <3>6, <5>1
        <4>3. CASE d >= Least
          <5>1. d < Transition(t)
            BY <4>1, <4>3, LevelHolds DEF AtLeast
          <5>2. level = LevelAt(t + d)
            BY <3>6, <4>1, <5>1, LevelHolds
          <5>3. now - 0 + skew = t + d /\ 0 \in 0 .. Least - 1
            BY <3>1, <4>1
          <5> QED BY <5>2, <5>3
        <4> QED BY <4>1, <4>2, <4>3
      <3> QED BY <3>2, <3>4, <3>5, <3>6 DEF WaveSet, NoClock
    <2> QED BY <2>1, <2>2 DEF WaveFollowsClock
  <1> QED BY OutputInvariant, <1>1, PTL
=============================================================================
