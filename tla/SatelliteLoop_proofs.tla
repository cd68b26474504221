------------------------ MODULE SatelliteLoop_proofs ------------------------
(***************************************************************************)
(* Proofs about SatelliteLoop, for any set of channels and any durations    *)
(* that LoopAssumption allows: the lock, the requests and the discovery of  *)
(* the satellite keep their times on a clock that wraps.                    *)
(***************************************************************************)
EXTENDS SatelliteLoop, Functions, TLAPS
-----------------------------------------------------------------------------
(***************************************************************************)
(* The inductive invariant.  The tallies of the properties count real time; *)
(* the code only has wrapping stamps.  The parts say that the two agree     *)
(* while a decision depends on them, and that no wait of the task reaches   *)
(* past the moment at which it must look again.                             *)
(***************************************************************************)
\* Time left until the task wakes.
Left == Minus(wake, now)

\* What a wait may be needed for: no more than the time left.
Ahead(t) == IF Diff(t, now) > 0 THEN Diff(t, now) ELSE 0

\* A link exists only during an attempt, and its events are handled before the
\* attempt can end by time, so the event task is never more than one behind.
EventsFit ==
    /\ link # "idle" => pc \in {"connect", "hold"}
    /\ pc \in {"connect", "hold"} /\ now = wake => Len(events) <= MaxEvents

\* Associations are reported only after the station joined.
JoinedFirst ==
    (connected \/ discovered \/ link = "joined" \/ "connected" \in Range(events)) => joined

\* Only an unlocked satellite is away from its queue.
AttemptsUnlocked == pc \in {"scan", "connect", "hold"} => ~locked

\* Under a lock, s_last_controller_rx_ms is as old as the silence, and the wait ends
\* in time to see it.
SilenceTold == locked =>
    /\ silence = Minus(now, lastRx)
    /\ silence <= Timeout + WaitCap
    /\ pc = "wait" => silence + Left <= Timeout + WaitCap

\* The next request is Interval after the last, or due at 0, where the lock put it;
\* no wait reaches past it.
RequestPlanned ==
    /\ ~locked => unsynced = 0
    /\ locked => \/ unsynced + Minus(nextSync, now) = Interval
                 \/ nextSync = 0 /\ (Diff(0, now) >= 0 \/ (pc = "top" /\ unsynced = 0))
    /\ locked /\ pc = "wait" => Left <= Diff(nextSync, now)

\* Unlocked, the next attempt is at most Pause of idle time away, and no wait
\* reaches past it.  During an attempt its time recedes by no more than the
\* attempt takes, so it is never mistaken for one to come.
AttemptPlanned ==
    /\ idle <= Pause /\ (locked => idle = 0)
    /\ ~locked /\ pc \in {"top", "wait"} => idle + Ahead(nextReg) <= Pause
    /\ ~locked /\ pc = "wait" => Left <= Ahead(nextReg)
    /\ pc = "scan" => idle = 0 /\ Diff(nextReg, now) \in Retry - Scan + Left .. Retry
    /\ pc = "connect" =>
           idle = 0 /\ Diff(nextReg, now) \in Retry - Scan - Connect + Left .. Retry
    /\ pc = "hold" =>
           idle = 0 /\ Diff(nextReg, now) \in Retry - Scan - Connect - Hold + Left .. Retry

LoopInv ==
    /\ TypeOK /\ EventsFit /\ JoinedFirst /\ AttemptsUnlocked
    /\ SilenceTold /\ RequestPlanned /\ AttemptPlanned

-----------------------------------------------------------------------------
\* The durations, and Pause, in the range in which stamps can be compared.
LEMMA Durations ==
    /\ Half \in Nat /\ Half > 1 /\ WaitCap \in Nat /\ WaitCap > 0 /\ Pause \in Nat
    /\ \A d \in {Timeout, Interval, Listen, Retry, Scan, Connect, Hold} :
           d \in Nat /\ d > 0 /\ d + WaitCap < Half
    /\ Listen <= Pause /\ Retry <= Pause
    /\ Scan + Connect + Hold < Half
<1>1. Half \in Nat /\ Half > 1 /\ WaitCap \in Nat /\ WaitCap > 0
  BY LoopAssumption, HalfAssumption
<1>2. \A d \in {Timeout, Interval, Listen, Retry, Scan, Connect, Hold} :
          d \in Nat \ {0} /\ d + WaitCap < Half
  BY LoopAssumption
<1>3. \A d \in {Timeout, Interval, Listen, Retry, Scan, Connect, Hold} :
          d \in Nat /\ d > 0 /\ d + WaitCap < Half
  BY <1>2
<1>4. Listen \in Nat /\ Retry \in Nat
  BY <1>3
<1>5. Pause \in Nat /\ Listen <= Pause /\ Retry <= Pause
  BY <1>4 DEF Pause
<1> QED BY <1>1, <1>3, <1>5, LoopAssumption

\* A stamp n later is n away; a stamp is at distance 0 of itself only.
LEMMA PlusFacts ==
    ASSUME NEW a \in Word, NEW n \in Nat, n < Half
    PROVE  Plus(a, n) \in Word /\ Minus(Plus(a, n), a) = n /\ Diff(Plus(a, n), a) = n
BY HalfAssumption DEF Word, Plus, Minus, Diff

\* The two differences of two stamps, and when they agree.
LEMMA MinusFacts ==
    ASSUME NEW a \in Word, NEW b \in Word
    PROVE  /\ Minus(a, b) \in Nat /\ Minus(a, b) < 2 * Half
           /\ Minus(a, b) = 0 <=> a = b
           /\ Diff(a, b) \in Int /\ -Half <= Diff(a, b) /\ Diff(a, b) < Half
           /\ Minus(a, b) < Half => Diff(a, b) = Minus(a, b)
           /\ Diff(a, b) >= 0 => Minus(a, b) = Diff(a, b)
BY HalfAssumption DEF Word, Minus, Diff

\* One tick: what lies ahead comes closer, what lies behind recedes.
LEMMA TickFacts ==
    ASSUME NEW t \in Word, NEW a \in Word
    PROVE  /\ Plus(t, 1) \in Word
           /\ a # t => Minus(a, Plus(t, 1)) = Minus(a, t) - 1
           /\ Minus(t, a) + 1 < 2 * Half => Minus(Plus(t, 1), a) = Minus(t, a) + 1
           /\ Diff(a, t) > -Half => Diff(a, Plus(t, 1)) = Diff(a, t) - 1
BY HalfAssumption DEF Word, Plus, Minus, Diff

\* A tally never stops at or below a bound it is compared with.
LEMMA TallyFacts ==
    /\ TallyLimit \in Nat /\ TallyLimit > Timeout + WaitCap
    /\ TallyLimit > Interval /\ TallyLimit > Pause
<1> DEFINE S == {Timeout + WaitCap, Interval, Pause}
<1>1. S \subseteq Nat
  BY Durations
<1>2. \E x \in S : \A y \in S : x >= y
  BY Durations
<1>3. Max(S) \in S /\ \A y \in S : Max(S) >= y
  <2> HIDE DEF S
  <2> QED BY <1>2 DEF Max
<1>4. TallyLimit = 1 + Max(S)
  BY DEF TallyLimit
<1> QED BY <1>1, <1>3, <1>4, Durations

\* A tally stays within its limit.
LEMMA MoreFacts ==
    ASSUME NEW t \in 0 .. TallyLimit
    PROVE  More(t) \in 0 .. TallyLimit /\ (t < TallyLimit => More(t) = t + 1)
BY TallyFacts DEF More

\* The stamps and tallies of a state.
LEMMA Numbers ==
    ASSUME TypeOK
    PROVE  /\ now \in Word /\ wake \in Word /\ lastRx \in Word
           /\ nextSync \in Word /\ nextReg \in Word
           /\ silence \in 0 .. TallyLimit /\ unsynced \in 0 .. TallyLimit
           /\ idle \in 0 .. TallyLimit
           /\ locked \in BOOLEAN /\ 0 \in Word
BY HalfAssumption DEF TypeOK, Word

\* A wait is neither longer than WaitCap nor than the time left.
LEMMA WaitFacts ==
    ASSUME TypeOK, NEW held, NEW sync \in Word, NEW reg \in Word, Waits(held, sync, reg)
    PROVE  /\ pc' = "wait" /\ wake' \in Word
           /\ Minus(wake', now) \in Nat /\ Minus(wake', now) <= WaitCap
           /\ held => Minus(wake', now) <= Ahead(sync)
           /\ ~held => Minus(wake', now) <= Ahead(reg)
<1> DEFINE until == IF held THEN sync ELSE reg
<1>1. until \in Word /\ now \in Word
  BY Numbers
<1>2. Diff(until, now) \in Int
  BY <1>1, MinusFacts
<1> HIDE DEF until
<1>3. Wait(until) \in Nat /\ Wait(until) <= WaitCap /\ Wait(until) <= Ahead(until)
  BY <1>2, Durations DEF Wait, Ahead
<1>4. WaitCap < Half
  BY Durations
<1>5. Wait(until) < Half
  BY <1>3, <1>4, Durations
<1>6. pc' = "wait" /\ wake' = Plus(now, Wait(until))
  BY DEF Waits, until
<1>7. wake' \in Word /\ Minus(wake', now) = Wait(until)
  BY <1>1, <1>3, <1>5, <1>6, PlusFacts
<1> QED BY <1>3, <1>6, <1>7 DEF until
-----------------------------------------------------------------------------
\* What the four parts about the lock and the times say.
TimesTold == AttemptsUnlocked /\ SilenceTold /\ RequestPlanned /\ AttemptPlanned

\* They are about the task's own variables and the clock.
LEMMA TimesSame ==
    ASSUME TimesTold, UNCHANGED <<now, pc, wake, locked, lastRx, nextSync, nextReg, tallies>>
    PROVE  TimesTold'
BY DEF TimesTold, AttemptsUnlocked, SilenceTold, RequestPlanned, AttemptPlanned, Left, Ahead,
       tallies

\* An attempt that ends puts the task back to its queue, until the next attempt.
LEMMA BackToQueue ==
    ASSUME TypeOK, TimesTold, pc \in {"scan", "connect", "hold"},
           Waits(locked, nextSync, nextReg),
           UNCHANGED <<now, locked, lastRx, nextSync, nextReg, tallies>>
    PROVE  TimesTold' /\ pc' = "wait" /\ wake' \in Word
<1>1. ~locked
  BY DEF TimesTold, AttemptsUnlocked
<1>2. /\ pc' = "wait" /\ wake' \in Word
      /\ Minus(wake', now) \in Nat /\ Minus(wake', now) <= Ahead(nextReg)
  BY <1>1, Numbers, WaitFacts
<1>3. Diff(nextReg, now) \in Int /\ idle = 0 /\ Diff(nextReg, now) <= Retry
  <2>1. Diff(nextReg, now) \in Int
    BY Numbers, MinusFacts
  <2> QED BY <2>1 DEF TimesTold, AttemptPlanned
<1>4. idle + Ahead(nextReg) <= Pause
  BY <1>3, Durations DEF Ahead
<1>5. AttemptPlanned'
  BY <1>1, <1>2, <1>4 DEF TimesTold, AttemptPlanned, Left, Ahead, tallies
<1>6. AttemptsUnlocked' /\ SilenceTold' /\ RequestPlanned'
  BY <1>1 DEF TimesTold, AttemptsUnlocked, SilenceTold, RequestPlanned, tallies
<1> QED BY <1>2, <1>5, <1>6 DEF TimesTold

\* The top of the loop.  A silence of Timeout is seen, a due request is sent and a
\* due attempt made; otherwise the wait ends in time for each of them.
LEMMA IterateKeepsTimes ==
    ASSUME TypeOK, TimesTold, Iterate
    PROVE  TimesTold' /\ wake' \in Word /\ nextSync' \in Word /\ nextReg' \in Word
           /\ pc' \in {"wait", "scan"}
           /\ silence' \in 0 .. TallyLimit /\ unsynced' \in 0 .. TallyLimit
           /\ idle' \in 0 .. TallyLimit
<1>0. /\ pc = "top" /\ UNCHANGED <<now, lastRx>>
      /\ locked' = (locked /\ ~ Lost)
      /\ nextSync' = SyncTime
      /\ nextReg' = IF Tries THEN Plus(now, Retry) ELSE RegistrationTime
      /\ silence' = IF locked' THEN silence ELSE 0
      /\ unsynced' = IF ~ locked' \/ (nextSync' # nextSync) THEN 0 ELSE unsynced
      /\ idle' = IF Lost \/ Tries THEN 0 ELSE idle
  BY DEF Iterate, clock
<1>1. TallyLimit \in Nat /\ Interval \in Nat /\ Retry \in Nat /\ Scan \in Nat /\ Timeout \in Nat
      /\ Interval < Half /\ Retry < Half /\ Scan < Half /\ Timeout + WaitCap < Half
      /\ Interval > 0 /\ Half \in Nat /\ WaitCap \in Nat /\ Retry <= Pause /\ Pause \in Nat
  BY TallyFacts, Durations
<1>2. now \in Word /\ nextSync \in Word /\ nextReg \in Word /\ lastRx \in Word
      /\ silence \in 0 .. TallyLimit /\ unsynced \in 0 .. TallyLimit /\ idle \in 0 .. TallyLimit
      /\ locked \in BOOLEAN
  BY Numbers
<1>3. nextSync' \in Word
  BY <1>0, <1>1, <1>2, PlusFacts DEF SyncTime
<1>4. nextReg' \in Word
  BY <1>0, <1>1, <1>2, PlusFacts DEF RegistrationTime
<1>5. silence' \in 0 .. TallyLimit /\ unsynced' \in 0 .. TallyLimit /\ idle' \in 0 .. TallyLimit
  BY <1>0, <1>1, <1>2
<1>d. Diff(now, now) = 0 /\ Diff(nextReg, now) \in Int /\ Diff(nextSync, now) \in Int
  <2>1. Minus(now, now) = 0 /\ 0 < Half
    BY <1>2, MinusFacts, Durations
  <2> QED BY <1>2, <2>1, MinusFacts
<1>w. pc' \in {"wait", "scan"}
  BY DEF Iterate, Waits
\* Still locked: the frame is younger than Timeout.
<1>6. CASE locked /\ ~ Lost
  <2>1. locked' /\ silence' = silence /\ silence = Minus(now, lastRx) /\ silence < Timeout
    <3>1. silence = Minus(now, lastRx) /\ silence <= Timeout + WaitCap
      BY <1>6 DEF TimesTold, SilenceTold
    <3>2. Diff(now, lastRx) = silence
      BY <1>1, <1>2, <3>1, MinusFacts
    <3>3. ~ (Diff(now, lastRx) >= Timeout)
      BY <1>6 DEF Lost
    <3>4. locked' /\ silence' = silence
      BY <1>0, <1>6
    <3>5. silence < Timeout
      BY <1>1, <1>2, <3>2, <3>3
    <3> QED BY <3>1, <3>4, <3>5
  <2>2. ~ Tries
    BY <1>6 DEF Tries
  <2>3. Waits(locked', nextSync', nextReg')
    BY <2>2 DEF Iterate
  <2>4. /\ pc' = "wait" /\ wake' \in Word
        /\ Minus(wake', now) \in Nat /\ Minus(wake', now) <= WaitCap
        /\ Minus(wake', now) <= Ahead(nextSync')
    BY <1>3, <1>4, <2>1, <2>3, WaitFacts
  <2>5. SilenceTold'
    BY <1>0, <1>1, <1>2, <2>1, <2>4 DEF SilenceTold, Left
  <2>6. CASE Diff(nextSync, now) <= 0
    <3>1. nextSync' = Plus(now, Interval)
      BY <1>0, <1>6, <2>6 DEF SyncTime
    <3>2. Minus(nextSync', now) = Interval /\ Diff(nextSync', now) = Interval
      BY <1>1, <1>2, <3>1, PlusFacts
    <3>3. unsynced' = 0
      BY <1>0, <1>1, <2>6, <3>2
    <3> QED
      <4>1. RequestPlanned'
        BY <1>0, <1>1, <2>1, <2>4, <3>2, <3>3 DEF RequestPlanned, Left, Ahead
      <4>2. AttemptsUnlocked' /\ AttemptPlanned'
        BY <1>0, <1>6, <2>1, <2>2, <2>4 DEF TimesTold, AttemptsUnlocked, AttemptPlanned
      <4> QED BY <1>3, <1>4, <1>5, <1>w, <2>4, <2>5, <4>1, <4>2 DEF TimesTold
  <2>7. CASE ~ (Diff(nextSync, now) <= 0)
    <3>1. nextSync' = nextSync /\ unsynced' = unsynced
      BY <1>0, <2>1, <2>7 DEF SyncTime
    <3>2. \/ unsynced + Minus(nextSync, now) = Interval
          \/ nextSync = 0 /\ Diff(0, now) >= 0
      BY <1>6, <1>d, <2>7 DEF TimesTold, RequestPlanned
    <3>3. RequestPlanned'
      BY <1>0, <1>d, <2>1, <2>4, <2>7, <3>1, <3>2 DEF RequestPlanned, Left, Ahead
    <3>4. AttemptsUnlocked' /\ AttemptPlanned'
      BY <1>0, <1>6, <2>1, <2>2, <2>4 DEF TimesTold, AttemptsUnlocked, AttemptPlanned
    <3> QED BY <1>3, <1>4, <1>5, <1>w, <2>4, <2>5, <3>3, <3>4 DEF TimesTold
  <2> QED BY <2>6, <2>7
\* Not locked, or not any more, and an attempt is due: always so after a loss.
<1>7. CASE ~ (locked /\ ~ Lost) /\ Tries
  <2>1. /\ ~ locked' /\ pc' = "scan" /\ wake' = Plus(now, Scan)
        /\ nextReg' = Plus(now, Retry) /\ idle' = 0 /\ unsynced' = 0
    BY <1>0, <1>7 DEF Iterate
  <2>2. wake' \in Word /\ Minus(wake', now) = Scan /\ Diff(nextReg', now) = Retry
    BY <1>1, <1>2, <2>1, PlusFacts
  <2>3. AttemptPlanned'
    BY <1>0, <1>1, <2>1, <2>2 DEF AttemptPlanned, Left
  <2>4. AttemptsUnlocked' /\ SilenceTold' /\ RequestPlanned'
    BY <2>1 DEF AttemptsUnlocked, SilenceTold, RequestPlanned
  <2> QED BY <1>3, <1>4, <1>5, <2>1, <2>2, <2>3, <2>4 DEF TimesTold
<1>8. CASE ~ (locked /\ ~ Lost) /\ ~ Tries
  <2>1. ~ Lost /\ ~ locked
    BY <1>8, <1>d DEF Tries, RegistrationTime
  <2>2. nextReg' = nextReg /\ Diff(nextReg, now) > 0 /\ ~ locked' /\ idle' = idle /\ unsynced' = 0
    <3>1. nextReg' = RegistrationTime /\ RegistrationTime = nextReg
      BY <1>0, <1>8, <2>1 DEF RegistrationTime
    <3>2. ~ (Diff(nextReg, now) <= 0)
      BY <1>8, <2>1, <3>1 DEF Tries
    <3>3. ~ locked' /\ idle' = idle
      BY <1>0, <1>8, <2>1
    <3> QED BY <1>0, <1>d, <3>1, <3>2, <3>3
  <2>3. Waits(FALSE, nextSync', nextReg')
    BY <1>8, <2>2 DEF Iterate, Waits
  <2>4. /\ pc' = "wait" /\ wake' \in Word /\ Minus(wake', now) <= Ahead(nextReg)
    <3>1. /\ pc' = "wait" /\ wake' \in Word
          /\ Minus(wake', now) <= Ahead(nextReg')
      BY <1>3, <1>4, <2>3, WaitFacts
    <3> QED BY <2>2, <3>1
  <2>5. idle <= Pause /\ idle + Ahead(nextReg) <= Pause
    BY <1>0, <2>1 DEF TimesTold, AttemptPlanned
  <2>6. AttemptPlanned'
    BY <1>0, <2>2, <2>4, <2>5 DEF AttemptPlanned, Left, Ahead
  <2>7. AttemptsUnlocked' /\ SilenceTold' /\ RequestPlanned'
    BY <2>2, <2>4 DEF AttemptsUnlocked, SilenceTold, RequestPlanned
  <2> QED BY <1>3, <1>4, <1>5, <2>4, <2>6, <2>7 DEF TimesTold
<1> QED BY <1>6, <1>7, <1>8

\* A frame: the lock it may make is fresh, with a request due at once or at 0.
LEMMA ReceiveKeepsTimes ==
    ASSUME TypeOK, TimesTold, Receive
    PROVE  TimesTold' /\ nextSync' \in Word /\ lastRx' \in Word /\ locked' \in BOOLEAN
           /\ silence' \in 0 .. TallyLimit /\ unsynced' \in 0 .. TallyLimit
           /\ idle' \in 0 .. TallyLimit
<1> DEFINE locks == Head(queue) = "data" /\ ~ locked /\ (hil => discovered)
<1>1. /\ pc = "wait" /\ pc' = "top" /\ UNCHANGED <<now, wake, nextReg>>
      /\ locked' = (locked \/ locks)
      /\ nextSync' = IF locks THEN 0 ELSE nextSync
      /\ unsynced' = IF locks THEN 0 ELSE unsynced
      /\ lastRx' = IF locked' THEN now ELSE lastRx
      /\ silence' = 0 /\ idle' = IF locked' THEN 0 ELSE idle
  BY DEF Receive, SyncTimeOnLock, HeardAt, clock
<1>2. locks => ~ locked
  OBVIOUS
<1> HIDE DEF locks
<1>3. /\ now \in Word /\ nextSync \in Word /\ nextReg \in Word /\ lastRx \in Word /\ wake \in Word
      /\ unsynced \in 0 .. TallyLimit /\ idle \in 0 .. TallyLimit
      /\ locked \in BOOLEAN /\ 0 \in Word
      /\ TallyLimit \in Nat /\ Timeout + WaitCap \in Nat /\ Pause \in Nat
  <2>1. Timeout + WaitCap \in Nat
    BY Durations
  <2> QED BY <2>1, Numbers, TallyFacts, Durations
<1>4. /\ nextSync' \in Word /\ lastRx' \in Word /\ locked' \in BOOLEAN
      /\ silence' \in 0 .. TallyLimit /\ unsynced' \in 0 .. TallyLimit /\ idle' \in 0 .. TallyLimit
  BY <1>1, <1>3
<1>5. SilenceTold'
  <2>1. locked' => silence' = Minus(now, lastRx')
    BY <1>1, <1>3, MinusFacts
  <2> QED BY <1>1, <1>3, <2>1 DEF SilenceTold
<1>6. RequestPlanned'
  <2>1. CASE locks
    BY <1>1, <2>1 DEF RequestPlanned
  <2>2. CASE ~ locks
    <3>1. locked' = locked /\ nextSync' = nextSync /\ unsynced' = unsynced
      BY <1>1, <1>3, <2>2
    <3> QED BY <1>1, <3>1 DEF TimesTold, RequestPlanned
  <2> QED BY <2>1, <2>2
<1>7. AttemptPlanned'
  <2>1. CASE locked'
    BY <1>1, <1>3, <2>1 DEF AttemptPlanned
  <2>2. CASE ~ locked'
    <3>1. ~ locked /\ idle' = idle
      BY <1>1, <2>2
    <3> QED BY <1>1, <2>2, <3>1 DEF TimesTold, AttemptPlanned, Ahead
  <2> QED BY <2>1, <2>2
<1>8. AttemptsUnlocked'
  BY <1>1 DEF AttemptsUnlocked
<1> QED BY <1>4, <1>5, <1>6, <1>7, <1>8 DEF TimesTold

\* Time passes only until the task wakes, so every tally that grows has a stamp
\* that still lies ahead.
LEMMA TickKeepsTimes ==
    ASSUME TypeOK, TimesTold, Tick
    PROVE  TimesTold' /\ now' \in Word
           /\ silence' \in 0 .. TallyLimit /\ unsynced' \in 0 .. TallyLimit
           /\ idle' \in 0 .. TallyLimit
<1>1. /\ pc # "top" /\ now # wake /\ now' = Plus(now, 1)
      /\ UNCHANGED <<pc, wake, locked, lastRx, nextSync, nextReg>>
      /\ silence' = IF locked THEN More(silence) ELSE 0
      /\ unsynced' = IF locked THEN More(unsynced) ELSE 0
      /\ idle' = IF pc = "wait" /\ ~ locked THEN More(idle) ELSE idle
  BY DEF Tick, task, lock
<1>2. /\ now \in Word /\ wake \in Word /\ nextSync \in Word /\ nextReg \in Word /\ lastRx \in Word
      /\ silence \in 0 .. TallyLimit /\ unsynced \in 0 .. TallyLimit /\ idle \in 0 .. TallyLimit
      /\ 0 \in Word
  BY Numbers
<1>3. now' \in Word /\ Left' = Left - 1 /\ Left \in Nat /\ Left > 0
  <2>1. Minus(wake, now) \in Nat /\ Minus(wake, now) # 0
    BY <1>1, <1>2, MinusFacts
  <2>2. Plus(now, 1) \in Word /\ Minus(wake, Plus(now, 1)) = Minus(wake, now) - 1
    BY <1>1, <1>2, TickFacts
  <2> QED BY <1>1, <2>1, <2>2 DEF Left
<1>4. /\ silence' \in 0 .. TallyLimit /\ unsynced' \in 0 .. TallyLimit /\ idle' \in 0 .. TallyLimit
  BY <1>1, <1>2, MoreFacts, TallyFacts
<1>n. Half \in Nat /\ Timeout + WaitCap \in Nat /\ Timeout + WaitCap < Half
      /\ Interval \in Nat /\ Interval > 0 /\ Pause \in Nat /\ TallyLimit \in Nat
      /\ TallyLimit > Timeout + WaitCap /\ TallyLimit > Interval /\ TallyLimit > Pause
  <2>1. Timeout + WaitCap \in Nat
    BY Durations
  <2> QED BY <2>1, Durations, TallyFacts
\* What lies ahead at `left` or more is one tick closer.
<1>a. ASSUME NEW t \in Word, Left <= Ahead(t)
      PROVE  /\ Diff(t, now) > 0 /\ Diff(t, now') = Diff(t, now) - 1
             /\ Minus(t, now) = Diff(t, now) /\ Minus(t, now') = Diff(t, now')
  <2>1. Diff(t, now) \in Int /\ Diff(t, now) > 0 /\ Minus(t, now) = Diff(t, now)
    BY <1>2, <1>3, <1>a, MinusFacts DEF Ahead
  <2>2. Diff(t, now') = Diff(t, now) - 1
    BY <1>1, <1>2, <1>n, <2>1, TickFacts
  <2> QED BY <1>3, <2>1, <2>2, MinusFacts
<1>5. AttemptsUnlocked'
  BY <1>1 DEF TimesTold, AttemptsUnlocked
<1>p. pc \in {"wait", "scan", "connect", "hold"}
  BY <1>1 DEF TypeOK
<1>6. SilenceTold'
  <2> SUFFICES ASSUME locked
               PROVE  /\ silence' = Minus(now', lastRx)
                      /\ silence' <= Timeout + WaitCap
                      /\ pc = "wait" => silence' + Left' <= Timeout + WaitCap
    BY <1>1 DEF SilenceTold
  <2>1. pc = "wait"
    BY <1>p DEF TimesTold, AttemptsUnlocked
  <2>2. silence = Minus(now, lastRx) /\ silence + Left <= Timeout + WaitCap
    BY <2>1 DEF TimesTold, SilenceTold
  <2>3. silence' = silence + 1
    BY <1>1, <1>2, <1>3, <1>n, <2>2, MoreFacts
  <2>4. Minus(now', lastRx) = Minus(now, lastRx) + 1
    BY <1>1, <1>2, <1>3, <1>n, <2>2, TickFacts
  <2> QED BY <1>2, <1>3, <1>n, <2>2, <2>3, <2>4
<1>7. RequestPlanned'
  <2>1. CASE ~ locked
    BY <1>1, <2>1 DEF RequestPlanned
  <2>2. CASE locked
    <3>1. pc = "wait" /\ Left <= Diff(nextSync, now)
      BY <1>p, <2>2 DEF TimesTold, AttemptsUnlocked, RequestPlanned
    <3>2. Left <= Ahead(nextSync)
      BY <1>2, <1>3, <3>1, MinusFacts DEF Ahead
    <3>3. /\ Diff(nextSync, now) > 0 /\ Diff(nextSync, now') = Diff(nextSync, now) - 1
          /\ Minus(nextSync, now) = Diff(nextSync, now)
          /\ Minus(nextSync, now') = Diff(nextSync, now')
      BY <1>2, <1>a, <3>2
    <3>d. Diff(nextSync, now) \in Int
      BY <1>2, MinusFacts
    <3>4. Left' <= Diff(nextSync, now') /\ Diff(nextSync, now') >= 0
      BY <1>3, <3>1, <3>3, <3>d
    <3>5. CASE unsynced + Minus(nextSync, now) = Interval
      <4>1. unsynced' = unsynced + 1
        BY <1>1, <1>2, <1>n, <2>2, <3>3, <3>5, <3>d, MoreFacts
      <4>2. unsynced' + Minus(nextSync, now') = Interval
        BY <1>2, <3>3, <3>5, <3>d, <4>1
      <4> QED BY <1>1, <2>2, <3>4, <4>2 DEF RequestPlanned
    <3>6. CASE nextSync = 0
      BY <1>1, <2>2, <3>4, <3>6 DEF RequestPlanned
    <3> QED BY <2>2, <3>5, <3>6 DEF TimesTold, RequestPlanned
  <2> QED BY <2>1, <2>2
<1>8. AttemptPlanned'
  <2>d. Diff(nextReg, now) \in Int /\ -Half <= Diff(nextReg, now)
    BY <1>2, MinusFacts
  <2>1. CASE locked
    <3>1. idle' = 0 /\ pc = "wait" /\ locked'
      BY <1>1, <1>p, <2>1 DEF TimesTold, AttemptsUnlocked, AttemptPlanned
    <3> QED BY <1>1, <1>n, <3>1 DEF AttemptPlanned
  <2>2. CASE ~ locked /\ pc = "wait"
    <3>1. Left <= Ahead(nextReg) /\ idle + Ahead(nextReg) <= Pause
      BY <2>2 DEF TimesTold, AttemptPlanned
    <3>2. Diff(nextReg, now) > 0 /\ Diff(nextReg, now') = Diff(nextReg, now) - 1
      BY <1>2, <1>a, <3>1
    <3>3. Ahead(nextReg) = Diff(nextReg, now) /\ Ahead(nextReg)' = Diff(nextReg, now) - 1
      BY <1>1, <2>d, <3>2 DEF Ahead
    <3>4. idle' = idle + 1
      BY <1>1, <1>2, <1>n, <2>2, <2>d, <3>1, <3>2, <3>3, MoreFacts
    <3> QED BY <1>1, <1>2, <1>3, <2>2, <2>d, <3>1, <3>2, <3>3, <3>4, <1>n DEF AttemptPlanned
  <2>3. CASE pc \in {"scan", "connect", "hold"}
    <3>1. idle' = 0 /\ ~ locked'
      BY <1>1, <2>3 DEF TimesTold, AttemptsUnlocked, AttemptPlanned
    <3>2. Scan \in Nat /\ Connect \in Nat /\ Hold \in Nat /\ Retry \in Nat
          /\ Scan + Connect + Hold < Half
      BY Durations
    <3>3. Diff(nextReg, now) > -Half
      BY <1>3, <1>n, <2>3, <2>d, <3>2 DEF TimesTold, AttemptPlanned
    <3>4. Diff(nextReg, now') = Diff(nextReg, now) - 1
      BY <1>1, <1>2, <3>3, TickFacts
    <3>5. pc = "scan" => Diff(nextReg, now') \in Retry - Scan + Left' .. Retry
      BY <1>3, <2>d, <3>2, <3>4 DEF TimesTold, AttemptPlanned
    <3>6. pc = "connect" => Diff(nextReg, now') \in Retry - Scan - Connect + Left' .. Retry
      BY <1>3, <2>d, <3>2, <3>4 DEF TimesTold, AttemptPlanned
    <3>7. pc = "hold" => Diff(nextReg, now') \in Retry - Scan - Connect - Hold + Left' .. Retry
      BY <1>3, <2>d, <3>2, <3>4 DEF TimesTold, AttemptPlanned
    <3> QED BY <1>1, <1>n, <2>3, <3>1, <3>5, <3>6, <3>7 DEF AttemptPlanned
  <2> QED BY <1>p, <2>1, <2>2, <2>3
<1> QED BY <1>3, <1>4, <1>5, <1>6, <1>7, <1>8 DEF TimesTold

\* An attempt goes on: associating, then held.
LEMMA AttemptGoesOn ==
    ASSUME TypeOK, TimesTold,
           \/ pc = "scan" /\ pc' = "connect" /\ wake' = Plus(now, Connect)
           \/ pc = "connect" /\ pc' = "hold" /\ wake' = Plus(now, Hold),
           UNCHANGED <<now, locked, lastRx, nextSync, nextReg, tallies>>
    PROVE  TimesTold' /\ wake' \in Word /\ wake' # now
<1>1. ~ locked
  BY DEF TimesTold, AttemptsUnlocked
<1>2. /\ now \in Word /\ wake \in Word
      /\ Left \in Nat /\ Diff(nextReg, now) \in Int
      /\ Scan \in Nat /\ Retry \in Nat /\ Connect \in Nat /\ Hold \in Nat
      /\ Connect > 0 /\ Hold > 0 /\ Connect < Half /\ Hold < Half
  <2>1. now \in Word /\ wake \in Word /\ nextReg \in Word
    BY Numbers
  <2>2. Left \in Nat /\ Diff(nextReg, now) \in Int
    BY <2>1, MinusFacts DEF Left
  <2>3. \A d \in {Scan, Retry, Connect, Hold} : d \in Nat /\ d > 0 /\ d < Half
    BY Durations
  <2> QED BY <2>1, <2>2, <2>3
<1>3. \A d \in {Connect, Hold} : wake' = Plus(now, d) =>
          wake' \in Word /\ Minus(wake', now) = d /\ wake' # now
  <2> SUFFICES ASSUME NEW d \in {Connect, Hold}, wake' = Plus(now, d)
               PROVE  wake' \in Word /\ Minus(wake', now) = d /\ wake' # now
    OBVIOUS
  <2>1. wake' \in Word /\ Minus(wake', now) = d /\ d > 0
    BY <1>2, PlusFacts
  <2> QED BY <1>2, <2>1, MinusFacts
<1>4. AttemptPlanned'
  BY <1>1, <1>2, <1>3 DEF TimesTold, AttemptPlanned, Left, tallies
<1>5. AttemptsUnlocked' /\ SilenceTold' /\ RequestPlanned'
  BY <1>1 DEF TimesTold, AttemptsUnlocked, SilenceTold, RequestPlanned, tallies
<1> QED BY <1>3, <1>4, <1>5 DEF TimesTold
-----------------------------------------------------------------------------
\* What is added to and taken from the event task's queue.
LEMMA EventFacts ==
    ASSUME TypeOK
    PROVE  /\ \A e \in {"connected", "disconnected"} :
                  /\ Append(events, e) \in Seq({"connected", "disconnected"})
                  /\ Len(Append(events, e)) = Len(events) + 1
                  /\ Range(Append(events, e)) \subseteq Range(events) \cup {e}
           /\ events # <<>> =>
                  /\ Head(events) \in Range(events)
                  /\ Tail(events) \in Seq({"connected", "disconnected"})
                  /\ Len(Tail(events)) <= Len(events)
                  /\ Range(Tail(events)) \subseteq Range(events)
           /\ Len(events) \in Nat /\ MaxEvents \in Nat /\ Len(events) <= MaxEvents + 1
<1> DEFINE E == {"connected", "disconnected"}
<1>1. events \in Seq(E) /\ Len(events) <= MaxEvents + 1
  BY DEF TypeOK
<1>2. MaxEvents \in Nat
  BY LoopAssumption
<1>3. ASSUME NEW e \in E
      PROVE  /\ Append(events, e) \in Seq(E)
             /\ Len(Append(events, e)) = Len(events) + 1
             /\ Range(Append(events, e)) \subseteq Range(events) \cup {e}
  <2> HIDE DEF E
  <2>1. \A i \in DOMAIN Append(events, e) :
            \/ i \in DOMAIN events /\ Append(events, e)[i] = events[i]
            \/ Append(events, e)[i] = e
    BY <1>1
  <2> QED BY <1>1, <2>1 DEF Range
<1>4. ASSUME events # <<>>
      PROVE  /\ Head(events) \in Range(events)
             /\ Tail(events) \in Seq(E)
             /\ Len(Tail(events)) <= Len(events)
             /\ Range(Tail(events)) \subseteq Range(events)
  <2> HIDE DEF E
  <2> QED BY <1>1, <1>4 DEF Range
<1> QED BY <1>1, <1>2, <1>3, <1>4

\* A disconnect reports nothing but itself, and nothing without a link.
LEMMA DisconnectFacts ==
    ASSUME TypeOK
    PROVE  /\ Disconnected \in Seq({"connected", "disconnected"})
           /\ Len(Disconnected) \in Nat /\ Len(Disconnected) <= Len(events) + 1
           /\ link = "idle" => Disconnected = events
           /\ "connected" \in Range(Disconnected) => "connected" \in Range(events)
<1>1. CASE link = "idle"
  BY <1>1, EventFacts DEF Disconnected, TypeOK
<1>2. CASE link # "idle"
  BY <1>2, EventFacts DEF Disconnected
<1> QED BY <1>1, <1>2

\* The controller's moves, its frames, the station's link and the event task change
\* no time.
LEMMA WorldKeeps ==
    ASSUME LoopInv,
           \/ HandleWifiEvent \/ Join \/ LinkEnds \/ MoveController
           \/ \E type \in {"data", "other"} : Hear(type)
    PROVE  LoopInv'
<1>t. TypeOK /\ TimesTold /\ EventsFit /\ JoinedFirst
  BY DEF LoopInv, TimesTold
<1> USE DEF clock, task, lock, wifi, world, tallies
<1>1. TimesTold'
  BY <1>t, TimesSame DEF HandleWifiEvent, Join, LinkEnds, MoveController, Hear
<1>2. CASE HandleWifiEvent
  <2>1. TypeOK'
    BY <1>t, <1>2, EventFacts DEF HandleWifiEvent, TypeOK
  <2>2. EventsFit'
    BY <1>t, <1>2, EventFacts DEF HandleWifiEvent, EventsFit
  <2>3. JoinedFirst'
    BY <1>t, <1>2, EventFacts DEF HandleWifiEvent, JoinedFirst
  <2> QED BY <1>1, <2>1, <2>2, <2>3 DEF LoopInv, TimesTold
<1>3. CASE Join \/ LinkEnds
  <2>1. TypeOK'
    <3>1. events' \in Seq({"connected", "disconnected"}) /\ Len(events') <= MaxEvents + 1
      BY <1>t, <1>3, EventFacts DEF Join, LinkEnds
    <3>2. link' \in {"idle", "joining", "joined"} /\ joined' \in BOOLEAN
      BY <1>t, <1>3 DEF Join, LinkEnds, TypeOK
    <3> QED BY <1>t, <1>3, <3>1, <3>2 DEF Join, LinkEnds, TypeOK
  <2>2. EventsFit'
    BY <1>t, <1>3, EventFacts DEF Join, LinkEnds, EventsFit
  <2>3. JoinedFirst'
    BY <1>t, <1>3, EventFacts DEF Join, LinkEnds, JoinedFirst
  <2> QED BY <1>1, <2>1, <2>2, <2>3 DEF LoopInv, TimesTold
<1>4. CASE MoveController
  <2>1. TypeOK'
    <3>1. moves' \in 0 .. MaxMoves
      <4>1. MaxMoves \in Nat
        BY LoopAssumption
      <4>2. moves < MaxMoves /\ moves' = moves + 1 /\ moves \in 0 .. MaxMoves
        BY <1>t, <1>4 DEF MoveController, TypeOK
      <4> QED BY <4>1, <4>2
    <3> QED BY <1>t, <1>4, <3>1 DEF MoveController, TypeOK
  <2>2. EventsFit' /\ JoinedFirst'
    BY <1>t, <1>4 DEF MoveController, EventsFit, JoinedFirst
  <2> QED BY <1>1, <2>1, <2>2 DEF LoopInv, TimesTold
<1>5. CASE \E type \in {"data", "other"} : Hear(type)
  <2>1. PICK type \in {"data", "other"} : Hear(type)
    BY <1>5
  <2>2. queue' \in Seq({"data", "other"}) /\ Len(queue') <= QueueLength
    <3> DEFINE F == {"data", "other"}
    <3>1. queue \in Seq(F) /\ Len(queue) < QueueLength /\ queue' = Append(queue, type) /\ type \in F
      BY <1>t, <2>1 DEF Hear, TypeOK
    <3>2. QueueLength \in Nat
      BY LoopAssumption
    <3> HIDE DEF F
    <3>3. queue' \in Seq(F) /\ Len(queue') <= QueueLength
      BY <3>1, <3>2
    <3> QED BY <3>3 DEF F
  <2>3. TypeOK'
    BY <1>t, <2>1, <2>2 DEF Hear, TypeOK
  <2>4. EventsFit' /\ JoinedFirst'
    BY <1>t, <2>1 DEF Hear, EventsFit, JoinedFirst
  <2> QED BY <1>1, <2>3, <2>4 DEF LoopInv, TimesTold
<1> QED BY <1>2, <1>3, <1>4, <1>5
-----------------------------------------------------------------------------
\* At its start the task is unlocked, and its first attempt is Listen away.
LEMMA InitLoopInv == Init => LoopInv
<1> SUFFICES ASSUME Init PROVE LoopInv
  OBVIOUS
<1>1. /\ now = 0 /\ pc = "top" /\ locked = FALSE /\ nextReg = Plus(0, Listen)
      /\ silence = 0 /\ unsynced = 0 /\ idle = 0
  BY DEF Init
<1>2. /\ 0 \in Word /\ Listen \in Nat /\ Listen < Half /\ Listen <= Pause /\ Pause \in Nat
      /\ TallyLimit \in Nat
  BY Durations, TallyFacts DEF Word
<1>3. nextReg \in Word /\ Diff(nextReg, now) = Listen
  BY <1>1, <1>2, PlusFacts
<1>4. TypeOK
  <2>1. MaxEvents \in Nat /\ MaxMoves \in Nat /\ QueueLength \in Nat /\ FirstChannel \in Channels
    BY LoopAssumption
  <2>2. /\ queue \in Seq({"data", "other"}) /\ Len(queue) <= QueueLength
        /\ events \in Seq({"connected", "disconnected"}) /\ Len(events) <= MaxEvents + 1
    BY <2>1 DEF Init
  <2>3. \A t \in {silence, unsynced, idle} : t \in 0 .. TallyLimit
    BY <1>1, <1>2
  <2>4. /\ hil \in BOOLEAN /\ wake = 0 /\ lastRx = 0 /\ nextSync = 0
        /\ channel = FirstChannel /\ radio = FirstChannel /\ home = FirstChannel
        /\ connected = FALSE /\ discovered = FALSE /\ joined = FALSE
        /\ link = "idle" /\ moves = 0
    BY DEF Init
  <2>5. moves \in 0 .. MaxMoves
    BY <2>1, <2>4
  <2> QED BY <1>1, <1>2, <1>3, <2>1, <2>2, <2>3, <2>4, <2>5 DEF TypeOK
<1>5. EventsFit /\ AttemptsUnlocked /\ SilenceTold /\ RequestPlanned
  BY <1>1 DEF Init, EventsFit, AttemptsUnlocked, SilenceTold, RequestPlanned
<1>6. JoinedFirst
  BY DEF Init, JoinedFirst, Range
<1>7. AttemptPlanned
  BY <1>1, <1>2, <1>3 DEF AttemptPlanned, Ahead
<1> QED BY <1>4, <1>5, <1>6, <1>7 DEF LoopInv

\* The task at its queue.
LEMMA QueueKeeps ==
    ASSUME LoopInv, Iterate \/ Receive \/ TimesOut
    PROVE  LoopInv'
<1>t. TypeOK /\ TimesTold /\ EventsFit /\ JoinedFirst
  BY DEF LoopInv, TimesTold
<1> USE DEF clock, task, lock, wifi, world, tallies
<1>1. CASE Iterate
  <2>1. TimesTold' /\ wake' \in Word /\ nextSync' \in Word /\ nextReg' \in Word
        /\ pc' \in {"wait", "scan"}
        /\ silence' \in 0 .. TallyLimit /\ unsynced' \in 0 .. TallyLimit
        /\ idle' \in 0 .. TallyLimit
    BY <1>t, <1>1, IterateKeepsTimes
  <2>2. radio' \in Channels \cup {Scanning} /\ locked' \in BOOLEAN
    BY <1>t, <1>1 DEF Iterate, TypeOK
  <2>3. TypeOK'
    BY <1>t, <1>1, <2>1, <2>2 DEF Iterate, TypeOK
  <2>4. EventsFit' /\ JoinedFirst'
    BY <1>t, <1>1, <2>1 DEF Iterate, EventsFit, JoinedFirst
  <2> QED BY <2>1, <2>3, <2>4 DEF LoopInv, TimesTold
<1>2. CASE Receive
  <2>1. TimesTold' /\ nextSync' \in Word /\ lastRx' \in Word /\ locked' \in BOOLEAN
        /\ silence' \in 0 .. TallyLimit /\ unsynced' \in 0 .. TallyLimit
        /\ idle' \in 0 .. TallyLimit
    BY <1>t, <1>2, ReceiveKeepsTimes
  <2>2. queue' \in Seq({"data", "other"}) /\ Len(queue') <= QueueLength
    <3> DEFINE F == {"data", "other"}
    <3>1. queue \in Seq(F) /\ Len(queue) <= QueueLength /\ queue # <<>> /\ queue' = Tail(queue)
      BY <1>t, <1>2 DEF Receive, TypeOK
    <3>2. QueueLength \in Nat
      BY LoopAssumption
    <3> HIDE DEF F
    <3>3. queue' \in Seq(F) /\ Len(queue') <= QueueLength
      BY <3>1, <3>2
    <3> QED BY <3>3 DEF F
  <2>3. TypeOK'
    BY <1>t, <1>2, <2>1, <2>2 DEF Receive, TypeOK
  <2>4. EventsFit' /\ JoinedFirst'
    BY <1>t, <1>2 DEF Receive, EventsFit, JoinedFirst
  <2> QED BY <2>1, <2>3, <2>4 DEF LoopInv, TimesTold
<1>3. CASE TimesOut
  <2>1. TypeOK'
    BY <1>t, <1>3 DEF TimesOut, TypeOK
  <2>2. EventsFit' /\ JoinedFirst'
    BY <1>t, <1>3 DEF TimesOut, EventsFit, JoinedFirst
  <2>3. pc = "wait" /\ pc' = "top" /\ now = wake
        /\ UNCHANGED <<now, wake, locked, lastRx, nextSync, nextReg, silence, unsynced, idle>>
    BY <1>3 DEF TimesOut
  <2>4. AttemptsUnlocked' /\ SilenceTold' /\ AttemptPlanned'
    BY <1>t, <2>3
       DEF TimesTold, AttemptsUnlocked, SilenceTold, AttemptPlanned, Left, Ahead
  <2>5. RequestPlanned'
    BY <1>t, <2>3 DEF TimesTold, RequestPlanned
  <2> QED BY <2>1, <2>2, <2>4, <2>5 DEF LoopInv, TimesTold
<1> QED BY <1>1, <1>2, <1>3

\* The link is left and the task goes back to its queue.
LEMMA LeavesKeeps ==
    ASSUME LoopInv, pc \in {"connect", "hold"}, now = wake, Leaves,
           discovered' = (discovered \/ connected),
           UNCHANGED <<clock, lock, nextReg, channel, queue, world, tallies, joined>>
    PROVE  LoopInv'
<1>t. TypeOK /\ TimesTold /\ EventsFit /\ JoinedFirst
  BY DEF LoopInv, TimesTold
<1> USE DEF clock, task, lock, wifi, world, tallies
<1>1. TimesTold' /\ pc' = "wait" /\ wake' \in Word
  BY <1>t, BackToQueue DEF Leaves
<1>2. events' \in Seq({"connected", "disconnected"}) /\ Len(events') <= MaxEvents + 1
  <2>1. Len(events) <= MaxEvents
    BY <1>t DEF EventsFit
  <2>2. events' = Disconnected
    BY DEF Leaves
  <2> QED BY <1>t, <2>1, <2>2, EventFacts, DisconnectFacts
<1>3. TypeOK'
  BY <1>t, <1>1, <1>2 DEF Leaves, TypeOK
<1>4. EventsFit'
  BY <1>1 DEF Leaves, EventsFit
<1>5. JoinedFirst'
  BY <1>t, DisconnectFacts DEF Leaves, JoinedFirst
<1> QED BY <1>1, <1>3, <1>4, <1>5 DEF LoopInv, TimesTold

\* An attempt: what the scan finds, the association, its end.
LEMMA AttemptKeeps ==
    ASSUME LoopInv, ScanFails \/ ScanFinds \/ ConnectEnds \/ HoldEnds
    PROVE  LoopInv'
<1>t. TypeOK /\ TimesTold /\ EventsFit /\ JoinedFirst
  BY DEF LoopInv, TimesTold
<1> USE DEF clock, task, lock, wifi, world, tallies
<1>1. CASE ScanFails
  <2>1. TimesTold' /\ pc' = "wait" /\ wake' \in Word
    BY <1>t, <1>1, BackToQueue DEF ScanFails
  <2>2. TypeOK'
    BY <1>t, <1>1, <2>1 DEF ScanFails, TypeOK
  <2>3. EventsFit' /\ JoinedFirst'
    BY <1>t, <1>1, <2>1 DEF ScanFails, EventsFit, JoinedFirst
  <2> QED BY <2>1, <2>2, <2>3 DEF LoopInv, TimesTold
<1>2. CASE ScanFinds
  <2>1. link = "idle" /\ events' = events
    BY <1>t, <1>2, DisconnectFacts DEF ScanFinds, EventsFit
  <2>2. \/ TimesTold' /\ pc' = "connect" /\ wake' \in Word /\ wake' # now /\ link' = "joining"
        \/ TimesTold' /\ pc' = "wait" /\ wake' \in Word /\ link' = "idle"
    <3>1. CASE link' = "joining" /\ pc' = "connect" /\ wake' = Plus(now, Connect)
      BY <1>t, <1>2, <3>1, AttemptGoesOn DEF ScanFinds
    <3>2. CASE link' = "idle" /\ Waits(locked, nextSync, nextReg)
      BY <1>t, <1>2, <3>2, BackToQueue DEF ScanFinds
    <3> QED BY <1>2, <3>1, <3>2 DEF ScanFinds
  <2>3. TypeOK'
    <3>1. channel' \in Channels /\ radio' \in Channels \cup {Scanning} /\ connected' \in BOOLEAN
      BY <1>t, <1>2 DEF ScanFinds, Adopted, TypeOK
    <3>2. wake' \in Word /\ pc' \in {"top", "wait", "scan", "connect", "hold"}
          /\ link' \in {"idle", "joining", "joined"}
      BY <2>2
    <3> QED BY <1>t, <1>2, <2>1, <3>1, <3>2 DEF ScanFinds, TypeOK
  <2>4. EventsFit' /\ JoinedFirst'
    BY <1>t, <1>2, <2>1, <2>2 DEF ScanFinds, EventsFit, JoinedFirst
  <2> QED BY <2>2, <2>3, <2>4 DEF LoopInv, TimesTold
<1>3. CASE ConnectEnds
  <2>1. CASE connected
    <3>1. pc' = "hold" /\ wake' = Plus(now, Hold)
          /\ UNCHANGED <<link, events, connected, radio>>
      BY <1>3, <2>1 DEF ConnectEnds
    <3>2. TimesTold' /\ wake' \in Word /\ wake' # now
      BY <1>t, <1>3, <3>1, AttemptGoesOn DEF ConnectEnds
    <3>3. TypeOK'
      BY <1>t, <1>3, <3>1, <3>2 DEF ConnectEnds, TypeOK
    <3>4. EventsFit' /\ JoinedFirst'
      BY <1>t, <1>3, <3>1, <3>2 DEF ConnectEnds, EventsFit, JoinedFirst
    <3> QED BY <3>2, <3>3, <3>4 DEF LoopInv, TimesTold
  <2>2. CASE ~ connected
    BY <1>3, <2>2, LeavesKeeps DEF ConnectEnds
  <2> QED BY <2>1, <2>2
<1>4. CASE HoldEnds
  <2>1. TimesTold' /\ pc' = "wait" /\ wake' \in Word
    BY <1>t, <1>4, BackToQueue DEF HoldEnds, Leaves
  <2>2. events' \in Seq({"connected", "disconnected"}) /\ Len(events') <= MaxEvents + 1
    <3>1. Len(events) <= MaxEvents
      BY <1>t, <1>4 DEF HoldEnds, EventsFit
    <3>2. events' = Disconnected
      BY <1>4 DEF HoldEnds, Leaves
    <3> QED BY <1>t, <3>1, <3>2, EventFacts, DisconnectFacts
  <2>3. TypeOK'
    BY <1>t, <1>4, <2>1, <2>2 DEF HoldEnds, Leaves, TypeOK
  <2>4. EventsFit'
    BY <1>4, <2>1 DEF HoldEnds, Leaves, EventsFit
  <2>5. JoinedFirst'
    BY <1>t, <1>4, DisconnectFacts DEF HoldEnds, Leaves, JoinedFirst
  <2> QED BY <2>1, <2>3, <2>4, <2>5 DEF LoopInv, TimesTold
<1> QED BY <1>1, <1>2, <1>3, <1>4

\* Time passes when every event is handled.
LEMMA TickKeeps ==
    ASSUME LoopInv, Tick
    PROVE  LoopInv'
<1>t. TypeOK /\ TimesTold /\ EventsFit /\ JoinedFirst
  BY DEF LoopInv, TimesTold
<1> USE DEF clock, task, lock, wifi, world, tallies
<1>1. TimesTold' /\ now' \in Word
      /\ silence' \in 0 .. TallyLimit /\ unsynced' \in 0 .. TallyLimit
      /\ idle' \in 0 .. TallyLimit
  BY <1>t, TickKeepsTimes
<1>2. TypeOK'
  BY <1>t, <1>1 DEF Tick, TypeOK
<1>3. EventsFit'
  <2>1. Len(events') <= MaxEvents
    BY <1>t, EventFacts DEF Tick
  <2> QED BY <1>t, <2>1 DEF Tick, EventsFit
<1>4. JoinedFirst'
  BY <1>t DEF Tick, JoinedFirst
<1> QED BY <1>1, <1>2, <1>3, <1>4 DEF LoopInv, TimesTold
-----------------------------------------------------------------------------
\* The stamps agree with real time while a decision depends on them.
THEOREM LoopInvariant == Spec => []LoopInv
<1>1. LoopInv /\ [Next]_vars => LoopInv'
  <2> SUFFICES ASSUME LoopInv, [Next]_vars PROVE LoopInv'
    OBVIOUS
  <2>1. CASE Iterate \/ Receive \/ TimesOut
    BY <2>1, QueueKeeps
  <2>2. CASE ScanFails \/ ScanFinds \/ ConnectEnds \/ HoldEnds
    BY <2>2, AttemptKeeps
  <2>3. CASE Tick
    BY <2>3, TickKeeps
  <2>4. CASE \/ HandleWifiEvent \/ Join \/ LinkEnds \/ MoveController
             \/ \E type \in {"data", "other"} : Hear(type)
    BY <2>4, WorldKeeps
  <2>5. CASE UNCHANGED vars
    <3> USE DEF vars, clock, task, lock, wifi, world, tallies
    <3>1. TypeOK' /\ EventsFit' /\ JoinedFirst'
      BY <2>5 DEF LoopInv, TypeOK, EventsFit, JoinedFirst
    <3>2. TimesTold'
      BY <2>5, TimesSame DEF LoopInv, TimesTold
    <3> QED BY <3>1, <3>2 DEF LoopInv, TimesTold
  <2> QED BY <2>1, <2>2, <2>3, <2>4, <2>5 DEF Next, Step
<1> QED BY <1>1, InitLoopInv, PTL DEF Spec

\* The variables keep their types (satellite_run).
THEOREM TypeCorrect == Spec => []TypeOK
<1>1. LoopInv => TypeOK
  BY DEF LoopInv
<1> QED BY <1>1, LoopInvariant, PTL

\* A silent controller is dropped Timeout and one wait after its last frame at the
\* latest (check_controller_timeout and satellite_wait_ticks), on a clock that wraps
\* and wherever the next request time stands.
THEOREM LostInTime == Spec => []DroppedInTime
<1>1. LoopInv => DroppedInTime
  BY DEF LoopInv, SilenceTold, DroppedInTime
<1> QED BY <1>1, LoopInvariant, PTL

\* A locked satellite sends a time request every Interval
\* (request_time_sync_if_due); only the 0 that a lock puts when the clock is past
\* half its range delays the first one.
THEOREM RequestsPaced == Spec => []RequestsOnTime
<1>1. LoopInv => RequestsOnTime
  <2> SUFFICES ASSUME LoopInv, unsynced > Interval
               PROVE  nextSync = 0 /\ Diff(nextSync, now) >= 0
    BY DEF RequestsOnTime
  <2>1. /\ Minus(nextSync, now) \in Nat /\ unsynced \in Nat
        /\ Interval \in Nat /\ locked \in BOOLEAN
    <3>1. TypeOK
      BY DEF LoopInv
    <3>2. now \in Word /\ nextSync \in Word /\ unsynced \in 0 .. TallyLimit /\ locked \in BOOLEAN
      BY <3>1, Numbers
    <3> QED BY <3>2, MinusFacts, TallyFacts, Durations
  <2>2. locked
    BY <2>1 DEF LoopInv, RequestPlanned
  <2> QED BY <2>1, <2>2 DEF LoopInv, RequestPlanned
<1> QED BY <1>1, LoopInvariant, PTL

\* An unlocked satellite is never idle longer than the longer of the two
\* registration periods (attempt_registration_if_due): a time left from before a
\* long lock is never mistaken for one to come.
THEOREM DiscoveryPaced == Spec => []DiscoveryGoesOn
<1>1. LoopInv => DiscoveryGoesOn
  BY DEF LoopInv, AttemptPlanned, DiscoveryGoesOn
<1> QED BY <1>1, LoopInvariant, PTL

\* A HIL satellite counts as discovered only after an association
\* (connect_to_registration_ap), in whatever order its events are handled.
THEOREM JoinedBeforeDiscovered == Spec => []DiscoveredByJoining
<1>1. LoopInv => DiscoveredByJoining
  BY DEF LoopInv, JoinedFirst, DiscoveredByJoining
<1> QED BY <1>1, LoopInvariant, PTL
=============================================================================
