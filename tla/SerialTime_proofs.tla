-------------------------- MODULE SerialTime_proofs --------------------------
(***************************************************************************)
(* The wrapping 32-bit numbers at work, for every width: deduplication of    *)
(* sequence numbers (SequenceWrap) across the wrap, for every distance below *)
(* half of it; the waits of the retry loops (RetryTimers) and the time stamps *)
(* of the satellite table (SatelliteAges), for every configuration and every  *)
(* value of the clock.                                                      *)
(***************************************************************************)
EXTENDS SequenceWrap, RetryTimers, SatelliteAges, WellFoundedInduction, TLAPS

\* The number after a number of a round is never 0 and is the next one, or 1 after
\* the largest (controller_run's `sequence++`).
LEMMA NextSequenceFacts ==
    ASSUME NEW a \in Word \ {0}
    PROVE  /\ NextSequence(a) \in Word \ {0}
           /\ NextSequence(a) = IF a = 2 * Half - 1 THEN 1 ELSE a + 1
  BY HalfAssumption DEF NextSequence, Plus, Word

\* seq_is_duplicate() compares two numbers less than half the range apart as the
\* numbers without the wrap would compare, whether the second number lies before
\* or after the wrap.
LEMMA SerialCompare ==
    ASSUME NEW a \in Word, NEW b \in Word, NEW d \in Nat, d < Half,
           b = a + d \/ b = a + d - 2 * Half
    PROVE  Diff(b, a) = d /\ (Diff(a, b) <= 0) /\ (d > 0 => Diff(a, b) < 0)
  BY HalfAssumption DEF Diff, Minus, Word
-----------------------------------------------------------------------------
WrapInv == WrapTypeOK /\ NumberingInv

\* There is no round yet.
LEMMA InitWrapInv == WrapInit => WrapInv
  <1> SUFFICES ASSUME WrapInit PROVE WrapInv
    OBVIOUS
  <1>1. round = 0 /\ have = FALSE /\ last = 0 /\ newest = 0
    BY DEF WrapInit
  <1>2. number \in [1 .. round -> Word \ {0}]
    BY <1>1 DEF WrapInit
  <1>3. WrapTypeOK
    <2>1. round \in 0 .. MaxRound /\ last \in Word /\ newest \in 0 .. round
      BY <1>1, HalfAssumption, WrapAssumption DEF Word
    <2>2. have \in BOOLEAN /\ ~ have
      BY <1>1
    <2> QED BY <1>2, <2>1, <2>2 DEF WrapTypeOK
  <1>4. NumberingInv
    BY <1>1 DEF NumberingInv
  <1> QED BY <1>3, <1>4 DEF WrapInv

\* A new round extends the numbering by one.
LEMMA StartKeepsWrapInv == WrapInv /\ Start => WrapInv'
  <1> SUFFICES ASSUME WrapInv, Start PROVE WrapInv'
    OBVIOUS
  <1> USE HalfAssumption, WrapAssumption
  <1>1. After(round) \in Word \ {0}
    BY NextSequenceFacts DEF WrapInv, WrapTypeOK, After, Word
  <1>2. round' = round + 1 /\ round' \in 0 .. MaxRound /\ round \in Nat
    BY DEF Start, WrapInv, WrapTypeOK
  <1>3. number' \in [1 .. round' -> Word \ {0}]
    BY <1>1, <1>2 DEF Start, WrapInv, WrapTypeOK
  <1>4. \A r \in 1 .. round : number'[r] = number[r]
    BY <1>2 DEF Start
  <1>5. number'[round'] = After(round)
    BY <1>2 DEF Start
  <1>6. WrapTypeOK'
    BY <1>2, <1>3, <1>4 DEF Start, WrapInv, WrapTypeOK
  <1>7. ASSUME NEW s \in 1 .. round', NEW r \in 1 .. round', s <= r, r - s <= Lag
        PROVE  \/ number'[r] = number'[s] + (r - s)
               \/ number'[r] = number'[s] + (r - s) + 1 - 2 * Half
    <2>1. CASE r <= round
      BY <1>2, <1>4, <1>7, <2>1 DEF WrapInv, NumberingInv
    <2>2. CASE s = round'
      <3>1. r = s
        BY <1>2, <1>7, <2>2
      <3>2. number'[s] \in Int
        BY <1>3 DEF Word
      <3> QED BY <3>1, <3>2
    <2>3. CASE r = round' /\ s <= round
      <3>1. round \in 1 .. round /\ s \in 1 .. round /\ round - s <= Lag /\ s <= round
        BY <1>2, <1>7, <2>3
      <3>2. \/ number[round] = number[s] + (round - s)
            \/ number[round] = number[s] + (round - s) + 1 - 2 * Half
        BY <3>1 DEF WrapInv, NumberingInv
      <3>3. number[round] \in Word \ {0} /\ number[s] \in Word \ {0}
        BY <3>1 DEF WrapInv, WrapTypeOK
      <3>4. After(round) = IF number[round] = 2 * Half - 1 THEN 1 ELSE number[round] + 1
        BY <3>1, <3>3, NextSequenceFacts DEF After
      <3>5. number'[r] = After(round) /\ number'[s] = number[s]
        BY <1>4, <1>5, <2>3, <3>1
      <3> QED BY <1>2, <2>3, <3>1, <3>2, <3>3, <3>4, <3>5 DEF Word
    <2> QED BY <1>2, <2>1, <2>2, <2>3
  <1>8. have' => round' - newest' <= Lag
    BY <1>2 DEF Start, WrapInv, WrapTypeOK
  <1> QED BY <1>6, <1>7, <1>8 DEF WrapInv, NumberingInv

\* Frames and forgetting leave the numbering alone.
LEMMA ArriveKeepsWrapInv == WrapInv /\ Arrive => WrapInv'
  <1> SUFFICES ASSUME WrapInv, Arrive PROVE WrapInv'
    OBVIOUS
  <1>1. round' = round /\ number' = number
    BY DEF Arrive
  <1>2. PICK r \in 1 .. round :
           /\ round - r < Lag
           /\ IF IsDuplicate(have, number[r], last)
              THEN UNCHANGED <<have, last, newest>>
              ELSE have' = TRUE /\ last' = number[r] /\ newest' = r
    BY DEF Arrive
  <1>3. CASE UNCHANGED <<have, last, newest>>
    BY <1>1, <1>3 DEF WrapInv, WrapTypeOK, NumberingInv
  <1>4. CASE have' = TRUE /\ last' = number[r] /\ newest' = r
    <2>1. number[r] \in Word /\ r > 0 /\ r \in 0 .. round /\ round - r <= Lag
      BY <1>2, WrapAssumption DEF WrapInv, WrapTypeOK
    <2>2. WrapTypeOK'
      BY <1>1, <1>4, <2>1 DEF WrapInv, WrapTypeOK
    <2>3. NumberingInv'
      BY <1>1, <1>4, <2>1 DEF WrapInv, NumberingInv
    <2> QED BY <2>2, <2>3 DEF WrapInv
  <1> QED BY <1>2, <1>3, <1>4

\* The inductive invariant holds in every state.
THEOREM Numbering == WrapSpec => []WrapInv
  <1>1. WrapInv /\ [WrapNext]_wrapVars => WrapInv'
    <2> SUFFICES ASSUME WrapInv, [WrapNext]_wrapVars PROVE WrapInv'
      OBVIOUS
    <2>1. CASE Start
      BY <2>1, StartKeepsWrapInv
    <2>2. CASE Arrive
      BY <2>2, ArriveKeepsWrapInv
    <2>3. CASE Forget
      <3>1. have' = FALSE /\ newest' = 0 /\ round' = round /\ number' = number /\ last' = last
        BY <2>3 DEF Forget
      <3>2. WrapTypeOK'
        <4>1. newest' \in 0 .. round' /\ round' \in 0 .. MaxRound
          BY <3>1, WrapAssumption DEF WrapInv, WrapTypeOK
        <4>2. have' \in BOOLEAN /\ ~ have'
          BY <3>1
        <4> QED BY <3>1, <4>1, <4>2 DEF WrapInv, WrapTypeOK
      <3>3. NumberingInv'
        BY <3>1 DEF WrapInv, NumberingInv
      <3> QED BY <3>2, <3>3 DEF WrapInv
    <2>4. CASE UNCHANGED wrapVars
      BY <2>4 DEF wrapVars, WrapInv, WrapTypeOK, NumberingInv
    <2> QED BY <2>1, <2>2, <2>3, <2>4 DEF WrapNext
  <1> QED BY InitWrapInv, <1>1, PTL DEF WrapSpec

\* seq_is_duplicate() suppresses a copy of a recent round exactly if the callback
\* has seen that round or a newer one, however often the numbers have wrapped.
THEOREM DedupIsByAge == WrapSpec => []DedupByAge
  <1>1. WrapInv => DedupByAge
    <2> SUFFICES ASSUME WrapInv, have, NEW r \in 1 .. round, round - r < Lag
                 PROVE  IsDuplicate(have, number[r], last) <=> r <= newest
      BY DEF DedupByAge
    <2> USE HalfAssumption, WrapAssumption
    <2>1. /\ newest \in 1 .. round /\ last = number[newest]
          /\ round - newest <= Lag /\ round \in Nat
      BY DEF WrapInv, WrapTypeOK, NumberingInv
    <2>2. number[r] \in Word \ {0} /\ number[newest] \in Word \ {0}
      BY <2>1 DEF WrapInv, WrapTypeOK
    <2>3. CASE r <= newest
      <3> DEFINE d == newest - r
      <3>1. d \in Nat /\ d <= Lag
        BY <2>1, <2>3
      <3>2. \/ number[newest] = number[r] + d
            \/ number[newest] = number[r] + d + 1 - 2 * Half
        BY <2>1, <2>3, <3>1 DEF WrapInv, NumberingInv
      <3> HIDE DEF d
      <3>3. Diff(number[r], number[newest]) <= 0
        <4>1. CASE number[newest] = number[r] + d
          BY <2>2, <3>1, <4>1, SerialCompare
        <4>2. CASE number[newest] = number[r] + d + 1 - 2 * Half
          <5>1. d + 1 \in Nat /\ d + 1 < Half
            BY <3>1
          <5>2. number[newest] = number[r] + (d + 1) - 2 * Half
            BY <3>1, <4>2, <2>2 DEF Word
          <5> QED BY <2>2, <5>1, <5>2, SerialCompare
        <4> QED BY <3>2, <4>1, <4>2
      <3> QED BY <2>1, <2>3, <3>3 DEF IsDuplicate
    <2>4. CASE r > newest
      <3> DEFINE d == r - newest
      <3>1. d \in Nat /\ d <= Lag /\ d > 0
        BY <2>1, <2>4
      <3>2. \/ number[r] = number[newest] + d
            \/ number[r] = number[newest] + d + 1 - 2 * Half
        BY <2>1, <2>4, <3>1 DEF WrapInv, NumberingInv
      <3>0. ~ (r <= newest)
        BY <2>1, <2>4
      <3> HIDE DEF d
      <3>3. Diff(number[r], number[newest]) > 0
        <4>1. CASE number[r] = number[newest] + d
          BY <2>2, <3>1, <4>1, SerialCompare
        <4>2. CASE number[r] = number[newest] + d + 1 - 2 * Half
          <5>1. d + 1 \in Nat /\ d + 1 < Half
            BY <3>1
          <5>2. number[r] = number[newest] + (d + 1) - 2 * Half
            BY <3>1, <4>2, <2>2 DEF Word
          <5>3. Diff(number[r], number[newest]) = d + 1
            BY <2>2, <5>1, <5>2, SerialCompare
          <5> QED BY <3>1, <5>3
        <4> QED BY <3>2, <4>1, <4>2
      <3>4. Diff(number[r], last) > 0 /\ Diff(number[r], last) \in Int
        BY <2>1, <2>2, <3>3 DEF Diff, Minus, Word
      <3> QED BY <3>0, <3>4 DEF IsDuplicate
    <2>5. r <= newest \/ r > newest
      BY <2>1
    <2> QED BY <2>3, <2>4, <2>5
  <1> QED BY Numbering, <1>1, PTL
-----------------------------------------------------------------------------
\* The numbers below Half that a loop adds to the time it was entered keep their
\* distance across the wrap.
LEMMA PlusFacts ==
    ASSUME NEW s \in Word, NEW a \in Nat, NEW b \in Nat, a + b < 2 * Half
    PROVE  /\ Plus(s, a) \in Word
           /\ Plus(Plus(s, a), b) = Plus(s, a + b)
  BY HalfAssumption DEF Plus, Word

LEMMA DiffOfPlus ==
    ASSUME NEW s \in Word, NEW a \in Nat, NEW b \in Nat, a < Half, b < Half
    PROVE  Diff(Plus(s, a), Plus(s, b)) = a - b
  BY HalfAssumption DEF Diff, Minus, Plus, Word

\* A set of natural numbers has a least one.
LEMMA LeastNumber ==
    ASSUME NEW T, T \subseteq Nat, T # {}
    PROVE  \E x \in T : \A y \in T : x <= y
  <1> DEFINE R == OpToRel(<, Nat)
  <1>1. IsWellFoundedOn(R, Nat)
    BY NatLessThanWellFounded
  <1>2. \A x, y \in Nat : <<x, y>> \in R <=> x < y
    BY DEF OpToRel
  <1> HIDE DEF R
  <1>3. PICK x \in T : \A y \in T : ~ (<<y, x>> \in R)
    BY <1>1, WFMin
  <1>4. ASSUME NEW y \in T PROVE x <= y
    <2>1. x \in Nat /\ y \in Nat
      OBVIOUS
    <2>2. ~ (y < x)
      BY <1>2, <1>3, <2>1
    <2> QED BY <2>1, <2>2
  <1> QED BY <1>4
-----------------------------------------------------------------------------
\* The latest a retry is ever set to, counted from the entry of the loop.
Reach == Deadline + MaxBackoff + Jitter

\* Every time the loop works with is a short way from the time it was entered.
RetryInv ==
    /\ deadline = Plus(start, Deadline)
    /\ \E p \in 0 .. Deadline + 1 : now = Plus(start, p)
    /\ \A n \in Nodes : \E a \in 0 .. Reach : next[n] = Plus(start, a)
    /\ phase = "wait" => \E u \in 1 .. Deadline : until = Plus(start, u)

PunctualInv == TypeOK /\ RetryInv /\ HilPunctual /\ FanoutPunctualBeforeWrap

LEMMA TimersFacts ==
    /\ MaxAttempts \in Nat \ {0} /\ Backoff \in Nat \ {0} /\ MaxBackoff \in Nat
    /\ Backoff <= MaxBackoff /\ Jitter \in Nat /\ Deadline \in Nat \ {0}
    /\ Reach \in Nat /\ Reach + 1 < Half /\ Deadline + 1 < Half /\ Deadline <= Reach
    /\ Half \in Nat /\ Half > 1
  BY TimersAssumption, HalfAssumption DEF Reach

\* next_backoff() stays between the initial and the largest backoff.
LEMMA DoubledFacts ==
    ASSUME NEW b \in Backoff .. MaxBackoff
    PROVE  Doubled(b) \in Backoff .. MaxBackoff
  BY TimersFacts DEF Doubled, Clamp

\* A position short of the deadline is before the wrap of no comparison.
LEMMA InWord ==
    ASSUME NEW s \in Word, NEW a \in 0 .. Reach + 1
    PROVE  Plus(s, a) \in Word
  BY TimersFacts DEF Plus, Word

\* The wait of the HIL loop is a scheduled retry or the deadline, and none of
\* them is before it.
LEMMA HilUntilFacts ==
    ASSUME deadline \in Word, NEW times, times \subseteq Word
    PROVE  /\ HilUntil(times) \in times \cup {deadline}
           /\ \A u \in times \cup {deadline} :
                  Diff(HilUntil(times), deadline) <= Diff(u, deadline)
  <1> DEFINE S == times \cup {deadline}
             T == {Diff(t, deadline) + Half : t \in S}
  <1>1. \A t \in S : Diff(t, deadline) \in Int /\ Diff(t, deadline) + Half \in Nat
    BY HalfAssumption DEF Diff, Minus, Word
  <1>2. T \subseteq Nat /\ T # {}
    BY <1>1
  <1>3. PICK x \in T : \A y \in T : x <= y
    BY <1>2, LeastNumber
  <1>4. PICK t \in S : x = Diff(t, deadline) + Half
    BY <1>3
  <1>5. \A u \in S : Diff(t, deadline) + Half <= Diff(u, deadline) + Half
    BY <1>3, <1>4
  <1>6. \A u \in S : Diff(t, deadline) <= Diff(u, deadline)
    <2> HIDE DEF S
    <2> QED BY <1>1, <1>4, <1>5, HalfAssumption
  <1> QED BY <1>4, <1>6 DEF HilUntil

\* The wait of the fan-out loop is a scheduled retry before the deadline, or the
\* deadline.
LEMMA FanoutUntilFacts ==
    ASSUME deadline \in Word, NEW times, times \subseteq Word, times # {}
    PROVE  /\ \/ FanoutUntil(times) = deadline
              \/ FanoutUntil(times) \in times /\ Diff(FanoutUntil(times), deadline) < 0
           /\ (\A t \in times : t < 2 * Half - 1) =>
                  \/ /\ FanoutUntil(times) \in times
                     /\ \A u \in times : FanoutUntil(times) <= u
                  \/ /\ FanoutUntil(times) = deadline
                     /\ \E t \in times : /\ ~(Diff(t, deadline) < 0)
                                         /\ \A u \in times : t <= u
  <1>1. times \subseteq Nat
    BY HalfAssumption DEF Word
  <1>2. \E x \in times : \A y \in times : x <= y
    BY <1>1, LeastNumber
  <1>3. Min(times) \in times /\ \A y \in times : Min(times) <= y
    BY <1>2 DEF Min
  <1> DEFINE least == Min(times)
  <1>4. FanoutUntil(times) = IF least # NoRetry /\ Diff(least, deadline) < 0
                             THEN least ELSE deadline
    BY DEF FanoutUntil
  <1> HIDE DEF least
  <1>5. least \in times /\ \A y \in times : least <= y
    BY <1>3 DEF least
  <1>6. CASE least # NoRetry /\ Diff(least, deadline) < 0
    BY <1>4, <1>5, <1>6
  <1>7. CASE ~(least # NoRetry /\ Diff(least, deadline) < 0)
    <2>1. FanoutUntil(times) = deadline
      BY <1>4, <1>7
    <2>2. ASSUME \A t \in times : t < 2 * Half - 1
          PROVE  ~(Diff(least, deadline) < 0)
      <3>1. least < 2 * Half - 1 /\ least \in Nat
        BY <1>1, <1>5, <2>2
      <3> QED BY <1>7, <3>1, HalfAssumption DEF NoRetry
    <2> QED BY <1>5, <2>1, <2>2
  <1> QED BY <1>6, <1>7
-----------------------------------------------------------------------------
\* A retry scheduled while the loop runs is set to a time it can reach.
LEMMA RetryReached ==
    ASSUME start \in Word, NEW p \in 0 .. Deadline, now = Plus(start, p),
           NEW b \in Backoff .. MaxBackoff, NEW j \in 0 .. Jitter
    PROVE  \E a \in 0 .. Reach : Plus(now, b + j) = Plus(start, a)
  <1>1. p \in Nat /\ b + j \in Nat /\ p + (b + j) \in 0 .. Reach /\ p + (b + j) < 2 * Half
    BY TimersFacts DEF Reach
  <1>2. Plus(now, b + j) = Plus(start, p + (b + j))
    BY <1>1, PlusFacts
  <1> QED BY <1>1, <1>2

\* The times a loop starts from, in the first round and in every later one.
LEMMA EntryFacts ==
    ASSUME NEW s \in Word, NEW jitter \in [Nodes -> 0 .. Jitter],
           NEW nx, nx = [n \in Nodes |-> Plus(s, Backoff + jitter[n])]
    PROVE  /\ s = Plus(s, 0) /\ Plus(s, Deadline) \in Word
           /\ nx \in [Nodes -> Word]
           /\ \A n \in Nodes : \E a \in 0 .. Reach : nx[n] = Plus(s, a)
           /\ [n \in Nodes |-> Doubled(Backoff)] \in [Nodes -> Backoff .. MaxBackoff]
  <1>1. \A n \in Nodes : Backoff + jitter[n] \in 0 .. Reach
    BY TimersFacts DEF Reach
  <1>2. \A n \in Nodes : nx[n] = Plus(s, Backoff + jitter[n])
    OBVIOUS
  <1>3. \A a \in 0 .. Reach : Plus(s, a) \in Word
    BY TimersFacts, InWord
  <1>4. nx \in [Nodes -> Word]
    BY <1>1, <1>3
  <1>5. s = Plus(s, 0) /\ Deadline \in 0 .. Reach
    BY TimersFacts DEF Plus, Word
  <1>6. Doubled(Backoff) \in Backoff .. MaxBackoff
    BY TimersFacts, DoubledFacts
  <1> QED BY <1>1, <1>2, <1>3, <1>4, <1>5, <1>6

\* What one pass does to the schedule.
LEMMA PassTypes ==
    ASSUME TypeOK, RetryInv, Pass
    PROVE  /\ sends' \in [Nodes -> 0 .. MaxAttempts]
           /\ next' \in [Nodes -> Word]
           /\ backoff' \in [Nodes -> Backoff .. MaxBackoff]
           /\ \A n \in Nodes : \E a \in 0 .. Reach : next'[n] = Plus(start, a)
           /\ Retryable' \subseteq Retryable
  <1> DEFINE due == {n \in Retryable : Due(now, next[n])}
  <1>1. PICK jitter \in [due -> 0 .. Jitter] :
           next' = [n \in Nodes |-> IF n \in due THEN Plus(now, backoff[n] + jitter[n])
                                                 ELSE next[n]]
    BY DEF Pass
  <1>2. /\ sends' = [n \in Nodes |-> IF n \in due THEN sends[n] + 1 ELSE sends[n]]
        /\ backoff' = [n \in Nodes |-> IF n \in due THEN Doubled(backoff[n]) ELSE backoff[n]]
        /\ missing' = missing /\ Diff(deadline, now) > 0
    BY DEF Pass
  <1>3. /\ missing \subseteq Nodes /\ sends \in [Nodes -> 0 .. MaxAttempts]
        /\ backoff \in [Nodes -> Backoff .. MaxBackoff] /\ next \in [Nodes -> Word]
        /\ start \in Word
    BY DEF TypeOK
  <1>4. \A n \in due : n \in Nodes /\ sends[n] < MaxAttempts
    BY <1>3 DEF Retryable
  <1> HIDE DEF due
  <1>5. ASSUME NEW n \in Nodes
        PROVE  /\ sends'[n] \in 0 .. MaxAttempts /\ sends[n] <= sends'[n]
               /\ backoff'[n] \in Backoff .. MaxBackoff
    <2>1. sends[n] \in 0 .. MaxAttempts /\ backoff[n] \in Backoff .. MaxBackoff
      BY <1>3
    <2>2. sends'[n] \in 0 .. MaxAttempts /\ sends[n] <= sends'[n]
      BY <1>2, <1>4, <2>1, TimersFacts
    <2>3. backoff'[n] \in Backoff .. MaxBackoff
      <3>1. Doubled(backoff[n]) \in Backoff .. MaxBackoff
        BY <2>1, DoubledFacts
      <3> QED BY <1>2, <2>1, <3>1
    <2> QED BY <2>2, <2>3
  <1>6. PICK p \in 0 .. Deadline + 1 : now = Plus(start, p)
    BY DEF RetryInv
  <1>7. p < Deadline
    <2>1. p \in Nat /\ p < Half /\ Deadline \in Nat /\ Deadline < Half
      BY TimersFacts
    <2>2. Diff(deadline, now) = Deadline - p
      BY <1>3, <1>6, <2>1, DiffOfPlus DEF RetryInv
    <2> QED BY <1>2, <2>1, <2>2
  <1>8. ASSUME NEW n \in Nodes
        PROVE  \E a \in 0 .. Reach : next'[n] = Plus(start, a)
    <2>1. CASE n \in due
      <3>1. jitter[n] \in 0 .. Jitter /\ backoff[n] \in Backoff .. MaxBackoff
        BY <1>3, <2>1
      <3>2. p \in 0 .. Deadline
        BY <1>7, TimersFacts
      <3>3. next'[n] = Plus(now, backoff[n] + jitter[n])
        BY <1>1, <2>1
      <3> QED BY <1>3, <1>6, <3>1, <3>2, <3>3, RetryReached
    <2>2. CASE n \notin due
      BY <1>1, <2>2 DEF RetryInv
    <2> QED BY <2>1, <2>2
  <1>9. \A a \in 0 .. Reach : Plus(start, a) \in Word
    BY <1>3, TimersFacts, InWord
  <1>10. sends' \in [Nodes -> 0 .. MaxAttempts] /\ backoff' \in [Nodes -> Backoff .. MaxBackoff]
    BY <1>2, <1>5
  <1>11. next' \in [Nodes -> Word]
    BY <1>1, <1>8, <1>9
  <1>12. Retryable' \subseteq Retryable
    <2>1. ASSUME NEW n \in missing, sends'[n] < MaxAttempts
          PROVE  sends[n] < MaxAttempts
      BY <1>3, <1>5, <2>1, TimersFacts
    <2> QED BY <1>2, <2>1 DEF Retryable
  <1> QED BY <1>8, <1>10, <1>11, <1>12

\* The wait of a pass ends after now, at the latest at the deadline, and in the HIL
\* loop, and in the fan-out loop of a round that is clear of the wrap, not after a
\* retry that is due before the deadline.
LEMMA PassPunctual ==
    ASSUME TypeOK, RetryInv, Pass
    PROVE  /\ \E u \in 1 .. Deadline : until' = Plus(start, u)
           /\ HilPunctual' /\ FanoutPunctualBeforeWrap'
  <1> USE TimersFacts
  <1> DEFINE times == {next'[n] : n \in Retryable}
             chosen == IF loop = "fanout" THEN FanoutUntil(times) ELSE HilUntil(times)
  <1>1. /\ until' = AtLeastOne(chosen)
        /\ Diff(deadline, now) > 0
        /\ UNCHANGED <<loop, now, start, deadline>>
        /\ loop = "fanout" => Retryable # {}
    BY DEF Pass
  <1>2. /\ start \in Word /\ deadline \in Word /\ loop \in {"fanout", "hil"}
        /\ missing \subseteq Nodes
    BY DEF TypeOK
  <1>3. /\ next' \in [Nodes -> Word] /\ Retryable' \subseteq Retryable
        /\ \A n \in Nodes : \E a \in 0 .. Reach : next'[n] = Plus(start, a)
    BY PassTypes
  <1>4. Retryable \subseteq Nodes
    BY <1>2 DEF Retryable
  <1>5. /\ times \subseteq Word
        /\ \A t \in times : \E a \in 0 .. Reach : t = Plus(start, a)
        /\ \A n \in Retryable' : next'[n] \in times
        /\ loop = "fanout" => times # {}
    BY <1>1, <1>3, <1>4
  <1>6. deadline = Plus(start, Deadline) /\ Deadline \in 0 .. Reach
    BY DEF RetryInv
  <1>7. PICK p \in 0 .. Deadline + 1 : now = Plus(start, p)
    BY DEF RetryInv
  <1>8. \A a, b \in 0 .. Reach + 1 : Diff(Plus(start, a), Plus(start, b)) = a - b
    <2> SUFFICES ASSUME NEW a \in 0 .. Reach + 1, NEW b \in 0 .. Reach + 1
                 PROVE  Diff(Plus(start, a), Plus(start, b)) = a - b
      OBVIOUS
    <2>1. a \in Nat /\ b \in Nat /\ a < Half /\ b < Half
      OBVIOUS
    <2> QED BY <1>2, <2>1, DiffOfPlus
  <1>9. p \in 0 .. Reach + 1 /\ p < Deadline
    <2>1. p \in 0 .. Reach + 1 /\ Deadline \in 0 .. Reach + 1
      OBVIOUS
    <2>2. Diff(deadline, now) = Deadline - p
      BY <1>6, <1>7, <1>8, <2>1
    <2> QED BY <1>1, <2>1, <2>2
  <1>10. Plus(now, 1) = Plus(start, p + 1)
    BY <1>2, <1>7, PlusFacts
  <1> HIDE DEF times
  <1>11. PICK c \in 0 .. Deadline : chosen = Plus(start, c)
    <2>1. CASE loop = "hil"
      <3>1. /\ HilUntil(times) \in times \cup {deadline}
            /\ Diff(HilUntil(times), deadline) <= Diff(deadline, deadline)
        BY <1>2, <1>5, HilUntilFacts
      <3>2. PICK a \in 0 .. Reach : HilUntil(times) = Plus(start, a)
        BY <1>5, <1>6, <3>1
      <3>3. a \in 0 .. Reach + 1 /\ Deadline \in 0 .. Reach + 1
        OBVIOUS
      <3>4. a - Deadline <= Deadline - Deadline
        BY <1>6, <1>8, <3>1, <3>2, <3>3
      <3> QED BY <2>1, <3>2, <3>4
    <2>2. CASE loop = "fanout"
      <3>1. \/ FanoutUntil(times) = deadline
            \/ FanoutUntil(times) \in times /\ Diff(FanoutUntil(times), deadline) < 0
        BY <1>2, <1>5, <2>2, FanoutUntilFacts
      <3>2. CASE FanoutUntil(times) = deadline
        BY <1>6, <2>2, <3>2
      <3>3. CASE FanoutUntil(times) \in times /\ Diff(FanoutUntil(times), deadline) < 0
        <4>1. PICK a \in 0 .. Reach : FanoutUntil(times) = Plus(start, a)
          BY <1>5, <3>3
        <4>2. a \in 0 .. Reach + 1 /\ Deadline \in 0 .. Reach + 1
          OBVIOUS
        <4>3. a - Deadline < 0
          BY <1>6, <1>8, <3>3, <4>1, <4>2
        <4> QED BY <2>2, <4>1, <4>3
      <3> QED BY <3>1, <3>2, <3>3
    <2> QED BY <1>2, <2>1, <2>2
  <1>12. c \in 0 .. Reach + 1
    OBVIOUS
  <1>13. Diff(chosen, now) = c - p
    BY <1>7, <1>8, <1>9, <1>11, <1>12
  <1>14. until' = IF c <= p THEN Plus(now, 1) ELSE chosen
    <2> HIDE DEF chosen
    <2>1. until' = IF Diff(chosen, now) <= 0 THEN Plus(now, 1) ELSE chosen
      BY <1>1 DEF AtLeastOne
    <2> QED BY <1>13, <2>1
  <1>15. \E u \in 1 .. Deadline : until' = Plus(start, u)
    <2>1. CASE c <= p
      BY <1>9, <1>10, <1>14, <2>1
    <2>2. CASE ~(c <= p)
      BY <1>9, <1>11, <1>14, <2>2
    <2> QED BY <2>1, <2>2
  <1>16. ASSUME \A u \in times : Diff(u, deadline) < 0 => Diff(chosen, u) <= 0
         PROVE  Punctual'
    <2> SUFFICES ASSUME NEW n \in Retryable', Diff(next'[n], deadline) < 0,
                        until' # Plus(now, 1)
                 PROVE  Diff(until', next'[n]) <= 0
      BY <1>1 DEF Punctual
    <2>1. next'[n] \in times /\ until' = chosen
      BY <1>5, <1>14
    <2> QED BY <1>16, <2>1
  <1>17. HilPunctual'
    <2> SUFFICES ASSUME loop = "hil" PROVE Punctual'
      BY <1>1 DEF HilPunctual
    <2>1. \A u \in times : Diff(chosen, deadline) <= Diff(u, deadline)
      BY <1>2, <1>5, HilUntilFacts
    <2>2. ASSUME NEW u \in times PROVE Diff(chosen, u) <= 0
      <3>1. PICK a \in 0 .. Reach : u = Plus(start, a)
        BY <1>5
      <3>2. a \in 0 .. Reach + 1 /\ Deadline \in 0 .. Reach + 1
        OBVIOUS
      <3>3. Diff(chosen, deadline) = c - Deadline /\ Diff(u, deadline) = a - Deadline
            /\ Diff(chosen, u) = c - a
        BY <1>6, <1>8, <1>11, <1>12, <3>1, <3>2
      <3>4. c - Deadline <= a - Deadline
        BY <2>1, <3>3
      <3>5. c - a <= 0
        BY <3>4
      <3> QED BY <3>3, <3>5
    <2> QED BY <1>16, <2>2
  <1>18. FanoutPunctualBeforeWrap'
    <2> SUFFICES ASSUME loop = "fanout",
                        start + Deadline + MaxBackoff + Jitter + 1 < 2 * Half - 1
                 PROVE  Punctual'
      BY <1>1 DEF FanoutPunctualBeforeWrap, NoRetry
    <2>1. \A a \in 0 .. Reach : Plus(start, a) = start + a /\ start + a < 2 * Half - 1
      BY <1>2 DEF Plus, Word, Reach
    <2>2. \A t \in times : t < 2 * Half - 1
      BY <1>5, <2>1
    <2>3. \/ /\ chosen \in times
             /\ \A u \in times : chosen <= u
          \/ /\ chosen = deadline
             /\ \E t \in times : /\ ~(Diff(t, deadline) < 0)
                                 /\ \A u \in times : t <= u
      BY <1>2, <1>5, <2>2, FanoutUntilFacts
    <2>4. ASSUME NEW u \in times, NEW v \in times, u <= v
          PROVE  \E a, b \in 0 .. Reach + 1 : u = Plus(start, a) /\ v = Plus(start, b) /\ a <= b
      <3>1. PICK a \in 0 .. Reach : u = Plus(start, a)
        BY <1>5
      <3>2. PICK b \in 0 .. Reach : v = Plus(start, b)
        BY <1>5
      <3>3. start + a <= start + b
        BY <2>1, <2>4, <3>1, <3>2
      <3>4. start \in Int /\ a <= b /\ a \in 0 .. Reach + 1 /\ b \in 0 .. Reach + 1
        BY <1>2, <3>3 DEF Word
      <3> QED BY <3>1, <3>2, <3>4
    <2> HIDE DEF chosen
    <2>5. ASSUME NEW u \in times, Diff(u, deadline) < 0
          PROVE  Diff(chosen, u) <= 0
      <3>1. CASE chosen \in times /\ chosen <= u
        <4>1. PICK a \in 0 .. Reach + 1, b \in 0 .. Reach + 1 :
                  chosen = Plus(start, a) /\ u = Plus(start, b) /\ a <= b
          BY <2>4, <3>1
        <4>2. Diff(chosen, u) = a - b
          BY <1>8, <4>1
        <4> QED BY <4>1, <4>2
      <3>2. ASSUME NEW t \in times, ~(Diff(t, deadline) < 0), t <= u
            PROVE  FALSE
        <4>1. PICK a \in 0 .. Reach + 1, b \in 0 .. Reach + 1 :
                  t = Plus(start, a) /\ u = Plus(start, b) /\ a <= b
          BY <2>4, <3>2
        <4>2. Deadline \in 0 .. Reach + 1
          OBVIOUS
        <4>3. Diff(t, deadline) = a - Deadline /\ Diff(u, deadline) = b - Deadline
          BY <1>6, <1>8, <4>1, <4>2
        <4>4. ~(a - Deadline < 0) /\ b - Deadline < 0
          BY <2>5, <3>2, <4>3
        <4> QED BY <4>1, <4>4
      <3> QED BY <2>3, <3>1, <3>2
    <2> QED BY <1>16, <2>5
  <1> QED BY <1>15, <1>17, <1>18
-----------------------------------------------------------------------------
\* The loop is entered at the start of a round.
LEMMA InitPunctualInv == Init => PunctualInv
  <1> SUFFICES ASSUME Init PROVE PunctualInv
    OBVIOUS
  <1>1. PICK jitter \in [Nodes -> 0 .. Jitter] :
           next = [n \in Nodes |-> Plus(now, Backoff + jitter[n])]
    BY DEF Init
  <1>2. /\ now \in Word /\ start = now /\ deadline = Plus(now, Deadline) /\ until = now
        /\ missing = Nodes /\ sends = [n \in Nodes |-> 0] /\ phase = "pass"
        /\ backoff = [n \in Nodes |-> Doubled(Backoff)] /\ loop \in {"fanout", "hil"}
    BY DEF Init
  <1>3. /\ now = Plus(now, 0) /\ Plus(now, Deadline) \in Word
        /\ next \in [Nodes -> Word]
        /\ \A n \in Nodes : \E a \in 0 .. Reach : next[n] = Plus(now, a)
        /\ backoff \in [Nodes -> Backoff .. MaxBackoff]
    BY <1>1, <1>2, EntryFacts
  <1>4. sends \in [Nodes -> 0 .. MaxAttempts] /\ 0 \in 0 .. Deadline + 1
    BY <1>2, TimersFacts
  <1>5. TypeOK
    BY <1>2, <1>3, <1>4 DEF TypeOK
  <1>6. RetryInv
    BY <1>2, <1>3, <1>4 DEF RetryInv
  <1> QED BY <1>2, <1>5, <1>6 DEF PunctualInv, HilPunctual, FanoutPunctualBeforeWrap, Punctual

\* Every step keeps the invariant.
LEMMA StepPunctualInv == PunctualInv /\ [Next]_vars => PunctualInv'
  <1> SUFFICES ASSUME PunctualInv, [Next]_vars PROVE PunctualInv'
    OBVIOUS
  <1>0. TypeOK /\ RetryInv
    BY DEF PunctualInv
  <1>1. CASE Pass
    <2>1. /\ phase' = "wait"
          /\ UNCHANGED <<loop, now, start, deadline, missing>>
      BY <1>1 DEF Pass
    <2>2. /\ sends' \in [Nodes -> 0 .. MaxAttempts] /\ next' \in [Nodes -> Word]
          /\ backoff' \in [Nodes -> Backoff .. MaxBackoff]
          /\ \A n \in Nodes : \E a \in 0 .. Reach : next'[n] = Plus(start, a)
      BY <1>0, <1>1, PassTypes
    <2>3. /\ \E u \in 1 .. Deadline : until' = Plus(start, u)
          /\ HilPunctual' /\ FanoutPunctualBeforeWrap'
      BY <1>0, <1>1, PassPunctual
    <2>4. until' \in Word
      <3>1. \A u \in 1 .. Deadline : u \in 0 .. Reach + 1
        BY TimersFacts
      <3> QED BY <1>0, <2>3, <3>1, InWord DEF TypeOK
    <2>5. TypeOK'
      BY <1>0, <2>1, <2>2, <2>4 DEF TypeOK
    <2>6. RetryInv'
      BY <1>0, <2>1, <2>2, <2>3 DEF RetryInv
    <2> QED BY <2>3, <2>5, <2>6 DEF PunctualInv
  <1>2. CASE Wait
    <2>1. /\ phase = "wait" /\ phase' = "pass" /\ missing' \subseteq missing
          /\ UNCHANGED <<loop, start, deadline, sends, next, backoff, until>>
      BY <1>2 DEF Wait
    <2>2. PICK late \in 0 .. 1 : now' = Plus(until, late)
      BY <1>2 DEF Wait
    <2>3. PICK u \in 1 .. Deadline : until = Plus(start, u)
      BY <1>0, <2>1 DEF RetryInv
    <2>4. /\ u + late \in 0 .. Deadline + 1 /\ u \in Nat /\ late \in Nat
          /\ u + late < 2 * Half /\ u + late \in 0 .. Reach + 1
      BY TimersFacts
    <2>5. now' = Plus(start, u + late)
      BY <1>0, <2>2, <2>3, <2>4, PlusFacts DEF TypeOK
    <2>6. now' \in Word
      BY <1>0, <2>4, <2>5, InWord DEF TypeOK
    <2>7. TypeOK'
      BY <1>0, <2>1, <2>6 DEF TypeOK
    <2>8. RetryInv'
      BY <1>0, <2>1, <2>4, <2>5 DEF RetryInv
    <2> QED BY <2>1, <2>7, <2>8 DEF PunctualInv, HilPunctual, FanoutPunctualBeforeWrap, Punctual
  <1>3. CASE Leave
    <2>1. phase' = "done" /\ UNCHANGED <<loop, now, start, deadline, missing, sends, next, backoff, until>>
      BY <1>3 DEF Leave
    <2>2. TypeOK' /\ RetryInv'
      BY <1>0, <2>1 DEF TypeOK, RetryInv
    <2> QED BY <2>1, <2>2 DEF PunctualInv, HilPunctual, FanoutPunctualBeforeWrap, Punctual
  <1>4. CASE Again
    <2>1. PICK jitter \in [Nodes -> 0 .. Jitter] :
             next' = [n \in Nodes |-> Plus(now, Backoff + jitter[n])]
      BY <1>4 DEF Again
    <2>2. /\ phase' = "pass" /\ start' = now /\ deadline' = Plus(now, Deadline)
          /\ missing' = Nodes /\ sends' = [n \in Nodes |-> 0]
          /\ backoff' = [n \in Nodes |-> Doubled(Backoff)]
          /\ UNCHANGED <<loop, now, until>> /\ now \in Word
      BY <1>0, <1>4 DEF Again, TypeOK
    <2>3. /\ now = Plus(now, 0) /\ Plus(now, Deadline) \in Word
          /\ next' \in [Nodes -> Word]
          /\ \A n \in Nodes : \E a \in 0 .. Reach : next'[n] = Plus(now, a)
          /\ backoff' \in [Nodes -> Backoff .. MaxBackoff]
      BY <2>1, <2>2, EntryFacts
    <2>4. sends' \in [Nodes -> 0 .. MaxAttempts] /\ 0 \in 0 .. Deadline + 1
      BY <2>2, TimersFacts
    <2>5. TypeOK'
      BY <1>0, <2>2, <2>3, <2>4 DEF TypeOK
    <2>6. RetryInv'
      BY <2>2, <2>3, <2>4 DEF RetryInv
    <2> QED BY <2>2, <2>5, <2>6 DEF PunctualInv, HilPunctual, FanoutPunctualBeforeWrap, Punctual
  <1>5. CASE UNCHANGED vars
    BY <1>5 DEF vars, PunctualInv, TypeOK, RetryInv, HilPunctual, FanoutPunctualBeforeWrap, Punctual,
                Retryable
  <1> QED BY <1>1, <1>2, <1>3, <1>4, <1>5 DEF Next

\* The inductive invariant holds in every state.
THEOREM RetryInvariant == Spec => []PunctualInv
  BY InitPunctualInv, StepPunctualInv, PTL DEF Spec

\* The state keeps its types.
THEOREM TypeCorrect == Spec => []TypeOK
  <1>1. PunctualInv => TypeOK
    BY DEF PunctualInv
  <1> QED BY RetryInvariant, <1>1, PTL

\* hil_send_retries_until_done() does not sleep through a retry, wherever on the
\* clock the loop is entered.
THEOREM HilNeverOversleeps == Spec => []HilPunctual
  <1>1. PunctualInv => HilPunctual
    BY DEF PunctualInv
  <1> QED BY RetryInvariant, <1>1, PTL

\* send_due_unicast_retries() does not either, in a round that ends, with every
\* retry it may schedule, before the largest value of the clock.
THEOREM FanoutOversleepsOnlyAtWrap == Spec => []FanoutPunctualBeforeWrap
  <1>1. PunctualInv => FanoutPunctualBeforeWrap
    BY DEF PunctualInv
  <1> QED BY RetryInvariant, <1>1, PTL
-----------------------------------------------------------------------------
(* SatelliteAges.  A stamp lies the silence of its satellite before the clock, and  *)
(* before the clock a status call has read unless it was written since; the loop's *)
(* head keeps every silence below half of the range, where the comparison is sound.  *)

StampsTrue == \A s \in members \ fresh : stamp[s] = Minus(clock, silence[s])

ReadingTrue == call = "read" => \A s \in members \ heard :
    asked[s] < Half /\ stamp[s] = Minus(current, asked[s])

AgesInv ==
    /\ AgesTypeOK /\ StaleAreGone /\ StampsTrue /\ ReadingTrue /\ AgesExactUnlessHeard
    /\ \A s \in Sats \ members : silence[s] = 0

LEMMA AgesFacts ==
    /\ Half \in Nat /\ Half > 1
    /\ Expire \in Nat \ {0} /\ Gap \in Nat \ {0} /\ Expire + Gap < Half
  BY HalfAssumption, AgesAssumption

\* The time since a stamp, below half of the range, is what the difference says, and
\* a millisecond later it is one more.
LEMMA MinusFacts ==
    ASSUME NEW c \in Word, NEW q \in Nat, q < Half
    PROVE  /\ Minus(c, q) \in Word
           /\ Diff(c, Minus(c, q)) = q
           /\ Minus(c, Minus(c, q)) = q
           /\ Minus(Plus(c, 1), q + 1) = Minus(c, q)
           /\ (Minus(c, q) = 0) = (q = c)
  BY HalfAssumption DEF Diff, Minus, Plus, Word

LEMMA WordFacts ==
    ASSUME NEW c \in Word, NEW t \in Word
    PROVE  Plus(c, 1) \in Word /\ Minus(c, t) \in Word /\ Minus(c, 0) = c /\ Never \in Word
  BY HalfAssumption DEF Minus, Plus, Word, Never

\* No silence of a member reaches half of the range.
LEMMA SilenceShort ==
    ASSUME AgesTypeOK, StaleAreGone, NEW s \in members
    PROVE  silence[s] \in Nat /\ silence[s] < Half
  <1>1. since \in 0 .. Gap /\ s \in Sats /\ silence[s] \in Nat
    BY DEF AgesTypeOK
  <1>2. silence[s] < Expire + since
    BY DEF StaleAreGone
  <1> QED BY <1>1, <1>2, AgesFacts

\* The test of expire_stale_satellites() is the silence's.
LEMMA StaleIsSilent ==
    ASSUME AgesInv, NEW s \in members \ fresh
    PROVE  Stale(s) <=> silence[s] >= Expire
  <1>1. silence[s] \in Nat /\ silence[s] < Half
    BY SilenceShort DEF AgesInv
  <1>2. clock \in Word /\ stamp[s] = Minus(clock, silence[s])
    BY DEF AgesInv, AgesTypeOK, StampsTrue
  <1> QED BY <1>1, <1>2, MinusFacts DEF Stale

LEMMA InitAgesInv == AgesInit => AgesInv
  <1> SUFFICES ASSUME AgesInit PROVE AgesInv
    OBVIOUS
  <1>1. /\ clock = 1 /\ since = 0 /\ members = {} /\ fresh = {} /\ call = "none"
        /\ current = 0 /\ heard = {} /\ ages = NoAges
        /\ stamp = [s \in Sats |-> 0] /\ silence = [s \in Sats |-> 0] /\ asked = silence
    BY DEF AgesInit
  <1>2. 0 \in Word /\ 1 \in Word /\ 0 \in 0 .. Gap
    BY AgesFacts DEF Word
  <1>3. DOMAIN NoAges = {} /\ NoAges \in [DOMAIN NoAges -> Word]
    BY DEF NoAges
  <1>4. AgesTypeOK
    BY <1>1, <1>2, <1>3 DEF AgesTypeOK
  <1> QED BY <1>1, <1>4 DEF AgesInv, StaleAreGone, StampsTrue, ReadingTrue, AgesExactUnlessHeard

\* A millisecond passes: every member is one millisecond further from its stamp.
LEMMA TickKeepsAges == AgesInv /\ Tick => AgesInv'
  <1> SUFFICES ASSUME AgesInv, Tick PROVE AgesInv'
    OBVIOUS
  <1>0. AgesTypeOK /\ StaleAreGone /\ StampsTrue /\ ReadingTrue /\ AgesExactUnlessHeard
    BY DEF AgesInv
  <1>1. /\ since < Gap /\ since' = since + 1 /\ clock' = Plus(clock, 1)
        /\ UNCHANGED <<members, fresh, stamp, call, current, asked, ages, heard>>
        /\ silence' = [s \in Sats |-> IF s \in members THEN silence[s] + 1 ELSE 0]
    BY DEF Tick, callVars
  <1>2. AgesTypeOK'
    <2>1. clock' \in Word /\ since' \in 0 .. Gap
      BY <1>0, <1>1, WordFacts, AgesFacts DEF AgesTypeOK
    <2>2. silence' \in [Sats -> Nat]
      BY <1>0, <1>1 DEF AgesTypeOK
    <2> QED BY <1>0, <1>1, <2>1, <2>2 DEF AgesTypeOK
  <1>3. \A s \in members : s \in Sats /\ silence[s] \in Nat /\ silence'[s] = silence[s] + 1
    BY <1>0, <1>1 DEF AgesTypeOK
  <1>4. StaleAreGone'
    <2>1. since \in Nat /\ Expire \in Nat
      BY <1>0, AgesFacts DEF AgesTypeOK
    <2> QED BY <1>0, <1>1, <1>3, <2>1 DEF StaleAreGone
  <1>5. StampsTrue'
    <2> SUFFICES ASSUME NEW s \in members \ fresh PROVE stamp[s] = Minus(clock', silence'[s])
      BY <1>1 DEF StampsTrue
    <2>1. silence[s] \in Nat /\ silence[s] < Half /\ clock \in Word
      BY <1>0, SilenceShort DEF AgesTypeOK
    <2>2. stamp[s] = Minus(clock, silence[s])
      BY <1>0 DEF StampsTrue
    <2> QED BY <1>1, <1>3, <2>1, <2>2, MinusFacts
  <1>6. ReadingTrue' /\ AgesExactUnlessHeard'
    BY <1>0, <1>1 DEF ReadingTrue, AgesExactUnlessHeard
  <1>7. \A s \in Sats \ members' : silence'[s] = 0
    BY <1>1
  <1> QED BY <1>2, <1>4, <1>5, <1>6, <1>7 DEF AgesInv

\* A slot in use whose stamp is still 0 is left out of every comparison.
LEMMA AddKeepsAges == ASSUME NEW s \in Sats PROVE AgesInv /\ Add(s) => AgesInv'
  <1> SUFFICES ASSUME AgesInv, Add(s) PROVE AgesInv'
    OBVIOUS
  <1>0. AgesTypeOK /\ StaleAreGone /\ StampsTrue /\ ReadingTrue /\ AgesExactUnlessHeard
    BY DEF AgesInv
  <1>1. /\ s \notin members /\ fresh = {} /\ members' = members \cup {s} /\ fresh' = {s}
        /\ heard' = heard \cup {s}
        /\ UNCHANGED <<clock, since, stamp, silence, call, current, asked, ages>>
    BY DEF Add, callVars
  <1>2. AgesTypeOK'
    BY <1>0, <1>1 DEF AgesTypeOK
  <1>3. silence[s] = 0 /\ \A t \in Sats \ members' : silence[t] = 0
    BY <1>1 DEF AgesInv
  <1>4. StaleAreGone'
    <2>1. since \in Nat /\ 0 < Expire + since
      BY <1>0, AgesFacts DEF AgesTypeOK
    <2> QED BY <1>0, <1>1, <1>3, <2>1 DEF StaleAreGone
  <1>5. StampsTrue' /\ ReadingTrue' /\ AgesExactUnlessHeard'
    BY <1>0, <1>1 DEF StampsTrue, ReadingTrue, AgesExactUnlessHeard
  <1> QED BY <1>1, <1>2, <1>3, <1>4, <1>5 DEF AgesInv

\* A frame makes the silence 0 and the stamp the clock.
LEMMA TouchKeepsAges == ASSUME NEW s \in Sats PROVE AgesInv /\ Touch(s) => AgesInv'
  <1> SUFFICES ASSUME AgesInv, Touch(s) PROVE AgesInv'
    OBVIOUS
  <1>0. AgesTypeOK /\ StaleAreGone /\ StampsTrue /\ ReadingTrue /\ AgesExactUnlessHeard
    BY DEF AgesInv
  <1>1. /\ s \in members /\ fresh \subseteq {s} /\ fresh' = {} /\ heard' = heard \cup {s}
        /\ stamp' = [stamp EXCEPT ![s] = clock] /\ silence' = [silence EXCEPT ![s] = 0]
        /\ UNCHANGED <<clock, since, members, call, current, asked, ages>>
    BY DEF Touch, callVars
  <1>2. clock \in Word /\ members \subseteq Sats /\ since \in Nat
        /\ stamp \in [Sats -> Word] /\ silence \in [Sats -> Nat]
    BY <1>0 DEF AgesTypeOK
  <1>3. AgesTypeOK'
    BY <1>0, <1>1, <1>2 DEF AgesTypeOK
  <1>4. /\ stamp'[s] = clock /\ silence'[s] = 0
        /\ \A t \in Sats \ {s} : stamp'[t] = stamp[t] /\ silence'[t] = silence[t]
    BY <1>1, <1>2
  <1>5. StaleAreGone'
    <2>1. 0 < Expire + since
      BY <1>2, AgesFacts
    <2> QED BY <1>0, <1>1, <1>2, <1>4, <2>1 DEF StaleAreGone
  <1>6. StampsTrue'
    <2>1. clock = Minus(clock, 0)
      BY <1>2, WordFacts
    <2> QED BY <1>0, <1>1, <1>2, <1>4, <2>1 DEF StampsTrue
  <1>7. ReadingTrue' /\ AgesExactUnlessHeard'
    BY <1>0, <1>1, <1>2, <1>4 DEF ReadingTrue, AgesExactUnlessHeard
  <1>8. \A t \in Sats \ members' : silence'[t] = 0
    BY <1>1, <1>2, <1>4 DEF AgesInv
  <1> QED BY <1>3, <1>5, <1>6, <1>7, <1>8 DEF AgesInv

\* Whoever has been silent for Expire leaves, so nobody is left who has.
LEMMA LoopHeadKeepsAges == AgesInv /\ LoopHead => AgesInv'
  <1> SUFFICES ASSUME AgesInv, LoopHead PROVE AgesInv'
    OBVIOUS
  <1>0. AgesTypeOK /\ StaleAreGone /\ StampsTrue /\ ReadingTrue /\ AgesExactUnlessHeard
    BY DEF AgesInv
  <1> DEFINE gone == {s \in members : Stale(s)}
  <1>1. /\ fresh = {} /\ since' = 0 /\ members' = members \ gone
        /\ stamp' = [s \in Sats |-> IF s \in gone THEN 0 ELSE stamp[s]]
        /\ silence' = [s \in Sats |-> IF s \in gone THEN 0 ELSE silence[s]]
        /\ UNCHANGED <<clock, fresh, call, current, asked, ages, heard>>
    BY DEF LoopHead, callVars
  <1>2. members' \subseteq members /\ members \subseteq Sats
        /\ \A s \in members : s \in gone <=> silence[s] >= Expire
    BY <1>0, <1>1, StaleIsSilent DEF AgesTypeOK
  <1>3. \A s \in members' : stamp'[s] = stamp[s] /\ silence'[s] = silence[s]
    BY <1>1, <1>2
  <1> HIDE DEF gone
  <1>4. AgesTypeOK'
    <2>1. stamp' \in [Sats -> Word] /\ silence' \in [Sats -> Nat]
      BY <1>0, <1>1, AgesFacts DEF AgesTypeOK, Word
    <2>2. since' \in 0 .. Gap
      BY <1>1, AgesFacts
    <2> QED BY <1>0, <1>1, <1>2, <2>1, <2>2 DEF AgesTypeOK
  <1>5. StaleAreGone'
    <2> SUFFICES ASSUME NEW s \in members' PROVE silence'[s] < Expire + since'
      BY DEF StaleAreGone
    <2>1. s \in members /\ s \notin gone /\ silence[s] \in Nat
      BY <1>0, <1>1, <1>2 DEF AgesTypeOK
    <2>2. ~(silence[s] >= Expire)
      BY <1>2, <2>1
    <2> QED BY <1>1, <1>3, <2>1, <2>2, AgesFacts
  <1>6. StampsTrue' /\ ReadingTrue' /\ AgesExactUnlessHeard'
    BY <1>0, <1>1, <1>2, <1>3 DEF StampsTrue, ReadingTrue, AgesExactUnlessHeard
  <1>7. \A s \in Sats \ members' : silence'[s] = 0
    <2> SUFFICES ASSUME NEW s \in Sats \ members', s \notin gone PROVE silence[s] = 0
      BY <1>1
    <2>1. s \notin members
      BY <1>1
    <2> QED BY <2>1 DEF AgesInv
  <1> QED BY <1>4, <1>5, <1>6, <1>7 DEF AgesInv

\* A status call reads the clock: every stamp is its satellite's silence before it.
LEMMA ReadClockKeepsAges == AgesInv /\ ReadClock => AgesInv'
  <1> SUFFICES ASSUME AgesInv, ReadClock PROVE AgesInv'
    OBVIOUS
  <1>0. AgesTypeOK /\ StaleAreGone /\ StampsTrue
    BY DEF AgesInv
  <1>1. /\ call' = "read" /\ current' = clock /\ asked' = silence /\ heard' = fresh
        /\ UNCHANGED <<clock, since, members, fresh, stamp, silence, ages>>
    BY DEF ReadClock, tableVars
  <1>2. AgesTypeOK'
    BY <1>0, <1>1 DEF AgesTypeOK
  <1>3. StaleAreGone' /\ StampsTrue' /\ AgesExactUnlessHeard'
    BY <1>0, <1>1 DEF StaleAreGone, StampsTrue, AgesExactUnlessHeard
  <1>4. ReadingTrue'
    <2>1. \A s \in members \ fresh : silence[s] < Half /\ stamp[s] = Minus(clock, silence[s])
      BY <1>0, SilenceShort DEF StampsTrue
    <2> QED BY <1>1, <2>1 DEF ReadingTrue
  <1>5. \A s \in Sats \ members' : silence'[s] = 0
    BY <1>1 DEF AgesInv
  <1> QED BY <1>2, <1>3, <1>4, <1>5 DEF AgesInv

\* It copies the table: the age of an entry not written since is its silence then.
LEMMA CopyTableKeepsAges == AgesInv /\ CopyTable => AgesInv'
  <1> SUFFICES ASSUME AgesInv, CopyTable PROVE AgesInv'
    OBVIOUS
  <1>0. AgesTypeOK /\ StaleAreGone /\ StampsTrue /\ ReadingTrue
    BY DEF AgesInv
  <1>1. /\ call = "read" /\ call' = "done" /\ ages' = [s \in members |-> Ago(s)]
        /\ UNCHANGED <<clock, since, members, fresh, stamp, silence, current, asked, heard>>
    BY DEF CopyTable, tableVars
  <1>2. current \in Word /\ members \subseteq Sats /\ \A s \in members :
            s \in Sats /\ stamp[s] \in Word /\ asked[s] \in Nat
    BY <1>0 DEF AgesTypeOK
  <1>3. \A s \in members : Ago(s) \in Word
    BY <1>2, WordFacts DEF Ago
  <1>4. AgesTypeOK'
    BY <1>0, <1>1, <1>2, <1>3 DEF AgesTypeOK
  <1>5. AgesExactUnlessHeard'
    <2> SUFFICES ASSUME NEW s \in members \ heard
                 PROVE  Ago(s) = IF asked[s] = current THEN Never ELSE asked[s]
      BY <1>1 DEF AgesExactUnlessHeard
    <2>1. asked[s] < Half /\ stamp[s] = Minus(current, asked[s])
      BY <1>0, <1>1 DEF ReadingTrue
    <2>2. /\ Minus(current, stamp[s]) = asked[s]
          /\ (stamp[s] = 0) = (asked[s] = current)
      BY <1>2, <2>1, MinusFacts
    <2> QED BY <2>2 DEF Ago
  <1>6. StaleAreGone' /\ StampsTrue' /\ ReadingTrue'
    BY <1>0, <1>1 DEF StaleAreGone, StampsTrue, ReadingTrue
  <1>7. \A s \in Sats \ members' : silence'[s] = 0
    BY <1>1 DEF AgesInv
  <1> QED BY <1>4, <1>5, <1>6, <1>7 DEF AgesInv

LEMMA ReturnKeepsAges == AgesInv /\ Return => AgesInv'
  <1> SUFFICES ASSUME AgesInv, Return PROVE AgesInv'
    OBVIOUS
  <1>0. AgesTypeOK /\ StaleAreGone /\ StampsTrue
    BY DEF AgesInv
  <1>1. /\ call' = "none" /\ current' = 0 /\ asked' = [s \in Sats |-> 0] /\ ages' = NoAges
        /\ heard' = {} /\ UNCHANGED <<clock, since, members, fresh, stamp, silence>>
    BY DEF Return, tableVars
  <1>2. 0 \in Word /\ DOMAIN NoAges = {} /\ NoAges \in [DOMAIN NoAges -> Word]
    BY AgesFacts DEF Word, NoAges
  <1>3. AgesTypeOK'
    BY <1>0, <1>1, <1>2 DEF AgesTypeOK
  <1>4. StaleAreGone' /\ StampsTrue' /\ ReadingTrue' /\ AgesExactUnlessHeard'
    BY <1>0, <1>1 DEF StaleAreGone, StampsTrue, ReadingTrue, AgesExactUnlessHeard
  <1>5. \A s \in Sats \ members' : silence'[s] = 0
    BY <1>1 DEF AgesInv
  <1> QED BY <1>3, <1>4, <1>5 DEF AgesInv

\* The inductive invariant holds in every state.
THEOREM AgesInvariant == AgesSpec => []AgesInv
  <1>1. AgesInv /\ UNCHANGED agesVars => AgesInv'
    BY DEF AgesInv, AgesTypeOK, StaleAreGone, StampsTrue, ReadingTrue, AgesExactUnlessHeard,
           agesVars, tableVars, callVars
  <1>2. AgesInv /\ [AgesNext]_agesVars => AgesInv'
    BY <1>1, TickKeepsAges, AddKeepsAges, TouchKeepsAges, LoopHeadKeepsAges, ReadClockKeepsAges,
       CopyTableKeepsAges, ReturnKeepsAges DEF AgesNext
  <1> QED BY <1>2, InitAgesInv, PTL DEF AgesSpec

\* expire_stale_satellites() frees the slots of the satellites that have been silent for
\* SATELLITE_EXPIRE_MS and of no others, wherever the clock wraps.
THEOREM EvictionIsRight == AgesSpec => EvictsTheSilent
  <1>1. AgesInv /\ AgesInv' /\ [AgesNext]_agesVars =>
          [StaleAreGone' /\ \A s \in members \ members' : silence[s] >= Expire]_agesVars
    <2> SUFFICES ASSUME AgesInv, AgesInv', AgesNext, NEW s \in members \ members'
                 PROVE  silence[s] >= Expire
      BY DEF AgesInv
    <2>1. LoopHead
      BY DEF AgesNext, Tick, Add, Touch, ReadClock, CopyTable, Return, tableVars
    <2>2. Stale(s) /\ fresh = {}
      BY <2>1 DEF LoopHead
    <2> QED BY <2>2, StaleIsSilent
  <1> QED BY <1>1, AgesInvariant, PTL DEF AgesSpec, EvictsTheSilent

\* espnow_mesh_get_status() reports the true age of every entry that is not written
\* between its reading of the clock and its copy of the table.
THEOREM AgesAreExact == AgesSpec => []AgesExactUnlessHeard
  <1>1. AgesInv => AgesExactUnlessHeard
    BY DEF AgesInv
  <1> QED BY AgesInvariant, <1>1, PTL
=============================================================================
