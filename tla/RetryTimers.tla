---------------------------- MODULE RetryTimers ----------------------------
(***************************************************************************)
(* The unicast phase of one round on the wrapping millisecond clock         *)
(* (espnow_mesh.c: schedule_next_retry, send_due_unicast_retries with        *)
(* reliable_retry_until_done_or_deadline, and their HIL twin                 *)
(* hil_send_retries_until_done), which MeshController abstracts to "a retry  *)
(* may be due".  `loop` says which of the two loops runs.                    *)
(*                                                                         *)
(* Abstracted: sends always count; who answers, and the jitter, are any.     *)
(***************************************************************************)
EXTENDS SerialTime, FiniteSets, FiniteSetsExt

CONSTANTS
    Nodes,          \* the satellites that have not answered the broadcasts
    MaxAttempts,    \* sends left to each
    Backoff, MaxBackoff, Jitter,    \* RELIABLE_INITIAL_BACKOFF_MS, ...
    Deadline        \* ms left until deadline_ms

ASSUME TimersAssumption ==
    /\ IsFiniteSet(Nodes) /\ MaxAttempts \in Nat \ {0}
    /\ Backoff \in Nat \ {0} /\ MaxBackoff \in Nat /\ Backoff <= MaxBackoff
    /\ Jitter \in Nat /\ Deadline \in Nat \ {0}
    /\ Deadline + MaxBackoff + Jitter + 1 < Half

VARIABLES
    loop,       \* "fanout" or "hil"
    phase,      \* "pass", "wait" or "done"
    now,        \* now_ms()
    start,      \* history: now_ms() when the loop was entered
    deadline,   \* deadline_ms
    missing,    \* nodes that have not answered
    sends, next, backoff,   \* per node: sends_current, next_retry_ms, retry_backoff_ms
    until       \* the deadline of the drain

vars == <<loop, phase, now, start, deadline, missing, sends, next, backoff, until>>

Clamp(ms) == IF ms > MaxBackoff THEN MaxBackoff ELSE ms

\* next_backoff().
Doubled(ms) == Clamp(2 * ms)

TypeOK ==
    /\ loop \in {"fanout", "hil"} /\ phase \in {"pass", "wait", "done"}
    /\ now \in Word /\ start \in Word /\ deadline \in Word /\ until \in Word
    /\ missing \subseteq Nodes
    /\ sends \in [Nodes -> 0 .. MaxAttempts]
    /\ next \in [Nodes -> Word]
    /\ backoff \in [Nodes -> Backoff .. MaxBackoff]

\* After schedule_missing_after_broadcast().
Init ==
    /\ loop \in {"fanout", "hil"} /\ phase = "pass"
    /\ now \in Word /\ start = now /\ deadline = Plus(now, Deadline)
    /\ missing = Nodes /\ sends = [n \in Nodes |-> 0]
    /\ \E jitter \in [Nodes -> 0 .. Jitter] :
           next = [n \in Nodes |-> Plus(now, Backoff + jitter[n])]
    /\ backoff = [n \in Nodes |-> Doubled(Backoff)]
    /\ until = now
-----------------------------------------------------------------------------
Retryable == {n \in missing : sends[n] < MaxAttempts}

\* Mutant of FanoutUntil: waits for the latest retry.
FanoutUntilLatest(times) == IF times = {} THEN deadline ELSE Max(times)

\* UINT32_MAX, a time like any other and "no retry" as well.
NoRetry == 2 * Half - 1

\* The unsigned minimum of send_due_unicast_retries(), and the wait chosen from it.
FanoutUntil(times) ==
    LET least == IF times = {} THEN NoRetry ELSE Min(times)
    IN  IF least # NoRetry /\ Diff(least, deadline) < 0 THEN least ELSE deadline

\* Mutant of HilUntil: the unsigned minimum here too.
HilUntilUnsigned(times) == FanoutUntil(times)

\* The running minimum of hil_send_retries_until_done(), from deadline_ms down.
HilUntil(times) ==
    CHOOSE t \in times \cup {deadline} :
        \A u \in times \cup {deadline} : Diff(t, deadline) <= Diff(u, deadline)

\* A drain lasts at least a millisecond.
AtLeastOne(t) == IF Diff(t, now) <= 0 THEN Plus(now, 1) ELSE t

\* One pass over the table: send what is due, reschedule it, choose the wait.
Pass ==
    /\ phase = "pass" /\ missing # {} /\ Diff(deadline, now) > 0
    /\ loop = "fanout" => Retryable # {}
    /\ LET due == {n \in Retryable : Due(now, next[n])} IN
           /\ sends' = [n \in Nodes |-> IF n \in due THEN sends[n] + 1 ELSE sends[n]]
           /\ \E jitter \in [due -> 0 .. Jitter] :
                  next' = [n \in Nodes |-> IF n \in due
                                           THEN Plus(now, backoff[n] + jitter[n])
                                           ELSE next[n]]
           /\ backoff' = [n \in Nodes |-> IF n \in due THEN Doubled(backoff[n])
                                                       ELSE backoff[n]]
    /\ LET times == {next'[n] : n \in Retryable}
       IN  until' = AtLeastOne(IF loop = "fanout" THEN FanoutUntil(times) ELSE HilUntil(times))
    /\ phase' = "wait"
    /\ UNCHANGED <<loop, now, start, deadline, missing>>

\* The loop is left: everyone answered, deadline, or (fan-out) nobody to retry.
Leave ==
    /\ phase = "pass"
    /\ missing = {} \/ Diff(deadline, now) <= 0 \/ (loop = "fanout" /\ Retryable = {})
    /\ phase' = "done"
    /\ UNCHANGED <<loop, now, start, deadline, missing, sends, next, backoff, until>>

\* The drain: some nodes answer, time passes to its deadline or a little later.
Wait ==
    /\ phase = "wait"
    /\ \E late \in 0 .. 1 : now' = Plus(until, late)
    /\ missing' \in SUBSET missing
    /\ phase' = "pass"
    /\ UNCHANGED <<loop, start, deadline, sends, next, backoff, until>>

\* The next round, some time later.
Again ==
    /\ phase = "done"
    /\ phase' = "pass" /\ start' = now
    /\ deadline' = Plus(now, Deadline)
    /\ missing' = Nodes /\ sends' = [n \in Nodes |-> 0]
    /\ \E jitter \in [Nodes -> 0 .. Jitter] :
           next' = [n \in Nodes |-> Plus(now, Backoff + jitter[n])]
    /\ backoff' = [n \in Nodes |-> Doubled(Backoff)]
    /\ UNCHANGED <<loop, now, until>>

Next == Pass \/ Wait \/ Leave \/ Again

Spec == Init /\ [][Next]_vars
-----------------------------------------------------------------------------
\* The wait does not sleep through a retry that falls before the deadline.
Punctual == phase = "wait" => \A n \in Retryable :
    Diff(next[n], deadline) < 0 /\ until # Plus(now, 1) => Diff(until, next[n]) <= 0

\* The HIL loop is punctual at every value of the clock.
HilPunctual == loop = "hil" => Punctual

\* The fan-out loop is punctual in every round that neither it nor a retry it
\* schedules carries across the wrap of the clock.
FanoutPunctualBeforeWrap ==
    loop = "fanout" /\ start + Deadline + MaxBackoff + Jitter + 1 < NoRetry => Punctual

\* espnow_mesh_priv.h:16-17 "compare with (int32_t)(a - b) for wrap-safe
\* ordering": the fan-out loop, too, is punctual wherever on the clock its retries
\* lie, if none of them lies at the very value that it also uses for "none".
FanoutPunctual ==
    loop = "fanout" /\ (\A n \in Retryable : next[n] # NoRetry) => Punctual
=============================================================================
