------------------------------ MODULE TimeSync ------------------------------
(***************************************************************************)
(* The time-sync exchange between a satellite and its controller             *)
(* (espnow_mesh.c: request_time_sync_if_due, handle_time_request,            *)
(* handle_time_response) over an air that delays, loses, duplicates and      *)
(* reorders, feeding the estimate of PllClock.  The controller may restart,  *)
(* which sets its clock back to zero.                                       *)
(*                                                                         *)
(* `now` is the satellite's clock, `now + offset` the controller's: they run *)
(* at the same rate.  A message carries the four stamps as they are taken:   *)
(* the receive callbacks stamp c1 and t4, the tasks t1 and c2.               *)
(***************************************************************************)
EXTENDS PllClock, FiniteSets

CONSTANTS
    MaxDelay,       \* CONFIG_ESPNOW_MESH_TIME_SYNC_MAX_DELAY_US
    Interval,       \* CONFIG_ESPNOW_MESH_TIME_SYNC_INTERVAL_MS
    Timeout,        \* CONFIG_ESPNOW_MESH_CONTROLLER_TIMEOUT_MS
    Uptime,         \* of the controller when the satellite starts
    MaxSequence,    \* the largest sequence number, 2^32 - 1
    MaxTime, MaxBoot, MaxFlight, MaxFaults      \* bounds

ASSUME SyncAssumption ==
    /\ MaxDelay \in Nat /\ Uptime \in Nat
    /\ Interval \in Nat \ {0} /\ Timeout \in Nat \ {0}
    /\ MaxSequence \in Nat \ {0, 1}
    /\ MaxTime \in Nat /\ MaxBoot \in Nat \ {0} /\ MaxFlight \in Nat /\ MaxFaults \in Nat

VARIABLES
    build,          \* "pll" or "filter"
    now,            \* the satellite's now_us()
    offset, boot,   \* the controller's clock minus now; its boot
    locked, heard,  \* s_have_controller, s_last_controller_rx_ms (of lock and responses)
    next,           \* s_next_time_sync_ms
    seq,            \* s_time_sync_sequence
    pending,        \* {} or {<<sequence, tx_us>>}: s_pending_time_sync_*
    est,            \* the estimate
    msgs,           \* time requests and responses under way
    unused,         \* history: the last request sent under this lock, until it is used
    feeds,          \* history: samples the running boot answered
    span,           \* history: how long est, once acquired, took samples unchecked
    faults          \* losses, copies, ticks of delay, failed sends, lost locks so far

controller == <<offset, boot>>
satellite  == <<locked, heard, next, seq, pending, est>>
history    == <<unused, feeds, span>>
vars == <<build, now, controller, satellite, msgs, history, faults>>

Places == {"toController", "controllerQueue", "toSatellite", "satelliteQueue"}

\* espnow_mesh_time_req_msg_t and espnow_mesh_time_resp_msg_t; `offset` is the
\* true one when the controller answered.
Messages ==
    [at : Places, seqno : Nat, t1 : Nat, c1 : Int, c2 : Int, t4 : Nat, offset : Int]

TypeOK ==
    /\ build \in {"pll", "filter"} /\ now \in 0 .. MaxTime
    /\ offset \in Int /\ boot \in 1 .. MaxBoot
    /\ locked \in BOOLEAN /\ heard \in 0 .. now /\ next \in Nat /\ seq \in 0 .. MaxSequence
    /\ pending \subseteq (1 .. MaxSequence) \X (0 .. now) /\ est \in Estimates
    /\ msgs \subseteq Messages
    /\ unused \subseteq (1 .. MaxSequence) \X (0 .. now) /\ feeds \in Nat /\ span \in Nat
    /\ faults \in 0 .. MaxFaults

Init ==
    /\ build \in {"pll", "filter"} /\ now = 0
    /\ offset = Uptime /\ boot = 1
    /\ locked = FALSE /\ heard = 0 /\ next = 0 /\ seq = 0 /\ pending = {}
    /\ est = NoEstimate /\ msgs = {} /\ unused = {} /\ feeds = 0 /\ span = 0 /\ faults = 0
-----------------------------------------------------------------------------
\* Something goes wrong, or not.
Fault(bad) ==
    /\ faults' = faults + IF bad THEN 1 ELSE 0
    /\ faults' <= MaxFaults

Tick ==
    /\ now < MaxTime
    /\ now' = now + 1
    /\ Fault(msgs # {})
    /\ UNCHANGED <<build, controller, satellite, msgs, history>>

\* A DATA or HIL frame is handled by an unlocked satellite.  Such a frame of a locked
\* one would only put off DropLock, which need not come when it may.
Lock ==
    /\ ~locked
    /\ locked' = TRUE /\ heard' = now /\ next' = 0
    /\ UNCHANGED <<build, now, controller, seq, pending, est, msgs, history, faults>>

\* check_controller_timeout().
DropLock ==
    /\ locked /\ now - heard >= Timeout
    /\ locked' = FALSE /\ pending' = {} /\ unused' = {} /\ Fault(TRUE)
    /\ UNCHANGED <<build, now, controller, heard, next, seq, est, msgs, feeds, span>>

\* request_time_sync_if_due(); mesh_send() may fail.
Request ==
    /\ locked /\ next <= now
    /\ seq' = IF seq = MaxSequence THEN 1 ELSE seq + 1
    /\ next' = now + Interval
    /\ \/ /\ Cardinality(msgs) < MaxFlight
          /\ msgs' = msgs \cup {[at |-> "toController", seqno |-> seq', t1 |-> now,
                                 c1 |-> 0, c2 |-> 0, t4 |-> 0, offset |-> 0]}
          /\ pending' = {<<seq', now>>} /\ unused' = pending' /\ UNCHANGED faults
       \/ Fault(TRUE) /\ UNCHANGED <<msgs, pending, unused>>
    /\ UNCHANGED <<build, now, controller, locked, heard, est, feeds, span>>
-----------------------------------------------------------------------------
\* m moves on as n; the air may also keep a copy for a later delivery.
Moves(m, n, copied) ==
    /\ copied => Cardinality(msgs) < MaxFlight
    /\ msgs' = (IF copied THEN msgs ELSE msgs \ {m}) \cup {n}
    /\ Fault(copied)

\* The air, a full queue, the fault hooks or a failed send of the answer.
Lose(m) ==
    /\ msgs' = msgs \ {m} /\ Fault(TRUE)
    /\ UNCHANGED <<build, now, controller, satellite, history>>

\* espnow_recv_cb() on the controller, then on the satellite.
ArriveAtController(m) ==
    /\ m.at = "toController"
    /\ \E copied \in BOOLEAN :
           Moves(m, [m EXCEPT !.at = "controllerQueue", !.c1 = now + offset], copied)
    /\ UNCHANGED <<build, now, controller, satellite, history>>

ArriveAtSatellite(m) ==
    /\ m.at = "toSatellite"
    /\ \E copied \in BOOLEAN : Moves(m, [m EXCEPT !.at = "satelliteQueue", !.t4 = now], copied)
    /\ UNCHANGED <<build, now, controller, satellite, history>>

\* handle_time_request().
HandleTimeRequest(m) ==
    /\ m.at = "controllerQueue"
    /\ Moves(m, [m EXCEPT !.at = "toSatellite", !.c2 = now + offset, !.offset = offset], FALSE)
    /\ UNCHANGED <<build, now, controller, satellite, history>>

RestartController ==
    /\ boot < MaxBoot
    /\ boot' = boot + 1 /\ offset' = -now /\ feeds' = 0
    /\ msgs' = {m \in msgs : m.at # "controllerQueue"}
    /\ UNCHANGED <<build, now, satellite, unused, span, faults>>

\* The sample a response gives.
SampleOf(m) ==
    [local  |-> m.t1 + (m.t4 - m.t1) \div 2,
     mesh   |-> m.c1 + (m.c2 - m.c1) \div 2,
     offset |-> Quot((m.c1 - m.t1) + (m.c2 - m.t4), 2),
     delay  |-> (m.t4 - m.t1) - (m.c2 - m.c1)]

\* Mutant of Usable: any delay will do.
UsableAny(s) == s.delay >= 0

Usable(s) == s.delay >= 0 /\ s.delay <= MaxDelay

\* The lock, and the pending request it answers.
Answers(m) == locked /\ <<m.seqno, m.t1>> \in pending

\* What a response does to the estimate.
Feed(m) == LET s == SampleOf(m) IN
    IF Answers(m) /\ Usable(s)
    THEN /\ est' \in IF build = "pll" THEN PllUpdates(est, s) ELSE {Filtered(est, s)}
         /\ feeds' = IF m.offset = offset THEN feeds + 1 ELSE feeds
         /\ span' = IF Reacquires(est) THEN 0
                    ELSE IF Startup(est) THEN span + (est'.local - est.local) ELSE span
         /\ unused' = {}
    ELSE UNCHANGED <<est, feeds, span, unused>>

\* note_controller_activity() of a locked satellite.
Hear == heard' = IF locked THEN now ELSE heard

\* Mutant of HandleTimeResponse: the request stays pending.
HandleTimeResponseAgain(m) ==
    /\ m.at = "satelliteQueue"
    /\ msgs' = msgs \ {m}
    /\ Feed(m) /\ Hear
    /\ UNCHANGED <<build, now, controller, locked, next, seq, pending, faults>>

\* handle_time_response().
HandleTimeResponse(m) ==
    /\ m.at = "satelliteQueue"
    /\ msgs' = msgs \ {m}
    /\ pending' = IF Answers(m) THEN {} ELSE pending
    /\ Feed(m) /\ Hear
    /\ UNCHANGED <<build, now, controller, locked, next, seq, faults>>

Next ==
    \/ Tick \/ Lock \/ DropLock \/ Request \/ RestartController
    \/ \E m \in msgs :
           \/ Lose(m) \/ ArriveAtController(m) \/ HandleTimeRequest(m)
           \/ ArriveAtSatellite(m) \/ HandleTimeResponse(m)

Spec == Init /\ [][Next]_vars
-----------------------------------------------------------------------------
\* The time a reader gets: shared_clock_get_time_us() at local time t.
MeshTime(e, t) == IF build = "pll" THEN Predict(e, t) ELSE t + e.offset

HalfDelay == (MaxDelay + 1) \div 2

\* However long the messages were under way or queued, on whichever boot they
\* were answered, and however often they were copied, a sample that is used is
\* within half the largest delay of the clock it was taken from.
SampleTruth ==
    [][\A m \in msgs \ msgs' : est' # est =>
           LET s == SampleOf(m)
           IN  Abs(s.mesh - s.local - m.offset) <= HalfDelay /\ Abs(s.offset - m.offset) <= HalfDelay]_vars

\* A sample answers the last request sent under the present lock, and no request
\* is used twice: late and duplicated responses change nothing.
AnswersLatest ==
    [][\A m \in msgs \ msgs' : est' # est \/ feeds' > feeds => <<m.seqno, m.t1>> \in unused]_vars

\* How far the frequency correction alone can carry the time in t.
Drift(t) == (t * MaxFreq) \div Billion

\* How far the anchor of the estimate is from the running boot's clock.
AnchorError == Abs(est.mesh - est.local - offset)

\* Kconfig:206-208 "This handles controller reboots": once the running boot has
\* answered LockSamples + ResetAfterRejects samples, the estimate is anchored
\* to its clock, whatever was learned from the boot before.  Samples that are
\* taken without a test for outliers may add what the frequency drifts meanwhile.
Recovered ==
    build = "pll" /\ feeds >= LockSamples + ResetAfterRejects =>
        AnchorError <= HalfDelay + Outlier \/ AnchorError <= HalfDelay + Drift(span)

\* A sample of the running boot never carries the estimate, at the sample's own
\* instant, further from the controller's clock than both the estimate and the
\* sample were.
NeverWorse ==
    [][feeds' > feeds /\ est.have => \A m \in msgs \ msgs' :
           LET at == SampleOf(m).local
               Error(e) == Abs(MeshTime(e, at) - at - offset)
           IN  Error(est') <= Error(est) \/ Error(est') <= HalfDelay]_vars

\* Past startup the time read jumps, either way, by no more than the part of an
\* outlier that is applied and the change of slope since the sample, unless the
\* estimate is acquired anew.
SmallSteps ==
    [][build = "pll" /\ ~Reacquires(est) /\ ~Startup(est) => \A m \in msgs \ msgs' :
           est' # est =>
               Abs(MeshTime(est', now) - MeshTime(est, now))
                   <= Outlier \div PhaseDivisor + 2
                      + (2 * MaxFreq * (now - SampleOf(m).local)) \div Billion]_vars
=============================================================================
