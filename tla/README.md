# espnow_mesh in TLA+

Models, model-checking runs and proofs for `espnow_mesh`, a one-controller,
many-satellites messaging layer over ESP-NOW. Every definition is written from
the C code in `src/src/` (line numbers below are those of `espnow_mesh.c` unless
another file is named); `PROJECT.json` maps each definition to its lines.

1. [The system](#1-the-system): components, state, operations, hard behaviours
2. [The modules](#2-the-modules): which module models what
3. [The runs](#3-the-runs): questions, bounds, fairness
4. [The proofs](#4-the-proofs)
5. [Disagreements found](#5-disagreements-found)
6. [What is only model-checked, and what is not modelled](#6-limits)
7. [Plan](#7-plan)

## 1. The system

A **controller** distributes payloads to **satellites**: the application calls
`espnow_mesh_send()`, the controller's mesh task broadcasts the payload a few
times, collects ACKs, retries by unicast those who did not answer, and publishes
an outcome. Satellites lock onto a controller, suppress duplicates, hand each
payload to a callback once, acknowledge every copy and keep a synchronised clock.

Each node runs one **mesh task**. Everything else talks to it:

    Wi-Fi task --queue_recv_event / wifi_event_handler--> s_event_queue --> mesh task
    app tasks  --espnow_mesh_send-----------------------> s_pending_payload --> mesh task
    app tasks  <--espnow_mesh_get_status------------------ s_satellites, s_controller_last_* <-- mesh task
    esp_timer  <--apply/marker timers--------------------- mesh task

| component | state | operations | where |
|---|---|---|---|
| event queue | `s_event_queue`, dropped-event count | enqueue from Wi-Fi callbacks with no wait, dequeue by the mesh task | 157-238, 300-325, 870-939 |
| send slot | `s_pending_payload`, `s_have_pending_payload` | `espnow_mesh_send`, `controller_take_pending_payload` | 2847-2877, 1741-1754 |
| controller fan-out | active sequence, `s_tx_payload`, loop variables | round begin, broadcasts, ACK handling, retry schedule, outcome | 705-1052, 1741-1817 |
| satellite table | `s_satellites[]` (MAC, last seen, expected/acked/attempts) | find or add, expire, delivery reset | 564-654, 1714-1735 |
| satellite receive path | lock, boot id, last sequence | `handle_satellite_data`, ACK, time-out of the lock | 1821-1859, 2193-2248, 2657-2771 |
| registration and discovery | `s_mesh_channel`, retry time, `s_registration_sta_connected` | scan, adopt a channel, associate, Wi-Fi events | 300-325, 2307-2494 |
| time sync | pending request, time of the next | request, response, choice of samples | 827-868, 2250-2304, 2496-2566 |
| clock estimator | anchor, frequency, best delay, counts (PLL) or offset (filter) | update, reacquire, read | `espnow_mesh_time_sync.c` |
| sync output, marker | three one-shot timers, GPIO level | arm, fire | `espnow_mesh_sync_output.c` |
| HIL plan (test build) | case index, HIL columns of the table; satellite's patch, parameter, last HIL sequence | test cases, HIL ACKs, injected faults | 1142-1704, 2569-2654 |
| HIL patches (test build) | staging area, block mask, ready flag | offer, block request, block, ready, apply | 1240-1650, 1863-2190 |
| status API | - | `espnow_mesh_get_status` | 2905-2966 |
| lifecycle | boot id, task handle | init, start, run | 2968-3052 |
| packet layer | - | framing, mesh id, HMAC | `espnow_mesh_packet.c` |

**What is hard.** Frames and ACKs are lost, repeated, and outlive the round or
the boot they belong to. Satellites appear during a round, are evicted between
rounds and come back. Either side power-cycles at any point. Both bounded queues
drop silently. The table is full. Sequence numbers and the millisecond clock
wrap. Retries race the deadline and late answers. The status call runs against
the mesh task, mostly without a lock. `PROJECT.json` lists these hazards at the
lines where they bite, with the properties that watch them.

**What makes each part correct.**

- Fan-out: an ACK is counted only for a satellite that was given *this* payload;
  `last_sequence_complete` is never claimed without that for every member; rounds
  only grow, end, and publish one outcome; effort is bounded.
- Receive path: each payload reaches the callback at most once, in sending order;
  what is swallowed as a duplicate had been delivered.
- Sequence comparison and timers: right at every value of the wrapping counters.
- HIL plan: PASS means every member applied the case; cases are applied in order,
  once; every case is reported and the plan ends.
- HIL patches: READY means the whole patch is staged; nobody applies before
  everyone is ready; what is applied is what was agreed.
- Status: entries and membership are of one instant; the outcome is exact unless
  the call overlaps its publication.
- Time sync: only the answer to the latest request of this lock is used, once, and
  such a sample is as good as its delay is short; samples improve the estimate; a
  controller that restarts with its clock at zero is followed again.
- Lock and discovery: a silent controller is dropped in time, requests and scans
  keep their pace through the wrap of the clock, and a controller that moved to
  another channel is found.
- Outputs: each applied case has its marker, once and in time; the square wave is
  the shared clock's.

## 2. The modules

| module | models | extends |
|---|---|---|
| `EventQueue` | bounded FIFO in front of a mesh task: drop when full, loss before it | |
| `MeshAir` | the queues of all nodes and the shapes of the messages | `EventQueue` |
| `MeshController` | `controller_run`, table, send slot, power cycle | `MeshAir` |
| `MeshSatellite` | `satellite_run` as far as DATA is concerned, power cycle | `MeshAir` |
| `ReliableFanout` | both together; the properties of the protocol; fairness | the two above |
| `FanoutService` | abstract: what the applications are promised | |
| `MCReliableFanout` | TLC instances (symmetry, one satellite while nodes restart) | `ReliableFanout` |
| `ReliableFanout_proofs` | theorems, the refinement of `FanoutService` among them | `ReliableFanout` |
| `SerialTime` | wrapping words: +, signed difference, `seq_is_duplicate` | |
| `SequenceWrap` | numbering and deduplication through the wrap | `SerialTime` |
| `RetryTimers` | both retry loops on a small wrapping clock | `SerialTime` |
| `SatelliteAges` | `last_seen_ms` on that clock: whom the table drops, what ages a status reports | `SerialTime` |
| `MCSerialTime` | TLC instance of `SequenceWrap` and of `SatelliteAges` | both |
| `SerialTime_proofs` | theorems on the three | all three |
| `HilPlan`, `MCHilPlan`, `HilPlan_proofs` | HIL discovery, commands, ACKs, results | `EventQueue` |
| `PatchTransfer`, `MCPatchTransfer`, `PatchTransfer_proofs` | HIL patch offers, blocks, ready, apply; the refinement of `PatchService` | `EventQueue` |
| `PatchService` | abstract: what patch distribution promises the test bench | |
| `StatusSnapshot`, `StatusSnapshot_proofs` | `espnow_mesh_get_status` against the mesh task, one shared access per step | |
| `PllClock` | the estimator: a sample's effect on it, in the PLL and in the filter build | |
| `TimeSync`, `TimeSync_proofs` | request and response over the air, restart of the controller | `PllClock` |
| `SatelliteLoop`, `SatelliteLoop_proofs` | `satellite_run` as far as lock, pace and discovery are concerned, with the Wi-Fi event task | `SerialTime` |
| `OutputTimers`, `OutputTimers_proofs` | marker and square wave: three timers, the esp_timer task, the mesh task that arms them | |

**Granularity.** The mesh task is single-threaded and everything it does between
two waits is one action; `phase` names the wait (or the head of a loop). A
callback is one enqueue. `espnow_mesh_send` is one step, because it holds its
lock throughout. `StatusSnapshot` alone goes below this, as that code does not
lock: one step per access to a shared variable, in statement order. In
`SatelliteLoop` an action runs from one blocking call (`xQueueReceive`, the scan,
the polling of the association, the hold) to the next; in `OutputTimers`,
`hil_schedule_apply_marker` is three steps (read the clock, stop, start), because
the esp_timer task runs in between.

**Correspondence, fan-out.** `LoopTop` is the head of `controller_run`
(`expire_stale_satellites`, take the slot, `begin_reliable_sequence`);
`Broadcast`/`BroadcastDrainEnds` a turn of the broadcast loop; `RetryPass`,
`RetryDrainEnds`, `RetryEnds` the loop `reliable_retry_until_done_or_deadline`;
`Finish` the four outcome assignments; `IdleDrainEnds` the two waits outside a
round; `HandleEvent` an event taken by any of the drains. The satellite table is
kept as one set or function per field. On the satellite, `HandleData` is
`handle_satellite_data` with both ends: `Accept`, and `PeerFailed`, where
`add_peer_if_needed` fails after lock and boot id have been taken over.

**Correspondence, clock.** In `TimeSync` the satellite's clock is `now` and the
controller's `now + offset`. A message carries its stamps as they are taken, where
the code takes them: `t1` and `c2` by the tasks that send, `c1` and `t4` by the
receive callbacks, so the wait in a queue counts like time in the air.
`handle_time_response` is `HandleTimeResponse`, with its three tests in `Answers`
and `Usable`, and the estimator behind it is chosen by `build`. A residual whose
product with 10^9 does not fit 64 bits (`time_sync.c:136`, reachable while the
estimator starts up and the controller restarts after more than 2.5 hours) leaves
the frequency open.

**Correspondence, ages.** In `SatelliteAges`, `Add` and the first `Touch` are
`find_or_add_satellite` before and after it seeds `last_seen_ms` (639), every later
`Touch` a handler that writes it (664, 764, 839), `LoopHead` is
`expire_stale_satellites`; `ReadClock` and `CopyTable` are the two places of
`espnow_mesh_get_status` (2931 and 2933-2957) between which the mesh task may run.

**Correspondence, loop.** `Iterate` is the head of the loop with
`check_controller_timeout`, `request_time_sync_if_due` and the start of
`attempt_registration_if_due`; `Receive` and `TimesOut` the two ends of
`xQueueReceive`; `ScanFails`/`ScanFinds` the end of the scan, `ConnectEnds` and
`HoldEnds` the rest of `connect_to_registration_ap`. The station's link and the
event task are processes of their own (`Join`, `LinkEnds`, `HandleWifiEvent`).

**Correspondence, outputs.** `HandleCopy`, `StopApply`, `StartApply` are
`hil_schedule_apply_marker`, called for a command only when it is not a duplicate
and for a PATCH_APPLY on every copy; `Fire` is the esp_timer task taking a timer
off its list, and `MarkApply`, `MarkOff`, `SyncOutput` are the callbacks.

**Time.** Where only the order of events matters, a wait may end whenever it
likes: a scheduled retry may be due at any pass, any entry may be stale at the
loop head, the lock may time out at any time. (`SatelliteAges` has the arithmetic
of staleness: a stamp per satellite, the clock, and the head of the loop at most
`Gap` ms apart, as rounds and idle waits are bounded.) What remains of time is a
countdown to the deadline, which a wait in the retry loop must shorten
(`wait_until_ms` is at least `current_ms + 1`). The arithmetic that this leaves
out is `RetryTimers`. `SatelliteLoop` keeps the wrapping millisecond clock itself,
`TimeSync` and `OutputTimers` a clock in coarse units; there steps take no time
and only waiting does.

**Data.** A payload is the number of the `espnow_mesh_send` call that supplied
it. A boot id is fresh at each boot (in the code, a random 32-bit number, so
this takes two boots not to draw the same one). Frames that fail the packet
layer's checks are lost frames. Send-status events only log, so they are the same
as frames lost to a full queue. One controller: a second one on the same mesh id is not
modelled, so the lock is a flag.

**History variables** exist for properties only: `accepted`, `issued`, `log`,
`got`, `last.members`, `last.payload`; `results`, `applied`, `ever`; `agreed`,
`fetched`; `outcomes`, `quiet`; `start`; `newest`; `unused`, `feeds`, `span`; `silence`,
`unsynced`, `idle`, `joined` of `SatelliteLoop`; `silence`, `asked`, `heard` of
`SatelliteAges`; `last`, `blind`, `pulses`, `stepped` of `OutputTimers`.

## 3. The runs

Deadlock is checked except in `clock` and `outputs`, whose time ends at a bound:
elsewhere some step is always possible, since a mesh task that has nothing to do
still wakes up.

| run | question | instance |
|---|---|---|
| `fanout_members` | Is completion backed by a delivery to every member, with late joiners, evictions and ACKs of the round before; do rounds only grow? | 2 satellites, 2 slots, 2 sends, 1 broadcast + 1 unicast attempt, queues of 1 |
| `fanout_ends` | Do ACK counting, deduplication, effort and the refinement of `FanoutService` (order, at most once) survive power cycles of both sides and a full table; does every round end and the slot drain? | 2 satellites for 1 slot in one round; 1 satellite, 2 boots, 1 power cycle, 2 sends, 2 broadcasts + 1 unicast pass |
| `hil_commands` | Does PASS mean that every member applied the case, does an ACK report what its case set, are cases applied in order and once; does the plan end? | 2 satellites in one boot; 1 satellite with queues of 2, 2 boots, 1 power cycle; 2 cases (select, set), every command sent twice |
| `hil_pass_after_restart` | PASS after a restart of the controller (violation, section 5) | 1 satellite, 2 boots |
| `patch_cases` | Is READY true and of this boot, what is reported had in full, the apply of what is staged, `PatchService` (apply after ready, in order) implemented; do the patch cases end? | 2 satellites in one boot; 1 satellite, 2 boots, 1 power cycle; 2 patches of 2 blocks |
| `snapshot_table` | Is a status call's table one that existed, and when is its outcome exact? | 2 MACs, 2 slots, 2 rounds |
| `serial_numbers` | Does deduplication decide by age through the wrap; does the table drop exactly the silent, and are the ages in a status true, wherever the clock wraps? | 4-bit numbers, 34 rounds, silence up to 6 rounds; 4-bit clock, 1 satellite |
| `retry_timers_punctual` | Does a retry loop ever sleep through a retry that is due? | 5-bit clock, every start, 2 nodes, 2 attempts |
| `retry_timers_wrap` | The same for the fan-out loop in a round that meets the wrap, no retry lying at exactly `UINT32_MAX` (violation) | as above |
| `clock` | Which samples are used, how good are they, what do they do to the time read, and is a restarted controller followed? | both builds, 2 boots, 2 messages under way, 3 faults (losses, copies, ticks of delay, failed sends, lost locks), 5 instants, locks dropped after 2 |
| `loop` | Does the loop lose, pace and find its controller again, at every position of the clock? | clock of 10 values, 2 channels, 1 move, both builds (with and without the SoftAP gate) |
| `outputs` | Does each case get its marker, once and in time; does the square wave follow a clock that steps? | 3 builds, 3 cases, 2 steps of the clock, 36 instants |

**Why these bounds are enough to be interesting.** The errors to be feared relate
one round (or boot) with the one before: two rounds or two boots are the first
instance in which an old ACK or frame can meet a new round. Completion, late
joining and eviction relate one satellite to another: two. One slot for two
satellites fills the table; a queue of one drops the second event, and since
loss is arbitrary too, longer queues add only orders of events, which
`hil_commands` has with queues of two. Two patches are needed for a staging
area with blocks of another patch, two blocks for a partial transfer. Four bits
leave room for the half-range comparison and two wraps; five for a backoff that
doubles up to its cap before the deadline. Two messages under way let a response
meet a newer request or its own copy; five instants let a controller be heard,
restart, be rejected twice and be acquired again, and a lock be lost and taken
again between two responses. The clock of `loop` wraps within
one lock, and every interval and time-out is below its half range, as the real
ones are. The entries of the table do not touch each
other's stamps, so `serial_numbers` has one; its clock wraps while the entry is
heard, silent, evicted and back, and while a status call is preempted. Two channels
and one move are the case the discovery exists for.
Two steps of the clock hit a marker between two of its copies and the square wave
between two transitions. Where there are theorems (section 4) they hold without
these bounds.

`MaxBoot`, `MaxSend`, `MaxCrash`, `MaxRound`, `Lag`, `MaxFlight`, `MaxFaults`,
`MaxEvents`, `MaxMoves`, `MaxCases`, `MaxSteps` and `MaxTime` are bounds of the
models; all other constants are Kconfig options or properties of the installation,
in scaled-down units where they are times.

**One satellite while nodes restart.** Several satellites and restarts of both
sides multiply the states. The specifications `EndsSpec`, `PlanSpec` and
`PatchSpec` of the MC modules have both, one at a time: several satellites in one
boot, or power cycles with one satellite. They cut steps of the environment only
(who hears, sends, times out or power cycles; in `PatchSpec` the satellites take
part in a fixed order, only a lone one loses its lock, and it power cycles before
its controller does) and never a step of the mesh task, so the fairness of that task means the same as in the full
specification. The theorems of section 4 are about the full one.

**Symmetry** over satellites is used in `fanout_members` alone: no initial value,
constant or action singles out a satellite, and this run checks safety only.

**Fairness** in the fan-out, HIL and patch modules is assumed only for steps the
mesh task takes by itself: FreeRTOS schedules it again after a bounded wait, and
every wait has a time limit (`xQueueReceive` with the time left). Nothing is
assumed about the air, the satellites, the application, or even about the
handling of queued events, which may always come too late for the wait they fall
in. `RoundEnds` and `SlotDrains` therefore rest on the deadline and the attempt
limit alone. The plans' `<>[](phase = "done")` holds because the number of
restarts is bounded. `SatelliteLoop` assumes more, as finding a controller needs
the radio: the tasks run and time passes (weak, and strong for `Tick`, which the
event task may interrupt for ever); and, strongly, that frames get through, that
a scan finds the AP, that an association succeeds within its time-out and is seen
by the polling, each if it could again and again. Without the last two a
satellite behind the SoftAP gate need not lock, however often it scans.

**Mutants.** Each property of a passing run is paired with a wrong version of one
definition ("Mutant of ..." next to the definition) that the run detects: an ACK
counted without its boot id, a comparison off by one, a reset forgotten, a flag
set too early, and so on.

**Not listed by a run.** `TypeOK` of the modules, `DeliveredOnceInOrder`,
`StagedMeansWhole`, `AppliedTogether`, `RoundRunsOut`, `PlanRunsOut` and
`PatchesRunOut` were checked by TLC on these instances before they were proved
(section 4), and the runs do not repeat them. The second and the fourth follow from
the refinements the runs do check, the third is a part of `ReportsWhatItHas`.

**Two models in one run.** `SequenceWrap` and `SatelliteAges` share the word they
wrap in and nothing else; `MCSerialTime` has the behaviours of the one and of the
other, never a step of both.

## 4. The proofs

Checked by TLAPS for every value of the constants that satisfies the modules'
`ASSUME`s, and without the bounds of the runs: boots, sends, power cycles, cases,
messages under way and steps are arbitrary naturals. Every safety property of the
passing runs is a theorem.

**The argument** is the same everywhere: a property is seldom inductive, so it is
strengthened to an invariant that also says why it will hold after the next step;
`Init` implies that invariant, every action keeps it (one step of the proof, or one
lemma, per action), and it implies the property. An action property follows from the
invariant and the actions. The invariants of this sort (`OrderInv`, `PlanInv`,
`PatchInv`, `SnapshotInv`, `LoopInv`, `OutputInv`, `RetryInv` and so on) were checked
by TLC on the instances of section 3 before they were proved; they stand in the proof
modules.

**Assumptions.** Finite set of satellites; positive queue length, table size, retry
counts and periods. Beyond that:

| assumption | module | why the code justifies it |
|---|---|---|
| `Timeout > 0`, `MaxSequence >= 2` | `TimeSync` | a time-out of 0 compiles the check out, and then no lock is dropped; the number has 32 bits |
| `Lag + 1 < Half` | `SequenceWrap` | a satellite that misses 2^31 rounds is out of scope of a 32-bit number |
| `Expire + Gap < Half` | `SatelliteAges` | Kconfig: at most an hour, and a round of minutes, against 2^31 ms |
| `Deadline + MaxBackoff + Jitter + 1 < Half` | `RetryTimers` | seconds, against 2^31 ms |
| every interval and time-out below `Half`, and `Scan + Connect + Hold < Half` | `SatelliteLoop` | Kconfig limits them to minutes, against 2^31 ms |
| `PatchSpan + MaxSkew + Least < ApplyDelay`, `ApplyDelay + MaxSkew < Gap` | `OutputTimers` | the defaults; a configuration without the first pulses twice (section 5) |
| `Fallback < Gap` | `OutputTimers` | 100 ms against the gap of 1600 ms; Kconfig's least gap is 100 ms, where the next case may stop the timer of a satellite without a clock |
| `Least <= Recheck`, `High < Period` | `OutputTimers` | 100 us against 10 ms, both literals; Kconfig asks for the second |

### Fan-out (`ReliableFanout_proofs`)

- `TypeCorrect`: not just types: it contains `acked \subseteq expected \subseteq
  used` and `scheduled \subseteq expected`.
- `DeliveryInvariant`, and from it `AckedDelivered` and `CompleteDelivered`.
  `AckedMeansDelivered` is not inductive: the ACK that will be counted is still in
  the queue, and whoever sent it did so because of a frame or of what it remembered.
  The strengthening follows that chain backwards. `AcksTellTheTruth`: an ACK in the
  queue that names the active round of this boot comes from a satellite that has been
  given its payload. `SatellitesNotAhead`: a satellite that remembers the active
  number has been given its payload (so that the ACK of a duplicate is true as well).
  `FramesCarryRoundPayload`: a frame with the active number carries the active
  payload. All three also say that nothing in the air or in a memory is newer than
  the active round, so a new round or a new boot starts with no ACK, frame or memory
  that names it.
- `OrderInvariant`, and from it `OnceInOrder` and `DuplicatesDelivered`. That a
  callback sees every payload once and in order needs every copy that may still
  arrive to be compared with what the satellite remembers *and* with what it has
  delivered, which differ after a failed `add_peer_if_needed` or a lost lock
  (`Ahead`); the copies in one queue with each other (`InOrder`); and every copy with
  the round now active (`Sent`), so that the next round is newer than all of them.
- `EffortIsBounded` from `EffortInv`, which relates the attempts of every satellite
  to the turn of the broadcast loop. `RoundsOnlyGrow`, an action property.
- `RoundsRunOut`, the part of `RoundEnds` that is a safety property: `TurnsLeft`, a
  natural number (`TurnsAreNat`), falls with every step of the mesh task in a round
  and with no other step rises. What is left to TLC is that those steps come.
- `RefinesService`: the composed protocol implements `FanoutService`. The lemmas
  `ControllerRefines` and `SatelliteRefines` map each action to one of the service
  or to a stutter: `Finish` to `Report`, which may say complete because of
  `DeliveryInv`, and `HandleData`, when it calls back, to `Deliver`, which is in
  order because of `OrderInv`.

### Serial numbers and retry clocks (`SerialTime_proofs`)

- `Numbering`, `DedupIsByAge`: `NumberingInv` says that two rounds at most `Lag`
  apart carry numbers as far apart as the rounds, modulo the word and the skipped 0;
  with it the signed difference has the sign of the difference in age. This is
  exactly where a satellite that has been silent for half the range would fail.
- `RetryInvariant`, `HilNeverOversleeps`, `FanoutOversleepsOnlyAtWrap`: every time a
  retry loop compares is the time of its entry plus less than half the range
  (`RetryInv`), and such times keep their distance under the signed difference
  (`DiffOfPlus`). The minimum that the HIL loop takes exists (`LeastNumber`) and no
  retry precedes it. The fan-out loop's unsigned minimum is the same one as long as
  the round, with every retry it may schedule, ends before the largest value of the
  clock, which also stands for "none": the defect of section 5 needs the wrap.

- `AgesInvariant`, and from it `EvictionIsRight` and `AgesAreExact`. A stamp lies
  its satellite's silence before the clock (`StampsTrue`), and before `current_ms` for
  as long as a status call holds that (`ReadingTrue`), unless the stamp was written
  since. Silence stays below half the range because the loop's head comes every `Gap`
  ms and evicts whoever reached `Expire`; there the signed difference is the silence
  (`MinusFacts`). The unsigned age in the status is exact for the same reason, and
  wrong for the entries the theorem excludes (section 5).

### HIL plan and patches (`HilPlan_proofs`, `PatchTransfer_proofs`)

- `AppliedOnceInOrder` (`OrderInv` of `HilPlan`): commands queue in the order they
  were sent, and whatever a satellite applied is at most what it remembers by boot
  and number.
- `PlanInvariant`, and from it `PassBacked`, `AcksReportTheirCase` and
  `PassTrueInFirstBoot`. A result rests on an ACK, an ACK on a memory, a memory on an
  application, possibly of an earlier boot: `PlanInv` says what each says of the case
  it names. `PassTrueInFirstBoot` is the property that `hil_pass_after_restart`
  refutes, under the hypothesis that the controller has not restarted: the defect
  has no other way in.
- `PlanKeepsMoving` and `PatchesKeepMoving` are the counterparts of `RoundsRunOut`:
  a step of the controller's task takes a turn or begins the next case, never one
  after it, and no satellite can give a turn back.
- `PatchInvariant`, and from it `StagedWhole`, `ReadyTrue`, `AppliedTogetherHolds`;
  `StagedIsApplied` needs types only. `PatchInv` says to which offer the staging
  area, the blocks under way, the READYs and the applies belong, and that whoever
  said READY of an offer has fetched it whole; `agreed`, a history of the transfers
  that ended with everyone ready, carries this to the satellites that apply.
- `ReportsTrue`, which has `StagedWhole` in it: the patch number in the HIL ACKs, set
  before an apply, names only what was fetched whole, and while that is ready, it.
- `RefinesService`: the transfer implements `PatchService`, which adds an order to
  `AppliedTogether`. `CommitInv` says that what was decided lies behind the controller
  or is the case it is applying (`AgreedPast`), so that a case is decided once; and
  that the applies waiting in a satellite's queue come in the order of boots and
  cases, none older than what it has scheduled (`AppliesInOrder`), so that a queue
  that outlives a restart of the controller leads nobody back.

### Status (`StatusSnapshot_proofs`)

`SnapshotInvariant`, and from it `NoTornEntry`, `ListingIsCut`, `OneUnseen`,
`QuietOutcomeExact`. The first part of `SnapshotInv` is mutual exclusion in the
critical sections (`LockHeld`); the second relates what the reader has copied to the
table it copies, slot by slot of the loop; the third says how far the four
unprotected outcome assignments have come, and that a call that is still `quiet` has
never been between its reads while the mesh task was between its assignments.

### Time (`TimeSync_proofs`)

- `LatestAnswered`. `LatestInv`: the pending request is one that was sent under this
  lock and has not been used, because losing the lock clears it with the lock, and
  using it clears it first.
- `SamplesTrue`. `StampInv` reads every stamp on the satellite's clock and orders
  them along the message's way: `t1`, then `c1`, `c2`, `t4`, then now. `c1` and `c2`
  are of the same boot because a restart empties the controller's queue. With the
  stamps in order, a round trip of `delay` leaves either leg between 0 and `delay`,
  and half of it is the error (`SampleIsClose`, on the rounding of C's division,
  `HalfOfSum` and `HalfOfInterval`).
- `SamplesNeverWorsen`, `StepsAreSmall`, for any gains, divisors and limits. Both
  need that a sample is newer than the anchor it is measured against (`EstInv`: the
  anchor lies in the past, and the pending request was sent after it). The rest is
  arithmetic on truncating division (`DivFacts`, `QuotShrinks`, `QuotBetween`,
  `SlopeChange`): a part of a residual lies between 0 and the residual, and a change
  of slope moves the time read by its product with the time since the anchor, and
  by at most two units of rounding.
- `RecoversAfterRestart`. After a restart the estimate is of the old clock, and
  which samples have been of which clock is not recorded. `RecoverInv` counts: an
  estimate whose anchor may still be of the old clock (`Unsettled`) has accepted and
  rejected more samples since it was acquired than the running boot has answered;
  otherwise it is `Anchored`. A sample moves both counts, a reacquire makes the
  estimate the new clock's, and past startup more than `ResetAfterRejects` rejects
  are a reacquire, so after `LockSamples + ResetAfterRejects` answers the first
  disjunct is impossible. It takes `AnsweredInv`: once the running boot has
  answered a sample, whatever answers the pending request is of that boot, so that
  `feeds` counts the running boot's. For that no two requests may share number and
  stamp (`RequestsDiffer`): a lock is dropped `Timeout` after it was taken and not at
  once, so that at most two requests are sent at one instant, and numbers repeat only
  after `MaxSequence >= 2`. The bound is the
  error of a sample (`HalfDelay`) plus what the estimate may be off when a sample
  is taken: an outlier's threshold, or, while it starts up and takes samples
  without that test (`time_sync.c:110-115`), what the frequency drifts over the time
  those samples span (`Drift(span)`, by `SlopeWithinDrift` and `DriftAdds`). With the
  defaults (100 ppm against 3 ms) that is the smaller of the two unless the startup
  takes longer than 30 s.

### The satellite's loop (`SatelliteLoop_proofs`)

`LoopInvariant`, and from it `LostInTime`, `RequestsPaced`, `DiscoveryPaced`,
`JoinedBeforeDiscovered`. The properties are about real time (`silence`, `unsynced`,
`idle`, which only count), the code about wrapping stamps. `LoopInv` says that a
stamp agrees with real time for as long as a decision depends on it (`SilenceTold`,
`RequestPlanned`, `AttemptPlanned`), and that no wait reaches past the moment at which
the task must look again, including the seconds it spends in a scan or an association,
during which the planned time of the next attempt falls behind `now` by no more than
the attempt takes; this is the use of `Scan + Connect + Hold < Half`.

### Outputs (`OutputTimers_proofs`)

`OutputInvariant`, and from it `OnePulseAtMost`, `EveryCaseMarked`, `MarkedOnTime`,
`WaveIsTheClocks`. A pulse is on its way from a frame (`HandleCopy` to `StartApply`)
to a timer, to a callback, to the pin. `PulseDue` says that an accepted case is at
one of these places, `OnePulse` that it is at one only, `PatchWaits` that the pulse
of a patch scheduled by a clock comes after the last copy could, `OnTime` that the
times are the ones asked for, and `CaseInv` that whatever is pending is due within a
gap of the last frame, so that the next case finds nothing. For the square wave
`WaveSet` names the instant at which the level was set; from there the timer reaches
to the next transition, up to which the remainder does not pass the period
(`PhaseFacts`, `LevelHolds`).

## 5. Disagreements found

Shown by a run:

- **A PASS for a case nobody applied** (`hil_pass_after_restart`).
  `handle_satellite_data` takes over a new boot id but clears only
  `s_have_last_sequence` (2683-2688). The controller's discovery loop sends DATA
  before the first command, so after its restart `s_last_hil_sequence` of the old
  boot still filters the new commands (2614); the satellite ACKs case 1 as a
  duplicate and the controller reports PASS.
- **A retry slept through at the clock wrap** (`retry_timers_wrap`).
  `send_due_unicast_retries` picks the earliest retry with an unsigned minimum
  (1020), against the wrap-safe ordering that `espnow_mesh_priv.h:16-17` asks for.
  With one retry due before the wrap and another past it, the minimum is the one
  past the wrap, and the loop waits for that (or for the deadline, if it is nearer).
  Effect: in one round in 49 days a retry is late by the distance to the other one,
  or is not sent at all if that one lies past the deadline, where the round ends.

Noted while modelling, kept in the models, without a run of their own:

- The same minimum starts from `UINT32_MAX` for "no retry" (989), which is also a
  time: if every retry left is due at that very millisecond, the loop sleeps to the
  deadline (1043-1046) and sends none of them.
  `FanoutPunctual` sets this case aside, so that its run shows the one above.
- `README.md:117-118` describes `ESP_ERR_NO_MEM` "while a prior payload is still
  in flight"; the slot is free as soon as the round begins (1748), which
  `espnow_mesh.h:141-142` says correctly.
- `Kconfig:77-78` calls `RELIABLE_MAX_ATTEMPTS` the total, broadcasts included;
  the broadcast loop ignores it, so the bound is the larger of the two settings.
  `BoundedEffort` is stated that way.
- `s_current_patch_id` is set when the last block is staged (2150), and reported
  as in force, although `README.md:208-211` has the satellites apply only after
  the apply command. `ReportsWhatItHas` bounds the error: the patch it names was
  fetched whole and, if it is still staged, is the one staged.
- A status that overlaps the four unlocked outcome assignments (1808-1812) can
  pair a new `last_sequence` with an old `last_sequence_complete`, although
  `espnow_mesh.h:145-146` offers the pair as the way to observe an outcome (132-134
  warn that counters may lag). `OutcomeExactWhenQuiet` shows the window is no wider.
- `espnow_mesh.h:133-134` says satellite entries are always seen fully
  initialised; `last_seen_ms` of a new entry is seeded after the critical section
  (639), and a status in between reports it as never seen. `AtMostOneUnseen` bounds
  it to the entry just added.
- `espnow_mesh.h:43` promises the milliseconds since the last frame, with `UINT32_MAX`
  for "never". `espnow_mesh_get_status` reads `current_ms` (2931) before it takes the
  table's lock (2933); if the mesh task hears a satellite in between, a millisecond or
  more later, `current_ms - last_seen_ms` (2951) wraps, and the satellite heard just
  now shows as never heard or silent for 49 days. `AgesExactUnlessHeard` confines this
  to the entries written during the call; reading the clock inside the critical
  section would do away with it.
- `espnow_mesh.h:118` promises a "monotonic time base shared across the mesh";
  an accepted sample with a negative residual sets the estimate back
  (`time_sync.c:131-147`), and a reacquire sets it anywhere. `SmallSteps` says how
  far it may go in normal running.
- `README.md:197` has satellites send time-sync requests periodically. A lock sets
  `s_next_time_sync_ms = 0` for "at once" (2676), which lies in the future once the
  uptime has passed 2^31 ms: the first request of a lock taken then waits for the
  wrap, up to 24.8 days. `RequestsOnTime` is stated with this exception.
- `docs/hil-testbench.md:35` counts one marker pulse per case. Copies of
  PATCH_APPLY are not deduplicated (2173-2190); a satellite without a clock
  schedules each of them 100 ms ahead, and pulses again for a copy that comes later
  than that. `AtMostOnePulse` excepts this case.
- Kconfig allows an apply delay (100 ms) shorter than the time the copies of a
  PATCH_APPLY take (5 x 120 ms); then the last copies come after the apply time and
  pulse again. `OutputAssumption` asks for a longer delay, as the defaults have it.

## 6. Limits

Model-checked only:

- liveness (`RoundEnds`, `SlotDrains`, `PlanCompletes`, `PatchPlanCompletes`,
  `Relocks`): fairness and ENABLED are beyond the prover. Of the first, the third
  and the fourth the part that is a safety property is proved (`RoundsRunOut`,
  `PlanKeepsMoving`, `PatchesKeepMoving`); of `Relocks` only that the satellite keeps
  looking (`DiscoveryPaced`), for whether it finds is up to the radio;
- the two disagreements that section 5 shows by a run, as counterexamples.

Simplified:

- `TimeSync`: both clocks run at the same rate, so the frequency term only ever
  follows noise and restarts; the satellite does not restart (its estimate and its
  pending request would start afresh); the time-out of
  the lock counts from the frame that took it or the last time response: other frames
  only put it off, and a lock need not be dropped as soon as it may be; the product of elapsed time and frequency (`time_sync.c:62`), which needs months
  without a sample to overflow, does not.
- `SatelliteAges`: the copy of the table is one step, and one status call is under way
  at a time; `SATELLITE_EXPIRE_MS = 0` and the HIL build, which evict nobody, are left
  out (there an age wraps after 49 days of silence).
- `SatelliteLoop`: restoring the channel does not fail; frames are of two sorts.
- `OutputTimers`: handlers take no time; the error of the clock is bounded by
  `MaxSkew` once it is ready. A clock that is wrong by more (the samples after a
  restart of the controller) moves a marker by as much.

Not modelled:

- a second controller on the same mesh, and two boots drawing the same boot id;
- packet framing, mesh id and HMAC: a stateless filter, whose rejects are lost
  frames; byte layouts;
- the counters of a running round in the status, and the status of a satellite;
- Wi-Fi, NVS, GPIO and timer initialisation, which abort the program on failure;
- the examples, the host tests, and the repository's own earlier TLA+ sketches,
  which were not used.

## 7. Plan

Done: the fan-out with its abstract service, its serial arithmetic and retry clock,
the HIL plan, the patch transfer with its abstract service, the status call and the
ages it reports, the time-sync exchange with both estimators, the satellite's loop
with discovery, the timers of the outputs. Every component with state of its own has
a module, every safety property of the passing runs a theorem, both abstract services
a proof of their refinement.

Left: the liveness properties as theorems, which needs a prover that reasons about
ENABLED; and models for what section 6 leaves out, a second controller on the same
mesh first.
