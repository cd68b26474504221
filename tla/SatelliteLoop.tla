---------------------------- MODULE SatelliteLoop ----------------------------
(***************************************************************************)
(* The satellite's mesh task (espnow_mesh.c: satellite_run): the controller  *)
(* lock and its timeout, the pace of time-sync requests, and discovery:      *)
(* scanning for the registration AP, adopting its channel and associating,   *)
(* with the Wi-Fi event task that reports associations.  A controller may    *)
(* move to another channel.  Time is the wrapping millisecond clock; steps   *)
(* take no time, waits and delays do.                                       *)
(*                                                                         *)
(* Abstracted: frames are "data" (which may lock) or "other"; what they do   *)
(* besides is MeshSatellite's.  Channels are restored without failure.       *)
(***************************************************************************)
EXTENDS SerialTime, Sequences, FiniteSetsExt

CONSTANTS
    Channels, FirstChannel, Scanning,
                            \* Wi-Fi channels, the configured one, a radio that is hopping
    Timeout, Interval,      \* CONTROLLER_TIMEOUT_MS, TIME_SYNC_INTERVAL_MS
    Listen, Retry, Scan, Connect, Hold,     \* REGISTRATION_*_MS
    WaitCap,                \* the longest wait for an event, 1000 ms
    QueueLength,            \* of s_event_queue
    MaxEvents, MaxMoves     \* bounds

ASSUME LoopAssumption ==
    /\ FirstChannel \in Channels /\ Scanning \notin Channels
    /\ \A d \in {Timeout, Interval, Listen, Retry, Scan, Connect, Hold} :
           d \in Nat \ {0} /\ d + WaitCap < Half
    /\ Scan + Connect + Hold < Half         \* an attempt ends within half the clock's range
    /\ WaitCap \in Nat \ {0} /\ QueueLength \in Nat \ {0} /\ {MaxEvents, MaxMoves} \subseteq Nat

VARIABLES
    hil,            \* the build requires SoftAP discovery before a lock
    now,            \* now_ms()
    pc, wake,       \* where the task blocks ("top" when it runs), and until when
    locked, lastRx, nextSync,   \* s_have_controller, s_last_controller_rx_ms, s_next_time_sync_ms
    nextReg,        \* s_next_registration_ms
    channel, radio, \* s_mesh_channel; the channel the radio is on
    connected,      \* s_registration_sta_connected
    discovered,     \* s_hil_registration_discovered
    queue,          \* s_event_queue
    link, events,   \* the station's link; the events of it not handled yet
    home, moves,    \* the controller's channel, and how often it changed
    silence,        \* history: time since a frame was handled under this lock
    unsynced,       \* history: time since a request was sent under this lock, or the lock
    idle,           \* history: time unlocked since the start, the loss or an attempt
    joined          \* history: the station was associated once

clock  == <<hil, now>>
task   == <<pc, wake>>
lock   == <<locked, lastRx, nextSync>>
wifi   == <<link, events>>
world  == <<home, moves>>
tallies == <<silence, unsynced, idle>>
vars == <<clock, task, lock, nextReg, channel, radio, connected, discovered, queue,
          wifi, world, tallies, joined>>

\* The longest a discovery attempt waits to be due.
Pause == IF Listen > Retry THEN Listen ELSE Retry

\* A tally stops one past every bound it is compared with.
TallyLimit == 1 + Max({Timeout + WaitCap, Interval, Pause})

TypeOK ==
    /\ hil \in BOOLEAN /\ now \in Word /\ wake \in Word
    /\ pc \in {"top", "wait", "scan", "connect", "hold"}
    /\ locked \in BOOLEAN /\ lastRx \in Word /\ nextSync \in Word /\ nextReg \in Word
    /\ channel \in Channels /\ radio \in Channels \cup {Scanning}
    /\ connected \in BOOLEAN /\ discovered \in BOOLEAN /\ joined \in BOOLEAN
    /\ queue \in Seq({"data", "other"}) /\ Len(queue) <= QueueLength
    /\ link \in {"idle", "joining", "joined"}
    /\ events \in Seq({"connected", "disconnected"}) /\ Len(events) <= MaxEvents + 1
    /\ home \in Channels /\ moves \in 0 .. MaxMoves
    /\ \A t \in {silence, unsynced, idle} : t \in 0 .. TallyLimit

\* satellite_run() up to its loop.
Init ==
    /\ hil \in BOOLEAN /\ now = 0 /\ pc = "top" /\ wake = 0
    /\ locked = FALSE /\ lastRx = 0 /\ nextSync = 0 /\ nextReg = Plus(now, Listen)
    /\ channel = FirstChannel /\ radio = channel
    /\ connected = FALSE /\ discovered = FALSE /\ joined = FALSE
    /\ queue = <<>> /\ link = "idle" /\ events = <<>>
    /\ home = FirstChannel /\ moves = 0
    /\ silence = 0 /\ unsynced = 0 /\ idle = 0
-----------------------------------------------------------------------------
\* Mutant of Wait: not cut to WaitCap.
WaitLong(until) == IF Diff(until, now) <= 0 THEN 0 ELSE Diff(until, now)

\* time_sync_wait_ticks() and satellite_wait_ticks().
Wait(until) ==
    IF Diff(until, now) <= 0 THEN 0
    ELSE IF Diff(until, now) > WaitCap THEN WaitCap ELSE Diff(until, now)

\* The task blocks in xQueueReceive().
Waits(held, sync, reg) ==
    pc' = "wait" /\ wake' = Plus(now, Wait(IF held THEN sync ELSE reg))

\* check_controller_timeout(): is the lock dropped?
Lost == locked /\ Diff(now, lastRx) >= Timeout

\* Mutant of RegistrationTime: a lost lock leaves the time as it was.
RegistrationTimeKept == nextReg

\* s_next_registration_ms after check_controller_timeout().
RegistrationTime == IF Lost THEN now ELSE nextReg

\* s_next_time_sync_ms after request_time_sync_if_due().
SyncTime ==
    IF locked /\ ~Lost /\ Diff(nextSync, now) <= 0 THEN Plus(now, Interval) ELSE nextSync

\* attempt_registration_if_due() has an attempt to make.
Tries == (~locked \/ Lost) /\ Diff(RegistrationTime, now) <= 0

\* The top of the loop, down to xQueueReceive() or into a scan.
Iterate ==
    /\ pc = "top"
    /\ locked' = (locked /\ ~Lost)
    /\ nextSync' = SyncTime
    /\ nextReg' = IF Tries THEN Plus(now, Retry) ELSE RegistrationTime
    /\ IF Tries THEN pc' = "scan" /\ wake' = Plus(now, Scan) /\ radio' = Scanning
                ELSE Waits(locked', nextSync', nextReg') /\ UNCHANGED radio
    /\ silence' = IF locked' THEN silence ELSE 0
    /\ unsynced' = IF ~locked' \/ (nextSync' # nextSync) THEN 0 ELSE unsynced
    /\ idle' = IF Lost \/ Tries THEN 0 ELSE idle
    /\ UNCHANGED <<clock, lastRx, channel, connected, discovered, queue, wifi, world, joined>>

\* Mutant of SyncTimeOnLock: the time of an earlier lock stays.
SyncTimeOnLockKept == nextSync

\* The lock makes a request due at once.
SyncTimeOnLock == 0

\* note_controller_activity(), after a frame of any type.
HeardAt(held) == IF held THEN now ELSE lastRx

\* One event of the queue: handle_satellite_data() and the other handlers as
\* far as the lock goes.
Receive ==
    /\ pc = "wait" /\ queue # <<>>
    /\ queue' = Tail(queue) /\ pc' = "top"
    /\ LET locks == Head(queue) = "data" /\ ~locked /\ (hil => discovered) IN
           /\ locked' = (locked \/ locks)
           /\ nextSync' = IF locks THEN SyncTimeOnLock ELSE nextSync
           /\ unsynced' = IF locks THEN 0 ELSE unsynced
    /\ lastRx' = HeardAt(locked')
    /\ silence' = 0 /\ idle' = IF locked' THEN 0 ELSE idle
    /\ UNCHANGED <<clock, wake, nextReg, channel, radio, connected, discovered, wifi, world,
                   joined>>

\* The wait for an event ends without one.
TimesOut ==
    /\ pc = "wait" /\ queue = <<>> /\ now = wake
    /\ pc' = "top"
    /\ UNCHANGED <<clock, wake, lock, nextReg, channel, radio, connected, discovered, queue,
                   wifi, world, tallies, joined>>
-----------------------------------------------------------------------------
\* scan_for_registration_ap() finds nothing, or fails, at its start perhaps.
ScanFails ==
    /\ pc = "scan"
    /\ radio' = channel
    /\ Waits(locked, nextSync, nextReg)
    /\ UNCHANGED <<clock, lock, nextReg, channel, connected, discovered, queue,
                   wifi, world, tallies, joined>>

\* esp_wifi_disconnect(): a link that ends is reported.
Disconnected == IF link = "idle" THEN events ELSE Append(events, "disconnected")

\* Mutant of Adopted: the satellite stays on its channel.
AdoptedNone == channel

\* The channel of the AP that was found.
Adopted == home

\* The AP is found and connect_to_registration_ap() starts to associate, or fails
\* to; either way its channel is adopted.
ScanFinds ==
    /\ pc = "scan"
    /\ channel' = Adopted /\ radio' = channel'
    /\ connected' = FALSE /\ events' = Disconnected
    /\ \/ link' = "joining" /\ pc' = "connect" /\ wake' = Plus(now, Connect)
       \/ link' = "idle" /\ Waits(locked, nextSync, nextReg)
    /\ UNCHANGED <<clock, lock, nextReg, discovered, queue, world, tallies, joined>>

\* esp_wifi_disconnect(), the flag cleared and the channel restored.
Leaves ==
    /\ link' = "idle" /\ events' = Disconnected
    /\ connected' = FALSE /\ radio' = channel
    /\ Waits(locked, nextSync, nextReg)

\* Mutant of ConnectEnds: a timeout counts as a discovery.
ConnectEndsDiscovered ==
    /\ pc = "connect" /\ (connected \/ now = wake)
    /\ discovered' = TRUE
    /\ \/ connected /\ pc' = "hold" /\ wake' = Plus(now, Hold)
          /\ UNCHANGED <<link, events, connected, radio>>
       \/ ~connected /\ Leaves
    /\ UNCHANGED <<clock, lock, nextReg, channel, queue, world, tallies, joined>>

\* The wait for the association ends: it is held, or has timed out.
ConnectEnds ==
    /\ pc = "connect" /\ (connected \/ now = wake)
    /\ discovered' = (discovered \/ connected)
    /\ \/ connected /\ pc' = "hold" /\ wake' = Plus(now, Hold)
          /\ UNCHANGED <<link, events, connected, radio>>
       \/ ~connected /\ Leaves
    /\ UNCHANGED <<clock, lock, nextReg, channel, queue, world, tallies, joined>>

HoldEnds ==
    /\ pc = "hold" /\ now = wake
    /\ Leaves
    /\ UNCHANGED <<clock, lock, nextReg, channel, discovered, queue, world, tallies, joined>>

\* wifi_event_handler(), in the event task.
HandleWifiEvent ==
    /\ events # <<>>
    /\ connected' = (Head(events) = "connected") /\ events' = Tail(events)
    /\ UNCHANGED <<clock, task, lock, nextReg, channel, radio, discovered, queue, link, world,
                   tallies, joined>>
-----------------------------------------------------------------------------
\* The station associates; its link ends by itself.
Join ==
    /\ link = "joining" /\ home = channel /\ Len(events) < MaxEvents
    /\ link' = "joined" /\ events' = Append(events, "connected") /\ joined' = TRUE
    /\ UNCHANGED <<clock, task, lock, nextReg, channel, radio, connected, discovered, queue,
                   world, tallies>>

LinkEnds ==
    /\ link # "idle" /\ Len(events) < MaxEvents
    /\ link' = "idle" /\ events' = Append(events, "disconnected")
    /\ UNCHANGED <<clock, task, lock, nextReg, channel, radio, connected, discovered, queue,
                   world, tallies, joined>>

\* A frame of the controller is received and queued.
Hear(type) ==
    /\ radio \in {home, Scanning} /\ Len(queue) < QueueLength
    /\ queue' = Append(queue, type)
    /\ UNCHANGED <<clock, task, lock, nextReg, channel, radio, connected, discovered, wifi,
                   world, tallies, joined>>

\* The controller restarts on another channel.
MoveController ==
    /\ moves < MaxMoves
    /\ moves' = moves + 1 /\ home' \in Channels \ {home}
    /\ UNCHANGED <<clock, task, lock, nextReg, channel, radio, connected, discovered, queue,
                   wifi, tallies, joined>>

More(tally) == IF tally < TallyLimit THEN tally + 1 ELSE tally

\* Time passes while the task is blocked and the event task, of a higher priority,
\* has nothing to do.
Tick ==
    /\ pc # "top" /\ now # wake
    /\ events = <<>>
    /\ now' = Plus(now, 1)
    /\ silence' = IF locked THEN More(silence) ELSE 0
    /\ unsynced' = IF locked THEN More(unsynced) ELSE 0
    /\ idle' = IF pc = "wait" /\ ~locked THEN More(idle) ELSE idle
    /\ UNCHANGED <<hil, task, lock, nextReg, channel, radio, connected, discovered, queue,
                   wifi, world, joined>>

Step == Iterate \/ Receive \/ TimesOut \/ ScanFails \/ ScanFinds \/ ConnectEnds \/ HoldEnds

Next ==
    \/ Step \/ HandleWifiEvent \/ Join \/ LinkEnds \/ MoveController \/ Tick
    \/ \E type \in {"data", "other"} : Hear(type)

\* The tasks run and time passes; frames get through, a scan finds the AP, an
\* attempt associates in time and sees it, if they can be again and again.
Fairness ==
    /\ WF_vars(Step) /\ SF_vars(Tick) /\ WF_vars(HandleWifiEvent)
    /\ SF_vars(Hear("data")) /\ SF_vars(now # wake /\ Join)
    /\ SF_vars(ScanFinds /\ link' = "joining") /\ SF_vars(connected /\ ConnectEnds)

Spec     == Init /\ [][Next]_vars
LiveSpec == Spec /\ Fairness
-----------------------------------------------------------------------------
\* The lock is dropped after Timeout without a frame (Kconfig:447-451), and one
\* wait later at the latest, wherever the next request time stands.
DroppedInTime == locked => silence <= Timeout + WaitCap

\* Under a lock a time request is sent every Interval (README.md:197), unless the
\* 0 that the lock put for "at once" still lies ahead: past half the range of the
\* clock the request waits for the wrap.
RequestsOnTime == unsynced > Interval => nextSync = 0 /\ Diff(nextSync, now) >= 0

\* An unlocked satellite tries to discover the controller at least every Pause
\* that it is not trying, however long it had been locked: the time left from
\* before the lock never counts.
DiscoveryGoesOn == idle <= Pause

\* A HIL satellite accepts commands only if it was once associated with the
\* registration AP, whatever events come late.
DiscoveredByJoining == discovered => joined

\* Wherever the controller moved, the satellite is locked again and again.
Relocks == []<>locked
=============================================================================
