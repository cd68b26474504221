---------------------------- MODULE SatelliteAges ----------------------------
(***************************************************************************)
(* last_seen_ms of the satellite table on the wrapping millisecond clock:    *)
(* whom expire_stale_satellites() evicts, and the last_seen_ms_ago that      *)
(* espnow_mesh_get_status() computes on another task from a clock it reads   *)
(* before it copies the table (espnow_mesh.c).                              *)
(*                                                                         *)
(* Abstracted: every frame of a satellite counts, every satellite finds a    *)
(* slot, and the copy of the table is one step (StatusSnapshot takes it      *)
(* apart).  Silence is counted without a wrap next to the stamps, which       *)
(* shows what the stamps should say.  SATELLITE_EXPIRE_MS = 0, which keeps    *)
(* every satellite for ever, is left out.                                   *)
(***************************************************************************)
EXTENDS SerialTime

CONSTANTS
    Sats,
    Expire,     \* CONFIG_ESPNOW_MESH_SATELLITE_EXPIRE_MS
    Gap         \* the longest time from one pass of controller_run's head to the next

ASSUME AgesAssumption ==
    /\ Expire \in Nat \ {0} /\ Gap \in Nat \ {0}
    /\ Expire + Gap < Half

VARIABLES
    clock,      \* now_ms()
    since,      \* ms since the head of controller_run's loop
    members,    \* the slots in use
    fresh,      \* those whose last_seen_ms is not seeded yet
    stamp,      \* last_seen_ms
    silence,    \* history: ms since the last frame
    call,       \* the status call: "none", "read" once it has current_ms, "done"
    current,    \* its current_ms
    asked,      \* history: silence at that moment
    heard,      \* history: whose last_seen_ms was written since, or was not seeded
    ages        \* last_seen_ms_ago of every entry it lists

tableVars == <<members, fresh, stamp, silence>>
callVars  == <<call, current, asked, ages>>
agesVars  == <<clock, since, tableVars, callVars, heard>>

AgesTypeOK ==
    /\ clock \in Word /\ since \in 0 .. Gap
    /\ members \subseteq Sats /\ fresh \subseteq members
    /\ stamp \in [Sats -> Word] /\ silence \in [Sats -> Nat]
    /\ call \in {"none", "read", "done"} /\ current \in Word
    /\ asked \in [Sats -> Nat] /\ heard \subseteq Sats
    /\ DOMAIN ages \subseteq Sats /\ ages \in [DOMAIN ages -> Word]

NoAges == [s \in {} |-> 0]

\* The mesh task starts after esp_timer.
AgesInit ==
    /\ clock = 1 /\ since = 0
    /\ members = {} /\ fresh = {}
    /\ stamp = [s \in Sats |-> 0] /\ silence = [s \in Sats |-> 0]
    /\ call = "none" /\ current = 0 /\ asked = silence /\ heard = {} /\ ages = NoAges
-----------------------------------------------------------------------------
(* The mesh task. *)

\* A millisecond passes; rounds and waits are bounded.
Tick ==
    /\ since < Gap
    /\ clock' = Plus(clock, 1) /\ since' = since + 1
    /\ silence' = [s \in Sats |-> IF s \in members THEN silence[s] + 1 ELSE 0]
    /\ UNCHANGED <<members, fresh, stamp, callVars, heard>>

\* find_or_add_satellite() of an unknown satellite, up to the end of its critical
\* section.
Add(s) ==
    /\ s \notin members /\ fresh = {}
    /\ members' = members \cup {s} /\ fresh' = {s}
    /\ heard' = heard \cup {s}
    /\ UNCHANGED <<clock, since, stamp, silence, callVars>>

\* `last_seen_ms = now_ms()`, when a new entry is seeded and in every handler.
Touch(s) ==
    /\ s \in members /\ fresh \subseteq {s}
    /\ fresh' = {}
    /\ stamp' = [stamp EXCEPT ![s] = clock] /\ silence' = [silence EXCEPT ![s] = 0]
    /\ heard' = heard \cup {s}
    /\ UNCHANGED <<clock, since, members, callVars>>

\* Mutant of Stale: times compared as plain numbers.
StalePlain(s) == clock >= stamp[s] + Expire

\* The test of expire_stale_satellites().
Stale(s) == Diff(clock, stamp[s]) >= Expire

\* The head of controller_run's loop: expire_stale_satellites().
LoopHead ==
    LET gone == {s \in members : Stale(s)}
    IN  /\ fresh = {}
        /\ since' = 0
        /\ members' = members \ gone
        /\ stamp' = [s \in Sats |-> IF s \in gone THEN 0 ELSE stamp[s]]
        /\ silence' = [s \in Sats |-> IF s \in gone THEN 0 ELSE silence[s]]
        /\ UNCHANGED <<clock, fresh, callVars, heard>>
-----------------------------------------------------------------------------
(* espnow_mesh_get_status() on another task. *)

ReadClock ==
    /\ call = "none" /\ call' = "read"
    /\ current' = clock /\ asked' = silence /\ heard' = fresh
    /\ UNCHANGED <<clock, since, tableVars, ages>>

Never == 2 * Half - 1

\* Mutant of Ago: clipped at 0.
AgoClipped(s) == IF stamp[s] = 0 THEN Never
                 ELSE IF current < stamp[s] THEN 0 ELSE current - stamp[s]

Ago(s) == IF stamp[s] = 0 THEN Never ELSE Minus(current, stamp[s])

CopyTable ==
    /\ call = "read" /\ call' = "done"
    /\ ages' = [s \in members |-> Ago(s)]
    /\ UNCHANGED <<clock, since, tableVars, current, asked, heard>>

Return ==
    /\ call = "done" /\ call' = "none"
    /\ current' = 0 /\ asked' = [s \in Sats |-> 0] /\ ages' = NoAges /\ heard' = {}
    /\ UNCHANGED <<clock, since, tableVars>>

AgesNext == Tick \/ (\E s \in Sats : Add(s) \/ Touch(s)) \/ LoopHead
              \/ ReadClock \/ CopyTable \/ Return

AgesSpec == AgesInit /\ [][AgesNext]_agesVars
-----------------------------------------------------------------------------
\* A silent satellite is gone at the first pass of the loop's head: the table, and
\* so the next round's quorum, holds nobody who has been silent longer.
StaleAreGone == \A s \in members : silence[s] < Expire + since

\* Eviction is right wherever the clock wraps: nobody is evicted who was heard in the
\* last SATELLITE_EXPIRE_MS, and nobody stays who was not.
EvictsTheSilent ==
    [][StaleAreGone' /\ \A s \in members \ members' : silence[s] >= Expire]_agesVars

\* The age in a status is the time from the satellite's last frame to the reading of
\* the clock, unless a frame of it came between that and the copy of the table; a
\* frame in the very millisecond in which now_ms() is 0 reads as "never".
AgesExactUnlessHeard == call = "done" => \A s \in DOMAIN ages \ heard :
    ages[s] = IF asked[s] = current THEN Never ELSE asked[s]
=============================================================================
