--------------------------- MODULE StatusSnapshot ---------------------------
(***************************************************************************)
(* espnow_mesh_get_status() on one task while the controller's mesh task    *)
(* works on the same variables (espnow_mesh.c: find_or_add_satellite,       *)
(* note_ack, expire_stale_satellites, begin_reliable_sequence, the end of a  *)
(* round in controller_run).  Adding and evicting a satellite and the copy   *)
(* of the table take s_satellite_table_lock; everything else is written and  *)
(* read without it, one shared variable per step (the two delivery flags of  *)
(* a slot are reset together), in the order of the statements.               *)
(*                                                                         *)
(* Abstracted: a MAC is copied in two halves; last_seen_ms is whether it is  *)
(* set; what happens in a round is any outcome.                             *)
(***************************************************************************)
EXTENDS Naturals, FiniteSets, FiniteSetsExt

CONSTANTS
    Macs,       \* the satellites
    Slots,      \* CONFIG_ESPNOW_MESH_MAX_SATELLITES
    MaxRound,   \* bound: rounds
    NoMac       \* the cleared bytes of a free slot

ASSUME SnapshotAssumption ==
    /\ IsFiniteSet(Macs) /\ NoMac \notin Macs
    /\ Slots \in Nat \ {0} /\ MaxRound \in Nat

VARIABLES
    table,      \* s_satellites
    lock,       \* who is in a critical section of s_satellite_table_lock
    mpc, cur, from,     \* the mesh task: where it is, which slot, which satellite
    rest,       \* begin_reliable_sequence: the slots still to reset
    inRound,    \* whether a round is running
    active,     \* s_controller_active_sequence
    lastSeq, lastExpected, lastAcked, lastComplete,     \* s_controller_last_*
    outcomes,   \* history: the numbers of the rounds that ended complete
    rpc, snap,  \* the reader: where it is, the status it fills in
    quiet       \* history: no publication overlapped the outcome reads of snap

meshVars  == <<mpc, cur, from, rest, inRound>>
lastVars  == <<lastSeq, lastExpected, lastAcked, lastComplete>>
vars == <<table, lock, meshVars, active, lastVars, outcomes, rpc, snap, quiet>>

SlotIds == 1 .. Slots
Half    == Macs \cup {NoMac}
Slot    == [used : BOOLEAN, hi : Half, lo : Half, expected : BOOLEAN,
            acked : BOOLEAN, seen : BOOLEAN]
Free    == [used |-> FALSE, hi |-> NoMac, lo |-> NoMac, expected |-> FALSE,
            acked |-> FALSE, seen |-> FALSE]

MeshPoints == {"rest", "add", "hi", "lo", "use", "seed", "touch", "join", "ack",
               "evict", "clear", "reset", "seq", "count", "acks", "complete"}
ReaderPoints == {"start", "last", "expected", "acked", "complete", "lock",
                 "copy", "unlock", "done"}
Status == [last : Nat, expected : Nat, acked : Nat, complete : BOOLEAN,
           todo : SUBSET SlotIds, entries : SUBSET [slot : SlotIds, node : Slot]]

TypeOK ==
    /\ table \in [SlotIds -> Slot]
    /\ lock \in {"none", "mesh", "reader"}
    /\ mpc \in MeshPoints /\ cur \in SlotIds /\ from \in Macs
    /\ rest \subseteq SlotIds /\ inRound \in BOOLEAN
    /\ active \in Nat /\ lastSeq \in 0 .. active
    /\ lastExpected \in 0 .. Slots /\ lastAcked \in 0 .. Slots
    /\ lastComplete \in BOOLEAN
    /\ outcomes \subseteq 1 .. active
    /\ rpc \in ReaderPoints
    /\ snap \in Status /\ quiet \in BOOLEAN

NoStatus == [last |-> 0, expected |-> 0, acked |-> 0, complete |-> FALSE,
             todo |-> {}, entries |-> {}]

Init ==
    /\ table = [i \in SlotIds |-> Free]
    /\ lock = "none"
    /\ mpc = "rest" /\ cur = 1 /\ from \in Macs /\ rest = {} /\ inRound = FALSE
    /\ active = 0 /\ lastSeq = 0 /\ lastExpected = 0 /\ lastAcked = 0
    /\ lastComplete = FALSE /\ outcomes = {}
    /\ rpc = "start" /\ snap = NoStatus /\ quiet = TRUE
-----------------------------------------------------------------------------
(* The mesh task. *)

Used     == {i \in SlotIds : table[i].used}
Expected == {i \in Used : table[i].expected}
Acked    == {i \in Expected : table[i].acked}

Set(i, field, value) == table' = [table EXCEPT ![i][field] = value]

\* The mesh task moves on without touching the shared state it is not named for.
Goto(point) == mpc' = point
ReaderSame == UNCHANGED <<rpc, snap, quiet>>
RoundSame  == UNCHANGED <<rest, inRound, active, lastVars, outcomes>>

\* A frame of satellite m: find_satellite(), or the first free slot; a full table
\* drops the event.
Receive(m) ==
    /\ mpc = "rest"
    /\ from' = m
    /\ LET mine == {i \in Used : table[i].hi = m /\ table[i].lo = m}
       IN  \/ mine # {} /\ cur' = Min(mine) /\ Goto("touch")
           \/ mine = {} /\ Used # SlotIds /\ cur' = Min(SlotIds \ Used) /\ Goto("add")
    /\ UNCHANGED <<table, lock>> /\ RoundSame /\ ReaderSame

\* Mutant of Acquire: the critical section is not entered.
AcquireNothing(who) == lock' = lock

\* portENTER_CRITICAL(&s_satellite_table_lock).
Acquire(who) == lock = "none" /\ lock' = who

\* portEXIT_CRITICAL(&s_satellite_table_lock).
Release(who) == lock' = IF lock = who THEN "none" ELSE lock

\* find_or_add_satellite(): memcpy() of the MAC and `used`, in a critical section.
AddLock == mpc = "add" /\ Acquire("mesh") /\ Goto("hi")
             /\ UNCHANGED <<table, cur, from>> /\ RoundSame /\ ReaderSame
AddHi == mpc = "hi" /\ Set(cur, "hi", from) /\ Goto("lo")
             /\ UNCHANGED <<lock, cur, from>> /\ RoundSame /\ ReaderSame
AddLo == mpc = "lo" /\ Set(cur, "lo", from) /\ Goto("use")
             /\ UNCHANGED <<lock, cur, from>> /\ RoundSame /\ ReaderSame
AddUse == mpc = "use" /\ Set(cur, "used", TRUE) /\ Release("mesh") /\ Goto("seed")
             /\ UNCHANGED <<cur, from>> /\ RoundSame /\ ReaderSame

\* last_seen_ms is seeded after the critical section.
Seed == mpc = "seed" /\ Set(cur, "seen", TRUE) /\ Goto("touch")
             /\ UNCHANGED <<lock, cur, from>> /\ RoundSame /\ ReaderSame

\* The handler's own last_seen_ms; then, in a round, the frame may be an ACK that
\* counts, of a satellite that is expected or joins late.
Touch ==
    /\ mpc = "touch"
    /\ Set(cur, "seen", TRUE)
    /\ \/ Goto("rest")
       \/ inRound /\ Goto(IF table[cur].expected THEN "ack" ELSE "join")
    /\ UNCHANGED <<lock, cur, from>> /\ RoundSame /\ ReaderSame
Join == mpc = "join" /\ Set(cur, "expected", TRUE) /\ Goto("ack")
             /\ UNCHANGED <<lock, cur, from>> /\ RoundSame /\ ReaderSame
Ack == mpc = "ack" /\ Set(cur, "acked", TRUE) /\ Goto("rest")
             /\ UNCHANGED <<lock, cur, from>> /\ RoundSame /\ ReaderSame

\* expire_stale_satellites(): the slot is cleared in a critical section.
Evict ==
    /\ mpc = "rest" /\ ~ inRound
    /\ cur' \in Used
    /\ Goto("evict")
    /\ UNCHANGED <<table, lock, from>> /\ RoundSame /\ ReaderSame
\* Mutant of EvictLock: the slot is cleared outside the critical section.
EvictUnlocked == mpc = "evict" /\ lock' = lock /\ Goto("clear")
             /\ UNCHANGED <<table, cur, from>> /\ RoundSame /\ ReaderSame

EvictLock == mpc = "evict" /\ Acquire("mesh") /\ Goto("clear")
             /\ UNCHANGED <<table, cur, from>> /\ RoundSame /\ ReaderSame
Clear == mpc = "clear" /\ table' = [table EXCEPT ![cur] = Free] /\ Release("mesh")
             /\ Goto("rest") /\ UNCHANGED <<cur, from>> /\ RoundSame /\ ReaderSame

\* A round begins: the active sequence, then begin_reliable_sequence() slot by
\* slot.
BeginRound ==
    /\ mpc = "rest" /\ ~ inRound /\ active < MaxRound
    /\ active' = active + 1 /\ inRound' = TRUE
    /\ rest' = SlotIds /\ Goto("reset")
    /\ UNCHANGED <<table, lock, cur, from, lastVars, outcomes>> /\ ReaderSame
ResetSlot ==
    /\ mpc = "reset"
    /\ LET i == Min(rest) IN
           /\ table' = [table EXCEPT ![i].expected = table[i].used, ![i].acked = FALSE]
           /\ rest' = rest \ {i}
           /\ Goto(IF rest = {i} THEN "rest" ELSE "reset")
    /\ UNCHANGED <<lock, cur, from, inRound, active, lastVars, outcomes>> /\ ReaderSame

\* Where the outcome variables are half written, and where they are half read.
Publishing == {"count", "acks", "complete"}
Reading    == {"expected", "acked", "complete"}

\* The end of a round: four assignments in this order.
FinishSeq ==
    /\ mpc = "rest" /\ inRound
    /\ inRound' = FALSE /\ lastSeq' = active /\ Goto("count")
    /\ outcomes' = IF Expected # {} /\ Acked = Expected THEN outcomes \cup {active}
                                                        ELSE outcomes
    /\ quiet' = (quiet /\ rpc \notin Reading)
    /\ UNCHANGED <<table, lock, cur, from, rest, active, lastExpected, lastAcked,
                   lastComplete, rpc, snap>>
FinishExpected == mpc = "count" /\ lastExpected' = Cardinality(Expected) /\ Goto("acks")
    /\ UNCHANGED <<table, lock, cur, from, rest, inRound, active, lastSeq, lastAcked,
                   lastComplete, outcomes>> /\ ReaderSame
FinishAcked == mpc = "acks" /\ lastAcked' = Cardinality(Acked) /\ Goto("complete")
    /\ UNCHANGED <<table, lock, cur, from, rest, inRound, active, lastSeq, lastExpected,
                   lastComplete, outcomes>> /\ ReaderSame

\* Mutant of AllAcked: a round without members counts as complete.
AllAckedOrEmpty == lastAcked = lastExpected

AllAcked == lastExpected > 0 /\ lastAcked = lastExpected

FinishComplete ==
    /\ mpc = "complete"
    /\ lastComplete' = AllAcked
    /\ Goto("rest")
    /\ UNCHANGED <<table, lock, cur, from, rest, inRound, active, lastSeq, lastExpected,
                   lastAcked, outcomes>> /\ ReaderSame

MeshStep ==
    \/ \E m \in Macs : Receive(m)
    \/ AddLock \/ AddHi \/ AddLo \/ AddUse \/ Seed \/ Touch \/ Join \/ Ack
    \/ Evict \/ EvictLock \/ Clear
    \/ BeginRound \/ ResetSlot
    \/ FinishSeq \/ FinishExpected \/ FinishAcked \/ FinishComplete
-----------------------------------------------------------------------------
(* The reader. *)

MeshSame == UNCHANGED <<table, meshVars, active, lastVars, outcomes>>

\* One unlocked read of espnow_mesh_get_status().
Read(at, field, value, next) ==
    /\ rpc = at /\ rpc' = next
    /\ snap' = [snap EXCEPT ![field] = value]
    /\ quiet' = IF at = "start" THEN mpc \notin Publishing ELSE quiet
    /\ UNCHANGED lock /\ MeshSame

ReadLast     == Read("start", "last", lastSeq, "expected")
ReadExpected == Read("expected", "expected", lastExpected, "acked")
ReadAcked    == Read("acked", "acked", lastAcked, "complete")
ReadComplete == Read("complete", "complete", lastComplete, "lock")

ReaderLock ==
    /\ rpc = "lock" /\ Acquire("reader") /\ rpc' = "copy"
    /\ snap' = [snap EXCEPT !.todo = SlotIds, !.entries = {}]
    /\ UNCHANGED quiet /\ MeshSame

\* One turn of the copying loop.
CopySlot ==
    /\ rpc = "copy"
    /\ LET i == Min(snap.todo) IN
           /\ snap' = [snap EXCEPT !.todo = @ \ {i},
                         !.entries = IF table[i].used
                                     THEN @ \cup {[slot |-> i, node |-> table[i]]} ELSE @]
           /\ rpc' = IF snap.todo = {i} THEN "unlock" ELSE "copy"
    /\ UNCHANGED <<lock, quiet>> /\ MeshSame

ReaderUnlock ==
    /\ rpc = "unlock" /\ Release("reader") /\ rpc' = "done"
    /\ UNCHANGED <<snap, quiet>> /\ MeshSame

\* The application is done with the status; the next call starts from zeroes.
Return ==
    /\ rpc = "done" /\ rpc' = "start" /\ snap' = NoStatus
    /\ UNCHANGED <<lock, quiet>> /\ MeshSame

ReaderStep == ReadLast \/ ReadExpected \/ ReadAcked \/ ReadComplete
                \/ ReaderLock \/ CopySlot \/ ReaderUnlock \/ Return

Next == MeshStep \/ ReaderStep

Spec == Init /\ [][Next]_vars
-----------------------------------------------------------------------------
\* No entry of a status is a mixture of two satellites or of a satellite and a
\* free slot, and no satellite is listed twice, although slots are freed and
\* reused while the copy runs.
EntriesAreSatellites == rpc = "done" =>
    /\ \A e \in snap.entries : e.node.hi = e.node.lo /\ e.node.hi \in Macs
    /\ \A e, f \in snap.entries : e.node.hi = f.node.hi => e = f

\* Who is listed is a consistent cut: at the moment the copy is complete the
\* entries are exactly the satellites of the table.
MembershipIsCut == rpc = "unlock" =>
    {e.node.hi : e \in snap.entries} = {table[i].hi : i \in Used}

\* A slot is published before its last_seen_ms is seeded, so a status may show a
\* satellite that was "never seen"; but only one, whatever happens while the copy
\* runs: the next one cannot be added before the copy is over.
AtMostOneUnseen == Cardinality({e \in snap.entries : ~ e.node.seen}) <= 1

\* The delivery outcome of espnow_mesh.h:145-146 (last_sequence with
\* last_sequence_complete): a status tells the truth about the round it names
\* unless the four unlocked reads overlapped the four unlocked assignments.  When
\* they do overlap, the number and the outcome can be of different rounds.
OutcomeExactWhenQuiet == rpc = "done" /\ quiet =>
    (snap.complete <=> snap.last \in outcomes)
=============================================================================
