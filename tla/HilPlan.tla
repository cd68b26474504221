------------------------------ MODULE HilPlan ------------------------------
(***************************************************************************)
(* The command half of the HIL test build (espnow_mesh.c: hil_controller_run*)
(* with hil_run_case, and handle_satellite_hil_command): discovery with     *)
(* DATA frames, then the cases of HIL_CASES one after the other, each       *)
(* broadcast, retried by unicast until its deadline and reported PASS or    *)
(* DEGRADED.  The patch cases that follow are PatchTransfer's.              *)
(*                                                                         *)
(* Abstracted: patch and parameter values are the number of the case that   *)
(* set them.  The injected faults (hil_fault_drop) and lost frames are the   *)
(* same nondeterministic loss, placed before the dedup (command) and after   *)
(* it (ACK) as in the code.  retry_scheduled and the backoff are dropped:    *)
(* any retryable node may be due at any pass.  DATA ACKs, time requests and   *)
(* registrations only refresh the table, and are one event, Hello.  One       *)
(* controller, so the lock is a flag; the marker timer is not modelled.      *)
(***************************************************************************)
EXTENDS EventQueue, FiniteSets

CONSTANTS
    Sats,
    Cases,              \* the length of HIL_CASES
    Selects, Sets,      \* the cases of kind PATCH_SELECT and PARAM_SET
    Copies,             \* 1 + duplicate_send_count of every case
    SendRetries, MaxAttempts, MaxSatellites,
    DiscoveryTicks,     \* HIL_DISCOVERY_MS in turns of the discovery loop
    DeadlineTicks,      \* RELIABLE_DEADLINE_MS in coarse ticks
    ExpectedSatellites, \* HIL_EXPECTED_SATELLITES
    RequireDiscovery,   \* HIL_REQUIRE_SOFTAP_DISCOVERY with the registration AP
    MaxBoot, MaxCrash   \* bounds: controller boots, satellite power cycles

ASSUME PlanAssumption ==
    /\ IsFiniteSet(Sats)
    /\ Cases \in Nat \ {0} /\ Copies \in Nat \ {0}
    /\ Selects \subseteq 1 .. Cases /\ Sets \subseteq 1 .. Cases
    /\ SendRetries \in Nat \ {0} /\ MaxAttempts \in Nat \ {0}
    /\ MaxSatellites \in Nat \ {0} /\ ExpectedSatellites \in Nat \ {0}
    /\ DiscoveryTicks \in Nat \ {0} /\ DeadlineTicks \in Nat \ {0}
    /\ RequireDiscovery \in BOOLEAN
    /\ MaxBoot \in Nat \ {0} /\ MaxCrash \in Nat

VARIABLES
    phase,      \* where hil_controller_run is
    boot,       \* s_boot_id
    seq,        \* the sequence given to hil_drain_until; 0 once the plan is done
    attempt,    \* hil_run_case's `attempt`
    left,       \* ticks until settle_deadline or deadline_ms
    used, expected, acked, sends,   \* the satellite table, hil_* fields
    results,    \* history: the CASE RESULT lines of this boot
    satq, ctlq, \* event queues
    locked, discovered, satBoot,    \* per satellite: lock, SoftAP gate, boot id
    satHil,     \* s_last_hil_sequence, 0 without s_have_last_hil_sequence
    patch, param,       \* s_current_patch_id, s_current_param_id and _value
    applied,    \* history: <<boot, case>> applied since the satellite's boot
    ever,       \* history: <<boot, case>> applied at any time
    crashes     \* history: satellite power cycles

planVars  == <<phase, boot, seq, attempt, left>>
tableVars == <<used, expected, acked, sends>>
airVars   == <<satq, ctlq>>
satVars   == <<locked, discovered, satBoot, satHil, patch, param, applied, ever, crashes>>
vars == <<planVars, tableVars, results, airVars, satVars>>

DataMsg  == [type : {"Data"}, boot : Nat]
CmdMsg   == [type : {"Cmd"}, boot : Nat, seq : 1 .. Cases]
HilAck   == [type : {"HilAck"}, from : Sats, boot : Nat, seq : 1 .. Cases,
             patch : 0 .. Cases, param : 0 .. Cases]
Hello    == [type : {"Hello"}, from : Sats]
SatEvent == DataMsg \cup CmdMsg
CtlEvent == HilAck \cup Hello

Draining == {"ddrain", "settle", "bdrain", "rdrain", "gap", "done"}
InCase   == {"broadcast", "bdrain", "retry", "rdrain", "result", "gap"}
Phases   == Draining \cup InCase \cup {"discover", "case"}

Result == [case : 1 .. Cases, members : SUBSET Sats, pass : BOOLEAN]

TypeOK ==
    /\ phase \in Phases /\ boot \in Nat
    /\ seq \in 0 .. Cases /\ (seq = 0 <=> phase = "done")
    /\ attempt \in 1 .. SendRetries /\ left \in Nat
    /\ used \subseteq Sats /\ Cardinality(used) <= MaxSatellites
    /\ expected \subseteq used /\ acked \subseteq expected
    /\ sends \in [Sats -> Nat]
    /\ results \in Seq(Result)
    /\ satq \in [Sats -> Seq(SatEvent)] /\ ctlq \in Seq(CtlEvent)
    /\ locked \subseteq Sats /\ discovered \subseteq Sats
    /\ satBoot \in [Sats -> Nat]
    /\ satHil \in [Sats -> 0 .. Cases]
    /\ patch \in [Sats -> 0 .. Cases] /\ param \in [Sats -> 0 .. Cases]
    /\ applied \in [Sats -> Seq(Nat \X (1 .. Cases))]
    /\ ever \in [Sats -> SUBSET (Nat \X (1 .. Cases))]
    /\ crashes \in Nat

Init ==
    /\ phase = "discover" /\ boot = 1 /\ seq = 1 /\ attempt = 1
    /\ left = DiscoveryTicks
    /\ used = {} /\ expected = {} /\ acked = {} /\ sends = [s \in Sats |-> 0]
    /\ results = <<>>
    /\ satq = [s \in Sats |-> <<>>] /\ ctlq = <<>>
    /\ locked = {} /\ discovered = {}
    /\ satBoot = [s \in Sats |-> 0] /\ satHil = [s \in Sats |-> 0]
    /\ patch = [s \in Sats |-> 0] /\ param = [s \in Sats |-> 0]
    /\ applied = [s \in Sats |-> <<>>] /\ ever = [s \in Sats |-> {}]
    /\ crashes = 0
-----------------------------------------------------------------------------
(* The controller: discovery. *)

Sooner == {rest \in 0 .. left : rest < left}

\* A turn of the discovery loop: a DATA frame with sequence 1 to everyone.
Discover ==
    /\ phase = "discover" /\ left > 0
    /\ \E heard \in SUBSET Sats :
           satq' = AfterFrame(satq, [type |-> "Data", boot |-> boot], heard)
    /\ phase' = "ddrain"
    /\ UNCHANGED <<boot, seq, attempt, left, tableVars, results, ctlq, satVars>>

\* 300 ms later: enough satellites known, or another turn.
DiscoverDrainEnds ==
    /\ phase = "ddrain"
    /\ left' \in Sooner
    /\ phase' = IF Cardinality(used) >= ExpectedSatellites THEN "settle" ELSE "discover"
    /\ UNCHANGED <<boot, seq, attempt, tableVars, results, airVars, satVars>>

DiscoverTimeout ==
    /\ phase = "discover" /\ left = 0
    /\ phase' = "settle"
    /\ UNCHANGED <<boot, seq, attempt, left, tableVars, results, airVars, satVars>>

SettleEnds ==
    /\ phase = "settle"
    /\ phase' = "case"
    /\ UNCHANGED <<boot, seq, attempt, left, tableVars, results, airVars, satVars>>
-----------------------------------------------------------------------------
(* The controller: hil_run_case. *)

\* hil_complete().
Complete == expected # {} /\ expected \subseteq acked

Missing == expected \ acked
Retryable == {s \in Missing : sends[s] < MaxAttempts}

\* hil_reset_ack_state().
ResetAcks ==
    /\ expected' = used /\ acked' = {}
    /\ sends' = [s \in Sats |-> 0]

StartCase ==
    /\ phase = "case"
    /\ ResetAcks
    /\ attempt' = 1 /\ left' = DeadlineTicks
    /\ phase' = "broadcast"
    /\ UNCHANGED <<boot, seq, used, results, airVars, satVars>>

Cmd == [type |-> "Cmd", boot |-> boot, seq |-> seq]

\* Queues after each satellite heard n[s] of the copies sent in one go.
AfterCopies(n) ==
    [s \in Sats |-> LET room == QueueLen - Len(satq[s])
                        took == IF n[s] < room THEN n[s] ELSE room
                    IN  satq[s] \o [i \in 1 .. took |-> Cmd]]

\* One turn of the broadcast loop: the command and its duplicates.
Broadcast ==
    /\ phase = "broadcast"
    /\ \E n \in [Sats -> 0 .. Copies] : satq' = AfterCopies(n)
    /\ sends' = [s \in Sats |-> IF s \in Missing THEN sends[s] + 1 ELSE sends[s]]
    /\ phase' = "bdrain"
    /\ UNCHANGED <<boot, seq, attempt, left, used, expected, acked, results, ctlq, satVars>>

BroadcastDrainEnds ==
    /\ phase = "bdrain"
    /\ \E rest \in 0 .. left : left' = rest
    /\ \/ Complete /\ phase' = "result" /\ UNCHANGED attempt
       \/ ~ Complete /\ attempt < SendRetries
             /\ phase' = "broadcast" /\ attempt' = attempt + 1
       \/ ~ Complete /\ attempt = SendRetries /\ phase' = "retry" /\ UNCHANGED attempt
    /\ UNCHANGED <<boot, seq, tableVars, results, airVars, satVars>>

\* hil_send_retries_until_done(): unlike the fan-out it waits for the deadline
\* even when nobody may be retried any more.
RetryPass ==
    /\ phase = "retry" /\ ~ Complete /\ left > 0
    /\ \E due \in SUBSET Retryable :
           /\ \E heard \in SUBSET due : satq' = AfterFrame(satq, Cmd, heard)
           /\ sends' = [s \in Sats |-> IF s \in due THEN sends[s] + 1 ELSE sends[s]]
    /\ phase' = "rdrain"
    /\ UNCHANGED <<boot, seq, attempt, left, used, expected, acked, results, ctlq, satVars>>

\* Mutant of Later: waiting brings the deadline no closer.
NoTimePasses == {left}

Later == Sooner

RetryDrainEnds ==
    /\ phase = "rdrain"
    /\ left' \in Later
    /\ phase' = "retry"
    /\ UNCHANGED <<boot, seq, attempt, tableVars, results, airVars, satVars>>

RetryEnds ==
    /\ phase = "retry" /\ (Complete \/ left = 0)
    /\ phase' = "result"
    /\ UNCHANGED <<boot, seq, attempt, left, tableVars, results, airVars, satVars>>

\* The CASE RESULT line: PASS iff someone was expected and everyone answered.
ReportCase ==
    /\ phase = "result"
    /\ results' = Append(results, [case |-> seq, members |-> expected, pass |-> Complete])
    /\ phase' = "gap"
    /\ UNCHANGED <<boot, seq, attempt, left, tableVars, airVars, satVars>>

\* HIL_CASE_GAP_MS after the result: the next case, or the idle loop at the end
\* of the plan, which drains with sequence 0.
NextStep(case) == IF case < Cases THEN [phase |-> "case", seq |-> case + 1]
                                  ELSE [phase |-> "done", seq |-> 0]

GapEnds ==
    /\ phase = "gap"
    /\ phase' = NextStep(seq).phase /\ seq' = NextStep(seq).seq
    /\ UNCHANGED <<boot, attempt, left, tableVars, results, airVars, satVars>>
-----------------------------------------------------------------------------
(* The controller: events and power cycles. *)

HasSlot(s) == s \in used \/ Cardinality(used) < MaxSatellites

\* The filters of hil_note_ack().
Counts(e) == HasSlot(e.from) /\ e.boot = boot /\ e.seq = seq

\* hil_handle_controller_event(): every message claims a slot; a HIL ACK of the
\* active case of this boot counts, and lets a satellite join late.
HandleEvent ==
    /\ phase \in Draining /\ ctlq # <<>>
    /\ LET e == Head(ctlq)
           counted == IF e.type = "HilAck" /\ Counts(e) THEN {e.from} ELSE {}
       IN  /\ used' = IF HasSlot(e.from) THEN used \cup {e.from} ELSE used
           /\ expected' = expected \cup counted
           /\ acked' = acked \cup counted
    /\ ctlq' = Tail(ctlq)
    /\ UNCHANGED <<planVars, sends, results, satq, satVars>>

CtlReboot ==
    /\ boot < MaxBoot
    /\ boot' = boot + 1
    /\ phase' = "discover" /\ seq' = 1 /\ attempt' = 1 /\ left' = DiscoveryTicks
    /\ used' = {} /\ expected' = {} /\ acked' = {} /\ sends' = [s \in Sats |-> 0]
    /\ results' = <<>> /\ ctlq' = <<>>
    /\ UNCHANGED <<satq, satVars>>
-----------------------------------------------------------------------------
(* The satellites. *)

\* hil_softap_discovery_ready().
Ready(s) == RequireDiscovery => s \in discovered

\* A satellite's frame is consumed without another effect.
Ignore(s) == UNCHANGED <<ctlq, locked, satBoot, satHil, patch, param, applied, ever>>

\* handle_satellite_data(): lock and boot id are adopted; the HIL sequence stays.
\* The ACK is sent unless add_peer_if_needed() failed, and may be lost.
ReceiveData(s, f) ==
    /\ locked' = locked \cup {s}
    /\ satBoot' = [satBoot EXCEPT ![s] = f.boot]
    /\ \E heard \in BOOLEAN : ctlq' = Arrives(ctlq, [type |-> "Hello", from |-> s], heard)
    /\ UNCHANGED <<satHil, patch, param, applied, ever>>

\* s_last_hil_sequence as a command of boot b sees it: a new boot id clears it.
RememberedHil(s, b) == IF satBoot[s] = b THEN satHil[s] ELSE 0

\* Mutant of IsDuplicate: off by one.
IsOlder(last, case) == last # 0 /\ case < last

\* seq_is_duplicate() on the HIL sequence.
IsDuplicate(last, case) == last # 0 /\ case <= last

\* The values in force after case c was applied on top of `now`.
PatchAfter(c, now) == IF c \in Selects \cup Sets THEN c ELSE now
ParamAfter(c, now) == IF c \in Sets THEN c ELSE now

\* handle_satellite_hil_command(), first copy: remember it, apply it.
Apply(s, f) ==
    /\ satHil' = [satHil EXCEPT ![s] = f.seq]
    /\ patch' = [patch EXCEPT ![s] = PatchAfter(f.seq, @)]
    /\ param' = [param EXCEPT ![s] = ParamAfter(f.seq, @)]
    /\ applied' = [applied EXCEPT ![s] = Append(@, <<f.boot, f.seq>>)]
    /\ ever' = [ever EXCEPT ![s] = @ \cup {<<f.boot, f.seq>>}]

\* A copy of a case already applied changes nothing.
SkipDuplicate(s, f) ==
    /\ satHil' = [satHil EXCEPT ![s] = RememberedHil(s, f.boot)]
    /\ UNCHANGED <<patch, param, applied, ever>>

\* Mutant of DropCommand: the injected loss strikes after the dedup.
DropRemembered(s, f) ==
    /\ satHil' = [satHil EXCEPT ![s] = f.seq]
    /\ UNCHANGED <<ctlq, patch, param, applied, ever>>

\* add_peer_if_needed() failed or the injected RX fault struck, both before the
\* dedup: only lock and boot id were touched.
DropCommand(s, f) ==
    /\ satHil' = [satHil EXCEPT ![s] = RememberedHil(s, f.boot)]
    /\ UNCHANGED <<ctlq, patch, param, applied, ever>>

\* Mutant of SendHilAck: the ACK is filled in before the command is applied.
SendHilAckEarly(s, f) == \E heard \in BOOLEAN :
    ctlq' = Arrives(ctlq, [type |-> "HilAck", from |-> s, boot |-> f.boot, seq |-> f.seq,
                           patch |-> patch[s], param |-> param[s]], heard)

\* send_satellite_hil_ack(): the ACK names the command and carries the values in
\* force after it; the injected TX fault or the air may lose it.
SendHilAck(s, f) == \E heard \in BOOLEAN :
    ctlq' = Arrives(ctlq, [type |-> "HilAck", from |-> s, boot |-> f.boot, seq |-> f.seq,
                           patch |-> patch'[s], param |-> param'[s]], heard)

ReceiveCmd(s, f) ==
    /\ locked' = locked \cup {s}
    /\ satBoot' = [satBoot EXCEPT ![s] = f.boot]
    /\ \/ DropCommand(s, f)
       \/ /\ IF IsDuplicate(RememberedHil(s, f.boot), f.seq)
             THEN SkipDuplicate(s, f) ELSE Apply(s, f)
          /\ SendHilAck(s, f)

HandleFrame(s) ==
    /\ satq[s] # <<>>
    /\ LET f == Head(satq[s]) IN
           \/ ~ Ready(s) /\ Ignore(s)
           \/ Ready(s) /\ f.type = "Data" /\ ReceiveData(s, f)
           \/ Ready(s) /\ f.type = "Cmd" /\ ReceiveCmd(s, f)
    /\ satq' = [satq EXCEPT ![s] = Tail(@)]
    /\ UNCHANGED <<discovered, crashes, planVars, tableVars, results>>

\* request_time_sync_if_due() of a locked satellite.
RequestTime(s) ==
    /\ s \in locked
    /\ ctlq' = Arrives(ctlq, [type |-> "Hello", from |-> s], TRUE)
    /\ UNCHANGED <<satq, planVars, tableVars, results, satVars>>

\* attempt_registration_if_due() of an unlocked satellite reached the SoftAP.
Register(s) ==
    /\ s \notin locked
    /\ discovered' = discovered \cup {s}
    /\ \E heard \in BOOLEAN : ctlq' = Arrives(ctlq, [type |-> "Hello", from |-> s], heard)
    /\ UNCHANGED <<satq, planVars, tableVars, results, locked, satBoot, satHil,
                   patch, param, applied, ever, crashes>>

\* check_controller_timeout().
ControllerTimeout(s) ==
    /\ s \in locked
    /\ locked' = locked \ {s}
    /\ UNCHANGED <<airVars, planVars, tableVars, results, discovered, satBoot,
                   satHil, patch, param, applied, ever, crashes>>

SatReboot(s) ==
    /\ crashes < MaxCrash
    /\ crashes' = crashes + 1
    /\ locked' = locked \ {s} /\ discovered' = discovered \ {s}
    /\ satBoot' = [satBoot EXCEPT ![s] = 0] /\ satHil' = [satHil EXCEPT ![s] = 0]
    /\ patch' = [patch EXCEPT ![s] = 0] /\ param' = [param EXCEPT ![s] = 0]
    /\ applied' = [applied EXCEPT ![s] = <<>>]
    /\ satq' = [satq EXCEPT ![s] = <<>>]
    /\ UNCHANGED <<ctlq, planVars, tableVars, results, ever>>
-----------------------------------------------------------------------------
TaskStep ==
    \/ Discover \/ DiscoverDrainEnds \/ DiscoverTimeout \/ SettleEnds
    \/ StartCase \/ Broadcast \/ BroadcastDrainEnds
    \/ RetryPass \/ RetryDrainEnds \/ RetryEnds \/ ReportCase \/ GapEnds

SatStep(s) == HandleFrame(s) \/ RequestTime(s) \/ Register(s)
                \/ ControllerTimeout(s) \/ SatReboot(s)

Next == TaskStep \/ HandleEvent \/ CtlReboot \/ \E s \in Sats : SatStep(s)

Spec == Init /\ [][Next]_vars

\* The controller's mesh task is always scheduled again and its waits end.
LiveSpec == Spec /\ WF_vars(TaskStep)
-----------------------------------------------------------------------------
\* A case reported PASS was applied by every member, and there was one: no ACK of
\* another case, of an old boot or of a copy that was swallowed makes a case pass.
PassMeansApplied == \A i \in DOMAIN results : results[i].pass =>
    /\ results[i].members # {}
    /\ \A s \in results[i].members : <<boot, results[i].case>> \in ever[s]

\* What holds across restarts too: a PASS is backed by each member, with an
\* application of that case in this boot or, because a boot id adopted from DATA
\* leaves s_last_hil_sequence alone, of it or a later one in an earlier boot.
Backs(a, case) == (a[1] = boot /\ a[2] = case) \/ (a[1] < boot /\ a[2] >= case)
PassIsBacked == \A i \in DOMAIN results : results[i].pass =>
    /\ results[i].members # {}
    /\ \A s \in results[i].members : \E a \in ever[s] : Backs(a, results[i].case)

\* An ACK that counts for the active case reports the values that case put in
\* force, so the controller's log of an ACK can be read as confirmation, until a
\* restart of the controller lets satellites ACK cases they skipped.
AckReportsCase == boot = 1 => \A e \in Range(ctlq) :
    e.type = "HilAck" /\ e.boot = boot /\ e.seq = seq =>
        /\ e.seq \in Selects \cup Sets => e.patch = e.seq
        /\ e.seq \in Sets => e.param = e.seq

\* A satellite applies each case of a boot at most once and never an older case,
\* or a case of an older boot, after a newer one.
Before(a, b) == a[1] < b[1] \/ (a[1] = b[1] /\ a[2] < b[2])
AppliedInOrder == \A s \in Sats : \A i, j \in DOMAIN applied[s] :
    i < j => Before(applied[s][i], applied[s][j])

\* How far the plan has come: before the first case, in one, at its end.
Stage == IF phase \in {"discover", "ddrain", "settle"} THEN 0
         ELSE IF phase = "done" THEN Cases + 1 ELSE seq

\* An upper bound on the waits and transmissions that are left in this stage.
TurnsLeft ==
    LET broadcasts == SendRetries - attempt
    IN  CASE phase = "discover"  -> 2 * left + 2
          [] phase = "ddrain"    -> 2 * left + 1
          [] phase = "case"      -> 2 * (DeadlineTicks + SendRetries) + 4
          [] phase = "broadcast" -> 2 * (left + broadcasts) + 5
          [] phase = "bdrain"    -> 2 * (left + broadcasts) + 4
          [] phase = "retry"     -> 2 * left + 3
          [] phase = "rdrain"    -> 2 * left + 2
          [] phase = "result"    -> 1
          [] OTHER               -> 0

\* A step of the mesh task takes a turn or begins the next stage, any other step
\* leaves both alone.
TakesTurn ==
    IF UNCHANGED phase THEN UNCHANGED <<Stage, TurnsLeft>>
    ELSE Stage' > Stage \/ (UNCHANGED Stage /\ TurnsLeft' < TurnsLeft)

\* Why the plan ends, step by step (hil_controller_run() and hil_run_case()): no case
\* is run twice or left out, and none keeps the task for more than its turns,
\* whatever the satellites send.
PlanRunsOut == [][boot' = boot => TakesTurn /\ Stage' <= Stage + 1]_vars

\* The plan comes to its end whatever the satellites and the air do, once the
\* controller stops rebooting.
PlanCompletes == <>[](phase = "done")
=============================================================================
