--------------------------- MODULE MeshController ---------------------------
(***************************************************************************)
(* The controller's mesh task and its application interface                *)
(* (espnow_mesh.c: controller_run and everything it calls, and             *)
(* espnow_mesh_send).  One action per stretch of the task between two      *)
(* places where it waits; `phase` is the place.                            *)
(*                                                                         *)
(* The satellite table s_satellites is a set of MACs and one set or        *)
(* function per field: used, expected (expected_current), acked             *)
(* (acked_current), sends (sends_current), scheduled (retry_scheduled).     *)
(*                                                                         *)
(* Time is abstracted to what ends a wait: a drain may end at any moment,   *)
(* a scheduled retry may be due at any pass, any entry may have gone stale  *)
(* at the top of the loop.  Only the reliable deadline is counted down,     *)
(* in `left`: a drain of the retry loop always uses up some of it           *)
(* (wait_until_ms is at least current_ms + 1).                             *)
(***************************************************************************)
EXTENDS MeshAir, FiniteSets

CONSTANTS
    SendRetries,    \* CONFIG_ESPNOW_MESH_SEND_RETRIES
    MaxAttempts,    \* CONFIG_ESPNOW_MESH_RELIABLE_MAX_ATTEMPTS
    MaxSatellites,  \* CONFIG_ESPNOW_MESH_MAX_SATELLITES
    DeadlineTicks,  \* CONFIG_ESPNOW_MESH_RELIABLE_DEADLINE_MS in coarse ticks
    MaxBoot,        \* bound: controller boots
    MaxSend         \* bound: accepted espnow_mesh_send() calls

ASSUME ControllerAssumption ==
    /\ IsFiniteSet(Sats)
    /\ SendRetries \in Nat \ {0}
    /\ MaxAttempts \in Nat \ {0}
    /\ MaxSatellites \in Nat \ {0}
    /\ DeadlineTicks \in Nat \ {0}
    /\ MaxBoot \in Nat \ {0}
    /\ MaxSend \in Nat

VARIABLES
    phase,      \* where controller_run is
    boot,       \* s_boot_id: fresh at every boot
    seq,        \* `sequence`, s_controller_active_sequence; 0 before the first
    tx,         \* s_tx_payload: the payload of the active sequence
    pending,    \* s_pending_payload, or NoPayload when s_have_pending_payload is false
    used, expected, acked, scheduled, sends,    \* the satellite table
    retry,      \* the broadcast loop's `retry`
    left,       \* ticks until deadline_ms
    last,       \* s_controller_last_*; `members` and `payload` are history
    accepted,   \* history: how many espnow_mesh_send() calls returned ESP_OK
    issued      \* history: payloads that ever were the payload of a round

table   == <<used, expected, acked, scheduled, sends>>
round   == <<seq, tx, retry, left>>
ctlVars == <<phase, boot, seq, tx, pending, used, expected, acked, scheduled,
             sends, retry, left, last, accepted, issued>>
history == <<accepted, issued>>

NoPayload == 0

Draining == {"idle", "bdrain", "rdrain", "gap"}
InRound  == {"broadcast", "bdrain", "retry", "rdrain", "finish"}
Phases   == Draining \cup InRound \cup {"top"}

CtlTypeOK ==
    /\ phase \in Phases
    /\ boot \in Nat /\ seq \in Nat
    /\ tx \in Nat /\ pending \in Nat /\ accepted \in Nat
    /\ issued \subseteq Nat
    /\ used \subseteq Sats
    /\ expected \subseteq used /\ acked \subseteq expected
    /\ scheduled \subseteq expected
    /\ sends \in [Sats -> Nat]
    /\ retry \in 1 .. SendRetries /\ left \in 0 .. DeadlineTicks
    /\ last \in [seq : Nat, expected : Nat, acked : Nat, complete : BOOLEAN,
                 members : SUBSET Sats, payload : Nat]

\* s_controller_last_* are zero-initialised.
NothingFinished == [seq |-> 0, expected |-> 0, acked |-> 0, complete |-> FALSE,
                    members |-> {}, payload |-> NoPayload]

CtlInit ==
    /\ phase = "top" /\ boot = 1 /\ seq = 0
    /\ tx = NoPayload /\ pending = NoPayload
    /\ used = {} /\ expected = {} /\ acked = {} /\ scheduled = {}
    /\ sends = [s \in Sats |-> 0]
    /\ retry = 1 /\ left = 0
    /\ last = NothingFinished
    /\ accepted = 0 /\ issued = {}
-----------------------------------------------------------------------------
\* find_or_add_satellite(): the MAC is in the table, or a slot is free.
HasSlot(s) == s \in used \/ Cardinality(used) < MaxSatellites

\* Mutant of Complete: one ACK is enough.
CompleteOnFirstAck(exp, ack) == exp # {} /\ ack # {}

\* reliable_sequence_complete().  A table that expects nobody never completes.
Complete(exp, ack) == exp # {} /\ exp \subseteq ack

Missing == expected \ acked

\* Mutant of Counts: the boot id of the ACK is not looked at.
CountsAnyBoot(e) == HasSlot(e.from) /\ e.seq = seq

\* The filters of note_ack(): an ACK of this boot and of the active sequence,
\* whether or not the satellite flagged it a duplicate.
Counts(e) == HasSlot(e.from) /\ e.boot = boot /\ e.seq = seq

\* note_ack().  Every ACK claims a slot; only one that counts changes the round,
\* and a node that was not expected joins late.
NoteAck(e) ==
    LET s == e.from
        late == Counts(e) /\ s \notin expected
    IN  /\ used' = IF HasSlot(s) THEN used \cup {s} ELSE used
        /\ expected' = IF Counts(e) THEN expected \cup {s} ELSE expected
        /\ acked' = IF Counts(e) THEN acked \cup {s} ELSE acked
        /\ sends' = IF late THEN [sends EXCEPT ![s] = 0] ELSE sends
        /\ scheduled' = IF late THEN scheduled \ {s} ELSE scheduled
        /\ UNCHANGED satq

\* handle_time_request(): the requester claims a slot and gets an answer; with
\* a full table it gets neither.
NoteTimeRequest(e) ==
    /\ used' = IF HasSlot(e.from) THEN used \cup {e.from} ELSE used
    /\ UNCHANGED <<expected, acked, scheduled, sends>>
    /\ \E heard \in SUBSET {e.from} :
           Transmit([type |-> "TimeResp"], IF HasSlot(e.from) THEN heard ELSE {})

\* Mutant of NoteRegistration: a registration resets the delivery state.
NoteRegistrationResets(e) ==
    /\ used' = IF HasSlot(e.from) THEN used \cup {e.from} ELSE used
    /\ expected' = expected \ {e.from} /\ acked' = acked \ {e.from}
    /\ UNCHANGED <<scheduled, sends, satq>>

\* controller_note_registered_satellite().
NoteRegistration(e) ==
    /\ used' = IF HasSlot(e.from) THEN used \cup {e.from} ELSE used
    /\ UNCHANGED <<expected, acked, scheduled, sends, satq>>

\* drain_events_until() dispatches one event to handle_controller_event().
HandleEvent ==
    /\ phase \in Draining
    /\ ctlq # <<>>
    /\ LET e == Head(ctlq) IN
           \/ e.type = "Ack" /\ NoteAck(e)
           \/ e.type = "TimeReq" /\ NoteTimeRequest(e)
           \/ e.type = "Registration" /\ NoteRegistration(e)
    /\ ctlq' = Tail(ctlq)
    /\ UNCHANGED <<phase, boot, round, pending, last, history>>
-----------------------------------------------------------------------------
\* expire_stale_satellites(): the slots of `gone` are zeroed.
Evict(gone) ==
    /\ used' = used \ gone
    /\ expected' = expected \ gone
    /\ acked' = acked \ gone
    /\ scheduled' = scheduled \ gone
    /\ sends' = [s \in Sats |-> IF s \in gone THEN 0 ELSE sends[s]]

\* Top of controller_run with nothing queued: wait for an event or 100 ms.
StayIdle(gone) ==
    /\ phase = "top" /\ pending = NoPayload
    /\ Evict(gone)
    /\ phase' = "idle"
    /\ UNCHANGED <<boot, round, pending, last, history, airVars>>

\* `sequence++`, away from the 32-bit wrap.
NextSequence == seq + 1

\* controller_take_pending_payload() frees the slot.
SlotAfterTake == NoPayload

\* Top of controller_run with a payload queued: controller_take_pending_payload()
\* fills s_tx_payload, the sequence advances, begin_reliable_sequence() resets the
\* delivery state of every slot; whoever is in the table is expected to ACK.
BeginRound(gone) ==
    /\ phase = "top" /\ pending # NoPayload
    /\ tx' = pending /\ pending' = SlotAfterTake
    /\ issued' = issued \cup {pending}
    /\ seq' = NextSequence
    /\ used' = used \ gone
    /\ expected' = used \ gone
    /\ acked' = {} /\ scheduled' = {}
    /\ sends' = [s \in Sats |-> 0]
    /\ left' = DeadlineTicks /\ retry' = 1
    /\ phase' = "broadcast"
    /\ UNCHANGED <<boot, last, accepted, airVars>>

LoopTop == \E gone \in SUBSET used : StayIdle(gone) \/ BeginRound(gone)

ActiveFrame == [type |-> "Data", boot |-> boot, seq |-> seq, payload |-> tx]

\* One turn of the broadcast loop: send_controller_packet(BROADCAST_MAC) and
\* record_broadcast_attempt_for_expected().
Broadcast ==
    /\ phase = "broadcast"
    /\ \E heard \in SUBSET Sats : Transmit(ActiveFrame, heard)
    /\ sends' = [s \in Sats |-> IF s \in Missing THEN sends[s] + 1 ELSE sends[s]]
    /\ phase' = "bdrain"
    /\ UNCHANGED <<boot, round, pending, used, expected, acked, scheduled,
                   last, history, ctlq>>

\* Mutant of Retryable: one attempt too many.
RetryableOnceMore == {s \in Missing : sends[s] <= MaxAttempts}

\* Who schedule_missing_after_broadcast() gives a retry time and
\* send_due_unicast_retries() considers.
Retryable == {s \in Missing : sends[s] < MaxAttempts}

\* RETRY_INTERVAL_MS after a broadcast: stop when everyone answered, go round
\* again, or turn to unicast.
BroadcastDrainEnds ==
    /\ phase = "bdrain"
    /\ \E rest \in 0 .. left : left' = rest
    /\ \/ /\ Complete(expected, acked)
          /\ phase' = "finish"
          /\ UNCHANGED <<retry, scheduled>>
       \/ /\ ~ Complete(expected, acked) /\ retry < SendRetries
          /\ phase' = "broadcast" /\ retry' = retry + 1
          /\ UNCHANGED scheduled
       \/ /\ ~ Complete(expected, acked) /\ retry = SendRetries
          /\ phase' = "retry" /\ scheduled' = scheduled \cup Retryable
          /\ UNCHANGED retry
    /\ UNCHANGED <<boot, seq, tx, pending, used, expected, acked, sends, last,
                   history, airVars>>

\* The retry loop ends: complete, deadline passed, or nobody may be retried.
RetryEnds ==
    /\ phase = "retry"
    /\ Complete(expected, acked) \/ left = 0 \/ Retryable = {}
    /\ phase' = "finish"
    /\ UNCHANGED <<boot, round, pending, table, last, history, airVars>>

\* send_due_unicast_retries(): a copy to every retryable node without a retry
\* time, and to those whose time has come.  A send that fails counts as a send.
RetryPass ==
    /\ phase = "retry"
    /\ ~ Complete(expected, acked) /\ left > 0 /\ Retryable # {}
    /\ \E now \in SUBSET (Retryable \cap scheduled) :
           LET due == (Retryable \ scheduled) \cup now IN
           /\ \E heard \in SUBSET due : Transmit(ActiveFrame, heard)
           /\ sends' = [s \in Sats |-> IF s \in due THEN sends[s] + 1 ELSE sends[s]]
           /\ scheduled' = scheduled \cup due
    /\ phase' = "rdrain"
    /\ UNCHANGED <<boot, round, pending, used, expected, acked, last, history, ctlq>>

\* Mutant of Later: waiting brings the deadline no closer.
NoTimePasses == {left}

Later == {rest \in 0 .. left : rest < left}

RetryDrainEnds ==
    /\ phase = "rdrain"
    /\ left' \in Later
    /\ phase' = "retry"
    /\ UNCHANGED <<boot, seq, tx, retry, pending, table, last, history, airVars>>

\* What the four s_controller_last_* assignments publish.
Outcome ==
    [seq |-> seq, expected |-> Cardinality(expected), acked |-> Cardinality(acked),
     complete |-> Complete(expected, acked), members |-> expected, payload |-> tx]

Finish ==
    /\ phase = "finish"
    /\ last' = Outcome
    /\ phase' = "gap"
    /\ UNCHANGED <<boot, round, pending, table, history, airVars>>

\* Mutant of BetweenRounds: the wait after a round has no end.
BeforeRounds == {"idle"}

BetweenRounds == {"idle", "gap"}

\* End of the 100 ms idle slice, and of DATA_INTERVAL_MS after a round.
IdleDrainEnds ==
    /\ phase \in BetweenRounds
    /\ phase' = "top"
    /\ UNCHANGED <<boot, round, pending, table, last, history, airVars>>

\* The steps the mesh task takes on its own, without an event.
TaskStep == LoopTop \/ Broadcast \/ BroadcastDrainEnds \/ RetryEnds \/ RetryPass
               \/ RetryDrainEnds \/ Finish \/ IdleDrainEnds

\* espnow_mesh_send() from any task, when the slot is free.  With the slot taken
\* it returns ESP_ERR_NO_MEM and changes nothing.
Send ==
    /\ pending = NoPayload
    /\ accepted < MaxSend
    /\ pending' = accepted + 1 /\ accepted' = accepted + 1
    /\ UNCHANGED <<phase, boot, round, table, last, issued, airVars>>

\* init_boot_id(): esp_random(), taken to differ from every earlier boot's.
FreshBootId == boot + 1

\* Power cycle: RAM is lost.
CtlReboot ==
    /\ boot < MaxBoot
    /\ boot' = FreshBootId
    /\ phase' = "top" /\ seq' = 0
    /\ tx' = NoPayload /\ pending' = NoPayload
    /\ used' = {} /\ expected' = {} /\ acked' = {} /\ scheduled' = {}
    /\ sends' = [s \in Sats |-> 0]
    /\ retry' = 1 /\ left' = 0
    /\ last' = NothingFinished
    /\ ctlq' = <<>>
    /\ UNCHANGED <<satq, history>>

CtlNext == HandleEvent \/ TaskStep \/ Send \/ CtlReboot
=============================================================================
