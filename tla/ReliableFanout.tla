--------------------------- MODULE ReliableFanout ---------------------------
(***************************************************************************)
(* One controller and its satellites over lossy air: the reliable fan-out  *)
(* from espnow_mesh_send() to the receive callback and back to the         *)
(* reported outcome.  The actions are those of MeshController and          *)
(* MeshSatellite; this module composes them and states what they must      *)
(* achieve together.                                                       *)
(***************************************************************************)
EXTENDS MeshController, MeshSatellite

vars == <<airVars, ctlVars, satVars>>

Init == AirInit /\ CtlInit /\ SatInit

Next == (CtlNext /\ UNCHANGED satVars) \/ (SatNext /\ UNCHANGED ctlVars)

Spec == Init /\ [][Next]_vars

\* The mesh task is always scheduled again and every wait in it has a deadline.
\* HandleEvent gets no fairness: nothing promises that an event is handled
\* before the deadline of the wait.
Fairness ==
    /\ WF_vars(LoopTop /\ UNCHANGED satVars)
    /\ WF_vars((Broadcast \/ BroadcastDrainEnds) /\ UNCHANGED satVars)
    /\ WF_vars((RetryEnds \/ RetryPass \/ RetryDrainEnds) /\ UNCHANGED satVars)
    /\ WF_vars((Finish \/ IdleDrainEnds) /\ UNCHANGED satVars)

LiveSpec == Spec /\ Fairness
-----------------------------------------------------------------------------
\* Every queue holds events of the right shape and every variable its type.
TypeOK == AirTypeOK /\ CtlTypeOK /\ SatTypeOK

\* A round reported as delivered was delivered: note_ack() counts an ACK for the
\* round only if the satellite that sent it has been given this round's payload,
\* however late, duplicated or left over from another boot the ACKs in the queue
\* are, and even though satellites ACK copies they did not deliver.
AckedMeansDelivered == \A s \in acked : tx \in got[s]

\* The same for the outcome the application reads: last_sequence_complete is
\* never TRUE for a payload that a member of the round was not given.
CompleteMeansDelivered ==
    last.complete => /\ last.members # {}
                     /\ \A s \in last.members : last.payload \in got[s]

\* One number, one payload: every copy in the air of the active sequence of this
\* boot carries the payload of the active round, although espnow_mesh_send() may
\* fill the slot again during the round (the reason s_tx_payload is a copy), and
\* no copy is from the future.
FramesCarryRoundPayload == \A s \in Sats : \A f \in Range(satq[s]) :
    f.type = "Data" =>
        /\ f.seq > 0 /\ f.boot <= boot
        /\ f.boot = boot => f.seq <= seq /\ (f.seq = seq => f.payload = tx)

\* An ACK in the controller's queue that names the active round was sent by a
\* satellite that has been given the payload of the active round.
AcksTellTheTruth == \A e \in Range(ctlq) :
    e.type = "Ack" =>
        /\ e.boot <= boot
        /\ e.boot = boot => e.seq <= seq /\ (e.seq = seq => tx \in got[e.from])

\* What a satellite remembers is a round of its past, and if it is the active
\* round its callback has had the payload.
SatellitesNotAhead == \A s \in Sats :
    /\ satBoot[s] <= boot
    /\ satBoot[s] = boot => /\ satLast[s] <= seq
                            /\ satLast[s] = seq /\ seq > 0 => tx \in got[s]

\* The inductive invariant behind AckedMeansDelivered and CompleteMeansDelivered.
DeliveryInv ==
    /\ TypeOK
    /\ phase \in InRound => seq > 0
    /\ FramesCarryRoundPayload
    /\ AcksTellTheTruth
    /\ SatellitesNotAhead
    /\ AckedMeansDelivered
    /\ CompleteMeansDelivered

\* A satellite's callback sees each payload at most once and in the order of the
\* espnow_mesh_send() calls, across restarts of the controller.
DeliveredOnceInOrder == \A s \in Sats : \A i, j \in DOMAIN log[s] :
    i < j => log[s][i] < log[s][j]

\* Deduplication swallows nothing: a copy that the satellite would treat as a
\* duplicate carries a payload its callback has seen since the satellite's boot,
\* so a satellite never ACKs a payload it has skipped.
DuplicatesWereDelivered == \A s \in Sats : satq[s] # <<>> =>
    LET f == Head(satq[s]) IN
        f.type = "Data" /\ f.seq <= Remembered(s, f.boot)
            => f.payload \in Range(log[s])

\* Attempts per satellite and round, broadcasts included, are bounded.  The cap is
\* the larger of the two settings: the broadcast loop does not look at
\* MaxAttempts.
EffortLimit == IF SendRetries > MaxAttempts THEN SendRetries ELSE MaxAttempts

BoundedEffort == \A s \in Sats : sends[s] <= EffortLimit

\* The inductive invariant behind it: before the `retry`-th broadcast nobody has
\* been sent to `retry` times.
EffortInv ==
    /\ TypeOK
    /\ BoundedEffort
    /\ phase = "broadcast" => \A s \in Sats : sends[s] < retry
    /\ phase = "bdrain" => \A s \in Sats : sends[s] <= retry

\* While a round runs, nobody leaves it and no acknowledgement is taken back:
\* eviction and the reset happen only between rounds.
KeepsRound ==
    /\ seq' = seq /\ tx' = tx
    /\ expected \subseteq expected' /\ acked \subseteq acked'

RoundOnlyGrows == [][boot' = boot /\ phase \in InRound => KeepsRound]_vars

\* An upper bound on the waits and transmissions that are left in the round.
TurnsLeft ==
    LET broadcasts == SendRetries - retry
    IN  CASE phase = "broadcast" -> 2 * (left + broadcasts) + 5
          [] phase = "bdrain"    -> 2 * (left + broadcasts) + 4
          [] phase = "retry"     -> 2 * left + 3
          [] phase = "rdrain"    -> 2 * left + 2
          [] phase = "finish"    -> 1
          [] OTHER               -> 0

\* A step of the mesh task takes a turn, any other step leaves them alone.
TakesTurn == IF UNCHANGED phase THEN UNCHANGED TurnsLeft ELSE TurnsLeft' < TurnsLeft

\* Why a round ends, step by step (reliable_retry_until_done_or_deadline() and the
\* broadcast loop): every turn of the mesh task uses up a broadcast or time to the
\* deadline, and no event, application or satellite gives any of it back.
RoundRunsOut == [][(phase \in InRound) => TakesTurn]_vars

\* The detailed protocol implements the service its applications rely on.
Service == INSTANCE FanoutService WITH
    count <- accepted, slot <- pending, current <- tx,
    verdict <- [payload |-> last.payload, members |-> last.members,
                complete |-> last.complete]
ImplementsService == Service!SvcSpec
-----------------------------------------------------------------------------
\* Every round ends: neither lost frames, nor silent satellites, nor a stream of
\* events keep the controller in it.
RoundEnds == phase \in InRound ~> phase \notin InRound

\* A queued payload leaves the slot, so a caller that retries after
\* ESP_ERR_NO_MEM gets its turn.
SlotDrains == pending # NoPayload ~> pending = NoPayload
=============================================================================
