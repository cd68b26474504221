--------------------------- MODULE MeshSatellite ---------------------------
(***************************************************************************)
(* The satellites' mesh tasks as far as the reliable fan-out is concerned  *)
(* (espnow_mesh.c: satellite_run, handle_satellite_data,                   *)
(* send_satellite_ack, request_time_sync_if_due, check_controller_timeout). *)
(*                                                                         *)
(* There is one controller here, so the lock (s_have_controller and         *)
(* s_controller_mac) is a flag.  The boot id and the sequence the satellite *)
(* remembers are 0 while s_have_controller_boot_id or s_have_last_sequence  *)
(* is false: the controller uses neither.                                   *)
(***************************************************************************)
EXTENDS MeshAir

CONSTANT MaxCrash   \* bound: satellite power cycles

ASSUME SatelliteAssumption == MaxCrash \in Nat

VARIABLES
    locked,     \* satellites with s_have_controller set
    satBoot,    \* s_controller_boot_id
    satLast,    \* s_last_sequence
    log,        \* history: payloads given to s_rx_cb since the satellite's boot
    got,        \* history: payloads ever given to s_rx_cb, over all its boots
    crashes     \* history: satellite power cycles so far

satVars == <<locked, satBoot, satLast, log, got, crashes>>

SatTypeOK ==
    /\ locked \subseteq Sats
    /\ satBoot \in [Sats -> Nat]
    /\ satLast \in [Sats -> Nat]
    /\ log \in [Sats -> Seq(Nat)]
    /\ got \in [Sats -> SUBSET Nat]
    /\ crashes \in Nat

SatInit ==
    /\ locked = {}
    /\ satBoot = [s \in Sats |-> 0]
    /\ satLast = [s \in Sats |-> 0]
    /\ log = [s \in Sats |-> <<>>]
    /\ got = [s \in Sats |-> {}]
    /\ crashes = 0
-----------------------------------------------------------------------------
\* Mutant of Remembered: a new boot id does not reset the sequence.
RememberedAcrossBoots(s, b) == satLast[s]

\* What s_last_sequence means for a frame of boot b: a new boot id clears it.
Remembered(s, b) == IF satBoot[s] = b THEN satLast[s] ELSE 0

\* seq_is_duplicate() away from the 32-bit wrap (SequenceWrap treats the wrap).
IsDuplicate(have, seqno, lastSeq) == have /\ seqno <= lastSeq

AckOf(s, f) == [type |-> "Ack", from |-> s, boot |-> f.boot, seq |-> f.seq]

\* handle_satellite_data() past the boot check, with the controller a peer: the
\* first copy goes to the callback, and every copy is acknowledged.
Accept(s, f) ==
    LET dup == IsDuplicate(Remembered(s, f.boot) # 0, f.seq, Remembered(s, f.boot))
    IN  /\ satLast' = [satLast EXCEPT ![s] = IF dup THEN Remembered(s, f.boot) ELSE f.seq]
        /\ log' = [log EXCEPT ![s] = IF dup THEN log[s] ELSE Append(log[s], f.payload)]
        /\ got' = [got EXCEPT ![s] = IF dup THEN got[s] ELSE got[s] \cup {f.payload}]
        /\ \E heard \in BOOLEAN : ctlq' = Arrives(ctlq, AckOf(s, f), heard)

\* add_peer_if_needed() failed: the lock and the boot id stay adopted, but the
\* frame is neither delivered nor acknowledged.
PeerFailed(s, f) ==
    /\ satLast' = [satLast EXCEPT ![s] = Remembered(s, f.boot)]
    /\ UNCHANGED <<log, got, ctlq>>

\* handle_satellite_data(): lock to the sender, adopt its boot id, then the above.
HandleData(s) ==
    /\ satq[s] # <<>>
    /\ LET f == Head(satq[s]) IN
           /\ f.type = "Data"
           /\ locked' = locked \cup {s}
           /\ satBoot' = [satBoot EXCEPT ![s] = f.boot]
           /\ Accept(s, f) \/ PeerFailed(s, f)
    /\ satq' = [satq EXCEPT ![s] = Tail(@)]
    /\ UNCHANGED crashes

\* handle_time_response() as the fan-out sees it: an event consumed.
HandleTimeResp(s) ==
    /\ satq[s] # <<>>
    /\ Head(satq[s]).type = "TimeResp"
    /\ satq' = [satq EXCEPT ![s] = Tail(@)]
    /\ UNCHANGED <<satVars, ctlq>>

\* request_time_sync_if_due(): only a locked satellite asks.
RequestTime(s) ==
    /\ s \in locked
    /\ ctlq' = Arrives(ctlq, [type |-> "TimeReq", from |-> s], TRUE)
    /\ UNCHANGED <<satVars, satq>>

\* attempt_registration_if_due() reached the registration AP, whose
\* AP_STACONNECTED event is queued at the controller.
Register(s) ==
    /\ s \notin locked
    /\ ctlq' = Arrives(ctlq, [type |-> "Registration", from |-> s], TRUE)
    /\ UNCHANGED <<satVars, satq>>

\* Mutant of ControllerTimeout: the sequence is forgotten with the lock.
ControllerTimeoutForgets(s) ==
    /\ s \in locked
    /\ locked' = locked \ {s}
    /\ satLast' = [satLast EXCEPT ![s] = 0]
    /\ UNCHANGED <<satBoot, log, got, crashes, airVars>>

\* check_controller_timeout(): the lock goes, boot id and sequence stay.
ControllerTimeout(s) ==
    /\ s \in locked
    /\ locked' = locked \ {s}
    /\ UNCHANGED <<satBoot, satLast, log, got, crashes, airVars>>

\* Power cycle of satellite s: RAM and the event queue are lost.
SatReboot(s) ==
    /\ crashes < MaxCrash
    /\ crashes' = crashes + 1
    /\ locked' = locked \ {s}
    /\ satBoot' = [satBoot EXCEPT ![s] = 0]
    /\ satLast' = [satLast EXCEPT ![s] = 0]
    /\ log' = [log EXCEPT ![s] = <<>>]
    /\ satq' = [satq EXCEPT ![s] = <<>>]
    /\ UNCHANGED <<got, ctlq>>

SatNext == \E s \in Sats :
    \/ HandleData(s) \/ HandleTimeResp(s) \/ RequestTime(s) \/ Register(s)
    \/ ControllerTimeout(s) \/ SatReboot(s)
=============================================================================
