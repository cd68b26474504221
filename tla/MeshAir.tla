------------------------------ MODULE MeshAir ------------------------------
(***************************************************************************)
(* The medium between one controller and its satellites, down to the event *)
(* queue in front of each mesh task.                                       *)
(*                                                                         *)
(* Abstracted: ESP-NOW itself is external.  It may lose any frame, and it   *)
(* keeps the frames of one sender in order.  A frame that fails the header  *)
(* check (mesh_rx_packet_type) is a lost frame.  SEND status events only    *)
(* occupy queue slots, so they appear as frames lost to a full queue.       *)
(***************************************************************************)
EXTENDS EventQueue

CONSTANT Sats       \* the satellites' MAC addresses

VARIABLES
    satq,       \* satq[s]: the event queue of satellite s
    ctlq        \* the event queue of the controller

airVars == <<satq, ctlq>>

\* What a satellite's mesh task acts on.  `payload` stands for the bytes
\* espnow_mesh_send() accepted: the number of the accepting call.
DataFrame == [type : {"Data"}, boot : Nat, seq : Nat, payload : Nat]
TimeResp  == [type : {"TimeResp"}]
SatEvent  == DataFrame \cup TimeResp

\* What the controller's mesh task acts on.
AckFrame     == [type : {"Ack"}, from : Sats, boot : Nat, seq : Nat]
TimeReq      == [type : {"TimeReq"}, from : Sats]
Registration == [type : {"Registration"}, from : Sats]
CtlEvent     == AckFrame \cup TimeReq \cup Registration

AirTypeOK ==
    /\ satq \in [Sats -> Seq(SatEvent)]
    /\ ctlq \in Seq(CtlEvent)

AirInit ==
    /\ satq = [s \in Sats |-> <<>>]
    /\ ctlq = <<>>

\* The satellites in `heard` receive frame f, everyone else misses it.
Transmit(f, heard) == satq' = AfterFrame(satq, f, heard)
=============================================================================
