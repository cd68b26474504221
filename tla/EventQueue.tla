----------------------------- MODULE EventQueue -----------------------------
(***************************************************************************)
(* s_event_queue of espnow_mesh.c: the FreeRTOS queue in front of each     *)
(* mesh task.  The Wi-Fi task enqueues with a zero timeout, so an event     *)
(* that meets a full queue is dropped and only counted                     *)
(* (queue_event_or_count_drop); the mesh task dequeues in FIFO order.       *)
(***************************************************************************)
EXTENDS Naturals, Sequences, Functions

CONSTANT QueueLen   \* CONFIG_ESPNOW_MESH_EVENT_QUEUE_LEN

ASSUME QueueAssumption == QueueLen \in Nat \ {0}

\* xQueueSend(s_event_queue, event, 0): dropped when the queue is full.
Enqueue(q, e) == IF Len(q) < QueueLen THEN Append(q, e) ELSE q

\* queue_recv_event() and queue_registration_event(): q is the queue before the
\* event arrives, `heard` tells whether it does.
Arrives(q, e, heard) == IF heard THEN Enqueue(q, e) ELSE q

\* The queues after the receivers in `heard` got one copy of f.
AfterFrame(queues, f, heard) ==
    [s \in DOMAIN queues |-> IF s \in heard THEN Enqueue(queues[s], f) ELSE queues[s]]
=============================================================================
