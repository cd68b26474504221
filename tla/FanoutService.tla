--------------------------- MODULE FanoutService ---------------------------
(***************************************************************************)
(* What the component promises its applications (README.md and             *)
(* espnow_mesh.h), without frames, queues, retries or a satellite table:   *)
(*                                                                         *)
(*   - accepted payloads become rounds one at a time, in the order in which *)
(*     they were accepted, each at most once;                              *)
(*   - between two of its boots a satellite's callback sees each payload at *)
(*     most once and never an older one after a newer one, and sees only    *)
(*     payloads that became a round;                                       *)
(*   - a round reported complete had members, and every one of them had     *)
(*     been given exactly that round's payload;                            *)
(*   - a restart of the controller loses the queued payload and the report  *)
(*     and nothing that was delivered.                                     *)
(***************************************************************************)
EXTENDS Naturals, Sequences, SequencesExt

CONSTANT Sats

VARIABLES
    count,      \* payloads accepted so far; the n-th is the number n
    slot,       \* the queued payload, 0 for none
    current,    \* the payload of the current or latest round of this boot
    issued,     \* payloads that ever were a round
    log, got,   \* per satellite: delivered since its boot, delivered ever
    verdict     \* [payload, members, complete] of the latest finished round

svcVars == <<count, slot, current, issued, log, got, verdict>>

NoVerdict == [payload |-> 0, members |-> {}, complete |-> FALSE]

SvcInit ==
    /\ count = 0 /\ slot = 0 /\ current = 0 /\ issued = {}
    /\ log = [s \in Sats |-> <<>>]
    /\ got = [s \in Sats |-> {}]
    /\ verdict = NoVerdict

Submit ==
    /\ slot = 0
    /\ count' = count + 1 /\ slot' = count'
    /\ UNCHANGED <<current, issued, log, got, verdict>>

StartRound ==
    /\ slot # 0
    /\ \A p \in issued : p < slot
    /\ current' = slot /\ issued' = issued \cup {slot} /\ slot' = 0
    /\ UNCHANGED <<count, log, got, verdict>>

Deliver(s) == \E p \in issued :
    /\ log[s] # <<>> => Last(log[s]) < p
    /\ log' = [log EXCEPT ![s] = Append(@, p)]
    /\ got' = [got EXCEPT ![s] = @ \cup {p}]
    /\ UNCHANGED <<count, slot, current, issued, verdict>>

Report ==
    /\ current # 0
    /\ \E members \in SUBSET Sats, complete \in BOOLEAN :
           /\ complete => members # {} /\ \A s \in members : current \in got[s]
           /\ verdict' = [payload |-> current, members |-> members,
                          complete |-> complete]
    /\ UNCHANGED <<count, slot, current, issued, log, got>>

ControllerRestart ==
    /\ slot' = 0 /\ current' = 0 /\ verdict' = NoVerdict
    /\ UNCHANGED <<count, issued, log, got>>

SatelliteRestart(s) ==
    /\ log' = [log EXCEPT ![s] = <<>>]
    /\ UNCHANGED <<count, slot, current, issued, got, verdict>>

SvcNext ==
    \/ Submit \/ StartRound \/ Report \/ ControllerRestart
    \/ \E s \in Sats : Deliver(s) \/ SatelliteRestart(s)

SvcSpec == SvcInit /\ [][SvcNext]_svcVars
=============================================================================
