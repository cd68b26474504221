---------------------------- MODULE PatchService ----------------------------
(***************************************************************************)
(* What the distribution of patches promises the test bench (README.md,     *)
(* "apply after ready"), without frames, blocks, staging areas or a table:   *)
(*                                                                         *)
(*   - each transfer of each boot is decided at most once, in the order of    *)
(*     the boots and of the patches, and only for a group in which everyone   *)
(*     has the whole patch;                                                *)
(*   - a satellite applies only what was decided and what it has, and never   *)
(*     an older transfer after a newer one.                                 *)
(*                                                                         *)
(* A satellite outside the group may apply too: it heard the offers, but its  *)
(* READY was lost before it was in the table.                               *)
(***************************************************************************)
EXTENDS Naturals

CONSTANT Sats

VARIABLES
    got,        \* per satellite: the transfers it ever had in full
    decided,    \* the transfers that became an apply, with their members
    applied     \* per satellite: the transfers it ever scheduled an apply for

svcVars == <<got, decided, applied>>

\* The order of transfers: by boot, then by patch.
Before(o, p) == o.boot < p.boot \/ (o.boot = p.boot /\ o.seq < p.seq)

SvcInit ==
    /\ got = [s \in Sats |-> {}] /\ applied = got
    /\ decided = {}

Obtain(s) == \E o \in got'[s] :
    /\ got' = [got EXCEPT ![s] = @ \cup {o}]
    /\ UNCHANGED <<decided, applied>>

Decide == \E d \in decided' \ decided :
    /\ decided' = decided \cup {d}
    /\ d.members # {} /\ \A m \in d.members : d.of \in got[m]
    /\ \A e \in decided : Before(e.of, d.of)
    /\ UNCHANGED <<got, applied>>

Apply(s) == \E d \in decided :
    /\ d.of \in got[s]
    /\ \A o \in applied[s] : Before(o, d.of)
    /\ applied' = [applied EXCEPT ![s] = @ \cup {d.of}]
    /\ UNCHANGED <<got, decided>>

SvcNext == Decide \/ \E s \in Sats : Obtain(s) \/ Apply(s)

SvcSpec == SvcInit /\ [][SvcNext]_svcVars
=============================================================================
