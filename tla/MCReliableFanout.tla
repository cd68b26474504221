-------------------------- MODULE MCReliableFanout --------------------------
(* Instances of ReliableFanout for TLC. *)
EXTENDS ReliableFanout, TLC

\* The satellites are interchangeable: no constant or initial value tells one
\* from another.
SatSymmetry == Permutations(Sats)
-----------------------------------------------------------------------------
(* Restarts of both sides multiply the states, and so do several satellites: an  *)
(* instance that has both, one at a time.  Only steps of the environment are cut *)
(* (who hears, sends or power cycles), never a step of the mesh task, so the     *)
(* fairness of LiveSpec means the same here.                                     *)

\* The satellites that took part since they were switched on.
Present == {s \in Sats : \/ s \in used \cup locked
                         \/ satq[s] # <<>> \/ satBoot[s] # 0
                         \/ \E e \in Range(ctlq) : e.from = s}

\* The satellite that takes part in the behaviours with restarts.
Lone == CHOOSE s \in Sats : TRUE
Alone == Present \subseteq {Lone}

\* One satellite, two rounds and power cycles of both sides, or all of them in one
\* round of one boot.
OneAtATime == Alone \/ (boot = 1 /\ crashes = 0 /\ accepted <= 1)

Cut == OneAtATime' /\ (boot' # boot \/ crashes' # crashes => Alone)

EndsSpec == Init /\ [][Next /\ Cut]_vars /\ Fairness
=============================================================================
