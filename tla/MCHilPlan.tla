----------------------------- MODULE MCHilPlan -----------------------------
(* Instances of HilPlan for TLC.  Restarts of both sides multiply the states,  *)
(* and so do several satellites: an instance that has both, one at a time.     *)
(* Only steps of the environment are cut (who hears, sends or power cycles),   *)
(* never a step of the controller's task, so fairness means the same here.     *)
EXTENDS HilPlan

\* The satellites that took part since they were switched on.
Present == {s \in Sats : \/ s \in used \cup locked \cup discovered
                         \/ satq[s] # <<>> \/ satBoot[s] # 0
                         \/ \E e \in Range(ctlq) : e.from = s}

\* The satellite that takes part in the behaviours with restarts.
Lone == CHOOSE s \in Sats : TRUE
Alone == Present \subseteq {Lone}

\* One satellite with room for two frames while both sides power cycle; or all of
\* them in one boot, with queues of one event.
OneAtATime ==
    /\ Len(ctlq) <= 1
    /\ \/ Alone
       \/ boot = 1 /\ crashes = 0 /\ \A s \in Sats : Len(satq[s]) <= 1

Cut == OneAtATime' /\ (boot' # boot \/ crashes' # crashes => Alone)

PlanSpec == Init /\ [][Next /\ Cut]_vars /\ WF_vars(TaskStep)
=============================================================================
