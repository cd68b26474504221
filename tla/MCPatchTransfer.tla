-------------------------- MODULE MCPatchTransfer --------------------------
(* Instances of PatchTransfer for TLC.  Restarts of both sides multiply the     *)
(* states, and so do several satellites: an instance that has both, one at a    *)
(* time.  Only steps of the environment are cut (who hears, sends or power       *)
(* cycles), never a step of the controller's task, so fairness means the same.  *)
EXTENDS PatchTransfer

\* The satellites that took part since they were switched on.
Present == {s \in Sats : \/ s \in used \cup locked
                         \/ satq[s] # <<>> \/ satBoot[s] # 0
                         \/ \E e \in Range(ctlq) : e.from = s}

\* The satellite that takes part in the behaviours with restarts.
Lone == CHOOSE s \in Sats : TRUE
Alone == Present \subseteq {Lone}

\* All of them in one boot, or one satellite and power cycles of both sides.
OneAtATime == (boot = 1 /\ crashes = 0) \/ Alone

\* They are interchangeable: the lone one is the first to take part.
InOrder == Lone \in Present \/ Present' \subseteq Present \cup {Lone}

\* Only the lone one is power cycled, under the first boot of its controller, sees its
\* controller restart, or loses its lock.
LoneSteps ==
    /\ boot' # boot \/ crashes' # crashes \/ ~ (locked \subseteq locked') => Alone
    /\ crashes' # crashes => boot = 1

Cut == LoneSteps /\ OneAtATime' /\ InOrder

PatchSpec == Init /\ [][Next /\ Cut]_vars /\ WF_vars(TaskStep)
=============================================================================
