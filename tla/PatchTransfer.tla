--------------------------- MODULE PatchTransfer ---------------------------
(***************************************************************************)
(* The patch half of the HIL test build (espnow_mesh.c: hil_run_patch_case  *)
(* on the controller, handle_satellite_patch_offer, _block and _apply on    *)
(* the satellites): the controller repeats an offer, satellites pull block   *)
(* after block, report READY, and PATCH_APPLY is broadcast once everyone     *)
(* expected is ready.                                                       *)
(*                                                                         *)
(* Abstracted: the bytes of a patch are its patch id, which is the number of *)
(* its case, so a block is stored as that number and the full hash matches   *)
(* iff all blocks in s_patch_staging are of the offered patch; a block whose *)
(* own hash is wrong is a lost one.  Injected faults are losses.  The fields *)
(* every frame of one offer shares (hashes, counts, lengths) are its boot    *)
(* and sequence.  DATA and HIL commands, which also adopt a boot id but       *)
(* leave the staging area alone, are the frame Other; time requests and       *)
(* registrations, which only claim a slot of the table, the event Hello.      *)
(* One controller.                                                          *)
(***************************************************************************)
EXTENDS EventQueue, FiniteSets, FiniteSetsExt

CONSTANTS
    Sats,
    Patches,        \* the length of PATCH_HIL_CASES
    Blocks,         \* blocks per patch
    OfferTicks,     \* HIL_PATCH_DEADLINE_MS in offer intervals
    SendRetries, MaxSatellites,
    MaxBoot, MaxCrash   \* bounds: controller boots, satellite power cycles

ASSUME PatchAssumption ==
    /\ IsFiniteSet(Sats)
    /\ Patches \in Nat \ {0} /\ Blocks \in Nat \ {0}
    /\ OfferTicks \in Nat \ {0} /\ SendRetries \in Nat \ {0}
    /\ MaxSatellites \in Nat \ {0}
    /\ MaxBoot \in Nat \ {0} /\ MaxCrash \in Nat

VARIABLES
    phase, boot, attempt, left,     \* hil_run_patch_case
    seq,        \* its `sequence`; 0 before and after the patch cases
    used, expected, ready,          \* the table: hil_patch_ready_current
    agreed,     \* history: the PATCH STAGE RESULTs that were PASS
    satq, ctlq, \* event queues
    locked, satBoot,    \* per satellite: s_have_controller, s_controller_boot_id
    offer,      \* s_patch_sequence and s_patch_controller_boot_id, or NoOffer
    mask,       \* s_patch_received_mask
    staging,    \* s_patch_staging: which patch each block is from, 0 for none
    staged,     \* satellites with s_patch_ready
    current,    \* s_current_patch_id, 0 for one that a HIL command selected
    fetched,    \* history: the offers a satellite completed, ever
    applied,    \* history: the offers it scheduled an apply for, ever
    crashes     \* history: satellite power cycles

ctlVars   == <<phase, boot, attempt, left, seq>>
tableVars == <<used, expected, ready>>
airVars   == <<satq, ctlq>>
lockVars  == <<locked, satBoot>>
stageVars == <<offer, mask, staging, staged, current, fetched, applied>>
vars == <<ctlVars, tableVars, agreed, airVars, lockVars, stageVars, crashes>>

BlockIds == 1 .. Blocks
OfferId  == [boot : Nat, seq : 1 .. Patches]
NoOffer  == [boot |-> 0, seq |-> 0]

\* The frames for a satellite and for the controller.  `of` is the offer a frame
\* belongs to.
SatEvent == [type : {"Offer", "Apply"}, of : OfferId]
                \cup [type : {"Block"}, of : OfferId, block : BlockIds]
                \cup [type : {"Other"}, of : [boot : Nat]]
CtlEvent == [type : {"Req"}, from : Sats, of : OfferId, block : BlockIds]
                \cup [type : {"Ready", "Hello"}, from : Sats, of : OfferId \cup {NoOffer}]

Draining == {"before", "odrain", "adrain", "gap", "done"}
Phases   == Draining \cup {"start", "offer", "apply"}
InTransfer == {"offer", "odrain", "apply", "adrain", "gap"}

TypeOK ==
    /\ phase \in Phases /\ boot \in Nat
    /\ attempt \in 1 .. SendRetries /\ left \in 0 .. OfferTicks
    /\ seq \in 0 .. Patches
    /\ used \subseteq Sats /\ expected \subseteq used /\ ready \subseteq expected
    /\ agreed \in SUBSET [of : OfferId, members : SUBSET Sats]
    /\ satq \in [Sats -> Seq(SatEvent)] /\ ctlq \in Seq(CtlEvent)
    /\ locked \subseteq Sats /\ satBoot \in [Sats -> Nat]
    /\ offer \in [Sats -> OfferId \cup {NoOffer}]
    /\ mask \in [Sats -> SUBSET BlockIds]
    /\ staging \in [Sats -> [BlockIds -> 0 .. Patches]]
    /\ staged \subseteq Sats
    /\ current \in [Sats -> 0 .. Patches]
    /\ fetched \in [Sats -> SUBSET OfferId]
    /\ applied \in [Sats -> SUBSET OfferId]
    /\ crashes \in Nat

Init ==
    /\ phase = "before" /\ boot = 1 /\ attempt = 1 /\ left = 0 /\ seq = 0
    /\ used = {} /\ expected = {} /\ ready = {} /\ agreed = {}
    /\ satq = [s \in Sats |-> <<>>] /\ ctlq = <<>>
    /\ locked = {} /\ satBoot = [s \in Sats |-> 0]
    /\ offer = [s \in Sats |-> NoOffer] /\ mask = [s \in Sats |-> {}]
    /\ staging = [s \in Sats |-> [b \in BlockIds |-> 0]]
    /\ staged = {} /\ current = [s \in Sats |-> 0]
    /\ fetched = [s \in Sats |-> {}] /\ applied = [s \in Sats |-> {}]
    /\ crashes = 0
-----------------------------------------------------------------------------
(* The controller. *)

Active == [boot |-> boot, seq |-> seq]

\* Every broadcast of the controller.
Send(f) == \E heard \in SUBSET Sats : satq' = AfterFrame(satq, f, heard)

\* The discovery and command phase of this boot, as far as satellites' boot ids
\* are concerned; then the first patch case.
BeforePatches ==
    /\ phase = "before"
    /\ Send([type |-> "Other", of |-> [boot |-> boot]])
    /\ phase' = "start" /\ seq' = 1
    /\ UNCHANGED <<boot, attempt, left, tableVars, agreed, ctlq, lockVars, stageVars, crashes>>

\* hil_reset_patch_state().
ResetPatch == expected' = used /\ ready' = {}

StartCase ==
    /\ phase = "start"
    /\ ResetPatch
    /\ left' = OfferTicks /\ phase' = "offer"
    /\ UNCHANGED <<boot, attempt, seq, used, agreed, airVars, lockVars, stageVars, crashes>>

\* Mutant of Complete: one READY is enough.
CompleteOnFirstReady == ready # {}

\* hil_patch_complete().
Complete == expected # {} /\ expected \subseteq ready

Offer ==
    /\ phase = "offer" /\ ~ Complete /\ left > 0
    /\ Send([type |-> "Offer", of |-> Active])
    /\ phase' = "odrain"
    /\ UNCHANGED <<boot, attempt, left, seq, tableVars, agreed, ctlq, lockVars, stageVars, crashes>>

\* Mutant of Later: the deadline comes no closer.
NoTimePasses == {left}

Later == {rest \in 0 .. left : rest < left}

OfferDrainEnds ==
    /\ phase = "odrain"
    /\ left' \in Later
    /\ phase' = "offer"
    /\ UNCHANGED <<boot, attempt, seq, tableVars, agreed, airVars, lockVars, stageVars, crashes>>

\* The PATCH STAGE RESULT: apply if everyone expected is ready, else move on.
StageEnds ==
    /\ phase = "offer" /\ (Complete \/ left = 0)
    /\ phase' = IF Complete THEN "apply" ELSE "gap"
    /\ agreed' = IF Complete THEN agreed \cup {[of |-> Active, members |-> expected]}
                             ELSE agreed
    /\ attempt' = 1
    /\ UNCHANGED <<boot, left, seq, tableVars, airVars, lockVars, stageVars, crashes>>

Apply ==
    /\ phase = "apply"
    /\ Send([type |-> "Apply", of |-> Active])
    /\ phase' = "adrain"
    /\ UNCHANGED <<boot, attempt, left, seq, tableVars, agreed, ctlq, lockVars, stageVars, crashes>>

ApplyDrainEnds ==
    /\ phase = "adrain"
    /\ IF attempt < SendRetries
       THEN attempt' = attempt + 1 /\ phase' = "apply"
       ELSE attempt' = attempt /\ phase' = "gap"
    /\ UNCHANGED <<boot, left, seq, tableVars, agreed, airVars, lockVars, stageVars, crashes>>

GapEnds ==
    /\ phase = "gap"
    /\ IF seq < Patches THEN phase' = "start" /\ seq' = seq + 1
                        ELSE phase' = "done" /\ seq' = 0
    /\ UNCHANGED <<boot, attempt, left, tableVars, agreed, airVars, lockVars, stageVars, crashes>>

HasSlot(s) == s \in used \/ Cardinality(used) < MaxSatellites

\* Mutant of Counts: the boot id is not looked at.
CountsAnyBoot(e) == HasSlot(e.from) /\ e.of.seq = seq

\* The filters of hil_handle_patch_block_request() and hil_note_patch_ready().
Counts(e) == HasSlot(e.from) /\ e.of.boot = boot /\ e.of.seq = seq

\* hil_handle_patch_block_request(): the requester joins the table and is sent
\* the block; a failing peer or send is a lost frame.
AnswerRequest(e) ==
    /\ used' = used \cup {e.from}
    /\ \E heard \in SUBSET {e.from} :
           satq' = AfterFrame(satq, [type |-> "Block", of |-> e.of, block |-> e.block], heard)
    /\ UNCHANGED <<expected, ready>>

\* hil_note_patch_ready().
NoteReady(e) ==
    /\ used' = used \cup {e.from}
    /\ expected' = expected \cup {e.from} /\ ready' = ready \cup {e.from}
    /\ UNCHANGED satq

\* handle_time_request() and controller_note_registered_satellite().
NoteHello(e) ==
    /\ used' = IF HasSlot(e.from) THEN used \cup {e.from} ELSE used
    /\ UNCHANGED <<expected, ready, satq>>

\* hil_handle_controller_event().
HandleEvent ==
    /\ phase \in Draining /\ ctlq # <<>>
    /\ LET e == Head(ctlq) IN
           \/ e.type = "Hello" /\ NoteHello(e)
           \/ Counts(e) /\ e.type = "Req" /\ AnswerRequest(e)
           \/ Counts(e) /\ e.type = "Ready" /\ NoteReady(e)
           \/ e.type # "Hello" /\ ~ Counts(e) /\ UNCHANGED <<tableVars, satq>>
    /\ ctlq' = Tail(ctlq)
    /\ UNCHANGED <<ctlVars, agreed, lockVars, stageVars, crashes>>

CtlReboot ==
    /\ boot < MaxBoot
    /\ boot' = boot + 1
    /\ phase' = "before" /\ attempt' = 1 /\ left' = 0 /\ seq' = 0
    /\ used' = {} /\ expected' = {} /\ ready' = {}
    /\ ctlq' = <<>>
    /\ UNCHANGED <<agreed, satq, lockVars, stageVars, crashes>>
-----------------------------------------------------------------------------
(* The satellites. *)

\* What is left of the transfer when a frame of boot b is accepted: a new boot id
\* resets the staging state (hil_accept_controller_from_event()).
OfferAt(s, b)  == IF satBoot[s] = b THEN offer[s] ELSE NoOffer
MaskAt(s, b)   == IF satBoot[s] = b THEN mask[s] ELSE {}
StagedAt(s, b) == IF satBoot[s] = b THEN staged ELSE staged \ {s}

AcceptController(s, b) ==
    /\ locked' = locked \cup {s}
    /\ satBoot' = [satBoot EXCEPT ![s] = b]

\* hil_accept_controller_from_event() when add_peer_if_needed() fails: lock, boot
\* id and reset stand, the frame goes no further.
PeerFailed(s, b) ==
    /\ offer' = [offer EXCEPT ![s] = OfferAt(s, b)]
    /\ mask' = [mask EXCEPT ![s] = MaskAt(s, b)]
    /\ staged' = StagedAt(s, b)
    /\ UNCHANGED <<staging, current, fetched, applied, ctlq>>

\* hil_patch_request_next_missing(), in the state the handler has reached: READY
\* again, a request for the lowest missing block, or nothing; either may be lost.
RequestNextMissing(s) ==
    LET todo == BlockIds \ mask'[s]
    IN  \E heard \in BOOLEAN :
            \/ /\ s \in staged'
               /\ ctlq' = Arrives(ctlq, [type |-> "Ready", from |-> s, of |-> offer'[s]], heard)
            \/ /\ s \notin staged' /\ todo # {}
               /\ ctlq' = Arrives(ctlq, [type |-> "Req", from |-> s, of |-> offer'[s],
                                         block |-> Min(todo)], heard)
            \/ s \notin staged' /\ todo = {} /\ UNCHANGED ctlq

\* Mutant of TakeOffer: a new offer keeps the ready flag.
TakeOfferReady(s, o, same) ==
    /\ offer' = [offer EXCEPT ![s] = o]
    /\ mask' = [mask EXCEPT ![s] = IF same THEN MaskAt(s, o.boot) ELSE {}]
    /\ staged' = StagedAt(s, o.boot)
\* A repeated offer changes nothing, another one starts over.
TakeOffer(s, o, same) ==
    /\ offer' = [offer EXCEPT ![s] = o]
    /\ mask' = [mask EXCEPT ![s] = IF same THEN MaskAt(s, o.boot) ELSE {}]
    /\ staged' = IF same THEN StagedAt(s, o.boot) ELSE staged \ {s}

HandleOffer(s, f) ==
    /\ AcceptController(s, f.of.boot)
    /\ \/ PeerFailed(s, f.of.boot)
       \/ /\ TakeOffer(s, f.of, OfferAt(s, f.of.boot) = f.of)
          /\ RequestNextMissing(s)
          /\ UNCHANGED <<staging, current, fetched, applied>>

\* The block belongs to the active offer of the locked controller.
Wanted(s, f) == s \in locked /\ offer[s] = f.of

\* The full-patch hash of the staging area is the one offered.
FullHash(blocks, p) == \A b \in BlockIds : blocks[b] = p

\* handle_satellite_patch_block() for a block that is wanted and not dropped.
StoreBlock(s, f) ==
    LET blocks == [staging[s] EXCEPT ![f.block] = f.of.seq]
        have == mask[s] \cup {f.block}
        good == have = BlockIds /\ FullHash(blocks, f.of.seq)
    IN  /\ staging' = [staging EXCEPT ![s] = blocks]
        /\ mask' = [mask EXCEPT ![s] = IF have = BlockIds /\ ~ good THEN {} ELSE have]
        /\ staged' = IF good THEN staged \cup {s} ELSE staged
        /\ current' = IF good THEN [current EXCEPT ![s] = f.of.seq] ELSE current
        /\ fetched' = IF good THEN [fetched EXCEPT ![s] = @ \cup {f.of}] ELSE fetched
        /\ UNCHANGED <<offer, applied, lockVars>>
        /\ RequestNextMissing(s)

HandleBlock(s, f) ==
    \/ Wanted(s, f) /\ StoreBlock(s, f)
    \/ UNCHANGED <<stageVars, lockVars, ctlq>>      \* not wanted, or dropped

\* Mutant of MayApply: the ready flag is not looked at.
MayApplyOffered(s, f) == OfferAt(s, f.of.boot) = f.of

\* What handle_satellite_patch_apply() insists on.
MayApply(s, f) == s \in StagedAt(s, f.of.boot) /\ OfferAt(s, f.of.boot) = f.of

HandleApply(s, f) ==
    /\ AcceptController(s, f.of.boot)
    /\ \/ PeerFailed(s, f.of.boot)
       \/ /\ IF MayApply(s, f)
             THEN /\ current' = [current EXCEPT ![s] = f.of.seq]
                  /\ applied' = [applied EXCEPT ![s] = @ \cup {f.of}]
             ELSE UNCHANGED <<current, applied>>
          /\ offer' = [offer EXCEPT ![s] = OfferAt(s, f.of.boot)]
          /\ mask' = [mask EXCEPT ![s] = MaskAt(s, f.of.boot)]
          /\ staged' = StagedAt(s, f.of.boot)
          /\ UNCHANGED <<staging, fetched, ctlq>>

\* handle_satellite_data() and handle_satellite_hil_command(): the boot id is
\* adopted, the staging area is not reset; a command may select another patch.
HandleOther(s, f) ==
    /\ AcceptController(s, f.of.boot)
    /\ \E id \in {current[s], 0} : current' = [current EXCEPT ![s] = id]
    /\ UNCHANGED <<offer, mask, staging, staged, fetched, applied, ctlq>>

HandleFrame(s) ==
    /\ satq[s] # <<>>
    /\ LET f == Head(satq[s]) IN
           \/ f.type = "Offer" /\ HandleOffer(s, f)
           \/ f.type = "Block" /\ HandleBlock(s, f)
           \/ f.type = "Apply" /\ HandleApply(s, f)
           \/ f.type = "Other" /\ HandleOther(s, f)
    /\ satq' = [satq EXCEPT ![s] = Tail(@)]
    /\ UNCHANGED <<ctlVars, tableVars, agreed, crashes>>

\* request_time_sync_if_due() of a locked satellite; registration of another.
Greet(s) ==
    /\ ctlq' = Arrives(ctlq, [type |-> "Hello", from |-> s, of |-> NoOffer], TRUE)
    /\ UNCHANGED <<ctlVars, tableVars, agreed, satq, lockVars, stageVars, crashes>>

\* check_controller_timeout().
ControllerTimeout(s) ==
    /\ s \in locked
    /\ locked' = locked \ {s}
    /\ UNCHANGED <<ctlVars, tableVars, agreed, airVars, satBoot, stageVars, crashes>>

SatReboot(s) ==
    /\ crashes < MaxCrash
    /\ crashes' = crashes + 1
    /\ locked' = locked \ {s} /\ satBoot' = [satBoot EXCEPT ![s] = 0]
    /\ offer' = [offer EXCEPT ![s] = NoOffer] /\ mask' = [mask EXCEPT ![s] = {}]
    /\ staging' = [staging EXCEPT ![s] = [b \in BlockIds |-> 0]]
    /\ staged' = staged \ {s} /\ current' = [current EXCEPT ![s] = 0]
    /\ satq' = [satq EXCEPT ![s] = <<>>]
    /\ UNCHANGED <<ctlVars, tableVars, agreed, ctlq, fetched, applied>>
-----------------------------------------------------------------------------
TaskStep == BeforePatches \/ StartCase \/ Offer \/ OfferDrainEnds \/ StageEnds
              \/ Apply \/ ApplyDrainEnds \/ GapEnds

SatStep(s) == HandleFrame(s) \/ Greet(s) \/ ControllerTimeout(s) \/ SatReboot(s)

Next == TaskStep \/ HandleEvent \/ CtlReboot \/ \E s \in Sats : SatStep(s)

Spec == Init /\ [][Next]_vars

\* The controller's mesh task is always scheduled again and its waits end.
LiveSpec == Spec /\ WF_vars(TaskStep)
-----------------------------------------------------------------------------
\* A satellite that calls itself ready holds every block of the patch on offer,
\* whatever was left in the staging area by another patch, another boot or an
\* abandoned transfer.
StagedMeansWhole == \A s \in staged :
    /\ offer[s] # NoOffer /\ mask[s] = BlockIds
    /\ \A b \in BlockIds : staging[s][b] = offer[s].seq

\* The patch id of its HIL ACKs, set when a patch is staged and again when its apply
\* is scheduled, is that of a patch it has fetched whole, and of no other than the one
\* it holds ready.
CurrentIsHad == \A s \in Sats : current[s] # 0 =>
    /\ \E o \in fetched[s] : o.seq = current[s]
    /\ s \in staged => current[s] = offer[s].seq

\* What a satellite says of its patches is true: that it is ready (READY frames), and
\* which one it has (HIL ACKs).
ReportsWhatItHas == StagedMeansWhole /\ CurrentIsHad

\* A counted READY is from a satellite that has completed this very transfer: a
\* READY of an earlier case, an earlier boot or for an earlier offer of the same
\* number does not count.
ReadyTellsTheTruth ==
    phase \in InTransfer => \A s \in ready : Active \in fetched[s]

\* Apply-after-ready (README.md): nobody schedules an apply for a transfer unless
\* the controller declared it complete with every member having the whole patch,
\* and unless it has the whole patch itself.
AppliedTogether == \A s \in Sats : \A o \in applied[s] :
    /\ o \in fetched[s]
    /\ \E g \in agreed : /\ g.of = o /\ g.members # {}
                         /\ \A m \in g.members : o \in fetched[m]

\* At the moment of the apply the staging area is the patch that is applied, not
\* one that has overwritten it since it was announced ready.
AppliesWhatIsStaged ==
    [][\A s \in Sats : applied'[s] # applied[s] =>
           \A o \in applied'[s] \ applied[s] : \A b \in BlockIds : staging[s][b] = o.seq]_vars

\* The transfer implements the service the test bench relies on: cases are decided
\* once and in order across boots, and nobody goes back to an older one.
Service == INSTANCE PatchService WITH got <- fetched, decided <- agreed
ImplementsService == Service!SvcSpec

\* How far the patch cases have come: before the first, in one, at the end.
Stage == IF phase = "done" THEN Patches + 1 ELSE seq

\* An upper bound on the waits and transmissions that are left in this case.
TurnsLeft ==
    LET applies == SendRetries - attempt
    IN  CASE phase = "start"  -> 2 * (OfferTicks + SendRetries) + 3
          [] phase = "offer"  -> 2 * (left + SendRetries) + 2
          [] phase = "odrain" -> 2 * (left + SendRetries) + 1
          [] phase = "apply"  -> 2 * applies + 2
          [] phase = "adrain" -> 2 * applies + 1
          [] OTHER            -> 0

\* A step of the mesh task takes a turn or begins the next case, any other step
\* leaves both alone.
TakesTurn ==
    IF UNCHANGED phase THEN UNCHANGED <<Stage, TurnsLeft>>
    ELSE Stage' > Stage \/ (UNCHANGED Stage /\ TurnsLeft' < TurnsLeft)

\* Why the patch cases end, step by step (hil_run_patch_case()): each is run once, and
\* none keeps the task for more than its turns, whatever the satellites ask for.
PatchesRunOut == [][boot' = boot => TakesTurn /\ Stage' <= Stage + 1]_vars

\* The patch cases end, complete or at their deadlines, once the controller stops
\* rebooting.
PatchPlanCompletes == <>[](phase = "done")
=============================================================================
