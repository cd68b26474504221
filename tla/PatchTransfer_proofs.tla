------------------------ MODULE PatchTransfer_proofs ------------------------
(***************************************************************************)
(* Proofs about PatchTransfer, for any satellites, any number of patches    *)
(* and blocks, any configuration, and any number of restarts of both sides.  *)
(***************************************************************************)
EXTENDS PatchTransfer, FiniteSetTheorems, TLAPS
-----------------------------------------------------------------------------
\* The queues, over any set of events.  A dequeue takes an element of the queue
\* and leaves only elements of it.
LEMMA DequeueFacts ==
    ASSUME NEW S, NEW q \in Seq(S), q # <<>>
    PROVE  /\ Head(q) \in S /\ Head(q) \in Range(q)
           /\ Tail(q) \in Seq(S)
           /\ Range(Tail(q)) \subseteq Range(q)
BY DEF Range

\* An arrival that may be missed adds at most the event that arrives.
LEMMA ArrivesFacts ==
    ASSUME NEW S, NEW q \in Seq(S), NEW e \in S, NEW heard \in BOOLEAN
    PROVE  /\ Arrives(q, e, heard) \in Seq(S)
           /\ Range(Arrives(q, e, heard)) \subseteq Range(q) \cup {e}
BY DEF Arrives, Enqueue, Range

\* A broadcast leaves every receiver's queue well formed and adds to it at most
\* the frame that was sent.
LEMMA AfterFrameFacts ==
    ASSUME NEW R, NEW S, NEW qs \in [R -> Seq(S)], NEW f \in S, NEW heard
    PROVE  /\ AfterFrame(qs, f, heard) \in [R -> Seq(S)]
           /\ \A r \in R : Range(AfterFrame(qs, f, heard)[r]) \subseteq Range(qs[r]) \cup {f}
<1>1. \A r \in R : /\ AfterFrame(qs, f, heard)[r] \in Seq(S)
                   /\ Range(AfterFrame(qs, f, heard)[r]) \subseteq Range(qs[r]) \cup {f}
  <2> TAKE r \in R
  <2>1. CASE r \in heard
    BY <2>1, ArrivesFacts DEF AfterFrame, Arrives
  <2>2. CASE r \notin heard
    BY <2>2 DEF AfterFrame
  <2> QED BY <2>1, <2>2
<1> QED BY <1>1 DEF AfterFrame
-----------------------------------------------------------------------------
\* Of a finite set of naturals there is a least one: the sets of the elements
\* below an element are ordered by inclusion, and one of them is minimal.
LEMMA MinFacts ==
    ASSUME NEW T \in SUBSET Nat, IsFiniteSet(T), T # {}
    PROVE  Min(T) \in T /\ \A t \in T : Min(T) <= t
<1> DEFINE below(t) == {u \in T : u < t}
           family == {below(t) : t \in T}
           R == StrictSubsetOrdering(T)
<1>1. IsWellFoundedOn(R, SUBSET T)
  BY FS_StrictSubsetOrderingWellFounded, FS_FiniteSubsetsOfFinite
<1>2. family \subseteq SUBSET T /\ family # {}
  OBVIOUS
<1>3. PICK B \in family : \A C \in family : <<C, B>> \notin R
  <2> HIDE DEF family, R
  <2>1. \E B \in family : \A C \in family : ~ (<<C, B>> \in R)
    BY <1>1, <1>2, WFMin
  <2> QED BY <2>1
<1>4. PICK t \in T : B = below(t)
  BY <1>3
<1>5. \A u \in T : t <= u
  <2> SUFFICES ASSUME NEW u \in T, u < t PROVE FALSE
    OBVIOUS
  <2>0. T \subseteq Nat /\ t \in Nat /\ u \in Nat
    OBVIOUS
  <2>1. below(u) \subseteq B /\ u \in B /\ u \notin below(u)
    <3>0. \A w \in Nat : w < u => w < t
      BY <2>0
    <3>1. below(u) \subseteq below(t)
      BY <2>0, <3>0, Zenon
    <3>2. u \in below(t) /\ u \notin below(u)
      BY <2>0
    <3> QED BY <1>4, <3>1, <3>2
  <2>2. <<below(u), B>> \in R
    BY <1>2, <1>3, <2>1 DEF StrictSubsetOrdering
  <2> QED BY <1>3, <2>2
<1> QED BY <1>5 DEF Min

\* The block a satellite asks for next is a missing one.
LEMMA NextMissing ==
    ASSUME NEW todo \in SUBSET BlockIds, todo # {}
    PROVE  Min(todo) \in todo
<1>1. BlockIds \subseteq Nat /\ IsFiniteSet(BlockIds)
  BY PatchAssumption, FS_Interval DEF BlockIds
<1> QED BY <1>1, MinFacts, FS_Subset
-----------------------------------------------------------------------------
(***************************************************************************)
(* Types.  Every frame of a case names a case, which needs to know that the  *)
(* controller has a case number whenever it sends one.                      *)
(***************************************************************************)
CaseNumbered ==
    /\ phase \notin {"before", "done"} => seq \in 1 .. Patches
    /\ phase \in {"before", "done"} => seq = 0

TypeInv == TypeOK /\ CaseNumbered

\* A broadcast leaves the satellites' queues well formed and adds to each at most
\* the frame that was sent.
LEMMA SendFacts ==
    ASSUME TypeOK, NEW f \in SatEvent, Send(f)
    PROVE  /\ satq' \in [Sats -> Seq(SatEvent)]
           /\ \A s \in Sats : Range(satq'[s]) \subseteq Range(satq[s]) \cup {f}
  <1>1. PICK heard \in SUBSET Sats : satq' = AfterFrame(satq, f, heard)
    BY DEF Send
  <1>2. satq \in [Sats -> Seq(SatEvent)]
    BY DEF TypeOK
  <1> QED BY <1>1, <1>2, AfterFrameFacts

\* The shapes of what is sent.
LEMMA FrameTypes ==
    ASSUME TypeOK
    PROVE  /\ [type |-> "Other", of |-> [boot |-> boot]] \in SatEvent
           /\ seq \in 1 .. Patches =>
                  /\ Active \in OfferId
                  /\ [type |-> "Offer", of |-> Active] \in SatEvent
                  /\ [type |-> "Apply", of |-> Active] \in SatEvent
           /\ \A o \in OfferId, b \in BlockIds :
                  [type |-> "Block", of |-> o, block |-> b] \in SatEvent
           /\ \A s \in Sats, o \in OfferId, b \in BlockIds :
                  [type |-> "Req", from |-> s, of |-> o, block |-> b] \in CtlEvent
           /\ \A s \in Sats, o \in OfferId \cup {NoOffer}, t \in {"Ready", "Hello"} :
                  [type |-> t, from |-> s, of |-> o] \in CtlEvent
  BY DEF TypeOK, SatEvent, CtlEvent, Active, OfferId

\* The initial state has the types.
LEMMA InitTypeInv == Init => TypeInv
  BY PatchAssumption
     DEF Init, TypeInv, TypeOK, CaseNumbered, Phases, Draining, OfferId, NoOffer, BlockIds

\* What an event at the controller is.
LEMMA CtlEventFacts ==
    ASSUME NEW e \in CtlEvent
    PROVE  /\ e.from \in Sats
           /\ e.type \in {"Req", "Ready", "Hello"}
           /\ e.type = "Req" => e.of \in OfferId /\ e.block \in BlockIds
           /\ e.type = "Ready" => e.of \in OfferId \cup {NoOffer}
  BY DEF CtlEvent

\* What a frame at a satellite is.
LEMMA SatEventFacts ==
    ASSUME NEW f \in SatEvent
    PROVE  /\ f.type \in {"Offer", "Apply", "Block", "Other"}
           /\ f.type # "Other" => f.of \in OfferId
           /\ f.type = "Block" => f.block \in BlockIds
           /\ f.of.boot \in Nat
  BY DEF SatEvent, OfferId

\* The controller's steps.
LEMMA ControllerTypeInv ==
    ASSUME TypeInv, TaskStep \/ HandleEvent \/ CtlReboot
    PROVE  TypeInv'
  <1> USE PatchAssumption DEF TypeInv, TypeOK, CaseNumbered, Phases, Draining,
          tableVars, airVars, lockVars, stageVars
  <1>1. CASE BeforePatches
    BY <1>1, SendFacts, FrameTypes DEF BeforePatches
  <1>2. CASE StartCase
    BY <1>2 DEF StartCase, ResetPatch
  <1>3. CASE Offer
    BY <1>3, SendFacts, FrameTypes DEF Offer
  <1>4. CASE OfferDrainEnds
    BY <1>4 DEF OfferDrainEnds, Later
  <1>5. CASE StageEnds
    BY <1>5, FrameTypes DEF StageEnds
  <1>6. CASE Apply
    BY <1>6, SendFacts, FrameTypes DEF Apply
  <1>7. CASE ApplyDrainEnds
    BY <1>7 DEF ApplyDrainEnds
  <1>8. CASE GapEnds
    BY <1>8 DEF GapEnds
  <1>9. CASE HandleEvent
    <2> DEFINE e == Head(ctlq)
    <2>1. e \in CtlEvent /\ ctlq' \in Seq(CtlEvent)
      BY <1>9, DequeueFacts DEF HandleEvent
    <2>2. UNCHANGED <<ctlVars, agreed, lockVars, stageVars, crashes>>
      BY <1>9 DEF HandleEvent
    <2>3. CASE e.type = "Hello" /\ NoteHello(e)
      BY <2>1, <2>2, <2>3, CtlEventFacts DEF NoteHello, ctlVars
    <2>4. CASE e.type = "Req" /\ AnswerRequest(e)
      <3> DEFINE blk == [type |-> "Block", of |-> e.of, block |-> e.block]
      <3>1. blk \in SatEvent
        BY <2>1, <2>4, CtlEventFacts, FrameTypes
      <3>2. satq' \in [Sats -> Seq(SatEvent)]
        <4>1. PICK heard : satq' = AfterFrame(satq, blk, heard)
          BY <2>4 DEF AnswerRequest
        <4> HIDE DEF blk
        <4> QED BY <3>1, <4>1, AfterFrameFacts
      <3> QED BY <2>1, <2>2, <2>4, <3>2, CtlEventFacts DEF AnswerRequest, ctlVars
    <2>5. CASE NoteReady(e)
      BY <2>1, <2>2, <2>5, CtlEventFacts DEF NoteReady, ctlVars
    <2>6. CASE UNCHANGED <<tableVars, satq>>
      BY <2>1, <2>2, <2>6 DEF ctlVars
    <2> QED BY <1>9, <2>3, <2>4, <2>5, <2>6 DEF HandleEvent
  <1>10. CASE CtlReboot
    BY <1>10 DEF CtlReboot
  <1> QED BY <1>1, <1>2, <1>3, <1>4, <1>5, <1>6, <1>7, <1>8, <1>9, <1>10 DEF TaskStep

\* What is left of a transfer when a frame is accepted has its type.
LEMMA TransferLeft ==
    ASSUME TypeOK, NEW s \in Sats, NEW b \in Nat
    PROVE  /\ OfferAt(s, b) \in OfferId \cup {NoOffer}
           /\ MaskAt(s, b) \in SUBSET BlockIds
           /\ StagedAt(s, b) \in SUBSET Sats
  BY DEF TypeOK, OfferAt, MaskAt, StagedAt

\* What a satellite sends when it looks for the next missing block.
LEMMA RequestFacts ==
    ASSUME ctlq \in Seq(CtlEvent), NEW s \in Sats, RequestNextMissing(s),
           mask'[s] \in SUBSET BlockIds, offer'[s] \in OfferId
    PROVE  /\ ctlq' \in Seq(CtlEvent)
           /\ \A e \in Range(ctlq') :
                  \/ e \in Range(ctlq)
                  \/ e.type = "Req"
                  \/ e = [type |-> "Ready", from |-> s, of |-> offer'[s]] /\ s \in staged'
  <1> DEFINE todo == BlockIds \ mask'[s]
             rdy == [type |-> "Ready", from |-> s, of |-> offer'[s]]
             req == [type |-> "Req", from |-> s, of |-> offer'[s], block |-> Min(todo)]
  <1>0. todo # {} => Min(todo) \in BlockIds
    <2> HIDE DEF todo
    <2>1. todo \subseteq BlockIds
      BY DEF todo
    <2> QED BY <2>1, NextMissing
  <1>1. rdy \in CtlEvent /\ (todo # {} => req \in CtlEvent /\ req.type = "Req")
    <2> HIDE DEF todo
    <2> QED BY <1>0 DEF CtlEvent
  <1>2. PICK heard \in BOOLEAN :
            \/ s \in staged' /\ ctlq' = Arrives(ctlq, rdy, heard)
            \/ s \notin staged' /\ todo # {} /\ ctlq' = Arrives(ctlq, req, heard)
            \/ UNCHANGED ctlq
    BY DEF RequestNextMissing
  <1> HIDE DEF rdy, req, todo
  <1>3. CASE s \in staged' /\ ctlq' = Arrives(ctlq, rdy, heard)
    BY <1>1, <1>3, ArrivesFacts DEF rdy
  <1>4. CASE todo # {} /\ ctlq' = Arrives(ctlq, req, heard)
    BY <1>1, <1>4, ArrivesFacts
  <1> QED BY <1>2, <1>3, <1>4

\* The satellites' steps.
LEMMA SatelliteTypeInv ==
    ASSUME TypeInv, NEW s \in Sats, SatStep(s)
    PROVE  TypeInv'
  <1> USE PatchAssumption DEF TypeInv, TypeOK, CaseNumbered, tableVars, airVars,
          lockVars, stageVars, ctlVars
  <1>1. CASE HandleFrame(s)
    <2> DEFINE f == Head(satq[s])
    <2>1. f \in SatEvent /\ Tail(satq[s]) \in Seq(SatEvent)
      BY <1>1, DequeueFacts DEF HandleFrame
    <2>2. /\ satq' \in [Sats -> Seq(SatEvent)]
          /\ UNCHANGED <<ctlVars, tableVars, agreed, crashes>>
      BY <1>1, <2>1 DEF HandleFrame
    <2>3. AcceptController(s, f.of.boot) =>
              locked' \in SUBSET Sats /\ satBoot' \in [Sats -> Nat]
      BY <2>1, SatEventFacts DEF AcceptController
    <2>4. PeerFailed(s, f.of.boot) => /\ offer' \in [Sats -> OfferId \cup {NoOffer}]
                                      /\ mask' \in [Sats -> SUBSET BlockIds]
                                      /\ staged' \in SUBSET Sats
      BY <2>1, SatEventFacts, TransferLeft DEF PeerFailed
    <2>5. CASE f.type = "Offer" /\ HandleOffer(s, f)
      <3>1. CASE PeerFailed(s, f.of.boot)
        BY <2>2, <2>3, <2>4, <2>5, <3>1 DEF HandleOffer, PeerFailed
      <3>2. CASE /\ TakeOffer(s, f.of, OfferAt(s, f.of.boot) = f.of)
                 /\ RequestNextMissing(s)
                 /\ UNCHANGED <<staging, current, fetched, applied>>
        <4>1. /\ offer' \in [Sats -> OfferId \cup {NoOffer}]
              /\ mask' \in [Sats -> SUBSET BlockIds]
              /\ staged' \in SUBSET Sats
          BY <2>1, <2>5, <3>2, SatEventFacts, TransferLeft DEF TakeOffer
        <4>2. offer'[s] \in OfferId
          BY <2>1, <2>5, <3>2, SatEventFacts DEF TakeOffer
        <4>3. ctlq' \in Seq(CtlEvent)
          BY <3>2, <4>1, <4>2, RequestFacts
        <4> QED BY <2>2, <2>3, <2>5, <3>2, <4>1, <4>3 DEF HandleOffer
      <3> QED BY <2>5, <3>1, <3>2 DEF HandleOffer
    <2>6. CASE f.type = "Block" /\ HandleBlock(s, f)
      <3>1. CASE Wanted(s, f) /\ StoreBlock(s, f)
        <4>1. f.of \in OfferId /\ f.of.seq \in 1 .. Patches /\ f.block \in BlockIds
          BY <2>1, <2>6, SatEventFacts DEF OfferId
        <4>2. staging' \in [Sats -> [BlockIds -> 0 .. Patches]]
          BY <3>1, <4>1 DEF StoreBlock
        <4>3. mask' \in [Sats -> SUBSET BlockIds]
          BY <3>1, <4>1 DEF StoreBlock
        <4>4. current' \in [Sats -> 0 .. Patches] /\ fetched' \in [Sats -> SUBSET OfferId]
              /\ staged' \in SUBSET Sats
          BY <3>1, <4>1 DEF StoreBlock
        <4>5. offer' = offer /\ offer[s] \in OfferId /\ applied' = applied
              /\ UNCHANGED lockVars
          BY <3>1, <4>1 DEF StoreBlock, Wanted
        <4>6. ctlq' \in Seq(CtlEvent)
          BY <3>1, <4>3, <4>5, RequestFacts DEF StoreBlock
        <4> QED BY <2>2, <4>2, <4>3, <4>4, <4>5, <4>6
      <3>2. CASE UNCHANGED <<stageVars, lockVars, ctlq>>
        BY <2>2, <3>2
      <3> QED BY <2>6, <3>1, <3>2 DEF HandleBlock
    <2>7. CASE f.type = "Apply" /\ HandleApply(s, f)
      <3>1. CASE PeerFailed(s, f.of.boot)
        BY <2>2, <2>3, <2>4, <2>7, <3>1 DEF HandleApply, PeerFailed
      <3>2. CASE /\ IF MayApply(s, f)
                    THEN /\ current' = [current EXCEPT ![s] = f.of.seq]
                         /\ applied' = [applied EXCEPT ![s] = @ \cup {f.of}]
                    ELSE UNCHANGED <<current, applied>>
                 /\ offer' = [offer EXCEPT ![s] = OfferAt(s, f.of.boot)]
                 /\ mask' = [mask EXCEPT ![s] = MaskAt(s, f.of.boot)]
                 /\ staged' = StagedAt(s, f.of.boot)
                 /\ UNCHANGED <<staging, fetched, ctlq>>
        <4>1. f.of \in OfferId /\ f.of.seq \in 1 .. Patches /\ f.of.boot \in Nat
          BY <2>1, <2>7, SatEventFacts DEF OfferId
        <4>2. current' \in [Sats -> 0 .. Patches] /\ applied' \in [Sats -> SUBSET OfferId]
          <5>1. CASE MayApply(s, f)
            <6>1. /\ current' = [current EXCEPT ![s] = f.of.seq]
                  /\ applied' = [applied EXCEPT ![s] = @ \cup {f.of}]
              BY <3>2, <5>1
            <6>2. applied[s] \cup {f.of} \in SUBSET OfferId /\ f.of.seq \in 0 .. Patches
              BY <4>1
            <6> HIDE DEF f
            <6> QED BY <6>1, <6>2
          <5>2. CASE ~ MayApply(s, f)
            BY <3>2, <5>2
          <5> QED BY <5>1, <5>2
        <4>3. /\ offer' \in [Sats -> OfferId \cup {NoOffer}]
              /\ mask' \in [Sats -> SUBSET BlockIds]
              /\ staged' \in SUBSET Sats
          <5>1. /\ OfferAt(s, f.of.boot) \in OfferId \cup {NoOffer}
                /\ MaskAt(s, f.of.boot) \in SUBSET BlockIds
                /\ StagedAt(s, f.of.boot) \in SUBSET Sats
            BY <4>1, TransferLeft
          <5> QED BY <3>2, <5>1
        <4>4. UNCHANGED <<staging, fetched, ctlq>>
          BY <3>2
        <4> QED BY <2>2, <2>3, <2>7, <4>2, <4>3, <4>4 DEF HandleApply
      <3> QED BY <2>7, <3>1, <3>2 DEF HandleApply
    <2>8. CASE f.type = "Other" /\ HandleOther(s, f)
      BY <2>2, <2>3, <2>8 DEF HandleOther
    <2> QED BY <1>1, <2>5, <2>6, <2>7, <2>8 DEF HandleFrame
  <1>2. CASE Greet(s)
    <2> DEFINE h == [type |-> "Hello", from |-> s, of |-> NoOffer]
    <2>1. h \in CtlEvent
      BY FrameTypes
    <2>2. ctlq \in Seq(CtlEvent) /\ ctlq' = Arrives(ctlq, h, TRUE)
      BY <1>2 DEF Greet
    <2> HIDE DEF h
    <2>3. ctlq' \in Seq(CtlEvent)
      BY <2>1, <2>2, ArrivesFacts
    <2> QED BY <1>2, <2>3 DEF Greet
  <1>3. CASE ControllerTimeout(s)
    BY <1>3 DEF ControllerTimeout
  <1>4. CASE SatReboot(s)
    BY <1>4 DEF SatReboot
  <1> QED BY <1>1, <1>2, <1>3, <1>4 DEF SatStep

\* Types, and that only satellites of the table are expected and only expected ones
\* are ready: hil_patch_complete() compares nothing else.
THEOREM TypeCorrect == Spec => []TypeOK
  <1>1. TypeInv /\ [Next]_vars => TypeInv'
    <2> SUFFICES ASSUME TypeInv, [Next]_vars PROVE TypeInv'
      OBVIOUS
    <2>1. CASE TaskStep \/ HandleEvent \/ CtlReboot
      BY <2>1, ControllerTypeInv
    <2>2. CASE \E s \in Sats : SatStep(s)
      BY <2>2, SatelliteTypeInv
    <2>3. CASE UNCHANGED vars
      BY <2>3 DEF vars, ctlVars, tableVars, airVars, lockVars, stageVars, TypeInv,
         TypeOK, CaseNumbered
    <2> QED BY <2>1, <2>2, <2>3 DEF Next
  <1>2. TypeInv => TypeOK
    BY DEF TypeInv
  <1> QED BY <1>1, <1>2, InitTypeInv, PTL DEF Spec

\* A case has only so many turns left.
LEMMA TurnsAreNat == TypeOK => Stage \in 0 .. Patches + 1 /\ TurnsLeft \in Nat
  <1> SUFFICES ASSUME TypeOK PROVE Stage \in 0 .. Patches + 1 /\ TurnsLeft \in Nat
    OBVIOUS
  <1>1. /\ Patches \in Nat /\ SendRetries \in Nat /\ OfferTicks \in Nat
        /\ seq \in 0 .. Patches /\ attempt \in 1 .. SendRetries /\ left \in 0 .. OfferTicks
    BY PatchAssumption DEF TypeOK
  <1> QED BY <1>1 DEF Stage, TurnsLeft

\* Each turn of the controller's task leaves fewer of the case, or ends it and begins
\* the next one: the patch cases run one by one to their end.
THEOREM PatchesKeepMoving == Spec => PatchesRunOut
  <1>1. TypeInv /\ [Next]_vars => (boot' = boot => TakesTurn /\ Stage' <= Stage + 1)
    <2> SUFFICES ASSUME TypeInv, [Next]_vars, boot' = boot
                 PROVE  TakesTurn /\ Stage' <= Stage + 1
      OBVIOUS
    <2>t. /\ Patches \in Nat \ {0} /\ SendRetries \in Nat \ {0} /\ OfferTicks \in Nat \ {0}
          /\ seq \in 0 .. Patches /\ attempt \in 1 .. SendRetries /\ left \in 0 .. OfferTicks
      BY PatchAssumption DEF TypeInv, TypeOK
    <2>s. ASSUME UNCHANGED <<phase, seq, attempt, left>>
          PROVE  TakesTurn /\ Stage' <= Stage + 1
      BY <2>s, <2>t DEF TakesTurn, TurnsLeft, Stage
    <2>1. CASE BeforePatches
      BY <2>1, <2>t DEF BeforePatches, TakesTurn, TurnsLeft, Stage, TypeInv, CaseNumbered
    <2>2. CASE StartCase
      BY <2>2, <2>t DEF StartCase, TakesTurn, TurnsLeft, Stage
    <2>3. CASE Offer \/ OfferDrainEnds
      BY <2>3, <2>t DEF Offer, OfferDrainEnds, Later, TakesTurn, TurnsLeft, Stage
    <2>4. CASE StageEnds
      BY <2>4, <2>t DEF StageEnds, TakesTurn, TurnsLeft, Stage
    <2>5. CASE Apply \/ ApplyDrainEnds
      BY <2>5, <2>t DEF Apply, ApplyDrainEnds, TakesTurn, TurnsLeft, Stage
    <2>6. CASE GapEnds
      BY <2>6, <2>t DEF GapEnds, TakesTurn, TurnsLeft, Stage
    <2>7. CASE HandleEvent
      BY <2>7, <2>s DEF HandleEvent, ctlVars
    <2>8. CASE CtlReboot
      BY <2>8 DEF CtlReboot, TypeInv, TypeOK
    <2>9. CASE \E s \in Sats : SatStep(s)
      BY <2>9, <2>s DEF SatStep, HandleFrame, Greet, ControllerTimeout, SatReboot, ctlVars
    <2>10. CASE UNCHANGED vars
      BY <2>10, <2>s DEF vars, ctlVars
    <2> QED BY <2>1, <2>2, <2>3, <2>4, <2>5, <2>6, <2>7, <2>8, <2>9, <2>10 DEF Next, TaskStep
  <1>2. TypeInv /\ [Next]_vars => TypeInv'
    <2>1. CASE UNCHANGED vars
      BY <2>1 DEF vars, ctlVars, tableVars, airVars, lockVars, stageVars, TypeInv,
         TypeOK, CaseNumbered
    <2> QED BY <2>1, ControllerTypeInv, SatelliteTypeInv DEF Next
  <1> QED BY <1>1, <1>2, InitTypeInv, PTL DEF Spec, PatchesRunOut
-----------------------------------------------------------------------------
(***************************************************************************)
(* Apply-after-ready.  PatchInv is inductive.  On a satellite: a block counts *)
(* as received only if it is the offer's, so a full mask is a whole patch and  *)
(* a satellite that is ready has fetched what it has on offer.  In the air:   *)
(* a READY names an offer its sender has fetched, an apply one that was agreed. *)
(* On the controller: who is counted ready has fetched the active offer.       *)
(***************************************************************************)
BlocksAreOfOffer == \A s \in Sats : \A b \in mask[s] : staging[s][b] = offer[s].seq

StagedIsFetched == \A s \in staged :
    offer[s] # NoOffer /\ mask[s] = BlockIds /\ offer[s] \in fetched[s]

ReadyFramesTrue == \A e \in Range(ctlq) : e.type = "Ready" => e.of \in fetched[e.from]

AgreedIsFetched == \A g \in agreed :
    g.members # {} /\ \A m \in g.members : g.of \in fetched[m]

Agreed(o) == \E g \in agreed : g.of = o

AppliesAreAgreed ==
    /\ \A s \in Sats : \A f \in Range(satq[s]) : f.type = "Apply" => Agreed(f.of)
    /\ phase \in {"apply", "adrain"} => Agreed(Active)

AppliedIsFetched == \A s \in Sats : \A o \in applied[s] : o \in fetched[s] /\ Agreed(o)

PatchInv ==
    /\ TypeInv
    /\ BlocksAreOfOffer /\ StagedIsFetched
    /\ ReadyFramesTrue /\ ReadyTellsTheTruth
    /\ AgreedIsFetched /\ AppliesAreAgreed /\ AppliedIsFetched

\* Nothing is offered or staged yet.
LEMMA InitPatchInv == Init => PatchInv
  <1> SUFFICES ASSUME Init PROVE PatchInv
    OBVIOUS
  <1>1. TypeInv
    BY InitTypeInv
  <1> QED BY <1>1 DEF Init, PatchInv, BlocksAreOfOffer, StagedIsFetched, ReadyFramesTrue,
          ReadyTellsTheTruth, AgreedIsFetched, AppliesAreAgreed, AppliedIsFetched,
          Agreed, InTransfer, Range

\* The controller's steps: StageEnds turns readiness into an agreement, and Apply
\* sends only what was agreed.
LEMMA ControllerPatchInv ==
    ASSUME PatchInv, TaskStep \/ HandleEvent \/ CtlReboot
    PROVE  PatchInv'
  <1>t. TypeInv'
    BY ControllerTypeInv DEF PatchInv
  <1>c. UNCHANGED <<lockVars, stageVars>>
    BY DEF TaskStep, BeforePatches, StartCase, Offer, OfferDrainEnds, StageEnds, Apply,
       ApplyDrainEnds, GapEnds, HandleEvent, CtlReboot
  <1>s. BlocksAreOfOffer' /\ StagedIsFetched'
    BY <1>c DEF PatchInv, BlocksAreOfOffer, StagedIsFetched, stageVars
  <1> USE <1>t, <1>c, <1>s DEF PatchInv, stageVars, tableVars, airVars
  \* What follows when nothing is agreed, applied or sent that was not before.
  <1>q. ASSUME agreed' = agreed, Range(ctlq') \subseteq Range(ctlq),
               \A s \in Sats : \A f \in Range(satq'[s]) :
                   f \in Range(satq[s]) \/ f.type # "Apply"
        PROVE  /\ AgreedIsFetched' /\ AppliedIsFetched' /\ ReadyFramesTrue'
               /\ \A s \in Sats : \A f \in Range(satq'[s]) : f.type = "Apply" => Agreed(f.of)'
    BY <1>q DEF AgreedIsFetched, AppliedIsFetched, ReadyFramesTrue, AppliesAreAgreed, Agreed
  <1>b. ASSUME NEW f \in SatEvent, Send(f)
        PROVE  \A s \in Sats : Range(satq'[s]) \subseteq Range(satq[s]) \cup {f}
    BY <1>b, SendFacts DEF TypeInv
  <1>n. CaseNumbered /\ TypeOK
    BY DEF TypeInv
  <1>1. CASE BeforePatches
    <2>1. \A s \in Sats : \A f \in Range(satq'[s]) : f \in Range(satq[s]) \/ f.type # "Apply"
      BY <1>1, <1>n, <1>b, FrameTypes DEF BeforePatches
    <2> QED BY <1>1, <2>1, <1>q DEF BeforePatches, ReadyTellsTheTruth, AppliesAreAgreed, InTransfer
  <1>2. CASE StartCase
    BY <1>2, <1>q DEF StartCase, ResetPatch, ReadyTellsTheTruth, AppliesAreAgreed
  <1>3. CASE Offer
    <2>1. \A s \in Sats : \A f \in Range(satq'[s]) : f \in Range(satq[s]) \/ f.type # "Apply"
      BY <1>3, <1>n, <1>b, FrameTypes DEF Offer, CaseNumbered
    <2> QED BY <1>3, <2>1, <1>q DEF Offer, ReadyTellsTheTruth, AppliesAreAgreed, InTransfer, Active
  <1>4. CASE OfferDrainEnds
    BY <1>4, <1>q DEF OfferDrainEnds, ReadyTellsTheTruth, AppliesAreAgreed, InTransfer, Active
  <1>5. CASE StageEnds
    <2>1. UNCHANGED <<boot, seq, tableVars, airVars>> /\ Active' = Active
          /\ phase' \in InTransfer /\ phase \in InTransfer
      BY <1>5 DEF StageEnds, Active, InTransfer
    <2>2. ReadyTellsTheTruth' /\ ReadyFramesTrue'
      BY <2>1 DEF ReadyTellsTheTruth, ReadyFramesTrue
    <2>3. CASE Complete
      <3>1. agreed' = agreed \cup {[of |-> Active, members |-> expected]}
            /\ phase' = "apply"
        BY <1>5, <2>3 DEF StageEnds
      <3>2. expected # {} /\ \A m \in expected : Active \in fetched[m]
        BY <2>1, <2>3 DEF Complete, ReadyTellsTheTruth
      <3>3. AgreedIsFetched'
        BY <3>1, <3>2 DEF AgreedIsFetched
      <3>4. \A o : Agreed(o) => Agreed(o)'
        BY <3>1 DEF Agreed
      <3>5. Agreed(Active)'
        <4> DEFINE g == [of |-> Active, members |-> expected]
        <4>1. g \in agreed' /\ g.of = Active /\ Active' = Active
          BY <2>1, <3>1
        <4> HIDE DEF g
        <4> QED BY <4>1 DEF Agreed
      <3>6. AppliesAreAgreed'
        <4>1. \A s \in Sats : \A f \in Range(satq'[s]) : f.type = "Apply" => Agreed(f.of)'
          BY <2>1, <3>4 DEF AppliesAreAgreed
        <4> QED BY <2>1, <3>5, <4>1 DEF AppliesAreAgreed, Agreed
      <3>7. AppliedIsFetched'
        BY <3>4 DEF AppliedIsFetched
      <3> QED BY <2>2, <3>3, <3>6, <3>7
    <2>4. CASE ~ Complete
      <3>1. agreed' = agreed /\ phase' = "gap"
        BY <1>5, <2>4 DEF StageEnds
      <3> QED BY <2>1, <2>2, <3>1, <1>q DEF AppliesAreAgreed
    <2> QED BY <2>3, <2>4
  <1>6. CASE Apply
    <2> DEFINE a == [type |-> "Apply", of |-> Active]
    <2>1. \A s \in Sats : Range(satq'[s]) \subseteq Range(satq[s]) \cup {a}
      BY <1>6, <1>n, <1>b, FrameTypes DEF Apply, CaseNumbered
    <2>2. agreed' = agreed /\ Active' = Active /\ ctlq' = ctlq /\ Agreed(Active)
      BY <1>6 DEF Apply, Active, AppliesAreAgreed
    <2>3. \A o : Agreed(o)' <=> Agreed(o)
      BY <2>2 DEF Agreed
    <2>4. \A s \in Sats : \A f \in Range(satq'[s]) : f.type = "Apply" => Agreed(f.of)
      BY <2>1, <2>2 DEF AppliesAreAgreed
    <2>5. AppliesAreAgreed'
      BY <2>2, <2>4 DEF AppliesAreAgreed, Agreed
    <2>6. AgreedIsFetched' /\ AppliedIsFetched' /\ ReadyFramesTrue'
      BY <2>2 DEF AgreedIsFetched, AppliedIsFetched, ReadyFramesTrue, Agreed
    <2>7. ReadyTellsTheTruth'
      BY <1>6, <2>2 DEF Apply, ReadyTellsTheTruth, InTransfer
    <2> QED BY <2>5, <2>6, <2>7
  <1>7. CASE ApplyDrainEnds
    BY <1>7, <1>q DEF ApplyDrainEnds, ReadyTellsTheTruth, AppliesAreAgreed, InTransfer, Active, Agreed
  <1>8. CASE GapEnds
    BY <1>8, <1>q DEF GapEnds, ReadyTellsTheTruth, AppliesAreAgreed, InTransfer
  <1>9. CASE HandleEvent
    <2> DEFINE e == Head(ctlq)
    <2>1. e \in CtlEvent /\ e \in Range(ctlq) /\ Range(ctlq') \subseteq Range(ctlq)
      BY <1>9, <1>n, DequeueFacts DEF HandleEvent, TypeOK
    <2>2. UNCHANGED <<phase, boot, seq, agreed>> /\ Active' = Active
      BY <1>9 DEF HandleEvent, ctlVars, Active
    <2>3. \A s \in Sats : \A f \in Range(satq'[s]) : f \in Range(satq[s]) \/ f.type # "Apply"
      <3>1. CASE e.type = "Req" /\ AnswerRequest(e)
        <4> DEFINE blk == [type |-> "Block", of |-> e.of, block |-> e.block]
        <4>1. blk \in SatEvent /\ blk.type = "Block"
          BY <1>n, <2>1, <3>1, CtlEventFacts, FrameTypes
        <4>2. PICK heard : satq' = AfterFrame(satq, blk, heard)
          BY <3>1 DEF AnswerRequest
        <4>3. satq \in [Sats -> Seq(SatEvent)]
          BY <1>n DEF TypeOK
        <4> HIDE DEF blk
        <4>4. \A s \in Sats : Range(satq'[s]) \subseteq Range(satq[s]) \cup {blk}
          BY <4>1, <4>2, <4>3, AfterFrameFacts
        <4> QED BY <4>1, <4>4
      <3>2. CASE satq' = satq
        BY <3>2
      <3> QED BY <1>9, <3>1, <3>2 DEF HandleEvent, NoteHello, NoteReady
    <2>4. ReadyTellsTheTruth'
      <3>1. CASE Counts(e) /\ e.type = "Ready" /\ NoteReady(e)
        <4>1. e.of \in fetched[e.from] /\ e.from \in Sats /\ fetched \in [Sats -> SUBSET OfferId]
          BY <1>n, <2>1, <3>1, CtlEventFacts DEF ReadyFramesTrue, TypeOK
        <4>2. e.of = Active
          <5>1. e.of \in OfferId /\ e.of.boot = boot /\ e.of.seq = seq
            BY <3>1, <4>1 DEF Counts
          <5> QED BY <5>1 DEF OfferId, Active
        <4> QED BY <2>2, <3>1, <4>1, <4>2 DEF NoteReady, ReadyTellsTheTruth
      <3>2. CASE ready' = ready
        BY <2>2, <3>2 DEF ReadyTellsTheTruth
      <3> QED BY <1>9, <3>1, <3>2 DEF HandleEvent, NoteHello, AnswerRequest
    <2> QED BY <2>1, <2>2, <2>3, <2>4, <1>q DEF AppliesAreAgreed, Agreed
  <1>10. CASE CtlReboot
    <2>1. Range(ctlq') \subseteq Range(ctlq)
      BY <1>10 DEF CtlReboot, Range
    <2> QED BY <1>10, <2>1, <1>q DEF CtlReboot, ReadyTellsTheTruth, AppliesAreAgreed
  <1> QED BY <1>1, <1>2, <1>3, <1>4, <1>5, <1>6, <1>7, <1>8, <1>9, <1>10 DEF TaskStep

\* What a frame that brings no block does to the transfer of satellite s: it stays
\* as it is, or nothing is left of it.
KeepsOrDrops(s) ==
    /\ \A m \in Sats \ {s} : /\ offer'[m] = offer[m] /\ mask'[m] = mask[m]
                             /\ m \in staged' => m \in staged
    /\ staged' \subseteq Sats
    /\ \/ offer'[s] = offer[s] /\ mask'[s] = mask[s] /\ (s \in staged' => s \in staged)
       \/ mask'[s] = {} /\ s \notin staged'

\* A peer that cannot be added fails the transfer and changes nothing of it.
LEMMA PeerFailedKeeps ==
    ASSUME TypeOK, NEW s \in Sats, NEW b, PeerFailed(s, b)
    PROVE  KeepsOrDrops(s)
  BY DEF TypeOK, PeerFailed, KeepsOrDrops, OfferAt, MaskAt, StagedAt

\* What may be applied has been fetched and is what the staging area holds.
LEMMA MayApplyFetched ==
    ASSUME PatchInv, NEW s \in Sats, NEW f, f.of \in OfferId, MayApply(s, f)
    PROVE  f.of \in fetched[s] /\ \A b \in BlockIds : staging[s][b] = f.of.seq
  <1>1. s \in staged /\ offer[s] = f.of
    BY DEF MayApply, StagedAt, OfferAt
  <1> QED BY <1>1 DEF PatchInv, StagedIsFetched, BlocksAreOfOffer

\* A satellite's steps: a block is stored for the offer it belongs to only, READY
\* is sent only with a whole patch, and an apply needs the agreed patch staged.
LEMMA SatellitePatchInv ==
    ASSUME PatchInv, NEW s \in Sats, SatStep(s)
    PROVE  PatchInv'
  <1>t. TypeInv'
    BY SatelliteTypeInv DEF PatchInv
  <1>n. TypeOK
    BY DEF PatchInv, TypeInv
  <1>c. UNCHANGED <<ctlVars, tableVars, agreed>> /\ Active' = Active
    BY DEF SatStep, HandleFrame, Greet, ControllerTimeout, SatReboot, Active, ctlVars
  <1>a. AgreedIsFetched /\ (\A o : Agreed(o)' <=> Agreed(o))
    BY <1>c DEF PatchInv, Agreed
  \* Nothing that was fetched is taken back.
  <1>f. \A m \in Sats : fetched[m] \subseteq fetched'[m]
    <2>1. CASE fetched' = fetched
      BY <2>1
    <2>2. CASE \E f : StoreBlock(s, f)
      BY <1>n, <2>2 DEF StoreBlock, TypeOK
    <2> QED BY <2>1, <2>2 DEF SatStep, HandleFrame, HandleOffer, HandleBlock, HandleApply,
            HandleOther, PeerFailed, Greet, ControllerTimeout, SatReboot, stageVars
  <1>g. AgreedIsFetched' /\ ReadyTellsTheTruth'
    <2>1. AgreedIsFetched'
      <3> SUFFICES ASSUME NEW g \in agreed
                   PROVE  g.members # {} /\ \A m \in g.members : g.of \in fetched'[m]
        BY <1>c DEF AgreedIsFetched
      <3>1. g.members \subseteq Sats
        BY <1>n DEF TypeOK
      <3> QED BY <1>a, <1>f, <3>1 DEF AgreedIsFetched
    <2>2. ready \subseteq Sats /\ ready' = ready /\ phase' = phase
      BY <1>c, <1>n DEF TypeOK, tableVars, ctlVars
    <2> QED BY <1>c, <1>f, <2>1, <2>2 DEF PatchInv, ReadyTellsTheTruth
  <1>p. ASSUME \A m \in Sats : Range(satq'[m]) \subseteq Range(satq[m])
        PROVE  AppliesAreAgreed'
    BY <1>a, <1>c, <1>p DEF PatchInv, AppliesAreAgreed, ctlVars
  <1>r. ASSUME \A e \in Range(ctlq') :
                   \/ e \in Range(ctlq)
                   \/ e.type # "Ready"
                   \/ e.from = s /\ e.of \in fetched'[s]
        PROVE  ReadyFramesTrue'
    <2> SUFFICES ASSUME NEW e \in Range(ctlq), e.type = "Ready"
                 PROVE  e.of \in fetched'[e.from]
      BY <1>r DEF ReadyFramesTrue
    <2>1. e \in CtlEvent
      BY <1>n DEF TypeOK, Range
    <2> QED BY <1>f, <2>1, CtlEventFacts DEF PatchInv, ReadyFramesTrue
  \* The staging area is kept, or the transfer dropped.
  <1>k. ASSUME KeepsOrDrops(s), UNCHANGED <<staging, fetched>>
        PROVE  BlocksAreOfOffer' /\ StagedIsFetched'
    <2>1. \A m \in Sats :
              \/ /\ offer'[m] = offer[m] /\ mask'[m] = mask[m]
                 /\ m \in staged' => m \in staged
              \/ mask'[m] = {} /\ m \notin staged'
      BY <1>k DEF KeepsOrDrops
    <2>2. BlocksAreOfOffer'
      BY <1>k, <2>1 DEF PatchInv, BlocksAreOfOffer
    <2>3. StagedIsFetched'
      BY <1>k, <2>1 DEF KeepsOrDrops, PatchInv, StagedIsFetched
    <2> QED BY <2>2, <2>3
  <1>o. UNCHANGED <<offer, mask, staged>> => KeepsOrDrops(s)
    BY <1>n DEF KeepsOrDrops, TypeOK
  \* READY is sent by who is ready.
  <1>q. ASSUME RequestNextMissing(s), offer'[s] \in OfferId, TypeInv', StagedIsFetched'
        PROVE  ReadyFramesTrue'
    <2>1. mask'[s] \in SUBSET BlockIds /\ ctlq \in Seq(CtlEvent)
      BY <1>n, <1>q DEF TypeInv, TypeOK
    <2>2. \A e \in Range(ctlq') :
              \/ e \in Range(ctlq)
              \/ e.type = "Req"
              \/ e = [type |-> "Ready", from |-> s, of |-> offer'[s]] /\ s \in staged'
      BY <1>q, <2>1, RequestFacts
    <2>3. s \in staged' => offer'[s] \in fetched'[s]
      BY <1>q DEF StagedIsFetched
    <2> QED BY <1>r, <2>2, <2>3
  \* What is left to show when nothing is applied.
  <1>u. ASSUME applied' = applied
        PROVE  /\ AppliedIsFetched'
               /\ (BlocksAreOfOffer' /\ StagedIsFetched' /\ ReadyFramesTrue'
                       /\ AppliesAreAgreed' => PatchInv')
    <2>1. AppliedIsFetched'
      BY <1>a, <1>f, <1>u DEF PatchInv, AppliedIsFetched
    <2> QED BY <1>t, <1>g, <2>1 DEF PatchInv
  <1> USE DEF stageVars, airVars
  <1>1. CASE HandleFrame(s)
    <2> DEFINE f == Head(satq[s])
    <2>1. f \in SatEvent /\ f \in Range(satq[s])
      BY <1>1, <1>n, DequeueFacts DEF HandleFrame, TypeOK
    <2>2. AppliesAreAgreed'
      <3>1. Range(Tail(satq[s])) \subseteq Range(satq[s])
        BY <1>1, <1>n, DequeueFacts DEF HandleFrame, TypeOK
      <3>2. satq' = [satq EXCEPT ![s] = Tail(@)] /\ satq \in [Sats -> Seq(SatEvent)]
        BY <1>1, <1>n DEF HandleFrame, TypeOK
      <3> QED BY <3>1, <3>2, <1>p
    <2>3. CASE f.type = "Offer" /\ HandleOffer(s, f)
      <3>1. /\ f.of \in OfferId /\ f.of # NoOffer
            /\ ~ (OfferAt(s, f.of.boot) = f.of /\ satBoot[s] # f.of.boot)
        BY <2>1, <2>3, SatEventFacts DEF OfferId, NoOffer, OfferAt
      <3>2. CASE PeerFailed(s, f.of.boot)
        <4>1. KeepsOrDrops(s)
          BY <1>n, <3>2, PeerFailedKeeps
        <4>2. UNCHANGED <<staging, fetched, applied, ctlq>>
          BY <3>2 DEF PeerFailed
        <4> QED BY <2>2, <4>1, <4>2, <1>k, <1>u, <1>r
      <3>3. CASE /\ TakeOffer(s, f.of, OfferAt(s, f.of.boot) = f.of)
                 /\ RequestNextMissing(s)
                 /\ UNCHANGED <<staging, current, fetched, applied>>
        <4>1. KeepsOrDrops(s)
          BY <1>n, <3>1, <3>3 DEF TakeOffer, KeepsOrDrops, TypeOK, MaskAt, StagedAt, OfferAt
        <4>2. BlocksAreOfOffer' /\ StagedIsFetched'
          BY <1>k, <3>3, <4>1
        <4>3. ReadyFramesTrue'
          <5>1. offer'[s] \in OfferId
            BY <1>n, <3>1, <3>3 DEF TakeOffer, TypeOK
          <5> QED BY <1>q, <1>t, <3>3, <4>2, <5>1
        <4> QED BY <2>2, <3>3, <4>2, <4>3, <1>u
      <3> QED BY <2>3, <3>2, <3>3 DEF HandleOffer
    <2>4. CASE f.type = "Block" /\ HandleBlock(s, f)
      <3>1. CASE Wanted(s, f) /\ StoreBlock(s, f)
        <4>1. f.of \in OfferId /\ offer[s] = f.of /\ f.block \in BlockIds /\ f.of # NoOffer
          BY <2>1, <2>4, <3>1, SatEventFacts DEF Wanted, OfferId, NoOffer
        <4> DEFINE blocks == [staging[s] EXCEPT ![f.block] = f.of.seq]
                   have == mask[s] \cup {f.block}
        <4>2. \A b \in have : blocks[b] = f.of.seq
          BY <1>n, <4>1 DEF PatchInv, BlocksAreOfOffer, TypeOK
        <4>3. have = BlockIds => FullHash(blocks, f.of.seq)
          BY <4>2 DEF FullHash
        <4>4. /\ offer' = offer /\ applied' = applied
              /\ staging' = [staging EXCEPT ![s] = blocks]
              /\ mask' = [mask EXCEPT ![s] = have]
              /\ have = BlockIds =>
                     /\ staged' = staged \cup {s}
                     /\ fetched' = [fetched EXCEPT ![s] = @ \cup {f.of}]
              /\ have # BlockIds => staged' = staged /\ fetched' = fetched
          <5> HIDE DEF blocks, have
          <5>1. CASE have = BlockIds
            BY <3>1, <4>3, <5>1 DEF StoreBlock, blocks, have
          <5>2. CASE have # BlockIds
            BY <3>1, <5>2 DEF StoreBlock, blocks, have
          <5> QED BY <5>1, <5>2
        <4> HIDE DEF blocks, have
        <4>5. BlocksAreOfOffer'
          BY <1>n, <4>1, <4>2, <4>4 DEF PatchInv, BlocksAreOfOffer, TypeOK
        <4>6. StagedIsFetched'
          <5> SUFFICES ASSUME NEW m \in staged'
                       PROVE  /\ offer'[m] # NoOffer /\ mask'[m] = BlockIds
                              /\ offer'[m] \in fetched'[m]
            BY DEF StagedIsFetched
          <5>1. CASE m \in staged
            <6>1. offer[m] # NoOffer /\ mask[m] = BlockIds /\ offer[m] \in fetched[m] /\ m \in Sats
              BY <1>n, <5>1 DEF PatchInv, StagedIsFetched, TypeOK
            <6>2. m = s => have = BlockIds
              BY <4>1, <6>1 DEF have
            <6> QED BY <1>n, <1>f, <4>4, <6>1, <6>2 DEF TypeOK
          <5>2. CASE m \notin staged
            <6>1. m = s /\ have = BlockIds
              BY <4>4, <5>2
            <6> QED BY <1>n, <4>1, <4>4, <6>1 DEF TypeOK
          <5> QED BY <5>1, <5>2
        <4>7. ReadyFramesTrue'
          BY <1>q, <1>t, <3>1, <4>1, <4>4, <4>6 DEF StoreBlock
        <4> QED BY <2>2, <4>4, <4>5, <4>6, <4>7, <1>u
      <3>2. CASE UNCHANGED <<stageVars, lockVars, ctlq>>
        BY <2>2, <3>2, <1>k, <1>o, <1>u, <1>r
      <3> QED BY <2>4, <3>1, <3>2 DEF HandleBlock
    <2>5. CASE f.type = "Apply" /\ HandleApply(s, f)
      <3>1. CASE PeerFailed(s, f.of.boot)
        <4>1. KeepsOrDrops(s)
          BY <1>n, <3>1, PeerFailedKeeps
        <4>2. UNCHANGED <<staging, fetched, applied, ctlq>>
          BY <3>1 DEF PeerFailed
        <4> QED BY <2>2, <4>1, <4>2, <1>k, <1>u, <1>r
      <3>2. CASE /\ IF MayApply(s, f)
                    THEN /\ current' = [current EXCEPT ![s] = f.of.seq]
                         /\ applied' = [applied EXCEPT ![s] = @ \cup {f.of}]
                    ELSE UNCHANGED <<current, applied>>
                 /\ offer' = [offer EXCEPT ![s] = OfferAt(s, f.of.boot)]
                 /\ mask' = [mask EXCEPT ![s] = MaskAt(s, f.of.boot)]
                 /\ staged' = StagedAt(s, f.of.boot)
                 /\ UNCHANGED <<staging, fetched, ctlq>>
        <4>1. BlocksAreOfOffer' /\ StagedIsFetched' /\ ReadyFramesTrue'
          BY <1>n, <3>2, <1>k, <1>r DEF KeepsOrDrops, TypeOK, OfferAt, MaskAt, StagedAt
        <4>2. AppliedIsFetched'
          <5>1. CASE MayApply(s, f)
            <6>1. f.of \in fetched[s]
              BY <5>1, <2>1, <2>5, MayApplyFetched, SatEventFacts
            <6>2. Agreed(f.of)
              BY <2>1, <2>5 DEF PatchInv, AppliesAreAgreed
            <6>3. /\ applied' = [applied EXCEPT ![s] = @ \cup {f.of}]
                  /\ applied \in [Sats -> SUBSET OfferId] /\ fetched' = fetched
              BY <1>n, <3>2, <5>1 DEF TypeOK
            <6> SUFFICES ASSUME NEW m \in Sats, NEW o \in applied'[m]
                         PROVE  o \in fetched[m] /\ Agreed(o)
              BY <1>a, <6>3 DEF AppliedIsFetched
            <6>4. o \in applied[m] \/ (m = s /\ o = f.of)
              BY <6>3
            <6> QED BY <6>1, <6>2, <6>4 DEF PatchInv, AppliedIsFetched
          <5>2. CASE ~ MayApply(s, f)
            BY <3>2, <5>2, <1>u
          <5> QED BY <5>1, <5>2
        <4> QED BY <2>2, <4>1, <4>2, <1>t, <1>g DEF PatchInv
      <3> QED BY <2>5, <3>1, <3>2 DEF HandleApply
    <2>6. CASE f.type = "Other" /\ HandleOther(s, f)
      BY <2>2, <2>6, <1>k, <1>o, <1>u, <1>r DEF HandleOther
    <2> QED BY <1>1, <2>3, <2>4, <2>5, <2>6 DEF HandleFrame
  <1>2. CASE Greet(s)
    <2>1. \A e \in Range(ctlq') : e \in Range(ctlq) \/ e.type # "Ready"
      <3> DEFINE h == [type |-> "Hello", from |-> s, of |-> NoOffer]
      <3>1. h \in CtlEvent /\ h.type = "Hello"
        BY <1>n, FrameTypes
      <3>2. ctlq' = Arrives(ctlq, h, TRUE) /\ ctlq \in Seq(CtlEvent)
        BY <1>2, <1>n DEF Greet, TypeOK
      <3> HIDE DEF h
      <3> QED BY <3>1, <3>2, ArrivesFacts
    <2> QED BY <1>2, <2>1, <1>k, <1>o, <1>u, <1>p, <1>r DEF Greet
  <1>3. CASE ControllerTimeout(s)
    BY <1>3, <1>k, <1>o, <1>u, <1>p, <1>r DEF ControllerTimeout
  <1>4. CASE SatReboot(s)
    <2>1. \A m \in Sats : Range(satq'[m]) \subseteq Range(satq[m])
      BY <1>4, <1>n DEF SatReboot, TypeOK, Range
    <2>2. staged' = staged \ {s} /\ fetched' = fetched /\ ctlq' = ctlq /\ applied' = applied
      BY <1>4 DEF SatReboot
    <2>3. BlocksAreOfOffer' /\ StagedIsFetched'
      BY <1>4, <1>n, <2>2 DEF SatReboot, PatchInv, BlocksAreOfOffer, StagedIsFetched, TypeOK
    <2> QED BY <2>1, <2>2, <2>3, <1>u, <1>p, <1>r
  <1> QED BY <1>1, <1>2, <1>3, <1>4 DEF SatStep

\* All of it together holds in every state.
THEOREM PatchInvariant == Spec => []PatchInv
<1>1. PatchInv /\ [Next]_vars => PatchInv'
  <2> SUFFICES ASSUME PatchInv, [Next]_vars
               PROVE  PatchInv'
    OBVIOUS
  <2>1. CASE TaskStep \/ HandleEvent \/ CtlReboot
    BY <2>1, ControllerPatchInv
  <2>2. CASE \E s \in Sats : SatStep(s)
    BY <2>2, SatellitePatchInv
  <2>3. CASE UNCHANGED vars
    <3>1. TypeInv'
      BY <2>3 DEF PatchInv, TypeInv, TypeOK, CaseNumbered, vars, ctlVars, tableVars, airVars,
         lockVars, stageVars
    <3> QED BY <2>3, <3>1 DEF PatchInv, BlocksAreOfOffer, StagedIsFetched, ReadyFramesTrue,
            ReadyTellsTheTruth, AgreedIsFetched, AppliesAreAgreed, AppliedIsFetched, Agreed,
            Active, vars, ctlVars, tableVars, airVars, lockVars, stageVars
  <2> QED BY <2>1, <2>2, <2>3 DEF Next
<1> QED BY <1>1, InitPatchInv, PTL DEF Spec

\* A satellite that calls itself ready holds every block of the patch on offer,
\* however transfers of other patches and other boots ended before it.
THEOREM StagedWhole == Spec => []StagedMeansWhole
<1>1. PatchInv => StagedMeansWhole
  <2> SUFFICES ASSUME PatchInv, NEW s \in staged
               PROVE  /\ offer[s] # NoOffer /\ mask[s] = BlockIds
                      /\ \A b \in BlockIds : staging[s][b] = offer[s].seq
    BY DEF StagedMeansWhole
  <2>1. s \in Sats
    BY DEF PatchInv, TypeInv, TypeOK
  <2> QED BY <2>1 DEF PatchInv, StagedIsFetched, BlocksAreOfOffer
<1> QED BY <1>1, PatchInvariant, PTL

\* A READY that was counted is from a satellite that completed this transfer:
\* one that waited in the queue over the end of a case or over a restart is told
\* from it by its boot and sequence.
THEOREM ReadyTrue == Spec => []ReadyTellsTheTruth
<1>1. PatchInv => ReadyTellsTheTruth
  BY DEF PatchInv
<1> QED BY <1>1, PatchInvariant, PTL

\* Apply-after-ready: who schedules an apply has the whole patch, and so has
\* every member of a group the controller declared complete.
THEOREM AppliedTogetherHolds == Spec => []AppliedTogether
<1>1. PatchInv => AppliedTogether
  <2> SUFFICES ASSUME PatchInv, NEW s \in Sats, NEW o \in applied[s]
               PROVE  /\ o \in fetched[s]
                      /\ \E g \in agreed : /\ g.of = o /\ g.members # {}
                                           /\ \A m \in g.members : o \in fetched[m]
    BY DEF AppliedTogether
  <2>1. o \in fetched[s] /\ Agreed(o)
    BY DEF PatchInv, AppliedIsFetched
  <2>2. PICK g \in agreed : g.of = o
    BY <2>1 DEF Agreed
  <2> QED BY <2>1, <2>2 DEF PatchInv, AgreedIsFetched
<1> QED BY <1>1, PatchInvariant, PTL

\* A satellite's frame may stage, apply or drop a patch, or select another.
LEMMA FrameReports ==
    ASSUME PatchInv, CurrentIsHad, NEW s \in Sats, HandleFrame(s)
    PROVE  CurrentIsHad'
<1> DEFINE f == Head(satq[s])
<1> USE DEF CurrentIsHad
<1>t. TypeOK /\ f \in SatEvent
  BY DequeueFacts DEF HandleFrame, PatchInv, TypeInv, TypeOK
<1>1. CASE f.type = "Offer" /\ HandleOffer(s, f)
  <2>1. CASE PeerFailed(s, f.of.boot)
    BY <1>t, <2>1 DEF PeerFailed, OfferAt, StagedAt, TypeOK
  <2>2. CASE /\ TakeOffer(s, f.of, OfferAt(s, f.of.boot) = f.of)
             /\ UNCHANGED <<staging, current, fetched, applied>>
    <3>1. f.of # NoOffer
      BY <1>t, <1>1, SatEventFacts DEF OfferId, NoOffer
    <3>2. \A m \in staged' : m \in staged /\ offer'[m] = offer[m]
      BY <1>t, <2>2, <3>1 DEF TakeOffer, OfferAt, StagedAt, TypeOK
    <3> QED BY <2>2, <3>2
  <2> QED BY <1>1, <2>1, <2>2 DEF HandleOffer
<1>2. CASE f.type = "Block" /\ HandleBlock(s, f)
  <2>1. CASE Wanted(s, f) /\ StoreBlock(s, f)
    <3>1. offer[s] = f.of /\ offer' = offer
      BY <2>1 DEF Wanted, StoreBlock
    <3>2. CASE /\ staged' = staged \cup {s} /\ current' = [current EXCEPT ![s] = f.of.seq]
               /\ fetched' = [fetched EXCEPT ![s] = @ \cup {f.of}]
      BY <1>t, <3>1, <3>2 DEF TypeOK
    <3>3. CASE UNCHANGED <<staged, current, fetched>>
      BY <3>1, <3>3
    <3> QED BY <2>1, <3>2, <3>3 DEF StoreBlock
  <2>2. CASE UNCHANGED <<stageVars, lockVars, ctlq>>
    BY <2>2 DEF stageVars
  <2> QED BY <1>2, <2>1, <2>2 DEF HandleBlock
<1>3. CASE f.type = "Apply" /\ HandleApply(s, f)
  <2>1. CASE PeerFailed(s, f.of.boot)
    BY <1>t, <2>1 DEF PeerFailed, OfferAt, StagedAt, TypeOK
  <2>2. ASSUME ~ PeerFailed(s, f.of.boot) PROVE CurrentIsHad'
    <3>1. /\ offer' = [offer EXCEPT ![s] = OfferAt(s, f.of.boot)]
          /\ staged' = StagedAt(s, f.of.boot) /\ fetched' = fetched
      BY <1>3, <2>2 DEF HandleApply
    <3>2. \A m \in staged' : m \in staged /\ offer'[m] = offer[m]
      BY <1>t, <3>1 DEF OfferAt, StagedAt, TypeOK
    <3>3. CASE MayApply(s, f)
      <4>1. current' = [current EXCEPT ![s] = f.of.seq]
        BY <1>3, <2>2, <3>3 DEF HandleApply
      <4>2. f.of \in fetched[s] /\ offer[s] = f.of
        <5>1. f.of \in OfferId
          BY <1>t, <1>3, SatEventFacts
        <5>2. offer[s] = f.of
          BY <3>3 DEF MayApply, OfferAt, StagedAt
        <5> QED BY <3>3, <5>1, <5>2, MayApplyFetched
      <4> QED BY <1>t, <3>1, <3>2, <4>1, <4>2 DEF TypeOK
    <3>4. CASE ~ MayApply(s, f)
      <4>1. current' = current
        BY <1>3, <2>2, <3>4 DEF HandleApply
      <4> QED BY <3>1, <3>2, <4>1
    <3> QED BY <3>3, <3>4
  <2> QED BY <2>1, <2>2
<1>4. CASE f.type = "Other" /\ HandleOther(s, f)
  BY <1>t, <1>4 DEF HandleOther, TypeOK
<1> QED BY <1>1, <1>2, <1>3, <1>4 DEF HandleFrame

\* What a satellite reports as its patch it has fetched whole, and it is the one it
\* holds ready, although it may have been told never to apply it.
THEOREM ReportsTrue == Spec => []ReportsWhatItHas
<1>1. Init => CurrentIsHad
  BY DEF Init, CurrentIsHad
<1>2. PatchInv /\ CurrentIsHad /\ [Next]_vars => CurrentIsHad'
  <2> SUFFICES ASSUME PatchInv, CurrentIsHad, [Next]_vars PROVE CurrentIsHad'
    OBVIOUS
  <2>1. CASE \E s \in Sats : HandleFrame(s)
    BY <2>1, FrameReports
  <2>2. CASE UNCHANGED stageVars
    BY <2>2 DEF CurrentIsHad, stageVars
  <2>3. CASE \E s \in Sats : SatReboot(s)
    BY <2>3 DEF SatReboot, CurrentIsHad, PatchInv, TypeInv, TypeOK
  <2>4. CASE TaskStep \/ HandleEvent \/ CtlReboot
    BY <2>2, <2>4 DEF TaskStep, BeforePatches, StartCase, Offer, OfferDrainEnds, StageEnds,
       Apply, ApplyDrainEnds, GapEnds, HandleEvent, CtlReboot
  <2> QED BY <2>1, <2>2, <2>3, <2>4 DEF Next, SatStep, Greet, ControllerTimeout, vars
<1> QED BY <1>1, <1>2, PatchInvariant, StagedWhole, PTL DEF Spec, ReportsWhatItHas

\* Only what is staged is applied, and at the moment of the apply it is still
\* the patch the satellite announced.
THEOREM StagedIsApplied == Spec => AppliesWhatIsStaged
<1> DEFINE Applies == \A s \in Sats : applied'[s] # applied[s] =>
           \A o \in applied'[s] \ applied[s] : \A b \in BlockIds : staging[s][b] = o.seq
<1>1. PatchInv /\ Next => Applies
  <2> SUFFICES ASSUME PatchInv, Next
               PROVE  Applies
    OBVIOUS
  <2>1. CASE applied' = applied
    BY <2>1
  <2>2. CASE \E s \in Sats : /\ HandleFrame(s)
                             /\ Head(satq[s]).type = "Apply" /\ HandleApply(s, Head(satq[s]))
    <3>1. PICK s \in Sats : /\ HandleFrame(s)
                            /\ Head(satq[s]).type = "Apply" /\ HandleApply(s, Head(satq[s]))
      BY <2>2
    <3> DEFINE f == Head(satq[s])
    <3>2. f.of \in OfferId
      <4>1. f \in SatEvent
        BY <3>1, DequeueFacts DEF HandleFrame, PatchInv, TypeInv, TypeOK
      <4> QED BY <3>1, <4>1, SatEventFacts
    <3>3. CASE MayApply(s, f) /\ applied' = [applied EXCEPT ![s] = @ \cup {f.of}]
      <4>1. \A b \in BlockIds : staging[s][b] = f.of.seq
        BY <3>2, <3>3, MayApplyFetched
      <4>2. applied \in [Sats -> SUBSET OfferId]
        BY DEF PatchInv, TypeInv, TypeOK
      <4> HIDE DEF f
      <4>3. \A m \in Sats : applied'[m] \ applied[m] \subseteq {f.of} /\ (m # s => applied'[m] = applied[m])
        BY <3>3, <4>2
      <4> QED BY <4>1, <4>3
    <3>4. CASE applied' = applied
      BY <3>4
    <3> QED BY <3>1, <3>3, <3>4 DEF HandleApply, PeerFailed
  <2> QED BY <2>1, <2>2 DEF Next, TaskStep, BeforePatches, StartCase, Offer, OfferDrainEnds,
          StageEnds, Apply, ApplyDrainEnds, GapEnds, HandleEvent, CtlReboot, SatStep, HandleFrame,
          HandleOffer, HandleBlock, StoreBlock, HandleOther, PeerFailed, Greet, ControllerTimeout,
          SatReboot, stageVars
<1>2. PatchInv /\ [Next]_vars =>
        [\A s \in Sats : applied'[s] # applied[s] =>
           \A o \in applied'[s] \ applied[s] : \A b \in BlockIds : staging[s][b] = o.seq]_vars
  BY <1>1
<1> HIDE DEF Applies
<1> QED BY <1>2, PatchInvariant, PTL DEF Spec, AppliesWhatIsStaged
-----------------------------------------------------------------------------
(***************************************************************************)
(* The refinement of PatchService.  CommitInv: what was agreed is behind the  *)
(* controller or is the case it is applying, and the apply frames a queue     *)
(* holds are in the order of the cases and not older than what the satellite  *)
(* has applied.                                                             *)
(***************************************************************************)
Precedes(o, p) == Service!Before(o, p)

AgreedPast == \A g \in agreed :
    \/ Precedes(g.of, Active)
    \/ g.of = Active /\ phase \in {"apply", "adrain", "gap"}
    \/ g.of.boot = boot /\ phase = "done"

IsApply(q, i) == q[i].type = "Apply"

QueueInOrder(q) == \A i, j \in 1 .. Len(q) :
    i < j /\ IsApply(q, i) /\ IsApply(q, j) => ~ Precedes(q[j].of, q[i].of)

NotBefore(S, p) == \A o \in S : ~ Precedes(p, o)

\* The applies waiting in a queue, after those that were scheduled.
AppliesInOrder == \A s \in Sats :
    /\ QueueInOrder(satq[s])
    /\ \A f \in Range(satq[s]) : f.type = "Apply" => NotBefore(applied[s], f.of)

CommitInv == PatchInv /\ AgreedPast /\ AppliesInOrder

\* Transfers are in a strict and total order.
LEMMA TransferOrder ==
    ASSUME NEW o \in OfferId, NEW p \in OfferId
    PROVE  /\ ~ Precedes(o, o)
           /\ Precedes(o, p) => ~ Precedes(p, o)
           /\ o = p \/ Precedes(o, p) \/ Precedes(p, o)
BY PatchAssumption DEF OfferId, Precedes, Service!Before

\* The rest of a queue in order is in order.
LEMMA TailInOrder ==
    ASSUME NEW q \in Seq(SatEvent), q # <<>>, QueueInOrder(q)
    PROVE  /\ QueueInOrder(Tail(q))
           /\ \A f \in Range(Tail(q)) :
                  f.type = "Apply" /\ Head(q).type = "Apply" => ~ Precedes(f.of, Head(q).of)
<1>1. /\ Len(Tail(q)) \in Nat /\ Len(q) = Len(Tail(q)) + 1 /\ Head(q) = q[1]
      /\ \A i \in 1 .. Len(Tail(q)) : Tail(q)[i] = q[i + 1]
      /\ Range(Tail(q)) = {Tail(q)[i] : i \in 1 .. Len(Tail(q))}
  <2>1. /\ Len(q) \in Nat /\ Len(q) > 0 /\ Head(q) = q[1]
        /\ Tail(q) \in Seq(SatEvent) /\ Len(Tail(q)) = Len(q) - 1
    OBVIOUS
  <2>2. \A i \in 1 .. Len(Tail(q)) : Tail(q)[i] = q[i + 1]
    OBVIOUS
  <2> DEFINE r == Tail(q)
  <2> HIDE DEF r
  <2>3. Range(r) = {r[i] : i \in 1 .. Len(r)}
    <3>1. r \in Seq(SatEvent)
      BY <2>1 DEF r
    <3>2. DOMAIN r = 1 .. Len(r)
      BY <3>1
    <3> QED BY <3>2 DEF Range
  <2> QED BY <2>1, <2>2, <2>3 DEF r
<1>2. QueueInOrder(Tail(q))
  <2> SUFFICES ASSUME NEW i \in 1 .. Len(Tail(q)), NEW j \in 1 .. Len(Tail(q)), i < j,
                      IsApply(Tail(q), i), IsApply(Tail(q), j)
               PROVE  ~ Precedes(Tail(q)[j].of, Tail(q)[i].of)
    BY DEF QueueInOrder
  <2>1. i + 1 \in 1 .. Len(q) /\ j + 1 \in 1 .. Len(q) /\ i + 1 < j + 1
    BY <1>1
  <2>2. IsApply(q, i + 1) /\ IsApply(q, j + 1)
    BY <1>1 DEF IsApply
  <2> QED BY <1>1, <2>1, <2>2 DEF QueueInOrder
<1>3. ASSUME NEW i \in 1 .. Len(Tail(q)), IsApply(Tail(q), i), Head(q).type = "Apply"
      PROVE  ~ Precedes(Tail(q)[i].of, Head(q).of)
  <2>1. 1 \in 1 .. Len(q) /\ i + 1 \in 1 .. Len(q) /\ 1 < i + 1
    BY <1>1
  <2>2. IsApply(q, i + 1) /\ IsApply(q, 1)
    BY <1>1, <1>3 DEF IsApply
  <2> QED BY <1>1, <2>1, <2>2 DEF QueueInOrder
<1> QED BY <1>1, <1>2, <1>3 DEF IsApply

\* So is a queue in order with a frame that is no apply, or one of the newest.
LEMMA EnqueueInOrder ==
    ASSUME NEW q \in Seq(SatEvent), QueueInOrder(q), NEW f \in SatEvent,
           f.type = "Apply" =>
               \A e \in Range(q) : e.type = "Apply" => ~ Precedes(f.of, e.of)
    PROVE  QueueInOrder(Enqueue(q, f))
<1>1. CASE Enqueue(q, f) = q
  BY <1>1
<1>2. CASE Enqueue(q, f) = Append(q, f)
  <2> DEFINE r == Append(q, f)
  <2>1. /\ Len(q) \in Nat /\ Len(r) = Len(q) + 1 /\ r[Len(q) + 1] = f
        /\ \A i \in 1 .. Len(q) : r[i] = q[i] /\ q[i] \in Range(q)
    BY DEF Range
  <2> HIDE DEF r
  <2> SUFFICES ASSUME NEW i \in 1 .. Len(r), NEW j \in 1 .. Len(r), i < j,
                      IsApply(r, i), IsApply(r, j)
               PROVE  ~ Precedes(r[j].of, r[i].of)
    BY <1>2 DEF QueueInOrder, r
  <2>2. i \in 1 .. Len(q) /\ r[i] = q[i] /\ q[i] \in Range(q)
    BY <2>1
  <2>3. CASE j \in 1 .. Len(q)
    BY <2>1, <2>2, <2>3 DEF QueueInOrder, IsApply
  <2>4. CASE j = Len(q) + 1
    BY <2>1, <2>2, <2>4 DEF IsApply
  <2> QED BY <2>1, <2>3, <2>4
<1> QED BY <1>1, <1>2 DEF Enqueue

\* A frame that no satellite, or every one that hears it, may append.
LEMMA FrameInOrder ==
    ASSUME TypeOK, AppliesInOrder, NEW f \in SatEvent, NEW heard,
           satq' = AfterFrame(satq, f, heard), applied' = applied,
           f.type = "Apply" => \A s \in Sats :
               /\ \A e \in Range(satq[s]) : e.type = "Apply" => ~ Precedes(f.of, e.of)
               /\ NotBefore(applied[s], f.of)
    PROVE  AppliesInOrder'
<1>1. satq \in [Sats -> Seq(SatEvent)]
  BY DEF TypeOK
<1> SUFFICES ASSUME NEW s \in Sats
             PROVE  /\ QueueInOrder(satq'[s])
                    /\ \A e \in Range(satq'[s]) : e.type = "Apply" => NotBefore(applied[s], e.of)
  BY DEF AppliesInOrder, NotBefore
<1>2. satq'[s] = IF s \in heard THEN Enqueue(satq[s], f) ELSE satq[s]
  BY <1>1 DEF AfterFrame
<1>3. satq[s] \in Seq(SatEvent) /\ QueueInOrder(satq[s])
  BY <1>1 DEF AppliesInOrder
<1>4. Range(satq'[s]) \subseteq Range(satq[s]) \cup {f}
  BY <1>1, AfterFrameFacts
<1>5. QueueInOrder(satq'[s])
  BY <1>2, <1>3, EnqueueInOrder
<1>6. \A e \in Range(satq'[s]) : e.type = "Apply" => NotBefore(applied[s], e.of)
  BY <1>4 DEF AppliesInOrder
<1> QED BY <1>5, <1>6

\* Nothing agreed is newer than the case the controller is in.
LEMMA AgreedNotNewer ==
    ASSUME CommitInv, seq \in 1 .. Patches, NEW o \in OfferId, Agreed(o)
    PROVE  ~ Precedes(Active, o)
<1>1. PICK g \in agreed : g.of = o
  BY DEF Agreed
<1>2. TypeOK /\ CaseNumbered
  BY DEF CommitInv, PatchInv, TypeInv
<1>3. Active \in OfferId /\ phase # "done"
  BY <1>2, FrameTypes DEF CaseNumbered
<1>4. o = Active \/ Precedes(o, Active)
  BY <1>1, <1>3 DEF CommitInv, AgreedPast
<1> QED BY <1>3, <1>4, TransferOrder

\* The controller's steps: a case is decided once, and what it broadcasts is the
\* newest there is.
LEMMA ControllerCommits ==
    ASSUME CommitInv, TaskStep \/ HandleEvent \/ CtlReboot
    PROVE  /\ AgreedPast' /\ AppliesInOrder'
           /\ Service!Decide \/ UNCHANGED Service!svcVars
<1>n. TypeOK /\ CaseNumbered /\ PatchInv /\ AgreedPast /\ AppliesInOrder
  BY DEF CommitInv, PatchInv, TypeInv
<1>c. UNCHANGED <<fetched, applied>>
  BY DEF TaskStep, BeforePatches, StartCase, Offer, OfferDrainEnds, StageEnds, Apply,
     ApplyDrainEnds, GapEnds, HandleEvent, CtlReboot, stageVars
<1>s. boot \in Nat /\ seq \in 0 .. Patches
      /\ \A g \in agreed : g.of \in OfferId /\ g.of.boot \in Nat /\ g.of.seq \in 1 .. Patches
  BY <1>n DEF TypeOK, OfferId
\* What follows when nothing is agreed and no apply is sent.
<1>v. ASSUME agreed' = agreed PROVE UNCHANGED Service!svcVars
  BY <1>c, <1>v DEF Service!svcVars
<1>q. ASSUME satq' = satq PROVE AppliesInOrder'
  BY <1>c, <1>n, <1>q DEF AppliesInOrder, NotBefore
<1>f. ASSUME NEW f \in SatEvent, f.type # "Apply", NEW heard, satq' = AfterFrame(satq, f, heard)
      PROVE  AppliesInOrder'
  BY <1>c, <1>f, <1>n, FrameInOrder
<1>b. ASSUME NEW f \in SatEvent, f.type # "Apply", Send(f) PROVE AppliesInOrder'
  BY <1>b, <1>f DEF Send
<1> USE DEF Precedes, Service!Before
<1>1. CASE BeforePatches
  <2>1. AppliesInOrder'
    BY <1>1, <1>b, <1>n, FrameTypes DEF BeforePatches
  <2>2. seq = 0 /\ seq' = 1 /\ boot' = boot /\ agreed' = agreed /\ phase = "before"
    BY <1>1, <1>n DEF BeforePatches, CaseNumbered
  <2>3. AgreedPast'
    BY <1>n, <1>s, <2>2 DEF AgreedPast, Active
  <2> QED BY <1>v, <2>1, <2>2, <2>3
<1>2. CASE StartCase \/ Offer \/ OfferDrainEnds
  <2>1. /\ phase \in {"start", "offer", "odrain"} /\ boot' = boot /\ seq' = seq
        /\ agreed' = agreed
    BY <1>2 DEF StartCase, Offer, OfferDrainEnds
  <2>2. AgreedPast'
    BY <1>n, <2>1 DEF AgreedPast, Active
  <2>3. AppliesInOrder'
    <3>1. CASE Offer
      BY <1>n, <1>b, <3>1, FrameTypes DEF Offer, CaseNumbered
    <3>2. CASE StartCase \/ OfferDrainEnds
      BY <1>q, <3>2 DEF StartCase, OfferDrainEnds, airVars
    <3> QED BY <1>2, <3>1, <3>2
  <2> QED BY <1>v, <2>1, <2>2, <2>3
<1>3. CASE StageEnds
  <2>1. /\ phase = "offer" /\ boot' = boot /\ seq' = seq /\ satq' = satq
    BY <1>3 DEF StageEnds, airVars
  <2>2. \A g \in agreed : Precedes(g.of, Active)
    BY <1>n, <2>1 DEF AgreedPast
  <2>3. CASE Complete
    <3> DEFINE d == [of |-> Active, members |-> expected]
    <3>1. agreed' = agreed \cup {d} /\ phase' = "apply" /\ Active' = Active
      BY <1>3, <2>1, <2>3 DEF StageEnds, Active
    <3>2. d.of = Active /\ d.members = expected
      OBVIOUS
    <3> HIDE DEF d
    <3>3. AgreedPast'
      BY <2>2, <3>1, <3>2 DEF AgreedPast
    <3>4. d \notin agreed
      BY <1>s, <2>2, <3>2, TransferOrder
    <3>5. expected # {} /\ \A m \in expected : Active \in fetched[m]
      BY <1>n, <2>1, <2>3 DEF Complete, PatchInv, ReadyTellsTheTruth, InTransfer
    <3>6. Service!Decide
      <4>1. d \in agreed' \ agreed
        BY <3>1, <3>4
      <4>2. \A e \in agreed : Service!Before(e.of, d.of)
        BY <2>2, <3>2
      <4> QED BY <1>c, <3>1, <3>2, <3>5, <4>1, <4>2 DEF Service!Decide
    <3> QED BY <1>q, <2>1, <3>3, <3>6
  <2>4. CASE ~ Complete
    <3>1. agreed' = agreed
      BY <1>3, <2>4 DEF StageEnds
    <3>2. AgreedPast'
      BY <2>1, <2>2, <3>1 DEF AgreedPast, Active
    <3> QED BY <1>q, <1>v, <2>1, <3>1, <3>2
  <2> QED BY <2>3, <2>4
<1>4. CASE Apply
  <2> DEFINE a == [type |-> "Apply", of |-> Active]
  <2>1. /\ phase = "apply" /\ phase' = "adrain" /\ boot' = boot /\ seq' = seq
        /\ agreed' = agreed /\ Send(a) /\ seq \in 1 .. Patches
    BY <1>4, <1>n DEF Apply, CaseNumbered
  <2>2. a \in SatEvent /\ a.of = Active
    BY <1>n, <2>1, FrameTypes
  <2>3. AgreedPast'
    BY <1>n, <2>1 DEF AgreedPast, Active
  <2> HIDE DEF a
  <2>4. ASSUME NEW s \in Sats
        PROVE  /\ \A e \in Range(satq[s]) : e.type = "Apply" => ~ Precedes(a.of, e.of)
               /\ NotBefore(applied[s], a.of)
    <3>1. \A e \in Range(satq[s]) : e.type = "Apply" => Agreed(e.of) /\ e.of \in OfferId
      <4>1. \A e \in Range(satq[s]) : e \in SatEvent
        BY <1>n DEF TypeOK, Range
      <4> QED BY <1>n, <4>1, SatEventFacts DEF PatchInv, AppliesAreAgreed
    <3>2. \A o \in applied[s] : Agreed(o) /\ o \in OfferId
      BY <1>n DEF PatchInv, AppliedIsFetched, TypeOK
    <3> QED BY <2>1, <2>2, <3>1, <3>2, AgreedNotNewer DEF NotBefore
  <2>5. AppliesInOrder'
    <3>1. PICK heard \in SUBSET Sats : satq' = AfterFrame(satq, a, heard)
      BY <2>1 DEF Send
    <3> QED BY <1>c, <1>n, <2>2, <2>4, <3>1, FrameInOrder
  <2> QED BY <1>v, <2>1, <2>3, <2>5
<1>5. CASE ApplyDrainEnds
  <2>1. /\ phase = "adrain" /\ phase' \in {"apply", "gap"} /\ boot' = boot /\ seq' = seq
        /\ agreed' = agreed /\ satq' = satq
    BY <1>5 DEF ApplyDrainEnds, airVars
  <2>2. AgreedPast'
    BY <1>n, <2>1 DEF AgreedPast, Active
  <2> QED BY <1>q, <1>v, <2>1, <2>2
<1>6. CASE GapEnds
  <2>1. /\ phase = "gap" /\ boot' = boot /\ agreed' = agreed /\ satq' = satq
        /\ (phase' = "start" /\ seq' = seq + 1) \/ (phase' = "done" /\ seq' = 0)
    BY <1>6 DEF GapEnds, airVars
  <2>2. AgreedPast'
    <3> SUFFICES ASSUME NEW g \in agreed
                 PROVE  Precedes(g.of, Active') \/ (g.of.boot = boot /\ phase' = "done")
      BY <2>1 DEF AgreedPast
    <3>1. Precedes(g.of, Active) \/ g.of = Active
      BY <1>n, <2>1 DEF AgreedPast
    <3>2. /\ g.of.boot < boot \/ (g.of.boot = boot /\ g.of.seq <= seq)
          /\ g.of.boot \in Nat /\ g.of.seq \in Nat
      BY <1>s, <3>1 DEF Active
    <3> QED BY <1>s, <2>1, <3>2 DEF Active
  <2> QED BY <1>q, <1>v, <2>1, <2>2
<1>7. CASE HandleEvent
  <2> DEFINE e == Head(ctlq)
  <2>1. UNCHANGED <<phase, boot, seq, agreed>>
    BY <1>7 DEF HandleEvent, ctlVars
  <2>2. AgreedPast'
    BY <1>n, <2>1 DEF AgreedPast, Active
  <2>3. AppliesInOrder'
    <3>1. CASE e.type = "Req" /\ AnswerRequest(e)
      <4> DEFINE blk == [type |-> "Block", of |-> e.of, block |-> e.block]
      <4>1. e \in CtlEvent
        BY <1>7, <1>n, DequeueFacts DEF HandleEvent, TypeOK
      <4>2. blk \in SatEvent /\ blk.type = "Block"
        BY <1>n, <3>1, <4>1, CtlEventFacts, FrameTypes
      <4>3. PICK heard : satq' = AfterFrame(satq, blk, heard)
        BY <3>1 DEF AnswerRequest
      <4> HIDE DEF blk
      <4> QED BY <1>f, <4>2, <4>3
    <3>2. CASE satq' = satq
      BY <1>q, <3>2
    <3> QED BY <1>7, <3>1, <3>2 DEF HandleEvent, NoteHello, NoteReady
  <2> QED BY <1>v, <2>1, <2>2, <2>3
<1>8. CASE CtlReboot
  <2>1. boot' = boot + 1 /\ seq' = 0 /\ agreed' = agreed /\ satq' = satq
    BY <1>8 DEF CtlReboot
  <2>2. AgreedPast'
    <3> SUFFICES ASSUME NEW g \in agreed PROVE Precedes(g.of, Active')
      BY <2>1 DEF AgreedPast
    <3>1. g.of.boot <= boot /\ g.of.boot \in Nat
      BY <1>n, <1>s DEF AgreedPast, Active
    <3> QED BY <1>s, <2>1, <3>1 DEF Active
  <2> QED BY <1>q, <1>v, <2>1, <2>2
<1> QED BY <1>1, <1>2, <1>3, <1>4, <1>5, <1>6, <1>7, <1>8 DEF TaskStep

\* A satellite takes the first frame of its queue.
LEMMA HandledInOrder ==
    ASSUME CommitInv, NEW s \in Sats, satq[s] # <<>>, satq' = [satq EXCEPT ![s] = Tail(@)],
           \/ applied' = applied
           \/ /\ Head(satq[s]).type = "Apply"
              /\ applied' = [applied EXCEPT ![s] = @ \cup {Head(satq[s]).of}]
    PROVE  AppliesInOrder'
<1> DEFINE f == Head(satq[s])
<1>1. satq \in [Sats -> Seq(SatEvent)] /\ applied \in [Sats -> SUBSET OfferId]
  BY DEF CommitInv, PatchInv, TypeInv, TypeOK
<1>2. /\ satq[s] \in Seq(SatEvent) /\ QueueInOrder(satq[s])
      /\ \A e \in Range(satq[s]) : e.type = "Apply" => NotBefore(applied[s], e.of)
  BY <1>1 DEF CommitInv, AppliesInOrder
<1>3. /\ QueueInOrder(Tail(satq[s])) /\ Range(Tail(satq[s])) \subseteq Range(satq[s])
      /\ \A e \in Range(Tail(satq[s])) :
             e.type = "Apply" /\ f.type = "Apply" => ~ Precedes(e.of, f.of)
  BY <1>2, TailInOrder, DequeueFacts
<1>4. satq'[s] = Tail(satq[s]) /\ \A m \in Sats \ {s} : satq'[m] = satq[m] /\ applied'[m] = applied[m]
  BY <1>1
<1> HIDE DEF f
<1>5. \A e \in Range(Tail(satq[s])) : e.type = "Apply" => NotBefore(applied'[s], e.of)
  <2>1. CASE applied' = applied
    BY <1>2, <1>3, <2>1
  <2>2. CASE f.type = "Apply" /\ applied'[s] = applied[s] \cup {f.of}
    BY <1>2, <1>3, <2>2 DEF NotBefore
  <2> QED BY <1>1, <2>1, <2>2 DEF f
<1>6. \A m \in Sats \ {s} : /\ QueueInOrder(satq[m])
                            /\ \A e \in Range(satq[m]) : e.type = "Apply" => NotBefore(applied[m], e.of)
  BY DEF CommitInv, AppliesInOrder
<1> QED BY <1>3, <1>4, <1>5, <1>6 DEF AppliesInOrder, NotBefore

\* A satellite's steps: it obtains a patch, applies one that was decided, newer than
\* those before, or does nothing the service knows of.
LEMMA SatelliteCommits ==
    ASSUME CommitInv, NEW s \in Sats, SatStep(s)
    PROVE  /\ AgreedPast' /\ AppliesInOrder'
           /\ Service!Obtain(s) \/ Service!Apply(s) \/ UNCHANGED Service!svcVars
<1>n. TypeOK /\ PatchInv /\ AgreedPast /\ AppliesInOrder
  BY DEF CommitInv, PatchInv, TypeInv
<1>u. UNCHANGED <<phase, boot, seq, agreed>>
  BY DEF SatStep, HandleFrame, Greet, ControllerTimeout, SatReboot, ctlVars
<1>p. AgreedPast'
  BY <1>n, <1>u DEF AgreedPast, Active
<1>r. fetched \in [Sats -> SUBSET OfferId] /\ applied \in [Sats -> SUBSET OfferId]
  BY <1>n DEF TypeOK
<1>1. CASE HandleFrame(s)
  <2> DEFINE f == Head(satq[s])
  <2>1. satq[s] # <<>> /\ satq' = [satq EXCEPT ![s] = Tail(@)]
    BY <1>1 DEF HandleFrame
  <2>2. f \in SatEvent /\ f \in Range(satq[s])
    BY <1>n, <2>1, DequeueFacts DEF TypeOK
  <2>3. CASE applied' = applied
    <3>1. AppliesInOrder'
      BY <2>1, <2>3, HandledInOrder
    <3>2. CASE fetched' = fetched
      BY <1>p, <1>u, <2>3, <3>1, <3>2 DEF Service!svcVars
    <3>3. CASE Wanted(s, f) /\ StoreBlock(s, f) /\ fetched' = [fetched EXCEPT ![s] = @ \cup {f.of}]
      <4>1. f.of \in fetched'[s]
        BY <1>r, <3>3
      <4> HIDE DEF f
      <4>2. Service!Obtain(s)
        BY <1>u, <2>3, <3>3, <4>1 DEF Service!Obtain
      <4> QED BY <1>p, <3>1, <4>2
    <3> QED BY <1>1, <3>2, <3>3 DEF HandleFrame, HandleOffer, HandleBlock, HandleApply,
               HandleOther, StoreBlock, PeerFailed, stageVars
  <2>4. CASE /\ f.type = "Apply" /\ MayApply(s, f) /\ fetched' = fetched
             /\ applied' = [applied EXCEPT ![s] = @ \cup {f.of}]
    <3>1. AppliesInOrder'
      BY <2>1, <2>4, HandledInOrder
    <3>2. f.of \in OfferId
      BY <2>2, <2>4, SatEventFacts
    <3>3. f.of \in fetched[s]
      BY <1>n, <2>4, <3>2, MayApplyFetched
    <3>4. PICK d \in agreed : d.of = f.of
      BY <1>n, <2>2, <2>4 DEF PatchInv, AppliesAreAgreed, Agreed
    <3>5. NotBefore(applied[s], f.of)
      BY <1>n, <2>2, <2>4 DEF AppliesInOrder
    <3> HIDE DEF f
    <3>6. CASE f.of \in applied[s]
      <4>1. applied' = applied
        BY <1>r, <2>4, <3>6
      <4> QED BY <1>p, <1>u, <2>4, <3>1, <4>1 DEF Service!svcVars
    <3>7. CASE f.of \notin applied[s]
      <4>1. \A o \in applied[s] : Service!Before(o, d.of)
        BY <1>r, <3>2, <3>4, <3>5, <3>7, TransferOrder DEF NotBefore, Precedes
      <4>2. Service!Apply(s)
        BY <1>u, <2>4, <3>3, <3>4, <4>1 DEF Service!Apply
      <4> QED BY <1>p, <3>1, <4>2
    <3> QED BY <3>6, <3>7
  <2> QED BY <1>1, <2>3, <2>4 DEF HandleFrame, HandleOffer, HandleBlock, HandleApply,
             HandleOther, StoreBlock, PeerFailed, stageVars
<1>2. CASE Greet(s) \/ ControllerTimeout(s)
  <2>1. UNCHANGED <<satq, fetched, applied>>
    BY <1>2 DEF Greet, ControllerTimeout, airVars, stageVars
  <2> QED BY <1>n, <1>p, <1>u, <2>1 DEF AppliesInOrder, NotBefore, Service!svcVars
<1>3. CASE SatReboot(s)
  <2>1. satq' = [satq EXCEPT ![s] = <<>>] /\ UNCHANGED <<fetched, applied>>
    BY <1>3 DEF SatReboot
  <2>2. /\ satq \in [Sats -> Seq(SatEvent)] /\ satq'[s] = <<>>
        /\ \A m \in Sats \ {s} : satq'[m] = satq[m]
    BY <1>n, <2>1 DEF TypeOK
  <2>3. QueueInOrder(<<>>) /\ Range(<<>>) = {}
    BY DEF QueueInOrder, Range
  <2>4. AppliesInOrder'
    BY <1>n, <2>1, <2>2, <2>3 DEF AppliesInOrder, NotBefore
  <2> QED BY <1>p, <1>u, <2>1, <2>4 DEF Service!svcVars
<1> QED BY <1>1, <1>2, <1>3 DEF SatStep

\* The transfer, with its frames, blocks, staging areas, table and restarts, is an
\* implementation of PatchService: every step is a step of the service or none.
THEOREM RefinesService == Spec => ImplementsService
<1>1. Init => CommitInv /\ Service!SvcInit
  <2> SUFFICES ASSUME Init PROVE CommitInv /\ Service!SvcInit
    OBVIOUS
  <2>1. PatchInv
    BY InitPatchInv
  <2>2. agreed = {} /\ \A s \in Sats : satq[s] = <<>>
    BY DEF Init
  <2>3. QueueInOrder(<<>>) /\ Range(<<>>) = {}
    BY DEF QueueInOrder, Range
  <2>4. CommitInv
    BY <2>1, <2>2, <2>3 DEF CommitInv, AgreedPast, AppliesInOrder
  <2> QED BY <2>4 DEF Init, Service!SvcInit
<1>2. CommitInv /\ [Next]_vars /\ PatchInv' => CommitInv' /\ [Service!SvcNext]_(Service!svcVars)
  <2> SUFFICES ASSUME CommitInv, [Next]_vars, PatchInv'
               PROVE  CommitInv' /\ [Service!SvcNext]_(Service!svcVars)
    OBVIOUS
  <2>1. CASE TaskStep \/ HandleEvent \/ CtlReboot
    BY <2>1, ControllerCommits DEF CommitInv, Service!SvcNext
  <2>2. CASE \E s \in Sats : SatStep(s)
    BY <2>2, SatelliteCommits DEF CommitInv, Service!SvcNext
  <2>3. CASE UNCHANGED vars
    BY <2>3 DEF CommitInv, AgreedPast, AppliesInOrder, NotBefore, Active, Service!svcVars,
       vars, ctlVars, airVars, stageVars
  <2> QED BY <2>1, <2>2, <2>3 DEF Next
<1> QED BY <1>1, <1>2, PatchInvariant, PTL DEF Spec, ImplementsService, Service!SvcSpec
=============================================================================
