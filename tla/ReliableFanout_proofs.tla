------------------------ MODULE ReliableFanout_proofs ------------------------
(***************************************************************************)
(* Proofs about ReliableFanout, for any set of satellites, any queue        *)
(* length and any configuration, and without the bounds on boots, sends and *)
(* power cycles meaning anything (they are arbitrary naturals).             *)
(***************************************************************************)
EXTENDS ReliableFanout, FiniteSetTheorems, TLAPS
-----------------------------------------------------------------------------
\* The queues, over any set of events.  A dequeue takes an element of the queue
\* and leaves only elements of it.
LEMMA DequeueFacts ==
    ASSUME NEW S, NEW q \in Seq(S), q # <<>>
    PROVE  /\ Head(q) \in S /\ Head(q) \in Range(q)
           /\ Tail(q) \in Seq(S)
           /\ Range(Tail(q)) \subseteq Range(q)
BY DEF Range

\* An arrival that may be missed adds at most the event that arrives.
LEMMA ArrivesFacts ==
    ASSUME NEW S, NEW q \in Seq(S), NEW e \in S, NEW heard \in BOOLEAN
    PROVE  /\ Arrives(q, e, heard) \in Seq(S)
           /\ Range(Arrives(q, e, heard)) \subseteq Range(q) \cup {e}
BY DEF Arrives, Enqueue, Range

\* A broadcast leaves every receiver's queue well formed and adds to it at most
\* the frame that was sent.
LEMMA AfterFrameFacts ==
    ASSUME NEW R, NEW S, NEW qs \in [R -> Seq(S)], NEW f \in S, NEW heard
    PROVE  /\ AfterFrame(qs, f, heard) \in [R -> Seq(S)]
           /\ \A r \in R : Range(AfterFrame(qs, f, heard)[r]) \subseteq Range(qs[r]) \cup {f}
<1>1. \A r \in R : /\ AfterFrame(qs, f, heard)[r] \in Seq(S)
                   /\ Range(AfterFrame(qs, f, heard)[r]) \subseteq Range(qs[r]) \cup {f}
  <2> TAKE r \in R
  <2>1. CASE r \in heard
    BY <2>1, ArrivesFacts DEF AfterFrame, Arrives
  <2>2. CASE r \notin heard
    BY <2>2 DEF AfterFrame
  <2> QED BY <2>1, <2>2
<1> QED BY <1>1 DEF AfterFrame
-----------------------------------------------------------------------------
\* A transmission leaves every satellite's queue well formed and adds to it at
\* most the frame that was sent.
LEMMA TransmitFacts ==
    ASSUME NEW f \in SatEvent, NEW heard, Transmit(f, heard),
           satq \in [Sats -> Seq(SatEvent)]
    PROVE  /\ satq' \in [Sats -> Seq(SatEvent)]
           /\ \A s \in Sats : Range(satq'[s]) \subseteq Range(satq[s]) \cup {f}
BY AfterFrameFacts DEF Transmit
\* An arrival at the controller's queue likewise.
LEMMA CtlArrivesFacts ==
    ASSUME NEW e \in CtlEvent, NEW heard \in BOOLEAN, ctlq \in Seq(CtlEvent)
    PROVE  /\ Arrives(ctlq, e, heard) \in Seq(CtlEvent)
           /\ Range(Arrives(ctlq, e, heard)) \subseteq Range(ctlq) \cup {e}
BY ArrivesFacts
-----------------------------------------------------------------------------
\* The shapes of the messages that are sent.
LEMMA MessageTypes ==
    ASSUME TypeOK
    PROVE  /\ ActiveFrame \in SatEvent
           /\ [type |-> "TimeResp"] \in SatEvent
           /\ \A s \in Sats : /\ [type |-> "TimeReq", from |-> s] \in CtlEvent
                              /\ [type |-> "Registration", from |-> s] \in CtlEvent
           /\ \A s \in Sats : \A f \in SatEvent :
                  f.type = "Data" => AckOf(s, f) \in CtlEvent
BY DEF TypeOK, CtlTypeOK, ActiveFrame, SatEvent, DataFrame, TimeResp, CtlEvent,
       AckFrame, TimeReq, Registration, AckOf

\* The initial state has the types.
LEMMA InitTypeOK == Init => TypeOK
BY ControllerAssumption
   DEF Init, AirInit, CtlInit, SatInit, TypeOK, AirTypeOK, CtlTypeOK, SatTypeOK,
       Phases, InRound, Draining, NoPayload, NothingFinished

\* The controller's own steps keep the types.
LEMMA ControllerTypeOK ==
    ASSUME TypeOK, CtlNext, UNCHANGED satVars
    PROVE  TypeOK'
<1> USE ControllerAssumption DEF TypeOK, AirTypeOK, CtlTypeOK, Phases, InRound,
        Draining, airVars, table, round, history, NoPayload
<1>s. SatTypeOK'
  BY DEF SatTypeOK, satVars
<1>1. CASE HandleEvent
  <2> DEFINE e == Head(ctlq)
  <2>1. e \in CtlEvent /\ ctlq' \in Seq(CtlEvent)
    BY <1>1, DequeueFacts DEF HandleEvent
  <2>2. e.from \in Sats
    BY <2>1 DEF CtlEvent, AckFrame, TimeReq, Registration
  <2>3. UNCHANGED <<phase, boot, round, pending, last, history>>
    BY <1>1 DEF HandleEvent
  <2>4. CASE NoteAck(e)
    BY <1>s, <2>1, <2>2, <2>3, <2>4 DEF NoteAck, Counts
  <2>5. CASE NoteTimeRequest(e)
    <3>1. PICK heard : Transmit([type |-> "TimeResp"], heard)
      BY <2>5 DEF NoteTimeRequest
    <3>2. satq' \in [Sats -> Seq(SatEvent)]
      BY <3>1, TransmitFacts, MessageTypes
    <3> QED BY <1>s, <2>1, <2>2, <2>3, <2>5, <3>2 DEF NoteTimeRequest
  <2>6. CASE NoteRegistration(e)
    BY <1>s, <2>1, <2>2, <2>3, <2>6 DEF NoteRegistration
  <2> QED BY <1>1, <2>4, <2>5, <2>6 DEF HandleEvent
<1>2. CASE LoopTop
  <2>1. PICK gone \in SUBSET used : StayIdle(gone) \/ BeginRound(gone)
    BY <1>2 DEF LoopTop
  <2>2. CASE StayIdle(gone)
    BY <1>s, <2>2 DEF StayIdle, Evict
  <2>3. CASE BeginRound(gone)
    BY <1>s, <2>3 DEF BeginRound, SlotAfterTake, NextSequence
  <2> QED BY <2>1, <2>2, <2>3
<1>3. CASE Broadcast
  <2>1. satq' \in [Sats -> Seq(SatEvent)]
    BY <1>3, TransmitFacts, MessageTypes DEF Broadcast
  <2> QED BY <1>s, <1>3, <2>1 DEF Broadcast, Missing
<1>4. CASE BroadcastDrainEnds
  BY <1>s, <1>4 DEF BroadcastDrainEnds, Retryable, Missing
<1>5. CASE RetryEnds
  BY <1>s, <1>5 DEF RetryEnds
<1>6. CASE RetryPass
  <2>1. PICK now \in SUBSET (Retryable \cap scheduled) :
            LET due == (Retryable \ scheduled) \cup now IN
            /\ \E heard \in SUBSET due : Transmit(ActiveFrame, heard)
            /\ sends' = [s \in Sats |-> IF s \in due THEN sends[s] + 1 ELSE sends[s]]
            /\ scheduled' = scheduled \cup due
    BY <1>6 DEF RetryPass
  <2>2. satq' \in [Sats -> Seq(SatEvent)]
    BY <2>1, TransmitFacts, MessageTypes
  <2> QED BY <1>s, <1>6, <2>1, <2>2 DEF RetryPass, Retryable, Missing
<1>7. CASE RetryDrainEnds
  BY <1>s, <1>7 DEF RetryDrainEnds, Later
<1>8. CASE Finish
  <2>1. Cardinality(expected) \in Nat /\ Cardinality(acked) \in Nat
    BY FS_Subset, FS_CardinalityType
  <2>2. Complete(expected, acked) \in BOOLEAN
    BY DEF Complete
  <2> QED BY <1>s, <1>8, <2>1, <2>2 DEF Finish, Outcome
<1>9. CASE IdleDrainEnds
  BY <1>s, <1>9 DEF IdleDrainEnds, BetweenRounds
<1>10. CASE Send
  BY <1>s, <1>10 DEF Send
<1>11. CASE CtlReboot
  BY <1>s, <1>11 DEF CtlReboot, FreshBootId, NothingFinished
<1> QED BY <1>1, <1>2, <1>3, <1>4, <1>5, <1>6, <1>7, <1>8, <1>9, <1>10, <1>11
        DEF CtlNext, TaskStep

\* A satellite's steps keep the types.
LEMMA SatelliteTypeOK ==
    ASSUME TypeOK, NEW s \in Sats, UNCHANGED ctlVars,
           \/ HandleData(s) \/ HandleTimeResp(s) \/ RequestTime(s) \/ Register(s)
           \/ ControllerTimeout(s) \/ SatReboot(s)
    PROVE  TypeOK'
<1> USE DEF TypeOK, AirTypeOK, SatTypeOK, airVars, satVars
<1>c. CtlTypeOK'
  BY DEF CtlTypeOK, ctlVars
<1>1. CASE HandleData(s)
  <2> DEFINE f == Head(satq[s])
  <2>1. f \in SatEvent /\ Tail(satq[s]) \in Seq(SatEvent)
    BY <1>1, DequeueFacts DEF HandleData
  <2>2. f.type = "Data" /\ f.boot \in Nat /\ f.seq \in Nat /\ f.payload \in Nat
    BY <1>1, <2>1 DEF HandleData, SatEvent, DataFrame, TimeResp
  <2>3. Remembered(s, f.boot) \in Nat
    BY <2>2 DEF Remembered
  <2>4. locked' \in SUBSET Sats /\ satBoot' \in [Sats -> Nat]
        /\ satq' \in [Sats -> Seq(SatEvent)] /\ crashes' \in Nat
    BY <1>1, <2>1, <2>2 DEF HandleData
  <2>5. CASE Accept(s, f)
    <3>1. ctlq' \in Seq(CtlEvent)
      <4>1. AckOf(s, f) \in CtlEvent
        BY <2>1, <2>2, MessageTypes
      <4>2. PICK heard \in BOOLEAN : ctlq' = Arrives(ctlq, AckOf(s, f), heard)
        BY <2>5 DEF Accept
      <4> HIDE DEF f
      <4> QED BY <4>1, <4>2, CtlArrivesFacts
    <3>2. satLast' \in [Sats -> Nat] /\ got' \in [Sats -> SUBSET Nat]
      BY <2>2, <2>3, <2>5 DEF Accept
    <3>3. log' \in [Sats -> Seq(Nat)]
      BY <2>2, <2>5 DEF Accept
    <3> QED BY <1>c, <2>4, <3>1, <3>2, <3>3
  <2>6. CASE PeerFailed(s, f)
    BY <1>c, <2>3, <2>4, <2>6 DEF PeerFailed
  <2> QED BY <1>1, <2>5, <2>6 DEF HandleData
<1>2. CASE HandleTimeResp(s)
  BY <1>c, <1>2, DequeueFacts DEF HandleTimeResp
<1>3. CASE RequestTime(s)
  BY <1>c, <1>3, MessageTypes, CtlArrivesFacts DEF RequestTime
<1>4. CASE Register(s)
  BY <1>c, <1>4, MessageTypes, CtlArrivesFacts DEF Register
<1>5. CASE ControllerTimeout(s)
  BY <1>c, <1>5 DEF ControllerTimeout
<1>6. CASE SatReboot(s)
  BY <1>c, <1>6 DEF SatReboot
<1> QED BY <1>1, <1>2, <1>3, <1>4, <1>5, <1>6

\* Type correctness.  Beyond the types it says that at every moment only
\* satellites in the table are expected, and only expected ones are acked or
\* scheduled, which is what lets the counts of the code be compared as sets.
THEOREM TypeCorrect == Spec => []TypeOK
<1>1. Init => TypeOK
  BY InitTypeOK
<1>2. TypeOK /\ [Next]_vars => TypeOK'
  <2> SUFFICES ASSUME TypeOK, [Next]_vars PROVE TypeOK'
    OBVIOUS
  <2>1. CASE CtlNext /\ UNCHANGED satVars
    BY <2>1, ControllerTypeOK
  <2>2. CASE SatNext /\ UNCHANGED ctlVars
    BY <2>2, SatelliteTypeOK DEF SatNext
  <2>3. CASE UNCHANGED vars
    BY <2>3 DEF vars, TypeOK, AirTypeOK, CtlTypeOK, SatTypeOK, airVars, ctlVars,
        satVars
  <2> QED BY <2>1, <2>2, <2>3 DEF Next
<1> QED BY <1>1, <1>2, PTL DEF Spec
-----------------------------------------------------------------------------
(***************************************************************************)
(* A reported delivery is a delivery.  DeliveryInv is inductive: an ACK of  *)
(* the active round is truthful because the satellite that sent it either   *)
(* accepted a frame of the active round, or took the frame for a duplicate, *)
(* and then its last sequence is at least the active one, hence equal to it. *)
(* When the round or the boot changes, every ACK and every memory of a      *)
(* satellite falls behind at once.                                         *)
(***************************************************************************)
LEMMA InitDelivery == Init => DeliveryInv
BY InitTypeOK
   DEF Init, AirInit, CtlInit, SatInit, DeliveryInv, FramesCarryRoundPayload,
       AcksTellTheTruth, SatellitesNotAhead, AckedMeansDelivered,
       CompleteMeansDelivered, NothingFinished, InRound, Range

\* Steps that leave the boot, the round and the satellites alone, and send at
\* most the active frame and time responses, keep what is known of the messages.
LEMMA QuietStep ==
    ASSUME DeliveryInv, UNCHANGED <<boot, seq, tx, satVars>>,
           \A s \in Sats : \A f \in Range(satq'[s]) :
               \/ f \in Range(satq[s])
               \/ f = [type |-> "TimeResp"]
               \/ f = ActiveFrame /\ phase \in InRound,
           Range(ctlq') \subseteq Range(ctlq)
    PROVE  FramesCarryRoundPayload' /\ AcksTellTheTruth' /\ SatellitesNotAhead'
<1> USE DEF DeliveryInv, satVars
<1>1. FramesCarryRoundPayload'
  <2> SUFFICES ASSUME NEW s \in Sats, NEW f \in Range(satq'[s]), f.type = "Data"
               PROVE  /\ f.seq > 0 /\ f.boot <= boot
                      /\ f.boot = boot => f.seq <= seq /\ (f.seq = seq => f.payload = tx)
    BY DEF FramesCarryRoundPayload
  <2>1. CASE f \in Range(satq[s])
    BY <2>1 DEF FramesCarryRoundPayload
  <2>2. CASE f = ActiveFrame /\ phase \in InRound
    BY <2>2 DEF ActiveFrame, TypeOK, CtlTypeOK
  <2>3. CASE f = [type |-> "TimeResp"]
    BY <2>3
  <2> QED BY <2>1, <2>2, <2>3
<1>2. AcksTellTheTruth'
  BY DEF AcksTellTheTruth
<1>3. SatellitesNotAhead'
  BY DEF SatellitesNotAhead
<1> QED BY <1>1, <1>2, <1>3

\* The controller's own steps keep the invariant.  Only BeginRound and CtlReboot
\* change what counts as active; Finish is where `acked` becomes the report.
LEMMA ControllerDelivery ==
    ASSUME DeliveryInv, CtlNext, UNCHANGED satVars
    PROVE  DeliveryInv'
<1>t. TypeOK'
  BY ControllerTypeOK DEF DeliveryInv
<1> USE <1>t DEF DeliveryInv, satVars, airVars, table, round, history
<1>1. CASE HandleEvent
  <2> DEFINE e == Head(ctlq)
  <2>1. e \in CtlEvent /\ e \in Range(ctlq) /\ Range(ctlq') \subseteq Range(ctlq)
    BY <1>1, DequeueFacts DEF HandleEvent, TypeOK, AirTypeOK
  <2>2. UNCHANGED <<phase, boot, round, pending, last, history>>
    BY <1>1 DEF HandleEvent
  <2>3. CASE e.type = "Ack" /\ NoteAck(e)
    <3>1. FramesCarryRoundPayload' /\ AcksTellTheTruth' /\ SatellitesNotAhead'
      BY <2>1, <2>2, <2>3, QuietStep DEF NoteAck, Counts
    <3>2. AckedMeansDelivered'
      BY <2>1, <2>2, <2>3 DEF NoteAck, Counts, AckedMeansDelivered, AcksTellTheTruth
    <3> QED BY <2>2, <3>1, <3>2 DEF CompleteMeansDelivered
  <2>4. CASE NoteTimeRequest(e)
    <3>1. PICK heard : Transmit([type |-> "TimeResp"], heard)
      BY <2>4 DEF NoteTimeRequest
    <3>2. \A s \in Sats : Range(satq'[s]) \subseteq Range(satq[s]) \cup {[type |-> "TimeResp"]}
      BY <3>1, TransmitFacts, MessageTypes DEF TypeOK, AirTypeOK
    <3>3. FramesCarryRoundPayload' /\ AcksTellTheTruth' /\ SatellitesNotAhead'
      BY <2>1, <2>2, <3>2, QuietStep
    <3> QED BY <2>2, <2>4, <3>3 DEF NoteTimeRequest, AckedMeansDelivered,
            CompleteMeansDelivered
  <2>5. CASE NoteRegistration(e)
    <3>1. FramesCarryRoundPayload' /\ AcksTellTheTruth' /\ SatellitesNotAhead'
      BY <2>1, <2>2, <2>5, QuietStep DEF NoteRegistration
    <3> QED BY <2>2, <2>5, <3>1 DEF NoteRegistration, AckedMeansDelivered,
            CompleteMeansDelivered
  <2> QED BY <1>1, <2>3, <2>4, <2>5 DEF HandleEvent
<1>2. CASE LoopTop
  <2>1. PICK gone \in SUBSET used : StayIdle(gone) \/ BeginRound(gone)
    BY <1>2 DEF LoopTop
  <2>2. CASE StayIdle(gone)
    <3>1. FramesCarryRoundPayload' /\ AcksTellTheTruth' /\ SatellitesNotAhead'
      BY <2>2, QuietStep DEF StayIdle
    <3> QED BY <2>2, <3>1 DEF StayIdle, Evict, AckedMeansDelivered,
            CompleteMeansDelivered, InRound
  <2>3. CASE BeginRound(gone)
    <3>1. boot' = boot /\ seq' = seq + 1 /\ seq \in Nat /\ boot \in Nat
      BY <2>3 DEF BeginRound, SlotAfterTake, NextSequence, TypeOK, CtlTypeOK
    <3>2. FramesCarryRoundPayload'
      <4> SUFFICES ASSUME NEW s \in Sats, NEW f \in Range(satq[s]), f.type = "Data"
                   PROVE  /\ f.seq > 0 /\ f.boot <= boot
                          /\ f.boot = boot => f.seq <= seq' /\ f.seq # seq'
        BY <2>3, <3>1 DEF BeginRound, SlotAfterTake, NextSequence, FramesCarryRoundPayload
      <4>1. f \in SatEvent
        BY DEF TypeOK, AirTypeOK, Range
      <4>2. f.seq \in Nat /\ f.boot \in Nat
        BY <4>1 DEF SatEvent, DataFrame, TimeResp
      <4> QED BY <3>1, <4>2 DEF FramesCarryRoundPayload
    <3>3. AcksTellTheTruth'
      <4> SUFFICES ASSUME NEW e \in Range(ctlq), e.type = "Ack"
                   PROVE  /\ e.boot <= boot
                          /\ e.boot = boot => e.seq <= seq' /\ e.seq # seq'
        BY <2>3, <3>1 DEF BeginRound, SlotAfterTake, NextSequence, AcksTellTheTruth
      <4>1. e \in CtlEvent
        BY DEF TypeOK, AirTypeOK, Range
      <4>2. e.seq \in Nat /\ e.boot \in Nat
        BY <4>1 DEF CtlEvent, AckFrame, TimeReq, Registration
      <4> QED BY <3>1, <4>2 DEF AcksTellTheTruth
    <3>4. SatellitesNotAhead'
      BY <3>1 DEF SatellitesNotAhead, TypeOK, SatTypeOK
    <3>5. AckedMeansDelivered' /\ CompleteMeansDelivered'
      BY <2>3 DEF BeginRound, SlotAfterTake, NextSequence, AckedMeansDelivered, CompleteMeansDelivered
    <3>6. seq' > 0
      BY <3>1
    <3> QED BY <3>2, <3>3, <3>4, <3>5, <3>6
  <2> QED BY <2>1, <2>2, <2>3
<1>3. CASE Broadcast
  <2>1. \A s \in Sats : Range(satq'[s]) \subseteq Range(satq[s]) \cup {ActiveFrame}
    BY <1>3, TransmitFacts, MessageTypes DEF Broadcast, TypeOK, AirTypeOK
  <2>2. FramesCarryRoundPayload' /\ AcksTellTheTruth' /\ SatellitesNotAhead'
    BY <1>3, <2>1, QuietStep DEF Broadcast, InRound
  <2> QED BY <1>3, <2>2 DEF Broadcast, AckedMeansDelivered, CompleteMeansDelivered, InRound
<1>4. CASE BroadcastDrainEnds
  <2>1. FramesCarryRoundPayload' /\ AcksTellTheTruth' /\ SatellitesNotAhead'
    BY <1>4, QuietStep DEF BroadcastDrainEnds
  <2> QED BY <1>4, <2>1 DEF BroadcastDrainEnds, AckedMeansDelivered,
          CompleteMeansDelivered, InRound
<1>5. CASE RetryEnds
  <2>1. FramesCarryRoundPayload' /\ AcksTellTheTruth' /\ SatellitesNotAhead'
    BY <1>5, QuietStep DEF RetryEnds
  <2> QED BY <1>5, <2>1 DEF RetryEnds, AckedMeansDelivered, CompleteMeansDelivered, InRound
<1>6. CASE RetryPass
  <2>1. \E heard : Transmit(ActiveFrame, heard)
    BY <1>6 DEF RetryPass
  <2>2. \A s \in Sats : Range(satq'[s]) \subseteq Range(satq[s]) \cup {ActiveFrame}
    BY <2>1, TransmitFacts, MessageTypes DEF TypeOK, AirTypeOK
  <2>3. FramesCarryRoundPayload' /\ AcksTellTheTruth' /\ SatellitesNotAhead'
    BY <1>6, <2>2, QuietStep DEF RetryPass, InRound
  <2> QED BY <1>6, <2>3 DEF RetryPass, AckedMeansDelivered, CompleteMeansDelivered, InRound
<1>7. CASE RetryDrainEnds
  <2>1. FramesCarryRoundPayload' /\ AcksTellTheTruth' /\ SatellitesNotAhead'
    BY <1>7, QuietStep DEF RetryDrainEnds, Later
  <2> QED BY <1>7, <2>1 DEF RetryDrainEnds, Later, AckedMeansDelivered,
          CompleteMeansDelivered, InRound
<1>8. CASE Finish
  <2>1. FramesCarryRoundPayload' /\ AcksTellTheTruth' /\ SatellitesNotAhead'
    BY <1>8, QuietStep DEF Finish, Outcome
  <2>2. CompleteMeansDelivered'
    BY <1>8 DEF Finish, Outcome, Complete, AckedMeansDelivered, CompleteMeansDelivered
  <2> QED BY <1>8, <2>1, <2>2 DEF Finish, Outcome, AckedMeansDelivered, InRound
<1>9. CASE IdleDrainEnds
  <2>1. FramesCarryRoundPayload' /\ AcksTellTheTruth' /\ SatellitesNotAhead'
    BY <1>9, QuietStep DEF IdleDrainEnds, BetweenRounds
  <2> QED BY <1>9, <2>1 DEF IdleDrainEnds, AckedMeansDelivered,
          CompleteMeansDelivered, InRound
<1>10. CASE Send
  <2>1. FramesCarryRoundPayload' /\ AcksTellTheTruth' /\ SatellitesNotAhead'
    BY <1>10, QuietStep DEF Send
  <2> QED BY <1>10, <2>1 DEF Send, AckedMeansDelivered, CompleteMeansDelivered
<1>11. CASE CtlReboot
  <2>1. boot' = boot + 1 /\ boot \in Nat /\ satq' = satq /\ Range(ctlq') = {}
    BY <1>11 DEF CtlReboot, FreshBootId, TypeOK, CtlTypeOK, Range
  <2>2. FramesCarryRoundPayload'
    <3> SUFFICES ASSUME NEW s \in Sats, NEW f \in Range(satq[s]), f.type = "Data"
                 PROVE  f.seq > 0 /\ f.boot <= boot' /\ f.boot # boot'
      BY <2>1 DEF FramesCarryRoundPayload
    <3>1. f \in SatEvent
      BY DEF TypeOK, AirTypeOK, Range
    <3>2. f.boot \in Nat
      BY <3>1 DEF SatEvent, DataFrame, TimeResp
    <3> QED BY <2>1, <3>2 DEF FramesCarryRoundPayload
  <2>3. AcksTellTheTruth'
    BY <2>1 DEF AcksTellTheTruth
  <2>4. SatellitesNotAhead'
    BY <2>1 DEF SatellitesNotAhead, TypeOK, SatTypeOK
  <2>5. AckedMeansDelivered' /\ CompleteMeansDelivered'
    BY <1>11 DEF CtlReboot, FreshBootId, AckedMeansDelivered, CompleteMeansDelivered, NothingFinished
  <2> QED BY <1>11, <2>2, <2>3, <2>4, <2>5 DEF CtlReboot, FreshBootId, InRound
<1> QED BY <1>1, <1>2, <1>3, <1>4, <1>5, <1>6, <1>7, <1>8, <1>9, <1>10, <1>11
        DEF CtlNext, TaskStep

\* A satellite's steps keep it.  The work is in HandleData: its ACK is truthful.
LEMMA SatelliteDelivery ==
    ASSUME DeliveryInv, NEW s \in Sats, UNCHANGED ctlVars,
           \/ HandleData(s) \/ HandleTimeResp(s) \/ RequestTime(s) \/ Register(s)
           \/ ControllerTimeout(s) \/ SatReboot(s)
    PROVE  DeliveryInv'
<1>t. TypeOK'
  BY SatelliteTypeOK DEF DeliveryInv
<1>c. UNCHANGED <<boot, seq, tx, phase, acked, last>>
  BY DEF ctlVars
<1>g. \A n \in Sats : got[n] \subseteq got'[n]
  <2>1. got \in [Sats -> SUBSET Nat]
    BY DEF DeliveryInv, TypeOK, SatTypeOK
  <2>2. CASE HandleData(s)
    <3>1. CASE Accept(s, Head(satq[s]))
      BY <2>1, <3>1 DEF Accept
    <3>2. CASE PeerFailed(s, Head(satq[s]))
      BY <3>2 DEF PeerFailed
    <3> QED BY <2>2, <3>1, <3>2 DEF HandleData
  <2>3. CASE ~ HandleData(s)
    BY <2>3 DEF HandleTimeResp, RequestTime, Register, ControllerTimeout, SatReboot,
       satVars
  <2> QED BY <2>2, <2>3
<1>a. AckedMeansDelivered' /\ (phase' \in InRound => seq' > 0)
  BY <1>c, <1>g DEF DeliveryInv, AckedMeansDelivered, TypeOK, CtlTypeOK
<1>l. CompleteMeansDelivered'
  BY <1>c, <1>g DEF DeliveryInv, CompleteMeansDelivered, TypeOK, CtlTypeOK
<1> USE <1>t, <1>c DEF DeliveryInv, airVars, satVars
\* The queues only lose elements, or the controller's gains event e.
<1>q. ASSUME \A n \in Sats : Range(satq'[n]) \subseteq Range(satq[n])
      PROVE  FramesCarryRoundPayload'
  BY <1>q DEF FramesCarryRoundPayload
<1>r. ASSUME \A e \in Range(ctlq') : e \in Range(ctlq) \/ e.type # "Ack"
      PROVE  AcksTellTheTruth'
  <2> SUFFICES ASSUME NEW e \in Range(ctlq), e.type = "Ack"
               PROVE  /\ e.boot <= boot
                      /\ e.boot = boot => e.seq <= seq /\ (e.seq = seq => tx \in got'[e.from])
    BY <1>r DEF AcksTellTheTruth
  <2>1. e.from \in Sats
    BY DEF TypeOK, AirTypeOK, Range, CtlEvent, AckFrame, TimeReq, Registration
  <2> QED BY <2>1, <1>g DEF AcksTellTheTruth
<1>1. CASE HandleData(s)
  <2> DEFINE f == Head(satq[s])
             m == Remembered(s, f.boot)
  <2>1. f \in SatEvent /\ f \in Range(satq[s]) /\ f.type = "Data"
        /\ Range(Tail(satq[s])) \subseteq Range(satq[s])
    BY <1>1, DequeueFacts DEF HandleData, TypeOK, AirTypeOK
  <2>2. f.boot \in Nat /\ f.seq \in Nat /\ f.payload \in Nat
    BY <2>1 DEF SatEvent, DataFrame, TimeResp
  <2>3. /\ f.seq > 0 /\ f.boot <= boot
        /\ f.boot = boot => f.seq <= seq /\ (f.seq = seq => f.payload = tx)
    BY <2>1 DEF FramesCarryRoundPayload
  <2>4. FramesCarryRoundPayload'
    BY <1>1, <1>q, <2>1 DEF HandleData, TypeOK, AirTypeOK
  <2>5. m \in Nat /\ (f.boot = boot => m <= seq /\ (m = seq /\ seq > 0 => tx \in got[s]))
    <3>1. satLast[s] \in Nat /\ seq \in Nat
      BY DEF TypeOK, SatTypeOK, CtlTypeOK
    <3>2. CASE satBoot[s] = f.boot
      <4>1. m = satLast[s]
        BY <3>2 DEF Remembered
      <4> QED BY <3>1, <3>2, <4>1 DEF SatellitesNotAhead
    <3>3. CASE satBoot[s] # f.boot
      <4>1. m = 0
        BY <3>3 DEF Remembered
      <4> QED BY <3>1, <4>1
    <3> QED BY <3>2, <3>3
  <2>6. CASE Accept(s, f)
    <3> DEFINE dup == IsDuplicate(m # 0, f.seq, m)
    <3>1. /\ satBoot' = [satBoot EXCEPT ![s] = f.boot]
          /\ satLast' = [satLast EXCEPT ![s] = IF dup THEN m ELSE f.seq]
          /\ got' = [got EXCEPT ![s] = IF dup THEN got[s] ELSE got[s] \cup {f.payload}]
      BY <1>1, <2>6 DEF HandleData, Accept
    \* The heart of it: a frame of the active round leaves its payload delivered.
    <3>2. f.boot = boot /\ f.seq = seq => tx \in got'[s]
      <4>1. CASE dup
        <5>1. got'[s] = got[s]
          BY <3>1, <4>1 DEF TypeOK, SatTypeOK
        <5>2. f.seq <= m /\ seq \in Nat
          BY <4>1 DEF IsDuplicate, TypeOK, CtlTypeOK
        <5> HIDE DEF m
        <5> QED BY <2>2, <2>3, <2>5, <5>1, <5>2
      <4>2. CASE ~ dup
        BY <2>3, <3>1, <4>2 DEF TypeOK, SatTypeOK
      <4> QED BY <4>1, <4>2
    <3>3. SatellitesNotAhead'
      <4> SUFFICES ASSUME NEW n \in Sats
                   PROVE  /\ satBoot'[n] <= boot
                          /\ satBoot'[n] = boot =>
                                 /\ satLast'[n] <= seq
                                 /\ satLast'[n] = seq /\ seq > 0 => tx \in got'[n]
        BY DEF SatellitesNotAhead
      <4>1. CASE n = s
        BY <1>g, <2>2, <2>3, <2>5, <3>1, <3>2, <4>1 DEF TypeOK, SatTypeOK
      <4>2. CASE n # s
        BY <3>1, <4>2 DEF SatellitesNotAhead, TypeOK, SatTypeOK
      <4> QED BY <4>1, <4>2
    <3>4. AcksTellTheTruth'
      <4>1. Range(ctlq') \subseteq Range(ctlq) \cup {AckOf(s, f)}
        BY <2>1, <2>6, MessageTypes, CtlArrivesFacts DEF Accept, TypeOK, AirTypeOK
      <4> SUFFICES ASSUME NEW e \in Range(ctlq'), e.type = "Ack"
                   PROVE  /\ e.boot <= boot
                          /\ e.boot = boot =>
                                 e.seq <= seq /\ (e.seq = seq => tx \in got'[e.from])
        BY DEF AcksTellTheTruth
      <4>2. CASE e \in Range(ctlq)
        <5>1. e.from \in Sats
          <6>1. e \in CtlEvent
            BY <4>2 DEF TypeOK, AirTypeOK, Range
          <6> QED BY <6>1 DEF CtlEvent, AckFrame, TimeReq, Registration
        <5> QED BY <1>g, <4>2, <5>1 DEF AcksTellTheTruth
      <4>3. CASE e = AckOf(s, f)
        BY <2>3, <3>2, <4>3 DEF AckOf
      <4> QED BY <4>1, <4>2, <4>3
    <3> QED BY <1>a, <1>l, <2>4, <3>3, <3>4
  <2>7. CASE PeerFailed(s, f)
    <3>1. /\ satBoot' = [satBoot EXCEPT ![s] = f.boot]
          /\ satLast' = [satLast EXCEPT ![s] = m]
          /\ got' = got /\ ctlq' = ctlq
      BY <1>1, <2>7 DEF HandleData, PeerFailed
    <3>2. SatellitesNotAhead'
      <4> SUFFICES ASSUME NEW n \in Sats
                   PROVE  /\ satBoot'[n] <= boot
                          /\ satBoot'[n] = boot =>
                                 /\ satLast'[n] <= seq
                                 /\ satLast'[n] = seq /\ seq > 0 => tx \in got'[n]
        BY DEF SatellitesNotAhead
      <4>1. CASE n = s
        BY <2>3, <2>5, <3>1, <4>1 DEF TypeOK, SatTypeOK
      <4>2. CASE n # s
        BY <3>1, <4>2 DEF SatellitesNotAhead, TypeOK, SatTypeOK
      <4> QED BY <4>1, <4>2
    <3> QED BY <1>a, <1>l, <1>r, <2>4, <3>1, <3>2
  <2> QED BY <1>1, <2>6, <2>7 DEF HandleData
<1>2. CASE HandleTimeResp(s)
  <2>1. \A n \in Sats : Range(satq'[n]) \subseteq Range(satq[n])
    BY <1>2, DequeueFacts DEF HandleTimeResp, TypeOK, AirTypeOK
  <2>2. SatellitesNotAhead'
    BY <1>2 DEF HandleTimeResp, SatellitesNotAhead
  <2> QED BY <1>2, <1>a, <1>l, <1>q, <1>r, <2>1, <2>2 DEF HandleTimeResp
<1>3. CASE RequestTime(s) \/ Register(s)
  <2>1. \A e \in Range(ctlq') : e \in Range(ctlq) \/ e.type # "Ack"
    <3>1. CASE RequestTime(s)
      <4> DEFINE r == [type |-> "TimeReq", from |-> s]
      <4>1. r \in CtlEvent /\ r.type # "Ack"
        BY MessageTypes
      <4>2. Range(ctlq') \subseteq Range(ctlq) \cup {r}
        BY <3>1, <4>1, CtlArrivesFacts DEF RequestTime, TypeOK, AirTypeOK
      <4> QED BY <4>1, <4>2
    <3>2. CASE Register(s)
      <4> DEFINE r == [type |-> "Registration", from |-> s]
      <4>1. r \in CtlEvent /\ r.type # "Ack"
        BY MessageTypes
      <4>2. Range(ctlq') \subseteq Range(ctlq) \cup {r}
        BY <3>2, <4>1, CtlArrivesFacts DEF Register, TypeOK, AirTypeOK
      <4> QED BY <4>1, <4>2
    <3> QED BY <1>3, <3>1, <3>2
  <2>2. SatellitesNotAhead'
    BY <1>3 DEF RequestTime, Register, SatellitesNotAhead
  <2> QED BY <1>3, <1>a, <1>l, <1>q, <1>r, <2>1, <2>2 DEF RequestTime, Register
<1>4. CASE ControllerTimeout(s)
  <2>1. SatellitesNotAhead'
    BY <1>4 DEF ControllerTimeout, SatellitesNotAhead
  <2> QED BY <1>4, <1>a, <1>l, <1>q, <1>r, <2>1 DEF ControllerTimeout
<1>5. CASE SatReboot(s)
  <2>1. \A n \in Sats : Range(satq'[n]) \subseteq Range(satq[n])
    BY <1>5 DEF SatReboot, TypeOK, AirTypeOK, Range
  <2>2. SatellitesNotAhead'
    <3> SUFFICES ASSUME NEW n \in Sats
                 PROVE  /\ satBoot'[n] <= boot
                        /\ satBoot'[n] = boot =>
                               /\ satLast'[n] <= seq
                               /\ satLast'[n] = seq /\ seq > 0 => tx \in got'[n]
      BY DEF SatellitesNotAhead
    <3>1. CASE n = s
      <4>1. satBoot'[n] = 0 /\ satLast'[n] = 0 /\ seq \in Nat /\ boot \in Nat
        BY <1>5, <3>1 DEF SatReboot, TypeOK, SatTypeOK, CtlTypeOK
      <4> QED BY <4>1
    <3>2. CASE n # s
      <4>1. satBoot'[n] = satBoot[n] /\ satLast'[n] = satLast[n] /\ got' = got
        BY <1>5, <3>2 DEF SatReboot, TypeOK, SatTypeOK
      <4> QED BY <4>1 DEF SatellitesNotAhead
    <3> QED BY <3>1, <3>2
  <2> QED BY <1>5, <1>a, <1>l, <1>q, <1>r, <2>1, <2>2 DEF SatReboot
<1> QED BY <1>1, <1>2, <1>3, <1>4, <1>5

\* The invariant as a whole, for every configuration.
THEOREM DeliveryInvariant == Spec => []DeliveryInv
<1>1. DeliveryInv /\ [Next]_vars => DeliveryInv'
  <2> SUFFICES ASSUME DeliveryInv, [Next]_vars PROVE DeliveryInv'
    OBVIOUS
  <2>1. CASE CtlNext /\ UNCHANGED satVars
    BY <2>1, ControllerDelivery
  <2>2. CASE SatNext /\ UNCHANGED ctlVars
    BY <2>2, SatelliteDelivery DEF SatNext
  <2>3. CASE UNCHANGED vars
    BY <2>3 DEF vars, DeliveryInv, TypeOK, AirTypeOK, CtlTypeOK, SatTypeOK,
        airVars, ctlVars, satVars, FramesCarryRoundPayload, AcksTellTheTruth,
        SatellitesNotAhead, AckedMeansDelivered, CompleteMeansDelivered
  <2> QED BY <2>1, <2>2, <2>3 DEF Next
<1> QED BY <1>1, InitDelivery, PTL DEF Spec

\* A counted ACK comes from a satellite that has been given the round's payload.
THEOREM AckedDelivered == Spec => []AckedMeansDelivered
BY DeliveryInvariant, PTL DEF DeliveryInv

\* last_sequence_complete is never TRUE unless every member of the round has
\* been given its payload.
THEOREM CompleteDelivered == Spec => []CompleteMeansDelivered
BY DeliveryInvariant, PTL DEF DeliveryInv
-----------------------------------------------------------------------------
(***************************************************************************)
(* Bounded effort.  During the broadcasts the loop counter bounds the       *)
(* attempts; afterwards only nodes below MaxAttempts are sent to.           *)
(***************************************************************************)
LEMMA EffortStep ==
    ASSUME EffortInv, [Next]_vars, TypeOK'
    PROVE  EffortInv'
<1>0. /\ SendRetries \in Nat /\ MaxAttempts \in Nat /\ SendRetries > 0
      /\ EffortLimit \in Nat /\ EffortLimit >= SendRetries /\ EffortLimit >= MaxAttempts
  BY ControllerAssumption DEF EffortLimit
<1>1. sends \in [Sats -> Nat] /\ retry \in 1 .. SendRetries
  BY DEF EffortInv, TypeOK, CtlTypeOK
<1> USE <1>0, <1>1 DEF EffortInv, BoundedEffort
<1>2. CASE UNCHANGED <<phase, sends, retry>>
  BY <1>2
<1>3. CASE HandleEvent /\ UNCHANGED satVars
  <2> DEFINE e == Head(ctlq)
  <2>1. UNCHANGED <<phase, retry>>
    BY <1>3 DEF HandleEvent, round
  <2>2. CASE NoteAck(e)
    <3>1. \A s \in Sats : sends'[s] = sends[s] \/ sends'[s] = 0
      BY <2>2 DEF NoteAck, Counts
    <3>2. phase # "broadcast"
      BY <1>3 DEF HandleEvent, Draining
    <3> QED BY <2>1, <3>1, <3>2
  <2>3. CASE sends' = sends
    BY <2>1, <2>3
  <2> QED BY <1>3, <2>2, <2>3 DEF HandleEvent, NoteTimeRequest, NoteRegistration
<1>4. CASE LoopTop
  <2>1. PICK gone \in SUBSET used : StayIdle(gone) \/ BeginRound(gone)
    BY <1>4 DEF LoopTop
  <2>2. CASE StayIdle(gone)
    <3>1. \A s \in Sats : sends'[s] = sends[s] \/ sends'[s] = 0
      BY <2>2 DEF StayIdle, Evict
    <3> QED BY <2>2, <3>1 DEF StayIdle
  <2>3. CASE BeginRound(gone)
    BY <2>3 DEF BeginRound, SlotAfterTake, NextSequence
  <2> QED BY <2>1, <2>2, <2>3
<1>5. CASE Broadcast
  BY <1>5 DEF Broadcast, round
<1>6. CASE BroadcastDrainEnds
  BY <1>6 DEF BroadcastDrainEnds
<1>7. CASE RetryPass
  <2>1. phase' = "rdrain"
    BY <1>7 DEF RetryPass
  <2>2. \A s \in Sats : \/ sends'[s] = sends[s]
                        \/ sends[s] < MaxAttempts /\ sends'[s] = sends[s] + 1
    <3>1. PICK now \in SUBSET (Retryable \cap scheduled) :
              sends' = [s \in Sats |-> IF s \in (Retryable \ scheduled) \cup now
                                       THEN sends[s] + 1 ELSE sends[s]]
      BY <1>7 DEF RetryPass
    <3> DEFINE due == (Retryable \ scheduled) \cup now
    <3>2. \A s \in due : sends[s] < MaxAttempts
      BY DEF Retryable
    <3>3. sends' = [s \in Sats |-> IF s \in due THEN sends[s] + 1 ELSE sends[s]]
      BY <3>1
    <3> HIDE DEF due
    <3> QED BY <3>2, <3>3
  <2> QED BY <2>1, <2>2
<1>8. CASE RetryEnds \/ RetryDrainEnds \/ Finish \/ IdleDrainEnds
  BY <1>8 DEF RetryEnds, RetryDrainEnds, Later, Finish, Outcome, IdleDrainEnds, table, round
<1>9. CASE CtlReboot
  BY <1>9 DEF CtlReboot, FreshBootId
<1>10. CASE Send
  BY <1>2, <1>10 DEF Send, table, round
<1>11. CASE (SatNext /\ UNCHANGED ctlVars) \/ UNCHANGED vars
  BY <1>2, <1>11 DEF vars, ctlVars
<1> QED BY <1>3, <1>4, <1>5, <1>6, <1>7, <1>8, <1>9, <1>10, <1>11
        DEF Next, CtlNext, TaskStep

\* No satellite is sent more copies of a payload than the larger of the two
\* configured limits, broadcasts included.
THEOREM EffortIsBounded == Spec => []BoundedEffort
<1>1. Init => EffortInv
  BY InitTypeOK, ControllerAssumption
     DEF Init, CtlInit, EffortInv, BoundedEffort, EffortLimit
<1>2. TypeOK' /\ EffortInv /\ [Next]_vars => EffortInv'
  BY EffortStep
<1>3. EffortInv => BoundedEffort
  BY DEF EffortInv
<1> QED BY <1>1, <1>2, <1>3, TypeCorrect, PTL DEF Spec
-----------------------------------------------------------------------------
\* The members and the acknowledgements of a round only grow while it runs, and
\* its number and payload stay.
THEOREM RoundsOnlyGrow == Spec => RoundOnlyGrows
<1>1. TypeOK /\ [Next]_vars => (boot' = boot /\ phase \in InRound => KeepsRound)
  <2> SUFFICES ASSUME TypeOK, [Next]_vars, boot' = boot, phase \in InRound
               PROVE  KeepsRound
    OBVIOUS
  <2> USE DEF KeepsRound, round, table
  <2>1. CASE HandleEvent
    BY <2>1 DEF HandleEvent, NoteAck, Counts, NoteTimeRequest, NoteRegistration
  <2>2. CASE LoopTop
    BY <2>2 DEF LoopTop, StayIdle, BeginRound, SlotAfterTake, NextSequence, InRound
  <2>3. CASE Broadcast \/ BroadcastDrainEnds \/ RetryEnds \/ RetryPass \/ RetryDrainEnds
    BY <2>3 DEF Broadcast, BroadcastDrainEnds, RetryEnds, RetryPass, RetryDrainEnds, Later
  <2>4. CASE Finish \/ IdleDrainEnds \/ Send
    BY <2>4 DEF Finish, Outcome, IdleDrainEnds, Send
  <2>5. CASE CtlReboot
    BY <2>5 DEF CtlReboot, FreshBootId, TypeOK, CtlTypeOK
  <2>6. CASE (SatNext /\ UNCHANGED ctlVars) \/ UNCHANGED vars
    BY <2>6 DEF vars, ctlVars
  <2> QED BY <2>1, <2>2, <2>3, <2>4, <2>5, <2>6 DEF Next, CtlNext, TaskStep
<1> QED BY <1>1, TypeCorrect, PTL DEF Spec, RoundOnlyGrows

\* A round has only so many turns left, and each turn leaves fewer.
LEMMA TurnsAreNat == TypeOK => TurnsLeft \in Nat
BY ControllerAssumption DEF TypeOK, CtlTypeOK, Phases, InRound, Draining, TurnsLeft

THEOREM RoundsRunOut == Spec => RoundRunsOut
<1>1. TypeOK /\ [Next]_vars => (phase \in InRound => TakesTurn)
  <2> SUFFICES ASSUME TypeOK, [Next]_vars, phase \in InRound
               PROVE  TakesTurn
    OBVIOUS
  <2>t. /\ SendRetries \in Nat \ {0} /\ DeadlineTicks \in Nat
        /\ retry \in 1 .. SendRetries /\ left \in 0 .. DeadlineTicks
    BY ControllerAssumption DEF TypeOK, CtlTypeOK
  <2> USE DEF TakesTurn
  <2>s. CASE UNCHANGED <<phase, retry, left>>
    BY <2>s DEF TurnsLeft
  <2>1. CASE HandleEvent \/ Send
    BY <2>1, <2>s DEF HandleEvent, Send, round
  <2>2. CASE LoopTop \/ IdleDrainEnds
    BY <2>2 DEF LoopTop, StayIdle, BeginRound, IdleDrainEnds, BetweenRounds, InRound
  <2>3. CASE Broadcast
    BY <2>3, <2>t DEF Broadcast, round, TurnsLeft
  <2>4. CASE BroadcastDrainEnds
    <3>1. left' \in 0 .. left /\ phase = "bdrain"
      BY <2>4 DEF BroadcastDrainEnds
    <3>2. CASE phase' = "finish"
      BY <3>1, <3>2, <2>t DEF TurnsLeft
    <3>3. CASE phase' = "broadcast" /\ retry < SendRetries /\ retry' = retry + 1
      BY <3>1, <3>3, <2>t DEF TurnsLeft
    <3>4. CASE phase' = "retry"
      BY <3>1, <3>4, <2>t DEF TurnsLeft
    <3> QED BY <2>4, <3>2, <3>3, <3>4 DEF BroadcastDrainEnds
  <2>5. CASE RetryEnds \/ RetryPass
    BY <2>5, <2>t DEF RetryEnds, RetryPass, round, TurnsLeft
  <2>6. CASE RetryDrainEnds
    BY <2>6, <2>t DEF RetryDrainEnds, Later, TurnsLeft
  <2>7. CASE Finish
    BY <2>7 DEF Finish, TurnsLeft
  <2>8. CASE CtlReboot
    BY <2>8, <2>t DEF CtlReboot, TurnsLeft, InRound
  <2>9. CASE (SatNext /\ UNCHANGED ctlVars) \/ UNCHANGED vars
    BY <2>9, <2>s DEF vars, ctlVars
  <2> QED BY <2>1, <2>2, <2>3, <2>4, <2>5, <2>6, <2>7, <2>8, <2>9 DEF Next, CtlNext, TaskStep
<1> QED BY <1>1, TypeCorrect, PTL DEF Spec, RoundRunsOut
-----------------------------------------------------------------------------
(***************************************************************************)
(* Order.  That a callback sees every payload at most once and in order is  *)
(* not inductive: the next copy must be known to be newer than everything   *)
(* the callback has seen, whatever the satellite has forgotten (a failed    *)
(* peer adopts a boot id without a delivery).  So every queued copy, and    *)
(* the copies the active round may still send, are compared with what the   *)
(* satellite remembers and has delivered.                                   *)
(***************************************************************************)
\* f and g are copies of one round, or f is of an earlier round, of this boot or an
\* earlier one, and carries an older payload.
NotAfter(f, g) == f.type = "Data" /\ g.type = "Data" =>
    \/ f.boot = g.boot /\ f.seq = g.seq /\ f.payload = g.payload
    \/ /\ f.boot < g.boot \/ (f.boot = g.boot /\ f.seq < g.seq)
       /\ f.payload < g.payload

InOrder(q) == \A i, j \in DOMAIN q : i < j => NotAfter(q[i], q[j])

\* f is the round satellite s remembers, and delivered; or f is newer than what s
\* remembers and its payload newer than all that s delivered since its boot.
Ahead(s, f) ==
    \/ satBoot[s] = f.boot /\ satLast[s] = f.seq /\ f.payload \in Range(log[s])
    \/ /\ satBoot[s] < f.boot \/ (satBoot[s] = f.boot /\ satLast[s] < f.seq)
       /\ \A p \in Range(log[s]) : p < f.payload

\* A copy that was sent carries the payload of a round, up to the active one.
Sent(f) == f.type = "Data" =>
    /\ f.payload \in issued /\ f.seq > 0
    /\ IF seq > 0 THEN NotAfter(f, ActiveFrame) ELSE f.boot < boot

\* Rounds get payloads in the order of the espnow_mesh_send() calls.
PayloadsInOrder ==
    /\ boot > 0
    /\ \A p \in issued : 0 < p /\ p <= accepted
    /\ pending # NoPayload => pending <= accepted /\ \A p \in issued : p < pending
    /\ seq > 0 => tx \in issued

FramesInOrder == \A s \in Sats :
    /\ InOrder(satq[s])
    /\ \A f \in Range(satq[s]) : f.type = "Data" => Sent(f) /\ Ahead(s, f)

LogsBehind == \A s \in Sats :
    /\ Range(log[s]) \subseteq issued
    /\ IF seq > 0 THEN Ahead(s, ActiveFrame) ELSE satBoot[s] < boot

\* The inductive invariant behind DeliveredOnceInOrder and DuplicatesWereDelivered.
OrderInv ==
    /\ DeliveryInv
    /\ PayloadsInOrder
    /\ FramesInOrder
    /\ LogsBehind
    /\ DeliveredOnceInOrder

\* What a queued data frame is made of.
LEMMA FrameFacts ==
    ASSUME NEW f \in SatEvent, f.type = "Data"
    PROVE  f.boot \in Nat /\ f.seq \in Nat /\ f.payload \in Nat
BY DEF SatEvent, DataFrame, TimeResp

\* A frame behind everything that waits keeps the order.
LEMMA AppendInOrder ==
    ASSUME NEW q \in Seq(SatEvent), NEW f \in SatEvent, InOrder(q),
           \A g \in Range(q) : NotAfter(g, f)
    PROVE  InOrder(Append(q, f))
<1>1. \A i \in DOMAIN q : q[i] \in Range(q)
  BY DEF Range
<1>2. \A i \in DOMAIN Append(q, f) :
          \/ i \in DOMAIN q /\ Append(q, f)[i] = q[i]
          \/ i = Len(q) + 1 /\ Append(q, f)[i] = f
  OBVIOUS
<1>3. DOMAIN q = 1 .. Len(q) /\ Len(q) \in Nat /\ DOMAIN Append(q, f) = 1 .. Len(q) + 1
  OBVIOUS
<1>4. ASSUME NEW i \in DOMAIN Append(q, f), NEW j \in DOMAIN Append(q, f), i < j
      PROVE  NotAfter(Append(q, f)[i], Append(q, f)[j])
  <2>1. i \in DOMAIN q /\ Append(q, f)[i] = q[i]
    BY <1>2, <1>3, <1>4
  <2>2. CASE j \in DOMAIN q /\ Append(q, f)[j] = q[j]
    BY <1>4, <2>1, <2>2 DEF InOrder
  <2>3. CASE Append(q, f)[j] = f
    BY <1>1, <2>1, <2>3
  <2> QED BY <1>2, <2>2, <2>3
<1> QED BY <1>4 DEF InOrder

\* What is left of an ordered queue is ordered, and not before what was taken.
LEMMA TailInOrder ==
    ASSUME NEW q \in Seq(SatEvent), q # <<>>, InOrder(q)
    PROVE  InOrder(Tail(q)) /\ \A g \in Range(Tail(q)) : NotAfter(Head(q), g)
<1>1. \A i \in DOMAIN Tail(q) : /\ i \in Nat /\ 1 <= i
                                /\ i + 1 \in DOMAIN q /\ Tail(q)[i] = q[i + 1]
  OBVIOUS
<1>2. 1 \in DOMAIN q /\ Head(q) = q[1]
  OBVIOUS
<1>3. ASSUME NEW i \in DOMAIN Tail(q), NEW j \in DOMAIN Tail(q), i < j
      PROVE  NotAfter(Tail(q)[i], Tail(q)[j])
  <2>1. i + 1 < j + 1
    BY <1>1, <1>3
  <2> QED BY <1>1, <2>1 DEF InOrder
<1>4. ASSUME NEW i \in DOMAIN Tail(q)
      PROVE  NotAfter(Head(q), Tail(q)[i])
  <2>1. 1 < i + 1
    BY <1>1
  <2> QED BY <1>1, <1>2, <2>1 DEF InOrder
<1> QED BY <1>3, <1>4 DEF InOrder, Range

\* One transmission adds at most one copy of the frame to each queue.
LEMMA TransmitAppends ==
    ASSUME NEW f \in SatEvent, NEW heard, Transmit(f, heard),
           satq \in [Sats -> Seq(SatEvent)]
    PROVE  \A s \in Sats : satq'[s] = satq[s] \/ satq'[s] = Append(satq[s], f)
BY DEF Transmit, AfterFrame, Enqueue
-----------------------------------------------------------------------------
\* Steps that leave the round and the satellites alone, and send at most the
\* active frame during a round or a time response, keep the order.
LEMMA SendKeepsOrder ==
    ASSUME OrderInv, TypeOK', UNCHANGED <<boot, seq, tx, issued, satVars>>,
           NEW f \in SatEvent,
           f.type # "Data" \/ (f = ActiveFrame /\ seq > 0),
           \A s \in Sats : satq'[s] = satq[s] \/ satq'[s] = Append(satq[s], f)
    PROVE  FramesInOrder' /\ LogsBehind' /\ DeliveredOnceInOrder'
<1>t. TypeOK
  BY DEF OrderInv, DeliveryInv
<1>1. ActiveFrame' = ActiveFrame
  BY DEF ActiveFrame
<1>2. \A g : Sent(g)' <=> Sent(g)
  BY <1>1 DEF Sent, NotAfter
<1>3. \A g, s : Ahead(s, g)' <=> Ahead(s, g)
  BY DEF Ahead, satVars
<1>4. LogsBehind' /\ DeliveredOnceInOrder'
  BY <1>1 DEF OrderInv, LogsBehind, DeliveredOnceInOrder, Ahead, satVars
<1>5. FramesInOrder'
  <2> SUFFICES ASSUME NEW s \in Sats
               PROVE  /\ InOrder(satq'[s])
                      /\ \A g \in Range(satq'[s]) : g.type = "Data" => Sent(g) /\ Ahead(s, g)
    BY <1>2, <1>3 DEF FramesInOrder
  <2>1. /\ satq[s] \in Seq(SatEvent) /\ InOrder(satq[s])
        /\ \A g \in Range(satq[s]) : g.type = "Data" => Sent(g) /\ Ahead(s, g)
    BY <1>t DEF OrderInv, FramesInOrder, TypeOK, AirTypeOK
  <2>2. CASE satq'[s] = satq[s]
    BY <2>1, <2>2
  <2>3. CASE satq'[s] = Append(satq[s], f)
    <3>1. \A g \in Range(satq[s]) : NotAfter(g, f)
      BY <2>1 DEF Sent, NotAfter
    <3>2. f.type = "Data" => Sent(f) /\ Ahead(s, f)
      <4>1. ASSUME f.type = "Data"
            PROVE  f = ActiveFrame /\ seq > 0 /\ tx \in issued /\ Ahead(s, ActiveFrame)
        BY <4>1 DEF OrderInv, PayloadsInOrder, LogsBehind
      <4>2. ActiveFrame.payload = tx /\ ActiveFrame.seq = seq /\ NotAfter(ActiveFrame, ActiveFrame)
        BY DEF ActiveFrame, NotAfter
      <4> QED BY <4>1, <4>2 DEF Sent
    <3>3. Range(Append(satq[s], f)) \subseteq Range(satq[s]) \cup {f}
      BY <2>1 DEF Range
    <3>4. InOrder(Append(satq[s], f))
      BY <2>1, <3>1, AppendInOrder
    <3> QED BY <2>1, <2>3, <3>2, <3>3, <3>4
  <2> QED BY <2>2, <2>3
<1> QED BY <1>4, <1>5

\* A new round comes after everything sent, remembered and delivered, and so does
\* a new boot, which has no round yet.
LEMMA NewRoundKeepsOrder ==
    ASSUME OrderInv, TypeOK', UNCHANGED <<satq, satVars>>,
           \/ /\ boot' = boot /\ seq' = seq + 1
              /\ pending # NoPayload /\ tx' = pending /\ issued' = issued \cup {pending}
           \/ boot' = boot + 1 /\ seq' = 0 /\ issued' = issued
    PROVE  FramesInOrder' /\ LogsBehind' /\ DeliveredOnceInOrder'
<1>t. TypeOK
  BY DEF OrderInv, DeliveryInv
<1>n. boot \in Nat /\ seq \in Nat /\ pending \in Nat /\ accepted \in Nat
  BY <1>t DEF TypeOK, CtlTypeOK
<1>p. issued \subseteq Nat /\ (pending # NoPayload => \A p \in issued : p < pending)
  BY <1>t DEF OrderInv, PayloadsInOrder, TypeOK, CtlTypeOK
<1>1. ASSUME NEW f \in SatEvent, f.type = "Data", Sent(f)
      PROVE  Sent(f)'
  <2>1. f.boot \in Nat /\ f.seq \in Nat /\ f.payload \in issued
    BY <1>1, FrameFacts DEF Sent
  <2>2. f.boot < boot \/ (f.boot = boot /\ f.seq <= seq)
    BY <1>1, <1>n, <2>1 DEF Sent, NotAfter, ActiveFrame
  <2>3. CASE boot' = boot /\ seq' = seq + 1 /\ pending # NoPayload /\ tx' = pending
             /\ issued' = issued \cup {pending}
    <3>1. f.payload < pending
      BY <1>p, <2>1, <2>3
    <3> QED BY <1>1, <1>n, <2>1, <2>2, <2>3, <3>1 DEF Sent, NotAfter, ActiveFrame
  <2>4. CASE boot' = boot + 1 /\ seq' = 0 /\ issued' = issued
    BY <1>1, <1>n, <2>1, <2>2, <2>4 DEF Sent
  <2> QED BY <2>3, <2>4
<1>2. \A s, f : Ahead(s, f)' <=> Ahead(s, f)
  BY DEF Ahead, satVars
<1>3. FramesInOrder'
  <2> SUFFICES ASSUME NEW s \in Sats
               PROVE  /\ InOrder(satq[s])
                      /\ \A f \in Range(satq[s]) : f.type = "Data" => Sent(f)' /\ Ahead(s, f)
    BY <1>2 DEF FramesInOrder
  <2>1. Range(satq[s]) \subseteq SatEvent
    BY <1>t DEF TypeOK, AirTypeOK, Range
  <2> QED BY <1>1, <2>1 DEF OrderInv, FramesInOrder
<1>4. LogsBehind'
  <2> SUFFICES ASSUME NEW s \in Sats
               PROVE  /\ Range(log[s]) \subseteq issued'
                      /\ IF seq' > 0 THEN Ahead(s, ActiveFrame') ELSE satBoot[s] < boot'
    BY <1>2 DEF LogsBehind, satVars, Ahead
  <2>1. Range(log[s]) \subseteq issued /\ satBoot[s] \in Nat /\ satLast[s] \in Nat
    BY <1>t DEF OrderInv, LogsBehind, TypeOK, SatTypeOK
  <2>2. satBoot[s] < boot \/ (satBoot[s] = boot /\ satLast[s] <= seq)
    BY <1>n, <2>1 DEF OrderInv, LogsBehind, Ahead, ActiveFrame
  <2>3. CASE boot' = boot /\ seq' = seq + 1 /\ pending # NoPayload /\ tx' = pending
             /\ issued' = issued \cup {pending}
    <3>1. \A p \in Range(log[s]) : p < pending
      BY <1>p, <2>1, <2>3
    <3> QED BY <1>n, <2>1, <2>2, <2>3, <3>1 DEF Ahead, ActiveFrame
  <2>4. CASE boot' = boot + 1 /\ seq' = 0 /\ issued' = issued
    BY <1>n, <2>1, <2>2, <2>4
  <2> QED BY <2>3, <2>4
<1> QED BY <1>3, <1>4 DEF OrderInv, DeliveredOnceInOrder, satVars

\* The controller's own steps keep the order.
LEMMA ControllerOrder ==
    ASSUME OrderInv, CtlNext, UNCHANGED satVars
    PROVE  OrderInv'
<1>d. DeliveryInv /\ DeliveryInv' /\ TypeOK /\ TypeOK'
  BY ControllerDelivery DEF OrderInv, DeliveryInv
<1>n. boot \in Nat /\ seq \in Nat /\ pending \in Nat /\ accepted \in Nat /\ issued \subseteq Nat
  BY <1>d DEF TypeOK, CtlTypeOK
<1>r. [type |-> "TimeResp"] \in SatEvent /\ ActiveFrame \in SatEvent
      /\ satq \in [Sats -> Seq(SatEvent)]
  BY <1>d, MessageTypes DEF TypeOK, AirTypeOK
<1> USE DEF round, history, airVars
\* Most steps start no round and are of one of these three kinds.
<1>q. ASSUME UNCHANGED <<boot, seq, tx, issued, pending, accepted, satq>>
      PROVE  OrderInv'
  <2>1. PayloadsInOrder'
    BY <1>q DEF OrderInv, PayloadsInOrder
  <2>2. FramesInOrder' /\ LogsBehind' /\ DeliveredOnceInOrder'
    BY <1>d, <1>q, <1>r, SendKeepsOrder
  <2> QED BY <1>d, <2>1, <2>2 DEF OrderInv
<1>s. ASSUME UNCHANGED <<boot, seq, tx, issued, pending, accepted>>, seq > 0,
             NEW heard, Transmit(ActiveFrame, heard)
      PROVE  OrderInv'
  <2>1. PayloadsInOrder'
    BY <1>s DEF OrderInv, PayloadsInOrder
  <2>2. \A s \in Sats : satq'[s] = satq[s] \/ satq'[s] = Append(satq[s], ActiveFrame)
    BY <1>s, <1>r, TransmitAppends
  <2>3. FramesInOrder' /\ LogsBehind' /\ DeliveredOnceInOrder'
    BY <1>d, <1>s, <1>r, <2>2, SendKeepsOrder
  <2> QED BY <1>d, <2>1, <2>3 DEF OrderInv
<1>a. ASSUME UNCHANGED <<boot, seq, tx, issued, pending, accepted>>,
             NEW heard, Transmit([type |-> "TimeResp"], heard)
      PROVE  OrderInv'
  <2> DEFINE f == [type |-> "TimeResp"]
  <2>1. PayloadsInOrder'
    BY <1>a DEF OrderInv, PayloadsInOrder
  <2>2. f \in SatEvent /\ f.type # "Data"
    BY <1>r
  <2>3. \A s \in Sats : satq'[s] = satq[s] \/ satq'[s] = Append(satq[s], f)
    BY <1>a, <1>r, TransmitAppends
  <2> HIDE DEF f
  <2>4. FramesInOrder' /\ LogsBehind' /\ DeliveredOnceInOrder'
    BY <1>d, <1>a, <2>2, <2>3, SendKeepsOrder
  <2> QED BY <1>d, <2>1, <2>4 DEF OrderInv
<1>1. CASE HandleEvent
  <2>1. UNCHANGED <<boot, seq, tx, issued, pending, accepted>>
    BY <1>1 DEF HandleEvent
  <2>2. CASE satq' = satq
    BY <1>q, <2>1, <2>2
  <2>3. CASE NoteTimeRequest(Head(ctlq))
    <3>1. PICK heard : Transmit([type |-> "TimeResp"], heard)
      BY <2>3 DEF NoteTimeRequest
    <3> QED BY <1>a, <2>1, <3>1
  <2> QED BY <1>1, <2>2, <2>3 DEF HandleEvent, NoteAck, NoteRegistration
<1>2. CASE LoopTop
  <2>1. PICK gone \in SUBSET used : StayIdle(gone) \/ BeginRound(gone)
    BY <1>2 DEF LoopTop
  <2>2. CASE StayIdle(gone)
    BY <1>q, <2>2 DEF StayIdle
  <2>3. CASE BeginRound(gone)
    <3>1. boot' = boot /\ seq' = seq + 1 /\ pending # NoPayload /\ tx' = pending
          /\ issued' = issued \cup {pending} /\ pending' = NoPayload
          /\ accepted' = accepted /\ satq' = satq
      BY <2>3 DEF BeginRound, NextSequence, SlotAfterTake
    <3>2. FramesInOrder' /\ LogsBehind' /\ DeliveredOnceInOrder'
      BY <1>d, <3>1, NewRoundKeepsOrder
    <3>3. pending > 0
      BY <1>n, <3>1 DEF NoPayload
    <3>4. PayloadsInOrder'
      BY <3>1, <3>3 DEF OrderInv, PayloadsInOrder
    <3> QED BY <1>d, <3>2, <3>4 DEF OrderInv
  <2> QED BY <2>1, <2>2, <2>3
<1>3. CASE Broadcast
  <2>1. PICK heard : Transmit(ActiveFrame, heard)
    BY <1>3 DEF Broadcast
  <2>2. seq > 0 /\ UNCHANGED <<boot, seq, tx, issued, pending, accepted>>
    BY <1>3, <1>d DEF Broadcast, DeliveryInv, InRound
  <2> QED BY <1>s, <2>1, <2>2
<1>4. CASE BroadcastDrainEnds \/ RetryEnds \/ RetryDrainEnds
  BY <1>4, <1>q DEF BroadcastDrainEnds, RetryEnds, RetryDrainEnds
<1>5. CASE RetryPass
  <2>1. PICK heard : Transmit(ActiveFrame, heard)
    BY <1>5 DEF RetryPass
  <2>2. seq > 0 /\ UNCHANGED <<boot, seq, tx, issued, pending, accepted>>
    BY <1>5, <1>d DEF RetryPass, DeliveryInv, InRound
  <2> QED BY <1>s, <2>1, <2>2
<1>6. CASE Finish \/ IdleDrainEnds
  BY <1>6, <1>q DEF Finish, IdleDrainEnds
<1>7. CASE Send
  <2>1. UNCHANGED <<boot, seq, tx, issued, satq>>
        /\ pending' = accepted + 1 /\ accepted' = accepted + 1
    BY <1>7 DEF Send
  <2>2. PayloadsInOrder'
    BY <1>n, <2>1 DEF OrderInv, PayloadsInOrder
  <2>3. FramesInOrder' /\ LogsBehind' /\ DeliveredOnceInOrder'
    BY <1>d, <1>r, <2>1, SendKeepsOrder
  <2> QED BY <1>d, <2>2, <2>3 DEF OrderInv
<1>8. CASE CtlReboot
  <2>1. boot' = boot + 1 /\ seq' = 0 /\ pending' = NoPayload
        /\ UNCHANGED <<issued, accepted, satq>>
    BY <1>8 DEF CtlReboot, FreshBootId
  <2>2. PayloadsInOrder'
    BY <1>n, <2>1 DEF OrderInv, PayloadsInOrder
  <2>3. FramesInOrder' /\ LogsBehind' /\ DeliveredOnceInOrder'
    BY <1>d, <2>1, NewRoundKeepsOrder
  <2> QED BY <1>d, <2>2, <2>3 DEF OrderInv
<1> QED BY <1>1, <1>2, <1>3, <1>4, <1>5, <1>6, <1>7, <1>8 DEF CtlNext, TaskStep

\* Handling f leaves s behind everything that is not before f.  A copy of the
\* round s remembers changes nothing; a newer one is delivered and remembered, or,
\* if its sender cannot be made a peer, only its boot is.
LEMMA MemoryMovesOn ==
    ASSUME TypeOK, NEW s \in Sats, NEW f \in SatEvent, f.type = "Data", f.seq > 0,
           Ahead(s, f), Accept(s, f) \/ PeerFailed(s, f),
           satBoot' = [satBoot EXCEPT ![s] = f.boot]
    PROVE  /\ \A n \in Sats \ {s} : /\ satBoot'[n] = satBoot[n] /\ satLast'[n] = satLast[n]
                                    /\ log'[n] = log[n]
           /\ \/ UNCHANGED <<satBoot, satLast, log, got>> /\ f.payload \in Range(log[s])
              \/ /\ satBoot'[s] = f.boot /\ satLast'[s] = f.seq
                 /\ log'[s] = Append(log[s], f.payload)
                 /\ got' = [got EXCEPT ![s] = got[s] \cup {f.payload}]
                 /\ \A p \in Range(log[s]) : p < f.payload
              \/ /\ satBoot'[s] = f.boot /\ satLast'[s] < f.seq /\ satLast'[s] \in Nat
                 /\ log' = log /\ got' = got
                 /\ \A p \in Range(log[s]) : p < f.payload
<1>1. /\ satBoot \in [Sats -> Nat] /\ satLast \in [Sats -> Nat]
      /\ log \in [Sats -> Seq(Nat)]
  BY DEF TypeOK, SatTypeOK
<1>2. f.boot \in Nat /\ f.seq \in Nat /\ f.payload \in Nat
  BY FrameFacts
<1> DEFINE m == Remembered(s, f.boot)
           same == satBoot[s] = f.boot /\ satLast[s] = f.seq
<1>3. m \in Nat /\ (satBoot[s] = f.boot => m = satLast[s]) /\ (satBoot[s] # f.boot => m = 0)
  BY <1>1, <1>2 DEF Remembered
<1>4. same => m = f.seq /\ f.payload \in Range(log[s])
  BY <1>1, <1>2, <1>3 DEF Ahead
<1>5. ~ same => m < f.seq /\ \A p \in Range(log[s]) : p < f.payload
  BY <1>1, <1>2, <1>3 DEF Ahead
<1>6. IsDuplicate(m # 0, f.seq, m) <=> same
  BY <1>2, <1>3, <1>4, <1>5 DEF IsDuplicate
<1>7. CASE Accept(s, f)
  <2>1. /\ satLast' = [satLast EXCEPT ![s] = IF same THEN m ELSE f.seq]
        /\ log' = [log EXCEPT ![s] = IF same THEN log[s] ELSE Append(log[s], f.payload)]
        /\ got' = [got EXCEPT ![s] = IF same THEN got[s] ELSE got[s] \cup {f.payload}]
    BY <1>6, <1>7 DEF Accept
  <2> HIDE DEF m
  <2>2. CASE same
    <3>1. satLast' = satLast /\ log' = log /\ satBoot' = satBoot
      BY <1>1, <1>3, <1>4, <2>1, <2>2
    <3>2. got' = got
      BY <2>1, <2>2 DEF TypeOK, SatTypeOK
    <3> QED BY <1>4, <2>2, <3>1, <3>2
  <2>3. CASE ~ same
    <3> HIDE DEF same
    <3>1. /\ satBoot'[s] = f.boot /\ satLast'[s] = f.seq
          /\ log'[s] = Append(log[s], f.payload)
          /\ got' = [got EXCEPT ![s] = got[s] \cup {f.payload}]
          /\ \A n \in Sats \ {s} : /\ satBoot'[n] = satBoot[n] /\ satLast'[n] = satLast[n]
                                   /\ log'[n] = log[n]
      BY <1>1, <2>1, <2>3
    <3> QED BY <1>5, <2>3, <3>1
  <2> QED BY <2>2, <2>3
<1>8. CASE PeerFailed(s, f)
  <2>1. satLast' = [satLast EXCEPT ![s] = m] /\ log' = log /\ got' = got
    BY <1>8 DEF PeerFailed
  <2> HIDE DEF m
  <2>2. CASE same
    BY <1>1, <1>3, <1>4, <2>1, <2>2
  <2>3. CASE ~ same
    <3> HIDE DEF same
    <3> QED BY <1>1, <1>3, <1>5, <2>1, <2>3
  <2> QED BY <2>2, <2>3
<1> QED BY <1>7, <1>8

\* So it is still behind every copy that is not before f.
LEMMA StillAhead ==
    ASSUME TypeOK, NEW s \in Sats, NEW f \in SatEvent, f.type = "Data", f.seq > 0,
           Ahead(s, f), Accept(s, f) \/ PeerFailed(s, f),
           satBoot' = [satBoot EXCEPT ![s] = f.boot],
           NEW g \in SatEvent, g.type = "Data", NotAfter(f, g), Ahead(s, g)
    PROVE  Ahead(s, g)'
<1>1. /\ f.boot \in Nat /\ f.seq \in Nat /\ f.payload \in Nat
      /\ g.boot \in Nat /\ g.seq \in Nat /\ g.payload \in Nat
  BY FrameFacts
<1>2. \/ f.boot = g.boot /\ f.seq = g.seq /\ f.payload = g.payload
      \/ /\ f.boot < g.boot \/ (f.boot = g.boot /\ f.seq < g.seq)
         /\ f.payload < g.payload
  BY DEF NotAfter
<1>3. log[s] \in Seq(Nat) /\ \A p \in Range(log[s]) : p \in Nat
  BY DEF TypeOK, SatTypeOK, Range
<1>4. CASE UNCHANGED <<satBoot, satLast, log>>
  BY <1>4 DEF Ahead
<1>5. CASE /\ satBoot'[s] = f.boot /\ satLast'[s] = f.seq
           /\ log'[s] = Append(log[s], f.payload)
           /\ \A p \in Range(log[s]) : p < f.payload
  <2>1. \A p \in Range(log'[s]) : p \in Range(log[s]) \/ p = f.payload
    BY <1>1, <1>3, <1>5 DEF Range
  <2>2. f.payload \in Range(log'[s])
    <3>1. /\ Len(log[s]) + 1 \in DOMAIN Append(log[s], f.payload)
          /\ Append(log[s], f.payload)[Len(log[s]) + 1] = f.payload
      BY <1>1, <1>3
    <3> QED BY <1>5, <3>1 DEF Range
  <2>3. CASE f.boot = g.boot /\ f.seq = g.seq /\ f.payload = g.payload
    BY <1>5, <2>2, <2>3 DEF Ahead
  <2>4. CASE /\ f.boot < g.boot \/ (f.boot = g.boot /\ f.seq < g.seq)
             /\ f.payload < g.payload
    <3>1. \A p \in Range(log'[s]) : p < g.payload
      BY <1>1, <1>3, <1>5, <2>1, <2>4
    <3> QED BY <1>5, <2>4, <3>1 DEF Ahead
  <2> QED BY <1>2, <2>3, <2>4
<1>6. CASE /\ satBoot'[s] = f.boot /\ satLast'[s] < f.seq /\ satLast'[s] \in Nat
           /\ log' = log /\ \A p \in Range(log[s]) : p < f.payload
  <2>1. \A p \in Range(log[s]) : p < g.payload
    BY <1>1, <1>2, <1>3, <1>6
  <2>2. satBoot'[s] < g.boot \/ (satBoot'[s] = g.boot /\ satLast'[s] < g.seq)
    BY <1>1, <1>2, <1>6
  <2> QED BY <1>6, <2>1, <2>2 DEF Ahead
<1> QED BY <1>4, <1>5, <1>6, MemoryMovesOn

\* A satellite's steps keep the order.
LEMMA SatelliteOrder ==
    ASSUME OrderInv, NEW s \in Sats, UNCHANGED ctlVars,
           \/ HandleData(s) \/ HandleTimeResp(s) \/ RequestTime(s) \/ Register(s)
           \/ ControllerTimeout(s) \/ SatReboot(s)
    PROVE  OrderInv'
<1>d. DeliveryInv /\ DeliveryInv' /\ TypeOK /\ TypeOK'
  BY SatelliteDelivery DEF OrderInv, DeliveryInv
<1>c. UNCHANGED <<boot, seq, tx, issued, pending, accepted>> /\ ActiveFrame' = ActiveFrame
  BY DEF ctlVars, ActiveFrame
<1>p. PayloadsInOrder'
  BY <1>c DEF OrderInv, PayloadsInOrder
<1>o. \A g : Sent(g)' <=> Sent(g)
  BY <1>c DEF Sent
<1>r. satq \in [Sats -> Seq(SatEvent)] /\ log \in [Sats -> Seq(Nat)] /\ satBoot \in [Sats -> Nat]
  BY <1>d DEF TypeOK, AirTypeOK, SatTypeOK
<1>1. CASE HandleData(s)
  <2> DEFINE f == Head(satq[s])
  <2>1. /\ satq[s] \in Seq(SatEvent) /\ satq[s] # <<>> /\ f \in SatEvent
        /\ f \in Range(satq[s]) /\ f.type = "Data"
        /\ Range(Tail(satq[s])) \subseteq Range(satq[s])
        /\ Range(satq[s]) \subseteq SatEvent
    BY <1>1, <1>r, DequeueFacts DEF HandleData, Range
  <2>2. Sent(f) /\ Ahead(s, f) /\ f.seq > 0 /\ f.payload \in issued
    BY <2>1 DEF OrderInv, FramesInOrder, Sent
  <2>3. InOrder(Tail(satq[s])) /\ \A g \in Range(Tail(satq[s])) : NotAfter(f, g)
    BY <2>1, TailInOrder DEF OrderInv, FramesInOrder
  <2>4. /\ satq' = [satq EXCEPT ![s] = Tail(@)]
        /\ satBoot' = [satBoot EXCEPT ![s] = f.boot]
        /\ Accept(s, f) \/ PeerFailed(s, f)
    BY <1>1 DEF HandleData
  <2> HIDE DEF f
  <2>5. \A n \in Sats \ {s} : /\ satBoot'[n] = satBoot[n] /\ satLast'[n] = satLast[n]
                              /\ log'[n] = log[n] /\ satq'[n] = satq[n]
    BY <1>d, <1>r, <2>1, <2>2, <2>4, MemoryMovesOn
  <2>6. \A n \in Sats \ {s} : \A g : Ahead(n, g) => Ahead(n, g)'
    BY <2>5 DEF Ahead
  <2>7. ASSUME NEW g \in SatEvent, g.type = "Data", NotAfter(f, g), Ahead(s, g)
        PROVE  Ahead(s, g)'
    BY <1>d, <2>1, <2>2, <2>4, <2>7, StillAhead
  <2>8. FramesInOrder'
    <3> SUFFICES ASSUME NEW n \in Sats
                 PROVE  /\ InOrder(satq'[n])
                        /\ \A g \in Range(satq'[n]) : g.type = "Data" => Sent(g) /\ Ahead(n, g)'
      BY <1>o DEF FramesInOrder
    <3>1. CASE n # s
      BY <2>5, <2>6, <3>1 DEF OrderInv, FramesInOrder
    <3>2. CASE n = s
      <4>1. satq'[n] = Tail(satq[s])
        BY <1>r, <2>4, <3>2
      <4>2. \A g \in Range(Tail(satq[s])) : g.type = "Data" => Sent(g) /\ Ahead(s, g)
        BY <2>1 DEF OrderInv, FramesInOrder
      <4> QED BY <2>1, <2>3, <2>7, <3>2, <4>1, <4>2
    <3> QED BY <3>1, <3>2
  <2>9. Range(log'[s]) \subseteq Range(log[s]) \cup {f.payload}
    <3>1. log'[s] = log[s] \/ log'[s] = Append(log[s], f.payload)
      BY <1>d, <2>1, <2>2, <2>4, MemoryMovesOn
    <3>2. f.payload \in Nat /\ log[s] \in Seq(Nat)
      BY <1>r, <2>1, FrameFacts
    <3>3. \A i \in DOMAIN Append(log[s], f.payload) :
              \/ i \in DOMAIN log[s] /\ Append(log[s], f.payload)[i] = log[s][i]
              \/ Append(log[s], f.payload)[i] = f.payload
      BY <3>2
    <3> QED BY <3>1, <3>3 DEF Range
  <2>10. LogsBehind'
    <3> SUFFICES ASSUME NEW n \in Sats
                 PROVE  /\ Range(log'[n]) \subseteq issued
                        /\ IF seq > 0 THEN Ahead(n, ActiveFrame)' ELSE satBoot'[n] < boot
      BY <1>c DEF LogsBehind
    <3>1. Range(log[n]) \subseteq issued
          /\ IF seq > 0 THEN Ahead(n, ActiveFrame) ELSE satBoot[n] < boot
      BY DEF OrderInv, LogsBehind
    <3>2. Range(log'[n]) \subseteq issued
      BY <2>2, <2>5, <2>9, <3>1
    <3>3. CASE seq > 0
      <4> SUFFICES ASSUME NEW g, g = ActiveFrame PROVE Ahead(n, g)'
        BY <1>c, <3>2, <3>3 DEF Ahead
      <4>1. g \in SatEvent /\ g.type = "Data"
        BY <1>d, MessageTypes DEF ActiveFrame
      <4>2. NotAfter(f, g) /\ Ahead(n, g)
        BY <2>1, <2>2, <3>1, <3>3 DEF Sent
      <4> QED BY <2>6, <2>7, <4>1, <4>2
    <3>4. CASE ~ (seq > 0)
      <4>1. f.boot < boot
        BY <2>1, <2>2, <3>4 DEF Sent
      <4>2. satBoot'[n] = satBoot[n] \/ satBoot'[n] = f.boot
        BY <1>r, <2>4, <2>5
      <4> QED BY <3>1, <3>2, <3>4, <4>1, <4>2
    <3> QED BY <3>3, <3>4
  \* The callback gets nothing, or a payload newer than all it had.
  <2>11. DeliveredOnceInOrder'
    <3> SUFFICES ASSUME NEW n \in Sats, NEW i \in DOMAIN log'[n], NEW j \in DOMAIN log'[n], i < j
                 PROVE  log'[n][i] < log'[n][j]
      BY DEF DeliveredOnceInOrder
    <3>1. CASE log'[n] = log[n]
      BY <3>1 DEF OrderInv, DeliveredOnceInOrder
    <3>2. CASE /\ n = s /\ log'[s] = Append(log[s], f.payload)
               /\ \A p \in Range(log[s]) : p < f.payload
      <4>1. f.payload \in Nat /\ log[s] \in Seq(Nat)
        BY <1>r, <2>1, FrameFacts
      <4>2. i \in DOMAIN log[s] /\ log'[s][i] = log[s][i] /\ log[s][i] \in Range(log[s])
        BY <3>2, <4>1 DEF Range
      <4>3. \/ j \in DOMAIN log[s] /\ log'[s][j] = log[s][j]
            \/ log'[s][j] = f.payload
        BY <3>2, <4>1
      <4> QED BY <3>2, <4>2, <4>3 DEF OrderInv, DeliveredOnceInOrder
    <3> QED BY <1>d, <2>1, <2>2, <2>4, <3>1, <3>2, MemoryMovesOn
  <2> QED BY <1>d, <1>p, <2>8, <2>10, <2>11 DEF OrderInv
<1>2. CASE SatReboot(s)
  <2>1. /\ satq'[s] = <<>> /\ satBoot'[s] = 0 /\ satLast'[s] = 0 /\ log'[s] = <<>>
        /\ \A n \in Sats \ {s} : /\ satq'[n] = satq[n] /\ satBoot'[n] = satBoot[n]
                                 /\ satLast'[n] = satLast[n] /\ log'[n] = log[n]
    BY <1>2, <1>d DEF SatReboot, TypeOK, AirTypeOK, SatTypeOK
  <2>2. \A n \in Sats \ {s} : \A g : Ahead(n, g)' <=> Ahead(n, g)
    BY <2>1 DEF Ahead
  <2>3. FramesInOrder'
    BY <1>o, <2>1, <2>2 DEF OrderInv, FramesInOrder, InOrder, Range
  <2>4. Range(<<>>) = {} /\ 0 < boot
    BY DEF Range, OrderInv, PayloadsInOrder
  <2>5. LogsBehind'
    <3> SUFFICES ASSUME NEW n \in Sats
                 PROVE  /\ Range(log'[n]) \subseteq issued
                        /\ IF seq > 0 THEN Ahead(n, ActiveFrame)' ELSE satBoot'[n] < boot
      BY <1>c DEF LogsBehind
    <3>1. CASE n # s
      BY <1>c, <2>1, <3>1 DEF OrderInv, LogsBehind, Ahead
    <3>2. CASE n = s
      BY <1>c, <2>1, <2>4, <3>2 DEF Ahead, ActiveFrame
    <3> QED BY <3>1, <3>2
  <2>6. DeliveredOnceInOrder'
    BY <2>1 DEF OrderInv, DeliveredOnceInOrder
  <2> QED BY <1>d, <1>p, <2>3, <2>5, <2>6 DEF OrderInv
<1>3. CASE UNCHANGED <<satBoot, satLast, log>>
           /\ (satq' = satq \/ (satq[s] # <<>> /\ satq' = [satq EXCEPT ![s] = Tail(@)]))
  <2>1. \A n, g : Ahead(n, g)' <=> Ahead(n, g)
    BY <1>3 DEF Ahead
  <2>2. LogsBehind' /\ DeliveredOnceInOrder'
    BY <1>c, <1>3 DEF OrderInv, LogsBehind, DeliveredOnceInOrder, Ahead
  <2>3. FramesInOrder'
    <3> SUFFICES ASSUME NEW n \in Sats
                 PROVE  /\ InOrder(satq'[n])
                        /\ \A g \in Range(satq'[n]) : g.type = "Data" => Sent(g) /\ Ahead(n, g)
      BY <1>o, <2>1 DEF FramesInOrder
    <3>1. CASE satq'[n] = satq[n]
      BY <3>1 DEF OrderInv, FramesInOrder
    <3>2. CASE satq[n] # <<>> /\ satq'[n] = Tail(satq[n])
      <4>1. satq[n] \in Seq(SatEvent)
        BY <1>r
      <4>2. InOrder(Tail(satq[n])) /\ Range(Tail(satq[n])) \subseteq Range(satq[n])
        BY <3>2, <4>1, TailInOrder, DequeueFacts DEF OrderInv, FramesInOrder
      <4> QED BY <3>2, <4>2 DEF OrderInv, FramesInOrder
    <3> QED BY <1>3, <1>r, <3>1, <3>2
  <2> QED BY <1>d, <1>p, <2>2, <2>3 DEF OrderInv
<1> QED BY <1>1, <1>2, <1>3
        DEF HandleTimeResp, RequestTime, Register, ControllerTimeout, satVars, airVars

\* Nothing has been sent, remembered or delivered at first.
LEMMA InitOrder == Init => OrderInv
<1> SUFFICES ASSUME Init PROVE OrderInv
  OBVIOUS
<1>1. DeliveryInv
  BY InitDelivery
<1>2. \A s \in Sats : satq[s] = <<>> /\ log[s] = <<>> /\ satBoot[s] = 0
  BY DEF Init, AirInit, SatInit
<1>3. boot = 1 /\ seq = 0 /\ issued = {} /\ pending = NoPayload
  BY DEF Init, CtlInit
<1> QED BY <1>1, <1>2, <1>3
        DEF OrderInv, PayloadsInOrder, FramesInOrder, LogsBehind, DeliveredOnceInOrder,
            InOrder, Range

\* The order of copies, memories and logs, in every state.
THEOREM OrderInvariant == Spec => []OrderInv
<1>1. OrderInv /\ [Next]_vars => OrderInv'
  <2> SUFFICES ASSUME OrderInv, [Next]_vars PROVE OrderInv'
    OBVIOUS
  <2>1. CASE CtlNext /\ UNCHANGED satVars
    BY <2>1, ControllerOrder
  <2>2. CASE SatNext /\ UNCHANGED ctlVars
    BY <2>2, SatelliteOrder DEF SatNext
  <2>3. CASE UNCHANGED vars
    <3>1. DeliveryInv'
      BY <2>3 DEF OrderInv, vars, DeliveryInv, TypeOK, AirTypeOK, CtlTypeOK, SatTypeOK,
         airVars, ctlVars, satVars, FramesCarryRoundPayload, AcksTellTheTruth,
         SatellitesNotAhead, AckedMeansDelivered, CompleteMeansDelivered
    <3>2. \A s, f : (Ahead(s, f)' <=> Ahead(s, f)) /\ (Sent(f)' <=> Sent(f))
      BY <2>3 DEF vars, ctlVars, satVars, Ahead, Sent, ActiveFrame
    <3> QED BY <2>3, <3>1, <3>2 DEF vars, airVars, ctlVars, satVars, OrderInv,
            PayloadsInOrder, FramesInOrder, LogsBehind, DeliveredOnceInOrder, Ahead, ActiveFrame
  <2> QED BY <2>1, <2>2, <2>3 DEF Next
<1> QED BY <1>1, InitOrder, PTL DEF Spec

\* A satellite's callback sees each payload at most once and in the order of the
\* espnow_mesh_send() calls: repeated broadcasts, unicast retries, peers that could
\* not be added, lock timeouts and restarts of the controller change nothing.
THEOREM OnceInOrder == Spec => []DeliveredOnceInOrder
<1>1. OrderInv => DeliveredOnceInOrder
  BY DEF OrderInv
<1> QED BY <1>1, OrderInvariant, PTL

\* A copy that is dropped as a duplicate, and acknowledged, carries a payload the
\* callback has had since the satellite's boot.
THEOREM DuplicatesDelivered == Spec => []DuplicatesWereDelivered
<1>1. OrderInv => DuplicatesWereDelivered
  <2> SUFFICES ASSUME OrderInv, NEW s \in Sats, satq[s] # <<>>,
                      NEW f, f = Head(satq[s]), f.type = "Data",
                      f.seq <= Remembered(s, f.boot)
               PROVE  f.payload \in Range(log[s])
    BY DEF DuplicatesWereDelivered
  <2>1. TypeOK
    BY DEF OrderInv, DeliveryInv
  <2>2. f \in SatEvent /\ f \in Range(satq[s])
    BY <2>1, DequeueFacts DEF TypeOK, AirTypeOK
  <2>3. f.boot \in Nat /\ f.seq \in Nat /\ satBoot[s] \in Nat /\ satLast[s] \in Nat
    BY <2>1, <2>2, FrameFacts DEF TypeOK, SatTypeOK
  <2>4. f.seq > 0 /\ Ahead(s, f)
    BY <2>2 DEF OrderInv, FramesInOrder, Sent
  <2> QED BY <2>3, <2>4 DEF Ahead, Remembered
<1> QED BY <1>1, OrderInvariant, PTL
-----------------------------------------------------------------------------
(***************************************************************************)
(* The refinement.  The service's guards are what the order invariant says: *)
(* the queued payload is newer than every round, the delivered one newer    *)
(* than the callback's last, and the report true.                           *)
(***************************************************************************)
\* What a satellite does is a delivery, a restart, or nothing the application sees.
LEMMA SatelliteRefines ==
    ASSUME OrderInv, NEW s \in Sats, UNCHANGED ctlVars,
           \/ HandleData(s) \/ HandleTimeResp(s) \/ RequestTime(s) \/ Register(s)
           \/ ControllerTimeout(s) \/ SatReboot(s)
    PROVE  \/ Service!Deliver(s) \/ Service!SatelliteRestart(s)
           \/ UNCHANGED Service!svcVars
<1>t. TypeOK
  BY DEF OrderInv, DeliveryInv
<1>c. UNCHANGED <<accepted, pending, tx, issued, last>>
  BY DEF ctlVars
<1>r. satq \in [Sats -> Seq(SatEvent)] /\ log \in [Sats -> Seq(Nat)] /\ got \in [Sats -> SUBSET Nat]
  BY <1>t DEF TypeOK, AirTypeOK, SatTypeOK
<1>1. CASE HandleData(s)
  <2> DEFINE f == Head(satq[s])
  <2>1. f \in SatEvent /\ f \in Range(satq[s]) /\ f.type = "Data"
    BY <1>1, <1>r, DequeueFacts DEF HandleData
  <2>2. Ahead(s, f) /\ f.seq > 0 /\ f.payload \in issued
    BY <2>1 DEF OrderInv, FramesInOrder, Sent
  <2>3. /\ satBoot' = [satBoot EXCEPT ![s] = f.boot]
        /\ Accept(s, f) \/ PeerFailed(s, f)
    BY <1>1 DEF HandleData
  <2>4. DOMAIN log' = Sats /\ DOMAIN got' = Sats
    <3>1. TypeOK'
      BY <1>1, <1>t, SatelliteTypeOK
    <3> QED BY <3>1 DEF TypeOK, SatTypeOK
  <2> HIDE DEF f
  <2>5. CASE UNCHANGED <<log, got>>
    BY <1>c, <2>5 DEF Service!svcVars
  <2>6. CASE /\ log'[s] = Append(log[s], f.payload)
             /\ got' = [got EXCEPT ![s] = got[s] \cup {f.payload}]
             /\ \A p \in Range(log[s]) : p < f.payload
    <3>1. \A n \in Sats \ {s} : log'[n] = log[n]
      BY <1>t, <2>1, <2>2, <2>3, MemoryMovesOn
    <3>2. log' = [log EXCEPT ![s] = Append(@, f.payload)]
      <4> DEFINE after == [log EXCEPT ![s] = Append(@, f.payload)]
      <4>1. DOMAIN after = Sats /\ after[s] = Append(log[s], f.payload)
            /\ \A n \in Sats \ {s} : after[n] = log[n]
        BY <1>r
      <4>2. \A n \in Sats : log'[n] = after[n]
        BY <2>6, <3>1, <4>1
      <4>3. log' = [n \in Sats |-> log'[n]] /\ after = [n \in Sats |-> after[n]]
        <5>1. log' \in [Sats -> Seq(Nat)]
          BY <1>1, <1>t, SatelliteTypeOK DEF TypeOK, SatTypeOK
        <5> QED BY <5>1, <4>1
      <4> HIDE DEF after
      <4>4. log' = after
        BY <4>2, <4>3
      <4> QED BY <4>4 DEF after
    <3>3. log[s] # <<>> => Service!Last(log[s]) < f.payload
      <4> SUFFICES ASSUME log[s] # <<>> PROVE log[s][Len(log[s])] \in Range(log[s])
        BY <2>6 DEF Service!Last
      <4> QED BY <1>r DEF Range
    <3>4. got' = [got EXCEPT ![s] = @ \cup {f.payload}]
      BY <2>6
    <3> QED BY <1>c, <2>2, <3>2, <3>3, <3>4 DEF Service!Deliver
  <2> QED BY <1>t, <2>1, <2>2, <2>3, <2>5, <2>6, MemoryMovesOn
<1>2. CASE SatReboot(s)
  BY <1>c, <1>2 DEF SatReboot, Service!SatelliteRestart
<1>3. CASE UNCHANGED satVars
  BY <1>c, <1>3 DEF satVars, Service!svcVars
<1>4. CASE ControllerTimeout(s)
  BY <1>c, <1>4 DEF ControllerTimeout, Service!svcVars
<1> QED BY <1>1, <1>2, <1>3, <1>4 DEF HandleTimeResp, RequestTime, Register

\* The controller accepts, starts a round, reports or restarts, or does nothing the
\* application sees.
LEMMA ControllerRefines ==
    ASSUME OrderInv, CtlNext, UNCHANGED satVars
    PROVE  \/ Service!Submit \/ Service!StartRound \/ Service!Report
           \/ Service!ControllerRestart
           \/ UNCHANGED Service!svcVars
<1>t. TypeOK
  BY DEF OrderInv, DeliveryInv
<1>l. UNCHANGED <<log, got>>
  BY DEF satVars
<1>q. ASSUME UNCHANGED <<accepted, pending, tx, issued, last>>
      PROVE  UNCHANGED Service!svcVars
  BY <1>l, <1>q DEF Service!svcVars
<1> USE DEF round, history
<1>1. CASE HandleEvent
  BY <1>1, <1>q DEF HandleEvent
<1>2. CASE LoopTop
  <2>1. PICK gone \in SUBSET used : StayIdle(gone) \/ BeginRound(gone)
    BY <1>2 DEF LoopTop
  <2>2. CASE StayIdle(gone)
    BY <1>q, <2>2 DEF StayIdle
  <2>3. CASE BeginRound(gone)
    <3>1. /\ pending # 0 /\ tx' = pending /\ issued' = issued \cup {pending}
          /\ pending' = 0 /\ UNCHANGED <<accepted, last>>
      BY <2>3 DEF BeginRound, SlotAfterTake, NoPayload
    <3>2. \A p \in issued : p < pending
      BY <3>1 DEF OrderInv, PayloadsInOrder, NoPayload
    <3> QED BY <1>l, <3>1, <3>2 DEF Service!StartRound
  <2> QED BY <2>1, <2>2, <2>3
<1>3. CASE Broadcast \/ BroadcastDrainEnds \/ RetryEnds \/ RetryDrainEnds \/ IdleDrainEnds
  BY <1>3, <1>q DEF Broadcast, BroadcastDrainEnds, RetryEnds, RetryDrainEnds, IdleDrainEnds
<1>4. CASE RetryPass
  BY <1>4, <1>q DEF RetryPass
<1>5. CASE Finish
  <2>1. tx # 0
    <3>1. seq > 0
      BY <1>5 DEF Finish, OrderInv, DeliveryInv, InRound
    <3>2. 0 < tx
      BY <3>1 DEF OrderInv, PayloadsInOrder
    <3> QED BY <3>2
  <2>2. /\ last'.payload = tx /\ last'.members = expected
        /\ last'.complete = Complete(expected, acked)
        /\ UNCHANGED <<accepted, pending, tx, issued>>
    BY <1>5 DEF Finish, Outcome
  <2>3. expected \in SUBSET Sats /\ Complete(expected, acked) \in BOOLEAN
    BY <1>t DEF TypeOK, CtlTypeOK, Complete
  <2>4. Complete(expected, acked) =>
            expected # {} /\ \A s \in expected : tx \in got[s]
    BY DEF Complete, OrderInv, DeliveryInv, AckedMeansDelivered
  <2> QED BY <1>l, <2>1, <2>2, <2>3, <2>4 DEF Service!Report
<1>6. CASE Send
  BY <1>6, <1>l DEF Send, NoPayload, Service!Submit
<1>7. CASE CtlReboot
  <2>1. pending' = 0 /\ tx' = 0 /\ last' = NothingFinished /\ UNCHANGED <<accepted, issued>>
    BY <1>7 DEF CtlReboot, NoPayload
  <2> QED BY <1>l, <2>1 DEF Service!ControllerRestart, Service!NoVerdict, NothingFinished, NoPayload
<1> QED BY <1>1, <1>2, <1>3, <1>4, <1>5, <1>6, <1>7 DEF CtlNext, TaskStep

\* The detailed protocol, with its frames, queues, retries, table and restarts, is
\* an implementation of FanoutService: every step is a step of the service or none.
THEOREM RefinesService == Spec => ImplementsService
<1>1. Init => Service!SvcInit
  BY DEF Init, CtlInit, SatInit, Service!SvcInit, Service!NoVerdict, NothingFinished, NoPayload
<1>2. OrderInv /\ [Next]_vars => [Service!SvcNext]_(Service!svcVars)
  <2> SUFFICES ASSUME OrderInv, [Next]_vars
               PROVE  Service!SvcNext \/ UNCHANGED Service!svcVars
    OBVIOUS
  <2>1. CASE CtlNext /\ UNCHANGED satVars
    BY <2>1, ControllerRefines DEF Service!SvcNext
  <2>2. CASE SatNext /\ UNCHANGED ctlVars
    BY <2>2, SatelliteRefines DEF SatNext, Service!SvcNext
  <2>3. CASE UNCHANGED vars
    BY <2>3 DEF vars, ctlVars, satVars, Service!svcVars
  <2> QED BY <2>1, <2>2, <2>3 DEF Next
<1> QED BY <1>1, <1>2, OrderInvariant, PTL DEF Spec, ImplementsService, Service!SvcSpec
=============================================================================
