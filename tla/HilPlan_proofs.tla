--------------------------- MODULE HilPlan_proofs ---------------------------
(***************************************************************************)
(* Proofs about HilPlan, for any satellites, any number of cases of any      *)
(* kinds, any configuration, and any number of restarts of both sides.       *)
(***************************************************************************)
EXTENDS HilPlan, FiniteSetTheorems, TLAPS
-----------------------------------------------------------------------------
\* The queues, over any set of events.  A dequeue takes an element of the queue
\* and leaves only elements of it.
LEMMA DequeueFacts ==
    ASSUME NEW S, NEW q \in Seq(S), q # <<>>
    PROVE  /\ Head(q) \in S /\ Head(q) \in Range(q)
           /\ Tail(q) \in Seq(S)
           /\ Range(Tail(q)) \subseteq Range(q)
BY DEF Range

\* An arrival that may be missed adds at most the event that arrives.
LEMMA ArrivesFacts ==
    ASSUME NEW S, NEW q \in Seq(S), NEW e \in S, NEW heard \in BOOLEAN
    PROVE  /\ Arrives(q, e, heard) \in Seq(S)
           /\ Range(Arrives(q, e, heard)) \subseteq Range(q) \cup {e}
BY DEF Arrives, Enqueue, Range

\* A broadcast leaves every receiver's queue well formed and adds to it at most
\* the frame that was sent.
LEMMA AfterFrameFacts ==
    ASSUME NEW R, NEW S, NEW qs \in [R -> Seq(S)], NEW f \in S, NEW heard
    PROVE  /\ AfterFrame(qs, f, heard) \in [R -> Seq(S)]
           /\ \A r \in R : Range(AfterFrame(qs, f, heard)[r]) \subseteq Range(qs[r]) \cup {f}
<1>1. \A r \in R : /\ AfterFrame(qs, f, heard)[r] \in Seq(S)
                   /\ Range(AfterFrame(qs, f, heard)[r]) \subseteq Range(qs[r]) \cup {f}
  <2> TAKE r \in R
  <2>1. CASE r \in heard
    BY <2>1, ArrivesFacts DEF AfterFrame, Arrives
  <2>2. CASE r \notin heard
    BY <2>2 DEF AfterFrame
  <2> QED BY <2>1, <2>2
<1> QED BY <1>1 DEF AfterFrame
-----------------------------------------------------------------------------
\* The shapes of what is sent.
LEMMA FrameTypes ==
    ASSUME TypeOK
    PROVE  /\ [type |-> "Data", boot |-> boot] \in SatEvent
           /\ phase # "done" => Cmd \in SatEvent
           /\ \A s \in Sats : [type |-> "Hello", from |-> s] \in CtlEvent
           /\ \A s \in Sats, b \in Nat, c \in 1 .. Cases, p, v \in 0 .. Cases :
                  [type |-> "HilAck", from |-> s, boot |-> b, seq |-> c,
                   patch |-> p, param |-> v] \in CtlEvent
  BY DEF TypeOK, SatEvent, CtlEvent, DataMsg, CmdMsg, HilAck, Hello, Cmd

\* What a frame at a satellite, and an event at the controller, is.
LEMMA SatEventFacts ==
    ASSUME NEW f \in SatEvent
    PROVE  /\ f.boot \in Nat /\ f.type \in {"Data", "Cmd"}
           /\ f.type = "Cmd" => f.seq \in 1 .. Cases
  BY DEF SatEvent, DataMsg, CmdMsg

\* An ACK that the controller may get names a boot and a case of the plan.
LEMMA CtlEventFacts ==
    ASSUME NEW e \in CtlEvent
    PROVE  /\ e.from \in Sats
           /\ e.type = "HilAck" => e.boot \in Nat /\ e.seq \in 1 .. Cases
  BY DEF CtlEvent, HilAck, Hello

\* The copies of a command that a satellite hears: as many as there is room for.
LEMMA CopiesFacts ==
    ASSUME TypeOK, phase # "done", NEW n \in [Sats -> 0 .. Copies], NEW s \in Sats
    PROVE  \E k \in Nat : AfterCopies(n)[s] = satq[s] \o [i \in 1 .. k |-> Cmd]
  <1> DEFINE room == QueueLen - Len(satq[s])
             took == IF n[s] < room THEN n[s] ELSE room
  <1>1. Len(satq[s]) \in Nat /\ n[s] \in Nat /\ room \in Int
    BY PlanAssumption, QueueAssumption DEF TypeOK
  <1>2. AfterCopies(n)[s] = satq[s] \o [i \in 1 .. took |-> Cmd]
    BY DEF AfterCopies
  <1>3. CASE took \in Nat
    BY <1>2, <1>3
  <1>4. CASE took \notin Nat
    <2>1. [i \in 1 .. took |-> Cmd] = [i \in 1 .. 0 |-> Cmd]
      <3>1. 1 .. took = 1 .. 0
        BY <1>1, <1>4
      <3> HIDE DEF took
      <3> QED BY <3>1
    <2> HIDE DEF took
    <2> QED BY <1>2, <2>1
  <1> QED BY <1>3, <1>4
-----------------------------------------------------------------------------
(* Types. *)

\* The initial state has the types.
LEMMA InitTypeOK == Init => TypeOK
  <1> SUFFICES ASSUME Init PROVE TypeOK
    OBVIOUS
  <1>1. Cardinality({}) = 0
    BY FS_EmptySet
  <1> QED BY <1>1, PlanAssumption DEF Init, TypeOK, Phases, Draining, InCase

\* A slot is claimed only where there is room for one.
LEMMA SlotFacts ==
    ASSUME TypeOK, NEW s \in Sats
    PROVE  LET u == IF HasSlot(s) THEN used \cup {s} ELSE used
           IN  u \subseteq Sats /\ Cardinality(u) <= MaxSatellites
  <1>1. IsFiniteSet(used)
    BY PlanAssumption, FS_Subset DEF TypeOK
  <1>2. CASE s \in used
    <2>1. used \cup {s} = used
      BY <1>2
    <2> QED BY <2>1 DEF TypeOK
  <1>3. CASE s \notin used /\ Cardinality(used) < MaxSatellites
    <2>1. Cardinality(used \cup {s}) = Cardinality(used) + 1 /\ Cardinality(used) \in Nat
      BY <1>1, <1>3, FS_AddElement, FS_CardinalityType
    <2> QED BY <1>3, <2>1, PlanAssumption DEF TypeOK
  <1>4. CASE ~ HasSlot(s)
    BY <1>4 DEF TypeOK
  <1> QED BY <1>2, <1>3, <1>4 DEF HasSlot

\* A frame that some satellites heard, behind what they had queued.
LEMMA SendFacts ==
    ASSUME TypeOK, NEW f \in SatEvent, NEW heard, satq' = AfterFrame(satq, f, heard)
    PROVE  /\ satq' \in [Sats -> Seq(SatEvent)]
           /\ \A s \in Sats : satq'[s] = satq[s] \/ satq'[s] = Append(satq[s], f)
  BY AfterFrameFacts DEF TypeOK, AfterFrame, Enqueue

\* The controller's steps.
LEMMA ControllerTypeOK ==
    ASSUME TypeOK, TaskStep \/ HandleEvent \/ CtlReboot
    PROVE  TypeOK'
  <1> USE PlanAssumption DEF TypeOK, tableVars, airVars, satVars, planVars
  <1>s. UNCHANGED satVars
    BY DEF TaskStep, Discover, DiscoverDrainEnds, DiscoverTimeout, SettleEnds, StartCase,
       Broadcast, BroadcastDrainEnds, RetryPass, RetryDrainEnds, RetryEnds, ReportCase, GapEnds,
       HandleEvent, CtlReboot
  <1> USE <1>s
  <1>1. CASE Discover
    <2>1. satq' \in [Sats -> Seq(SatEvent)]
      BY <1>1, SendFacts, FrameTypes DEF Discover
    <2> QED BY <1>1, <2>1 DEF Discover, Phases, Draining, InCase
  <1>2. CASE DiscoverDrainEnds
    <2>1. phase = "ddrain" /\ phase' \in {"settle", "discover"} /\ left' \in Nat
      BY <1>2 DEF DiscoverDrainEnds, Sooner
    <2>2. phase' \in Phases /\ (seq' = 0 <=> phase' = "done")
      BY <1>2, <2>1 DEF DiscoverDrainEnds, Phases, Draining
    <2> QED BY <1>2, <2>1, <2>2 DEF DiscoverDrainEnds
  <1>3. CASE DiscoverTimeout
    BY <1>3 DEF DiscoverTimeout, Phases, Draining, InCase
  <1>4. CASE SettleEnds
    BY <1>4 DEF SettleEnds, Phases, Draining, InCase
  <1>5. CASE StartCase
    BY <1>5 DEF StartCase, ResetAcks, Phases, Draining, InCase
  <1>6. CASE Broadcast
    <2>1. PICK n \in [Sats -> 0 .. Copies] : satq' = AfterCopies(n)
      BY <1>6 DEF Broadcast
    <2>2. satq' \in [Sats -> Seq(SatEvent)]
      <3>1. \A s \in Sats : AfterCopies(n)[s] \in Seq(SatEvent)
        <4> TAKE s \in Sats
        <4>1. PICK k \in Nat : AfterCopies(n)[s] = satq[s] \o [i \in 1 .. k |-> Cmd]
          BY <1>6, CopiesFacts DEF Broadcast
        <4>2. Cmd \in SatEvent
          BY <1>6, FrameTypes DEF Broadcast
        <4> HIDE DEF TypeOK
        <4>3. satq[s] \in Seq(SatEvent)
          BY DEF TypeOK
        <4> QED BY <4>1, <4>2, <4>3
      <3> QED BY <2>1, <3>1 DEF AfterCopies
    <2>3. sends' \in [Sats -> Nat]
      BY <1>6 DEF Broadcast
    <2> QED BY <1>6, <2>2, <2>3 DEF Broadcast, Phases, Draining, InCase
  <1>7. CASE BroadcastDrainEnds
    BY <1>7 DEF BroadcastDrainEnds, Phases, Draining, InCase
  <1>8. CASE RetryPass
    <2>1. satq' \in [Sats -> Seq(SatEvent)]
      BY <1>8, SendFacts, FrameTypes DEF RetryPass
    <2>2. sends' \in [Sats -> Nat]
      BY <1>8 DEF RetryPass
    <2> QED BY <1>8, <2>1, <2>2 DEF RetryPass, Phases, Draining, InCase
  <1>9. CASE RetryDrainEnds
    BY <1>9 DEF RetryDrainEnds, Later, Sooner, Phases, Draining, InCase
  <1>10. CASE RetryEnds
    BY <1>10 DEF RetryEnds, Phases, Draining, InCase
  <1>11. CASE ReportCase
    <2>1. seq \in 1 .. Cases /\ expected \subseteq Sats /\ Complete \in BOOLEAN
      BY <1>11 DEF ReportCase, Complete
    <2>2. [case |-> seq, members |-> expected, pass |-> Complete] \in Result
      BY <2>1 DEF Result
    <2>3. results' \in Seq(Result)
      BY <1>11, <2>2 DEF ReportCase
    <2> QED BY <1>11, <2>3 DEF ReportCase, Phases, Draining, InCase
  <1>12. CASE GapEnds
    BY <1>12 DEF GapEnds, NextStep, Phases, Draining, InCase
  <1>13. CASE HandleEvent
    <2> DEFINE e == Head(ctlq)
               counted == IF e.type = "HilAck" /\ Counts(e) THEN {e.from} ELSE {}
    <2>1. e \in CtlEvent /\ ctlq' \in Seq(CtlEvent)
      BY <1>13, DequeueFacts DEF HandleEvent
    <2>2. used' \subseteq Sats /\ Cardinality(used') <= MaxSatellites
      <3>1. e.from \in Sats /\ used' = IF HasSlot(e.from) THEN used \cup {e.from} ELSE used
        BY <1>13, <2>1, CtlEventFacts DEF HandleEvent
      <3> HIDE DEF e
      <3> QED BY <3>1, SlotFacts
    <2>3. used \subseteq used' /\ counted \subseteq used'
      BY <1>13 DEF HandleEvent, Counts
    <2> QED BY <1>13, <2>1, <2>2, <2>3 DEF HandleEvent
  <1>14. CASE CtlReboot
    <2>1. Cardinality({}) = 0
      BY FS_EmptySet
    <2> QED BY <1>14, <2>1 DEF CtlReboot, Phases, Draining, InCase
  <1> QED BY <1>1, <1>2, <1>3, <1>4, <1>5, <1>6, <1>7, <1>8, <1>9, <1>10, <1>11, <1>12,
          <1>13, <1>14 DEF TaskStep

\* A satellite's message at the controller's queue.
LEMMA CtlArrives ==
    ASSUME TypeOK, NEW e \in CtlEvent, NEW heard \in BOOLEAN, ctlq' = Arrives(ctlq, e, heard)
    PROVE  ctlq' \in Seq(CtlEvent) /\ Range(ctlq') \subseteq Range(ctlq) \cup {e}
  BY ArrivesFacts DEF TypeOK

\* The satellites' steps.
LEMMA SatelliteTypeOK ==
    ASSUME TypeOK, NEW s \in Sats, SatStep(s)
    PROVE  TypeOK'
  <1> USE PlanAssumption DEF TypeOK
  <1>c. UNCHANGED <<planVars, tableVars, results>>
    BY DEF SatStep, HandleFrame, RequestTime, Register, ControllerTimeout, SatReboot
  <1> USE <1>c DEF planVars, tableVars, airVars
  <1>1. CASE HandleFrame(s)
    <2> DEFINE f == Head(satq[s])
    <2>1. f \in SatEvent /\ Tail(satq[s]) \in Seq(SatEvent)
      BY <1>1, DequeueFacts DEF HandleFrame
    <2>2. satq' \in [Sats -> Seq(SatEvent)] /\ UNCHANGED <<discovered, crashes>>
      BY <1>1, <2>1 DEF HandleFrame
    <2>3. CASE Ignore(s)
      BY <2>2, <2>3 DEF Ignore
    <2>4. CASE f.type = "Data" /\ ReceiveData(s, f)
      <3>1. ctlq' \in Seq(CtlEvent)
        BY <2>4, FrameTypes, CtlArrives DEF ReceiveData
      <3> QED BY <2>1, <2>2, <2>4, <3>1, SatEventFacts DEF ReceiveData
    <2>5. CASE f.type = "Cmd" /\ ReceiveCmd(s, f)
      <3>1. f.boot \in Nat /\ f.seq \in 1 .. Cases
        BY <2>1, <2>5, SatEventFacts
      <3>2. locked' \subseteq Sats /\ satBoot' \in [Sats -> Nat]
        BY <2>5, <3>1 DEF ReceiveCmd
      <3>3. RememberedHil(s, f.boot) \in 0 .. Cases
        BY DEF RememberedHil
      <3>4. CASE DropCommand(s, f)
        BY <2>2, <3>2, <3>3, <3>4 DEF DropCommand
      <3>5. CASE SendHilAck(s, f) /\ (SkipDuplicate(s, f) \/ Apply(s, f))
        <4>1. /\ satHil' \in [Sats -> 0 .. Cases]
              /\ patch' \in [Sats -> 0 .. Cases] /\ param' \in [Sats -> 0 .. Cases]
              /\ applied' \in [Sats -> Seq(Nat \X (1 .. Cases))]
              /\ ever' \in [Sats -> SUBSET (Nat \X (1 .. Cases))]
          <5>1. CASE SkipDuplicate(s, f)
            BY <3>3, <5>1 DEF SkipDuplicate
          <5>2. CASE Apply(s, f)
            <6>1. PatchAfter(f.seq, patch[s]) \in 0 .. Cases
                  /\ ParamAfter(f.seq, param[s]) \in 0 .. Cases
              BY <3>1 DEF PatchAfter, ParamAfter
            <6>2. satHil' \in [Sats -> 0 .. Cases] /\ patch' \in [Sats -> 0 .. Cases]
                  /\ param' \in [Sats -> 0 .. Cases]
              <7> HIDE DEF f
              <7>1. f.seq \in 0 .. Cases
                BY <3>1
              <7> QED BY <5>2, <6>1, <7>1 DEF Apply
            <6>a. <<f.boot, f.seq>> \in Nat \X (1 .. Cases)
              BY <3>1
            <6>3. applied' \in [Sats -> Seq(Nat \X (1 .. Cases))]
              <7> DEFINE a == <<f.boot, f.seq>>
                         P == Nat \X (1 .. Cases)
              <7>1. applied' = [applied EXCEPT ![s] = Append(@, a)]
                BY <5>2 DEF Apply
              <7>2. a \in P /\ applied \in [Sats -> Seq(P)]
                BY <6>a
              <7> HIDE DEF a, P, TypeOK
              <7>3. applied' \in [Sats -> Seq(P)]
                BY <7>1, <7>2
              <7> QED BY <7>3 DEF P
            <6>4. ever' \in [Sats -> SUBSET (Nat \X (1 .. Cases))]
              <7> DEFINE a == <<f.boot, f.seq>>
              <7>1. a \in Nat \X (1 .. Cases) /\ ever' = [ever EXCEPT ![s] = @ \cup {a}]
                BY <5>2, <6>a DEF Apply
              <7> HIDE DEF a
              <7> QED BY <7>1
            <6> QED BY <6>2, <6>3, <6>4
          <5> QED BY <3>5, <5>1, <5>2
        <4>2. ctlq' \in Seq(CtlEvent)
          <5>1. patch'[s] \in 0 .. Cases /\ param'[s] \in 0 .. Cases
            BY <4>1
          <5> DEFINE a == [type |-> "HilAck", from |-> s, boot |-> f.boot, seq |-> f.seq,
                           patch |-> patch'[s], param |-> param'[s]]
          <5>2. a \in CtlEvent
            BY <3>1, <5>1, FrameTypes
          <5>3. PICK heard \in BOOLEAN : ctlq' = Arrives(ctlq, a, heard)
            BY <3>5 DEF SendHilAck
          <5> HIDE DEF a
          <5> QED BY <5>2, <5>3, CtlArrives
        <4> QED BY <2>2, <3>2, <4>1, <4>2
      <3> QED BY <2>5, <3>4, <3>5 DEF ReceiveCmd
    <2> QED BY <1>1, <2>3, <2>4, <2>5 DEF HandleFrame
  <1>2. CASE RequestTime(s)
    <2>1. ctlq' \in Seq(CtlEvent)
      BY <1>2, FrameTypes, CtlArrives DEF RequestTime
    <2> QED BY <1>2, <2>1 DEF RequestTime, satVars
  <1>3. CASE Register(s)
    <2>1. ctlq' \in Seq(CtlEvent)
      BY <1>3, FrameTypes, CtlArrives DEF Register
    <2> QED BY <1>3, <2>1 DEF Register
  <1>4. CASE ControllerTimeout(s)
    BY <1>4 DEF ControllerTimeout
  <1>5. CASE SatReboot(s)
    <2> DEFINE P == Nat \X (1 .. Cases)
    <2>1. applied \in [Sats -> Seq(P)] /\ satq \in [Sats -> Seq(SatEvent)]
      OBVIOUS
    <2>2. applied' = [applied EXCEPT ![s] = <<>>] /\ satq' = [satq EXCEPT ![s] = <<>>]
      BY <1>5 DEF SatReboot
    <2>3. applied' \in [Sats -> Seq(P)] /\ satq' \in [Sats -> Seq(SatEvent)]
      <3> HIDE DEF P, TypeOK
      <3> QED BY <2>1, <2>2
    <2>4. /\ locked' \subseteq Sats /\ discovered' \subseteq Sats
          /\ satBoot' \in [Sats -> Nat] /\ satHil' \in [Sats -> 0 .. Cases]
          /\ patch' \in [Sats -> 0 .. Cases] /\ param' \in [Sats -> 0 .. Cases]
          /\ ever' = ever /\ crashes' \in Nat /\ ctlq' = ctlq
      BY <1>5 DEF SatReboot
    <2> QED BY <2>3, <2>4
  <1> QED BY <1>1, <1>2, <1>3, <1>4, <1>5 DEF SatStep

\* Types: the table never has more satellites than slots, only satellites of the
\* table are expected and only expected ones acknowledge, and the plan has a case
\* number until it is done.
THEOREM TypeCorrect == Spec => []TypeOK
<1>1. TypeOK /\ [Next]_vars => TypeOK'
  <2> SUFFICES ASSUME TypeOK, [Next]_vars PROVE TypeOK'
    OBVIOUS
  <2>1. CASE TaskStep \/ HandleEvent \/ CtlReboot
    BY <2>1, ControllerTypeOK
  <2>2. CASE \E s \in Sats : SatStep(s)
    BY <2>2, SatelliteTypeOK
  <2>3. CASE UNCHANGED vars
    BY <2>3 DEF vars, planVars, tableVars, airVars, satVars, TypeOK
  <2> QED BY <2>1, <2>2, <2>3 DEF Next
<1> QED BY <1>1, InitTypeOK, PTL DEF Spec
-----------------------------------------------------------------------------
\* A stage has only so many turns left.
LEMMA TurnsAreNat == TypeOK => Stage \in 0 .. Cases + 1 /\ TurnsLeft \in Nat
<1> SUFFICES ASSUME TypeOK PROVE Stage \in 0 .. Cases + 1 /\ TurnsLeft \in Nat
  OBVIOUS
<1>1. /\ Cases \in Nat /\ SendRetries \in Nat /\ DeadlineTicks \in Nat
      /\ seq \in 0 .. Cases /\ attempt \in 1 .. SendRetries /\ left \in Nat
  BY PlanAssumption DEF TypeOK
<1> QED BY <1>1 DEF Stage, TurnsLeft

\* During the discovery the next case is the first.
DiscoveryFirst == phase \in {"discover", "ddrain", "settle"} => seq = 1

\* Each turn of the controller's task leaves fewer of the case, or ends it and begins
\* the next one: the plan runs case by case to its end.
THEOREM PlanKeepsMoving == Spec => PlanRunsOut
<1>1. TypeOK /\ DiscoveryFirst /\ [Next]_vars => (boot' = boot => TakesTurn /\ Stage' <= Stage + 1)
  <2> SUFFICES ASSUME TypeOK, DiscoveryFirst, [Next]_vars, boot' = boot
               PROVE  TakesTurn /\ Stage' <= Stage + 1
    OBVIOUS
  <2>t. /\ Cases \in Nat \ {0} /\ SendRetries \in Nat \ {0} /\ DeadlineTicks \in Nat \ {0}
        /\ seq \in 0 .. Cases /\ attempt \in 1 .. SendRetries /\ left \in Nat
        /\ phase # "done" => seq # 0
    BY PlanAssumption DEF TypeOK
  <2>s. ASSUME UNCHANGED <<phase, seq, attempt, left>>
        PROVE  TakesTurn /\ Stage' <= Stage + 1
    BY <2>s, <2>t DEF TakesTurn, TurnsLeft, Stage
  <2>1. CASE Discover \/ DiscoverTimeout \/ SettleEnds
    BY <2>1, <2>t DEF Discover, DiscoverTimeout, SettleEnds, TakesTurn, TurnsLeft, Stage,
       DiscoveryFirst
  <2>12. CASE DiscoverDrainEnds
    <3>1. /\ left' \in Nat /\ left' < left /\ phase = "ddrain" /\ UNCHANGED <<seq, attempt>>
          /\ phase' = "settle" \/ phase' = "discover"
      BY <2>12, <2>t DEF DiscoverDrainEnds, Sooner
    <3> QED BY <3>1, <2>t DEF TakesTurn, TurnsLeft, Stage
  <2>2. CASE StartCase
    BY <2>2, <2>t DEF StartCase, TakesTurn, TurnsLeft, Stage
  <2>3. CASE Broadcast
    BY <2>3, <2>t DEF Broadcast, TakesTurn, TurnsLeft, Stage
  <2>4. CASE BroadcastDrainEnds
    <3>1. left' \in 0 .. left /\ phase = "bdrain" /\ seq' = seq
      BY <2>4 DEF BroadcastDrainEnds
    <3>2. CASE phase' = "result"
      BY <3>1, <3>2, <2>t DEF TakesTurn, TurnsLeft, Stage
    <3>3. CASE phase' = "broadcast" /\ attempt < SendRetries /\ attempt' = attempt + 1
      BY <3>1, <3>3, <2>t DEF TakesTurn, TurnsLeft, Stage
    <3>4. CASE phase' = "retry"
      BY <3>1, <3>4, <2>t DEF TakesTurn, TurnsLeft, Stage
    <3> QED BY <2>4, <3>2, <3>3, <3>4 DEF BroadcastDrainEnds
  <2>5. CASE RetryPass \/ RetryDrainEnds \/ RetryEnds
    BY <2>5, <2>t DEF RetryPass, RetryDrainEnds, RetryEnds, Later, Sooner,
       TakesTurn, TurnsLeft, Stage
  <2>6. CASE ReportCase
    BY <2>6, <2>t DEF ReportCase, TakesTurn, TurnsLeft, Stage
  <2>7. CASE GapEnds
    BY <2>7, <2>t DEF GapEnds, NextStep, TakesTurn, TurnsLeft, Stage
  <2>8. CASE HandleEvent
    BY <2>8, <2>s DEF HandleEvent, planVars
  <2>9. CASE CtlReboot
    BY <2>9 DEF CtlReboot, TypeOK
  <2>10. CASE \E s \in Sats : SatStep(s)
    BY <2>10, <2>s DEF SatStep, HandleFrame, RequestTime, Register, ControllerTimeout,
       SatReboot, planVars
  <2>11. CASE UNCHANGED vars
    BY <2>11, <2>s DEF vars, planVars
  <2> QED BY <2>1, <2>2, <2>3, <2>4, <2>5, <2>6, <2>7, <2>8, <2>9, <2>10, <2>11, <2>12 DEF Next, TaskStep
<1>2. Init => DiscoveryFirst
  BY DEF Init, DiscoveryFirst
<1>3. DiscoveryFirst /\ [Next]_vars => DiscoveryFirst'
  <2> SUFFICES ASSUME DiscoveryFirst, [Next]_vars PROVE DiscoveryFirst'
    OBVIOUS
  <2> USE DEF DiscoveryFirst
  <2>1. CASE TaskStep
    BY <2>1 DEF TaskStep, Discover, DiscoverDrainEnds, DiscoverTimeout, SettleEnds, StartCase,
       Broadcast, BroadcastDrainEnds, RetryPass, RetryDrainEnds, RetryEnds, ReportCase, GapEnds,
       NextStep
  <2>2. CASE HandleEvent \/ CtlReboot
    BY <2>2 DEF HandleEvent, CtlReboot, planVars
  <2>3. CASE \E s \in Sats : SatStep(s)
    BY <2>3 DEF SatStep, HandleFrame, RequestTime, Register, ControllerTimeout, SatReboot, planVars
  <2>4. CASE UNCHANGED vars
    BY <2>4 DEF vars, planVars
  <2> QED BY <2>1, <2>2, <2>3, <2>4 DEF Next
<1> QED BY <1>1, <1>2, <1>3, TypeCorrect, PTL DEF Spec, PlanRunsOut
-----------------------------------------------------------------------------
(***************************************************************************)
(* The order of commands.  Frames wait in the order they were sent, which is *)
(* by boot and, within a boot, by case; nothing that waits is newer than the *)
(* controller or older than the boot its satellite has adopted.              *)
(***************************************************************************)
\* Frame f was not sent after frame g.
NotAfter(f, g) ==
    /\ f.boot <= g.boot
    /\ f.type = "Cmd" /\ g.type = "Cmd" /\ f.boot = g.boot => f.seq <= g.seq

InOrder(q) == \A i, j \in DOMAIN q : i < j => NotAfter(q[i], q[j])

\* Frame f has been sent by now.
Sent(f) ==
    /\ 1 <= f.boot /\ f.boot <= boot
    /\ f.type = "Cmd" /\ f.boot = boot => seq = 0 \/ f.seq <= seq

FramesInOrder == \A s \in Sats :
    /\ InOrder(satq[s])
    /\ \A f \in Range(satq[s]) : Sent(f) /\ satBoot[s] <= f.boot

BootsKnown == 1 <= boot /\ \A s \in Sats : satBoot[s] <= boot

\* What a satellite applied is not newer than what it remembers.
Remembered(a, b, last) == a[1] < b \/ (a[1] = b /\ a[2] <= last)

AppliedRemembered == \A s \in Sats : \A i \in DOMAIN applied[s] :
    applied[s][i][2] >= 1 /\ Remembered(applied[s][i], satBoot[s], satHil[s])

OrderInv == TypeOK /\ BootsKnown /\ FramesInOrder /\ AppliedRemembered /\ AppliedInOrder

\* A frame behind everything that was sent before it keeps the order, and so do
\* several copies of it.
LEMMA AppendInOrder ==
    ASSUME NEW q \in Seq(SatEvent), NEW f \in SatEvent, InOrder(q),
           \A g \in Range(q) : NotAfter(g, f)
    PROVE  InOrder(Append(q, f)) /\ Range(Append(q, f)) \subseteq Range(q) \cup {f}
  <1>1. \A i \in DOMAIN q : q[i] \in Range(q)
    BY DEF Range
  <1>2. \A i \in DOMAIN Append(q, f) :
            \/ i \in DOMAIN q /\ Append(q, f)[i] = q[i]
            \/ i = Len(q) + 1 /\ Append(q, f)[i] = f
    OBVIOUS
  <1>3. DOMAIN q = 1 .. Len(q) /\ Len(q) \in Nat /\ DOMAIN Append(q, f) = 1 .. Len(q) + 1
    OBVIOUS
  <1>4. Range(Append(q, f)) \subseteq Range(q) \cup {f}
    BY <1>1, <1>2 DEF Range
  <1>5. ASSUME NEW i \in DOMAIN Append(q, f), NEW j \in DOMAIN Append(q, f), i < j
        PROVE  NotAfter(Append(q, f)[i], Append(q, f)[j])
    <2>1. i \in DOMAIN q /\ Append(q, f)[i] = q[i]
      BY <1>2, <1>3, <1>5
    <2>2. CASE j \in DOMAIN q /\ Append(q, f)[j] = q[j]
      BY <1>5, <2>1, <2>2 DEF InOrder
    <2>3. CASE Append(q, f)[j] = f
      BY <1>1, <2>1, <2>3
    <2> QED BY <1>2, <2>2, <2>3
  <1> QED BY <1>4, <1>5 DEF InOrder

\* Copies of one frame at the end of an ordered queue keep it in order.
LEMMA CopiesInOrder ==
    ASSUME NEW q \in Seq(SatEvent), NEW f \in SatEvent, InOrder(q),
           \A g \in Range(q) : NotAfter(g, f),
           NEW k \in Nat, NEW r, r = q \o [i \in 1 .. k |-> f]
    PROVE  InOrder(r) /\ Range(r) \subseteq Range(q) \cup {f}
  <1>1. \A i \in DOMAIN q : q[i] \in Range(q)
    BY DEF Range
  <1>2. DOMAIN q = 1 .. Len(q) /\ Len(q) \in Nat /\ DOMAIN r = 1 .. Len(q) + k
    OBVIOUS
  <1>3. \A i \in DOMAIN r : \/ i \in DOMAIN q /\ r[i] = q[i]
                            \/ i > Len(q) /\ r[i] = f
    OBVIOUS
  <1>4. NotAfter(f, f)
    BY SatEventFacts DEF NotAfter
  <1>5. Range(r) \subseteq Range(q) \cup {f}
    BY <1>1, <1>3 DEF Range
  <1>6. ASSUME NEW i \in DOMAIN r, NEW j \in DOMAIN r, i < j
        PROVE  NotAfter(r[i], r[j])
    <2>1. CASE j \in DOMAIN q /\ r[j] = q[j]
      <3>1. i \in DOMAIN q /\ r[i] = q[i]
        BY <1>2, <1>3, <1>6, <2>1
      <3> QED BY <1>6, <2>1, <3>1 DEF InOrder
    <2>2. CASE r[j] = f
      BY <1>1, <1>3, <1>4, <2>2
    <2> QED BY <1>3, <2>1, <2>2
  <1> QED BY <1>5, <1>6 DEF InOrder

\* What is left of an ordered queue is ordered, and not before what was taken.
LEMMA TailInOrder ==
    ASSUME NEW q \in Seq(SatEvent), q # <<>>, InOrder(q)
    PROVE  InOrder(Tail(q)) /\ \A g \in Range(Tail(q)) : NotAfter(Head(q), g)
  <1>1. \A i \in DOMAIN Tail(q) : /\ i \in Nat /\ 1 <= i
                                  /\ i + 1 \in DOMAIN q /\ Tail(q)[i] = q[i + 1]
    OBVIOUS
  <1>2. 1 \in DOMAIN q /\ Head(q) = q[1]
    OBVIOUS
  <1>3. ASSUME NEW i \in DOMAIN Tail(q), NEW j \in DOMAIN Tail(q), i < j
        PROVE  NotAfter(Tail(q)[i], Tail(q)[j])
    <2>1. i + 1 < j + 1
      BY <1>1, <1>3
    <2> QED BY <1>1, <2>1 DEF InOrder
  <1>4. ASSUME NEW i \in DOMAIN Tail(q)
        PROVE  NotAfter(Head(q), Tail(q)[i])
    <2>1. 1 < i + 1
      BY <1>1
    <2> QED BY <1>1, <1>2, <2>1 DEF InOrder
  <1> QED BY <1>3, <1>4 DEF InOrder, Range

\* A frame the controller sends now.
Fresh(f) == f.boot = boot /\ (f.type = "Cmd" => f.seq = seq /\ seq # 0)

\* What the controller sends goes behind everything that waits.
LEMMA ControllerSends ==
    ASSUME TypeOK, FramesInOrder, TaskStep \/ HandleEvent \/ CtlReboot
    PROVE  /\ \A s \in Sats : /\ InOrder(satq'[s])
                              /\ \A f \in Range(satq'[s]) : f \in Range(satq[s]) \/ Fresh(f)
           /\ satq' = satq \/ UNCHANGED <<boot, seq>>
  <1>q. \A s \in Sats : satq[s] \in Seq(SatEvent) /\ InOrder(satq[s])
    BY DEF TypeOK, FramesInOrder
  <1>s. ASSUME NEW f \in SatEvent, Fresh(f), NEW s \in Sats
        PROVE  \A g \in Range(satq[s]) : NotAfter(g, f)
    <2> SUFFICES ASSUME NEW g \in Range(satq[s]) PROVE NotAfter(g, f)
      OBVIOUS
    <2>1. Sent(g)
      BY DEF FramesInOrder
    <2> QED BY <1>s, <2>1 DEF Sent, NotAfter, Fresh
  <1>a. ASSUME NEW f \in SatEvent, Fresh(f), NEW heard, satq' = AfterFrame(satq, f, heard)
        PROVE  \A s \in Sats : /\ InOrder(satq'[s])
                               /\ \A g \in Range(satq'[s]) : g \in Range(satq[s]) \/ Fresh(g)
    <2> TAKE s \in Sats
    <2>1. satq'[s] = satq[s] \/ satq'[s] = Append(satq[s], f)
      BY <1>a, SendFacts
    <2>2. CASE satq'[s] = satq[s]
      BY <1>q, <2>2
    <2>3. CASE satq'[s] = Append(satq[s], f)
      <3>1. InOrder(Append(satq[s], f)) /\ Range(Append(satq[s], f)) \subseteq Range(satq[s]) \cup {f}
        BY <1>a, <1>q, <1>s, AppendInOrder
      <3> QED BY <1>a, <2>3, <3>1
    <2> QED BY <2>1, <2>2, <2>3
  <1>1. CASE Discover
    <2> DEFINE f == [type |-> "Data", boot |-> boot]
    <2>1. f \in SatEvent /\ Fresh(f)
      BY FrameTypes DEF Fresh
    <2>2. PICK heard : satq' = AfterFrame(satq, f, heard)
      BY <1>1 DEF Discover
    <2> HIDE DEF f
    <2> QED BY <1>1, <1>a, <2>1, <2>2 DEF Discover
  <1>f. phase # "done" => Cmd \in SatEvent /\ Fresh(Cmd)
    BY FrameTypes DEF Fresh, Cmd, TypeOK
  <1>2. CASE Broadcast
    <2>1. PICK n \in [Sats -> 0 .. Copies] : satq' = AfterCopies(n)
      BY <1>2 DEF Broadcast
    <2>2. phase # "done" /\ UNCHANGED <<boot, seq>>
      BY <1>2 DEF Broadcast
    <2>3. \A s \in Sats : /\ InOrder(satq'[s])
                          /\ \A g \in Range(satq'[s]) : g \in Range(satq[s]) \/ Fresh(g)
      <3> TAKE s \in Sats
      <3>1. PICK k \in Nat : satq'[s] = satq[s] \o [i \in 1 .. k |-> Cmd]
        BY <2>1, <2>2, CopiesFacts
      <3>2. InOrder(satq'[s]) /\ Range(satq'[s]) \subseteq Range(satq[s]) \cup {Cmd}
        <4> DEFINE c == Cmd
        <4>1. c \in SatEvent /\ \A g \in Range(satq[s]) : NotAfter(g, c)
          BY <1>f, <1>s, <2>2
        <4>2. satq'[s] = satq[s] \o [i \in 1 .. k |-> c]
          BY <3>1
        <4> HIDE DEF c
        <4>3. InOrder(satq'[s]) /\ Range(satq'[s]) \subseteq Range(satq[s]) \cup {c}
          BY <1>q, <4>1, <4>2, CopiesInOrder
        <4> QED BY <4>3 DEF c
      <3> QED BY <1>f, <2>2, <3>2
    <2> QED BY <2>2, <2>3
  <1>3. CASE RetryPass
    <2>1. PICK heard : satq' = AfterFrame(satq, Cmd, heard)
      BY <1>3 DEF RetryPass
    <2> QED BY <1>3, <1>a, <1>f, <2>1 DEF RetryPass
  <1>4. CASE satq' = satq
    BY <1>q, <1>4
  <1> QED BY <1>1, <1>2, <1>3, <1>4 DEF TaskStep, DiscoverDrainEnds, DiscoverTimeout, SettleEnds,
          StartCase, BroadcastDrainEnds, RetryDrainEnds, RetryEnds, ReportCase, GapEnds,
          HandleEvent, CtlReboot, airVars

\* The controller's boot and case only move on.
LEMMA PlanMovesOn ==
    ASSUME TypeOK, TaskStep \/ HandleEvent \/ CtlReboot
    PROVE  \/ boot' = boot /\ (seq' = seq \/ seq' = 0 \/ (seq # 0 /\ seq < seq'))
           \/ boot < boot' /\ phase' = "discover"
  <1>1. CASE GapEnds
    BY <1>1 DEF GapEnds, NextStep, TypeOK
  <1>2. CASE CtlReboot
    BY <1>2 DEF CtlReboot, TypeOK
  <1>3. CASE UNCHANGED <<boot, seq>>
    BY <1>3
  <1> QED BY <1>1, <1>2, <1>3 DEF TaskStep, Discover, DiscoverDrainEnds, DiscoverTimeout,
          SettleEnds, StartCase, Broadcast, BroadcastDrainEnds, RetryPass, RetryDrainEnds,
          RetryEnds, ReportCase, HandleEvent, planVars

\* The controller's steps keep the frames in the order of the cases.
LEMMA ControllerOrderInv ==
    ASSUME OrderInv, TaskStep \/ HandleEvent \/ CtlReboot
    PROVE  OrderInv'
  <1>t. TypeOK /\ TypeOK'
    BY ControllerTypeOK DEF OrderInv
  <1>s. UNCHANGED satVars
    BY DEF TaskStep, Discover, DiscoverDrainEnds, DiscoverTimeout, SettleEnds, StartCase,
       Broadcast, BroadcastDrainEnds, RetryPass, RetryDrainEnds, RetryEnds, ReportCase, GapEnds,
       HandleEvent, CtlReboot
  <1>p. \/ boot' = boot /\ (seq' = seq \/ seq' = 0 \/ (seq # 0 /\ seq < seq'))
        \/ boot < boot'
    BY <1>t, PlanMovesOn
  <1>n. boot \in Nat /\ boot' \in Nat /\ seq \in Nat /\ seq' \in Nat
    BY <1>t DEF TypeOK
  <1>1. BootsKnown'
    <2>1. boot <= boot'
      BY <1>p, <1>n
    <2>2. \A s \in Sats : satBoot[s] \in Nat
      BY <1>t DEF TypeOK
    <2> QED BY <1>n, <1>s, <2>1, <2>2 DEF OrderInv, BootsKnown, satVars
  <1>2. ASSUME NEW f \in SatEvent, Sent(f)
        PROVE  Sent(f)'
    <2>1. f.boot \in Nat /\ (f.type = "Cmd" => f.seq \in Nat)
      BY SatEventFacts
    <2> QED BY <1>2, <1>n, <1>p, <2>1 DEF Sent
  <1>3. ASSUME NEW f \in SatEvent, Fresh(f), UNCHANGED <<boot, seq>>
        PROVE  Sent(f)' /\ \A s \in Sats : satBoot[s] <= f.boot
    BY <1>3, <1>n DEF Fresh, Sent, OrderInv, BootsKnown
  <1>4. FramesInOrder'
    <2> SUFFICES ASSUME NEW s \in Sats
                 PROVE  /\ InOrder(satq'[s])
                        /\ \A f \in Range(satq'[s]) : Sent(f)' /\ satBoot[s] <= f.boot
      BY <1>s DEF FramesInOrder, satVars
    <2>1. /\ InOrder(satq'[s])
          /\ \A f \in Range(satq'[s]) : f \in Range(satq[s]) \/ Fresh(f)
          /\ satq' = satq \/ UNCHANGED <<boot, seq>>
      BY <1>t, ControllerSends DEF OrderInv
    <2>2. Range(satq[s]) \subseteq SatEvent /\ Range(satq'[s]) \subseteq SatEvent
      <3>1. satq[s] \in Seq(SatEvent) /\ satq'[s] \in Seq(SatEvent)
        BY <1>t DEF TypeOK
      <3> QED BY <3>1 DEF Range
    <2>3. \A f \in Range(satq[s]) : Sent(f) /\ satBoot[s] <= f.boot
      BY DEF OrderInv, FramesInOrder
    <2> QED BY <1>2, <1>3, <2>1, <2>2, <2>3
  <1>5. AppliedRemembered' /\ AppliedInOrder'
    BY <1>s DEF OrderInv, AppliedRemembered, AppliedInOrder, satVars
  <1> QED BY <1>t, <1>1, <1>4, <1>5 DEF OrderInv

\* What handling frame f leaves of the order: the remembered case of the boot of
\* f, and f itself at the end of what was applied if it is newer.
LEMMA SatelliteOrderInv ==
    ASSUME OrderInv, NEW s \in Sats, SatStep(s)
    PROVE  OrderInv'
  <1>t. TypeOK /\ TypeOK'
    BY SatelliteTypeOK DEF OrderInv
  <1>c. UNCHANGED <<boot, seq, phase>>
    BY DEF SatStep, HandleFrame, RequestTime, Register, ControllerTimeout, SatReboot, planVars
  <1>o. \A f : Sent(f)' <=> Sent(f)
    BY <1>c DEF Sent
  <1>1. CASE HandleFrame(s)
    <2> DEFINE f == Head(satq[s])
    <2>1. satq[s] \in Seq(SatEvent) /\ satq[s] # <<>> /\ f \in SatEvent /\ f \in Range(satq[s])
          /\ Range(Tail(satq[s])) \subseteq Range(satq[s])
      BY <1>1, <1>t, DequeueFacts DEF HandleFrame, TypeOK
    <2>2. Sent(f) /\ satBoot[s] <= f.boot /\ f.boot \in Nat
          /\ (f.type = "Cmd" => f.seq \in 1 .. Cases)
      BY <2>1, SatEventFacts DEF OrderInv, FramesInOrder
    <2>3. InOrder(Tail(satq[s])) /\ \A g \in Range(Tail(satq[s])) : NotAfter(f, g)
      BY <2>1, TailInOrder DEF OrderInv, FramesInOrder
    <2>4. satq' = [satq EXCEPT ![s] = Tail(@)] /\ satq \in [Sats -> Seq(SatEvent)]
      BY <1>1, <1>t DEF HandleFrame, TypeOK
    <2>5. satBoot' = satBoot \/ satBoot' = [satBoot EXCEPT ![s] = f.boot]
      BY <1>1 DEF HandleFrame, Ignore, ReceiveData, ReceiveCmd
    <2> HIDE DEF f
    <2>6. FramesInOrder'
      <3> SUFFICES ASSUME NEW m \in Sats
                   PROVE  /\ InOrder(satq'[m])
                          /\ \A g \in Range(satq'[m]) : Sent(g) /\ satBoot'[m] <= g.boot
        BY <1>o DEF FramesInOrder
      <3>1. CASE m # s
        <4>1. satq'[m] = satq[m] /\ satBoot'[m] = satBoot[m]
          BY <2>4, <2>5, <3>1, <1>t DEF TypeOK
        <4> QED BY <4>1 DEF OrderInv, FramesInOrder
      <3>2. CASE m = s
        <4>1. satq'[m] = Tail(satq[s]) /\ (satBoot'[m] = satBoot[s] \/ satBoot'[m] = f.boot)
          BY <2>4, <2>5, <3>2, <1>t DEF TypeOK
        <4>2. \A g \in Range(Tail(satq[s])) : Sent(g) /\ satBoot[s] <= g.boot /\ f.boot <= g.boot
          BY <2>1, <2>3 DEF OrderInv, FramesInOrder, NotAfter
        <4> QED BY <2>3, <4>1, <4>2
      <3> QED BY <3>1, <3>2
    <2>7. BootsKnown'
      BY <1>c, <1>t, <2>2, <2>5 DEF OrderInv, BootsKnown, Sent, TypeOK
    \* The next application, if there is one, comes after all others.
    <2>8. ASSUME f.type = "Cmd", ReceiveCmd(s, f)
          PROVE  AppliedRemembered' /\ AppliedInOrder'
      <3> DEFINE last == RememberedHil(s, f.boot)
      <3>0. /\ satBoot \in [Sats -> Nat] /\ satHil \in [Sats -> 0 .. Cases]
            /\ applied \in [Sats -> Seq(Nat \X (1 .. Cases))]
        BY <1>t DEF TypeOK
      <3>1. /\ satBoot[s] \in Nat /\ satHil[s] \in Nat /\ f.seq \in Nat /\ last \in Nat
            /\ satBoot' = [satBoot EXCEPT ![s] = f.boot]
        <4>1. satHil[s] \in 0 .. Cases /\ Cases \in Nat
          BY <3>0, PlanAssumption
        <4>2. satHil[s] \in Nat /\ f.seq \in Nat
          BY <2>2, <2>8, <4>1
        <4> QED BY <3>0, <2>8, <4>2 DEF ReceiveCmd, RememberedHil
      <3>2. \A i \in DOMAIN applied[s] :
                /\ applied[s][i][1] \in Nat /\ applied[s][i][2] \in Nat
                /\ applied[s][i][2] >= 1
                /\ Remembered(applied[s][i], satBoot[s], satHil[s])
        <4>1. \A i \in DOMAIN applied[s] : applied[s][i] \in Nat \X (1 .. Cases)
          BY <3>0, <3>1
        <4> QED BY <4>1 DEF OrderInv, AppliedRemembered
      <3>3. \A i \in DOMAIN applied[s] : Remembered(applied[s][i], f.boot, last)
        BY <2>2, <3>0, <3>1, <3>2 DEF Remembered, RememberedHil
      <3>4. CASE satHil' = [satHil EXCEPT ![s] = last] /\ applied' = applied
        <4> HIDE DEF last
        <4>1. /\ satHil'[s] = last /\ satBoot'[s] = f.boot
              /\ \A m \in Sats \ {s} : satHil'[m] = satHil[m] /\ satBoot'[m] = satBoot[m]
          BY <3>0, <3>1, <3>4
        <4> QED BY <3>2, <3>3, <3>4, <4>1 DEF OrderInv, AppliedRemembered, AppliedInOrder
      <3>5. CASE Apply(s, f) /\ ~ IsDuplicate(last, f.seq)
        <4> DEFINE a == <<f.boot, f.seq>>
        <4>1. last = 0 \/ last < f.seq
          BY <3>0, <3>1, <3>5 DEF IsDuplicate
        <4>2. a[1] = f.boot /\ a[2] = f.seq /\ a \in Nat \X (1 .. Cases)
          BY <2>2, <2>8
        <4> HIDE DEF last, a
        <4>3. /\ satHil'[s] = f.seq /\ satBoot'[s] = f.boot
              /\ applied'[s] = Append(applied[s], a)
              /\ \A m \in Sats \ {s} : /\ satHil'[m] = satHil[m] /\ satBoot'[m] = satBoot[m]
                                       /\ applied'[m] = applied[m]
          BY <3>0, <3>1, <3>5 DEF Apply, a
        <4>4. \A i \in DOMAIN applied[s] : Before(applied[s][i], a)
          BY <2>2, <3>0, <3>1, <3>2, <3>3, <4>1, <4>2 DEF Remembered, Before
        <4>5. \A i \in DOMAIN applied'[s] :
                  \/ i \in DOMAIN applied[s] /\ applied'[s][i] = applied[s][i]
                  \/ i = Len(applied[s]) + 1 /\ applied'[s][i] = a
          <5> DEFINE P == Nat \X (1 .. Cases)
          <5>1. applied[s] \in Seq(P) /\ a \in P
            BY <3>0, <3>1, <4>2
          <5> HIDE DEF P
          <5> QED BY <4>3, <5>1
        <4>d. DOMAIN applied[s] = 1 .. Len(applied[s]) /\ Len(applied[s]) \in Nat
          <5> DEFINE P == Nat \X (1 .. Cases)
          <5>1. applied[s] \in Seq(P)
            BY <3>0, <3>1
          <5> HIDE DEF P
          <5> QED BY <5>1
        <4>6. \A i \in DOMAIN applied'[s] : /\ applied'[s][i][2] >= 1
                                            /\ Remembered(applied'[s][i], f.boot, f.seq)
          <5>1. \A i \in DOMAIN applied[s] : Remembered(applied[s][i], f.boot, f.seq)
            BY <2>2, <3>0, <3>1, <3>2, <4>2, <4>4 DEF Before, Remembered
          <5>2. a[2] >= 1 /\ Remembered(a, f.boot, f.seq)
            BY <2>2, <2>8, <4>2 DEF Remembered
          <5> QED BY <3>2, <4>5, <5>1, <5>2
        <4>7. ASSUME NEW i \in DOMAIN applied'[s], NEW j \in DOMAIN applied'[s], i < j
              PROVE  Before(applied'[s][i], applied'[s][j])
          <5>1. i \in DOMAIN applied[s] /\ applied'[s][i] = applied[s][i]
            BY <4>5, <4>7, <4>d
          <5>2. CASE j \in DOMAIN applied[s] /\ applied'[s][j] = applied[s][j]
            BY <4>7, <5>1, <5>2 DEF OrderInv, AppliedInOrder
          <5>3. CASE applied'[s][j] = a
            BY <4>4, <5>1, <5>3
          <5> QED BY <4>5, <5>2, <5>3
        <4>8. AppliedRemembered'
          BY <4>3, <4>6 DEF OrderInv, AppliedRemembered
        <4>9. AppliedInOrder'
          BY <4>3, <4>7 DEF OrderInv, AppliedInOrder
        <4> QED BY <4>8, <4>9
      <3> QED BY <2>8, <3>4, <3>5 DEF ReceiveCmd, DropCommand, SkipDuplicate
    \* A frame of another kind may only make the remembered boot a newer one.
    <2>9. ASSUME UNCHANGED <<satHil, applied>>
          PROVE  AppliedRemembered' /\ AppliedInOrder'
      <3>1. \A m \in Sats : satBoot[m] <= satBoot'[m] /\ satBoot[m] \in Nat /\ satBoot'[m] \in Nat
        <4>1. satBoot \in [Sats -> Nat]
          BY <1>t DEF TypeOK
        <4> QED BY <2>2, <2>5, <4>1
      <3>2. ASSUME NEW m \in Sats, NEW i \in DOMAIN applied[m]
            PROVE  Remembered(applied[m][i], satBoot'[m], satHil[m])
        <4>1. applied[m][i][1] \in Nat
          <5>1. applied[m] \in Seq(Nat \X (1 .. Cases))
            BY <1>t DEF TypeOK
          <5>2. applied[m][i] \in Nat \X (1 .. Cases)
            BY <5>1
          <5> QED BY <5>2
        <4>2. Remembered(applied[m][i], satBoot[m], satHil[m])
          BY DEF OrderInv, AppliedRemembered
        <4> QED BY <3>1, <4>1, <4>2 DEF Remembered
      <3> QED BY <2>9, <3>2 DEF OrderInv, AppliedRemembered, AppliedInOrder
    <2> QED BY <1>1, <1>t, <2>6, <2>7, <2>8, <2>9 DEF OrderInv, HandleFrame, Ignore, ReceiveData, f
  <1>2. CASE SatReboot(s)
    <2>1. /\ satq'[s] = <<>> /\ satBoot'[s] = 0 /\ applied'[s] = <<>>
          /\ \A m \in Sats \ {s} : /\ satq'[m] = satq[m] /\ satBoot'[m] = satBoot[m]
                                   /\ satHil'[m] = satHil[m] /\ applied'[m] = applied[m]
      BY <1>2, <1>t DEF SatReboot, TypeOK
    <2>2. FramesInOrder'
      BY <1>o, <2>1 DEF OrderInv, FramesInOrder, InOrder, Range
    <2>3. BootsKnown'
      <3>1. 0 <= boot
        BY <1>t DEF TypeOK
      <3> QED BY <1>c, <2>1, <3>1 DEF OrderInv, BootsKnown
    <2>4. AppliedRemembered' /\ AppliedInOrder'
      BY <2>1 DEF OrderInv, AppliedRemembered, AppliedInOrder
    <2> QED BY <1>t, <2>2, <2>3, <2>4 DEF OrderInv
  <1>3. CASE UNCHANGED <<satq, satBoot, satHil, applied>>
    BY <1>t, <1>c, <1>o, <1>3 DEF OrderInv, FramesInOrder, BootsKnown, AppliedRemembered,
       AppliedInOrder
  <1> QED BY <1>1, <1>2, <1>3 DEF SatStep, RequestTime, Register, ControllerTimeout, satVars, airVars

\* Nothing is sent yet.
LEMMA InitOrderInv == Init => OrderInv
  <1> SUFFICES ASSUME Init PROVE OrderInv
    OBVIOUS
  <1>1. TypeOK
    BY InitTypeOK
  <1> QED BY <1>1 DEF Init, OrderInv, BootsKnown, FramesInOrder, AppliedRemembered,
          AppliedInOrder, InOrder, Range

\* A satellite applies each case of a boot at most once and in the order of the
\* plan, and no case of an older boot after one of a newer: copies, retries and
\* what is left in its queue over a restart of the controller change nothing.
THEOREM AppliedOnceInOrder == Spec => []AppliedInOrder
<1>1. OrderInv /\ [Next]_vars => OrderInv'
  <2> SUFFICES ASSUME OrderInv, [Next]_vars PROVE OrderInv'
    OBVIOUS
  <2>1. CASE TaskStep \/ HandleEvent \/ CtlReboot
    BY <2>1, ControllerOrderInv
  <2>2. CASE \E s \in Sats : SatStep(s)
    BY <2>2, SatelliteOrderInv
  <2>3. CASE UNCHANGED vars
    <3>1. TypeOK'
      BY <2>3 DEF vars, planVars, tableVars, airVars, satVars, OrderInv, TypeOK
    <3> QED BY <2>3, <3>1 DEF vars, planVars, tableVars, airVars, satVars, OrderInv, BootsKnown,
            FramesInOrder, Sent, AppliedRemembered, AppliedInOrder
  <2> QED BY <2>1, <2>2, <2>3 DEF Next
<1>2. OrderInv => AppliedInOrder
  BY DEF OrderInv
<1> QED BY <1>1, <1>2, InitOrderInv, PTL DEF Spec
-----------------------------------------------------------------------------
(***************************************************************************)
(* What an ACK vouches for.  The remembered case was applied: in the boot the *)
(* satellite is in, and then no older case of that boot can reach it any more, *)
(* or in an earlier one.                                                    *)
(***************************************************************************)
\* No case before h of the boot satellite s is in is still to come.
Past(s, h) ==
    /\ \A f \in Range(satq[s]) : f.type = "Cmd" /\ f.boot = satBoot[s] => h <= f.seq
    /\ boot = satBoot[s] => seq = 0 \/ h <= seq

RememberedApplied == \A s \in Sats : satHil[s] # 0 =>
    \E a \in ever[s] : /\ a[2] = satHil[s]
                       /\ \/ a[1] < satBoot[s]
                          \/ a[1] = satBoot[s] /\ Past(s, satHil[s])

EverBooted == \A s \in Sats : \A a \in ever[s] : 1 <= a[1]

\* Application a makes an ACK of case c in boot b true.
Vouches(a, b, c) == (a[1] = b /\ a[2] = c) \/ (a[1] < b /\ a[2] >= c)

AcksBacked == \A e \in Range(ctlq) : e.type = "HilAck" =>
    \E a \in ever[e.from] : Vouches(a, e.boot, e.seq)

AckedBacked == phase \in InCase => \A s \in acked : \E a \in ever[s] : Backs(a, seq)

\* The values in force are those of the remembered case, if it sets them.
ValuesRemembered == \A s \in Sats :
    /\ satHil[s] \in Selects \cup Sets => patch[s] = satHil[s]
    /\ satHil[s] \in Sets => param[s] = satHil[s]

\* An ACK of the first boot carries the values of the case it is for.
AcksReport == \A e \in Range(ctlq) : e.type = "HilAck" /\ e.boot = 1 =>
    /\ e.seq \in Selects \cup Sets => e.patch = e.seq
    /\ e.seq \in Sets => e.param = e.seq

PlanInv ==
    /\ OrderInv
    /\ RememberedApplied /\ EverBooted
    /\ AcksBacked /\ AckedBacked /\ PassIsBacked
    /\ ValuesRemembered /\ AcksReport

\* Nothing is applied, acknowledged or reported yet.
LEMMA InitPlanInv == Init => PlanInv
  <1> SUFFICES ASSUME Init PROVE PlanInv
    OBVIOUS
  <1>1. OrderInv
    BY InitOrderInv
  <1>2. 0 \notin Selects \cup Sets
    BY PlanAssumption
  <1> QED BY <1>1, <1>2 DEF Init, PlanInv, RememberedApplied, EverBooted, AcksBacked,
          AckedBacked, PassIsBacked, ValuesRemembered, AcksReport, InCase, Range

\* The controller's steps: a command that is sent is not before the remembered
\* one, an ACK that counts vouches for the active case, and a result is PASS only
\* when every member's ACK was counted.
LEMMA ControllerPlanInv ==
    ASSUME PlanInv, TaskStep \/ HandleEvent \/ CtlReboot
    PROVE  PlanInv'
  <1>t. OrderInv /\ OrderInv' /\ TypeOK
    BY ControllerOrderInv DEF PlanInv, OrderInv
  <1>s. UNCHANGED satVars
    BY DEF TaskStep, Discover, DiscoverDrainEnds, DiscoverTimeout, SettleEnds, StartCase,
       Broadcast, BroadcastDrainEnds, RetryPass, RetryDrainEnds, RetryEnds, ReportCase, GapEnds,
       HandleEvent, CtlReboot
  <1>p. \/ boot' = boot /\ (seq' = seq \/ seq' = 0 \/ (seq # 0 /\ seq < seq'))
        \/ boot < boot' /\ phase' = "discover"
    BY <1>t, PlanMovesOn
  <1>n. /\ boot \in Nat /\ boot' \in Nat /\ seq \in Nat /\ seq' \in Nat
        /\ \A s \in Sats : satBoot[s] \in Nat /\ satHil[s] \in Nat
    BY <1>t, PlanAssumption DEF OrderInv, TypeOK
  <1>1. RememberedApplied'
    <2> SUFFICES ASSUME NEW s \in Sats, satHil[s] # 0
                 PROVE  \E a \in ever[s] : /\ a[2] = satHil[s]
                                           /\ \/ a[1] < satBoot[s]
                                              \/ a[1] = satBoot[s] /\ Past(s, satHil[s])'
      BY <1>s DEF RememberedApplied, satVars
    <2>1. PICK a \in ever[s] : /\ a[2] = satHil[s]
                               /\ \/ a[1] < satBoot[s]
                                  \/ a[1] = satBoot[s] /\ Past(s, satHil[s])
      BY DEF PlanInv, RememberedApplied
    <2>2. ASSUME Past(s, satHil[s]) PROVE Past(s, satHil[s])'
      <3>1. ASSUME NEW f \in Range(satq'[s]), f.type = "Cmd", f.boot = satBoot[s]
            PROVE  satHil[s] <= f.seq
        <4>1. f \in Range(satq[s]) \/ Fresh(f)
          BY <1>t, ControllerSends DEF OrderInv
        <4> QED BY <2>2, <3>1, <4>1 DEF Past, Fresh
      <3>2. boot' = satBoot[s] => seq' = 0 \/ satHil[s] <= seq'
        <4>1. satBoot[s] <= boot
          BY <1>t DEF OrderInv, BootsKnown
        <4> QED BY <1>n, <1>p, <2>2, <4>1 DEF Past
      <3> QED BY <1>s, <3>1, <3>2 DEF Past, satVars
    <2> QED BY <2>1, <2>2
  <1>2. EverBooted' /\ ValuesRemembered'
    BY <1>s DEF PlanInv, EverBooted, ValuesRemembered, satVars
  <1>3. Range(ctlq') \subseteq Range(ctlq)
    <2>1. CASE HandleEvent
      BY <2>1, <1>t, DequeueFacts DEF HandleEvent, TypeOK
    <2>2. CASE CtlReboot
      BY <2>2 DEF CtlReboot, Range
    <2>3. CASE TaskStep
      BY <2>3 DEF TaskStep, Discover, DiscoverDrainEnds, DiscoverTimeout, SettleEnds, StartCase,
         Broadcast, BroadcastDrainEnds, RetryPass, RetryDrainEnds, RetryEnds, ReportCase, GapEnds,
         airVars
    <2> QED BY <2>1, <2>2, <2>3
  <1>4. AcksBacked' /\ AcksReport'
    BY <1>3, <1>s DEF PlanInv, AcksBacked, AcksReport, satVars
  <1>5. AckedBacked'
    <2>0. ASSUME phase \in InCase, UNCHANGED <<boot, seq, acked>>
          PROVE  AckedBacked'
      BY <1>s, <2>0 DEF PlanInv, AckedBacked, Backs, satVars
    <2>1. CASE HandleEvent
      <3> DEFINE e == Head(ctlq)
                 counted == IF e.type = "HilAck" /\ Counts(e) THEN {e.from} ELSE {}
      <3>1. e \in Range(ctlq) /\ acked' = acked \cup counted /\ UNCHANGED <<phase, boot, seq>>
        BY <2>1, <1>t, DequeueFacts DEF HandleEvent, TypeOK, planVars
      <3>2. \A s \in counted : \E a \in ever[s] : Backs(a, seq)
        <4> SUFFICES ASSUME e.type = "HilAck", Counts(e)
                     PROVE  \E a \in ever[e.from] : Backs(a, seq)
          OBVIOUS
        <4>1. e.boot = boot /\ e.seq = seq
          BY DEF Counts
        <4>2. \E a \in ever[e.from] : Vouches(a, e.boot, e.seq)
          BY <3>1 DEF PlanInv, AcksBacked
        <4> HIDE DEF e
        <4> QED BY <4>1, <4>2 DEF Vouches, Backs
      <3> HIDE DEF e, counted
      <3> QED BY <3>1, <3>2, <1>s DEF PlanInv, AckedBacked, Backs, satVars
    <2>2. CASE StartCase
      BY <2>2 DEF StartCase, ResetAcks, AckedBacked
    <2>3. CASE phase' \notin InCase
      BY <2>3 DEF AckedBacked
    <2>4. CASE Broadcast \/ BroadcastDrainEnds \/ RetryPass \/ RetryDrainEnds \/ RetryEnds \/ ReportCase
      BY <2>4, <2>0 DEF Broadcast, BroadcastDrainEnds, RetryPass, RetryDrainEnds, RetryEnds,
         ReportCase, InCase, tableVars
    <2>5. CASE Discover \/ DiscoverDrainEnds \/ DiscoverTimeout \/ SettleEnds \/ CtlReboot
      BY <2>5, <2>3 DEF Discover, DiscoverDrainEnds, DiscoverTimeout, SettleEnds, CtlReboot, InCase
    <2>6. CASE GapEnds
      BY <2>6, <2>3 DEF GapEnds, NextStep, InCase
    <2> QED BY <2>1, <2>2, <2>4, <2>5, <2>6 DEF TaskStep
  <1>6. PassIsBacked'
    <2>1. CASE UNCHANGED <<boot, results>>
      BY <1>s, <2>1 DEF PlanInv, PassIsBacked, Backs, satVars
    <2>2. CASE CtlReboot
      BY <2>2 DEF CtlReboot, PassIsBacked
    <2>3. CASE ReportCase
      <3> DEFINE r == [case |-> seq, members |-> expected, pass |-> Complete]
      <3>1. results' = Append(results, r) /\ results \in Seq(Result) /\ boot' = boot
        BY <2>3, <1>t DEF ReportCase, TypeOK
      <3>2. r.pass => r.members # {} /\ \A s \in r.members : \E a \in ever[s] : Backs(a, r.case)
        BY <2>3 DEF ReportCase, Complete, InCase, PlanInv, AckedBacked
      <3> HIDE DEF r
      <3>3. \A i \in DOMAIN results' :
                \/ i \in DOMAIN results /\ results'[i] = results[i]
                \/ results'[i] = r
        BY <3>1
      <3> SUFFICES ASSUME NEW i \in DOMAIN results', results'[i].pass
                   PROVE  /\ results'[i].members # {}
                          /\ \A s \in results'[i].members :
                                 \E a \in ever[s] : Backs(a, results'[i].case)
        BY <1>s, <3>1 DEF PassIsBacked, Backs, satVars
      <3>4. CASE i \in DOMAIN results /\ results'[i] = results[i]
        BY <3>4 DEF PlanInv, PassIsBacked
      <3>5. CASE results'[i] = r
        BY <3>2, <3>5
      <3> QED BY <3>3, <3>4, <3>5
    <2> QED BY <2>1, <2>2, <2>3 DEF TaskStep, Discover, DiscoverDrainEnds, DiscoverTimeout,
            SettleEnds, StartCase, Broadcast, BroadcastDrainEnds, RetryPass, RetryDrainEnds,
            RetryEnds, GapEnds, HandleEvent, planVars
  <1> QED BY <1>t, <1>1, <1>2, <1>4, <1>5, <1>6 DEF PlanInv

\* What a satellite can say after it took frame f from its queue: an older case of
\* this boot cannot follow, and a copy that is swallowed is of a case that was
\* applied, unless it is of an earlier boot's numbering.
LEMMA CommandVouched ==
    ASSUME PlanInv, NEW s \in Sats, satq[s] # <<>>, NEW f, f = Head(satq[s]), f.type = "Cmd",
           \/ Apply(s, f)
           \/ IsDuplicate(RememberedHil(s, f.boot), f.seq) /\ SkipDuplicate(s, f)
    PROVE  /\ \E a \in ever'[s] : Vouches(a, f.boot, f.seq)
           /\ f.boot = 1 => /\ f.seq \in Selects \cup Sets => patch'[s] = f.seq
                            /\ f.seq \in Sets => param'[s] = f.seq
  <1>t. TypeOK
    BY DEF PlanInv, OrderInv
  <1>1. f \in Range(satq[s]) /\ f.boot \in Nat /\ f.seq \in Nat
    BY <1>t, DequeueFacts, SatEventFacts DEF TypeOK
  <1>2. /\ patch \in [Sats -> 0 .. Cases] /\ param \in [Sats -> 0 .. Cases]
        /\ ever \in [Sats -> SUBSET (Nat \X (1 .. Cases))]
        /\ satBoot[s] \in Nat /\ satHil[s] \in Nat
    BY <1>t, PlanAssumption DEF TypeOK
  <1>3. CASE Apply(s, f)
    <2>1. <<f.boot, f.seq>> \in ever'[s]
      BY <1>2, <1>3 DEF Apply
    <2>2. /\ f.seq \in Selects \cup Sets => patch'[s] = f.seq
          /\ f.seq \in Sets => param'[s] = f.seq
      BY <1>2, <1>3 DEF Apply, PatchAfter, ParamAfter
    <2>3. Vouches(<<f.boot, f.seq>>, f.boot, f.seq)
      BY DEF Vouches
    <2> QED BY <2>1, <2>2, <2>3
  <1>4. CASE IsDuplicate(RememberedHil(s, f.boot), f.seq) /\ SkipDuplicate(s, f)
    <2>1. satBoot[s] = f.boot /\ satHil[s] # 0 /\ f.seq <= satHil[s]
      BY <1>4 DEF IsDuplicate, RememberedHil
    <2>2. PICK a \in ever[s] : /\ a[2] = satHil[s]
                               /\ \/ a[1] < satBoot[s]
                                  \/ a[1] = satBoot[s] /\ Past(s, satHil[s])
      BY <2>1 DEF PlanInv, RememberedApplied
    <2>3. a \in Nat \X (1 .. Cases)
      BY <1>2, <2>2
    <2>4. a[1] \in Nat /\ 1 <= a[1]
      BY <2>2, <2>3 DEF PlanInv, EverBooted
    <2>5. Past(s, satHil[s]) => satHil[s] = f.seq
      BY <1>1, <1>2, <2>1 DEF Past
    <2>6. Vouches(a, f.boot, f.seq)
      BY <2>1, <2>2, <2>5 DEF Vouches
    <2>7. f.boot = 1 => satHil[s] = f.seq
      BY <2>1, <2>2, <2>4, <2>5
    <2>8. ever'[s] = ever[s] /\ patch' = patch /\ param' = param
      BY <1>4 DEF SkipDuplicate
    <2> QED BY <2>2, <2>6, <2>7, <2>8 DEF PlanInv, ValuesRemembered
  <1> QED BY <1>3, <1>4

\* A satellite's steps only add to what was applied.
LEMMA SatellitePlanInv ==
    ASSUME PlanInv, NEW s \in Sats, SatStep(s)
    PROVE  PlanInv'
  <1>t. OrderInv /\ OrderInv' /\ TypeOK /\ TypeOK'
    BY SatelliteOrderInv DEF PlanInv, OrderInv
  <1>c. UNCHANGED <<boot, seq, phase, acked, results>>
    BY DEF SatStep, HandleFrame, RequestTime, Register, ControllerTimeout, SatReboot, planVars,
       tableVars
  <1>e. \A m \in Sats : ever[m] \subseteq ever'[m]
    <2>1. CASE ever' = ever
      BY <2>1
    <2>2. CASE \E f : Apply(s, f)
      BY <1>t, <2>2 DEF Apply, TypeOK
    <2> QED BY <2>1, <2>2 DEF SatStep, HandleFrame, Ignore, ReceiveData, ReceiveCmd, DropCommand,
            SkipDuplicate, RequestTime, Register, ControllerTimeout, SatReboot, satVars
  <1>1. AckedBacked' /\ PassIsBacked'
    <2>1. AckedBacked'
      <3>1. acked \subseteq Sats
        BY <1>t DEF TypeOK
      <3> QED BY <1>c, <1>e, <3>1 DEF PlanInv, AckedBacked, Backs
    <2>2. PassIsBacked'
      <3> SUFFICES ASSUME NEW i \in DOMAIN results, results[i].pass
                   PROVE  /\ results[i].members # {}
                          /\ \A m \in results[i].members :
                                 \E a \in ever'[m] : Backs(a, results[i].case)
        BY <1>c DEF PassIsBacked, Backs
      <3>1. results[i] \in Result
        <4>1. results \in Seq(Result)
          BY <1>t DEF TypeOK
        <4> QED BY <4>1
      <3>2. results[i].members \subseteq Sats
        BY <3>1 DEF Result
      <3> QED BY <1>e, <3>2 DEF PlanInv, PassIsBacked
    <2> QED BY <2>1, <2>2
  \* ACKs that are on their way stay true; the new one is the command's.
  <1>a. ASSUME \A e \in Range(ctlq') :
                   \/ e \in Range(ctlq)
                   \/ e.type # "HilAck"
                   \/ /\ e.from = s /\ \E a \in ever'[s] : Vouches(a, e.boot, e.seq)
                      /\ e.boot = 1 => /\ e.seq \in Selects \cup Sets => e.patch = e.seq
                                       /\ e.seq \in Sets => e.param = e.seq
        PROVE  AcksBacked' /\ AcksReport'
    <2>1. AcksReport'
      BY <1>a DEF PlanInv, AcksReport
    <2>2. ASSUME NEW e \in Range(ctlq), e.type = "HilAck"
          PROVE  \E a \in ever'[e.from] : Vouches(a, e.boot, e.seq)
      <3>1. e \in CtlEvent
        <4>1. ctlq \in Seq(CtlEvent)
          BY <1>t DEF TypeOK
        <4> QED BY <2>2, <4>1 DEF Range
      <3>2. e.from \in Sats
        BY <3>1, CtlEventFacts
      <3> QED BY <1>e, <2>2, <3>2 DEF PlanInv, AcksBacked
    <2>3. AcksBacked'
      BY <1>a, <2>2 DEF AcksBacked
    <2> QED BY <2>1, <2>3
  <1>h. ASSUME NEW heard \in BOOLEAN, ctlq' = Arrives(ctlq, [type |-> "Hello", from |-> s], heard)
        PROVE  AcksBacked' /\ AcksReport'
    <2> DEFINE h == [type |-> "Hello", from |-> s]
    <2>1. h \in CtlEvent /\ h.type = "Hello"
      BY <1>t, FrameTypes
    <2>2. ctlq' = Arrives(ctlq, h, heard)
      BY <1>h
    <2> HIDE DEF h
    <2>3. Range(ctlq') \subseteq Range(ctlq) \cup {h}
      BY <1>t, <2>1, <2>2, CtlArrives
    <2> QED BY <1>a, <2>1, <2>3
  <1>u. ASSUME UNCHANGED <<ever, satHil, satBoot>>,
               \A m \in Sats : Range(satq'[m]) \subseteq Range(satq[m])
        PROVE  RememberedApplied' /\ EverBooted'
    <2>1. \A m \in Sats : \A h : Past(m, h) => Past(m, h)'
      BY <1>c, <1>u DEF Past
    <2> QED BY <1>u, <2>1 DEF PlanInv, RememberedApplied, EverBooted
  <1>v. UNCHANGED <<satHil, patch, param>> => ValuesRemembered'
    BY DEF PlanInv, ValuesRemembered
  <1>2. CASE HandleFrame(s)
    <2> DEFINE f == Head(satq[s])
    <2>1. /\ satq[s] \in Seq(SatEvent) /\ satq[s] # <<>> /\ f \in SatEvent /\ f \in Range(satq[s])
          /\ satq' = [satq EXCEPT ![s] = Tail(@)] /\ satq \in [Sats -> Seq(SatEvent)]
      BY <1>2, <1>t, DequeueFacts DEF HandleFrame, TypeOK
    <2>2. /\ satBoot[s] <= f.boot /\ 1 <= f.boot /\ f.boot \in Nat /\ satBoot[s] \in Nat
          /\ f.type = "Cmd" => f.seq \in 1 .. Cases
          /\ f.type = "Cmd" /\ f.boot = boot => seq = 0 \/ f.seq <= seq
      <3>1. satBoot[s] \in Nat
        BY <1>t DEF TypeOK
      <3> QED BY <2>1, <3>1, SatEventFacts DEF PlanInv, OrderInv, FramesInOrder, Sent
    <2>3. InOrder(Tail(satq[s])) /\ \A g \in Range(Tail(satq[s])) : NotAfter(f, g)
      BY <2>1, TailInOrder DEF PlanInv, OrderInv, FramesInOrder
    <2>4. \A m \in Sats : Range(satq'[m]) \subseteq Range(satq[m])
      <3>1. Range(Tail(satq[s])) \subseteq Range(satq[s])
        BY <2>1, DequeueFacts
      <3> QED BY <2>1, <3>1
    <2> HIDE DEF f
    \* The remembered case survives a frame that applies nothing, unless it is of a
    \* newer boot and clears it.
    <2>5. ASSUME \/ satBoot' = satBoot /\ satHil' = satHil
                 \/ /\ satBoot' = [satBoot EXCEPT ![s] = f.boot]
                    /\ \/ satHil' = satHil
                       \/ satHil' = [satHil EXCEPT ![s] = RememberedHil(s, f.boot)],
                 UNCHANGED <<ever, patch, param>>
          PROVE  RememberedApplied' /\ EverBooted' /\ ValuesRemembered'
      <3>0. /\ satBoot \in [Sats -> Nat] /\ satHil \in [Sats -> 0 .. Cases]
            /\ ever \in [Sats -> SUBSET (Nat \X (1 .. Cases))]
        BY <1>t DEF TypeOK
      <3>1. /\ \A m \in Sats \ {s} : satBoot'[m] = satBoot[m] /\ satHil'[m] = satHil[m]
            /\ satHil'[s] = satHil[s] \/ satHil'[s] = 0
            /\ satBoot'[s] = satBoot[s] \/ satBoot[s] < satBoot'[s]
            /\ satBoot'[s] \in Nat
        BY <2>2, <2>5, <3>0 DEF RememberedHil
      <3>2. RememberedApplied'
        <4> SUFFICES ASSUME NEW m \in Sats, satHil'[m] # 0
                     PROVE  \E a \in ever[m] : /\ a[2] = satHil'[m]
                                               /\ \/ a[1] < satBoot'[m]
                                                  \/ a[1] = satBoot'[m] /\ Past(m, satHil[m])'
          <5>1. ever' = ever
            BY <2>5
          <5> QED BY <5>1 DEF RememberedApplied
        <4>1. satHil'[m] = satHil[m]
          BY <3>1
        <4>2. PICK a \in ever[m] : /\ a[2] = satHil[m]
                                   /\ \/ a[1] < satBoot[m]
                                      \/ a[1] = satBoot[m] /\ Past(m, satHil[m])
          BY <4>1 DEF PlanInv, RememberedApplied
        <4>3. a[1] \in Nat
          BY <3>0, <4>2
        <4>4. CASE satBoot'[m] = satBoot[m]
          <5>1. Past(m, satHil[m]) => Past(m, satHil[m])'
            BY <1>c, <2>4, <4>1, <4>4 DEF Past
          <5> QED BY <4>1, <4>2, <4>4, <5>1
        <4>5. CASE satBoot[m] < satBoot'[m]
          <5>1. satBoot[m] \in Nat /\ satBoot'[m] \in Nat
            BY <1>t DEF TypeOK
          <5> QED BY <4>1, <4>2, <4>3, <4>5, <5>1
        <4> QED BY <3>1, <4>4, <4>5
      <3>3. EverBooted'
        BY <2>5 DEF PlanInv, EverBooted
      <3>4. ValuesRemembered'
        <4>1. 0 \notin Selects \cup Sets
          BY PlanAssumption
        <4> QED BY <2>5, <3>1, <4>1 DEF PlanInv, ValuesRemembered
      <3> QED BY <3>2, <3>3, <3>4
    \* A command that is applied is the latest of its boot.
    <2>6. ASSUME f.type = "Cmd", Apply(s, f), satBoot' = [satBoot EXCEPT ![s] = f.boot]
          PROVE  RememberedApplied' /\ EverBooted' /\ ValuesRemembered'
      <3>0. /\ satBoot \in [Sats -> Nat] /\ satHil \in [Sats -> 0 .. Cases]
            /\ ever \in [Sats -> SUBSET (Nat \X (1 .. Cases))]
            /\ patch \in [Sats -> 0 .. Cases] /\ param \in [Sats -> 0 .. Cases]
        BY <1>t DEF TypeOK
      <3>1. /\ satHil'[s] = f.seq /\ satBoot'[s] = f.boot
            /\ ever'[s] = ever[s] \cup {<<f.boot, f.seq>>}
            /\ patch'[s] = PatchAfter(f.seq, patch[s]) /\ param'[s] = ParamAfter(f.seq, param[s])
            /\ \A m \in Sats \ {s} :
                   /\ satHil'[m] = satHil[m] /\ satBoot'[m] = satBoot[m] /\ ever'[m] = ever[m]
                   /\ patch'[m] = patch[m] /\ param'[m] = param[m]
        BY <2>6, <3>0 DEF Apply
      <3>2. \A h : h = f.seq => Past(s, h)'
        <4>1. satq'[s] = Tail(satq[s])
          BY <2>1
        <4>2. \A g \in Range(Tail(satq[s])) : g.type = "Cmd" /\ g.boot = f.boot => f.seq <= g.seq
          BY <2>3, <2>6 DEF NotAfter
        <4>3. boot = f.boot => seq = 0 \/ f.seq <= seq
          BY <2>2, <2>6
        <4> QED BY <1>c, <3>1, <4>1, <4>2, <4>3 DEF Past
      <3>3. RememberedApplied'
        <4>1. ASSUME NEW m \in Sats \ {s}, satHil[m] # 0
              PROVE  \E a \in ever[m] : /\ a[2] = satHil[m]
                                        /\ \/ a[1] < satBoot[m]
                                           \/ a[1] = satBoot[m] /\ Past(m, satHil[m])'
          BY <1>c, <2>4, <3>1, <4>1 DEF PlanInv, RememberedApplied, Past
        <4>2. \E a \in ever'[s] : a[2] = f.seq /\ a[1] = f.boot
          <5>1. <<f.boot, f.seq>> \in ever'[s]
            BY <3>1
          <5> QED BY <5>1
        <4>3. Past(s, satHil[s])'
          <5>1. \A h : h = satHil'[s] => Past(s, h)'
            BY <3>1, <3>2
          <5> QED BY <5>1 DEF Past
        <4> QED BY <3>1, <4>1, <4>2, <4>3 DEF RememberedApplied
      <3>4. EverBooted'
        <4>1. \A a \in ever'[s] : 1 <= a[1]
          BY <2>2, <3>1 DEF PlanInv, EverBooted
        <4> QED BY <3>1, <4>1 DEF PlanInv, EverBooted
      <3>5. ValuesRemembered'
        <4>1. /\ f.seq \in Selects \cup Sets => patch'[s] = f.seq
              /\ f.seq \in Sets => param'[s] = f.seq
          BY <3>1 DEF PatchAfter, ParamAfter
        <4> QED BY <3>1, <4>1 DEF PlanInv, ValuesRemembered
      <3> QED BY <3>3, <3>4, <3>5
    <2>7. CASE Ignore(s)
      <3>1. RememberedApplied' /\ EverBooted' /\ ValuesRemembered'
        BY <2>5, <2>7 DEF Ignore
      <3>2. AcksBacked' /\ AcksReport'
        BY <1>a, <2>7 DEF Ignore
      <3> QED BY <1>t, <1>1, <3>1, <3>2 DEF PlanInv
    <2>8. CASE f.type = "Data" /\ ReceiveData(s, f)
      <3>1. RememberedApplied' /\ EverBooted' /\ ValuesRemembered'
        BY <2>5, <2>8 DEF ReceiveData
      <3>2. AcksBacked' /\ AcksReport'
        BY <1>h, <2>8 DEF ReceiveData
      <3> QED BY <1>t, <1>1, <3>1, <3>2 DEF PlanInv
    <2>9. CASE f.type = "Cmd" /\ ReceiveCmd(s, f) /\ DropCommand(s, f)
      <3>1. RememberedApplied' /\ EverBooted' /\ ValuesRemembered'
        BY <2>5, <2>9 DEF ReceiveCmd, DropCommand
      <3>2. AcksBacked' /\ AcksReport'
        BY <1>a, <2>9 DEF DropCommand
      <3> QED BY <1>t, <1>1, <3>1, <3>2 DEF PlanInv
    <2>10. CASE /\ f.type = "Cmd" /\ ReceiveCmd(s, f) /\ SendHilAck(s, f)
                /\ \/ Apply(s, f)
                   \/ IsDuplicate(RememberedHil(s, f.boot), f.seq) /\ SkipDuplicate(s, f)
      <3>1. RememberedApplied' /\ EverBooted' /\ ValuesRemembered'
        <4>1. CASE Apply(s, f)
          BY <2>6, <2>10, <4>1 DEF ReceiveCmd
        <4>2. CASE SkipDuplicate(s, f)
          BY <2>5, <2>10, <4>2 DEF ReceiveCmd, SkipDuplicate
        <4> QED BY <2>10, <4>1, <4>2
      <3>2. /\ \E a \in ever'[s] : Vouches(a, f.boot, f.seq)
            /\ f.boot = 1 => /\ f.seq \in Selects \cup Sets => patch'[s] = f.seq
                             /\ f.seq \in Sets => param'[s] = f.seq
        BY <2>1, <2>10, CommandVouched DEF f
      <3> DEFINE a == [type |-> "HilAck", from |-> s, boot |-> f.boot, seq |-> f.seq,
                       patch |-> patch'[s], param |-> param'[s]]
      <3>3. a \in CtlEvent
        <4>1. patch'[s] \in 0 .. Cases /\ param'[s] \in 0 .. Cases
          BY <1>t DEF TypeOK
        <4> QED BY <1>t, <2>2, <2>10, <4>1, FrameTypes
      <3>4. PICK heard \in BOOLEAN : ctlq' = Arrives(ctlq, a, heard)
        BY <2>10 DEF SendHilAck
      <3>5. /\ a.from = s /\ \E x \in ever'[s] : Vouches(x, a.boot, a.seq)
            /\ a.boot = 1 => /\ a.seq \in Selects \cup Sets => a.patch = a.seq
                             /\ a.seq \in Sets => a.param = a.seq
        BY <3>2
      <3> HIDE DEF a
      <3>6. Range(ctlq') \subseteq Range(ctlq) \cup {a}
        BY <1>t, <3>3, <3>4, CtlArrives
      <3>7. AcksBacked' /\ AcksReport'
        BY <1>a, <3>5, <3>6
      <3> QED BY <1>t, <1>1, <3>1, <3>7 DEF PlanInv
    <2> QED BY <1>2, <2>7, <2>8, <2>9, <2>10 DEF HandleFrame, ReceiveCmd, f
  <1>3. CASE RequestTime(s)
    <2>1. AcksBacked' /\ AcksReport'
      BY <1>h, <1>3 DEF RequestTime
    <2> QED BY <1>t, <1>1, <1>3, <1>u, <1>v, <2>1 DEF RequestTime, satVars, PlanInv
  <1>4. CASE Register(s)
    <2>1. AcksBacked' /\ AcksReport'
      BY <1>h, <1>4 DEF Register
    <2> QED BY <1>t, <1>1, <1>4, <1>u, <1>v, <2>1 DEF Register, PlanInv
  <1>5. CASE ControllerTimeout(s)
    <2>1. AcksBacked' /\ AcksReport'
      BY <1>a, <1>5 DEF ControllerTimeout, airVars
    <2> QED BY <1>t, <1>1, <1>5, <1>u, <1>v, <2>1 DEF ControllerTimeout, airVars, PlanInv
  <1>6. CASE SatReboot(s)
    <2>1. AcksBacked' /\ AcksReport'
      BY <1>a, <1>6 DEF SatReboot
    <2>2. /\ satHil'[s] = 0 /\ ever' = ever
          /\ \A m \in Sats \ {s} :
                 /\ satHil'[m] = satHil[m] /\ satBoot'[m] = satBoot[m] /\ satq'[m] = satq[m]
                 /\ patch'[m] = patch[m] /\ param'[m] = param[m]
      BY <1>t, <1>6 DEF SatReboot, TypeOK
    <2>3. RememberedApplied' /\ EverBooted'
      BY <1>c, <2>2 DEF PlanInv, RememberedApplied, EverBooted, Past
    <2>4. ValuesRemembered'
      <3>1. 0 \notin Selects \cup Sets
        BY PlanAssumption
      <3> QED BY <2>2, <3>1 DEF PlanInv, ValuesRemembered
    <2> QED BY <1>t, <1>1, <2>1, <2>3, <2>4 DEF PlanInv
  <1> QED BY <1>2, <1>3, <1>4, <1>5, <1>6 DEF SatStep

\* All of it together holds in every state.
THEOREM PlanInvariant == Spec => []PlanInv
<1>1. PlanInv /\ [Next]_vars => PlanInv'
  <2> SUFFICES ASSUME PlanInv, [Next]_vars PROVE PlanInv'
    OBVIOUS
  <2>1. CASE TaskStep \/ HandleEvent \/ CtlReboot
    BY <2>1, ControllerPlanInv
  <2>2. CASE \E s \in Sats : SatStep(s)
    BY <2>2, SatellitePlanInv
  <2>3. CASE UNCHANGED vars
    <3>1. OrderInv'
      <4>1. TypeOK'
        BY <2>3 DEF vars, planVars, tableVars, airVars, satVars, PlanInv, OrderInv, TypeOK
      <4> QED BY <2>3, <4>1 DEF vars, planVars, tableVars, airVars, satVars, PlanInv, OrderInv,
              BootsKnown, FramesInOrder, Sent, AppliedRemembered, AppliedInOrder
    <3> QED BY <2>3, <3>1 DEF vars, planVars, tableVars, airVars, satVars, PlanInv,
            RememberedApplied, Past, EverBooted, AcksBacked, AckedBacked, PassIsBacked, Backs,
            ValuesRemembered, AcksReport
  <2> QED BY <2>1, <2>2, <2>3 DEF Next
<1> QED BY <1>1, InitPlanInv, PTL DEF Spec

\* A case that is reported PASS was applied by every member: in this boot, or
\* under an earlier boot's numbering it or a later one.
THEOREM PassBacked == Spec => []PassIsBacked
<1>1. PlanInv => PassIsBacked
  BY DEF PlanInv
<1> QED BY <1>1, PlanInvariant, PTL

\* In the controller's first boot there is no earlier numbering, and a PASS means
\* what the log line says.  (After a restart it need not: see README.md.)
THEOREM PassTrueInFirstBoot == Spec => [](boot = 1 => PassMeansApplied)
<1>1. PlanInv => (boot = 1 => PassMeansApplied)
  <2> SUFFICES ASSUME PlanInv, boot = 1, NEW i \in DOMAIN results, results[i].pass
               PROVE  /\ results[i].members # {}
                      /\ \A s \in results[i].members : <<boot, results[i].case>> \in ever[s]
    BY DEF PassMeansApplied
  <2>1. results[i] \in Result
    BY DEF PlanInv, OrderInv, TypeOK
  <2>2. ASSUME NEW s \in results[i].members
        PROVE  <<boot, results[i].case>> \in ever[s]
    <3>1. s \in Sats
      BY <2>1 DEF Result
    <3>2. PICK a \in ever[s] : Backs(a, results[i].case)
      BY DEF PlanInv, PassIsBacked
    <3>3. a \in Nat \X (1 .. Cases) /\ 1 <= a[1]
      BY <3>1, <3>2 DEF PlanInv, OrderInv, TypeOK, EverBooted
    <3>4. a[1] = boot /\ a[2] = results[i].case
      BY <3>2, <3>3 DEF Backs
    <3> QED BY <3>2, <3>3, <3>4
  <2> QED BY <2>2 DEF PlanInv, PassIsBacked
<1> QED BY <1>1, PlanInvariant, PTL

\* In the first boot an ACK that counts for the active case carries the values
\* that case put in force, also when it answers a copy.
THEOREM AcksReportTheirCase == Spec => []AckReportsCase
<1>1. PlanInv => AckReportsCase
  BY DEF PlanInv, AcksReport, AckReportsCase
<1> QED BY <1>1, PlanInvariant, PTL
=============================================================================
