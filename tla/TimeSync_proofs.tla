--------------------------- MODULE TimeSync_proofs ---------------------------
(***************************************************************************)
(* Proofs about TimeSync, for every configuration of the estimator and of    *)
(* the exchange, any number of controller restarts, and messages copied,     *)
(* delayed and reordered without limit.                                     *)
(***************************************************************************)
EXTENDS TimeSync, TLAPS

\* The pending request of the running lock has not been used yet.
LatestInv == pending \subseteq unused /\ feeds \in Nat

\* LatestInv holds in every state.
LEMMA LatestInvHolds == Spec => []LatestInv
  <1>1. Init => LatestInv
    BY DEF Init, LatestInv
  <1>2. LatestInv /\ [Next]_vars => LatestInv'
    <2> SUFFICES ASSUME LatestInv, [Next]_vars PROVE LatestInv'
      OBVIOUS
    <2> USE DEF LatestInv
    <2>1. CASE Tick \/ Lock
      BY <2>1 DEF Tick, Lock, history, satellite
    <2>2. CASE DropLock \/ Request
      BY <2>2 DEF DropLock, Request
    <2>3. CASE RestartController
      BY <2>3 DEF RestartController, satellite
    <2>4. ASSUME NEW m \in msgs, Lose(m) \/ ArriveAtController(m)
                              \/ HandleTimeRequest(m) \/ ArriveAtSatellite(m)
          PROVE  LatestInv'
      BY <2>4 DEF Lose, ArriveAtController, HandleTimeRequest, ArriveAtSatellite, Moves,
                  history, satellite
    <2>5. ASSUME NEW m \in msgs, HandleTimeResponse(m) PROVE LatestInv'
      <3>1. pending' \subseteq unused'
        BY <2>5 DEF HandleTimeResponse, Feed
      <3>2. feeds' \in Nat
        BY <2>5 DEF HandleTimeResponse, Feed
      <3> QED BY <3>1, <3>2
    <2>6. CASE UNCHANGED vars
      BY <2>6 DEF vars, satellite, history
    <2> QED BY <2>1, <2>2, <2>3, <2>4, <2>5, <2>6 DEF Next
  <1> QED BY <1>1, <1>2, PTL DEF Spec

\* Only a response that is handled changes the estimate or counts as a sample.
LEMMA OnlyResponsesFeed ==
    ASSUME feeds \in Nat, [Next]_vars, est' # est \/ feeds' > feeds
    PROVE  \E m \in msgs : HandleTimeResponse(m)
  <1>0. ~(feeds > feeds)
    OBVIOUS
  <1>1. CASE Tick \/ Lock \/ DropLock \/ Request
    <2>1. est' = est /\ feeds' = feeds
      BY <1>1 DEF Tick, Lock, DropLock, Request, satellite, history
    <2> QED BY <2>1, <1>0
  <1>2. CASE RestartController
    BY <1>2 DEF RestartController, satellite
  <1>3. ASSUME NEW m \in msgs, Lose(m) \/ ArriveAtController(m)
                            \/ HandleTimeRequest(m) \/ ArriveAtSatellite(m)
        PROVE  FALSE
    <2>1. est' = est /\ feeds' = feeds
      BY <1>3 DEF Lose, ArriveAtController, HandleTimeRequest, ArriveAtSatellite,
                  satellite, history
    <2> QED BY <2>1, <1>0
  <1>4. CASE UNCHANGED vars
    <2>1. est' = est /\ feeds' = feeds
      BY <1>4 DEF vars, satellite, history
    <2> QED BY <2>1, <1>0
  <1> QED BY <1>1, <1>2, <1>3, <1>4 DEF Next

\* ... and only one that answers the pending request with a usable sample.
LEMMA FedResponse ==
    ASSUME NEW m \in msgs, HandleTimeResponse(m), est' # est \/ feeds' # feeds
    PROVE  /\ m.at = "satelliteQueue" /\ msgs' = msgs \ {m}
           /\ Answers(m) /\ <<m.seqno, m.t1>> \in pending /\ Usable(SampleOf(m))
  BY DEF HandleTimeResponse, Feed, Answers

\* Late, stale and duplicated responses change nothing: a sample answers the last
\* request of the present lock, which had not been used before.
THEOREM LatestAnswered == Spec => AnswersLatest
  <1>1. LatestInv /\ [Next]_vars =>
            [\A m \in msgs \ msgs' : est' # est \/ feeds' > feeds
                 => <<m.seqno, m.t1>> \in unused]_vars
    <2> SUFFICES ASSUME LatestInv, [Next]_vars, NEW n \in msgs \ msgs',
                        est' # est \/ feeds' > feeds
                 PROVE  <<n.seqno, n.t1>> \in unused
      OBVIOUS
    <2>1. PICK m \in msgs : HandleTimeResponse(m)
      BY OnlyResponsesFeed DEF LatestInv
    <2>2. est' # est \/ feeds' # feeds
      <3>1. CASE est' # est
        BY <3>1
      <3>2. CASE feeds' > feeds
        BY <3>2 DEF LatestInv
      <3> QED BY <3>1, <3>2
    <2>3. msgs' = msgs \ {m} /\ <<m.seqno, m.t1>> \in pending
      BY <2>1, <2>2, FedResponse
    <2> QED BY <2>3 DEF LatestInv
  <1> QED BY <1>1, LatestInvHolds, PTL DEF Spec, AnswersLatest
-----------------------------------------------------------------------------
\* What a message's stamps may say, read on the satellite's clock: they were taken
\* in the order of its journey, on one boot of the controller, before now.
InOrder(m) ==
    /\ m.t1 <= now
    /\ m.at = "controllerQueue" => m.t1 <= m.c1 - offset /\ m.c1 - offset <= now
    /\ m.at \in {"toSatellite", "satelliteQueue"} => m.t1 <= m.c1 - m.offset /\ m.c1 <= m.c2
    /\ m.at = "toSatellite" => m.c2 - m.offset <= now
    /\ m.at = "satelliteQueue" => m.c2 - m.offset <= m.t4 /\ m.t4 <= now

StampInv ==
    /\ now \in Nat /\ offset \in Int /\ seq \in Nat /\ msgs \subseteq Messages
    /\ \A m \in msgs : InOrder(m)

\* A step of one message keeps the stamps in order if the message does.
LEMMA MoveKeepsOrder ==
    ASSUME StampInv, UNCHANGED <<now, offset, seq>>, NEW n \in Messages, InOrder(n),
           msgs' \subseteq msgs \cup {n}
    PROVE  StampInv'
  BY DEF StampInv, InOrder

\* The moves of Moves.
LEMMA MovesAdds == ASSUME NEW m, NEW n, NEW copied, Moves(m, n, copied)
                   PROVE  msgs' \subseteq msgs \cup {n}
  BY DEF Moves

\* StampInv holds in every state.
LEMMA StampInvHolds == Spec => []StampInv
  <1>1. Init => StampInv
    BY SyncAssumption DEF Init, StampInv
  <1>2. StampInv /\ [Next]_vars => StampInv'
    <2> SUFFICES ASSUME StampInv, [Next]_vars PROVE StampInv'
      OBVIOUS
    <2>t. \A m \in msgs : m \in Messages /\ InOrder(m)
      BY DEF StampInv
    <2>f. \A m \in Messages : /\ m.at \in Places /\ m.seqno \in Nat /\ m.t1 \in Nat
                              /\ m.c1 \in Int /\ m.c2 \in Int /\ m.t4 \in Nat
                              /\ m.offset \in Int
      BY DEF Messages
    <2>1. CASE Tick
      <3>1. now' = now + 1 /\ offset' = offset /\ seq' = seq /\ msgs' = msgs
        BY <2>1 DEF Tick, controller, satellite
      <3>2. ASSUME NEW m \in msgs PROVE InOrder(m)'
        BY <3>1, <2>t, <2>f DEF StampInv, InOrder
      <3> QED BY <3>1, <3>2 DEF StampInv
    <2>2. CASE Lock \/ DropLock
      <3>1. UNCHANGED <<now, offset, seq, msgs>>
        BY <2>2 DEF Lock, DropLock, controller
      <3> QED BY <3>1 DEF StampInv, InOrder
    <2>3. CASE Request
      <3> DEFINE n == [at |-> "toController", seqno |-> seq', t1 |-> now,
                       c1 |-> 0, c2 |-> 0, t4 |-> 0, offset |-> 0]
      <3>1. seq' \in Nat /\ now' = now /\ offset' = offset
        BY <2>3 DEF Request, controller, StampInv
      <3>2. msgs' \subseteq msgs \cup {n}
        BY <2>3 DEF Request
      <3>3. n \in Messages /\ InOrder(n)
        BY <3>1 DEF Messages, Places, InOrder, StampInv
      <3>4. msgs' \subseteq Messages
        BY <3>2, <3>3 DEF StampInv
      <3>5. ASSUME NEW m \in msgs' PROVE InOrder(m)'
        BY <3>1, <3>2, <3>3, <3>5, <2>t DEF InOrder
      <3> QED BY <3>1, <3>4, <3>5 DEF StampInv
    <2>4. CASE RestartController
      <3>1. now' = now /\ seq' = seq /\ offset' = -now
        BY <2>4 DEF RestartController, satellite
      <3>2. msgs' \subseteq msgs /\ \A m \in msgs' : m.at # "controllerQueue"
        BY <2>4 DEF RestartController
      <3>3. ASSUME NEW m \in msgs' PROVE InOrder(m)'
        BY <3>1, <3>2, <3>3, <2>t DEF InOrder
      <3> QED BY <3>1, <3>2, <3>3 DEF StampInv
    <2>5. ASSUME NEW m \in msgs, Lose(m) \/ HandleTimeResponse(m) PROVE StampInv'
      <3>1. msgs' \subseteq msgs /\ UNCHANGED <<now, offset, seq>>
        BY <2>5 DEF Lose, HandleTimeResponse, controller, satellite
      <3> QED BY <3>1 DEF StampInv, InOrder
    <2>6. ASSUME NEW m \in msgs, ArriveAtController(m) PROVE StampInv'
      <3> DEFINE n == [m EXCEPT !.at = "controllerQueue", !.c1 = now + offset]
      <3>1. msgs' \subseteq msgs \cup {n}
        BY <2>6, MovesAdds DEF ArriveAtController
      <3>2. UNCHANGED <<now, offset, seq>>
        BY <2>6 DEF ArriveAtController, controller, satellite
      <3>3. n \in Messages
        <4>1. now + offset \in Int /\ offset \in Int
          BY DEF StampInv
        <4> QED BY <4>1, <2>t DEF Messages, Places
      <3>4. InOrder(n)
        BY <2>t, <2>f DEF InOrder, StampInv, Messages
      <3> QED BY <3>1, <3>2, <3>3, <3>4, MoveKeepsOrder
    <2>7. ASSUME NEW m \in msgs, HandleTimeRequest(m) PROVE StampInv'
      <3> DEFINE n == [m EXCEPT !.at = "toSatellite", !.c2 = now + offset, !.offset = offset]
      <3>1. msgs' \subseteq msgs \cup {n} /\ m.at = "controllerQueue"
        BY <2>7, MovesAdds DEF HandleTimeRequest
      <3>2. UNCHANGED <<now, offset, seq>>
        BY <2>7 DEF HandleTimeRequest, controller, satellite
      <3>3. n \in Messages
        <4>1. now + offset \in Int /\ offset \in Int
          BY DEF StampInv
        <4> QED BY <4>1, <2>t DEF Messages, Places
      <3>4. InOrder(n)
        <4>1. /\ n.at = "toSatellite" /\ n.t1 = m.t1 /\ n.c1 = m.c1 /\ n.c2 = now + offset
              /\ n.offset = offset
          BY <2>t DEF Messages
        <4>2. m.t1 <= now /\ m.t1 <= m.c1 - offset /\ m.c1 - offset <= now
          BY <3>1, <2>t DEF InOrder
        <4>3. m.t1 \in Nat /\ m.c1 \in Int /\ now \in Nat /\ offset \in Int
          BY <2>t, <2>f DEF StampInv
        <4> HIDE DEF n
        <4> QED BY <4>1, <4>2, <4>3 DEF InOrder
      <3> QED BY <3>1, <3>2, <3>3, <3>4, MoveKeepsOrder
    <2>8. ASSUME NEW m \in msgs, ArriveAtSatellite(m) PROVE StampInv'
      <3> DEFINE n == [m EXCEPT !.at = "satelliteQueue", !.t4 = now]
      <3>1. msgs' \subseteq msgs \cup {n} /\ m.at = "toSatellite"
        BY <2>8, MovesAdds DEF ArriveAtSatellite
      <3>2. UNCHANGED <<now, offset, seq>>
        BY <2>8 DEF ArriveAtSatellite, controller, satellite
      <3>3. n \in Messages
        BY <2>t DEF StampInv, Messages, Places
      <3>4. InOrder(n)
        <4>1. /\ n.at = "satelliteQueue" /\ n.t1 = m.t1 /\ n.c1 = m.c1 /\ n.c2 = m.c2
              /\ n.offset = m.offset /\ n.t4 = now
          BY <2>t DEF Messages
        <4>2. /\ m.t1 <= now /\ m.t1 <= m.c1 - m.offset /\ m.c1 <= m.c2
              /\ m.c2 - m.offset <= now
          BY <3>1, <2>t DEF InOrder
        <4>3. now \in Nat
          BY DEF StampInv
        <4> HIDE DEF n
        <4> QED BY <4>1, <4>2, <4>3 DEF InOrder
      <3> QED BY <3>1, <3>2, <3>3, <3>4, MoveKeepsOrder
    <2>9. CASE UNCHANGED vars
      BY <2>9 DEF vars, controller, satellite, StampInv, InOrder
    <2> QED BY <2>1, <2>2, <2>3, <2>4, <2>5, <2>6, <2>7, <2>8, <2>9 DEF Next
  <1> QED BY <1>1, <1>2, PTL DEF Spec
-----------------------------------------------------------------------------
\* Halving as C does it: the half of twice k and a rest is k and half the rest.
LEMMA HalfOfSum ==
    ASSUME NEW k \in Int, NEW d \in Int, NEW D \in Nat, d <= D, -d <= D
    PROVE  /\ Quot(2 * k + d, 2) - k <= (D + 1) \div 2
           /\ k - Quot(2 * k + d, 2) <= (D + 1) \div 2
  BY DEF Quot

\* The two halves of an interval x, and of one longer by a + b, differ from a by
\* half of a + b at most.
LEMMA HalfOfInterval ==
    ASSUME NEW x \in Nat, NEW a \in Nat, NEW b \in Nat, NEW D \in Nat, a + b <= D
    PROVE  /\ a + x \div 2 - (x + a + b) \div 2 <= (D + 1) \div 2
           /\ (x + a + b) \div 2 - a - x \div 2 <= (D + 1) \div 2
  OBVIOUS

\* A sample with the stamps in order is as good as its delay is short.
LEMMA SampleIsClose ==
    ASSUME NEW m \in Messages, InOrder(m), m.at = "satelliteQueue", Usable(SampleOf(m))
    PROVE  /\ Abs(SampleOf(m).mesh - SampleOf(m).local - m.offset) <= HalfDelay
           /\ Abs(SampleOf(m).offset - m.offset) <= HalfDelay
  <1> DEFINE a == (m.c1 - m.offset) - m.t1
             b == m.t4 - (m.c2 - m.offset)
             x == m.c2 - m.c1
             s == SampleOf(m)
  <1>1. /\ m.t1 \in Nat /\ m.c1 \in Int /\ m.c2 \in Int /\ m.t4 \in Nat /\ m.offset \in Int
        /\ MaxDelay \in Nat
    BY SyncAssumption DEF Messages
  <1>2. m.t1 <= m.c1 - m.offset /\ m.c1 <= m.c2 /\ m.c2 - m.offset <= m.t4
    BY DEF InOrder
  <1>3. a \in Nat /\ b \in Nat /\ x \in Nat
    BY <1>1, <1>2
  <1>4. /\ s.local = m.t1 + (m.t4 - m.t1) \div 2
        /\ s.mesh = m.c1 + (m.c2 - m.c1) \div 2
        /\ s.offset = Quot((m.c1 - m.t1) + (m.c2 - m.t4), 2)
        /\ s.delay = (m.t4 - m.t1) - (m.c2 - m.c1)
    BY DEF SampleOf
  <1>5. a + b <= MaxDelay
    <2>1. s.delay <= MaxDelay
      BY DEF Usable
    <2> HIDE DEF s
    <2> QED BY <2>1, <1>1, <1>4
  <1>6. /\ s.mesh - s.local - m.offset = a + x \div 2 - (x + a + b) \div 2
        /\ s.offset = Quot(2 * m.offset + (a - b), 2)
    <2>1. m.t4 - m.t1 = x + a + b /\ (m.c1 - m.t1) + (m.c2 - m.t4) = 2 * m.offset + (a - b)
      BY <1>1
    <2>2. (m.t4 - m.t1) \div 2 = (x + a + b) \div 2 /\ (x + a + b) \div 2 \in Int
          /\ x \div 2 \in Int
      BY <2>1, <1>3
    <2>3. s.mesh - s.local = m.c1 + x \div 2 - m.t1 - (x + a + b) \div 2
      BY <1>1, <1>4, <2>2
    <2>4. m.c1 - m.t1 - m.offset = a
      BY <1>1
    <2>5. s.mesh - s.local - m.offset = a + x \div 2 - (x + a + b) \div 2
      BY <1>1, <2>2, <2>3, <2>4, <1>3
    <2> QED BY <1>4, <2>1, <2>5
  <1> HIDE DEF s
  <1>7. Abs(s.mesh - s.local - m.offset) <= HalfDelay
    <2> HIDE DEF a, b, x
    <2>1. /\ a + x \div 2 - (x + a + b) \div 2 <= HalfDelay
          /\ (x + a + b) \div 2 - a - x \div 2 <= HalfDelay
      BY <1>1, <1>3, <1>5, HalfOfInterval DEF HalfDelay
    <2>2. (x + a + b) \div 2 \in Int /\ x \div 2 \in Int /\ HalfDelay \in Int
      BY <1>1, <1>3 DEF HalfDelay
    <2> QED BY <2>1, <2>2, <1>3, <1>6 DEF Abs
  <1>8. Abs(s.offset - m.offset) <= HalfDelay
    <2> DEFINE d == a - b
    <2>1. d \in Int /\ d <= MaxDelay /\ -d <= MaxDelay
      BY <1>1, <1>3, <1>5
    <2>2. s.offset = Quot(2 * m.offset + d, 2)
      BY <1>6
    <2> HIDE DEF d
    <2>3. s.offset - m.offset <= HalfDelay /\ m.offset - s.offset <= HalfDelay
      BY <1>1, <2>1, <2>2, HalfOfSum DEF HalfDelay
    <2>4. s.offset \in Int /\ HalfDelay \in Int
      BY <1>1, <2>1, <2>2 DEF Quot, HalfDelay
    <2> QED BY <1>1, <2>3, <2>4 DEF Abs
  <1> QED BY <1>7, <1>8 DEF s

\* However long the messages were under way or queued, on whichever boot they were
\* answered and however often they were copied, a sample that is used is within half
\* the largest delay of the controller's clock.
THEOREM SamplesTrue == Spec => SampleTruth
  <1>1. LatestInv /\ StampInv /\ [Next]_vars =>
            [\A m \in msgs \ msgs' : est' # est =>
                 LET s == SampleOf(m)
                 IN  Abs(s.mesh - s.local - m.offset) <= HalfDelay /\ Abs(s.offset - m.offset) <= HalfDelay]_vars
    <2> SUFFICES ASSUME LatestInv, StampInv, [Next]_vars, NEW n \in msgs \ msgs', est' # est
                 PROVE  /\ Abs(SampleOf(n).mesh - SampleOf(n).local - n.offset) <= HalfDelay
                        /\ Abs(SampleOf(n).offset - n.offset) <= HalfDelay
      OBVIOUS
    <2>1. PICK m \in msgs : HandleTimeResponse(m)
      BY OnlyResponsesFeed DEF LatestInv
    <2>2. m.at = "satelliteQueue" /\ msgs' = msgs \ {m} /\ Usable(SampleOf(m))
      BY <2>1, FedResponse
    <2>3. n = m /\ m \in Messages /\ InOrder(m)
      BY <2>2 DEF StampInv
    <2> QED BY <2>2, <2>3, SampleIsClose
  <1> QED BY <1>1, LatestInvHolds, StampInvHolds, PTL DEF Spec, SampleTruth
-----------------------------------------------------------------------------
(***************************************************************************)
(* What a sample does to the estimate.  First the arithmetic: C's division, *)
(* for any dividend and any positive divisor.                               *)
(***************************************************************************)
\* Division by b leaves a rest below b.
LEMMA DivFacts ==
    ASSUME NEW a \in Nat, NEW b \in Nat \ {0}
    PROVE  /\ a \div b \in Nat
           /\ b * (a \div b) <= a /\ a < b * (a \div b) + b
OBVIOUS

\* C's division leaves a rest with the sign of the dividend.
LEMMA QuotFacts ==
    ASSUME NEW a \in Int, NEW b \in Nat \ {0}
    PROVE  /\ Quot(a, b) \in Int
           /\ a >= 0 => 0 <= Quot(a, b) /\ b * Quot(a, b) <= a /\ a < b * Quot(a, b) + b
           /\ a <= 0 => Quot(a, b) <= 0 /\ a <= b * Quot(a, b) /\ b * Quot(a, b) - b < a
<1>1. CASE a >= 0
  <2>1. /\ a \div b \in Nat /\ b * (a \div b) <= a /\ a < b * (a \div b) + b
    BY <1>1, DivFacts
  <2>2. Quot(a, b) = a \div b
    BY <1>1 DEF Quot
  <2>3. a = 0 => a \div b = 0
    <3>1. 0 \div b = 0
      BY DivFacts
    <3> QED BY <3>1
  <2> QED BY <1>1, <2>1, <2>2, <2>3
<1>2. CASE a < 0
  <2>1. -a \in Nat
    BY <1>2
  <2>2. /\ (-a) \div b \in Nat /\ b * ((-a) \div b) <= -a /\ -a < b * ((-a) \div b) + b
    BY <2>1, DivFacts
  <2>3. Quot(a, b) = -((-a) \div b)
    BY <1>2 DEF Quot
  <2>4. b * (-((-a) \div b)) = -(b * ((-a) \div b))
    BY <2>2
  <2> QED BY <1>2, <2>2, <2>3, <2>4
<1> QED BY <1>1, <1>2

\* A positive factor can be cancelled.
LEMMA Cancel ==
    ASSUME NEW b \in Nat \ {0}, NEW x \in Int, NEW y \in Int, b * x < b * y
    PROVE  x < y
OBVIOUS

\* A part of r lies between 0 and r.
LEMMA QuotShrinks ==
    ASSUME NEW r \in Int, NEW b \in Nat \ {0}
    PROVE  /\ r >= 0 => 0 <= Quot(r, b) /\ Quot(r, b) <= r
           /\ r <= 0 => r <= Quot(r, b) /\ Quot(r, b) <= 0
<1> DEFINE q == Quot(r, b)
<1>1. q \in Int
  BY QuotFacts
<1>2. CASE r >= 0
  <2>1. 0 <= q /\ b * q <= r
    BY <1>2, QuotFacts
  <2>2. q <= b * q
    <3> HIDE DEF q
    <3> QED BY <1>1, <2>1
  <2> QED BY <1>1, <1>2, <2>1, <2>2
<1>3. CASE r <= 0
  <2>1. q <= 0 /\ r <= b * q
    BY <1>3, QuotFacts
  <2>2. b * q <= q
    <3> HIDE DEF q
    <3> QED BY <1>1, <2>1
  <2> QED BY <1>1, <1>3, <2>1, <2>2
<1> QED BY <1>2, <1>3

\* A part of what lies within N lies within the part of N.
LEMMA QuotBounded ==
    ASSUME NEW r \in Int, NEW N \in Nat, NEW b \in Nat \ {0}, r <= N, -r <= N
    PROVE  Quot(r, b) <= N \div b /\ -Quot(r, b) <= N \div b
<1> DEFINE q == Quot(r, b)
           k == N \div b
<1>1. q \in Int /\ k \in Int /\ N < b * k + b
  BY QuotFacts, DivFacts
<1>2. b * q <= N
  <2>1. CASE r >= 0
    BY <2>1, <1>1, QuotFacts
  <2>2. CASE r <= 0
    <3>1. q <= 0
      BY <2>2, QuotFacts
    <3> HIDE DEF q, k
    <3> QED BY <1>1, <3>1
  <2> QED BY <2>1, <2>2
<1>3. b * (-q) <= N
  <2>1. CASE r >= 0
    <3>1. 0 <= q
      BY <2>1, QuotFacts
    <3> HIDE DEF q, k
    <3> QED BY <1>1, <3>1
  <2>2. CASE r <= 0
    <3>1. r <= b * q
      BY <2>2, QuotFacts
    <3>2. b * (-q) = -(b * q)
      BY <1>1
    <3> HIDE DEF q, k
    <3> QED BY <1>1, <3>1, <3>2
  <2> QED BY <2>1, <2>2
<1> HIDE DEF q, k
<1>4. b * q < b * (k + 1) /\ b * (-q) < b * (k + 1)
  BY <1>1, <1>2, <1>3
<1>5. q < k + 1 /\ -q < k + 1
  BY <1>1, <1>4, Cancel
<1> QED BY <1>1, <1>5 DEF q, k

\* A weighted mean of x and y lies between them.
LEMMA QuotBetween ==
    ASSUME NEW x \in Int, NEW y \in Int, NEW b \in Nat \ {0}
    PROVE  LET q == Quot(x * (b - 1) + y, b)
           IN  q \in Int /\ \/ x <= q /\ q <= y
                            \/ y <= q /\ q <= x
<1> DEFINE s == x * (b - 1) + y
           q == Quot(s, b)
<1>1. s \in Int
  OBVIOUS
<1>2. q \in Int /\ (s >= 0 => b * q <= s /\ s < b * q + b)
                /\ (s <= 0 => s <= b * q /\ b * q - b < s)
  BY <1>1, QuotFacts
<1>3. x <= y => b * x <= s /\ s <= b * y
  OBVIOUS
<1>4. y <= x => b * y <= s /\ s <= b * x
  OBVIOUS
<1> HIDE DEF s, q
<1>5. ASSUME NEW lo \in Int, NEW hi \in Int, b * lo <= s, s <= b * hi
      PROVE  lo <= q /\ q <= hi
  <2>1. CASE s >= 0
    <3>1. b * q < b * (hi + 1) /\ b * lo < b * (q + 1)
      BY <1>1, <1>2, <1>5, <2>1
    <3>2. q < hi + 1 /\ lo < q + 1
      BY <1>2, <1>5, <3>1, Cancel
    <3> QED BY <1>2, <1>5, <3>2
  <2>2. CASE s <= 0
    <3>1. b * q < b * (hi + 1) /\ b * lo < b * (q + 1)
      BY <1>1, <1>2, <1>5, <2>2
    <3>2. q < hi + 1 /\ lo < q + 1
      BY <1>2, <1>5, <3>1, Cancel
    <3> QED BY <1>2, <1>5, <3>2
  <2> QED BY <1>1, <2>1, <2>2
<1>6. x <= y => x <= q /\ q <= y
  BY <1>3, <1>5
<1>7. y <= x => y <= q /\ q <= x
  BY <1>4, <1>5
<1> QED BY <1>2, <1>6, <1>7 DEF q, s

\* The slope f over u and then g over v, against f over all of it.
LEMMA SlopeChange ==
    ASSUME NEW u \in Nat, NEW v \in Nat, NEW f \in Int, NEW g \in Int, NEW F \in Nat,
           f <= F, -f <= F, g <= F, -g <= F, NEW b \in Nat \ {0}
    PROVE  LET d == Quot(u * f, b) + Quot(v * g, b) - Quot((u + v) * f, b)
           IN  /\ d \in Int
               /\ d <= (2 * F * v) \div b + 2 /\ -d <= (2 * F * v) \div b + 2
<1> DEFINE p == u * f
           w == v * g
           t == (u + v) * f
           N == 2 * F * v
           qp == Quot(p, b)
           qw == Quot(w, b)
           qt == Quot(t, b)
           k == N \div b
           d == qp + qw - qt
<1>1. p \in Int /\ w \in Int /\ t \in Int /\ N \in Nat
  OBVIOUS
<1>2. qp \in Int /\ qw \in Int /\ qt \in Int /\ k \in Nat /\ N < b * k + b
  BY <1>1, QuotFacts, DivFacts
<1>3. p + w - t <= N /\ t - p - w <= N
  <2>1. p + w - t = v * (g - f)
    OBVIOUS
  <2>2. v * (g - f) <= v * (2 * F) /\ v * (f - g) <= v * (2 * F)
    OBVIOUS
  <2>3. v * (2 * F) = N /\ v * (f - g) = -(v * (g - f))
    OBVIOUS
  <2>4. v * (g - f) \in Int
    OBVIOUS
  <2> HIDE DEF p, w, t, N
  <2> QED BY <1>1, <2>1, <2>2, <2>3, <2>4
<1>4. \/ p >= 0 /\ t >= 0
      \/ p <= 0 /\ t <= 0
  <2>1. CASE f >= 0
    BY <2>1
  <2>2. CASE f <= 0
    BY <2>2
  <2> QED BY <2>1, <2>2
<1>5. /\ p >= 0 => b * qp <= p /\ p < b * qp + b
      /\ p <= 0 => p <= b * qp /\ b * qp - b < p
      /\ t >= 0 => b * qt <= t /\ t < b * qt + b
      /\ t <= 0 => t <= b * qt /\ b * qt - b < t
      /\ w >= 0 => b * qw <= w /\ w < b * qw + b
      /\ w <= 0 => w <= b * qw /\ b * qw - b < w
  BY <1>1, QuotFacts
<1> HIDE DEF p, w, t, N, qp, qw, qt, k
<1>6. d \in Int /\ b * d = b * qp + b * qw - b * qt
  BY <1>2
<1>7. b * (-d) = -(b * qp + b * qw - b * qt)
  BY <1>2
<1>8. b * (k + 3) = b * k + 3 * b
  BY <1>2
<1>9. b * qp \in Int /\ b * qw \in Int /\ b * qt \in Int /\ b * k \in Int
  BY <1>2
<1>10. b * d < b * (k + 3) /\ b * (-d) < b * (k + 3)
  <2> DEFINE P == b * qp
             W == b * qw
             T == b * qt
             K == b * k
  <2>1. /\ p >= 0 => P <= p /\ p < P + b
        /\ p <= 0 => p <= P /\ P - b < p
        /\ t >= 0 => T <= t /\ t < T + b
        /\ t <= 0 => t <= T /\ T - b < t
        /\ w >= 0 => W <= w /\ w < W + b
        /\ w <= 0 => w <= W /\ W - b < w
    BY <1>5
  <2>2. P \in Int /\ W \in Int /\ T \in Int /\ K \in Int /\ N < K + b
    BY <1>2, <1>9
  <2> HIDE DEF P, W, T, K
  <2>3. P + W - T < K + 3 * b /\ -(P + W - T) < K + 3 * b
    BY <1>1, <1>3, <1>4, <2>1, <2>2
  <2> QED BY <1>6, <1>7, <1>8, <2>3 DEF P, W, T, K
<1> HIDE DEF d
<1>11. d < k + 3 /\ -d < k + 3
  <2>1. k + 3 \in Int /\ -d \in Int
    BY <1>2, <1>6
  <2> QED BY <1>6, <1>10, <2>1, Cancel
<1>12. d \in Int /\ d <= k + 2 /\ -d <= k + 2
  BY <1>2, <1>6, <1>11
<1> QED BY <1>12 DEF d, k, qp, qw, qt, p, w, t, N
-----------------------------------------------------------------------------
\* The constants of the estimator.
LEMMA PllConstants ==
    /\ MaxFreq \in Nat /\ Outlier \in Nat /\ LockSamples \in Nat /\ ResetAfterRejects \in Nat
    /\ PhaseDivisor \in Nat \ {0} /\ FreqDivisor \in Nat \ {0} /\ FilterDivisor \in Nat \ {0}
    /\ Billion \in Nat \ {0} /\ LockSamples > 0
BY PllAssumption

\* The fields of an estimate.
LEMMA EstimateFields ==
    ASSUME NEW e \in Estimates
    PROVE  /\ e.have \in BOOLEAN /\ e.local \in Int /\ e.mesh \in Int /\ e.freq \in Int
           /\ e.freq <= MaxFreq /\ -e.freq <= MaxFreq
           /\ e.best \in Int /\ e.accepted \in 0 .. LockSamples
           /\ e.rejects \in 0 .. ResetAfterRejects /\ e.offset \in Int
BY PllConstants DEF Estimates, Freqs

\* The prediction is an instant, at the anchor the anchor's.
LEMMA PredictFacts ==
    ASSUME NEW e \in Estimates, NEW t \in Int
    PROVE  /\ Predict(e, t) \in Int
           /\ Predict(e, t) = e.mesh + (t - e.local) + Quot((t - e.local) * e.freq, Billion)
           /\ Predict(e, e.local) = e.mesh
<1>1. /\ e.local \in Int /\ e.mesh \in Int /\ e.freq \in Int /\ t - e.local \in Int
      /\ (t - e.local) * e.freq \in Int
  BY EstimateFields
<1>2. Quot((t - e.local) * e.freq, Billion) \in Int
  BY <1>1, QuotFacts, PllConstants
<1>3. Predict(e, t) = e.mesh + (t - e.local) + Quot((t - e.local) * e.freq, Billion)
  BY DEF Predict
<1>4. Predict(e, e.local) = e.mesh
  <2>1. e.local - e.local = 0 /\ 0 * e.freq = 0
    BY <1>1
  <2>2. Predict(e, e.local) = e.mesh + 0 + Quot(0, Billion)
    BY <2>1 DEF Predict
  <2>3. Quot(0, Billion) = 0
    <3>1. Quot(0, Billion) \in Int /\ 0 <= Quot(0, Billion) /\ Quot(0, Billion) <= 0
      BY QuotFacts, QuotShrinks, PllConstants
    <3> QED BY <3>1
  <2> QED BY <1>1, <2>2, <2>3
<1> QED BY <1>1, <1>2, <1>3, <1>4

\* The three things an update of the PLL may do: acquire, reject, follow.
LEMMA PllUpdateFacts ==
    ASSUME NEW e \in Estimates, NEW s \in Samples, NEW r \in PllUpdates(e, s)
    PROVE  /\ r \in Estimates
           /\ \/ /\ Reacquires(e) /\ r.local = s.local /\ r.mesh = s.mesh
              \/ /\ ~ Reacquires(e) /\ Outlying(e, s)
                 /\ r.local = e.local /\ r.mesh = e.mesh /\ r.freq = e.freq
              \/ /\ ~ Reacquires(e) /\ ~ Outlying(e, s) /\ r.local = s.local
                 /\ r.mesh = Predict(e, s.local) + Quot(Residual(e, s), PhaseDivisor)
<1> USE PllConstants
<1>1. /\ s.local \in Int /\ s.mesh \in Int /\ s.offset \in Int /\ s.delay \in Int
  BY DEF Samples
<1>2. Best(e, s) \in Int
  BY <1>1, EstimateFields DEF Best
<1>3. CASE Reacquires(e)
  <2>1. r = Acquired(e, s)
    BY <1>3 DEF PllUpdates
  <2>2. 0 \in Freqs /\ 1 \in 0 .. LockSamples /\ 0 \in 0 .. ResetAfterRejects
    BY DEF Freqs
  <2>3. r \in Estimates /\ r.local = s.local /\ r.mesh = s.mesh
    BY <1>1, <2>1, <2>2 DEF Acquired, Estimates
  <2> QED BY <1>3, <2>3
<1>4. CASE ~ Reacquires(e) /\ Outlying(e, s)
  <2>1. r = [e EXCEPT !.best = Best(e, s), !.rejects = @ + 1]
    BY <1>4 DEF PllUpdates
  <2>2. e.rejects + 1 \in 0 .. ResetAfterRejects
    BY <1>4, EstimateFields DEF Reacquires
  <2> QED BY <1>2, <1>4, <2>1, <2>2 DEF Estimates
<1>5. CASE ~ Reacquires(e) /\ ~ Outlying(e, s)
  <2> DEFINE m == Predict(e, s.local) + Quot(Residual(e, s), PhaseDivisor)
             a == IF Startup(e) THEN e.accepted + 1 ELSE e.accepted
  <2>1. PICK f \in NextFreqs(e, s) :
            r = [e EXCEPT !.local = s.local, !.mesh = m, !.freq = f, !.best = Best(e, s),
                          !.accepted = a, !.rejects = 0]
    BY <1>5 DEF PllUpdates
  <2>2. Predict(e, s.local) \in Int /\ Residual(e, s) \in Int
    BY <1>1, PredictFacts DEF Residual
  <2>3. m \in Int
    BY <2>2, QuotFacts
  <2>4. f \in Freqs
    <3>1. CASE s.local <= e.local
      BY <3>1 DEF NextFreqs, Estimates
    <3>2. CASE ~ (s.local <= e.local) /\ Abs(Residual(e, s)) > ProductLimit
      BY <3>2 DEF NextFreqs
    <3>3. CASE ~ (s.local <= e.local) /\ ~ (Abs(Residual(e, s)) > ProductLimit)
      <4> DEFINE q == Quot(Quot(Residual(e, s) * Billion, s.local - e.local), FreqDivisor)
      <4>1. f = Clamp(e.freq + q)
        BY <3>3 DEF NextFreqs
      <4>2. Residual(e, s) * Billion \in Int /\ s.local - e.local \in Nat \ {0}
        BY <1>1, <2>2, <3>3, EstimateFields
      <4>3. q \in Int
        BY <4>2, QuotFacts
      <4> HIDE DEF q
      <4>4. e.freq + q \in Int
        BY <4>3, EstimateFields
      <4> QED BY <4>1, <4>4 DEF Clamp, Freqs
    <3> QED BY <3>1, <3>2, <3>3
  <2>5. a \in 0 .. LockSamples
    BY EstimateFields DEF Startup
  <2> HIDE DEF m, a
  <2>6. r \in Estimates /\ r.local = s.local /\ r.mesh = m
    <3>1. 0 \in 0 .. ResetAfterRejects
      OBVIOUS
    <3> QED BY <1>1, <1>2, <2>1, <2>3, <2>4, <2>5, <3>1 DEF Estimates
  <2> QED BY <1>5, <2>6 DEF m
<1> QED BY <1>3, <1>4, <1>5

\* The filter keeps everything but the offset, which moves towards the sample's.
LEMMA FilteredFacts ==
    ASSUME NEW e \in Estimates, NEW s \in Samples
    PROVE  /\ Filtered(e, s) \in Estimates /\ Filtered(e, s).local = e.local
           /\ e.have => LET o == Filtered(e, s).offset
                        IN  \/ e.offset <= o /\ o <= s.offset
                            \/ s.offset <= o /\ o <= e.offset
<1> DEFINE q == Quot(e.offset * (FilterDivisor - 1) + s.offset, FilterDivisor)
           o == IF ~ e.have THEN s.offset ELSE q
<1>1. s.offset \in Int /\ e.offset \in Int
  BY EstimateFields DEF Samples
<1>2. q \in Int /\ \/ e.offset <= q /\ q <= s.offset
                   \/ s.offset <= q /\ q <= e.offset
  BY <1>1, PllConstants, QuotBetween
<1>3. Filtered(e, s) = [e EXCEPT !.have = TRUE, !.offset = o]
  BY DEF Filtered
<1> HIDE DEF q
<1>4. o \in Int
  BY <1>1, <1>2
<1> HIDE DEF o
<1>5. Filtered(e, s) \in Estimates /\ Filtered(e, s).local = e.local /\ Filtered(e, s).offset = o
  BY <1>3, <1>4 DEF Estimates
<1> QED BY <1>2, <1>5 DEF o
-----------------------------------------------------------------------------
\* The estimate is well formed, its anchor lies in the past, and a request that is
\* pending was sent after it: the sample it will give is newer than the anchor.
EstInv ==
    /\ est \in Estimates /\ build \in {"pll", "filter"} /\ est.local <= now
    /\ pending \subseteq Nat \X Nat
    /\ \A p \in pending : est.local <= p[2]

\* A sample's instant lies between the request and the response's arrival.
LEMMA SampleFacts ==
    ASSUME NEW m \in Messages, InOrder(m), m.at = "satelliteQueue", now \in Nat
    PROVE  /\ SampleOf(m) \in Samples
           /\ m.t1 <= SampleOf(m).local /\ SampleOf(m).local <= now
<1>1. /\ m.t1 \in Nat /\ m.c1 \in Int /\ m.c2 \in Int /\ m.t4 \in Nat /\ m.offset \in Int
  BY DEF Messages
<1>2. m.t1 <= m.t4 /\ m.t4 <= now /\ m.c2 - m.c1 \in Nat
  BY <1>1 DEF InOrder
<1>3. /\ (m.t4 - m.t1) \div 2 \in Nat /\ m.t1 + (m.t4 - m.t1) \div 2 <= m.t4
      /\ (m.c2 - m.c1) \div 2 \in Int
  BY <1>1, <1>2
<1>4. Quot((m.c1 - m.t1) + (m.c2 - m.t4), 2) \in Int
  <2>1. (m.c1 - m.t1) + (m.c2 - m.t4) \in Int /\ 2 \in Nat \ {0}
    BY <1>1
  <2> QED BY <2>1, QuotFacts
<1>5. /\ SampleOf(m).local = m.t1 + (m.t4 - m.t1) \div 2
  BY DEF SampleOf
<1>6. SampleOf(m) \in Samples
  BY <1>1, <1>3, <1>4 DEF SampleOf, Samples
<1> QED BY <1>1, <1>2, <1>3, <1>5, <1>6

\* What a response that is used does, and to which sample it belongs.
LEMMA UsedFacts ==
    ASSUME StampInv, EstInv, NEW m \in msgs, HandleTimeResponse(m),
           Answers(m), Usable(SampleOf(m))
    PROVE  /\ m \in Messages /\ InOrder(m) /\ m.at = "satelliteQueue" /\ msgs' = msgs \ {m}
           /\ SampleOf(m) \in Samples /\ Usable(SampleOf(m))
           /\ est.local <= SampleOf(m).local /\ SampleOf(m).local <= now
           /\ build = "pll" => est' \in PllUpdates(est, SampleOf(m))
           /\ build # "pll" => est' = Filtered(est, SampleOf(m))
           /\ feeds' # feeds => m.offset = offset
           /\ pending' = {}
<1>1. /\ m \in Messages /\ InOrder(m) /\ m.at = "satelliteQueue" /\ msgs' = msgs \ {m}
      /\ <<m.seqno, m.t1>> \in pending /\ Usable(SampleOf(m)) /\ now \in Nat
  BY DEF StampInv, HandleTimeResponse, Answers
<1>2. SampleOf(m) \in Samples /\ m.t1 <= SampleOf(m).local /\ SampleOf(m).local <= now
  BY <1>1, SampleFacts
<1>3. est.local <= SampleOf(m).local
  <2>1. est.local <= m.t1 /\ est.local \in Int /\ m.t1 \in Int /\ SampleOf(m).local \in Int
    BY <1>1, <1>2, EstimateFields DEF EstInv, Messages, Samples
  <2> QED BY <1>2, <2>1
<1>4. /\ build = "pll" => est' \in PllUpdates(est, SampleOf(m))
      /\ build # "pll" => est' = Filtered(est, SampleOf(m))
      /\ feeds' # feeds => m.offset = offset
      /\ pending' = {}
  BY DEF HandleTimeResponse, Feed
<1> QED BY <1>1, <1>2, <1>3, <1>4

\* A response that changes the estimate, or counts, is used.
LEMMA FeedFacts ==
    ASSUME StampInv, EstInv, NEW m \in msgs, HandleTimeResponse(m),
           est' # est \/ feeds' # feeds
    PROVE  /\ m \in Messages /\ InOrder(m) /\ m.at = "satelliteQueue" /\ msgs' = msgs \ {m}
           /\ SampleOf(m) \in Samples /\ Usable(SampleOf(m))
           /\ est.local <= SampleOf(m).local /\ SampleOf(m).local <= now
           /\ build = "pll" => est' \in PllUpdates(est, SampleOf(m))
           /\ build # "pll" => est' = Filtered(est, SampleOf(m))
           /\ feeds' # feeds => m.offset = offset
           /\ pending' = {}
BY FedResponse, UsedFacts

\* EstInv holds in every state.
LEMMA EstInvHolds == Spec => []EstInv
<1>1. Init => EstInv
  BY PllConstants DEF Init, EstInv, NoEstimate, Estimates, Freqs
<1>2. StampInv /\ EstInv /\ [Next]_vars => EstInv'
  <2> SUFFICES ASSUME StampInv, EstInv, [Next]_vars PROVE EstInv'
    OBVIOUS
  <2>t. /\ est \in Estimates /\ est.local \in Int /\ est.local <= now /\ now \in Nat /\ seq \in Nat
    BY EstimateFields DEF EstInv, StampInv
  <2>1. CASE Tick
    BY <2>1, <2>t DEF Tick, satellite, EstInv
  <2>2. CASE Lock \/ DropLock
    BY <2>2 DEF Lock, DropLock, EstInv
  <2>3. CASE Request
    <3>1. UNCHANGED <<est, build, now>> /\ seq' \in Nat
      BY <2>3, <2>t DEF Request
    <3>2. pending' = {<<seq', now>>} \/ pending' = pending
      BY <2>3 DEF Request
    <3> QED BY <2>t, <3>1, <3>2 DEF EstInv
  <2>4. CASE RestartController
    BY <2>4 DEF RestartController, satellite, EstInv
  <2>5. ASSUME NEW m \in msgs, Lose(m) \/ ArriveAtController(m)
                            \/ HandleTimeRequest(m) \/ ArriveAtSatellite(m)
        PROVE  EstInv'
    BY <2>5 DEF Lose, ArriveAtController, HandleTimeRequest, ArriveAtSatellite, satellite, EstInv
  <2>6. ASSUME NEW m \in msgs, HandleTimeResponse(m) PROVE EstInv'
    <3>1. UNCHANGED <<build, now>> /\ pending' \subseteq pending
      BY <2>6 DEF HandleTimeResponse
    <3>2. CASE est' = est
      BY <3>1, <3>2 DEF EstInv
    <3>3. CASE est' # est
      <4>1. /\ SampleOf(m) \in Samples /\ SampleOf(m).local <= now /\ pending' = {}
            /\ build = "pll" => est' \in PllUpdates(est, SampleOf(m))
            /\ build # "pll" => est' = Filtered(est, SampleOf(m))
        BY <2>6, <3>3, FeedFacts
      <4>2. est' \in Estimates /\ (est'.local = est.local \/ est'.local = SampleOf(m).local)
        BY <2>t, <4>1, PllUpdateFacts, FilteredFacts
      <4> QED BY <2>t, <3>1, <4>1, <4>2 DEF EstInv
    <3> QED BY <3>2, <3>3
  <2>7. CASE UNCHANGED vars
    BY <2>7 DEF vars, satellite, EstInv
  <2> QED BY <2>1, <2>2, <2>3, <2>4, <2>5, <2>6, <2>7 DEF Next
<1> QED BY <1>1, <1>2, StampInvHolds, PTL DEF Spec

\* A number between two others is no further from o than one of them.
LEMMA Between ==
    ASSUME NEW x \in Int, NEW y \in Int, NEW z \in Int, NEW o \in Int, NEW D \in Int,
           (x <= z /\ z <= y) \/ (y <= z /\ z <= x), Abs(y - o) <= D
    PROVE  Abs(z - o) <= Abs(x - o) \/ Abs(z - o) <= D
BY DEF Abs

\* A sample of the running boot never carries the estimate, at the sample's own
\* instant, further from the controller's clock than both the estimate and the
\* sample were: what is applied of a residual (pll_update_from_sample), or of an
\* offset (time_sync_apply_offset), lies between the two.
THEOREM SamplesNeverWorsen == Spec => NeverWorse
<1>1. LatestInv /\ StampInv /\ EstInv /\ [Next]_vars =>
          [feeds' > feeds /\ est.have => \A m \in msgs \ msgs' :
               LET at == SampleOf(m).local
                   Error(e) == Abs(MeshTime(e, at) - at - offset)
               IN  Error(est') <= Error(est) \/ Error(est') <= HalfDelay]_vars
  <2> SUFFICES ASSUME LatestInv, StampInv, EstInv, [Next]_vars, feeds' > feeds, est.have,
                      NEW n \in msgs \ msgs'
               PROVE  LET at == SampleOf(n).local
                      IN  \/ Abs(MeshTime(est', at) - at - offset)
                                 <= Abs(MeshTime(est, at) - at - offset)
                          \/ Abs(MeshTime(est', at) - at - offset) <= HalfDelay
    OBVIOUS
  <2> DEFINE s == SampleOf(n)
             at == s.local
  <2>1. PICK m \in msgs : HandleTimeResponse(m)
    BY OnlyResponsesFeed DEF LatestInv
  <2>2. feeds' # feeds
    BY DEF LatestInv
  <2>3. /\ m \in Messages /\ InOrder(m) /\ m.at = "satelliteQueue" /\ msgs' = msgs \ {m}
        /\ SampleOf(m) \in Samples /\ Usable(SampleOf(m))
        /\ build = "pll" => est' \in PllUpdates(est, SampleOf(m))
        /\ build # "pll" => est' = Filtered(est, SampleOf(m))
        /\ m.offset = offset
    BY <2>1, <2>2, FeedFacts
  <2>4. n = m
    BY <2>3
  <2>5. Abs(s.mesh - s.local - offset) <= HalfDelay /\ Abs(s.offset - offset) <= HalfDelay
    BY <2>3, <2>4, SampleIsClose
  <2>6. s \in Samples /\ s.local \in Int /\ s.mesh \in Int /\ s.offset \in Int
    BY <2>3, <2>4 DEF Samples
  <2>7. est \in Estimates /\ offset \in Int /\ HalfDelay \in Int
    BY SyncAssumption DEF EstInv, StampInv, HalfDelay
  <2>8. /\ build = "pll" => est' \in PllUpdates(est, s)
        /\ build # "pll" => est' = Filtered(est, s)
    BY <2>3, <2>4
  <2> HIDE DEF s
  <2> DEFINE Good == \/ Abs(MeshTime(est', at) - at - offset)
                            <= Abs(MeshTime(est, at) - at - offset)
                     \/ Abs(MeshTime(est', at) - at - offset) <= HalfDelay
  <2>9. ASSUME build = "pll" PROVE Good
    <3>1. /\ est' \in Estimates
          /\ \/ Reacquires(est) /\ est'.local = at /\ est'.mesh = s.mesh
             \/ /\ est'.local = est.local /\ est'.mesh = est.mesh /\ est'.freq = est.freq
             \/ /\ est'.local = at
                /\ est'.mesh = Predict(est, at) + Quot(Residual(est, s), PhaseDivisor)
      BY <2>6, <2>7, <2>8, <2>9, PllUpdateFacts
    <3>2. MeshTime(est', at) = Predict(est', at) /\ MeshTime(est, at) = Predict(est, at)
      BY <2>9 DEF MeshTime
    <3>3. est'.local = at => Predict(est', at) = est'.mesh
      BY <3>1, <2>6, PredictFacts
    <3>4. Predict(est, at) \in Int
      BY <2>6, <2>7, PredictFacts
    <3>5. CASE est'.local = at /\ est'.mesh = s.mesh
      BY <2>5, <3>2, <3>3, <3>5
    <3>6. CASE est'.local = est.local /\ est'.mesh = est.mesh /\ est'.freq = est.freq
      <4>1. Predict(est', at) = Predict(est, at)
        BY <3>6 DEF Predict
      <4>2. Abs(Predict(est, at) - at - offset) \in Int
        BY <2>6, <2>7, <3>4 DEF Abs
      <4> QED BY <3>2, <4>1, <4>2
    <3>7. CASE /\ est'.local = at
               /\ est'.mesh = Predict(est, at) + Quot(Residual(est, s), PhaseDivisor)
      <4> DEFINE p == Predict(est, at)
                 q == Quot(Residual(est, s), PhaseDivisor)
      <4>1. Residual(est, s) = s.mesh - p /\ s.mesh - p \in Int
        BY <2>6, <3>4 DEF Residual
      <4>2. /\ q \in Int
            /\ s.mesh - p >= 0 => 0 <= q /\ q <= s.mesh - p
            /\ s.mesh - p <= 0 => s.mesh - p <= q /\ q <= 0
        BY <4>1, QuotFacts, QuotShrinks, PllConstants
      <4>3. Predict(est', at) = p + q
        BY <3>3, <3>7
      <4> HIDE DEF p, q
      <4>4. \/ p <= p + q /\ p + q <= s.mesh
            \/ s.mesh <= p + q /\ p + q <= p
        BY <2>6, <3>4, <4>2 DEF p
      <4>5. p \in Int /\ p + q \in Int /\ at + offset \in Int
        BY <2>6, <2>7, <3>4, <4>2 DEF p
      <4>6. Abs(s.mesh - (at + offset)) <= HalfDelay
        <5>1. s.mesh - (at + offset) = s.mesh - at - offset
          BY <2>6, <2>7
        <5> QED BY <2>5, <5>1
      <4>7. \/ Abs(p + q - (at + offset)) <= Abs(p - (at + offset))
            \/ Abs(p + q - (at + offset)) <= HalfDelay
        <5> DEFINE y == s.mesh
                   z == p + q
                   c == at + offset
        <5>1. y \in Int /\ z \in Int /\ c \in Int /\ Abs(y - c) <= HalfDelay
              /\ ((p <= z /\ z <= y) \/ (y <= z /\ z <= p))
          BY <2>6, <4>4, <4>5, <4>6
        <5> HIDE DEF y, z, c
        <5>2. Abs(z - c) <= Abs(p - c) \/ Abs(z - c) <= HalfDelay
          BY <2>7, <4>5, <5>1, Between
        <5>3. z - c = p + q - (at + offset) /\ p - c = p - (at + offset)
          BY <2>6, <2>7, <4>2, <4>5 DEF z, c
        <5> QED BY <5>2, <5>3
      <4>8. p - (at + offset) = p - at - offset /\ p + q - (at + offset) = p + q - at - offset
        BY <2>6, <2>7, <4>2, <4>5
      <4>9. /\ Abs(MeshTime(est', at) - at - offset) = Abs(p + q - (at + offset))
            /\ Abs(MeshTime(est, at) - at - offset) = Abs(p - (at + offset))
        <5>1. MeshTime(est', at) = p + q /\ MeshTime(est, at) = p
          BY <3>2, <4>3 DEF p
        <5>2. MeshTime(est', at) - at - offset = p + q - (at + offset)
          BY <2>6, <2>7, <4>2, <4>5, <5>1
        <5>3. MeshTime(est, at) - at - offset = p - (at + offset)
          BY <2>6, <2>7, <4>5, <5>1
        <5> QED BY <5>2, <5>3
      <4> QED BY <4>7, <4>9
    <3> QED BY <3>1, <3>5, <3>6, <3>7
  <2>10. ASSUME build # "pll" PROVE Good
    <3> DEFINE o == Filtered(est, s).offset
    <3>1. /\ est' = Filtered(est, s) /\ o \in Int
          /\ \/ est.offset <= o /\ o <= s.offset
             \/ s.offset <= o /\ o <= est.offset
      <4>1. Filtered(est, s) \in Estimates
        BY <2>6, <2>7, FilteredFacts
      <4> QED BY <2>6, <2>7, <2>8, <2>10, <4>1, FilteredFacts, EstimateFields
    <3>2. est.offset \in Int
      BY <2>7, EstimateFields
    <3>3. MeshTime(est', at) = at + o /\ MeshTime(est, at) = at + est.offset
      BY <2>10, <3>1 DEF MeshTime
    <3> HIDE DEF o
    <3>4. at + o - at - offset = o - offset /\ at + est.offset - at - offset = est.offset - offset
      BY <2>6, <2>7, <3>1, <3>2
    <3>5. Abs(o - offset) <= Abs(est.offset - offset) \/ Abs(o - offset) <= HalfDelay
      BY <2>5, <2>6, <2>7, <3>1, <3>2, Between
    <3>6. /\ Abs(MeshTime(est', at) - at - offset) = Abs(o - offset)
          /\ Abs(MeshTime(est, at) - at - offset) = Abs(est.offset - offset)
      <4>1. MeshTime(est', at) - at - offset = o - offset
        BY <2>6, <2>7, <3>1, <3>3
      <4>2. MeshTime(est, at) - at - offset = est.offset - offset
        BY <2>6, <2>7, <3>2, <3>3
      <4> QED BY <4>1, <4>2
    <3> QED BY <3>5, <3>6
  <2> QED BY <2>9, <2>10 DEF s
<1> QED BY <1>1, LatestInvHolds, StampInvHolds, EstInvHolds, PTL DEF Spec, NeverWorse

\* Past startup the time read jumps, either way, by no more than the part of an
\* outlier that is applied and the change of slope since the sample: samples come
\* in the order of their instants, so the old slope is only replaced from the
\* sample on (pll_update_from_sample).
THEOREM StepsAreSmall == Spec => SmallSteps
<1>1. LatestInv /\ StampInv /\ EstInv /\ [Next]_vars =>
          [build = "pll" /\ ~Reacquires(est) /\ ~Startup(est) => \A m \in msgs \ msgs' :
               est' # est =>
                   Abs(MeshTime(est', now) - MeshTime(est, now))
                       <= Outlier \div PhaseDivisor + 2
                          + (2 * MaxFreq * (now - SampleOf(m).local)) \div Billion]_vars
  <2> SUFFICES ASSUME LatestInv, StampInv, EstInv, [Next]_vars, build = "pll",
                      ~ Reacquires(est), ~ Startup(est), NEW n \in msgs \ msgs', est' # est
               PROVE  Abs(MeshTime(est', now) - MeshTime(est, now))
                          <= Outlier \div PhaseDivisor + 2
                             + (2 * MaxFreq * (now - SampleOf(n).local)) \div Billion
    OBVIOUS
  <2> DEFINE s == SampleOf(n)
             at == s.local
             u == at - est.local
             v == now - at
             k == Outlier \div PhaseDivisor
             K == (2 * MaxFreq * v) \div Billion
  <2>1. PICK m \in msgs : HandleTimeResponse(m)
    BY OnlyResponsesFeed DEF LatestInv
  <2>2. /\ msgs' = msgs \ {m} /\ SampleOf(m) \in Samples
        /\ est.local <= SampleOf(m).local /\ SampleOf(m).local <= now
        /\ est' \in PllUpdates(est, SampleOf(m))
    BY <2>1, FeedFacts
  <2>3. n = m
    BY <2>2
  <2>4. s \in Samples /\ at \in Int /\ s.mesh \in Int /\ est \in Estimates /\ now \in Nat
        /\ est.local \in Int /\ est.mesh \in Int /\ est.freq \in Int
    BY <2>2, <2>3, EstimateFields DEF Samples, EstInv, StampInv
  <2>5. u \in Nat /\ v \in Nat
    BY <2>2, <2>3, <2>4
  <2>6. k \in Nat /\ K \in Nat
    <3>1. 2 * MaxFreq * v \in Nat
      BY <2>5, PllConstants
    <3> QED BY <3>1, DivFacts, PllConstants
  <2>7. est' \in PllUpdates(est, s)
    BY <2>2, <2>3
  <2> HIDE DEF s
  <2>8. /\ est' \in Estimates
        /\ \/ /\ est'.local = est.local /\ est'.mesh = est.mesh /\ est'.freq = est.freq
           \/ /\ ~ Outlying(est, s) /\ est'.local = at
              /\ est'.mesh = Predict(est, at) + Quot(Residual(est, s), PhaseDivisor)
    BY <2>4, <2>7, PllUpdateFacts
  <2>9. MeshTime(est', now) = Predict(est', now) /\ MeshTime(est, now) = Predict(est, now)
    BY DEF MeshTime
  <2>10. Predict(est', now) \in Int /\ Predict(est, now) \in Int /\ Predict(est, at) \in Int
    BY <2>4, <2>8, PredictFacts
  <2>11. CASE est'.local = est.local /\ est'.mesh = est.mesh /\ est'.freq = est.freq
    <3>1. Predict(est', now) = Predict(est, now)
      BY <2>11 DEF Predict
    <3>2. Abs(Predict(est', now) - Predict(est, now)) = 0
      BY <2>10, <3>1 DEF Abs
    <3> HIDE DEF k, K
    <3>3. 0 <= k + 2 + K
      BY <2>6
    <3> QED BY <2>9, <3>2, <3>3 DEF k, K, s
  <2>12. CASE /\ ~ Outlying(est, s) /\ est'.local = at
              /\ est'.mesh = Predict(est, at) + Quot(Residual(est, s), PhaseDivisor)
    <3> DEFINE r == Residual(est, s)
               c == Quot(r, PhaseDivisor)
               a1 == Quot(u * est.freq, Billion)
               a2 == Quot(v * est'.freq, Billion)
               a3 == Quot((u + v) * est.freq, Billion)
    <3>1. r \in Int /\ r <= Outlier /\ -r <= Outlier
      <4>1. r \in Int
        BY <2>4, <2>10 DEF Residual
      <4>2. ~ (Abs(r) > Outlier)
        BY <2>12 DEF Outlying
      <4> HIDE DEF r
      <4> QED BY <4>1, <4>2, PllConstants DEF Abs
    <3>2. c \in Int /\ c <= k /\ -c <= k
      BY <3>1, QuotFacts, QuotBounded, PllConstants
    <3>3. /\ est'.freq \in Int /\ est'.freq <= MaxFreq /\ -est'.freq <= MaxFreq
          /\ est.freq <= MaxFreq /\ -est.freq <= MaxFreq /\ MaxFreq \in Nat
          /\ est'.mesh \in Int /\ Billion \in Nat \ {0}
      BY <2>4, <2>8, EstimateFields, PllConstants
    <3>4. /\ a1 + a2 - a3 \in Int /\ a1 + a2 - a3 <= K + 2 /\ -(a1 + a2 - a3) <= K + 2
      BY <2>4, <2>5, <3>3, SlopeChange
    <3>5. a1 \in Int /\ a2 \in Int /\ a3 \in Int
      <4>1. u * est.freq \in Int /\ v * est'.freq \in Int /\ (u + v) * est.freq \in Int
        BY <2>4, <2>5, <3>3
      <4> QED BY <3>3, <4>1, QuotFacts
    <3>6. Predict(est, at) = est.mesh + u + a1
      BY <2>4, PredictFacts
    <3>7. Predict(est', now) = est'.mesh + v + a2
      BY <2>4, <2>8, <2>12, PredictFacts
    <3>8. Predict(est, now) = est.mesh + (u + v) + a3
      <4>1. now - est.local = u + v
        BY <2>4
      <4>2. Predict(est, now)
                = est.mesh + (now - est.local) + Quot((now - est.local) * est.freq, Billion)
        BY <2>4, PredictFacts
      <4> QED BY <4>1, <4>2
    <3>9. est'.mesh = Predict(est, at) + c
      BY <2>12
    <3> HIDE DEF r, c, a1, a2, a3, k, K, u, v
    <3>10. Predict(est', now) - Predict(est, now) = c + (a1 + a2 - a3)
      BY <2>4, <2>5, <3>2, <3>5, <3>6, <3>7, <3>8, <3>9
    <3>11. Abs(c + (a1 + a2 - a3)) <= k + 2 + K
      BY <2>6, <3>2, <3>4 DEF Abs
    <3> QED BY <2>9, <3>10, <3>11 DEF k, K, v, s
  <2> QED BY <2>8, <2>11, <2>12
<1> QED BY <1>1, LatestInvHolds, StampInvHolds, EstInvHolds, PTL DEF Spec, SmallSteps
-----------------------------------------------------------------------------
(***************************************************************************)
(* What is left of an old boot.  The first sample after a restart of the     *)
(* controller may still be one the old boot answered; the next may not.      *)
(***************************************************************************)
\* No two requests have the same number and stamp, although the clock need not move
\* between the end of a lock and the next lock: a lock that is new is not dropped
\* at once, so at most two requests are sent at one instant.
RequestsDiffer == \A m \in msgs : m.t1 = now =>
    \/ m.seqno = seq /\ (locked => heard = now \/ ~ (next <= now))
    \/ locked /\ heard = now /\ ~ (next <= now)

\* Once the running boot has answered a sample, whatever answers the pending request
\* is of that boot.
AnsweredInv ==
    /\ RequestsDiffer
    /\ feeds > 0 => \A m \in msgs :
           /\ <<m.seqno, m.t1>> \in pending
           /\ m.at \in {"toSatellite", "satelliteQueue"}
           => m.offset = offset

\* A step of one message keeps AnsweredInv if the message does.
LEMMA MoveKeepsAnswered ==
    ASSUME AnsweredInv, UNCHANGED <<now, offset, locked, heard, next, seq, pending, feeds>>,
           NEW m \in msgs, NEW n, n.seqno = m.seqno, n.t1 = m.t1,
           n.at \in {"toSatellite", "satelliteQueue"}
               => \/ n.offset = offset
                  \/ n.offset = m.offset /\ m.at \in {"toSatellite", "satelliteQueue"},
           msgs' \subseteq msgs \cup {n}
    PROVE  AnsweredInv'
<1>1. RequestsDiffer'
  BY DEF AnsweredInv, RequestsDiffer
<1>2. ASSUME feeds > 0, NEW k \in msgs', <<k.seqno, k.t1>> \in pending,
             k.at \in {"toSatellite", "satelliteQueue"}
      PROVE  k.offset = offset
  <2>1. CASE k \in msgs
    BY <1>2, <2>1 DEF AnsweredInv
  <2>2. CASE k = n
    <3>1. <<m.seqno, m.t1>> \in pending
      BY <1>2, <2>2
    <3> QED BY <1>2, <2>2, <3>1 DEF AnsweredInv
  <2> QED BY <2>1, <2>2
<1> QED BY <1>1, <1>2 DEF AnsweredInv

\* AnsweredInv holds in every state.
LEMMA AnsweredInvHolds == Spec => []AnsweredInv
<1>1. Init => AnsweredInv
  BY DEF Init, AnsweredInv, RequestsDiffer
<1>2. LatestInv /\ StampInv /\ EstInv /\ AnsweredInv /\ [Next]_vars => AnsweredInv'
  <2> SUFFICES ASSUME LatestInv, StampInv, EstInv, AnsweredInv, [Next]_vars PROVE AnsweredInv'
    OBVIOUS
  <2>t. /\ now \in Nat /\ feeds \in Nat
        /\ \A m \in msgs : m \in Messages /\ m.t1 \in Nat /\ m.t1 <= now
    BY DEF StampInv, LatestInv, InOrder, Messages
  <2>1. CASE Tick
    <3>1. now' = now + 1 /\ UNCHANGED <<offset, pending, msgs, feeds>>
      BY <2>1 DEF Tick, controller, satellite, history
    <3>2. ASSUME NEW m \in msgs PROVE m.t1 # now'
      BY <2>t, <3>1
    <3> QED BY <3>1, <3>2 DEF AnsweredInv, RequestsDiffer
  <2>2. CASE Lock
    <3>1. /\ ~ locked /\ locked' = TRUE /\ heard' = now
          /\ UNCHANGED <<now, offset, seq, pending, msgs, feeds>>
      BY <2>2 DEF Lock, controller, history
    <3> QED BY <3>1 DEF AnsweredInv, RequestsDiffer
  <2>3. CASE DropLock
    <3>1. /\ heard # now /\ ~ locked' /\ pending' = {}
          /\ UNCHANGED <<now, seq, msgs>>
      BY <2>3, <2>t, SyncAssumption DEF DropLock
    <3> QED BY <3>1 DEF AnsweredInv, RequestsDiffer
  <2>4. CASE Request
    <3>1. /\ next <= now /\ locked /\ locked' = locked /\ next' = now + Interval
          /\ seq' # seq /\ UNCHANGED <<now, offset, heard, feeds>>
      BY <2>4, SyncAssumption DEF Request, controller, StampInv
    <3>2. ~ (next' <= now')
      BY <2>t, <3>1, SyncAssumption
    <3>3. \A m \in msgs : m.t1 = now => m.seqno = seq /\ heard = now
      BY <3>1 DEF AnsweredInv, RequestsDiffer
    <3>4. \/ /\ pending' = {<<seq', now>>}
             /\ msgs' = msgs \cup {[at |-> "toController", seqno |-> seq', t1 |-> now,
                                    c1 |-> 0, c2 |-> 0, t4 |-> 0, offset |-> 0]}
          \/ UNCHANGED <<msgs, pending>>
      BY <2>4 DEF Request
    <3>5. ASSUME NEW m \in msgs', feeds' > 0, <<m.seqno, m.t1>> \in pending',
                 m.at \in {"toSatellite", "satelliteQueue"}
          PROVE  m.offset = offset'
      <4>1. CASE UNCHANGED <<msgs, pending>>
        BY <3>1, <3>5, <4>1 DEF AnsweredInv
      <4>2. CASE /\ pending' = {<<seq', now>>}
                 /\ msgs' = msgs \cup {[at |-> "toController", seqno |-> seq', t1 |-> now,
                                        c1 |-> 0, c2 |-> 0, t4 |-> 0, offset |-> 0]}
        <5>1. m.t1 = now /\ m.seqno = seq' /\ m \in msgs
          BY <3>5, <4>2
        <5> QED BY <3>1, <3>3, <5>1
      <4> QED BY <3>4, <4>1, <4>2
    <3>6. ASSUME NEW m \in msgs', m.t1 = now
          PROVE  m.seqno = seq' \/ heard = now
      BY <3>3, <3>4, <3>6
    <3> QED BY <3>1, <3>2, <3>5, <3>6 DEF AnsweredInv, RequestsDiffer
  <2>5. CASE RestartController
    <3>1. /\ msgs' \subseteq msgs /\ feeds' = 0
          /\ UNCHANGED <<now, locked, heard, next, seq>>
      BY <2>5 DEF RestartController, satellite
    <3> QED BY <3>1 DEF AnsweredInv, RequestsDiffer
  <2>6. ASSUME NEW m \in msgs, Lose(m) PROVE AnsweredInv'
    <3>1. msgs' \subseteq msgs /\ UNCHANGED <<now, offset, locked, heard, next, seq, pending, feeds>>
      BY <2>6 DEF Lose, controller, satellite, history
    <3> QED BY <3>1 DEF AnsweredInv, RequestsDiffer
  <2>7. ASSUME NEW m \in msgs, ArriveAtController(m) PROVE AnsweredInv'
    <3> DEFINE n == [m EXCEPT !.at = "controllerQueue", !.c1 = now + offset]
    <3>1. UNCHANGED <<now, offset, locked, heard, next, seq, pending, feeds>> /\ msgs' \subseteq msgs \cup {n}
      BY <2>7, MovesAdds DEF ArriveAtController, controller, satellite, history
    <3>2. n.seqno = m.seqno /\ n.t1 = m.t1 /\ n.at = "controllerQueue"
      BY <2>t DEF Messages
    <3> HIDE DEF n
    <3> QED BY <3>1, <3>2, MoveKeepsAnswered
  <2>8. ASSUME NEW m \in msgs, HandleTimeRequest(m) PROVE AnsweredInv'
    <3> DEFINE n == [m EXCEPT !.at = "toSatellite", !.c2 = now + offset, !.offset = offset]
    <3>1. UNCHANGED <<now, offset, locked, heard, next, seq, pending, feeds>> /\ msgs' \subseteq msgs \cup {n}
      BY <2>8, MovesAdds DEF HandleTimeRequest, controller, satellite, history
    <3>2. n.seqno = m.seqno /\ n.t1 = m.t1 /\ n.offset = offset
      BY <2>t DEF Messages
    <3> HIDE DEF n
    <3> QED BY <3>1, <3>2, MoveKeepsAnswered
  <2>9. ASSUME NEW m \in msgs, ArriveAtSatellite(m) PROVE AnsweredInv'
    <3> DEFINE n == [m EXCEPT !.at = "satelliteQueue", !.t4 = now]
    <3>1. /\ m.at = "toSatellite" /\ msgs' \subseteq msgs \cup {n}
          /\ UNCHANGED <<now, offset, locked, heard, next, seq, pending, feeds>>
      BY <2>9, MovesAdds DEF ArriveAtSatellite, controller, satellite, history
    <3>2. n.seqno = m.seqno /\ n.t1 = m.t1 /\ n.offset = m.offset
      BY <2>t DEF Messages
    <3> HIDE DEF n
    <3> QED BY <3>1, <3>2, MoveKeepsAnswered
  <2>10. ASSUME NEW m \in msgs, HandleTimeResponse(m) PROVE AnsweredInv'
    <3>1. /\ msgs' \subseteq msgs /\ pending' \subseteq pending /\ (locked => heard' = now)
          /\ UNCHANGED <<now, offset, locked, next, seq>>
      BY <2>10 DEF HandleTimeResponse, Hear, controller
    <3>r. RequestsDiffer'
      BY <3>1 DEF AnsweredInv, RequestsDiffer
    <3>2. CASE feeds' = feeds
      BY <3>1, <3>2, <3>r DEF AnsweredInv
    <3>3. CASE feeds' # feeds
      <4>1. pending' = {}
        BY <2>10, <3>3, FeedFacts
      <4> QED BY <3>1, <3>r, <4>1 DEF AnsweredInv
    <3> QED BY <3>2, <3>3
  <2>11. CASE UNCHANGED vars
    BY <2>11 DEF vars, controller, satellite, history, AnsweredInv, RequestsDiffer
  <2> QED BY <2>1, <2>2, <2>3, <2>4, <2>5, <2>6, <2>7, <2>8, <2>9, <2>10, <2>11 DEF Next
<1> QED BY <1>1, <1>2, LatestInvHolds, StampInvHolds, EstInvHolds, PTL DEF Spec
-----------------------------------------------------------------------------
(***************************************************************************)
(* Recovery.  After a restart the estimate is of the old clock; samples of   *)
(* the new one are accepted unchecked while it starts up, then rejected      *)
(* until enough rejects force a reacquire.                                  *)
(***************************************************************************)
\* The running boot has answered fewer samples than were accepted or rejected since
\* the estimate was acquired: it may have been acquired from another boot.
Unsettled == feeds = 0 \/ feeds < est.accepted + est.rejects

\* The anchor is on the running boot's clock.
Anchored == \/ AnchorError <= HalfDelay + Drift(span)
            \/ ~ Startup(est) /\ AnchorError <= HalfDelay + Outlier

RecoverInv ==
    /\ feeds \in Nat /\ span \in Nat
    /\ Startup(est) => est.rejects = 0
    /\ build = "pll" /\ est.have => est.accepted > 0
    /\ build = "pll" => Unsettled \/ Anchored

\* How an update of the PLL counts.
LEMMA PllUpdateCounts ==
    ASSUME NEW e \in Estimates, NEW s \in Samples, NEW r \in PllUpdates(e, s)
    PROVE  \/ /\ Reacquires(e) /\ r.have = TRUE /\ r.accepted = 1 /\ r.rejects = 0
              /\ r.local = s.local /\ r.mesh = s.mesh
           \/ /\ ~ Reacquires(e) /\ ~ Startup(e)
              /\ r.have = e.have /\ r.accepted = e.accepted /\ r.rejects = e.rejects + 1
              /\ r.local = e.local /\ r.mesh = e.mesh
           \/ /\ ~ Reacquires(e) /\ ~ Outlying(e, s) /\ r.have = e.have /\ r.rejects = 0
              /\ r.accepted = (IF Startup(e) THEN e.accepted + 1 ELSE e.accepted)
              /\ r.local = s.local
              /\ r.mesh = Predict(e, s.local) + Quot(Residual(e, s), PhaseDivisor)
<1>1. CASE Reacquires(e)
  BY <1>1 DEF PllUpdates, Acquired, Estimates
<1>2. CASE ~ Reacquires(e) /\ Outlying(e, s)
  <2>1. r = [e EXCEPT !.best = Best(e, s), !.rejects = @ + 1]
    BY <1>2 DEF PllUpdates
  <2>2. ~ Startup(e)
    BY <1>2 DEF Outlying
  <2> QED BY <1>2, <2>1, <2>2 DEF Estimates
<1>3. CASE ~ Reacquires(e) /\ ~ Outlying(e, s)
  <2> DEFINE m == Predict(e, s.local) + Quot(Residual(e, s), PhaseDivisor)
             a == IF Startup(e) THEN e.accepted + 1 ELSE e.accepted
  <2>1. PICK f \in NextFreqs(e, s) :
            r = [e EXCEPT !.local = s.local, !.mesh = m, !.freq = f, !.best = Best(e, s),
                          !.accepted = a, !.rejects = 0]
    BY <1>3 DEF PllUpdates
  <2> HIDE DEF m, a
  <2>2. /\ r.have = e.have /\ r.rejects = 0 /\ r.accepted = a
        /\ r.local = s.local /\ r.mesh = m
    BY <2>1 DEF Estimates
  <2> QED BY <1>3, <2>2 DEF m, a
<1> QED BY <1>1, <1>2, <1>3

\* The drifts of two times together are within the drift of their sum.
LEMMA DriftAdds ==
    ASSUME NEW t \in Nat, NEW u \in Nat
    PROVE  /\ Drift(t) \in Nat /\ Drift(u) \in Nat /\ Drift(t + u) \in Nat
           /\ Drift(t) + Drift(u) <= Drift(t + u)
<1> DEFINE x == t * MaxFreq
           y == u * MaxFreq
           z == (t + u) * MaxFreq
           p == x \div Billion
           q == y \div Billion
           r == z \div Billion
<1>1. x \in Nat /\ y \in Nat /\ z \in Nat /\ z = x + y /\ Billion \in Nat \ {0}
  BY PllConstants
<1>2. /\ p \in Nat /\ q \in Nat /\ r \in Nat
      /\ Billion * p <= x /\ Billion * q <= y /\ z < Billion * r + Billion
  BY <1>1, DivFacts
<1>3. Drift(t) = p /\ Drift(u) = q /\ Drift(t + u) = r
  BY DEF Drift
<1> HIDE DEF x, y, z, p, q, r
<1>4. Billion * (p + q) = Billion * p + Billion * q /\ Billion * (r + 1) = Billion * r + Billion
  BY <1>1, <1>2
<1>5. Billion * (p + q) < Billion * (r + 1)
  BY <1>1, <1>2, <1>4
<1>6. p + q < r + 1
  BY <1>1, <1>2, <1>5, Cancel
<1> QED BY <1>2, <1>3, <1>6

\* A frequency carries the prediction no further than the drift.
LEMMA SlopeWithinDrift ==
    ASSUME NEW u \in Nat, NEW f \in Int, f <= MaxFreq, -f <= MaxFreq
    PROVE  LET d == Quot(u * f, Billion)
           IN  d \in Int /\ d <= Drift(u) /\ -d <= Drift(u)
<1> DEFINE x == u * f
           N == u * MaxFreq
<1>1. x \in Int /\ N \in Nat /\ Billion \in Nat \ {0}
  BY PllConstants
<1>2. x <= N /\ -x <= N
  <2>1. u * f <= u * MaxFreq
    BY PllConstants
  <2>2. u * (-f) <= u * MaxFreq /\ u * (-f) = -(u * f)
    BY PllConstants
  <2> QED BY <2>1, <2>2
<1>3. Drift(u) = N \div Billion
  BY DEF Drift
<1> HIDE DEF x, N
<1>4. Quot(x, Billion) \in Int
  BY <1>1, QuotFacts
<1>5. Quot(x, Billion) <= N \div Billion /\ -Quot(x, Billion) <= N \div Billion
  BY <1>1, <1>2, QuotBounded
<1> QED BY <1>3, <1>4, <1>5 DEF x

\* Following a true sample o keeps the anchor within D of its clock but for the drift
\* since the last one.
LEMMA FollowingDrifts ==
    ASSUME NEW e \in Estimates, NEW s \in Samples, NEW o \in Int, NEW D \in Int,
           e.local <= s.local, Abs(s.mesh - s.local - o) <= HalfDelay, HalfDelay <= D,
           Abs(e.mesh - e.local - o) <= D
    PROVE  Abs((Predict(e, s.local) + Quot(Residual(e, s), PhaseDivisor)) - s.local - o)
               <= D + Drift(s.local - e.local)
<1> DEFINE at == s.local
           u == at - e.local
           a == Quot(u * e.freq, Billion)
           p == Predict(e, at)
           q == Quot(Residual(e, s), PhaseDivisor)
           R == Drift(u)
<1>1. /\ at \in Int /\ s.mesh \in Int /\ e.local \in Int /\ e.mesh \in Int /\ e.freq \in Int
      /\ u \in Nat /\ HalfDelay \in Int
  BY EstimateFields, SyncAssumption DEF Samples, HalfDelay
<1>2. R \in Nat
  BY <1>1, DriftAdds
<1>3. a \in Int /\ a <= R /\ -a <= R
  BY <1>1, EstimateFields, SlopeWithinDrift
<1>4. p \in Int /\ p = e.mesh + u + a
  BY <1>1, PredictFacts
<1>5. Residual(e, s) = s.mesh - p
  BY DEF Residual
<1>6. /\ q \in Int
      /\ s.mesh - p >= 0 => 0 <= q /\ q <= s.mesh - p
      /\ s.mesh - p <= 0 => s.mesh - p <= q /\ q <= 0
  <2>1. s.mesh - p \in Int
    BY <1>1, <1>4
  <2> HIDE DEF p
  <2> QED BY <1>5, <2>1, QuotFacts, QuotShrinks, PllConstants
<1>7. p - at - o = e.mesh - e.local - o + a
  <2> HIDE DEF p, a
  <2> QED BY <1>1, <1>3, <1>4
<1> HIDE DEF p, q, a, R, u, at
<1>8. p - at - o <= D + R /\ -(p - at - o) <= D + R
  BY <1>1, <1>2, <1>3, <1>4, <1>7 DEF Abs
<1>9. s.mesh - at - o <= D + R /\ -(s.mesh - at - o) <= D + R
  BY <1>1, <1>2 DEF Abs, at
<1>10. (p + q) - at - o <= D + R /\ -((p + q) - at - o) <= D + R
  BY <1>1, <1>2, <1>4, <1>6, <1>8, <1>9
<1>11. Abs((p + q) - at - o) <= D + R
  BY <1>1, <1>2, <1>4, <1>6, <1>10 DEF Abs
<1> QED BY <1>11 DEF p, q, R, u, at

\* What is left of a residual that is not an outlier, on top of the sample's error.
LEMMA CheckedAnchors ==
    ASSUME NEW e \in Estimates, NEW s \in Samples, NEW o \in Int,
           ~ Startup(e), ~ Outlying(e, s), Abs(s.mesh - s.local - o) <= HalfDelay
    PROVE  Abs((Predict(e, s.local) + Quot(Residual(e, s), PhaseDivisor)) - s.local - o)
               <= HalfDelay + Outlier
<1> DEFINE at == s.local
           p == Predict(e, at)
           q == Quot(Residual(e, s), PhaseDivisor)
<1>1. at \in Int /\ s.mesh \in Int /\ p \in Int /\ HalfDelay \in Int /\ Outlier \in Nat
  BY PredictFacts, SyncAssumption, PllConstants DEF Samples, HalfDelay
<1>2. Residual(e, s) = s.mesh - p /\ s.mesh - p \in Int
  BY <1>1 DEF Residual
<1>3. Abs(s.mesh - p) <= Outlier
  <2>1. ~ (Abs(s.mesh - p) > Outlier)
    BY <1>2 DEF Outlying
  <2> HIDE DEF p
  <2> QED BY <1>1, <2>1 DEF Abs
<1>4. /\ q \in Int
      /\ s.mesh - p >= 0 => 0 <= q /\ q <= s.mesh - p
      /\ s.mesh - p <= 0 => s.mesh - p <= q /\ q <= 0
  <2> HIDE DEF p
  <2> QED BY <1>2, QuotFacts, QuotShrinks, PllConstants
<1> HIDE DEF p, q, at
<1>5. Abs((p + q) - at - o) <= HalfDelay + Outlier
  <2>1. Abs(s.mesh - at - o) <= HalfDelay
    BY DEF at
  <2> QED BY <1>1, <1>3, <1>4, <2>1 DEF Abs
<1> QED BY <1>5 DEF p, q, at

\* A sample that is used keeps RecoverInv.
LEMMA FeedRecovers ==
    ASSUME StampInv, EstInv, AnsweredInv, RecoverInv, NEW m \in msgs, HandleTimeResponse(m),
           Answers(m), Usable(SampleOf(m))
    PROVE  RecoverInv'
<1> DEFINE s == SampleOf(m)
<1>1. /\ m \in Messages /\ InOrder(m) /\ m.at = "satelliteQueue"
      /\ s \in Samples /\ Usable(s) /\ est.local <= s.local
      /\ build = "pll" => est' \in PllUpdates(est, s)
      /\ build # "pll" => est' = Filtered(est, s)
      /\ feeds' # feeds => m.offset = offset
  BY UsedFacts
<1>2. /\ UNCHANGED <<build, offset>>
      /\ feeds' = (IF m.offset = offset THEN feeds + 1 ELSE feeds)
      /\ span' = (IF Reacquires(est) THEN 0
                  ELSE IF Startup(est) THEN span + (est'.local - est.local) ELSE span)
  BY DEF HandleTimeResponse, Feed, controller
<1>3. /\ est \in Estimates /\ build \in {"pll", "filter"}
      /\ feeds \in Nat /\ span \in Nat /\ offset \in Int
      /\ est.accepted \in 0 .. LockSamples /\ est.rejects \in 0 .. ResetAfterRejects
      /\ est.have \in BOOLEAN /\ est.local \in Int /\ est.mesh \in Int
      /\ s.local \in Int /\ s.mesh \in Int /\ LockSamples \in Nat /\ LockSamples > 0
      /\ ResetAfterRejects \in Nat /\ HalfDelay \in Int /\ HalfDelay >= 0 /\ Outlier \in Nat
  BY <1>1, EstimateFields, PllConstants, SyncAssumption
     DEF EstInv, StampInv, RecoverInv, Samples, HalfDelay
<1>4. feeds' \in Nat
  BY <1>2, <1>3
<1>5. ASSUME build # "pll" PROVE RecoverInv'
  <2>1. est' = Filtered(est, s)
    BY <1>1, <1>5
  <2>2. /\ est'.have = TRUE /\ est'.accepted = est.accepted /\ est'.rejects = est.rejects
        /\ est'.local = est.local
    BY <1>3, <2>1 DEF Filtered, Estimates
  <2>3. span' \in Nat
    BY <1>2, <1>3, <2>2
  <2> QED BY <1>2, <1>4, <1>5, <2>2, <2>3 DEF RecoverInv, Startup
<1>6. ASSUME build = "pll" PROVE RecoverInv'
  <2>1. est' \in PllUpdates(est, s) /\ build' = "pll"
    BY <1>1, <1>2, <1>6
  <2> HIDE DEF s
  <2>2. PICK r \in PllUpdates(est, s) : r = est'
    BY <2>1
  <2>3. /\ Startup(est) => est.rejects = 0
        /\ est.have => est.accepted > 0
        /\ Unsettled \/ Anchored
    BY <1>6 DEF RecoverInv
  <2>4. feeds > 0 => m.offset = offset
    BY <1>1, <1>2 DEF AnsweredInv, Answers
  <2>5. CASE m.offset # offset
    <3>1. feeds' = 0 /\ Unsettled'
      BY <1>2, <1>3, <2>4, <2>5 DEF Unsettled
    <3>2. /\ span' \in Nat /\ (Startup(est') => est'.rejects = 0) /\ est'.accepted > 0
      <4>1. CASE Reacquires(est)
        <5>1. est'.accepted = 1 /\ est'.rejects = 0
          BY <1>1, <1>3, <2>2, <4>1, PllUpdateCounts DEF s
        <5>2. span' = 0
          BY <1>2, <4>1
        <5> QED BY <5>1, <5>2
      <4>2. CASE ~ Reacquires(est)
        <5>1. est.have
          BY <4>2 DEF Reacquires
        <5>2. CASE Startup(est)
          <6>1. est'.local = s.local /\ est'.rejects = 0 /\ est'.accepted = est.accepted + 1
            BY <1>1, <1>3, <2>2, <4>2, <5>2, PllUpdateCounts
          <6> QED BY <1>1, <1>2, <1>3, <4>2, <5>2, <6>1 DEF s
        <5>3. CASE ~ Startup(est)
          <6>1. est'.accepted = est.accepted
            BY <1>1, <1>3, <2>2, <4>2, <5>3, PllUpdateCounts
          <6> QED BY <1>2, <1>3, <2>3, <4>2, <5>1, <5>3, <6>1 DEF Startup
        <5> QED BY <5>2, <5>3
      <4> QED BY <4>1, <4>2
    <3> QED BY <1>4, <2>1, <3>1, <3>2 DEF RecoverInv
  <2>6. CASE m.offset = offset
    <3>1. feeds' = feeds + 1
      BY <1>2, <2>6
    <3>2. Abs(s.mesh - s.local - offset) <= HalfDelay
      BY <1>1, <2>6, SampleIsClose DEF s
    <3>3. CASE Reacquires(est)
      <4>1. /\ est'.have = TRUE /\ est'.accepted = 1 /\ est'.rejects = 0
            /\ est'.local = s.local /\ est'.mesh = s.mesh
        BY <1>1, <1>3, <2>2, <3>3, PllUpdateCounts DEF s
      <4>2. span' = 0 /\ Drift(0) \in Nat
        BY <1>2, <3>3, DriftAdds
      <4>3. Anchored'
        <5>1. AnchorError' = Abs(s.mesh - s.local - offset)
          BY <1>2, <4>1 DEF AnchorError
        <5>2. Abs(s.mesh - s.local - offset) \in Int
          BY <1>3 DEF Abs
        <5>3. AnchorError' <= HalfDelay + Drift(0)
          BY <1>3, <3>2, <4>2, <5>1, <5>2
        <5> QED BY <4>2, <5>3 DEF Anchored, HalfDelay, Drift
      <4> QED BY <1>4, <4>1, <4>2, <4>3 DEF RecoverInv
    <3>4. CASE ~ Reacquires(est) /\ Startup(est)
      <4>1. /\ est.have /\ est'.rejects = 0 /\ est'.accepted = est.accepted + 1
            /\ est'.local = s.local /\ ~ Outlying(est, s)
            /\ est'.mesh = Predict(est, s.local) + Quot(Residual(est, s), PhaseDivisor)
        BY <1>1, <1>3, <2>2, <3>4, PllUpdateCounts DEF s, Reacquires
      <4>2. span' = span + (s.local - est.local) /\ s.local - est.local \in Nat
        BY <1>1, <1>2, <1>3, <3>4, <4>1 DEF s
      <4>3. CASE Unsettled
        <5>1. Unsettled'
          BY <1>3, <2>3, <3>1, <3>4, <4>1, <4>3 DEF Unsettled
        <5> QED BY <1>3, <1>4, <4>1, <4>2, <5>1, <2>1 DEF RecoverInv
      <4>4. CASE Anchored
        <5> DEFINE u == s.local - est.local
                   D == HalfDelay + Drift(span)
        <5>1. AnchorError <= D
          BY <3>4, <4>4 DEF Anchored
        <5>2. /\ Drift(span) \in Nat /\ Drift(u) \in Nat /\ Drift(span + u) \in Nat
              /\ Drift(span) + Drift(u) <= Drift(span + u)
          BY <1>3, <4>2, DriftAdds
        <5>3. D \in Int /\ HalfDelay <= D
          BY <1>3, <5>2
        <5>4. AnchorError' <= D + Drift(u)
          <6>1. Abs(est.mesh - est.local - offset) <= D
            BY <5>1 DEF AnchorError
          <6> HIDE DEF D
          <6>2. s \in Samples /\ est.local <= s.local
            BY <1>1 DEF s
          <6>3. Abs((Predict(est, s.local) + Quot(Residual(est, s), PhaseDivisor))
                        - s.local - offset) <= D + Drift(u)
            BY <1>3, <3>2, <5>3, <6>1, <6>2, FollowingDrifts
          <6>4. est'.mesh - est'.local - offset'
                    = (Predict(est, s.local) + Quot(Residual(est, s), PhaseDivisor))
                          - s.local - offset
            BY <1>2, <4>1
          <6>5. AnchorError' = Abs(est'.mesh - est'.local - offset')
            BY DEF AnchorError
          <6> QED BY <6>3, <6>4, <6>5
        <5>5. AnchorError' \in Int
          <6>1. est'.local \in Int /\ est'.mesh \in Int
            <7>1. est' \in Estimates
              BY <1>1, <1>3, <2>2, PllUpdateFacts DEF s
            <7> QED BY <7>1, EstimateFields
          <6> QED BY <1>2, <1>3, <6>1 DEF AnchorError, Abs
        <5>6. AnchorError' <= HalfDelay + Drift(span')
          <6> HIDE DEF u
          <6> QED BY <1>3, <4>2, <5>2, <5>4, <5>5 DEF u
        <5>7. Anchored'
          BY <5>6 DEF Anchored, HalfDelay, Drift
        <5> QED BY <1>3, <1>4, <4>1, <4>2, <5>7 DEF RecoverInv
      <4> QED BY <2>3, <4>3, <4>4
    <3>5. CASE ~ Reacquires(est) /\ ~ Startup(est)
      <4>1. est.have /\ est.accepted = LockSamples /\ span' = span
        BY <1>2, <1>3, <3>5 DEF Reacquires, Startup
      <4>2. CASE /\ est'.accepted = est.accepted /\ est'.rejects = est.rejects + 1
                 /\ est'.local = est.local /\ est'.mesh = est.mesh
        <5>1. ~ Startup(est')
          BY <3>5, <4>2 DEF Startup
        <5>2. (Unsettled \/ Anchored)'
          <6>1. CASE Unsettled
            BY <1>3, <3>1, <4>1, <4>2, <6>1 DEF Unsettled
          <6>2. CASE Anchored
            <7>1. AnchorError' = AnchorError
              BY <1>2, <4>2 DEF AnchorError
            <7> QED BY <3>5, <4>1, <5>1, <6>2, <7>1 DEF Anchored, HalfDelay, Drift
          <6> QED BY <2>3, <6>1, <6>2
        <5> QED BY <1>3, <1>4, <4>1, <4>2, <5>1, <5>2 DEF RecoverInv
      <4>3. CASE /\ ~ Outlying(est, s) /\ est'.rejects = 0 /\ est'.accepted = est.accepted
                 /\ est'.local = s.local
                 /\ est'.mesh = Predict(est, s.local) + Quot(Residual(est, s), PhaseDivisor)
        <5>1. ~ Startup(est')
          BY <3>5, <4>3 DEF Startup
        <5>2. s \in Samples
          BY <1>1 DEF s
        <5>3. Abs((Predict(est, s.local) + Quot(Residual(est, s), PhaseDivisor))
                      - s.local - offset) <= HalfDelay + Outlier
          BY <1>3, <3>2, <3>5, <4>3, <5>2, CheckedAnchors
        <5>4. AnchorError' <= HalfDelay + Outlier
          <6>1. est'.mesh - est'.local - offset'
                    = (Predict(est, s.local) + Quot(Residual(est, s), PhaseDivisor))
                          - s.local - offset
            BY <1>2, <4>3
          <6>2. AnchorError' = Abs(est'.mesh - est'.local - offset')
            BY DEF AnchorError
          <6> QED BY <5>3, <6>1, <6>2
        <5>5. Anchored'
          BY <5>1, <5>4 DEF Anchored, HalfDelay
        <5> QED BY <1>3, <1>4, <4>1, <4>3, <5>5 DEF RecoverInv
      <4> QED BY <1>1, <1>3, <2>2, <3>5, <4>2, <4>3, PllUpdateCounts DEF s
    <3> QED BY <3>3, <3>4, <3>5
  <2> QED BY <2>5, <2>6
<1> QED BY <1>3, <1>5, <1>6

\* RecoverInv holds in every state.
LEMMA RecoverInvHolds == Spec => []RecoverInv
<1>1. Init => RecoverInv
  BY PllConstants DEF Init, RecoverInv, NoEstimate, Unsettled
<1>2. StampInv /\ EstInv /\ AnsweredInv /\ RecoverInv /\ [Next]_vars => RecoverInv'
  <2> SUFFICES ASSUME StampInv, EstInv, AnsweredInv, RecoverInv, [Next]_vars PROVE RecoverInv'
    OBVIOUS
  <2>same. ASSUME UNCHANGED <<build, offset, est, feeds, span>> PROVE RecoverInv'
    BY <2>same DEF RecoverInv, Unsettled, Anchored, AnchorError, Startup
  <2>1. CASE Tick \/ Lock \/ DropLock \/ Request
    <3>1. UNCHANGED <<build, offset, est, feeds, span>>
      BY <2>1 DEF Tick, Lock, DropLock, Request, controller, satellite, history
    <3> QED BY <2>same, <3>1
  <2>2. CASE RestartController
    <3>1. feeds' = 0 /\ UNCHANGED <<build, est, span>>
      BY <2>2 DEF RestartController, satellite
    <3> QED BY <3>1 DEF RecoverInv, Unsettled, Startup
  <2>3. ASSUME NEW m \in msgs, Lose(m) \/ ArriveAtController(m)
                            \/ HandleTimeRequest(m) \/ ArriveAtSatellite(m)
        PROVE  RecoverInv'
    <3>1. UNCHANGED <<build, offset, est, feeds, span>>
      BY <2>3 DEF Lose, ArriveAtController, HandleTimeRequest, ArriveAtSatellite,
                  controller, satellite, history
    <3> QED BY <2>same, <3>1
  <2>4. ASSUME NEW m \in msgs, HandleTimeResponse(m) PROVE RecoverInv'
    <3>1. CASE Answers(m) /\ Usable(SampleOf(m))
      BY <2>4, <3>1, FeedRecovers
    <3>2. CASE ~ (Answers(m) /\ Usable(SampleOf(m)))
      <4>1. UNCHANGED <<build, offset, est, feeds, span>>
        BY <2>4, <3>2 DEF HandleTimeResponse, Feed, controller
      <4> QED BY <2>same, <4>1
    <3> QED BY <3>1, <3>2
  <2>5. CASE UNCHANGED vars
    <3>1. UNCHANGED <<build, offset, est, feeds, span>>
      BY <2>5 DEF vars, controller, satellite, history
    <3> QED BY <2>same, <3>1
  <2> QED BY <2>1, <2>2, <2>3, <2>4, <2>5 DEF Next
<1> QED BY <1>1, <1>2, StampInvHolds, EstInvHolds, AnsweredInvHolds, PTL DEF Spec

\* Kconfig:206-208: once the running boot has answered LockSamples + ResetAfterRejects
\* samples that were used, the estimate is anchored to its clock
\* (pll_update_from_sample, pll_reset_locked), up to an outlier that is still
\* accepted or what the frequency drifted while samples were taken unchecked.
THEOREM RecoversAfterRestart == Spec => []Recovered
<1>1. RecoverInv /\ EstInv => Recovered
  <2> SUFFICES ASSUME RecoverInv, EstInv, build = "pll",
                      feeds >= LockSamples + ResetAfterRejects
               PROVE  AnchorError <= HalfDelay + Outlier \/ AnchorError <= HalfDelay + Drift(span)
    BY DEF Recovered
  <2>1. /\ feeds \in Nat /\ LockSamples \in Nat /\ LockSamples > 0 /\ ResetAfterRejects \in Nat
        /\ est.accepted \in 0 .. LockSamples /\ est.rejects \in 0 .. ResetAfterRejects
    BY PllConstants, EstimateFields DEF RecoverInv, EstInv
  <2>2. ~ Unsettled
    BY <2>1 DEF Unsettled
  <2> QED BY <2>2 DEF RecoverInv, Anchored
<1> QED BY <1>1, RecoverInvHolds, EstInvHolds, PTL
=============================================================================
