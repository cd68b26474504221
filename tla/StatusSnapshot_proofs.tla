------------------------ MODULE StatusSnapshot_proofs ------------------------
(***************************************************************************)
(* Proofs about StatusSnapshot, for any number of satellites, slots and      *)
(* rounds, and every interleaving of the mesh task and the reader.            *)
(***************************************************************************)
EXTENDS StatusSnapshot, FiniteSetTheorems, TLAPS
-----------------------------------------------------------------------------
\* Of a finite set of naturals there is a least one: the sets of the elements
\* below an element are ordered by inclusion, and one of them is minimal.
LEMMA MinFacts ==
    ASSUME NEW T \in SUBSET Nat, IsFiniteSet(T), T # {}
    PROVE  Min(T) \in T /\ \A t \in T : Min(T) <= t
<1> DEFINE below(t) == {u \in T : u < t}
           family == {below(t) : t \in T}
           R == StrictSubsetOrdering(T)
<1>1. IsWellFoundedOn(R, SUBSET T)
  BY FS_StrictSubsetOrderingWellFounded, FS_FiniteSubsetsOfFinite
<1>2. family \subseteq SUBSET T /\ family # {}
  OBVIOUS
<1>3. PICK B \in family : \A C \in family : <<C, B>> \notin R
  <2> HIDE DEF family, R
  <2>1. \E B \in family : \A C \in family : ~ (<<C, B>> \in R)
    BY <1>1, <1>2, WFMin
  <2> QED BY <2>1
<1>4. PICK t \in T : B = below(t)
  BY <1>3
<1>5. \A u \in T : t <= u
  <2> SUFFICES ASSUME NEW u \in T, u < t PROVE FALSE
    OBVIOUS
  <2>0. T \subseteq Nat /\ t \in Nat /\ u \in Nat
    OBVIOUS
  <2>1. below(u) \subseteq B /\ u \in B /\ u \notin below(u)
    <3>0. \A w \in Nat : w < u => w < t
      BY <2>0
    <3>1. below(u) \subseteq below(t)
      BY <2>0, <3>0, Zenon
    <3>2. u \in below(t) /\ u \notin below(u)
      BY <2>0
    <3> QED BY <1>4, <3>1, <3>2
  <2>2. <<below(u), B>> \in R
    BY <1>2, <1>3, <2>1 DEF StrictSubsetOrdering
  <2> QED BY <1>3, <2>2
<1> QED BY <1>5 DEF Min

\* The lowest slot of a set of slots is one of them.
LEMMA LowestSlot ==
    ASSUME NEW T \in SUBSET SlotIds, T # {}
    PROVE  Min(T) \in T
<1>1. SlotIds \subseteq Nat /\ IsFiniteSet(SlotIds)
  BY SnapshotAssumption, FS_Interval DEF SlotIds
<1> QED BY <1>1, MinFacts, FS_Subset
-----------------------------------------------------------------------------
(***************************************************************************)
(* Mutual exclusion, and what each task relies on.  Who is at a point of a   *)
(* critical section holds the lock, so a reader that copies sees the MACs    *)
(* and the used flags standing still; a slot that is being filled is free.    *)
(***************************************************************************)
InsideMesh   == {"hi", "lo", "use", "clear"}
InsideReader == {"copy", "unlock"}

LockHeld ==
    /\ mpc \in InsideMesh => lock = "mesh"
    /\ rpc \in InsideReader => lock = "reader"

\* Loops have a slot left to visit.
LoopsGoOn ==
    /\ mpc = "reset" => rest # {}
    /\ rpc = "copy" => snap.todo # {}
    /\ rpc = "unlock" => snap.todo = {}

\* A slot in use holds one satellite, and no other slot holds it.
SlotsAreSatellites ==
    /\ \A i \in Used : table[i].hi = table[i].lo /\ table[i].hi \in Macs
    /\ \A i, j \in Used : table[i].hi = table[j].hi => i = j

Adding == {"add", "hi", "lo", "use"}

\* The slot being filled is free, for a satellite that has none.
AddsNewcomer ==
    /\ mpc \in Adding => cur \notin Used /\ \A i \in Used : table[i].hi # from
    /\ mpc \in {"lo", "use"} => table[cur].hi = from
    /\ mpc = "use" => table[cur].lo = from

\* Only a slot just filled has not been seen.
UnseenIsNew == \A i \in Used : ~ table[i].seen => mpc = "seed" /\ cur = i

\* The copy agrees with the table as long as the lock is held.
CopyIsTable == rpc \in InsideReader =>
    /\ \A e \in snap.entries : /\ e.slot \in Used \ snap.todo
                               /\ e.node.hi = table[e.slot].hi
    /\ \A i \in Used \ snap.todo : \E e \in snap.entries : e.slot = i
    /\ \A e \in snap.entries : ~ e.node.seen /\ mpc = "seed" => e.slot = cur

CopiesAreSatellites ==
    /\ \A e \in snap.entries : e.node.hi = e.node.lo /\ e.node.hi \in Macs
    /\ \A e, f \in snap.entries : e.node.hi = f.node.hi => e = f
    /\ \A e, f \in snap.entries : ~ e.node.seen /\ ~ f.node.seen => e = f
-----------------------------------------------------------------------------
(***************************************************************************)
(* The outcome.  Between the four assignments at the end of a round each     *)
(* value is already the one of the round named first; a quiet reader is       *)
(* never between its reads while the mesh task is between its assignments.    *)
(***************************************************************************)
Good == Expected # {} /\ Acked = Expected

OutcomePublished ==
    /\ mpc \notin Publishing => (lastComplete <=> lastSeq \in outcomes)
    /\ mpc \in Publishing => (Good <=> lastSeq \in outcomes)
    /\ mpc \in {"acks", "complete"} => lastExpected = Cardinality(Expected)
    /\ mpc = "complete" => lastAcked = Cardinality(Acked)

\* Rounds are numbered upwards.
RoundsUpwards ==
    /\ outcomes \subseteq 1 .. lastSeq
    /\ snap.last <= lastSeq
    /\ inRound => lastSeq < active

ReadOutcome == {"lock", "copy", "unlock", "done"}

QuietReads == quiet =>
    /\ rpc \in Reading => mpc \notin Publishing /\ snap.last = lastSeq
    /\ rpc \in ReadOutcome => (snap.complete <=> snap.last \in outcomes)

SnapshotInv ==
    /\ TypeOK
    /\ LockHeld /\ LoopsGoOn
    /\ SlotsAreSatellites /\ AddsNewcomer /\ UnseenIsNew
    /\ CopyIsTable /\ CopiesAreSatellites
    /\ OutcomePublished /\ RoundsUpwards /\ QuietReads
-----------------------------------------------------------------------------
(* What an assignment to one field of one slot does. *)

\* The fields that say which satellite a slot is are left alone.
SameSatellites == \A j \in SlotIds : /\ table'[j].used = table[j].used
                                     /\ table'[j].hi = table[j].hi
                                     /\ table'[j].lo = table[j].lo

\* What a write of one field of a slot leaves: the heard flag, ...
LEMMA SetSeen ==
    ASSUME table \in [SlotIds -> Slot], NEW i \in SlotIds, Set(i, "seen", TRUE)
    PROVE  table'[i].seen
  BY DEF Set, Slot

\* ... a mark of the round, ...
LEMMA SetMark ==
    ASSUME table \in [SlotIds -> Slot], NEW i \in SlotIds,
           Set(i, "seen", TRUE) \/ Set(i, "expected", TRUE) \/ Set(i, "acked", TRUE)
    PROVE  /\ table' \in [SlotIds -> Slot] /\ SameSatellites
           /\ \A j \in SlotIds : table[j].seen => table'[j].seen
           /\ Set(i, "seen", TRUE) => table'[i].seen
  <1>1. CASE Set(i, "seen", TRUE)
    BY <1>1 DEF Set, Slot, SameSatellites
  <1>2. CASE Set(i, "expected", TRUE)
    <2>1. /\ table' \in [SlotIds -> Slot] /\ SameSatellites
          /\ \A j \in SlotIds : table'[j].seen = table[j].seen
      BY <1>2 DEF Set, Slot, SameSatellites
    <2> QED BY <2>1, SetSeen
  <1>3. CASE Set(i, "acked", TRUE)
    <2>1. /\ table' \in [SlotIds -> Slot] /\ SameSatellites
          /\ \A j \in SlotIds : table'[j].seen = table[j].seen
      BY <1>3 DEF Set, Slot, SameSatellites
    <2> QED BY <2>1, SetSeen
  <1> QED BY <1>1, <1>2, <1>3

\* ... either half of the address, ...
LEMMA SetMac ==
    ASSUME table \in [SlotIds -> Slot], NEW i \in SlotIds, NEW m \in Macs
    PROVE  /\ Set(i, "hi", m) =>
                  /\ table' \in [SlotIds -> Slot] /\ table'[i].hi = m
                  /\ table'[i].used = table[i].used /\ table'[i].seen = table[i].seen
                  /\ \A j \in SlotIds \ {i} : table'[j] = table[j]
           /\ Set(i, "lo", m) =>
                  /\ table' \in [SlotIds -> Slot] /\ table'[i].lo = m
                  /\ table'[i].hi = table[i].hi
                  /\ table'[i].used = table[i].used /\ table'[i].seen = table[i].seen
                  /\ \A j \in SlotIds \ {i} : table'[j] = table[j]
  BY DEF Set, Slot, Half

\* ... and the flag that makes the slot visible.
LEMMA SetUsed ==
    ASSUME table \in [SlotIds -> Slot], NEW i \in SlotIds, Set(i, "used", TRUE)
    PROVE  /\ table' \in [SlotIds -> Slot] /\ table'[i].used
           /\ table'[i].hi = table[i].hi /\ table'[i].lo = table[i].lo
           /\ \A j \in SlotIds \ {i} : table'[j] = table[j]
  BY DEF Set, Slot

\* The slots are finitely many, and so are those of a round.
LEMMA SlotSets ==
    /\ SlotIds \subseteq Nat /\ IsFiniteSet(SlotIds) /\ Cardinality(SlotIds) = Slots
    /\ Expected \subseteq SlotIds /\ Acked \subseteq Expected
  <1>1. SlotIds \subseteq Nat /\ IsFiniteSet(SlotIds) /\ Cardinality(SlotIds) = Slots
    BY SnapshotAssumption, FS_Interval DEF SlotIds
  <1> QED BY <1>1 DEF Expected, Acked, Used

\* How many members and acknowledgements there are.
LEMMA Counts ==
    /\ IsFiniteSet(Expected) /\ IsFiniteSet(Acked)
    /\ Cardinality(Expected) \in 0 .. Slots /\ Cardinality(Acked) \in 0 .. Slots
    /\ Good <=> Cardinality(Expected) > 0 /\ Cardinality(Acked) = Cardinality(Expected)
  <1>1. IsFiniteSet(Expected) /\ Cardinality(Expected) <= Slots
    BY SlotSets, FS_Subset
  <1>2. /\ IsFiniteSet(Acked) /\ Cardinality(Acked) <= Cardinality(Expected)
        /\ Cardinality(Acked) = Cardinality(Expected) => Acked = Expected
    BY <1>1, SlotSets, FS_Subset
  <1>3. Cardinality(Expected) \in Nat /\ Cardinality(Acked) \in Nat /\ Slots \in Nat
    BY <1>1, <1>2, FS_CardinalityType, SnapshotAssumption
  <1>4. Expected # {} <=> Cardinality(Expected) > 0
    BY <1>1, <1>3, FS_EmptySet
  <1>5. Cardinality(Expected) \in 0 .. Slots /\ Cardinality(Acked) \in 0 .. Slots
    BY <1>1, <1>2, <1>3
  <1> QED BY <1>1, <1>2, <1>4, <1>5 DEF Good
-----------------------------------------------------------------------------
(* The mesh task: what its steps have in common. *)

\* A step that leaves every slot its satellite leaves the listing as it was; only
\* the slot just filled may be marked seen.
LEMMA KeepsSatellites ==
    ASSUME SnapshotInv, table' \in [SlotIds -> Slot], SameSatellites,
           \A j \in SlotIds : table[j].seen => table'[j].seen,
           mpc = "seed" => table'[cur].seen, mpc' # "seed", UNCHANGED <<rpc, snap>>
    PROVE  /\ Used' = Used
           /\ SlotsAreSatellites' /\ UnseenIsNew' /\ CopyIsTable' /\ CopiesAreSatellites'
  <1>1. Used' = Used /\ Used \subseteq SlotIds
    BY DEF Used, SameSatellites
  <1>2. SlotsAreSatellites'
    BY <1>1 DEF SnapshotInv, SlotsAreSatellites, SameSatellites
  <1>3. UnseenIsNew'
    BY <1>1 DEF SnapshotInv, UnseenIsNew
  <1>4. CopyIsTable'
    BY <1>1 DEF SnapshotInv, CopyIsTable, SameSatellites
  <1>5. CopiesAreSatellites'
    BY DEF SnapshotInv, CopiesAreSatellites
  <1> QED BY <1>1, <1>2, <1>3, <1>4, <1>5

\* A step outside the end of a round leaves the outcome alone.
LEMMA OutcomeSame ==
    ASSUME SnapshotInv, UNCHANGED <<lastVars, outcomes, rpc, snap, quiet>>,
           mpc \notin Publishing, mpc' \notin Publishing,
           UNCHANGED <<active, inRound>> \/ active' = active + 1
    PROVE  OutcomePublished' /\ RoundsUpwards' /\ QuietReads'
  <1>1. OutcomePublished'
    BY DEF SnapshotInv, OutcomePublished, lastVars, Publishing
  <1>2. RoundsUpwards'
    <2>1. lastSeq <= active /\ active \in Nat /\ lastSeq \in Nat
      BY DEF SnapshotInv, TypeOK
    <2>2. inRound' => lastSeq < active'
      <3>1. CASE UNCHANGED <<active, inRound>>
        <4>1. inRound => lastSeq < active
          BY DEF SnapshotInv, RoundsUpwards
        <4> QED BY <3>1, <4>1, Zenon
      <3>2. CASE active' = active + 1
        BY <2>1, <3>2
      <3> QED BY <3>1, <3>2
    <2> QED BY <2>2 DEF SnapshotInv, RoundsUpwards, lastVars
  <1>3. QuietReads'
    BY DEF SnapshotInv, QuietReads, lastVars
  <1> QED BY <1>1, <1>2, <1>3

\* The steps that do not touch the table, outside the end of a round.
LEMMA QuietMeshStep ==
    ASSUME SnapshotInv,
           \/ \E m \in Macs : Receive(m)
           \/ AddLock \/ Evict \/ EvictLock \/ BeginRound
    PROVE  SnapshotInv'
  <1> USE DEF RoundSame, ReaderSame, Goto, lastVars
  <1>t. TypeOK
    BY DEF SnapshotInv
  <1>s. /\ table' = table /\ SameSatellites /\ table' \in [SlotIds -> Slot]
        /\ UNCHANGED <<lastVars, outcomes, rpc, snap, quiet>>
        /\ Used \subseteq SlotIds
    BY <1>t DEF Receive, AddLock, Evict, EvictLock, BeginRound, SameSatellites, TypeOK, Used
  <1>p. mpc \in {"rest", "add", "evict"}
        /\ mpc' \in {"touch", "add", "hi", "evict", "clear", "reset"}
    BY DEF Receive, AddLock, Evict, EvictLock, BeginRound
  <1>a. UNCHANGED <<active, inRound>> \/ (active' = active + 1 /\ inRound' = TRUE)
    BY DEF Receive, AddLock, Evict, EvictLock, BeginRound
  <1>1. OutcomePublished' /\ RoundsUpwards' /\ QuietReads'
    BY <1>s, <1>p, <1>a, OutcomeSame DEF Publishing
  <1>2. Used' = Used /\ SlotsAreSatellites' /\ UnseenIsNew' /\ CopyIsTable' /\ CopiesAreSatellites'
    BY <1>s, <1>p, KeepsSatellites
  <1>c. cur' \in SlotIds /\ from' \in Macs
    <2>1. ASSUME NEW m \in Macs, Receive(m)
          PROVE  cur' \in SlotIds /\ from' \in Macs
      <3> DEFINE mine == {i \in Used : table[i].hi = m /\ table[i].lo = m}
      <3>1. mine # {} => Min(mine) \in SlotIds
        <4>1. mine \subseteq SlotIds
          BY <1>s
        <4> HIDE DEF mine
        <4> QED BY <4>1, LowestSlot
      <3>2. Used # SlotIds => Min(SlotIds \ Used) \in SlotIds
        BY <1>s, LowestSlot
      <3> QED BY <2>1, <3>1, <3>2 DEF Receive
    <2> QED BY <1>t, <1>s, <2>1 DEF AddLock, Evict, EvictLock, BeginRound, TypeOK
  <1>3. LockHeld'
    BY <1>s DEF SnapshotInv, LockHeld, InsideMesh, InsideReader, Acquire, Receive, AddLock, Evict,
       EvictLock, BeginRound
  <1>4. AddsNewcomer'
    <2>1. ASSUME NEW m \in Macs, Receive(m), mpc' = "add"
          PROVE  cur' \notin Used /\ \A i \in Used : table[i].hi # m
      <3> DEFINE mine == {i \in Used : table[i].hi = m /\ table[i].lo = m}
      <3>1. mine = {} /\ Used # SlotIds /\ cur' = Min(SlotIds \ Used)
        BY <2>1 DEF Receive
      <3>2. cur' \in SlotIds \ Used
        BY <1>s, <3>1, LowestSlot
      <3>3. \A i \in Used : table[i].hi # m
        BY <3>1 DEF SnapshotInv, SlotsAreSatellites
      <3> QED BY <3>2, <3>3
    <2>2. CASE \E m \in Macs : Receive(m)
      BY <1>s, <1>2, <2>1, <2>2 DEF Receive, AddsNewcomer, Adding
    <2>3. CASE AddLock
      BY <1>s, <1>2, <2>3 DEF AddLock, SnapshotInv, AddsNewcomer, Adding
    <2>4. CASE Evict \/ EvictLock \/ BeginRound
      BY <2>4 DEF Evict, EvictLock, BeginRound, AddsNewcomer, Adding
    <2> QED BY <2>2, <2>3, <2>4
  <1>5. LoopsGoOn'
    <2>1. SlotIds # {}
      BY SnapshotAssumption DEF SlotIds
    <2> QED BY <1>s, <1>p, <2>1 DEF SnapshotInv, LoopsGoOn, BeginRound, Receive, AddLock, Evict, EvictLock
  <1>6. TypeOK'
    <2>1. lock' \in {"none", "mesh", "reader"} /\ mpc' \in MeshPoints
          /\ rest' \subseteq SlotIds /\ inRound' \in BOOLEAN
      BY <1>t DEF TypeOK, Receive, AddLock, Evict, EvictLock, BeginRound, Acquire, MeshPoints
    <2>2. active' \in Nat /\ lastSeq' \in 0 .. active' /\ outcomes' \subseteq 1 .. active'
      <3>1. active \in Nat /\ lastSeq \in 0 .. active /\ outcomes \subseteq 1 .. active
        BY <1>t DEF TypeOK
      <3> QED BY <1>s, <1>a, <3>1
    <2> QED BY <1>t, <1>s, <1>c, <2>1, <2>2 DEF TypeOK
  <1> QED BY <1>1, <1>2, <1>3, <1>4, <1>5, <1>6 DEF SnapshotInv

\* The steps that mark a slot: it stays the satellite it is.
LEMMA MarkStep ==
    ASSUME SnapshotInv, Seed \/ Touch \/ Join \/ Ack \/ ResetSlot
    PROVE  SnapshotInv'
  <1> USE DEF RoundSame, ReaderSame, Goto, lastVars
  <1>t. TypeOK
    BY DEF SnapshotInv
  <1>s. /\ UNCHANGED <<lock, cur, from, inRound, active, lastVars, outcomes, rpc, snap, quiet>>
        /\ mpc \in {"seed", "touch", "join", "ack", "reset"}
        /\ mpc' \in {"touch", "rest", "ack", "join", "reset"}
    BY DEF Seed, Touch, Join, Ack, ResetSlot
  <1>m. table \in [SlotIds -> Slot] /\ cur \in SlotIds /\ rest \subseteq SlotIds
    BY <1>t DEF TypeOK
  <1>r. ASSUME ResetSlot
        PROVE  /\ table' \in [SlotIds -> Slot] /\ SameSatellites
               /\ \A j \in SlotIds : table'[j].seen = table[j].seen
               /\ rest' \subseteq SlotIds /\ (mpc' = "reset" => rest' # {})
    <2> DEFINE i == Min(rest)
    <2>1. rest # {}
      BY <1>r DEF SnapshotInv, LoopsGoOn, ResetSlot
    <2>2. i \in rest /\ i \in SlotIds
      <3>1. Min(rest) \in rest
        BY <1>m, <2>1, LowestSlot
      <3> QED BY <1>m, <3>1
    <2>3. /\ table' = [table EXCEPT ![i].expected = table[i].used, ![i].acked = FALSE]
          /\ rest' = rest \ {i} /\ mpc' = IF rest = {i} THEN "rest" ELSE "reset"
      BY <1>r DEF ResetSlot
    <2> HIDE DEF i
    <2>4. table'[i] = [table[i] EXCEPT !.expected = table[i].used, !.acked = FALSE]
          /\ \A j \in SlotIds \ {i} : table'[j] = table[j]
      BY <1>m, <2>2, <2>3
    <2>5. table[i] \in Slot
      BY <1>m, <2>2
    <2>6. table'[i] \in Slot /\ table'[i].used = table[i].used /\ table'[i].hi = table[i].hi
          /\ table'[i].lo = table[i].lo /\ table'[i].seen = table[i].seen
      BY <2>4, <2>5 DEF Slot
    <2>7. table' \in [SlotIds -> Slot]
      BY <1>m, <2>3, <2>4, <2>6
    <2>8. rest' \subseteq SlotIds /\ (mpc' = "reset" => rest' # {})
      BY <1>m, <2>2, <2>3
    <2> QED BY <2>4, <2>6, <2>7, <2>8 DEF SameSatellites
  <1>k. ASSUME Seed \/ Touch \/ Join \/ Ack
        PROVE  /\ table' \in [SlotIds -> Slot] /\ SameSatellites
               /\ \A j \in SlotIds : table[j].seen => table'[j].seen
               /\ mpc = "seed" => table'[cur].seen
               /\ rest' = rest /\ mpc' # "reset"
    BY <1>k, <1>m, SetMark DEF Seed, Touch, Join, Ack
  <1>g. /\ table' \in [SlotIds -> Slot] /\ SameSatellites
        /\ \A j \in SlotIds : table[j].seen => table'[j].seen
        /\ mpc = "seed" => table'[cur].seen
        /\ rest' \subseteq SlotIds /\ (mpc' = "reset" => rest' # {})
    <2>1. CASE ResetSlot
      BY <2>1, <1>r DEF ResetSlot
    <2>2. CASE Seed \/ Touch \/ Join \/ Ack
      BY <2>2, <1>k, <1>m
    <2> QED BY <2>1, <2>2
  <1>1. OutcomePublished' /\ RoundsUpwards' /\ QuietReads'
    BY <1>s, OutcomeSame DEF Publishing
  <1>2. SlotsAreSatellites' /\ UnseenIsNew' /\ CopyIsTable' /\ CopiesAreSatellites'
    BY <1>s, <1>g, KeepsSatellites
  <1>3. LockHeld'
    BY <1>s DEF SnapshotInv, LockHeld, InsideMesh, InsideReader
  <1>4. AddsNewcomer'
    BY <1>s DEF AddsNewcomer, Adding
  <1>5. LoopsGoOn'
    BY <1>s, <1>g DEF SnapshotInv, LoopsGoOn
  <1>6. TypeOK'
    BY <1>t, <1>s, <1>g DEF TypeOK, MeshPoints
  <1> QED BY <1>1, <1>2, <1>3, <1>4, <1>5, <1>6 DEF SnapshotInv

\* The steps inside a critical section: no reader is copying, the slot is free
\* until it is a whole satellite, and free again as a whole.
LEMMA LockedStep ==
    ASSUME SnapshotInv, AddHi \/ AddLo \/ AddUse \/ Clear
    PROVE  SnapshotInv'
  <1> USE DEF RoundSame, ReaderSame, Goto, lastVars
  <1>t. TypeOK
    BY DEF SnapshotInv
  <1>s. /\ UNCHANGED <<cur, from, rest, inRound, active, lastVars, outcomes, rpc, snap, quiet>>
        /\ mpc \in InsideMesh /\ mpc' \in {"lo", "use", "seed", "rest"}
    BY DEF AddHi, AddLo, AddUse, Clear, InsideMesh
  <1>m. table \in [SlotIds -> Slot] /\ cur \in SlotIds /\ from \in Macs
    BY <1>t DEF TypeOK
  <1>l. lock = "mesh" /\ rpc \notin InsideReader
    BY <1>s DEF SnapshotInv, LockHeld
  <1>1. OutcomePublished' /\ RoundsUpwards' /\ QuietReads'
    BY <1>s, OutcomeSame DEF Publishing, InsideMesh
  <1>2. CopyIsTable' /\ CopiesAreSatellites'
    BY <1>s, <1>l DEF SnapshotInv, CopyIsTable, CopiesAreSatellites
  <1>3. LockHeld'
    BY <1>s, <1>l DEF LockHeld, InsideMesh, AddHi, AddLo, AddUse, Clear, Release
  <1>4. LoopsGoOn'
    BY <1>s DEF SnapshotInv, LoopsGoOn
  <1>5. lock' \in {"none", "mesh", "reader"}
    BY <1>l DEF AddHi, AddLo, AddUse, Clear, Release
  <1>6. ASSUME table' \in [SlotIds -> Slot]
        PROVE  TypeOK'
    BY <1>t, <1>s, <1>5, <1>6 DEF TypeOK, MeshPoints
  <1>7. CASE AddHi \/ AddLo
    <2>1. /\ table' \in [SlotIds -> Slot]
          /\ table'[cur].used = table[cur].used
          /\ \A j \in SlotIds \ {cur} : table'[j] = table[j]
      BY <1>7, <1>m, SetMac DEF AddHi, AddLo
    <2>2. cur \notin Used /\ \A i \in Used : table[i].hi # from
      BY <1>7 DEF SnapshotInv, AddsNewcomer, Adding, AddHi, AddLo
    <2>3. Used' = Used /\ \A i \in Used : table'[i] = table[i]
      BY <1>m, <2>1, <2>2 DEF Used
    <2>4. SlotsAreSatellites' /\ UnseenIsNew'
      <3>1. mpc # "seed"
        BY <1>s DEF InsideMesh
      <3> QED BY <2>3, <3>1 DEF SnapshotInv, SlotsAreSatellites, UnseenIsNew
    <2>5. AddsNewcomer'
      <3>1. CASE AddHi
        <4>1. table'[cur].hi = from /\ mpc' = "lo"
          BY <3>1, <1>m, SetMac DEF AddHi
        <4> QED BY <1>s, <2>2, <2>3, <4>1 DEF AddsNewcomer
      <3>2. CASE AddLo
        <4>1. table[cur].hi = from
          BY <3>2 DEF AddLo, SnapshotInv, AddsNewcomer
        <4>2. table'[cur].hi = from /\ table'[cur].lo = from
          BY <3>2, <4>1, <1>m, SetMac DEF AddLo
        <4> QED BY <1>s, <2>2, <2>3, <4>2 DEF AddsNewcomer
      <3> QED BY <1>7, <3>1, <3>2
    <2> QED BY <1>1, <1>2, <1>3, <1>4, <1>6, <2>1, <2>4, <2>5 DEF SnapshotInv
  <1>8. CASE AddUse
    <2>1. /\ table' \in [SlotIds -> Slot] /\ table'[cur].used
          /\ table'[cur].hi = from /\ table'[cur].lo = from
          /\ \A j \in SlotIds \ {cur} : table'[j] = table[j]
      BY <1>8, <1>m, SetUsed DEF AddUse, SnapshotInv, AddsNewcomer
    <2>2. cur \notin Used /\ \A i \in Used : table[i].hi # from
      BY <1>8 DEF SnapshotInv, AddsNewcomer, Adding, AddUse
    <2>3. Used' = Used \cup {cur} /\ \A i \in Used : table'[i] = table[i]
      BY <1>m, <2>1, <2>2 DEF Used
    <2>4. SlotsAreSatellites'
      BY <1>m, <2>1, <2>2, <2>3 DEF SnapshotInv, SlotsAreSatellites
    <2>5. UnseenIsNew' /\ AddsNewcomer'
      <3>1. mpc = "use" /\ mpc' = "seed" /\ cur' = cur
        BY <1>8 DEF AddUse
      <3> QED BY <2>3, <3>1 DEF SnapshotInv, UnseenIsNew, AddsNewcomer, Adding
    <2> QED BY <1>1, <1>2, <1>3, <1>4, <1>6, <2>1, <2>4, <2>5 DEF SnapshotInv
  <1>9. CASE Clear
    <2>1. table' = [table EXCEPT ![cur] = Free] /\ mpc = "clear" /\ mpc' = "rest"
      BY <1>9 DEF Clear
    <2>2. Free \in Slot /\ ~ Free.used
      BY DEF Free, Slot, Half
    <2>3. table' \in [SlotIds -> Slot] /\ Used' \subseteq Used /\ \A i \in Used' : table'[i] = table[i]
      BY <1>m, <2>1, <2>2 DEF Used
    <2>4. SlotsAreSatellites' /\ UnseenIsNew' /\ AddsNewcomer'
      BY <2>1, <2>3 DEF SnapshotInv, SlotsAreSatellites, UnseenIsNew, AddsNewcomer, Adding
    <2> QED BY <1>1, <1>2, <1>3, <1>4, <1>6, <2>3, <2>4 DEF SnapshotInv
  <1> QED BY <1>7, <1>8, <1>9

\* The end of a round: the outcome of the round is settled by the first of the
\* assignments, as the table stands still until the last.
LEMMA FinishStep ==
    ASSUME SnapshotInv, FinishSeq \/ FinishExpected \/ FinishAcked \/ FinishComplete
    PROVE  SnapshotInv'
  <1> USE DEF RoundSame, ReaderSame, Goto
  <1>t. TypeOK
    BY DEF SnapshotInv
  <1>s. /\ UNCHANGED <<table, lock, cur, from, rest, active, rpc, snap>>
        /\ mpc \in {"rest", "count", "acks", "complete"}
        /\ mpc' \in {"rest", "count", "acks", "complete"}
        /\ table' \in [SlotIds -> Slot] /\ SameSatellites
    BY <1>t DEF FinishSeq, FinishExpected, FinishAcked, FinishComplete, SameSatellites, TypeOK
  <1>g. Expected' = Expected /\ Acked' = Acked /\ (Good' <=> Good)
    BY <1>s DEF Expected, Acked, Used, Good
  <1>n. /\ active \in Nat /\ lastSeq \in 0 .. active /\ outcomes \subseteq 1 .. lastSeq
        /\ inRound => lastSeq < active
    BY <1>t DEF TypeOK, SnapshotInv, RoundsUpwards
  <1>1. SlotsAreSatellites' /\ UnseenIsNew' /\ CopyIsTable' /\ CopiesAreSatellites'
    BY <1>s, KeepsSatellites
  <1>2. LockHeld'
    BY <1>s DEF SnapshotInv, LockHeld, InsideMesh
  <1>3. AddsNewcomer' /\ LoopsGoOn'
    BY <1>s DEF SnapshotInv, AddsNewcomer, Adding, LoopsGoOn
  <1>4. CASE FinishSeq
    <2>1. /\ mpc = "rest" /\ inRound /\ inRound' = FALSE /\ lastSeq' = active /\ mpc' = "count"
          /\ UNCHANGED <<lastExpected, lastAcked, lastComplete>>
          /\ quiet' = (quiet /\ rpc \notin Reading)
      BY <1>4 DEF FinishSeq
    <2>2. /\ Good => outcomes' = outcomes \cup {active}
          /\ ~ Good => outcomes' = outcomes
      BY <1>4 DEF FinishSeq, Good
    <2>3. active \notin outcomes /\ active \in 1 .. active
      BY <1>n, <2>1
    <2>4. outcomes' \subseteq 1 .. active /\ (Good <=> active \in outcomes')
      <3>1. 1 .. lastSeq \subseteq 1 .. active
        BY <1>n
      <3>2. outcomes \subseteq 1 .. active
        BY <1>n, <3>1
      <3>3. CASE Good
        BY <2>2, <2>3, <3>2, <3>3
      <3>4. CASE ~ Good
        BY <2>2, <2>3, <3>2, <3>4
      <3> QED BY <3>3, <3>4
    <2>5. OutcomePublished'
      BY <1>g, <2>1, <2>4 DEF OutcomePublished, Publishing
    <2>6. RoundsUpwards'
      <3>1. snap.last \in Nat /\ snap.last <= lastSeq
        BY <1>t DEF TypeOK, Status, SnapshotInv, RoundsUpwards
      <3>2. snap.last <= active
        BY <1>n, <3>1
      <3> QED BY <1>s, <2>1, <2>4, <3>2 DEF RoundsUpwards
    <2>7. QuietReads'
      <3>1. snap.last \in Nat /\ snap.last <= lastSeq
        BY <1>t DEF TypeOK, Status, SnapshotInv, RoundsUpwards
      <3>2. snap.last # active
        BY <1>n, <2>1, <3>1
      <3>3. snap.last \in outcomes' <=> snap.last \in outcomes
        BY <2>2, <3>2
      <3> QED BY <1>s, <2>1, <3>3 DEF SnapshotInv, QuietReads
    <2>8. TypeOK'
      <3>1. lastSeq' \in 0 .. active' /\ active' \in Nat /\ outcomes' \subseteq 1 .. active'
        BY <1>n, <1>s, <2>1, <2>4
      <3>2. quiet' \in BOOLEAN /\ inRound' \in BOOLEAN
        BY <2>1
      <3> QED BY <1>t, <1>s, <2>1, <3>1, <3>2 DEF TypeOK, MeshPoints
    <2> QED BY <1>1, <1>2, <1>3, <2>5, <2>6, <2>7, <2>8 DEF SnapshotInv
  <1>5. CASE FinishExpected \/ FinishAcked \/ FinishComplete
    <2>1. UNCHANGED <<inRound, lastSeq, outcomes, quiet>> /\ mpc \in Publishing
      BY <1>5 DEF FinishExpected, FinishAcked, FinishComplete, Publishing
    <2>2. RoundsUpwards'
      BY <1>s, <2>1 DEF SnapshotInv, RoundsUpwards
    <2>3. QuietReads'
      BY <1>s, <2>1 DEF SnapshotInv, QuietReads
    <2>4. Good <=> lastSeq \in outcomes
      BY <2>1 DEF SnapshotInv, OutcomePublished
    <2>5. CASE FinishExpected
      <3>1. /\ lastExpected' = Cardinality(Expected) /\ mpc' = "acks"
            /\ UNCHANGED <<lastAcked, lastComplete>>
        BY <2>5 DEF FinishExpected
      <3>2. OutcomePublished'
        BY <1>g, <2>1, <2>4, <3>1 DEF OutcomePublished, Publishing
      <3>3. TypeOK'
        BY <1>t, <1>s, <2>1, <3>1, Counts DEF TypeOK, MeshPoints
      <3> QED BY <1>1, <1>2, <1>3, <2>2, <2>3, <3>2, <3>3 DEF SnapshotInv
    <2>6. CASE FinishAcked
      <3>1. /\ lastAcked' = Cardinality(Acked) /\ mpc = "acks" /\ mpc' = "complete"
            /\ UNCHANGED <<lastExpected, lastComplete>>
        BY <2>6 DEF FinishAcked
      <3>2. OutcomePublished'
        BY <1>g, <2>1, <2>4, <3>1 DEF SnapshotInv, OutcomePublished, Publishing
      <3>3. TypeOK'
        BY <1>t, <1>s, <2>1, <3>1, Counts DEF TypeOK, MeshPoints
      <3> QED BY <1>1, <1>2, <1>3, <2>2, <2>3, <3>2, <3>3 DEF SnapshotInv
    <2>7. CASE FinishComplete
      <3>1. /\ mpc = "complete" /\ mpc' = "rest" /\ lastComplete' = AllAcked
            /\ UNCHANGED <<lastExpected, lastAcked>>
        BY <2>7 DEF FinishComplete
      <3>2. AllAcked <=> Good
        <4>1. lastExpected = Cardinality(Expected) /\ lastAcked = Cardinality(Acked)
          BY <3>1 DEF SnapshotInv, OutcomePublished
        <4> QED BY <4>1, Counts DEF AllAcked
      <3>3. OutcomePublished'
        BY <2>1, <2>4, <3>1, <3>2 DEF OutcomePublished, Publishing
      <3>4. TypeOK'
        <4>1. lastComplete' \in BOOLEAN
          BY <3>1 DEF AllAcked
        <4> QED BY <1>t, <1>s, <2>1, <3>1, <4>1 DEF TypeOK, MeshPoints
      <3> QED BY <1>1, <1>2, <1>3, <2>2, <2>3, <3>3, <3>4 DEF SnapshotInv
    <2> QED BY <1>5, <2>5, <2>6, <2>7
  <1> QED BY <1>4, <1>5
-----------------------------------------------------------------------------
(* The reader. *)

\* What the reader leaves alone.
LEMMA ReaderKeeps ==
    ASSUME SnapshotInv, MeshSame
    PROVE  /\ SlotsAreSatellites' /\ AddsNewcomer' /\ UnseenIsNew' /\ OutcomePublished'
           /\ Used' = Used
  BY DEF SnapshotInv, MeshSame, meshVars, lastVars, SlotsAreSatellites, AddsNewcomer,
     UnseenIsNew, OutcomePublished, Good, Expected, Acked, Used

\* The four reads of the outcome.
LEMMA OutcomeRead ==
    ASSUME SnapshotInv, ReadLast \/ ReadExpected \/ ReadAcked \/ ReadComplete
    PROVE  SnapshotInv'
  <1> USE DEF MeshSame, meshVars, lastVars
  <1>t. TypeOK
    BY DEF SnapshotInv
  <1>k. /\ MeshSame /\ SlotsAreSatellites' /\ AddsNewcomer' /\ UnseenIsNew' /\ OutcomePublished'
        /\ Used' = Used
    <2>1. MeshSame
      BY DEF ReadLast, ReadExpected, ReadAcked, ReadComplete, Read
    <2> QED BY <2>1, ReaderKeeps
  <1>y. /\ snap \in Status /\ lastSeq \in Nat /\ lastExpected \in Nat /\ lastAcked \in Nat
        /\ lastComplete \in BOOLEAN
    BY <1>t, SnapshotAssumption DEF TypeOK
  <1>s. /\ lock' = lock /\ rpc \notin InsideReader /\ rpc' \in {"expected", "acked", "complete", "lock"}
        /\ snap' \in Status /\ snap'.entries = snap.entries /\ snap'.todo = snap.todo
        /\ quiet' \in BOOLEAN
    <2>1. CASE ReadLast
      BY <1>t, <1>y, <2>1 DEF ReadLast, Read, Status, InsideReader
    <2>2. CASE ReadExpected
      BY <1>t, <1>y, <2>2 DEF ReadExpected, Read, Status, InsideReader, TypeOK
    <2>3. CASE ReadAcked
      BY <1>t, <1>y, <2>3 DEF ReadAcked, Read, Status, InsideReader, TypeOK
    <2>4. CASE ReadComplete
      BY <1>t, <1>y, <2>4 DEF ReadComplete, Read, Status, InsideReader, TypeOK
    <2> QED BY <2>1, <2>2, <2>3, <2>4
  <1>1. LockHeld' /\ LoopsGoOn' /\ CopyIsTable'
    BY <1>k, <1>s DEF SnapshotInv, LockHeld, LoopsGoOn, CopyIsTable, InsideMesh, InsideReader
  <1>2. CopiesAreSatellites'
    BY <1>s DEF SnapshotInv, CopiesAreSatellites
  <1>3. RoundsUpwards' /\ QuietReads'
    <2>1. CASE ReadLast
      <3>1. snap'.last = lastSeq /\ (quiet' => mpc \notin Publishing) /\ rpc' = "expected"
        BY <1>y, <2>1 DEF ReadLast, Read, Status
      <3> QED BY <1>k, <1>y, <3>1 DEF SnapshotInv, RoundsUpwards, QuietReads, ReadOutcome
    <2>2. CASE ReadExpected \/ ReadAcked
      <3>1. snap'.last = snap.last /\ quiet' = quiet /\ rpc \in Reading /\ rpc' \in {"acked", "complete"}
        BY <1>y, <2>2 DEF ReadExpected, ReadAcked, Read, Status, Reading
      <3> QED BY <1>k, <3>1 DEF SnapshotInv, RoundsUpwards, QuietReads, ReadOutcome
    <2>3. CASE ReadComplete
      <3>1. /\ snap'.last = snap.last /\ snap'.complete = lastComplete /\ quiet' = quiet
            /\ rpc \in Reading /\ rpc' = "lock"
        BY <1>y, <2>3 DEF ReadComplete, Read, Status, Reading
      <3>2. quiet => (lastComplete <=> snap.last \in outcomes)
        BY <3>1 DEF SnapshotInv, QuietReads, OutcomePublished
      <3>3. RoundsUpwards'
        BY <1>k, <3>1 DEF SnapshotInv, RoundsUpwards
      <3>4. QuietReads'
        BY <1>k, <3>1, <3>2 DEF QuietReads, Reading
      <3> QED BY <3>3, <3>4
    <2> QED BY <2>1, <2>2, <2>3
  <1>4. TypeOK'
    BY <1>t, <1>k, <1>s DEF TypeOK, ReaderPoints
  <1> QED BY <1>k, <1>1, <1>2, <1>3, <1>4 DEF SnapshotInv

\* The copy of the table, under the lock.
LEMMA CopyStep ==
    ASSUME SnapshotInv, ReaderLock \/ CopySlot \/ ReaderUnlock \/ Return
    PROVE  SnapshotInv'
  <1> USE DEF MeshSame, meshVars, lastVars
  <1>t. TypeOK
    BY DEF SnapshotInv
  <1>k. /\ MeshSame /\ SlotsAreSatellites' /\ AddsNewcomer' /\ UnseenIsNew' /\ OutcomePublished'
        /\ Used' = Used /\ Used \subseteq SlotIds
    <2>1. MeshSame
      BY DEF ReaderLock, CopySlot, ReaderUnlock, Return
    <2> QED BY <2>1, ReaderKeeps DEF Used
  <1>y. snap \in Status /\ table \in [SlotIds -> Slot]
    BY <1>t DEF TypeOK
  <1>q. quiet' = quiet /\ rpc' \notin Reading
    BY DEF ReaderLock, CopySlot, ReaderUnlock, Return, Reading
  \* The reads of the outcome stay what they were until the call returns.
  <1>o. ASSUME snap'.last = snap.last, snap'.complete = snap.complete, rpc \in ReadOutcome
        PROVE  RoundsUpwards' /\ QuietReads'
    BY <1>k, <1>q, <1>o DEF SnapshotInv, RoundsUpwards, QuietReads
  <1>1. CASE ReaderLock
    <2>1. /\ lock = "none" /\ lock' = "reader" /\ rpc = "lock" /\ rpc' = "copy"
          /\ snap' = [snap EXCEPT !.todo = SlotIds, !.entries = {}]
      BY <1>1 DEF ReaderLock, Acquire
    <2>2. /\ snap' \in Status /\ snap'.todo = SlotIds /\ snap'.entries = {}
          /\ snap'.last = snap.last /\ snap'.complete = snap.complete
      BY <1>y, <2>1 DEF Status
    <2>3. LockHeld'
      BY <1>k, <2>1 DEF SnapshotInv, LockHeld
    <2>4. LoopsGoOn'
      <3>1. SlotIds # {}
        BY SnapshotAssumption DEF SlotIds
      <3> QED BY <1>k, <2>1, <2>2, <3>1 DEF SnapshotInv, LoopsGoOn
    <2>5. CopyIsTable' /\ CopiesAreSatellites'
      BY <1>k, <2>2 DEF CopyIsTable, CopiesAreSatellites
    <2>6. RoundsUpwards' /\ QuietReads'
      BY <1>o, <2>1, <2>2 DEF ReadOutcome
    <2>7. TypeOK'
      BY <1>t, <1>k, <1>q, <2>1, <2>2 DEF TypeOK, ReaderPoints
    <2> QED BY <1>k, <2>3, <2>4, <2>5, <2>6, <2>7 DEF SnapshotInv
  <1>2. CASE CopySlot
    <2> DEFINE i == Min(snap.todo)
               e == [slot |-> i, node |-> table[i]]
    <2>1. /\ rpc = "copy" /\ lock' = lock /\ lock = "reader" /\ snap.todo # {}
          /\ snap.todo \subseteq SlotIds
      BY <1>2, <1>y DEF CopySlot, SnapshotInv, LockHeld, LoopsGoOn, InsideReader, Status
    <2>2. i \in snap.todo /\ i \in SlotIds
      <3>1. Min(snap.todo) \in snap.todo
        BY <2>1, LowestSlot
      <3> QED BY <2>1, <3>1
    <2>3. /\ snap' = [snap EXCEPT !.todo = @ \ {i},
                            !.entries = IF table[i].used THEN @ \cup {e} ELSE @]
          /\ rpc' = IF snap.todo = {i} THEN "unlock" ELSE "copy"
      BY <1>2 DEF CopySlot
    <2>4. /\ e \in [slot : SlotIds, node : Slot] /\ e.slot = i /\ e.node = table[i]
          /\ e.node.hi = table[i].hi /\ e.node.lo = table[i].lo /\ e.node.seen = table[i].seen
      BY <1>y, <2>2
    <2> HIDE DEF e, i
    <2>5. /\ snap'.todo = snap.todo \ {i}
          /\ snap'.last = snap.last /\ snap'.complete = snap.complete
          /\ i \in Used => snap'.entries = snap.entries \cup {e}
          /\ i \notin Used => snap'.entries = snap.entries
          /\ snap' \in Status
      <3>1. CASE table[i].used
        <4>1. snap' = [snap EXCEPT !.todo = @ \ {i}, !.entries = @ \cup {e}] /\ i \in Used
          BY <2>2, <2>3, <3>1 DEF Used
        <4> QED BY <1>y, <2>4, <4>1 DEF Status
      <3>2. CASE ~ table[i].used
        <4>1. snap' = [snap EXCEPT !.todo = @ \ {i}] /\ i \notin Used
          BY <1>y, <2>3, <3>2 DEF Used, Status
        <4> QED BY <1>y, <4>1 DEF Status
      <3> QED BY <3>1, <3>2
    <2>c. /\ \A f \in snap.entries : /\ f.slot \in Used \ snap.todo
                                     /\ f.node.hi = table[f.slot].hi
          /\ \A j \in Used \ snap.todo : \E f \in snap.entries : f.slot = j
          /\ \A f \in snap.entries : ~ f.node.seen /\ mpc = "seed" => f.slot = cur
      BY <2>1 DEF SnapshotInv, CopyIsTable, InsideReader
    <2>6. CopyIsTable'
      <3>1. \A f \in snap'.entries : /\ f.slot \in Used \ snap'.todo
                                     /\ f.node.hi = table[f.slot].hi
        BY <2>2, <2>4, <2>5, <2>c
      <3>2. \A j \in Used \ snap'.todo : \E f \in snap'.entries : f.slot = j
        BY <2>4, <2>5, <2>c
      <3>3. \A f \in snap'.entries : ~ f.node.seen /\ mpc = "seed" => f.slot = cur
        <4>1. i \in Used => (~ table[i].seen => mpc = "seed" /\ cur = i)
          BY DEF SnapshotInv, UnseenIsNew
        <4> QED BY <2>4, <2>5, <2>c, <4>1
      <3> QED BY <1>k, <3>1, <3>2, <3>3 DEF CopyIsTable
    <2>7. CopiesAreSatellites'
      <3>1. CASE i \notin Used
        BY <2>5, <3>1 DEF SnapshotInv, CopiesAreSatellites
      <3>2. CASE i \in Used
        <4>1. table[i].hi = table[i].lo /\ table[i].hi \in Macs
          BY <3>2 DEF SnapshotInv, SlotsAreSatellites
        <4>2. \A f \in snap.entries : f.node.hi # e.node.hi
          <5> SUFFICES ASSUME NEW f \in snap.entries, f.node.hi = e.node.hi PROVE FALSE
            OBVIOUS
          <5>1. f.slot \in Used /\ f.slot # i /\ table[f.slot].hi = table[i].hi
            BY <2>2, <2>4, <2>c
          <5> QED BY <3>2, <5>1 DEF SnapshotInv, SlotsAreSatellites
        \* An unseen slot is the one just filled, and no other was before it.
        <4>3. \A f \in snap.entries : f.node.seen \/ e.node.seen
          <5> SUFFICES ASSUME NEW f \in snap.entries, ~ f.node.seen, ~ table[i].seen PROVE FALSE
            BY <2>4
          <5>1. mpc = "seed" /\ cur = i
            BY <3>2 DEF SnapshotInv, UnseenIsNew
          <5>2. f.slot = i /\ f.slot \notin snap.todo
            BY <2>c, <5>1
          <5> QED BY <2>2, <5>2
        <4> QED BY <2>4, <2>5, <3>2, <4>1, <4>2, <4>3 DEF SnapshotInv, CopiesAreSatellites
      <3> QED BY <3>1, <3>2
    <2>8. LockHeld' /\ LoopsGoOn'
      BY <1>k, <2>1, <2>2, <2>3, <2>5 DEF SnapshotInv, LockHeld, LoopsGoOn
    <2>9. RoundsUpwards' /\ QuietReads'
      BY <1>o, <2>1, <2>5 DEF ReadOutcome
    <2>10. TypeOK'
      BY <1>t, <1>k, <1>q, <2>1, <2>3, <2>5 DEF TypeOK, ReaderPoints
    <2> QED BY <1>k, <2>6, <2>7, <2>8, <2>9, <2>10 DEF SnapshotInv
  <1>3. CASE ReaderUnlock
    <2>1. lock = "reader" /\ lock' = "none" /\ rpc = "unlock" /\ rpc' = "done" /\ snap' = snap
      BY <1>3 DEF ReaderUnlock, Release, SnapshotInv, LockHeld, InsideReader
    <2>2. LockHeld' /\ LoopsGoOn' /\ CopyIsTable'
      BY <1>k, <2>1 DEF SnapshotInv, LockHeld, LoopsGoOn, CopyIsTable, InsideReader
    <2>3. CopiesAreSatellites'
      BY <2>1 DEF SnapshotInv, CopiesAreSatellites
    <2>4. RoundsUpwards' /\ QuietReads'
      BY <1>o, <2>1 DEF ReadOutcome
    <2>5. TypeOK'
      BY <1>t, <1>k, <1>q, <2>1 DEF TypeOK, ReaderPoints
    <2> QED BY <1>k, <2>2, <2>3, <2>4, <2>5 DEF SnapshotInv
  <1>4. CASE Return
    <2>1. /\ lock' = lock /\ rpc = "done" /\ rpc' = "start" /\ snap' = NoStatus
      BY <1>4 DEF Return
    <2>2. /\ NoStatus \in Status /\ NoStatus.entries = {} /\ NoStatus.last = 0
      BY DEF NoStatus, Status
    <2>3. LockHeld' /\ LoopsGoOn' /\ CopyIsTable' /\ CopiesAreSatellites'
      BY <1>k, <2>1, <2>2 DEF SnapshotInv, LockHeld, LoopsGoOn, CopyIsTable, CopiesAreSatellites,
         InsideReader
    <2>4. RoundsUpwards' /\ QuietReads'
      <3>1. lastSeq \in Nat
        BY <1>t DEF TypeOK
      <3> QED BY <1>k, <2>1, <2>2, <3>1 DEF SnapshotInv, RoundsUpwards, QuietReads, Reading, ReadOutcome
    <2>5. TypeOK'
      BY <1>t, <1>k, <1>q, <2>1, <2>2 DEF TypeOK, ReaderPoints
    <2> QED BY <1>k, <2>3, <2>4, <2>5 DEF SnapshotInv
  <1> QED BY <1>1, <1>2, <1>3, <1>4

\* The table is empty and nobody reads it.
LEMMA InitSnapshotInv == Init => SnapshotInv
  <1> SUFFICES ASSUME Init PROVE SnapshotInv
    OBVIOUS
  <1>1. Free \in Slot /\ ~ Free.used
    BY DEF Free, Slot, Half
  <1>2. Used = {} /\ Expected = {}
    BY <1>1 DEF Init, Used, Expected
  <1>3. NoStatus \in Status /\ NoStatus.entries = {} /\ NoStatus.last = 0
    BY DEF NoStatus, Status
  <1>4. TypeOK
    <2>1. 1 \in SlotIds /\ 0 \in 0 .. Slots
      BY SnapshotAssumption DEF SlotIds
    <2>2. table \in [SlotIds -> Slot]
      BY <1>1 DEF Init
    <2>3. snap \in Status
      BY <1>3 DEF Init
    <2>4. /\ lock \in {"none", "mesh", "reader"} /\ mpc \in MeshPoints
          /\ cur \in SlotIds /\ from \in Macs /\ rest \subseteq SlotIds
          /\ inRound \in BOOLEAN /\ lastComplete \in BOOLEAN
          /\ outcomes \subseteq 1 .. active /\ rpc \in ReaderPoints /\ quiet \in BOOLEAN
      BY <2>1 DEF Init, MeshPoints, ReaderPoints
    <2>5. active \in Nat /\ lastSeq \in 0 .. active /\ lastExpected \in 0 .. Slots
          /\ lastAcked \in 0 .. Slots
      BY <2>1 DEF Init
    <2> QED BY <2>2, <2>3, <2>4, <2>5 DEF TypeOK
  <1> QED BY <1>2, <1>3, <1>4
          DEF Init, SnapshotInv, LockHeld, LoopsGoOn, SlotsAreSatellites, AddsNewcomer,
              UnseenIsNew, CopyIsTable, CopiesAreSatellites, OutcomePublished, RoundsUpwards,
              QuietReads, InsideMesh, InsideReader, Adding, Publishing, Reading, ReadOutcome
-----------------------------------------------------------------------------
\* All of it together holds in every state, so the mesh task and the reader are
\* never both in a critical section.
THEOREM SnapshotInvariant == Spec => []SnapshotInv
<1>1. SnapshotInv /\ [Next]_vars => SnapshotInv'
  <2> SUFFICES ASSUME SnapshotInv, [Next]_vars PROVE SnapshotInv'
    OBVIOUS
  <2>1. CASE MeshStep
    BY <2>1, QuietMeshStep, MarkStep, LockedStep, FinishStep DEF MeshStep
  <2>2. CASE ReaderStep
    BY <2>2, OutcomeRead, CopyStep DEF ReaderStep
  <2>3. CASE UNCHANGED vars
    <3>1. TypeOK'
      BY <2>3 DEF vars, meshVars, lastVars, SnapshotInv, TypeOK
    <3> QED BY <2>3, <3>1 DEF vars, meshVars, lastVars, SnapshotInv, LockHeld, LoopsGoOn,
            SlotsAreSatellites, AddsNewcomer, UnseenIsNew, CopyIsTable, CopiesAreSatellites,
            OutcomePublished, RoundsUpwards, QuietReads, Good, Expected, Acked, Used
  <2> QED BY <2>1, <2>2, <2>3 DEF Next
<1> QED BY <1>1, InitSnapshotInv, PTL DEF Spec

\* No entry of a status is torn and no satellite is listed twice, however slots
\* are freed and reused while the copy runs.
THEOREM NoTornEntry == Spec => []EntriesAreSatellites
<1>1. SnapshotInv => EntriesAreSatellites
  BY DEF SnapshotInv, CopiesAreSatellites, EntriesAreSatellites
<1> QED BY <1>1, SnapshotInvariant, PTL

\* The satellites listed are those of the table at one moment.
THEOREM ListingIsCut == Spec => []MembershipIsCut
<1>1. SnapshotInv => MembershipIsCut
  <2> SUFFICES ASSUME SnapshotInv, rpc = "unlock"
               PROVE  {e.node.hi : e \in snap.entries} = {table[i].hi : i \in Used}
    BY DEF MembershipIsCut
  <2>1. snap.todo = {}
    BY DEF SnapshotInv, LoopsGoOn
  <2>2. /\ \A e \in snap.entries : e.slot \in Used /\ e.node.hi = table[e.slot].hi
        /\ \A i \in Used : \E e \in snap.entries : e.slot = i
    BY <2>1 DEF SnapshotInv, CopyIsTable, InsideReader
  <2> QED BY <2>2
<1> QED BY <1>1, SnapshotInvariant, PTL

\* At most one satellite of a status has never been seen, for any number of slots
\* and however long the copy takes.
THEOREM OneUnseen == Spec => []AtMostOneUnseen
<1>1. SnapshotInv => AtMostOneUnseen
  <2> SUFFICES ASSUME SnapshotInv PROVE AtMostOneUnseen
    OBVIOUS
  <2> DEFINE U == {e \in snap.entries : ~ e.node.seen}
  <2>1. \A e, f \in U : e = f
    BY DEF SnapshotInv, CopiesAreSatellites
  <2> HIDE DEF U
  <2>2. CASE U = {}
    BY <2>2, FS_EmptySet DEF AtMostOneUnseen, U
  <2>3. CASE \E e : U = {e}
    <3>1. PICK e : U = {e}
      BY <2>3
    <3>2. Cardinality(U) = 1
      BY <3>1, FS_Singleton
    <3> QED BY <3>2 DEF AtMostOneUnseen, U
  <2> QED BY <2>1, <2>2, <2>3
<1> QED BY <1>1, SnapshotInvariant, PTL

\* A status whose unlocked reads did not overlap the end of a round tells the
\* outcome of the round it names, however many rounds ended before and after.
THEOREM QuietOutcomeExact == Spec => []OutcomeExactWhenQuiet
<1>1. SnapshotInv => OutcomeExactWhenQuiet
  BY DEF SnapshotInv, QuietReads, OutcomeExactWhenQuiet, ReadOutcome
<1> QED BY <1>1, SnapshotInvariant, PTL
=============================================================================
