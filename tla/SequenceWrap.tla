---------------------------- MODULE SequenceWrap ----------------------------
(***************************************************************************)
(* DATA sequence numbers across the 32-bit wrap (espnow_mesh.c:             *)
(* controller_run's `sequence++` that skips 0, handle_satellite_data with    *)
(* seq_is_duplicate).  Rounds are counted without a wrap next to the number  *)
(* they carry, which shows what deduplication should decide.                *)
(***************************************************************************)
EXTENDS SerialTime

CONSTANTS
    Lag,        \* bound: how far behind the newest round a satellite or a frame is
    MaxRound    \* bound: rounds

ASSUME WrapAssumption ==
    /\ Lag \in Nat \ {0} /\ MaxRound \in Nat
    /\ Lag + 1 < Half           \* the silence the serial comparison bridges

VARIABLES
    round,      \* rounds so far, counted without a wrap
    number,     \* number[r]: the sequence number of round r
    have, last, \* s_have_last_sequence, s_last_sequence
    newest      \* history: the newest round the callback has seen, 0 for none

wrapVars == <<round, number, have, last, newest>>

WrapTypeOK ==
    /\ round \in 0 .. MaxRound
    /\ number \in [1 .. round -> Word \ {0}]
    /\ have \in BOOLEAN /\ last \in Word
    /\ newest \in 0 .. round
    /\ have => newest > 0 /\ last = number[newest]

WrapInit == round = 0 /\ number = [r \in 1 .. 0 |-> 1] /\ have = FALSE /\ last = 0 /\ newest = 0

\* The number of the round that follows round r.
After(r) == IF r = 0 THEN 1 ELSE NextSequence(number[r])

\* The controller starts a round; the satellite is not more than Lag rounds behind.
Start ==
    /\ round < MaxRound
    /\ have => round - newest < Lag
    /\ round' = round + 1
    /\ number' = [r \in 1 .. round + 1 |-> IF r <= round THEN number[r] ELSE After(round)]
    /\ UNCHANGED <<have, last, newest>>

\* A copy of one of the latest Lag rounds arrives.
Arrive ==
    /\ \E r \in 1 .. round :
           /\ round - r < Lag
           /\ IF IsDuplicate(have, number[r], last)
              THEN UNCHANGED <<have, last, newest>>
              ELSE have' = TRUE /\ last' = number[r] /\ newest' = r
    /\ UNCHANGED <<round, number>>

\* A satellite that lost its memory.
Forget == have' = FALSE /\ newest' = 0 /\ UNCHANGED <<round, number, last>>

WrapNext == Start \/ Arrive \/ Forget

WrapSpec == WrapInit /\ [][WrapNext]_wrapVars
-----------------------------------------------------------------------------
\* Deduplication decides by age, across the wrap: of the copies still about, those
\* of rounds up to the newest delivered one are duplicates and no others.
DedupByAge == have => \A r \in 1 .. round :
    round - r < Lag => (IsDuplicate(have, number[r], last) <=> r <= newest)

\* Strengthening of DedupByAge: the numbers of two rounds at most Lag apart are as
\* far apart as the rounds, or one further when the skipped 0 lies between them;
\* and the last number delivered is not more than Lag rounds old.
NumberingInv ==
    /\ \A s, r \in 1 .. round : s <= r /\ r - s <= Lag =>
           \/ number[r] = number[s] + (r - s)
           \/ number[r] = number[s] + (r - s) + 1 - 2 * Half
    /\ have => round - newest <= Lag
=============================================================================
