----------------------------- MODULE SerialTime -----------------------------
(***************************************************************************)
(* The wrapping 32-bit numbers of the component: now_ms() and the deadlines *)
(* computed from it, and sequence numbers.  A number is an element of Word; *)
(* Half stands for 2^31.                                                   *)
(***************************************************************************)
EXTENDS Integers

CONSTANT Half       \* 2^31

ASSUME HalfAssumption == Half \in Nat /\ Half > 1

Word == 0 .. 2 * Half - 1

\* uint32_t addition of an amount below 2^32, and subtraction.
Plus(a, n)  == IF a + n < 2 * Half THEN a + n ELSE a + n - 2 * Half
Minus(a, b) == IF a >= b THEN a - b ELSE a - b + 2 * Half

\* (int32_t)(a - b).
Diff(a, b) == IF Minus(a, b) < Half THEN Minus(a, b) ELSE Minus(a, b) - 2 * Half

\* retry_time_due().
Due(current, time) == Diff(current, time) >= 0

\* Mutant of IsDuplicate: plain comparison.
IsDuplicatePlain(have, seqno, last) == have /\ seqno <= last

\* seq_is_duplicate().
IsDuplicate(have, seqno, last) == have /\ Diff(seqno, last) <= 0

\* `sequence++`, skipping 0.
NextSequence(seqno) == IF Plus(seqno, 1) = 0 THEN 1 ELSE Plus(seqno, 1)
=============================================================================
