------------------------------ MODULE PllClock ------------------------------
(***************************************************************************)
(* The satellite's estimate of the controller's clock                       *)
(* (espnow_mesh_time_sync.c): what one time-sync sample does to it, in the   *)
(* PLL build and in the filtered-offset build, and the time read from it.    *)
(*                                                                         *)
(* An estimate is a record; a sample has the midpoint local and controller   *)
(* times, the offset and the round-trip delay.  Times are in any unit.       *)
(* Abstracted: `accepted`, only compared with LockSamples, stops there; the  *)
(* PLL build's s_mesh_time_offset_us, which nothing reads, is left out.      *)
(***************************************************************************)
EXTENDS Integers

CONSTANTS
    LockSamples, ResetAfterRejects, DelayMargin, Outlier, MaxFreq,
                    \* CONFIG_ESPNOW_MESH_TIME_SYNC_PLL_*
    PhaseDivisor, FreqDivisor, FilterDivisor,   \* 1 << the gain and filter shifts
    Billion,        \* parts per ...: 10^9
    ProductLimit    \* the largest residual whose product with Billion fits in 64 bits

ASSUME PllAssumption ==
    /\ LockSamples \in Nat \ {0} /\ ResetAfterRejects \in Nat \ {0}
    /\ DelayMargin \in Nat /\ Outlier \in Nat \ {0} /\ MaxFreq \in Nat
    /\ PhaseDivisor \in Nat \ {0} /\ FreqDivisor \in Nat \ {0}
    /\ FilterDivisor \in Nat \ {0} /\ Billion \in Nat \ {0} /\ ProductLimit \in Nat

\* abs_i64(), C's division, and clamp_i64_to_i32() to the largest correction.
Abs(n)     == IF n < 0 THEN -n ELSE n
Quot(a, b) == IF a >= 0 THEN a \div b ELSE -((-a) \div b)
Clamp(f)   == IF f < -MaxFreq THEN -MaxFreq ELSE IF f > MaxFreq THEN MaxFreq ELSE f

Freqs == -MaxFreq .. MaxFreq

Estimates ==
    [have : BOOLEAN, local : Int, mesh : Int, freq : Freqs, best : Int,
     accepted : 0 .. LockSamples, rejects : 0 .. ResetAfterRejects, offset : Int]

Samples == [local : Int, mesh : Int, offset : Int, delay : Int]

NoEstimate ==
    [have |-> FALSE, local |-> 0, mesh |-> 0, freq |-> 0, best |-> 0,
     accepted |-> 0, rejects |-> 0, offset |-> 0]

\* pll_predict_mesh_time_us().
Predict(e, local) ==
    LET delta == local - e.local IN e.mesh + delta + Quot(delta * e.freq, Billion)

\* pll_reset_locked().
Acquired(e, s) ==
    [e EXCEPT !.have = TRUE, !.local = s.local, !.mesh = s.mesh, !.freq = 0,
              !.best = s.delay, !.accepted = 1, !.rejects = 0]

\* Mutant of Reacquires: rejects never force one.
ReacquiresOnce(e) == ~e.have

Reacquires(e)  == ~e.have \/ e.rejects >= ResetAfterRejects
Startup(e)     == e.accepted < LockSamples
Residual(e, s) == s.mesh - Predict(e, s.local)
Best(e, s)     == IF s.delay < e.best THEN s.delay ELSE e.best

\* Mutant of Outlying: the residual is not looked at.
OutlyingByDelay(e, s) == ~Startup(e) /\ s.delay > Best(e, s) + DelayMargin

\* delay_outlier || residual_outlier, with the best delay already lowered.
Outlying(e, s) ==
    ~Startup(e) /\ (s.delay > Best(e, s) + DelayMargin \/ Abs(Residual(e, s)) > Outlier)

\* The frequency after an accepted sample: any, when the product overflows.
NextFreqs(e, s) ==
    IF s.local <= e.local THEN {e.freq}
    ELSE IF Abs(Residual(e, s)) > ProductLimit THEN Freqs
    ELSE {Clamp(e.freq + Quot(Quot(Residual(e, s) * Billion, s.local - e.local), FreqDivisor))}

\* pll_update_from_sample(): what the estimate may become.
PllUpdates(e, s) ==
    IF Reacquires(e) THEN {Acquired(e, s)}
    ELSE IF Outlying(e, s) THEN {[e EXCEPT !.best = Best(e, s), !.rejects = @ + 1]}
    ELSE {[e EXCEPT !.local = s.local,
                    !.mesh = Predict(e, s.local) + Quot(Residual(e, s), PhaseDivisor),
                    !.freq = f, !.best = Best(e, s),
                    !.accepted = IF Startup(e) THEN @ + 1 ELSE @,
                    !.rejects = 0] : f \in NextFreqs(e, s)}

\* Mutant of Filtered: the old offset keeps its whole weight.
FilteredHeavy(e, s) ==
    [e EXCEPT !.have = TRUE,
              !.offset = IF ~e.have THEN s.offset
                         ELSE Quot(e.offset * FilterDivisor + s.offset, FilterDivisor)]

\* time_sync_apply_offset().
Filtered(e, s) ==
    [e EXCEPT !.have = TRUE,
              !.offset = IF ~e.have THEN s.offset
                         ELSE Quot(e.offset * (FilterDivisor - 1) + s.offset, FilterDivisor)]
=============================================================================
