\* Words of four bits.  Sequence numbers: two wraps, copies up to five rounds old.
\* The table's time stamps: a satellite that comes, goes silent, is evicted and comes
\* back at every position of the clock, while a status call is preempted for any time.
SPECIFICATION SerialSpec
CONSTANTS
    Half = 8
    Lag = 6
    MaxRound = 34
    Sats = {s1}
    Expire = 4
    Gap = 3
INVARIANTS DedupByAge AgesExactUnlessHeard
PROPERTY EvictsTheSilent
