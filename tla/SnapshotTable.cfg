\* Two satellites, two slots: additions, evictions and reuse of slots, and the end
\* of rounds, during a status call.
SPECIFICATION Spec
CONSTANTS
    Macs = {m1, m2}
    Slots = 2
    MaxRound = 2
    NoMac = NoMac
INVARIANTS EntriesAreSatellites MembershipIsCut AtMostOneUnseen
    OutcomeExactWhenQuiet
