\* Two calls of one tool that share a cache of two entries, a bucket of one token and a
\* pin that changes once, under six sets of wrappers; one of them New refuses to build.
\* Two tokens come back, so that three answers can compete for the two entries.
SPECIFICATION ChainSpec
CONSTANTS
    Calls = {c1, c2}
    Requests = {a, d, plain, junk, blank, other}
    Keys = {ka, kb, kd}
    KeyOf <- MCKeyOf
    NoKey = NoKey
    a = a
    d = d
    plain = plain
    junk = junk
    blank = blank
    other = other
    ka = ka
    kb = kb
    kd = kd
    TTL = 2
    MaxEntries = 2
    MaxClock = 2
    Controls <- MCControls
    Blank = {blank, d}
    Contradicts = {other}
    Undeclared = {junk, other}
    Burst = 1
    MaxRefills = 2
    MaxRotations = 1
SYMMETRY CallSymmetry
INVARIANTS
    HitIsFresh
    HeldWasSaid
    ServedUnderRecentPin
    SentWithinBudget
PROPERTIES
    LostOnlyToPressure
    AcceptedBeforeSpent
