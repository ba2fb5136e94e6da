\* Two calls, of two pods, over a bucket of one token: the clock runs long enough
\* for the key to expire and for a charge after that.
SPECIFICATION Spec
CONSTANTS
    Calls = {c1, c2}
    Count = 1
    Cost = 2
    MinTTL = 3
    Poll = 1
    MaxLag = 2
    Budgets = {0, 3}
    MaxClock = 7
SYMMETRY CallSymmetry
INVARIANTS
    WindowBound
PROPERTIES
    ImplementsLimiter
\* The clock stops at its bound.
CHECK_DEADLOCK FALSE
