\* Two requests, a timeout of one tick and a signal at any time.  A call has ended by the
\* eighth tick, whatever hangs; eight ticks also hold the latest signal, its drain, the wait
\* for the mutex, the session's end and the flush.
SPECIFICATION FairSpec
CONSTANTS
    Requests = {r1, r2}
    Timeouts = {1}
    Grace = 1
    Drain = 1
    HangUp = 1
    LastArrival = 1
    MaxClock = 8
INVARIANTS
    GrantsAreNotCut
    
    ExitBounded
PROPERTIES
    SignalEnds
CHECK_DEADLOCK FALSE
