\* Two proxied calls over an upstream whose second listing hangs; the first body comes at once.
SPECIFICATION Spec
CONSTANTS
    Requests = {r1, r2}
    Timeouts = {1}
    Grace = 1
    Drain = 1
    HangUp = 1
    LastArrival = 1
    MaxClock = 3
INVARIANTS
    CutOnlyAfterSlowBody
CHECK_DEADLOCK FALSE
