\* Two servers and one slot: the second waits behind a pull that may never end.
SPECIFICATION FairSpec
CONSTANTS
    Servers = {s1, s2}
    Workers = 1
    Tools = {t1}
    Codes = {401}
PROPERTIES
    KeepsPromise
    EveryServerSettles
\* The sweep ends, and the pulls it left behind end after it.
CHECK_DEADLOCK FALSE
