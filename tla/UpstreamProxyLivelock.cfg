SPECIFICATION FairSpec
CONSTANTS
    Calls = {c1, c2}
    Tools = {t1}
    Contracts = {k1}
    Absent = Absent
    Surfaces <- OneSurface
    Sessions = {s1, s2, s3, s4, s5, s6}
    None = None
    MaxFaults = 1
PROPERTIES
    RecoversAlways
