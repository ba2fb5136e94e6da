\* Two overlapping calls, two contracts, an upstream that changes, forgets and hangs.
SPECIFICATION Spec
CONSTANTS
    Calls = {c1, c2}
    Tools = {t1, t2}
    Contracts = {k1, k2}
    Absent = Absent
    Surfaces <- SomeSurfaces
    Sessions = {s1, s2, s3, s4}
    None = None
    MaxFaults = 2
SYMMETRY CallSymmetry
INVARIANTS
    AdmittedMatchesReview
    ClosedHasNoSession
PROPERTIES
    KeepsPromise
    OrphanedOnlyByOverlap
