\* Two runs over one directory. The file names of two servers collide; the registry may hand
\* out cursors for ever; a run fails or is killed anywhere, also inside a write.
SPECIFICATION Spec
CONSTANTS
    Names = {"a/b", "a__b", "c"}
    FileOf <- MCFileOf
    Said <- MCSaid
    Scopes = {"read-write", "all"}
    Limits = {0, 1}
    MaxPages = 2
    MaxRuns = 2
INVARIANTS
    CompletedIsWhole
    AllowedWasDeclared
PROPERTIES
    RunsAreBounded
    PageAfterItsFiles
