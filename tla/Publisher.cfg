\* Three calls of any tools against every guardfile: keys written in every way, two attempts
\* a put, replies lost, deadlines passed, attempts that land late.
SPECIFICATION Spec
SYMMETRY CallSymmetry
CONSTANTS
    Calls = {c1, c2, c3}
    Docs <- MCDocs
    Keys <- MCKeys
    Roots <- MCPrefixes
    Types = {"image/png", "Text/HTML"}
    Lower <- MCLower
    Sizes <- MCSizes
    Names = {"/n", "/m"}
    Seeds <- MCSeeds
    MaxKey = 5
    PageSize = 2
    MaxTries = 2
INVARIANTS
    ObjectsFitTheGuardfile
    PublishedIsFound
    OldReturnsOnlyUnheard
