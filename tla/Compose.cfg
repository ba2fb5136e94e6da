\* Four guardfiles in every shape of MCCompose, one tool, three kinds of node.
SPECIFICATION Spec
CONSTANTS
    Root = root
    mid = mid
    other = other
    base = base
    Files = {root, mid, other, base}
    Missing = missing
    t = t
    Tools = {t}
    Scoped = {"confirm", "cache"}
    MaxDepth = 2
    Shapes <- MCShapes
    Statements <- MCStatements
    Limits <- MCLimits
INVARIANTS
    ChainIsBaseFirst
    TreesAreComposed
    GatesBind
    NearestLimitWins
PROPERTIES
    WalkIsBounded
