\* Documents of up to two nodes over one base, REST guardfiles, upstream guardfiles and flags.
SPECIFICATION Spec
CONSTANTS
    Docs <- MCDocs
    Inputs <- MCInputs
    Queries <- MCQueries
    Raw = {"doc"}
    Destructive = {"drop"}
    DefaultInfo = "info"
    Readers = {"env", "literal"}
    Parameters = {"query:q"}
    Rates = {"1/1s", "2/1s"}
    RedisUrls = {"redis://h"}
    Env <- MCEnv
    Secure = {"https"}
    UiUris = {"ui://w", "ui://v", "ui://x", "ui://b"}
    Bodies = {"a.html"}
    MaxTtl = 1
    MaxPages = 1
    MaxItems = 1
INVARIANTS
    NothingStatedIsLost
    WidgetsReachable
    PinsUncontested
PROPERTIES
    LintedIsServed
