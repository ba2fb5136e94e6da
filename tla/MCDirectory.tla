---------------------------- MODULE MCDirectory ----------------------------
\* Three registry names, two of which GuardfileName maps onto one file; a server answers
\* with no tools, or with one that declares itself read-only and one that declares nothing.
EXTENDS Directory

MCFileOf == [n \in {"a/b", "a__b", "c"} |-> IF n = "c" THEN "c.mcp.kdl" ELSE "a__b.mcp.kdl"]
MCSaid   == {<<>>, [get |-> "true", put |-> "missing"]}
=============================================================================
