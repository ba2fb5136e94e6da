------------------------------ MODULE Compose -------------------------------
(***************************************************************************)
(* How a guardfile is composed with the bases it inherits: the walk of     *)
(* internal/mcpserver/compose.go over the `inherit` paths, and what New    *)
(* (server.go) makes of the nodes the collected files state beside `wrap`. *)
(*                                                                         *)
(* A guardfile is the paths it inherits, the nodes it states about tools,  *)
(* and how often it states a singleton (`rate-limit` and its like).  Which *)
(* tools the grants mint is decided by the umbra library, external here:   *)
(* any set, since a child may narrow what its bases grant.                 *)
(***************************************************************************)
EXTENDS Naturals, Sequences, FiniteSets, Functions

CONSTANTS
    Files,     \* the guardfiles that can be read
    Root,      \* the one the server is started with
    Missing,   \* a path with no readable file behind it
    Tools,     \* names that nodes are about
    Scoped,    \* toolScopedSiblings: "confirm", "cache", ...
    MaxDepth,  \* maxInheritDepth
    Shapes,    \* what the files may inherit, in order
    Statements,\* what nodes they may state
    Limits     \* how often each may state a singleton

Kinds == Scoped \cup {"withhold"}
Node == [kind : Kinds, tool : Tools]
ASSUME FilesAssumption == IsFiniteSet(Files)
ASSUME RootAssumption == Root \in Files /\ Missing \notin Files
ASSUME KindsAssumption == {"confirm", "cache"} \subseteq Scoped /\ "withhold" \notin Scoped
ASSUME DepthAssumption == MaxDepth \in Nat
ASSUME ShapesAssumption == Shapes \subseteq [Files -> Seq(Files \cup {Missing})]
ASSUME StatementsAssumption == Statements \subseteq [Files -> Seq(Node)]
ASSUME LimitsAssumption == Limits \subseteq [Files -> Nat]

VARIABLES
    parents,  \* what each file inherits, fixed
    nodes,    \* what each file states about tools, fixed
    limits,   \* how often each file states the singleton, fixed
    minted,   \* the tools the composed grants mint, fixed
    phase,    \* "walk", "parse", "check", "served" or "refused"
    stack,    \* collectInherited's activations: a file and its next `inherit`
    visited,  \* the paths entered so far
    chain,    \* the sources collected, base first
    config,   \* for each kind of node, the tools it is configured for
    vacated   \* the controls dropped

files == <<parents, nodes, limits, minted>>
vars == <<files, phase, stack, visited, chain, config, vacated>>

Init ==
    /\ parents \in Shapes
    /\ nodes \in Statements
    /\ limits \in Limits
    /\ minted \in SUBSET Tools
    /\ phase = "walk"
    /\ stack = <<[file |-> Root, next |-> 1]>>
    /\ visited = {Root}
    /\ chain = <<>>
    /\ config = [k \in Kinds |-> {}]
    /\ vacated = {}

-----------------------------------------------------------------------------
\* The walk: collectInherited.

Top == stack[Len(stack)]
Below == SubSeq(stack, 1, Len(stack) - 1)
Inherits == parents[Top.file]
Walking == phase = "walk" /\ stack # <<>>

\* A child of Top would be nested Len(stack) deep (compose.go:65).
TooDeepEarly == Len(stack) >= MaxDepth  \* mutant
TooDeep == Len(stack) > MaxDepth

\* An error anywhere: there is no server, and nothing of the walk is used.
Refuse ==
    /\ phase' = "refused"
    /\ UNCHANGED <<files, stack, visited, chain, config, vacated>>

\* Entering a file marks its path, for good, before the file is read.
Enter ==
    /\ Walking
    /\ Top.next <= Len(Inherits)
    /\ LET path == Inherits[Top.next]
       IN  /\ path \notin visited /\ path # Missing
           /\ ~TooDeep
           /\ stack' = Append([stack EXCEPT ![Len(stack)] = [file |-> Top.file, next |-> Top.next + 1]],
                              [file |-> path, next |-> 1])
           /\ visited' = visited \cup {path}
    /\ UNCHANGED <<files, phase, chain, config, vacated>>

\* A path entered before, a file that cannot be read, or one nested too deep.
EnterFails ==
    /\ Walking
    /\ Top.next <= Len(Inherits)
    /\ LET path == Inherits[Top.next]
       IN  path \in visited \/ path = Missing \/ TooDeep
    /\ Refuse

\* Mutant: leaving a file forgets that it was visited.
LeaveForgets ==
    /\ Walking
    /\ Top.next > Len(Inherits)
    /\ chain' = Append(chain, Top.file)
    /\ stack' = Below
    /\ visited' = visited \ {Top.file}
    /\ phase' = IF Len(stack) = 1 THEN "parse" ELSE "walk"
    /\ UNCHANGED <<files, config, vacated>>

\* After its bases a file joins the chain itself.
Leave ==
    /\ Walking
    /\ Top.next > Len(Inherits)
    /\ chain' = Append(chain, Top.file)
    /\ stack' = Below
    /\ phase' = IF Len(stack) = 1 THEN "parse" ELSE "walk"
    /\ UNCHANGED <<files, visited, config, vacated>>

-----------------------------------------------------------------------------
\* What the chain states: parseInlineNodes.

Places == UNION {{i} \X DOMAIN nodes[chain[i]] : i \in DOMAIN chain}
NodeAt(p) == nodes[chain[p[1]]][p[2]]
PlacesOf(k) == {p \in Places : NodeAt(p).kind = k}
Stated(k) == {NodeAt(p).tool : p \in PlacesOf(k)}
StatedTwice(k) == Cardinality(PlacesOf(k)) # Cardinality(Stated(k))

\* pruneSingletons: the nearest file that states a singleton has its say.
LimitFirst == {i \in DOMAIN chain :  \* mutant: the base's wins
    /\ limits[chain[i]] > 0
    /\ \A j \in 1 .. i - 1 : limits[chain[j]] = 0}
Limit == {i \in DOMAIN chain :
    /\ limits[chain[i]] > 0
    /\ \A j \in i + 1 .. Len(chain) : limits[chain[j]] = 0}

\* inheritedToolControls: the tools an ancestor states a control on.
Inherited == {NodeAt(p).tool : p \in {q \in Places : q[1] < Len(chain) /\ NodeAt(q).kind \in Scoped}}

\* dropVacantControls.
VacantInherited(k) == Stated(k) \cap Inherited  \* mutant: a minted tool's gate goes too
Vacant(k) == (Stated(k) \ minted) \cap Inherited

\* Every kind of node is parsed over the whole chain: twice for one tool is an
\* error, whichever files said it, and vacant controls go.
Dropped(k) == IF k \in Scoped THEN Vacant(k) ELSE {}

Parse ==
    /\ phase = "parse"
    /\ \/ (\E k \in Kinds : StatedTwice(k)) /\ Refuse
       \/ /\ \A k \in Kinds : ~StatedTwice(k)
          /\ config' = [k \in Kinds |-> Stated(k) \ Dropped(k)]
          /\ vacated' = UNION {{k} \X Dropped(k) : k \in Kinds}
          /\ phase' = "check"
          /\ UNCHANGED <<files, stack, visited, chain>>

\* The validators.  A `confirm` may also name a stub, and a tool that asks first is
\* never answered from memory.
GatesUncached == config["cache"] \cap config["confirm"] = {}

Legal ==
    /\ config["withhold"] \cap minted = {}
    /\ config["confirm"] \subseteq minted \cup config["withhold"]
    /\ \A k \in Scoped \ {"confirm"} : config[k] \subseteq minted
    /\ GatesUncached
    /\ \A i \in Limit : limits[chain[i]] = 1

Check ==
    /\ phase = "check"
    /\ phase' = IF Legal THEN "served" ELSE "refused"
    /\ UNCHANGED <<files, stack, visited, chain, config, vacated>>

Finished == phase \in {"served", "refused"} /\ UNCHANGED vars

Next ==
    \/ Enter \/ EnterFails \/ Leave
    \/ Parse \/ Check
    \/ Finished

Spec == Init /\ [][Next]_vars

-----------------------------------------------------------------------------
\* A file and those it inherits, directly or not, by definition rather than by walk.
Edges == UNION {{f} \X DOMAIN parents[f] : f \in Files}
Target(e) == parents[e[1]][e[2]]
Closed(fs) == \A e \in Edges : e[1] \in fs => Target(e) \in fs \cup {Missing}
BasesOf(h) == {f \in Files : \A fs \in SUBSET Files : h \in fs /\ Closed(fs) => f \in fs}
Reached == BasesOf(Root)

\* Every file of fs is inherited along one path, and can be read.
IsTree(fs) ==
    LET edges == {e \in Edges : e[1] \in fs}
    IN  \A d, e \in edges :
            /\ Target(e) \notin {Missing, Root}
            /\ Target(d) = Target(e) => d = e

Position(f) == CHOOSE i \in DOMAIN chain : chain[i] = f

\* Every variable keeps its type, and the walk its depth.
TypeOK ==
    /\ parents \in Shapes /\ nodes \in Statements /\ limits \in Limits /\ minted \subseteq Tools
    /\ phase \in {"walk", "parse", "check", "served", "refused"}
    /\ Len(stack) <= MaxDepth + 1
    /\ stack \in Seq([file : visited, next : Nat \ {0}])
    /\ visited \subseteq Files
    /\ chain \in Seq(visited)
    /\ config \in [Kinds -> SUBSET Tools]
    /\ vacated \subseteq Scoped \X Tools

\* The chain that the parsers see holds each inherited file once, every base before
\* the files that inherit it, and the server's own file last (compose.go:46-47).
ChainIsBaseFirst ==
    phase \in {"parse", "check", "served"} =>
        LET reached == Reached
        IN  /\ {chain[i] : i \in DOMAIN chain} = reached
            /\ Len(chain) = Cardinality(reached)
            /\ chain[Len(chain)] = Root
            /\ \A e \in Edges : e[1] \in reached => Position(Target(e)) < Position(e[1])

\* Files that inherit as a tree, no deeper than the limit, are composed: what is
\* refused in the walk is a cycle, a second path, an unreadable file or a tower.
TreesAreComposed ==
    phase = "refused" /\ stack # <<>> =>
        LET reached == Reached
        IN  ~(IsTree(reached) /\ Cardinality(reached) <= MaxDepth + 1)

\* The most steps a composition has left: a file that was not visited may be entered and left.
StepsLeft ==
    CASE phase = "walk"  -> 2 + 2 * Cardinality(Files \ visited) + Len(stack)
      [] phase = "parse" -> 2
      [] phase = "check" -> 1
      [] OTHER           -> 0

\* Inherits that lead back, or to one file along many paths, do not keep the composition
\* busy: after two steps a file and one more it has decided (`visited`, compose.go:86-89).
WalkIsBounded == [][StepsLeft' \in Nat /\ StepsLeft' < StepsLeft]_vars

\* A gate that any file of the chain states on a tool the server mints is in force:
\* no child comes out wider than its base (compose.go:49-53, #113).
GatesBind ==
    phase = "served" =>
        \A f \in Reached : \A i \in DOMAIN nodes[f] :
            LET node == nodes[f][i]
            IN  \/ node.tool \in config[node.kind]
                \/ node.kind \in Scoped /\ node.tool \notin minted

\* A cache never answers for a tool that some file of the chain gates, whichever
\* of the two was inherited (cache.go:119-121).
NoCacheOverGate ==
    phase = "served" =>
        LET said(k) == UNION {{n.tool : n \in {m \in Range(nodes[f]) : m.kind = k}} : f \in Reached}
        IN  said("confirm") \cap said("cache") \cap minted = {}

\* The singleton in force is that of a file none of whose heirs states its own: a
\* nearer guardfile replaces its base's, the nodes of each kept together (docs/guardfile-siblings.md, "child-wins").
NearestLimitWins ==
    phase = "served" =>
        /\ (\E f \in Reached : limits[f] > 0) => Limit # {}
        /\ \A i \in Limit : \A h \in Reached \ {chain[i]} :
               chain[i] \in BasesOf(h) => limits[h] = 0
=============================================================================
