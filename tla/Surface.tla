------------------------------ MODULE Surface -------------------------------
(***************************************************************************)
(* What a server serves: New (server.go) over a REST guardfile and the     *)
(* bases it inherits, and ParseUpstreamSpec and NewProxyWithOptions over   *)
(* an `mcp-upstream` guardfile or the flags of `serve-upstream`.           *)
(*                                                                         *)
(* A node is its name, its arguments, its properties and its children.     *)
(* The bases are one file here, composed already (Compose.tla), and the    *)
(* umbra library, external, says which tools the grants mint.              *)
(***************************************************************************)
EXTENDS Naturals, SequencesExt

CONSTANTS
    Docs,        \* the documents a server may be started with
    Inputs,      \* what each tool's grant declares as inputs
    Queries,     \* those of them that travel in the query
    Raw,         \* tools whose grant says `raw-response`
    Destructive, \* tools whose grant destroys
    DefaultInfo, \* defaultServerInfoTool
    Readers,     \* the built-in value sources
    Parameters,  \* the `from` values that name a query parameter
    Rates,       \* what parseRateSpec takes
    RedisUrls,   \* what redis.ParseURL takes
    Env,         \* the environment, from a name to its value
    Secure,      \* token urls that are https or loopback
    UiUris,      \* uris under ui://
    Bodies,      \* the files beside a guardfile that readAppBody takes
    MaxTtl, MaxPages, MaxItems

Tools == DOMAIN Inputs
None == "none"
ASSUME GrantAssumption ==
    /\ DOMAIN Queries = Tools /\ \A t \in Tools : Queries[t] \subseteq Inputs[t]
    /\ Raw \cup Destructive \subseteq Tools
ASSUME DocAssumption ==
    \A d \in Docs :
        /\ d.form \in {"rest", "file", "flags"}
        /\ d.minted \subseteq Tools /\ d.resolves \in BOOLEAN
        /\ d.form # "rest" => d.base = <<>>
        /\ d.form = "flags" => d.own = <<>>
\* A file is what the parser makes of its text: nodes in order, each with its children in order.
ASSUME FileAssumption ==
    \A d \in Docs : \A file \in {d.base, d.own} :
        /\ file \in Seq(Range(file))
        /\ \A n \in Range(file) : n.kids \in Seq(Range(n.kids))

VARIABLES
    doc,       \* the guardfiles, the tools minted or allowed, the --pin flags, and whether
               \* the values of the upstream's headers resolve
    phase,     \* "parse", "vacate", "validate", "build", "register", "served", "refused"
    controls,  \* for each kind of control, the tools it is configured for
    apps,      \* the widgets
    vacated,   \* what was dropped and is reported
    listed,    \* s.tools
    handlers,  \* what is registered, by tool
    readable   \* what resources/read answers, by uri

vars == <<doc, phase, controls, apps, vacated, listed, handlers, readable>>

-----------------------------------------------------------------------------
\* The grammars, node by node.

OneArg(n)      == Len(n.args) = 1 /\ n.args[1] # ""
Tool(n)        == n.args[1]
Given(n, k)    == k \in DOMAIN n.props
Only(n, ks)    == DOMAIN n.props \subseteq ks
Filled(n, k)   == Given(n, k) /\ n.props[k] # ""
KidsAt(n, k)   == {i \in DOMAIN n.kids : n.kids[i].kind = k}
Kids(n, k)     == {n.kids[i] : i \in KidsAt(n, k)}
AtMostOne(n, k) == Cardinality(KidsAt(n, k)) <= 1
Children(n, ks) == \A c \in Range(n.kids) : c.kind \in ks
Single(n, ks)  == \A c \in Range(n.kids) : c.kind \in ks => Len(c.args) = 1

\* joinTextChildren: two empty lines are a text, of one newline.
Text(n) ==
    /\ Single(n, {"text"})
    /\ ~AtMostOne(n, "text") \/ \E line \in Kids(n, "text") : line.args[1] # ""

Confirm(n)     == OneArg(n) /\ Only(n, {"message"}) /\ (Given(n, "message") => Filled(n, "message"))
Cache(n)       == OneArg(n) /\ Only(n, {"ttl"}) /\ Given(n, "ttl") /\ n.props["ttl"] \in 1 .. MaxTtl
RejectEmpty(n) == OneArg(n) /\ Only(n, {})
RejectEmptyArgument(n) == OneArg(n) /\ Only(n, {"field"}) /\ Filled(n, "field")

Bounded(n, kind, bound, max) ==
    /\ n.props["as"] = kind
    /\ Only(n, {"as", bound})
    /\ Given(n, bound) => n.props[bound] \in 1 .. max
Extract(n) ==
    /\ OneArg(n) /\ Given(n, "as")
    /\ \/ Bounded(n, "pdf-text", "max-pages", MaxPages)
       \/ Bounded(n, "feed-entries", "max-items", MaxItems)

Withhold(n) ==
    /\ OneArg(n) /\ Only(n, {}) /\ Children(n, {"reason", "alternative"})
    /\ \A c \in Range(n.kids) : OneArg(c)
    /\ Cardinality(KidsAt(n, "reason")) = 1 /\ AtMostOne(n, "alternative")

Audience(c) == c.args # <<>> /\ IsInjective(c.args) /\ Range(c.args) \subseteq {"assistant", "user"}
Resource(n) ==
    /\ OneArg(n) /\ Only(n, {"uri", "mime", "title", "priority"}) /\ Filled(n, "uri")
    /\ Given(n, "priority") => n.props["priority"] \in 0 .. 1
    /\ Children(n, {"description", "audience", "text"}) /\ Single(n, {"description"})
    /\ \A c \in Kids(n, "audience") : Audience(c)
    /\ Text(n)

Prompt(n) ==
    /\ OneArg(n) /\ Only(n, {"title"}) /\ Children(n, {"description", "argument", "text"})
    /\ Single(n, {"description"})
    /\ \A c \in Kids(n, "argument") : OneArg(c) /\ Only(c, {"description", "required", "title"})
    /\ Text(n)

\* `visibility` is the roles as a sequence.
Visible(c) ==
    /\ OneArg(c) /\ Only(c, {"visibility"})
    /\ Given(c, "visibility") =>
           LET roles == c.props["visibility"]
           IN  roles # <<>> /\ IsInjective(roles) /\ Range(roles) \subseteq {"model", "app"}
Linked(n) == {Tool(c) : c \in Kids(n, "tool")}
App(n) ==
    /\ OneArg(n) /\ Only(n, {"uri", "file", "title", "domain", "prefers-border"})
    /\ Given(n, "domain") => Filled(n, "domain")
    /\ Given(n, "uri") /\ n.props["uri"] \in UiUris
    /\ Given(n, "file") /\ n.props["file"] \in Bodies
    /\ Children(n, {"description", "tool", "csp", "permission"}) /\ Single(n, {"description"})
    /\ \A c \in Kids(n, "tool") : Visible(c)
    /\ Linked(n) # {} /\ Cardinality(Linked(n)) = Cardinality(KidsAt(n, "tool"))

RateLimit(n) ==
    /\ OneArg(n) /\ Only(n, {}) /\ n.args[1] \in Rates
    /\ Children(n, {"store", "bucket"}) /\ AtMostOne(n, "store") /\ AtMostOne(n, "bucket")
    /\ \A c \in Kids(n, "bucket") : OneArg(c) /\ Kids(n, "store") # {}
    /\ \A c \in Kids(n, "store") :
           Len(c.args) = 3 /\ c.args[1] = "redis" /\ c.args[2] \in {"env", "literal"} /\ c.args[3] # ""

Instructions(n) ==
    /\ n.args = <<>> /\ Only(n, {}) /\ Children(n, {"text"}) /\ Single(n, {"text"})
    /\ \E c \in Range(n.kids) : c.args[1] # ""

Icon(n) == OneArg(n) /\ Only(n, {"mime", "sizes"})

Off(n) == n.args = <<"disabled">>
ServerInfo(n) ==
    /\ n.args = <<>> \/ Off(n)
    /\ Only(n, IF Off(n) THEN {} ELSE {"name"}) /\ (Given(n, "name") => Filled(n, "name"))

OAuth2Client(n) ==
    /\ OneArg(n) /\ Only(n, {})
    /\ Children(n, {"token-url", "client-id", "client-secret", "scope", "auth-style"})
    /\ \A k \in {"token-url", "client-id", "client-secret"} : Kids(n, k) # {}
    /\ \A c \in Range(n.kids) :
           CASE c.kind \in {"token-url", "client-id"} -> OneArg(c)
             [] c.kind = "auth-style"    -> OneArg(c) /\ c.args[1] \in {"basic", "post"}
             [] c.kind = "scope"         -> c.args # <<>> /\ "" \notin Range(c.args)
             [] c.kind = "client-secret" -> Len(c.args) = 2 /\ c.args[1] \in Readers /\ c.args[2] # ""
    /\ n.kids[Max(KidsAt(n, "token-url"))].args[1] \in Secure

-----------------------------------------------------------------------------
\* What the chain states: parseInlineNodes over the bases and the own file.

Singletons == {"instructions", "server-info", "rate-limit"}
Scoped     == {"confirm", "cache", "reject-empty", "reject-empty-argument", "pin", "extract"}
ProjectedCache == {"description", "oauth2-client", "withhold", "icon", "confirm", "pin", "cache"} \cup Singletons  \* mutant
Projected == {"description", "oauth2-client", "withhold", "icon", "confirm", "pin"} \cup Singletons

Stated == [i \in DOMAIN doc.base |-> [own |-> FALSE, node |-> doc.base[i]]]
          \o [i \in DOMAIN doc.own |-> [own |-> TRUE, node |-> doc.own[i]]]
Replaced(s) == s.node.kind \in Singletons /\ ~s.own /\ \E n \in Range(doc.own) : n.kind = s.node.kind
Kept   == {s \in Range(Stated) : ~Replaced(s)}
At(k)  == {i \in DOMAIN Stated : Stated[i] \in Kept /\ Stated[i].node.kind = k}
All(k) == {Stated[i].node : i \in At(k)}
Once(k, Key(_)) == \A i, j \in At(k) : Key(Stated[i].node) = Key(Stated[j].node) => i = j

Clients == {Tool(n) : n \in All("oauth2-client")}
Resolvable(provider, address) ==
    \/ provider \in Readers
    \/ provider = "oauth2" /\ address \in Clients

\* newRateBucket: an environment variable that is not set has no url.
StoreUrls(c) == IF c.args[2] = "literal" THEN {c.args[3]}
                ELSE {Env[v] : v \in {c.args[3]} \cap DOMAIN Env}
BucketBuilt == \A n \in All("rate-limit") : \A c \in Kids(n, "store") : StoreUrls(c) \cap RedisUrls # {}

\* A pin's children: `query` in a REST guardfile, `argument` beside `mcp-upstream`.
Pinned(n) == {c.args[1] : c \in Range(n.kids)}
Pin(n, child) ==
    /\ OneArg(n) /\ Only(n, {}) /\ Pinned(n) # {} /\ Children(n, {child})
    /\ \A c \in Range(n.kids) :
           /\ Len(c.args) = 3 /\ c.args[1] # "" /\ c.args[3] # ""
           /\ Resolvable(c.args[2], c.args[3])
           /\ Only(c, IF child = "query" THEN {"from"} ELSE {})
           /\ Given(c, "from") => c.props["from"] \in Parameters \cup {""}
    /\ Cardinality(Pinned(n)) = Len(n.kids)

\* The first `server-info disabled` ends the reading, whatever follows it.
First(k) == Stated[Min(At(k))].node
InfoFits ==
    LET node == First("server-info")
    IN  At("server-info") # {} => ServerInfo(node) /\ (Off(node) \/ Cardinality(At("server-info")) = 1)
Info ==
    LET node == First("server-info")
    IN  CASE At("server-info") = {}  -> DefaultInfo
          [] Off(node)               -> None
          [] Given(node, "name")     -> node.props["name"]
          [] OTHER                   -> DefaultInfo
InfoTools == {Info} \ {None}

\* The parsers that both forms run.
SharedParse ==
    /\ \A n \in All("instructions") : Instructions(n)
    /\ \A n \in All("icon") : Icon(n)
    /\ \A n \in All("oauth2-client") : OAuth2Client(n)
    /\ \A n \in All("confirm") : Confirm(n)
    /\ \A n \in All("withhold") : Withhold(n)
    /\ \A n \in All("rate-limit") : RateLimit(n)
    /\ \A k \in {"oauth2-client", "confirm", "withhold"} : Once(k, Tool)
    /\ Cardinality(At("instructions")) <= 1 /\ Cardinality(At("rate-limit")) <= 1
    /\ InfoFits

Field(n) == <<Tool(n), n.props["field"]>>
Uri(n)   == n.props["uri"]
RestParse ==
    /\ SharedParse
    /\ (\A n \in All("pin") : Pin(n, "query")) /\ Once("pin", Tool)
    /\ \A n \in All("cache") : Cache(n)
    /\ \A n \in All("extract") : Extract(n)
    /\ \A n \in All("reject-empty") : RejectEmpty(n)
    /\ \A n \in All("reject-empty-argument") : RejectEmptyArgument(n)
    /\ \A n \in All("resource") : Resource(n)
    /\ \A n \in All("prompt") : Prompt(n)
    /\ \A n \in All("app") : App(n)
    /\ \A k \in {"cache", "extract", "reject-empty", "prompt", "app"} : Once(k, Tool)
    /\ Once("reject-empty-argument", Field)
    /\ Once("resource", Uri) /\ Once("app", Uri)
    /\ BucketBuilt

UpstreamParse ==
    /\ \A s \in Kept : s.node.kind \in Projected
    /\ SharedParse
    /\ (\A n \in All("pin") : Pin(n, "argument")) /\ Once("pin", Tool)

-----------------------------------------------------------------------------
\* What both forms check against the tools they will serve.

Stubs == {Tool(n) : n \in All("withhold")}
Served == doc.minted \cup InfoTools

InfoIsNew == Info \notin doc.minted
StubsFit ==
    /\ Stubs \cap Served = {}
    /\ \A n \in All("withhold") : \A c \in Kids(n, "alternative") : c.args[1] \in Served
ConfirmsFit(confirms) == confirms \subseteq Served \cup Stubs

\* The pins of a proxy: its file's nodes, or the --pin flags, which state literals.
FilePins ==
    UNION {{[tool |-> Tool(n), arg |-> c.args[1], from |-> <<c.args[2], c.args[3]>>] :
            c \in Range(n.kids)} : n \in All("pin")}
FlagPins == {[tool |-> p[1], arg |-> p[2], from |-> <<"literal", p[3]>>] : p \in Range(doc.flags)}
ProxyPins == IF doc.flags = <<>> THEN FilePins ELSE FlagPins
PinsFit(pins) ==
    /\ \A p \in pins : p.tool \in doc.minted
    /\ \A p, q \in pins : p.tool = q.tool /\ p.arg = q.arg => p.from = q.from

\* The tools as listed. A widget's link is in the _meta of its tool.
Ui(t) == LET linking == {a \in apps : t \in a.tools}
         IN  IF linking = {} THEN None ELSE (CHOOSE a \in linking : TRUE).uri
Entries(what, ts) == {[name |-> t, what |-> what, ui |-> Ui(t)] : t \in ts}
Inventory == Entries("grant", doc.minted) \cup Entries("info", InfoTools) \cup Entries("stub", Stubs)

Refuse ==
    /\ phase' = "refused"
    /\ UNCHANGED <<doc, controls, apps, vacated, listed, handlers, readable>>

\* A configuration is what the nodes say, by tool.
Configured == [k \in Scoped |-> {Tool(n) : n \in All(k)}]
Init ==
    /\ doc \in Docs
    /\ phase = IF doc.form = "flags" THEN "build" ELSE "parse"
    /\ controls = [k \in Scoped |-> {}]
    /\ apps = {} /\ vacated = {} /\ listed = {}
    /\ handlers = <<>> /\ readable = <<>>

-----------------------------------------------------------------------------
\* A REST guardfile: New.

Parse ==
    /\ phase = "parse" /\ doc.form = "rest"
    /\ IF ~RestParse THEN Refuse
       ELSE /\ phase' = "vacate"
            /\ controls' = Configured
            /\ apps' = {[name |-> Tool(s.node), uri |-> Uri(s.node), tools |-> Linked(s.node), own |-> s.own] :
                        s \in {Stated[i] : i \in At("app")}}
            /\ UNCHANGED <<doc, vacated, listed, handlers, readable>>

\* dropVacantControls and dropVacantAppLinks: what a base stated on a tool that is
\* not minted goes, and is reported.
Inherited == {Tool(n) : n \in {m \in Range(doc.base) : m.kind \in Scoped /\ Len(m.args) = 1}}
Vacant(k) == (controls[k] \ doc.minted) \cap Inherited
Narrowed(a) == IF a.own THEN a ELSE [a EXCEPT !.tools = @ \cap doc.minted]
KeptApps == {a \in {Narrowed(b) : b \in apps} : a.tools # {}}
Vacate ==
    /\ phase = "vacate"
    /\ phase' = "validate"
    /\ controls' = [k \in Scoped |-> controls[k] \ Vacant(k)]
    /\ apps' = KeptApps
    /\ vacated' = (UNION {{k} \X Vacant(k) : k \in Scoped})
                  \cup (UNION {{a.name} \X (a.tools \ Narrowed(a).tools) : a \in apps})
    /\ UNCHANGED <<doc, listed, handlers, readable>>

ControlsFit ==
    /\ controls["extract"] \subseteq doc.minted \cap Raw
    /\ controls["cache"] \subseteq doc.minted \ (Destructive \cup controls["confirm"])
    /\ controls["reject-empty"] \cup controls["reject-empty-argument"] \cup controls["pin"] \subseteq doc.minted
    /\ \A n \in All("reject-empty-argument") :
           Tool(n) \in controls["reject-empty-argument"] => n.props["field"] \in Inputs[Tool(n)]
    /\ \A n \in All("pin") : Tool(n) \in controls["pin"] => Pinned(n) \cap Queries[Tool(n)] = {}

AppUris      == {a.uri : a \in apps}
ResourceUris == {Uri(n) : n \in All("resource")}

\* validateApps: links, and uris that nothing else claims.
AppsFitLinks ==  \* mutant: uris are not compared
    /\ \A a \in apps : a.tools \subseteq Served \cup Stubs
    /\ \A a, b \in apps : a # b => a.tools \cap b.tools = {}
AppsFit ==
    /\ \A a \in apps : a.tools \subseteq Served \cup Stubs
    /\ \A a, b \in apps : a # b => a.tools \cap b.tools = {}
    /\ AppUris \cap ResourceUris = {}

Validate ==
    /\ phase = "validate"
    /\ IF ControlsFit /\ InfoIsNew /\ StubsFit /\ ConfirmsFit(controls["confirm"]) /\ AppsFit
       THEN /\ phase' = "register"
            /\ listed' = Inventory
            /\ UNCHANGED <<doc, controls, apps, vacated, handlers, readable>>
       ELSE Refuse

-----------------------------------------------------------------------------
\* A proxy: ParseUpstreamSpec, which is all that `lint` runs, then serve-upstream.

\* The spec's own checks, offline.
SpecFits == InfoIsNew /\ StubsFit /\ ConfirmsFit(Configured["confirm"]) /\ PinsFit(FilePins)
ParseUpstreamSpec ==
    /\ phase = "parse" /\ doc.form = "file"
    /\ IF UpstreamParse /\ SpecFits
       THEN /\ phase' = "build"
            /\ controls' = Configured
            /\ UNCHANGED <<doc, apps, vacated, listed, handlers, readable>>
       ELSE Refuse

\* runServeUpstream: what it may be started with, its headers resolved once.
StartableMixed ==  \* mutant: the flags' pins silently replace the file's
    /\ doc.minted # {} /\ doc.resolves
    /\ \A p \in Range(doc.flags) : "" \notin Range(p)
Startable ==
    /\ doc.minted # {} /\ doc.resolves
    /\ doc.flags # <<>> => FilePins = {}
    /\ \A p \in Range(doc.flags) : "" \notin Range(p)

\* NewProxyWithOptions checks again, before it dials, and for the first time the flags'
\* pins and the address of the bucket's store.
ProxyFitsServed ==  \* mutant: the gates are compared before the stubs are added
    /\ InfoIsNew /\ StubsFit /\ controls["confirm"] \subseteq Served /\ PinsFit(ProxyPins) /\ BucketBuilt
ProxyFits ==
    /\ InfoIsNew /\ StubsFit /\ ConfirmsFit(controls["confirm"])
    /\ PinsFit(ProxyPins) /\ BucketBuilt
NewProxy ==
    /\ phase = "build"
    /\ IF Startable /\ ProxyFits
       THEN /\ phase' = "register"
            /\ listed' = Inventory
            /\ UNCHANGED <<doc, controls, apps, vacated, handlers, readable>>
       ELSE Refuse

-----------------------------------------------------------------------------
\* The registrations. A name registered twice keeps its last handler.

Stating(k, t) == {n \in All(k) : Tool(n) = t}
PinLayers(t) ==
    {"pin"} \X (IF doc.form = "rest" THEN UNION {Pinned(n) : n \in Stating("pin", t)}
               ELSE {p.arg : p \in {q \in ProxyPins : q.tool = t}})
Wired == IF doc.form = "rest" THEN {"confirm", "cache", "reject-empty", "extract"} ELSE {"confirm"}
Layers(t) ==
    {<<k, "">> : k \in {j \in Wired : t \in controls[j]}}
    \cup {<<"rate-limit", "">> : n \in All("rate-limit")}
    \cup (IF doc.form = "rest"
          THEN {<<"reject-empty-argument", n.props["field"]>> : n \in Stating("reject-empty-argument", t)}
          ELSE {})
    \cup PinLayers(t)

Handler(what, t) ==
    [what |-> what, ui |-> Ui(t), layers |-> IF what = "grant" THEN Layers(t) ELSE {}]
Registered(t) == IF t \in Stubs THEN "stub" ELSE IF t \in InfoTools THEN "info" ELSE "grant"
Body(u) == IF u \in AppUris THEN (CHOOSE a \in apps : a.uri = u).name ELSE "resource"

Register ==
    /\ phase = "register"
    /\ phase' = "served"
    /\ handlers' = [t \in doc.minted \cup InfoTools \cup Stubs |-> Handler(Registered(t), t)]
    /\ readable' = [u \in AppUris \cup ResourceUris |-> Body(u)]
    /\ UNCHANGED <<doc, controls, apps, vacated, listed>>

Finished == phase \in {"served", "refused"} /\ UNCHANGED vars

Next ==
    \/ Parse \/ Vacate \/ Validate
    \/ ParseUpstreamSpec \/ NewProxy
    \/ Register
    \/ Finished

Spec == Init /\ [][Next]_vars

-----------------------------------------------------------------------------
Listed == {e.name : e \in listed}

\* Every variable keeps its type: what is configured was stated, what is listed has a kind.
TypeOK ==
    /\ phase \in {"parse", "vacate", "validate", "build", "register", "served", "refused"}
    /\ \A k \in Scoped : controls[k] \subseteq {Tool(n) : n \in All(k)}
    /\ \A a \in apps : a.tools # {} /\ a.uri \in UiUris
    /\ \A v \in vacated : v[2] \in Inherited \cup UNION {Linked(n) : n \in All("app")}
    /\ \A e \in listed : e.what \in {"grant", "info", "stub"}
    /\ DOMAIN handlers \subseteq Listed
    /\ DOMAIN readable \subseteq AppUris \cup ResourceUris

\* A name that the server lists is answered by what was listed under it: no grant, info
\* tool or stub takes the place of another (withhold.go:141-143).
ListedIsAnswered ==
    phase = "served" =>
        /\ DOMAIN handlers = Listed
        /\ \A e \in listed : handlers[e.name].what = e.what /\ handlers[e.name].ui = e.ui

\* Nothing a file states about a tool is lost: the control is around the tool's handler, or
\* is a base's and reported as vacated from a tool that is not minted, or a gate on one that
\* reaches no upstream.  A file that reads narrower than what is served is the danger
\* (compose.go:49-53, upstreamguardfile.go:225-226, main.go:323-325).  Left out is a control of
\* the child's own on a tool it does not mint and a base controls, which goes as if it were the
\* base's (Overlooked), although it is to stay an error (compose.go:225-226, 230).
Details(n) ==
    CASE n.kind = "pin" -> Pinned(n)
      [] n.kind = "reject-empty-argument" -> {n.props["field"]}
      [] OTHER -> {""}
Wrapped(t, layers) == t \in DOMAIN handlers /\ layers \subseteq handlers[t].layers
Accounted(s) ==
    LET t == Tool(s.node)
        kind == s.node.kind
    IN  \/ Wrapped(t, {kind} \X Details(s.node))
        \/ ~s.own /\ <<kind, t>> \in vacated /\ t \notin doc.minted
        \/ kind = "confirm" /\ t \in DOMAIN handlers /\ handlers[t].what # "grant"
Controlling == {s \in Kept : s.node.kind \in Scoped}
Overlooked(s) == s.own /\ Tool(s.node) \in Inherited \ doc.minted
NothingStatedIsLost ==
    phase = "served" =>
        /\ \A s \in Controlling : Overlooked(s) \/ Accounted(s)
        /\ All("rate-limit") # {} => \A t \in doc.minted : Wrapped(t, {<<"rate-limit", "">>})

\* A widget that is served is reached from a grant that is listed, if it names any, its uri
\* answers with its own body, and a resource's with the resource's.  A link that a file states
\* is on the grant, or reported as dropped. The info tool and the stubs can be named too, and
\* nothing says so, against docs/apps.md:59 and server.go:226-227 (validateApps, app.go:362-370).
Claimable == InfoTools \cup Stubs
WidgetsReachable ==
    phase = "served" =>
        /\ \A a \in apps :
               /\ readable[a.uri] = a.name
               /\ a.tools \subseteq Claimable \/ \E e \in listed : e.what = "grant" /\ e.ui = a.uri
        /\ \A n \in All("resource") : readable[Uri(n)] = "resource"
        /\ \A n \in All("app") : \A t \in Linked(n) :
               \/ t \in Claimable \/ <<Tool(n), t>> \in vacated
               \/ t \in doc.minted /\ handlers[t].ui = Uri(n)

\* The tool a stub sends its caller to instead is there, and no stub itself.
AlternativesAnswer ==
    phase = "served" =>
        \A n \in All("withhold") : \A c \in Kids(n, "alternative") :
            c.args[1] \in DOMAIN handlers /\ handlers[c.args[1]].what # "stub"

\* A pinned argument has one source, whichever of the flags and the file stated it, and
\* the caller of a grant cannot state it too.
PinsUncontested ==
    phase = "served" =>
        IF doc.form = "rest"
        THEN \A m, n \in All("pin") : \A c \in Range(m.kids), d \in Range(n.kids) :
                 Tool(m) = Tool(n) /\ Tool(m) \in doc.minted =>
                     /\ c.args[1] \notin Queries[Tool(m)]
                     /\ c.args[1] = d.args[1] => c.args = d.args
        ELSE \A p, q \in FilePins \cup FlagPins :
                 p.tool = q.tool /\ p.arg = q.arg => p.from = q.from

\* A guardfile that `lint` takes is not refused later, except for what a flag adds to it and
\* for what is looked up when it starts, the values of the headers and the store of the
\* bucket: the checks before the dial are those of the parse (upstreamguardfile.go:168-170).
Unaided == phase = "build" /\ doc.form = "file" /\ doc.flags = <<>> /\ doc.minted # {} /\ doc.resolves
LintedIsServed == [][Unaided /\ BucketBuilt => phase' = "register"]_vars
=============================================================================
