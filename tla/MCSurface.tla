----------------------------- MODULE MCSurface ------------------------------
(***************************************************************************)
(* Surface over documents of up to two nodes of its own and one of a base, *)
(* legal or not, about three grants, a stub and the info tool.             *)
(***************************************************************************)
EXTENDS Surface

Node(kind, args, props, kids) == [kind |-> kind, args |-> args, props |-> props, kids |-> kids]
Kid(kind, args)        == Node(kind, args, <<>>, <<>>)
On(kind, t)            == Kid(kind, <<t>>)
With(kind, t, k, v)    == Node(kind, <<t>>, k :> v, <<>>)
Stub(t, alternatives)  == Node("withhold", <<t>>, <<>>, <<Kid("reason", <<"why">>)>> \o alternatives)
Limit(provider, address) ==
    Node("rate-limit", <<"1/1s">>, <<>>, <<Kid("store", <<"redis", provider, address>>)>>)
PinOn(t, kid, args)    == Node("pin", <<t>>, <<>>, <<Kid(kid, args)>>)
Widget(name, uri, ts)  ==
    Node("app", <<name>>, "uri" :> uri @@ "file" :> "a.html", [i \in DOMAIN ts |-> On("tool", ts[i])])
Text1(kind, args, props) == Node(kind, args, props, <<Kid("text", <<"words">>)>>)
Client == Node("oauth2-client", <<"c">>, <<>>,
    <<Kid("token-url", <<"https">>), Kid("client-id", <<"id">>), Kid("client-secret", <<"env", "S">>)>>)

MCInputs  == ("list" :> {"q", "body"}) @@ ("drop" :> {"id"}) @@ ("doc" :> {"url"}) @@ ("info" :> {})
MCEnv     == "STORE" :> "redis://h" @@ "S" :> "secret"
MCQueries == ("list" :> {"q"}) @@ ("drop" :> {}) @@ ("doc" :> {}) @@ ("info" :> {})

Shared == {
    On("confirm", "list"), On("confirm", "drop"), On("confirm", "shut"), On("confirm", "info"),
    Stub("shut", <<>>), Stub("shut", <<Kid("alternative", <<"list">>)>>),
    Stub("gone", <<Kid("alternative", <<"shut">>)>>), Stub("list", <<>>), Stub("info", <<>>),
    Kid("server-info", <<"disabled">>), Node("server-info", <<>>, "name" :> "list", <<>>),
    Node("server-info", <<>>, "name" :> "status", <<>>),
    On("rate-limit", "1/1s"), Limit("literal", "host:6379"), Limit("env", "STORE"), Client}
SharedBad == {
    On("confirm", ""), With("confirm", "list", "message", ""), On("withhold", "shut"),
    Node("rate-limit", <<"1/1s">>, <<>>, <<Kid("bucket", <<"b">>)>>), On("rate-limit", "0/1s"),
    Limit("literal", "redis://h"), Limit("env", "UNSET"), Limit("literal", ""), Limit("vault", "STORE"),
    Kid("instructions", <<>>), Text1("instructions", <<>>, <<>>), On("icon", ""), On("icon", "src"),
    Node("oauth2-client", <<"c">>, <<>>, <<Kid("token-url", <<"http">>)>>)}

Both == Shared \cup {
    With("cache", "list", "ttl", 1), With("cache", "drop", "ttl", 1),
    With("extract", "doc", "as", "pdf-text"), On("reject-empty", "list"), On("reject-empty", "drop"),
    With("reject-empty-argument", "list", "field", "body"),
    With("reject-empty-argument", "list", "field", "id"),
    PinOn("list", "query", <<"sort", "env", "S">>), PinOn("list", "query", <<"q", "oauth2", "c">>),
    Widget("w", "ui://w", <<"list">>), Widget("v", "ui://v", <<"list", "drop">>), Widget("w", "ui://x", <<"shut">>),
    Text1("resource", <<"r">>, "uri" :> "ui://w")}
RestBad == SharedBad \cup {
    With("cache", "list", "ttl", 2), On("cache", "list"),
    With("extract", "list", "as", "pdf-text"),
    Node("extract", <<"doc">>, "as" :> "feed-entries" @@ "max-pages" :> 1, <<>>),
    Node("extract", <<"doc">>, "as" :> "pdf-text" @@ "max-pages" :> 0, <<>>),
    On("reject-empty-argument", "list"), Widget("w", "http://w", <<"list">>), Widget("w", "ui://w", <<>>),
    Text1("prompt", <<"p">>, <<>>), Kid("prompt", <<"p">>),
    Node("resource", <<"r">>, "uri" :> "r", <<Kid("audience", <<"model">>)>>),
    Kid("pin", <<"list">>), PinOn("list", "query", <<"sort", "vault", "S">>)}
Base == {On("confirm", "drop"), On("confirm", "list"), With("cache", "drop", "ttl", 1),
    With("extract", "doc", "as", "pdf-text"), With("reject-empty-argument", "drop", "field", "id"),
    PinOn("drop", "query", <<"sort", "env", "S">>), Widget("b", "ui://b", <<"list", "drop">>),
    Widget("v", "ui://b", <<"drop">>), Stub("shut", <<>>), On("rate-limit", "2/1s")}
Upstream == Shared \cup {
    PinOn("list", "argument", <<"q", "env", "S">>), PinOn("drop", "argument", <<"id", "literal", "1">>),
    PinOn("gone", "argument", <<"q", "env", "S">>), With("cache", "list", "ttl", 1),
    PinOn("list", "query", <<"q", "env", "S">>)}
PinFlags == {<<>>, <<<<"list", "q", "1">>>>, <<<<"list", "q", "1">>, <<"list", "q", "2">>>>,
    <<<<"list", "q", "1">>, <<"list", "q", "1">>>>, <<<<"gone", "q", "1">>>>, <<<<"list", "q", "">>>>}

Doc(form, base, own, minted, flags) ==
    [form |-> form, base |-> base, own |-> own, minted |-> minted, flags |-> flags, resolves |-> TRUE]
Unset(d) == [d EXCEPT !.resolves = FALSE]
UpTo1(ns) == {<<>>} \cup {<<n>> : n \in ns}
Pairs(ns) == {<<m, n>> : m, n \in ns}

\* A minted `doc` makes a difference to a node that is on it.
About(d, t) == \E n \in Range(d.own \o d.base) : Len(n.args) > 0 /\ n.args[1] = t
RestDocs == {d \in {Doc("rest", b, o, m, <<>>) : b \in UpTo1(Base), o \in UpTo1(Both) \cup Pairs(Both),
                                              m \in {{"list"}, {"list", "drop"}, {"list", "doc"}}} :
                "doc" \in d.minted => About(d, "doc")}
RestBadDocs == {Doc("rest", <<>>, <<n>>, {"list", "doc"}, <<>>) : n \in RestBad}
FileDocs == {Doc("file", <<>>, o, m, f) :
    o \in UpTo1(Upstream) \cup Pairs(Upstream) \cup UpTo1(SharedBad), m \in {{}, {"list"}, {"list", "drop"}}, f \in PinFlags}
UnsetDocs == {Unset(Doc("file", <<>>, o, {"list"}, <<>>)) : o \in UpTo1(Upstream)}
FlagDocs  == {Doc("flags", <<>>, <<>>, m, f) : m \in {{}, {"list"}, {"info"}}, f \in PinFlags}

MCDocs == RestDocs \cup (FileDocs \cup RestBadDocs \cup UnsetDocs \cup FlagDocs)
=============================================================================
