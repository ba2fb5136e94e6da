---------------------------- MODULE MCPublisher ----------------------------
\* Guardfiles with and without a prefix, one that lists markup, one short of a grant, one
\* without a content type, and an SSM one; keys of every kind resolveKey tells apart.
EXTENDS Publisher

Node(name, arg) == [name |-> name, args |-> <<arg>>]
Can(verb, what) == [name |-> "can", args |-> <<verb, what>>]
S3(nodes) == [mode |-> "s3",
              nodes |-> <<Node("bucket", "b"), Node("base-url", "u"),
                          Can("put", "object"), Can("list", "objects")>> \o nodes]
MCDocs == <<
    S3(<<Can("get", "object-url"), Node("content-type", "image/png")>>),
    S3(<<Can("get", "object-url"), Node("content-type", "image/png"), Node("max-bytes", 3),
         Node("prefix", <<"/", "p", "/">>), Node("prefix", <<"/">>), Node("max-bytes", 2)>>),
    S3(<<Can("get", "object-url"), Node("content-type", "image/png"), Node("content-type", "Text/HTML")>>),
    S3(<<Node("content-type", "image/png")>>),
    S3(<<Can("get", "object-url")>>),
    S3(<<Can("get", "object-url"), Node("content-type", "image/png"), Node("max-bytes", 0)>>),
    [mode |-> "ssm", nodes |-> <<Node("parameter", "/n"), Can("get", "parameter"),
                                 Can("get", "forgejo-read-token")>>] >>

MCKeys == { <<"a">>, <<" ", "a">>, <<"a", "/", ".", ".", "p">>, <<"/", "a">>, <<"a", "/">>,
            <<"a", "/", "/", "a">>, <<"a", "/", ".", "/", "p">>, <<".", ".", "/", "a">>, <<"~">> }
MCPrefixes == { <<>>, <<"/", "a">>, <<"a", "/", ".", ".">> }
MCLower == [t \in {"image/png", "Text/HTML"} |-> IF t = "Text/HTML" THEN "text/html" ELSE t]
MCSizes == {-1, 0, 2, 3}
MCSeeds == {<<"p">>, <<"q">>}
CallSymmetry == Permutations(Calls)
=============================================================================
