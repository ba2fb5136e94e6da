----------------------------- MODULE Publisher -----------------------------
(***************************************************************************)
(* The two servers over the AWS SDK: `serve-s3` (s3.go), which publishes   *)
(* objects under the policy its guardfile states, and `serve-ssm`          *)
(* (ssm.go), which reads the one parameter its guardfile names.            *)
(*                                                                         *)
(* A key is a sequence of characters.  S3 is strongly consistent and       *)
(* nobody deletes.  The SDK sends a put again when it hears no answer, the *)
(* caller's deadline ends the wait at any time, and an attempt that nobody *)
(* waits for any more may still land.                                      *)
(***************************************************************************)
EXTENDS Integers, SequencesExt

CONSTANTS
    Calls,
    Docs,      \* guardfiles: their nodes, and the mode their `wrap` line names
    Keys,      \* the keys callers write
    Roots,  \* the prefixes callers write
    Types,     \* the content types callers and guardfiles write
    Lower,     \* strings.ToLower of a type, trimmed
    Sizes,     \* what content_base64 decodes to, in bytes; -1 when it does not
    Names,     \* the parameter names callers write
    Seeds,     \* keys in the bucket that this server did not put there
    MaxKey,    \* the longest key S3 takes
    PageSize,  \* MaxKeys of a listing
    MaxTries   \* the SDK's attempts

ASSUME CallsAssumption == "nobody" \notin Calls
ASSUME DocsAssumption  ==
    \A i \in DOMAIN Docs :
        LET nodes == Docs[i].nodes IN
        /\ Len(nodes) \in Nat /\ DOMAIN nodes = 1..Len(nodes)
        /\ \A j \in DOMAIN nodes :
               /\ nodes[j].name = "prefix" => nodes[j].args \in Seq(Seq(STRING))
               /\ nodes[j].name = "max-bytes" => nodes[j].args \in Seq(Int)
ASSUME KeysAssumption  == Keys \cup Roots \subseteq Seq(STRING)
ASSUME TypesAssumption == DOMAIN Lower = Types
ASSUME SizesAssumption ==
    Sizes \subseteq Int /\ {MaxKey, PageSize, MaxTries} \subseteq Nat \ {0}

VARIABLES
    doc,     \* the guardfile
    policy,  \* what the server made of it, or Refused
    bucket,  \* the objects, by key
    flying,  \* attempts of puts that have not landed, as <<call, attempt>>
    calls

vars == <<doc, policy, bucket, flying, calls>>

Refused == [mode |-> "refused"]
Markup  == {"text/html", "application/xhtml+xml", "image/svg+xml", "application/xml", "text/xml"}
Default == 2  \* defaultS3MaxBytes, scaled down

-----------------------------------------------------------------------------
\* The policies.
Grants(mode) ==
    IF mode = "s3"
    THEN {<<"put", "object">>, <<"list", "objects">>, <<"get", "object-url">>}
    ELSE {<<"get", "parameter">>, <<"get", "forgejo-read-token">>}

Nodes(mode) ==
    IF mode = "s3"
    THEN {"region", "bucket", "base-url", "prefix", "max-bytes", "content-type", "can"}
    ELSE {"region", "parameter", "can"}

\* What the parsers take of one node. A max-bytes that is no integer is a 0 here.
Legal(mode, n) ==
    /\ n.name \in Nodes(mode)
    /\ Len(n.args) = IF n.name = "can" THEN 2 ELSE 1
    /\ n.name = "can" => n.args \in Grants(mode)
    /\ n.name = "max-bytes" => n.args[1] > 0
    /\ n.name = "content-type" => Lower[n.args[1]] \notin Markup

Named(d, name) == {i \in DOMAIN d.nodes : d.nodes[i].name = name}

\* A node that is stated again replaces the first; content types and grants add up.
Stated(d, name, default) ==
    IF Named(d, name) = {} THEN default ELSE d.nodes[Max(Named(d, name))].args[1]
All(d, name) == {d.nodes[i].args : i \in Named(d, name)}

\* strings.Trim(s, set).
TrimSet(s, set) ==
    LET kept == {i \in DOMAIN s : s[i] \notin set}
    IN  IF kept = {} THEN <<>> ELSE SubSeq(s, Min(kept), Max(kept))

\* A prefix that trims to nothing does not replace one that did not.
Root(d, i) == TrimSet(d.nodes[i].args[1], {"/"})
Prefix(d) ==
    LET roots == {i \in Named(d, "prefix") : Root(d, i) # <<>>}
    IN  IF roots = {} THEN <<>> ELSE Root(d, Max(roots)) \o <<"/">>

\* parseS3Policy and parseSSMPolicy.
Parse(d) ==
    IF \/ \E i \in DOMAIN d.nodes : ~Legal(d.mode, d.nodes[i])
       \/ All(d, "can") # Grants(d.mode)
       \/ d.mode = "ssm" /\ Stated(d, "parameter", "") = ""
       \/ d.mode = "s3" /\ "" \in {Stated(d, "bucket", ""), Stated(d, "base-url", "")}
       \/ d.mode = "s3" /\ Named(d, "content-type") = {}
    THEN Refused
    ELSE IF d.mode = "s3"
         THEN [mode |-> "s3", prefix |-> Prefix(d), max |-> Stated(d, "max-bytes", Default),
               types |-> {args[1] : args \in All(d, "content-type")}]
         ELSE [mode |-> "ssm", parameter |-> Stated(d, "parameter", "")]

-----------------------------------------------------------------------------
\* The guards of a key.
Fine    == {"a", "p", ".", "-", "_", "/"}  \* letters and digits stand for themselves
HasIn(s, part) == part \in SubSeqs(s)

\* Mutant: `..` is looked for, `.` is not.
TraversesUpOnly(key) ==
    \E seg \in {<<".", ".">>} : HasIn(<<"/">> \o key \o <<"/">>, <<"/">> \o seg \o <<"/">>)

\* A segment that is `.` or `..`.
Traverses(key) ==
    \E seg \in {<<".">>, <<".", ".">>} : HasIn(<<"/">> \o key \o <<"/">>, <<"/">> \o seg \o <<"/">>)

\* resolveKey: the object key, or nothing. TrimSpace first.
Resolve(raw) ==
    LET key == TrimSet(raw, {" "})
    IN  IF \/ key = <<>> \/ key[1] = "/" \/ key[Len(key)] = "/"
           \/ HasIn(key, <<"/", "/">>)
           \/ Traverses(key)
           \/ ~(ToSet(key) \subseteq Fine)
           \/ Len(policy.prefix \o key) > MaxKey
        THEN {} ELSE {policy.prefix \o key}

\* s3PutHandler's guards, in its order: the key, the type, the bytes.
Publishable(args) ==
    /\ Resolve(args.key) # {}
    /\ args.type \in policy.types
    /\ args.size > 0 /\ args.size <= policy.max

\* Mutant: a leading slash of the caller's stays.
ListPrefixSlashed(raw) == policy.prefix \o raw

\* s3ListHandler: the caller's prefix narrows the policy's.
ListPrefix(raw) ==
    policy.prefix \o (IF raw # <<>> /\ raw[1] = "/" THEN Tail(raw) ELSE raw)

-----------------------------------------------------------------------------
Idle == [stage |-> "idle"]

\* A call that was turned down, or failed before it was sent, leaves nothing behind.
Declined == [stage |-> "done", answer |-> "refused"]

Init ==
    /\ \E i \in DOMAIN Docs : doc = Docs[i]
    /\ policy = Parse(doc)
    /\ bucket = [k \in Seeds |-> [type |-> "seed", size |-> 0, by |-> "nobody"]]
    /\ flying = {}
    /\ calls = [c \in Calls |-> Idle]

Over == {c \in Calls : calls[c].stage = "done"}
Set(c, call) == calls' = [calls EXCEPT ![c] = call]
Finish(c, answer) == Set(c, [calls[c] EXCEPT !.stage = "done", !.answer = answer])

Sent(c, tool, args) ==
    Set(c, [stage |-> "sent", tool |-> tool, args |-> args, after |-> Over,
            tries |-> 1, answer |-> "none", page |-> {}, truncated |-> FALSE])

\* put_object checks everything before it sends anything.
Put(c) ==
    /\ policy.mode = "s3" /\ calls[c].stage = "idle"
    /\ \E args \in [key : Keys, type : Types, size : Sizes] :
           \/ /\ Publishable(args)
              /\ Sent(c, "put", [args EXCEPT !.key = TrimSet(@, {" "})])
              /\ flying' = flying \cup {<<c, 1>>}
           \/ /\ ~Publishable(args)
              /\ Set(c, Declined)
              /\ UNCHANGED flying
    /\ UNCHANGED <<doc, policy, bucket>>

\* What resolveKey made of the key, which is kept trimmed.
KeyOf(c) == policy.prefix \o calls[c].args.key

\* An attempt reaches the bucket, which stores the object over whatever is there.
Land(c, n) ==
    /\ <<c, n>> \in flying
    /\ flying' = flying \ {<<c, n>>}
    /\ LET object == [type |-> calls[c].args.type, size |-> calls[c].args.size, by |-> c]
       IN  bucket' = [k \in DOMAIN bucket \cup {KeyOf(c)} |->
                          IF k = KeyOf(c) THEN object ELSE bucket[k]]
    /\ UNCHANGED <<doc, policy, calls>>

\* Mutant: the put answers once it is sent.
ReplyEarly(c) ==
    /\ calls[c].stage = "sent" /\ calls[c].tool = "put"
    /\ Finish(c, "ok")
    /\ UNCHANGED <<doc, policy, bucket, flying>>

\* The answer to the last attempt is heard.
Reply(c) ==
    /\ calls[c].stage = "sent" /\ calls[c].tool = "put"
    /\ <<c, calls[c].tries>> \notin flying
    /\ Finish(c, "ok")
    /\ UNCHANGED <<doc, policy, bucket, flying>>

\* The SDK hears no answer, or a bad one, and sends the put again.
Retry(c) ==
    /\ calls[c].stage = "sent" /\ calls[c].tool = "put"
    /\ calls[c].tries < MaxTries
    /\ Set(c, [calls[c] EXCEPT !.tries = @ + 1])
    /\ flying' = flying \cup {<<c, calls[c].tries + 1>>}
    /\ UNCHANGED <<doc, policy, bucket>>

\* The last attempt, a read or the call's deadline fails.
GiveUp(c) ==
    /\ calls[c].stage = "sent"
    /\ Finish(c, "failed")
    /\ UNCHANGED <<doc, policy, bucket, flying>>

List(c) ==
    /\ policy.mode = "s3" /\ calls[c].stage = "idle"
    /\ \E raw \in Roots :
           IF HasIn(ListPrefix(raw), <<".", ".">>)
           THEN Set(c, Declined)
           ELSE Sent(c, "list", [key |-> raw])
    /\ UNCHANGED <<doc, policy, bucket, flying>>

\* ListObjectsV2 hands out the first page of the keys with the prefix.
Listed(c) ==
    /\ calls[c].stage = "sent" /\ calls[c].tool = "list"
    /\ LET found == {k \in DOMAIN bucket : IsPrefix(ListPrefix(calls[c].args.key), k)}
       IN  \E keys \in SUBSET found :
               /\ Cardinality(keys) = Min({PageSize, Cardinality(found)})
               /\ Set(c, [calls[c] EXCEPT !.stage = "done", !.answer = "ok",
                                          !.page = keys, !.truncated = keys # found])
    /\ UNCHANGED <<doc, policy, bucket, flying>>

GetURL(c) ==
    /\ policy.mode = "s3" /\ calls[c].stage = "idle"
    /\ \E raw \in Keys :
           IF Resolve(raw) = {} THEN Set(c, Declined) ELSE Sent(c, "url", [key |-> TrimSet(raw, {" "})])
    /\ UNCHANGED <<doc, policy, bucket, flying>>

\* HeadObject.
HeadObject(c) ==
    /\ calls[c].stage = "sent" /\ calls[c].tool = "url"
    /\ Finish(c, IF KeyOf(c) \in DOMAIN bucket THEN "ok" ELSE "missing")
    /\ UNCHANGED <<doc, policy, bucket, flying>>

\* ssmToolHandler: get_parameter names a parameter, get_forgejo_read_token none.
GetParameter(c) ==
    /\ policy.mode = "ssm" /\ calls[c].stage = "idle"
    /\ \/ \E name \in Names : IF name = policy.parameter
                              THEN Sent(c, "parameter", [key |-> name])
                              ELSE Set(c, Declined)
       \/ Sent(c, "parameter", [key |-> policy.parameter])
    /\ UNCHANGED <<doc, policy, bucket, flying>>

Parameter(c) ==
    /\ calls[c].stage = "sent" /\ calls[c].tool = "parameter"
    /\ \E answer \in {"ok", "missing"} : Finish(c, answer)
    /\ UNCHANGED <<doc, policy, bucket, flying>>

Stop == UNCHANGED vars /\ (policy = Refused \/ Over = Calls)

Next ==
    \/ \E c \in Calls :
           \/ Put(c) \/ Reply(c) \/ Retry(c) \/ GiveUp(c)
           \/ List(c) \/ Listed(c) \/ GetURL(c) \/ HeadObject(c)
           \/ GetParameter(c) \/ Parameter(c)
           \/ \E n \in 1..MaxTries : Land(c, n)
    \/ Stop

Spec == Init /\ [][Next]_vars

-----------------------------------------------------------------------------
Accepted(c) == calls[c].stage # "idle" /\ calls[c].answer # "refused"
Puts == {c \in Calls : Accepted(c) /\ calls[c].tool = "put"}
Asked(tool) == {c \in Over : Accepted(c) /\ calls[c].tool = tool}

TypeOK ==
    /\ policy.mode \in {"refused", "s3", "ssm"}
    /\ flying \subseteq Puts \X (1..MaxTries)
    /\ \A c \in Calls : calls[c].stage \in {"idle", "sent", "done"}
    /\ \A k \in DOMAIN bucket : bucket[k].by \in Puts \cup {"nobody"}

\* path.Clean below a root, the reference for what a key should be: read from the left, at
\* a slash and at the end a segment joins what is there, unless it is nothing, stays (`.`)
\* or takes one back (`..`).
Parent(out) ==
    LET cuts == {i \in DOMAIN out : out[i] = "/"}
    IN  IF cuts = {} THEN <<>> ELSE SubSeq(out, 1, Max(cuts) - 1)
Join(out, seg) ==
    CASE seg \in {<<>>, <<".">>} -> out
      [] seg = <<".", ".">>      -> Parent(out)
      [] OTHER                   -> IF out = <<>> THEN seg ELSE out \o <<"/">> \o seg
Step(key, read, n) ==
    IF n <= Len(key) /\ key[n] # "/"
    THEN [out |-> read.out, seg |-> Append(read.seg, key[n])]
    ELSE [out |-> Join(read.out, read.seg), seg |-> <<>>]
Clean(key) ==
    LET read[n \in 0..(Len(key) + 1)] ==
            IF n = 0 THEN [out |-> <<>>, seg |-> <<>>] ELSE Step(key, read[n - 1], n)
    IN  read[Len(key) + 1].out

\* What s3.go's header says of every object: below the guardfile's prefix its key is a path
\* that cleaning leaves as it is, its type is one the guardfile lists and no markup, its
\* size is between one byte and the cap the guardfile states last.
ObjectsFitTheGuardfile ==
    \A k \in DOMAIN bucket : bucket[k].by # "nobody" =>
        LET roots == {TrimSet(args[1], {"/"}) : args \in All(doc, "prefix")} \ {<<>>}
        IN  /\ \E from \in 1..Len(k) :
                   LET key == SubSeq(k, from, Len(k)) IN
                   /\ Clean(key) = key
                   /\ IF roots = {} THEN from = 1
                      ELSE \E root \in roots : SubSeq(k, 1, from - 1) = root \o <<"/">>
            /\ Len(k) <= MaxKey
            /\ bucket[k].type \in {args[1] : args \in All(doc, "content-type")} /\ Lower[bucket[k].type] \notin Markup
            /\ bucket[k].size \in 1..Stated(doc, "max-bytes", Default)

\* What a put published, by its answer, is found by a later get_object_url that writes the
\* key the same way and by a later listing under any prefix of that key, its own leading
\* slash or none, unless the page was full.  A prefix with two dots in a row is refused, and
\* is no answer, also where it is a prefix of a good key.
PublishedIsFound ==
    \A p \in Asked("put") : calls[p].answer = "ok" =>
        /\ \A u \in Asked("url") :
               p \in calls[u].after /\ calls[u].args.key = calls[p].args.key => calls[u].answer # "missing"
        /\ \A l \in Asked("list") :
               LET asked == calls[l].args.key
                   bare  == IF asked # <<>> /\ asked[1] = "/" THEN Tail(asked) ELSE asked
               IN  /\ p \in calls[l].after
                   /\ IsPrefix(bare, calls[p].args.key)
                   /\ calls[l].answer = "ok"
                   => KeyOf(p) \in calls[l].page \/ calls[l].truncated

\* PutObject is unconditional, so an object may come back that a later put had replaced and
\* answered for; but only that of a put that was retried or given up.
OldReturnsOnlyUnheard ==
    \A k \in DOMAIN bucket : \A d \in Asked("put") :
        LET c == bucket[k].by IN
        (calls[d].answer = "ok" /\ KeyOf(d) = k /\ c \in calls[d].after) =>
            (calls[c].answer = "failed" \/ calls[c].tries > 1)
=============================================================================
