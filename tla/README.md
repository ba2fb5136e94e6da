# mcp-beaver: a TLA+ model

mcp-beaver turns a guardfile into an MCP server. In *spec mode* (`serve`) the guardfile's grants become tools that
call a REST API; in *upstream mode* (`serve-upstream`) the server is a guarded passthrough to another MCP server.
`serve-s3` and `serve-ssm` are two small servers over AWS. Two commands reach out on their own: `pull` records one
upstream's tools, and `directory` sweeps a registry and writes what it found to disk.

The models cover three things: what changes while a server runs, what is decided once at startup and then trusted,
and what a command leaves behind. Paths below are relative to the repository; `mcpserver/` stands for
`internal/mcpserver/`.

    module            models                                            proofs                  instance
    GuardedCall       what the proxy promises about one call            (refined below)
    UpstreamProxy     the passthrough proxy and its one session         UpstreamProxyProofs     MCUpstreamProxy
    Limiter           what a rate limit promises                        (refined below)
    TokenBucket       the durable rate limit over a shared store        TokenBucketProofs       MCTokenBucket
    ResponseCache     the in-process cache of one tool's answers        ToolChainProofs         (in MCToolChain)
    ToolChain         the wrappers around one tool, over that cache     ToolChainProofs         MCToolChain
    Serving           the process, its requests and their deadlines     ServingProofs           MCServing
    Compose           what a chain of `inherit`ed guardfiles says       ComposeProofs           MCCompose
    Surface           what a server makes of its guardfiles             SurfaceProofs           MCSurface
    Survey            what a sweep promises of each server              (refined below)
    Sweep             the registry sweep and the pulls it starts        DirectoryProofs         MCSweep
    Directory         the registry's pages, the record, the files       DirectoryProofs         MCDirectory
    Publisher         the S3 publisher and the SSM reader               PublisherProofs         MCPublisher

`PROJECT.json` maps every definition to the lines it stands for. Operators marked *mutant* are wrong variants of
the definition next to them, kept to show that a property notices that mistake; no specification uses one.

## Inventory

**Upstream proxy** (`mcpserver/upstream.go`). State: the current session, the baseline of tool contracts taken at
startup, a latched drift error, a closed flag, one mutex. Operations: `newProxyBackend`, `toolHandler` per call
(`ensureFreshOrReconnect`, `currentSession`, argument check, `CallTool`), `reconnect`, `Close`. Calls are goroutines
that share the session; the mutex is held over the `tools/list` of `ensureFresh` and *not* over closing and dialling
in `reconnect`. Hard: interleaved reconnects, a call admitted by one session and run on another, drift found by one
call while another reconnects, Close during a dial, a hung upstream under the mutex. Right when: nothing but the
reviewed contract is called, at most once, never after drift; sessions are not leaked; a lost session is recovered.

**Startup retry** (`cmd/mcp-beaver/main.go`, `connectProxyWithRetry`). Dials until the backend is built or its
context ends. Part of `UpstreamProxy`; its outcomes are `Build` and `BuildFails` of `Serving`.

**Durable rate limit** (`mcpserver/ratelimitredis.go`, `ratelimit.go`). State: balance, stamp and expiry under one
key of a Redis-compatible store; per call a deadline and a timer. Operations: the Lua script, `charge`, `Wait`,
`sleep`. All pods of a server charge one bucket, each with its own clock. Hard: clocks that disagree, charges in
another order than their readings, lost replies, resends by the client library, expiry of the key. Right when: no
window passes more calls than it should.

**In-memory rate limit** (`ratelimit.go`): delegates to `golang.org/x/time/rate`. A bucket of tokens in `ToolChain`.

**Response cache** (`mcpserver/cache.go`). State: a map from canonical arguments to an answer and its expiry.
Operations: `get`, `put`, around an arbitrarily slow handler. Hard: a clock reading used long after it was taken,
overlapping misses of one key, eviction at capacity, a pin that changes under an entry. Right when: a hit is a fresh
success for the same arguments, the map is bounded, and what is good is lost only to pressure.

**Tool handler chain, pins** (`server.go`, `confirm.go`, `cache.go`, `ratelimit.go`, `rejectempty.go`,
`rejectemptyarg.go`, `pin.go`, `querypin.go`, `unknownarg.go`). Wrappers in a fixed order around each tool; the state
is the cache's, the bucket's and the source of a pinned value. Hard: the order decides what a refused, declined,
cached or empty call spends and what later callers are told. Right when: nothing is spent before the human accepts
or without a token, and what is kept was an answer.

**Request deadlines and shutdown** (`server.go`, `api.go`, `pdf.go`, `main.go`, `telemetry/runtime.go`). State: per
request two deadlines from two starts, the critical section of the proxy it is in, a PDF parser; per process the
phase of the command and the signal. Hard: which deadline fires first, a mutex taken up to seven times a call behind
a hung upstream, a drain that gives up, the deferred Close, parsers nobody waits for. Right when: a caller gets an
error and not an empty body, the process ends in bounded time and says whether it killed anyone.

**Policy composition** (`mcpserver/compose.go`, and what `New` makes of it with `confirm.go`, `cache.go`,
`withhold.go`, `ratelimit.go`). State: the path of open guardfiles, the visited paths, the collected chain, the
parsed controls. Hard: diamonds, cycles, controls of a base on tools the child narrowed away, two files that
contradict each other. Right when: no gate of the chain is lost on a tool that is served.

**Guardfile front ends** (`server.go`, `upstreamguardfile.go` and one file per inline node: `app.go`, `resource.go`,
`prompt.go`, `icon.go`, `instructions.go`, `serverinfo.go`, `extract.go`, `oauth2client.go`, `inlinedoc.go`, ...).
State: the configuration on its way from nodes to handlers. Hard: sixteen grammars, two front ends that take
different nodes, two checks of one proxy guardfile, names and uris that collide, flags beside a file. Right when:
what is listed is answered, and what a file states is in force or reported.

**Registry sweep and pull** (`mcpserver/registry.go`, `pull.go`). State: a slot semaphore, one result per server, a
status remembered by the transport. Operations: `Sweep`, `sweepOne`, `pullWithin`, `probeUpstream`. Hard: a pull
outliving its deadline, results nobody waits for, statuses of side requests, an interrupt that looks like a timeout.
Right when: every server is settled, once, with what it said.

**Directory on disk** (`internal/directory/directory.go`, `cmd/mcp-beaver/directory.go`, `registry.go`). State: the
names kept so far, the record, the files of the output directory. Operations: `EnumerateRegistry`, `FromSweep`,
`Write`, `ReadRecord`. Hard: an error or a kill between two files or inside one, older files, file names that
collide, cursors for ever. Right when: the pages agree with the files beside them, and these allow what was declared.

**S3 publisher, SSM reader** (`mcpserver/s3.go`, `ssm.go`). State: the bucket, attempts in flight. Hard: keys that
leave the prefix, markup, put attempts that land late. Right when: what lands fits the guardfile and is found again.

**Credentials and providers, telemetry and logging, document extraction**: partly modelled; `components` in
`PROJECT.json` says which part.

Interaction. The files of a chain are found (`Compose`), read as nodes and wired to handlers (`Surface`); each handler
is a chain of wrappers (`ToolChain`) around a cache (`ResponseCache`), a bucket (`TokenBucket`, or the in-memory one)
and the upstream call, which for a proxy is `UpstreamProxy`. Every request runs in a goroutine of its own under
`withToolDeadline` in a process (`Serving`). `ToolChain` EXTENDS `ResponseCache` and uses its actions, so the
composition of the two is checked and proved; `Serving` keeps of the proxy the critical sections of a call and the
mutex they take, and nothing of its session. `directory` runs
`Sweep` and records what it settled (`Directory`), whose record starts from there.

## The modules

### UpstreamProxy and GuardedCall

One process per call: `pc[c]` names the place in `toolHandler`, and each action is a stretch of code between two
points at which another goroutine can run, that is, between lock operations and round trips. `EnsureFresh`,
`ListFails/ListDrifts/ListMatches` are `ensureFresh` before and after its listing, `Decide` is `hasDrifted`,
`TakeStale`, `RetireStale`, `Dial`, `Install` are the four parts of `reconnect`, then `Resolve`, `CheckArguments`,
`Execute`, `CallFails`, `CallAnswers`. The mutex is no variable: it is held exactly while a call is in "list1" or
"list2", and `LockFree` guards every other critical section. The upstream may forget sessions, hang, go down and
change its tools; a call's context ends by cancellation or deadline. A contract is a model value: what matters of a
fingerprint is whether it equals the baseline's. The go-sdk client is external: a request is served, fails, or waits
for its context; `session.Close` is taken to return.

A call runs on whatever session is current after its admission (`Resolve`), possibly one over which nothing was
listed. That is the code's choice, the model has it, and no property calls it wrong: `AdmittedMatchesReview` and
`KeepsPromise` are about the admission.

`GuardedCall` is the promise of `docs/upstream.md` about one call, with no sessions: pending, admitted at most under
an unlatched drift, run at most once. `KeepsPromise` is the refinement, with the phase of a call read off `pc`.

`CallsOnlyAdvance` bounds a call from the other side: every step it takes, whatever the others and the upstream do
meanwhile, brings it nearer to its return, and only the first failed listing sends it back, once
(`upstream.go:246-260`). It is proved and no run lists it: `proxy_safety` would be the instance.

- `proxy_safety` (two calls, two tools, two contracts, four sessions, two faults): admission only under the reviewed
  contract, no session after Close, an open session lost from sight only where two reconnects overlap, and the
  refinement, which carries "at most once" and "nothing past drift". Two faults are enough for "lose a session while another call
  changes its mind": a reconnect needs one, and the other may hit the reconnect itself. Four sessions let each of two
  calls reconnect twice.
- `proxy_progress` (two calls, one surface): every call returns and so does Close, behind a hung upstream; and once
  the faults stop the proxy recovers, if from some point on no call gets past its first listing while another
  reconnects (`Undisturbed`).
- `proxy_livelock`: without that proviso recovery fails; see Findings.

Fairness (`FairSpec`). Call steps are strongly fair because a step that needs the mutex is enabled only now and
then: Go's `sync.Mutex` hands over in arrival order once a waiter has starved for a millisecond. Deadlines fire
because `withToolDeadline` puts one on every call; with `--request-timeout 0` it does not, and nothing is claimed
about progress. Heal is fair because recovery is only promised of upstreams that come back. Nothing else the
upstream does is fair. `MaxFaults` bounds cancellations and faults; `FreeSessions = {}` is the bound on session
identities, the "upstream refuses more sessions" of the model.

### TokenBucket

Time is in ticks of the store's clock and the balance in units of one tick's refill, which makes the script's
division exact: a token costs `Cost` units, `Capacity` is both a full bucket and the window. A pod's reading, taken
before the script runs, is up to `MaxLag` old. `Pass`, `ReplyLost`, `StoreFails` and `Charged` are the outcomes of
`charge`, with the state change the script makes in each; `ReplyLost` also stands for go-redis sending the script
again. `StartMeter` is history: it starts a window at an arbitrary moment, so `WindowBound` speaks of all windows.
`Limiter` is what all this amounts to for an upstream: one bucket of `Capacity + MaxLag` units under one clock, which
may lose some of what it holds and never gains any but by time. `Level` maps the store's state to it.

- `token_bucket` (two calls, one token per two ticks, readings up to two ticks old, seven ticks): the window bound,
  and that the pods implement `Limiter`. Seven ticks are enough for the key to expire and
  a bucket to refill afterwards.
  Deadlock is not checked: the clock stops at its bound.

### ResponseCache

One tool's cache and the calls that overlap in it. `ReadClock` is the one reading a call makes; `Hit`/`Miss` are
`get`; `NextAnswers` is the rest of the chain, after any time; `Put` is `put` with the purge and the eviction, whose
choice among equal expiries is the map's. `KeyOf` is `cacheKey`: two spellings of one object share a key and
undecodable arguments have none.

It has no run of its own: `tool_chain` checks its two properties, freshness and losses only to pressure, inside the
chain that uses it.

### ToolChain

`ResponseCache` with the rest of the chain in the place of its `NextAnswers`: `at[c]` is the station of a call inside
the cache, "gate", "bucket", "handler" or "upstream"; what is outside the cache (`Enter`) either refuses a call at
once or reads its pin. `controls` is the set of wrappers of the tool, any that the two constructors install
(`SpecWrappers`, `ProxyWrappers`) and `validateCaches` allows together. A tool without a cache is one whose requests
have no key. A confirmation is two requests: the first returns the question, the second carries the human's answer,
and nothing in the server connects them, so every attempt is a call of its own. The pinned value is a version number
that `Rotate` raises; `origin` and `sent` are history.

- `tool_chain` (two calls of one tool, six sets of wrappers, three keys over two entries, ttl 2, three instants, a
  bucket of one token with two refills, one rotation): a hit is fresh, what is kept was said, pins age out, what is
  good is lost only to pressure, requests within the budget, accept first. One token lets two calls compete for it;
  with two refills three answers can come in, so that a store has to evict and has a choice, also one whose clock
  reading is older than an entry; a ttl of two is what keeps such entries apart.

### Serving

One process: `phase` follows `withTelemetry`, `runServe`/`runServeUpstream` and `serveHTTP` through "setup", "build",
"serve", "drain", "close", "closing", "flush" and "exited". Per request, `stage` goes from "reading" (the body, which
no context bounds) through the stretches of its handler to how it ended: "answered", "cut" (the response came after
the transport's deadline and is empty) or "killed" by the exit. `Transport(r)` and `Tool(r)` are the two deadlines;
under the newer protocol the handler's context descends from the HTTP request and has the earlier of them.

A proxied call takes the mutex once per critical section of `toolHandler`, in the order of the code: "list1"
(`ensureFresh`), after a failure "drift" (`hasDrifted`), "take" and "install" (`reconnect`, with "retire" and "dial"
between them, outside the mutex) and "list2", then "resolve" (`currentSession`) and "args" (`declaredArgs`), and only
then "calling". `queue` is the mutex: its head has it, and the others wait, deaf to their deadlines; a listing
selects on its context once it holds it (`Heeds`). `Lock` is `sync.Mutex`: in arrival order, except that a newcomer
may take it from under a waiter that was just woken, once, before that waiter has run (`woken`, `passed`); a waiter
that was passed over is handed the mutex directly, as Go does after a millisecond. `Closes` and `Closed` are
`proxyBackend.Close`, which holds the mutex over `session.Close`. That, and the close in `reconnect`, has no context;
it is a round trip bounded by the transport's `ResponseHeaderTimeout`, which is `HangUp` (45 s,
`upstream.go:48-67`). `Tick` advances the clock only when nobody is `Due`: contexts fire on time, short critical
sections take none, everything else takes as long as it likes.

- `serving` (two requests, timeout 1, grace, drain and hang-up 1, arrivals and the signal up to tick 1, eight ticks,
  with fairness): a grant's response is cut only after a slow body, a call ends within six tool deadlines, the exit is
  bounded, and a signalled process ends. Eight ticks hold the latest call's six deadlines and its hang-up. Without a
  timeout (`--request-timeout 0`) nothing is cut and nothing bounds a call; the proofs include it.
- `serving_cut` (three ticks): of a proxied call the first of these fails; see Findings.

Two requests are the smallest queue in which Close waits behind one that waits, and one call is caught behind
another's second critical section. Deadlock is not checked: the process ends.

Fairness: the process's own steps except the signal, the clock, and a call that nothing keeps (`Due`): it wants the
mutex, holds it for a short section, or is past a deadline it heeds. Bodies, upstreams, parsers and signals owe
nothing.

### Compose

The recursion of `collectInherited` is a stack of activations: `Enter` marks and enters a file, `EnterFails` is a
visited, unreadable or too deep one, `Leave` appends the file after its bases. `Parse` is every parser over the chain
(`Stated`, duplicates, `Vacant`), `Check` the validators, `Limit` the pruning of a singleton. Which tools are minted
is umbra's decision and arbitrary here. Of the six tool-scoped nodes the instance has two, the gate and the cache,
which are the ones that contradict each other; `withhold` is the third kind of node. Surface has all of them.

- `compose` (four files in 72 shapes: trees, diamonds, cycles, a missing file, towers one deeper than the limit of 2;
  60 sets of statements, six of limits, minted or not): the chain against the reachability defined by closure, no
  false refusals of trees, gates bind, the nearest singleton wins, and the walk of any graph ends.

### Surface

A document is the list of inline nodes of the own file and of the bases, the tools its grants mint, and the flags. A
node is its kind, arguments, properties and children, and each grammar is one predicate over it, in the source's
order of files (`Confirm`, `Cache`, ..., `OAuth2Client`). `Kept` is `pruneSingletons`; `RestParse` and
`UpstreamParse` are the parsers of the two front ends; `Vacate` drops and reports what a base says of a tool that is
not minted; `Validate` is what `New` checks, `ParseUpstreamSpec` what `lint` checks of an upstream guardfile and
`NewProxy` what `serve-upstream` checks again, with `newRateBucket` (`BucketBuilt`), which `New` has and
`ParseUpstreamSpec` has not; `Register` hands every name its handler, with the wrappers around it.
Texts, numbers and files are whether they are accepted.

- `surface` (up to two nodes of one's own from some fifty, legal and illegal, over one of a base; guardfile forms
  `rest`, `file` and `flags`; four grants; stores that are literal or from the environment, with a url, without one,
  unset): nothing stated is lost, widgets are reachable, pins have one source, `lint` and the server agree where
  nothing is left to the start. Contradictions are between two nodes, so two nodes and a base contain them;
  three-way ones are not covered.

Three properties leave out, and name, a case in which the repository says more than the code does: `BucketBuilt` in
`LintedIsServed`, `Overlooked` in `NothingStatedIsLost`, `Claimable` in `WidgetsReachable`; see Findings.

### Sweep and Survey

One goroutine and one pull per server. `Acquire`, `Receive`, `GiveUp`, `Judge`, `JudgeAgain`, `Report` are
`Sweep`/`sweepOne`/`pullWithin`; `Connected`, `Listed`, `Refused`, `Broken`, `SideRefused`, `CloseSession`, `Deliver`
the pull. The state of the record reads the status twice because the code does.

`Survey` is the sweep as `docs/directory.md:41-43` tells it, with no goroutines, slots, channels or second readings:
servers talk, time runs out, and each server gets one row that is true when it is written: its last listing (an
empty one only if it was given twice); the status it answered last, that status and no other; if it answered none,
that its time is up; and words only if neither is so. The row of `KeepsPromise` is the record of a server once its
goroutine is done with it (`Settled`); until then the goroutine may still change its mind, which is why the code may
read the status twice. The code writes two rows that the document does not have, `StoppedEarly` and `Overtaken`;
`KeepsPromise` is Survey with these two added; see Findings.

- `sweep` (two servers, one slot, one tool, one error status): the sweep implements `Survey` but for those two rows,
  and every server settles although upstreams owe nothing. One slot for two servers is the smallest case in which a
  pinned slot would starve someone.

Fairness: the sweep's own goroutines and the deadlines. No fairness of any request or of the goroutine that a pull
runs in: a pull may hang for ever. Deadlock is not checked because a sweep ends.

### Directory

One run at a time over one directory, several in a row. `ReadPage` is `EnumerateRegistry` a page at a time, `SweepAll`
the sweep (any outcome of `Sweep`), `Load` is `--from`, `Writes(rec)` the list of writes of `Write` in its order, and
`Truncate`/`Fill` are the two halves of `os.WriteFile`. `Stop` ends the run at any point, by an error or a kill, and
leaves the disk as it is. `Skip` is the turn of a server that did not answer, for which no guardfile is written.
A guardfile or a row is what of the record it was rendered from; `said` keeps the
upstream's JSON beside it, so a hint that gets lost on the way from the capture through the record is seen.

- `directory` (three registry names, two with one file name, `--limit` 2 or none, two pages, two runs, two scopes): a
  run that ended well leaves pages that agree with each other and, names that collide aside, with the files beside
  them; a page never appears before its files; a guardfile allows only what was declared; and every step of a run ends
  its phase or comes nearer to its end. The first of two runs is the earlier directory, whole or torn at any place.
  The record that `--from` reads back is whatever is there, of any length.

No fairness is assumed and no property says that a run ends: the body of a registry page is read without a deadline
(`registry.go:150`), so a registry that stalls in it holds the run. What is said is that a run has boundedly many
steps; `MaxPages` ends a registry that hands out cursors for ever, as in the code.

### Publisher

`Parse` is the policy of either guardfile, `Resolve` the guard of a key, `Publishable` the three guards of a put.
`Put` sends an attempt, `Land` is the attempt reaching the bucket, at any time, also when nobody waits for it any
more; `Reply`, `Retry` and `GiveUp` are what the SDK and the deadline make of silence. `List`/`Listed` and
`GetURL`/`HeadObject` are the two readers, `GetParameter`/`Parameter` is `serve-ssm`. `flying` is what was sent and
has not landed; an answer says that the attempt it answers is not among it. `Clean` is path.Clean, which the code
does not call: it says from outside what a harmless key is.

- `publisher` (three calls of any tool, seven guardfiles, nine keys of every kind the guard tells apart, two attempts
  a put, pages of two): what lands fits the guardfile, with `Clean` as the reference for a key, what was
  published is found, and an older object comes back only by a put that was retried or given up.
  Three calls are a put, a put over it, and a reader.

## What is proved

Every theorem is checked by TLAPS for all values of the constants that satisfy the named assumptions. Each rests on
one inductive invariant. Runs list the properties that are hard, or not proved; a property with a theorem below that
no configuration names (`AtMostOneExecution`, `NoAdmissionPastDrift`, `CallsOnlyAdvance`, `HitAnswersTheCall`,
`EntriesBounded`, `OkIsWhatWasHeard`, `SettledIsFinal`, `NoCacheOverGate`, `CleanExitIsTrue`, `ListedIsAnswered`,
`AlternativesAnswer`, and the type invariant of every module) rests on its proof. Every invariant and every action
property that a passing run checks, and every refinement, has a theorem.

Three of the theorems are the half of a liveness property that needs no fairness: a count of natural numbers that each
step of a walk, a run's phase or a call lowers and that nothing raises (`WalkTerminates`, `RunsTerminate`,
`CallsAdvance`). So a walk, a run and a call take boundedly many steps, for graphs, registries and sets of calls of any
size; whether the next step comes is another question, and for a run the code does not answer it.

- *UpstreamProxyProofs*. `IInv` is `BackendInv` and `CallInv`. `BackendInv`: nothing is in flight before the adapter
  serves, the baseline is the reviewed contract, and a closed backend has no session, which needs that
  `Install` asks `closed` again. `CallInv`: a call that got past its listing saw what was reviewed, and `executed` is
  1 exactly while the answer is awaited. `MutexInv` adds that at most one call lists and that none lists once drift
  is latched, which the drift theorem and the refinement need: without it another call could latch drift between a
  listing and its admission. That a session is only lost where reconnects overlap is a statement about one step: who
  else is between its close and its install. Results: `TypeCorrect`, `AdmissionIsReviewed`, `NoReplay`,
  `CloseIsFinal`, `DriftStopsEverything`, `OnlyOverlapOrphans`, `ImplementsGuardedCall`, and
  `CallsAdvance`: no call takes more than thirteen steps (`StageOrder`), because it reconnects at most once
  (`upstream.go:255`) and nobody else moves it.
- *TokenBucketProofs*. The refinement comes first. `Level` is the balance and the refill that no charge has used yet,
  up to a bucket and `MaxLag`; it is everything once the key is gone. Every charge lowers it by what it lets through,
  or more: a reading behind the clock that is capped at a full bucket leaves at most `MaxLag` to be refilled later
  (`ChargeLowers`). A key that expires was full by then, because a TTL lies between its stamp and its expiry
  (`StampOK`), which needs `Capacity + MaxLag <= TTL` (`LagAssumption`, the code's factor two). So the pods are one
  bucket under one clock, and the bound on a window is that bucket's (`Covered`), three lines from there. Results:
  `TypeCorrect`, `IsALimiter`, `WindowBounded`.
- *ToolChainProofs*, the cache: `CacheInv`: an entry expires at most TTL after its answer was given, because `put`
  uses a reading no later than the answer, and no reading is ahead of the clock. Results: `TypeCorrect`,
  `HitsAnswerTheCall`, `HitsAreFresh`, `CapacityHeld`, and `LossNeedsPressure`: what `put` takes out is expired, or
  the map was full of entries that are not.
- *ToolChainProofs*, the chain: `ChainStep` shows that every step of the chain is a step of `ResponseCache` or leaves its
  variables alone; so `ChainImplementsCache`, and everything proved of the cache holds inside the chain. `ChainInv`
  adds that a call with a key comes from a tool with a cache, therefore without a gate (so no question can be
  stored), and that a value a call goes by was read no earlier than its clock, so an entry under an old pin was
  stored with a reading from before the change. The budget is a count: sent requests, tokens in hand and tokens in
  the bucket never exceed what there was. Results: `ChainTypeCorrect`, `KeptWasSaid`, `PinsAgeOut`, `WithinBudget`,
  `AcceptFirst`.
- *ServingProofs*. Whoever has the mutex gives it back by its own deadline, or at once if that has passed, and this is
  no later than one tool deadline after anyone behind it queued; two for those whom one call, and no other before they
  are through, took it in front of (`Slack`). So a wait for the mutex takes at most two tool deadlines, however many
  calls contend. A call can be made to wait past its own deadline in three of its critical sections, which makes six
  tool deadlines and one hang-up (`AnsweredInTime`); Close waits once (`ExitBounded`). For a grant there is no mutex, and
  the earlier of the two deadlines is always seen (`GrantsAreNotCut`). Results: `TypeCorrect`, `GrantsAnswer`,
  `CallsAreAnsweredInTime`, `ExitIsBounded`, `CleanExits`.
- *ComposeProofs*. `WalkInv` describes a half-finished walk: the open files lead from the root down, bases of a
  closed file are closed and earlier, no file twice, visited is reachable. At the end the chain is the reachable set
  for every graph of files, and the gates follow; so does the nearest limit, from the order of the chain. For the
  refusals `TreeInv` adds that every visited file was entered through an `inherit` that the walk is past
  (`EnteredByEdge`): a file refused as visited was therefore inherited twice, and the files are no tree. Results:
  `TypeCorrect`, `BaseFirst`, `GatesHold`, `GatesNeverCached`, `NearestLimitHolds`, `TreesCompose`, `WalkTerminates`: a file is
  entered only if it was not visited, and left once, so the files not yet visited and the activations still open
  bound what is left, cycles or not.
- *SurfaceProofs*. `PhaseInv` says what each phase may rely on: after vacating, every stated control is configured or
  reported as a base's (`AllRemembered`); before registration, the checks of the form hold of what will be served. That the two
  checks of an upstream guardfile agree (`LintAgrees`), where the store of the bucket and the headers resolve, is then a
  matter of what the second compares. `WidgetInv` adds
  what is known of pins and apps: every app is a node's, with the links that were not dropped (`AppsHeld`), until the
  validators make every link one of a listed tool and every uri its own. Results: `TypeCorrect`,
  `AnswersWhatItLists`, `StubsPointAtTools`, `LintAgrees`, `NothingIsLost`, `PinsAnswerAlone`, `WidgetsAreReached`.
- *DirectoryProofs*. `DiskOK` and `LocalsOK`: what a path holds was rendered from something an upstream said, also
  after the record went to the disk and came back (`RecordSurvives`, `RecordReloads`: a hint survives the two
  conversions). `Landed`: what the run has written so far is on the disk, except the file it has open; where two
  servers share a file name, the file of one of them is. The pages come last in `Writes` (`PagesComeLast`), so when the
  first of them is written everything it links to has landed, and when the second is, both render one record; an
  earlier run's files do not matter. Results: `TypeCorrect`, `CompletedAgrees`, `AllowedDeclared`,
  `PagesComeAfterFiles`, `RunsTerminate`, and `NamesApartHaveTheirFiles`: if no two names share a file name, the file
  of every row is its own guardfile, which is `EveryRowHasItsFile` without the exception. A run writes one file a
  server at most and three more, in two steps each, however long its record is (`RunsTerminate`).
  The same module holds the proofs about `Sweep`, which it instantiates as `Pulls`.
  `SweepInv`: what a pull heard determines its stage, and a settled record agrees with it. Results:
  `PullsTypeCorrect`, `OkWasHeard`, `RecordsAreFinal`, `SweepKeepsPromise`. The refinement adds to the invariant
  what the goroutine knows between its two readings of the status (`JudgedOK`), although the pull it left behind may
  answer meanwhile: the row is one that Survey writes, or one of the two it does not have (`StoppedEarly`,
  `Overtaken`). It assumes that no error status is 0 (`CodesAreErrors`), which is how the code says "none".
- *PublisherProofs*. First the guards: a key that is trimmed, has no slash at either end, no empty segment and no `.`
  or `..` for a segment is its own `Clean` (`CleanKeeps`). `Clean` is a recursive function over the key; the argument
  takes the first position at which what it has read is not what lies before the last slash, and shows that the one
  before it cannot have been right either. Then the bucket, `PublisherInv`: what flies is an attempt of a put
  (`FlyingOK`), what a put carries passed the guards (`PutsOK`), an object is the one of the put it names
  (`BucketOK`), a put whose last attempt has landed is in the bucket and is not overlaid by one that was answered
  before it was sent, at its first attempt (`PublishedOK`), and what a reader was told agrees with what was published
  before it asked (`HeardOK`). Results: `TypeCorrect`, `ObjectsFit`, `PublishedFound`, `OnlyUnheardReturns`.

Only model-checked: liveness (`Recovers`, `EveryCallReturns`, `CloseReturns`, `EveryServerSettles`, `SignalEnds`),
which needs fairness and ENABLED, out of this prover's reach. For `EveryCallReturns` the bound on the steps is proved,
as said above, and for `SignalEnds` the times (`ExitIsBounded`).

## Findings

Two runs state a sentence of the repository that TLC finds violated, and `PROJECT.json` quotes it. What does hold in
each case is checked, and proved where it is no liveness, by the passing run beside it.

- `proxy_livelock`: `reconnect` replaces whatever session is current, not the one that failed. Two overlapping calls
  that saw one lost session close each other's replacement, for ever if the timing repeats, on a healthy upstream.
  `Recovers` is what does hold.
- `serving_cut`: the tool deadline is not always what expires first. A proxied call whose body came at once, and which
  has its listing, waits for the mutex in `currentSession` behind another call's hung listing; the transport's
  deadline passes and the response is empty. `GrantsAreNotCut` and `AnsweredInTime` are what does hold.

Six more sentences are contradicted by states that the passing runs reach. The properties of these runs name the
exception, so that nothing else of the kind passes, and no run is spent on the exception itself:

- "A directory column that disagrees with the guardfile beside it is the one thing this page must not do"
  (`docs/directory.md:56-58`): `GuardfileName` maps two registry names onto one file, and the row of one stands beside
  the guardfile of the other (`directory.go:172`). `Overwritten` in `CompletedIsWhole` is this row;
  `NamesApartHaveTheirFiles` proves that there is none where names are kept apart.
- "`timeout` when it ran past the deadline" (`docs/directory.md:41-42`): an interrupted sweep records servers as
  `timeout` whose deadline has not passed (`registry.go:333`). `StoppedEarly` in `KeepsPromise`.
- "`HTTP 401` when the upstream answered a status, `timeout` when it ran past the deadline, and the transport's own
  words otherwise" (the same lines): a status answered between the two readings, by a pull left behind at its
  deadline, makes the row neither (`registry.go:254`). `Overtaken` in `KeepsPromise`.
- "`lint` and `lint-upstream` are the same paths minus the listener" (`README.md:87-88`): a rate limit whose literal
  store is no redis url lints clean and is refused at the start (`server.go:397-400`, `ratelimitredis.go:91-96`).
  `BucketBuilt` in `LintedIsServed`.
- "A control the child states ITSELF on a tool it does not mint stays the error it was" (`compose.go:225-226`): it
  vanishes when a base states any control on the same name, and is reported as inherited. `Overlooked` in
  `NothingStatedIsLost`.
- An app "cannot claim the info tool or a `withhold` stub by name and have it pass unnoticed" (`server.go:226-227`,
  `docs/apps.md:59`): one that links only these is served and reported nowhere (`app.go:366`). `Claimable` in
  `WidgetsReachable`.

Smaller disagreements, met while modelling, that the models contain and no property names:

- Two overlapping reconnects both install; the first session is overwritten and Close never sees it
  (`upstream.go:182`). `OrphanedOnlyByOverlap` shows that this is the only way to lose one.
- `put` stamps with the reading from before the upstream was asked and overwrites unconditionally, so a slow early
  call shortens the life of a later call's answer (`cache.go:240`).
- `connectProxyWithRetry` retries configuration errors until its timeout, although these are to be found before
  the connection (`server.go:359-361`, `main.go:544`); each try makes a redis client that a failed try leaves open.
- A put over an existing key is unconditional (`s3.go:233`), although the header names "no overwrite-blind put"
  (`s3.go:42`); so a late attempt can bring an older object back. `OldReturnsOnlyUnheard` bounds when.
- Shorthand booleans are normalised in the whole text of a guardfile, strings included (`inlinedoc.go:27-38`).

## Not modelled

The go-sdk's streams and framing, x/time/rate, go-redis beyond "the script ran and the reply was lost", the AWS SDK
beyond attempts, umbra's grammar and Flatten, tokenmint: they appear as the actions marked external in
`PROJECT.json`, as free as the code in this repository lets them be. Templates of upstream headers
(`upstreamauth.go`), what a PDF, a feed or a coverage block turns into (`feed.go`, `coverage.go`), the renderers and
read-only endpoints (`flatten.go`, `admin.go`), spans, metrics, redaction and logging: functions of data without
state of their own, on which no modelled decision depends.

## Plan

What could come next: headers that are resolved per request with a minted token that expires; the registry's filters
item by item; three nodes at once in `Surface`. A store that promises its readers what `Publisher` keeps would repeat
the put actions of `Publisher` and say nothing that its three properties do not.
