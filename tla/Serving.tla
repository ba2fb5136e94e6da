------------------------------ MODULE Serving ------------------------------
(***************************************************************************)
(* The life of one serving process and of the requests in it: withTelemetry *)
(* and serveHTTP of cmd/mcp-beaver/main.go around the handlers and their   *)
(* deadlines in internal/mcpserver/server.go.  A request has two of them,  *)
(* each measured from its own start: the transport's, requestTimeout +     *)
(* responseGrace from the request line, and the tool's, requestTimeout     *)
(* from the handler; the body is read in between.  A proxied call locks    *)
(* the proxy's mutex once per critical section of toolHandler, deaf to its *)
(* deadlines while it waits, and the Close that ends the process locks it  *)
(* too (UpstreamProxy has what they do there to the session).              *)
(*                                                                         *)
(* Time is a clock that does not advance while some code has nothing to    *)
(* wait for: a short critical section, or an expired context that is       *)
(* selected on, takes no time.                                             *)
(***************************************************************************)
EXTENDS Integers, Sequences

CONSTANTS
    Requests,   \* the requests of the process's life
    Timeouts,   \* values of --request-timeout; 0 disables
    Grace,      \* responseGrace
    Drain,      \* shutdownTimeout
    HangUp,     \* how long session.Close may take: upstreamResponseHeaderTimeout
    LastArrival,\* bound: no request, no body and no signal comes later than this
    MaxClock    \* bound: the last tick

Close == "Close"  \* the process itself in the queue for the mutex

ASSUME RequestsAssumption == Close \notin Requests
ASSUME TimesAssumption == Timeouts \subseteq Nat /\ {Grace, Drain, HangUp} \subseteq Nat \ {0}
ASSUME BoundsAssumption == LastArrival \in Nat /\ MaxClock \in Nat

VARIABLES
    clock,
    mode,      \* "spec": grants of one's own; "upstream": a proxy
    timeout,   \* s.requestTimeout
    phase,     \* where the command stands
    since,     \* when it got there
    signalled, \* SIGTERM or an interrupt has come
    failed,    \* the command will end with an error
    stage,     \* where each request stands
    dialect,   \* "old": the SDK does not tie its handler to the HTTP request
    start,     \* when each request came in
    began,     \* when its handler began
    at,        \* when a call got to the stage of its handling
    queue,     \* who locks the proxy's mutex; the first one has it
    woken,     \* it was unlocked for the first one, who has not run since
    passed     \* who was waiting when another took it out of turn

processVars == <<mode, timeout, phase, since, signalled, failed>>
requestVars == <<stage, dialect, start, began, at>>
mutexVars   == <<queue, woken, passed>>
vars == <<clock, processVars, requestVars, mutexVars>>

Phases   == {"setup", "build", "serve", "drain", "close", "closing", "flush", "exited"}
Listing  == {"list1", "list2"}                            \* ensureFresh
Brief    == {"drift", "take", "install", "resolve", "args"} \* the other critical sections
Locking  == Listing \cup Brief
Heeding  == {"dial", "calling", "parsing"}                \* select on the handler's context
Handling == Locking \cup Heeding \cup {"retire"}
Live     == Handling \cup {"reading"}
Finished == {"answered", "cut", "killed"}

Init ==
    /\ clock = 0
    /\ mode \in {"spec", "upstream"}
    /\ timeout \in Timeouts
    /\ phase = "setup" /\ since = 0
    /\ signalled = FALSE /\ failed = FALSE
    /\ stage = [r \in Requests |-> "away"]
    /\ dialect \in [Requests -> {"old", "new"}]
    /\ start = [r \in Requests |-> 0]
    /\ began = [r \in Requests |-> 0]
    /\ at = [r \in Requests |-> 0]
    /\ queue = <<>> /\ woken = FALSE /\ passed = {}

Enter(p) == phase' = p /\ since' = clock
InFlight == {r \in Requests : stage[r] \in Live}

-----------------------------------------------------------------------------
\* The deadlines.
Transport(r) == start[r] + timeout + Grace

\* Mutant: the tool's deadline is measured from the request, like the transport's.
ToolFromStart(r) == start[r] + timeout + Grace

\* withToolDeadline: the handler's context never outlives the one it came with, and
\* the transport's reaches it only under the newer protocol.
Tool(r) ==
    IF dialect[r] = "new" /\ Transport(r) - began[r] <= timeout
    THEN Transport(r)
    ELSE began[r] + timeout

TransportOver(r) == timeout > 0 /\ clock >= Transport(r)
ToolOver(r)      == timeout > 0 /\ clock >= Tool(r)
InTime(r)        == timeout > 0 => clock <= Tool(r)

\* A response written after the transport's deadline is an empty body.
Answer(r) == IF TransportOver(r) THEN "cut" ELSE "answered"

Goto(r, s) ==
    /\ stage' = [stage EXCEPT ![r] = s]
    /\ at' = [at EXCEPT ![r] = IF s \in Handling THEN clock ELSE 0]

-----------------------------------------------------------------------------
\* proxyBackend.mu, a sync.Mutex.
Members    == {queue[i] : i \in DOMAIN queue}
HasLock(x) == queue # <<>> /\ Head(queue) = x
Wants(r)   == stage[r] \in Locking /\ r \notin Members

\* It is first come, first served, except that who comes between an Unlock and the waiter
\* that this woke may take it, until a waiter was passed over: then it is handed on in turn.
Lock(x) ==
    \/ /\ queue' = Append(queue, x)
       /\ UNCHANGED <<woken, passed>>
    \/ /\ woken /\ passed = {}
       /\ queue' = <<x>> \o queue
       /\ passed' = Members
       /\ woken' = FALSE

Unlock ==
    /\ queue' = Tail(queue)
    /\ woken' = (Tail(queue) # <<>>)
    /\ passed' = passed \ {Head(queue)}

-----------------------------------------------------------------------------
\* A request comes in while the listener is open.
Arrive(r) ==
    /\ phase = "serve" /\ clock <= LastArrival
    /\ stage[r] = "away"
    /\ Goto(r, "reading")
    /\ start' = [start EXCEPT ![r] = clock]
    /\ UNCHANGED <<clock, processVars, dialect, began, mutexVars>>

\* Its body has been read, which no context bounds, and is a call of a tool.
Begin(r) ==
    /\ stage[r] = "reading" /\ clock <= LastArrival
    /\ began' = [began EXCEPT ![r] = clock]
    /\ Goto(r, IF mode = "upstream" THEN "list1" ELSE "calling")
    /\ UNCHANGED <<clock, processVars, dialect, start, mutexVars>>

\* It is not: the wrong method, no such tool, not a JSON object.
Reject(r) ==
    /\ stage[r] = "reading" /\ clock <= LastArrival
    /\ began' = [began EXCEPT ![r] = clock]
    /\ Goto(r, Answer(r))
    /\ UNCHANGED <<clock, processVars, dialect, start, mutexVars>>

\* A critical section begins with the mutex, or with the wait for it.
Locks(r) ==
    /\ Wants(r)
    /\ Lock(r)
    /\ UNCHANGED <<clock, processVars, requestVars>>

\* The critical section `from` ends, and the call goes on to `to`.
Leaves(r, from, to) ==
    /\ stage[r] \in from /\ HasLock(r)
    /\ Unlock
    /\ Goto(r, to)
    /\ UNCHANGED <<clock, processVars, dialect, start, began>>

\* ensureFresh, which holds the mutex over a round trip to the upstream: the tool is as
\* reviewed; or the session, the listing or the handler's context failed it, or a drift.
Admitted(r)  == InTime(r) /\ Leaves(r, Listing, "resolve")
ListFails(r) == Leaves(r, {"list1"}, "drift") \/ Leaves(r, {"list2"}, Answer(r))

\* hasDrifted, and both critical sections of reconnect.
Drifted(r)   == Leaves(r, {"drift"}, "take") \/ Leaves(r, {"drift"}, Answer(r))
Taken(r)     == Leaves(r, {"take"}, "retire") \/ Leaves(r, {"take"}, Answer(r))
Installed(r) == Leaves(r, {"install"}, "list2") \/ Leaves(r, {"install"}, Answer(r))

\* currentSession and declaredArgs.
Resolved(r) == Leaves(r, {"resolve"}, "args") \/ Leaves(r, {"resolve"}, Answer(r))
Checked(r)  == Leaves(r, {"args"}, "calling") \/ Leaves(r, {"args"}, Answer(r))

\* The stale session is closed, under no context of the call's.
Retired(r) ==
    /\ stage[r] = "retire"
    /\ Goto(r, "dial")
    /\ UNCHANGED <<clock, processVars, dialect, start, began, mutexVars>>

Dialled(r) ==
    /\ stage[r] = "dial"
    /\ \/ InTime(r) /\ Goto(r, "install")
       \/ Goto(r, Answer(r))
    /\ UNCHANGED <<clock, processVars, dialect, start, began, mutexVars>>

\* The upstream answers, or does not in time; a document goes to a parser of its own.
Answered(r) ==
    /\ stage[r] = "calling"
    /\ \/ Goto(r, Answer(r))
       \/ mode = "spec" /\ InTime(r) /\ Goto(r, "parsing")
    /\ UNCHANGED <<clock, processVars, dialect, start, began, mutexVars>>

\* The parser delivers, or the call gives up on it and leaves it behind.
Parsed(r) ==
    /\ stage[r] = "parsing"
    /\ Goto(r, Answer(r))
    /\ UNCHANGED <<clock, processVars, dialect, start, began, mutexVars>>

RequestStep(r) ==
    \/ Arrive(r) \/ Begin(r) \/ Reject(r) \/ Locks(r)
    \/ Admitted(r) \/ ListFails(r) \/ Drifted(r) \/ Taken(r) \/ Retired(r) \/ Dialled(r)
    \/ Installed(r) \/ Resolved(r) \/ Checked(r) \/ Answered(r) \/ Parsed(r)

\* Mutant: the listing under the mutex has no context.
HeedsUnlocked(r) == stage[r] \in Heeding

\* The handler's context reaches what the call is doing: a call that waits for the mutex
\* notices it once it lists.
Heeds(r) == stage[r] \in Heeding \/ (stage[r] \in Listing /\ HasLock(r))

\* Nothing keeps the call where it is.
Due(r) ==
    \/ Wants(r)
    \/ stage[r] \in Brief /\ HasLock(r)
    \/ Heeds(r) /\ ToolOver(r)
    \/ stage[r] = "retire" /\ clock >= at[r] + HangUp

-----------------------------------------------------------------------------
\* The telemetry providers are built, or the command ends.
Setup ==
    /\ phase = "setup"
    /\ \/ Enter("build") /\ UNCHANGED failed
       \/ Enter("exited") /\ failed' = TRUE
    /\ UNCHANGED <<clock, mode, timeout, signalled, requestVars, mutexVars>>

\* The policy is read and the server built, and the listener opened; or one of them
\* fails, and what there is of a server is closed.
Build ==
    /\ phase = "build"
    /\ Enter("serve")
    /\ UNCHANGED <<clock, mode, timeout, signalled, failed, requestVars, mutexVars>>

\* connectProxyWithRetry waits for an upstream that is not there yet, and the dial
\* and the wait end with the signal.
BuildFails ==
    /\ phase = "build"
    /\ Enter("flush")
    /\ failed' = TRUE
    /\ UNCHANGED <<clock, mode, timeout, signalled, requestVars, mutexVars>>

\* The deferred srv.Close locks the mutex of a proxy; any other server has none.
Leave ==
    IF mode = "upstream"
    THEN Enter("close") /\ Lock(Close)
    ELSE Enter("flush") /\ UNCHANGED mutexVars

ListenFails ==
    /\ phase = "serve"
    /\ \A r \in Requests : stage[r] = "away"
    /\ Leave
    /\ failed' = TRUE
    /\ UNCHANGED <<clock, mode, timeout, signalled, requestVars>>

Signal ==
    /\ ~signalled /\ phase # "exited" /\ clock <= LastArrival
    /\ signalled' = TRUE
    /\ UNCHANGED <<clock, mode, timeout, phase, since, failed, requestVars, mutexVars>>

\* serveHTTP closes the listener and waits for the requests.
Shutdown ==
    /\ phase = "serve" /\ signalled
    /\ Enter("drain")
    /\ UNCHANGED <<clock, mode, timeout, signalled, failed, requestVars, mutexVars>>

Drained ==
    /\ phase = "drain" /\ InFlight = {}
    /\ Leave
    /\ UNCHANGED <<clock, mode, timeout, signalled, failed, requestVars>>

\* It gives up on them after shutdownTimeout, and says so.
DrainTimesOut ==
    /\ phase = "drain" /\ clock >= since + Drain
    /\ Leave
    /\ failed' = TRUE
    /\ UNCHANGED <<clock, mode, timeout, signalled, requestVars>>

\* proxyBackend.Close has the mutex, and keeps it over the round trip that ends its session,
\* if it has one.
Closes ==
    /\ phase = "close" /\ HasLock(Close)
    /\ \/ Enter("closing") /\ woken' = FALSE /\ UNCHANGED <<queue, passed>>
       \/ Enter("flush") /\ Unlock
    /\ UNCHANGED <<clock, mode, timeout, signalled, failed, requestVars>>

Closed ==
    /\ phase = "closing"
    /\ Enter("flush") /\ Unlock
    /\ UNCHANGED <<clock, mode, timeout, signalled, failed, requestVars>>

\* Telemetry is flushed, or the flush runs into its own timeout; the process ends and
\* takes what still runs with it.
Flush ==
    /\ phase = "flush"
    /\ Enter("exited")
    /\ failed' \in {failed, TRUE}
    /\ stage' = [r \in Requests |-> IF stage[r] \in Live THEN "killed" ELSE stage[r]]
    /\ queue' = <<>> /\ woken' = FALSE /\ passed' = {}
    /\ UNCHANGED <<clock, mode, timeout, signalled, dialect, start, began, at>>

ProcessStep ==
    \/ Setup \/ Build \/ BuildFails \/ ListenFails \/ Signal \/ Shutdown
    \/ Drained \/ DrainTimesOut \/ Closes \/ Closed \/ Flush

\* Time passes, unless something is due.
Tick ==
    /\ phase # "exited" /\ clock < MaxClock
    /\ ~\E r \in Requests : Due(r)
    /\ ~(phase \in {"setup", "build", "serve"} /\ signalled)
    /\ ~(phase = "drain" /\ (InFlight = {} \/ clock >= since + Drain))
    /\ ~(phase = "close" /\ HasLock(Close))
    /\ ~(phase = "closing" /\ clock >= since + HangUp)
    /\ ~(phase = "flush" /\ clock >= since + Drain)
    /\ clock' = clock + 1
    /\ woken' = FALSE
    /\ UNCHANGED <<processVars, requestVars, queue, passed>>

Running == phase # "exited"

Next ==
    \/ Running /\ \E r \in Requests : RequestStep(r)
    \/ ProcessStep
    \/ Tick

Spec == Init /\ [][Next]_vars

\* The process goes on, and a call that nothing keeps.  Bodies, upstreams and signals owe
\* nothing.
FairSpec ==
    /\ Spec
    /\ WF_vars(Tick)
    /\ WF_vars(ProcessStep /\ ~Signal)
    /\ \A r \in Requests : WF_vars(Running /\ Due(r) /\ RequestStep(r))

-----------------------------------------------------------------------------
\* Every variable has its type, and who has the mutex or waits for it is in a critical
\* section, once.
TypeOK ==
    /\ clock \in 0 .. MaxClock
    /\ mode \in {"spec", "upstream"}
    /\ timeout \in Timeouts
    /\ phase \in Phases /\ since \in 0 .. MaxClock
    /\ signalled \in BOOLEAN /\ failed \in BOOLEAN
    /\ stage \in [Requests -> {"away"} \cup Live \cup Finished]
    /\ dialect \in [Requests -> {"old", "new"}]
    /\ start \in [Requests -> 0 .. MaxClock]
    /\ began \in [Requests -> 0 .. MaxClock]
    /\ at \in [Requests -> 0 .. MaxClock]
    /\ queue \in Seq(Requests \cup {Close})
    /\ \A i, j \in DOMAIN queue : queue[i] = queue[j] => i = j
    /\ \A r \in Members \ {Close} : stage[r] \in Locking
    /\ Close \in Members <=> phase \in {"close", "closing"}
    /\ woken \in BOOLEAN /\ passed \subseteq Members

\* "so the tool is always what expires first" (responseGrace, server.go:625-626): a caller
\* gets an empty body only if its own request body took the whole grace to come in.
CutOnlyAfterSlowBody ==
    \A r \in Requests : stage[r] = "cut" => began[r] - start[r] >= Grace

\* That is so of grants of one's own, whatever the parsers of their documents do.
GrantsAreNotCut == mode = "spec" => CutOnlyAfterSlowBody

\* However the upstream hangs and whoever else calls it, a proxied call does not stay for
\* ever: it waits for the mutex in seven critical sections at most, and in three of them past
\* its own deadline, for two tool deadlines each, and for one session to be closed
\* (toolHandler, ensureFreshOrReconnect, reconnect; upstream.go:159-275).
AnsweredInTime ==
    timeout > 0 /\ phase \in {"serve", "drain", "close"} =>
        \A r \in Requests : stage[r] \in Handling =>
            clock <= began[r] + 6 * timeout + HangUp

\* However the calls that hold the mutex hang, the process that is to end waits for
\* their drain, for no longer than two tool deadlines to have the mutex, and for its
\* session to be closed (serveHTTP and the deferred Close, main.go:673-684;
\* upstream.go:186-196).
ExitBounded ==
    /\ phase = "drain" => clock <= since + Drain
    /\ phase = "close" /\ timeout > 0 => clock <= since + 2 * timeout
    /\ phase = "closing" => clock <= since + HangUp

\* A process that ends without an error killed no request (serveHTTP, main.go:673-684).
CleanExitIsTrue ==
    phase = "exited" /\ ~failed => \A r \in Requests : stage[r] # "killed"

\* With a request timeout a signalled process ends (withToolDeadline bounds whoever
\* holds the mutex that Close needs).
SignalEnds == (signalled /\ timeout > 0) ~> (phase = "exited")
=============================================================================
