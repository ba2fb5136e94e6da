--------------------------- MODULE UpstreamProxy ---------------------------
(***************************************************************************)
(* The guarded passthrough proxy of internal/mcpserver/upstream.go: many   *)
(* concurrent tool calls share one upstream MCP session.  Before a call is *)
(* forwarded its tool is listed again and compared with the contract that  *)
(* was snapshotted at startup; a session the upstream has dropped is       *)
(* replaced, by the call that noticed, without replaying anything.         *)
(*                                                                         *)
(* One process per call (the goroutine of its handler), one for Close, and *)
(* an upstream that may forget sessions, hang, go down, and change the     *)
(* tools it serves.  proxyBackend.mu is held across a tools/list round     *)
(* trip and nowhere else across a step, so the lock is not a variable: it  *)
(* is held exactly while some call is in "list1" or "list2".               *)
(***************************************************************************)
EXTENDS Naturals, FiniteSets

CONSTANTS
    Calls,      \* the tool calls that may be in flight at once
    Tools,      \* the allowlist
    Contracts,  \* fingerprints of a tool contract
    Absent,     \* what the upstream shows for a tool it no longer lists
    Surfaces,   \* the surfaces the upstream may serve: Tools -> Contracts + Absent
    Sessions,   \* identities of upstream sessions
    None,       \* no session, no contract, no tool
    MaxFaults   \* bound: cancellations and upstream faults in one behaviour

ASSUME SurfacesAssumption == Surfaces \subseteq [Tools -> Contracts \cup {Absent}]
ASSUME AbsentAssumption == Absent \notin Contracts
ASSUME NoneAssumption == None \notin Sessions \cup Contracts \cup Tools
ASSUME SessionsAssumption == Sessions # {}
ASSUME FaultsAssumption == MaxFaults \in Nat

VARIABLES
    health,    \* the upstream: "up", "hung" (accepts and never answers), "down"
    surface,   \* the tools it serves now
    lost,      \* open sessions it has stopped honouring
    faults,    \* faults so far (counts the bound, models no code)
    startup,   \* newProxyBackend: "dial", "snapshot", then "serving" or "failed"
    session,   \* proxyBackend.session
    open,      \* sessions whose client side has been opened and not closed
    baseline,  \* proxyBackend.baseline
    drift,     \* proxyBackend.driftErr # nil
    closed,    \* proxyBackend.closed
    closer,    \* the caller of Close: "none", "waiting", "returned"
    pc,        \* where each call stands
    tool,      \* the tool each call names
    sess,      \* the session each call holds in a local variable
    dead,      \* whether each call's context is done
    outcome,   \* what each call's last run returned
    reviewed,  \* history: the surface at the startup snapshot
    seen,      \* history: the contract the listing that admitted the call showed
    executed   \* history: how often the upstream ran this call

upstreamVars == <<health, surface, lost, faults>>
backendVars  == <<startup, session, open, baseline, drift, closed, reviewed>>
callVars     == <<pc, tool, sess, dead, outcome, seen, executed>>
vars == <<upstreamVars, backendVars, closer, callVars>>

Locking == {"list1", "list2"}
InCall  == {"call", "answer"}
Admitted == {"resolve", "args"} \cup InCall
Stages  == {"idle", "check1", "list1", "decide", "take", "retire", "dial",
            "install", "check2", "list2", "resolve", "args"} \cup InCall
Results == {"none", "ok", "refused", "err"}

Busy(c) == pc[c] # "idle"

\* proxyBackend.mu is free.
LockFree == \A c \in Calls : pc[c] \notin Locking

\* Identities a new session may take.
FreeSessions == {s \in Sessions \ open : \A c \in Calls : sess[c] # s}
FreshSession == CHOOSE s \in FreeSessions : TRUE

\* What makes a request over session s fail: the caller's context is done, the
\* session is closed on this side, or the upstream is gone or has forgotten it.
\* A hung upstream fails nothing: the request waits for the caller's deadline.
RequestFails(c, s) ==
    \/ dead[c]
    \/ s \notin open
    \/ health = "down"
    \/ health = "up" /\ s \in lost

RequestServed(c, s) ==
    ~dead[c] /\ s \in open /\ health = "up" /\ s \notin lost

-----------------------------------------------------------------------------
\* A session is opened or closed on this side.  The upstream's memory of a
\* closed session no longer matters.
OpenSession(s) == open' = open \cup {s} /\ lost' = lost
CloseSession(s) == open' = open \ {s} /\ lost' = lost \ {s}
KeepSessions == UNCHANGED <<open, lost>>

Goto(c, stage) == pc' = [pc EXCEPT ![c] = stage]

\* The handler returns result r; what it held in local variables is gone.
Return(c, r) ==
    /\ Goto(c, "idle")
    /\ tool' = [tool EXCEPT ![c] = None]
    /\ sess' = [sess EXCEPT ![c] = None]
    /\ dead' = [dead EXCEPT ![c] = FALSE]
    /\ seen' = [seen EXCEPT ![c] = None]
    /\ executed' = [executed EXCEPT ![c] = 0]
    /\ outcome' = [outcome EXCEPT ![c] = r]

\* A step of a call that changes, of what is local to it, pc and the session it
\* holds at most.
StepHolding(c, stage, s) ==
    /\ Goto(c, stage)
    /\ sess' = [sess EXCEPT ![c] = s]
    /\ UNCHANGED <<tool, dead, outcome, seen, executed>>

StepTo(c, stage) == StepHolding(c, stage, sess[c])

-----------------------------------------------------------------------------
Init ==
    /\ health = "up"
    /\ surface \in Surfaces
    /\ lost = {}
    /\ faults = 0
    /\ startup = "dial"
    /\ session = None
    /\ open = {}
    /\ baseline = [t \in Tools |-> None]
    /\ reviewed = [t \in Tools |-> None]
    /\ drift = FALSE
    /\ closed = FALSE
    /\ closer = "none"
    /\ pc = [c \in Calls |-> "idle"]
    /\ tool = [c \in Calls |-> None]
    /\ sess = [c \in Calls |-> None]
    /\ dead = [c \in Calls |-> FALSE]
    /\ outcome = [c \in Calls |-> "none"]
    /\ seen = [c \in Calls |-> None]
    /\ executed = [c \in Calls |-> 0]

-----------------------------------------------------------------------------
\* newProxyBackend opens the session, or fails: connectProxyWithRetry then
\* tries again or gives up.
StartupDial ==
    /\ startup = "dial"
    /\ \/ /\ health = "up"
          /\ session' = FreshSession
          /\ OpenSession(FreshSession)
          /\ startup' = "snapshot"
       \/ /\ health # "up"
          /\ startup' = "failed"
          /\ KeepSessions
          /\ UNCHANGED session
    /\ UNCHANGED <<health, surface, faults, baseline, drift, closed, reviewed, closer, callVars>>

\* The allowlisted contracts become the baseline, all of them or none: a tool
\* that is missing, or a listing that fails, closes the session again.
StartupSnapshot ==
    /\ startup = "snapshot"
    /\ \/ /\ health = "up" /\ session \notin lost
          /\ \A t \in Tools : surface[t] # Absent
          /\ baseline' = surface
          /\ reviewed' = surface
          /\ startup' = "serving"
          /\ KeepSessions
          /\ UNCHANGED session
       \/ /\ \/ health # "up" \/ session \in lost
             \/ \E t \in Tools : surface[t] = Absent
          /\ CloseSession(session)
          /\ session' = None
          /\ startup' \in {"dial", "failed"}
          /\ UNCHANGED <<baseline, reviewed>>
    /\ UNCHANGED <<health, surface, faults, drift, closed, closer, callVars>>

\* The process exits when startup has failed.
Exited == startup = "failed" /\ UNCHANGED vars

-----------------------------------------------------------------------------
\* toolHandler is entered for an allowlisted tool.
StartCall(c) ==
    /\ startup = "serving"
    /\ pc[c] = "idle"
    /\ Goto(c, "check1")
    /\ \E t \in Tools : tool' = [tool EXCEPT ![c] = t]
    /\ outcome' = [outcome EXCEPT ![c] = "none"]
    /\ UNCHANGED <<sess, dead, seen, executed, upstreamVars, backendVars, closer>>

\* Mutant: a second failure is retried like the first.
FailAndRetry(c, n) == n \in {1, 2} /\ StepTo(c, "decide")

\* The n-th ensureFresh of a call fails.  The first failure goes on to ask
\* hasDrifted, the second is the handler's result.
Fail(c, n) == IF n = 1 THEN StepTo(c, "decide") ELSE Return(c, "err")

\* Mutant: the latched drift is not asked about before listing again.
EnsureFreshUnlatched(c, n) ==
    /\ pc[c] = IF n = 1 THEN "check1" ELSE "check2"
    /\ LockFree
    /\ IF session = None
       THEN Fail(c, n)
       ELSE StepHolding(c, IF n = 1 THEN "list1" ELSE "list2", session)
    /\ UNCHANGED <<upstreamVars, backendVars, closer>>

\* ensureFresh takes the lock; a latched drift or a missing session is an
\* error at once, otherwise the lock stays held across tools/list.
EnsureFresh(c, n) ==
    /\ pc[c] = IF n = 1 THEN "check1" ELSE "check2"
    /\ LockFree
    /\ \/ (drift \/ session = None) /\ Fail(c, n)
       \/ /\ ~drift /\ session # None
          /\ StepHolding(c, IF n = 1 THEN "list1" ELSE "list2", session)
    /\ UNCHANGED <<upstreamVars, backendVars, closer>>

\* The listing fails, or no longer has the tool: an error, and no drift.
ListFails(c, n) ==
    /\ pc[c] = IF n = 1 THEN "list1" ELSE "list2"
    /\ \/ RequestFails(c, sess[c])
       \/ RequestServed(c, sess[c]) /\ surface[tool[c]] = Absent
    /\ Fail(c, n)
    /\ UNCHANGED <<upstreamVars, backendVars, closer>>

\* The listing shows another contract than the baseline: drift is latched.
ListDrifts(c, n) ==
    /\ pc[c] = IF n = 1 THEN "list1" ELSE "list2"
    /\ RequestServed(c, sess[c])
    /\ surface[tool[c]] \notin {Absent, baseline[tool[c]]}
    /\ drift' = TRUE
    /\ Fail(c, n)
    /\ UNCHANGED <<upstreamVars, startup, session, open, baseline, closed, reviewed, closer>>

\* The listing shows the baseline contract: the call is admitted.
ListMatches(c, n) ==
    /\ pc[c] = IF n = 1 THEN "list1" ELSE "list2"
    /\ RequestServed(c, sess[c])
    /\ surface[tool[c]] = baseline[tool[c]]
    /\ Goto(c, "resolve")
    /\ sess' = [sess EXCEPT ![c] = None]
    /\ seen' = [seen EXCEPT ![c] = surface[tool[c]]]
    /\ UNCHANGED <<tool, dead, outcome, executed, upstreamVars, backendVars, closer>>

\* hasDrifted: drift is the answer, anything else is worth a new session.
Decide(c) ==
    /\ pc[c] = "decide"
    /\ LockFree
    /\ IF drift THEN Return(c, "err") ELSE StepHolding(c, "take", None)
    /\ UNCHANGED <<upstreamVars, backendVars, closer>>

\* Mutant: with no session there is nothing to replace.
TakeStaleNeedsOne(c) ==
    /\ pc[c] = "take"
    /\ LockFree
    /\ \/ (closed \/ session = None) /\ Return(c, "err") /\ UNCHANGED session
       \/ ~closed /\ session # None /\ StepHolding(c, "retire", session) /\ session' = None
    /\ UNCHANGED <<upstreamVars, startup, open, baseline, drift, closed, reviewed, closer>>

\* reconnect, first critical section: the current session is taken away from
\* everyone, whether or not it is the one that failed.
TakeStale(c) ==
    /\ pc[c] = "take"
    /\ LockFree
    /\ \/ closed /\ Return(c, "err") /\ UNCHANGED session
       \/ ~closed /\ StepHolding(c, "retire", session) /\ session' = None
    /\ UNCHANGED <<upstreamVars, startup, open, baseline, drift, closed, reviewed, closer>>

\* Mutant: the stale session is dropped without closing it.
RetireStaleUnclosed(c) ==
    /\ pc[c] = "retire"
    /\ StepHolding(c, "dial", None)
    /\ UNCHANGED <<upstreamVars, backendVars, closer>>

\* reconnect, outside the lock: the stale session is closed.
RetireStale(c) ==
    /\ pc[c] = "retire"
    /\ CloseSession(sess[c])
    /\ StepHolding(c, "dial", None)
    /\ UNCHANGED <<health, surface, faults, startup, session, baseline, drift, closed, reviewed, closer>>

\* reconnect, outside the lock: a new session is dialled under the context of
\* this call.  A hung upstream holds it until that context is done.
Dial(c) ==
    /\ pc[c] = "dial"
    /\ \/ /\ ~dead[c] /\ health = "up" /\ FreeSessions # {}
          /\ OpenSession(FreshSession)
          /\ StepHolding(c, "install", FreshSession)
       \/ /\ dead[c] \/ health = "down" \/ FreeSessions = {}
          /\ Return(c, "err")
          /\ KeepSessions
    /\ UNCHANGED <<health, surface, faults, startup, session, baseline, drift, closed, reviewed, closer>>

\* Mutant: closed is not asked about again after dialling.
InstallUnchecked(c) ==
    /\ pc[c] = "install"
    /\ LockFree
    /\ session' = sess[c]
    /\ StepHolding(c, "check2", None)
    /\ UNCHANGED <<upstreamVars, startup, open, baseline, drift, closed, reviewed, closer>>

\* Mutant: a reconnect takes what the upstream serves now for the baseline.
InstallResnapshots(c) ==
    /\ pc[c] = "install"
    /\ LockFree
    /\ ~closed
    /\ session' = sess[c]
    /\ baseline' = surface
    /\ StepHolding(c, "check2", None)
    /\ UNCHANGED <<upstreamVars, startup, open, drift, closed, reviewed, closer>>

\* reconnect, second critical section: the new session becomes the current
\* one, over whatever is there, unless the backend was closed meanwhile.
Install(c) ==
    /\ pc[c] = "install"
    /\ LockFree
    /\ \/ /\ closed
          /\ CloseSession(sess[c])
          /\ Return(c, "err")
          /\ UNCHANGED session
       \/ /\ ~closed
          /\ session' = sess[c]
          /\ StepHolding(c, "check2", None)
          /\ KeepSessions
    /\ UNCHANGED <<health, surface, faults, startup, baseline, drift, closed, reviewed, closer>>

\* currentSession: the session to call, not necessarily the one just listed.
Resolve(c) ==
    /\ pc[c] = "resolve"
    /\ LockFree
    /\ IF session = None THEN Return(c, "err") ELSE StepHolding(c, "args", session)
    /\ UNCHANGED <<upstreamVars, backendVars, closer>>

\* The arguments are decoded and compared with the snapshot's declared names.
CheckArguments(c) ==
    /\ pc[c] = "args"
    /\ LockFree
    /\ Return(c, "refused") \/ StepTo(c, "call")
    /\ UNCHANGED <<upstreamVars, backendVars, closer>>

\* The upstream receives the CallTool request and runs the tool.
Execute(c) ==
    /\ pc[c] = "call"
    /\ RequestServed(c, sess[c])
    /\ Goto(c, "answer")
    /\ executed' = [executed EXCEPT ![c] = @ + 1]
    /\ UNCHANGED <<tool, sess, dead, outcome, seen, upstreamVars, backendVars, closer>>

\* CallTool fails, before or after the tool ran; nothing is tried again.
CallFails(c) ==
    /\ pc[c] \in InCall
    /\ RequestFails(c, sess[c])
    /\ Return(c, "err")
    /\ UNCHANGED <<upstreamVars, backendVars, closer>>

\* CallTool returns the upstream's answer.
CallAnswers(c) ==
    /\ pc[c] = "answer"
    /\ ~dead[c] /\ health = "up"
    /\ Return(c, "ok")
    /\ UNCHANGED <<upstreamVars, backendVars, closer>>

CallStep(c) ==
    \/ \E n \in {1, 2} : \/ EnsureFresh(c, n) \/ ListFails(c, n)
                         \/ ListDrifts(c, n)  \/ ListMatches(c, n)
    \/ Decide(c) \/ TakeStale(c) \/ RetireStale(c) \/ Dial(c) \/ Install(c)
    \/ Resolve(c) \/ CheckArguments(c) \/ Execute(c) \/ CallFails(c) \/ CallAnswers(c)

-----------------------------------------------------------------------------
\* Close is called, and waits for the lock.
RequestClose ==
    /\ startup = "serving"
    /\ closer = "none"
    /\ closer' = "waiting"
    /\ UNCHANGED <<upstreamVars, backendVars, callVars>>

\* Mutant: Close waits for a moment without calls.
CloseWhenIdle ==
    /\ closer = "waiting"
    /\ \A c \in Calls : ~Busy(c)
    /\ closed' = TRUE
    /\ CloseSession(session)
    /\ session' = None
    /\ closer' = "returned"
    /\ UNCHANGED <<health, surface, faults, startup, baseline, drift, reviewed, callVars>>

Close ==
    /\ closer = "waiting"
    /\ LockFree
    /\ closed' = TRUE
    /\ CloseSession(session)
    /\ session' = None
    /\ closer' = "returned"
    /\ UNCHANGED <<health, surface, faults, startup, baseline, drift, reviewed, callVars>>

-----------------------------------------------------------------------------
\* The caller goes away, or its own deadline passes.
Cancel(c) ==
    /\ Busy(c) /\ ~dead[c]
    /\ faults < MaxFaults
    /\ faults' = faults + 1
    /\ dead' = [dead EXCEPT ![c] = TRUE]
    /\ UNCHANGED <<pc, tool, sess, outcome, seen, executed, health, surface, lost, backendVars, closer>>

\* withToolDeadline: every call has a deadline, and a hung upstream reaches it.
Expire(c) ==
    /\ Busy(c) /\ ~dead[c]
    /\ health = "hung"
    /\ dead' = [dead EXCEPT ![c] = TRUE]
    /\ UNCHANGED <<pc, tool, sess, outcome, seen, executed, upstreamVars, backendVars, closer>>

Forget ==
    /\ faults < MaxFaults
    /\ faults' = faults + 1
    /\ \E s \in open \ lost : lost' = lost \cup {s}
    /\ UNCHANGED <<health, surface, backendVars, closer, callVars>>

Degrade ==
    /\ health = "up"
    /\ faults < MaxFaults
    /\ faults' = faults + 1
    /\ health' \in {"hung", "down"}
    /\ UNCHANGED <<surface, lost, backendVars, closer, callVars>>

Heal ==
    /\ health # "up"
    /\ health' = "up"
    /\ UNCHANGED <<surface, lost, faults, backendVars, closer, callVars>>

ChangeSurface ==
    /\ faults < MaxFaults
    /\ faults' = faults + 1
    /\ surface' \in Surfaces \ {surface}
    /\ UNCHANGED <<health, lost, backendVars, closer, callVars>>

Upstream == Forget \/ Degrade \/ Heal \/ ChangeSurface

Next ==
    \/ StartupDial \/ StartupSnapshot \/ Exited
    \/ \E c \in Calls : StartCall(c) \/ CallStep(c) \/ Cancel(c) \/ Expire(c)
    \/ RequestClose \/ Close
    \/ Upstream

Spec == Init /\ [][Next]_vars

\* A call that can take its next step again and again takes it (the mutex is
\* handed over in arrival order once a waiter starves), deadlines fire, the
\* upstream does not stay ill, and callers keep calling.
Fairness ==
    /\ WF_vars(StartupDial) /\ WF_vars(StartupSnapshot)
    /\ WF_vars(Heal)
    /\ SF_vars(Close)
    /\ \A c \in Calls : /\ WF_vars(StartCall(c))
                        /\ SF_vars(CallStep(c))
                        /\ WF_vars(Expire(c))

FairSpec == Spec /\ Fairness

-----------------------------------------------------------------------------
BackendTypeOK ==
    /\ health \in {"up", "hung", "down"}
    /\ surface \in Surfaces
    /\ lost \subseteq open /\ open \subseteq Sessions
    /\ faults \in 0 .. MaxFaults
    /\ startup \in {"dial", "snapshot", "serving", "failed"}
    /\ session \in Sessions \cup {None}
    /\ baseline \in [Tools -> Contracts \cup {None}]
    /\ reviewed \in [Tools -> Contracts \cup {None}]
    /\ drift \in BOOLEAN
    /\ closed \in BOOLEAN
    /\ closer \in {"none", "waiting", "returned"}

CallTypeOK ==
    /\ pc \in [Calls -> Stages]
    /\ tool \in [Calls -> Tools \cup {None}]
    /\ sess \in [Calls -> Sessions \cup {None}]
    /\ dead \in [Calls -> BOOLEAN]
    /\ outcome \in [Calls -> Results]
    /\ seen \in [Calls -> Contracts \cup {None}]
    /\ executed \in [Calls -> Nat]

\* Every variable keeps its type.
TypeOK == BackendTypeOK /\ CallTypeOK

\* A call is forwarded only after a listing made for it showed, for its tool,
\* the contract snapshotted at startup: no reconnect adopts what the upstream
\* serves later (upstream.go:155-157, "The baseline is NOT re-snapshotted").
AdmittedMatchesReview ==
    \A c \in Calls :
        pc[c] \in Admitted => seen[c] = reviewed[tool[c]]

\* The upstream runs a call at most once, whatever was lost or replaced while
\* it was under way (upstream.go:149-151, "NOT a retry of the failing call").
AtMostOneExecution == \A c \in Calls : executed[c] <= 1

\* A closed backend has no current session: a reconnect that was dialling when
\* Close ran must not bring one back.
ClosedHasNoSession == closed => session = None

\* Once drift is latched, by any call about any tool, no further call is
\* admitted and none sets out to reconnect past it.
NoAdmissionPastDrift ==
    [][drift => \A c \in Calls : pc'[c] \in {"resolve", "take"} => pc[c] = pc'[c]]_vars

\* The phase a call is in, seen from its caller.
PhaseOf(stage) == IF stage = "idle" THEN "idle"
                  ELSE IF stage \in Admitted THEN "admitted" ELSE "pending"
Phase == [c \in Calls |-> PhaseOf(pc[c])]

Promise == INSTANCE GuardedCall WITH phase <- Phase, ran <- executed, latched <- drift

\* With all its sessions, listings and reconnects the proxy keeps the promise of
\* GuardedCall: checked first, run at most once, nothing admitted past drift.
KeepsPromise == Promise!Spec

\* The sessions that somebody will still close or install.
Owned == {session} \cup {sess[c] : c \in {d \in Calls : pc[d] \in {"retire", "install"}}}

\* "Close releases any upstream session resources" (server.go:577) of those it can reach:
\* an open session is lost from sight only where a reconnect installs its own over the one
\* that an overlapping reconnect has installed meanwhile (upstream.go:176-184).
OrphanedOnlyByOverlap ==
    [][\A s \in open \cap Owned :
           s \in open' \ Owned' =>
               s = session /\ \E c \in Calls : pc[c] = "install" /\ pc'[c] = "check2"]_vars

\* The most steps a call has left of its own.
StepsLeft(stage) ==
    CASE stage = "check1"  -> 13 [] stage = "list1" -> 12 [] stage = "decide" -> 11
      [] stage = "take"    -> 10 [] stage = "retire" -> 9 [] stage = "dial"   -> 8
      [] stage = "install" ->  7 [] stage = "check2" -> 6 [] stage = "list2"  -> 5
      [] stage = "resolve" ->  4 [] stage = "args"   -> 3 [] stage = "call"   -> 2
      [] stage = "answer"  ->  1 [] stage = "idle"   -> 0

\* Whatever a step finds of what other calls, Close or the upstream did meanwhile, it takes
\* its call nearer to its return, "replacing the session once" (upstream.go:255): no call
\* reconnects twice or checks a third time.
CallsOnlyAdvance ==
    [][\A c \in Calls : Busy(c) /\ pc'[c] # pc[c] => StepsLeft(pc'[c]) < StepsLeft(pc[c])]_vars

\* Every call returns, also behind a call that holds the lock on a hung upstream.
EveryCallReturns == \A c \in Calls : Busy(c) ~> ~Busy(c)

\* Close returns, although it shares the lock with listings that may hang.
CloseReturns == closer = "waiting" ~> closer = "returned"

\* Somebody got an answer of the upstream, or there is a reason why nobody can: the proxy
\* was closed or has latched drift, or the upstream lacks a tool or refuses more sessions.
AnsweredOrExcused ==
    \/ startup = "failed" \/ closed \/ drift
    \/ FreeSessions = {} \/ \E t \in Tools : surface[t] = Absent
    \/ \E c \in Calls : outcome[c] \in {"ok", "refused"}

Reconnecting == {c \in Calls : pc[c] \in {"take", "retire", "dial", "install", "check2", "list2"}}

\* While a call reconnects, no other has got past its first listing.
Undisturbed ==
    \A c \in Reconnecting : \A d \in Calls \ {c} : pc[d] \in {"idle", "check1", "list1"}

\* After the faults stop, callers that keep calling get through again, if from some point
\* on they do not disturb each other's reconnects: one lost session does not brick the pod
\* (upstream.go:152, #79).
Recovers == <>[]Undisturbed => []<>AnsweredOrExcused

\* The same without the proviso.
RecoversAlways == []<>AnsweredOrExcused
=============================================================================
