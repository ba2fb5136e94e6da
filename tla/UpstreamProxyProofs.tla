------------------------- MODULE UpstreamProxyProofs -------------------------
(***************************************************************************)
(* Proofs about UpstreamProxy for every set of calls, tools, contracts and *)
(* sessions and every bound on faults.  The invariant has a part about the *)
(* backend and a part about the calls; the only things a call does to its  *)
(* own variables are Return and StepHolding, so one lemma about each does  *)
(* for the calls' part of most actions.                                    *)
(***************************************************************************)
EXTENDS UpstreamProxy, TLAPS

\* While newProxyBackend runs, nobody else has the backend yet.
NotYetServing ==
    startup # "serving" =>
        /\ ~closed /\ ~drift /\ closer = "none"
        /\ \A c \in Calls : pc[c] = "idle"
        /\ startup = "dial" => open = {}
        /\ startup = "snapshot" => open = {session}

BaselineIsReview == baseline = reviewed

\* A call in flight names a tool; an idle one holds no session.
CallLocals ==
    \A c \in Calls : /\ pc[c] # "idle" => tool[c] \in Tools
                     /\ pc[c] = "idle" => sess[c] = None

\* A call has run, once, exactly while its answer is awaited.
RanOnlyInAnswer ==
    \A c \in Calls : executed[c] = IF pc[c] = "answer" THEN 1 ELSE 0

BackendInv == BackendTypeOK /\ NotYetServing /\ BaselineIsReview /\ ClosedHasNoSession
CallInv == CallTypeOK /\ CallLocals /\ RanOnlyInAnswer /\ AdmittedMatchesReview
IInv == BackendInv /\ CallInv

-----------------------------------------------------------------------------
\* The identity a dial takes is one that is not open, when there is one.
LEMMA FreshSessionIsFree ==
    ASSUME FreeSessions # {}
    PROVE  FreshSession \in Sessions /\ FreshSession \notin open
BY DEF FreshSession, FreeSessions

\* Before the first dial there is one: nothing is open and nobody holds any.
LEMMA DialFindsSession ==
    ASSUME IInv, startup = "dial"
    PROVE  FreeSessions # {}
BY SessionsAssumption, NoneAssumption
   DEF IInv, BackendInv, NotYetServing, CallInv, CallLocals, FreeSessions

\* A call in flight is a call of a backend that is serving.
LEMMA InFlightIsServing ==
    ASSUME IInv, NEW c \in Calls, pc[c] # "idle"
    PROVE  startup = "serving" /\ tool[c] \in Tools
BY DEF IInv, BackendInv, NotYetServing, CallInv, CallLocals

\* A call that returns leaves the calls' part in order.
LEMMA ReturnKeepsCallInv ==
    ASSUME CallInv, NEW c \in Calls, NEW r \in Results, Return(c, r), UNCHANGED reviewed
    PROVE  CallInv'
<1>1. CallTypeOK'
    BY DEF CallInv, CallTypeOK, Return, Goto, Stages
<1>2. CallLocals' /\ RanOnlyInAnswer'
    BY DEF CallInv, CallTypeOK, CallLocals, RanOnlyInAnswer, Return, Goto
<1>3. AdmittedMatchesReview'
    BY DEF CallInv, CallTypeOK, AdmittedMatchesReview, Return, Goto, Admitted, InCall
<1> QED
    BY <1>1, <1>2, <1>3 DEF CallInv

\* So does one that moves on, if it is not admitted by that and does not run.
LEMMA StepKeepsCallInv ==
    ASSUME CallInv, NEW c \in Calls, NEW stage \in Stages \ {"idle", "answer"},
           NEW s \in Sessions \cup {None}, StepHolding(c, stage, s), UNCHANGED reviewed,
           pc[c] \notin {"idle", "answer"}, stage \in Admitted => pc[c] \in Admitted
    PROVE  CallInv'
<1>1. CallTypeOK'
    BY DEF CallInv, CallTypeOK, StepHolding, Goto
<1>2. CallLocals' /\ RanOnlyInAnswer'
    BY DEF CallInv, CallTypeOK, CallLocals, RanOnlyInAnswer, StepHolding, Goto
<1>3. AdmittedMatchesReview'
    BY DEF CallInv, CallTypeOK, AdmittedMatchesReview, StepHolding, Goto, Admitted
<1> QED
    BY <1>1, <1>2, <1>3 DEF CallInv

\* A step that touches no call leaves the calls' part alone.
LEMMA NoCallKeepsCallInv ==
    ASSUME CallInv, UNCHANGED <<callVars, reviewed>>
    PROVE  CallInv'
BY DEF CallInv, CallTypeOK, CallLocals, RanOnlyInAnswer, AdmittedMatchesReview, callVars

\* A step of a call in flight that leaves the backend alone keeps its part.
LEMMA NoBackendKeepsBackendInv ==
    ASSUME IInv, NEW c \in Calls, pc[c] # "idle",
           UNCHANGED <<upstreamVars, backendVars, closer>>
    PROVE  BackendInv'
BY InFlightIsServing
   DEF IInv, BackendInv, BackendTypeOK, NotYetServing, BaselineIsReview, ClosedHasNoSession,
       upstreamVars, backendVars

\* The first failure of ensureFresh moves on, the second returns.
LEMMA FailKeepsCallInv ==
    ASSUME CallInv, NEW c \in Calls, NEW n \in {1, 2}, Fail(c, n), UNCHANGED reviewed,
           pc[c] \in {"check1", "check2", "list1", "list2"}
    PROVE  CallInv'
<1>1. sess[c] \in Sessions \cup {None}
    BY DEF CallInv, CallTypeOK
<1>2. CASE n = 1
    BY <1>1, <1>2, StepKeepsCallInv DEF Fail, StepTo, Stages, Admitted, InCall
<1>3. CASE n = 2
    BY <1>3, ReturnKeepsCallInv DEF Fail, Results
<1> QED
    BY <1>2, <1>3

-----------------------------------------------------------------------------
LEMMA InitEstablishes == Init => IInv
<1> SUFFICES ASSUME Init PROVE IInv
    OBVIOUS
<1>1. BackendTypeOK
  <2>1. /\ lost \subseteq open /\ open \subseteq Sessions
        /\ session \in Sessions \cup {None}
      BY DEF Init
  <2>2. /\ baseline \in [Tools -> Contracts \cup {None}]
        /\ reviewed \in [Tools -> Contracts \cup {None}]
      BY DEF Init
  <2>3. faults \in 0 .. MaxFaults
      BY FaultsAssumption DEF Init
  <2> QED
      BY <2>1, <2>2, <2>3 DEF Init, BackendTypeOK
<1>2. CallTypeOK
    BY DEF Init, CallTypeOK, Stages, Results
<1>3. NotYetServing /\ BaselineIsReview /\ ClosedHasNoSession
    BY DEF Init, NotYetServing, BaselineIsReview, ClosedHasNoSession
<1>4. CallLocals /\ RanOnlyInAnswer /\ AdmittedMatchesReview
    BY DEF Init, CallLocals, RanOnlyInAnswer, AdmittedMatchesReview, Admitted, InCall
<1> QED
    BY <1>1, <1>2, <1>3, <1>4 DEF IInv, BackendInv, CallInv

-----------------------------------------------------------------------------
LEMMA StartupDialKeeps == ASSUME IInv, StartupDial PROVE IInv'
<1>1. CallInv'
    BY NoCallKeepsCallInv DEF IInv, StartupDial
<1>2. BackendTypeOK'
    BY FreshSessionIsFree, DialFindsSession
    DEF IInv, BackendInv, BackendTypeOK, StartupDial, OpenSession, KeepSessions
<1>3. startup' = "snapshot" => open' = {session'}
    BY DEF IInv, BackendInv, NotYetServing, StartupDial, OpenSession, KeepSessions
<1>4. NotYetServing' /\ BaselineIsReview' /\ ClosedHasNoSession'
    BY <1>3 DEF IInv, BackendInv, NotYetServing, BaselineIsReview, ClosedHasNoSession,
                StartupDial, KeepSessions, callVars
<1> QED
    BY <1>1, <1>2, <1>4 DEF IInv, BackendInv

LEMMA StartupSnapshotKeeps == ASSUME IInv, StartupSnapshot PROVE IInv'
<1>1. CallInv'
  <2>1. \A c \in Calls : pc[c] = "idle"
      BY DEF IInv, BackendInv, NotYetServing, StartupSnapshot
  <2>2. AdmittedMatchesReview'
      BY <2>1 DEF AdmittedMatchesReview, StartupSnapshot, callVars, Admitted, InCall
  <2> QED
      BY <2>2 DEF IInv, CallInv, CallTypeOK, CallLocals, RanOnlyInAnswer, StartupSnapshot, callVars
<1>2. CASE startup' = "serving"
  <2>1. \A t \in Tools : surface[t] \in Contracts
      BY <1>2, SurfacesAssumption DEF IInv, BackendInv, BackendTypeOK, StartupSnapshot
  <2>2. surface \in [Tools -> Contracts \cup {None}]
      BY <2>1, SurfacesAssumption DEF IInv, BackendInv, BackendTypeOK
  <2>3. BackendInv'
      BY <1>2, <2>2
      DEF IInv, BackendInv, BackendTypeOK, NotYetServing, BaselineIsReview, ClosedHasNoSession,
          StartupSnapshot, KeepSessions
  <2> QED
      BY <1>1, <2>3 DEF IInv
<1>3. CASE startup' # "serving"
  <2>1. BackendTypeOK'
      BY <1>3 DEF IInv, BackendInv, BackendTypeOK, StartupSnapshot, CloseSession
  <2>2. NotYetServing' /\ BaselineIsReview' /\ ClosedHasNoSession'
      BY <1>3 DEF IInv, BackendInv, NotYetServing, BaselineIsReview, ClosedHasNoSession,
                  StartupSnapshot, CloseSession, callVars
  <2> QED
      BY <1>1, <2>1, <2>2 DEF IInv, BackendInv
<1> QED
    BY <1>2, <1>3

-----------------------------------------------------------------------------
LEMMA StartCallKeeps == ASSUME IInv, NEW c \in Calls, StartCall(c) PROVE IInv'
<1>1. CallTypeOK'
    BY DEF IInv, CallInv, CallTypeOK, StartCall, Goto, Stages, Results
<1>2. CallLocals' /\ RanOnlyInAnswer' /\ AdmittedMatchesReview'
    BY DEF IInv, CallInv, CallTypeOK, CallLocals, RanOnlyInAnswer, AdmittedMatchesReview, Admitted, InCall,
           StartCall, Goto, backendVars
<1>3. BackendInv'
    BY DEF IInv, BackendInv, BackendTypeOK, NotYetServing, BaselineIsReview, ClosedHasNoSession,
           StartCall, backendVars, upstreamVars
<1> QED
    BY <1>1, <1>2, <1>3 DEF IInv, CallInv

LEMMA EnsureFreshKeeps ==
    ASSUME IInv, NEW c \in Calls, NEW n \in {1, 2}, EnsureFresh(c, n)
    PROVE  IInv'
<1>1. BackendInv'
    BY NoBackendKeepsBackendInv DEF EnsureFresh
<1>2. CASE Fail(c, n)
    BY <1>1, <1>2, FailKeepsCallInv DEF IInv, EnsureFresh, backendVars
<1>3. CASE ~Fail(c, n)
  <2>1. session \in Sessions \cup {None}
      BY DEF IInv, BackendInv, BackendTypeOK
  <2> QED
      BY <1>1, <1>3, <2>1, StepKeepsCallInv
      DEF IInv, EnsureFresh, backendVars, Stages, Admitted, InCall
<1> QED
    BY <1>2, <1>3

LEMMA ListFailsKeeps ==
    ASSUME IInv, NEW c \in Calls, NEW n \in {1, 2}, ListFails(c, n)
    PROVE  IInv'
BY NoBackendKeepsBackendInv, FailKeepsCallInv DEF IInv, ListFails, backendVars

LEMMA ListDriftsKeeps ==
    ASSUME IInv, NEW c \in Calls, NEW n \in {1, 2}, ListDrifts(c, n)
    PROVE  IInv'
<1>1. BackendInv'
    BY InFlightIsServing
    DEF IInv, BackendInv, BackendTypeOK, NotYetServing, BaselineIsReview, ClosedHasNoSession,
        ListDrifts, upstreamVars
<1> QED
    BY <1>1, FailKeepsCallInv DEF IInv, ListDrifts

LEMMA ListMatchesKeeps ==
    ASSUME IInv, NEW c \in Calls, NEW n \in {1, 2}, ListMatches(c, n)
    PROVE  IInv'
<1>1. BackendInv'
    BY NoBackendKeepsBackendInv DEF ListMatches
<1>2. tool[c] \in Tools
    BY InFlightIsServing DEF ListMatches
<1>3. surface[tool[c]] \in Contracts \cup {None}
    BY <1>2 DEF IInv, BackendInv, BackendTypeOK, ListMatches
<1>4. CallTypeOK'
    BY <1>3 DEF IInv, CallInv, CallTypeOK, ListMatches, Goto, Stages
<1>5. CallLocals' /\ RanOnlyInAnswer'
    BY DEF IInv, CallInv, CallTypeOK, CallLocals, RanOnlyInAnswer, ListMatches, Goto
<1>6. AdmittedMatchesReview'
    BY DEF IInv, BackendInv, BaselineIsReview, CallInv, CallTypeOK, AdmittedMatchesReview,
           ListMatches, Goto, backendVars
<1> QED
    BY <1>1, <1>4, <1>5, <1>6 DEF IInv, CallInv

LEMMA DecideKeeps == ASSUME IInv, NEW c \in Calls, Decide(c) PROVE IInv'
BY NoBackendKeepsBackendInv, ReturnKeepsCallInv, StepKeepsCallInv
DEF IInv, Decide, backendVars, Stages, Results, Admitted, InCall

LEMMA TakeStaleKeeps == ASSUME IInv, NEW c \in Calls, TakeStale(c) PROVE IInv'
<1>1. BackendInv'
    BY InFlightIsServing
    DEF IInv, BackendInv, BackendTypeOK, NotYetServing, BaselineIsReview, ClosedHasNoSession,
        TakeStale, upstreamVars
<1>2. session \in Sessions \cup {None}
    BY DEF IInv, BackendInv, BackendTypeOK
<1> QED
    BY <1>1, <1>2, ReturnKeepsCallInv, StepKeepsCallInv
    DEF IInv, TakeStale, Stages, Results, Admitted, InCall

LEMMA RetireStaleKeeps == ASSUME IInv, NEW c \in Calls, RetireStale(c) PROVE IInv'
<1>1. BackendInv'
    BY InFlightIsServing
    DEF IInv, BackendInv, BackendTypeOK, NotYetServing, BaselineIsReview, ClosedHasNoSession,
        RetireStale, CloseSession
<1> QED
    BY <1>1, StepKeepsCallInv DEF IInv, RetireStale, Stages, Admitted, InCall

LEMMA DialKeeps == ASSUME IInv, NEW c \in Calls, Dial(c) PROVE IInv'
<1>1. startup = "serving"
    BY InFlightIsServing DEF Dial
<1>2. CASE StepHolding(c, "install", FreshSession) /\ FreeSessions # {} /\ OpenSession(FreshSession)
  <2>1. FreshSession \in Sessions
      BY <1>2, FreshSessionIsFree
  <2>2. BackendInv'
      BY <1>1, <1>2, <2>1
      DEF IInv, BackendInv, BackendTypeOK, NotYetServing, BaselineIsReview, ClosedHasNoSession,
          Dial, OpenSession
  <2> QED
      BY <1>2, <2>1, <2>2, StepKeepsCallInv DEF IInv, Dial, Stages, Admitted, InCall
<1>3. CASE Return(c, "err") /\ KeepSessions
  <2>1. BackendInv'
      BY <1>1, <1>3
      DEF IInv, BackendInv, BackendTypeOK, NotYetServing, BaselineIsReview, ClosedHasNoSession,
          Dial, KeepSessions
  <2> QED
      BY <1>3, <2>1, ReturnKeepsCallInv DEF IInv, Dial, Results
<1> QED
    BY <1>2, <1>3 DEF Dial

LEMMA InstallKeeps == ASSUME IInv, NEW c \in Calls, Install(c) PROVE IInv'
<1>1. startup = "serving"
    BY InFlightIsServing DEF Install
<1>2. CASE Return(c, "err") /\ CloseSession(sess[c]) /\ UNCHANGED session
  <2>1. BackendInv'
      BY <1>1, <1>2
      DEF IInv, BackendInv, BackendTypeOK, NotYetServing, BaselineIsReview, ClosedHasNoSession,
          Install, CloseSession
  <2> QED
      BY <1>2, <2>1, ReturnKeepsCallInv DEF IInv, Install, Results
<1>3. CASE ~closed /\ session' = sess[c] /\ StepHolding(c, "check2", None) /\ KeepSessions
  <2>1. sess[c] \in Sessions \cup {None}
      BY DEF IInv, CallInv, CallTypeOK
  <2>2. BackendInv'
      BY <1>1, <1>3, <2>1
      DEF IInv, BackendInv, BackendTypeOK, NotYetServing, BaselineIsReview, ClosedHasNoSession,
          Install, KeepSessions
  <2> QED
      BY <1>3, <2>2, StepKeepsCallInv DEF IInv, Install, Stages, Admitted, InCall
<1> QED
    BY <1>2, <1>3 DEF Install

LEMMA ResolveKeeps == ASSUME IInv, NEW c \in Calls, Resolve(c) PROVE IInv'
<1>1. session \in Sessions \cup {None}
    BY DEF IInv, BackendInv, BackendTypeOK
<1> QED
    BY <1>1, NoBackendKeepsBackendInv, ReturnKeepsCallInv, StepKeepsCallInv
    DEF IInv, Resolve, backendVars, Stages, Results, Admitted, InCall

LEMMA CheckArgumentsKeeps == ASSUME IInv, NEW c \in Calls, CheckArguments(c) PROVE IInv'
<1>1. sess[c] \in Sessions \cup {None}
    BY DEF IInv, CallInv, CallTypeOK
<1> QED
    BY <1>1, NoBackendKeepsBackendInv, ReturnKeepsCallInv, StepKeepsCallInv
    DEF IInv, CheckArguments, StepTo, backendVars, Stages, Results, Admitted, InCall

\* The one step that runs the tool: from "call", where it has not run.
LEMMA ExecuteKeeps == ASSUME IInv, NEW c \in Calls, Execute(c) PROVE IInv'
<1>1. BackendInv'
    BY NoBackendKeepsBackendInv DEF Execute
<1>2. CallTypeOK'
    BY DEF IInv, CallInv, CallTypeOK, Execute, Goto, Stages, InCall
<1>3. CallLocals' /\ RanOnlyInAnswer' /\ AdmittedMatchesReview'
    BY DEF IInv, CallInv, CallTypeOK, CallLocals, RanOnlyInAnswer, AdmittedMatchesReview, Admitted, InCall,
           Execute, Goto, backendVars
<1> QED
    BY <1>1, <1>2, <1>3 DEF IInv, CallInv

LEMMA CallEndKeeps == ASSUME IInv, NEW c \in Calls, CallFails(c) \/ CallAnswers(c) PROVE IInv'
BY NoBackendKeepsBackendInv, ReturnKeepsCallInv
DEF IInv, CallFails, CallAnswers, InCall, Results, backendVars

-----------------------------------------------------------------------------
\* Cancellations and deadlines only mark the context of the call.
LEMMA ContextEndKeeps == ASSUME IInv, NEW c \in Calls, Cancel(c) \/ Expire(c) PROVE IInv'
<1>1. faults' \in 0 .. MaxFaults
    BY FaultsAssumption DEF IInv, BackendInv, BackendTypeOK, Cancel, Expire, upstreamVars
<1>2. BackendTypeOK'
    BY <1>1 DEF IInv, BackendInv, BackendTypeOK, Cancel, Expire, upstreamVars, backendVars
<1>3. NotYetServing' /\ BaselineIsReview' /\ ClosedHasNoSession'
    BY DEF IInv, BackendInv, NotYetServing, BaselineIsReview, ClosedHasNoSession,
           Cancel, Expire, backendVars
<1>4. CallInv'
    BY DEF IInv, CallInv, CallTypeOK, CallLocals, RanOnlyInAnswer, AdmittedMatchesReview,
           Cancel, Expire, backendVars
<1> QED
    BY <1>2, <1>3, <1>4 DEF IInv, BackendInv

LEMMA CloseKeeps == ASSUME IInv, RequestClose \/ Close PROVE IInv'
<1>1. CallInv'
    BY NoCallKeepsCallInv DEF IInv, RequestClose, Close, backendVars
<1>2. startup = "serving" /\ startup' = "serving"
    BY DEF IInv, BackendInv, NotYetServing, RequestClose, Close, backendVars
<1>3. BackendTypeOK'
    BY DEF IInv, BackendInv, BackendTypeOK, RequestClose, Close, CloseSession, upstreamVars,
           backendVars
<1>4. NotYetServing' /\ BaselineIsReview' /\ ClosedHasNoSession'
    BY <1>2 DEF IInv, BackendInv, NotYetServing, BaselineIsReview, ClosedHasNoSession,
                RequestClose, Close, backendVars
<1> QED
    BY <1>1, <1>3, <1>4 DEF IInv, BackendInv

LEMMA UpstreamKeeps == ASSUME IInv, Upstream PROVE IInv'
<1>1. CallInv'
    BY NoCallKeepsCallInv
    DEF IInv, Upstream, Forget, Degrade, Heal, ChangeSurface, backendVars
<1>2. faults' \in 0 .. MaxFaults
    BY FaultsAssumption
    DEF IInv, BackendInv, BackendTypeOK, Upstream, Forget, Degrade, Heal, ChangeSurface
<1>3. BackendTypeOK'
    BY <1>2 DEF IInv, BackendInv, BackendTypeOK, Upstream, Forget, Degrade, Heal, ChangeSurface,
                backendVars
<1>4. NotYetServing' /\ BaselineIsReview' /\ ClosedHasNoSession'
    BY DEF IInv, BackendInv, NotYetServing, BaselineIsReview, ClosedHasNoSession,
           Upstream, Forget, Degrade, Heal, ChangeSurface, backendVars, callVars
<1> QED
    BY <1>1, <1>3, <1>4 DEF IInv, BackendInv

LEMMA StutterKeeps == ASSUME IInv, UNCHANGED vars PROVE IInv'
<1>1. CallInv'
    BY NoCallKeepsCallInv DEF IInv, vars, backendVars
<1>2. BackendInv'
    BY DEF IInv, BackendInv, BackendTypeOK, NotYetServing, BaselineIsReview, ClosedHasNoSession,
           vars, upstreamVars, backendVars, callVars
<1> QED
    BY <1>1, <1>2 DEF IInv

-----------------------------------------------------------------------------
LEMMA NextKeeps == IInv /\ [Next]_vars => IInv'
<1> SUFFICES ASSUME IInv, [Next]_vars PROVE IInv'
    OBVIOUS
<1>1. ASSUME NEW c \in Calls, CallStep(c) PROVE IInv'
    BY <1>1, EnsureFreshKeeps, ListFailsKeeps, ListDriftsKeeps, ListMatchesKeeps, DecideKeeps,
       TakeStaleKeeps, RetireStaleKeeps, DialKeeps, InstallKeeps, ResolveKeeps,
       CheckArgumentsKeeps, ExecuteKeeps, CallEndKeeps
    DEF CallStep
<1>2. ASSUME NEW c \in Calls, StartCall(c) \/ Cancel(c) \/ Expire(c) PROVE IInv'
    BY <1>2, StartCallKeeps, ContextEndKeeps
<1>3. CASE StartupDial \/ StartupSnapshot \/ RequestClose \/ Close \/ Upstream
    BY <1>3, StartupDialKeeps, StartupSnapshotKeeps, CloseKeeps, UpstreamKeeps
<1>4. CASE Exited \/ UNCHANGED vars
    BY <1>4, StutterKeeps DEF Exited
<1> QED
    BY <1>1, <1>2, <1>3, <1>4 DEF Next

THEOREM Invariance == Spec => []IInv
<1> QED
    BY InitEstablishes, NextKeeps, PTL DEF Spec

\* Every variable keeps its type, whatever the sets of calls, tools and sessions.
THEOREM TypeCorrect == Spec => []TypeOK
<1>1. IInv => TypeOK
    BY DEF IInv, BackendInv, CallInv, TypeOK
<1> QED
    BY <1>1, Invariance, PTL

\* toolHandler forwards a call only on the strength of a listing that showed the
\* contract snapshotted at startup.
THEOREM AdmissionIsReviewed == Spec => []AdmittedMatchesReview
<1>1. IInv => AdmittedMatchesReview
    BY DEF IInv, CallInv
<1> QED
    BY <1>1, Invariance, PTL

\* No reconnect replays a call: the upstream runs it at most once.
THEOREM NoReplay == Spec => []AtMostOneExecution
<1>1. IInv => AtMostOneExecution
    BY DEF IInv, CallInv, RanOnlyInAnswer, AtMostOneExecution
<1> QED
    BY <1>1, Invariance, PTL

\* Close is final: no reconnect that was under way brings a session back.
THEOREM CloseIsFinal == Spec => []ClosedHasNoSession
<1>1. IInv => ClosedHasNoSession
    BY DEF IInv, BackendInv
<1> QED
    BY <1>1, Invariance, PTL

-----------------------------------------------------------------------------
\* At most one call lists at a time, and none lists once drift is latched: the
\* lock is held from the look at driftErr to the verdict on the listing.
MutexInv ==
    /\ \A c, d \in Calls : pc[c] \in Locking /\ pc[d] \in Locking => c = d
    /\ \A c \in Calls : pc[c] \in Locking => ~drift

\* A step of one call to a stage that does not list.
LEMMA GotoKeepsMutex ==
    ASSUME IInv, MutexInv, NEW c \in Calls, NEW stage, stage \notin Locking,
           Goto(c, stage), UNCHANGED drift
    PROVE  MutexInv'
BY DEF IInv, CallInv, CallTypeOK, MutexInv, Goto

LEMMA FailKeepsMutex ==
    ASSUME IInv, MutexInv, NEW c \in Calls, NEW n \in {1, 2}, Fail(c, n), UNCHANGED drift
    PROVE  MutexInv'
BY GotoKeepsMutex DEF Fail, StepTo, StepHolding, Return, Locking

LEMMA MutexStep == IInv /\ MutexInv /\ [Next]_vars => MutexInv'
<1> SUFFICES ASSUME IInv, MutexInv, [Next]_vars PROVE MutexInv'
    OBVIOUS
<1>1. ASSUME NEW c \in Calls, NEW n \in {1, 2}, EnsureFresh(c, n) PROVE MutexInv'
  <2>1. CASE Fail(c, n)
      BY <1>1, <2>1, FailKeepsMutex DEF EnsureFresh, backendVars
  <2>2. CASE ~Fail(c, n)
      BY <1>1, <2>2
      DEF EnsureFresh, LockFree, StepHolding, Goto, backendVars, MutexInv, IInv, CallInv, CallTypeOK
  <2> QED
      BY <2>1, <2>2
<1>2. ASSUME NEW c \in Calls, NEW n \in {1, 2}, ListFails(c, n) PROVE MutexInv'
    BY <1>2, FailKeepsMutex DEF ListFails, backendVars
<1>3. ASSUME NEW c \in Calls, NEW n \in {1, 2}, ListDrifts(c, n) PROVE MutexInv'
  <2>1. pc[c] \in Locking /\ \E stage \in {"decide", "idle"} : Goto(c, stage)
      BY <1>3 DEF ListDrifts, Fail, StepTo, StepHolding, Return, Locking
  <2>2. \A d \in Calls : pc'[d] \notin Locking
      BY <2>1 DEF MutexInv, Goto, Locking, IInv, CallInv, CallTypeOK
  <2> QED
      BY <2>2 DEF MutexInv
<1>4. ASSUME NEW c \in Calls, NEW n \in {1, 2}, ListMatches(c, n) PROVE MutexInv'
    BY <1>4, GotoKeepsMutex DEF ListMatches, backendVars, Locking
<1>5. ASSUME NEW c \in Calls,
             Decide(c) \/ Resolve(c) \/ CheckArguments(c) \/ Execute(c) \/ CallFails(c) \/ CallAnswers(c)
      PROVE  MutexInv'
    BY <1>5, GotoKeepsMutex
    DEF Decide, Resolve, CheckArguments, Execute, CallFails, CallAnswers, StepTo, StepHolding,
        Return, backendVars, Locking
<1>6. ASSUME NEW c \in Calls,
             StartCall(c) \/ TakeStale(c) \/ RetireStale(c) \/ Dial(c) \/ Install(c)
      PROVE  MutexInv'
    BY <1>6, GotoKeepsMutex
    DEF StartCall, TakeStale, RetireStale, Dial, Install, StepHolding, Return, backendVars, Locking
<1>7. CASE UNCHANGED <<pc, drift>>
    BY <1>7 DEF MutexInv
<1>8. ASSUME NEW c \in Calls, Cancel(c) \/ Expire(c) PROVE UNCHANGED <<pc, drift>>
    BY <1>8 DEF Cancel, Expire, backendVars
<1>9. CASE \/ StartupDial \/ StartupSnapshot \/ Exited \/ RequestClose \/ Close \/ Upstream
           \/ UNCHANGED vars
    BY <1>7, <1>9
    DEF StartupDial, StartupSnapshot, Exited, RequestClose, Close, Upstream, Forget, Degrade, Heal,
        ChangeSurface, vars, backendVars, callVars
<1> QED
    BY <1>1, <1>2, <1>3, <1>4, <1>5, <1>6, <1>7, <1>8, <1>9 DEF Next, CallStep

LEMMA MutexHolds == Spec => [](IInv /\ MutexInv)
<1>1. Init => MutexInv
    BY DEF Init, MutexInv, Locking
<1> QED
    BY <1>1, MutexStep, InitEstablishes, NextKeeps, PTL DEF Spec

-----------------------------------------------------------------------------
\* The abstract effect of what a call does to its own variables.
LEMMA ReturnFinishes ==
    ASSUME IInv, NEW c \in Calls, NEW r, pc[c] # "idle", Return(c, r), UNCHANGED drift
    PROVE  Promise!Finish(c)
BY DEF IInv, CallInv, CallTypeOK, Return, Goto, Phase, PhaseOf, Promise!Finish

LEMMA StepStutters ==
    ASSUME IInv, NEW c \in Calls, NEW stage \in Stages, NEW s,
           StepHolding(c, stage, s), PhaseOf(stage) = PhaseOf(pc[c]), UNCHANGED drift
    PROVE  UNCHANGED Promise!promised
BY DEF IInv, CallInv, CallTypeOK, StepHolding, Goto, Phase, Promise!promised

LEMMA FailIsPromised ==
    ASSUME IInv, NEW c \in Calls, NEW n \in {1, 2}, Fail(c, n), UNCHANGED drift,
           pc[c] \in {"check1", "check2", "list1", "list2"}
    PROVE  [Promise!Next]_(Promise!promised)
<1>1. CASE n = 1
    BY <1>1, StepStutters DEF Fail, StepTo, PhaseOf, Stages, Admitted, InCall
<1>2. CASE n = 2
    BY <1>2, ReturnFinishes DEF Fail, Promise!Next
<1> QED
    BY <1>1, <1>2

\* A listing that finds drift latches it, and its call is not admitted.
LEMMA DriftIsPromised ==
    ASSUME IInv, NEW c \in Calls, NEW n \in {1, 2}, ListDrifts(c, n)
    PROVE  Promise!Latch(c)
<1>1. Phase[c] = "pending"
    BY DEF ListDrifts, Phase, PhaseOf, Admitted, InCall
<1>2. CASE n = 1
  <2>1. Phase' = Phase
      BY <1>2 DEF ListDrifts, Fail, StepTo, StepHolding, Goto, Phase, PhaseOf, Admitted, InCall,
                  IInv, CallInv, CallTypeOK
  <2> QED
      BY <1>1, <1>2, <2>1 DEF ListDrifts, Fail, StepTo, StepHolding, Promise!Latch
<1>3. CASE n = 2
  <2>0. Return(c, "err")
      BY <1>3 DEF ListDrifts, Fail
  <2>1. Phase' = [Phase EXCEPT ![c] = "idle"]
      BY <2>0 DEF Return, Goto, Phase, PhaseOf, IInv, CallInv, CallTypeOK
  <2>2. executed' = executed
    <3>1. executed[c] = 0
        BY DEF ListDrifts, IInv, CallInv, RanOnlyInAnswer
    <3> QED
        BY <2>0, <3>1 DEF Return, IInv, CallInv, CallTypeOK
  <2> QED
      BY <1>1, <2>1, <2>2 DEF ListDrifts, Promise!Latch
<1> QED
    BY <1>2, <1>3

\* A listing that matches admits the call, and no drift has been latched since
\* the lock was taken.
LEMMA MatchIsPromised ==
    ASSUME IInv, MutexInv, NEW c \in Calls, NEW n \in {1, 2}, ListMatches(c, n)
    PROVE  Promise!Admit(c)
<1>1. Phase[c] = "pending" /\ ~drift
    BY DEF ListMatches, Phase, PhaseOf, Admitted, InCall, MutexInv, Locking
<1>2. Phase' = [Phase EXCEPT ![c] = "admitted"]
    BY DEF ListMatches, Goto, Phase, PhaseOf, Admitted, InCall, IInv, CallInv, CallTypeOK
<1> QED
    BY <1>1, <1>2 DEF ListMatches, backendVars, Promise!Admit

\* Every step of the proxy is a step GuardedCall allows, or a stutter.
LEMMA StepIsPromised ==
    ASSUME IInv, MutexInv, [Next]_vars
    PROVE  [Promise!Next]_(Promise!promised)
<1>1. ASSUME NEW c \in Calls, StartCall(c) PROVE Promise!Begin(c)
    BY <1>1 DEF StartCall, Goto, Phase, PhaseOf, Admitted, InCall, IInv, CallInv, CallTypeOK,
                backendVars, Promise!Begin
<1>2. ASSUME NEW c \in Calls, NEW n \in {1, 2}, EnsureFresh(c, n)
      PROVE  [Promise!Next]_(Promise!promised)
  <2>1. CASE Fail(c, n)
      BY <1>2, <2>1, FailIsPromised DEF EnsureFresh, backendVars
  <2>2. CASE ~Fail(c, n)
      BY <1>2, <2>2, StepStutters
      DEF EnsureFresh, PhaseOf, Stages, Admitted, InCall, backendVars
  <2> QED
      BY <2>1, <2>2
<1>3. ASSUME NEW c \in Calls, NEW n \in {1, 2}, ListFails(c, n)
      PROVE  [Promise!Next]_(Promise!promised)
    BY <1>3, FailIsPromised DEF ListFails, backendVars
<1>4. ASSUME NEW c \in Calls,
             \/ Decide(c) \/ TakeStale(c) \/ RetireStale(c) \/ Dial(c) \/ Install(c)
             \/ Resolve(c) \/ CheckArguments(c)
      PROVE  Promise!Finish(c) \/ UNCHANGED Promise!promised
    BY <1>4, ReturnFinishes, StepStutters
    DEF Decide, TakeStale, RetireStale, Dial, Install, Resolve, CheckArguments, StepTo, backendVars,
        PhaseOf, Stages, Admitted, InCall
<1>5. ASSUME NEW c \in Calls, Execute(c) PROVE Promise!Run(c)
  <2>1. Phase' = Phase /\ Phase[c] = "admitted"
      BY <1>5 DEF Execute, Goto, Phase, PhaseOf, Admitted, InCall, IInv, CallInv, CallTypeOK
  <2>2. executed[c] = 0
      BY <1>5 DEF Execute, IInv, CallInv, RanOnlyInAnswer
  <2>3. executed' = [executed EXCEPT ![c] = 1]
      BY <1>5, <2>2 DEF Execute
  <2> QED
      BY <1>5, <2>1, <2>2, <2>3 DEF Execute, backendVars, Promise!Run
<1>6. ASSUME NEW c \in Calls, CallFails(c) \/ CallAnswers(c) PROVE Promise!Finish(c)
    BY <1>6, ReturnFinishes DEF CallFails, CallAnswers, InCall, backendVars
<1>7. ASSUME UNCHANGED <<pc, executed, drift>> PROVE UNCHANGED Promise!promised
    BY <1>7 DEF Phase, Promise!promised
<1>8. ASSUME NEW c \in Calls, Cancel(c) \/ Expire(c) PROVE UNCHANGED Promise!promised
    BY <1>7, <1>8 DEF Cancel, Expire, backendVars
<1>9. CASE \/ StartupDial \/ StartupSnapshot \/ Exited \/ RequestClose \/ Close \/ Upstream
           \/ UNCHANGED vars
    BY <1>7, <1>9
    DEF StartupDial, StartupSnapshot, Exited, RequestClose, Close, Upstream, Forget, Degrade, Heal,
        ChangeSurface, vars, backendVars, callVars
<1> QED
    BY <1>1, <1>2, <1>3, <1>4, <1>5, <1>6, <1>8, <1>9, DriftIsPromised, MatchIsPromised
    DEF Next, CallStep, Promise!Next

\* The proxy implements GuardedCall: checked first, run at most once, and nothing
\* admitted once drift has been latched, for any number of overlapping calls.
THEOREM ImplementsGuardedCall == Spec => KeepsPromise
<1>1. Init => Promise!Init
    BY DEF Init, Promise!Init, Phase, PhaseOf
<1>2. IInv /\ MutexInv /\ [Next]_vars => [Promise!Next]_(Promise!promised)
    BY StepIsPromised
<1> QED
    BY <1>1, <1>2, MutexHolds, PTL DEF Spec, KeepsPromise, Promise!Spec

-----------------------------------------------------------------------------
\* The only steps into "resolve" and "take" are ListMatches and Decide, and both
\* find drift not latched.
LEMMA DriftStopsStep ==
    ASSUME IInv, MutexInv, [Next]_vars, drift, NEW c \in Calls, pc'[c] \in {"resolve", "take"}
    PROVE  pc[c] = pc'[c]
<1>1. ASSUME NEW d \in Calls, NEW stage, stage \notin {"resolve", "take"}, Goto(d, stage)
      PROVE  pc[c] = pc'[c]
    BY <1>1 DEF Goto, IInv, CallInv, CallTypeOK
<1>2. ASSUME NEW d \in Calls, NEW n \in {1, 2},
             EnsureFresh(d, n) \/ ListFails(d, n) \/ ListDrifts(d, n)
      PROVE  pc[c] = pc'[c]
    BY <1>1, <1>2 DEF EnsureFresh, ListFails, ListDrifts, Fail, StepTo, StepHolding, Return
<1>3. ASSUME NEW d \in Calls, NEW n \in {1, 2}, ListMatches(d, n) PROVE FALSE
    BY <1>3 DEF ListMatches, MutexInv, Locking
<1>4. ASSUME NEW d \in Calls,
             \/ StartCall(d) \/ Decide(d) \/ TakeStale(d) \/ RetireStale(d) \/ Dial(d) \/ Install(d)
      PROVE  pc[c] = pc'[c]
    BY <1>1, <1>4
    DEF StartCall, Decide, TakeStale, RetireStale, Dial, Install, StepHolding, Return
<1>5. ASSUME NEW d \in Calls,
             \/ Resolve(d) \/ CheckArguments(d) \/ Execute(d) \/ CallFails(d) \/ CallAnswers(d)
      PROVE  pc[c] = pc'[c]
    BY <1>1, <1>5
    DEF Resolve, CheckArguments, Execute, CallFails, CallAnswers, StepTo, StepHolding, Return
<1>6. ASSUME NEW d \in Calls, Cancel(d) \/ Expire(d) PROVE pc[c] = pc'[c]
    BY <1>6 DEF Cancel, Expire
<1>7. CASE \/ StartupDial \/ StartupSnapshot \/ Exited \/ RequestClose \/ Close \/ Upstream
           \/ UNCHANGED vars
    BY <1>7
    DEF StartupDial, StartupSnapshot, Exited, RequestClose, Close, Upstream, Forget, Degrade, Heal,
        ChangeSurface, vars, callVars
<1> QED
    BY <1>2, <1>3, <1>4, <1>5, <1>6, <1>7 DEF Next, CallStep

\* Drift is a decision, not a transport failure: once latched, by a call about any
\* tool, no call is admitted and none sets out to reconnect.
THEOREM DriftStopsEverything == Spec => NoAdmissionPastDrift
<1>1. IInv /\ MutexInv /\ [Next]_vars =>
          [drift => \A c \in Calls : pc'[c] \in {"resolve", "take"} => pc[c] = pc'[c]]_vars
    BY DriftStopsStep
<1> QED
    BY <1>1, MutexHolds, PTL DEF Spec, NoAdmissionPastDrift

-----------------------------------------------------------------------------
LEMMA StageOrder ==
    /\ StepsLeft("check1") = 13 /\ StepsLeft("list1") = 12 /\ StepsLeft("decide") = 11
    /\ StepsLeft("take") = 10 /\ StepsLeft("retire") = 9 /\ StepsLeft("dial") = 8
    /\ StepsLeft("install") = 7 /\ StepsLeft("check2") = 6 /\ StepsLeft("list2") = 5
    /\ StepsLeft("resolve") = 4 /\ StepsLeft("args") = 3 /\ StepsLeft("call") = 2
    /\ StepsLeft("answer") = 1 /\ StepsLeft("idle") = 0
BY DEF StepsLeft

\* Where a step may lead from a stage.
Leads(from, to) ==
    \/ from \in {"check1", "list1"} /\ to = "decide"
    \/ from = "check1" /\ to = "list1"
    \/ from = "check2" /\ to = "list2"
    \/ from \in {"list1", "list2"} /\ to = "resolve"
    \/ from = "decide" /\ to = "take"
    \/ from = "take" /\ to = "retire"
    \/ from = "retire" /\ to = "dial"
    \/ from = "dial" /\ to = "install"
    \/ from = "install" /\ to = "check2"
    \/ from = "resolve" /\ to = "args"
    \/ from = "args" /\ to = "call"
    \/ from = "call" /\ to = "answer"
    \/ from \in Stages \ {"idle"} /\ to = "idle"

LEMMA LeadsOn ==
    ASSUME NEW from, NEW to, Leads(from, to)
    PROVE  from # "idle" /\ StepsLeft(to) < StepsLeft(from)
<1>1. CASE from \in Stages \ {"idle"} /\ to = "idle"
    BY <1>1, StageOrder DEF Stages, InCall
<1>2. CASE ~(from \in Stages \ {"idle"} /\ to = "idle")
    BY <1>2, StageOrder DEF Leads
<1> QED
    BY <1>1, <1>2

\* One step of one call leaves the others where they are, and its own goes on or returns.
LEMMA StepAdvances ==
    ASSUME CallTypeOK, NEW c \in Calls, NEW d \in Calls, CallStep(d), pc'[c] # pc[c]
    PROVE  Busy(c) /\ StepsLeft(pc'[c]) < StepsLeft(pc[c])
<1> SUFFICES \E to : Goto(d, to) /\ Leads(pc[d], to)
  <2> SUFFICES ASSUME NEW to, Goto(d, to), Leads(pc[d], to)
               PROVE  Busy(c) /\ StepsLeft(pc'[c]) < StepsLeft(pc[c])
      OBVIOUS
  <2>1. c = d /\ pc'[c] = to
      BY DEF Goto, CallTypeOK
  <2> QED
      BY <2>1, LeadsOn DEF Busy
<1>1. pc[d] \in Stages
    BY DEF CallTypeOK
<1>2. ASSUME EnsureFresh(d, 1) \/ ListFails(d, 1) \/ ListDrifts(d, 1)
      PROVE  \E to : Goto(d, to) /\ Leads(pc[d], to)
  <2>1. Fail(d, 1) => Goto(d, "decide")
      BY DEF Fail, StepTo, StepHolding
  <2>2. CASE EnsureFresh(d, 1)
      BY <2>1, <2>2 DEF EnsureFresh, StepHolding, Leads
  <2>3. CASE ListFails(d, 1) \/ ListDrifts(d, 1)
      BY <2>1, <2>3 DEF ListFails, ListDrifts, Leads
  <2> QED
      BY <1>2, <2>2, <2>3
<1>3. ASSUME EnsureFresh(d, 2) \/ ListFails(d, 2) \/ ListDrifts(d, 2)
      PROVE  \E to : Goto(d, to) /\ Leads(pc[d], to)
  <2>1. Fail(d, 2) => Goto(d, "idle")
      BY DEF Fail, Return
  <2>2. CASE EnsureFresh(d, 2)
      BY <1>1, <2>1, <2>2 DEF EnsureFresh, StepHolding, Leads
  <2>3. CASE ListFails(d, 2) \/ ListDrifts(d, 2)
      BY <1>1, <2>1, <2>3 DEF ListFails, ListDrifts, Leads
  <2> QED
      BY <1>3, <2>2, <2>3
<1>4. ASSUME ListMatches(d, 1) \/ ListMatches(d, 2)
      PROVE  \E to : Goto(d, to) /\ Leads(pc[d], to)
    BY <1>4 DEF ListMatches, Leads
<1>5. ASSUME Decide(d) \/ TakeStale(d) \/ RetireStale(d)
      PROVE  \E to : Goto(d, to) /\ Leads(pc[d], to)
    BY <1>1, <1>5 DEF Decide, TakeStale, RetireStale, StepHolding, Return, Leads
<1>6. ASSUME Dial(d) \/ Install(d)
      PROVE  \E to : Goto(d, to) /\ Leads(pc[d], to)
    BY <1>1, <1>6 DEF Dial, Install, StepHolding, Return, Leads
<1>7. ASSUME Resolve(d) \/ CheckArguments(d)
      PROVE  \E to : Goto(d, to) /\ Leads(pc[d], to)
    BY <1>1, <1>7 DEF Resolve, CheckArguments, StepTo, StepHolding, Return, Leads
<1>8. ASSUME Execute(d) \/ CallFails(d) \/ CallAnswers(d)
      PROVE  \E to : Goto(d, to) /\ Leads(pc[d], to)
    BY <1>1, <1>8 DEF Execute, CallFails, CallAnswers, InCall, Return, Leads
<1> QED
    BY <1>2, <1>3, <1>4, <1>5, <1>6, <1>7, <1>8 DEF CallStep

\* A call is over after 13 steps of its own, one reconnect included, wherever faults and
\* other calls come between them; that a step is taken is left to fairness.
THEOREM CallsAdvance == Spec => CallsOnlyAdvance
<1> DEFINE Advance == \A c \in Calls : Busy(c) /\ pc'[c] # pc[c] => StepsLeft(pc'[c]) < StepsLeft(pc[c])
<1>1. ASSUME IInv, [Next]_vars PROVE [Advance]_vars
  <2> SUFFICES ASSUME NEW c \in Calls, Busy(c), pc'[c] # pc[c]
               PROVE  StepsLeft(pc'[c]) < StepsLeft(pc[c])
      OBVIOUS
  <2>1. CallTypeOK
      BY <1>1 DEF IInv, CallInv
  <2>2. ASSUME NEW d \in Calls, StartCall(d) PROVE FALSE
      BY <2>1, <2>2 DEF StartCall, Goto, Busy, CallTypeOK
  <2>3. ASSUME NEW d \in Calls, Cancel(d) \/ Expire(d) PROVE FALSE
      BY <2>3 DEF Cancel, Expire
  <2>4. ~(StartupDial \/ StartupSnapshot \/ Exited \/ RequestClose \/ Close \/ Upstream \/ UNCHANGED vars)
      BY DEF StartupDial, StartupSnapshot, Exited, RequestClose, Close, Upstream, Forget, Degrade, Heal,
             ChangeSurface, vars, callVars
  <2>5. PICK d \in Calls : CallStep(d)
      BY <1>1, <2>2, <2>3, <2>4 DEF Next
  <2> QED
      BY <2>1, <2>5, StepAdvances
<1> QED
    BY <1>1, Invariance, PTL DEF Spec, CallsOnlyAdvance

-----------------------------------------------------------------------------
\* A session stays in sight while the backend keeps its own and no call gives one up.
Keeps(d) == pc[d] \in {"retire", "install"} => pc'[d] \in {"retire", "install"} /\ sess'[d] = sess[d]

LEMMA KeptInSight ==
    ASSUME NEW s \in Owned,
           s = session => s \in Owned',
           \A d \in Calls : Keeps(d) \/ (pc[d] \in {"retire", "install"} /\ sess[d] = s => s \in Owned')
    PROVE  s \in Owned'
BY DEF Owned, Keeps

\* A call that has no session to give up returns, or moves on.
LEMMA ReturnGivesUpNothing ==
    ASSUME CallTypeOK, NEW c \in Calls, NEW r, Return(c, r), UNCHANGED session,
           pc[c] \notin {"retire", "install"}
    PROVE  Owned \subseteq Owned'
<1>1. \A d \in Calls : Keeps(d)
    BY DEF Keeps, Return, Goto, CallTypeOK
<1> QED
    BY <1>1, KeptInSight DEF Owned

LEMMA StepGivesUpNothing ==
    ASSUME CallTypeOK, NEW c \in Calls, NEW stage, NEW s, StepHolding(c, stage, s), UNCHANGED session,
           pc[c] \notin {"retire", "install"}
    PROVE  Owned \subseteq Owned'
<1>1. \A d \in Calls : Keeps(d)
    BY DEF Keeps, StepHolding, Goto, CallTypeOK
<1> QED
    BY <1>1, KeptInSight DEF Owned

\* The steps that do give one up.
LEMMA CallStepOrphans ==
    ASSUME IInv, NEW c \in Calls, CallStep(c), NEW s \in open \cap Owned, s \in open' \ Owned'
    PROVE  s = session /\ pc[c] = "install" /\ pc'[c] = "check2"
<1> USE DEF IInv, CallInv
<1>1. CallTypeOK
    OBVIOUS
<1>2. ASSUME NEW n \in {1, 2}, EnsureFresh(c, n) \/ ListFails(c, n) \/ ListDrifts(c, n) \/ ListMatches(c, n)
      PROVE  FALSE
  <2>1. pc[c] \notin {"retire", "install"} /\ UNCHANGED session
      BY <1>2 DEF EnsureFresh, ListFails, ListDrifts, ListMatches, backendVars
  <2>2. CASE ListMatches(c, n)
    <3>1. \A d \in Calls : Keeps(d)
        BY <1>1, <2>1, <2>2 DEF Keeps, ListMatches, Goto, CallTypeOK
    <3> QED
        BY <2>1, <3>1, KeptInSight DEF Owned
  <2>3. CASE Fail(c, n)
      BY <1>1, <2>1, <2>3, ReturnGivesUpNothing, StepGivesUpNothing DEF Fail, StepTo
  <2>4. CASE \E stage : StepHolding(c, stage, session)
      BY <1>1, <2>1, <2>4, StepGivesUpNothing
  <2>5. ListMatches(c, n) \/ Fail(c, n) \/ \E stage : StepHolding(c, stage, session)
      BY <1>2 DEF EnsureFresh, ListFails, ListDrifts
  <2> QED
      BY <2>2, <2>3, <2>4, <2>5
<1>3. ASSUME Decide(c) \/ Resolve(c) \/ CheckArguments(c) \/ Dial(c) PROVE FALSE
  <2>1. pc[c] \notin {"retire", "install"} /\ UNCHANGED session
      BY <1>3 DEF Decide, Resolve, CheckArguments, Dial, backendVars
  <2>2. (\E r : Return(c, r)) \/ \E stage, t : StepHolding(c, stage, t)
      BY <1>3 DEF Decide, Resolve, CheckArguments, Dial, StepTo
  <2> QED
      BY <1>1, <2>1, <2>2, ReturnGivesUpNothing, StepGivesUpNothing
<1>4. ASSUME CallFails(c) \/ CallAnswers(c) PROVE FALSE
  <2>1. pc[c] \notin {"retire", "install"} /\ UNCHANGED session
      BY <1>4 DEF CallFails, CallAnswers, InCall, backendVars
  <2> QED
      BY <1>1, <1>4, <2>1, ReturnGivesUpNothing DEF CallFails, CallAnswers
<1>5. ASSUME Execute(c) PROVE FALSE
  <2>1. UNCHANGED session /\ \A d \in Calls : Keeps(d)
      BY <1>1, <1>5 DEF Execute, Goto, Keeps, CallTypeOK, backendVars
  <2> QED
      BY <2>1, KeptInSight DEF Owned
<1>6. ASSUME TakeStale(c) PROVE FALSE
  <2>1. CASE Return(c, "err") /\ UNCHANGED session
      BY <1>1, <1>6, <2>1, ReturnGivesUpNothing DEF TakeStale
  <2>2. CASE StepHolding(c, "retire", session) /\ session' = None
    <3>1. pc'[c] = "retire" /\ sess'[c] = session
        BY <1>1, <2>2 DEF StepHolding, Goto, CallTypeOK
    <3>2. session \in Owned'
        BY <3>1 DEF Owned
    <3>3. \A d \in Calls : Keeps(d)
        BY <1>1, <1>6, <2>2 DEF TakeStale, Keeps, StepHolding, Goto, CallTypeOK
    <3> QED
        BY <3>2, <3>3, KeptInSight
  <2> QED
      BY <1>6, <2>1, <2>2 DEF TakeStale
<1>7. ASSUME RetireStale(c) PROVE FALSE
  <2>1. s # sess[c] /\ UNCHANGED session
      BY <1>7 DEF RetireStale, CloseSession
  <2>2. \A d \in Calls \ {c} : Keeps(d)
      BY <1>1, <1>7 DEF RetireStale, Keeps, StepHolding, Goto, CallTypeOK
  <2> QED
      BY <2>1, <2>2, KeptInSight DEF Owned
<1>8. ASSUME Install(c) PROVE s = session /\ pc[c] = "install" /\ pc'[c] = "check2"
  <2>1. CASE CloseSession(sess[c]) /\ Return(c, "err") /\ UNCHANGED session
    <3>1. s # sess[c]
        BY <2>1 DEF CloseSession
    <3>2. \A d \in Calls \ {c} : Keeps(d)
        BY <1>1, <2>1 DEF Keeps, Return, Goto, CallTypeOK
    <3> QED
        BY <2>1, <3>1, <3>2, KeptInSight DEF Owned
  <2>2. CASE session' = sess[c] /\ StepHolding(c, "check2", None)
    <3>1. pc[c] = "install" /\ pc'[c] = "check2"
        BY <1>1, <1>8, <2>2 DEF Install, StepHolding, Goto, CallTypeOK
    <3>2. \A d \in Calls \ {c} : Keeps(d)
        BY <1>1, <2>2 DEF Keeps, StepHolding, Goto, CallTypeOK
    <3>3. sess[c] \in Owned'
        BY <2>2 DEF Owned
    <3>4. s = session
        BY <3>2, <3>3, KeptInSight
    <3> QED
        BY <3>1, <3>4
  <2> QED
      BY <1>8, <2>1, <2>2 DEF Install
<1> QED
    BY <1>2, <1>3, <1>4, <1>5, <1>6, <1>7, <1>8 DEF CallStep

\* An open session that Close, a retiring or an installing call would still have closed is
\* lost from sight by one step only: reconnect installs its session over another's, without
\* closing that (upstream.go:176-184).  No cancelled call, failed dial or closed backend
\* leaks one.
THEOREM OnlyOverlapOrphans == Spec => OrphanedOnlyByOverlap
<1> DEFINE Orphaned ==
        \A s \in open \cap Owned :
            s \in open' \ Owned' =>
                s = session /\ \E c \in Calls : pc[c] = "install" /\ pc'[c] = "check2"
<1>1. ASSUME IInv, [Next]_vars PROVE [Orphaned]_vars
  <2> SUFFICES ASSUME NEW s \in open \cap Owned, s \in open' \ Owned'
               PROVE  s = session /\ \E c \in Calls : pc[c] = "install" /\ pc'[c] = "check2"
      OBVIOUS
  <2>1. CASE UNCHANGED <<session, pc, sess>>
      BY <2>1 DEF Owned
  <2>2. CASE StartupDial
      BY <1>1, <2>2 DEF IInv, BackendInv, NotYetServing, StartupDial
  <2>3. CASE StartupSnapshot
    <3>1. UNCHANGED callVars /\ (UNCHANGED session \/ CloseSession(session))
        BY <2>3 DEF StartupSnapshot
    <3>2. CASE UNCHANGED session
        BY <2>1, <3>1, <3>2 DEF callVars
    <3>3. CASE CloseSession(session)
        BY <1>1, <2>3, <3>3 DEF IInv, BackendInv, NotYetServing, StartupSnapshot, CloseSession
    <3> QED
        BY <3>1, <3>2, <3>3
  <2>4. CASE \E c \in Calls : StartCall(c)
    <3>1. PICK c \in Calls : StartCall(c)
        BY <2>4
    <3>2. UNCHANGED session /\ \A d \in Calls : Keeps(d)
        BY <1>1, <3>1 DEF IInv, CallInv, CallTypeOK, StartCall, Goto, Keeps, backendVars
    <3> QED
        BY <3>2, KeptInSight DEF Owned
  <2>5. CASE \E c \in Calls : CallStep(c)
      BY <1>1, <2>5, CallStepOrphans
  <2>6. CASE Close
    <3>1. s # session /\ UNCHANGED <<pc, sess>>
        BY <2>6 DEF Close, CloseSession, callVars
    <3> QED
        BY <3>1 DEF Owned
  <2>7. CASE \/ RequestClose \/ Exited \/ Upstream \/ UNCHANGED vars
             \/ \E c \in Calls : Cancel(c) \/ Expire(c)
    <3>1. UNCHANGED <<session, pc, sess>>
        BY <2>7 DEF RequestClose, Exited, Upstream, Forget, Degrade, Heal, ChangeSurface, Cancel, Expire,
                    vars, backendVars, callVars
    <3> QED
        BY <2>1, <3>1
  <2> QED
      BY <1>1, <2>2, <2>3, <2>4, <2>5, <2>6, <2>7 DEF Next
<1> QED
    BY <1>1, Invariance, PTL DEF Spec, OrphanedOnlyByOverlap
=============================================================================
