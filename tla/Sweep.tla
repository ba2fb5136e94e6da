------------------------------- MODULE Sweep --------------------------------
(***************************************************************************)
(* The registry sweep of internal/mcpserver/registry.go: one goroutine per *)
(* listed server waits for one of a few slots, starts a pull (pull.go) of  *)
(* its own goroutine, and takes what the pull delivers or, at the          *)
(* deadline, leaves it behind.  The pull goes on using the upstream, and   *)
(* the status codes it is answered are read while it may still be running. *)
(*                                                                         *)
(* The client library between a pull and its upstream is external: a       *)
(* request is answered, refused, breaks, or hangs past every deadline.     *)
(***************************************************************************)
EXTENDS Naturals, FiniteSets, Sequences

CONSTANTS
    Servers,   \* the entries the registry listed
    Workers,   \* SweepOptions.Concurrency
    Tools,     \* tools an upstream may list
    Codes      \* error statuses an upstream may answer

ASSUME WorkersAssumption == Workers \in Nat \ {0}
ASSUME ServersAssumption == IsFiniteSet(Servers)
ASSUME CodesAssumption == Codes \subseteq Nat \ {0}

VARIABLES
    worker,      \* where each server's goroutine stands in Sweep
    pull,        \* where each server's pull stands in probeUpstream
    heard,       \* the answers to tools/list each pull was given
    failure,     \* what a pull failed with: "none", "words" or "deadline"
    status,      \* statusCapture.code, 0 while no error status was answered
    expired,     \* whether each server's deadline has passed
    interrupted, \* whether the command was told to stop
    err,         \* the error each goroutine is judging
    out          \* what the sweep recorded

pullVars   == <<pull, heard, failure, status>>
workerVars == <<worker, err, out>>
vars == <<pullVars, workerVars, expired, interrupted>>

Surfaces == SUBSET Tools
Answers  == {h \in Seq(Surfaces) : Len(h) <= 2}
Running  == {"connect", "list1", "list2", "close"}
Failures == {"none", "words", "deadline"}
States   == {"none", "ok", "timeout", "words", "HTTP"}

Holding == {s \in Servers : worker[s] \in {"probing", "judge", "judgeAgain", "report"}}
Nothing == [state |-> "none", code |-> 0, tools |-> {}]

Last(answers) == answers[Len(answers)]

Init ==
    /\ worker = [s \in Servers |-> "queued"]
    /\ pull = [s \in Servers |-> "none"]
    /\ heard = [s \in Servers |-> <<>>]
    /\ failure = [s \in Servers |-> "none"]
    /\ status = [s \in Servers |-> 0]
    /\ expired = [s \in Servers |-> FALSE]
    /\ interrupted = FALSE
    /\ err = [s \in Servers |-> "none"]
    /\ out = [s \in Servers |-> Nothing]

-----------------------------------------------------------------------------
\* The pull of server s: probeUpstream, over the client library.

PullTo(s, stage) == pull' = [pull EXCEPT ![s] = stage]

Connected(s) ==
    /\ pull[s] = "connect"
    /\ PullTo(s, "list1")
    /\ UNCHANGED <<heard, failure, status, workerVars, expired, interrupted>>

\* Mutant: one listing is taken at its word.
ListedOnce(s) ==
    /\ pull[s] = "list1"
    /\ \E surface \in Surfaces : heard' = [heard EXCEPT ![s] = Append(@, surface)]
    /\ PullTo(s, "close")
    /\ UNCHANGED <<failure, status, workerVars, expired, interrupted>>

\* tools/list is answered; one empty answer is asked for again.
Listed(s) ==
    /\ pull[s] \in {"list1", "list2"}
    /\ \E surface \in Surfaces :
           /\ heard' = [heard EXCEPT ![s] = Append(@, surface)]
           /\ PullTo(s, IF surface = {} /\ pull[s] = "list1" THEN "list2" ELSE "close")
    /\ UNCHANGED <<failure, status, workerVars, expired, interrupted>>

\* A pull that fails has a session to close once it has connected.
PullFails(s, how) ==
    /\ failure' = [failure EXCEPT ![s] = how]
    /\ PullTo(s, IF pull[s] = "connect" THEN "deliver" ELSE "close")

\* The upstream answers an error status.
Refused(s) ==
    /\ pull[s] \in {"connect", "list1", "list2"}
    /\ PullFails(s, "words")
    /\ \E code \in Codes : status' = [status EXCEPT ![s] = code]
    /\ UNCHANGED <<heard, workerVars, expired, interrupted>>

\* The request fails in the transport, or under a context that is done.
Broken(s) ==
    /\ pull[s] \in {"connect", "list1", "list2"}
    /\ \/ PullFails(s, "words")
       \/ expired[s] /\ PullFails(s, "deadline")
    /\ UNCHANGED <<heard, status, workerVars, expired, interrupted>>

\* A request beside the pull's own, the standing stream or the end of the session,
\* is answered an error status: remembered, and no failure of the pull.
SideRefused(s) ==
    /\ pull[s] \in Running \ {"connect"}
    /\ \E code \in Codes : status' = [status EXCEPT ![s] = code]
    /\ UNCHANGED <<pull, heard, failure, workerVars, expired, interrupted>>

CloseSession(s) ==
    /\ pull[s] = "close"
    /\ PullTo(s, "deliver")
    /\ UNCHANGED <<heard, failure, status, workerVars, expired, interrupted>>

\* The result goes into a channel with room for it: its receiver may have left.
Deliver(s) ==
    /\ pull[s] = "deliver"
    /\ PullTo(s, "done")
    /\ UNCHANGED <<heard, failure, status, workerVars, expired, interrupted>>

PullStep(s) ==
    \/ Connected(s) \/ Listed(s) \/ Refused(s) \/ Broken(s)
    \/ SideRefused(s) \/ CloseSession(s) \/ Deliver(s)

-----------------------------------------------------------------------------
\* The goroutine of server s: Sweep and sweepOne.

WorkerTo(s, stage) == worker' = [worker EXCEPT ![s] = stage]

\* A slot is taken; the deadline runs from here, and the pull is started.
Acquire(s) ==
    /\ worker[s] = "queued"
    /\ Cardinality(Holding) < Workers
    /\ WorkerTo(s, "probing")
    /\ PullTo(s, "connect")
    /\ UNCHANGED <<heard, failure, status, err, out, expired, interrupted>>

\* The pull delivered in time: its tools are the record, or its error is judged.
Receive(s) ==
    /\ worker[s] = "probing" /\ pull[s] = "done"
    /\ IF failure[s] = "none"
       THEN /\ out' = [out EXCEPT ![s] = [state |-> "ok", code |-> 0, tools |-> Last(heard[s])]]
            /\ WorkerTo(s, "report")
            /\ UNCHANGED err
       ELSE /\ err' = [err EXCEPT ![s] = failure[s]]
            /\ WorkerTo(s, "judge")
            /\ UNCHANGED out
    /\ UNCHANGED <<pullVars, expired, interrupted>>

\* Mutant: the deadline does not end the wait.
GiveUpNever(s) ==
    /\ worker[s] = "probing" /\ interrupted
    /\ err' = [err EXCEPT ![s] = "deadline"]
    /\ WorkerTo(s, "judge")
    /\ UNCHANGED <<pullVars, out, expired, interrupted>>

\* The context is done first, whatever ended it: the pull is left behind and the
\* error is that of a deadline.
GiveUp(s) ==
    /\ worker[s] = "probing"
    /\ expired[s] \/ interrupted
    /\ err' = [err EXCEPT ![s] = "deadline"]
    /\ WorkerTo(s, "judge")
    /\ UNCHANGED <<pullVars, out, expired, interrupted>>

Record(s, state, code) ==
    out' = [out EXCEPT ![s] = [state |-> state, code |-> code, tools |-> {}]]

\* Mutant: the status was asked of another client than the pull's.
JudgeWords(s) ==
    /\ worker[s] = "judge"
    /\ Record(s, "words", 0)
    /\ WorkerTo(s, "judgeAgain")
    /\ UNCHANGED <<pullVars, err, expired, interrupted>>

\* refusalState: the status if there was one, the transport's words otherwise.
Judge(s) ==
    /\ worker[s] = "judge"
    /\ IF status[s] > 0 THEN Record(s, "HTTP", status[s]) ELSE Record(s, "words", 0)
    /\ WorkerTo(s, "judgeAgain")
    /\ UNCHANGED <<pullVars, err, expired, interrupted>>

\* The status is read again, and a deadline without one gets its name.
JudgeAgain(s) ==
    /\ worker[s] = "judgeAgain"
    /\ IF status[s] = 0 /\ (err[s] = "deadline" \/ expired[s])
       THEN Record(s, "timeout", 0)
       ELSE UNCHANGED out
    /\ WorkerTo(s, "report")
    /\ UNCHANGED <<pullVars, err, expired, interrupted>>

\* A line of progress is written and the slot is free again.
Report(s) ==
    /\ worker[s] = "report"
    /\ WorkerTo(s, "done")
    /\ UNCHANGED <<pullVars, err, out, expired, interrupted>>

WorkerStep(s) ==
    \/ Acquire(s) \/ Receive(s) \/ GiveUp(s) \/ Judge(s) \/ JudgeAgain(s) \/ Report(s)

-----------------------------------------------------------------------------
\* The deadline of one server passes; a context that is already cancelled keeps
\* that for its error.
Expire(s) ==
    /\ s \in Holding /\ ~expired[s] /\ ~interrupted
    /\ expired' = [expired EXCEPT ![s] = TRUE]
    /\ UNCHANGED <<pullVars, workerVars, interrupted>>

\* The command is told to stop, and its context is cancelled.
Interrupt ==
    /\ ~interrupted
    /\ interrupted' = TRUE
    /\ UNCHANGED <<pullVars, workerVars, expired>>

\* Sweep returns when every goroutine has recorded its server.
Swept == \A s \in Servers : worker[s] = "done"

Next ==
    \/ \E s \in Servers : PullStep(s) \/ WorkerStep(s) \/ Expire(s)
    \/ Interrupt

Spec == Init /\ [][Next]_vars

\* The sweep's own goroutines run and deadlines fire; the client library, the pulls in
\* it and the upstreams owe nothing.
FairSpec ==
    /\ Spec
    /\ \A s \in Servers : WF_vars(WorkerStep(s)) /\ WF_vars(Expire(s))

-----------------------------------------------------------------------------
\* Every variable keeps its type, and no upstream is asked for its tools more than
\* twice.
TypeOK ==
    /\ worker \in [Servers -> {"queued", "probing", "judge", "judgeAgain", "report", "done"}]
    /\ pull \in [Servers -> Running \cup {"none", "deliver", "done"}]
    /\ heard \in [Servers -> Answers]
    /\ failure \in [Servers -> Failures]
    /\ status \in [Servers -> Codes \cup {0}]
    /\ expired \in [Servers -> BOOLEAN]
    /\ interrupted \in BOOLEAN
    /\ err \in [Servers -> Failures]
    /\ out \in [Servers -> [state : States, code : Codes \cup {0}, tools : Surfaces]]

\* A server recorded as answering is recorded with the last listing it gave, and
\* as serving nothing only if it said so twice ("a single reading produces false
\* negatives", pull.go:195-198).
OkIsWhatWasHeard ==
    \A s \in Servers :
        out[s].state = "ok" =>
            /\ heard[s] # <<>>
            /\ out[s].tools = Last(heard[s])
            /\ out[s].tools = {} => Len(heard[s]) = 2

\* A pull that was left behind does not touch the record of its server any more,
\* whatever it is answered later (registry.go:315-335).
SettledIsFinal ==
    [][\A s \in Servers : worker[s] \in {"report", "done"} => out'[s] = out[s]]_vars

\* The row of a server: fixed when its answer was taken, when the first reading of the
\* status found one, or with the second reading.
Settled ==
    [s \in Servers |->
        IF \/ worker[s] \in {"report", "done"}
           \/ worker[s] = "judgeAgain" /\ out[s].state = "HTTP"
        THEN out[s] ELSE Nothing]

Promise == INSTANCE Survey WITH said <- heard, code <- status, late <- expired, row <- Settled

\* The two rows that the promise does not have. An interrupt ends the contexts, and a pull
\* that is left behind for it gets the error of a deadline that has not passed.
StoppedEarly(s) == interrupted /\ err[s] = "deadline" /\ Promise!Write(s, "timeout", 0, {})

\* A pull that was left behind is answered a status between the two readings, so the
\* deadline keeps the transport's words.
Overtaken(s) == status[s] # 0 /\ err[s] = "deadline" /\ Promise!Write(s, "words", 0, {})

\* Whatever its goroutines and the pulls they leave behind do to each other, the sweep
\* keeps the promise of Survey: a row is written once, and says what was heard, which
\* status was answered, that the time was up, or that none of these is the reason
\* (docs/directory.md:41-43). The two rows above are all that it writes against the document.
KeepsPromise ==
    /\ Promise!Init
    /\ [][Promise!Next \/ \E s \in Servers : StoppedEarly(s) \/ Overtaken(s)]_(Promise!surveyed)

\* An upstream that never answers does not pin a slot: every server is settled,
\* also behind it (registry.go:160-163, #123).
EveryServerSettles == \A s \in Servers : <>(worker[s] = "done")
=============================================================================
