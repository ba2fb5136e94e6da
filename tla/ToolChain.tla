----------------------------- MODULE ToolChain -----------------------------
(***************************************************************************)
(* One call's way through the handlers that New and NewProxyWithOptions    *)
(* of internal/mcpserver/server.go wrap around a tool, outermost first:    *)
(*                                                                         *)
(*     pins of arguments | refusal of empty arguments | response cache |   *)
(*     confirmation | rate limit | refusal of empty answers | toolHandler  *)
(*                                                                         *)
(* Calls of the tool run concurrently and share the cache, the bucket and  *)
(* the source that the pinned value is read from.  The cache is            *)
(* ResponseCache itself: its "next" is the rest of the chain, whose own    *)
(* stations are in `at`.  Every attempt of a confirmed call is a call of   *)
(* its own that carries the human's answer: the chain keeps nothing        *)
(* between the question and the retry.                                     *)
(***************************************************************************)
EXTENDS ResponseCache, Sequences

CONSTANTS
    Controls,    \* the sets of wrappers that a guardfile may ask for
    Blank,       \* requests with a present but empty `reject-empty-argument` field
    Contradicts, \* requests that set the pinned argument to another value
    Undeclared,  \* requests that do not decode, or name an undeclared argument
    Burst,       \* the bucket's size
    MaxRefills,  \* bound: tokens that come back
    MaxRotations \* bound: changes of the pinned value

SpecWrappers  == {"reject-empty-argument", "cache", "confirm", "reject-empty", "query-pin"}
ProxyWrappers == {"argument-pin", "confirm"}

ASSUME ControlsAssumption == Controls \subseteq (SUBSET SpecWrappers) \cup (SUBSET ProxyWrappers)
ASSUME CallsAssumption == IsFiniteSet(Calls)
ASSUME BucketAssumption == Burst \in Nat \ {0} /\ MaxRefills \in Nat
ASSUME RotationsAssumption == MaxRotations \in Nat

VARIABLES
    controls,  \* the wrappers of this tool
    tokens,    \* what the bucket holds
    refills,   \* how many tokens have come back
    rotations, \* when the pinned value changed: its version is the length
    at,        \* the station of each call inside the cache
    human,     \* the answer to the elicitation that a call carries
    pin,       \* the version of the pinned value each call goes by
    said,      \* what the chain had to say to each call
    sent,      \* history: requests that went out
    origin     \* history: of each key, what was said and under which pin

sharedVars == <<controls, tokens, refills, rotations, sent, origin>>
stationVars == <<at, human, pin, said>>
chainVars == <<sharedVars, stationVars>>

Stations == {"outside", "gate", "bucket", "handler", "upstream"}
Words    == {"none", "prompt", "something", "nothing"}
Installed(w) == w \in controls
Source == Len(rotations)

\* validateCaches refuses a cache over a gate.
Buildable(cs) == ~({"cache", "confirm"} \subseteq cs)

ChainInit ==
    /\ Init
    /\ controls \in {cs \in Controls : Buildable(cs)}
    /\ tokens = Burst
    /\ refills = 0
    /\ rotations = <<>>
    /\ at = [c \in Calls |-> "outside"]
    /\ human = [c \in Calls |-> "none"]
    /\ pin = [c \in Calls |-> 0]
    /\ said = [c \in Calls |-> "none"]
    /\ sent = 0
    /\ origin = [k \in Keys |-> [said |-> "none", pin |-> 0]]

-----------------------------------------------------------------------------
\* What the wrappers outside the cache return before anything shared is touched.
Refused(r) ==
    \/ Installed("argument-pin") /\ r \in Contradicts
    \/ Installed("reject-empty-argument") /\ r \in Blank

\* A call arrives and is not refused at the door.  withArgPins has read its pin.  A
\* tool without a cache has no keys.
Enter(c) ==
    /\ \E r \in Requests :
           /\ ~Refused(r)
           /\ Installed("cache") \/ KeyOf[r] = NoKey
           /\ ArriveWith(c, r)
           /\ at' = [at EXCEPT ![c] = IF KeyOf[r] = NoKey THEN "gate" ELSE "outside"]
    /\ \E h \in IF Installed("confirm") THEN {"none", "decline", "accept"} ELSE {"none"} :
           human' = [human EXCEPT ![c] = h]
    /\ pin' = [pin EXCEPT ![c] = IF Installed("argument-pin") THEN Source ELSE 0]
    /\ UNCHANGED <<said, sharedVars>>

\* The handler has returned, and what the call knew is gone with it.
Depart(c) ==
    /\ at' = [at EXCEPT ![c] = "outside"]
    /\ human' = [human EXCEPT ![c] = "none"]
    /\ pin' = [pin EXCEPT ![c] = 0]
    /\ said' = [said EXCEPT ![c] = "none"]

\* The cache looks the call up.
Began(c) ==
    /\ ReadClock(c)
    /\ UNCHANGED <<stationVars, sharedVars>>

Recalled(c) ==
    /\ Hit(c)
    /\ pin' = [pin EXCEPT ![c] = origin[Key(c)].pin]
    /\ UNCHANGED <<at, human, said, sharedVars>>

Missed(c) ==
    /\ Miss(c)
    /\ at' = [at EXCEPT ![c] = "gate"]
    /\ UNCHANGED <<human, pin, said, sharedVars>>

\* It answers from memory, or stores what the chain said.
Serve(c) ==
    /\ Deliver(c)
    /\ Depart(c)
    /\ UNCHANGED sharedVars

Store(c) ==
    /\ Put(c)
    /\ origin' = [origin EXCEPT ![Key(c)] = [said |-> said[c], pin |-> pin[c]]]
    /\ Depart(c)
    /\ UNCHANGED <<controls, tokens, refills, rotations, sent>>

-----------------------------------------------------------------------------
\* The rest of the chain returns an error, or a result that is none: the latter goes
\* on to be stored if the call has a key.
Error(c) == Answer(c, FALSE) /\ Depart(c)

Result(c, words) ==
    /\ Answer(c, TRUE)
    /\ IF Key(c) = NoKey
       THEN Depart(c)
       ELSE /\ at' = [at EXCEPT ![c] = "outside"]
            /\ said' = [said EXCEPT ![c] = words]
            /\ UNCHANGED <<human, pin>>

Advance(c, station) ==
    /\ at' = [at EXCEPT ![c] = station]
    /\ UNCHANGED <<vars, human, said>>

\* Mutant: only an explicit refusal stops the call.
GateDeclines(c) ==
    /\ at[c] = "gate"
    /\ \/ Installed("confirm") /\ human[c] = "decline" /\ Error(c)
       \/ human[c] # "decline" /\ Advance(c, "bucket") /\ UNCHANGED pin
    /\ UNCHANGED sharedVars

\* withConfirmation: without an answer the call returns the question, which is no
\* error; anything but an accept is one.
Gate(c) ==
    /\ at[c] = "gate"
    /\ \/ Installed("confirm") /\ human[c] = "none" /\ Result(c, "prompt")
       \/ Installed("confirm") /\ human[c] = "decline" /\ Error(c)
       \/ /\ ~Installed("confirm") \/ human[c] = "accept"
          /\ Advance(c, "bucket") /\ UNCHANGED pin
    /\ UNCHANGED sharedVars

\* Mutant: the call looks whether a token is there and does not take it.
TakeTokenPeeks(c) ==
    /\ at[c] = "bucket"
    /\ tokens > 0
    /\ Advance(c, "handler")
    /\ UNCHANGED <<pin, sharedVars>>

\* withRateLimit: the call waits for a token.
TakeToken(c) ==
    /\ at[c] = "bucket"
    /\ tokens > 0
    /\ tokens' = tokens - 1
    /\ Advance(c, "handler")
    /\ UNCHANGED <<pin, controls, refills, rotations, sent, origin>>

\* Wait gives up: its context ends, or no token can come before it does.
WaitFails(c) ==
    /\ at[c] = "bucket"
    /\ Error(c)
    /\ UNCHANGED sharedVars

\* toolHandler refuses what does not decode or is not declared, and gives up when a
\* pin does not resolve.
HandlerRefuses(c) ==
    /\ at[c] = "handler"
    /\ request[c] \in Undeclared \/ Installed("query-pin")
    /\ Error(c)
    /\ UNCHANGED sharedVars

\* Otherwise the query pins are read and the request goes out.
Send(c) ==
    /\ at[c] = "handler"
    /\ request[c] \notin Undeclared
    /\ pin' = [pin EXCEPT ![c] = IF Installed("query-pin") THEN Source ELSE @]
    /\ sent' = sent + 1
    /\ Advance(c, "upstream")
    /\ UNCHANGED <<controls, tokens, refills, rotations, origin>>

\* Mutant: withRejectEmpty outside the cache.
UpstreamAnswersUnread(c) ==
    /\ at[c] = "upstream"
    /\ \E words \in {"something", "nothing"} : Result(c, words)
    /\ UNCHANGED sharedVars

\* The upstream answers, something or nothing: withRejectEmpty makes an error of the
\* latter before it can be stored.
UpstreamAnswers(c) ==
    /\ at[c] = "upstream"
    /\ \/ Result(c, "something")
       \/ IF Installed("reject-empty") THEN Error(c) ELSE Result(c, "nothing")
    /\ UNCHANGED sharedVars

\* Execute fails: the upstream refuses, or the context ends while it hangs.
UpstreamFails(c) ==
    /\ at[c] = "upstream"
    /\ Error(c)
    /\ UNCHANGED sharedVars

CallStep(c) ==
    \/ Enter(c) \/ Began(c) \/ Recalled(c) \/ Missed(c) \/ Serve(c) \/ Store(c)
    \/ Gate(c) \/ TakeToken(c) \/ WaitFails(c)
    \/ HandlerRefuses(c) \/ Send(c) \/ UpstreamAnswers(c) \/ UpstreamFails(c)

-----------------------------------------------------------------------------
\* Around the calls: a token comes back, the pinned value changes, time passes.
Refill ==
    /\ tokens < Burst /\ refills < MaxRefills
    /\ tokens' = tokens + 1
    /\ refills' = refills + 1
    /\ UNCHANGED <<vars, stationVars, controls, rotations, sent, origin>>

Rotate ==
    /\ controls \cap {"argument-pin", "query-pin"} # {}
    /\ Source < MaxRotations
    /\ rotations' = Append(rotations, clock)
    /\ UNCHANGED <<vars, stationVars, controls, tokens, refills, sent, origin>>

Pass == Tick /\ UNCHANGED chainVars

ChainNext == (\E c \in Calls : CallStep(c)) \/ Refill \/ Rotate \/ Pass

ChainSpec == ChainInit /\ [][ChainNext]_<<vars, chainVars>>

-----------------------------------------------------------------------------
ChainTypeOK ==
    /\ TypeOK
    /\ controls \in Controls
    /\ tokens \in 0 .. Burst
    /\ refills \in 0 .. MaxRefills
    /\ rotations \in Seq(Times) /\ Source <= MaxRotations
    /\ at \in [Calls -> Stations]
    /\ human \in [Calls -> {"none", "decline", "accept"}]
    /\ pin \in [Calls -> 0 .. MaxRotations]
    /\ said \in [Calls -> Words]
    /\ sent \in Nat
    /\ origin \in [Keys -> [said : Words, pin : 0 .. MaxRotations]]

\* What is kept for later callers is what the upstream said to a request that went
\* out, and on a tool that is declared `reject-empty` something: never the question a
\* gate asks, never an absence ("before anything downstream can cache it",
\* server.go:266-267; validateCaches, cache.go:108-118).
Sayable == IF Installed("reject-empty") THEN {"something"} ELSE {"something", "nothing"}
HeldWasSaid == \A k \in Held : origin[k].said \in Sayable

\* A cached answer may have been fetched under a pinned value that has changed since,
\* but only for TTL: cacheKey leaves the pins out because "the TTL bounds a `file` pin
\* that changes underneath" (cache.go:207-208).
ServedUnderRecentPin ==
    \A c \in Calls :
        Installed("query-pin") /\ pc[c] = "hit" /\ pin[c] < Source
        => now[c] < rotations[pin[c] + 1] + TTL

\* Every request that went out spent a token of its own, and no call but one that is
\* at the handler holds one: nothing that is answered from memory, asked, declined or
\* refused at the door goes out on a token (server.go:271-281).
Paid == {c \in Calls : at[c] = "handler"}
SentWithinBudget == sent + Cardinality(Paid) <= Burst + refills - tokens

\* On a gated tool a token is taken, or a request sent, only for a call that carries
\* the human's accept, however the attempts overlap ("a declined call must not have
\* spent one", server.go:271-273).
AcceptedBeforeSpent ==
    [][\A c \in Calls :
           at[c] # at'[c] /\ at'[c] \in {"handler", "upstream"} /\ Installed("confirm")
           => human[c] = "accept"]_<<vars, chainVars>>
=============================================================================
