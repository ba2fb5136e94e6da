--------------------------- MODULE ResponseCache ---------------------------
(***************************************************************************)
(* The response cache of a specification-driven tool: responseCache and    *)
(* withResponseCache of internal/mcpserver/cache.go.  Calls of one tool    *)
(* run concurrently over one map; a call reads the clock once, before it   *)
(* looks its key up, and uses that reading again to store what the rest of *)
(* the handler chain answered, however long that took.                     *)
(*                                                                         *)
(* An answer is the call it answers, the tick at which the upstream gave   *)
(* it, and whether it succeeded.                                           *)
(***************************************************************************)
EXTENDS Integers, FiniteSets

CONSTANTS
    Calls,      \* concurrent calls of the tool
    Requests,   \* argument objects as callers spell them
    Keys,       \* canonical argument objects
    KeyOf,      \* cacheKey: the key of each request, NoKey if undecodable
    NoKey,
    TTL,        \* the tool's declared `ttl`
    MaxEntries, \* maxCacheEntries
    MaxClock    \* bound: the last tick

ASSUME KeysAssumption == IsFiniteSet(Keys) /\ NoKey \notin Keys
ASSUME RequestsAssumption == Requests # {}
ASSUME KeyOfAssumption == KeyOf \in [Requests -> Keys \cup {NoKey}]
ASSUME TTLAssumption == TTL \in Nat \ {0}
ASSUME MaxEntriesAssumption == MaxEntries \in Nat \ {0}
ASSUME MaxClockAssumption == MaxClock \in Nat

VARIABLES
    clock,    \* the process's clock
    entries,  \* responseCache.entries: a map from some of the keys
    pc,       \* where each call stands in withResponseCache
    request,  \* the arguments of each call
    now,      \* each call's one reading of the clock
    result    \* what each call was answered

callVars == <<pc, request, now, result>>
vars == <<clock, entries, callVars>>

Times   == 0 .. MaxClock
Answers == [key : Keys \cup {NoKey}, at : Times, ok : BOOLEAN]
Entries == [answer : Answers, expires : Nat]
Stages  == {"idle", "keyed", "read", "next", "put", "hit"}

NoAnswer == [key |-> NoKey, at |-> 0, ok |-> FALSE]
Unset    == CHOOSE r \in Requests : TRUE
Key(c) == KeyOf[request[c]]

Held == DOMAIN entries
Keep(ks) == [k \in ks |-> entries[k]]

Goto(c, stage) == pc' = [pc EXCEPT ![c] = stage]

\* The handler returns; its goroutine may serve another call.
Leave(c) ==
    /\ Goto(c, "idle")
    /\ request' = [request EXCEPT ![c] = Unset]
    /\ now' = [now EXCEPT ![c] = 0]
    /\ result' = [result EXCEPT ![c] = NoAnswer]

Init ==
    /\ clock = 0
    /\ entries = [k \in {} |-> [answer |-> NoAnswer, expires |-> 0]]
    /\ pc = [c \in Calls |-> "idle"]
    /\ request = [c \in Calls |-> Unset]
    /\ now = [c \in Calls |-> 0]
    /\ result = [c \in Calls |-> NoAnswer]

\* A call arrives.  Arguments without a key go straight to the rest of the chain.
ArriveWith(c, r) ==
    /\ pc[c] = "idle"
    /\ request' = [request EXCEPT ![c] = r]
    /\ Goto(c, IF KeyOf[r] = NoKey THEN "next" ELSE "keyed")
    /\ UNCHANGED <<clock, entries, now, result>>

Arrive(c) == \E r \in Requests : ArriveWith(c, r)

\* The one reading of the clock.
ReadClock(c) ==
    /\ pc[c] = "keyed"
    /\ now' = [now EXCEPT ![c] = clock]
    /\ Goto(c, "read")
    /\ UNCHANGED <<clock, entries, request, result>>

\* get: an entry is good strictly before it expires, and dropped from then on.
FreshAt(t, k) == k \in Held /\ t < entries[k].expires

Hit(c) ==
    /\ pc[c] = "read"
    /\ FreshAt(now[c], Key(c))
    /\ result' = [result EXCEPT ![c] = entries[Key(c)].answer]
    /\ Goto(c, "hit")
    /\ UNCHANGED <<clock, entries, request, now>>

Miss(c) ==
    /\ pc[c] = "read"
    /\ ~FreshAt(now[c], Key(c))
    /\ entries' = Keep(Held \ {Key(c)})
    /\ Goto(c, "next")
    /\ UNCHANGED <<clock, request, now, result>>

\* The rest of the chain answers, at some later time.  A success under a key goes
\* on to be stored; a failure, or an answer without a key, is returned as it is.
Storable(answer) == answer.ok /\ answer.key # NoKey

Answer(c, ok) ==
    /\ pc[c] = "next"
    /\ LET answer == [key |-> Key(c), at |-> clock, ok |-> ok]
       IN  IF Storable(answer)
           THEN /\ result' = [result EXCEPT ![c] = answer]
                /\ Goto(c, "put")
                /\ UNCHANGED <<request, now>>
           ELSE Leave(c)
    /\ UNCHANGED <<clock, entries>>

NextAnswers(c) == \E ok \in BOOLEAN : Answer(c, ok)

\* put: purge what has expired by the call's reading; while there is no room for one
\* more entry drop one that expires soonest (ties fall as the map iterates); store.
Fresh(t) == {k \in Held : FreshAt(t, k)}

DropsAny(fresh) ==  \* mutant: any entries are dropped, not those that expire soonest
    {ks \in SUBSET fresh : IF Cardinality(fresh) < MaxEntries
                           THEN ks = {}
                           ELSE Cardinality(fresh \ ks) = MaxEntries - 1}

Drops(fresh) ==
    {ks \in SUBSET fresh :
        /\ \A k \in ks, kept \in fresh \ ks : entries[k].expires <= entries[kept].expires
        /\ IF Cardinality(fresh) < MaxEntries
           THEN ks = {}
           ELSE Cardinality(fresh \ ks) = MaxEntries - 1}

\* Mutant: the window starts when the answer is stored.
PutReadsClock(c) ==
    /\ pc[c] = "put"
    /\ \E ks \in Drops(Fresh(clock)) :
           LET kept == Fresh(clock) \ ks
           IN  entries' = [k \in kept \cup {Key(c)} |->
                              IF k = Key(c)
                              THEN [answer |-> result[c], expires |-> clock + TTL]
                              ELSE entries[k]]
    /\ Leave(c)
    /\ UNCHANGED clock

Put(c) ==
    /\ pc[c] = "put"
    /\ \E ks \in Drops(Fresh(now[c])) :
           LET kept == Fresh(now[c]) \ ks
           IN  entries' = [k \in kept \cup {Key(c)} |->
                              IF k = Key(c)
                              THEN [answer |-> result[c], expires |-> now[c] + TTL]
                              ELSE entries[k]]
    /\ Leave(c)
    /\ UNCHANGED clock

\* A hit is returned.
Deliver(c) ==
    /\ pc[c] = "hit"
    /\ Leave(c)
    /\ UNCHANGED <<clock, entries>>

Tick ==
    /\ clock < MaxClock
    /\ clock' = clock + 1
    /\ UNCHANGED <<entries, callVars>>

Next ==
    \/ \E c \in Calls :
           \/ Arrive(c) \/ ReadClock(c) \/ Hit(c) \/ Miss(c) \/ Deliver(c)
           \/ NextAnswers(c) \/ Put(c)
    \/ Tick

Spec == Init /\ [][Next]_vars

-----------------------------------------------------------------------------
TypeOK ==
    /\ clock \in Times
    /\ Held \subseteq Keys
    /\ entries \in [Held -> Entries]
    /\ pc \in [Calls -> Stages]
    /\ request \in [Calls -> Requests]
    /\ now \in [Calls -> Times]
    /\ result \in [Calls -> Answers]

\* A call served from memory gets a success, the answer to its own arguments
\* however they were spelled (cache.go:189-193, 221-222).
HitAnswersTheCall ==
    \A c \in Calls : pc[c] = "hit" => result[c].ok /\ result[c].key = Key(c)

\* What is served from memory was answered less than TTL before the call began, no
\* matter how long the call that stored it took or which older call overwrote it
\* (`ttl` "bounds how stale an author may declare an answer may be", cache.go:14-16).
HitIsFresh ==
    \A c \in Calls : pc[c] = "hit" => now[c] < result[c].at + TTL

\* The map stays within maxCacheEntries (cache.go:19-22).
EntriesBounded == Cardinality(Held) <= MaxEntries

\* An entry that is still good is lost only to a full map, and never in favour of
\* one that expires sooner: not to a lookup, and not to the purge of a call whose
\* reading of the clock is old (cache.go:174-176).
LostOnlyToPressure ==
    [][\A k \in Held :
           clock < entries[k].expires /\ k \notin Held'
           => /\ Cardinality(Held) = MaxEntries
              /\ \A kept \in Held \cap Held' :
                     entries'[kept] = entries[kept]
                     => entries[k].expires <= entries[kept].expires]_vars
=============================================================================
