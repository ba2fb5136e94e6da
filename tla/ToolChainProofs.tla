--------------------------- MODULE ToolChainProofs ---------------------------
(***************************************************************************)
(* Proofs about ResponseCache and ToolChain, for any number of calls, any  *)
(* keys, any ttl and any capacity, any sets of wrappers that New builds,   *)
(* any bucket and any number of changes of a pin.                          *)
(*                                                                         *)
(* First the cache alone.  An entry carries the reading of the clock its   *)
(* call started with, and the answer was given after that: so what the     *)
(* entry promises is bounded by the answer's own age, whoever stored it    *)
(* and however late.                                                       *)
(*                                                                         *)
(* Then the chain, which implements the cache: what was proved of the      *)
(* cache alone holds of the cache with everything around it.  What the     *)
(* chain adds is that a call with a key comes from a tool with a cache, so *)
(* from one without a gate; that each token is spent at most once; and     *)
(* that a pinned value a call goes by was read after its clock.            *)
(***************************************************************************)
EXTENDS ToolChain, FiniteSetTheorems, TLAPS

\* A stored answer is a success, the answer to the key it is under, and expires at
\* most TTL after it was given.
EntryOK(k, e) ==
    /\ e.answer.ok /\ e.answer.key = k
    /\ e.expires <= e.answer.at + TTL
EntriesOK == \A k \in Held : EntryOK(k, entries[k])

\* No reading of the clock is ahead of it; a call that looks up has a key; a call
\* about to store holds a success, its own, given after its reading.
CallOK(c) ==
    /\ now[c] <= clock
    /\ pc[c] \in {"keyed", "read", "put"} => Key(c) # NoKey
    /\ pc[c] = "put" => /\ Storable(result[c]) /\ result[c].key = Key(c)
                        /\ now[c] <= result[c].at
CallsOK == \A c \in Calls : CallOK(c)

CacheInv ==
    TypeOK /\ EntriesOK /\ CallsOK /\ HitAnswersTheCall /\ HitIsFresh /\ EntriesBounded

LEMMA UnsetRequest == Unset \in Requests
BY RequestsAssumption DEF Unset

LEMMA NoAnswerType == NoAnswer \in Answers /\ 0 \in Times
BY MaxClockAssumption DEF NoAnswer, Answers, Times

\* The keys of calls.
LEMMA KeyTypes == TypeOK => \A c \in Calls : Key(c) \in Keys \cup {NoKey}
BY KeyOfAssumption DEF TypeOK, Key

-----------------------------------------------------------------------------
\* put.  Whatever it drops, the entries that stay are entries that were there, and
\* fewer than MaxEntries of them.
LEMMA DropsLeaveRoom ==
    ASSUME TypeOK, EntriesBounded, NEW t \in Times, NEW ks \in Drops(Fresh(t))
    PROVE  /\ Fresh(t) \ ks \subseteq Held
           /\ IsFiniteSet(Fresh(t) \ ks)
           /\ Cardinality(Fresh(t) \ ks) <= MaxEntries - 1
<1>1. Fresh(t) \subseteq Held /\ Fresh(t) \ ks \subseteq Held
    BY DEF Fresh
<1>2. IsFiniteSet(Held)
    BY KeysAssumption, FS_Subset DEF TypeOK
<1>3. IsFiniteSet(Fresh(t)) /\ IsFiniteSet(Fresh(t) \ ks)
    BY <1>1, <1>2, FS_Subset
<1>4. Cardinality(Fresh(t)) \in Nat
    BY <1>3, FS_CardinalityType
<1>5. CASE Cardinality(Fresh(t)) < MaxEntries
  <2>1. ks = {}
      BY <1>5 DEF Drops
  <2>2. Fresh(t) \ ks = Fresh(t)
      BY <2>1
  <2> QED
      BY <1>1, <1>3, <1>4, <1>5, <2>2, MaxEntriesAssumption
<1>6. CASE ~(Cardinality(Fresh(t)) < MaxEntries)
  <2>1. Cardinality(Fresh(t) \ ks) = MaxEntries - 1
      BY <1>6 DEF Drops
  <2> QED
      BY <1>1, <1>3, <2>1, MaxEntriesAssumption
<1> QED
    BY <1>5, <1>6

\* The map after put.
LEMMA PutEntries ==
    ASSUME CacheInv, NEW c \in Calls, Put(c)
    PROVE  /\ Held' \subseteq Keys
           /\ entries' \in [Held' -> Entries]
           /\ \A k \in Held' : EntryOK(k, entries'[k])
           /\ Cardinality(Held') <= MaxEntries
<1>1. /\ pc[c] = "put" /\ now[c] \in Times /\ result[c] \in Answers
      /\ Key(c) \in Keys
      /\ EntryOK(Key(c), [answer |-> result[c], expires |-> now[c] + TTL])
      /\ [answer |-> result[c], expires |-> now[c] + TTL] \in Entries
    BY KeyTypes, TTLAssumption, MaxClockAssumption
    DEF Put, CacheInv, TypeOK, CallsOK, CallOK, EntryOK, Storable, Times, Answers, Entries
<1>2. PICK ks \in Drops(Fresh(now[c])) :
          entries' = [k \in (Fresh(now[c]) \ ks) \cup {Key(c)} |->
                         IF k = Key(c)
                         THEN [answer |-> result[c], expires |-> now[c] + TTL]
                         ELSE entries[k]]
    BY DEF Put
<1> DEFINE kept == Fresh(now[c]) \ ks
<1>3. kept \subseteq Held /\ IsFiniteSet(kept) /\ Cardinality(kept) <= MaxEntries - 1
    BY <1>1, DropsLeaveRoom DEF CacheInv
<1>4. Held' = kept \cup {Key(c)}
    BY <1>2 DEF Held
<1>5. entries' = [k \in kept \cup {Key(c)} |->
                     IF k = Key(c)
                     THEN [answer |-> result[c], expires |-> now[c] + TTL]
                     ELSE entries[k]]
    BY <1>2
<1> HIDE DEF kept
<1>6. Held' \subseteq Keys
    BY <1>1, <1>3, <1>4 DEF CacheInv, TypeOK
<1>7. \A k \in kept : entries[k] \in Entries /\ EntryOK(k, entries[k])
    BY <1>3 DEF CacheInv, TypeOK, EntriesOK
<1>8. entries' \in [Held' -> Entries] /\ \A k \in Held' : EntryOK(k, entries'[k])
    BY <1>1, <1>4, <1>5, <1>7
<1>9. Cardinality(kept \cup {Key(c)}) <= MaxEntries
  <2>1. Cardinality(kept) \in Nat
      BY <1>3, FS_CardinalityType
  <2>2. \/ Cardinality(kept \cup {Key(c)}) = Cardinality(kept)
        \/ Cardinality(kept \cup {Key(c)}) = Cardinality(kept) + 1
      BY <1>3, FS_AddElement
  <2> QED
      BY <1>3, <2>1, <2>2, MaxEntriesAssumption
<1> QED
    BY <1>4, <1>6, <1>8, <1>9

\* get on a miss only takes entries away.
LEMMA MissEntries ==
    ASSUME CacheInv, NEW c \in Calls, Miss(c)
    PROVE  /\ Held' \subseteq Keys
           /\ entries' \in [Held' -> Entries]
           /\ \A k \in Held' : EntryOK(k, entries'[k])
           /\ Cardinality(Held') <= MaxEntries
<1>1. entries' = [k \in Held \ {Key(c)} |-> entries[k]]
    BY DEF Miss, Keep
<1>2. Held' = Held \ {Key(c)}
    BY <1>1 DEF Held
<1>3. IsFiniteSet(Held)
    BY KeysAssumption, FS_Subset DEF CacheInv, TypeOK
<1>4. Cardinality(Held') \in Nat /\ Cardinality(Held) \in Nat
      /\ Cardinality(Held') <= Cardinality(Held)
    BY <1>2, <1>3, FS_Subset, FS_CardinalityType
<1>5. Cardinality(Held') <= MaxEntries
    BY <1>4, MaxEntriesAssumption DEF CacheInv, EntriesBounded
<1> QED
    BY <1>1, <1>2, <1>5 DEF CacheInv, TypeOK, EntriesOK

-----------------------------------------------------------------------------
LEMMA InitInv == Init => CacheInv
<1> SUFFICES ASSUME Init PROVE CacheInv
    OBVIOUS
<1>1. Held = {}
    BY DEF Init, Held
<1>2. TypeOK
    BY <1>1, UnsetRequest, NoAnswerType, MaxClockAssumption
    DEF Init, TypeOK, Stages, Held, Times
<1>3. EntriesOK /\ CallsOK /\ HitAnswersTheCall /\ HitIsFresh
    BY <1>1 DEF Init, EntriesOK, CallsOK, CallOK, HitAnswersTheCall, HitIsFresh
<1>4. EntriesBounded
    BY <1>1, FS_EmptySet, MaxEntriesAssumption DEF EntriesBounded
<1> QED
    BY <1>2, <1>3, <1>4 DEF CacheInv

\* A step that leaves the map alone and is taken by one call: only that call's own
\* facts are to be shown again.
LocalInv(c) ==
    /\ CallOK(c)
    /\ pc[c] = "hit" => /\ result[c].ok /\ result[c].key = Key(c)
                        /\ now[c] < result[c].at + TTL

LEMMA InvByCall ==
    CacheInv <=> TypeOK /\ EntriesOK /\ EntriesBounded /\ \A c \in Calls : LocalInv(c)
BY DEF CacheInv, CallsOK, LocalInv, HitAnswersTheCall, HitIsFresh

LEMMA TypeStep == CacheInv /\ [Next]_vars => TypeOK'
<1> SUFFICES ASSUME CacheInv, [Next]_vars PROVE TypeOK'
    OBVIOUS
<1>1. TypeOK
    BY DEF CacheInv
<1>2. ASSUME NEW c \in Calls, Leave(c)
      PROVE  /\ pc' \in [Calls -> Stages] /\ request' \in [Calls -> Requests]
             /\ now' \in [Calls -> Times] /\ result' \in [Calls -> Answers]
    BY <1>1, <1>2, UnsetRequest, NoAnswerType DEF Leave, Goto, TypeOK, Stages
<1>3. ASSUME NEW c \in Calls, Arrive(c) \/ ReadClock(c) PROVE TypeOK'
    BY <1>1, <1>3 DEF Arrive, ArriveWith, ReadClock, Goto, TypeOK, Stages, Held
<1>4. ASSUME NEW c \in Calls, Hit(c) PROVE TypeOK'
  <2>1. entries[Key(c)].answer \in Answers
      BY <1>1, <1>4 DEF Hit, FreshAt, TypeOK, Entries
  <2> QED
      BY <1>1, <1>4, <2>1 DEF Hit, Goto, TypeOK, Stages, Held
<1>5. ASSUME NEW c \in Calls, Miss(c) PROVE TypeOK'
    BY <1>1, <1>5, MissEntries DEF Miss, Goto, TypeOK, Stages
<1>6. ASSUME NEW c \in Calls, NextAnswers(c) PROVE TypeOK'
  <2>1. PICK ok \in BOOLEAN :
            LET answer == [key |-> Key(c), at |-> clock, ok |-> ok]
            IN  IF Storable(answer)
                THEN /\ result' = [result EXCEPT ![c] = answer]
                     /\ Goto(c, "put")
                     /\ UNCHANGED <<request, now>>
                ELSE Leave(c)
      BY <1>6 DEF NextAnswers, Answer
  <2>2. [key |-> Key(c), at |-> clock, ok |-> ok] \in Answers
      BY <1>1, KeyTypes DEF TypeOK, Answers
  <2>3. UNCHANGED <<clock, entries>>
      BY <1>6 DEF NextAnswers, Answer
  <2>4. CASE Leave(c)
      BY <1>1, <1>2, <2>3, <2>4 DEF TypeOK, Held
  <2>5. CASE /\ result' = [result EXCEPT ![c] = [key |-> Key(c), at |-> clock, ok |-> ok]]
             /\ Goto(c, "put")
             /\ UNCHANGED <<request, now>>
      BY <1>1, <2>2, <2>3, <2>5 DEF Goto, TypeOK, Stages, Held
  <2> QED
      BY <2>1, <2>4, <2>5
<1>7. ASSUME NEW c \in Calls, Put(c) PROVE TypeOK'
  <2>1. Leave(c) /\ UNCHANGED clock
      BY <1>7 DEF Put
  <2> QED
      BY <1>1, <1>2, <1>7, <2>1, PutEntries DEF TypeOK
<1>8. ASSUME NEW c \in Calls, Deliver(c) PROVE TypeOK'
    BY <1>1, <1>2, <1>8 DEF Deliver, TypeOK, Held
<1>9. CASE Tick
    BY <1>1, <1>9, MaxClockAssumption DEF Tick, callVars, TypeOK, Times, Held
<1>10. CASE UNCHANGED vars
    BY <1>1, <1>10 DEF vars, callVars, TypeOK, Held
<1> QED
    BY <1>3, <1>4, <1>5, <1>6, <1>7, <1>8, <1>9, <1>10 DEF Next

LEMMA EntriesStep == CacheInv /\ [Next]_vars => EntriesOK' /\ EntriesBounded'
<1> SUFFICES ASSUME CacheInv, [Next]_vars PROVE EntriesOK' /\ EntriesBounded'
    OBVIOUS
<1>1. ASSUME NEW c \in Calls, Miss(c) PROVE EntriesOK' /\ EntriesBounded'
    BY <1>1, MissEntries DEF EntriesOK, EntriesBounded
<1>2. ASSUME NEW c \in Calls, Put(c) PROVE EntriesOK' /\ EntriesBounded'
    BY <1>2, PutEntries DEF EntriesOK, EntriesBounded
<1>3. CASE UNCHANGED entries
    BY <1>3 DEF CacheInv, EntriesOK, EntriesBounded, Held
<1>4. ASSUME NEW c \in Calls, Arrive(c) \/ NextAnswers(c) PROVE UNCHANGED entries
    BY <1>4 DEF Arrive, ArriveWith, NextAnswers, Answer
<1>5. ASSUME NEW c \in Calls, ReadClock(c) \/ Hit(c) \/ Deliver(c) PROVE UNCHANGED entries
    BY <1>5 DEF ReadClock, Hit, Deliver
<1>6. ASSUME Tick \/ UNCHANGED vars PROVE UNCHANGED entries
    BY <1>6 DEF Tick, vars
<1> QED
    BY <1>1, <1>2, <1>3, <1>4, <1>5, <1>6 DEF Next

\* The calls that do not move keep their facts: the clock only advances.
LEMMA OthersKeep ==
    ASSUME CacheInv, NEW d \in Calls, clock' \in Nat, clock <= clock',
           pc'[d] = pc[d], now'[d] = now[d], result'[d] = result[d], request'[d] = request[d]
    PROVE  LocalInv(d)'
<1>1. LocalInv(d)
    BY InvByCall
<1>2. now[d] \in Nat /\ clock \in Nat
    BY MaxClockAssumption DEF CacheInv, TypeOK, Times
<1>3. Key(d)' = Key(d)
    BY DEF Key
<1> QED
    BY <1>1, <1>2, <1>3 DEF LocalInv, CallOK, Storable

LEMMA LocalStep ==
    ASSUME CacheInv, [Next]_vars, NEW d \in Calls
    PROVE  LocalInv(d)'
<1>1. LocalInv(d) /\ TypeOK
    BY InvByCall DEF CacheInv
<1>2. clock \in Nat /\ now[d] \in Nat
    BY <1>1, MaxClockAssumption DEF TypeOK, Times
<1>3. ASSUME NEW c \in Calls, Leave(c), UNCHANGED clock PROVE LocalInv(d)'
  <2>1. CASE c = d
      BY <1>1, <1>2, <1>3, <2>1 DEF Leave, Goto, TypeOK, LocalInv, CallOK
  <2>2. CASE c # d
      BY <1>1, <1>2, <1>3, <2>2, OthersKeep DEF Leave, Goto, TypeOK
  <2> QED
      BY <2>1, <2>2
<1>4. ASSUME NEW c \in Calls,
             Arrive(c) \/ ReadClock(c) \/ Hit(c) \/ Miss(c) \/ NextAnswers(c), c # d
      PROVE  LocalInv(d)'
  <2> DEFINE Still == /\ UNCHANGED clock
                      /\ pc'[d] = pc[d] /\ now'[d] = now[d] /\ result'[d] = result[d]
                      /\ request'[d] = request[d]
  <2>1. ASSUME Arrive(c) PROVE Still
      BY <1>1, <1>4, <2>1 DEF Arrive, ArriveWith, Goto, TypeOK
  <2>2. ASSUME ReadClock(c) \/ Hit(c) \/ Miss(c) PROVE Still
      BY <1>1, <1>4, <2>2 DEF ReadClock, Hit, Miss, Goto, TypeOK
  <2>3. ASSUME NextAnswers(c) PROVE Still
      BY <1>1, <1>4, <2>3 DEF NextAnswers, Answer, Leave, Goto, TypeOK
  <2> QED
      BY <1>2, <1>4, <2>1, <2>2, <2>3, OthersKeep
<1>5. CASE Arrive(d)
    BY <1>1, <1>2, <1>5 DEF Arrive, ArriveWith, Goto, TypeOK, LocalInv, CallOK, Key
<1>6. CASE ReadClock(d)
    BY <1>1, <1>2, <1>6 DEF ReadClock, Goto, TypeOK, LocalInv, CallOK, Key
<1>7. CASE Hit(d)
  <2>1. /\ Key(d) \in Held /\ now[d] < entries[Key(d)].expires
        /\ EntryOK(Key(d), entries[Key(d)])
        /\ entries[Key(d)].expires \in Nat /\ entries[Key(d)].answer.at \in Nat
      BY <1>7, MaxClockAssumption
      DEF Hit, FreshAt, CacheInv, EntriesOK, TypeOK, Entries, Answers, Times
  <2>2. /\ result'[d] = entries[Key(d)].answer /\ pc'[d] = "hit" /\ Key(d)' = Key(d)
        /\ now' = now /\ clock' = clock
      BY <1>1, <1>7 DEF Hit, Goto, TypeOK, Key
  <2>3. now[d] < entries[Key(d)].answer.at + TTL
      BY <1>2, <2>1, TTLAssumption DEF EntryOK
  <2> QED
      BY <1>1, <2>1, <2>2, <2>3 DEF LocalInv, CallOK, EntryOK
<1>8. CASE Miss(d)
    BY <1>1, <1>2, <1>8 DEF Miss, Goto, TypeOK, LocalInv, CallOK, Key
<1>9. CASE NextAnswers(d)
  <2>1. PICK ok \in BOOLEAN :
            LET answer == [key |-> Key(d), at |-> clock, ok |-> ok]
            IN  IF Storable(answer)
                THEN /\ result' = [result EXCEPT ![d] = answer]
                     /\ Goto(d, "put")
                     /\ UNCHANGED <<request, now>>
                ELSE Leave(d)
      BY <1>9 DEF NextAnswers, Answer
  <2>2. UNCHANGED clock
      BY <1>9 DEF NextAnswers, Answer
  <2> DEFINE answer == [key |-> Key(d), at |-> clock, ok |-> ok]
  <2>3. CASE Storable(answer)
    <3>1. /\ result'[d] = answer /\ pc'[d] = "put" /\ now' = now /\ Key(d)' = Key(d)
        BY <1>1, <2>1, <2>3 DEF Goto, TypeOK, Key
    <3> QED
        BY <1>1, <1>2, <2>2, <2>3, <3>1 DEF LocalInv, CallOK, Storable
  <2>4. CASE ~Storable(answer)
      BY <1>3, <2>1, <2>2, <2>4
  <2> QED
      BY <2>3, <2>4
<1>10. CASE Tick
    BY <1>2, <1>10, OthersKeep DEF Tick, callVars
<1>11. CASE UNCHANGED vars
    BY <1>2, <1>11, OthersKeep DEF vars, callVars
<1>12. ASSUME NEW c \in Calls, Put(c) \/ Deliver(c) PROVE LocalInv(d)'
    BY <1>3, <1>12 DEF Put, Deliver
<1> QED
    BY <1>4, <1>5, <1>6, <1>7, <1>8, <1>9, <1>10, <1>11, <1>12 DEF Next

LEMMA CacheStep == CacheInv /\ [Next]_vars => CacheInv'
<1> SUFFICES ASSUME CacheInv, [Next]_vars PROVE CacheInv'
    OBVIOUS
<1>1. TypeOK' /\ EntriesOK' /\ EntriesBounded'
    BY TypeStep, EntriesStep
<1>2. \A d \in Calls : LocalInv(d)'
    BY LocalStep
<1> QED
    BY <1>1, <1>2
    DEF CacheInv, CallsOK, LocalInv, HitAnswersTheCall, HitIsFresh

LEMMA CacheInvariant == Spec => []CacheInv
BY InitInv, CacheStep, PTL DEF Spec

-----------------------------------------------------------------------------
\* The map stays a map from keys to entries, and every call in a known stage.
THEOREM TypeCorrect == Spec => []TypeOK
BY CacheInvariant, PTL DEF CacheInv

\* What is served from memory is a success and the answer to the caller's own
\* arguments (cacheKey and withResponseCache, cache.go:200-213, 223-243).
THEOREM HitsAnswerTheCall == Spec => []HitAnswersTheCall
BY CacheInvariant, PTL DEF CacheInv

\* What is served from memory was answered less than TTL before the call began: the
\* reading of the clock that put uses is the one taken before the upstream answered
\* (withResponseCache, cache.go:232-240).
THEOREM HitsAreFresh == Spec => []HitIsFresh
BY CacheInvariant, PTL DEF CacheInv

\* No interleaving of lookups and stores grows the map past its capacity (put,
\* cache.go:174-186).
THEOREM CapacityHeld == Spec => []EntriesBounded
BY CacheInvariant, PTL DEF CacheInv

\* put drops at most one entry: a full map gives up the one it needs.
LEMMA DropsAtMostOne ==
    ASSUME TypeOK, EntriesBounded, NEW t \in Times, NEW ks \in Drops(Fresh(t)), NEW k \in ks
    PROVE  ks = {k} /\ Cardinality(Held) = MaxEntries
<1>1. IsFiniteSet(Held) /\ Fresh(t) \subseteq Held /\ k \in Fresh(t) /\ ks \subseteq Fresh(t)
    BY KeysAssumption, FS_Subset DEF TypeOK, Fresh, Drops
<1>2. IsFiniteSet(Fresh(t)) /\ Cardinality(Fresh(t)) \in Nat /\ Cardinality(Held) \in Nat
      /\ Cardinality(Fresh(t)) <= Cardinality(Held)
    BY <1>1, FS_Subset, FS_CardinalityType
<1>3. Cardinality(Fresh(t)) >= MaxEntries /\ Cardinality(Fresh(t) \ ks) = MaxEntries - 1
    BY <1>2, MaxEntriesAssumption DEF Drops
<1>4. Cardinality(Held) = MaxEntries /\ Cardinality(Fresh(t)) = MaxEntries
    BY <1>2, <1>3, MaxEntriesAssumption DEF EntriesBounded
<1>5. ASSUME NEW other \in ks, other # k PROVE FALSE
  <2> DEFINE one == Fresh(t) \ {k}
             two == one \ {other}
  <2>1. IsFiniteSet(one) /\ Cardinality(one) = MaxEntries - 1
      BY <1>1, <1>2, <1>4, FS_RemoveElement
  <2>2. IsFiniteSet(two) /\ Cardinality(two) = MaxEntries - 2
    <3>1. other \in one
        BY <1>1, <1>5
    <3>2. IsFiniteSet(two) /\ Cardinality(two) = Cardinality(one) - 1
        BY <2>1, <3>1, FS_RemoveElement
    <3> QED
        BY <2>1, <3>2, MaxEntriesAssumption
  <2>3. Fresh(t) \ ks \subseteq two
      BY <1>5
  <2>4. Cardinality(Fresh(t) \ ks) <= MaxEntries - 2
      BY <2>2, <2>3, FS_Subset
  <2> QED
      BY <1>3, <2>4, MaxEntriesAssumption
<1> QED
    BY <1>4, <1>5

\* What a lookup drops has expired at the lookup's reading of the clock, which is not
\* ahead of it; and a store drops one fresh entry, that expires soonest, of a full map
\* (get and put, cache.go:152-187).
THEOREM LossNeedsPressure == Spec => LostOnlyToPressure
<1> DEFINE Pressed ==
        \A k \in Held :
            clock < entries[k].expires /\ k \notin Held'
            => /\ Cardinality(Held) = MaxEntries
               /\ \A kept \in Held \cap Held' :
                      entries'[kept] = entries[kept] => entries[k].expires <= entries[kept].expires
<1>1. ASSUME CacheInv, [Next]_vars PROVE [Pressed]_vars
  <2> SUFFICES ASSUME NEW k \in Held, clock < entries[k].expires, k \notin Held'
               PROVE  /\ Cardinality(Held) = MaxEntries
                      /\ \A kept \in Held \cap Held' :
                             entries'[kept] = entries[kept] => entries[k].expires <= entries[kept].expires
      OBVIOUS
  <2>1. PICK c \in Calls : Miss(c) \/ Put(c)
    <3>1. entries' # entries
        BY DEF Held
    <3> QED
        BY <1>1, <3>1
        DEF Next, vars, Arrive, ArriveWith, ReadClock, Hit, Deliver, NextAnswers, Answer, Tick
  <2>2. /\ now[c] <= clock /\ now[c] \in Times /\ clock \in Times
        /\ \A j \in Held : entries[j].expires \in Nat
    <3>1. now[c] <= clock /\ now[c] \in Times /\ clock \in Times
        BY <1>1 DEF CacheInv, TypeOK, CallsOK, CallOK
    <3>2. \A j \in Held : entries[j] \in Entries
        BY <1>1 DEF CacheInv, TypeOK
    <3> QED
        BY <3>1, <3>2 DEF Entries
  <2>3. FreshAt(now[c], k)
      BY <2>2 DEF FreshAt, Times
  <2>4. ~Miss(c)
    <3> SUFFICES ASSUME Miss(c) PROVE FALSE
        OBVIOUS
    <3>1. Held' = Held \ {Key(c)} /\ ~FreshAt(now[c], Key(c))
        BY DEF Miss, Keep, Held
    <3> QED
        BY <2>3, <3>1
  <2>5. PICK ks \in Drops(Fresh(now[c])) :
            entries' = [j \in (Fresh(now[c]) \ ks) \cup {Key(c)} |->
                           IF j = Key(c) THEN [answer |-> result[c], expires |-> now[c] + TTL] ELSE entries[j]]
      BY <2>1, <2>4 DEF Put
  <2>6. Held' = (Fresh(now[c]) \ ks) \cup {Key(c)}
      BY <2>5 DEF Held
  <2>7. k \in ks /\ k # Key(c)
      BY <2>3, <2>6 DEF Fresh
  <2>8. ks = {k} /\ Cardinality(Held) = MaxEntries
      BY <1>1, <2>2, <2>7, DropsAtMostOne DEF CacheInv
  <2>9. ASSUME NEW kept \in Held \cap Held', entries'[kept] = entries[kept]
        PROVE  entries[k].expires <= entries[kept].expires
    <3>1. kept \in Fresh(now[c])
      <4>1. CASE kept # Key(c)
          BY <2>6, <2>9, <4>1
      <4>2. CASE kept = Key(c)
        <5>1. entries[kept].expires = now[c] + TTL
            BY <2>5, <2>9, <4>2
        <5> QED
            BY <2>2, <2>9, <5>1, TTLAssumption DEF Fresh, FreshAt, Times
      <4> QED
          BY <4>1, <4>2
    <3>2. kept \notin ks
        BY <2>8, <2>9
    <3> QED
        BY <2>7, <3>1, <3>2 DEF Drops
  <2> QED
      BY <2>8, <2>9
<1> QED
    BY <1>1, CacheInvariant, PTL DEF Spec, LostOnlyToPressure

-----------------------------------------------------------------------------
vars_chain == <<vars, chainVars>>

-----------------------------------------------------------------------------
\* What an error and a result do to the call, to the cache's view of it and its own.
LEMMA ErrorLeaves ==
    ASSUME NEW c \in Calls, Error(c)
    PROVE  pc[c] = "next" /\ Leave(c) /\ Depart(c) /\ UNCHANGED <<clock, entries>>
BY DEF Error, Answer, Storable

Saved(c, words) ==
    /\ Key(c) # NoKey
    /\ result' = [result EXCEPT ![c] = [key |-> Key(c), at |-> clock, ok |-> TRUE]]
    /\ pc' = [pc EXCEPT ![c] = "put"]
    /\ at' = [at EXCEPT ![c] = "outside"]
    /\ said' = [said EXCEPT ![c] = words]
    /\ UNCHANGED <<request, now, human, pin>>

LEMMA ResultCases ==
    ASSUME NEW c \in Calls, NEW words, Result(c, words)
    PROVE  /\ pc[c] = "next" /\ UNCHANGED <<clock, entries>>
           /\ (Leave(c) /\ Depart(c)) \/ Saved(c, words)
<1> DEFINE answer == [key |-> Key(c), at |-> clock, ok |-> TRUE]
<1>1. pc[c] = "next" /\ UNCHANGED <<clock, entries>>
    BY DEF Result, Answer
<1>2. Storable(answer) <=> Key(c) # NoKey
    BY DEF Storable
<1>3. CASE Key(c) = NoKey
    BY <1>1, <1>2, <1>3 DEF Result, Answer
<1>4. CASE Key(c) # NoKey
    BY <1>1, <1>2, <1>4 DEF Result, Answer, Saved, Goto
<1> QED
    BY <1>1, <1>3, <1>4

\* Every step of the chain is a step of the cache, or none of its business.
LEMMA ChainStep == [ChainNext]_vars_chain => [Next]_vars
<1> SUFFICES ASSUME [ChainNext]_vars_chain PROVE [Next]_vars
    OBVIOUS
<1>1. ASSUME NEW c \in Calls, CallStep(c) PROVE [Next]_vars
  <2>1. CASE Enter(c)
      BY <2>1 DEF Enter, Arrive, Next
  <2>2. CASE Began(c) \/ Recalled(c) \/ Missed(c) \/ Serve(c) \/ Store(c)
      BY <2>2 DEF Began, Recalled, Missed, Serve, Store, Next
  <2>3. ASSUME NEW ok \in BOOLEAN, Answer(c, ok) PROVE [Next]_vars
      BY <2>3 DEF NextAnswers, Next
  <2>4. CASE Gate(c)
      BY <2>3, <2>4 DEF Gate, Error, Result, Advance
  <2>5. CASE TakeToken(c) \/ Send(c)
      BY <2>5 DEF TakeToken, Send, Advance
  <2>6. CASE WaitFails(c) \/ HandlerRefuses(c) \/ UpstreamFails(c)
      BY <2>3, <2>6 DEF WaitFails, HandlerRefuses, UpstreamFails, Error
  <2>7. CASE UpstreamAnswers(c)
      BY <2>3, <2>7 DEF UpstreamAnswers, Error, Result
  <2> QED
      BY <1>1, <2>1, <2>2, <2>4, <2>5, <2>6, <2>7 DEF CallStep
<1>2. CASE Refill \/ Rotate \/ Pass
    BY <1>2 DEF Refill, Rotate, Pass, Next
<1>3. CASE UNCHANGED vars_chain
    BY <1>3 DEF vars_chain
<1> QED
    BY <1>1, <1>2, <1>3 DEF ChainNext

\* withResponseCache keeps its promises whatever handlers New puts inside it
\* (server.go:261-289): the chain implements the cache's own specification.
THEOREM ChainImplementsCache == ChainSpec => Spec
<1>1. ChainInit => Init
    BY DEF ChainInit
<1> QED
    BY <1>1, ChainStep, PTL DEF ChainSpec, Spec, vars_chain

-----------------------------------------------------------------------------
\* What is true of one call between any two steps.  It is at a station only while the
\* cache waits for it; it has a key only on a tool with a cache; past the gate of a
\* gated tool it carries an accept; and the pinned value it goes by was the source's
\* at its own clock or later.
StationOK(c) == at[c] # "outside" => pc[c] = "next"
KeyedOK(c)   == pc[c] # "idle" /\ Key(c) # NoKey => Installed("cache")
AcceptOK(c)  == at[c] \in {"bucket", "handler", "upstream"} /\ Installed("confirm") => human[c] = "accept"
SaidOK(c)    == pc[c] = "put" => said[c] \in Sayable
PinOK(c) ==
    /\ pin[c] <= Source
    /\ Installed("query-pin") /\ pin[c] < Source =>
           /\ at[c] = "upstream" \/ pc[c] = "put" => now[c] <= rotations[pin[c] + 1]
           /\ pc[c] = "hit" => now[c] < rotations[pin[c] + 1] + TTL
OwnOK(c) == StationOK(c) /\ KeyedOK(c) /\ AcceptOK(c) /\ SaidOK(c) /\ PinOK(c)

\* And of what is held: it was said, and expires in time for the pin it was fetched under.
OriginOK(k) ==
    /\ origin[k].said \in Sayable
    /\ entries[k].expires <= clock + TTL
    /\ origin[k].pin <= Source
    /\ Installed("query-pin") /\ origin[k].pin < Source
       => entries[k].expires <= rotations[origin[k].pin + 1] + TTL

ChainInv ==
    /\ ChainTypeOK /\ CacheInv /\ Buildable(controls)
    /\ \A c \in Calls : OwnOK(c)
    /\ \A k \in Held : OriginOK(k)

\* The types of what one call reads.
LEMMA Types ==
    ASSUME ChainInv, NEW c \in Calls
    PROVE  /\ clock \in Nat /\ now[c] \in Nat /\ now[c] <= clock
           /\ pin[c] \in Nat /\ Source \in Nat /\ TTL \in Nat \ {0}
           /\ \A i \in 1 .. Source : rotations[i] \in Nat
           /\ Key(c) \in Keys \cup {NoKey}
<1>1. TypeOK /\ CallOK(c) /\ ChainTypeOK
    BY DEF ChainInv, CacheInv, CallsOK
<1>2. rotations \in Seq(Times) /\ Times \subseteq Nat
    BY <1>1, MaxClockAssumption DEF ChainTypeOK, Times
<1>3. Source \in Nat /\ \A i \in 1 .. Source : rotations[i] \in Times
    BY <1>2 DEF Source
<1>4. clock \in Times /\ now[c] \in Times /\ pin[c] \in 0 .. MaxRotations /\ now[c] <= clock
    BY <1>1 DEF TypeOK, ChainTypeOK, CallOK
<1>5. Key(c) \in Keys \cup {NoKey}
    BY <1>1, KeyTypes
<1>6. clock \in Nat /\ now[c] \in Nat /\ \A i \in 1 .. Source : rotations[i] \in Nat
    BY <1>2, <1>3, <1>4
<1>7. pin[c] \in Nat /\ TTL \in Nat \ {0}
    BY <1>4, TTLAssumption, RotationsAssumption
<1> QED
    BY <1>3, <1>4, <1>5, <1>6, <1>7

\* A call that a step of another leaves alone keeps its facts.
Untouched(d) ==
    /\ pc'[d] = pc[d] /\ request'[d] = request[d] /\ now'[d] = now[d]
    /\ at'[d] = at[d] /\ human'[d] = human[d] /\ pin'[d] = pin[d] /\ said'[d] = said[d]

LEMMA UntouchedKeeps ==
    ASSUME ChainInv, NEW d \in Calls, Untouched(d), UNCHANGED <<controls, rotations>>
    PROVE  OwnOK(d)'
BY DEF ChainInv, Untouched, OwnOK, StationOK, KeyedOK, AcceptOK, SaidOK, PinOK, Key, Installed, Sayable, Source

LEMMA CallsAlone ==
    ASSUME ChainInv, NEW c \in Calls, NEW d \in Calls, c # d, CallStep(c)
    PROVE  Untouched(d)
<1>1. TypeOK /\ ChainTypeOK
    BY DEF ChainInv, CacheInv
<1>2. ASSUME Leave(c), Depart(c) PROVE Untouched(d)
    BY <1>1, <1>2 DEF Leave, Depart, Goto, TypeOK, ChainTypeOK, Untouched
<1>3. ASSUME NEW words, Result(c, words) PROVE Untouched(d)
  <2>1. CASE Saved(c, words)
      BY <1>1, <2>1 DEF Saved, TypeOK, ChainTypeOK, Untouched
  <2> QED
      BY <1>2, <1>3, <2>1, ResultCases
<1>4. ASSUME Error(c) PROVE Untouched(d)
    BY <1>2, <1>4, ErrorLeaves
<1>5. ASSUME NEW station, Advance(c, station),
             pin' = pin \/ \E version : pin' = [pin EXCEPT ![c] = version]
      PROVE  Untouched(d)
    BY <1>1, <1>5 DEF Advance, vars, callVars, TypeOK, ChainTypeOK, Untouched
<1>6. CASE Enter(c)
    BY <1>1, <1>6 DEF Enter, ArriveWith, Goto, TypeOK, ChainTypeOK, Untouched
<1>7. CASE Began(c) \/ Recalled(c) \/ Missed(c)
    BY <1>1, <1>7 DEF Began, Recalled, Missed, ReadClock, Hit, Miss, Goto, stationVars, TypeOK, ChainTypeOK, Untouched
<1>8. CASE Serve(c) \/ Store(c)
    BY <1>2, <1>8 DEF Serve, Store, Deliver, Put
<1>9. CASE Gate(c)
    BY <1>3, <1>4, <1>5, <1>9 DEF Gate
<1>10. CASE TakeToken(c) \/ Send(c)
    BY <1>5, <1>10 DEF TakeToken, Send
<1>11. CASE WaitFails(c) \/ HandlerRefuses(c) \/ UpstreamFails(c)
    BY <1>4, <1>11 DEF WaitFails, HandlerRefuses, UpstreamFails
<1>12. CASE UpstreamAnswers(c)
    BY <1>3, <1>4, <1>12 DEF UpstreamAnswers
<1> QED
    BY <1>6, <1>7, <1>8, <1>9, <1>10, <1>11, <1>12 DEF CallStep

LEMMA CallKeepsShared ==
    ASSUME NEW c \in Calls, CallStep(c)
    PROVE  UNCHANGED <<controls, rotations, clock, refills>>
<1>1. ASSUME NEW words, Result(c, words) PROVE UNCHANGED clock
    BY <1>1, ResultCases
<1>2. ASSUME Error(c) PROVE UNCHANGED clock
    BY <1>2, ErrorLeaves
<1>3. CASE Enter(c) \/ Began(c) \/ Recalled(c) \/ Missed(c) \/ Serve(c) \/ Store(c)
    BY <1>3 DEF Enter, Began, Recalled, Missed, Serve, Store, ArriveWith, ReadClock, Hit, Miss, Deliver, Put, sharedVars
<1>4. CASE Gate(c) \/ TakeToken(c) \/ Send(c)
    BY <1>1, <1>2, <1>4 DEF Gate, TakeToken, Send, Advance, vars, sharedVars
<1>5. CASE WaitFails(c) \/ HandlerRefuses(c) \/ UpstreamFails(c) \/ UpstreamAnswers(c)
    BY <1>1, <1>2, <1>5 DEF WaitFails, HandlerRefuses, UpstreamFails, UpstreamAnswers, sharedVars
<1> QED
    BY <1>3, <1>4, <1>5 DEF CallStep

\* The call that moves.
LEMMA OwnStep ==
    ASSUME ChainInv, NEW c \in Calls, CallStep(c)
    PROVE  OwnOK(c)'
<1>1. TypeOK /\ ChainTypeOK /\ Buildable(controls) /\ OwnOK(c) /\ CallOK(c)
    BY DEF ChainInv, CacheInv, CallsOK
<1>2. /\ clock \in Nat /\ now[c] \in Nat /\ now[c] <= clock
      /\ pin[c] \in Nat /\ Source \in Nat /\ TTL \in Nat \ {0}
      /\ \A i \in 1 .. Source : rotations[i] \in Nat
    BY Types
<1>3. /\ UNCHANGED <<controls, rotations, clock>> /\ Source' = Source /\ Sayable' = Sayable
      /\ \A w : Installed(w)' = Installed(w)
    BY CallKeepsShared DEF Source, Sayable, Installed
<1>4. ASSUME Leave(c), Depart(c) PROVE OwnOK(c)'
  <2>1. pc'[c] = "idle" /\ at'[c] = "outside" /\ pin'[c] = 0
      BY <1>1, <1>4 DEF Leave, Depart, Goto, TypeOK, ChainTypeOK
  <2> QED
      BY <1>2, <1>3, <2>1 DEF OwnOK, StationOK, KeyedOK, AcceptOK, SaidOK, PinOK
<1>5. ASSUME Error(c) PROVE OwnOK(c)'
    BY <1>4, <1>5, ErrorLeaves
<1>6. ASSUME NEW words, Saved(c, words), pc[c] = "next", words \in Sayable, at[c] = "upstream"
      PROVE  OwnOK(c)'
  <2>1. /\ pc'[c] = "put" /\ at'[c] = "outside" /\ said'[c] = words
        /\ pin' = pin /\ now' = now /\ Key(c)' = Key(c)
      BY <1>1, <1>6 DEF Saved, TypeOK, ChainTypeOK, Key
  <2> QED
      BY <1>1, <1>2, <1>3, <1>6, <2>1 DEF OwnOK, StationOK, KeyedOK, AcceptOK, SaidOK, PinOK
<1>7. CASE Enter(c)
  <2>1. PICK r \in Requests : /\ Installed("cache") \/ KeyOf[r] = NoKey
                              /\ ArriveWith(c, r)
                              /\ at' = [at EXCEPT ![c] = IF KeyOf[r] = NoKey THEN "gate" ELSE "outside"]
      BY <1>7 DEF Enter
  <2>2. /\ Key(c)' = KeyOf[r] /\ pc'[c] = IF KeyOf[r] = NoKey THEN "next" ELSE "keyed"
        /\ at'[c] = IF KeyOf[r] = NoKey THEN "gate" ELSE "outside"
        /\ pin'[c] \in {0, Source}
      BY <1>1, <1>7, <2>1 DEF Enter, ArriveWith, Goto, TypeOK, ChainTypeOK, Key
  <2> QED
      BY <1>2, <1>3, <2>1, <2>2 DEF OwnOK, StationOK, KeyedOK, AcceptOK, SaidOK, PinOK
<1>8. CASE Began(c)
  <2>1. /\ pc[c] = "keyed" /\ pc'[c] = "read" /\ Key(c)' = Key(c)
        /\ UNCHANGED <<at, human, pin, said>>
      BY <1>1, <1>8 DEF Began, ReadClock, Goto, TypeOK, stationVars, Key
  <2> QED
      BY <1>1, <1>2, <1>3, <2>1 DEF OwnOK, StationOK, KeyedOK, AcceptOK, SaidOK, PinOK
<1>9. CASE Recalled(c)
  <2>1. /\ pc[c] = "read" /\ pc'[c] = "hit" /\ Key(c)' = Key(c) /\ now' = now
        /\ at' = at /\ pin'[c] = origin[Key(c)].pin
        /\ Key(c) \in Held /\ now[c] < entries[Key(c)].expires
      BY <1>1, <1>9 DEF Recalled, Hit, FreshAt, Goto, TypeOK, ChainTypeOK, Key
  <2>2. entries[Key(c)].expires \in Nat /\ origin[Key(c)].pin \in Nat /\ OriginOK(Key(c))
      BY <1>1, <2>1, RotationsAssumption DEF TypeOK, ChainTypeOK, Entries, ChainInv
  <2> QED
      BY <1>1, <1>2, <1>3, <2>1, <2>2 DEF OwnOK, StationOK, KeyedOK, AcceptOK, SaidOK, PinOK, OriginOK
<1>10. CASE Missed(c)
  <2>1. /\ pc[c] = "read" /\ pc'[c] = "next" /\ Key(c)' = Key(c) /\ at'[c] = "gate"
        /\ pin' = pin
      BY <1>1, <1>10 DEF Missed, Miss, Goto, TypeOK, ChainTypeOK, Key
  <2> QED
      BY <1>1, <1>2, <1>3, <2>1 DEF OwnOK, StationOK, KeyedOK, AcceptOK, SaidOK, PinOK
<1>11. CASE Serve(c) \/ Store(c)
    BY <1>4, <1>11 DEF Serve, Store, Deliver, Put
<1>12. ASSUME NEW station \in Stations, Advance(c, station), at[c] # "outside",
              station \in {"bucket", "handler", "upstream"} /\ Installed("confirm") => human[c] = "accept",
              station = "upstream" /\ Installed("query-pin") => pin'[c] = Source,
              pin'[c] \in {pin[c], Source}
       PROVE  OwnOK(c)'
  <2>1. /\ at'[c] = station /\ pc'[c] = pc[c] /\ Key(c)' = Key(c) /\ human' = human /\ pc[c] = "next"
      BY <1>1, <1>12 DEF Advance, vars, callVars, TypeOK, ChainTypeOK, Key, OwnOK, StationOK
  <2> QED
      BY <1>1, <1>2, <1>3, <1>12, <2>1 DEF OwnOK, StationOK, KeyedOK, AcceptOK, SaidOK, PinOK
<1>13. CASE Gate(c)
  <2>1. ASSUME Installed("confirm"), Result(c, "prompt") PROVE OwnOK(c)'
    <3>1. pc[c] = "next"
        BY <2>1, ResultCases
    <3>2. ~Saved(c, "prompt")
        BY <1>1, <2>1, <3>1 DEF Saved, OwnOK, KeyedOK, Buildable, Installed
    <3> QED
        BY <1>4, <2>1, <3>2, ResultCases
  <2>2. ASSUME ~Installed("confirm") \/ human[c] = "accept", Advance(c, "bucket"), pin' = pin, at[c] = "gate"
        PROVE  OwnOK(c)'
      BY <1>12, <2>2 DEF Stations
  <2> QED
      BY <1>5, <1>13, <2>1, <2>2 DEF Gate
<1>14. CASE TakeToken(c)
    BY <1>1, <1>12, <1>14 DEF TakeToken, Stations, OwnOK, AcceptOK
<1>15. CASE Send(c)
  <2>1. /\ Advance(c, "upstream") /\ at[c] = "handler"
        /\ pin'[c] = IF Installed("query-pin") THEN Source ELSE pin[c]
      BY <1>1, <1>15 DEF Send, ChainTypeOK
  <2> QED
      BY <1>1, <1>12, <2>1 DEF Stations, OwnOK, AcceptOK
<1>16. CASE WaitFails(c) \/ HandlerRefuses(c) \/ UpstreamFails(c)
    BY <1>5, <1>16 DEF WaitFails, HandlerRefuses, UpstreamFails
<1>17. CASE UpstreamAnswers(c)
  <2>1. ASSUME NEW words \in Sayable, Result(c, words) PROVE OwnOK(c)'
      BY <1>4, <1>6, <1>17, <2>1, ResultCases DEF UpstreamAnswers
  <2> QED
      BY <1>5, <1>17, <2>1 DEF UpstreamAnswers, Sayable
<1> QED
    BY <1>7, <1>8, <1>9, <1>10, <1>11, <1>13, <1>14, <1>15, <1>16, <1>17 DEF CallStep

\* Every call keeps its facts.  When the source changes, the calls that went by what it
\* said until now have a clock that is not later.
LEMMA OwnAlways ==
    ASSUME ChainInv, [ChainNext]_vars_chain, NEW d \in Calls
    PROVE  OwnOK(d)'
<1>1. ASSUME NEW c \in Calls, CallStep(c) PROVE OwnOK(d)'
  <2>1. CASE c = d
      BY <1>1, <2>1, OwnStep
  <2>2. CASE c # d
      BY <1>1, <2>2, CallsAlone, CallKeepsShared, UntouchedKeeps
  <2> QED
      BY <2>1, <2>2
<1>2. CASE Refill \/ Pass \/ UNCHANGED vars_chain
  <2>1. Untouched(d) /\ UNCHANGED <<controls, rotations>>
      BY <1>2 DEF Refill, Pass, Tick, vars_chain, vars, callVars, chainVars, sharedVars, stationVars, Untouched
  <2> QED
      BY <2>1, UntouchedKeeps
<1>3. CASE Rotate
  <2>1. Untouched(d) /\ controls' = controls /\ rotations' = Append(rotations, clock)
      BY <1>3 DEF Rotate, vars, callVars, stationVars, Untouched
  <2>2. rotations \in Seq(Times) /\ clock \in Times /\ OwnOK(d)
      BY DEF ChainInv, ChainTypeOK, CacheInv, TypeOK
  <2>3. /\ Source' = Source + 1 /\ rotations'[Source + 1] = clock
        /\ \A i \in 1 .. Source : rotations'[i] = rotations[i]
      BY <2>1, <2>2 DEF Source
  <2>4. Key(d)' = Key(d) /\ Sayable' = Sayable /\ \A w : Installed(w)' = Installed(w)
      BY <2>1 DEF Untouched, Key, Sayable, Installed
  <2>5. /\ clock \in Nat /\ now[d] \in Nat /\ now[d] <= clock
        /\ pin[d] \in Nat /\ Source \in Nat /\ TTL \in Nat \ {0}
      BY Types
  <2>6. PinOK(d)'
    <3>1. CASE pin[d] = Source
      <4>1. rotations'[pin'[d] + 1] = clock /\ pin'[d] = Source /\ now'[d] = now[d]
          BY <2>1, <2>3, <3>1 DEF Untouched
      <4> QED
          BY <2>3, <2>5, <4>1 DEF PinOK
    <3>2. CASE pin[d] < Source
      <4>1. rotations'[pin[d] + 1] = rotations[pin[d] + 1]
          BY <2>3, <2>5, <3>2
      <4> QED
          BY <2>1, <2>2, <2>3, <2>4, <2>5, <3>2, <4>1 DEF OwnOK, PinOK, Untouched
    <3> QED
        BY <2>2, <2>5, <3>1, <3>2 DEF OwnOK, PinOK
  <2> QED
      BY <2>1, <2>2, <2>4, <2>6 DEF OwnOK, StationOK, KeyedOK, AcceptOK, SaidOK, Untouched
<1> QED
    BY <1>1, <1>2, <1>3 DEF ChainNext

-----------------------------------------------------------------------------
\* What is held.  A step that adds no key, puts nothing off and says nothing anew.
LEMMA HeldKeeps ==
    ASSUME ChainInv, clock' \in Nat, clock <= clock', Held' \subseteq Held,
           \A k \in Held' : entries'[k] = entries[k],
           UNCHANGED <<controls, rotations, origin>>
    PROVE  \A k \in Held' : OriginOK(k)'
<1> SUFFICES ASSUME NEW k \in Held' PROVE OriginOK(k)'
    OBVIOUS
<1>1. OriginOK(k) /\ entries'[k] = entries[k] /\ entries[k].expires \in Nat
    BY DEF ChainInv, CacheInv, TypeOK, Entries
<1>2. clock \in Nat /\ TTL \in Nat
    BY TTLAssumption, MaxClockAssumption DEF ChainInv, CacheInv, TypeOK, Times
<1>3. Source' = Source /\ Sayable' = Sayable /\ \A w : Installed(w)' = Installed(w)
    BY DEF Source, Sayable, Installed
<1> QED
    BY <1>1, <1>2, <1>3 DEF OriginOK

LEMMA HeldStep ==
    ASSUME ChainInv, [ChainNext]_vars_chain
    PROVE  \A k \in Held' : OriginOK(k)'
<1>0. clock \in Nat /\ TypeOK /\ ChainTypeOK
    BY MaxClockAssumption DEF ChainInv, CacheInv, TypeOK, Times
<1>1. ASSUME UNCHANGED <<clock, entries, controls, rotations, origin>> PROVE \A k \in Held' : OriginOK(k)'
    BY <1>0, <1>1, HeldKeeps DEF Held
<1>2. ASSUME NEW c \in Calls, Missed(c) PROVE \A k \in Held' : OriginOK(k)'
  <2>1. Held' \subseteq Held /\ \A k \in Held' : entries'[k] = entries[k]
      BY <1>2 DEF Missed, Miss, Keep, Held
  <2> QED
      BY <1>0, <1>2, <2>1, HeldKeeps DEF Missed, Miss, sharedVars
<1>3. ASSUME NEW c \in Calls, Store(c) PROVE \A k \in Held' : OriginOK(k)'
  <2>1. PICK ks \in Drops(Fresh(now[c])) :
            entries' = [k \in (Fresh(now[c]) \ ks) \cup {Key(c)} |->
                           IF k = Key(c)
                           THEN [answer |-> result[c], expires |-> now[c] + TTL]
                           ELSE entries[k]]
      BY <1>3 DEF Store, Put
  <2>2. pc[c] = "put" /\ UNCHANGED <<clock, controls, rotations>>
      BY <1>3 DEF Store, Put
  <2>3. origin' = [origin EXCEPT ![Key(c)] = [said |-> said[c], pin |-> pin[c]]]
      BY <1>3 DEF Store
  <2>4. /\ clock \in Nat /\ now[c] \in Nat /\ now[c] <= clock
        /\ pin[c] \in Nat /\ Source \in Nat /\ TTL \in Nat \ {0}
        /\ \A i \in 1 .. Source : rotations[i] \in Nat
      BY Types
  <2>5. Source' = Source /\ Sayable' = Sayable /\ \A w : Installed(w)' = Installed(w)
      BY <2>2 DEF Source, Sayable, Installed
  <2>6. Key(c) \in Keys /\ OwnOK(c)
      BY <2>2, KeyTypes DEF ChainInv, CacheInv, CallsOK, CallOK
  <2> SUFFICES ASSUME NEW k \in Held' PROVE OriginOK(k)'
      OBVIOUS
  <2>7. CASE k = Key(c)
    <3>1. entries'[k].expires = now[c] + TTL
        BY <2>1, <2>7
    <3>2. origin'[k] = [said |-> said[c], pin |-> pin[c]]
        BY <1>0, <2>3, <2>6, <2>7 DEF ChainTypeOK
    <3> QED
        BY <2>2, <2>4, <2>5, <2>6, <3>1, <3>2 DEF OriginOK, OwnOK, SaidOK, PinOK
  <2>8. CASE k # Key(c)
    <3>1. k \in Held /\ entries'[k] = entries[k]
        BY <2>1, <2>8 DEF Held, Fresh
    <3>2. origin'[k] = origin[k]
        BY <1>0, <2>3, <2>8, <3>1 DEF ChainTypeOK, TypeOK
    <3>3. OriginOK(k)
        BY <3>1 DEF ChainInv
    <3> QED
        BY <2>2, <2>5, <3>1, <3>2, <3>3 DEF OriginOK
  <2> QED
      BY <2>7, <2>8
<1>4. ASSUME NEW c \in Calls, CallStep(c), ~Missed(c), ~Store(c)
      PROVE  UNCHANGED <<clock, entries, controls, rotations, origin>>
  <2>1. ASSUME NEW words, Result(c, words) PROVE UNCHANGED <<clock, entries>>
      BY <2>1, ResultCases
  <2>2. ASSUME Error(c) PROVE UNCHANGED <<clock, entries>>
      BY <2>2, ErrorLeaves
  <2>3. CASE Enter(c) \/ Began(c) \/ Recalled(c) \/ Serve(c)
      BY <2>3 DEF Enter, Began, Recalled, Serve, ArriveWith, ReadClock, Hit, Deliver, sharedVars
  <2>4. CASE Gate(c) \/ TakeToken(c) \/ Send(c)
      BY <2>1, <2>2, <2>4 DEF Gate, TakeToken, Send, Advance, vars, sharedVars
  <2>5. CASE WaitFails(c) \/ HandlerRefuses(c) \/ UpstreamFails(c) \/ UpstreamAnswers(c)
      BY <2>1, <2>2, <2>5 DEF WaitFails, HandlerRefuses, UpstreamFails, UpstreamAnswers, sharedVars
  <2> QED
      BY <1>4, <2>3, <2>4, <2>5 DEF CallStep
<1>5. CASE Refill \/ UNCHANGED vars_chain
    BY <1>1, <1>5 DEF Refill, vars_chain, vars, chainVars, sharedVars
<1>6. CASE Pass
    BY <1>0, <1>6, HeldKeeps DEF Pass, Tick, chainVars, sharedVars, Held
<1>7. CASE Rotate
  <2>1. UNCHANGED <<clock, entries, controls, origin>> /\ rotations' = Append(rotations, clock)
      BY <1>7 DEF Rotate, vars
  <2>2. rotations \in Seq(Times) /\ clock \in Times
      BY <1>0 DEF ChainTypeOK, TypeOK
  <2>3. /\ Source' = Source + 1 /\ rotations'[Source + 1] = clock /\ Source \in Nat
        /\ \A i \in 1 .. Source : rotations'[i] = rotations[i]
      BY <2>1, <2>2 DEF Source
  <2>4. Sayable' = Sayable /\ \A w : Installed(w)' = Installed(w)
      BY <2>1 DEF Sayable, Installed
  <2> SUFFICES ASSUME NEW k \in Held' PROVE OriginOK(k)'
      OBVIOUS
  <2>5. k \in Held /\ OriginOK(k) /\ origin[k].pin \in Nat
      BY <1>0, <2>1, RotationsAssumption DEF Held, ChainInv, ChainTypeOK, TypeOK
  <2>6. CASE origin[k].pin = Source
    <3>1. /\ rotations'[origin'[k].pin + 1] = clock
          /\ origin'[k] = origin[k] /\ entries'[k] = entries[k] /\ clock' = clock
        BY <2>1, <2>3, <2>6
    <3>2. origin'[k].pin <= Source'
        BY <2>3, <2>6, <3>1
    <3>3. entries'[k].expires <= rotations'[origin'[k].pin + 1] + TTL
        BY <2>5, <3>1 DEF OriginOK
    <3> QED
        BY <2>4, <2>5, <3>1, <3>2, <3>3 DEF OriginOK
  <2>7. CASE origin[k].pin < Source
    <3>1. rotations'[origin[k].pin + 1] = rotations[origin[k].pin + 1]
        BY <2>3, <2>5, <2>7
    <3> QED
        BY <2>1, <2>3, <2>4, <2>5, <2>7, <3>1 DEF OriginOK
  <2> QED
      BY <2>3, <2>5, <2>6, <2>7 DEF OriginOK
<1> QED
    BY <1>1, <1>2, <1>3, <1>4, <1>5, <1>6, <1>7 DEF ChainNext

-----------------------------------------------------------------------------
\* The chain's own variables keep their types.  What a step does to the bucket and to
\* the count of requests is for BudgetStep.
LEMMA ChainTypeStep ==
    ASSUME ChainInv, [ChainNext]_vars_chain, TypeOK'
    PROVE  ChainTypeOK'
<1>0. TypeOK /\ ChainTypeOK
    BY DEF ChainInv, CacheInv
<1>1. \A c \in Calls : Source \in 0 .. MaxRotations /\ (Key(c) \in Keys => origin[Key(c)] \in [said : Words, pin : 0 .. MaxRotations])
    BY <1>0, RotationsAssumption DEF ChainTypeOK, Source
<1>2. ASSUME UNCHANGED <<sharedVars, stationVars>> PROVE ChainTypeOK'
    BY <1>0, <1>2 DEF sharedVars, stationVars, ChainTypeOK, Source
<1> DEFINE StationTypes == /\ at' \in [Calls -> Stations]
                           /\ human' \in [Calls -> {"none", "decline", "accept"}]
                           /\ pin' \in [Calls -> 0 .. MaxRotations]
                           /\ said' \in [Calls -> Words]
<1>3. ASSUME StationTypes, UNCHANGED sharedVars PROVE ChainTypeOK'
    BY <1>0, <1>3 DEF sharedVars, ChainTypeOK, Source
<1>4. ASSUME NEW c \in Calls, Depart(c) PROVE StationTypes
    BY <1>0, <1>4, RotationsAssumption DEF Depart, ChainTypeOK, Stations, Words
<1>5. ASSUME NEW c \in Calls, NEW station \in Stations, Advance(c, station),
             pin' = pin \/ \E version \in 0 .. MaxRotations : pin' = [pin EXCEPT ![c] = version]
      PROVE  StationTypes
    BY <1>0, <1>5 DEF Advance, ChainTypeOK
<1>6. ASSUME NEW c \in Calls, NEW words \in Words, Result(c, words) PROVE StationTypes
  <2>1. CASE Saved(c, words)
      BY <1>0, <2>1 DEF Saved, ChainTypeOK, Stations
  <2> QED
      BY <1>4, <1>6, <2>1, ResultCases
<1>7. ASSUME NEW c \in Calls, Error(c) PROVE StationTypes
    BY <1>4, <1>7, ErrorLeaves
<1>8. ASSUME NEW c \in Calls, CallStep(c) PROVE ChainTypeOK'
  <2>1. CASE Enter(c)
    <3>1. StationTypes
        BY <1>0, <1>1, <2>1, RotationsAssumption DEF Enter, ChainTypeOK, Stations
    <3> QED
        BY <1>3, <2>1, <3>1 DEF Enter
  <2>2. CASE Began(c)
      BY <1>2, <2>2 DEF Began
  <2>3. CASE Recalled(c)
    <3>1. Key(c) \in Keys /\ origin[Key(c)].pin \in 0 .. MaxRotations
        BY <1>0, <1>1, <2>3 DEF Recalled, Hit, FreshAt, TypeOK
    <3> QED
        BY <1>0, <1>3, <2>3, <3>1 DEF Recalled, ChainTypeOK
  <2>4. CASE Missed(c)
    <3>1. StationTypes
        BY <1>0, <2>4 DEF Missed, ChainTypeOK, Stations
    <3> QED
        BY <1>3, <2>4, <3>1 DEF Missed
  <2>5. CASE Serve(c)
      BY <1>3, <1>4, <2>5 DEF Serve
  <2>6. CASE Store(c)
    <3>1. [said |-> said[c], pin |-> pin[c]] \in [said : Words, pin : 0 .. MaxRotations]
        BY <1>0 DEF ChainTypeOK
    <3>2. origin' \in [Keys -> [said : Words, pin : 0 .. MaxRotations]]
        BY <1>0, <2>6, <3>1 DEF Store, ChainTypeOK
    <3>3. StationTypes /\ UNCHANGED <<controls, tokens, refills, rotations, sent>>
        BY <1>4, <2>6 DEF Store
    <3> QED
        BY <1>0, <3>2, <3>3 DEF ChainTypeOK, Source
  <2>7. CASE Gate(c)
    <3>1. StationTypes
        BY <1>5, <1>6, <1>7, <2>7 DEF Gate, Stations, Words
    <3> QED
        BY <1>3, <2>7, <3>1 DEF Gate
  <2>8. CASE TakeToken(c)
    <3>1. StationTypes
        BY <1>5, <2>8 DEF TakeToken, Stations
    <3>2. tokens' \in 0 .. Burst
        BY <1>0, <2>8, BucketAssumption DEF TakeToken, ChainTypeOK
    <3> QED
        BY <1>0, <2>8, <3>1, <3>2 DEF TakeToken, ChainTypeOK, Source
  <2>9. CASE Send(c)
    <3>1. \E version \in 0 .. MaxRotations : pin' = [pin EXCEPT ![c] = version]
        BY <1>0, <1>1, <2>9 DEF Send, ChainTypeOK
    <3>2. StationTypes
        BY <1>5, <2>9, <3>1 DEF Send, Stations
    <3>3. sent' \in Nat /\ UNCHANGED <<controls, tokens, refills, rotations, origin>>
        BY <1>0, <2>9 DEF Send, ChainTypeOK
    <3> QED
        BY <1>0, <3>2, <3>3 DEF ChainTypeOK, Source
  <2>10. CASE WaitFails(c) \/ HandlerRefuses(c) \/ UpstreamFails(c)
      BY <1>3, <1>7, <2>10 DEF WaitFails, HandlerRefuses, UpstreamFails
  <2>11. CASE UpstreamAnswers(c)
    <3>1. StationTypes
        BY <1>6, <1>7, <2>11 DEF UpstreamAnswers, Words
    <3> QED
        BY <1>3, <2>11, <3>1 DEF UpstreamAnswers
  <2> QED
      BY <1>8, <2>1, <2>2, <2>3, <2>4, <2>5, <2>6, <2>7, <2>8, <2>9, <2>10, <2>11 DEF CallStep
<1>9. CASE Refill
  <2>1. tokens' \in 0 .. Burst /\ refills' \in 0 .. MaxRefills
      BY <1>0, <1>9, BucketAssumption DEF Refill, ChainTypeOK
  <2> QED
      BY <1>0, <1>9, <2>1 DEF Refill, stationVars, ChainTypeOK, Source
<1>10. CASE Rotate
  <2>1. rotations \in Seq(Times) /\ clock \in Times /\ rotations' = Append(rotations, clock)
      BY <1>0, <1>10 DEF Rotate, ChainTypeOK, TypeOK
  <2>2. rotations' \in Seq(Times) /\ Len(rotations') = Len(rotations) + 1
      BY <2>1
  <2>3. Source' <= MaxRotations
      BY <1>10, <2>1, <2>2, RotationsAssumption DEF Rotate, Source
  <2> QED
      BY <1>0, <1>10, <2>2, <2>3 DEF Rotate, stationVars, ChainTypeOK
<1>11. CASE Pass \/ UNCHANGED vars_chain
    BY <1>2, <1>11 DEF Pass, vars_chain, chainVars
<1> QED
    BY <1>8, <1>9, <1>10, <1>11 DEF ChainNext

-----------------------------------------------------------------------------
LEMMA ChainInitInv == ChainInit => ChainInv /\ SentWithinBudget
<1> SUFFICES ASSUME ChainInit PROVE ChainInv /\ SentWithinBudget
    OBVIOUS
<1>1. CacheInv /\ TypeOK
    BY InitInv DEF ChainInit, CacheInv
<1>2. rotations \in Seq(Times) /\ Source = 0
    BY DEF ChainInit, Source
<1>3. ChainTypeOK
    BY <1>1, <1>2, BucketAssumption, RotationsAssumption DEF ChainInit, ChainTypeOK, Stations, Words
<1>4. \A c \in Calls : OwnOK(c)
    BY <1>2 DEF ChainInit, Init, OwnOK, StationOK, KeyedOK, AcceptOK, SaidOK, PinOK
<1>5. Held = {}
    BY DEF ChainInit, Init, Held
<1>6. SentWithinBudget
  <2>1. Paid = {}
      BY DEF ChainInit, Paid
  <2> QED
      BY <2>1, FS_EmptySet, BucketAssumption DEF ChainInit, SentWithinBudget
<1> QED
    BY <1>1, <1>3, <1>4, <1>5, <1>6 DEF ChainInv, ChainInit

LEMMA ChainInvStep == ChainInv /\ [ChainNext]_vars_chain => ChainInv'
<1> SUFFICES ASSUME ChainInv, [ChainNext]_vars_chain PROVE ChainInv'
    OBVIOUS
<1>1. CacheInv /\ [Next]_vars
    BY ChainStep DEF ChainInv
<1>2. CacheInv' /\ TypeOK'
    BY <1>1, CacheStep DEF CacheInv
<1>3. Buildable(controls)'
  <2>1. controls' = controls
      BY CallKeepsShared DEF ChainNext, Refill, Rotate, Pass, chainVars, sharedVars, vars_chain
  <2> QED
      BY <2>1 DEF ChainInv, Buildable
<1> QED
    BY <1>2, <1>3, ChainTypeStep, OwnAlways, HeldStep DEF ChainInv

LEMMA ChainInvariant == ChainSpec => []ChainInv
BY ChainInitInv, ChainInvStep, PTL DEF ChainSpec, vars_chain

-----------------------------------------------------------------------------
\* A token spent is a call at the handler, and a request sent one call less there.
LEMMA BudgetStep == ChainInv /\ SentWithinBudget /\ [ChainNext]_vars_chain => SentWithinBudget'
<1> SUFFICES ASSUME ChainInv, SentWithinBudget, [ChainNext]_vars_chain PROVE SentWithinBudget'
    OBVIOUS
<1>0. ChainTypeOK /\ IsFiniteSet(Paid) /\ Cardinality(Paid) \in Nat
    BY CallsAssumption, FS_Subset, FS_CardinalityType DEF ChainInv, Paid
<1>1. /\ sent \in Nat /\ tokens \in Int /\ refills \in Int /\ Burst \in Nat
      /\ sent + Cardinality(Paid) <= Burst + refills - tokens
    BY <1>0, BucketAssumption DEF ChainTypeOK, SentWithinBudget
<1>2. ASSUME Paid' \subseteq Paid, UNCHANGED <<sent, tokens, refills>> PROVE SentWithinBudget'
  <2>1. Cardinality(Paid') \in Nat /\ Cardinality(Paid') <= Cardinality(Paid)
      BY <1>0, <1>2, FS_Subset, FS_CardinalityType
  <2> QED
      BY <1>0, <1>1, <1>2, <2>1 DEF SentWithinBudget
<1>3. ASSUME NEW c \in Calls, NEW station, station # "handler",
             at' = [at EXCEPT ![c] = station], UNCHANGED <<sent, tokens, refills>>
      PROVE  SentWithinBudget'
    BY <1>0, <1>2, <1>3 DEF Paid, ChainTypeOK
<1>4. ASSUME NEW c \in Calls, Error(c), UNCHANGED sharedVars PROVE SentWithinBudget'
    BY <1>3, <1>4, ErrorLeaves DEF Depart, sharedVars
<1>5. ASSUME NEW c \in Calls, NEW words, Result(c, words), UNCHANGED sharedVars PROVE SentWithinBudget'
    BY <1>3, <1>5, ResultCases DEF Depart, Saved, sharedVars
<1>6. ASSUME NEW c \in Calls, CallStep(c) PROVE SentWithinBudget'
  <2>1. CASE Enter(c)
    <3>1. \E station \in {"gate", "outside"} : at' = [at EXCEPT ![c] = station]
        BY <2>1 DEF Enter
    <3> QED
        BY <1>3, <2>1, <3>1 DEF Enter, sharedVars
  <2>2. CASE Began(c) \/ Recalled(c)
      BY <1>2, <2>2 DEF Began, Recalled, stationVars, sharedVars, Paid
  <2>3. CASE Missed(c) \/ Serve(c) \/ Store(c)
      BY <1>3, <2>3 DEF Missed, Serve, Store, Depart, sharedVars
  <2>4. CASE Gate(c)
    <3>1. ASSUME Advance(c, "bucket"), UNCHANGED sharedVars PROVE SentWithinBudget'
        BY <1>3, <3>1 DEF Advance, sharedVars
    <3> QED
        BY <1>4, <1>5, <2>4, <3>1 DEF Gate
  <2>5. CASE TakeToken(c)
    <3>1. Paid' = Paid \cup {c} /\ c \notin Paid
        BY <1>0, <2>5 DEF TakeToken, Advance, Paid, ChainTypeOK
    <3>2. Cardinality(Paid') = Cardinality(Paid) + 1
        BY <1>0, <3>1, FS_AddElement
    <3>3. tokens' = tokens - 1 /\ UNCHANGED <<sent, refills>>
        BY <2>5 DEF TakeToken
    <3> QED
        BY <1>0, <1>1, <3>2, <3>3 DEF SentWithinBudget
  <2>6. CASE Send(c)
    <3>1. Paid' = Paid \ {c} /\ c \in Paid
        BY <1>0, <2>6 DEF Send, Advance, Paid, ChainTypeOK
    <3>2. Cardinality(Paid') = Cardinality(Paid) - 1
        BY <1>0, <3>1, FS_RemoveElement
    <3>3. sent' = sent + 1 /\ UNCHANGED <<tokens, refills>>
        BY <2>6 DEF Send
    <3> QED
        BY <1>0, <1>1, <3>2, <3>3 DEF SentWithinBudget
  <2>7. CASE WaitFails(c) \/ HandlerRefuses(c) \/ UpstreamFails(c) \/ UpstreamAnswers(c)
      BY <1>4, <1>5, <2>7 DEF WaitFails, HandlerRefuses, UpstreamFails, UpstreamAnswers
  <2> QED
      BY <1>6, <2>1, <2>2, <2>3, <2>4, <2>5, <2>6, <2>7 DEF CallStep
<1>7. CASE Refill
  <2>1. Paid' = Paid /\ sent' = sent /\ tokens' = tokens + 1 /\ refills' = refills + 1
      BY <1>7 DEF Refill, stationVars, Paid
  <2> QED
      BY <1>0, <1>1, <2>1 DEF SentWithinBudget
<1>8. CASE Rotate \/ Pass \/ UNCHANGED vars_chain
    BY <1>2, <1>8 DEF Rotate, Pass, vars_chain, chainVars, stationVars, sharedVars, Paid
<1> QED
    BY <1>6, <1>7, <1>8 DEF ChainNext

-----------------------------------------------------------------------------
\* Every variable of the chain keeps its type.
THEOREM ChainTypeCorrect == ChainSpec => []ChainTypeOK
BY ChainInvariant, PTL DEF ChainInv

\* What is kept for later callers is what an upstream said, and on a tool declared
\* `reject-empty` not nothing: withRejectEmpty is inside the cache, and a gate over a
\* cache is refused (server.go:264-269; validateCaches, cache.go:108-118).
THEOREM KeptWasSaid == ChainSpec => []HeldWasSaid
<1>1. ChainInv => HeldWasSaid
    BY DEF ChainInv, OriginOK, HeldWasSaid
<1> QED
    BY <1>1, ChainInvariant, PTL

\* A cached answer outlives the pinned value it was fetched under by less than its ttl
\* (cacheKey, cache.go:200-213), for any calls, however they overlap a change.
THEOREM PinsAgeOut == ChainSpec => []ServedUnderRecentPin
<1>1. ChainInv => ServedUnderRecentPin
    BY DEF ChainInv, OwnOK, PinOK, ServedUnderRecentPin
<1> QED
    BY <1>1, ChainInvariant, PTL

\* Requests that went out never outnumber the tokens there were (withRateLimit,
\* ratelimit.go:194-204, inside the gate and the cache).
THEOREM WithinBudget == ChainSpec => []SentWithinBudget
<1>1. ChainInit => SentWithinBudget
    BY ChainInitInv
<1> QED
    BY <1>1, ChainInvariant, BudgetStep, PTL DEF ChainSpec, vars_chain

\* On a gated tool nothing is spent and nothing sent without an accept (withConfirmation,
\* confirm.go:102-123, outside the rate limit).
THEOREM AcceptFirst == ChainSpec => AcceptedBeforeSpent
<1> DEFINE Gated(c) == at[c] # at'[c] /\ at'[c] \in {"handler", "upstream"} /\ Installed("confirm")
                       => human[c] = "accept"
<1>1. ChainInv /\ [ChainNext]_vars_chain => [\A c \in Calls : Gated(c)]_vars_chain
  <2> SUFFICES ASSUME ChainInv, [ChainNext]_vars_chain, NEW d \in Calls,
                      at[d] # at'[d], at'[d] \in {"handler", "upstream"}, Installed("confirm")
               PROVE  human[d] = "accept"
      OBVIOUS
  <2>1. PICK c \in Calls : CallStep(c)
      BY DEF ChainNext, Refill, Rotate, Pass, vars_chain, chainVars, stationVars
  <2>2. c = d
      BY <2>1, CallsAlone DEF Untouched
  <2>3. ChainTypeOK /\ OwnOK(c)
      BY DEF ChainInv
  <2>4. ASSUME Depart(c) PROVE FALSE
      BY <2>2, <2>3, <2>4 DEF Depart, ChainTypeOK
  <2>5. ASSUME NEW words, Result(c, words) PROVE FALSE
    <3>1. CASE Saved(c, words)
        BY <2>2, <2>3, <3>1 DEF Saved, ChainTypeOK
    <3> QED
        BY <2>4, <2>5, <3>1, ResultCases
  <2>6. ~Error(c)
      BY <2>4, ErrorLeaves
  <2>7. ~Enter(c) /\ ~Began(c) /\ ~Recalled(c) /\ ~Missed(c) /\ ~Serve(c) /\ ~Store(c) /\ ~Gate(c)
      BY <2>2, <2>3, <2>4, <2>5, <2>6
      DEF Enter, Began, Recalled, Missed, Serve, Store, Gate, Advance, stationVars, ChainTypeOK
  <2>8. TakeToken(c) \/ Send(c)
      BY <2>1, <2>5, <2>6, <2>7 DEF CallStep, WaitFails, HandlerRefuses, UpstreamAnswers, UpstreamFails
  <2> QED
      BY <2>2, <2>3, <2>8 DEF TakeToken, Send, OwnOK, AcceptOK
<1> QED
    BY <1>1, ChainInvariant, PTL DEF ChainSpec, AcceptedBeforeSpent, vars_chain
=============================================================================
