---------------------------- MODULE TokenBucket ----------------------------
(***************************************************************************)
(* The durable rate limit: redisBucket of internal/mcpserver/              *)
(* ratelimitredis.go, the token bucket that every pod of a server charges  *)
(* through one Lua script, and the loop in which a call waits for a token. *)
(*                                                                         *)
(* Time is counted in ticks of the store's clock and the balance in units, *)
(* the unit chosen so that one is refilled per tick: a token is worth Cost *)
(* units and a full bucket of Count tokens one window of ticks.  A pod     *)
(* reads its own clock before the script runs, so the reading the script   *)
(* sees is up to MaxLag old: the spread of the pods' clocks and the time   *)
(* the request took together.                                              *)
(***************************************************************************)
EXTENDS Integers

CONSTANTS
    Calls,   \* calls waiting at once, over all pods
    Count,   \* tokens in a full bucket (`rate-limit "Count/window"`)
    Cost,    \* ticks to refill one token
    MinTTL,  \* minBucketTTL
    Poll,    \* redisWaitPoll
    MaxLag,  \* bound: how old a clock reading can be when the script runs
    Budgets, \* the time calls arrive with before their deadline
    MaxClock \* bound: the last tick

ASSUME CountAssumption == Count \in Nat \ {0}
ASSUME CostAssumption == Cost \in Nat \ {0}
ASSUME MinTTLAssumption == MinTTL \in Nat
ASSUME PollAssumption == Poll \in Nat \ {0}
ASSUME BudgetsAssumption == Budgets \subseteq Nat
ASSUME MaxClockAssumption == MaxClock \in Nat

\* capacity, which is also the window in ticks.
Capacity == Count * Cost

\* newRedisBucket: twice the window, and at least minBucketTTL.
TTL == IF 2 * Capacity < MinTTL THEN MinTTL ELSE 2 * Capacity

\* Clocks agree to within what the expiry leaves over a window.
ASSUME LagAssumption == MaxLag \in Nat /\ Capacity + MaxLag <= TTL

VARIABLES
    clock,     \* the store's clock
    tokens,    \* the balance under the bucket's key, in units
    ts,        \* the reading it was last brought up to date for
    expires,   \* when the key expires
    pc,        \* where each call stands in Wait
    deadline,  \* each call's context deadline
    retry,     \* the projected wait the script returned to each call
    wake,      \* when each call's timer fires
    begun,     \* history: start of the window being metered
    metered    \* history: units worth of calls let through since then

bucketVars == <<tokens, ts, expires>>
callVars   == <<pc, deadline, retry, wake>>
meterVars  == <<begun, metered>>
vars == <<clock, bucketVars, callVars, meterVars>>

Stages == {"idle", "charge", "decide", "sleep"}

Least(a, b) == IF a < b THEN a ELSE b

-----------------------------------------------------------------------------
\* The script's arithmetic for a reading now: what the balance has grown to, and
\* the time it stands for.  An expired key reads as a full bucket.
Live == clock < expires
BalanceAt(now) ==
    IF ~Live THEN Capacity
    ELSE IF now > ts THEN Least(Capacity, tokens + (now - ts)) ELSE tokens
StampAlwaysNow(now) == now  \* mutant: a late charge moves the stamp back
StampAt(now) == IF Live /\ now <= ts THEN ts ELSE now

Affordable(now) == BalanceAt(now) >= Cost

\* Mutant: the expiry is set once and not moved by later charges.
StoreExpiresOnce(balance, now) ==
    /\ tokens' = balance
    /\ ts' = StampAt(now)
    /\ expires' = IF Live THEN expires ELSE clock + TTL

\* HSET and EXPIRE, on every charge whether allowed or not.
Store(balance, now) ==
    /\ tokens' = balance
    /\ ts' = StampAt(now)
    /\ expires' = clock + TTL

Readings == {now \in (clock - MaxLag) .. clock : now >= 0}

Init ==
    /\ clock = 0
    /\ tokens = 0 /\ ts = 0 /\ expires = 0
    /\ pc = [c \in Calls |-> "idle"]
    /\ deadline = [c \in Calls |-> 0]
    /\ retry = [c \in Calls |-> 0]
    /\ wake = [c \in Calls |-> 0]
    /\ begun = 0 /\ metered = 0

\* Wait is entered with a deadline in its context.
Arrive(c) ==
    /\ pc[c] = "idle"
    /\ \E b \in Budgets :
           /\ clock + b <= MaxClock
           /\ deadline' = [deadline EXCEPT ![c] = clock + b]
    /\ pc' = [pc EXCEPT ![c] = "charge"]
    /\ UNCHANGED <<clock, bucketVars, retry, wake, meterVars>>

Leave(c) ==
    /\ pc' = [pc EXCEPT ![c] = "idle"]
    /\ deadline' = [deadline EXCEPT ![c] = 0]
    /\ retry' = [retry EXCEPT ![c] = 0]
    /\ wake' = [wake EXCEPT ![c] = 0]

\* A request to the store is made and answered only under a live context.
ContextOpen(c) == clock <= deadline[c]

\* The script takes a token and says so: Wait returns and the call goes through.
Pass(c) ==
    /\ pc[c] = "charge"
    /\ ContextOpen(c)
    /\ \E now \in Readings :
           Affordable(now) /\ Store(BalanceAt(now) - Cost, now)
    /\ metered' = metered + Cost
    /\ Leave(c)
    /\ UNCHANGED <<clock, begun>>

\* The script ran and its reply was lost: whatever it did, the call is refused or,
\* by the client library, the script is sent once more.
ReplyLost(c) ==
    /\ pc[c] = "charge"
    /\ \E now \in Readings :
           Store(IF Affordable(now) THEN BalanceAt(now) - Cost ELSE BalanceAt(now), now)
    /\ Leave(c) \/ UNCHANGED callVars
    /\ UNCHANGED <<clock, meterVars>>

\* The store is unreachable, or the context is done: refused, never let through.
StoreFails(c) ==
    /\ pc[c] = "charge"
    /\ Leave(c)
    /\ UNCHANGED <<clock, bucketVars, meterVars>>

\* The script has no token and returns how long the next one takes.
Charged(c) ==
    /\ pc[c] = "charge"
    /\ ContextOpen(c)
    /\ \E now \in Readings :
           /\ ~Affordable(now)
           /\ Store(BalanceAt(now), now)
           /\ retry' = [retry EXCEPT ![c] = Cost - BalanceAt(now)]
    /\ pc' = [pc EXCEPT ![c] = "decide"]
    /\ UNCHANGED <<clock, deadline, wake, meterVars>>

\* sleep: a wait past the deadline is refused at once.
RefuseWait(c) ==
    /\ pc[c] = "decide"
    /\ clock + retry[c] > deadline[c]
    /\ Leave(c)
    /\ UNCHANGED <<clock, bucketVars, meterVars>>

\* sleep: otherwise wait it out, asking the store again every Poll at the latest.
Sleep(c) ==
    /\ pc[c] = "decide"
    /\ clock + retry[c] <= deadline[c]
    /\ wake' = [wake EXCEPT ![c] = clock + Least(retry[c], Poll)]
    /\ pc' = [pc EXCEPT ![c] = "sleep"]
    /\ UNCHANGED <<clock, bucketVars, deadline, retry, meterVars>>

\* The timer fires and the store is asked again.
Wake(c) ==
    /\ pc[c] = "sleep"
    /\ clock >= wake[c]
    /\ pc' = [pc EXCEPT ![c] = "charge"]
    /\ retry' = [retry EXCEPT ![c] = 0]
    /\ wake' = [wake EXCEPT ![c] = 0]
    /\ UNCHANGED <<clock, bucketVars, deadline, meterVars>>

\* The caller has gone, or its deadline has passed: the sleep ends in an error.
GiveUp(c) ==
    /\ pc[c] = "sleep"
    /\ Leave(c)
    /\ UNCHANGED <<clock, bucketVars, meterVars>>

Tick ==
    /\ clock < MaxClock
    /\ clock' = clock + 1
    /\ UNCHANGED <<bucketVars, callVars, meterVars>>

\* History: from here on a new window is metered.
StartMeter ==
    /\ begun' = clock
    /\ metered' = 0
    /\ UNCHANGED <<clock, bucketVars, callVars>>

CallStep(c) ==
    \/ Pass(c) \/ ReplyLost(c) \/ StoreFails(c) \/ Charged(c)
    \/ RefuseWait(c) \/ Sleep(c) \/ Wake(c) \/ GiveUp(c)

Next ==
    \/ \E c \in Calls : Arrive(c) \/ CallStep(c)
    \/ Tick
    \/ StartMeter

Spec == Init /\ [][Next]_vars

-----------------------------------------------------------------------------
\* Every variable keeps its type, and the balance its bounds.
TypeOK ==
    /\ clock \in 0 .. MaxClock
    /\ tokens \in 0 .. Capacity
    /\ ts \in Nat /\ ts <= clock
    /\ expires \in Nat
    /\ pc \in [Calls -> Stages]
    /\ deadline \in [Calls -> Nat]
    /\ retry \in [Calls -> Nat]
    /\ wake \in [Calls -> Nat]
    /\ begun \in Nat /\ begun <= clock
    /\ metered \in Nat

\* In any window the calls let through, over all pods, cost at most a full bucket
\* plus what the window refills, plus what the clocks' disagreement is worth:
\* neither the expiry of the key, nor late or reordered charges, nor lost replies
\* let more through (ratelimitredis.go:31-32, "two pods cannot both read the same
\* token count and both spend it").
WindowBound == metered <= Capacity + (clock - begun) + MaxLag

\* What the pods together hold: the balance, and the refill of the time that no charge has
\* used yet, up to a bucket and what a late reading leaves of it; all of it without a key.
Level == IF Live THEN Least(Capacity + MaxLag, tokens + (clock - ts)) ELSE Capacity + MaxLag

Ideal == INSTANCE Limiter WITH Size <- Capacity + MaxLag, now <- clock, level <- Level, through <- metered

\* With many pods, clocks that disagree, lost replies and an expiring key it is still one
\* bucket under one clock, larger by what the clocks disagree ("the whole algorithm, run
\* atomically inside Redis", "a continuously-refilling token bucket", ratelimitredis.go:31-36).
ImplementsLimiter == Ideal!Spec
=============================================================================
