-------------------------- MODULE TokenBucketProofs --------------------------
(***************************************************************************)
(* Proofs about TokenBucket, for every rate, expiry, spread of clocks and  *)
(* number of calls.  The argument is about the bucket alone: whatever the  *)
(* calls do, the bucket is the one of Limiter, which is one bucket under   *)
(* one clock, and that one covers what it lets through.                    *)
(***************************************************************************)
EXTENDS TokenBucket, TLAPS

\* A key lives for a TTL after its last charge, which was no earlier than its stamp.
StampOK == Live => ts <= expires - TTL

BucketInv == TypeOK /\ StampOK

\* Capacity, Cost and TTL are numbers, and the expiry covers a window and the lag.
LEMMA Numbers ==
    /\ Capacity \in Nat /\ Capacity > 0 /\ Cost \in Nat /\ Cost > 0
    /\ TTL \in Nat /\ TTL > 0 /\ Poll \in Nat /\ Poll > 0
    /\ MaxLag \in Nat /\ MaxClock \in Nat
    /\ Capacity + MaxLag <= TTL
<1>1. Capacity \in Nat /\ Capacity > 0
    BY CountAssumption, CostAssumption DEF Capacity
<1>2. TTL \in Nat /\ TTL > 0
    BY <1>1, MinTTLAssumption DEF TTL
<1> QED
    BY <1>1, <1>2, CostAssumption, LagAssumption, PollAssumption, MaxClockAssumption

\* What a reading sees lies within the bucket, and its stamp in the past.
LEMMA BalanceBounds ==
    ASSUME TypeOK, NEW now \in Readings
    PROVE  /\ BalanceAt(now) \in 0 .. Capacity
           /\ StampAt(now) \in Nat /\ StampAt(now) <= clock
BY Numbers DEF TypeOK, Readings, BalanceAt, StampAt, Least, Live

\* The level of the bucket is one Limiter's may have.
LEMMA LevelBounds == TypeOK => Level \in 0 .. Capacity + MaxLag
BY Numbers DEF TypeOK, Level, Least

LEMMA LevelIs ==
    \A held, now, stamp \in Nat :
        stamp <= now => Least(Capacity + MaxLag, held + (now - stamp)) \in 0 .. Capacity + MaxLag
BY Numbers DEF Least

LEMMA LevelBoundsNext == TypeOK' => Level' \in 0 .. Capacity + MaxLag
<1> SUFFICES ASSUME TypeOK' PROVE Level' \in 0 .. Capacity + MaxLag
    OBVIOUS
<1>1. tokens' \in Nat /\ clock' \in Nat /\ ts' \in Nat /\ ts' <= clock'
    BY DEF TypeOK
<1>2. \/ Level' = Least(Capacity + MaxLag, tokens' + (clock' - ts'))
      \/ Level' = Capacity + MaxLag
    BY DEF Level
<1>3. Capacity + MaxLag \in 0 .. Capacity + MaxLag
    BY Numbers
<1> QED
    BY <1>1, <1>2, <1>3, LevelIs, Zenon

LEMMA Lowered ==
    \A after, grown, held, level, spent \in Nat :
        after <= grown /\ grown + spent <= held /\ held <= level => after + spent <= level
OBVIOUS

LEMMA Within == \A after, level, spent \in Nat : after + spent <= level => after \in 0 .. level
OBVIOUS

\* A charge that lets `spent` units through, or none, lowers the level by as much at least:
\* a reading behind the clock forgoes what it caps, and leaves the rest to be refilled.
LEMMA ChargeLowers ==
    ASSUME BucketInv, NEW now \in Readings, NEW spent \in Nat, NEW balance \in Nat,
           balance + spent <= BalanceAt(now), Store(balance, now), UNCHANGED clock
    PROVE  StampOK' /\ Level' \in Nat /\ Level' + spent <= Level
<1>1. now \in Nat /\ clock - MaxLag <= now /\ now <= clock /\ clock \in Nat
    BY Numbers DEF Readings, BucketInv, TypeOK
<1>2. /\ clock' = clock /\ tokens' = balance /\ ts' = StampAt(now) /\ expires' = clock + TTL
      /\ StampAt(now) \in Nat /\ StampAt(now) <= clock
    BY BalanceBounds DEF Store, BucketInv
<1>3. StampOK'
    BY <1>1, <1>2, Numbers DEF StampOK
<1>4. Level' = Least(Capacity + MaxLag, balance + (clock - StampAt(now)))
    BY <1>1, <1>2, Numbers DEF Level, Live
<1>5. balance + (clock - StampAt(now)) + spent <= BalanceAt(now) + (clock - StampAt(now))
    BY <1>1, <1>2, BalanceBounds DEF BucketInv
<1>6. BalanceAt(now) + (clock - StampAt(now)) <= Level
  <2>1. CASE ~Live
      BY <1>1, <2>1, Numbers DEF BalanceAt, StampAt, Level
  <2>2. CASE Live /\ now > ts
      BY <1>1, <2>2, Numbers DEF BalanceAt, StampAt, Level, Least, BucketInv, TypeOK
  <2>3. CASE Live /\ now <= ts
      BY <1>1, <2>3, Numbers DEF BalanceAt, StampAt, Level, Least, BucketInv, TypeOK
  <2> QED
      BY <1>1, <2>1, <2>2, <2>3 DEF BucketInv, TypeOK
<1>7. Level' \in Nat /\ Level' <= balance + (clock - StampAt(now))
    BY <1>1, <1>2, <1>4, Numbers DEF Least
<1> DEFINE grown == balance + (clock - StampAt(now))
           held  == BalanceAt(now) + (clock - StampAt(now))
<1>8. grown \in Nat /\ held \in Nat /\ Level \in Nat
    BY <1>1, <1>2, BalanceBounds, LevelBounds, Numbers DEF BucketInv
<1>9. Level' + spent <= Level
  <2>1. grown + spent <= held /\ held <= Level /\ Level' <= grown
      BY <1>5, <1>6, <1>7
  <2> HIDE DEF grown, held
  <2> QED
      BY <1>7, <1>8, <2>1, Lowered, Zenon
<1> QED
    BY <1>3, <1>7, <1>9

\* Stored values are of their types whatever the reading.
LEMMA StoreTypes ==
    ASSUME TypeOK, NEW now \in Readings, NEW balance \in 0 .. Capacity,
           Store(balance, now)
    PROVE  /\ tokens' \in 0 .. Capacity
           /\ ts' \in Nat /\ ts' <= clock
           /\ expires' \in Nat
BY BalanceBounds, Numbers DEF Store, TypeOK

\* What a call keeps: its stage and its three numbers.
CallTypes ==
    /\ pc \in [Calls -> Stages]
    /\ deadline \in [Calls -> Nat]
    /\ retry \in [Calls -> Nat]
    /\ wake \in [Calls -> Nat]

LEMMA LeaveTypes == \A c \in Calls : CallTypes /\ Leave(c) => CallTypes'
BY DEF CallTypes, Leave, Stages

LEMMA TypeStep == TypeOK /\ [Next]_vars => TypeOK'
<1> SUFFICES ASSUME TypeOK, [Next]_vars PROVE TypeOK'
    OBVIOUS
<1>1. CallTypes
    BY DEF TypeOK, CallTypes
<1>2. ASSUME NEW c \in Calls, Pass(c) PROVE TypeOK'
  <2>1. PICK now \in Readings : Affordable(now) /\ Store(BalanceAt(now) - Cost, now)
      BY <1>2 DEF Pass
  <2>2. BalanceAt(now) - Cost \in 0 .. Capacity
      BY <2>1, BalanceBounds, Numbers DEF Affordable
  <2>3. metered' \in Nat /\ UNCHANGED <<clock, begun>>
      BY <1>2, Numbers DEF Pass, TypeOK
  <2> QED
      BY <1>1, <1>2, <2>1, <2>2, <2>3, StoreTypes, LeaveTypes DEF Pass, TypeOK, CallTypes
<1>3. ASSUME NEW c \in Calls, ReplyLost(c) PROVE TypeOK'
  <2>1. PICK now \in Readings :
            Store(IF Affordable(now) THEN BalanceAt(now) - Cost ELSE BalanceAt(now), now)
      BY <1>3 DEF ReplyLost
  <2> DEFINE balance == IF Affordable(now) THEN BalanceAt(now) - Cost ELSE BalanceAt(now)
  <2>2. balance \in 0 .. Capacity
      BY <2>1, BalanceBounds, Numbers DEF Affordable
  <2> HIDE DEF balance
  <2>3. /\ tokens' \in 0 .. Capacity
        /\ ts' \in Nat /\ ts' <= clock
        /\ expires' \in Nat
      BY <2>1, <2>2, StoreTypes DEF balance
  <2> QED
      BY <1>1, <1>3, <2>3, LeaveTypes DEF ReplyLost, callVars, meterVars, TypeOK, CallTypes
<1>4. ASSUME NEW c \in Calls, Charged(c) PROVE TypeOK'
  <2>1. PICK now \in Readings : /\ ~Affordable(now) /\ Store(BalanceAt(now), now)
                                 /\ retry' = [retry EXCEPT ![c] = Cost - BalanceAt(now)]
      BY <1>4 DEF Charged
  <2>2. BalanceAt(now) \in 0 .. Capacity /\ Cost - BalanceAt(now) \in Nat
      BY <2>1, BalanceBounds, Numbers DEF Affordable
  <2>3. /\ tokens' \in 0 .. Capacity
        /\ ts' \in Nat /\ ts' <= clock
        /\ expires' \in Nat
      BY <2>1, <2>2, StoreTypes
  <2>4. CallTypes'
      BY <1>1, <1>4, <2>1, <2>2 DEF Charged, CallTypes, Stages
  <2> QED
      BY <1>4, <2>3, <2>4 DEF Charged, meterVars, TypeOK, CallTypes
<1>5. ASSUME NEW c \in Calls, Arrive(c) PROVE TypeOK'
  <2>1. PICK b \in Budgets : deadline' = [deadline EXCEPT ![c] = clock + b]
      BY <1>5 DEF Arrive
  <2>2. clock + b \in Nat
      BY <2>1, BudgetsAssumption, Numbers DEF TypeOK
  <2> QED
      BY <1>5, <2>1, <2>2 DEF Arrive, bucketVars, meterVars, TypeOK, Stages
<1>6. ASSUME NEW c \in Calls, StoreFails(c) \/ RefuseWait(c) \/ GiveUp(c) PROVE TypeOK'
    BY <1>1, <1>6, LeaveTypes
    DEF StoreFails, RefuseWait, GiveUp, bucketVars, meterVars, TypeOK, CallTypes
<1>7. ASSUME NEW c \in Calls, Sleep(c) PROVE TypeOK'
  <2>1. clock + Least(retry[c], Poll) \in Nat
      BY Numbers DEF TypeOK, Least
  <2> QED
      BY <1>7, <2>1 DEF Sleep, bucketVars, meterVars, TypeOK, Stages
<1>8. ASSUME NEW c \in Calls, Wake(c) PROVE TypeOK'
    BY <1>8 DEF Wake, bucketVars, meterVars, TypeOK, Stages
<1>9. CASE Tick
    BY <1>9, Numbers DEF Tick, bucketVars, callVars, meterVars, TypeOK
<1>10. CASE StartMeter
    BY <1>10, Numbers DEF StartMeter, bucketVars, callVars, TypeOK
<1>11. CASE UNCHANGED vars
    BY <1>11 DEF vars, bucketVars, callVars, meterVars, TypeOK
<1> QED
    BY <1>2, <1>3, <1>4, <1>5, <1>6, <1>7, <1>8, <1>9, <1>10, <1>11 DEF Next, CallStep

\* Every step of the pods is a step of the one bucket, or one that it does not see.
LEMMA LimiterStep ==
    ASSUME BucketInv, TypeOK', [Next]_vars
    PROVE  StampOK' /\ [Ideal!Next]_(Ideal!limited)
<1>1. Level \in Nat /\ Capacity + MaxLag \in Nat /\ Level <= Capacity + MaxLag
    BY LevelBounds, Numbers DEF BucketInv
<1>2. ASSUME NEW c \in Calls, Pass(c) PROVE StampOK' /\ Ideal!Pass
  <2>1. PICK now \in Readings : Affordable(now) /\ Store(BalanceAt(now) - Cost, now)
      BY <1>2 DEF Pass
  <2>2. metered' = metered + Cost /\ UNCHANGED <<clock, begun>>
      BY <1>2 DEF Pass
  <2>3. BalanceAt(now) - Cost \in Nat /\ Cost \in Nat /\ (BalanceAt(now) - Cost) + Cost <= BalanceAt(now)
      BY <2>1, BalanceBounds, Numbers DEF Affordable, BucketInv
  <2>4. StampOK' /\ Level' \in Nat /\ Level' + Cost <= Level
      BY <2>1, <2>2, <2>3, ChargeLowers
  <2>5. Level' \in 0 .. Level
      BY <1>1, <2>3, <2>4, Within, Zenon
  <2> QED
      BY <2>2, <2>4, <2>5 DEF Ideal!Pass
<1>3. ASSUME NEW now \in Readings, NEW balance \in Nat, balance <= BalanceAt(now),
             Store(balance, now), UNCHANGED <<clock, meterVars>>
      PROVE  StampOK' /\ Ideal!Lose
  <2>1. 0 \in Nat /\ balance + 0 <= BalanceAt(now) /\ UNCHANGED clock
      BY <1>3
  <2>2. StampOK' /\ Level' \in Nat /\ Level' + 0 <= Level
      BY <1>3, <2>1, ChargeLowers
  <2>3. Level' \in 0 .. Level
      BY <1>1, <2>1, <2>2, Within, Zenon
  <2> QED
      BY <1>3, <2>2, <2>3 DEF Ideal!Lose, meterVars
<1>4. ASSUME NEW c \in Calls, ReplyLost(c) PROVE StampOK' /\ Ideal!Lose
  <2>1. PICK now \in Readings :
            Store(IF Affordable(now) THEN BalanceAt(now) - Cost ELSE BalanceAt(now), now)
      BY <1>4 DEF ReplyLost
  <2> DEFINE balance == IF Affordable(now) THEN BalanceAt(now) - Cost ELSE BalanceAt(now)
  <2>2. balance \in Nat /\ balance <= BalanceAt(now)
      BY <2>1, BalanceBounds, Numbers DEF Affordable, BucketInv
  <2>3. Store(balance, now) /\ UNCHANGED <<clock, meterVars>>
      BY <1>4, <2>1 DEF ReplyLost
  <2> HIDE DEF balance
  <2> QED
      BY <1>3, <2>2, <2>3
<1>5. ASSUME NEW c \in Calls, Charged(c) PROVE StampOK' /\ Ideal!Lose
  <2>1. PICK now \in Readings : Store(BalanceAt(now), now)
      BY <1>5 DEF Charged
  <2>2. BalanceAt(now) \in Nat /\ BalanceAt(now) <= BalanceAt(now)
      BY <2>1, BalanceBounds DEF BucketInv
  <2>3. UNCHANGED <<clock, meterVars>>
      BY <1>5 DEF Charged
  <2> QED
      BY <1>3, <2>1, <2>2, <2>3
<1>6. ASSUME Tick PROVE StampOK' /\ Ideal!Tick
  <2>1. clock' = clock + 1 /\ UNCHANGED <<tokens, ts, expires, begun, metered>> /\ clock \in Nat
      BY <1>6 DEF Tick, bucketVars, meterVars, BucketInv, TypeOK
  <2>2. StampOK'
      BY <2>1, Numbers DEF StampOK, Live, BucketInv, TypeOK
  <2>3. Level' = IF Level < Capacity + MaxLag THEN Level + 1 ELSE Capacity + MaxLag
    <3>1. CASE ~Live
        BY <2>1, <3>1, Numbers DEF Level, Live, BucketInv, TypeOK
    <3>2. CASE Live /\ Live'
        BY <2>1, <3>2, Numbers DEF Level, Least, BucketInv, TypeOK
    <3>3. CASE Live /\ ~Live'
      <4>1. clock + 1 >= expires /\ ts <= expires - TTL
          BY <2>1, <3>3 DEF Live, StampOK, BucketInv, TypeOK
      <4>2. clock - ts + 1 >= Capacity + MaxLag
          BY <2>1, <4>1, Numbers DEF BucketInv, TypeOK
      <4> QED
          BY <2>1, <3>3, <4>2, Numbers DEF Level, Least, BucketInv, TypeOK
    <3> QED
        BY <3>1, <3>2, <3>3
  <2> QED
      BY <2>1, <2>2, <2>3 DEF Ideal!Tick
<1>7. ASSUME StartMeter PROVE StampOK' /\ Ideal!StartMeter
    BY <1>7 DEF StartMeter, StampOK, Level, Live, bucketVars, Ideal!StartMeter, BucketInv
<1>8. ASSUME UNCHANGED <<clock, bucketVars, meterVars>> PROVE StampOK' /\ UNCHANGED Ideal!limited
    BY <1>8 DEF StampOK, Level, Live, bucketVars, meterVars, Ideal!limited, BucketInv
<1>9. ASSUME NEW c \in Calls,
             Arrive(c) \/ StoreFails(c) \/ RefuseWait(c) \/ Sleep(c) \/ Wake(c) \/ GiveUp(c)
      PROVE  UNCHANGED <<clock, bucketVars, meterVars>>
    BY <1>9 DEF Arrive, StoreFails, RefuseWait, Sleep, Wake, GiveUp
<1>10. CASE UNCHANGED vars
    BY <1>8, <1>10 DEF vars
<1> QED
    BY <1>2, <1>4, <1>5, <1>6, <1>7, <1>8, <1>9, <1>10 DEF Next, CallStep, Ideal!Next

LEMMA BucketInvariant == Spec => []BucketInv
<1>1. Init => BucketInv
    BY Numbers DEF Init, BucketInv, TypeOK, Stages, StampOK, Live
<1>2. BucketInv /\ [Next]_vars => BucketInv'
    BY TypeStep, LimiterStep DEF BucketInv
<1> QED
    BY <1>1, <1>2, PTL DEF Spec

-----------------------------------------------------------------------------
\* The balance never leaves its bounds and no stamp lies in the future of the
\* store's clock, however charges are delayed and reordered (the Lua script's
\* arithmetic, ratelimitredis.go:39-70).
THEOREM TypeCorrect == Spec => []TypeOK
BY BucketInvariant, PTL DEF BucketInv

\* Any number of pods with disagreeing clocks, lost replies and an expiring key are one
\* bucket under one clock, larger by the disagreement (ratelimitredis.go:31-36).
THEOREM IsALimiter == Spec => ImplementsLimiter
<1>1. Init => Ideal!Init
    BY Numbers DEF Init, Ideal!Init, Level, Live
<1>2. BucketInv /\ BucketInv' /\ [Next]_vars => [Ideal!Next]_(Ideal!limited)
    BY LimiterStep DEF BucketInv
<1> QED
    BY <1>1, <1>2, BucketInvariant, PTL DEF Spec, ImplementsLimiter, Ideal!Spec

\* No window lets more through than a full bucket, the window's refill and the
\* clocks' disagreement: two pods cannot both spend one token
\* (ratelimitredis.go:31-32), and the key's expiry never refills it early (18-29).
THEOREM WindowBounded == Spec => []WindowBound
<1>1. Ideal!Init /\ TypeOK => Ideal!Covered
    BY Numbers DEF Ideal!Init, Ideal!Covered
<1>2. TypeOK /\ TypeOK' /\ Ideal!Covered /\ [Ideal!Next]_(Ideal!limited) => Ideal!Covered'
  <2> SUFFICES ASSUME TypeOK, TypeOK', Ideal!Covered, [Ideal!Next]_(Ideal!limited)
               PROVE  Ideal!Covered'
      OBVIOUS
  <2>1. /\ Level \in Nat /\ Level' \in Nat /\ Capacity + MaxLag \in Nat /\ Level <= Capacity + MaxLag
        /\ clock \in Nat /\ begun \in Nat /\ begun <= clock /\ metered \in Nat /\ Cost \in Nat
      BY LevelBounds, LevelBoundsNext, Numbers DEF TypeOK
  <2>2. CASE Ideal!Pass
      BY <2>1, <2>2 DEF Ideal!Pass, Ideal!Covered
  <2>3. CASE Ideal!Lose
      BY <2>1, <2>3 DEF Ideal!Lose, Ideal!Covered
  <2>4. CASE Ideal!Tick
      BY <2>1, <2>4 DEF Ideal!Tick, Ideal!Covered
  <2>5. CASE Ideal!StartMeter
      BY <2>1, <2>5 DEF Ideal!StartMeter, Ideal!Covered
  <2>6. CASE UNCHANGED Ideal!limited
      BY <2>6 DEF Ideal!limited, Ideal!Covered
  <2> QED
      BY <2>2, <2>3, <2>4, <2>5, <2>6 DEF Ideal!Next
<1>3. TypeOK /\ Ideal!Covered => WindowBound
    BY LevelBounds, Numbers DEF Ideal!Covered, WindowBound, TypeOK
<1> QED
    BY <1>1, <1>2, <1>3, TypeCorrect, IsALimiter, PTL DEF ImplementsLimiter, Ideal!Spec
=============================================================================
