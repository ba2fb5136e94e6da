------------------------------- MODULE Limiter -------------------------------
(***************************************************************************)
(* What a rate limit promises: one bucket under one clock.  It fills by a  *)
(* unit a tick, may lose some of what it holds, and lets nothing through   *)
(* that it does not hold.  No pods, readings, stamps or keys appear here.  *)
(***************************************************************************)
EXTENDS Naturals

CONSTANTS
    Size, \* units in a full bucket
    Cost  \* units that letting one call through takes

VARIABLES
    now,
    level,  \* units in the bucket
    begun,  \* history: start of the window being metered
    through \* history: units worth of calls let through since then

limited == <<now, level, begun, through>>

Init == now = 0 /\ level = Size /\ begun = 0 /\ through = 0

\* A call goes through.
Pass ==
    /\ \E rest \in 0 .. level : rest + Cost <= level /\ level' = rest
    /\ through' = through + Cost
    /\ UNCHANGED <<now, begun>>

\* A charge nobody heard of.
Lose ==
    /\ level' \in 0 .. level
    /\ UNCHANGED <<now, begun, through>>

Tick ==
    /\ now' = now + 1
    /\ level' = IF level < Size THEN level + 1 ELSE Size
    /\ UNCHANGED <<begun, through>>

StartMeter ==
    /\ begun' = now
    /\ through' = 0
    /\ UNCHANGED <<now, level>>

Next == Pass \/ Lose \/ Tick \/ StartMeter

Spec == Init /\ [][Next]_limited

-----------------------------------------------------------------------------
\* What was let through in the window and what is left were there at its start, or came
\* since.
Covered == through + level <= Size + (now - begun)
=============================================================================
