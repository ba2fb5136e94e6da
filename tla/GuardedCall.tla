----------------------------- MODULE GuardedCall -----------------------------
(***************************************************************************)
(* What the proxy promises about one tool call, whatever happens to the    *)
(* sessions underneath: it is admitted or refused, an admitted call runs   *)
(* upstream at most once and only then, and after drift has been latched   *)
(* nothing more is admitted (docs/upstream.md, "Fail closed" and "Session  *)
(* survival").  No session, lock, listing or reconnect appears here.       *)
(***************************************************************************)
EXTENDS Naturals

CONSTANT Calls

VARIABLES
    phase,   \* "idle", "pending" (being checked) or "admitted"
    ran,     \* whether the admitted call has run upstream
    latched  \* whether drift has been latched

promised == <<phase, ran, latched>>

Init ==
    /\ phase = [c \in Calls |-> "idle"]
    /\ ran = [c \in Calls |-> 0]
    /\ latched = FALSE

Begin(c) ==
    /\ phase[c] = "idle"
    /\ phase' = [phase EXCEPT ![c] = "pending"]
    /\ UNCHANGED <<ran, latched>>

Admit(c) ==
    /\ phase[c] = "pending"
    /\ ~latched
    /\ phase' = [phase EXCEPT ![c] = "admitted"]
    /\ UNCHANGED <<ran, latched>>

\* The call being checked is the one that finds drift; it is never admitted.
Latch(c) ==
    /\ phase[c] = "pending"
    /\ latched' = TRUE
    /\ \/ UNCHANGED phase
       \/ phase' = [phase EXCEPT ![c] = "idle"]
    /\ UNCHANGED ran

Run(c) ==
    /\ phase[c] = "admitted"
    /\ ran[c] = 0
    /\ ran' = [ran EXCEPT ![c] = 1]
    /\ UNCHANGED <<phase, latched>>

Finish(c) ==
    /\ phase[c] # "idle"
    /\ phase' = [phase EXCEPT ![c] = "idle"]
    /\ ran' = [ran EXCEPT ![c] = 0]
    /\ UNCHANGED latched

Next == \E c \in Calls : Begin(c) \/ Admit(c) \/ Latch(c) \/ Run(c) \/ Finish(c)

Spec == Init /\ [][Next]_promised
=============================================================================
