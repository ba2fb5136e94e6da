------------------------------- MODULE Survey -------------------------------
(***************************************************************************)
(* What a sweep of the registry promises of each server it was given: one  *)
(* row, written once, that is true of what was known when it was written.  *)
(* No goroutines, slots, channels or second readings appear here.          *)
(***************************************************************************)
EXTENDS Naturals, Sequences

CONSTANTS
    Servers,
    Surfaces, \* what a server may list
    Codes     \* error statuses it may answer

VARIABLES
    said,     \* the listings each server gave, in order
    code,     \* the last error status each server answered, 0 if none
    late,     \* servers whose time is up
    row       \* what the directory will say of each server

surveyed == <<said, code, late, row>>

Blank == [state |-> "none", code |-> 0, tools |-> {}]

Init ==
    /\ said = [s \in Servers |-> <<>>]
    /\ code = [s \in Servers |-> 0]
    /\ late = [s \in Servers |-> FALSE]
    /\ row = [s \in Servers |-> Blank]

\* A server may go on talking after its row was written, unless the row is its answer.
Talks(s) == row[s].state # "ok"

\* It lists its tools; only after an empty listing is it asked again.
List(s) ==
    /\ Talks(s) /\ said[s] \in {<<>>, <<{}>>}
    /\ \E surface \in Surfaces : said' = [said EXCEPT ![s] = Append(@, surface)]
    /\ UNCHANGED <<code, late, row>>

Refuse(s) ==
    /\ Talks(s)
    /\ \E c \in Codes : code' = [code EXCEPT ![s] = c]
    /\ UNCHANGED <<said, late, row>>

RunLate(s) ==
    /\ late' = [late EXCEPT ![s] = TRUE]
    /\ UNCHANGED <<said, code, row>>

\* A row is written once.
Write(s, state, status, tools) ==
    /\ row[s] = Blank
    /\ row' = [row EXCEPT ![s] = [state |-> state, code |-> status, tools |-> tools]]
    /\ UNCHANGED <<said, code, late>>

\* The tools listed last; that there are none is believed when it was said twice.
Answered(s) ==
    /\ said[s] \notin {<<>>, <<{}>>}
    /\ Write(s, "ok", 0, said[s][Len(said[s])])

\* "`HTTP 401` when the upstream answered a status, ..." (docs/directory.md:41)
RefusedWith(s) == code[s] # 0 /\ Write(s, "HTTP", code[s], {})

\* "... `timeout` when it ran past the deadline, ..."
TimedOut(s) == code[s] = 0 /\ late[s] /\ Write(s, "timeout", 0, {})

\* "... and the transport's own words otherwise".
InWords(s) == code[s] = 0 /\ ~late[s] /\ Write(s, "words", 0, {})

Next ==
    \E s \in Servers :
        \/ List(s) \/ Refuse(s) \/ RunLate(s)
        \/ Answered(s) \/ RefusedWith(s) \/ TimedOut(s) \/ InWords(s)

Spec == Init /\ [][Next]_surveyed
=============================================================================
