----------------------------- MODULE MCCompose ------------------------------
(***************************************************************************)
(* Compose over four guardfiles: chains, diamonds, cycles, a file that is  *)
(* missing, and towers that are too deep, with a few nodes each.           *)
(***************************************************************************)
EXTENDS Compose

CONSTANTS mid, other, base, t

None == <<>>
States(k) == <<[kind |-> k, tool |-> t]>>

MCShapes ==
    {[f \in Files |->
        CASE f = Root -> r [] f = mid -> m [] f = other -> o [] OTHER -> b] :
        r \in {None, <<mid>>, <<mid, other>>},
        m \in {None, <<base>>, <<other>>, <<Root>>},
        o \in {None, <<base>>, <<Missing>>},
        b \in {None, <<other>>}}

MCStatements ==
    {[f \in Files |->
        CASE f = Root -> r [] f = mid -> m [] f = base -> b [] OTHER -> None] :
        r \in {None, States("confirm"), States("cache"), States("withhold"),
               States("cache") \o States("confirm")},
        m \in {None, States("confirm"), States("cache"), States("withhold")},
        b \in {None, States("confirm")}}

MCLimits ==
    {[f \in Files |-> CASE f = Root -> r [] f = base -> b [] OTHER -> 0] :
        r \in {0, 1}, b \in {0, 1, 2}}
=============================================================================
