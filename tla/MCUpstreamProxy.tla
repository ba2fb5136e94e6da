-------------------------- MODULE MCUpstreamProxy --------------------------
(***************************************************************************)
(* Instances of UpstreamProxy for TLC.                                     *)
(***************************************************************************)
EXTENDS UpstreamProxy, TLC

\* The upstream serves any contract for any tool, or drops tools.
AllSurfaces == [Tools -> Contracts \cup {Absent}]

\* The reviewed surface, one with a changed tool, one with a tool missing:
\* whichever of them is up at startup becomes the baseline, if it is complete.
SomeSurfaces ==
    LET reviewedSurface == [t \in Tools |-> CHOOSE k \in Contracts : TRUE]
        one == CHOOSE t \in Tools : TRUE
    IN  {reviewedSurface, [reviewedSurface EXCEPT ![one] = Absent]} \cup
        {[reviewedSurface EXCEPT ![one] = k] : k \in Contracts}

\* The upstream serves one surface throughout: what is left is sessions.
OneSurface == {[t \in Tools |-> CHOOSE k \in Contracts : TRUE]}

CallSymmetry == Permutations(Calls)
=============================================================================
