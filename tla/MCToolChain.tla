---------------------------- MODULE MCToolChain ----------------------------
(* ToolChain with three keys that can be held, two of them of arguments a   *)
(* wrapper may refuse; `plain` and `junk` are what a tool without a cache is  *)
(* called with, `other` what a wrapper or the handler refuses.                *)
EXTENDS ToolChain, TLC

CONSTANTS a, d, plain, junk, blank, other, ka, kb, kd

MCKeyOf ==
    LET key == (a :> ka) @@ (blank :> kb) @@ (d :> kd)
    IN  [r \in Requests |-> IF r \in DOMAIN key THEN key[r] ELSE NoKey]

MCControls ==
    {{"reject-empty-argument", "cache", "reject-empty", "query-pin"},
     {"cache", "confirm"}, {"cache", "reject-empty"}, {"confirm", "query-pin"},
     {"argument-pin", "confirm"}, {"argument-pin"}}

CallSymmetry == Permutations(Calls)
=============================================================================
