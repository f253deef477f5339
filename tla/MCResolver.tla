---------------------------- MODULE MCResolver ----------------------------
(* Three calls over three names, one of them in two spellings: every two   *)
(* of the calls may ask for the same name, and all three for different     *)
(* ones, which the cache of two entries does not hold.                     *)
EXTENDS Resolver

CONSTANTS c1, c2, c3, a1, x, y, z

MCKeyOf ==
    [n \in Names |-> CASE n = "X" -> x [] n = "x" -> x
                       [] n = "y" -> y [] OTHER -> z]

MCAsks ==
    [c \in Callers |-> CASE c = c1 -> {"x"}
                         [] c = c2 -> {"X", "y"} [] OTHER -> {"x", "z"}]
=============================================================================
