--------------------------- MODULE MCOnceEffects ---------------------------
(***************************************************************************)
(* Instances of OnceEffects for TLC.                                       *)
(***************************************************************************)
EXTENDS OnceEffects, TLC

CONSTANTS i1, i2, i3, c1, c2, c3, c4

\* i2 is on another host.
MCTwoHosts == [i \in Insts |-> IF i = i2 THEN "other" ELSE "host"]

\* Two concurrent calls inside i1 and one in each of the others.
MCMixed == [c \in Calls |-> CASE c = c3 -> i2 [] c = c4 -> i3 [] OTHER -> i1]
=============================================================================
