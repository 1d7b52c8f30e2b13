------------------------------ MODULE MCMiniMd ------------------------------
EXTENDS MiniMd

(* Three particles in all ways to be near each other or not, and with two  *)
(* of them in one place.                                                   *)
MCGeometries(n) ==
  [Pairs(n) -> {"near", "far"}] \cup {[p \in Pairs(n) |-> IF p[1] = 0 /\ p[2] = 1 THEN "same" ELSE "near"]}
=============================================================================
