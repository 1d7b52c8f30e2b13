--------------------------- MODULE MCIntercThreads ---------------------------
EXTENDS IntercThreads

(* The nodes are listed in an order that is not theirs, and one of them    *)
(* has memory only, as in KUMF_NODES=1,2,0.                                *)
MCNodes == <<1, 2, 0>>
MCCpus == [n \in 0..2 |-> IF n = 2 THEN 0 ELSE 1]
=============================================================================
