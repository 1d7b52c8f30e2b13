---------------------------- MODULE MCPacPipeline ----------------------------
EXTENDS PacPipeline

Sample(page, lat, sve, vaLast, ts) ==
  [page |-> page, lat |-> lat, sve |-> sve, vaLast |-> vaLast, ts |-> ts]

Samples ==
  {Sample(p, p + 3, b, b, ts) : p \in {1, 2, Kernel}, b \in BOOLEAN, ts \in BOOLEAN}

(* Short dumps of all kinds of samples; long ones in which three or four   *)
(* pages have the shares that the knee looks for.                          *)
Short == UNION {[1..n -> Samples] : n \in 1..3}
Long ==
  {[k \in 1..20 |->
      LET p == IF k <= c THEN 1 ELSE IF k <= c + d THEN 2 ELSE IF k <= 19 THEN 4 ELSE 5
      IN  Sample(p, lat[p], p \in sve, FALSE, FALSE)] :
     c \in {1, 4, 12, 16}, d \in {1, 3}, lat \in [{1, 2, 4, 5} -> {1, 9}],
     sve \in {{}, {1}, {4, 5}}}

MCDumps == Short \cup Long

(* Hot and cold blocks of equal and different sizes, one that is too small *)
(* and a call of free.                                                     *)
Allocations ==
  {[addr |-> 2, size |-> s, type |-> 1] : s \in {1, 3, 4, 6}}
    \cup {[addr |-> 8, size |-> 3, type |-> t] : t \in {0, 1}}
MCLogs == UNION {[1..n -> Allocations] : n \in 1..3}
=============================================================================
