---------------------------- MODULE MCIntercRules ----------------------------
EXTENDS IntercRules

Line(kind, lo, hi, node) == [kind |-> kind, lo |-> lo, hi |-> hi, node |-> node]

(* Overlapping rules, a zero bound, the keyword 'local', a negative node.  *)
MCLines ==
  {Line("size_range", 3, 0, 0), Line("size_range", 0, 4, 1),
   Line("size_range", 2, 4, LocalWord), Line("size_range", 3, 0, -1),
   Line("size_gt", 2, 0, 0), Line("addr", 1, 3, 2), Line("addr", 2, 4, 1),
   Line("name", 0, 0, 0), Line("skip", 0, 0, 0)}

(* Those of them the library parses as they are meant.                     *)
MCParsedLines == {l \in MCLines : l.kind \in {"size_range", "addr"}}

MCRequests == {[size |-> s, caller |-> c] : s \in {1, 3, 4}, c \in {1, 2}}
MCHome == [t \in Threads |-> 1]
MCCpuNode == [t \in Threads |-> 0]
=============================================================================
