---------------------------- MODULE MCIntercAlloc ----------------------------
EXTENDS IntercAlloc

Match == INSTANCE IntercMatch

(* A size of 1 is below the threshold; the rule file has one line,         *)
(* size_range:3-4 = 0.                                                     *)
MCRules == <<[min_size |-> 3, max_size |-> 4, node |-> 0]>>
MCRouted ==
  {s \in Sizes : s > 1 /\ Match!resolve_node(TRUE, MCRules, <<>>, s, 0, -1, 0) >= 0}

(* All blocks share a bucket.                                              *)
MCHash == [a \in Addrs |-> 0]

(* All that is checked is said of the time until a thread is overtaken: no *)
(* state after it is explored.                                             *)
MCUntilOvertaken == ~overtaken
=============================================================================
