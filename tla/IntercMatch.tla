---------------------------- MODULE IntercMatch ----------------------------
(***************************************************************************)
(* Rule matching of the interception library (interc/ldlib.c): the pure    *)
(* part of Mode 3 routing.  A rule table is a sequence of records, in the  *)
(* order load_rules appended them; sizes and return addresses are natural  *)
(* numbers and nodes are integers, as in the C.                            *)
(***************************************************************************)
EXTENDS Integers, Sequences, FiniteSetsExt

(* What match_size and match_addr return when no rule matches. *)
NoMatch == -1

(* The node number load_rules stores for the keyword 'local'. *)
LocalNode == -2

(* Node of the first rule of a table that passes a test. *)
FirstMatch(rules, Passes(_)) ==
  LET hits == {i \in DOMAIN rules : Passes(rules[i])}
  IN  IF hits = {} THEN NoMatch ELSE rules[Min(hits)].node

(* Mutant: the upper bound taken as inclusive. *)
SizeInRule_Inclusive(r, sz) ==
  /\ r.min_size = 0 \/ sz >= r.min_size
  /\ r.max_size = 0 \/ sz <= r.max_size

(* A zero bound is no bound; the upper bound is exclusive. *)
SizeInRule(r, sz) ==
  /\ r.min_size = 0 \/ sz >= r.min_size
  /\ r.max_size = 0 \/ sz < r.max_size

match_size(sizeRules, sz) ==
  LET passes(r) == SizeInRule(r, sz) IN FirstMatch(sizeRules, passes)

match_addr(addrRules, caller) ==
  LET passes(r) == caller >= r.start /\ caller < r.end
  IN  FirstMatch(addrRules, passes)

(* home is thread_home_node (-1 before it is set), cpuNode what            *)
(* sched_getcpu and numa_node_of_cpu answer for the calling thread.        *)
resolve_node_relative(node, home, cpuNode) ==
  IF node # LocalNode THEN node ELSE IF home < 0 THEN cpuNode ELSE home

(* Size rules are consulted first, then rules on the caller's address. *)
resolve_node(layer2, sizeRules, addrRules, sz, caller, home, cpuNode) ==
  LET bySize == match_size(sizeRules, sz)
      byAddr == match_addr(addrRules, caller)
  IN  CASE ~layer2     -> NoMatch
        [] layer2 /\ bySize >= 0 -> resolve_node_relative(bySize, home, cpuNode)
        [] layer2 /\ bySize < 0 /\ byAddr >= 0 ->
             resolve_node_relative(byAddr, home, cpuNode)
        [] OTHER -> NoMatch

=============================================================================
