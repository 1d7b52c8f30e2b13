----------------------------- MODULE PacToInterc -----------------------------
(***************************************************************************)
(* The pure part of pac_to_interc.py: from page_pac.csv and the log of     *)
(* allocations to the lines of a configuration.  Addresses and sizes count *)
(* units of which PageUnits make a page of 4096 bytes.                     *)
(***************************************************************************)
EXTENDS PacScore

CONSTANT BigRange   \* size from which a range may give a size_gt line (100 MB)

PageUnits == 2

-----------------------------------------------------------------------------
(* aggregate_page_ranges *)

(* Mutant: a page that does not follow goes on with the range, too. *)
Extend_Gap(state, p) ==
  [state EXCEPT !.now = [@ EXCEPT !.end = p.page + 1, !.pages = @ + 1, !.n = @ + p.n]]

NewRange(p) == [start |-> p.page, end |-> p.page + 1, tier |-> p.tier, pages |-> 1, n |-> p.n]

Longer(r, p) ==
  [start |-> r.start, end |-> r.end + 1, tier |-> r.tier, pages |-> r.pages + 1, n |-> r.n + p.n]

(* A page that follows the range is added to it; another one begins a new  *)
(* range.                                                                  *)
Extend(state, p) ==
  IF p.page = state.now.end
  THEN [state EXCEPT !.now = Longer(@, p)]
  ELSE [done |-> state.done \cup {state.now}, now |-> NewRange(p)]

TierPages(rows, tier) == {rows[k].page : k \in {j \in DOMAIN rows : rows[j].tier = tier}}
RowOf(rows, page) == rows[CHOOSE k \in DOMAIN rows : rows[k].page = page]

AfterPages(rows, sorted) ==
  LET after[k \in DOMAIN sorted] ==
        IF k = 1 THEN [done |-> {}, now |-> NewRange(RowOf(rows, sorted[1]))]
        ELSE Extend(after[k - 1], RowOf(rows, sorted[k]))
  IN  after

TierRanges(rows, tier) ==
  LET sorted == InOrder(TierPages(rows, tier))
      last == AfterPages(rows, sorted)[Len(sorted)]
  IN  last.done \cup {last.now}

aggregate_page_ranges(rows) ==
  UNION {TierRanges(rows, tier) : tier \in {rows[k].tier : k \in DOMAIN rows}}

-----------------------------------------------------------------------------
(* cross_correlate *)

PagesOf(a) == a.addr \div PageUnits .. (a.addr + a.size + PageUnits - 1) \div PageUnits - 1

PagesInTier(rows, a, tier) ==
  Cardinality({k \in DOMAIN rows : rows[k].page \in PagesOf(a) /\ rows[k].tier = tier})

(* HOT above 70 percent of hot pages, COLD below 30. *)
TierOf(rows, a) ==
  LET hot == 10 * PagesInTier(rows, a, "HOT")
      total == Cardinality(PagesOf(a))
  IN  CASE hot > 7 * total -> "HOT" [] hot < 3 * total -> "COLD" [] OTHER -> "WARM"

(* Calls of free (type 0) and small blocks are skipped.  Nothing depends   *)
(* on the order of the rest.                                               *)
cross_correlate(rows, allocations) ==
  {[size |-> a.size, tier |-> TierOf(rows, a)] :
     a \in {b \in ToSet(allocations) : b.type # 0 /\ b.size >= PageUnits}}

-----------------------------------------------------------------------------
(* The lines of the configuration; comments are left out. *)

Line(kind, lo, hi, node) == [kind |-> kind, lo |-> lo, hi |-> hi, node |-> node]

Sizes(alloc_pac, tier) == {a.size : a \in {b \in alloc_pac : b.tier = tier}}

(* Mutant: warm blocks count as hot. *)
generate_interc_conf_alloc_based_Warm(alloc_pac, fast_node) ==
  LET hot == Sizes(alloc_pac, "HOT") \cup Sizes(alloc_pac, "WARM")
  IN  IF hot = {} THEN <<>> ELSE <<Line("size_range", Min(hot), Max(hot), fast_node)>>

(* Cold blocks get no line. *)
generate_interc_conf_alloc_based(alloc_pac, fast_node) ==
  LET hot == Sizes(alloc_pac, "HOT")
  IN  IF hot = {} THEN <<>> ELSE <<Line("size_range", Min(hot), Max(hot), fast_node)>>

(* The size of the range with which the larger ranges have 70 percent of   *)
(* the memory.                                                             *)
size_threshold(ranges) ==
  LET size(r) == (r.end - r.start) * PageUnits
      sorted == SetToSortSeq(ranges, LAMBDA x, y : size(x) > size(y))
      memory(k) == Sum([j \in 1..k |-> size(sorted[j])], 1..k)
  IN  size(sorted[Min({k \in DOMAIN sorted : 10 * memory(k) >= 7 * memory(Len(sorted))})])

generate_interc_conf_size_based(ranges, fast_node) ==
  LET t == size_threshold(ranges)
  IN  IF t >= BigRange THEN <<Line("size_gt", t, 0, fast_node)>> ELSE <<>>
=============================================================================
