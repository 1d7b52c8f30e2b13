------------------------------- MODULE PacScore -------------------------------
(***************************************************************************)
(* The pure part of spe_page_pac.py: from the text of a perf dump to       *)
(* scores and tiers of pages.                                              *)
(*                                                                         *)
(* A dump is a sequence of lines, each a packet or something else.  Every  *)
(* line takes LineUnits units of the file: in the first is all that stands *)
(* before the packet's operand - with the bytes perf prints ahead of it,   *)
(* unless the dump is bare -, the operand is in the others.  Addresses are *)
(* reduced to page numbers.                                                *)
(***************************************************************************)
EXTENDS Integers, SequencesExt

CONSTANTS
  UserPages,        \* the pages of the program that was sampled
  Junk,             \* the page that an address cut short names
  MaxScan           \* lines read in search of a boundary (10000)

LineUnits == 3

Pages == UserPages \cup {Junk}

(* The other pages a sample can name: none yet, and the kernel's. *)
NoPage == -1
Kernel == -2

Sum(f, S) == MapThenSumSet(LAMBDA x : f[x], S)

(* A finite set of numbers, sorted. *)
InOrder(S) ==
  [k \in 1..Cardinality(S) |-> CHOOSE x \in S : Cardinality({y \in S : y < x}) = k - 1]

-----------------------------------------------------------------------------
(* parse_stream and _parse_chunk_worker *)

NoStats == [p \in Pages |-> [n |-> 0, lat |-> 0, sve |-> 0]]
Empty == [page |-> NoPage, lat |-> 0, sve |-> FALSE]

(* A sample without an address and one in the kernel are dropped. *)
flush_sample(stats, s) ==
  IF s.page \notin Pages THEN stats
  ELSE [stats EXCEPT ![s.page] = [n   |-> @.n + 1,
                                  lat |-> @.lat + s.lat,
                                  sve |-> @.sve + IF s.sve THEN 1 ELSE 0]]

(* What a line does to the sample that is being read and to the pages.     *)
(* The workers store the kind of an access under a name that nobody reads. *)
ParseLine(state, line, worker) ==
  CASE line.kind \in {"PC", "TS"} ->
         [sample |-> Empty, stats |-> flush_sample(state.stats, state.sample)]
    [] line.kind = "VA"  -> [state EXCEPT !.sample.page = line.page]
    [] line.kind = "LAT" -> [state EXCEPT !.sample.lat = line.lat]
    [] line.kind = "OP" /\ ~worker -> [state EXCEPT !.sample.sve = @ \/ line.sve]
    [] OTHER -> state

AfterEach(lines, worker) ==
  LET after[k \in 0..Len(lines)] ==
        IF k = 0 THEN [sample |-> Empty, stats |-> NoStats]
        ELSE ParseLine(after[k - 1], lines[k], worker)
  IN  after
AfterLines(lines, worker) == AfterEach(lines, worker)[Len(lines)]

(* Mutant: the sample that is being read at the end is forgotten. *)
LastFlush_Forgotten(state) == state.stats
LastFlush(state) == flush_sample(state.stats, state.sample)

parse_stream(lines) == LastFlush(AfterLines(lines, FALSE))

-----------------------------------------------------------------------------
(* parse_file_parallel *)

Size(lines) == LineUnits * Len(lines)
LineAt(pos) == pos \div LineUnits + 1

(* What a reader of units from..to-1 of a line makes of it.  A line of a   *)
(* bare dump whose start is cut off names no packet; a number cut short is *)
(* still a number, but a latency loses the word that says which one it is. *)
Piece(line, from, to, bare) ==
  LET named == from = 0 \/ (from = 1 /\ ~bare)
      cut == to = LineUnits - 1
  IN  CASE named /\ to = LineUnits -> line
        [] named /\ cut /\ line.kind \in {"PC", "TS"} -> line
        [] named /\ cut /\ line.kind = "VA" -> [line EXCEPT !.page = Junk]
        [] OTHER -> [line EXCEPT !.kind = "other"]

ChunkLines(lines, chunk, bare) ==
  LET to == Min({chunk.to, Size(lines)})
      first == LineAt(chunk.from)
  IN  [k \in 1..(LineAt(to - 1) - first + 1) |->
         LET start == LineUnits * (first + k - 2)
         IN  Piece(lines[first + k - 1], Max({chunk.from - start, 0}),
                   Min({to - start, LineUnits}), bare)]

(* Worker i would like to start at offset.  Only a line that begins with   *)
(* TS ends the search, which the lines of perf do not; it then starts at   *)
(* twice that offset, wherever that is.                                    *)
Boundary(lines, i, chunk_size, bare) ==
  LET offset == i * chunk_size
      found == {k \in LineAt(offset)..Min({LineAt(offset) + MaxScan - 1, Len(lines)}) :
                  bare /\ lines[k].kind = "TS" /\ LineUnits * (k - 1) >= offset}
  IN  IF found # {} THEN LineUnits * Min(found) ELSE offset + chunk_size * i

boundaries(lines, workers, bare) ==
  LET chunk_size == Size(lines) \div workers
  IN  InOrder({0, Size(lines)} \cup
              {Boundary(lines, i, chunk_size, bare) : i \in 1..workers - 1})

chunks(lines, workers, bare) ==
  LET b == boundaries(lines, workers, bare)
  IN  [i \in 1..Len(b) - 1 |-> [from |-> b[i], to |-> b[i + 1]]]

_parse_chunk_worker(lines, chunk, bare) ==
  LastFlush(AfterLines(ChunkLines(lines, chunk, bare), TRUE))

merged(parts) ==
  [p \in Pages |-> [n   |-> Sum([i \in DOMAIN parts |-> parts[i][p].n], DOMAIN parts),
                    lat |-> Sum([i \in DOMAIN parts |-> parts[i][p].lat], DOMAIN parts),
                    sve |-> Sum([i \in DOMAIN parts |-> parts[i][p].sve], DOMAIN parts)]]

-----------------------------------------------------------------------------
(* compute_pac_scores, detect_knee and the table of generate_report *)

(* n / d to the nearest integer, halves to the even one. *)
Round(n, d) ==
  LET q == n \div d  r == 2 * (n % d)
  IN  IF r > d \/ (r = d /\ q % 2 = 1) THEN q + 1 ELSE q

(* access_count * avg_lat_tot / (1 + sve_ratio), in tenths. *)
pac(s) == Round(10 * s.lat * s.n, s.n + s.sve)

(* The rows, best first; of equal ones either may be first. *)
compute_pac_scores(stats) ==
  LET scored == {p \in Pages : stats[p].n > 0}
      rows == {[page |-> p, n |-> stats[p].n, pac |-> pac(stats[p])] : p \in scored}
  IN  {s \in SetToSeqs(rows) : \A j, k \in DOMAIN s : j < k => s[j].pac >= s[k].pac}

AccessesAt(rows, K) == Sum([k \in K |-> rows[k].n], K)
Accesses(rows) == AccessesAt(rows, DOMAIN rows)

(* The first place at which rows have percent of the accesses; mutant: one *)
(* place early.                                                            *)
Place_Early(rows, percent) ==
  Max({1, Min({k \in DOMAIN rows :
                 100 * AccessesAt(rows, 1..k) >= percent * Accesses(rows)}) - 1})
Place(rows, percent) ==
  Min({k \in DOMAIN rows : 100 * AccessesAt(rows, 1..k) >= percent * Accesses(rows)})

(* Of one or two pages none scores less than the hot threshold. *)
detect_knee(rows) ==
  LET mid == rows[Len(rows) \div 2 + 1].pac
  IN  IF Len(rows) < 3 THEN [hot |-> mid, warm |-> mid \div 2]
      ELSE [hot |-> rows[Place(rows, 80)].pac, warm |-> rows[Place(rows, 95)].pac]

Tier(score, knee) ==
  IF score >= knee.hot THEN "HOT" ELSE IF score >= knee.warm THEN "WARM" ELSE "COLD"

page_pac(rows) ==
  LET knee == detect_knee(rows)
  IN  [k \in DOMAIN rows |-> [page |-> rows[k].page, n |-> rows[k].n, pac |-> rows[k].pac,
                              tier |-> Tier(rows[k].pac, knee)]]
=============================================================================
