----------------------------- MODULE PacPipeline -----------------------------
(***************************************************************************)
(* From samples to routing: spe_page_pac.py parses a perf dump, alone or   *)
(* with a pool of workers that share the file, and writes page_pac.csv;    *)
(* pac_to_interc.py turns that and the log of allocations into a           *)
(* configuration; the interception library of a later run of the program   *)
(* loads it and routes allocations by it (IntercMatch).                    *)
(***************************************************************************)
EXTENDS PacToInterc, IntercMatch

CONSTANTS
  Dumps,            \* sequences of samples
  Logs,             \* sequences of allocations
  Nodes,            \* what the user may give as fast node
  MaxWorkers,       \* 0 workers: the dump comes through a pipe
  MinParallel,      \* size from which a file is split (10 MB)
  MaxSize,          \* bound on the sizes the program asks for
  LocalWord         \* the node 'local'

ASSUME PipelineAssumption ==
  /\ UserPages \subseteq Nat /\ IsFiniteSet(UserPages) /\ Junk \in Nat \ UserPages
  /\ Dumps \subseteq Seq([page : UserPages \cup {Kernel}, lat : Nat,
                          sve : BOOLEAN, vaLast : BOOLEAN, ts : BOOLEAN])
  /\ Logs \subseteq Seq([addr : Nat, size : Nat, type : Nat])
  /\ MaxScan \in Nat \ {0} /\ MaxWorkers \in Nat /\ BigRange \in Nat /\ MaxSize \in Nat
  /\ Nodes \subseteq Nat \cup {LocalWord} /\ LocalWord \notin Int

VARIABLES
  stage,
  dump, bare, workers,          \* the input of spe_page_pac
  parts,            \* chunks that were parsed, and what came of each
  stats,            \* the pages
  csv,              \* page_pac.csv
  alloc_pac, fast_node, conf,   \* what pac_to_interc made of it
  size_rules        \* of the program that runs with conf

input == <<dump, bare, workers>>
generated == <<alloc_pac, fast_node, conf>>
pipeline == <<stage, input, parts, stats, csv, generated, size_rules>>

(* The packets of a sample, in the orders in which they come. *)
SampleLines(s) ==
  LET kinds == IF s.vaLast THEN <<"PC", "OP", "LAT", "VA", "TS">>
                           ELSE <<"PC", "VA", "OP", "LAT", "TS">>
  IN  [k \in 1..(IF s.ts THEN 5 ELSE 4) |->
         [kind |-> kinds[k], page |-> s.page, lat |-> s.lat, sve |-> s.sve]]

Lines == FlattenSeq([k \in DOMAIN dump |-> SampleLines(dump[k])])

Chunks == chunks(Lines, workers, bare)

(* Is the file worth a pool, and can it be split? *)
Parallel == workers > 0 /\ Size(Lines) >= MinParallel /\ Len(Chunks) >= 2

PipelineInit ==
  /\ stage = "parse"
  /\ dump \in Dumps /\ bare \in BOOLEAN /\ workers \in 0..MaxWorkers
  /\ parts = <<>> /\ stats = NoStats /\ csv = <<>>
  /\ alloc_pac = {} /\ fast_node = LocalWord /\ conf = <<>>
  /\ size_rules = <<>>

GoOn(from, to) == stage = from /\ stage' = to

-----------------------------------------------------------------------------
(* spe_page_pac.py *)

ParseStream ==
  /\ GoOn("parse", "parsed")
  /\ ~Parallel
  /\ stats' = parse_stream(Lines)
  /\ UNCHANGED <<input, parts, csv, generated, size_rules>>

StartPool ==
  /\ GoOn("parse", "pool")
  /\ Parallel
  /\ UNCHANGED <<input, parts, stats, csv, generated, size_rules>>

(* The workers take the chunks in any order. *)
ParseChunk(i) ==
  /\ GoOn("pool", "pool")
  /\ i \in DOMAIN Chunks \ DOMAIN parts
  /\ parts' = [j \in DOMAIN parts \cup {i} |->
                 IF j = i THEN _parse_chunk_worker(Lines, Chunks[i], bare) ELSE parts[j]]
  /\ UNCHANGED <<input, stats, csv, generated, size_rules>>

Merge ==
  /\ GoOn("pool", "parsed")
  /\ DOMAIN parts = DOMAIN Chunks
  /\ stats' = merged(parts)
  /\ UNCHANGED <<input, parts, csv, generated, size_rules>>

(* The dump is not needed any more, nor does the tool get much farther.    *)
generate_report ==
  /\ GoOn("parsed", "csv")
  /\ stats # NoStats
  /\ \E rows \in compute_pac_scores(stats) : csv' = page_pac(rows)
  /\ dump' = <<>> /\ bare' = FALSE /\ workers' = 0
  /\ parts' = <<>> /\ stats' = NoStats
  /\ UNCHANGED <<generated, size_rules>>

NoRecords ==
  /\ GoOn("parsed", "failed")
  /\ stats = NoStats
  /\ UNCHANGED <<input, parts, stats, csv, generated, size_rules>>

-----------------------------------------------------------------------------
(* pac_to_interc.py *)

GenerateAllocBased(log, node) ==
  /\ GoOn("csv", "conf")
  /\ cross_correlate(csv, log) # {}
  /\ alloc_pac' = cross_correlate(csv, log)
  /\ fast_node' = node
  /\ conf' = generate_interc_conf_alloc_based(alloc_pac', node)
  /\ UNCHANGED <<input, parts, stats, csv, size_rules>>

(* Asked for, or without a log that can be read, or with one that has      *)
(* nothing of interest.                                                    *)
GenerateSizeBased(node) ==
  /\ GoOn("csv", "conf")
  /\ fast_node' = node
  /\ conf' = generate_interc_conf_size_based(aggregate_page_ranges(csv), node)
  /\ UNCHANGED <<input, parts, stats, csv, alloc_pac, size_rules>>

-----------------------------------------------------------------------------
(* The program runs with the configuration. *)

(* The lines that load_rules takes from it: a size_gt line is none of them.*)
NodeOf(l) == IF l.node = LocalWord THEN LocalNode ELSE l.node
SizeRules(lines) ==
  LET rule(l) == [min_size |-> l.lo, max_size |-> l.hi, node |-> NodeOf(l)]
      taken == InOrder({k \in DOMAIN lines : lines[k].kind = "size_range"})
  IN  [k \in DOMAIN taken |-> rule(lines[taken[k]])]

load_rules ==
  /\ GoOn("conf", "run")
  /\ size_rules' = SizeRules(conf)
  /\ UNCHANGED <<input, parts, stats, csv, generated>>

ROUTE_THRESHOLD == PageUnits

(* Where malloc puts a block: a node, or NoMatch for libc. *)
malloc(sz) ==
  IF sz > ROUTE_THRESHOLD
  THEN resolve_node(conf # <<>>, size_rules, <<>>, sz, 0, 0, 0)
  ELSE NoMatch

PipelineNext ==
  \/ ParseStream \/ StartPool \/ Merge \/ generate_report \/ NoRecords
  \/ \E i \in DOMAIN Chunks : ParseChunk(i)
  \/ \E node \in Nodes : GenerateSizeBased(node) \/ \E log \in Logs : GenerateAllocBased(log, node)
  \/ load_rules

PipelineSpec == PipelineInit /\ [][PipelineNext]_pipeline

-----------------------------------------------------------------------------
(* Places inside the file where one worker ends and the next one begins    *)
(* although no sample begins there.                                        *)
Cuts ==
  {Chunks[i].to : i \in DOMAIN Chunks} \
    ({p \in Int : p >= Size(Lines)} \cup
     {LineUnits * (k - 1) : k \in {j \in DOMAIN Lines : Lines[j].kind = "PC"}})

(* However the file is split - in the midst of samples, of lines and of    *)
(* numbers - and in whatever order the workers finish, no access is        *)
(* counted twice or for another page of the program, no latency either,    *)
(* and each cut loses one access at most or invents one page.              *)
CountsSurviveChunks ==
  stage = "parsed" =>
    LET whole == parse_stream(Lines)
        lost == [p \in UserPages |-> whole[p].n - stats[p].n]
        cuts == IF parts = <<>> THEN 0 ELSE Cardinality(Cuts)
    IN  /\ \A p \in UserPages : lost[p] >= 0 /\ stats[p].lat <= whole[p].lat
        /\ Sum(lost, UserPages) <= cuts /\ stats[Junk].n <= cuts
        /\ cuts = 0 => \A p \in Pages : stats[p].lat = whole[p].lat

InTiers(tiers) == {k \in DOMAIN csv : csv[k].tier \in tiers}

(* The rows that score more than the last ones of these tiers. *)
BetterThan(tiers) == {k \in DOMAIN csv : \E j \in InTiers(tiers) :
                        /\ csv[k].pac > csv[j].pac
                        /\ \A i \in InTiers(tiers) : csv[i].pac >= csv[j].pac}

(* The hot pages have at least 80 percent of the accesses and with the     *)
(* warm ones 95; and no fewer of the best pages would have done.           *)
HotPagesCover ==
  csv # <<>> =>
    /\ 100 * AccessesAt(csv, InTiers({"HOT"})) >= 80 * Accesses(csv)
    /\ 100 * AccessesAt(csv, InTiers({"HOT", "WARM"})) >= 95 * Accesses(csv)
    /\ Len(csv) >= 3 =>
         /\ 100 * AccessesAt(csv, BetterThan({"HOT"})) < 80 * Accesses(csv)
         /\ 100 * AccessesAt(csv, BetterThan({"HOT", "WARM"})) < 95 * Accesses(csv)

(* The ranges of a tier are its pages, each in one range, with all their   *)
(* accesses; and pages that follow each other are in the same range.       *)
RangesPartition ==
  csv # <<>> =>
    LET ranges == aggregate_page_ranges(csv)
        rowsOf(r) == {k \in InTiers({r.tier}) : csv[k].page \in r.start..r.end - 1}
    IN  /\ \A r \in ranges : /\ r.pages = r.end - r.start /\ r.pages = Cardinality(rowsOf(r))
                             /\ r.n = AccessesAt(csv, rowsOf(r))
        /\ \A k \in DOMAIN csv : \E r \in ranges :
             r.tier = csv[k].tier /\ csv[k].page \in r.start..r.end - 1
        /\ \A r, s \in ranges : r.tier = s.tier /\ r.start <= s.start /\ r # s => r.end < s.start

Hot == Sizes(alloc_pac, "HOT")

(* With allocations to go by and a numbered fast node: no size is sent     *)
(* anywhere else; what is sent there is above the threshold and lies       *)
(* between the sizes that were hot; and of those above the threshold all   *)
(* are sent there but the largest.                                         *)
RoutedAreHotSized ==
  stage = "run" /\ alloc_pac # {} /\ fast_node # LocalWord =>
    \A sz \in 1..MaxSize :
      /\ malloc(sz) \in {NoMatch, fast_node}
      /\ malloc(sz) = fast_node =>
           sz > ROUTE_THRESHOLD /\ Hot # {} /\ Min(Hot) <= sz /\ sz <= Max(Hot)
      /\ sz \in Hot /\ sz > ROUTE_THRESHOLD /\ sz < Max(Hot) => malloc(sz) = fast_node
=============================================================================
