---------------------------- MODULE IntercRules ----------------------------
(***************************************************************************)
(* Loading and use of the routing rules of interc/ldlib.c.                 *)
(*                                                                         *)
(* The library's constructor (kumf_init) calls load_rules; malloc and      *)
(* calloc call it again before they resolve a node.  Threads started by    *)
(* the constructors of other libraries already allocate while the rules    *)
(* are being read, so every thread here runs at any time.  The file is     *)
(* a sequence of lines; the reader takes one line per step.                *)
(***************************************************************************)
EXTENDS IntercMatch, SequencesExt

CONSTANTS
  Threads,        \* threads that allocate
  Loader,         \* the thread that runs kumf_init
  Lines,          \* the lines a KUMF_CONF file may hold
  MaxFile,        \* bound: lines of the file
  MaxAddrRules,   \* MAX_ADDR_RULES
  MaxNameRules,   \* MAX_NAME_RULES, the capacity of size_rules as well
  RouteThreshold, \* ROUTE_THRESHOLD
  Requests,       \* what threads ask for: [size |-> , caller |-> ]
  Home,           \* thread_home_node of each thread, -1 when not set
  CpuNode,        \* node of the CPU each thread runs on
  LocalWord,      \* the word 'local' in the node field of a line
  NoFile,         \* fopen failed
  NoThread        \* rules_lock is free

ASSUME RulesAssumption ==
  /\ Loader \notin Threads
  /\ NoThread \notin Threads \cup {Loader}
  /\ {MaxAddrRules, MaxNameRules, MaxFile} \subseteq Nat
  /\ \A l \in Lines : l.lo \in Nat /\ l.hi \in Nat /\ l.node \in Int \cup {LocalWord}
  /\ \A r \in Requests : r.size \in Nat /\ r.caller \in Nat
  /\ LocalWord \notin Int

VARIABLES
  conf,              \* the file on disk: a sequence of lines, or NoFile
  pos,               \* lines fgets has returned
  addr_rules, size_rules, name_rules,
  rules_loaded, layer2_active, routing_ever_used,
  rules_lock,        \* owner of the mutex
  pc,                \* where each thread is
  req,               \* the request each thread is serving
  result             \* the node resolve_node returned to it

tables == <<addr_rules, size_rules, name_rules>>
vars == <<conf, pos, tables, rules_loaded, layer2_active, routing_ever_used,
          rules_lock, pc, req, result>>

Callers == Threads \cup {Loader}

Locations == {"idle", "check", "lock", "recheck", "read", "publish",
              "loaded", "unlock", "resolve", "libc", "numa"}

TypeOK ==
  /\ conf = NoFile \/ conf \in BoundedSeq(Lines, MaxFile)
  /\ pos \in 0..MaxFile
  /\ Len(addr_rules) <= MaxAddrRules
  /\ Len(size_rules) <= MaxNameRules
  /\ Len(name_rules) <= MaxNameRules
  /\ {rules_loaded, layer2_active, routing_ever_used} \subseteq BOOLEAN
  /\ rules_lock \in Callers \cup {NoThread}
  /\ pc \in [Callers -> Locations]
  /\ req \in [Threads -> Requests]
  /\ result \in [Threads -> Int]

Init ==
  /\ conf \in {NoFile} \cup BoundedSeq(Lines, MaxFile)
  /\ pos = 0
  /\ addr_rules = <<>> /\ size_rules = <<>> /\ name_rules = <<>>
  /\ rules_loaded = FALSE
  /\ layer2_active = FALSE
  /\ routing_ever_used = FALSE
  /\ rules_lock = NoThread
  /\ pc = [t \in Callers |-> IF t = Loader THEN "check" ELSE "idle"]
  /\ req \in [Threads -> Requests]
  /\ result = [t \in Threads |-> NoMatch]

Goto(t, from, to) ==
  /\ pc[t] = from
  /\ pc' = [pc EXCEPT ![t] = to]

-----------------------------------------------------------------------------
(* Parsing of one line.  "addr" is 0xA-0xB = node, "name" what only the    *)
(* last scanf accepts, "skip" a comment, an empty line, or a line no scanf *)
(* accepts; the other kinds are the prefix the line begins with.           *)

NodeOf(word) == IF word = LocalWord THEN LocalNode ELSE word

SizeRule(l) == [min_size |-> l.lo, max_size |-> l.hi, node |-> NodeOf(l.node)]

(* strncmp compares nine characters with the eight of "size_gt:" and of    *)
(* "size_lt:", so their branches are taken by no line: what begins with    *)
(* either goes on to the last scanf, which accepts it as a name.           *)
IsSizeLine(l) == l.kind = "size_range"
IsNameLine(l) == l.kind \in {"name", "size_gt", "size_lt"}

AddAddrRule(l) ==
  /\ l.kind = "addr"
  /\ Len(addr_rules) < MaxAddrRules
  /\ addr_rules' = Append(addr_rules,
                     [start |-> l.lo, end |-> l.hi, node |-> NodeOf(l.node)])
  /\ UNCHANGED <<size_rules, name_rules>>

(* Mutant: the capacity of size_rules is not tested. *)
AddSizeRule_Unbounded(l) ==
  /\ IsSizeLine(l)
  /\ size_rules' = Append(size_rules, SizeRule(l))
  /\ UNCHANGED <<addr_rules, name_rules>>

AddSizeRule(l) ==
  /\ IsSizeLine(l)
  /\ size_rules' = IF Len(size_rules) < MaxNameRules
                   THEN Append(size_rules, SizeRule(l)) ELSE size_rules
  /\ UNCHANGED <<addr_rules, name_rules>>

(* An address line that no longer fits falls through to the last scanf,    *)
(* which accepts it as a name.                                             *)
AddNameRule(l) ==
  /\ \/ IsNameLine(l)
     \/ l.kind = "addr" /\ Len(addr_rules) >= MaxAddrRules
  /\ name_rules' = IF Len(name_rules) < MaxNameRules
                   THEN Append(name_rules, [node |-> NodeOf(l.node)])
                   ELSE name_rules
  /\ UNCHANGED <<addr_rules, size_rules>>

SkipLine(l) == l.kind = "skip" /\ UNCHANGED tables

-----------------------------------------------------------------------------
(* load_rules, called by any thread: a double-checked lock.                *)

(* Where load_rules returns to. *)
Return(t) == IF t = Loader THEN "idle" ELSE "resolve"

LoadCheck(t) ==
  /\ Goto(t, "check", IF rules_loaded THEN Return(t) ELSE "lock")
  /\ UNCHANGED <<conf, pos, tables, rules_loaded, layer2_active,
                 routing_ever_used, rules_lock, req, result>>

LoadLock(t) ==
  /\ Goto(t, "lock", "recheck")
  /\ rules_lock = NoThread
  /\ rules_lock' = t
  /\ UNCHANGED <<conf, pos, tables, rules_loaded, layer2_active,
                 routing_ever_used, req, result>>

(* Mutant: the flags are raised on entry instead of after the loop. *)
LoadOpen_FlagsFirst(t) ==
  /\ Goto(t, "recheck", IF rules_loaded \/ conf = NoFile THEN "unlock" ELSE "read")
  /\ rules_loaded' = TRUE
  /\ layer2_active' = (conf # NoFile)
  /\ pos' = 0
  /\ UNCHANGED <<conf, tables, routing_ever_used, rules_lock, req, result>>

(* The second check and fopen. *)
LoadOpen(t) ==
  \/ /\ rules_loaded
     /\ Goto(t, "recheck", "unlock")
     /\ UNCHANGED <<conf, pos, tables, rules_loaded, layer2_active,
                    routing_ever_used, rules_lock, req, result>>
  \/ /\ ~rules_loaded /\ conf = NoFile
     /\ Goto(t, "recheck", "unlock")
     /\ rules_loaded' = TRUE
     /\ layer2_active' = FALSE
     /\ UNCHANGED <<conf, pos, tables, routing_ever_used, rules_lock, req, result>>
  \/ /\ ~rules_loaded /\ conf # NoFile
     /\ Goto(t, "recheck", "read")
     /\ pos' = 0
     /\ UNCHANGED <<conf, tables, rules_loaded, layer2_active,
                    routing_ever_used, rules_lock, req, result>>

LoadLine(t) ==
  /\ Goto(t, "read", "read")
  /\ pos < Len(conf)
  /\ pos' = pos + 1
  /\ LET l == conf[pos + 1]
     IN  AddAddrRule(l) \/ AddSizeRule(l) \/ AddNameRule(l) \/ SkipLine(l)
  /\ UNCHANGED <<conf, rules_loaded, layer2_active, routing_ever_used,
                 rules_lock, req, result>>

LoadEnd(t) ==
  /\ Goto(t, "read", "publish")
  /\ pos = Len(conf)
  /\ UNCHANGED <<conf, pos, tables, rules_loaded, layer2_active,
                 routing_ever_used, rules_lock, req, result>>

(* layer2_active becomes visible one store before rules_loaded. *)
LoadPublish(t) ==
  /\ Goto(t, "publish", "loaded")
  /\ layer2_active' = (Len(addr_rules) + Len(size_rules) + Len(name_rules) > 0)
  /\ UNCHANGED <<conf, pos, tables, rules_loaded, routing_ever_used,
                 rules_lock, req, result>>

LoadDone(t) ==
  /\ Goto(t, "loaded", "unlock")
  /\ rules_loaded' = TRUE
  /\ UNCHANGED <<conf, pos, tables, layer2_active, routing_ever_used,
                 rules_lock, req, result>>

(* Mutant: a return that forgets pthread_mutex_unlock. *)
LoadUnlock_Forgotten(t) ==
  /\ Goto(t, "unlock", Return(t))
  /\ UNCHANGED <<conf, pos, tables, rules_loaded, layer2_active,
                 routing_ever_used, rules_lock, req, result>>

LoadUnlock(t) ==
  /\ Goto(t, "unlock", Return(t))
  /\ rules_lock' = NoThread
  /\ UNCHANGED <<conf, pos, tables, rules_loaded, layer2_active,
                 routing_ever_used, req, result>>

-----------------------------------------------------------------------------
(* The routing decision of malloc and calloc.                              *)

AllocCall(t) ==
  /\ t \in Threads
  /\ Goto(t, "idle", IF layer2_active /\ req[t].size > RouteThreshold
                     THEN "check" ELSE "libc")
  /\ UNCHANGED <<conf, pos, tables, rules_loaded, layer2_active,
                 routing_ever_used, rules_lock, req, result>>

Decide(t) ==
  resolve_node(layer2_active, size_rules, addr_rules,
               req[t].size, req[t].caller, Home[t], CpuNode[t])

AllocResolve(t) ==
  /\ Goto(t, "resolve", IF Decide(t) >= 0 THEN "numa" ELSE "libc")
  /\ result' = [result EXCEPT ![t] = Decide(t)]
  /\ routing_ever_used' = (routing_ever_used \/ Decide(t) # NoMatch)
  /\ UNCHANGED <<conf, pos, tables, rules_loaded, layer2_active, rules_lock, req>>

(* The hook returns; the thread allocates again, any request. *)
AllocReturn(t) ==
  /\ pc[t] \in {"libc", "numa"}
  /\ Goto(t, pc[t], "idle")
  /\ result' = [result EXCEPT ![t] = NoMatch]
  /\ \E r \in Requests : req' = [req EXCEPT ![t] = r]
  /\ UNCHANGED <<conf, pos, tables, rules_loaded, layer2_active,
                 routing_ever_used, rules_lock>>

-----------------------------------------------------------------------------
Load(t) ==
  \/ LoadCheck(t) \/ LoadLock(t) \/ LoadOpen(t) \/ LoadLine(t) \/ LoadEnd(t)
  \/ LoadPublish(t) \/ LoadDone(t) \/ LoadUnlock(t)

Next ==
  \/ \E t \in Callers : Load(t)
  \/ \E t \in Threads : AllocCall(t) \/ AllocResolve(t) \/ AllocReturn(t)

(* Every thread is scheduled; rules_lock is taken once by each caller of   *)
(* load_rules, so a thread that keeps trying gets it.                      *)
Fairness == \A t \in Callers : WF_vars(Load(t)) /\ WF_vars(AllocResolve(t))

Spec == Init /\ [][Next]_vars /\ Fairness

-----------------------------------------------------------------------------
(* What the lines declare, by the comments on them and said without the    *)
(* tables: size_gt, size_lt and size_range lines are about the size, as    *)
(* many as size_rules holds; then come the address lines.                  *)

SizeKinds == {"size_gt", "size_lt", "size_range"}

FirstLines(kinds, n) ==
  LET OfKinds(p) == {q \in 1..p : conf[q].kind \in kinds}
  IN  {p \in OfKinds(Len(conf)) : Cardinality(OfKinds(p)) <= n}

(* size_gt is for what is larger than its bound, size_lt for what is       *)
(* smaller; size_range:A-B takes from A to below B, where a B of 0 does    *)
(* not restrict.                                                           *)
Covers(l, sz) ==
  \/ l.kind = "size_gt" /\ sz > l.lo
  \/ l.kind = "size_lt" /\ sz < l.lo
  \/ l.kind = "size_range" /\ sz >= l.lo /\ (l.hi = 0 \/ sz < l.hi)

SizeHits(r) == {p \in FirstLines(SizeKinds, MaxNameRules) : Covers(conf[p], r.size)}
AddrHits(r) == {p \in FirstLines({"addr"}, MaxAddrRules) :
                  r.caller >= conf[p].lo /\ r.caller < conf[p].hi}

(* The first of them decides, if it has a node.                            *)
Decides(hits) == hits # {} /\ conf[Min(hits)].node \in Nat \cup {LocalWord}

(* The lines the first of which decides a request: none if it is for libc. *)
Deciding(r) ==
  CASE Decides(SizeHits(r)) -> SizeHits(r)
    [] ~Decides(SizeHits(r)) /\ Decides(AddrHits(r)) -> AddrHits(r)
    [] OTHER -> {}

(* "'local' keyword: route to calling thread's home node", and to the node *)
(* of its CPU if it has no home node.                                      *)
NodeFor(t, word) ==
  CASE word # LocalWord -> word
    [] word = LocalWord /\ Home[t] < 0 -> CpuNode[t]
    [] OTHER -> Home[t]

Declared(t, r) ==
  IF Deciding(r) = {} THEN NoMatch ELSE NodeFor(t, conf[Min(Deciding(r))].node)

Resolves(t) == pc[t] = "resolve" /\ pc'[t] # "resolve"

SentAsDeclared(t) ==
  IF Declared(t, req[t]) \in Nat
  THEN pc'[t] = "numa" /\ result'[t] = Declared(t, req[t]) ELSE pc'[t] = "libc"

(* The library reads no size_gt and no size_lt line, and takes 'local' for *)
(* no node.                                                                *)
ReadAsMeant(r) ==
  /\ \A p \in 1..Len(conf) : conf[p].kind \notin {"size_gt", "size_lt"}
  /\ Deciding(r) # {} => conf[Min(Deciding(r))].node # LocalWord

-----------------------------------------------------------------------------
(* No thread resolves a node against rules that are still being read: the  *)
(* check of rules_loaded outside the lock, the store to layer2_active      *)
(* ahead of it, and the malloc hook that runs at the same time leave no    *)
(* window in which a partly filled table is consulted.                     *)
ResolvesWholeFile ==
  \A t \in Threads : pc[t] = "resolve" => rules_loaded /\ pos = Len(conf)

(* A thread is sent where the file says, whatever the order in which       *)
(* threads came to load it: to the node of the first covering size line,   *)
(* then of the first address line, the tables' capacities counted, and to  *)
(* libc only if the file gives no node - as long as the file has no        *)
(* size_gt and no size_lt line and no 'local' decides.                     *)
RoutedAsDeclared ==
  [][\A t \in Threads : Resolves(t) /\ ReadAsMeant(req[t]) => SentAsDeclared(t)]_vars

(* The same of every file, as the comments have it: 'local' is the home    *)
(* node of the calling thread.  The code denies it: match_size returns -2  *)
(* for 'local', and resolve_node goes on only from a node that is not      *)
(* negative, so resolve_node_relative never meets the -2 it looks for.     *)
RoutedAsDocumented == [][\A t \in Threads : Resolves(t) => SentAsDeclared(t)]_vars

(* A thread that entered load_rules comes back: the lock is released on    *)
(* the early return, on a missing file and after the loop.                 *)
LoadReturns ==
  \A t \in Callers : pc[t] \in {"check", "lock"} ~> pc[t] = Return(t)
=============================================================================
