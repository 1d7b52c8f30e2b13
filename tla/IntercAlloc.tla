---------------------------- MODULE IntercAlloc ----------------------------
(***************************************************************************)
(* The malloc, calloc, realloc and free hooks of interc/ldlib.c in Mode 3, *)
(* with the hash map that remembers which blocks came from                 *)
(* numa_alloc_onnode.                                                      *)
(*                                                                         *)
(* The map is a table of singly linked lists that no lock protects.  A     *)
(* step is one access to shared memory (a bucket, a field of an entry, the *)
(* flag) or one call of an allocator, and the steps of the threads         *)
(* interleave freely.  calloc and the C++ operators are malloc and free    *)
(* with the size they compute.  Only mode PASSIVE, in which the hooks are  *)
(* libc, is left out.                                                      *)
(*                                                                         *)
(* Two variables are history: overtaken says whether a thread has written  *)
(* over what another one had read of the map and was to go by, unrecorded  *)
(* which blocks of numa_alloc_onnode the hooks themselves left out of the  *)
(* map.                                                                    *)
(***************************************************************************)
EXTENDS Integers, FiniteSets

CONSTANTS
  Threads,
  Addrs,        \* addresses of blocks, either allocator may return any
  Buckets,      \* indices of addr_hash
  Hash,         \* addr_hash_fn
  Entries,      \* memory cells for struct addr_entry
  Sizes,        \* sizes the application asks for
  Routed,       \* sizes above ROUTE_THRESHOLD for which a rule names a node
  Failures,     \* allocators that may fail: "numa", "entry", "libc"
  Nil           \* the null pointer

ASSUME AllocAssumption ==
  /\ Hash \in [Addrs -> Buckets]
  /\ Sizes \subseteq Nat
  /\ Routed \subseteq Sizes \ {0}
  /\ Nil \notin Addrs \cup Entries

VARIABLES
  block,              \* state of the memory at each address
  held,               \* blocks the application has and has passed to no hook
  addr_hash,          \* first entry of each bucket
  entry,              \* addr and size fields of each cell
  next,               \* next field of each cell
  live,               \* cells allocated to entries
  layer2_active, routing_ever_used,
  pc,                 \* where each thread is in the hook it runs
  call,               \* the hook's arguments
  old,                \* result of check_and_remove_seg
  new,                \* result of the (inner) malloc
  cursor,             \* pp (Nil: the bucket), e, and e->next as read
  overtaken,          \* has a thread written over what another goes by?
  unrecorded          \* routed blocks whose entry failed or was dropped

heap == <<block, held>>
table == <<addr_hash, entry, next, live>>
flags == <<layer2_active, routing_ever_used>>
history == <<overtaken, unrecorded>>
vars == <<heap, table, flags, pc, call, old, new, cursor, history>>

Free == [by |-> "free", size |-> 0]
NoCall == [op |-> "none", ptr |-> Nil, size |-> 0]
NoEntry == [addr |-> Nil, size |-> 0]
NoCursor == [pp |-> Nil, e |-> Nil, nxt |-> Nil]

Locations == {"idle", "malloc", "numa_alloc", "record", "rec_write",
              "libc_alloc", "done", "free", "find", "compare", "unlink",
              "numa_free", "libc_free", "libc_realloc"}

Blocks == [by : {"free", "numa", "libc"}, size : Sizes \cup {0}]
Cells == [addr : Addrs \cup {Nil}, size : Sizes \cup {0}]
Calls == [op : {"none", "malloc", "realloc", "free"},
          ptr : Addrs \cup {Nil}, size : Sizes \cup {0}]
Cursors == [pp : Entries \cup {Nil}, e : Entries \cup {Nil}, nxt : Entries \cup {Nil}]

TypeOK ==
  /\ block \in [Addrs -> Blocks]
  /\ held \in SUBSET Addrs
  /\ addr_hash \in [Buckets -> Entries \cup {Nil}]
  /\ entry \in [Entries -> Cells]
  /\ next \in [Entries -> Entries \cup {Nil}]
  /\ live \in SUBSET Entries
  /\ layer2_active \in BOOLEAN
  /\ routing_ever_used \in BOOLEAN
  /\ pc \in [Threads -> Locations]
  /\ call \in [Threads -> Calls]
  /\ old \in [Threads -> Sizes \cup {0}]
  /\ new \in [Threads -> Addrs \cup {Nil}]
  /\ cursor \in [Threads -> Cursors]
  /\ overtaken \in BOOLEAN
  /\ unrecorded \in SUBSET Addrs

(* The library is loaded: no rule has been published yet. *)
Init ==
  /\ block = [a \in Addrs |-> Free]
  /\ held = {}
  /\ addr_hash = [b \in Buckets |-> Nil]
  /\ entry = [e \in Entries |-> NoEntry]
  /\ next = [e \in Entries |-> Nil]
  /\ live = {}
  /\ layer2_active = FALSE
  /\ routing_ever_used = FALSE
  /\ pc = [t \in Threads |-> "idle"]
  /\ call = [t \in Threads |-> NoCall]
  /\ old = [t \in Threads |-> 0]
  /\ new = [t \in Threads |-> Nil]
  /\ cursor = [t \in Threads |-> NoCursor]
  /\ overtaken = FALSE
  /\ unrecorded = {}

Goto(t, from, to) ==
  /\ pc[t] = from
  /\ pc' = [pc EXCEPT ![t] = to]

(* The hook returns and the application holds the blocks in gained. *)
Return(t, from, gained) ==
  /\ Goto(t, from, "idle")
  /\ held' = held \cup gained
  /\ call' = [call EXCEPT ![t] = NoCall]
  /\ old' = [old EXCEPT ![t] = 0]
  /\ new' = [new EXCEPT ![t] = Nil]
  /\ cursor' = [cursor EXCEPT ![t] = NoCursor]

Begin(t, op, p, sz, to) ==
  /\ Goto(t, "idle", to)
  /\ call' = [call EXCEPT ![t] = [op |-> op, ptr |-> p, size |-> sz]]
  /\ UNCHANGED <<block, table, flags, old, new, cursor, history>>

(* Bound: memory does not run out unless an allocator is said to fail. *)
Allocating == {t \in Threads : call[t].op \in {"malloc", "realloc"}}
RoomForAnother ==
  Cardinality({a \in Addrs : block[a].by = "free"}) > Cardinality(Allocating)

-----------------------------------------------------------------------------
(* Calls of the application. *)

(* The constructor's load_rules found a rule (IntercRules). *)
PublishRules ==
  /\ ~layer2_active
  /\ layer2_active' = TRUE
  /\ UNCHANGED <<heap, table, routing_ever_used, pc, call, old, new, cursor, history>>

CallMalloc(t, sz) ==
  /\ RoomForAnother
  /\ Begin(t, "malloc", Nil, sz, "malloc")
  /\ UNCHANGED held

CallFree(t, p) ==
  /\ p \in held
  /\ held' = held \ {p}
  /\ Begin(t, "free", p, 0, "free")

(* realloc takes no fast path; a null pointer makes it a malloc. *)
CallRealloc(t, p, sz) ==
  /\ RoomForAnother
  /\ \/ p \in held /\ Begin(t, "realloc", p, sz, "find")
     \/ p = Nil /\ Begin(t, "malloc", Nil, sz, "malloc")
  /\ held' = held \ {p}

-----------------------------------------------------------------------------
(* malloc *)

(* resolve_node names a node for the request. *)
Routes(t) == layer2_active /\ call[t].size \in Routed

(* Mutant: routing_ever_used is not raised. *)
FlagAfter_Kept(t) == routing_ever_used

(* resolve_node raises the flag, before the block exists. *)
FlagAfter(t) == routing_ever_used \/ Routes(t)

MallocDecide(t) ==
  /\ Goto(t, "malloc", IF Routes(t) THEN "numa_alloc" ELSE "libc_alloc")
  /\ routing_ever_used' = FlagAfter(t)
  /\ UNCHANGED <<heap, table, layer2_active, call, old, new, cursor, history>>

(* An allocator gives t the block at a. *)
Take(t, a, by) ==
  /\ block[a] = Free
  /\ block' = [block EXCEPT ![a] = [by |-> by, size |-> call[t].size]]
  /\ new' = [new EXCEPT ![t] = a]

NumaAlloc(t) ==
  /\ \/ \E a \in Addrs : Take(t, a, "numa") /\ Goto(t, "numa_alloc", "record")
     \/ /\ "numa" \in Failures
        /\ Goto(t, "numa_alloc", "libc_alloc")
        /\ UNCHANGED <<block, new>>
  /\ UNCHANGED <<held, table, flags, call, old, cursor, history>>

LibcAlloc(t) ==
  /\ Goto(t, "libc_alloc", "done")
  /\ \/ \E a \in Addrs : Take(t, a, "libc")
     \/ "libc" \in Failures /\ UNCHANGED <<block, new>>
  /\ UNCHANGED <<held, table, flags, call, old, cursor, history>>

(* malloc returns to the application, or to realloc.                       *)
MallocReturn(t) ==
  /\ call[t].op = "malloc"
  /\ Return(t, "done", {new[t]} \ {Nil})
  /\ UNCHANGED <<block, table, flags, history>>

-----------------------------------------------------------------------------
(* record_seg and check_and_remove_seg *)

(* What u has read of the map and goes by: it is going to write *pp, it    *)
(* has the head of bucket b as the first entry or as the one to put behind *)
(* its own, it stands on entry e or has it in hand, it has e->next.        *)
WillUnlink(u) ==
  \/ pc[u] = "unlink"
  \/ pc[u] = "compare" /\ entry[cursor[u].e].addr = call[u].ptr

GoesByHead(u, b) ==
  \/ pc[u] = "rec_write" /\ b = Hash[new[u]]
  \/ WillUnlink(u) /\ cursor[u].pp = Nil /\ b = Hash[call[u].ptr]

GoesByEntry(u, e) ==
  \/ pc[u] = "find" /\ cursor[u].pp = e
  \/ pc[u] = "compare" /\ cursor[u].e = e
  \/ WillUnlink(u) /\ cursor[u].pp = e

GoesByNext(u, e) == pc[u] = "unlink" /\ cursor[u].e = e

(* Mutant: the recorded size is rounded up. *)
NewEntry_Rounded(t) == [addr |-> new[t], size |-> call[t].size + 1]

NewEntry(t) == [addr |-> new[t], size |-> call[t].size]

(* e->next *)
Successor(t, e) == addr_hash[Hash[new[t]]]

(* The entry is allocated and filled, and the head of the list is read; if *)
(* the entry cannot be allocated the block is not recorded.                *)
RecordPrepare(t) ==
  /\ pc[t] = "record"
  /\ \/ /\ Goto(t, "record", "rec_write")
        /\ \E e \in Entries \ live :
             /\ live' = live \cup {e}
             /\ entry' = [entry EXCEPT ![e] = NewEntry(t)]
             /\ next' = [next EXCEPT ![e] = Successor(t, e)]
             /\ cursor' = [cursor EXCEPT ![t] = [pp |-> Nil, e |-> e, nxt |-> Nil]]
        /\ UNCHANGED unrecorded
     \/ /\ "entry" \in Failures
        /\ Goto(t, "record", "done")
        /\ unrecorded' = unrecorded \cup {new[t]}
        /\ UNCHANGED <<live, entry, next, cursor>>
  /\ UNCHANGED <<heap, addr_hash, flags, call, old, new, overtaken>>

RecordWrite(t) ==
  /\ Goto(t, "rec_write", "done")
  /\ addr_hash' = [addr_hash EXCEPT ![Hash[new[t]]] = cursor[t].e]
  /\ cursor' = [cursor EXCEPT ![t] = NoCursor]
  /\ overtaken' = (overtaken \/ \E u \in Threads \ {t} : GoesByHead(u, Hash[new[t]]))
  /\ UNCHANGED <<heap, entry, next, live, flags, call, old, new, unrecorded>>

(* What the traversal reads through pp. *)
Target(t) ==
  IF cursor[t].pp = Nil THEN addr_hash[Hash[call[t].ptr]] ELSE next[cursor[t].pp]

FindMiss(t) ==
  /\ Goto(t, "find", IF call[t].op = "free" THEN "libc_free" ELSE "libc_realloc")
  /\ Target(t) = Nil
  /\ cursor' = [cursor EXCEPT ![t] = NoCursor]
  /\ UNCHANGED <<heap, table, flags, call, old, new, history>>

FindEntry(t) ==
  /\ Goto(t, "find", "compare")
  /\ Target(t) # Nil
  /\ cursor' = [cursor EXCEPT ![t].e = Target(t)]
  /\ UNCHANGED <<heap, table, flags, call, old, new, history>>

(* The loop reads what pp points at. *)
Find(t) == FindMiss(t) \/ FindEntry(t)

(* Mutant: the loop does not advance. *)
Advance_Stays(t) == cursor[t].pp

(* pp = &e->next *)
Advance(t) == cursor[t].e

CompareNext(t) ==
  /\ Goto(t, "compare", "find")
  /\ entry[cursor[t].e].addr # call[t].ptr
  /\ cursor' = [cursor EXCEPT ![t] = [pp |-> Advance(t), e |-> Nil, nxt |-> Nil]]
  /\ UNCHANGED <<heap, table, flags, call, old, new, history>>

CompareHit(t) ==
  LET e == cursor[t].e IN
  /\ Goto(t, "compare", "unlink")
  /\ entry[e].addr = call[t].ptr
  /\ old' = [old EXCEPT ![t] = entry[e].size]
  /\ cursor' = [cursor EXCEPT ![t].nxt = next[e]]
  /\ UNCHANGED <<heap, table, flags, call, new, history>>

(* The entry is the one looked for, or the loop goes on. *)
Compare(t) == CompareNext(t) \/ CompareHit(t)

(* Mutant: the bucket is not written when the entry is its first one. *)
HeadAfter_Kept(t) == addr_hash[Hash[call[t].ptr]]

(* Mutant: unlinking the first entry empties the bucket. *)
HeadAfter_DropRest(t) ==
  IF cursor[t].pp = Nil THEN Nil ELSE addr_hash[Hash[call[t].ptr]]

(* The bucket after *pp = e->next. *)
HeadAfter(t) ==
  IF cursor[t].pp = Nil THEN cursor[t].nxt ELSE addr_hash[Hash[call[t].ptr]]

(* The next fields after *pp = e->next. *)
NextAfter(t) ==
  IF cursor[t].pp = Nil THEN next ELSE [next EXCEPT ![cursor[t].pp] = cursor[t].nxt]

(* Mutant: the entry is unlinked but not freed. *)
Released_None(t) == {}

(* What libc_free is given. *)
Released(t) == {cursor[t].e}

(* Some other thread goes by what t writes in *pp, or by the entry it      *)
(* frees.                                                                  *)
UnlinkOvertakes(t) ==
  \E u \in Threads \ {t} :
    \/ cursor[t].pp = Nil /\ GoesByHead(u, Hash[call[t].ptr])
    \/ cursor[t].pp # Nil /\ GoesByNext(u, cursor[t].pp)
    \/ GoesByEntry(u, cursor[t].e)

(* *pp = e->next, and the entry is given back to libc.  A freed cell is    *)
(* cleared: until a thread has been overtaken it is not read again         *)
(* (NoFreedEntryTouched).                                                  *)
Unlink(t) ==
  LET e == cursor[t].e IN
  /\ Goto(t, "unlink", IF call[t].op = "free" THEN "numa_free" ELSE "malloc")
  /\ addr_hash' = [addr_hash EXCEPT ![Hash[call[t].ptr]] = HeadAfter(t)]
  /\ next' = [NextAfter(t) EXCEPT ![e] = Nil]
  /\ live' = live \ Released(t)
  /\ entry' = [entry EXCEPT ![e] = NoEntry]
  /\ cursor' = [cursor EXCEPT ![t] = NoCursor]
  /\ overtaken' = (overtaken \/ UnlinkOvertakes(t))
  /\ UNCHANGED <<heap, flags, call, old, new, unrecorded>>

-----------------------------------------------------------------------------
(* free and realloc *)

(* Fast path: no thread ever routed a block. *)
FreeDecide(t) ==
  /\ Goto(t, "free", IF routing_ever_used THEN "find" ELSE "libc_free")
  /\ UNCHANGED <<heap, table, flags, call, old, new, cursor, history>>

LibcFree(t) ==
  /\ Return(t, "libc_free", {})
  /\ block' = [block EXCEPT ![call[t].ptr] = Free]
  /\ unrecorded' = unrecorded \ {call[t].ptr}
  /\ UNCHANGED <<table, flags, overtaken>>

(* realloc has a new block: it copies and frees the old one. *)
ReallocCopy(t) ==
  /\ call[t].op = "realloc" /\ new[t] # Nil
  /\ Goto(t, "done", "numa_free")
  /\ UNCHANGED <<heap, table, flags, call, old, new, cursor, history>>

(* realloc returns NULL: the old block is still the application's, and has *)
(* no entry any more.                                                      *)
ReallocFail(t) ==
  /\ call[t].op = "realloc" /\ new[t] = Nil
  /\ Return(t, "done", {call[t].ptr})
  /\ unrecorded' = unrecorded \cup {call[t].ptr}
  /\ UNCHANGED <<block, table, flags, overtaken>>

NumaFree(t) ==
  /\ Return(t, "numa_free", IF call[t].op = "realloc" THEN {new[t]} ELSE {})
  /\ block' = [block EXCEPT ![call[t].ptr] = Free]
  /\ unrecorded' = unrecorded \ {call[t].ptr}
  /\ UNCHANGED <<table, flags, overtaken>>

(* libc resizes in place, moves the block, or fails and leaves it.         *)
LibcRealloc(t) ==
  /\ \/ \E a \in Addrs :
          /\ block[a] = Free \/ a = call[t].ptr
          /\ Return(t, "libc_realloc", {a})
          /\ block' = [block EXCEPT ![call[t].ptr] = Free,
                                    ![a] = [by |-> "libc", size |-> call[t].size]]
          /\ unrecorded' = unrecorded \ {call[t].ptr}
     \/ /\ "libc" \in Failures
        /\ Return(t, "libc_realloc", {call[t].ptr})
        /\ UNCHANGED <<block, unrecorded>>
  /\ UNCHANGED <<table, flags, overtaken>>

-----------------------------------------------------------------------------
App(t) ==
  \/ \E sz \in Sizes : CallMalloc(t, sz)
  \/ \E p \in Addrs : CallFree(t, p)
  \/ \E p \in Addrs \cup {Nil}, sz \in Sizes : CallRealloc(t, p, sz)

Hook(t) ==
  \/ MallocDecide(t) \/ NumaAlloc(t) \/ LibcAlloc(t) \/ MallocReturn(t)
  \/ RecordPrepare(t) \/ RecordWrite(t) \/ Find(t) \/ Compare(t) \/ Unlink(t)
  \/ FreeDecide(t) \/ LibcFree(t) \/ ReallocCopy(t) \/ ReallocFail(t)
  \/ NumaFree(t) \/ LibcRealloc(t)

Next == PublishRules \/ \E t \in Threads : App(t) \/ Hook(t)

Spec == Init /\ [][Next]_vars

(* A thread inside a hook is scheduled. *)
FairSpec == Spec /\ \A t \in Threads : WF_vars(Hook(t))

-----------------------------------------------------------------------------
(* What the hooks are for: every block goes back to the allocator it came  *)
(* from, and numa_free is told the size the block was allocated with (it   *)
(* unmaps that many bytes).                                                *)
FreeMatchesOrigin ==
  \A t \in Threads :
    /\ pc[t] \in {"libc_free", "libc_realloc"} => block[call[t].ptr].by = "libc"
    /\ pc[t] = "numa_free" => block[call[t].ptr] = [by |-> "numa", size |-> old[t]]

(* What the code achieves of it, whatever the threads do in one bucket and *)
(* whichever allocator fails: until a thread is overtaken, numa_free gets  *)
(* what numa_alloc_onnode gave, and libc gets a routed block only when     *)
(* record_seg could not allocate its entry, or a realloc had removed the   *)
(* entry and then found no new block.                                      *)
FreeMatchesRecord ==
  ~overtaken =>
    \A t \in Threads :
      /\ pc[t] \in {"libc_free", "libc_realloc"} =>
           block[call[t].ptr].by = "libc" \/ call[t].ptr \in unrecorded
      /\ pc[t] = "numa_free" => block[call[t].ptr] = [by |-> "numa", size |-> old[t]]

(* Until a thread is overtaken, the map is walked through entries that     *)
(* have not been given back to libc, however far a traversal has come and  *)
(* whatever the others link and unlink in its bucket meanwhile.            *)
NoFreedEntryTouched ==
  ~overtaken =>
    \A t \in Threads :
      /\ pc[t] = "find" => {cursor[t].pp, Target(t)} \subseteq live \cup {Nil}
      /\ pc[t] = "compare" => cursor[t].e \in live
      /\ pc[t] = "unlink" =>
           cursor[t].e \in live /\ cursor[t].pp \in live \cup {Nil}

(* S has the first entry of every bucket, and what follows each of its own. *)
Closed(S) ==
  /\ \A b \in Buckets : addr_hash[b] \in S \cup {Nil}
  /\ \A e \in S : next[e] \in S \cup {Nil}

(* The entries that are reached from the buckets, the least closed set. *)
InTable == {e \in Entries : \A S \in SUBSET Entries : Closed(S) => e \in S}

(* Until a thread is overtaken, an entry leaves the map when its block     *)
(* does: none is leaked and none is given back while linked.               *)
EntriesNotLeaked ==
  ~overtaken =>
    live = InTable \cup {cursor[t].e : t \in {u \in Threads : pc[u] = "rec_write"}}

(* A search comes to an end however the others change the list under it,   *)
(* unless a thread is overtaken.                                           *)
TraversalEnds ==
  \A t \in Threads : (pc[t] = "find") ~> (pc[t] \notin {"find", "compare"} \/ overtaken)

-----------------------------------------------------------------------------
(* The list-based map implements the abstract table: each call of          *)
(* record_seg takes effect when the bucket is written, each removal when   *)
(* the predecessor is, or when the end of the list is read, with any       *)
(* number of threads in a bucket, until one of them is overtaken.          *)

NoTableCall == [kind |-> "none"]

AbstractCall(t) ==
  CASE pc[t] \in {"record", "rec_write"} ->
         [kind |-> "record", seg |-> [addr |-> new[t], size |-> call[t].size]]
    [] pc[t] \in {"find", "compare", "unlink"} -> [kind |-> "remove", addr |-> call[t].ptr]
    [] OTHER -> NoTableCall

TableSegs == {entry[e] : e \in InTable}
TableCalls == [t \in Threads |-> AbstractCall(t)]
TableRets == [t \in Threads |-> IF pc[t] = "unlink" THEN 0 ELSE old[t]]

Table == INSTANCE SegTable WITH
  segs <- TableSegs, call <- TableCalls, ret <- TableRets, torn <- overtaken,
  Idle <- NoTableCall

TableSpec == Table!Spec
=============================================================================
